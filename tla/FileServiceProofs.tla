------------------------- MODULE FileServiceProofs -------------------------
(***************************************************************************)
(* What the file service guarantees.  Of writes: for any number of         *)
(* workers, requests, failures and changes by other programs.  Of access:  *)
(* for any policy and any request, path and tree of entries.  Of edits:    *)
(* for any files and lists of edits.                                       *)
(***************************************************************************)
EXTENDS FileService, Sequences, FiniteSetTheorems, SequenceTheorems, WellFoundedInduction, TLAPS

\* What may be written, by a request or by a prepared edit.
Writes == {Requests[id] : id \in Ids}
          \cup {[expected |-> c, content |-> EditOf[c]] : c \in DOMAIN EditOf}

\* What a request is to write, by its id: at most one thing.
Asked(id) == IF id = Edit THEN prepared ELSE {Requests[id]}

Pcs == {"idle", "check", "exists", "create", "fill", "verify", "backup", "copy", "prepare",
        "replace", "mark", "confirm", "commit"}

Job == [pc : Pcs, call : Nat, id : Ids \cup {Absent}, backs : BOOLEAN, fresh : BOOLEAN,
        req : Writes \cup {Absent}]
Replacement == [id : Ids, call : Nat, req : Writes, away : Contents \cup {Absent},
                backs : BOOLEAN, fresh : BOOLEAN]

\* Types, and that whoever serves a request writes what was asked for.
TypeInv ==
    /\ target \in Contents \cup {Absent}
    /\ prepared = {} \/ \E req \in Writes : prepared = {req}
    /\ temp \in [Ids -> Contents \cup {Absent, Partial}]
    /\ DOMAIN backup = Ids /\ DOMAIN journal = Ids
    /\ jobs \in Nat
    /\ work \in [Workers -> Job]
    /\ replaced \subseteq Replacement
    /\ \A w \in Workers : work[w].pc # "idle" => Id(w) \in Ids /\ work[w].req \in Asked(Id(w))
    /\ \A r \in replaced : r.req \in Asked(r.id)

\* From its creation to the replacement a temporary file belongs to the write that made it.
Full == {"verify", "backup", "copy", "prepare", "replace"}
Owns(w, id) == work[w].pc \in Full \cup {"fill"} /\ Id(w) = id

OwnInv ==
    /\ \A w, v \in Workers, id \in Ids : Owns(w, id) /\ Owns(v, id) => w = v
    /\ \A w \in Workers : work[w].pc = "fill" => temp[Id(w)] = Partial
    /\ \A w \in Workers : work[w].pc \in Full => temp[Id(w)] = Content(w)

-----------------------------------------------------------------------------
\* Every write changes something.
LEMMA WritesChange ==
    ASSUME ContentsAssumption, NEW req \in Writes
    PROVE  /\ req.expected \in Contents \cup {Absent} /\ req.content \in Contents
           /\ req.content # req.expected
BY DEF ContentsAssumption, Writes, Ids

\* An id stands for one write.
LEMMA AskedOnce ==
    ASSUME TypeInv, NEW id \in Ids, NEW x \in Asked(id), NEW y \in Asked(id)
    PROVE  x = y /\ x \in Writes
BY DEF TypeInv, Asked, Writes

\* A step of one worker leaves the others where they are; and what they have seen of
\* the target is no longer so if it has changed.
Same(v) ==
    /\ work'[v].pc = work[v].pc /\ work'[v].id = work[v].id /\ work'[v].req = work[v].req
    /\ work'[v].backs = work[v].backs
    /\ work'[v].fresh => work[v].fresh /\ target' = target
OthersStay(w) == \A v \in Workers \ {w} : Same(v)

\* The files that a step of a worker leaves alone: those of other requests.
Elsewhere(w) == \A id \in Ids \ {Id(w)} :
                    temp'[id] = temp[id] /\ backup'[id] = backup[id] /\ journal'[id] = journal[id]

\* The job of a worker that goes on, and of one that returns.
LEMMA Goes ==
    ASSUME work \in [Workers -> Job], NEW w \in Workers, NEW x \in Pcs, Goto(w, x)
    PROVE  /\ work' \in [Workers -> Job]
           /\ \A v \in Workers \ {w} : work'[v] = work[v]
           /\ work'[w].pc = x /\ work'[w].id = work[w].id /\ work'[w].req = work[w].req
           /\ work'[w].call = work[w].call /\ work'[w].backs = work[w].backs
           /\ work'[w].fresh = work[w].fresh
<1> DEFINE job == [work[w] EXCEPT !.pc = x]
<1>1. work[w] \in Job
  OBVIOUS
<1>2. /\ job \in Job /\ job.pc = x /\ job.id = work[w].id /\ job.req = work[w].req
      /\ job.call = work[w].call /\ job.backs = work[w].backs /\ job.fresh = work[w].fresh
  BY <1>1 DEF Job
<1>3. work' = [work EXCEPT ![w] = job]
  BY DEF Goto
<1> HIDE DEF job
<1> QED BY <1>2, <1>3

LEMMA Returns ==
    ASSUME work \in [Workers -> Job], NEW w \in Workers, Return(w)
    PROVE  /\ work' \in [Workers -> Job]
           /\ \A v \in Workers \ {w} : work'[v] = work[v]
           /\ work'[w] = Idle /\ work'[w].pc = "idle" /\ work'[w].fresh = FALSE
<1>1. Idle \in Job /\ Idle.pc = "idle" /\ Idle.fresh = FALSE
  BY DEF Idle, Job, Pcs
<1> QED BY <1>1 DEF Return

\* Where a step of write_inner leads.
Leads(w) ==
    \/ work'[w].pc = "idle" /\ ~work'[w].fresh
    \/ /\ work[w].pc # "idle" /\ work'[w].id = work[w].id /\ work'[w].req = work[w].req
       /\ work'[w].call = work[w].call
       /\ \/ work[w].pc = "check" /\ work'[w].pc = "exists"
          \/ work[w].pc = "exists" /\ work'[w].pc = "create"
          \/ work[w].pc = "create" /\ work'[w].pc = "fill"
          \/ work[w].pc = "fill" /\ work'[w].pc = "verify"
          \/ work[w].pc = "verify" /\ work'[w].pc = (IF work'[w].backs THEN "backup" ELSE "prepare")
          \/ /\ \/ work[w].pc = "backup" /\ work'[w].pc = "copy"
                \/ work[w].pc = "copy" /\ work'[w].pc = "prepare"
                \/ work[w].pc = "prepare" /\ work'[w].pc = "replace"
             /\ work'[w].backs = work[w].backs /\ work'[w].fresh = work[w].fresh
          \/ work[w].pc = "replace" /\ work'[w].pc = "mark"
          \/ work[w].pc = "mark" /\ work'[w].pc = "confirm"
          \/ work[w].pc = "confirm" /\ work'[w].pc = "commit"
    \/ work[w].pc = "idle" /\ work'[w].pc = "check" /\ work'[w].req \in Asked(work'[w].id)
       /\ work'[w].id \in Ids

\* A step of one worker leaves the others where they are.
JobStep(w) ==
    /\ work' \in [Workers -> Job]
    /\ Leads(w)
    /\ \A v \in Workers \ {w} : Same(v)

LEMMA JobSteps ==
    ASSUME ContentsAssumption, TypeInv, NEW w \in Workers,
           Stop(w) \/ Serve(w) \/ \E id \in Ids : Begin(w, id)
    PROVE  JobStep(w)
<1> USE DEF JobStep, Leads, Same
<1>0. work \in [Workers -> Job] /\ work[w] \in Job /\ target \in Contents \cup {Absent}
  BY DEF TypeInv
<1>1. ASSUME NEW x \in Pcs, Goto(w, x), UNCHANGED target, work[w].pc # "idle",
             <<work[w].pc, x>> \in {<<"check", "exists">>, <<"create", "fill">>,
                 <<"fill", "verify">>, <<"backup", "copy">>, <<"copy", "prepare">>,
                 <<"prepare", "replace">>, <<"mark", "confirm">>, <<"confirm", "commit">>}
      PROVE  JobStep(w)
  BY <1>0, <1>1, Goes
<1>2. ASSUME Return(w), UNCHANGED target
      PROVE  JobStep(w)
  BY <1>0, <1>2, Returns
<1>3. CASE Stop(w) \/ CopyFails(w)
  BY <1>2, <1>3 DEF Stop, CopyFails
<1>4. ASSUME NEW id \in Ids, Begin(w, id)
      PROVE  JobStep(w)
  <2>1. PICK req \in Asked(id) :
          work' = [work EXCEPT ![w] = [Idle EXCEPT !.pc = "check", !.call = jobs', !.id = id,
                                                   !.req = req]]
    BY <1>4 DEF Begin, Asked
  <2> DEFINE job == [Idle EXCEPT !.pc = "check", !.call = jobs', !.id = id, !.req = req]
  <2>2. req \in Writes /\ jobs' \in Nat
    <3>0. jobs' = jobs + 1 /\ jobs \in Nat
      BY <1>4, Zenon DEF Begin, TypeInv
    <3>1. jobs' \in Nat
      BY <3>0
    <3>2. req \in Asked(id)
      BY <2>1
    <3> QED BY <3>1, <3>2, AskedOnce
  <2>3. job \in Job /\ job.pc = "check" /\ job.id = id /\ job.req = req
    BY <2>2 DEF Idle, Job, Pcs
  <2> HIDE DEF job
  <2>4. work[w].pc = "idle" /\ work' = [work EXCEPT ![w] = job] /\ UNCHANGED target
    BY <1>4, <2>1 DEF Begin, job
  <2>5. /\ work' \in [Workers -> Job] /\ work'[w] = job
        /\ \A v \in Workers \ {w} : work'[v] = work[v]
    BY <1>0, <2>3, <2>4
  <2> QED BY <1>0, <2>1, <2>3, <2>4, <2>5
<1>5. CASE Check(w) \/ Create(w) \/ Fill(w)
  BY <1>1, <1>2, <1>5 DEF Check, Create, Fill, Pcs
<1>6. CASE BeginBackup(w) \/ Copy(w) \/ Prepare(w)
  BY <1>1, <1>2, <1>6 DEF BeginBackup, Copy, Prepare, Pcs
<1>7. CASE Mark(w) \/ Confirm(w) \/ Commit(w)
  BY <1>1, <1>2, <1>7 DEF Mark, Confirm, Commit, Pcs
<1>8. CASE Look(w)
  <2>1. CASE Return(w)
    BY <1>2, <1>8, <2>1 DEF Look
  <2>2. CASE work' = [work EXCEPT ![w].pc = "create", ![w].backs = target # Absent]
    <3> DEFINE job == [work[w] EXCEPT !.pc = "create", !.backs = target # Absent]
    <3>1. (target # Absent) \in BOOLEAN
      OBVIOUS
    <3>2. /\ job \in Job /\ job.pc = "create" /\ job.id = work[w].id /\ job.req = work[w].req
          /\ job.call = work[w].call
      BY <1>0, <3>1 DEF Job, Pcs
    <3>3. work' = [work EXCEPT ![w] = job]
      BY <2>2
    <3> HIDE DEF job
    <3>4. /\ work' \in [Workers -> Job] /\ work'[w] = job
          /\ \A v \in Workers \ {w} : work'[v] = work[v]
      BY <1>0, <3>2, <3>3
    <3> QED BY <1>8, <3>2, <3>4 DEF Look
  <2> QED BY <1>8, <2>1, <2>2 DEF Look
<1>9. CASE Verify(w)
  <2>1. CASE Return(w)
    BY <1>2, <1>9, <2>1 DEF Verify
  <2>2. CASE work' = [work EXCEPT ![w].pc = IF work[w].backs THEN "backup" ELSE "prepare",
                                  ![w].fresh = TRUE]
    <3> DEFINE x == IF work[w].backs THEN "backup" ELSE "prepare"
               job == [work[w] EXCEPT !.pc = x, !.fresh = TRUE]
    <3>1. /\ job \in Job /\ job.pc = x /\ job.id = work[w].id /\ job.req = work[w].req
          /\ job.call = work[w].call /\ job.backs = work[w].backs
      BY <1>0 DEF Job, Pcs
    <3>2. work' = [work EXCEPT ![w] = job]
      BY <2>2
    <3> HIDE DEF job
    <3>3. /\ work' \in [Workers -> Job] /\ work'[w] = job
          /\ \A v \in Workers \ {w} : work'[v] = work[v]
      BY <1>0, <3>1, <3>2
    <3> QED BY <1>9, <3>1, <3>3 DEF Verify
  <2> QED BY <1>9, <2>1, <2>2 DEF Verify
<1>10. CASE Rename(w)
  <2> DEFINE ws == Stale(work)
             job == [ws[w] EXCEPT !.pc = "mark"]
  <2>1. ASSUME NEW v \in Workers
        PROVE  /\ ws[v] \in Job /\ ws[v].pc = work[v].pc /\ ws[v].id = work[v].id
               /\ ws[v].req = work[v].req /\ ws[v].call = work[v].call
               /\ ws[v].backs = work[v].backs /\ ws[v].fresh = FALSE
    <3>1. work[v] \in Job
      BY <1>0
    <3>2. ws[v] = [work[v] EXCEPT !.fresh = FALSE]
      BY DEF Stale
    <3> QED BY <3>1, <3>2 DEF Job
  <2>2. ws \in [Workers -> Job]
    BY <2>1 DEF Stale
  <2>3. job \in Job /\ job.pc = "mark" /\ job.id = ws[w].id /\ job.req = ws[w].req
        /\ job.call = ws[w].call
    BY <2>1 DEF Job, Pcs
  <2>4. work' = [ws EXCEPT ![w] = job]
    BY <1>10 DEF Rename
  <2> HIDE DEF ws, job
  <2>5. /\ work' \in [Workers -> Job] /\ work'[w] = job
        /\ \A v \in Workers \ {w} : work'[v] = ws[v]
    BY <2>2, <2>3, <2>4
  <2>6. Leads(w)
    <3>1. work[w].pc = "replace"
      BY <1>10 DEF Rename
    <3> QED BY <2>1, <2>3, <2>5, <3>1
  <2>7. ASSUME NEW v \in Workers \ {w}
        PROVE  Same(v)
    BY <2>1, <2>5
  <2> QED BY <2>5, <2>6, <2>7
<1> QED BY <1>3, <1>4, <1>5, <1>6, <1>7, <1>8, <1>9, <1>10 DEF Serve

-----------------------------------------------------------------------------
\* What is written of the replacements by a rename.
Record(w) == [id |-> Id(w), call |-> work[w].call, req |-> work[w].req, away |-> target,
              backs |-> work[w].backs, fresh |-> work[w].fresh]

LEMMA TypeStep ==
    ASSUME ContentsAssumption, TypeInv, OwnInv, NEW w \in Workers,
           Stop(w) \/ Serve(w) \/ \E id \in Ids : Begin(w, id)
    PROVE  TypeInv'
<1>1. JobStep(w) /\ work \in [Workers -> Job] /\ work[w] \in Job
  BY JobSteps DEF TypeInv
<1>2. work[w].pc # "idle" => /\ Id(w) \in Ids /\ work[w].req \in Asked(Id(w))
                             /\ work[w].req \in Writes /\ Content(w) \in Contents
  <2> HAVE work[w].pc # "idle"
  <2>1. Id(w) \in Ids /\ work[w].req \in Asked(Id(w))
    BY DEF TypeInv
  <2>2. work[w].req \in Writes
    BY <2>1, AskedOnce
  <2> QED BY <2>1, <2>2, WritesChange DEF Content
<1>3. UNCHANGED prepared /\ jobs' \in Nat
  <2>1. UNCHANGED prepared /\ (UNCHANGED jobs \/ jobs' = jobs + 1)
    BY Zenon DEF Serve, Stop, Begin, Check, Look, Create, Fill, Verify, BeginBackup, Copy, CopyFails,
           Prepare, Rename, Mark, Confirm, Commit, Bounds
  <2> QED BY <2>1 DEF TypeInv
<1>4. /\ temp' \in [Ids -> Contents \cup {Absent, Partial}]
      /\ DOMAIN backup' = Ids /\ DOMAIN journal' = Ids
  <2>1. \/ UNCHANGED temp
        \/ /\ work[w].pc # "idle"
           /\ \/ temp' = [temp EXCEPT ![Id(w)] = Partial]
              \/ temp' = [temp EXCEPT ![Id(w)] = Content(w)]
              \/ temp' = [temp EXCEPT ![Id(w)] = Absent]
    <3>1. CASE Create(w) \/ Fill(w) \/ Verify(w) \/ Rename(w)
      BY <3>1 DEF Create, Fill, Verify, Rename
    <3>2. CASE ~(Create(w) \/ Fill(w) \/ Verify(w) \/ Rename(w))
      BY <3>2 DEF Serve, Stop, Begin, Check, Look, BeginBackup, Copy, CopyFails, Prepare, Mark,
             Confirm, Commit
    <3> QED BY <3>1, <3>2
  <2>2. UNCHANGED backup \/ \E x : backup' = [backup EXCEPT ![Id(w)] = x]
    BY DEF Serve, Stop, Begin, Check, Look, Create, Fill, Verify, BeginBackup, Copy, CopyFails,
           Prepare, Rename, Mark, Confirm, Commit
  <2>3. UNCHANGED journal \/ \E x : journal' = [journal EXCEPT ![Id(w)] = x]
    BY DEF Serve, Stop, Begin, Check, Look, Create, Fill, Verify, BeginBackup, Copy, CopyFails,
           Prepare, Rename, Mark, Confirm, Commit, Persist
  <2>4. temp' \in [Ids -> Contents \cup {Absent, Partial}]
    BY <1>2, <2>1 DEF TypeInv
  <2>5. DOMAIN backup' = Ids
    BY <2>2 DEF TypeInv
  <2>6. DOMAIN journal' = Ids
    BY <2>3 DEF TypeInv
  <2> QED BY <2>4, <2>5, <2>6
<1>5. \/ UNCHANGED <<target, replaced>>
      \/ /\ work[w].pc = "replace" /\ target' = temp[Id(w)]
         /\ replaced' = replaced \cup {Record(w)}
  BY DEF Serve, Stop, Begin, Check, Look, Create, Fill, Verify, BeginBackup, Copy, CopyFails,
         Prepare, Rename, Mark, Confirm, Commit, history, Record
<1>6. target' \in Contents \cup {Absent}
  BY <1>2, <1>5 DEF TypeInv, OwnInv, Full
<1>7. work[w].pc = "replace" => Record(w) \in Replacement
  BY <1>1, <1>2 DEF Record, Replacement, Job, TypeInv
<1>8. replaced' \subseteq Replacement /\ \A r \in replaced' : r.req \in Asked(r.id)
  BY <1>2, <1>5, <1>7 DEF TypeInv, Record
<1>9. \A v \in Workers : work'[v].pc # "idle" =>
          work'[v].id \in Ids /\ work'[v].req \in Asked(work'[v].id)
  BY <1>1, <1>2 DEF JobStep, Leads, Same, TypeInv, Id
<1> QED BY <1>1, <1>3, <1>4, <1>6, <1>8, <1>9 DEF TypeInv, JobStep, Asked, Id

-----------------------------------------------------------------------------
\* While a write owns a temporary file, there is one.
LEMMA OwnedIsThere ==
    ASSUME ContentsAssumption, TypeInv, OwnInv, NEW v \in Workers,
           work[v].pc \in Full \cup {"fill"}
    PROVE  Id(v) \in Ids /\ temp[Id(v)] # Absent /\ Content(v) \in Contents
<1>1. Id(v) \in Ids /\ work[v].req \in Asked(Id(v))
  BY DEF TypeInv, Full
<1>2. Content(v) \in Contents
  BY <1>1, AskedOnce, WritesChange DEF Content
<1> QED BY <1>1, <1>2 DEF OwnInv, Full, ContentsAssumption

\* What changes the temporary files.
TempStep(w) == Create(w) \/ Fill(w) \/ Verify(w) \/ Rename(w)

LEMMA TempKept ==
    ASSUME NEW w \in Workers, Stop(w) \/ Serve(w) \/ \E id \in Ids : Begin(w, id), ~TempStep(w)
    PROVE  UNCHANGED temp /\ (work[w].pc \in {"create", "fill", "verify"} => Stop(w))
BY DEF TempStep, Serve, Stop, Begin, Check, Look, BeginBackup, Copy, CopyFails, Prepare, Mark,
       Confirm, Commit

LEMMA OwnStep ==
    ASSUME ContentsAssumption, TypeInv, OwnInv, NEW w \in Workers,
           Stop(w) \/ Serve(w) \/ \E id \in Ids : Begin(w, id)
    PROVE  OwnInv'
<1>1. JobStep(w) /\ TypeInv'
  BY JobSteps, TypeStep
<1>2. /\ work'[w].pc \in Full \cup {"fill"} =>
            /\ Id(w)' = Id(w) /\ Content(w)' = Content(w) /\ Id(w) \in Ids
            /\ \/ work[w].pc \in Full \cup {"fill"}
               \/ work[w].pc = "create" /\ work'[w].pc = "fill"
      /\ \A v \in Workers \ {w} : /\ work'[v].pc = work[v].pc
                                  /\ Id(v)' = Id(v) /\ Content(v)' = Content(v)
  <2>1. work[w].pc # "idle" => Id(w) \in Ids
    BY DEF TypeInv
  <2>2. Leads(w) /\ \A v \in Workers \ {w} : Same(v)
    BY <1>1 DEF JobStep
  <2>3. work'[w].pc \in Full \cup {"fill"} =>
            /\ work[w].pc # "idle" /\ work'[w].id = work[w].id /\ work'[w].req = work[w].req
            /\ \/ work[w].pc \in Full \cup {"fill"}
               \/ work[w].pc = "create" /\ work'[w].pc = "fill"
    BY <2>2 DEF Leads, Full
  <2> QED BY <2>1, <2>2, <2>3 DEF Same, Id, Content
<1>3. CASE Create(w) /\ temp[Id(w)] = Absent
  <2>1. temp' = [temp EXCEPT ![Id(w)] = Partial] /\ work'[w].pc = "fill" /\ work[w].pc = "create"
    BY <1>1, <1>3, Goes DEF Create, TypeInv, Pcs
  <2>2. Id(w) \in Ids /\ Id(w)' = Id(w) /\ temp'[Id(w)] = Partial
    BY <1>2, <2>1 DEF TypeInv
  <2>3. ASSUME NEW v \in Workers \ {w}, work'[v].pc \in Full \cup {"fill"}
        PROVE  Id(v)' # Id(w) /\ temp'[Id(v)'] = temp[Id(v)]
    <3>1. Id(v) \in Ids /\ temp[Id(v)] # Absent /\ Id(v)' = Id(v)
      BY <1>2, <2>3, OwnedIsThere
    <3> QED BY <1>3, <2>1, <3>1 DEF TypeInv
  <2>4. \A v, u \in Workers, id \in Ids : (Owns(v, id) /\ Owns(u, id))' => v = u
    BY <1>2, <2>2, <2>3 DEF OwnInv, Owns
  <2> QED BY <1>2, <2>1, <2>2, <2>3, <2>4 DEF OwnInv, Full
<1>4. ASSUME ~Create(w) \/ Return(w)
      PROVE  \A v, u \in Workers, id \in Ids : (Owns(v, id) /\ Owns(u, id))' => v = u
  <2>1. work'[w].pc \in Full \cup {"fill"} => work[w].pc \in Full \cup {"fill"}
    <3>1. work[w].pc = "create" => work'[w].pc # "fill"
      BY <1>4, Returns DEF TypeInv, Stop, Serve, Begin, Check, Look, Fill, Verify, BeginBackup, Copy,
             CopyFails, Prepare, Rename, Mark, Confirm, Commit
    <3> QED BY <1>2, <3>1
  <2> QED BY <1>2, <2>1 DEF OwnInv, Owns
<1>5. ASSUME NEW x, work[w].pc \in Full \cup {"fill"}, temp' = [temp EXCEPT ![Id(w)] = x]
      PROVE  \A v \in Workers \ {w} :
                work[v].pc \in Full \cup {"fill"} => temp'[Id(v)'] = temp[Id(v)]
  <2> SUFFICES ASSUME NEW v \in Workers \ {w}, work[v].pc \in Full \cup {"fill"}
               PROVE  temp'[Id(v)'] = temp[Id(v)]
    OBVIOUS
  <2>1. Id(v) \in Ids /\ Id(v) # Id(w)
    BY <1>5, OwnedIsThere DEF OwnInv, Owns
  <2> QED BY <1>2, <1>5, <2>1 DEF TypeInv
<1>6. CASE Create(w) /\ temp[Id(w)] # Absent
  <2>1. Return(w) /\ UNCHANGED temp
    BY <1>6 DEF Create
  <2>2. work'[w].pc = "idle"
    BY <2>1, Returns DEF TypeInv
  <2> QED BY <1>2, <1>4, <2>1, <2>2 DEF OwnInv, Full
<1>7. CASE Fill(w)
  <2>1. /\ work[w].pc = "fill" /\ work'[w].pc = "verify" /\ ~Create(w)
        /\ temp' = [temp EXCEPT ![Id(w)] = Content(w)]
    BY <1>7, Goes DEF Fill, Create, TypeInv, Pcs
  <2>2. temp'[Id(w)'] = Content(w)
    BY <1>2, <2>1 DEF TypeInv, Full
  <2> QED BY <1>2, <1>4, <1>5, <2>1, <2>2 DEF OwnInv, Full
<1>8. CASE Verify(w)
  <2>1. work[w].pc = "verify" /\ ~Create(w)
    BY <1>8 DEF Verify, Create
  <2>2. CASE UNCHANGED temp
    <3>1. work'[w].pc # "fill"
      BY <1>1, <2>1 DEF JobStep, Leads
    <3> QED BY <1>2, <1>4, <2>1, <2>2, <3>1 DEF OwnInv, Full
  <2>3. CASE temp' = [temp EXCEPT ![Id(w)] = Absent] /\ Return(w)
    <3>1. work'[w].pc = "idle"
      BY <2>3, Returns DEF TypeInv
    <3> QED BY <1>2, <1>4, <1>5, <2>1, <2>3, <3>1 DEF OwnInv, Full
  <2> QED BY <1>8, <2>2, <2>3 DEF Verify
<1>9. CASE Rename(w)
  <2>1. /\ work[w].pc = "replace" /\ ~Create(w) /\ temp' = [temp EXCEPT ![Id(w)] = Absent]
    BY <1>9 DEF Rename, Create
  <2>2. work'[w].pc \notin Full \cup {"fill"}
    BY <1>1, <2>1 DEF JobStep, Leads, Full
  <2> QED BY <1>2, <1>4, <1>5, <2>1, <2>2 DEF OwnInv, Full
<1>10. CASE ~TempStep(w)
  <2>1. UNCHANGED temp /\ ~Create(w) /\ (work[w].pc \in {"create", "fill", "verify"} => Stop(w))
    BY <1>10, TempKept DEF TempStep
  <2>2. Stop(w) => work'[w].pc = "idle"
    BY Returns DEF Stop, TypeInv
  <2>3. work'[w].pc \in Full \cup {"fill"} => work[w].pc \in Full /\ work'[w].pc \in Full
    BY <1>1, <2>1, <2>2 DEF JobStep, Leads, Full
  <2> QED BY <1>2, <1>4, <2>1, <2>3 DEF OwnInv, Full
<1> QED BY <1>3, <1>6, <1>7, <1>8, <1>9, <1>10 DEF TempStep

-----------------------------------------------------------------------------
Done(id) == \E r \in replaced : r.id = id

\* A record is made before the change, and as long as there has been none it goes with
\* a whole temporary file that nobody is still to fill or to remove.
JournalInv ==
    /\ \A w \in Workers : work[w].pc \in {"replace", "mark", "confirm", "commit"} =>
          journal[Id(w)] # Absent
    /\ \A w \in Workers : work[w].pc \in {"mark", "confirm", "commit"} => Done(Id(w))
    /\ \A r \in replaced : journal[r.id] # Absent
    /\ \A id \in Ids : journal[id] \in {"replaced", "committed"} => Done(id)
    /\ \A id \in Ids : journal[id] # Absent /\ ~Done(id) =>
          /\ temp[id] \in Contents
          /\ \A w \in Workers : Owns(w, id) => work[w].pc \in {"prepare", "replace"}

\* What every step of a worker keeps of this.
LEMMA JournalStep ==
    ASSUME ContentsAssumption, TypeInv, OwnInv, JournalInv, NEW w \in Workers,
           Stop(w) \/ Serve(w) \/ \E id \in Ids : Begin(w, id)
    PROVE  JournalInv'
<1>1. JobStep(w) /\ TypeInv' /\ OwnInv'
  BY JobSteps, TypeStep, OwnStep
<1>2. /\ Leads(w)
      /\ \A v \in Workers \ {w} : work'[v].pc = work[v].pc /\ Id(v)' = Id(v)
  BY <1>1 DEF JobStep, Same, Id
<1>3. work[w].pc # "idle" => Id(w) \in Ids
  BY DEF TypeInv
<1>4. ASSUME UNCHANGED <<temp, journal, replaced>>,
             work'[w].pc \in {"replace", "mark", "confirm", "commit", "fill"} =>
                 work[w].pc \in {"mark", "confirm"} /\ Id(w)' = Id(w)
      PROVE  JournalInv'
  <2>1. ASSUME NEW id \in Ids, Owns(w, id)'
        PROVE  Owns(w, id) /\ (work[w].pc \in {"prepare", "replace"} => work'[w].pc = "replace")
    BY <1>2, <1>4, <2>1 DEF Leads, Owns, Full, Id
  <2>2. ASSUME NEW id \in Ids, NEW v \in Workers \ {w}, Owns(v, id)'
        PROVE  Owns(v, id) /\ work'[v].pc = work[v].pc
    BY <1>2, <2>2 DEF Owns
  <2> QED BY <1>2, <1>4, <2>1, <2>2 DEF JournalInv, Done, Leads, Id
<1>5. CASE Prepare(w)
  <2>1. /\ work[w].pc = "prepare" /\ work'[w].pc = "replace" /\ Id(w)' = Id(w) /\ Id(w) \in Ids
        /\ journal' = [journal EXCEPT ![Id(w)] = "prepared"] /\ UNCHANGED <<temp, replaced>>
    BY <1>3, <1>5, Goes DEF Prepare, Persist, TypeInv, Pcs, history, Id
  <2>2. temp[Id(w)] \in Contents /\ DOMAIN journal = Ids
    BY <2>1, OwnedIsThere DEF OwnInv, Full, TypeInv
  <2>3. journal'[Id(w)] = "prepared" /\ \A id \in Ids \ {Id(w)} : journal'[id] = journal[id]
    BY <2>1, <2>2
  <2>4. \A v \in Workers : Owns(v, Id(w))' => v = w
    BY <1>1, <2>1 DEF OwnInv, Owns, Full
  <2>5. \A id \in Ids : journal'[id] # Absent /\ ~Done(id)' =>
          /\ temp'[id] \in Contents
          /\ \A v \in Workers : Owns(v, id)' => work'[v].pc \in {"prepare", "replace"}
    BY <1>2, <2>1, <2>2, <2>3, <2>4 DEF JournalInv, Done, Owns
  <2>6. \A r \in replaced' : r.id \in Ids
    BY <1>1 DEF TypeInv, Replacement
  <2>7. \A v \in Workers : work'[v].pc # "idle" => Id(v)' \in Ids
    BY <1>1 DEF TypeInv
  <2>8. Absent \notin {"prepared"}
    BY DEF ContentsAssumption
  <2>9. \A v \in Workers : work'[v].pc \in {"replace", "mark", "confirm", "commit"} =>
            journal'[Id(v)'] # Absent
    BY <1>2, <2>1, <2>3, <2>7, <2>8 DEF JournalInv
  <2> QED BY <1>2, <2>1, <2>3, <2>5, <2>6, <2>8, <2>9 DEF JournalInv, Done
<1>6. ASSUME NEW state \in {"replaced", "committed"}, work[w].pc \in {"mark", "commit"},
             work'[w].pc \in {"confirm", "idle"}, work'[w].pc = "confirm" => Id(w)' = Id(w),
             journal' = [journal EXCEPT ![Id(w)] = state], UNCHANGED <<temp, replaced>>
      PROVE  JournalInv'
  <2>1. Id(w) \in Ids /\ Done(Id(w)) /\ DOMAIN journal = Ids /\ state # Absent
    BY <1>3, <1>6 DEF JournalInv, TypeInv, ContentsAssumption
  <2>2. journal'[Id(w)] = state /\ \A id \in Ids \ {Id(w)} : journal'[id] = journal[id]
    BY <1>6, <2>1
  <2>3. \A id \in Ids : Done(id)' = Done(id)
    BY <1>6 DEF Done
  <2>4. \A r \in replaced : r.id \in Ids
    BY DEF TypeInv, Replacement
  <2>5. \A v \in Workers : work'[v].pc # "idle" => Id(v)' \in Ids
    BY <1>1 DEF TypeInv
  <2>6. \A id \in Ids : journal'[id] # Absent /\ ~Done(id)' =>
          /\ temp'[id] \in Contents
          /\ \A v \in Workers : Owns(v, id)' => work'[v].pc \in {"prepare", "replace"}
    BY <1>2, <1>6, <2>1, <2>2, <2>3 DEF JournalInv, Owns, Full
  <2>7. \A v \in Workers : work'[v].pc \in {"replace", "mark", "confirm", "commit"} =>
            journal'[Id(v)'] # Absent /\ (work'[v].pc # "replace" => Done(Id(v)'))
    BY <1>2, <1>6, <2>1, <2>2, <2>5 DEF JournalInv
  <2> QED BY <1>6, <2>1, <2>2, <2>3, <2>4, <2>6, <2>7 DEF JournalInv, Done
<1>7. CASE Mark(w) \/ Commit(w)
  <2>1. CASE Mark(w)
    BY <1>6, <2>1, Goes DEF Mark, Persist, TypeInv, Pcs, history, Id
  <2>2. CASE Commit(w)
    BY <1>6, <2>2, Returns DEF Commit, Persist, TypeInv, history
  <2> QED BY <1>7, <2>1, <2>2
<1>8. CASE Rename(w)
  <2>1. /\ work[w].pc = "replace" /\ Id(w) \in Ids /\ UNCHANGED journal
        /\ temp' = [temp EXCEPT ![Id(w)] = Absent] /\ replaced' = replaced \cup {Record(w)}
    BY <1>3, <1>8 DEF Rename, Record
  <2>2. /\ work'[w].pc \notin Full \cup {"fill"}
        /\ work'[w].pc \in {"mark", "confirm", "commit"} => Id(w)' = Id(w)
    BY <1>2, <2>1 DEF Leads, Full, Id
  <2>3. \A id \in Ids : Done(id) \/ id = Id(w) => Done(id)'
    <3>1. Record(w).id = Id(w) /\ Record(w) \in replaced' /\ replaced \subseteq replaced'
      BY <2>1 DEF Record
    <3> QED BY <3>1 DEF Done
  <2>4. journal'[Id(w)] # Absent
    BY <2>1 DEF JournalInv
  <2>5. \A r \in replaced' : journal'[r.id] # Absent
    BY <2>1, <2>4 DEF JournalInv, Record
  <2>6. \A id \in Ids \ {Id(w)} : temp'[id] = temp[id]
    BY <2>1 DEF TypeInv
  <2>7. \A id \in Ids : journal'[id] # Absent /\ ~Done(id)' =>
          /\ temp'[id] \in Contents
          /\ \A v \in Workers : Owns(v, id)' => work'[v].pc \in {"prepare", "replace"}
    BY <1>2, <2>1, <2>2, <2>3, <2>6 DEF JournalInv, Owns
  <2>8. \A id \in Ids : journal'[id] \in {"replaced", "committed"} => Done(id)'
    BY <2>1, <2>3 DEF JournalInv
  <2>9. \A v \in Workers : work'[v].pc \in {"replace", "mark", "confirm", "commit"} =>
            journal'[Id(v)'] # Absent /\ (work'[v].pc # "replace" => Done(Id(v))')
    <3>1. ASSUME NEW v \in Workers \ {w}, work'[v].pc \in {"replace", "mark", "confirm", "commit"}
          PROVE  journal'[Id(v)'] # Absent /\ (work'[v].pc # "replace" => Done(Id(v))')
      <4>1. Id(v) \in Ids /\ journal[Id(v)] # Absent /\ (work[v].pc # "replace" => Done(Id(v)))
        BY <1>2, <3>1 DEF JournalInv, TypeInv
      <4> QED BY <1>2, <2>1, <2>3, <4>1 DEF Done
    <3>2. work'[w].pc \in {"replace", "mark", "confirm", "commit"} =>
            journal'[Id(w)'] # Absent /\ (work'[w].pc # "replace" => Done(Id(w))')
      BY <2>1, <2>2, <2>3, <2>4 DEF Full, Done
    <3> QED BY <3>1, <3>2
  <2> QED BY <2>5, <2>7, <2>8, <2>9 DEF JournalInv
<1>9. ASSUME Id(w) \in Ids, journal[Id(w)] = Absent \/ Done(Id(w)),
             UNCHANGED <<journal, replaced>>, \A id \in Ids \ {Id(w)} : temp'[id] = temp[id],
             work'[w].pc \notin {"replace", "mark", "confirm", "commit"},
             work'[w].pc # "idle" => Id(w)' = Id(w)
      PROVE  JournalInv'
  <2>1. \A id \in Ids : Done(id)' = Done(id)
    BY <1>9 DEF Done
  <2>2. \A id \in Ids : journal'[id] # Absent /\ ~Done(id)' =>
          /\ temp'[id] \in Contents
          /\ \A v \in Workers : Owns(v, id)' => work'[v].pc \in {"prepare", "replace"}
    BY <1>2, <1>9, <2>1 DEF JournalInv, Owns, Full
  <2>3. \A v \in Workers : work'[v].pc \in {"mark", "confirm", "commit"} => Done(Id(v))'
    BY <1>2, <1>9 DEF JournalInv, Done
  <2> QED BY <1>2, <1>9, <2>1, <2>2, <2>3 DEF JournalInv
<1>10. CASE Create(w) /\ temp[Id(w)] = Absent
  <2>1. /\ work[w].pc = "create" /\ work'[w].pc = "fill" /\ Id(w)' = Id(w)
        /\ temp' = [temp EXCEPT ![Id(w)] = Partial] /\ UNCHANGED <<journal, replaced>>
    BY <1>10, Goes DEF Create, TypeInv, Pcs, history, Id
  <2>2. Id(w) \in Ids /\ Absent \notin Contents
    BY <1>3, <2>1 DEF ContentsAssumption
  <2>3. \A id \in Ids \ {Id(w)} : temp'[id] = temp[id]
    BY <2>1 DEF TypeInv
  <2>4. journal[Id(w)] = Absent \/ Done(Id(w))
    BY <1>10, <2>2 DEF JournalInv
  <2> QED BY <1>9, <2>1, <2>2, <2>3, <2>4
<1>11. CASE Fill(w) \/ Verify(w)
  <2>1. work[w].pc \in {"fill", "verify"} /\ UNCHANGED <<journal, replaced>>
    BY <1>11 DEF Fill, Verify, history
  <2>2. Id(w) \in Ids /\ Owns(w, Id(w))
    BY <1>3, <2>1 DEF Owns, Full
  <2>3. \A id \in Ids \ {Id(w)} : temp'[id] = temp[id]
    BY <1>11 DEF Fill, Verify, TypeInv
  <2>4. journal[Id(w)] = Absent \/ Done(Id(w))
    BY <2>1, <2>2 DEF JournalInv
  <2>5. /\ work'[w].pc \notin {"replace", "mark", "confirm", "commit"}
        /\ work'[w].pc # "idle" => Id(w)' = Id(w)
    BY <1>2, <2>1 DEF Leads, Id
  <2> QED BY <1>9, <2>1, <2>2, <2>3, <2>4, <2>5
<1>12. CASE Create(w) /\ temp[Id(w)] # Absent
  <2>1. Return(w) /\ UNCHANGED <<temp, journal, replaced>>
    BY <1>12 DEF Create, history
  <2> QED BY <1>4, <2>1, Returns DEF TypeInv
<1>13. ASSUME ~Create(w), ~Fill(w), ~Verify(w), ~Prepare(w), ~Mark(w), ~Commit(w), ~Rename(w)
       PROVE  JournalInv'
  <2>1. UNCHANGED <<temp, journal, replaced>>
    BY <1>13 DEF Serve, Stop, Begin, Check, Look, BeginBackup, Copy, CopyFails, Confirm, history
  <2>2. \/ Return(w) \/ work[w].pc \in {"idle", "check", "exists", "backup", "copy", "confirm"}
    BY <1>13 DEF Serve, Stop, Begin, Check, Look, BeginBackup, Copy, CopyFails, Confirm
  <2>3. Return(w) => work'[w].pc = "idle"
    BY Returns DEF TypeInv
  <2> QED BY <1>2, <1>4, <2>1, <2>2, <2>3 DEF Leads, Id
<1> QED BY <1>5, <1>7, <1>8, <1>10, <1>11, <1>12, <1>13

-----------------------------------------------------------------------------
OnlyPutBack(id) == \A r \in replaced : r.id = id => id \in putback

\* A write that has verified the target is the first of its request, or the file had
\* been put back after the others.
PutBackInv ==
    /\ \A r \in replaced : r.id \in putback \/ target # r.req.expected
    /\ \A w \in Workers : work[w].pc \in Full \ {"verify"} => OnlyPutBack(Id(w))
    /\ OncePerRequest

\* What a step of a worker that is no rename does to what these parts are about.
LEMMA NoRename ==
    ASSUME ContentsAssumption, TypeInv, NEW w \in Workers, ~Rename(w),
           Stop(w) \/ Serve(w) \/ \E id \in Ids : Begin(w, id)
    PROVE  /\ UNCHANGED <<target, replaced, putback>>
           /\ work'[w].pc \in Full \ {"verify"} =>
                 /\ Id(w)' = Id(w) /\ Expected(w)' = Expected(w) /\ Id(w) \in Ids
                 /\ \/ work[w].pc = "verify" /\ target = Expected(w)
                    \/ work[w].pc \in Full \ {"verify"}
<1>1. UNCHANGED <<target, replaced, putback>>
  BY DEF Serve, Stop, Begin, Check, Look, Create, Fill, Verify, BeginBackup, Copy, CopyFails,
         Prepare, Mark, Confirm, Commit, history
<1>2. Leads(w)
  BY JobSteps DEF JobStep
<1>3. work'[w].pc \in Full \ {"verify"} =>
        /\ work[w].pc \in Full \ {"replace"}
        /\ work'[w].id = work[w].id /\ work'[w].req = work[w].req
  BY <1>2 DEF Leads, Full
<1>4. work[w].pc = "verify" /\ work'[w].pc # "idle" => target = Expected(w)
  <2> SUFFICES ASSUME work[w].pc = "verify", ~Return(w)
               PROVE  target = Expected(w)
    BY Returns DEF TypeInv
  <2> QED BY DEF Serve, Stop, Begin, Check, Look, Create, Fill, Verify, BeginBackup, Copy,
             CopyFails, Prepare, Rename, Mark, Confirm, Commit
<1>5. work[w].pc # "idle" => Id(w) \in Ids
  BY DEF TypeInv
<1> QED BY <1>1, <1>3, <1>4, <1>5 DEF Full, Id, Expected

LEMMA PutBackStep ==
    ASSUME ContentsAssumption, TypeInv, OwnInv, PutBackInv, NEW w \in Workers,
           Stop(w) \/ Serve(w) \/ \E id \in Ids : Begin(w, id)
    PROVE  PutBackInv'
<1>1. /\ Leads(w)
      /\ \A v \in Workers \ {w} : work'[v].pc = work[v].pc /\ Id(v)' = Id(v)
  BY JobSteps DEF JobStep, Same, Id
<1>2. CASE ~Rename(w)
  <2>1. /\ UNCHANGED <<target, replaced, putback>>
        /\ work'[w].pc \in Full \ {"verify"} =>
              /\ Id(w)' = Id(w) /\ Id(w) \in Ids
              /\ \/ work[w].pc = "verify" /\ target = Expected(w)
                 \/ work[w].pc \in Full \ {"verify"}
    BY <1>2, NoRename
  <2>2. ASSUME work[w].pc = "verify", target = Expected(w)
        PROVE  OnlyPutBack(Id(w))
    <3> SUFFICES ASSUME NEW r \in replaced, r.id = Id(w)
                 PROVE  r.id \in putback
      BY DEF OnlyPutBack
    <3>1. Id(w) \in Ids /\ work[w].req \in Asked(Id(w)) /\ r.req \in Asked(Id(w))
      BY <2>2 DEF TypeInv
    <3>2. r.req = work[w].req
      BY <3>1, AskedOnce
    <3> QED BY <2>2, <3>2 DEF PutBackInv, Expected
  <2>3. work'[w].pc \in Full \ {"verify"} => OnlyPutBack(Id(w))
    BY <2>1, <2>2 DEF PutBackInv
  <2>4. \A id : OnlyPutBack(id)' = OnlyPutBack(id)
    BY <2>1 DEF OnlyPutBack
  <2>5. ASSUME NEW v \in Workers, work'[v].pc \in Full \ {"verify"}
        PROVE  OnlyPutBack(Id(v))'
    <3>1. OnlyPutBack(Id(v)) /\ Id(v)' = Id(v)
      BY <1>1, <2>1, <2>3, <2>5 DEF PutBackInv
    <3> QED BY <2>1, <3>1 DEF OnlyPutBack
  <2> QED BY <2>1, <2>5 DEF PutBackInv, OncePerRequest
<1>3. CASE Rename(w)
  <2>1. /\ work[w].pc = "replace" /\ target' = temp[Id(w)]
        /\ replaced' = replaced \cup {Record(w)}
        /\ putback' = putback \cup {r.id : r \in {q \in replaced : q.req.expected = temp[Id(w)]}}
    BY <1>3 DEF Rename, Record, PutBack
  <2>2. /\ Id(w) \in Ids /\ work[w].req \in Writes /\ target' = Content(w)
        /\ OnlyPutBack(Id(w)) /\ work'[w].pc \notin Full
    <3>1. Id(w) \in Ids /\ work[w].req \in Asked(Id(w))
      BY <2>1 DEF TypeInv
    <3>2. work[w].req \in Writes
      BY <3>1, AskedOnce
    <3> QED BY <1>1, <2>1, <3>1, <3>2 DEF OwnInv, PutBackInv, Full, Leads
  <2>3. Record(w).id = Id(w) /\ Record(w).req = work[w].req
    BY DEF Record
  <2>4. \A r \in replaced' : r.id \in putback' \/ target' # r.req.expected
    <3>1. target' # Record(w).req.expected
      BY <2>2, <2>3, WritesChange DEF Content
    <3>2. \A r \in replaced : target' = r.req.expected => r.id \in putback'
      BY <2>1
    <3> QED BY <2>1, <3>1, <3>2
  <2>5. ASSUME NEW v \in Workers, work'[v].pc \in Full \ {"verify"}
        PROVE  OnlyPutBack(Id(v))'
    <3>1. v # w
      BY <2>2, <2>5
    <3>2. Id(v)' = Id(v) /\ OnlyPutBack(Id(v)) /\ work[v].pc \in Full
      BY <1>1, <2>5, <3>1 DEF PutBackInv
    <3>3. Id(v) # Id(w)
      BY <2>1, <2>2, <3>1, <3>2 DEF OwnInv, Owns, Full
    <3> QED BY <2>1, <2>3, <3>2, <3>3 DEF OnlyPutBack
  <2>6. OncePerRequest'
    BY <2>1, <2>2, <2>3 DEF PutBackInv, OncePerRequest, OnlyPutBack
  <2> QED BY <2>4, <2>5, <2>6 DEF PutBackInv
<1> QED BY <1>2, <1>3

-----------------------------------------------------------------------------
\* A write that has the last word on the target still sees what it expects there, and
\* its copy is in the backup.
BackupInv ==
    /\ \A w \in Workers : work[w].pc \in Full \ {"verify"} /\ work[w].fresh =>
          /\ target = Expected(w)
          /\ work[w].pc \in {"prepare", "replace"} /\ work[w].backs => backup[Id(w)] = target
    /\ BackupHoldsWhatWasReplaced

LEMMA BackupStep ==
    ASSUME ContentsAssumption, TypeInv, OwnInv, PutBackInv, BackupInv, NEW w \in Workers,
           Stop(w) \/ Serve(w) \/ \E id \in Ids : Begin(w, id)
    PROVE  BackupInv'
<1>1. Leads(w) /\ \A v \in Workers \ {w} : Same(v)
  BY JobSteps DEF JobStep
<1>2. \A v \in Workers \ {w} : Id(v)' = Id(v) /\ Expected(v)' = Expected(v)
  BY <1>1 DEF Same, Id, Expected
<1>3. \/ UNCHANGED backup
      \/ /\ work[w].pc \in {"backup", "copy"}
         /\ \E x : backup' = [backup EXCEPT ![Id(w)] = x]
  BY DEF Serve, Stop, Begin, Check, Look, Create, Fill, Verify, BeginBackup, Copy, CopyFails,
         Prepare, Rename, Mark, Confirm, Commit
<1>4. \A id \in Ids : ~(work[w].pc \in {"backup", "copy"} /\ id = Id(w)) => backup'[id] = backup[id]
  BY <1>3 DEF TypeInv
<1>5. ASSUME NEW v \in Workers \ {w}, work'[v].pc \in Full \ {"verify"}, work'[v].fresh
      PROVE  /\ target' = Expected(v)'
             /\ work'[v].pc \in {"prepare", "replace"} /\ work'[v].backs =>
                   backup'[Id(v)'] = target'
  <2>1. /\ work[v].pc \in Full \ {"verify"} /\ work[v].pc = work'[v].pc /\ work[v].fresh
        /\ work[v].backs = work'[v].backs /\ target' = target
    BY <1>1, <1>5 DEF Same
  <2>2. Id(v) \in Ids
    BY <2>1 DEF TypeInv, Full
  <2>3. work[w].pc \in {"backup", "copy"} => Id(v) # Id(w)
    BY <2>1, <2>2 DEF OwnInv, Owns, Full
  <2>4. backup'[Id(v)] = backup[Id(v)]
    BY <1>4, <2>2, <2>3
  <2> QED BY <1>2, <2>1, <2>4 DEF BackupInv
<1>6. ASSUME NEW r \in replaced, UNCHANGED putback
      PROVE  r.id \in putback \/ backup'[r.id] = backup[r.id]
  <2>1. r.id \in Ids
    BY DEF TypeInv, Replacement
  <2>2. work[w].pc \in {"backup", "copy"} /\ r.id = Id(w) => r.id \in putback
    BY DEF PutBackInv, OnlyPutBack, Full
  <2> QED BY <1>4, <2>1, <2>2
<1>7. CASE ~Rename(w)
  <2>1. /\ UNCHANGED <<target, replaced, putback>>
        /\ work'[w].pc \in Full \ {"verify"} =>
              /\ Id(w)' = Id(w) /\ Expected(w)' = Expected(w) /\ Id(w) \in Ids
              /\ \/ work[w].pc = "verify" /\ target = Expected(w)
                 \/ work[w].pc \in Full \ {"verify"}
    BY <1>7, NoRename
  <2>2. ASSUME work'[w].pc \in Full \ {"verify"}, work'[w].fresh
        PROVE  target = Expected(w)
    <3>1. work[w].pc # "verify" => work[w].pc \in Full \ {"verify"} /\ work[w].fresh
      BY <1>1, <2>1, <2>2 DEF Leads, Full
    <3> QED BY <2>1, <2>2, <3>1 DEF BackupInv
  <2>3. ASSUME work'[w].pc \in {"prepare", "replace"}, work'[w].backs, work'[w].fresh
        PROVE  backup'[Id(w)] = target
    <3>1. work[w].pc = "copy" \/ (work[w].pc = "prepare" /\ work[w].backs /\ work[w].fresh)
      BY <1>1, <2>3 DEF Leads
    <3>2. Id(w) \in Ids
      BY <3>1 DEF TypeInv
    <3>3. CASE work[w].pc = "copy"
      <4>1. ~Return(w)
        BY <2>3, Returns DEF TypeInv
      <4>2. Copy(w)
        BY <3>3, <4>1 DEF Serve, Stop, Begin, Check, Look, Create, Fill, Verify, BeginBackup,
               CopyFails, Prepare, Rename, Mark, Confirm, Commit
      <4> QED BY <3>2, <4>2 DEF Copy, TypeInv
    <3>4. CASE work[w].pc = "prepare" /\ work[w].backs /\ work[w].fresh
      BY <1>4, <3>2, <3>4 DEF BackupInv, Full
    <3> QED BY <3>1, <3>3, <3>4
  <2>4. BackupHoldsWhatWasReplaced'
    BY <1>6, <2>1 DEF BackupInv, BackupHoldsWhatWasReplaced
  <2>5. ASSUME NEW v \in Workers, work'[v].pc \in Full \ {"verify"}, work'[v].fresh
        PROVE  /\ target' = Expected(v)'
               /\ work'[v].pc \in {"prepare", "replace"} /\ work'[v].backs =>
                     backup'[Id(v)'] = target'
    BY <1>5, <2>1, <2>2, <2>3, <2>5
  <2> QED BY <2>4, <2>5 DEF BackupInv
<1>8. CASE Rename(w)
  <2>1. /\ work[w].pc = "replace" /\ replaced' = replaced \cup {Record(w)}
        /\ putback \subseteq putback' /\ UNCHANGED backup
    BY <1>8 DEF Rename, Record, PutBack
  <2>2. work'[w].pc \notin Full
    BY <1>1, <2>1 DEF Leads, Full
  <2>3. ASSUME work[w].fresh, work[w].backs \/ Expected(w) = Absent
        PROVE  target = Expected(w) /\ (target # Absent => backup[Id(w)] = target)
    BY <2>1, <2>3 DEF BackupInv, Full
  <2>4. /\ Record(w).fresh = work[w].fresh /\ Record(w).backs = work[w].backs
        /\ Record(w).req.expected = Expected(w) /\ Record(w).away = target
        /\ Record(w).id = Id(w)
    BY DEF Record, Expected
  <2>5. BackupHoldsWhatWasReplaced'
    BY <2>1, <2>3, <2>4 DEF BackupInv, BackupHoldsWhatWasReplaced
  <2> QED BY <1>5, <2>2, <2>5 DEF BackupInv
<1> QED BY <1>7, <1>8

-----------------------------------------------------------------------------
WriteInv == TypeInv /\ OwnInv /\ JournalInv /\ PutBackInv /\ BackupInv

\* An edit that is prepared changes what is asked for under its id, but nobody has asked
\* for it yet.
LEMMA PrepareEditStep ==
    ASSUME ContentsAssumption, WriteInv, PrepareEdit
    PROVE  WriteInv'
<1>1. UNCHANGED <<target, temp, backup, journal, work, jobs, replaced, putback>>
  BY DEF PrepareEdit, Bounds, history
<1>2. \E req \in Writes : prepared' = {req}
  BY DEF PrepareEdit, Writes
<1>3. \A id, x : x \in Asked(id) => x \in Asked(id)'
  BY DEF PrepareEdit, Asked
<1>4. TypeInv'
  BY <1>1, <1>2, <1>3 DEF WriteInv, TypeInv, Id
<1>5. OwnInv' /\ JournalInv'
  BY <1>1 DEF WriteInv, OwnInv, JournalInv, Owns, Done, Id, Content
<1>6. PutBackInv' /\ BackupInv'
  BY <1>1 DEF WriteInv, PutBackInv, BackupInv, OnlyPutBack, OncePerRequest,
              BackupHoldsWhatWasReplaced, Id, Expected
<1> QED BY <1>4, <1>5, <1>6 DEF WriteInv

\* Another program may write what it likes: a request whose expectation it meets again is
\* one that was put back, and nobody has seen the new content yet.
LEMMA InterfereStep ==
    ASSUME ContentsAssumption, WriteInv, Interfere
    PROVE  WriteInv'
<1>1. /\ UNCHANGED <<temp, backup, journal, prepared, jobs, replaced>>
      /\ putback \subseteq putback' /\ target' \in Contents \cup {Absent}
      /\ \A r \in replaced : target' = r.req.expected => r.id \in putback'
  BY DEF Interfere, PutBack, ContentsAssumption
<1>2. work \in [Workers -> Job] /\ work' = Stale(work)
  BY DEF WriteInv, TypeInv, Interfere
<1>3. ASSUME NEW v \in Workers
      PROVE  /\ work'[v] \in Job /\ work'[v].fresh = FALSE
             /\ work'[v].pc = work[v].pc /\ Id(v)' = Id(v)
             /\ work'[v].req = work[v].req /\ Content(v)' = Content(v)
  <2>1. work[v] \in Job /\ work'[v] = [work[v] EXCEPT !.fresh = FALSE]
    BY <1>2 DEF Stale
  <2> QED BY <2>1 DEF Job, Id, Content
<1>4. work' \in [Workers -> Job]
  BY <1>2, <1>3 DEF Stale
<1>5. TypeInv'
  <2>1. \A id : Asked(id)' = Asked(id)
    BY <1>1 DEF Asked
  <2>2. \A v \in Workers : work'[v].pc # "idle" =>
            Id(v)' \in Ids /\ work'[v].req \in Asked(Id(v))'
    BY <1>3, <2>1 DEF WriteInv, TypeInv
  <2>3. \A r \in replaced' : r.req \in Asked(r.id)'
    BY <1>1, <2>1 DEF WriteInv, TypeInv
  <2>4. /\ prepared' = {} \/ \E req \in Writes : prepared' = {req}
        /\ temp' \in [Ids -> Contents \cup {Absent, Partial}]
        /\ DOMAIN backup' = Ids /\ DOMAIN journal' = Ids
        /\ jobs' \in Nat /\ replaced' \subseteq Replacement
    BY <1>1 DEF WriteInv, TypeInv
  <2> QED BY <1>1, <1>4, <2>2, <2>3, <2>4 DEF TypeInv
<1>6. OwnInv' /\ JournalInv'
  <2>1. \A v \in Workers, id \in Ids : Owns(v, id)' = Owns(v, id)
    BY <1>3 DEF Owns
  <2>2. \A id : Done(id)' = Done(id)
    BY <1>1 DEF Done
  <2>3. OwnInv'
    BY <1>1, <1>3, <2>1 DEF WriteInv, OwnInv
  <2>4. \A v \in Workers : work'[v].pc \in {"mark", "confirm", "commit"} => Done(Id(v))'
    BY <1>3, <2>2 DEF WriteInv, JournalInv
  <2>5. JournalInv'
    BY <1>1, <1>3, <2>1, <2>2, <2>4 DEF WriteInv, JournalInv
  <2> QED BY <2>3, <2>5
<1>7. PutBackInv'
  <2>1. \A v \in Workers : work'[v].pc \in Full \ {"verify"} => OnlyPutBack(Id(v))'
    BY <1>1, <1>3 DEF WriteInv, PutBackInv, OnlyPutBack
  <2> QED BY <1>1, <2>1 DEF WriteInv, PutBackInv, OncePerRequest
<1>8. BackupInv'
  BY <1>1, <1>3 DEF WriteInv, BackupInv, BackupHoldsWhatWasReplaced
<1> QED BY <1>5, <1>6, <1>7, <1>8 DEF WriteInv

LEMMA InitWrite == ASSUME ContentsAssumption, Init PROVE WriteInv
<1>1. Idle \in Job /\ Idle.pc = "idle"
  BY DEF Idle, Job, Pcs
<1>2. TypeInv
  BY <1>1 DEF Init, TypeInv, ContentsAssumption, Ids, Id
<1>3. OwnInv /\ JournalInv
  BY <1>1 DEF Init, OwnInv, JournalInv, Owns, Full, Done, Id, ContentsAssumption
<1>4. PutBackInv /\ BackupInv
  BY <1>1 DEF Init, PutBackInv, BackupInv, OncePerRequest, BackupHoldsWhatWasReplaced, Full
<1> QED BY <1>2, <1>3, <1>4 DEF WriteInv

LEMMA NextWrite == ASSUME ContentsAssumption, WriteInv, [Next]_vars PROVE WriteInv'
<1>1. CASE PrepareEdit
  BY <1>1, PrepareEditStep
<1>2. CASE Interfere
  BY <1>2, InterfereStep
<1>3. ASSUME NEW w \in Workers, Stop(w) \/ Serve(w) \/ \E id \in Ids : Begin(w, id)
      PROVE  WriteInv'
  BY <1>3, TypeStep, OwnStep, JournalStep, PutBackStep, BackupStep DEF WriteInv
<1>4. CASE UNCHANGED vars
  <2>1. UNCHANGED <<target, temp, backup, journal, work, prepared, jobs, replaced, putback>>
    BY <1>4 DEF vars
  <2>2. TypeInv' /\ OwnInv' /\ JournalInv'
    BY <2>1 DEF WriteInv, TypeInv, OwnInv, JournalInv, Asked, Owns, Done, Id, Content
  <2>3. PutBackInv' /\ BackupInv'
    BY <2>1 DEF WriteInv, PutBackInv, BackupInv, OnlyPutBack, OncePerRequest,
                BackupHoldsWhatWasReplaced, Id, Expected
  <2> QED BY <2>2, <2>3 DEF WriteInv
<1> QED BY <1>1, <1>2, <1>3, <1>4 DEF Next

\* The inductive invariant of a write: whose the temporary files are, what the records of
\* the journal stand for, which requests may replace the target again, and what the
\* backups hold, after any calls of write_inner, failures, deaths and foreign changes.
THEOREM WriteInvariant == ASSUME ContentsAssumption PROVE Spec => []WriteInv
<1>1. Init => WriteInv
  BY InitWrite
<1>2. WriteInv /\ [Next]_vars => WriteInv'
  BY NextWrite
<1> QED BY <1>1, <1>2, PTL DEF Spec

\* A request replaces the target in one call, however often it comes and to however many
\* dispatchers, unless the file had been put back: write_inner has no claim, only the
\* exclusive temporary file and the second verify_target_precondition.
THEOREM ReplacesOnce == ASSUME ContentsAssumption PROVE Spec => []OncePerRequest
<1>1. WriteInv => OncePerRequest
  BY DEF WriteInv, PutBackInv
<1> QED BY <1>1, WriteInvariant, PTL

\* What write_inner replaces is what the request expected, and the backup in the journal's
\* directory holds it for good, unless the file changed after the last look at it.
THEOREM BackupsHold == ASSUME ContentsAssumption PROVE Spec => []BackupHoldsWhatWasReplaced
<1>1. WriteInv => BackupHoldsWhatWasReplaced
  BY DEF WriteInv, BackupInv
<1> QED BY <1>1, WriteInvariant, PTL

\* An interrupted write leaves a whole file, a record in the journal of every change, and
\* with a record that came before its change a whole temporary file to finish with.
THEOREM InterruptionsArePending ==
    ASSUME ContentsAssumption PROVE Spec => []InterruptedIsPending
<1>1. WriteInv => InterruptedIsPending
  BY DEF WriteInv, TypeInv, JournalInv, InterruptedIsPending, Pending, Done
<1> QED BY <1>1, WriteInvariant, PTL

-----------------------------------------------------------------------------
(* What the log tells of an answer (FileAccess).                           *)

Said(s) == {s[k] : k \in DOMAIN s}

\* The decision that let a request happen is on the log before the worker is asked.
TrailInv ==
    /\ trail \in Seq(Said(trail))
    /\ phase # "done" => answer.status = "none"
    /\ phase = "authorize" => touched = {} /\ trail = << >>
    /\ phase \in {"edit", "edited"} => \A t \in touched : t.access = "edit"
    /\ phase \notin {"authorize", "done"} => trail # << >> /\ trail[1] # "deny"
    /\ phase \notin {"authorize", "edit", "edited", "done"} => "auto" \in Said(trail)
    /\ AnswerIsRecorded

LEMMA SaidMore ==
    ASSUME NEW s, s \in Seq(Said(s)), NEW x
    PROVE  /\ Append(s, x) \in Seq(Said(Append(s, x))) /\ Said(Append(s, x)) = Said(s) \cup {x}
           /\ Append(s, x) # << >> /\ A!Last(Append(s, x)) = x /\ A!Front(Append(s, x)) = s
           /\ s # << >> => Append(s, x)[1] = s[1]
<1> DEFINE n == Len(s)  q == Append(s, x)
<1>1. n \in Nat /\ DOMAIN s = 1 .. n /\ s \in Seq(Said(s) \cup {x})
  OBVIOUS
<1>2. /\ q \in Seq(Said(s) \cup {x}) /\ Len(q) = n + 1 /\ DOMAIN q = 1 .. n + 1 /\ q[n + 1] = x
      /\ \A k \in 1 .. n : q[k] = s[k]
  BY <1>1
<1>3. Said(q) = Said(s) \cup {x}
  BY <1>1, <1>2 DEF Said
<1>4. SubSeq(q, 1, n) = s
  BY <1>1, <1>2
<1>5. Len(q) - 1 = n
  BY <1>1, <1>2
<1>6. A!Last(q) = x /\ A!Front(q) = s
  BY <1>2, <1>4, <1>5 DEF A!Last, A!Front
<1>7. q # << >> /\ (s # << >> => q[1] = s[1])
  BY <1>1, <1>2
<1> QED BY <1>2, <1>3, <1>6, <1>7

LEMMA SaidOf ==
    ASSUME NEW x, NEW y
    PROVE  /\ <<x>> \in Seq(Said(<<x>>)) /\ Said(<<x>>) = {x}
           /\ <<x, y>> \in Seq(Said(<<x, y>>)) /\ Said(<<x, y>>) = {x, y}
           /\ << >> \in Seq(Said(<< >>)) /\ Said(<< >>) = {}
BY DEF Said

\* Two records at once.
LEMMA SaidTwo ==
    ASSUME NEW s, s \in Seq(Said(s)), NEW x, NEW y
    PROVE  /\ s \o <<x, y>> \in Seq(Said(s \o <<x, y>>)) /\ Said(s \o <<x, y>>) = Said(s) \cup {x, y}
           /\ s \o <<x, y>> # << >> /\ (s # << >> => (s \o <<x, y>>)[1] = s[1])
<1> DEFINE S == Said(s) \cup {x, y}
<1>0. s \in Seq(S) /\ x \in S /\ y \in S
  OBVIOUS
<1> HIDE DEF S
<1>1. s \o <<x, y>> = Append(Append(s, x), y)
  <2> DEFINE p == <<x, y>>  u == s \o p  v == Append(Append(s, x), y)
  <2>1. p \in Seq(S) /\ Len(p) = 2 /\ p[1] = x /\ p[2] = y
    BY <1>0
  <2> HIDE DEF p
  <2>2. /\ u \in Seq(S) /\ Len(u) = Len(s) + Len(p)
        /\ \A k \in 1 .. Len(s) + Len(p) : u[k] = IF k <= Len(s) THEN s[k] ELSE p[k - Len(s)]
    BY <1>0, <2>1, ConcatProperties
  <2>3. /\ v \in Seq(S) /\ Len(v) = Len(s) + 2 /\ v[Len(s) + 1] = x /\ v[Len(s) + 2] = y
        /\ \A k \in 1 .. Len(s) : v[k] = s[k]
    BY <1>0
  <2> HIDE DEF u, v
  <2>4. ASSUME NEW k \in 1 .. Len(u)
        PROVE  u[k] = v[k]
    <3>0. Len(s) \in Nat /\ k \in 1 .. Len(s) + 2
      BY <1>0, <2>1, <2>2
    <3>1. CASE k <= Len(s)
      BY <1>0, <2>1, <2>2, <2>3, <3>1
    <3>2. CASE k = Len(s) + 1
      BY <1>0, <2>1, <2>2, <2>3, <3>2
    <3>3. CASE k = Len(s) + 2
      BY <1>0, <2>1, <2>2, <2>3, <3>3
    <3> QED BY <3>0, <3>1, <3>2, <3>3
  <2>5. u = v
    BY <2>1, <2>2, <2>3, <2>4, SeqEqual
  <2> QED BY <2>5 DEF u, v, p
<1> DEFINE q == Append(s, x)
<1>2. q \in Seq(Said(q)) /\ Said(q) = Said(s) \cup {x} /\ q # << >> /\ (s # << >> => q[1] = s[1])
  BY SaidMore
<1> HIDE DEF q
<1>3. /\ Append(q, y) \in Seq(Said(Append(q, y))) /\ Said(Append(q, y)) = Said(q) \cup {y}
      /\ Append(q, y) # << >> /\ Append(q, y)[1] = q[1]
  BY <1>2, SaidMore
<1> QED BY <1>1, <1>2, <1>3 DEF q

\* What the worker's answer measures is a number.
Sized(e) == "size" \in DOMAIN e /\ e.size \in Nat
SizeInv ==
    /\ "action" \in DOMAIN asked
    /\ phase \in {"edit", "edited", "write"} => asked.action = "filesystem.write"
    /\ phase = "resolve" => asked.action \in A!RemoteActions \cup {"filesystem.write"}
    /\ phase \in {"stat", "bytes"} => asked.action = "filesystem.read"
    /\ phase = "explore" => asked.action \in A!Walks \cup {"filesystem.info"}
    /\ phase = "walk" => asked.action \in A!Walks
    /\ asked.action # "filesystem.write" => asked.length \in Nat /\ \A e \in tree : Sized(e)
    /\ size \in Nat /\ IsFiniteSet(out)

LEMMA SizeBeginning == ASSUME LengthsAssumption, A!Init PROVE SizeInv
<1>1. asked \in Asks /\ tree = StartTree /\ phase = "authorize" /\ size = 0 /\ out = {}
  BY DEF A!Init
<1> QED BY <1>1, FS_EmptySet DEF SizeInv, LengthsAssumption, Sized

\* An action that neither measures nor changes the disk.
LEMMA SizeMoves ==
    ASSUME SizeInv, UNCHANGED <<tree, asked, size, out>>,
           \/ phase' = "done"
           \/ phase' = "record"
           \/ phase' = "resolve" /\ asked.action \in A!RemoteActions \cup {"filesystem.write"}
           \/ phase' \in {"edit", "edited", "write"} /\ asked.action = "filesystem.write"
           \/ phase' \in {"stat", "bytes"} /\ asked.action = "filesystem.read"
           \/ phase' = "explore" /\ asked.action \in A!Walks \cup {"filesystem.info"}
           \/ phase' = "walk" /\ asked.action \in A!Walks
           \/ phase' = phase
    PROVE  SizeInv'
<1> USE DEF SizeInv, Sized
<1>1. /\ "action" \in DOMAIN asked' /\ size' \in Nat /\ IsFiniteSet(out')
      /\ asked'.action # "filesystem.write" => asked'.length \in Nat /\ \A e \in tree' : Sized(e)
  OBVIOUS
<1>2. /\ phase' \in {"edit", "edited", "write"} => asked'.action = "filesystem.write"
      /\ phase' = "resolve" => asked'.action \in A!RemoteActions \cup {"filesystem.write"}
      /\ phase' \in {"stat", "bytes"} => asked'.action = "filesystem.read"
      /\ phase' = "explore" => asked'.action \in A!Walks \cup {"filesystem.info"}
      /\ phase' = "walk" => asked'.action \in A!Walks
  OBVIOUS
<1> QED BY <1>1, <1>2

\* The end of an action, with or without a record.
LEMMA FailsDone ==
    ASSUME NEW status, A!Fail(status)
    PROVE  phase' = "done"
BY DEF A!Fail, A!Answered

LEMMA OneCardinality == ASSUME NEW S PROVE A!Cardinality(S) = Cardinality(S)
BY Zenon DEF A!Cardinality, Cardinality

LEMMA SizeOfRoute ==
    ASSUME SizeInv, UNCHANGED <<tree, asked, size, out>>, NEW d, A!Route(d),
           asked.action = "filesystem.write"
    PROVE  SizeInv'
<1>1. phase' \in {"resolve", "done"}
  BY DEF A!Route, A!Answered
<1> QED BY <1>1, SizeMoves

LEMMA SizeStep == ASSUME LengthsAssumption, SizeInv, A!Next PROVE SizeInv'
<1> USE DEF A!Worker, A!Outside
<1>1. CASE A!Authorize
  <2>1. \/ phase' = "done"
        \/ phase' = "resolve" /\ asked.action \in A!RemoteActions
    BY <1>1 DEF A!Authorize, A!Answered
  <2> QED BY <1>1, <2>1, SizeMoves DEF A!Authorize
<1>2. CASE A!Prepare
  <2>1. asked.action = "filesystem.write" /\ UNCHANGED <<tree, asked, size, out>>
    BY <1>2 DEF A!Prepare, A!ApprovedActions
  <2>2. \/ phase' = "done" \/ phase' = "edit"
        \/ A!Route(A!Decide(policy, tree, asked))
    BY <1>2 DEF A!Prepare, A!Answered
  <2> QED BY <2>1, <2>2, SizeMoves, SizeOfRoute
<1>3. CASE A!PrepareAgain
  <2>1. /\ asked.action = "filesystem.write" /\ UNCHANGED <<tree, asked, size, out>>
        /\ A!Route(A!Decide(policy, tree, asked))
    BY <1>3 DEF A!PrepareAgain, SizeInv
  <2> QED BY <2>1, SizeOfRoute
<1>4. CASE A!ReadEdit
  <2>1. asked.action = "filesystem.write" /\ UNCHANGED <<tree, size, out>>
    BY <1>4 DEF A!ReadEdit, SizeInv
  <2>2. CASE phase' = "done" /\ UNCHANGED asked
    BY <2>1, <2>2, SizeMoves
  <2>3. CASE phase' = "edited" /\ asked' = [asked EXCEPT !.size = {1}, !.expected = "digest", !.edit = FALSE]
    <3>1. "action" \in DOMAIN asked' /\ asked'.action = asked.action
      BY <2>3 DEF SizeInv
    <3> QED BY <2>1, <2>3, <3>1 DEF SizeInv
  <2> QED BY <1>4, <2>2, <2>3, FailsDone DEF A!ReadEdit
<1>5. CASE A!Answer
  <2>1. phase' = "done" /\ UNCHANGED <<tree, asked, size, out>>
    BY <1>5 DEF A!Answer, A!Answered
  <2> QED BY <2>1, SizeMoves
<1>6. CASE A!Resolve
  <2>1. /\ asked.action \in A!RemoteActions \cup {"filesystem.write"}
        /\ asked.action # "filesystem.write" /\ UNCHANGED <<tree, asked, size, out>>
    BY <1>6 DEF A!Resolve, SizeInv
  <2>2. \/ phase' = "done"
        \/ phase' \in {"stat", "bytes"} /\ asked.action = "filesystem.read"
        \/ phase' = "explore" /\ asked.action # "filesystem.read"
    BY <1>6, FailsDone DEF A!Resolve
  <2>3. asked.action # "filesystem.read" => asked.action \in A!Walks \cup {"filesystem.info"}
    BY <2>1 DEF A!RemoteActions
  <2> QED BY <2>1, <2>2, <2>3, SizeMoves
<1>7. CASE A!ResolveWrite
  <2>1. /\ asked.action = "filesystem.write" /\ phase' \in {"done", "write"}
        /\ UNCHANGED <<tree, asked, size, out>>
    BY <1>7, FailsDone DEF A!ResolveWrite
  <2> QED BY <2>1, SizeMoves
<1>8. CASE A!Stat
  <2>1. /\ asked.action = "filesystem.read" /\ phase' \in {"done", "bytes"}
        /\ UNCHANGED <<tree, asked, size, out>>
    BY <1>8, FailsDone DEF A!Stat, SizeInv
  <2> QED BY <2>1, SizeMoves
<1>9. CASE A!ReadBytes
  <2> DEFINE there == A!At(tree, goal).size
             read == IF asked.part = "whole" \/ there < asked.length THEN there ELSE asked.length
  <2>1. /\ asked.action = "filesystem.read" /\ asked.length \in Nat /\ \A e \in tree : Sized(e)
        /\ UNCHANGED <<tree, asked>>
    BY <1>9 DEF A!ReadBytes, SizeInv
  <2>2. CASE phase' = "done" /\ UNCHANGED <<out, size>>
    BY <2>1, <2>2, SizeMoves
  <2>3. CASE A!IsFile(tree, goal) /\ phase' = "record" /\ out' = {goal} /\ size' = read
    <3>1. A!At(tree, goal) \in tree
      BY <2>3 DEF A!IsFile, A!At
    <3>2. there \in Nat
      BY <2>1, <3>1 DEF Sized
    <3>3. read \in Nat
      BY <2>1, <3>2
    <3>4. size' \in Nat /\ IsFiniteSet(out')
      BY <2>3, <3>3, FS_Singleton
    <3> QED BY <2>1, <2>3, <3>4 DEF SizeInv
  <2> QED BY <1>9, <2>2, <2>3, FailsDone DEF A!ReadBytes
<1>10. CASE A!Explore
  <2>1. asked.action \in A!Walks \cup {"filesystem.info"} /\ UNCHANGED <<tree, asked, size>>
    BY <1>10 DEF A!Explore, SizeInv
  <2>2. CASE asked.action = "filesystem.info"
    <3>1. out' = {goal} /\ phase' = "record"
      BY <1>10, <2>2 DEF A!Explore
    <3>2. IsFiniteSet(out')
      BY <3>1, FS_Singleton
    <3> QED BY <2>1, <3>1, <3>2 DEF SizeInv
  <2>3. CASE asked.action # "filesystem.info"
    <3>1. phase' \in {"done", "walk"} /\ UNCHANGED out
      BY <1>10, <2>3, FailsDone DEF A!Explore
    <3> QED BY <2>1, <2>3, <3>1, SizeMoves
  <2> QED BY <2>2, <2>3
<1>11. CASE A!WalkDirectory
  <2>1. /\ asked.action \in A!Walks /\ phase' \in {"record", "walk"}
        /\ UNCHANGED <<tree, asked, size, out>>
    BY <1>11 DEF A!WalkDirectory, SizeInv
  <2> QED BY <2>1, SizeMoves
<1>12. CASE A!WalkEntry
  <2>1. /\ asked.action \in A!Walks /\ UNCHANGED <<tree, asked>>
    BY <1>12 DEF A!WalkEntry, SizeInv
  <2>2. \/ phase' = "done" /\ UNCHANGED <<size, out>>
        \/ /\ phase' \in {"record", "walk"} /\ size' = A!Cardinality(out')
           /\ \E e : out' = out \/ out' = out \cup A!Visited(e)
    <3>1. PICK x \in entries : A!WalkEntry!(x)
      BY <1>12 DEF A!WalkEntry
    <3> QED BY <3>1, FailsDone
  <2>3. CASE phase' = "done" /\ UNCHANGED <<size, out>>
    BY <2>1, <2>3, SizeMoves
  <2>4. CASE /\ phase' \in {"record", "walk"} /\ size' = A!Cardinality(out')
             /\ \E e : out' = out \/ out' = out \cup A!Visited(e)
    <3>1. ASSUME NEW e PROVE IsFiniteSet(A!Visited(e))
      <4>1. A!Visited(e) = {} \/ A!Visited(e) = {A!Path(e)}
        BY <2>1 DEF A!Visited, A!Walks
      <4> QED BY <4>1, FS_EmptySet, FS_Singleton
    <3>2. IsFiniteSet(out')
      BY <2>4, <3>1, FS_Union DEF SizeInv
    <3>3. size' \in Nat
      BY <2>4, <3>2, FS_CardinalityType, OneCardinality
    <3> QED BY <2>1, <2>4, <3>2, <3>3 DEF SizeInv
  <2> QED BY <2>2, <2>3, <2>4
<1>13. CASE A!Write
  <2>1. asked.action = "filesystem.write" /\ UNCHANGED <<asked, size, out>> /\ phase' \in {"done", "record"}
    BY <1>13, FailsDone DEF A!Write, SizeInv
  <2> QED BY <2>1 DEF SizeInv
<1>14. CASE A!LogFails
  <2>1. phase' = "done" /\ UNCHANGED <<tree, asked, size, out>>
    BY <1>14 DEF A!LogFails, A!Answered
  <2> QED BY <2>1, SizeMoves
<1>15. CASE A!SearchTimeout
  <2>1. phase' = "done" /\ UNCHANGED <<tree, asked, size, out>>
    BY <1>15, FailsDone DEF A!SearchTimeout
  <2> QED BY <2>1, SizeMoves
<1>16. ASSUME NEW e \in Creations, A!Create(e) PROVE SizeInv'
  <2>1. UNCHANGED <<asked, phase, size, out>> /\ tree' = tree \cup {e} /\ Sized(e)
    BY <1>16 DEF A!Create, LengthsAssumption, Sized
  <2> QED BY <2>1 DEF SizeInv
<1>17. ASSUME NEW e \in tree, A!Grow(e) PROVE SizeInv'
  <2>1. /\ UNCHANGED <<asked, phase, size, out>>
        /\ tree' = (tree \ {e}) \cup {[e EXCEPT !.size = @ + 1]}
    BY <1>17 DEF A!Grow
  <2>2. Sized(e) => Sized([e EXCEPT !.size = @ + 1])
    BY DEF Sized
  <2> QED BY <2>1, <2>2 DEF SizeInv
<1> QED BY <1>1, <1>2, <1>3, <1>4, <1>5, <1>6, <1>7, <1>8, <1>9, <1>10, <1>11, <1>12, <1>13,
           <1>14, <1>15, <1>16, <1>17 DEF A!Next, A!Work

-----------------------------------------------------------------------------
(* What the actions make of the log.                                       *)

Acting == {"resolve", "stat", "bytes", "explore", "walk", "write", "record"}
Phases == Acting \cup {"authorize", "edit", "edited", "done"}

LEMMA RangeIsSaid == ASSUME NEW s PROVE A!Range(s) = Said(s)
BY DEF A!Range, Said

\* The worker goes on: nothing is recorded or answered yet.
LEMMA GoesOn ==
    ASSUME TrailInv, phase \in Acting, phase' \in Acting, UNCHANGED <<trail, answer>>
    PROVE  TrailInv'
<1>1. /\ trail \in Seq(Said(trail)) /\ answer.status = "none" /\ trail # << >>
      /\ trail[1] # "deny" /\ "auto" \in Said(trail)
  BY DEF TrailInv, Acting
<1>2. AnswerIsRecorded'
  BY <1>1, RangeIsSaid DEF AnswerIsRecorded, A!AnswerIsRecorded
<1> QED BY <1>1, <1>2 DEF TrailInv, Acting

\* The log tells more at the end, and the caller is told nothing.
LEMMA Ends ==
    ASSUME TrailInv, phase \in Phases \ {"done"}, phase' = "done", answer'.status # "ok",
           phase \in Acting \/ touched' = touched,
           \/ trail' = trail
           \/ \E x : trail' = Append(trail, x)
           \/ \E x, y : trail' = trail \o <<x, y>>
    PROVE  TrailInv'
<1>1. trail \in Seq(Said(trail))
  BY DEF TrailInv
<1>2. /\ trail' \in Seq(Said(trail')) /\ Said(trail) \subseteq Said(trail')
      /\ trail # << >> => trail' # << >> /\ trail'[1] = trail[1]
  <2>1. CASE trail' = trail
    BY <1>1, <2>1
  <2>2. CASE \E x : trail' = Append(trail, x)
    BY <1>1, <2>2, SaidMore
  <2>3. CASE \E x, y : trail' = trail \o <<x, y>>
    BY <1>1, <2>3, SaidTwo
  <2> QED BY <2>1, <2>2, <2>3
<1>3. touched' # {} => trail # << >> /\ trail[1] # "deny"
  BY DEF TrailInv, Phases, Acting
<1>4. (\E u \in touched' : u.access # "edit") => "auto" \in Said(trail)
  BY DEF TrailInv, Phases, Acting
<1>5. AnswerIsRecorded'
  BY <1>2, <1>3, <1>4, RangeIsSaid DEF AnswerIsRecorded, A!AnswerIsRecorded
<1> QED BY <1>2, <1>5 DEF TrailInv

LEMMA FailEnds ==
    ASSUME TrailInv, phase \in Phases \ {"done"}, NEW status, status # "ok", A!Fail(status),
           phase \in Acting \/ touched' = touched
    PROVE  TrailInv'
<1>1. /\ phase' = "done" /\ answer'.status = status
      /\ trail' = trail \/ trail' = Append(trail, "worker_failed")
  BY DEF A!Fail, A!Answered, A!Unanswered
<1> QED BY <1>1, Ends

\* A decision on a write, its first or that of what an edit has become.
LEMMA RouteRecords ==
    ASSUME TrailInv, NEW d, A!Route(d), touched' = touched,
           \/ phase = "authorize" /\ d # "deny"
           \/ phase = "edited"
    PROVE  TrailInv'
<1>0. phase \in Phases \ {"done"} /\ trail \in Seq(Said(trail))
  BY DEF TrailInv, Phases
<1>1. CASE phase' = "resolve" /\ d = "auto" /\ trail' = Append(trail, d) /\ UNCHANGED answer
  <2>1. /\ trail' \in Seq(Said(trail')) /\ Said(trail') = Said(trail) \cup {d} /\ trail' # << >>
        /\ trail # << >> => trail'[1] = trail[1]
    BY <1>0, <1>1, SaidMore
  <2>2. trail'[1] # "deny"
    <3>1. CASE phase = "edited"
      BY <2>1, <3>1 DEF TrailInv
    <3>2. CASE phase = "authorize"
      <4>1. trail' = <<d>>
        BY <1>1, <3>2 DEF TrailInv
      <4> QED BY <1>1, <4>1
    <3> QED BY <3>1, <3>2
  <2>3. answer'.status = "none"
    BY <1>0, <1>1 DEF TrailInv
  <2>4. AnswerIsRecorded'
    BY <1>1, <2>1, <2>2, <2>3, RangeIsSaid DEF AnswerIsRecorded, A!AnswerIsRecorded
  <2> QED BY <1>1, <2>1, <2>2, <2>3, <2>4 DEF TrailInv
<1>2. CASE /\ phase' = "done" /\ answer'.status # "ok"
           /\ \E x, y : trail' = trail \o <<x, y>>
  BY <1>0, <1>2, Ends
<1> QED BY <1>1, <1>2 DEF A!Route, A!Answered, A!Unanswered

LEMMA TrailStep == ASSUME LengthsAssumption, SizeInv, TrailInv, A!Next PROVE TrailInv'
<1> USE DEF A!Worker, A!Outside, Phases, Acting
<1>1. CASE A!Authorize
  <2>1. phase = "authorize" /\ touched' = {} /\ answer.status = "none"
    BY <1>1 DEF A!Authorize, TrailInv
  <2>2. CASE phase' = "resolve" /\ trail' = <<"auto">> /\ UNCHANGED answer
    <3>1. trail' \in Seq(Said(trail')) /\ Said(trail') = {"auto"} /\ trail' # << >> /\ trail'[1] # "deny"
      BY <2>2, SaidOf
    <3>2. AnswerIsRecorded'
      BY <2>1, <2>2 DEF AnswerIsRecorded, A!AnswerIsRecorded
    <3> QED BY <2>1, <2>2, <3>1, <3>2 DEF TrailInv
  <2>3. CASE /\ phase' = "done" /\ answer'.status # "ok"
             /\ \/ \E x : trail' = <<x>>
                \/ \E x, y : trail' = <<x, y>>
    <3>1. trail' \in Seq(Said(trail'))
      <4>1. CASE \E x : trail' = <<x>>
        BY <4>1, SaidOf
      <4>2. CASE \E x, y : trail' = <<x, y>>
        <5>1. PICK x, y : trail' = <<x, y>>
          BY <4>2
        <5>2. <<x, y>> \in Seq(Said(<<x, y>>))
          BY SaidOf
        <5> QED BY <5>1, <5>2, Zenon
      <4> QED BY <2>3, <4>1, <4>2
    <3>2. AnswerIsRecorded'
      BY <2>1, <2>3 DEF AnswerIsRecorded, A!AnswerIsRecorded
    <3> QED BY <2>3, <3>1, <3>2 DEF TrailInv
  <2> DEFINE d == A!Decide(policy, tree, asked)
             remote == asked.action \in A!RemoteActions
  <2>4. CASE remote /\ d = "auto"
    BY <1>1, <2>2, <2>4 DEF A!Authorize
  <2>5. CASE ~(remote /\ d = "auto")
    <3>1. phase' = "done" /\ answer'.status # "ok"
      BY <1>1, <2>5 DEF A!Authorize, A!Answered, A!Unanswered
    <3>2. \/ trail' = <<d, "remote_scope_denied">>
          \/ trail' = <<"deny">> \/ trail' = <<"approval", "remote_approval_required">>
      BY <1>1, <2>5 DEF A!Authorize
    <3> QED BY <2>3, <3>1, <3>2
  <2> QED BY <2>4, <2>5
<1>2. CASE A!Prepare
  <2> DEFINE d == A!Decide(policy, tree, asked)
  <2>1. phase = "authorize" /\ touched' = touched /\ touched = {} /\ answer.status = "none"
    BY <1>2 DEF A!Prepare, TrailInv
  <2>2. CASE /\ trail' = <<d>> /\ answer'.status # "ok"
             /\ \/ phase' = "done"
                \/ phase' = "edit" /\ d # "deny" /\ answer' = answer
    <3>1. trail' \in Seq(Said(trail')) /\ trail' # << >> /\ (d # "deny" => trail'[1] # "deny")
      BY <2>2, SaidOf
    <3>2. AnswerIsRecorded'
      BY <2>1, <2>2 DEF AnswerIsRecorded, A!AnswerIsRecorded
    <3> QED BY <2>1, <2>2, <3>1, <3>2 DEF TrailInv
  <2>3. CASE d # "deny" /\ A!Route(d)
    BY <2>1, <2>3, RouteRecords
  <2>4. CASE d = "deny"
    <3>1. trail' = <<d>> /\ phase' = "done" /\ answer'.status = "denied"
      BY <1>2, <2>4 DEF A!Prepare, A!Answered, A!Unanswered
    <3> QED BY <2>2, <3>1
  <2>5. CASE d # "deny" /\ asked.edit
    BY <1>2, <2>1, <2>2, <2>5 DEF A!Prepare
  <2> QED BY <1>2, <2>3, <2>4, <2>5 DEF A!Prepare
<1>3. CASE A!PrepareAgain
  <2>1. phase = "edited" /\ touched' = touched /\ A!Route(A!Decide(policy, tree, asked))
    BY <1>3 DEF A!PrepareAgain
  <2> QED BY <2>1, RouteRecords
<1>4. CASE A!ReadEdit
  <2>1. CASE A!Fail("unsafe") /\ touched' = touched
    <3>1. phase \in Phases \ {"done"}
      BY <1>4 DEF A!ReadEdit
    <3> QED BY <2>1, <3>1, FailEnds
  <2>2. CASE /\ \E p : touched' = touched \cup {[path |-> p, access |-> "edit"]}
             /\ phase' = "edited" /\ UNCHANGED <<answer, trail>>
    <3>1. /\ trail \in Seq(Said(trail)) /\ trail # << >> /\ trail[1] # "deny"
          /\ answer.status = "none" /\ \A u \in touched : u.access = "edit"
      BY <1>4 DEF A!ReadEdit, TrailInv
    <3>2. \A u \in touched' : u.access = "edit"
      BY <2>2, <3>1
    <3>3. AnswerIsRecorded'
      BY <2>2, <3>1, <3>2 DEF AnswerIsRecorded, A!AnswerIsRecorded
    <3> QED BY <2>2, <3>1, <3>2, <3>3 DEF TrailInv
  <2> QED BY <1>4, <2>1, <2>2 DEF A!ReadEdit, A!Touch
<1>5. CASE A!Answer
  <2>1. phase = "record" /\ touched' = touched /\ phase' = "done"
    BY <1>5 DEF A!Answer, A!Answered
  <2>2. CASE size > MaxOutput
    <3>1. answer'.status # "ok" /\ trail' = Append(trail, "output_limit_exceeded")
      BY <1>5, <2>2 DEF A!Answer, A!Answered, A!Unanswered
    <3> QED BY <2>1, <3>1, Ends
  <2>3. CASE ~(size > MaxOutput)
    <3>1. trail' = Append(trail, "executed") /\ answer'.size = size
      BY <1>5, <2>3 DEF A!Answer
    <3>2. size <= MaxOutput
      BY <2>3 DEF SizeInv, LengthsAssumption
    <3>3. trail \in Seq(Said(trail)) /\ trail # << >> /\ trail[1] # "deny" /\ "auto" \in Said(trail)
      BY <2>1 DEF TrailInv
    <3>4. /\ trail' \in Seq(Said(trail')) /\ Said(trail') = Said(trail) \cup {"executed"}
          /\ trail' # << >> /\ A!Last(trail') = "executed" /\ A!Front(trail') = trail
          /\ trail'[1] = trail[1]
      BY <3>1, <3>3, SaidMore
    <3>5. A!Range(trail') = Said(trail') /\ A!Range(A!Front(trail')) = Said(trail)
      BY <3>4, RangeIsSaid
    <3>6. AnswerIsRecorded'
      BY <3>1, <3>2, <3>3, <3>4, <3>5 DEF AnswerIsRecorded, A!AnswerIsRecorded
    <3> QED BY <2>1, <3>4, <3>6 DEF TrailInv
  <2> QED BY <2>2, <2>3
<1>6. CASE A!Resolve
  <2>1. CASE touched' = touched /\ (A!Fail("read_limit") \/ A!Fail("unsafe"))
    BY <1>6, <2>1, FailEnds DEF A!Resolve
  <2>2. CASE phase' \in Acting /\ UNCHANGED <<answer, trail>>
    BY <1>6, <2>2, GoesOn DEF A!Resolve
  <2> QED BY <1>6, <2>1, <2>2 DEF A!Resolve
<1>7. CASE A!ResolveWrite
  <2>1. CASE touched' = touched /\ A!Fail("unsafe")
    BY <1>7, <2>1, FailEnds DEF A!ResolveWrite
  <2>2. CASE phase' = "write" /\ UNCHANGED <<answer, trail>>
    BY <1>7, <2>2, GoesOn DEF A!ResolveWrite
  <2> QED BY <1>7, <2>1, <2>2 DEF A!ResolveWrite
<1>8. CASE A!Stat
  <2>1. CASE touched' = touched /\ (A!Fail("io") \/ A!Fail("read_limit"))
    BY <1>8, <2>1, FailEnds DEF A!Stat
  <2>2. CASE phase' = "bytes" /\ UNCHANGED <<answer, trail>>
    BY <1>8, <2>2, GoesOn DEF A!Stat
  <2> QED BY <1>8, <2>1, <2>2 DEF A!Stat
<1>9. CASE A!ReadBytes
  <2>1. CASE A!Fail("io") \/ A!Fail("read_limit")
    BY <1>9, <2>1, FailEnds DEF A!ReadBytes
  <2>2. CASE phase' = "record" /\ UNCHANGED <<answer, trail>>
    BY <1>9, <2>2, GoesOn DEF A!ReadBytes
  <2> QED BY <1>9, <2>1, <2>2 DEF A!ReadBytes
<1>10. CASE A!Explore
  <2>1. CASE A!Fail("unsafe")
    BY <1>10, <2>1, FailEnds DEF A!Explore
  <2>2. CASE phase' \in {"record", "walk"} /\ UNCHANGED <<answer, trail>>
    BY <1>10, <2>2, GoesOn DEF A!Explore
  <2> QED BY <1>10, <2>1, <2>2 DEF A!Explore
<1>11. CASE A!WalkDirectory
  BY <1>11, GoesOn DEF A!WalkDirectory
<1>12. CASE A!WalkEntry
  <2>1. phase = "walk"
    BY <1>12 DEF A!WalkEntry
  <2>2. CASE A!Fail("outside")
    BY <2>1, <2>2, FailEnds
  <2>3. CASE phase' \in {"record", "walk"} /\ UNCHANGED <<answer, trail>>
    BY <2>1, <2>3, GoesOn
  <2>4. PICK x \in entries : A!WalkEntry!(x)
    BY <1>12 DEF A!WalkEntry
  <2> QED BY <2>1, <2>2, <2>3, <2>4
<1>13. CASE A!Write
  <2>1. CASE A!Fail("precondition_failed")
    BY <1>13, <2>1, FailEnds DEF A!Write
  <2>2. CASE phase' = "record" /\ UNCHANGED <<answer, trail>>
    BY <1>13, <2>2, GoesOn DEF A!Write
  <2> QED BY <1>13, <2>1, <2>2 DEF A!Write
<1>14. CASE A!LogFails
  BY <1>14, Ends DEF A!LogFails, A!Answered, A!Unanswered
<1>15. CASE A!SearchTimeout
  BY <1>15, FailEnds DEF A!SearchTimeout
<1>16. CASE UNCHANGED <<phase, trail, answer, touched>>
  BY <1>16 DEF TrailInv, AnswerIsRecorded, A!AnswerIsRecorded, Said, A!Range, A!Last, A!Front
<1>17. ASSUME NEW e, A!Create(e) \/ A!Grow(e) PROVE TrailInv'
  BY <1>16, <1>17 DEF A!Create, A!Grow
<1> QED BY <1>1, <1>2, <1>3, <1>4, <1>5, <1>6, <1>7, <1>8, <1>9, <1>10, <1>11, <1>12, <1>13,
           <1>14, <1>15, <1>17 DEF A!Next, A!Work

\* An answer that brings something fits the limit, whatever became of the file while it was
\* read, and follows a record of its execution; nothing is touched that the log does not
\* tell of first, by a decision that is not to deny it (dispatch_at, prepare_approved_at).
THEOREM AnswersAreRecorded ==
    ASSUME LengthsAssumption PROVE ServiceSpec => []AnswerIsRecorded
<1> DEFINE Inv == SizeInv /\ TrailInv
<1>1. ServiceInit => Inv
  <2> SUFFICES ASSUME ServiceInit PROVE Inv
    OBVIOUS
  <2>1. A!Init
    BY DEF ServiceInit
  <2>2. phase = "authorize" /\ trail = << >> /\ touched = {} /\ answer.status = "none"
    BY <2>1 DEF A!Init, A!Unanswered
  <2>3. AnswerIsRecorded
    BY <2>2 DEF AnswerIsRecorded, A!AnswerIsRecorded
  <2>4. TrailInv
    BY <2>2, <2>3, SaidOf DEF TrailInv
  <2> QED BY <2>1, <2>4, SizeBeginning
<1>2. Inv /\ [ServiceNext]_Service => Inv'
  <2> SUFFICES ASSUME Inv, [ServiceNext]_Service PROVE Inv'
    OBVIOUS
  <2>1. CASE A!Next
    BY <2>1, SizeStep, TrailStep
  <2>2. CASE UNCHANGED access
    BY <2>2 DEF access, TrailInv, AnswerIsRecorded, A!AnswerIsRecorded, Said, A!Range, A!Last,
                A!Front, SizeInv, Sized
  <2> QED BY <2>1, <2>2 DEF ServiceNext, Service
<1>3. Inv => AnswerIsRecorded
  BY DEF TrailInv
<1> QED BY <1>1, <1>2, <1>3, PTL DEF ServiceSpec

-----------------------------------------------------------------------------
\* Of some numbers one is least.
LEMMA LeastNumber ==
    ASSUME NEW S \in SUBSET Nat, S # {}
    PROVE  \E i \in S : \A j \in S : i <= j
<1>1. PICK n \in S : TRUE
  OBVIOUS
<1> DEFINE B == {0..i : i \in {i \in S : i <= n}}
<1>2. B \subseteq SUBSET (0..n) /\ 0..n \in B
  BY <1>1
<1>3. IsWellFoundedOn(StrictSubsetOrdering(0..n), SUBSET (0..n))
  <2>1. IsFiniteSet(0..n)
    BY <1>1, FS_Interval
  <2>2. FiniteSubsetsOf(0..n) = SUBSET (0..n)
    BY <2>1, FS_FiniteSubsetsOfFinite
  <2> QED BY <2>2, FS_StrictSubsetOrderingWellFounded
<1>4. PICK X \in B : \A U \in B : ~(<<U, X>> \in StrictSubsetOrdering(0..n))
  <2> HIDE DEF B
  <2> QED BY <1>2, <1>3, WFMin
<1>5. PICK i \in S : i <= n /\ X = 0..i
  OBVIOUS
<1>6. ASSUME NEW j \in S, j < i
      PROVE  FALSE
  <2>1. 0..j \in B /\ 0..j \subseteq 0..i /\ i \in 0..i /\ i \notin 0..j
    BY <1>1, <1>5, <1>6
  <2> QED BY <1>2, <1>4, <1>5, <2>1 DEF StrictSubsetOrdering
<1> QED BY <1>6

-----------------------------------------------------------------------------
(* Paths (PolicyRules, FileAccess): what is made of one part after another. *)

\* canonicalize follows links, GetLongPathNameW expands names.
Ways == {"links", "names"}

\* One part of a path: from a directory to what the part names there.
Step(how, t, folder, name) ==
    IF folder # Nothing /\ \E e \in t : e.dir = folder /\ name \in {e.name, e.short}
    THEN LET e == CHOOSE x \in t : x.dir = folder /\ name \in {x.name, x.short} IN
         IF how = "links" /\ e.kind = "link" THEN e.to ELSE A!Path(e)
    ELSE Nothing

\* Where the parts of a path lead: with links as canonicalize has it, without as
\* GetLongPathNameW has it.
Way(how, t, parts) == IF how = "links" THEN A!Canonical(t, parts) ELSE A!LongPath(t, parts)

\* What both go through, for the sets of places that a fold comes by.
IsWay(how, t, parts, S, g) ==
    g = [s \in SUBSET S |-> IF s = {} THEN << >>
                            ELSE Step(how, t, g[s \ {A!Max(s)}], parts[A!Max(s)])]

LEMMA LastPlace ==
    ASSUME NEW n \in Nat, NEW s \in SUBSET (1 .. n), s # {}
    PROVE  A!Max(s) \in s /\ \A y \in s : A!Max(s) >= y
<1> DEFINE R == {n - x : x \in s}
<1>1. R \in SUBSET Nat /\ R # {}
  <2>1. \A x \in s : n - x \in Nat
    OBVIOUS
  <2> QED BY <2>1
<1>2. PICK i \in R : \A j \in R : i <= j
  <2> HIDE DEF R
  <2> QED BY <1>1, LeastNumber
<1>3. PICK x \in s : i = n - x
  OBVIOUS
<1>4. ASSUME NEW y \in s PROVE x >= y
  <2>1. n - y \in R /\ x \in Nat /\ y \in Nat
    OBVIOUS
  <2> QED BY <1>2, <1>3, <2>1
<1> QED BY <1>4 DEF A!Max

LEMMA WayUnfolds ==
    ASSUME NEW how, NEW t, NEW parts, NEW S, NEW g, IsWay(how, t, parts, S, g), NEW s \in SUBSET S
    PROVE  g[s] = IF s = {} THEN << >>
                  ELSE Step(how, t, g[s \ {A!Max(s)}], parts[A!Max(s)])
BY DEF IsWay

LEMMA WayOfAll ==
    ASSUME NEW how, NEW t, NEW parts, NEW S, NEW g, IsWay(how, t, parts, S, g)
    PROVE  g[S] = IF S = {} THEN << >>
                  ELSE Step(how, t, g[S \ {A!Max(S)}], parts[A!Max(S)])
<1>1. S \in SUBSET S
  OBVIOUS
<1> QED BY <1>1 DEF IsWay

\* Of the sets of places that have a property one is least.
LEMMA LeastPlaces ==
    ASSUME NEW X, IsFiniteSet(X), NEW B, B \subseteq SUBSET X, B # {}
    PROVE  \E V \in B : \A U \in B : U \subseteq V => U = V
<1>1. FiniteSubsetsOf(X) = SUBSET X
  BY FS_FiniteSubsetsOfFinite
<1>2. IsWellFoundedOn(StrictSubsetOrdering(X), SUBSET X)
  BY <1>1, FS_StrictSubsetOrderingWellFounded
<1>3. PICK V \in B : \A U \in B : ~(<<U, V>> \in StrictSubsetOrdering(X))
  BY <1>2, WFMin
<1> QED BY <1>3 DEF StrictSubsetOrdering

\* Ways along the same parts agree.
LEMMA WaysAgree ==
    ASSUME NEW how, NEW t, NEW p, NEW S, NEW g, IsWay(how, t, p, S, g),
           NEW q, NEW R, NEW h, IsWay(how, t, q, R, h),
           NEW U, U \subseteq S, U \subseteq R, \A x \in U : p[x] = q[x],
           IsFiniteSet(U), \A s \in SUBSET U : s # {} => A!Max(s) \in s
    PROVE  g[U] = h[U]
<1> DEFINE B == {s \in SUBSET U : g[s] # h[s]}
<1>1. SUFFICES ASSUME B # {} PROVE FALSE
  OBVIOUS
<1>2. PICK s \in B : \A u \in B : u \subseteq s => u = s
  <2>1. B \subseteq SUBSET U
    OBVIOUS
  <2> HIDE DEF B
  <2> QED BY <1>1, <2>1, LeastPlaces
<1> DEFINE m == A!Max(s)  u == s \ {m}
<1>3. /\ g[s] = IF s = {} THEN << >> ELSE Step(how, t, g[u], p[m])
      /\ h[s] = IF s = {} THEN << >> ELSE Step(how, t, h[u], q[m])
  <2>1. s \in SUBSET S /\ s \in SUBSET R
    OBVIOUS
  <2> QED BY <2>1, WayUnfolds
<1>4. s # {} => m \in s
  OBVIOUS
<1> HIDE DEF m
<1>5. s # {} => g[u] = h[u] /\ p[m] = q[m]
  BY <1>2, <1>4
<1> QED BY <1>2, <1>3, <1>5

LEMMA WaysExist ==
    ASSUME NEW how, NEW t, NEW parts, NEW n \in Nat
    PROVE  \E g : IsWay(how, t, parts, 1 .. n, g)
<1> DEFINE S == 1 .. n
           B == {s \in SUBSET S : ~\E g : IsWay(how, t, parts, s, g)}
<1>1. SUFFICES ASSUME B # {} PROVE FALSE
  OBVIOUS
<1>2. PICK W \in B : \A u \in B : u \subseteq W => u = W
  <2>1. B \subseteq SUBSET S /\ IsFiniteSet(S)
    BY FS_Interval
  <2> HIDE DEF B, S
  <2> QED BY <1>1, <2>1, LeastPlaces
<1> DEFINE G(s) == CHOOSE g : IsWay(how, t, parts, s, g)
           L(s) == A!Max(s)
           h == [s \in SUBSET W |-> IF s = {} THEN << >>
                    ELSE Step(how, t, G(s \ {L(s)})[s \ {L(s)}], parts[L(s)])]
<1>0. ASSUME NEW s \in SUBSET W, s # {} PROVE L(s) \in s
  BY <1>0, LastPlace
<1> HIDE DEF L
<1>3. ASSUME NEW s \in SUBSET W, s # W
      PROVE  IsWay(how, t, parts, s, G(s))
  <2>1. s \notin B /\ s \in SUBSET S
    BY <1>2, <1>3
  <2> QED BY <2>1
<1>4. ASSUME NEW s \in SUBSET W, s # {}
      PROVE  h[s \ {L(s)}] = G(s \ {L(s)})[s \ {L(s)}]
  <2> DEFINE u == s \ {L(s)}  v == u \ {L(u)}
  <2> HIDE DEF G
  <2>1. L(s) \in s
    BY <1>0, <1>4
  <2>2. u \in SUBSET W /\ u # W
    BY <2>1
  <2>3. IsWay(how, t, parts, u, G(u))
    BY <1>3, <2>2
  <2>4. G(u)[u] = IF u = {} THEN << >> ELSE Step(how, t, G(u)[v], parts[L(u)])
    <3> DEFINE g == G(u)
    <3> HIDE DEF G, g, h, u
    <3>1. IsWay(how, t, parts, u, g)
      BY <2>3 DEF g
    <3>2. g[u] = IF u = {} THEN << >> ELSE Step(how, t, g[u \ {A!Max(u)}], parts[A!Max(u)])
      BY <3>1, WayOfAll
    <3> QED BY <3>2 DEF g, L
  <2>5. h[u] = IF u = {} THEN << >> ELSE Step(how, t, G(v)[v], parts[L(u)])
    BY <2>2
  <2>6. u # {} => G(u)[v] = G(v)[v]
    <3>1. SUFFICES ASSUME u # {} PROVE G(u)[v] = G(v)[v]
      OBVIOUS
    <3>2. L(u) \in u
      BY <1>0, <2>2, <3>1
    <3>3. v \in SUBSET W /\ v # W /\ v \subseteq u
      BY <2>2, <3>2
    <3>4. IsWay(how, t, parts, v, G(v))
      BY <1>3, <3>3
    <3>5. IsFiniteSet(v) /\ \A x \in SUBSET v : x # {} => A!Max(x) \in x
      <4>1. v \in SUBSET (1 .. n)
        BY <1>2, <3>3
      <4>2. IsFiniteSet(1 .. n)
        BY FS_Interval
      <4> HIDE DEF v
      <4>3. \A x \in SUBSET v : x # {} => A!Max(x) \in x
        BY <4>1, LastPlace
      <4> QED BY <4>1, <4>2, <4>3, FS_Subset
    <3> HIDE DEF v, u
    <3>6. \A U : /\ U \subseteq u /\ U \subseteq v /\ IsFiniteSet(U)
                 /\ \A x \in SUBSET U : x # {} => A!Max(x) \in x
                 => G(u)[U] = G(v)[U]
      BY <2>3, <3>4, WaysAgree
    <3> QED BY <3>3, <3>5, <3>6
  <2> QED BY <2>4, <2>5, <2>6
<1>5. \A s \in SUBSET W : s # {} => h[s] = Step(how, t, h[s \ {L(s)}], parts[L(s)])
  BY <1>4
<1>6. h = [s \in SUBSET W |-> IF s = {} THEN << >>
                  ELSE Step(how, t, h[s \ {A!Max(s)}], parts[A!Max(s)])]
  <2> DEFINE k == [s \in SUBSET W |-> IF s = {} THEN << >>
                      ELSE Step(how, t, h[s \ {A!Max(s)}], parts[A!Max(s)])]
  <2>1. \A s \in SUBSET W : h[s] = k[s]
    <3> HIDE DEF h
    <3>1. \A s \in SUBSET W : k[s] = IF s = {} THEN << >> ELSE Step(how, t, h[s \ {L(s)}], parts[L(s)])
      BY DEF L
    <3>2. {} \in SUBSET W => h[{}] = << >>
      BY DEF h
    <3> QED BY <1>5, <3>1, <3>2
  <2>2. DOMAIN h = SUBSET W /\ DOMAIN k = SUBSET W
    OBVIOUS
  <2> HIDE DEF h
  <2>3. k = h
    BY <2>1, <2>2 DEF h
  <2> QED BY <2>3
<1> HIDE DEF h
<1>7. IsWay(how, t, parts, W, h)
  BY <1>6 DEF IsWay
<1> QED BY <1>2, <1>7

\* The definitions are folds over such sets.
IsLong(t, parts, g) ==
    g = [s \in SUBSET DOMAIN parts |->
            IF s = {} THEN << >>
            ELSE LET k == A!Max(s)
                     folder == g[s \ {k}] IN
                 IF folder # Nothing /\ \E e \in t : e.dir = folder /\ parts[k] \in {e.name, e.short}
                 THEN Append(folder, (CHOOSE e \in t : e.dir = folder /\ parts[k] \in {e.name, e.short}).name)
                 ELSE Nothing]

LEMMA LongIs ==
    ASSUME NEW t, NEW parts
    PROVE  A!LongPath(t, parts) = (CHOOSE g : IsLong(t, parts, g))[DOMAIN parts]
BY Zenon DEF A!LongPath, A!FoldLeft, A!MapThenFoldSet, IsLong

IsReal(t, parts, g) ==
    g = [s \in SUBSET DOMAIN parts |->
            IF s = {} THEN << >>
            ELSE LET k == A!Max(s)
                     folder == g[s \ {k}] IN
                 IF folder # Nothing /\ \E e \in t : e.dir = folder /\ parts[k] \in {e.name, e.short}
                 THEN LET e == CHOOSE x \in t : x.dir = folder /\ parts[k] \in {x.name, x.short} IN
                      IF e.kind = "link" THEN e.to ELSE A!Path(e)
                 ELSE Nothing]

LEMMA RealIs ==
    ASSUME NEW t, NEW parts
    PROVE  A!Canonical(t, parts) = (CHOOSE g : IsReal(t, parts, g))[DOMAIN parts]
BY Zenon DEF A!Canonical, A!FoldLeft, A!MapThenFoldSet, IsReal

LEMMA RealIsWay ==
    ASSUME NEW t, NEW parts, NEW g
    PROVE  IsReal(t, parts, g) <=> IsWay("links", t, parts, DOMAIN parts, g)
<1> DEFINE S == DOMAIN parts
           R(s) == IF s = {} THEN << >>
            ELSE LET k == A!Max(s)
                     folder == g[s \ {k}] IN
                 IF folder # Nothing /\ \E e \in t : e.dir = folder /\ parts[k] \in {e.name, e.short}
                 THEN LET e == CHOOSE x \in t : x.dir = folder /\ parts[k] \in {x.name, x.short} IN
                      IF e.kind = "link" THEN e.to ELSE A!Path(e)
                 ELSE Nothing
           W(s) == IF s = {} THEN << >> ELSE Step("links", t, g[s \ {A!Max(s)}], parts[A!Max(s)])
<1>1. \A s : R(s) = W(s)
  BY Zenon DEF Step
<1> HIDE DEF R, W
<1>2. [s \in SUBSET S |-> R(s)] = [s \in SUBSET S |-> W(s)]
  BY <1>1
<1> QED BY <1>2 DEF IsReal, IsWay, R, W

LEMMA LongIsWay ==
    ASSUME NEW t, NEW parts, NEW g
    PROVE  IsLong(t, parts, g) <=> IsWay("names", t, parts, DOMAIN parts, g)
<1> DEFINE S == DOMAIN parts
           R(s) == IF s = {} THEN << >>
            ELSE LET k == A!Max(s)
                     folder == g[s \ {k}] IN
                 IF folder # Nothing /\ \E e \in t : e.dir = folder /\ parts[k] \in {e.name, e.short}
                 THEN Append(folder, (CHOOSE e \in t : e.dir = folder /\ parts[k] \in {e.name, e.short}).name)
                 ELSE Nothing
           W(s) == IF s = {} THEN << >> ELSE Step("names", t, g[s \ {A!Max(s)}], parts[A!Max(s)])
<1>1. \A s : R(s) = W(s)
  <2> SUFFICES ASSUME NEW s PROVE R(s) = W(s)
    OBVIOUS
  <2> DEFINE k == A!Max(s)  folder == g[s \ {k}]  name == parts[k]
             e == CHOOSE x \in t : x.dir = folder /\ name \in {x.name, x.short}
             there == folder # Nothing /\ \E x \in t : x.dir = folder /\ name \in {x.name, x.short}
  <2>1. R(s) = IF s = {} THEN << >> ELSE IF there THEN Append(folder, e.name) ELSE Nothing
    BY Zenon
  <2>2. W(s) = IF s = {} THEN << >> ELSE IF there THEN A!Path(e) ELSE Nothing
    BY Zenon DEF Step
  <2>3. there => e \in t /\ e.dir = folder
    <3> HIDE DEF k, folder, name
    <3> QED OBVIOUS
  <2> HIDE DEF e, there, folder, R, W
  <2> QED BY <2>1, <2>2, <2>3 DEF A!Path
<1> HIDE DEF R, W
<1>2. [s \in SUBSET S |-> R(s)] = [s \in SUBSET S |-> W(s)]
  BY <1>1
<1> QED BY <1>2 DEF IsLong, IsWay, R, W

\* Both are a way over all the places of a path.
LEMMA WayIs ==
    ASSUME NEW how \in Ways, NEW t, NEW parts, parts \in Seq(STRING)
    PROVE  \E g : IsWay(how, t, parts, DOMAIN parts, g) /\ Way(how, t, parts) = g[DOMAIN parts]
<1>1. DOMAIN parts = 1 .. Len(parts) /\ Len(parts) \in Nat
  OBVIOUS
<1>2. \E g : IsWay(how, t, parts, DOMAIN parts, g)
  BY <1>1, WaysExist
<1>3. CASE how = "links"
  <2> DEFINE g == CHOOSE g : IsReal(t, parts, g)
  <2>1. IsReal(t, parts, g)
    BY <1>2, <1>3, RealIsWay
  <2>2. IsWay(how, t, parts, DOMAIN parts, g)
    BY <1>3, <2>1, RealIsWay
  <2>3. Way(how, t, parts) = g[DOMAIN parts]
    BY <1>3, RealIs DEF Way
  <2> QED BY <2>2, <2>3
<1>4. CASE how = "names"
  <2> DEFINE g == CHOOSE g : IsLong(t, parts, g)
  <2>1. IsLong(t, parts, g)
    BY <1>2, <1>4, LongIsWay
  <2>2. IsWay(how, t, parts, DOMAIN parts, g)
    BY <1>4, <2>1, LongIsWay
  <2>3. Way(how, t, parts) = g[DOMAIN parts]
    BY <1>4, LongIs DEF Way
  <2> QED BY <2>2, <2>3
<1> QED BY <1>3, <1>4 DEF Ways

LEMMA WayStarts ==
    ASSUME NEW how \in Ways, NEW t
    PROVE  Way(how, t, << >>) = << >>
<1> DEFINE q == << >>
<1>1. q \in Seq(STRING) /\ DOMAIN q = {}
  OBVIOUS
<1>2. PICK g : IsWay(how, t, q, DOMAIN q, g) /\ Way(how, t, q) = g[DOMAIN q]
  <2> HIDE DEF q
  <2> QED BY <1>1, WayIs
<1>3. g[{}] = << >>
  BY <1>1, <1>2, WayUnfolds
<1> QED BY <1>1, <1>2, <1>3

LEMMA WayGoesOn ==
    ASSUME NEW how \in Ways, NEW t, NEW parts, parts \in Seq(STRING), parts # << >>
    PROVE  Way(how, t, parts) = Step(how, t, Way(how, t, A!Front(parts)), parts[Len(parts)])
<1> DEFINE n == Len(parts)  q == A!Front(parts)  U == 1 .. n - 1
<1>1. n \in Nat \ {0} /\ DOMAIN parts = 1 .. n
  OBVIOUS
<1>2. q \in Seq(STRING) /\ DOMAIN q = U /\ \A x \in U : parts[x] = q[x]
  BY <1>1 DEF A!Front
<1>3. PICK g : IsWay(how, t, parts, DOMAIN parts, g) /\ Way(how, t, parts) = g[DOMAIN parts]
  BY WayIs
<1>4. PICK h : IsWay(how, t, q, DOMAIN q, h) /\ Way(how, t, q) = h[DOMAIN q]
  BY <1>2, WayIs
<1>5. A!Max(1 .. n) = n /\ (1 .. n) \ {n} = U
  <2>1. n \in 1 .. n
    BY <1>1
  <2>2. A!Max(1 .. n) \in 1 .. n /\ \A y \in 1 .. n : A!Max(1 .. n) >= y
    <3> DEFINE V == 1 .. n
    <3>1. V # {} /\ V \in SUBSET (1 .. n)
      BY <2>1
    <3> HIDE DEF V
    <3>2. A!Max(V) \in V /\ \A y \in V : A!Max(V) >= y
      BY <1>1, <3>1, LastPlace
    <3> QED BY <3>2 DEF V
  <2> QED BY <1>1, <2>1, <2>2
<1>6. g[1 .. n] = Step(how, t, g[U], parts[n])
  <2> DEFINE V == 1 .. n
  <2>1. V # {} /\ V \in SUBSET DOMAIN parts
    <3>1. n \in V
      BY <1>1
    <3> QED BY <1>1, <3>1
  <2> HIDE DEF V, U
  <2>2. g[V] = Step(how, t, g[V \ {A!Max(V)}], parts[A!Max(V)])
    <3> DEFINE D == DOMAIN parts
    <3>1. IsWay(how, t, parts, D, g) /\ V # {} /\ V \in SUBSET D
      BY <1>3, <2>1
    <3> HIDE DEF D
    <3> QED BY ONLY <3>1, WayUnfolds
  <2> QED BY <1>5, <2>2 DEF V
<1>7. g[U] = h[U]
  <2>1. IsFiniteSet(U)
    BY <1>1, FS_Interval
  <2>2. U \subseteq DOMAIN parts /\ U \subseteq DOMAIN q
    BY <1>1, <1>2
  <2>3. \A s \in SUBSET U : s # {} => A!Max(s) \in s
    <3>1. n - 1 \in Nat
      BY <1>1
    <3> QED BY <3>1, LastPlace
  <2> HIDE DEF U, q
  <2> QED BY <1>2, <1>3, <1>4, <2>1, <2>2, <2>3, WaysAgree
<1> QED BY <1>1, <1>2, <1>3, <1>4, <1>6, <1>7

-----------------------------------------------------------------------------
(* Disks (FileAccess) and what a path names on them.                       *)

IsEntry(e) ==
    /\ {"dir", "name", "short", "kind", "links", "size"} \subseteq DOMAIN e
    /\ e.dir \in Seq(STRING) /\ e.name \in STRING /\ e.short \in ShortNames \cup {Nothing}

\* Entries of a directory have no name in common.
Distinct(t) ==
    \A e, f \in t : e.dir = f.dir =>
        e = f \/ \A n \in STRING : ~(n \in {e.name, e.short} /\ n \in {f.name, f.short})

Disk(t) == (\A e \in t : IsEntry(e)) /\ Distinct(t)

\* An entry of the directory at the first k - 1 parts of m, which goes on to part k of m
\* and can be called by name.
LeadsOn(e, m, k, name) == e.dir = SubSeq(m, 1, k - 1) /\ e.name = m[k] /\ name \in {e.name, e.short}

\* On the disk parts name m, and no link is on the way.
Spelled(t, m, parts) ==
    /\ Len(m) = Len(parts)
    /\ \A k \in 1 .. Len(parts) : \E e \in t : LeadsOn(e, m, k, parts[k]) /\ e.kind # "link"

\* If parts name something then it is m, whatever is added.
Explains(t, m, parts) ==
    /\ Len(m) = Len(parts)
    /\ \A k \in 1 .. Len(parts) :
          \/ m[k] = parts[k] /\ parts[k] \notin ShortNames
          \/ \E e \in t : LeadsOn(e, m, k, parts[k])

\* Where the first k parts lead.
To(how, t, parts, k) == Way(how, t, SubSeq(parts, 1, k))

\* No link is followed over the first n parts.
Unlinked(t, parts, n) ==
    \A k \in 1 .. n : \A e \in t :
        e.dir = To("links", t, parts, k - 1) /\ e.dir # Nothing /\ parts[k] \in {e.name, e.short} => e.kind # "link"

LEMMA PrefixOf ==
    ASSUME NEW S, NEW p \in Seq(S), NEW k \in 1 .. Len(p)
    PROVE  LET q == SubSeq(p, 1, k) IN
           /\ q \in Seq(S) /\ Len(q) = k /\ q # << >> /\ q[Len(q)] = p[k] /\ A!Front(q) = SubSeq(p, 1, k - 1)
           /\ SubSeq(p, 1, k - 1) \in Seq(S) /\ Len(SubSeq(p, 1, k - 1)) = k - 1
           /\ Append(SubSeq(p, 1, k - 1), p[k]) = q
<1> DEFINE q == SubSeq(p, 1, k)  r == SubSeq(p, 1, k - 1)
<1>1. q \in Seq(S) /\ Len(q) = k /\ q[k] = p[k] /\ \A j \in 1 .. k : q[j] = p[j]
  OBVIOUS
<1>2. r \in Seq(S) /\ Len(r) = k - 1 /\ \A j \in 1 .. k - 1 : r[j] = p[j]
  OBVIOUS
<1>3. A!Front(q) = r
  <2>1. A!Front(q) = SubSeq(q, 1, k - 1)
    BY <1>1 DEF A!Front
  <2>2. /\ SubSeq(q, 1, k - 1) \in Seq(S) /\ Len(SubSeq(q, 1, k - 1)) = k - 1
        /\ \A j \in 1 .. k - 1 : SubSeq(q, 1, k - 1)[j] = q[j]
    BY <1>1
  <2>3. \A j \in 1 .. k - 1 : q[j] = r[j]
    BY <1>1, <1>2
  <2> HIDE DEF q, r
  <2> QED BY <1>2, <2>1, <2>2, <2>3, SeqEqual
<1>4. Append(r, p[k]) = q
  <2>1. p[k] \in S
    OBVIOUS
  <2> HIDE DEF q, r
  <2>2. Append(r, p[k]) \in Seq(S) /\ Len(Append(r, p[k])) = k /\ Append(r, p[k])[k] = p[k]
        /\ \A j \in 1 .. k - 1 : Append(r, p[k])[j] = r[j]
    BY <1>2, <2>1
  <2>3. \A j \in 1 .. k : Append(r, p[k])[j] = q[j]
    BY <1>1, <1>2, <2>2
  <2> QED BY <1>1, <2>2, <2>3, SeqEqual
<1> QED BY <1>1, <1>2, <1>3, <1>4

LEMMA ToStarts ==
    ASSUME NEW how \in Ways, NEW t, NEW parts \in Seq(STRING)
    PROVE  To(how, t, parts, 0) = << >>
<1>1. SubSeq(parts, 1, 0) = << >>
  OBVIOUS
<1> QED BY <1>1, WayStarts DEF To

LEMMA ToGoesOn ==
    ASSUME NEW how \in Ways, NEW t, NEW parts \in Seq(STRING), NEW k \in 1 .. Len(parts)
    PROVE  To(how, t, parts, k) = Step(how, t, To(how, t, parts, k - 1), parts[k])
<1> DEFINE q == SubSeq(parts, 1, k)
<1>1. q \in Seq(STRING) /\ q # << >> /\ q[Len(q)] = parts[k] /\ A!Front(q) = SubSeq(parts, 1, k - 1)
  BY PrefixOf
<1> HIDE DEF q
<1>2. Way(how, t, q) = Step(how, t, Way(how, t, A!Front(q)), q[Len(q)])
  BY <1>1, WayGoesOn
<1> QED BY <1>1, <1>2 DEF To, q

LEMMA ToEnds ==
    ASSUME NEW how \in Ways, NEW t, NEW parts \in Seq(STRING)
    PROVE  To(how, t, parts, Len(parts)) = Way(how, t, parts)
<1>1. SubSeq(parts, 1, Len(parts)) = parts
  OBVIOUS
<1> QED BY <1>1 DEF To

\* What a way ends at is a path with a part for each, along entries that are called so.
Along(how, t, parts, n) ==
    LET w == To(how, t, parts, n) IN
    /\ w \in Seq(STRING) /\ Len(w) = n
    /\ \A k \in 1 .. n : \E e \in t : LeadsOn(e, w, k, parts[k]) /\ (how = "links" => e.kind # "link")

LEMMA WaysLead ==
    ASSUME NEW how \in Ways, NEW t, Disk(t), NEW parts \in Seq(STRING), NEW n \in 0 .. Len(parts),
           how = "links" => Unlinked(t, parts, n), To(how, t, parts, n) # Nothing
    PROVE  Along(how, t, parts, n)
<1> DEFINE W(k) == To(how, t, parts, k)
           Bad == {k \in 0 .. n : W(k) # Nothing /\ ~Along(how, t, parts, k)}
<1>1. SUFFICES ASSUME Bad # {} PROVE FALSE
  OBVIOUS
<1>2. PICK k \in Bad : \A j \in Bad : k <= j
  <2>1. Bad \in SUBSET Nat
    OBVIOUS
  <2> HIDE DEF Bad
  <2> QED BY <1>1, <2>1, LeastNumber
<1>3. k \in 0 .. n /\ W(k) # Nothing /\ ~Along(how, t, parts, k) /\ Len(parts) \in Nat
  OBVIOUS
<1>4. k # 0
  <2>1. To(how, t, parts, 0) = << >>
    BY ToStarts
  <2>2. << >> \in Seq(STRING) /\ Len(<< >>) = 0 /\ 1 .. 0 = {}
    OBVIOUS
  <2>3. Along(how, t, parts, 0)
    BY <2>1, <2>2 DEF Along
  <2> QED BY <1>3, <2>3
<1>5. k \in 1 .. Len(parts) /\ k - 1 \in 0 .. n /\ k \in 1 .. n
  BY <1>3, <1>4
<1>6. W(k) = Step(how, t, W(k - 1), parts[k])
  BY <1>5, ToGoesOn
<1> DEFINE folder == W(k - 1)  name == parts[k]
           e == CHOOSE x \in t : x.dir = folder /\ name \in {x.name, x.short}
<1> HIDE DEF W, Bad
<1>7. /\ folder # Nothing /\ e \in t /\ e.dir = folder /\ name \in {e.name, e.short}
      /\ W(k) = IF how = "links" /\ e.kind = "link" THEN e.to ELSE A!Path(e)
  BY <1>3, <1>6 DEF Step
<1>8. how = "links" => e.kind # "link"
  BY <1>5, <1>7 DEF Unlinked, W
<1> HIDE DEF e
<1>9. W(k) = Append(folder, e.name)
  BY <1>7, <1>8 DEF A!Path
<1>10. Along(how, t, parts, k - 1)
  <2>1. k - 1 \notin Bad
    BY <1>2, <1>5
  <2> QED BY <1>5, <1>7, <2>1 DEF Bad, W
<1>11. /\ folder \in Seq(STRING) /\ Len(folder) = k - 1
       /\ \A j \in 1 .. k - 1 : \E x \in t : LeadsOn(x, folder, j, parts[j]) /\ (how = "links" => x.kind # "link")
  BY <1>10 DEF Along, W
<1>12. e.name \in STRING
  BY <1>7 DEF Disk, IsEntry
<1> HIDE DEF folder
<1> DEFINE w == Append(folder, e.name)
<1>13. w \in Seq(STRING) /\ Len(w) = k /\ w[k] = e.name /\ \A j \in 1 .. k - 1 : w[j] = folder[j]
  BY <1>5, <1>11, <1>12
<1>14. \A j \in 1 .. k : SubSeq(w, 1, j - 1) = SubSeq(folder, 1, j - 1)
  <2> SUFFICES ASSUME NEW j \in 1 .. k PROVE SubSeq(w, 1, j - 1) = SubSeq(folder, 1, j - 1)
    OBVIOUS
  <2> DEFINE a == SubSeq(w, 1, j - 1)  b == SubSeq(folder, 1, j - 1)
  <2>0. j - 1 \in 0 .. k - 1
    BY <1>5
  <2> HIDE DEF w
  <2>1. a \in Seq(STRING) /\ Len(a) = j - 1 /\ \A i \in 1 .. j - 1 : a[i] = w[i]
    BY <1>5, <1>13, <2>0
  <2>2. b \in Seq(STRING) /\ Len(b) = j - 1 /\ \A i \in 1 .. j - 1 : b[i] = folder[i]
    BY <1>5, <1>11, <2>0
  <2>3. \A i \in 1 .. j - 1 : w[i] = folder[i]
    BY <1>13, <1>5
  <2> HIDE DEF a, b
  <2>4. a = b
    BY <2>1, <2>2, <2>3, SeqEqual
  <2> QED BY <2>4 DEF a, b
<1>15. SubSeq(folder, 1, k - 1) = folder
  BY <1>11
<1>16. \A j \in 1 .. k : \E x \in t : LeadsOn(x, w, j, parts[j]) /\ (how = "links" => x.kind # "link")
  <2> SUFFICES ASSUME NEW j \in 1 .. k
               PROVE  \E x \in t : LeadsOn(x, w, j, parts[j]) /\ (how = "links" => x.kind # "link")
    OBVIOUS
  <2> HIDE DEF w
  <2>1. CASE j = k
    BY <1>7, <1>8, <1>13, <1>14, <1>15, <2>1 DEF LeadsOn, name
  <2>2. CASE j # k
    <3>1. j \in 1 .. k - 1
      BY <1>5, <2>2
    <3>2. PICK x \in t : LeadsOn(x, folder, j, parts[j]) /\ (how = "links" => x.kind # "link")
      BY <1>11, <3>1
    <3>3. SubSeq(w, 1, j - 1) = SubSeq(folder, 1, j - 1) /\ w[j] = folder[j]
      BY <1>13, <1>14, <3>1
    <3>4. LeadsOn(x, w, j, parts[j])
      BY <3>2, <3>3 DEF LeadsOn
    <3> QED BY <3>2, <3>4
  <2> QED BY <2>1, <2>2
<1> HIDE DEF w
<1>17. Along(how, t, parts, k)
  BY <1>9, <1>13, <1>16 DEF Along, W, w
<1> QED BY <1>3, <1>17

\* What a path names, links left aside, it is called on the way.
LEMMA CanonicalSpells ==
    ASSUME NEW t, Disk(t), NEW parts \in Seq(STRING), ~A!HasLink(t, parts), A!Canonical(t, parts) # Nothing
    PROVE  A!Canonical(t, parts) \in Seq(STRING) /\ Spelled(t, A!Canonical(t, parts), parts)
<1>1. Unlinked(t, parts, Len(parts))
  BY DEF A!HasLink, Unlinked, To, Way
<1>2. To("links", t, parts, Len(parts)) = A!Canonical(t, parts)
  BY ToEnds DEF Way, Ways
<1>3. Along("links", t, parts, Len(parts))
  <2>1. Len(parts) \in 0 .. Len(parts) /\ "links" \in Ways
    BY DEF Ways
  <2> QED BY <1>1, <1>2, <2>1, WaysLead
<1> QED BY <1>2, <1>3 DEF Along, Spelled

\* The same for the directory of a path.
LEMMA DirectorySpells ==
    ASSUME NEW t, Disk(t), NEW parts \in Seq(STRING), parts # << >>, ~A!HasLink(t, parts),
           A!Canonical(t, A!Front(parts)) # Nothing, Nothing \notin Seq(STRING)
    PROVE  LET folder == A!Canonical(t, A!Front(parts)) IN
           /\ folder \in Seq(STRING) /\ Spelled(t, folder, A!Front(parts))
           /\ \A e \in t : e.dir = folder /\ parts[Len(parts)] \in {e.name, e.short} =>
                  e.kind # "link" /\ A!Canonical(t, parts) # Nothing
<1> DEFINE n == Len(parts)  q == A!Front(parts)  folder == A!Canonical(t, q)
<1>1. n \in Nat \ {0} /\ n \in 1 .. n
  OBVIOUS
<1>2. q \in Seq(STRING) /\ Len(q) = n - 1 /\ q = SubSeq(parts, 1, n - 1) /\ SubSeq(parts, 1, n) = parts
  <2>1. SubSeq(parts, 1, n) = parts
    OBVIOUS
  <2>2. q = SubSeq(parts, 1, n - 1)
    BY DEF A!Front
  <2>3. SubSeq(parts, 1, n - 1) \in Seq(STRING) /\ Len(SubSeq(parts, 1, n - 1)) = n - 1
    BY <1>1, PrefixOf
  <2> QED BY <2>1, <2>2, <2>3
<1>3. To("links", t, parts, n - 1) = folder
  BY <1>2 DEF To, Way
<1>4. Along("links", t, parts, n - 1)
  <2>1. Unlinked(t, parts, n - 1)
    BY <1>1 DEF A!HasLink, Unlinked, To, Way
  <2>2. n - 1 \in 0 .. Len(parts) /\ "links" \in Ways
    BY <1>1 DEF Ways
  <2> QED BY <1>3, <2>1, <2>2, WaysLead
<1>5. folder \in Seq(STRING) /\ Spelled(t, folder, q)
  <2>1. \A k \in 1 .. n - 1 : q[k] = parts[k]
    BY <1>1, <1>2
  <2> HIDE DEF q, n
  <2> QED BY <1>2, <1>3, <1>4, <2>1 DEF Along, Spelled
<1>6. ASSUME NEW e \in t, e.dir = folder, parts[n] \in {e.name, e.short}
      PROVE  e.kind # "link" /\ A!Canonical(t, parts) # Nothing
  <2>1. e.kind # "link"
    BY <1>1, <1>2, <1>6 DEF A!HasLink
  <2>2. A!Canonical(t, parts) = Step("links", t, folder, parts[n])
    BY <1>1, <1>2, <1>3, ToGoesOn, ToEnds DEF Ways, Way
  <2> DEFINE x == CHOOSE y \in t : y.dir = folder /\ parts[n] \in {y.name, y.short}
  <2>3. x \in t /\ x.dir = folder /\ parts[n] \in {x.name, x.short}
    BY <1>6
  <2>4. x = e
    BY <1>1, <1>6, <2>3 DEF Disk, Distinct
  <2>0. folder # Nothing
    OBVIOUS
  <2> HIDE DEF x, folder, n, q
  <2>5. Step("links", t, folder, parts[n]) = A!Path(e)
    BY <1>6, <2>0, <2>1, <2>4 DEF Step, x
  <2>6. A!Path(e) \in Seq(STRING)
    BY DEF A!Path, Disk, IsEntry
  <2> QED BY <2>1, <2>2, <2>5, <2>6
<1> QED BY <1>5, <1>6

\* What a path names is what it is called.
LEMMA SpelledIsCanonical ==
    ASSUME NEW t, Disk(t), NEW parts \in Seq(STRING), NEW m \in Seq(STRING), Spelled(t, m, parts),
           Nothing \notin Seq(STRING)
    PROVE  A!Canonical(t, parts) = m
<1> DEFINE W(k) == To("links", t, parts, k)
           Bad == {k \in 0 .. Len(parts) : W(k) # SubSeq(m, 1, k)}
<1>0. "links" \in Ways /\ Len(m) = Len(parts)
  BY DEF Ways, Spelled
<1>1. ASSUME Bad # {} PROVE FALSE
  <2>1. PICK k \in Bad : \A j \in Bad : k <= j
    <3>1. Bad \in SUBSET Nat
      OBVIOUS
    <3> HIDE DEF Bad
    <3> QED BY <1>1, <3>1, LeastNumber
  <2>2. k \in 0 .. Len(parts) /\ W(k) # SubSeq(m, 1, k) /\ Len(parts) \in Nat
    OBVIOUS
  <2>3. k # 0
    <3>1. SubSeq(m, 1, 0) = << >>
      OBVIOUS
    <3> QED BY <1>0, <2>2, <3>1, ToStarts
  <2>4. k \in 1 .. Len(parts) /\ k - 1 \in 0 .. Len(parts) /\ k \in 1 .. Len(m)
    BY <1>0, <2>2, <2>3
  <2>5. W(k - 1) = SubSeq(m, 1, k - 1)
    BY <2>1, <2>4
  <2>6. W(k) = Step("links", t, W(k - 1), parts[k])
    BY <1>0, <2>4, ToGoesOn
  <2> HIDE DEF W, Bad
  <2> DEFINE folder == SubSeq(m, 1, k - 1)  name == parts[k]
             x == CHOOSE y \in t : y.dir = folder /\ name \in {y.name, y.short}
  <2>7. folder \in Seq(STRING) /\ Append(folder, m[k]) = SubSeq(m, 1, k)
    BY <2>4, PrefixOf
  <2>8. name \in STRING
    BY <2>4
  <2>9. PICK e \in t : e.dir = folder /\ e.name = m[k] /\ name \in {e.name, e.short} /\ e.kind # "link"
    BY <2>4 DEF Spelled, LeadsOn
  <2> HIDE DEF folder, name
  <2>10. x \in t /\ x.dir = folder /\ name \in {x.name, x.short}
    BY <2>9
  <2>11. x = e
    BY <2>8, <2>9, <2>10 DEF Disk, Distinct
  <2> HIDE DEF x
  <2>12. Step("links", t, folder, name) = A!Path(e)
    BY <2>7, <2>9, <2>11 DEF Step, x
  <2>13. W(k) = SubSeq(m, 1, k)
    BY <2>5, <2>6, <2>7, <2>9, <2>12 DEF A!Path, folder, name
  <2> QED BY <2>2, <2>13
<1>2. W(Len(parts)) = SubSeq(m, 1, Len(parts))
  <2>1. Len(parts) \in 0 .. Len(parts)
    OBVIOUS
  <2> QED BY <1>1, <2>1
<1>3. SubSeq(m, 1, Len(parts)) = m
  BY <1>0
<1> QED BY <1>0, <1>2, <1>3, ToEnds DEF Way

\* What a path names now is what a decision took it for, though names were added.
LEMMA ExplainedIsSpelled ==
    ASSUME NEW t, Disk(t), NEW parts \in Seq(STRING), NEW m \in Seq(STRING), Explains(t, m, parts),
           NEW p \in Seq(STRING), Spelled(t, p, parts), Nothing \notin STRING
    PROVE  m = p
<1> DEFINE n == Len(parts)  Bad == {k \in 1 .. n : m[k] # p[k]}
<1>0. n \in Nat /\ Len(m) = n /\ Len(p) = n
  BY DEF Explains, Spelled
<1>1. ASSUME Bad # {} PROVE FALSE
  <2>1. PICK k \in Bad : \A j \in Bad : k <= j
    <3>1. Bad \in SUBSET Nat
      OBVIOUS
    <3> HIDE DEF Bad
    <3> QED BY <1>1, <3>1, LeastNumber
  <2>2. k \in 1 .. n /\ m[k] # p[k] /\ \A j \in 1 .. k - 1 : m[j] = p[j]
    <3>1. \A j \in 1 .. k - 1 : j \in 1 .. n /\ ~(k <= j)
      BY <1>0
    <3> QED BY <2>1, <3>1
  <2> HIDE DEF Bad
  <2>3. SubSeq(m, 1, k - 1) = SubSeq(p, 1, k - 1)
    <3> DEFINE a == SubSeq(m, 1, k - 1)  b == SubSeq(p, 1, k - 1)
    <3>1. a \in Seq(STRING) /\ Len(a) = k - 1 /\ \A i \in 1 .. k - 1 : a[i] = m[i]
      BY <1>0, <2>2
    <3>2. b \in Seq(STRING) /\ Len(b) = k - 1 /\ \A i \in 1 .. k - 1 : b[i] = p[i]
      BY <1>0, <2>2
    <3> HIDE DEF a, b
    <3>3. a = b
      BY <2>2, <3>1, <3>2, SeqEqual
    <3> QED BY <3>3 DEF a, b
  <2> DEFINE name == parts[k]
  <2>4. name \in STRING
    BY <2>2
  <2>5. PICK e \in t : LeadsOn(e, p, k, name) /\ e.kind # "link"
    BY <2>2 DEF Spelled
  <2>6. CASE m[k] = name /\ name \notin ShortNames
    <3>1. name = e.name
      BY <2>4, <2>5, <2>6 DEF LeadsOn, Disk, IsEntry
    <3> QED BY <2>2, <2>5, <2>6, <3>1 DEF LeadsOn
  <2>7. ASSUME NEW f \in t, LeadsOn(f, m, k, name) PROVE FALSE
    <3> HIDE DEF name
    <3>1. f.dir = e.dir /\ name \in {e.name, e.short} /\ name \in {f.name, f.short}
      BY <2>3, <2>5, <2>7 DEF LeadsOn
    <3>2. e = f
      BY <2>4, <3>1 DEF Disk, Distinct
    <3> QED BY <2>2, <2>5, <2>7, <3>2 DEF LeadsOn
  <2> QED BY <2>2, <2>6, <2>7 DEF Explains
<1> HIDE DEF n
<1>2. \A k \in 1 .. n : m[k] = p[k]
  BY <1>1
<1> HIDE DEF Bad
<1> QED BY <1>0, <1>2, SeqEqual

LEMMA SamePrefix ==
    ASSUME NEW S, NEW p \in Seq(S), NEW q \in Seq(S), NEW j \in Nat, j <= Len(p), j <= Len(q),
           \A i \in 1 .. j : p[i] = q[i]
    PROVE  SubSeq(p, 1, j) = SubSeq(q, 1, j)
<1> DEFINE a == SubSeq(p, 1, j)  b == SubSeq(q, 1, j)
<1>1. a \in Seq(S) /\ Len(a) = j /\ \A i \in 1 .. j : a[i] = p[i]
  OBVIOUS
<1>2. b \in Seq(S) /\ Len(b) = j /\ \A i \in 1 .. j : b[i] = q[i]
  OBVIOUS
<1> HIDE DEF a, b
<1>3. a = b
  BY <1>1, <1>2, SeqEqual
<1> QED BY <1>3 DEF a, b

\* A path that has been decided upon is what its parts name then, or will come to name.
Decided(t, m, parts) ==
    m \in Seq(STRING) /\ Explains(t, m, parts) /\ \A k \in 1 .. Len(m) : m[k] \notin ShortNames

LEMMA ExpandsLongest ==
    ASSUME NEW t, NEW parts \in Seq(STRING), Nothing \notin Seq(STRING)
    PROVE  \E n \in 0 .. Len(parts) :
              /\ To("names", t, parts, n) # Nothing
              /\ A!Expanded(t, parts) = To("names", t, parts, n) \o SubSeq(parts, n + 1, Len(parts))
<1> DEFINE P(k) == /\ A!LongPath(t, SubSeq(parts, 1, k)) # Nothing
                   /\ \A j \in k + 1 .. Len(parts) : A!LongPath(t, SubSeq(parts, 1, j)) = Nothing
           N == {k \in 0 .. Len(parts) : A!LongPath(t, SubSeq(parts, 1, k)) # Nothing}
           R == {Len(parts) - k : k \in N}
<1>0. Len(parts) \in Nat
  OBVIOUS
<1>1. 0 \in N
  <2>1. A!LongPath(t, SubSeq(parts, 1, 0)) = << >>
    BY ToStarts DEF To, Way, Ways
  <2>2. << >> \in Seq(STRING) /\ 0 \in 0 .. Len(parts)
    OBVIOUS
  <2> QED BY <2>1, <2>2
<1>2. PICK i \in R : \A j \in R : i <= j
  <2>1. R \in SUBSET Nat /\ R # {}
    <3>1. \A k \in N : Len(parts) - k \in Nat
      OBVIOUS
    <3> QED BY <1>1, <3>1
  <2> HIDE DEF R
  <2> QED BY <2>1, LeastNumber
<1>3. PICK k \in N : i = Len(parts) - k
  OBVIOUS
<1>4. P(k)
  <2> SUFFICES ASSUME NEW j \in k + 1 .. Len(parts), A!LongPath(t, SubSeq(parts, 1, j)) # Nothing
               PROVE  FALSE
    OBVIOUS
  <2>1. j \in N /\ k \in 0 .. Len(parts) /\ j > k
    OBVIOUS
  <2>2. Len(parts) - j \in R
    BY <2>1
  <2>3. Len(parts) - k <= Len(parts) - j
    BY <1>2, <1>3, <2>2
  <2> QED BY <1>0, <2>1, <2>3
<1> DEFINE n == CHOOSE j \in 0 .. Len(parts) : P(j)
<1>5. n \in 0 .. Len(parts) /\ P(n)
  <2>1. k \in 0 .. Len(parts)
    OBVIOUS
  <2> HIDE DEF P
  <2> QED BY <1>4, <2>1
<1>6. A!Expanded(t, parts) = A!LongPath(t, SubSeq(parts, 1, n)) \o SubSeq(parts, n + 1, Len(parts))
  BY DEF A!Expanded
<1> HIDE DEF n
<1> QED BY <1>5, <1>6 DEF To, Way

\* What normalize_windows_path makes of a path is such a path.
LEMMA NormalizeExplains ==
    ASSUME NEW t, Disk(t), NEW parts \in Seq(STRING), Nothing \notin Seq(STRING),
           A!Normalize(t, parts) # Nothing
    PROVE  Decided(t, A!Normalize(t, parts), parts)
<1> DEFINE m == A!Normalize(t, parts)
<1>1. CASE A!Range(parts) \cap ShortNames = {}
  <2>1. m = parts
    BY <1>1 DEF A!Normalize
  <2>2. \A k \in 1 .. Len(parts) : parts[k] \notin ShortNames
    <3>1. \A k \in 1 .. Len(parts) : parts[k] \in A!Range(parts)
      BY DEF A!Range
    <3> QED BY <1>1, <3>1
  <2> HIDE DEF m
  <2>3. Decided(t, m, parts)
    BY <2>1, <2>2 DEF Decided, Explains
  <2> QED BY <2>3 DEF m
<1>2. CASE A!Range(parts) \cap ShortNames # {}
  <2>1. m = A!Expanded(t, parts) /\ A!Range(m) \cap ShortNames = {}
    BY <1>2 DEF A!Normalize
  <2>2. PICK n \in 0 .. Len(parts) :
            /\ To("names", t, parts, n) # Nothing
            /\ m = To("names", t, parts, n) \o SubSeq(parts, n + 1, Len(parts))
    BY <2>1, ExpandsLongest
  <2> DEFINE w == To("names", t, parts, n)  r == SubSeq(parts, n + 1, Len(parts))
  <2>3. Along("names", t, parts, n)
    <3>1. "names" \in Ways
      BY DEF Ways
    <3> QED BY <2>2, <3>1, WaysLead
  <2>4. w \in Seq(STRING) /\ Len(w) = n /\ \A k \in 1 .. n : \E e \in t : LeadsOn(e, w, k, parts[k])
    BY <2>3 DEF Along
  <2>5. /\ r \in Seq(STRING) /\ Len(r) = Len(parts) - n
        /\ \A k \in 1 .. Len(parts) - n : r[k] = parts[n + k]
    OBVIOUS
  <2>6. m = w \o r
    BY <2>2
  <2> HIDE DEF w, r, m
  <2>7. m \in Seq(STRING) /\ Len(m) = Len(w) + Len(r)
        /\ \A k \in 1 .. Len(w) + Len(r) : m[k] = IF k <= Len(w) THEN w[k] ELSE r[k - Len(w)]
    BY <2>4, <2>5, <2>6, ConcatProperties
  <2>8. Len(m) = Len(parts) /\ Len(parts) \in Nat
    BY <2>4, <2>5, <2>7
  <2>9. \A k \in 1 .. Len(m) : m[k] \notin ShortNames
    <3>1. \A k \in 1 .. Len(m) : m[k] \in A!Range(m)
      <4>1. DOMAIN m = 1 .. Len(m)
        BY <2>7
      <4> QED BY <4>1 DEF A!Range
    <3> QED BY <2>1, <3>1
  <2>10. ASSUME NEW k \in 1 .. Len(parts)
         PROVE  \/ m[k] = parts[k] /\ parts[k] \notin ShortNames
                \/ \E e \in t : LeadsOn(e, m, k, parts[k])
    <3>1. CASE k <= n
      <4>1. k \in 1 .. n /\ m[k] = w[k]
        BY <2>4, <2>5, <2>7, <3>1
      <4>2. \A i \in 1 .. k - 1 : w[i] = m[i]
        BY <2>4, <2>5, <2>7, <4>1
      <4>3. SubSeq(w, 1, k - 1) = SubSeq(m, 1, k - 1)
        <5>1. k - 1 \in Nat /\ k - 1 <= Len(w) /\ k - 1 <= Len(m)
          BY <2>4, <2>8, <4>1
        <5> QED BY <2>4, <2>7, <4>2, <5>1, SamePrefix
      <4> QED BY <2>4, <4>1, <4>3 DEF LeadsOn
    <3>2. CASE k > n
      <4>1. m[k] = r[k - n]
        BY <2>4, <2>5, <2>7, <3>2
      <4>2. k - n \in 1 .. Len(parts) - n /\ n + (k - n) = k
        BY <2>8, <3>2
      <4>3. r[k - n] = parts[k]
        BY <2>5, <4>2
      <4> QED BY <2>8, <2>9, <4>1, <4>3
    <3> QED BY <3>1, <3>2
  <2>11. Decided(t, m, parts)
    BY <2>7, <2>8, <2>9, <2>10 DEF Decided, Explains
  <2> QED BY <2>11 DEF m
<1> QED BY <1>1, <1>2

-----------------------------------------------------------------------------
(* What other programs, and a write, leave of a disk.                      *)

\* An entry that is the other but for its size.
SameEntry(e, f) ==
    /\ f.dir = e.dir /\ f.name = e.name /\ f.short = e.short /\ f.kind = e.kind /\ f.links = e.links

Kept(t, u) == \A e \in t : \E f \in u : SameEntry(e, f)

LEMMA KeptSpells ==
    ASSUME NEW t, NEW u, Kept(t, u), NEW m, NEW parts
    PROVE  /\ Spelled(t, m, parts) => Spelled(u, m, parts)
           /\ Decided(t, m, parts) => Decided(u, m, parts)
<1>1. \A e \in t : \A k, name : LeadsOn(e, m, k, name) =>
          \E f \in u : LeadsOn(f, m, k, name) /\ f.kind = e.kind
  BY DEF Kept, SameEntry, LeadsOn
<1>2. Spelled(t, m, parts) => Spelled(u, m, parts)
  BY <1>1 DEF Spelled
<1>3. Explains(t, m, parts) => Explains(u, m, parts)
  BY <1>1 DEF Explains
<1> QED BY <1>2, <1>3 DEF Decided

LEMMA CreateKeeps ==
    ASSUME AccessAssumption, Disk(tree), NEW e \in Creations, A!Create(e)
    PROVE  Disk(tree') /\ Kept(tree, tree')
<1>1. IsEntry(e) /\ e.name # Nothing
  BY DEF AccessAssumption, IsEntry, A!Entry
<1>2. tree' = tree \cup {e} /\ \A x \in tree : x.dir = e.dir =>
          {x.name, x.short} \cap ({e.name, e.short} \ {Nothing}) = {}
  BY DEF A!Create
<1>3. ASSUME NEW x \in tree, x.dir = e.dir, NEW n \in STRING
      PROVE  ~(n \in {x.name, x.short} /\ n \in {e.name, e.short})
  <2>1. n # Nothing
    BY DEF AccessAssumption
  <2> QED BY <1>2, <1>3, <2>1
<1>4. Disk(tree')
  BY <1>1, <1>2, <1>3 DEF Disk, Distinct
<1>5. Kept(tree, tree')
  BY <1>2 DEF Kept, SameEntry
<1> QED BY <1>4, <1>5

LEMMA GrowKeeps ==
    ASSUME Disk(tree), NEW e \in tree, A!Grow(e)
    PROVE  Disk(tree') /\ Kept(tree, tree')
<1> DEFINE f == [e EXCEPT !.size = @ + 1]
<1>1. tree' = (tree \ {e}) \cup {f} /\ IsEntry(e)
  BY DEF A!Grow, Disk
<1>2. DOMAIN f = DOMAIN e /\ SameEntry(e, f)
  BY <1>1 DEF IsEntry, SameEntry
<1> HIDE DEF f
<1>3. IsEntry(f)
  BY <1>1, <1>2 DEF IsEntry, SameEntry
<1>4. ASSUME NEW x \in tree \ {e}, x.dir = f.dir, NEW n \in STRING
      PROVE  ~(n \in {x.name, x.short} /\ n \in {f.name, f.short})
  BY <1>2, <1>4 DEF Disk, Distinct, SameEntry
<1>5. Disk(tree')
  BY <1>1, <1>3, <1>4 DEF Disk, Distinct
<1>6. Kept(tree, tree')
  BY <1>1, <1>2 DEF Kept, SameEntry
<1> QED BY <1>5, <1>6

-----------------------------------------------------------------------------
(* What access rests on.                                                   *)

\* A file, or the root, that is no link and has no other name.
There(p) ==
    p = << >> \/ \E e \in tree : A!Path(e) = p /\ e.kind # "link" /\ ~(e.kind = "file" /\ e.links > 1)

Safe(p) == p \in Seq(STRING) /\ A!Allowed(p) /\ ~A!Sensitive(p)
Shown(p) == Safe(p) /\ A!Within(p, goal) /\ There(p)
Shows == out \cup answer.paths \cup {t.path : t \in touched}

RuledAuto(m, use) == A!RuleOf(policy.rules, m, use) = "auto"
Cleared(m) == RuledAuto(m, "write") /\ policy.mode = "policy" /\ asked.attempt /\ ~A!Sensitive(m)

\* What has been read for an edit is what the request names.
Edits == \A t \in touched : t.access = "edit" /\ t.path \in Seq(STRING) /\ Spelled(tree, t.path, asked.target)

\* An entry that a walk is still to visit has not gone.
Visits ==
    /\ goal \in Seq(STRING) /\ pending \in Seq([dir : Seq(STRING), level : Nat])
    /\ \A i \in 1 .. Len(pending) : A!Within(pending[i].dir, goal)
    /\ \A x \in entries : /\ IsEntry(x.e) /\ A!Within(x.e.dir, goal) /\ x.level \in Nat
                          /\ \E y \in tree : SameEntry(x.e, y)

AskInv ==
    /\ policy \in Policies
    /\ {"action", "target", "attempt", "depth", "max"} \subseteq DOMAIN asked /\ asked.target \in Seq(STRING)
    /\ asked.depth \in Nat /\ asked.max \in Nat \ {0}

PhaseInv ==
    /\ phase # "done" => answer.paths = {}
    /\ phase \in {"authorize", "edit", "edited", "resolve", "write"} => out = {}
    /\ phase \in {"authorize", "edit"} => touched = {}
    /\ phase \in {"edited", "resolve"} => Edits
    /\ phase = "edit" =>
          \E m : Decided(tree, m, asked.target) /\ A!RuleOf(policy.rules, m, "write") # "deny"
    /\ phase = "resolve" =>
          \E m : /\ Decided(tree, m, asked.target)
                 /\ IF asked.action = "filesystem.write" THEN Cleared(m) ELSE RuledAuto(m, "read") /\ touched = {}
    /\ phase \in {"stat", "bytes", "explore"} => Shown(goal) /\ RuledAuto(goal, "read")
    /\ phase \notin {"walk", "record", "done"} => entries = {}
    /\ phase = "walk" => Visits
    /\ phase = "write" =>
          /\ Safe(goal) /\ Cleared(goal) /\ goal # << >> /\ \A k \in 1 .. Len(goal) : goal[k] \notin ShortNames
          /\ \A t \in touched : t.access = "edit" /\ t.path = goal

AccessInv == Disk(tree) /\ AskInv /\ PhaseInv /\ A!ActsAsDecided /\ \A p \in Shows : Shown(p)

-----------------------------------------------------------------------------
LEMMA PathOf ==
    ASSUME NEW e, IsEntry(e)
    PROVE  A!Path(e) \in Seq(STRING) /\ A!Path(e) # << >> /\ Len(A!Path(e)) = Len(e.dir) + 1
           /\ A!Path(e)[Len(e.dir) + 1] = e.name /\ SubSeq(A!Path(e), 1, Len(e.dir)) = e.dir
           /\ \A k \in 1 .. Len(e.dir) : A!Path(e)[k] = e.dir[k]
<1>1. e.dir \in Seq(STRING) /\ e.name \in STRING /\ Len(e.dir) \in Nat
  BY DEF IsEntry
<1>2. /\ A!Path(e) \in Seq(STRING) /\ Len(A!Path(e)) = Len(e.dir) + 1
      /\ A!Path(e)[Len(e.dir) + 1] = e.name
      /\ \A k \in 1 .. Len(e.dir) : A!Path(e)[k] = e.dir[k]
  BY <1>1 DEF A!Path
<1>3. A!Path(e) # << >>
  BY <1>1, <1>2
<1>4. SubSeq(A!Path(e), 1, Len(e.dir)) = SubSeq(e.dir, 1, Len(e.dir))
  <2> DEFINE p == A!Path(e)  d == e.dir
  <2>1. p \in Seq(STRING) /\ d \in Seq(STRING) /\ Len(d) \in Nat /\ Len(d) <= Len(p) /\ Len(d) <= Len(d)
    BY <1>1, <1>2
  <2>2. \A i \in 1 .. Len(d) : p[i] = d[i]
    BY <1>2
  <2> HIDE DEF p, d
  <2>3. SubSeq(p, 1, Len(d)) = SubSeq(d, 1, Len(d))
    BY <2>1, <2>2, SamePrefix
  <2> QED BY <2>3 DEF p, d
<1>5. SubSeq(e.dir, 1, Len(e.dir)) = e.dir
  BY <1>1
<1> QED BY <1>1, <1>2, <1>3, <1>4, <1>5

\* A path is of one entry.
LEMMA PathsDiffer ==
    ASSUME NEW t, Disk(t), NEW e \in t, NEW f \in t, A!Path(e) = A!Path(f)
    PROVE  e = f
<1>1. IsEntry(e) /\ IsEntry(f)
  BY DEF Disk
<1>2. Len(e.dir) = Len(f.dir)
  <2>1. Len(e.dir) \in Nat /\ Len(f.dir) \in Nat
    BY <1>1 DEF IsEntry
  <2> QED BY <1>1, <2>1, PathOf
<1>3. e.dir = f.dir /\ e.name = f.name
  BY <1>1, <1>2, PathOf
<1> QED BY <1>1, <1>3 DEF Disk, Distinct, IsEntry

\* What is there is shown for what it is.
LEMMA ThereMeans ==
    ASSUME Disk(tree), NEW p, There(p)
    PROVE  ~A!ManyNames(tree, p) /\ \A e \in tree : A!Path(e) = p => e.kind # "link"
<1>1. CASE p = << >>
  <2>1. \A e \in tree : A!Path(e) # p
    BY <1>1, PathOf DEF Disk
  <2> QED BY <2>1 DEF A!ManyNames, A!IsFile
<1>2. CASE p # << >>
  <2>1. PICK e \in tree : A!Path(e) = p /\ e.kind # "link" /\ ~(e.kind = "file" /\ e.links > 1)
    BY <1>2 DEF There
  <2>2. \A f \in tree : A!Path(f) = p => f = e
    BY <2>1, PathsDiffer
  <2>3. A!At(tree, p) = e
    BY <2>1, <2>2 DEF A!At
  <2>4. ~A!ManyNames(tree, p)
    BY <2>1, <2>2, <2>3 DEF A!ManyNames, A!IsFile
  <2> QED BY <2>1, <2>2, <2>4
<1> QED BY <1>1, <1>2

LEMMA EntryIsThere ==
    ASSUME Disk(tree), NEW e \in tree, e.kind # "link", ~A!ManyNames(tree, A!Path(e))
    PROVE  There(A!Path(e))
<1>1. e.kind = "file" => A!IsFile(tree, A!Path(e))
  BY DEF A!IsFile
<1>2. A!At(tree, A!Path(e)) = e
  <2>1. \A f \in tree : A!Path(f) = A!Path(e) => f = e
    BY PathsDiffer
  <2> QED BY <2>1 DEF A!At
<1>3. ~(e.kind = "file" /\ e.links > 1)
  BY <1>1, <1>2 DEF A!ManyNames
<1> QED BY <1>3 DEF There

\* What a path names, links left aside, is there.
LEMMA SpelledIsThere ==
    ASSUME Disk(tree), NEW m \in Seq(STRING), NEW parts \in Seq(STRING), Spelled(tree, m, parts),
           ~A!ManyNames(tree, m)
    PROVE  There(m)
<1>1. CASE m = << >>
  BY <1>1 DEF There
<1>2. CASE m # << >>
  <2>1. Len(m) \in 1 .. Len(m) /\ Len(m) = Len(parts)
    BY <1>2 DEF Spelled
  <2>2. PICK e \in tree : LeadsOn(e, m, Len(m), parts[Len(m)]) /\ e.kind # "link"
    BY <2>1 DEF Spelled
  <2>3. Append(SubSeq(m, 1, Len(m) - 1), m[Len(m)]) = SubSeq(m, 1, Len(m))
    BY <2>1, PrefixOf
  <2>4. SubSeq(m, 1, Len(m)) = m
    OBVIOUS
  <2>5. A!Path(e) = m
    BY <2>2, <2>3, <2>4 DEF LeadsOn, A!Path
  <2> QED BY <2>2, <2>5, EntryIsThere
<1> QED BY <1>1, <1>2

LEMMA WithinItself == ASSUME NEW p \in Seq(STRING) PROVE A!Within(p, p)
BY DEF A!Within, A!IsPrefix

\* A path in a directory below the goal is below it.
LEMMA WithinBelow ==
    ASSUME NEW e, IsEntry(e), NEW g \in Seq(STRING), A!Within(e.dir, g)
    PROVE  A!Within(A!Path(e), g)
<1> DEFINE d == e.dir  p == A!Path(e)
<1>1. d \in Seq(STRING) /\ Len(d) \in Nat /\ Len(g) \in Nat
  BY DEF IsEntry
<1>2. Len(g) <= Len(d) /\ SubSeq(g, 1, Len(g)) = SubSeq(d, 1, Len(g))
  BY DEF A!Within, A!IsPrefix
<1>3. p \in Seq(STRING) /\ Len(p) = Len(d) + 1 /\ \A k \in 1 .. Len(d) : p[k] = d[k]
  BY PathOf
<1> HIDE DEF d, p
<1>4. SubSeq(p, 1, Len(g)) = SubSeq(d, 1, Len(g))
  <2>1. Len(g) <= Len(p) /\ \A i \in 1 .. Len(g) : p[i] = d[i]
    BY <1>1, <1>2, <1>3
  <2> QED BY <1>1, <1>2, <1>3, <2>1, SamePrefix
<1>5. A!Within(p, g)
  BY <1>1, <1>2, <1>3, <1>4 DEF A!Within, A!IsPrefix
<1> QED BY <1>5 DEF p

-----------------------------------------------------------------------------
(* What a decision says.                                                   *)

LEMMA ReadDecided ==
    ASSUME AccessAssumption, AskInv, Disk(tree), asked.action \in A!RemoteActions,
           A!Decide(policy, tree, asked) = "auto"
    PROVE  \E m : Decided(tree, m, asked.target) /\ RuledAuto(m, "read")
<1> DEFINE m == A!Normalize(tree, asked.target)
<1>1. asked.action \in A!FilesystemReads /\ asked.action \notin {"filesystem.write", "terminal.poll", "terminal.cancel"}
  BY DEF A!RemoteActions, A!FilesystemReads, A!Walks
<1>3. A!RuleOf(policy.rules, m, "read") = "auto"
  BY <1>1 DEF A!Decide
<1>4. m # Nothing
  BY <1>3 DEF A!RuleOf
<1>5. Decided(tree, m, asked.target)
  BY <1>4, NormalizeExplains DEF AccessAssumption, AskInv
<1> QED BY <1>3, <1>5 DEF RuledAuto

LEMMA WriteDecided ==
    ASSUME AccessAssumption, AskInv, Disk(tree), asked.action = "filesystem.write",
           NEW d, d = A!Decide(policy, tree, asked), d # "deny"
    PROVE  \E m : /\ Decided(tree, m, asked.target)
                  /\ A!RuleOf(policy.rules, m, "write") # "deny"
                  /\ d = "auto" => RuledAuto(m, "write") /\ policy.mode = "policy" /\ ~A!Sensitive(m)
<1> DEFINE m == A!Normalize(tree, asked.target)
<1>1. asked.action \notin A!FilesystemReads
  BY DEF A!FilesystemReads
<1>2. d = A!WriteDecision(policy, tree, asked)
  BY <1>1 DEF A!Decide
<1>3. A!RuleOf(policy.rules, m, "write") # "deny"
  BY <1>2 DEF A!WriteDecision
<1>4. d = "auto" => RuledAuto(m, "write") /\ policy.mode = "policy" /\ ~A!Sensitive(m)
  BY <1>2 DEF A!WriteDecision, RuledAuto
<1>5. m # Nothing
  BY <1>3 DEF A!RuleOf
<1>6. Decided(tree, m, asked.target)
  BY <1>5, NormalizeExplains DEF AccessAssumption, AskInv
<1> QED BY <1>3, <1>4, <1>6

-----------------------------------------------------------------------------
(* The steps of a request.                                                 *)

\* The end of a request, or of its work.
LEMMA AccessEnds ==
    ASSUME AccessInv, UNCHANGED <<tree, policy, asked, goal>>, phase' \in {"done", "record"},
           phase' = "record" => answer'.paths = {},
           \A p \in Shows' : Shown(p), A!ActsAsDecided'
    PROVE  AccessInv'
<1>1. \A p : Shown(p) => Shown(p)'
  BY DEF Shown, Safe, There
<1>2. Disk(tree)' /\ AskInv'
  BY DEF AccessInv, AskInv
<1>3. PhaseInv'
  BY DEF PhaseInv
<1> QED BY <1>1, <1>2, <1>3 DEF AccessInv

LEMMA EndsUntouched ==
    ASSUME AccessInv, UNCHANGED <<tree, policy, asked, goal, out, touched>>, phase' = "done",
           answer'.paths = {}
    PROVE  AccessInv'
<1>1. Shows' \subseteq Shows
  BY DEF Shows
<1>2. A!ActsAsDecided'
  BY DEF AccessInv, A!ActsAsDecided
<1> QED BY <1>1, <1>2, AccessEnds DEF AccessInv

LEMMA FailShowsNothing ==
    ASSUME NEW status, A!Fail(status) \/ A!Answered(status)
    PROVE  phase' = "done" /\ answer'.paths = {}
BY DEF A!Fail, A!Answered, A!Unanswered

\* From here to there, with nothing done.
LEMMA AccessGoesOn ==
    ASSUME AccessInv, UNCHANGED <<tree, policy, asked, out, touched, answer>>,
           Shows # {} => goal' = goal, PhaseInv'
    PROVE  AccessInv'
<1>1. Shows' = Shows
  BY DEF Shows
<1>2. \A p \in Shows : Shown(p)'
  BY DEF AccessInv, Shown, Safe, There
<1>3. Disk(tree)' /\ AskInv' /\ A!ActsAsDecided'
  BY DEF AccessInv, AskInv, A!ActsAsDecided
<1> QED BY <1>1, <1>2, <1>3 DEF AccessInv

LEMMA AuthorizeAccess ==
    ASSUME AccessAssumption, AccessInv, A!Authorize
    PROVE  AccessInv'
<1>1. UNCHANGED <<tree, policy, asked, goal, out, touched, pending, entries>> /\ phase = "authorize"
  BY DEF A!Authorize, A!Worker
<1>2. CASE asked.action \in A!RemoteActions /\ A!Decide(policy, tree, asked) = "auto"
  <2>1. phase' = "resolve" /\ UNCHANGED answer
    BY <1>2 DEF A!Authorize
  <2>2. \E m : Decided(tree, m, asked.target) /\ RuledAuto(m, "read")
    BY <1>2, ReadDecided DEF AccessInv
  <2>3. asked.action # "filesystem.write"
    BY <1>1 DEF A!Authorize, A!ApprovedActions
  <2>4. touched = {} /\ out = {} /\ answer.paths = {} /\ entries = {}
    BY <1>1 DEF AccessInv, PhaseInv
  <2>5. (Edits)'
    BY <1>1, <2>4 DEF Edits
  <2>6. \E m : Decided(tree', m, asked'.target) /\ RuledAuto(m, "read")'
    BY <1>1, <2>2 DEF RuledAuto
  <2>7. PhaseInv'
    BY <1>1, <2>1, <2>3, <2>4, <2>5, <2>6 DEF PhaseInv
  <2> QED BY <1>1, <2>1, <2>7, AccessGoesOn
<1>3. CASE ~(asked.action \in A!RemoteActions /\ A!Decide(policy, tree, asked) = "auto")
  <2>1. \E s : A!Answered(s)
    BY <1>3 DEF A!Authorize
  <2> QED BY <1>1, <2>1, FailShowsNothing, EndsUntouched
<1> QED BY <1>2, <1>3

\* A write goes on by the decision.
LEMMA RouteAccess ==
    ASSUME AccessAssumption, AccessInv, asked.action = "filesystem.write", Edits, out = {},
           answer.paths = {}, entries = {},
           NEW d, d = A!Decide(policy, tree, asked), A!Route(d),
           UNCHANGED <<tree, policy, asked, goal, out, touched, pending, entries>>
    PROVE  AccessInv'
<1>1. CASE d = "auto" /\ asked.attempt
  <2>1. phase' = "resolve" /\ UNCHANGED answer
    BY <1>1 DEF A!Route
  <2>2. PICK m : /\ Decided(tree, m, asked.target)
                 /\ RuledAuto(m, "write") /\ policy.mode = "policy" /\ ~A!Sensitive(m)
    <3>1. d # "deny"
      BY <1>1
    <3> QED BY <1>1, <3>1, WriteDecided DEF AccessInv
  <2>3. Cleared(m)' /\ Decided(tree', m, asked'.target)
    BY <1>1, <2>2 DEF Cleared, RuledAuto
  <2>4. Edits'
    BY DEF Edits
  <2>5. PhaseInv'
    BY <2>1, <2>3, <2>4 DEF PhaseInv
  <2> QED BY <2>1, <2>5, AccessGoesOn
<1>2. CASE ~(d = "auto" /\ asked.attempt)
  <2>1. \E s : A!Answered(s)
    BY <1>2 DEF A!Route
  <2> QED BY <2>1, FailShowsNothing, EndsUntouched
<1> QED BY <1>1, <1>2

LEMMA PrepareAccess ==
    ASSUME AccessAssumption, AccessInv, SizeInv, A!Prepare \/ A!PrepareAgain
    PROVE  AccessInv'
<1> DEFINE d == A!Decide(policy, tree, asked)
<1>1. UNCHANGED <<tree, policy, asked, goal, out, touched, pending, entries>>
  BY DEF A!Prepare, A!PrepareAgain, A!Worker
<1>2. CASE A!Prepare
  <2>1. phase = "authorize" /\ asked.action = "filesystem.write"
    BY <1>2 DEF A!Prepare, A!ApprovedActions
  <2>2. touched = {} /\ out = {} /\ answer.paths = {} /\ entries = {} /\ Edits
    BY <2>1 DEF AccessInv, PhaseInv, Edits
  <2>3. CASE d = "deny"
    <3>1. A!Answered("denied")
      BY <1>2, <2>3 DEF A!Prepare
    <3> QED BY <1>1, <3>1, FailShowsNothing, EndsUntouched
  <2>4. CASE d # "deny" /\ phase' = "edit" /\ UNCHANGED answer
    <3>1. \E m : Decided(tree, m, asked.target) /\ A!RuleOf(policy.rules, m, "write") # "deny"
      BY <2>1, <2>4, WriteDecided DEF AccessInv
    <3>2. PhaseInv'
      BY <1>1, <2>2, <2>4, <3>1 DEF PhaseInv
    <3> QED BY <1>1, <2>4, <3>2, AccessGoesOn
  <2>5. CASE A!Route(d)
    BY <1>1, <2>1, <2>2, <2>5, RouteAccess
  <2> QED BY <1>2, <2>3, <2>4, <2>5 DEF A!Prepare
<1>3. CASE A!PrepareAgain
  <2>1. phase = "edited" /\ A!Route(d)
    BY <1>3 DEF A!PrepareAgain
  <2>2. asked.action = "filesystem.write"
    BY <2>1 DEF SizeInv
  <2>3. out = {} /\ answer.paths = {} /\ entries = {} /\ Edits
    BY <2>1 DEF AccessInv, PhaseInv
  <2> QED BY <1>1, <2>1, <2>2, <2>3, RouteAccess
<1> QED BY <1>2, <1>3

LEMMA ReadEditAccess ==
    ASSUME AccessAssumption, AccessInv, A!ReadEdit
    PROVE  AccessInv'
<1> DEFINE path == A!Canonical(tree, asked.target)
<1>1. UNCHANGED <<tree, policy, pending, entries, out, size>> /\ phase = "edit"
  BY DEF A!ReadEdit, A!Outside
<1>2. CASE A!Unsafe(path) \/ ~A!IsFile(tree, path)
  <2>1. A!Fail("unsafe") /\ UNCHANGED <<goal, asked, touched>>
    BY <1>2 DEF A!ReadEdit
  <2> QED BY <1>1, <2>1, FailShowsNothing, EndsUntouched
<1>3. CASE ~A!Unsafe(path) /\ A!IsFile(tree, path)
  <2>1. /\ goal' = path /\ A!Touch(path, "edit") /\ phase' = "edited" /\ UNCHANGED answer
        /\ asked' = [asked EXCEPT !.size = {1}, !.expected = "digest", !.edit = FALSE]
    BY <1>3 DEF A!ReadEdit
  <2>2. touched = {} /\ out = {} /\ answer.paths = {} /\ entries = {}
    BY <1>1 DEF AccessInv, PhaseInv
  <2>3. touched' = {[path |-> path, access |-> "edit"]}
    BY <2>1, <2>2 DEF A!Touch
  <2>4. PICK m : Decided(tree, m, asked.target) /\ A!RuleOf(policy.rules, m, "write") # "deny"
    BY <1>1 DEF AccessInv, PhaseInv
  <2>5. /\ Disk(tree) /\ asked.target \in Seq(STRING) /\ path # Nothing
        /\ Nothing \notin STRING /\ Nothing \notin Seq(STRING)
        /\ ~A!HasLink(tree, asked.target) /\ A!Allowed(path) /\ ~A!Sensitive(path) /\ ~A!ManyNames(tree, path)
    BY <1>3 DEF AccessInv, AskInv, AccessAssumption, A!Unsafe
  <2>6. path \in Seq(STRING) /\ Spelled(tree, path, asked.target)
    BY <2>5, CanonicalSpells
  <2>7. path = m
    BY <2>4, <2>5, <2>6, ExplainedIsSpelled DEF Decided
  <2>8. There(path)
    BY <2>5, <2>6, SpelledIsThere
  <2> HIDE DEF path
  <2>9. asked'.target = asked.target /\ AskInv'
    BY <1>1, <2>1 DEF AccessInv, AskInv
  <2>10. A!ActsAsDecided'
    BY <1>1, <2>3, <2>4, <2>7 DEF A!ActsAsDecided
  <2>11. Edits'
    BY <1>1, <2>3, <2>6, <2>9 DEF Edits
  <2>12. PhaseInv'
    BY <1>1, <2>1, <2>2, <2>11 DEF PhaseInv
  <2>13. Shows' = {path}
    BY <1>1, <2>1, <2>2, <2>3 DEF Shows
  <2>14. \A p \in Shows' : Shown(p)'
    <3> SUFFICES ASSUME NEW p \in Shows' PROVE Shown(p)'
      OBVIOUS
    <3>1. p = path
      BY <2>13
    <3>2. p \in Seq(STRING) /\ A!Allowed(p) /\ ~A!Sensitive(p) /\ There(p) /\ goal' = p /\ A!Within(p, p)
      BY <3>1, <2>1, <2>5, <2>6, <2>8, WithinItself
    <3>3. There(p)'
      BY <1>1, <3>2 DEF There
    <3> QED BY <3>2, <3>3 DEF Shown, Safe
  <2> QED BY <1>1, <2>5, <2>9, <2>10, <2>12, <2>14 DEF AccessInv
<1> QED BY <1>2, <1>3

LEMMA AnswerAccess ==
    ASSUME AccessInv, A!Answer
    PROVE  AccessInv'
<1>1. UNCHANGED <<tree, policy, asked, goal, out, touched>>
  BY DEF A!Answer, A!Worker
<1>2. phase' = "done" /\ answer'.paths \subseteq out
  BY DEF A!Answer, A!Answered, A!Unanswered
<1>3. Shows' \subseteq Shows
  BY <1>1, <1>2 DEF Shows
<1>4. A!ActsAsDecided'
  BY <1>1 DEF AccessInv, A!ActsAsDecided
<1> QED BY <1>1, <1>2, <1>3, <1>4, AccessEnds DEF AccessInv

LEMMA ResolveAccess ==
    ASSUME AccessAssumption, AccessInv, SizeInv, A!Resolve
    PROVE  AccessInv'
<1> DEFINE path == A!Canonical(tree, asked.target)
<1>1. UNCHANGED <<tree, policy, asked, pending, entries, out, size, touched>> /\ phase = "resolve"
      /\ asked.action # "filesystem.write"
  BY DEF A!Resolve, A!Outside
<1>2. CASE \E s : A!Fail(s) /\ UNCHANGED goal
  BY <1>1, <1>2, FailShowsNothing, EndsUntouched
<1>3. CASE /\ ~A!Unsafe(path) /\ goal' = path /\ phase' \in {"explore", "stat", "bytes"}
           /\ UNCHANGED answer
  <2>1. touched = {} /\ out = {} /\ answer.paths = {} /\ entries = {}
    BY <1>1 DEF AccessInv, PhaseInv
  <2>2. PICK m : Decided(tree, m, asked.target) /\ RuledAuto(m, "read")
    BY <1>1 DEF AccessInv, PhaseInv
  <2>3. /\ Disk(tree) /\ asked.target \in Seq(STRING) /\ path # Nothing
        /\ Nothing \notin STRING /\ Nothing \notin Seq(STRING)
        /\ ~A!HasLink(tree, asked.target) /\ A!Allowed(path) /\ ~A!Sensitive(path) /\ ~A!ManyNames(tree, path)
    BY <1>3 DEF AccessInv, AskInv, AccessAssumption, A!Unsafe
  <2>4. path \in Seq(STRING) /\ Spelled(tree, path, asked.target)
    BY <2>3, CanonicalSpells
  <2>5. m = path
    BY <2>2, <2>3, <2>4, ExplainedIsSpelled DEF Decided
  <2>6. There(m) /\ A!Within(m, m)
    BY <2>3, <2>4, <2>5, SpelledIsThere, WithinItself
  <2>7. goal' = m /\ m \in Seq(STRING) /\ A!Allowed(m) /\ ~A!Sensitive(m)
    BY <1>3, <2>3, <2>4, <2>5
  <2>8. Shown(goal)' /\ RuledAuto(goal, "read")'
    BY <1>1, <2>2, <2>6, <2>7 DEF Shown, Safe, There, RuledAuto
  <2>9. PhaseInv'
    BY <1>1, <1>3, <2>1, <2>8 DEF PhaseInv
  <2>10. Shows = {}
    BY <2>1 DEF Shows
  <2> QED BY <1>1, <1>3, <2>9, <2>10, AccessGoesOn
<1> QED BY <1>2, <1>3 DEF A!Resolve

\* A name for a file that is not there yet is the one the decision was about.
LEMMA NewNameIsDecided ==
    ASSUME NEW t, Disk(t), NEW parts \in Seq(STRING), ~A!HasLink(t, parts),
           Nothing \notin STRING, Nothing \notin Seq(STRING),
           A!Canonical(t, parts) = Nothing, A!Canonical(t, A!Front(parts)) # Nothing,
           NEW m, Decided(t, m, parts)
    PROVE  m = Append(A!Canonical(t, A!Front(parts)), A!Last(parts)) /\ m # << >>
<1> DEFINE n == Len(parts)  q == A!Front(parts)  folder == A!Canonical(t, q)
<1>1. parts # << >>
  <2>1. A!Canonical(t, << >>) = << >>
    BY WayStarts DEF Way, Ways
  <2> QED BY <2>1
<1>2. /\ n \in Nat \ {0} /\ n \in 1 .. n /\ m \in Seq(STRING) /\ Len(m) = n /\ n \in 1 .. Len(m)
      /\ Explains(t, m, parts)
  BY <1>1 DEF Decided, Explains
<1>3. /\ folder \in Seq(STRING) /\ Spelled(t, folder, q)
      /\ \A e \in t : ~(e.dir = folder /\ parts[n] \in {e.name, e.short})
  BY <1>1, DirectorySpells
<1>4. q \in Seq(STRING) /\ Len(q) = n - 1 /\ A!Last(parts) = parts[n] /\ \A k \in 1 .. n - 1 : q[k] = parts[k]
  <2>1. q = SubSeq(parts, 1, n - 1)
    BY DEF A!Front
  <2> QED BY <1>2, <2>1 DEF A!Last
<1> DEFINE f == SubSeq(m, 1, n - 1)
<1>5. f \in Seq(STRING) /\ Len(f) = n - 1 /\ (\A k \in 1 .. n - 1 : f[k] = m[k]) /\ Append(f, m[n]) = m
  <2>1. Append(SubSeq(m, 1, n - 1), m[n]) = SubSeq(m, 1, n) /\ SubSeq(m, 1, n) = m
    BY <1>2, PrefixOf
  <2>2. f \in Seq(STRING) /\ Len(f) = n - 1 /\ \A k \in 1 .. n - 1 : f[k] = m[k]
    BY <1>2
  <2> QED BY <2>1, <2>2
<1>6. \A k \in 1 .. n - 1 : SubSeq(f, 1, k - 1) = SubSeq(m, 1, k - 1)
  <2> SUFFICES ASSUME NEW k \in 1 .. n - 1 PROVE SubSeq(f, 1, k - 1) = SubSeq(m, 1, k - 1)
    OBVIOUS
  <2> HIDE DEF f
  <2>1. k - 1 \in Nat /\ k - 1 <= Len(f) /\ k - 1 <= Len(m) /\ \A i \in 1 .. k - 1 : f[i] = m[i]
    BY <1>2, <1>5
  <2> QED BY <1>2, <1>5, <2>1, SamePrefix
<1> HIDE DEF f, q, n
<1>7. Explains(t, f, q)
  <2> SUFFICES ASSUME NEW k \in 1 .. n - 1
               PROVE  \/ f[k] = q[k] /\ q[k] \notin ShortNames
                      \/ \E e \in t : LeadsOn(e, f, k, q[k])
    BY <1>4, <1>5 DEF Explains
  <2>1. k \in 1 .. n
    BY <1>2
  <2>2. \/ m[k] = parts[k] /\ parts[k] \notin ShortNames
        \/ \E e \in t : LeadsOn(e, m, k, parts[k])
    BY <1>2, <2>1 DEF Explains, n
  <2> QED BY <1>4, <1>5, <1>6, <2>2 DEF LeadsOn
<1>8. f = folder
  BY <1>3, <1>4, <1>5, <1>7, ExplainedIsSpelled
<1>9. m[n] = parts[n]
  <2>1. \/ m[n] = parts[n] /\ parts[n] \notin ShortNames
        \/ \E e \in t : LeadsOn(e, m, n, parts[n])
    BY <1>2 DEF Explains, n
  <2> QED BY <1>3, <1>8, <2>1 DEF LeadsOn, f
<1>10. m = Append(folder, parts[n])
  BY <1>5, <1>8, <1>9
<1>11. m # << >>
  BY <1>2
<1> QED BY <1>4, <1>10, <1>11 DEF q

LEMMA ResolveWriteAccess ==
    ASSUME AccessAssumption, AccessInv, A!ResolveWrite
    PROVE  AccessInv'
<1> DEFINE there == A!Canonical(tree, asked.target)  folder == A!Canonical(tree, A!Front(asked.target))
<1>1. UNCHANGED <<tree, policy, asked, pending, entries, out, size, touched>> /\ phase = "resolve"
      /\ asked.action = "filesystem.write"
  BY DEF A!ResolveWrite, A!Outside
<1>2. CASE \E s : A!Fail(s) /\ UNCHANGED goal
  BY <1>1, <1>2, FailShowsNothing, EndsUntouched
<1>3. CASE /\ phase' = "write" /\ UNCHANGED answer
           /\ ~(there # Nothing /\ ~A!IsFile(tree, there)) /\ ~A!HasLink(tree, asked.target)
           /\ goal' # Nothing /\ A!Allowed(goal') /\ ~A!Sensitive(goal')
           /\ goal' = IF there # Nothing \/ folder = Nothing THEN there ELSE Append(folder, A!Last(asked.target))
  <2>1. out = {} /\ answer.paths = {} /\ entries = {} /\ Edits
    BY <1>1 DEF AccessInv, PhaseInv
  <2>2. PICK m : Decided(tree, m, asked.target) /\ Cleared(m)
    BY <1>1 DEF AccessInv, PhaseInv
  <2>3. /\ Disk(tree) /\ asked.target \in Seq(STRING)
        /\ Nothing \notin STRING /\ Nothing \notin Seq(STRING)
        /\ m \in Seq(STRING) /\ Explains(tree, m, asked.target) /\ \A k \in 1 .. Len(m) : m[k] \notin ShortNames
    BY <2>2 DEF AccessInv, AskInv, AccessAssumption, Decided
  <2>4. \A t \in touched : t.access = "edit" /\ t.path = there /\ there # Nothing
    BY <2>1, <2>3, SpelledIsCanonical DEF Edits
  <2>0. /\ there # Nothing => goal' = there
        /\ there = Nothing => folder # Nothing /\ goal' = Append(folder, A!Last(asked.target))
    <3> HIDE DEF there, folder
    <3> QED BY <1>3
  <2>5. m = goal' /\ m # << >> /\ \A t \in touched : t.path = m
    <3>1. CASE there # Nothing
      <4>1. there \in Seq(STRING) /\ Spelled(tree, there, asked.target)
        BY <1>3, <2>3, <3>1, CanonicalSpells
      <4>2. m = there
        BY <2>3, <4>1, ExplainedIsSpelled
      <4>3. there # << >>
        BY <1>3, <2>3, <3>1, PathOf DEF A!IsFile, Disk
      <4>4. goal' = there
        BY <2>0, <3>1
      <4>5. \A t \in touched : t.path = m
        BY <2>4, <4>2
      <4> HIDE DEF there
      <4> QED BY <4>2, <4>3, <4>4, <4>5
    <3>2. CASE there = Nothing
      <4>1. folder # Nothing /\ goal' = Append(folder, A!Last(asked.target))
        BY <2>0, <3>2
      <4>2. m = Append(folder, A!Last(asked.target)) /\ m # << >>
        BY <1>3, <2>2, <2>3, <3>2, <4>1, NewNameIsDecided
      <4> QED BY <2>4, <3>2, <4>1, <4>2
    <3> QED BY <3>1, <3>2
  <2> HIDE DEF there, folder
  <2>6. PhaseInv'
    <3>1. Safe(goal)' /\ Cleared(goal)'
      BY <1>1, <1>3, <2>2, <2>3, <2>5 DEF Safe, Cleared, RuledAuto
    <3>2. (\A t \in touched' : t.access = "edit" /\ t.path = goal') /\ out' = {} /\ answer'.paths = {} /\ entries' = {}
      BY <1>1, <1>3, <2>1, <2>4, <2>5
    <3>3. goal' # << >> /\ \A k \in 1 .. Len(goal') : goal'[k] \notin ShortNames
      BY <2>3, <2>5
    <3> QED BY <1>3, <3>1, <3>2, <3>3 DEF PhaseInv
  <2>7. \A p \in Shows' : Shown(p)'
    <3> SUFFICES ASSUME NEW p \in Shows' PROVE Shown(p)'
      OBVIOUS
    <3>1. p = m /\ p \in Shows
      BY <1>1, <1>3, <2>1, <2>5 DEF Shows
    <3>2. Shown(p) /\ A!Within(p, p)
      BY <2>3, <3>1, WithinItself DEF AccessInv
    <3> QED BY <1>1, <2>5, <3>1, <3>2 DEF Shown, Safe, There
  <2>8. Disk(tree)' /\ AskInv' /\ A!ActsAsDecided'
    BY <1>1 DEF AccessInv, AskInv, A!ActsAsDecided
  <2> QED BY <2>6, <2>7, <2>8 DEF AccessInv
<1> QED BY <1>2, <1>3 DEF A!ResolveWrite

LEMMA FrontOf ==
    ASSUME NEW S, NEW s \in Seq(S), s # << >>
    PROVE  /\ Len(s) \in 1 .. Len(s) /\ s[Len(s)] \in S /\ A!Front(s) \in Seq(S) /\ Len(A!Front(s)) = Len(s) - 1
           /\ \A i \in 1 .. Len(A!Front(s)) : i \in 1 .. Len(s) /\ A!Front(s)[i] = s[i]
<1>1. Len(s) \in 1 .. Len(s) /\ s[Len(s)] \in S
  OBVIOUS
<1>2. A!Front(s) = SubSeq(s, 1, Len(s) - 1)
  BY DEF A!Front
<1> DEFINE f == SubSeq(s, 1, Len(s) - 1)
<1>3. f \in Seq(S) /\ Len(f) = Len(s) - 1
  <2> DEFINE n == Len(s) - 1
  <2>1. n \in 1 - 1 .. Len(s) /\ 1 \in 1 .. Len(s) + 1 /\ n \in Nat
    BY <1>1
  <2> HIDE DEF n
  <2>2. SubSeq(s, 1, n) \in Seq(S) /\ Len(SubSeq(s, 1, n)) = IF 1 <= n THEN n - 1 + 1 ELSE 0
    BY <2>1, SubSeqProperties
  <2>3. (IF 1 <= n THEN n - 1 + 1 ELSE 0) = n
    BY <2>1
  <2> QED BY <2>2, <2>3 DEF n
<1>4. \A i \in 1 .. Len(s) - 1 : i \in 1 .. Len(s) /\ f[i] = s[i]
  OBVIOUS
<1> HIDE DEF f
<1> QED BY <1>1, <1>2, <1>3, <1>4 DEF f

LEMMA Appended ==
    ASSUME NEW S, NEW s \in Seq(S), NEW x \in S
    PROVE  /\ Append(s, x) \in Seq(S) /\ Len(Append(s, x)) = Len(s) + 1
           /\ \A i \in 1 .. Len(Append(s, x)) :
                 (i \in 1 .. Len(s) /\ Append(s, x)[i] = s[i]) \/ Append(s, x)[i] = x
<1> DEFINE a == Append(s, x)
<1>1. a \in Seq(S) /\ Len(a) = Len(s) + 1 /\ Len(s) \in Nat
  OBVIOUS
<1>2. (\A i \in 1 .. Len(s) : a[i] = s[i]) /\ a[Len(s) + 1] = x
  OBVIOUS
<1> HIDE DEF a
<1>3. ASSUME NEW i \in 1 .. Len(a) PROVE (i \in 1 .. Len(s) /\ a[i] = s[i]) \/ a[i] = x
  <2>1. i \in 1 .. Len(s) \/ i = Len(s) + 1
    BY <1>1
  <2> QED BY <1>2, <2>1
<1> QED BY <1>1, <1>3 DEF a

LEMMA ReadAccess ==
    ASSUME AccessInv, A!Stat \/ A!ReadBytes
    PROVE  AccessInv'
<1>1. UNCHANGED <<tree, policy, asked, goal, pending, entries>> /\ phase \in {"stat", "bytes"}
  BY DEF A!Stat, A!ReadBytes, A!Worker
<1>2. Shown(goal) /\ RuledAuto(goal, "read") /\ answer.paths = {} /\ entries = {}
  BY <1>1 DEF AccessInv, PhaseInv
<1>3. CASE UNCHANGED <<out, touched>> /\ \E s : A!Fail(s)
  BY <1>1, <1>3, FailShowsNothing, EndsUntouched
<1>4. CASE UNCHANGED <<out, touched, answer>> /\ phase' = "bytes"
  <2>1. PhaseInv'
    BY <1>1, <1>2, <1>4 DEF PhaseInv, Shown, Safe, There, RuledAuto
  <2> QED BY <1>1, <1>4, <2>1, AccessGoesOn
<1>5. CASE /\ A!Touch(goal, "read") /\ out' \subseteq out \cup {goal}
           /\ \/ phase' = "record" /\ UNCHANGED answer
              \/ \E s : A!Fail(s)
  <2>1. touched' = touched \cup {[path |-> goal, access |-> "read"]}
    BY <1>5 DEF A!Touch
  <2>2. phase' \in {"done", "record"} /\ answer'.paths = {}
    BY <1>2, <1>5, FailShowsNothing
  <2>3. \A p \in Shows' : Shown(p)
    BY <1>2, <1>5, <2>1, <2>2 DEF Shows, AccessInv
  <2>4. A!ActsAsDecided'
    BY <1>1, <1>2, <2>1 DEF AccessInv, A!ActsAsDecided, RuledAuto
  <2> QED BY <1>1, <2>2, <2>3, <2>4, AccessEnds
<1> QED BY <1>3, <1>4, <1>5 DEF A!Stat, A!ReadBytes, A!Worker

LEMMA ExploreAccess ==
    ASSUME AccessInv, A!Explore
    PROVE  AccessInv'
<1>1. UNCHANGED <<tree, policy, asked, goal, entries>> /\ phase = "explore"
  BY DEF A!Explore, A!Outside
<1>2. Shown(goal) /\ RuledAuto(goal, "read") /\ answer.paths = {} /\ entries = {}
  BY <1>1 DEF AccessInv, PhaseInv
<1>3. CASE UNCHANGED <<out, touched>> /\ A!Fail("unsafe")
  BY <1>1, <1>3, FailShowsNothing, EndsUntouched
<1>4. CASE /\ UNCHANGED <<out, touched, answer>> /\ phase' = "walk"
           /\ pending' = <<[dir |-> goal, level |-> 0]>>
  <2>1. goal \in Seq(STRING) /\ A!Within(goal, goal)
    BY <1>2, WithinItself DEF Shown, Safe
  <2>2. pending' \in Seq([dir : Seq(STRING), level : Nat]) /\ \A i \in 1 .. Len(pending') : pending'[i].dir = goal
    BY <1>4, <2>1
  <2>3. Visits'
    BY <1>1, <1>2, <2>1, <2>2 DEF Visits
  <2>4. PhaseInv'
    BY <1>2, <1>4, <2>3 DEF PhaseInv
  <2> QED BY <1>1, <1>4, <2>4, AccessGoesOn
<1>5. CASE out' = {goal} /\ A!Touch(goal, "info") /\ phase' = "record" /\ UNCHANGED answer
  <2>1. touched' = touched \cup {[path |-> goal, access |-> "info"]}
    BY <1>5 DEF A!Touch
  <2>2. \A p \in Shows' : Shown(p)
    BY <1>2, <1>5, <2>1 DEF Shows, AccessInv
  <2>3. A!ActsAsDecided'
    BY <1>1, <1>2, <2>1 DEF AccessInv, A!ActsAsDecided, RuledAuto
  <2> QED BY <1>1, <1>2, <1>5, <2>2, <2>3, AccessEnds
<1> QED BY <1>3, <1>4, <1>5 DEF A!Explore

LEMMA WalkDirectoryAccess ==
    ASSUME AccessInv, A!WalkDirectory
    PROVE  AccessInv'
<1>1. UNCHANGED <<tree, policy, asked, goal, out, touched, answer>> /\ phase = "walk"
  BY DEF A!WalkDirectory
<1>2. Visits /\ Disk(tree) /\ answer.paths = {}
  BY <1>1 DEF AccessInv, PhaseInv
<1>3. CASE pending = << >>
  <2>1. phase' = "record"
    BY <1>3 DEF A!WalkDirectory
  <2>2. Shows' = Shows /\ A!ActsAsDecided'
    BY <1>1 DEF AccessInv, Shows, A!ActsAsDecided
  <2> QED BY <1>1, <1>2, <2>1, <2>2, AccessEnds DEF AccessInv
<1>4. CASE pending # << >>
  <2> DEFINE c == pending[Len(pending)]
  <2>1. /\ Len(pending) \in 1 .. Len(pending) /\ c \in [dir : Seq(STRING), level : Nat]
        /\ A!Front(pending) \in Seq([dir : Seq(STRING), level : Nat])
        /\ \A i \in 1 .. Len(A!Front(pending)) : i \in 1 .. Len(pending) /\ A!Front(pending)[i] = pending[i]
    <3> DEFINE S == [dir : Seq(STRING), level : Nat]
    <3>1. pending \in Seq(S)
      BY <1>2 DEF Visits
    <3> HIDE DEF S
    <3>2. /\ Len(pending) \in 1 .. Len(pending) /\ pending[Len(pending)] \in S
          /\ A!Front(pending) \in Seq(S)
          /\ \A i \in 1 .. Len(A!Front(pending)) : i \in 1 .. Len(pending) /\ A!Front(pending)[i] = pending[i]
      BY <1>4, <3>1, FrontOf
    <3> QED BY <3>2 DEF S
  <2>2. A!Within(c.dir, goal) /\ c.level \in Nat
    BY <1>2, <2>1 DEF Visits
  <2>3. pending' = A!Front(pending)
    BY <1>4 DEF A!WalkDirectory
  <2>4. entries' \subseteq {[e |-> e, level |-> c.level] : e \in {x \in tree : x.dir = c.dir}}
    BY <1>4 DEF A!WalkDirectory, A!Current
  <2> HIDE DEF c
  <2>5. \A x \in entries' : /\ x.e \in tree /\ IsEntry(x.e) /\ A!Within(x.e.dir, goal) /\ x.level \in Nat
                            /\ SameEntry(x.e, x.e)
    BY <1>2, <2>2, <2>4 DEF Disk, SameEntry
  <2>6. \A i \in 1 .. Len(pending') : A!Within(pending'[i].dir, goal)
    BY <1>2, <2>1, <2>3 DEF Visits
  <2>7. Visits'
    BY <1>1, <1>2, <2>1, <2>3, <2>5, <2>6 DEF Visits
  <2>8. phase' = "walk"
    BY <1>1, <1>4 DEF A!WalkDirectory
  <2>9. PhaseInv'
    BY <1>1, <1>2, <2>7, <2>8 DEF PhaseInv
  <2> QED BY <1>1, <2>9, AccessGoesOn
<1> QED BY <1>3, <1>4

LEMMA WalkEntryAccess ==
    ASSUME AccessInv, SizeInv, A!WalkEntry
    PROVE  AccessInv'
<1>1. UNCHANGED <<tree, policy, asked, goal>> /\ phase = "walk"
  BY DEF A!WalkEntry, A!Outside
<1>2. Visits /\ Disk(tree) /\ answer.paths = {}
  BY <1>1 DEF AccessInv, PhaseInv
<1> DEFINE Path(x) == A!Path(x.e)
           Skip(x) == x.e.kind = "link" \/ A!Sensitive(Path(x)) \/ A!ManyNames(tree, Path(x))
           Found(x) == IF Skip(x) THEN {} ELSE A!Visited(x.e)
<1>3. CASE \E s : A!Fail(s) /\ UNCHANGED <<out, touched>>
  BY <1>1, <1>3, FailShowsNothing, EndsUntouched
<1>4. CASE \E x \in entries :
             /\ Skip(x) \/ A!Allowed(Path(x))
             /\ out' = out \cup Found(x)
             /\ touched' \in {touched, touched \cup {[path |-> p, access |-> "search"] : p \in Found(x)}}
             /\ \/ entries' = {} /\ pending' = << >> /\ phase' = "record"
                \/ /\ entries' = entries \ {x} /\ UNCHANGED phase
                   /\ \/ UNCHANGED pending
                      \/ pending' = Append(pending, [dir |-> Path(x), level |-> x.level + 1])
             /\ UNCHANGED answer
  <2>1. PICK x \in entries :
           /\ Skip(x) \/ A!Allowed(Path(x))
           /\ out' = out \cup Found(x)
           /\ touched' \in {touched, touched \cup {[path |-> p, access |-> "search"] : p \in Found(x)}}
           /\ \/ entries' = {} /\ pending' = << >> /\ phase' = "record"
              \/ /\ entries' = entries \ {x} /\ UNCHANGED phase
                 /\ \/ UNCHANGED pending
                    \/ pending' = Append(pending, [dir |-> Path(x), level |-> x.level + 1])
           /\ UNCHANGED answer
    BY <1>4
  <2> DEFINE p == Path(x)
  <2>2. IsEntry(x.e) /\ A!Within(x.e.dir, goal) /\ x.level \in Nat /\ goal \in Seq(STRING)
    BY <1>2 DEF Visits
  <2>3. p \in Seq(STRING) /\ A!Within(p, goal)
    BY <2>2, PathOf, WithinBelow
  <2>4. ~Skip(x) => Shown(p)
    <3> SUFFICES ASSUME ~Skip(x) PROVE Shown(p)
      OBVIOUS
    <3>1. PICK y \in tree : SameEntry(x.e, y)
      BY <1>2 DEF Visits
    <3>2. A!Path(y) = p /\ y.kind = x.e.kind
      BY <3>1 DEF SameEntry, A!Path
    <3>3. There(p)
      BY <1>2, <3>2, EntryIsThere
    <3>4. Safe(p)
      BY <2>1, <2>3 DEF Safe
    <3> QED BY <2>3, <3>3, <3>4 DEF Shown
  <2>5. Found(x) = {} \/ ~Skip(x)
    OBVIOUS
  <2>6. \A q \in Found(x) : q = p /\ Shown(q)
    <3>1. asked.action \in A!Walks
      BY <1>1 DEF SizeInv
    <3>2. A!Visited(x.e) \subseteq {p}
      BY <3>1 DEF A!Visited, A!Walks
    <3> QED BY <2>4, <2>5, <3>2
  <2> HIDE DEF Found, Path, p, Skip
  <2>7. \A q \in Shows' : Shown(q)
    BY <1>2, <2>1, <2>6 DEF AccessInv, Shows
  <2>8. A!ActsAsDecided'
    BY <1>1, <2>1 DEF AccessInv, A!ActsAsDecided
  <2>9. CASE phase' = "record"
    BY <1>1, <1>2, <2>1, <2>7, <2>8, <2>9, AccessEnds
  <2>10. CASE /\ entries' = entries \ {x} /\ UNCHANGED phase
              /\ \/ UNCHANGED pending
                 \/ pending' = Append(pending, [dir |-> Path(x), level |-> x.level + 1])
    <3>1. pending' \in Seq([dir : Seq(STRING), level : Nat]) /\ \A i \in 1 .. Len(pending') : A!Within(pending'[i].dir, goal)
      <4>1. CASE UNCHANGED pending
        BY <1>2, <4>1 DEF Visits
      <4>2. CASE pending' = Append(pending, [dir |-> p, level |-> x.level + 1])
        <5> DEFINE new == [dir |-> p, level |-> x.level + 1]  S == [dir : Seq(STRING), level : Nat]
        <5>1. new \in S /\ new.dir = p /\ pending \in Seq(S)
          BY <1>2, <2>2, <2>3 DEF Visits
        <5>2. pending' = Append(pending, new)
          BY <4>2
        <5> HIDE DEF new, S
        <5>3. /\ pending' \in Seq(S)
              /\ \A i \in 1 .. Len(pending') :
                    (i \in 1 .. Len(pending) /\ pending'[i] = pending[i]) \/ pending'[i] = new
          BY <5>1, <5>2, Appended
        <5>4. \A i \in 1 .. Len(pending') : A!Within(pending'[i].dir, goal)
          BY <1>2, <2>3, <5>1, <5>3 DEF Visits
        <5> QED BY <5>3, <5>4 DEF S
      <4> QED BY <2>10, <4>1, <4>2 DEF p
    <3>2. Visits'
      BY <1>1, <1>2, <2>10, <3>1 DEF Visits
    <3>3. PhaseInv'
      BY <1>1, <1>2, <2>1, <2>10, <3>2 DEF PhaseInv
    <3>4. \A q : Shown(q) => Shown(q)'
      BY <1>1 DEF Shown, Safe, There
    <3>5. Disk(tree)' /\ AskInv'
      BY <1>1 DEF AccessInv, AskInv
    <3> QED BY <2>7, <2>8, <3>3, <3>4, <3>5 DEF AccessInv
  <2> QED BY <2>1, <2>9, <2>10
<1> QED BY <1>3, <1>4 DEF A!WalkEntry

\* The file that is written takes its name for itself.
LEMMA WriteAccess ==
    ASSUME AccessAssumption, AccessInv, A!Write
    PROVE  AccessInv'
<1> DEFINE before == IF A!Exists(tree, goal) THEN {A!At(tree, goal)} ELSE {}
           folder == A!Front(goal)  name == A!Last(goal)
<1>1. UNCHANGED <<policy, asked, goal, entries, out>> /\ phase = "write"
  BY DEF A!Write, A!Outside
<1>2. /\ Safe(goal) /\ Cleared(goal) /\ goal # << >> /\ (\A k \in 1 .. Len(goal) : goal[k] \notin ShortNames)
      /\ (\A t \in touched : t.access = "edit" /\ t.path = goal)
      /\ out = {} /\ answer.paths = {} /\ Disk(tree) /\ Nothing \notin STRING
  BY <1>1 DEF AccessInv, PhaseInv, AccessAssumption
<1>3. CASE \E s : A!Fail(s) /\ UNCHANGED <<tree, touched>>
  BY <1>1, <1>3, FailShowsNothing, EndsUntouched
<1>4. CASE /\ tree' = (tree \ before) \cup
                   {[dir |-> folder, name |-> name, short |-> Nothing, kind |-> "file", to |-> << >>,
                     links |-> 1, size |-> A!Max(asked.size)]}
           /\ A!Touch(goal, "write") /\ phase' = "record" /\ UNCHANGED answer
  <2> DEFINE f == [dir |-> folder, name |-> name, short |-> Nothing, kind |-> "file", to |-> << >>,
                   links |-> 1, size |-> A!Max(asked.size)]
  <2>1. folder \in Seq(STRING) /\ name \in STRING /\ name \notin ShortNames /\ Append(folder, name) = goal
    <3>1. goal \in Seq(STRING)
      BY <1>2 DEF Safe
    <3>2. Len(goal) \in 1 .. Len(goal) /\ goal[Len(goal)] \in STRING
      BY <1>2, <3>1
    <3>3. folder = SubSeq(goal, 1, Len(goal) - 1) /\ name = goal[Len(goal)] /\ SubSeq(goal, 1, Len(goal)) = goal
      BY <3>1 DEF A!Front, A!Last
    <3>4. /\ SubSeq(goal, 1, Len(goal) - 1) \in Seq(STRING)
          /\ Append(SubSeq(goal, 1, Len(goal) - 1), goal[Len(goal)]) = SubSeq(goal, 1, Len(goal))
      BY <3>1, <3>2, PrefixOf
    <3> QED BY <1>2, <3>2, <3>3, <3>4
  <2>2. f.dir = folder /\ f.name = name /\ f.short = Nothing /\ f.kind = "file" /\ f.links = 1
        /\ {"dir", "name", "short", "kind", "links", "size"} \subseteq DOMAIN f
    OBVIOUS
  <2> HIDE DEF f, folder, name
  <2>3. IsEntry(f) /\ A!Path(f) = goal
    BY <2>1, <2>2 DEF IsEntry, A!Path
  <2>4. tree' = (tree \ before) \cup {f}
    BY <1>4 DEF f
  <2>5. ASSUME NEW x \in tree \ before, x.dir = f.dir, NEW n \in STRING
        PROVE  ~(n \in {x.name, x.short} /\ n \in {f.name, f.short})
    <3>1. SUFFICES ASSUME n \in {x.name, x.short}, n \in {f.name, f.short} PROVE FALSE
      OBVIOUS
    <3>2. n = name
      BY <1>2, <2>2, <3>1
    <3>3. n # x.short
      <4>1. x.short \in ShortNames \cup {Nothing}
        BY <1>2 DEF Disk, IsEntry
      <4> QED BY <1>2, <2>1, <3>2, <4>1
    <3>4. A!Path(x) = goal
      BY <2>1, <2>2, <2>5, <3>1, <3>2, <3>3 DEF A!Path
    <3>5. A!At(tree, goal) = x
      <4>1. \A y \in tree : A!Path(y) = goal => y = x
        BY <1>2, <3>4, PathsDiffer
      <4> QED BY <3>4, <4>1 DEF A!At
    <3>6. x \in before
      BY <3>4, <3>5 DEF A!Exists
    <3> QED BY <3>6
  <2> HIDE DEF before
  <2>6. Disk(tree')
    <3>1. \A e \in tree' : IsEntry(e)
      BY <1>2, <2>3, <2>4 DEF Disk
    <3>2. Distinct(tree')
      BY <1>2, <2>4, <2>5 DEF Disk, Distinct
    <3> QED BY <3>1, <3>2 DEF Disk
  <2>7. \A p : p = goal => Shown(p)'
    <3>1. There(goal)'
      BY <1>1, <2>2, <2>3, <2>4 DEF There
    <3>2. A!Within(goal, goal)
      BY <1>2, WithinItself DEF Safe
    <3> QED BY <1>1, <1>2, <3>1, <3>2 DEF Shown, Safe, There
  <2>8. touched' = touched \cup {[path |-> goal, access |-> "write"]}
    BY <1>4 DEF A!Touch
  <2>9. \A p \in Shows' : p = goal
    BY <1>1, <1>2, <1>4, <2>8 DEF Shows
  <2>10. A!ActsAsDecided'
    BY <1>1, <1>2, <2>8 DEF AccessInv, A!ActsAsDecided, Cleared, RuledAuto
  <2>11. AskInv' /\ PhaseInv'
    BY <1>1, <1>2, <1>4 DEF AccessInv, AskInv, PhaseInv
  <2> QED BY <2>6, <2>7, <2>9, <2>10, <2>11 DEF AccessInv
<1> QED BY <1>3, <1>4 DEF A!Write

\* Other programs take nothing away.
LEMMA KeptAccess ==
    ASSUME AccessInv, Kept(tree, tree'), Disk(tree'),
           UNCHANGED <<policy, asked, phase, goal, pending, entries, out, answer, touched>>
    PROVE  AccessInv'
<1>1. \A e, f : SameEntry(e, f) => A!Path(e) = A!Path(f)
  BY DEF SameEntry, A!Path
<1>2. \A p : There(p) => There(p)'
  BY <1>1 DEF There, Kept, SameEntry
<1>3. \A p : Shown(p) => Shown(p)'
  BY <1>2 DEF Shown, Safe
<1>4. /\ \A m, parts : Decided(tree, m, parts) => Decided(tree', m, parts)
      /\ \A m, parts : Spelled(tree, m, parts) => Spelled(tree', m, parts)
  BY KeptSpells
<1>5. Visits => Visits'
  <2>1. \A e, x, y : SameEntry(e, x) /\ SameEntry(x, y) => SameEntry(e, y)
    BY DEF SameEntry
  <2> QED BY <2>1 DEF Visits, Kept
<1>6. Edits => Edits'
  BY <1>4 DEF Edits
<1>7. AskInv' /\ A!ActsAsDecided' /\ Shows' = Shows
  BY DEF AccessInv, AskInv, A!ActsAsDecided, Shows
<1>8. /\ \A m : RuledAuto(m, "read")' <=> RuledAuto(m, "read")
      /\ \A m : Cleared(m)' <=> Cleared(m)
      /\ \A m : Safe(m)' <=> Safe(m)
  BY DEF RuledAuto, Cleared, Safe
<1>9. PhaseInv'
  <2>1. PhaseInv /\ phase' = phase
    BY DEF AccessInv
  <2>2. phase' \in {"edited", "resolve"} => Edits'
    BY <1>6, <2>1 DEF PhaseInv
  <2>3. phase' = "walk" => Visits'
    BY <1>5, <2>1 DEF PhaseInv
  <2>4. phase' \in {"stat", "bytes", "explore"} => Shown(goal)' /\ RuledAuto(goal, "read")'
    BY <1>3, <2>1 DEF PhaseInv, RuledAuto, Shown, Safe, There
  <2>5. phase' = "edit" => \E m : Decided(tree', m, asked'.target) /\ A!RuleOf(policy'.rules, m, "write") # "deny"
    BY <1>4, <2>1 DEF PhaseInv
  <2>6. phase' = "resolve" =>
            \E m : /\ Decided(tree', m, asked'.target)
                   /\ IF asked'.action = "filesystem.write" THEN Cleared(m)' ELSE RuledAuto(m, "read")' /\ touched' = {}
    BY <1>4, <1>8, <2>1 DEF PhaseInv
  <2>7. phase' = "write" =>
            /\ Safe(goal)' /\ Cleared(goal)' /\ goal' # << >> /\ \A k \in 1 .. Len(goal') : goal'[k] \notin ShortNames
            /\ \A t \in touched' : t.access = "edit" /\ t.path = goal'
    BY <2>1 DEF PhaseInv, Safe, Cleared, RuledAuto
  <2>8. /\ phase' # "done" => answer'.paths = {}
        /\ phase' \in {"authorize", "edit", "edited", "resolve", "write"} => out' = {}
        /\ phase' \in {"authorize", "edit"} => touched' = {}
        /\ phase' \notin {"walk", "record", "done"} => entries' = {}
    BY <2>1 DEF PhaseInv
  <2> QED BY <2>2, <2>3, <2>4, <2>5, <2>6, <2>7, <2>8 DEF PhaseInv
<1> QED BY <1>3, <1>7, <1>9 DEF AccessInv

LEMMA StartsAsDisk == ASSUME AccessAssumption PROVE Disk(StartTree)
<1>1. \A e \in StartTree : e \in A!Entry
  BY DEF AccessAssumption
<1>2. \A e \in A!Entry : IsEntry(e)
  BY DEF A!Entry, IsEntry
<1>3. Distinct(StartTree)
  <2> SUFFICES ASSUME NEW d \in StartTree, NEW e \in StartTree, d.dir = e.dir, d # e, NEW n \in STRING,
                      n \in {d.name, d.short}, n \in {e.name, e.short}
               PROVE  FALSE
    BY DEF Distinct
  <2>1. {d.name, d.short} \cap {e.name, e.short} \subseteq {Nothing}
    BY DEF AccessAssumption
  <2> QED BY <2>1 DEF AccessAssumption
<1> QED BY <1>1, <1>2, <1>3 DEF Disk

LEMMA AccessBeginning ==
    ASSUME AccessAssumption, A!Init
    PROVE  AccessInv
<1>1. /\ phase = "authorize" /\ out = {} /\ touched = {} /\ entries = {} /\ answer.paths = {}
      /\ policy \in Policies /\ asked \in Asks /\ tree = StartTree
  BY DEF A!Init, A!Unanswered
<1>5. Disk(tree)
  BY <1>1, StartsAsDisk
<1>6. AskInv
  BY <1>1 DEF AskInv, AccessAssumption
<1>7. PhaseInv
  BY <1>1 DEF PhaseInv
<1> QED BY <1>1, <1>5, <1>6, <1>7 DEF AccessInv, A!ActsAsDecided, Shows

LEMMA AccessStep ==
    ASSUME AccessAssumption, SizeInv, AccessInv, A!Next
    PROVE  AccessInv'
<1>1. CASE A!Authorize
  BY <1>1, AuthorizeAccess
<1>2. CASE A!Prepare \/ A!PrepareAgain
  BY <1>2, PrepareAccess
<1>3. CASE A!ReadEdit
  BY <1>3, ReadEditAccess
<1>4. CASE A!Answer
  BY <1>4, AnswerAccess
<1>5. CASE A!Resolve
  BY <1>5, ResolveAccess
<1>6. CASE A!ResolveWrite
  BY <1>6, ResolveWriteAccess
<1>7. CASE A!Stat \/ A!ReadBytes
  BY <1>7, ReadAccess
<1>8. CASE A!Explore
  BY <1>8, ExploreAccess
<1>9. CASE A!WalkDirectory
  BY <1>9, WalkDirectoryAccess
<1>10. CASE A!WalkEntry
  BY <1>10, WalkEntryAccess
<1>11. CASE A!Write
  BY <1>11, WriteAccess
<1>12. CASE A!LogFails \/ A!SearchTimeout
  BY <1>12, FailShowsNothing, EndsUntouched DEF A!LogFails, A!SearchTimeout, A!Worker
<1>13. ASSUME NEW e \in Creations, A!Create(e) PROVE AccessInv'
  BY <1>13, CreateKeeps, KeptAccess DEF AccessInv, A!Create, A!Worker
<1>14. ASSUME NEW e \in tree, A!Grow(e) PROVE AccessInv'
  BY <1>14, GrowKeeps, KeptAccess DEF AccessInv, A!Grow, A!Worker
<1> QED BY <1>1, <1>2, <1>3, <1>4, <1>5, <1>6, <1>7, <1>8, <1>9, <1>10, <1>11, <1>12, <1>13, <1>14
           DEF A!Next, A!Work

LEMMA SizeStands == ASSUME SizeInv, UNCHANGED access PROVE SizeInv'
BY DEF access, SizeInv, Sized

LEMMA AccessStands == ASSUME AccessInv, UNCHANGED access PROVE AccessInv'
<1>1. Kept(tree, tree') /\ Disk(tree')
  BY DEF access, Kept, SameEntry, AccessInv
<1> QED BY <1>1, KeptAccess DEF access

\* A file that is read or written unsigned is one whose own rule says so, by the path that
\* it has when it is acted upon, whatever other programs put on the disk since the policy
\* decided; and what is shown or written is no link, not sensitive, has no other name and lies
\* in the roots, below what was asked for (normalize_windows_path decides,
\* resolve_exploration_target, resolve_write_target and walk_safe act).
THEOREM ActsAreDecided ==
    ASSUME LengthsAssumption, AccessAssumption PROVE ServiceSpec => []ActsAsDecided
<1> DEFINE Inv == SizeInv /\ AccessInv
<1>1. ServiceInit => Inv
  BY SizeBeginning, AccessBeginning DEF ServiceInit
<1>2. Inv /\ [ServiceNext]_Service => Inv'
  <2> SUFFICES ASSUME Inv, [ServiceNext]_Service PROVE Inv'
    OBVIOUS
  <2>1. CASE A!Next
    BY <2>1, SizeStep, AccessStep
  <2>2. CASE UNCHANGED access
    BY <2>2, SizeStands, AccessStands
  <2> QED BY <2>1, <2>2 DEF ServiceNext, Service
<1>3. Inv => ActsAsDecided
  <2> SUFFICES ASSUME Inv PROVE A!ActsAsDecided /\ A!NothingProtected
    BY DEF ActsAsDecided
  <2>1. \A p \in answer.paths \cup {t.path : t \in touched} : Shown(p)
    BY DEF AccessInv, Shows
  <2>2. A!NothingProtected
    BY <2>1, ThereMeans DEF AccessInv, A!NothingProtected, Shown, Safe
  <2> QED BY <2>2 DEF AccessInv
<1> QED BY <1>1, <1>2, <1>3, PTL DEF ServiceSpec

-----------------------------------------------------------------------------
(* What a walk has still to visit.                                         *)

Listing == asked.action \in {"filesystem.list", "filesystem.search_files"}

\* A directory over p is still to be read, or an entry over p to be visited.
Waits(p) ==
    \/ \E i \in 1 .. Len(pending) : A!Within(p, pending[i].dir) /\ Len(pending[i].dir) < Len(p)
    \/ \E x \in entries : A!Within(p, A!Path(x.e))

Levels ==
    /\ \A i \in 1 .. Len(pending) : Len(pending[i].dir) = Len(goal) + pending[i].level
    /\ \A x \in entries : Len(x.e.dir) = Len(goal) + x.level /\ x.level < asked.depth

Deep == \A p \in out : Len(p) <= Len(goal) + asked.depth

Brought == /\ Cardinality(out) <= asked.max
           /\ Cardinality(out) < asked.max => A!Eligible \subseteq out

Walking ==
    /\ Cardinality(out) < asked.max /\ Levels
    /\ \A p \in A!Eligible : p \in out \/ Waits(p)

WalkInv ==
    /\ phase # "done" => answer.status # "ok"
    /\ asked.action # "filesystem.write" => Kept(StartTree, tree)
    /\ Listing /\ phase \in {"authorize", "resolve", "explore"} => out = {}
    /\ Listing /\ phase \in {"walk", "record"} => Deep
    /\ Listing /\ phase = "walk" => Walking
    /\ Listing /\ phase = "record" => Brought
    /\ WalkIsComplete

-----------------------------------------------------------------------------
LEMMA WithinIsPrefix ==
    ASSUME NEW p \in Seq(STRING), NEW q \in Seq(STRING), A!Within(p, q)
    PROVE  Len(q) \in 0 .. Len(p) /\ q = SubSeq(p, 1, Len(q)) /\ (Len(q) < Len(p) \/ q = p)
<1>1. Len(q) \in Nat /\ Len(p) \in Nat /\ Len(q) <= Len(p) /\ SubSeq(q, 1, Len(q)) = SubSeq(p, 1, Len(q))
  BY DEF A!Within, A!IsPrefix
<1>2. SubSeq(q, 1, Len(q)) = q /\ SubSeq(p, 1, Len(p)) = p
  OBVIOUS
<1> QED BY <1>1, <1>2

LEMMA PrefixIsWithin ==
    ASSUME NEW p \in Seq(STRING), NEW k \in 0 .. Len(p)
    PROVE  SubSeq(p, 1, k) \in Seq(STRING) /\ Len(SubSeq(p, 1, k)) = k /\ A!Within(p, SubSeq(p, 1, k))
<1> DEFINE q == SubSeq(p, 1, k)
<1>1. q \in Seq(STRING) /\ Len(q) = k /\ \A i \in 1 .. k : q[i] = p[i]
  <2>1. \A i \in 1 .. k : p[i] \in STRING
    OBVIOUS
  <2>2. k \in Nat /\ 1 \in Int /\ k \in Int
    OBVIOUS
  <2>3. q \in Seq(STRING) /\ Len(q) = (IF 1 <= k THEN k - 1 + 1 ELSE 0) /\ \A i \in 1 .. k - 1 + 1 : q[i] = p[1 + i - 1]
    BY <2>1, <2>2, SubSeqProperties
  <2> HIDE DEF q
  <2> QED BY <2>2, <2>3
<1> HIDE DEF q
<1>2. SubSeq(q, 1, k) = SubSeq(p, 1, k)
  BY <1>1, SamePrefix
<1> QED BY <1>1, <1>2 DEF A!Within, A!IsPrefix, q

\* Everything lies in directories.
LEMMA Ancestors ==
    ASSUME AccessAssumption, NEW e \in StartTree, NEW k \in 1 .. Len(A!Path(e))
    PROVE  \E d \in StartTree : /\ A!Path(d) = SubSeq(A!Path(e), 1, k)
                                /\ k < Len(A!Path(e)) => d.kind = "dir"
<1> DEFINE p == A!Path(e)  n == Len(p)
           Bad == {i \in 0 .. n - 1 : ~\E d \in StartTree : /\ A!Path(d) = SubSeq(p, 1, n - i)
                                                            /\ i # 0 => d.kind = "dir"}
<1>0. Disk(StartTree) /\ IsEntry(e)
  BY StartsAsDisk DEF Disk
<1>1. p \in Seq(STRING) /\ n \in Nat /\ n # 0
  BY <1>0, PathOf
<1>2. ASSUME Bad # {} PROVE FALSE
  <2>1. PICK i \in Bad : \A j \in Bad : i <= j
    <3>1. Bad \in SUBSET Nat
      OBVIOUS
    <3> HIDE DEF Bad
    <3> QED BY <1>2, <3>1, LeastNumber
  <2>2. i \in 0 .. n - 1
    OBVIOUS
  <2>3. i # 0
    <3>1. SubSeq(p, 1, n - 0) = p
      BY <1>1
    <3> HIDE DEF p
    <3> QED BY <3>1 DEF p
  <2>4. i - 1 \in 0 .. n - 1 /\ i - 1 \notin Bad
    <3> HIDE DEF Bad, n
    <3> QED BY <1>1, <2>1, <2>2, <2>3
  <2>5. PICK f \in StartTree : A!Path(f) = SubSeq(p, 1, n - (i - 1))
    BY <2>4
  <2> DEFINE m == n - (i - 1)
  <2>6. m \in 1 .. n /\ m - 1 \in 1 .. n /\ n - i = m - 1
    <3> HIDE DEF n
    <3> QED BY <1>1, <2>2, <2>3
  <2> HIDE DEF m, n, p, Bad
  <2>7. f.dir = SubSeq(p, 1, m - 1) /\ f.dir # << >>
    <3>1. IsEntry(f)
      BY <1>0 DEF Disk
    <3>2. /\ Append(f.dir, f.name) = SubSeq(p, 1, m) /\ f.dir \in Seq(STRING)
          /\ Len(SubSeq(p, 1, m)) = Len(f.dir) + 1 /\ SubSeq(SubSeq(p, 1, m), 1, Len(f.dir)) = f.dir
      BY <2>5, <3>1, PathOf DEF m, A!Path, IsEntry
    <3>3. LET q == SubSeq(p, 1, m) IN
          q \in Seq(STRING) /\ Len(q) = m /\ A!Front(q) = SubSeq(p, 1, m - 1) /\ Len(SubSeq(p, 1, m - 1)) = m - 1
      BY <1>1, <2>6, PrefixOf DEF n
    <3>4. Len(f.dir) = m - 1
      BY <2>6, <3>2, <3>3, LenProperties
    <3>5. A!Front(SubSeq(p, 1, m)) = SubSeq(SubSeq(p, 1, m), 1, m - 1)
      BY <3>3 DEF A!Front
    <3>6. f.dir = SubSeq(p, 1, m - 1)
      BY <3>2, <3>3, <3>4, <3>5
    <3>7. Len(f.dir) \in Nat \ {0}
      BY <1>1, <2>6, <3>4
    <3>8. f.dir # << >>
      BY <3>7
    <3> QED BY <3>6, <3>8
  <2>8. \E d \in StartTree : A!Path(d) = f.dir /\ d.kind = "dir"
    BY <2>7 DEF AccessAssumption
  <2>9. i \notin Bad
    BY <2>6, <2>7, <2>8 DEF Bad, m
  <2> QED BY <2>1, <2>9
<1>3. n - k \in 0 .. n - 1 /\ n - (n - k) = k /\ (n - k # 0 <=> k < n)
  <2> HIDE DEF p
  <2> QED BY <1>1 DEF p
<1> HIDE DEF n, p
<1> QED BY <1>2, <1>3 DEF n, p

\* What a walk may show, and every directory on the way to it, is none that it passes over.
Passable(t, e) ==
    e.kind # "link" /\ ~A!Sensitive(A!Path(e)) /\ ~A!ManyNames(t, A!Path(e))

OnTheWay(t, p) ==
    \A k \in Len(goal) + 1 .. Len(p) :
        \E e \in t : /\ A!Path(e) = SubSeq(p, 1, k) /\ e.dir = SubSeq(p, 1, k - 1) /\ Passable(t, e)
                     /\ k < Len(p) => e.kind = "dir"
                     /\ k = Len(p) /\ asked.action # "filesystem.list" => e.kind = "file"

Reachable(t, p) ==
    /\ p \in Seq(STRING) /\ A!Within(p, goal) /\ Len(goal) < Len(p) /\ Len(p) <= Len(goal) + asked.depth
    /\ OnTheWay(t, p)

LEMMA PathParts ==
    ASSUME NEW e, IsEntry(e), NEW p \in Seq(STRING), NEW k \in 1 .. Len(p), A!Path(e) = SubSeq(p, 1, k)
    PROVE  e.dir = SubSeq(p, 1, k - 1) /\ e.name = p[k]
<1> DEFINE q == SubSeq(p, 1, k)
<1>1. q \in Seq(STRING) /\ Len(q) = k /\ q[k] = p[k] /\ A!Front(q) = SubSeq(p, 1, k - 1)
  BY PrefixOf
<1>2. A!Front(q) = SubSeq(q, 1, k - 1)
  BY <1>1 DEF A!Front
<1> HIDE DEF q
<1>3. Len(q) = Len(e.dir) + 1 /\ SubSeq(q, 1, Len(e.dir)) = e.dir /\ q[Len(e.dir) + 1] = e.name /\ Len(e.dir) \in Nat
  BY PathOf DEF q, IsEntry
<1>4. Len(e.dir) = k - 1
  BY <1>1, <1>3
<1> QED BY <1>1, <1>2, <1>3, <1>4

\* No link is on the way to a path that the disk spells out; at its end there is none either
\* if no link is found there.
LEMMA LinkIsSeen ==
    ASSUME AccessAssumption, NEW e \in StartTree, ~A!HasLink(StartTree, A!Path(e))
    PROVE  e.kind # "link"
<1> DEFINE p == A!Path(e)  n == Len(p)  d == e.dir
<1>1. Disk(StartTree) /\ IsEntry(e)
  BY StartsAsDisk DEF Disk
<1>2. p \in Seq(STRING) /\ n \in 1 .. n /\ n = Len(d) + 1 /\ p[n] = e.name /\ d = SubSeq(p, 1, n - 1) /\ d \in Seq(STRING)
      /\ n \in Nat /\ Len(d) \in Nat
  <2>1. Len(d) \in Nat /\ d \in Seq(STRING)
    BY <1>1 DEF IsEntry
  <2>2. p \in Seq(STRING) /\ n = Len(d) + 1 /\ p[n] = e.name /\ SubSeq(p, 1, Len(d)) = d
    BY <1>1, PathOf
  <2>3. n \in Nat /\ Len(d) = n - 1 /\ n \in 1 .. n
    <3> HIDE DEF p, d
    <3> QED BY <2>1, <2>2
  <2> QED BY <2>1, <2>2, <2>3
<1>3. Spelled(StartTree, d, d)
  <2> SUFFICES ASSUME NEW k \in 1 .. Len(d)
               PROVE  \E f \in StartTree : LeadsOn(f, d, k, d[k]) /\ f.kind # "link"
    BY DEF Spelled
  <2>1. k \in 1 .. n /\ k < n
    <3> HIDE DEF d, n, p
    <3> QED BY <1>2
  <2>2. PICK f \in StartTree : A!Path(f) = SubSeq(p, 1, k) /\ f.kind = "dir"
    BY <2>1, Ancestors
  <2>3. f.dir = SubSeq(p, 1, k - 1) /\ f.name = p[k]
    <3> HIDE DEF p, d
    <3> QED BY <1>1, <1>2, <2>1, <2>2, PathParts DEF Disk, n
  <2>4. \A i \in 1 .. Len(d) : d[i] = p[i]
    BY <1>1, PathOf
  <2>5. SubSeq(d, 1, k - 1) = SubSeq(p, 1, k - 1)
    <3> HIDE DEF p, d
    <3>1. k - 1 \in Nat /\ k - 1 <= Len(d) /\ k - 1 <= Len(p) /\ \A i \in 1 .. k - 1 : d[i] = p[i]
      BY <1>2, <2>1, <2>4 DEF n
    <3> QED BY <1>2, <3>1, SamePrefix
  <2> QED BY <2>2, <2>3, <2>4, <2>5 DEF LeadsOn
<1>4. A!Canonical(StartTree, SubSeq(p, 1, n - 1)) = d /\ d # Nothing
  BY <1>1, <1>2, <1>3, SpelledIsCanonical DEF AccessAssumption
<1> HIDE DEF p, d
<1>5. e.kind = "link" => A!HasLink(StartTree, p)
  BY <1>2, <1>4 DEF A!HasLink, d, n
<1> QED BY <1>5 DEF p

LEMMA EligibleIsReachable ==
    ASSUME AccessAssumption, AskInv, goal \in Seq(STRING), NEW p \in A!Eligible
    PROVE  Reachable(StartTree, p)
<1>1. PICK e \in StartTree :
          /\ p = A!Path(e) /\ A!Within(p, goal) /\ p # goal /\ Len(p) <= Len(goal) + asked.depth
          /\ ~A!HasLink(StartTree, p) /\ ~A!ManyNames(StartTree, p)
          /\ \A k \in Len(goal) + 1 .. Len(p) : ~A!Sensitive(SubSeq(p, 1, k))
          /\ asked.action # "filesystem.list" => e.kind = "file"
  BY DEF A!Eligible
<1>2. Disk(StartTree) /\ IsEntry(e) /\ p \in Seq(STRING)
  BY <1>1, StartsAsDisk, PathOf DEF Disk
<1>3. Len(goal) < Len(p) /\ Len(goal) \in Nat /\ Len(p) \in Nat
  BY <1>1, <1>2, WithinIsPrefix
<1>4. ASSUME NEW k \in Len(goal) + 1 .. Len(p)
      PROVE  \E d \in StartTree : /\ A!Path(d) = SubSeq(p, 1, k) /\ d.dir = SubSeq(p, 1, k - 1)
                                  /\ Passable(StartTree, d)
                                  /\ k < Len(p) => d.kind = "dir"
                                  /\ k = Len(p) /\ asked.action # "filesystem.list" => d.kind = "file"
  <2>1. k \in 1 .. Len(p)
    BY <1>3
  <2>2. PICK d \in StartTree : A!Path(d) = SubSeq(p, 1, k) /\ (k < Len(p) => d.kind = "dir")
    BY <1>1, <2>1, Ancestors
  <2>3. d.dir = SubSeq(p, 1, k - 1)
    BY <1>2, <2>1, <2>2, PathParts DEF Disk
  <2>4. ~A!Sensitive(A!Path(d))
    BY <1>1, <2>2
  <2>5. CASE k < Len(p)
    <3>1. \A f \in StartTree : A!Path(f) = A!Path(d) => f = d
      BY <1>2, PathsDiffer
    <3>2. ~A!ManyNames(StartTree, A!Path(d))
      BY <2>2, <2>5, <3>1 DEF A!ManyNames, A!IsFile
    <3>3. k # Len(p)
      BY <1>3, <2>1, <2>5
    <3>4. Passable(StartTree, d)
      BY <2>2, <2>4, <2>5, <3>2 DEF Passable
    <3> QED BY <2>2, <2>3, <3>3, <3>4
  <2>6. CASE k = Len(p)
    <3>1. SubSeq(p, 1, k) = p
      BY <1>2, <2>6
    <3>2. d = e
      BY <1>1, <1>2, <2>2, <3>1, PathsDiffer
    <3>3. e.kind # "link"
      BY <1>1, LinkIsSeen
    <3> QED BY <1>1, <2>2, <2>3, <2>4, <2>6, <3>1, <3>2, <3>3 DEF Passable
  <2> QED BY <1>3, <2>1, <2>5, <2>6
<1> QED BY <1>1, <1>2, <1>3, <1>4 DEF Reachable, OnTheWay

\* ... and stays so.
LEMMA ReachableKeeps ==
    ASSUME NEW t, NEW u, Disk(t), Disk(u), Kept(t, u), NEW p, Reachable(t, p)
    PROVE  Reachable(u, p)
<1>1. ASSUME NEW e \in t, NEW f \in u, SameEntry(e, f), Passable(t, e) PROVE Passable(u, f) /\ A!Path(f) = A!Path(e)
  <2>1. A!Path(f) = A!Path(e) /\ f.kind = e.kind /\ f.links = e.links
    BY <1>1 DEF SameEntry, A!Path
  <2>2. A!At(t, A!Path(e)) = e
    <3>1. \A x \in t : A!Path(x) = A!Path(e) => x = e
      BY PathsDiffer
    <3> QED BY <3>1 DEF A!At
  <2>3. \A x \in u : A!Path(x) = A!Path(f) => x = f
    BY PathsDiffer
  <2>4. A!At(u, A!Path(f)) = f
    BY <2>3 DEF A!At
  <2>5. ~A!ManyNames(u, A!Path(f))
    BY <1>1, <2>1, <2>2, <2>3, <2>4 DEF Passable, A!ManyNames, A!IsFile
  <2> QED BY <1>1, <2>1, <2>5 DEF Passable
<1>2. OnTheWay(u, p)
  <2> SUFFICES ASSUME NEW k \in Len(goal) + 1 .. Len(p)
               PROVE  \E e \in u : /\ A!Path(e) = SubSeq(p, 1, k) /\ e.dir = SubSeq(p, 1, k - 1) /\ Passable(u, e)
                                   /\ k < Len(p) => e.kind = "dir"
                                   /\ k = Len(p) /\ asked.action # "filesystem.list" => e.kind = "file"
    BY DEF OnTheWay
  <2>1. PICK e \in t : /\ A!Path(e) = SubSeq(p, 1, k) /\ e.dir = SubSeq(p, 1, k - 1) /\ Passable(t, e)
                       /\ k < Len(p) => e.kind = "dir"
                       /\ k = Len(p) /\ asked.action # "filesystem.list" => e.kind = "file"
    BY DEF Reachable, OnTheWay
  <2>2. PICK f \in u : SameEntry(e, f)
    BY DEF Kept
  <2> QED BY <1>1, <2>1, <2>2 DEF SameEntry
<1> QED BY <1>2 DEF Reachable

-----------------------------------------------------------------------------
(* The steps of a walk.                                                    *)

Eligibly == goal' = goal /\ asked' = asked

LEMMA EligibleStays ==
    ASSUME Eligibly PROVE A!Eligible' = A!Eligible /\ (Listing' <=> Listing)
BY DEF Eligibly, A!Eligible, Listing

\* A request that is answered without a result, or that is for something else.
LEMMA NoWalk ==
    ASSUME ~Listing' \/ phase' = "done", answer'.status # "ok",
           asked'.action # "filesystem.write" => Kept(StartTree, tree')
    PROVE  WalkInv'
BY DEF WalkInv, WalkIsComplete, A!WalkIsComplete, Listing

LEMMA NoWalkNow ==
    ASSUME WalkInv, phase # "done", UNCHANGED <<tree, asked>>,
           \/ \E s : s # "ok" /\ (A!Fail(s) \/ A!Answered(s))
           \/ ~Listing /\ UNCHANGED answer
    PROVE  WalkInv'
<1>1. asked'.action # "filesystem.write" => Kept(StartTree, tree')
  BY DEF WalkInv
<1>2. CASE \E s : s # "ok" /\ (A!Fail(s) \/ A!Answered(s))
  <2>1. phase' = "done" /\ answer'.status # "ok"
    BY <1>2 DEF A!Fail, A!Answered, A!Unanswered
  <2> QED BY <1>1, <2>1, NoWalk
<1>3. CASE ~Listing /\ UNCHANGED answer
  <2>1. ~Listing' /\ answer'.status # "ok"
    BY <1>3 DEF Listing, WalkInv
  <2> QED BY <1>1, <2>1, NoWalk
<1> QED BY <1>2, <1>3

\* Nothing of a walk changes.
LEMMA WalkStays ==
    ASSUME WalkInv, UNCHANGED <<asked, phase, goal, pending, entries, out, answer>>,
           asked.action # "filesystem.write" => Kept(StartTree, tree')
    PROVE  WalkInv'
<1>1. A!Eligible' = A!Eligible /\ (Listing' <=> Listing)
  BY EligibleStays DEF Eligibly
<1>2. (Deep' <=> Deep) /\ (Levels' <=> Levels) /\ (Brought' <=> Brought)
  BY <1>1 DEF Deep, Levels, Brought
<1>3. \A p : Waits(p)' <=> Waits(p)
  BY DEF Waits
<1>4. Walking' <=> Walking
  BY <1>1, <1>2, <1>3 DEF Walking
<1>5. WalkIsComplete' <=> WalkIsComplete
  BY <1>1 DEF WalkIsComplete, A!WalkIsComplete
<1> QED BY <1>1, <1>2, <1>4, <1>5 DEF WalkInv

\* A request for a list or for files goes on before its walk.
LEMMA NotYetWalking ==
    ASSUME WalkInv, UNCHANGED <<tree, asked, out, answer>>, Listing, out = {},
           phase # "done", phase' \in {"resolve", "explore"}
    PROVE  WalkInv'
BY DEF WalkInv, WalkIsComplete, A!WalkIsComplete, Listing

LEMMA AuthorizeWalk ==
    ASSUME WalkInv, A!Authorize
    PROVE  WalkInv'
<1>1. UNCHANGED <<tree, asked, out>> /\ phase = "authorize"
  BY DEF A!Authorize, A!Worker
<1>2. CASE phase' = "resolve" /\ UNCHANGED answer
  <2>1. Listing => out = {}
    BY <1>1 DEF WalkInv
  <2>2. CASE Listing
    BY <1>1, <1>2, <2>1, <2>2, NotYetWalking
  <2>3. CASE ~Listing
    BY <1>1, <1>2, <2>3, NoWalkNow
  <2> QED BY <2>2, <2>3
<1>3. CASE \E s : s # "ok" /\ A!Answered(s)
  BY <1>1, <1>3, NoWalkNow
<1> QED BY <1>2, <1>3 DEF A!Authorize

\* What is not for a walk.
LEMMA OtherWalk ==
    ASSUME WalkInv, SizeInv,
           A!Prepare \/ A!PrepareAgain \/ A!ResolveWrite \/ A!Stat \/ A!ReadBytes
    PROVE  WalkInv'
<1>1. UNCHANGED <<tree, asked>> /\ phase # "done"
  BY DEF A!Prepare, A!PrepareAgain, A!ResolveWrite, A!Stat, A!ReadBytes, A!Outside, A!Worker
<1>2. ~Listing
  BY DEF A!Prepare, A!PrepareAgain, A!ResolveWrite, A!Stat, A!ReadBytes, Listing, SizeInv, A!ApprovedActions
<1>3. UNCHANGED answer \/ \E s : s # "ok" /\ (A!Fail(s) \/ A!Answered(s))
  BY DEF A!Prepare, A!PrepareAgain, A!Route, A!ResolveWrite, A!Stat, A!ReadBytes
<1> QED BY <1>1, <1>2, <1>3, NoWalkNow

LEMMA WriteWalk ==
    ASSUME WalkInv, SizeInv, AskInv, A!ReadEdit \/ A!Write
    PROVE  WalkInv'
<1>1. asked.action = "filesystem.write" /\ phase # "done" /\ "action" \in DOMAIN asked
  BY DEF A!ReadEdit, A!Write, SizeInv, AskInv
<1>2. asked'.action = "filesystem.write"
  BY <1>1 DEF A!ReadEdit, A!Write
<1>3. answer'.status # "ok"
  BY <1>1 DEF A!ReadEdit, A!Write, A!Fail, A!Answered, A!Unanswered, WalkInv
<1> QED BY <1>2, <1>3, NoWalk DEF Listing

LEMMA ResolveWalk ==
    ASSUME WalkInv, SizeInv, A!Resolve
    PROVE  WalkInv'
<1>1. UNCHANGED <<tree, asked, out>> /\ phase = "resolve"
  BY DEF A!Resolve, A!Outside
<1>2. \/ \E s : s # "ok" /\ A!Fail(s)
      \/ UNCHANGED answer /\ (phase' = "explore" \/ asked.action = "filesystem.read")
  BY DEF A!Resolve
<1>3. CASE ~Listing
  BY <1>1, <1>2, <1>3, NoWalkNow
<1>4. CASE \E s : s # "ok" /\ A!Fail(s)
  BY <1>1, <1>4, NoWalkNow
<1>5. CASE Listing /\ UNCHANGED answer /\ phase' = "explore"
  <2>1. out = {}
    BY <1>1, <1>5 DEF WalkInv
  <2> QED BY <1>1, <1>5, <2>1, NotYetWalking
<1> QED BY <1>2, <1>3, <1>4, <1>5 DEF Listing

LEMMA ExploreWalk ==
    ASSUME AccessAssumption, AccessInv, WalkInv, A!Explore
    PROVE  WalkInv'
<1>1. UNCHANGED <<tree, asked, goal, entries>> /\ phase = "explore" /\ entries = {}
  BY DEF A!Explore, A!Outside, AccessInv, PhaseInv
<1>2. CASE \E s : s # "ok" /\ A!Fail(s)
  BY <1>1, <1>2, NoWalkNow
<1>3. CASE ~Listing /\ UNCHANGED answer
  BY <1>1, <1>3, NoWalkNow
<1>4. CASE /\ Listing /\ UNCHANGED <<out, answer>> /\ phase' = "walk"
           /\ pending' = <<[dir |-> goal, level |-> 0]>>
  <2>1. out = {} /\ Cardinality({}) = 0 /\ answer.status # "ok" /\ (asked.action # "filesystem.write" => Kept(StartTree, tree))
    BY <1>1, <1>4, FS_EmptySet DEF WalkInv
  <2>2. goal \in Seq(STRING) /\ asked.max \in Nat \ {0}
    BY <1>1 DEF AccessInv, AskInv, PhaseInv, Shown, Safe
  <2>3. A!Eligible' = A!Eligible
    BY <1>1, EligibleStays DEF Eligibly
  <2>4. Len(pending') = 1 /\ pending'[1] = [dir |-> goal, level |-> 0] /\ entries' = {}
    BY <1>1, <1>4
  <2>5. Levels'
    BY <1>1, <2>2, <2>4 DEF Levels
  <2>6. ASSUME NEW p \in A!Eligible PROVE Waits(p)'
    <3>1. A!Within(p, goal) /\ Len(goal) < Len(p)
      BY <2>2, EligibleIsReachable DEF Reachable, AccessInv
    <3> QED BY <1>1, <2>4, <3>1 DEF Waits
  <2>7. Walking'
    BY <1>1, <1>4, <2>1, <2>2, <2>3, <2>5, <2>6 DEF Walking
  <2>8. Deep' /\ WalkIsComplete'
    BY <1>4, <2>1 DEF Deep, WalkIsComplete, A!WalkIsComplete
  <2> QED BY <1>1, <1>4, <2>1, <2>7, <2>8 DEF WalkInv
<1> QED BY <1>2, <1>3, <1>4 DEF A!Explore, Listing

LEMMA AnswerWalk ==
    ASSUME WalkInv, A!Answer
    PROVE  WalkInv'
<1>1. UNCHANGED <<tree, asked, goal, out>> /\ phase = "record"
  BY DEF A!Answer, A!Worker
<1>2. CASE A!Answered("output_too_large")
  BY <1>1, <1>2, NoWalkNow
<1>3. CASE phase' = "done" /\ answer'.paths = out
  <2>1. A!Eligible' = A!Eligible /\ (Listing' <=> Listing)
    BY <1>1, EligibleStays DEF Eligibly
  <2>2. Listing => Deep /\ Brought
    BY <1>1 DEF WalkInv
  <2>3. WalkIsComplete'
    BY <1>1, <1>3, <2>1, <2>2, OneCardinality DEF WalkIsComplete, A!WalkIsComplete, Deep, Brought, Listing
  <2> QED BY <1>1, <1>3, <2>3 DEF WalkInv
<1> QED BY <1>2, <1>3 DEF A!Answer

\* An eligible path has its directory, and its entry, on the disk.
LEMMA EligibleIsThere ==
    ASSUME AccessAssumption, AccessInv, WalkInv, asked.action # "filesystem.write", goal \in Seq(STRING),
           NEW p \in A!Eligible
    PROVE  Reachable(tree, p)
<1>1. Kept(StartTree, tree) /\ Disk(StartTree) /\ Disk(tree) /\ AskInv
  BY StartsAsDisk DEF WalkInv, AccessInv
<1> QED BY <1>1, EligibleIsReachable, ReachableKeeps

LEMMA WalkDirectoryWalk ==
    ASSUME AccessAssumption, SizeInv, AccessInv, WalkInv, A!WalkDirectory
    PROVE  WalkInv'
<1>1. UNCHANGED <<tree, asked, goal, out, answer>> /\ phase = "walk" /\ entries = {}
  BY DEF A!WalkDirectory
<1>2. CASE ~Listing
  BY <1>1, <1>2, NoWalkNow
<1>3. CASE Listing
  <2>1. /\ Walking /\ Deep /\ Visits /\ asked.action # "filesystem.write" /\ Kept(StartTree, tree)
        /\ answer.status # "ok" /\ goal \in Seq(STRING) /\ asked.depth \in Nat
    BY <1>1, <1>3 DEF WalkInv, AccessInv, PhaseInv, AskInv, Listing, Visits
  <2>2. A!Eligible' = A!Eligible /\ (Listing' <=> Listing)
    BY <1>1, EligibleStays DEF Eligibly
  <2>3. Deep' /\ WalkIsComplete'
    BY <1>1, <2>1 DEF Deep, WalkIsComplete, A!WalkIsComplete
  <2>4. CASE pending = << >>
    <3>1. \A p : ~Waits(p)
      BY <1>1, <2>4 DEF Waits
    <3>2. Brought'
      <4>1. Cardinality(out) \in Nat /\ asked.max \in Nat
        BY FS_CardinalityType DEF SizeInv, AccessInv, AskInv
      <4> QED BY <1>1, <2>1, <2>2, <3>1, <4>1 DEF Walking, Brought
    <3>3. phase' = "record"
      BY <2>4 DEF A!WalkDirectory
    <3> QED BY <1>1, <2>1, <2>3, <3>2, <3>3 DEF WalkInv
  <2>5. CASE pending # << >>
    <3> DEFINE n == Len(pending)  c == pending[n]  S == [dir : Seq(STRING), level : Nat]
    <3>1. /\ n \in 1 .. n /\ c \in S /\ A!Front(pending) \in Seq(S) /\ Len(A!Front(pending)) = n - 1
          /\ \A i \in 1 .. Len(A!Front(pending)) : i \in 1 .. n /\ A!Front(pending)[i] = pending[i]
      <4>1. pending \in Seq(S)
        BY <2>1 DEF Visits
      <4> HIDE DEF S
      <4> QED BY <2>5, <4>1, FrontOf
    <3>2. c.dir \in Seq(STRING) /\ c.level \in Nat /\ Len(c.dir) = Len(goal) + c.level /\ A!Within(c.dir, goal)
      BY <2>1, <3>1 DEF Walking, Levels, Visits
    <3>3. /\ pending' = A!Front(pending) /\ phase' = "walk"
          /\ entries' = IF c.level >= asked.depth THEN {}
                        ELSE {[e |-> e, level |-> c.level] : e \in {x \in tree : x.dir = c.dir}}
      BY <1>1, <2>5 DEF A!WalkDirectory, A!Current
    <3>n. n \in Nat
      BY <3>1
    <3> HIDE DEF c, n, S
    <3>4. Levels'
      <4>1. \A x \in entries' : x.e.dir = c.dir /\ x.level = c.level /\ ~(c.level >= asked.depth)
        BY <3>3
      <4>2. \A x \in entries' : Len(x.e.dir) = Len(goal) + x.level /\ x.level < asked.depth
        BY <2>1, <3>2, <4>1
      <4>3. \A i \in 1 .. Len(pending') : Len(pending'[i].dir) = Len(goal) + pending'[i].level
        BY <2>1, <3>1, <3>3 DEF Walking, Levels, n
      <4> QED BY <1>1, <4>2, <4>3 DEF Levels
    <3>5. ASSUME NEW p \in A!Eligible, p \notin out PROVE Waits(p)'
      <4>1. PICK i \in 1 .. n : A!Within(p, pending[i].dir) /\ Len(pending[i].dir) < Len(p)
        BY <1>1, <2>1, <3>5 DEF Walking, Waits, n
      <4>2. CASE i # n
        <5>1. i \in 1 .. Len(pending') /\ pending'[i] = pending[i]
          <6>1. i \in 1 .. n - 1
            BY <3>n, <4>1, <4>2
          <6> QED BY <3>1, <3>3, <6>1
        <5> QED BY <4>1, <5>1 DEF Waits
      <4>3. CASE i = n
        <5>1. A!Within(p, c.dir) /\ Len(c.dir) < Len(p)
          BY <4>1, <4>3 DEF c
        <5>2. Reachable(tree, p)
          BY <2>1, EligibleIsThere
        <5>3. p \in Seq(STRING) /\ c.dir = SubSeq(p, 1, Len(c.dir)) /\ Len(p) \in Nat /\ Len(c.dir) \in Nat
              /\ Len(p) <= Len(goal) + asked.depth /\ Len(goal) \in Nat
          BY <2>1, <3>2, <5>1, <5>2, WithinIsPrefix DEF Reachable
        <5> DEFINE k == Len(c.dir) + 1
        <5>4. k \in Len(goal) + 1 .. Len(p) /\ k - 1 = Len(c.dir) /\ k \in 0 .. Len(p)
          BY <3>2, <5>1, <5>3
        <5>5. ~(c.level >= asked.depth)
          BY <2>1, <3>2, <5>1, <5>3
        <5> HIDE DEF k
        <5>6. PICK e \in tree : A!Path(e) = SubSeq(p, 1, k) /\ e.dir = SubSeq(p, 1, k - 1)
          BY <5>2, <5>4 DEF Reachable, OnTheWay
        <5>7. [e |-> e, level |-> c.level] \in entries'
          BY <3>3, <5>3, <5>4, <5>5, <5>6
        <5>8. A!Within(p, A!Path(e))
          BY <5>3, <5>4, <5>6, PrefixIsWithin
        <5>9. \E x \in entries' : A!Within(p, A!Path(x.e))
          BY <5>7, <5>8
        <5> QED BY <5>9 DEF Waits
      <4> QED BY <4>2, <4>3
    <3>6. Walking'
      BY <1>1, <2>1, <2>2, <3>4, <3>5 DEF Walking
    <3> QED BY <1>1, <2>1, <2>3, <3>3, <3>6 DEF WalkInv
  <2> QED BY <2>4, <2>5
<1> QED BY <1>2, <1>3

\* The entry on the way to an eligible path is not passed over.
LEMMA EntryOnTheWay ==
    ASSUME AccessAssumption, AccessInv, WalkInv, Listing, phase = "walk", Visits, Levels,
           NEW x \in entries, NEW p \in A!Eligible, A!Within(p, A!Path(x.e))
    PROVE  /\ x.e.kind # "link" /\ ~A!Sensitive(A!Path(x.e)) /\ ~A!ManyNames(tree, A!Path(x.e))
           /\ \/ p = A!Path(x.e) /\ p \in A!Visited(x.e)
              \/ Len(A!Path(x.e)) < Len(p) /\ x.e.kind = "dir"
<1> DEFINE path == A!Path(x.e)
<1>1. /\ goal \in Seq(STRING) /\ IsEntry(x.e) /\ Disk(tree) /\ x.level \in Nat
      /\ Len(x.e.dir) = Len(goal) + x.level /\ asked.action # "filesystem.write"
  BY DEF Visits, Levels, AccessInv, Listing
<1>2. Reachable(tree, p)
  BY <1>1, EligibleIsThere
<1>3. path \in Seq(STRING) /\ Len(path) = Len(x.e.dir) + 1 /\ p \in Seq(STRING)
  BY <1>1, <1>2, PathOf DEF Reachable
<1> DEFINE k == Len(path)
<1>4. path = SubSeq(p, 1, k) /\ k \in 0 .. Len(p) /\ (k < Len(p) \/ path = p)
  <2> HIDE DEF path
  <2> QED BY <1>3, WithinIsPrefix DEF path
<1>5. k \in Len(goal) + 1 .. Len(p) /\ (k < Len(p) \/ k = Len(p))
  <2>1. Len(goal) \in Nat /\ Len(p) \in Nat
    BY <1>1, <1>3
  <2> HIDE DEF path
  <2> QED BY <1>1, <1>3, <1>4, <2>1
<1> HIDE DEF k
<1>6. PICK e \in tree : /\ A!Path(e) = path /\ Passable(tree, e)
                        /\ k < Len(p) => e.kind = "dir"
                        /\ k = Len(p) /\ asked.action # "filesystem.list" => e.kind = "file"
  BY <1>2, <1>4, <1>5 DEF Reachable, OnTheWay
<1>7. x.e.kind = e.kind
  <2>1. PICK y \in tree : SameEntry(x.e, y)
    BY DEF Visits
  <2>2. A!Path(y) = path
    BY <2>1 DEF SameEntry, A!Path
  <2>3. y = e
    BY <1>1, <1>6, <2>2, PathsDiffer
  <2> QED BY <2>1, <2>3 DEF SameEntry
<1>8. x.e.kind # "link" /\ ~A!Sensitive(path) /\ ~A!ManyNames(tree, path)
  BY <1>6, <1>7 DEF Passable
<1>9. CASE k < Len(p)
  BY <1>6, <1>7, <1>8, <1>9 DEF k
<1>10. CASE k = Len(p)
  <2>1. path = p
    BY <1>3, <1>4, <1>10
  <2>2. p \in A!Visited(x.e)
    BY <1>6, <1>7, <1>10, <2>1 DEF A!Visited, Listing
  <2> QED BY <1>8, <2>1, <2>2
<1> QED BY <1>5, <1>9, <1>10

LEMMA WalkEntryWalk ==
    ASSUME AccessAssumption, SizeInv, AccessInv, WalkInv, A!WalkEntry
    PROVE  WalkInv'
<1>1. UNCHANGED <<tree, asked, goal>> /\ phase = "walk"
  BY DEF A!WalkEntry, A!Outside
<1> DEFINE Path(x) == A!Path(x.e)
           Skip(x) == x.e.kind = "link" \/ A!Sensitive(Path(x)) \/ A!ManyNames(tree, Path(x))
           Found(x) == IF Skip(x) THEN {} ELSE A!Visited(x.e)
           Enough(x) == ~Skip(x) /\ Cardinality(out \cup Found(x)) >= asked.max
<1>2. CASE \E s : s # "ok" /\ A!Fail(s)
  BY <1>1, <1>2, NoWalkNow
<1>3. CASE ~Listing /\ UNCHANGED answer
  BY <1>1, <1>3, NoWalkNow
<1>4. ASSUME Listing, UNCHANGED answer, NEW x \in entries,
             out' = out \cup Found(x),
             \/ Enough(x) /\ entries' = {} /\ pending' = << >> /\ phase' = "record"
             \/ /\ ~Enough(x) /\ entries' = entries \ {x} /\ UNCHANGED phase
                /\ pending' = IF ~Skip(x) /\ x.e.kind = "dir"
                              THEN Append(pending, [dir |-> Path(x), level |-> x.level + 1])
                              ELSE pending
      PROVE  WalkInv'
  <2>1. /\ Walking /\ Deep /\ Visits /\ asked.action # "filesystem.write" /\ Kept(StartTree, tree)
        /\ answer.status # "ok" /\ goal \in Seq(STRING) /\ asked.depth \in Nat /\ asked.max \in Nat
        /\ IsFiniteSet(out) /\ Levels
    BY <1>1, <1>4 DEF WalkInv, AccessInv, PhaseInv, AskInv, Listing, Visits, SizeInv, Walking
  <2>2. A!Eligible' = A!Eligible /\ (Listing' <=> Listing)
    BY <1>1, EligibleStays DEF Eligibly
  <2>3. /\ Path(x) \in Seq(STRING) /\ Len(Path(x)) = Len(goal) + x.level + 1 /\ x.level \in Nat
        /\ x.level < asked.depth
    <3>1. IsEntry(x.e) /\ x.level \in Nat /\ Len(x.e.dir) = Len(goal) + x.level /\ x.level < asked.depth
      BY <2>1 DEF Visits, Levels
    <3> QED BY <3>1, PathOf
  <2>4. A!Visited(x.e) \subseteq {Path(x)}
    BY <1>4 DEF A!Visited, Listing
  <2>5. ASSUME NEW p \in A!Eligible, A!Within(p, Path(x))
        PROVE  /\ ~Skip(x)
               /\ \/ p = Path(x) /\ p \in A!Visited(x.e)
                  \/ Len(Path(x)) < Len(p) /\ x.e.kind = "dir"
    BY <1>1, <1>4, <2>1, <2>5, EntryOnTheWay
  <2> HIDE DEF Path
  <2>6. Found(x) \subseteq {Path(x)} /\ (Skip(x) => Found(x) = {}) /\ (~Skip(x) => Found(x) = A!Visited(x.e))
    BY <2>4
  <2> HIDE DEF Skip, Found
  <2>7. Deep'
    <3>1. Len(Path(x)) <= Len(goal) + asked.depth
      <4>1. Len(goal) \in Nat
        BY <2>1
      <4> QED BY <2>1, <2>3, <4>1
    <3> QED BY <1>1, <1>4, <2>1, <2>6, <3>1 DEF Deep
  <2>8. WalkIsComplete'
    BY <1>4, <2>1 DEF WalkIsComplete, A!WalkIsComplete
  <2>9. CASE Enough(x)
    <3>1. Cardinality(out') <= asked.max
      <4>1. IsFiniteSet(out \cup {Path(x)}) /\ Cardinality(out \cup {Path(x)}) <= Cardinality(out) + 1
            /\ Cardinality(out) \in Nat /\ Cardinality(out \cup {Path(x)}) \in Nat
        <5>1. Cardinality(out) \in Nat
          BY <2>1, FS_CardinalityType
        <5>2. IsFiniteSet(out \cup {Path(x)})
              /\ Cardinality(out \cup {Path(x)}) = IF Path(x) \in out THEN Cardinality(out) ELSE Cardinality(out) + 1
          BY <2>1, FS_AddElement
        <5>3. Cardinality(out \cup {Path(x)}) \in {Cardinality(out), Cardinality(out) + 1}
          BY <5>2
        <5> QED BY <5>1, <5>2, <5>3
      <4>2. out' \subseteq out \cup {Path(x)}
        BY <1>4, <2>6
      <4>3. Cardinality(out') <= Cardinality(out \cup {Path(x)}) /\ Cardinality(out') \in Nat
        BY <4>1, <4>2, FS_Subset, FS_CardinalityType
      <4>4. Cardinality(out) < asked.max
        BY <2>1 DEF Walking
      <4> QED BY <2>1, <4>1, <4>3, <4>4
    <3>2. ~(Cardinality(out') < asked.max)
      <4>1. Cardinality(out') >= asked.max
        BY <1>4, <2>9
      <4>2. IsFiniteSet(out')
        BY <1>4, <2>1, <2>6, FS_Union, FS_Subset, FS_Singleton
      <4>3. Cardinality(out') \in Nat
        BY <4>2, FS_CardinalityType
      <4> QED BY <2>1, <4>1, <4>3
    <3>3. Brought' /\ phase' = "record"
      BY <1>1, <1>4, <2>9, <3>1, <3>2 DEF Brought
    <3> QED BY <1>1, <1>4, <2>1, <2>7, <2>8, <3>3 DEF WalkInv
  <2>10. CASE ~Enough(x)
    <3>1. Cardinality(out') < asked.max
      <4>1. CASE Skip(x)
        <5>1. out' = out
          BY <1>4, <2>6, <4>1
        <5> QED BY <2>1, <5>1 DEF Walking
      <4>2. CASE ~Skip(x)
        <5>1. ~(Cardinality(out') >= asked.max)
          BY <1>4, <2>10, <4>2
        <5>2. IsFiniteSet(out')
          BY <1>4, <2>1, <2>6, FS_Union, FS_Subset, FS_Singleton
        <5>3. Cardinality(out') \in Nat
          BY <5>2, FS_CardinalityType
        <5> QED BY <2>1, <5>1, <5>3
      <4> QED BY <4>1, <4>2
    <3> DEFINE new == [dir |-> Path(x), level |-> x.level + 1]  S == [dir : Seq(STRING), level : Nat]
    <3>2. /\ entries' = entries \ {x} /\ phase' = "walk"
          /\ pending' = IF ~Skip(x) /\ x.e.kind = "dir" THEN Append(pending, new) ELSE pending
      BY <1>1, <1>4, <2>10
    <3>3. new \in S /\ new.dir = Path(x) /\ Len(new.dir) = Len(goal) + new.level /\ pending \in Seq(S)
      <4>1. Len(goal) \in Nat /\ pending \in Seq(S)
        BY <2>1 DEF Visits
      <4>2. new.dir = Path(x) /\ new.level = x.level + 1 /\ new \in S
        BY <2>3
      <4> HIDE DEF new, S
      <4> QED BY <2>3, <4>1, <4>2
    <3> HIDE DEF new, S, Enough
    <3>4. /\ \A i \in 1 .. Len(pending') : (i \in 1 .. Len(pending) /\ pending'[i] = pending[i]) \/ pending'[i] = new
          /\ \A i \in 1 .. Len(pending) : i \in 1 .. Len(pending') /\ pending'[i] = pending[i]
          /\ ~Skip(x) /\ x.e.kind = "dir" => \E i \in 1 .. Len(pending') : pending'[i] = new
      <4>1. CASE ~Skip(x) /\ x.e.kind = "dir"
        <5>1. pending' = Append(pending, new)
          BY <3>2, <4>1
        <5>2. \A i \in 1 .. Len(pending') : (i \in 1 .. Len(pending) /\ pending'[i] = pending[i]) \/ pending'[i] = new
          BY <3>3, <5>1, Appended
        <5>3. Len(pending') = Len(pending) + 1 /\ Len(pending) \in Nat
          BY <3>3, <5>1, Appended
        <5>4. (\A i \in 1 .. Len(pending) : pending'[i] = pending[i]) /\ pending'[Len(pending) + 1] = new
          BY <3>3, <5>1
        <5>5. \A i \in 1 .. Len(pending) : i \in 1 .. Len(pending')
          BY <5>3
        <5>6. Len(pending) + 1 \in 1 .. Len(pending')
          BY <5>3
        <5> QED BY <5>2, <5>4, <5>5, <5>6
      <4>2. CASE ~(~Skip(x) /\ x.e.kind = "dir")
        BY <3>2, <4>2
      <4> QED BY <4>1, <4>2
    <3>5. Levels'
      BY <1>1, <2>1, <3>2, <3>3, <3>4 DEF Levels
    <3>6. ASSUME NEW p \in A!Eligible, p \notin out' PROVE Waits(p)'
      <4>1. p \notin out /\ Waits(p)
        BY <1>4, <2>1, <3>6 DEF Walking
      <4>2. CASE \E i \in 1 .. Len(pending) : A!Within(p, pending[i].dir) /\ Len(pending[i].dir) < Len(p)
        BY <3>4, <4>2 DEF Waits
      <4>3. CASE \E y \in entries : y # x /\ A!Within(p, A!Path(y.e))
        BY <3>2, <4>3 DEF Waits
      <4>4. CASE A!Within(p, Path(x))
        <5>1. ~Skip(x) /\ Len(Path(x)) < Len(p) /\ x.e.kind = "dir"
          BY <1>4, <2>5, <2>6, <3>6, <4>4
        <5>2. PICK i \in 1 .. Len(pending') : pending'[i] = new
          BY <3>4, <5>1
        <5> QED BY <3>3, <4>4, <5>1, <5>2 DEF Waits
      <4> QED BY <4>1, <4>2, <4>3, <4>4 DEF Waits, Path
    <3>7. Walking'
      BY <1>1, <2>2, <3>1, <3>5, <3>6 DEF Walking
    <3>8. phase' = "walk" /\ answer' = answer
      BY <1>4, <3>2
    <3> QED BY <1>1, <2>1, <2>7, <2>8, <3>7, <3>8 DEF WalkInv
  <2> QED BY <2>9, <2>10
<1>5. \/ \E s : s # "ok" /\ A!Fail(s)
      \/ /\ UNCHANGED answer
         /\ \E x \in entries :
               /\ out' = out \cup Found(x)
               /\ \/ Enough(x) /\ entries' = {} /\ pending' = << >> /\ phase' = "record"
                  \/ /\ ~Enough(x) /\ entries' = entries \ {x} /\ UNCHANGED phase
                     /\ pending' = IF ~Skip(x) /\ x.e.kind = "dir"
                                   THEN Append(pending, [dir |-> Path(x), level |-> x.level + 1])
                                   ELSE pending
  <2>1. \A V : A!Cardinality(V) = Cardinality(V)
    BY OneCardinality
  <2> QED BY <2>1 DEF A!WalkEntry
<1> QED BY <1>2, <1>3, <1>4, <1>5

LEMMA KeptTwice == ASSUME NEW t, NEW u, NEW v, Kept(t, u), Kept(u, v) PROVE Kept(t, v)
<1>1. \A e, x, y : SameEntry(e, x) /\ SameEntry(x, y) => SameEntry(e, y)
  BY DEF SameEntry
<1> QED BY <1>1 DEF Kept

LEMMA WalkStep ==
    ASSUME AccessAssumption, SizeInv, AccessInv, WalkInv, A!Next
    PROVE  WalkInv'
<1>1. CASE A!Authorize
  BY <1>1, AuthorizeWalk
<1>2. CASE A!Prepare \/ A!PrepareAgain \/ A!ResolveWrite \/ A!Stat \/ A!ReadBytes
  BY <1>2, OtherWalk
<1>3. CASE A!ReadEdit \/ A!Write
  BY <1>3, WriteWalk DEF AccessInv
<1>4. CASE A!Answer
  BY <1>4, AnswerWalk
<1>5. CASE A!Resolve
  BY <1>5, ResolveWalk
<1>6. CASE A!Explore
  BY <1>6, ExploreWalk
<1>7. CASE A!WalkDirectory
  BY <1>7, WalkDirectoryWalk
<1>8. CASE A!WalkEntry
  BY <1>8, WalkEntryWalk
<1>9. CASE A!LogFails \/ A!SearchTimeout
  <2>1. UNCHANGED <<tree, asked>> /\ phase # "done"
    BY <1>9 DEF A!LogFails, A!SearchTimeout, A!Worker
  <2>2. \E s : s # "ok" /\ (A!Fail(s) \/ A!Answered(s))
    BY <1>9 DEF A!LogFails, A!SearchTimeout
  <2> QED BY <2>1, <2>2, NoWalkNow
<1>10. ASSUME Kept(tree, tree'), UNCHANGED <<asked, phase, goal, pending, entries, out, answer>>
       PROVE  WalkInv'
  <2>1. asked.action # "filesystem.write" => Kept(StartTree, tree')
    BY <1>10, KeptTwice DEF WalkInv
  <2> QED BY <1>10, <2>1, WalkStays
<1>11. ASSUME NEW e \in Creations, A!Create(e) PROVE WalkInv'
  BY <1>10, <1>11, CreateKeeps DEF A!Create, A!Worker, AccessInv
<1>12. ASSUME NEW e \in tree, A!Grow(e) PROVE WalkInv'
  BY <1>10, <1>12, GrowKeeps DEF A!Grow, A!Worker, AccessInv
<1> QED BY <1>1, <1>2, <1>3, <1>4, <1>5, <1>6, <1>7, <1>8, <1>9, <1>11, <1>12 DEF A!Next, A!Work

LEMMA WalkBeginning ==
    ASSUME A!Init
    PROVE  WalkInv
<1>1. phase = "authorize" /\ out = {} /\ answer.status = "none" /\ tree = StartTree
  BY DEF A!Init, A!Unanswered
<1>2. Kept(StartTree, tree)
  BY <1>1 DEF Kept, SameEntry
<1> QED BY <1>1, <1>2 DEF WalkInv, WalkIsComplete, A!WalkIsComplete

LEMMA WalkStands == ASSUME WalkInv, UNCHANGED access PROVE WalkInv'
<1>1. asked.action # "filesystem.write" => Kept(StartTree, tree')
  BY DEF access, WalkInv
<1> QED BY <1>1, WalkStays DEF access

\* A list, or a search for files, that is answered with less than was asked for leaves out
\* nothing that was there when the request came in and that no rule of the walk passes over;
\* it goes no deeper than was asked and brings no more, whatever other programs
\* put on the disk as it goes (walk_safe).
THEOREM WalksAreComplete ==
    ASSUME LengthsAssumption, AccessAssumption PROVE ServiceSpec => []WalkIsComplete
<1> DEFINE Inv == SizeInv /\ AccessInv /\ WalkInv
<1>1. ServiceInit => Inv
  BY SizeBeginning, AccessBeginning, WalkBeginning DEF ServiceInit
<1>2. Inv /\ [ServiceNext]_Service => Inv'
  <2> SUFFICES ASSUME Inv, [ServiceNext]_Service PROVE Inv'
    OBVIOUS
  <2>1. CASE A!Next
    BY <2>1, SizeStep, AccessStep, WalkStep
  <2>2. CASE UNCHANGED access
    BY <2>2, SizeStands, AccessStands, WalkStands
  <2> QED BY <2>1, <2>2 DEF ServiceNext, Service
<1>3. Inv => WalkIsComplete
  BY DEF WalkInv
<1> QED BY <1>1, <1>2, <1>3, PTL DEF ServiceSpec

-----------------------------------------------------------------------------
(* Edits.  First what goes through a sequence from its front, one element  *)
(* after the other.                                                        *)

\* What holds at first and from each number to the next holds for all.
LEMMA Climb ==
    ASSUME NEW n \in Nat, NEW H, 0 \in H, \A k \in 1 .. n : k - 1 \in H => k \in H
    PROVE  0 .. n \subseteq H /\ n \in H
<1> DEFINE B == {k \in 0 .. n : k \notin H}
<1>1. SUFFICES ASSUME B # {} PROVE FALSE
  OBVIOUS
<1>2. PICK k \in B : \A j \in B : k <= j
  <2>1. B \in SUBSET Nat
    OBVIOUS
  <2> HIDE DEF B
  <2> QED BY <1>1, <2>1, LeastNumber
<1>3. k \in 1 .. n /\ k - 1 \in 0 .. n /\ ~(k <= k - 1)
  OBVIOUS
<1>4. k - 1 \in H
  BY <1>2, <1>3
<1> QED BY <1>3, <1>4

\* What one more element does, and what all of them do.
Pass(how, st, x) ==
    CASE how = "utf8" -> T!Utf8Next(st, x)
      [] how = "line" -> T!LineNext(st, x)
      [] how = "match" -> T!MatchNext(st, x.text, x.old, x.at)
      [] how = "edit" -> T!EditNext(st, x.edit, x.newline)
      [] how = "join" -> st \o x
IsRun(how, base, xs, n, f) ==
    f = [k \in 0 .. n |-> IF k = 0 THEN base ELSE Pass(how, f[k - 1], xs[k])]
Run(how, base, xs, n) == (CHOOSE f : IsRun(how, base, xs, n, f))[n]

LEMMA RunsExist ==
    ASSUME NEW how, NEW base, NEW xs, NEW n \in Nat
    PROVE  \E f : IsRun(how, base, xs, n, f)
<1> DEFINE H == {k \in 0 .. n : \E f : IsRun(how, base, xs, k, f)}
<1>1. 0 \in H
  <2> DEFINE f == [k \in 0 .. 0 |-> base]
  <2>1. f = [k \in 0 .. 0 |-> IF k = 0 THEN base ELSE Pass(how, f[k - 1], xs[k])]
    OBVIOUS
  <2> HIDE DEF f
  <2>2. IsRun(how, base, xs, 0, f)
    BY <2>1 DEF IsRun
  <2> QED BY <2>2
<1>2. ASSUME NEW k \in 1 .. n, k - 1 \in H PROVE k \in H
  <2>1. PICK f : IsRun(how, base, xs, k - 1, f)
    BY <1>2
  <2> DEFINE g == [i \in 0 .. k |-> IF i = k THEN Pass(how, f[k - 1], xs[k]) ELSE f[i]]
  <2>2. ASSUME NEW i \in 0 .. k PROVE g[i] = IF i = 0 THEN base ELSE Pass(how, g[i - 1], xs[i])
    <3>1. i # k => f[i] = IF i = 0 THEN base ELSE Pass(how, f[i - 1], xs[i])
      BY <2>1 DEF IsRun
    <3>2. i # 0 => i - 1 \in 0 .. k /\ i - 1 # k /\ g[i - 1] = f[i - 1]
      OBVIOUS
    <3>3. g[i] = IF i = k THEN Pass(how, f[k - 1], xs[k]) ELSE f[i]
      OBVIOUS
    <3> HIDE DEF g
    <3> QED BY <3>1, <3>2, <3>3
  <2>3. g = [i \in 0 .. k |-> g[i]]
    OBVIOUS
  <2> HIDE DEF g
  <2>4. g = [i \in 0 .. k |-> IF i = 0 THEN base ELSE Pass(how, g[i - 1], xs[i])]
    BY <2>2, <2>3
  <2>5. IsRun(how, base, xs, k, g)
    BY <2>4 DEF IsRun
  <2> QED BY <2>5
<1> HIDE DEF H
<1>3. n \in H
  BY ONLY <1>1, <1>2, Climb, n \in Nat
<1> QED BY <1>3 DEF H

\* Runs over sequences that begin alike are the same as far as these do.
LEMMA RunsAgree ==
    ASSUME NEW how, NEW base, NEW xs, NEW ys, NEW n \in Nat, NEW m \in Nat, m <= n,
           \A k \in 1 .. m : xs[k] = ys[k],
           NEW f, IsRun(how, base, xs, n, f), NEW g, IsRun(how, base, ys, m, g)
    PROVE  f[m] = g[m]
<1> DEFINE H == {k \in 0 .. m : f[k] = g[k]}
<1>1. ASSUME NEW k \in 0 .. m
      PROVE  /\ f[k] = IF k = 0 THEN base ELSE Pass(how, f[k - 1], xs[k])
             /\ g[k] = IF k = 0 THEN base ELSE Pass(how, g[k - 1], ys[k])
  BY DEF IsRun
<1>2. 0 \in H
  BY <1>1
<1>3. ASSUME NEW k \in 1 .. m, k - 1 \in H PROVE k \in H
  BY <1>1, <1>3
<1> HIDE DEF H
<1>4. m \in H
  BY ONLY <1>2, <1>3, Climb, m \in Nat
<1> QED BY <1>4 DEF H

LEMMA RunGoes ==
    ASSUME NEW how, NEW base, NEW xs, NEW n \in Nat
    PROVE  Run(how, base, xs, n) = IF n = 0 THEN base ELSE Pass(how, Run(how, base, xs, n - 1), xs[n])
<1>1. PICK f : f = CHOOSE r : IsRun(how, base, xs, n, r)
  OBVIOUS
<1>2. IsRun(how, base, xs, n, f) /\ Run(how, base, xs, n) = f[n]
  BY <1>1, RunsExist DEF Run
<1>3. ASSUME n # 0 PROVE f[n - 1] = Run(how, base, xs, n - 1)
  <2>1. PICK g : g = CHOOSE r : IsRun(how, base, xs, n - 1, r)
    OBVIOUS
  <2>2. n - 1 \in Nat /\ n - 1 <= n
    BY <1>3
  <2>3. IsRun(how, base, xs, n - 1, g) /\ Run(how, base, xs, n - 1) = g[n - 1]
    BY <2>1, <2>2, RunsExist DEF Run
  <2> QED BY <1>2, <2>2, <2>3, RunsAgree
<1>4. f[n] = IF n = 0 THEN base ELSE Pass(how, f[n - 1], xs[n])
  BY <1>2 DEF IsRun
<1> QED BY <1>2, <1>3, <1>4

LEMMA RunSame ==
    ASSUME NEW how, NEW base, NEW xs, NEW ys, NEW n \in Nat, \A k \in 1 .. n : xs[k] = ys[k]
    PROVE  Run(how, base, xs, n) = Run(how, base, ys, n)
<1>1. PICK f : f = CHOOSE r : IsRun(how, base, xs, n, r)
  OBVIOUS
<1>2. PICK g : g = CHOOSE r : IsRun(how, base, ys, n, r)
  OBVIOUS
<1>3. IsRun(how, base, xs, n, f) /\ IsRun(how, base, ys, n, g)
  BY <1>1, <1>2, RunsExist
<1> QED BY <1>1, <1>2, <1>3, RunsAgree DEF Run

\* The definitions are runs.
LEMMA Utf8IsRun ==
    ASSUME NEW bytes
    PROVE  T!Utf8Chars(bytes) = Run("utf8", << >>, bytes, Len(bytes))
BY DEF T!Utf8Chars, Run, IsRun, Pass

MatchSteps(text, old) == [i \in 1 .. Len(text) |-> [text |-> text, old |-> old, at |-> i]]
LEMMA MatchesAreRun ==
    ASSUME NEW text, NEW old, Len(text) \in Nat
    PROVE  T!Matches(text, old)
           = Run("match", [at |-> {}, next |-> 1], MatchSteps(text, old), Len(text)).at
<1> DEFINE base == [at |-> {}, next |-> 1]
           n == Len(text)
           Is(f) == f = [k \in 0 .. n |-> IF k = 0 THEN base ELSE T!MatchNext(f[k - 1], text, old, k)]
<1>1. T!Matches(text, old) = (CHOOSE f : Is(f))[n].at
  BY DEF T!Matches
<1>2. ASSUME NEW f PROVE Is(f) <=> IsRun("match", base, MatchSteps(text, old), n, f)
  <2>1. ASSUME NEW k \in 0 .. n, k # 0
        PROVE  Pass("match", f[k - 1], MatchSteps(text, old)[k]) = T!MatchNext(f[k - 1], text, old, k)
    <3>1. MatchSteps(text, old)[k] = [text |-> text, old |-> old, at |-> k]
      BY <2>1 DEF MatchSteps
    <3> QED BY <3>1 DEF Pass
  <2> HIDE DEF base, n
  <2> QED BY <2>1 DEF IsRun
<1> HIDE DEF Is, base, n
<1>3. (CHOOSE f : Is(f)) = CHOOSE f : IsRun("match", base, MatchSteps(text, old), n, f)
  BY <1>2
<1> QED BY <1>1, <1>3 DEF Run, base, n

EditSteps(edits, newline) == [i \in 1 .. Len(edits) |-> [edit |-> edits[i], newline |-> newline]]
LEMMA ApplyIsRun ==
    ASSUME NEW text, NEW edits, NEW newline, Len(edits) \in Nat
    PROVE  T!Apply(text, edits, newline)
           = Run("edit", [text |-> text, ok |-> TRUE], EditSteps(edits, newline), Len(edits))
<1> DEFINE base == [text |-> text, ok |-> TRUE]
           n == Len(edits)
           Is(f) == f = [k \in 0 .. n |-> IF k = 0 THEN base ELSE T!EditNext(f[k - 1], edits[k], newline)]
<1>1. T!Apply(text, edits, newline) = (CHOOSE f : Is(f))[n]
  BY DEF T!Apply
<1>2. ASSUME NEW f PROVE Is(f) <=> IsRun("edit", base, EditSteps(edits, newline), n, f)
  <2>1. ASSUME NEW k \in 0 .. n, k # 0
        PROVE  Pass("edit", f[k - 1], EditSteps(edits, newline)[k]) = T!EditNext(f[k - 1], edits[k], newline)
    <3>1. EditSteps(edits, newline)[k] = [edit |-> edits[k], newline |-> newline]
      BY <2>1 DEF EditSteps
    <3> QED BY <3>1 DEF Pass
  <2> HIDE DEF base, n
  <2> QED BY <2>1 DEF IsRun
<1> HIDE DEF Is, base, n
<1>3. (CHOOSE f : Is(f)) = CHOOSE f : IsRun("edit", base, EditSteps(edits, newline), n, f)
  BY <1>2
<1> QED BY <1>1, <1>3 DEF Run, base, n

LEMMA LinesAreRun ==
    ASSUME NEW text, NEW all,
           all = Run("line", [done |-> << >>, line |-> << >>], text, Len(text))
    PROVE  T!Lines(text) = IF all.line = << >> THEN all.done ELSE Append(all.done, all.line)
BY DEF T!Lines, Run, IsRun, Pass

\* Sequences put together one after the other.
Flat(xs, n) == Run("join", << >>, xs, n)
LEMMA FlattenIsRun ==
    ASSUME NEW S, NEW xs \in Seq(Seq(S))
    PROVE  T!FlattenSeq(xs) = Flat(xs, Len(xs))
<1> DEFINE n == Len(xs)
           Is(f) == f = [i \in 1 .. n |-> IF i = 1 THEN xs[i] ELSE f[i - 1] \o xs[i]]
<1>0. n \in Nat /\ \A i \in 1 .. n : xs[i] \in Seq(S)
  OBVIOUS
<1>1. T!FlattenSeq(xs) = IF n = 0 THEN xs ELSE (CHOOSE f : Is(f))[n]
  BY DEF T!FlattenSeq
<1>2. CASE n = 0
  <2>1. xs = << >>
    BY <1>2
  <2> HIDE DEF n
  <2>2. Flat(xs, n) = << >>
    BY <1>2, RunGoes DEF Flat
  <2> QED BY <1>1, <1>2, <2>1, <2>2 DEF n
<1>3. CASE n # 0
  <2>1. ASSUME NEW k \in 1 .. n PROVE Flat(xs, k) = IF k = 1 THEN xs[k] ELSE Flat(xs, k - 1) \o xs[k]
    <3>1. k - 1 \in Nat /\ k \in Nat /\ k # 0
      OBVIOUS
    <3>2. Flat(xs, k) = Pass("join", Flat(xs, k - 1), xs[k])
      BY <3>1, RunGoes DEF Flat
    <3>3. Flat(xs, k) = Flat(xs, k - 1) \o xs[k]
      BY <3>2 DEF Pass
    <3>4. Flat(xs, 0) = << >>
      BY RunGoes DEF Flat
    <3>5. xs[k] \in Seq(S)
      BY <1>0
    <3>6. k = 1 => Flat(xs, k) = xs[k]
      BY <3>3, <3>4, <3>5
    <3> QED BY <3>3, <3>6
  <2> DEFINE r == [i \in 1 .. n |-> Flat(xs, i)]
  <2>2. Is(r)
    <3>1. ASSUME NEW i \in 1 .. n PROVE r[i] = IF i = 1 THEN xs[i] ELSE r[i - 1] \o xs[i]
      <4>1. i # 1 => i - 1 \in 1 .. n
        BY <1>0
      <4> QED BY <2>1, <4>1
    <3>2. r = [i \in 1 .. n |-> r[i]]
      OBVIOUS
    <3> HIDE DEF r
    <3> QED BY <3>1, <3>2
  <2>3. PICK f : f = CHOOSE g : Is(g)
    OBVIOUS
  <2>4. Is(f)
    BY <2>2, <2>3
  <2> DEFINE H == {k \in 0 .. n : k # 0 => f[k] = Flat(xs, k)}
  <2>5. 0 \in H
    BY <1>0
  <2>6. ASSUME NEW k \in 1 .. n, k - 1 \in H PROVE k \in H
    <3>1. f[k] = IF k = 1 THEN xs[k] ELSE f[k - 1] \o xs[k]
      BY <2>4
    <3>2. k # 1 => f[k - 1] = Flat(xs, k - 1)
      BY <2>6
    <3>3. Flat(xs, k) = IF k = 1 THEN xs[k] ELSE Flat(xs, k - 1) \o xs[k]
      BY <2>1
    <3>4. f[k] = Flat(xs, k)
      BY ONLY <3>1, <3>2, <3>3
    <3>5. k \in 0 .. n
      BY <1>0
    <3> QED BY <3>4, <3>5
  <2> HIDE DEF H, Is, n
  <2>7. n \in H
    BY <1>0, <2>5, <2>6, Climb
  <2> QED BY <1>1, <1>3, <2>3, <2>7 DEF H, n
<1> QED BY <1>2, <1>3

LEMMA FlatGoes ==
    ASSUME NEW xs, NEW n \in Nat
    PROVE  Flat(xs, n) = IF n = 0 THEN << >> ELSE Flat(xs, n - 1) \o xs[n]
<1>1. Flat(xs, n) = IF n = 0 THEN << >> ELSE Pass("join", Flat(xs, n - 1), xs[n])
  BY RunGoes DEF Flat
<1> QED BY <1>1 DEF Pass

LEMMA FlatSame ==
    ASSUME NEW xs, NEW ys, NEW n \in Nat, \A k \in 1 .. n : xs[k] = ys[k]
    PROVE  Flat(xs, n) = Flat(ys, n)
BY RunSame DEF Flat

LEMMA FlatType ==
    ASSUME NEW S, NEW xs, NEW n \in Nat, \A k \in 1 .. n : xs[k] \in Seq(S)
    PROVE  \A k \in 0 .. n : Flat(xs, k) \in Seq(S)
<1> DEFINE H == {k \in 0 .. n : Flat(xs, k) \in Seq(S)}
<1>1. 0 \in H
  <2>1. Flat(xs, 0) = << >>
    BY FlatGoes
  <2>2. << >> \in Seq(S) /\ 0 \in 0 .. n
    OBVIOUS
  <2> QED BY ONLY <2>1, <2>2
<1>2. ASSUME NEW k \in 1 .. n, k - 1 \in H PROVE k \in H
  <2>1. k \in Nat /\ k # 0 /\ k \in 0 .. n /\ xs[k] \in Seq(S)
    OBVIOUS
  <2>2. Flat(xs, k) = Flat(xs, k - 1) \o xs[k]
    BY <2>1, FlatGoes
  <2>3. Flat(xs, k - 1) \in Seq(S)
    BY <1>2
  <2>4. Flat(xs, k - 1) \o xs[k] \in Seq(S)
    BY ONLY <2>1, <2>3, ConcatProperties
  <2> QED BY <2>1, <2>2, <2>4
<1> HIDE DEF H
<1>3. 0 .. n \subseteq H
  BY ONLY <1>1, <1>2, Climb, n \in Nat
<1> QED BY <1>3 DEF H
-----------------------------------------------------------------------------
(* Texts and bytes.                                                        *)

Symbols == T!Bytes \cup {T!Cjk}
Words == Seq(Symbols)

LEMMA CharsAreSymbols == T!Chars \subseteq Symbols /\ T!Bytes \subseteq Symbols
BY DEF Symbols, T!Chars, T!Bytes, T!CR, T!LF, T!EAcute, T!Cjk

\* What holds of the empty sequence, and after one more element, holds of all.
LEMMA GrowAll ==
    ASSUME NEW S, NEW X, << >> \in X, \A s \in Seq(S) : s \in X => \A x \in S : Append(s, x) \in X
    PROVE  Seq(S) \subseteq X
<1> SUFFICES ASSUME NEW s \in Seq(S) PROVE s \in X
  OBVIOUS
<1> DEFINE n == Len(s)
           H == {k \in 0 .. n : SubSeq(s, 1, k) \in X}
<1>1. n \in Nat
  OBVIOUS
<1>2. 0 \in H
  <2>1. SubSeq(s, 1, 0) = << >>
    BY SubSeqEmpty
  <2>2. SubSeq(s, 1, 0) \in X
    BY <2>1
  <2>3. 0 \in 0 .. n
    BY <1>1
  <2> QED BY <2>2, <2>3
<1>3. ASSUME NEW k \in 1 .. n, k - 1 \in H PROVE k \in H
  <2>1. SubSeq(s, 1, k) = SubSeq(s, 1, k - 1) \o <<s[k]>>
    <3>1. 1 \in 1 .. n /\ k \in 1 .. n
      BY <1>1
    <3> QED BY <3>1, SubSeqRecursiveSecond
  <2>2. SubSeq(s, 1, k - 1) \in Seq(S) /\ s[k] \in S
    <3>1. \A i \in 1 .. k - 1 : s[i] \in S
      BY ElementOfSeq
    <3>2. s[k] \in S
      BY ElementOfSeq
    <3> QED BY <3>1, <3>2, SubSeqProperties
  <2>3. Append(SubSeq(s, 1, k - 1), s[k]) \in X
    BY <1>3, <2>2
  <2>4. Append(SubSeq(s, 1, k - 1), s[k]) = SubSeq(s, 1, k)
    BY <2>1, <2>2, AppendIsConcat
  <2>5. k \in 0 .. n
    BY <1>1
  <2>6. SubSeq(s, 1, k) \in X
    BY ONLY <2>3, <2>4
  <2> QED BY <2>5, <2>6
<1> HIDE DEF H, n
<1>4. n \in H
  BY ONLY <1>1, <1>2, <1>3, Climb
<1>5. SubSeq(s, 1, n) = s
  BY SubSeqFull DEF n
<1> QED BY <1>4, <1>5 DEF H

LEMMA OneWord ==
    ASSUME NEW x \in Symbols
    PROVE  <<x>> \in Words /\ Len(<<x>>) = 1 /\ <<x>>[1] = x
BY DEF Words

LEMMA CharBytesType ==
    ASSUME NEW ch \in Symbols, NEW encoding
    PROVE  T!CharBytes(ch, encoding) \in Words
<1>1. ASSUME NEW x \in Symbols, NEW y \in Symbols, NEW z \in Symbols
      PROVE  <<x, y, z>> \in Words /\ <<x, y>> \in Words /\ <<x>> \in Words /\ << >> \in Words
  BY DEF Words
<1>2. {"c3", "a9", "e6", "bc", "a2", "6f", "22", "00"} \subseteq Symbols
  BY DEF Symbols, T!Bytes
<1>3. PICK high \in Symbols, low \in Symbols :
          /\ high = CASE ch = T!Cjk -> "6f" [] OTHER -> "00"
          /\ low = CASE ch = T!Cjk -> "22" [] OTHER -> ch
  <2> HIDE DEF Symbols
  <2> QED BY <1>2
<1>4. T!CharBytes(ch, encoding) =
        CASE encoding = "utf-16le" -> <<low, high>>
          [] encoding = "utf-16be" -> <<high, low>>
          [] encoding = "windows-1252" -> IF ch = T!Cjk THEN << >> ELSE <<ch>>
          [] OTHER -> CASE ch = T!EAcute -> <<"c3", "a9">> [] ch = T!Cjk -> <<"e6", "bc", "a2">> [] OTHER -> <<ch>>
  BY <1>3 DEF T!CharBytes
<1>5. <<"c3", "a9">> \in Words /\ <<"e6", "bc", "a2">> \in Words
  BY <1>1, <1>2
<1>6. <<low, high>> \in Words /\ <<high, low>> \in Words /\ <<ch>> \in Words /\ << >> \in Words
  BY <1>1
<1> QED BY ONLY <1>4, <1>5, <1>6

Blocks(text, encoding) == [i \in DOMAIN text |-> T!CharBytes(text[i], encoding)]
LEMMA PayloadIs ==
    ASSUME NEW text \in Words, NEW encoding
    PROVE  /\ T!Payload(text, encoding) = Flat(Blocks(text, encoding), Len(text))
           /\ T!Payload(text, encoding) \in Words
<1> DEFINE n == Len(text)
           xs == Blocks(text, encoding)
<1>1. n \in Nat /\ DOMAIN text = 1 .. n /\ \A i \in 1 .. n : text[i] \in Symbols
  BY DEF Words
<1>2. xs \in Seq(Words) /\ Len(xs) = n /\ \A i \in 1 .. n : xs[i] \in Words
  <2>1. xs = [i \in 1 .. n |-> T!CharBytes(text[i], encoding)]
    BY <1>1 DEF Blocks
  <2>2. \A i \in 1 .. n : T!CharBytes(text[i], encoding) \in Words
    BY <1>1, CharBytesType
  <2> HIDE DEF xs, n
  <2>3. xs \in [1 .. n -> Words] /\ n \in Nat
    BY <1>1, <2>1, <2>2
  <2> QED BY <2>3
<1>3. T!Payload(text, encoding) = T!FlattenSeq(xs)
  BY DEF T!Payload, Blocks
<1> HIDE DEF xs, n
<1>4. T!FlattenSeq(xs) = Flat(xs, n)
  BY <1>2, FlattenIsRun DEF Words
<1>5. Flat(xs, n) \in Words
  <2>1. \A k \in 0 .. n : Flat(xs, k) \in Words
    BY <1>1, <1>2, FlatType DEF Words
  <2> QED BY <1>1, <2>1
<1> QED BY <1>3, <1>4, <1>5 DEF xs, n

LEMMA PayloadStarts ==
    ASSUME NEW encoding
    PROVE  T!Payload(<< >>, encoding) = << >>
<1> DEFINE e == << >>
<1>1. e \in Words /\ Len(e) = 0
  BY DEF Words
<1>2. T!Payload(e, encoding) = Flat(Blocks(e, encoding), 0)
  BY <1>1, PayloadIs
<1> QED BY <1>2, FlatGoes

LEMMA PayloadGoes ==
    ASSUME NEW text \in Words, NEW ch \in Symbols, NEW encoding
    PROVE  T!Payload(Append(text, ch), encoding) = T!Payload(text, encoding) \o T!CharBytes(ch, encoding)
<1> DEFINE more == Append(text, ch)
           n == Len(text)
<1>1. more \in Words /\ Len(more) = n + 1 /\ n \in Nat /\ more[n + 1] = ch
  BY AppendProperties, LenProperties DEF Words
<1>2. /\ \A i \in 1 .. n : more[i] = text[i]
      /\ DOMAIN more = 1 .. Len(more) /\ DOMAIN text = 1 .. n
  <2>1. more \in Seq(Symbols)
    BY <1>1 DEF Words
  <2> QED BY <2>1, AppendProperties, LenProperties DEF Words
<1> HIDE DEF more, n
<1>3. T!Payload(more, encoding) = Flat(Blocks(more, encoding), n + 1)
  BY <1>1, PayloadIs
<1>4. T!Payload(text, encoding) = Flat(Blocks(text, encoding), n)
  BY PayloadIs DEF n
<1>5. Flat(Blocks(more, encoding), n + 1) = Flat(Blocks(more, encoding), n) \o Blocks(more, encoding)[n + 1]
  <2>1. n + 1 \in Nat /\ n + 1 # 0 /\ (n + 1) - 1 = n
    BY <1>1
  <2> QED BY <2>1, FlatGoes
<1>6. Flat(Blocks(more, encoding), n) = Flat(Blocks(text, encoding), n)
  <2>1. \A k \in 1 .. n : Blocks(more, encoding)[k] = Blocks(text, encoding)[k]
    BY <1>1, <1>2 DEF Blocks
  <2> QED BY <1>1, <2>1, FlatSame
<1>7. Blocks(more, encoding)[n + 1] = T!CharBytes(ch, encoding)
  <2>1. n + 1 \in DOMAIN more
    BY <1>1, <1>2
  <2> QED BY <1>1, <2>1 DEF Blocks
<1> QED BY <1>3, <1>4, <1>5, <1>6, <1>7 DEF more

\* A text in two parts is in the bytes of both.
LEMMA PayloadJoins ==
    ASSUME NEW s \in Words, NEW r \in Words, NEW encoding
    PROVE  T!Payload(s \o r, encoding) = T!Payload(s, encoding) \o T!Payload(r, encoding)
<1> DEFINE X == {t \in Words : T!Payload(s \o t, encoding) = T!Payload(s, encoding) \o T!Payload(t, encoding)}
<1>0. << >> \in Words
  BY DEF Words
<1>1. << >> \in X
  <2>1. s \o << >> = s
    BY ConcatEmptySeq DEF Words
  <2>2. T!Payload(s, encoding) \in Words
    BY PayloadIs
  <2>3. T!Payload(s, encoding) \o << >> = T!Payload(s, encoding)
    BY <2>2, ConcatEmptySeq DEF Words
  <2> QED BY <1>0, <2>1, <2>3, PayloadStarts
<1>2. ASSUME NEW t \in Words, t \in X, NEW x \in Symbols PROVE Append(t, x) \in X
  <2>1. s \o Append(t, x) = Append(s \o t, x) /\ Append(t, x) \in Words /\ s \o t \in Words
    <3>1. t \o <<x>> = Append(t, x) /\ (s \o t) \o <<x>> = Append(s \o t, x) /\ s \o t \in Words
      BY AppendIsConcat, ConcatProperties DEF Words
    <3>2. (s \o t) \o <<x>> = s \o (t \o <<x>>)
      BY OneWord, ConcatAssociative DEF Words
    <3>3. Append(t, x) \in Words
      BY AppendProperties DEF Words
    <3> QED BY <3>1, <3>2, <3>3
  <2> DEFINE p == T!Payload(s, encoding)
             q == T!Payload(t, encoding)
             b == T!CharBytes(x, encoding)
  <2>2. T!Payload(Append(s \o t, x), encoding) = (p \o q) \o b
    BY <1>2, <2>1, PayloadGoes
  <2>3. T!Payload(Append(t, x), encoding) = q \o b
    BY <1>2, PayloadGoes
  <2>4. p \in Words /\ q \in Words /\ b \in Words
    BY PayloadIs, CharBytesType
  <2> HIDE DEF p, q, b
  <2>5. (p \o q) \o b = p \o (q \o b)
    BY <2>4, ConcatAssociative DEF Words
  <2> QED BY <2>1, <2>2, <2>3, <2>5 DEF p
<1> HIDE DEF X
<1>3. Words \subseteq X
  BY <1>1, <1>2, GrowAll DEF Words
<1> QED BY <1>3 DEF X

-----------------------------------------------------------------------------
(* Matches: from the left, apart from each other, and wherever there is    *)
(* room for one.                                                           *)

\* What has been found in the first k places.
FoundSome(at, text, old, k) ==
    /\ at \subseteq 1 .. k
    /\ \A m \in at : T!IsAt(text, m, old)
    /\ \A m, p \in at : m < p => m + Len(old) <= p
    /\ \A i \in 1 .. k : T!IsAt(text, i, old) => \E m \in at : m <= i /\ i < m + Len(old)
FoundNext(at, next, old) ==
    /\ next \in Nat
    /\ \A m \in at : m + Len(old) <= next
    /\ next = 1 \/ \E m \in at : next = m + Len(old)

LEMMA FoundGoes ==
    ASSUME NEW text, NEW old, Len(old) \in Nat \ {0}, NEW k \in Nat \ {0},
           NEW at, NEW next, FoundSome(at, text, old, k - 1), FoundNext(at, next, old),
           NEW st, st = T!MatchNext([at |-> at, next |-> next], text, old, k)
    PROVE  /\ st = [at |-> st.at, next |-> st.next]
           /\ FoundSome(st.at, text, old, k) /\ FoundNext(st.at, st.next, old)
<1> DEFINE L == Len(old)
<1>1. /\ at \subseteq 1 .. k - 1
      /\ \A m \in at : T!IsAt(text, m, old) /\ m + L <= next /\ m \in Nat /\ m < k
      /\ \A m, p \in at : m < p => m + L <= p
      /\ \A i \in 1 .. k - 1 : T!IsAt(text, i, old) => \E m \in at : m <= i /\ i < m + L
      /\ next \in Nat /\ L \in Nat \ {0}
      /\ next = 1 \/ \E m \in at : next = m + L
  BY DEF FoundSome, FoundNext
<1>2. CASE k >= next /\ T!IsAt(text, k, old)
  <2>1. st = [at |-> at \cup {k}, next |-> k + L]
    BY <1>2 DEF T!MatchNext
  <2>2. st.at = at \cup {k} /\ st.next = k + L /\ st = [at |-> st.at, next |-> st.next]
    BY <2>1
  <2> HIDE DEF L
  <2>3. FoundNext(at \cup {k}, k + L, old)
    <3>1. \A m \in at \cup {k} : m + L <= k + L
      BY <1>1
    <3>2. k + L \in Nat /\ k \in at \cup {k}
      BY <1>1
    <3> QED BY <3>1, <3>2 DEF FoundNext, L
  <2>4. FoundSome(at \cup {k}, text, old, k)
    <3>1. at \cup {k} \subseteq 1 .. k
      BY <1>1
    <3>2. \A m \in at \cup {k} : T!IsAt(text, m, old)
      BY <1>1, <1>2
    <3>3. ASSUME NEW m \in at \cup {k}, NEW p \in at \cup {k}, m < p PROVE m + L <= p
      <4>1. CASE p = k
        <5>1. m \in at /\ m + L <= next
          BY <1>1, <3>3, <4>1
        <5> QED BY <1>1, <1>2, <4>1, <5>1
      <4>2. CASE p # k
        <5>1. m \in at /\ p \in at
          BY <1>1, <3>3, <4>2
        <5> QED BY <1>1, <3>3, <5>1
      <4> QED BY <4>1, <4>2
    <3>4. ASSUME NEW i \in 1 .. k, T!IsAt(text, i, old)
          PROVE  \E m \in at \cup {k} : m <= i /\ i < m + L
      <4>1. CASE i = k
        <5>1. k <= i /\ i < k + L
          BY <1>1, <4>1
        <5> QED BY <5>1
      <4>2. CASE i # k
        BY <1>1, <3>4, <4>2
      <4> QED BY <4>1, <4>2
    <3> QED BY <3>1, <3>2, <3>3, <3>4 DEF FoundSome, L
  <2> QED BY <2>2, <2>3, <2>4
<1>3. CASE ~(k >= next /\ T!IsAt(text, k, old))
  <2>1. st = [at |-> at, next |-> next]
    BY <1>3 DEF T!MatchNext
  <2>2. st.at = at /\ st.next = next /\ st = [at |-> st.at, next |-> st.next]
    BY <2>1
  <2> HIDE DEF L
  <2>3. ASSUME NEW i \in 1 .. k, T!IsAt(text, i, old) PROVE \E m \in at : m <= i /\ i < m + L
    <3>1. CASE i = k
      <4>1. k < next
        BY <1>1, <1>3, <2>3, <3>1
      <4>2. next # 1
        BY <1>1, <4>1
      <4>3. PICK m \in at : next = m + L
        BY <1>1, <4>2
      <4>4. m <= i /\ i < m + L
        BY <1>1, <3>1, <4>1, <4>3
      <4> QED BY <4>4
    <3>2. CASE i # k
      BY <1>1, <2>3, <3>2
    <3> QED BY <3>1, <3>2
  <2>4. at \subseteq 1 .. k
    BY <1>1
  <2>5. FoundSome(at, text, old, k)
    BY <1>1, <2>3, <2>4 DEF FoundSome, L
  <2> QED BY <2>2, <2>5
<1> QED BY <1>2, <1>3

LEMMA MatchesAre ==
    ASSUME NEW text, Len(text) \in Nat, NEW old, Len(old) \in Nat \ {0}
    PROVE  FoundSome(T!Matches(text, old), text, old, Len(text))
<1> DEFINE base == [at |-> {}, next |-> 1]
           xs == MatchSteps(text, old)
           n == Len(text)
           R(k) == Run("match", base, xs, k)
           Good(st, k) == /\ st = [at |-> st.at, next |-> st.next]
                          /\ FoundSome(st.at, text, old, k) /\ FoundNext(st.at, st.next, old)
           H == {k \in 0 .. n : Good(R(k), k)}
<1>1. Good(base, 0)
  <2>1. base.at = {} /\ base.next = 1
    OBVIOUS
  <2> HIDE DEF base
  <2>2. FoundSome({}, text, old, 0) /\ FoundNext({}, 1, old)
    BY DEF FoundSome, FoundNext
  <2>3. base = [at |-> base.at, next |-> base.next]
    BY DEF base
  <2> QED BY <2>1, <2>2, <2>3
<1>2. 0 \in H
  <2>1. R(0) = base
    BY RunGoes
  <2> HIDE DEF Good, base
  <2> QED BY <1>1, <2>1
<1>3. ASSUME NEW k \in 1 .. n, k - 1 \in H PROVE k \in H
  <2>1. k \in Nat \ {0} /\ k \in 0 .. n
    OBVIOUS
  <2>2. R(k) = Pass("match", R(k - 1), xs[k])
    BY <2>1, RunGoes
  <2>3. xs[k] = [text |-> text, old |-> old, at |-> k]
    BY DEF MatchSteps
  <2>4. R(k) = T!MatchNext(R(k - 1), text, old, k)
    BY <2>2, <2>3 DEF Pass
  <2>5. PICK a, x : R(k - 1) = [at |-> a, next |-> x] /\ FoundSome(a, text, old, k - 1) /\ FoundNext(a, x, old)
    BY <1>3
  <2>6. Good(R(k), k)
    BY <2>1, <2>4, <2>5, FoundGoes
  <2> QED BY <2>1, <2>6
<1> HIDE DEF H
<1>4. n \in H
  BY <1>2, <1>3, Climb
<1> QED BY <1>4, MatchesAreRun DEF H

-----------------------------------------------------------------------------
(* What replacing makes of a text, place by place.                         *)

Inside(i, at, L) == \E m \in at : i \in m .. m + L - 1
Chosen(text, at, L, new) ==
    [i \in 1 .. Len(text) |-> IF i \in at THEN new ELSE IF Inside(i, at, L) THEN << >> ELSE <<text[i]>>]
Replaced(text, at, L, new, k) == Flat(Chosen(text, at, L, new), k)

LEMMA ReplacedGoes ==
    ASSUME NEW text, Len(text) \in Nat, NEW at, NEW L, NEW new, NEW k \in 1 .. Len(text)
    PROVE  /\ Replaced(text, at, L, new, 0) = << >>
           /\ k - 1 \in Nat
           /\ k \in at => Replaced(text, at, L, new, k) = Replaced(text, at, L, new, k - 1) \o new
           /\ k \notin at /\ Inside(k, at, L) =>
                 Replaced(text, at, L, new, k) = Replaced(text, at, L, new, k - 1) \o << >>
           /\ k \notin at /\ ~Inside(k, at, L) =>
                 Replaced(text, at, L, new, k) = Replaced(text, at, L, new, k - 1) \o <<text[k]>>
<1> DEFINE xs == Chosen(text, at, L, new)
<1>1. xs[k] = IF k \in at THEN new ELSE IF Inside(k, at, L) THEN << >> ELSE <<text[k]>>
  BY DEF Chosen
<1>2. k \in Nat /\ k # 0 /\ k - 1 \in Nat
  OBVIOUS
<1> HIDE DEF xs
<1>3. Flat(xs, k) = Flat(xs, k - 1) \o xs[k] /\ Flat(xs, 0) = << >>
  BY <1>2, FlatGoes
<1> QED BY <1>1, <1>2, <1>3 DEF Replaced, xs

LEMMA ReplacedType ==
    ASSUME NEW text, Len(text) \in Nat, NEW at, NEW L, NEW S, NEW new \in Seq(S),
           \A i \in 1 .. Len(text) : i \notin at /\ ~Inside(i, at, L) => text[i] \in S
    PROVE  \A k \in 0 .. Len(text) : Replaced(text, at, L, new, k) \in Seq(S)
<1> DEFINE xs == Chosen(text, at, L, new)
<1>1. ASSUME NEW k \in 1 .. Len(text) PROVE xs[k] \in Seq(S)
  <2>1. xs[k] = IF k \in at THEN new ELSE IF Inside(k, at, L) THEN << >> ELSE <<text[k]>>
    BY DEF Chosen
  <2>2. << >> \in Seq(S) /\ (text[k] \in S => <<text[k]>> \in Seq(S))
    OBVIOUS
  <2> HIDE DEF xs
  <2> QED BY <2>1, <2>2
<1> HIDE DEF xs
<1> QED BY <1>1, FlatType DEF Replaced, xs

LEMMA ReplaceIs ==
    ASSUME NEW S, NEW text, Len(text) \in Nat, NEW old, NEW new \in Seq(S), NEW at, at = T!Matches(text, old),
           \A i \in 1 .. Len(text) : i \notin at /\ ~Inside(i, at, Len(old)) => text[i] \in S
    PROVE  /\ T!Replace(text, old, new) = Replaced(text, at, Len(old), new, Len(text))
           /\ T!Replace(text, old, new) \in Seq(S)
<1> DEFINE xs == Chosen(text, at, Len(old), new)
           n == Len(text)
<1>1. xs \in Seq(Seq(S)) /\ Len(xs) = n
  <2>1. ASSUME NEW k \in 1 .. Len(text) PROVE xs[k] \in Seq(S)
    <3>1. xs[k] = IF k \in at THEN new ELSE IF Inside(k, at, Len(old)) THEN << >> ELSE <<text[k]>>
      BY DEF Chosen
    <3>2. << >> \in Seq(S) /\ (text[k] \in S => <<text[k]>> \in Seq(S))
      OBVIOUS
    <3> HIDE DEF xs
    <3> QED BY <3>1, <3>2
  <2>2. xs = [k \in 1 .. n |-> xs[k]]
    BY DEF Chosen
  <2> HIDE DEF xs
  <2>3. xs \in [1 .. n -> Seq(S)]
    BY <2>1, <2>2
  <2> QED BY <2>3
<1>2. T!Replace(text, old, new) = T!FlattenSeq(xs)
  BY DEF T!Replace, Chosen, Inside
<1>3. Replaced(text, at, Len(old), new, n) \in Seq(S)
  BY ReplacedType
<1> HIDE DEF xs
<1> QED BY <1>1, <1>2, <1>3, FlattenIsRun DEF Replaced, xs

LEMMA ReplaceType ==
    ASSUME NEW S, NEW text \in Seq(S), NEW old, NEW new \in Seq(S)
    PROVE  /\ T!Replace(text, old, new)
              = Replaced(text, T!Matches(text, old), Len(old), new, Len(text))
           /\ T!Replace(text, old, new) \in Seq(S)
<1>1. Len(text) \in Nat /\ \A i \in 1 .. Len(text) : text[i] \in S
  OBVIOUS
<1> QED BY <1>1, ReplaceIs

\* A text is at a place if its characters are there.
LEMMA AtIs ==
    ASSUME NEW S, NEW text \in Seq(S), NEW old, Len(old) \in Nat \ {0}, NEW i \in 1 .. Len(text)
    PROVE  /\ T!IsAt(text, i, old) => /\ i + Len(old) <= Len(text) + 1
                                      /\ \A j \in 1 .. Len(old) : old[j] = text[i + j - 1]
           /\ /\ old \in Seq(S) /\ i + Len(old) <= Len(text) + 1
              /\ \A j \in 1 .. Len(old) : old[j] = text[i + j - 1]
              => T!IsAt(text, i, old)
<1> DEFINE L == Len(old)
           sub == SubSeq(text, i, i + L - 1)
<1>1. ASSUME i + L <= Len(text) + 1
      PROVE  sub \in Seq(S) /\ Len(sub) = L /\ \A j \in 1 .. L : sub[j] = text[i + j - 1]
  <2>1. i \in Int /\ i + L - 1 \in Int /\ i <= i + L - 1 /\ L = (i + L - 1) - i + 1
    OBVIOUS
  <2>2. \A j \in i .. i + L - 1 : text[j] \in S
    BY <1>1
  <2>3. /\ sub \in Seq(S)
        /\ Len(sub) = IF i <= i + L - 1 THEN (i + L - 1) - i + 1 ELSE 0
        /\ \A j \in 1 .. (i + L - 1) - i + 1 : sub[j] = text[i + j - 1]
    BY <2>1, <2>2, SubSeqProperties
  <2> HIDE DEF sub
  <2> QED BY <2>1, <2>3
<1> HIDE DEF sub
<1>2. T!IsAt(text, i, old) <=> i + L <= Len(text) + 1 /\ sub = old
  BY DEF T!IsAt, sub
<1>3. ASSUME old \in Seq(S), i + L <= Len(text) + 1, \A j \in 1 .. L : old[j] = text[i + j - 1]
      PROVE  sub = old
  BY <1>1, <1>3, SeqEqual
<1> HIDE DEF L
<1> QED BY <1>1, <1>2, <1>3 DEF L

LEMMA OneAt ==
    ASSUME NEW S, NEW text \in Seq(S), NEW c \in S, NEW i \in 1 .. Len(text)
    PROVE  T!IsAt(text, i, <<c>>) <=> text[i] = c
<1> DEFINE old == <<c>>
<1>1. old \in Seq(S) /\ Len(old) = 1 /\ old[1] = c
  OBVIOUS
<1>2. i + 1 <= Len(text) + 1 /\ i + 1 - 1 = i
  OBVIOUS
<1> HIDE DEF old
<1>3. ASSUME T!IsAt(text, i, old) PROVE text[i] = c
  <2>1. \A j \in 1 .. Len(old) : old[j] = text[i + j - 1]
    <3>1. text \in Seq(S) /\ Len(old) \in Nat \ {0} /\ i \in 1 .. Len(text)
      BY <1>1
    <3> QED BY ONLY <1>3, <3>1, AtIs
  <2>2. 1 \in 1 .. Len(old)
    BY <1>1
  <2> QED BY ONLY <1>1, <1>2, <2>1, <2>2
<1>4. ASSUME text[i] = c PROVE T!IsAt(text, i, old)
  <2>1. \A j \in 1 .. Len(old) : old[j] = text[i + j - 1]
    <3> SUFFICES ASSUME NEW j \in 1 .. Len(old) PROVE old[j] = text[i + j - 1]
      OBVIOUS
    <3>1. j = 1
      BY <1>1
    <3> QED BY ONLY <1>1, <1>2, <1>4, <3>1
  <2>2. Len(old) \in Nat \ {0} /\ i + Len(old) <= Len(text) + 1
    BY <1>1, <1>2
  <2> QED BY <1>1, <2>1, <2>2, AtIs
<1> QED BY <1>3, <1>4 DEF old

\* A place is covered if it is in a match.
LEMMA CoverIs ==
    ASSUME NEW n \in Nat, NEW text, NEW old, Len(old) \in Nat \ {0},
           NEW at, FoundSome(at, text, old, n), NEW i \in 1 .. n
    PROVE  /\ at \subseteq 1 .. n
           /\ i \in at => Inside(i, at, Len(old))
           /\ T!IsAt(text, i, old) => Inside(i, at, Len(old))
           /\ \A m \in at : T!IsAt(text, m, old)
<1>1. at \subseteq 1 .. n /\ \A m \in at : T!IsAt(text, m, old)
  BY DEF FoundSome
<1>2. i \in at => Inside(i, at, Len(old))
  BY DEF Inside
<1>3. ASSUME T!IsAt(text, i, old) PROVE Inside(i, at, Len(old))
  <2>1. PICK m \in at : m <= i /\ i < m + Len(old)
    BY <1>3 DEF FoundSome
  <2>2. i \in m .. m + Len(old) - 1
    BY <1>1, <2>1
  <2> QED BY <2>2 DEF Inside
<1> QED BY <1>1, <1>2, <1>3

\* A text of more than nothing stays one.
LEMMA ReplaceSome ==
    ASSUME NEW S, NEW text \in Seq(S), text # << >>, NEW old, Len(old) \in Nat \ {0},
           NEW new \in Seq(S), new # << >>
    PROVE  T!Replace(text, old, new) # << >>
<1> DEFINE n == Len(text)
           at == T!Matches(text, old)
           L == Len(old)
           R(k) == Replaced(text, at, L, new, k)
           H == {k \in 0 .. n : k # 0 => R(k) # << >>}
<1>0. n \in Nat \ {0} /\ L \in Nat \ {0} /\ Len(new) \in Nat \ {0} /\ \A i \in 1 .. n : text[i] \in S
  OBVIOUS
<1>1. FoundSome(at, text, old, n)
  BY <1>0, MatchesAre
<1>2. \A k \in 0 .. n : R(k) \in Seq(S)
  BY <1>0, ReplacedType
<1>3. \A k \in 1 .. n :
        /\ k - 1 \in 0 .. n
        /\ R(0) = << >>
        /\ k \in at => R(k) = R(k - 1) \o new
        /\ k \notin at /\ Inside(k, at, L) => R(k) = R(k - 1) \o << >>
        /\ k \notin at /\ ~Inside(k, at, L) => R(k) = R(k - 1) \o <<text[k]>>
  BY <1>0, ReplacedGoes
<1> HIDE DEF R
<1>4. \A m \in at : m \in 1 .. n
  BY <1>1 DEF FoundSome
<1> HIDE DEF at, L, n
<1>5. 0 \in H
  BY <1>0
<1>6. ASSUME NEW k \in 1 .. n, k - 1 \in H PROVE k \in H
  <2>1. k \in 0 .. n /\ k - 1 \in 0 .. n /\ (k # 1 => R(k - 1) # << >>)
    BY <1>0, <1>6
  <2>2. R(k - 1) \in Seq(S) /\ R(k) \in Seq(S)
    BY <1>2, <2>1
  <2>3. R(k - 1) # << >> => Len(R(k - 1)) \in Nat \ {0}
    BY <2>2
  <2>4. ASSUME NEW r \in Seq(S), NEW s \in Seq(S), r # << >> \/ s # << >> PROVE r \o s # << >>
    BY <2>4, ConcatEqualIffEmpty
  <2>5. k = 1 => k \in at \/ ~Inside(k, at, L)
    <3>1. ASSUME k = 1, Inside(k, at, L) PROVE k \in at
      <4>1. PICK m \in at : k \in m .. m + L - 1
        BY <3>1 DEF Inside
      <4>2. m = 1
        BY <1>4, <3>1, <4>1
      <4> QED BY <3>1, <4>1, <4>2
    <3> QED BY <3>1
  <2>6. <<text[k]>> \in Seq(S) /\ <<text[k]>> # << >> /\ << >> \in Seq(S)
    BY <1>0
  <2>7. R(k) # << >>
    BY <1>3, <2>1, <2>2, <2>4, <2>5, <2>6
  <2> QED BY <2>1, <2>7
<1> HIDE DEF H
<1>7. n \in H
  BY <1>0, <1>5, <1>6, Climb
<1>8. R(n) # << >>
  BY <1>0, <1>7 DEF H
<1> QED BY <1>8, ReplaceType DEF R, n, at, L

-----------------------------------------------------------------------------
(* Ends of lines.                                                          *)

\* Every line feed comes after a carriage return.
NoLone(text) == \A i \in 1 .. Len(text) : text[i] = T!LF => i # 1 /\ text[i - 1] = T!CR
NoReturn == Symbols \ {T!CR}

LEMMA Symbolic == T!CR \in Symbols /\ T!LF \in NoReturn /\ T!LF \in Symbols /\ T!CR # T!LF /\ NoReturn \subseteq Symbols
BY DEF Symbols, NoReturn, T!Bytes, T!CR, T!LF

LEMMA NoLoneJoins ==
    ASSUME NEW s \in Words, NEW r \in Words, NoLone(s), NoLone(r)
    PROVE  NoLone(s \o r)
<1> DEFINE a == Len(s)
           b == Len(r)
<1>1. /\ a \in Nat /\ b \in Nat /\ Len(s \o r) = a + b
      /\ \A i \in 1 .. a + b : (s \o r)[i] = IF i <= a THEN s[i] ELSE r[i - a]
  BY ConcatProperties DEF Words
<1>2. ASSUME NEW i \in 1 .. Len(s \o r), (s \o r)[i] = T!LF
      PROVE  i # 1 /\ (s \o r)[i - 1] = T!CR
  <2>1. CASE i <= a
    <3>1. i \in 1 .. a /\ s[i] = T!LF
      BY <1>1, <1>2, <2>1
    <3>2. i # 1 /\ s[i - 1] = T!CR
      BY <3>1 DEF NoLone
    <3> QED BY <1>1, <2>1, <3>2
  <2>2. CASE ~(i <= a)
    <3>1. i - a \in 1 .. b /\ r[i - a] = T!LF
      BY <1>1, <1>2, <2>2
    <3>2. i - a # 1 /\ r[(i - a) - 1] = T!CR
      BY <3>1 DEF NoLone
    <3>3. i - 1 \in 1 .. a + b /\ ~(i - 1 <= a) /\ (i - 1) - a = (i - a) - 1 /\ i # 1
      BY <1>1, <3>1, <3>2
    <3> QED BY <1>1, <3>2, <3>3
  <2> QED BY <2>1, <2>2
<1> QED BY <1>2 DEF NoLone

LEMMA NoLoneGrows ==
    ASSUME NEW s \in Words, NoLone(s), NEW c \in Symbols,
           c = T!LF => s # << >> /\ s[Len(s)] = T!CR
    PROVE  NoLone(s \o <<c>>) /\ s \o <<c>> \in Words /\ s \o <<c>> # << >> /\ (s \o <<c>>)[Len(s \o <<c>>)] = c
<1> DEFINE n == Len(s)
           r == s \o <<c>>
<1>1. <<c>> \in Words /\ Len(<<c>>) = 1 /\ <<c>>[1] = c
  BY OneWord
<1>2. /\ n \in Nat /\ r \in Words /\ Len(r) = n + 1
      /\ \A i \in 1 .. n + 1 : r[i] = IF i <= n THEN s[i] ELSE <<c>>[i - n]
  BY <1>1, ConcatProperties DEF Words
<1> HIDE DEF r
<1>3. \A i \in 1 .. n : r[i] = s[i]
  BY <1>2
<1>4. r[n + 1] = c
  BY <1>1, <1>2
<1>5. r # << >>
  BY <1>2
<1>6. ASSUME NEW i \in 1 .. n + 1, r[i] = T!LF PROVE i # 1 /\ r[i - 1] = T!CR
  <2>1. CASE i \in 1 .. n
    <3>1. i # 1 /\ s[i - 1] = T!CR
      BY <1>3, <1>6, <2>1 DEF NoLone
    <3> QED BY <1>3, <2>1, <3>1
  <2>2. CASE i = n + 1
    <3>1. s # << >> /\ s[n] = T!CR
      BY <1>4, <1>6, <2>2
    <3>2. n # 0
      BY <3>1 DEF Words
    <3> QED BY <1>2, <1>3, <2>2, <3>1, <3>2
  <2> QED BY <1>2, <2>1, <2>2
<1> QED BY <1>2, <1>4, <1>5, <1>6 DEF NoLone, r

\* A text whose lines end in CR LF keeps that if the new text has it and no match ends
\* between the two.
LEMMA EndsAreKept ==
    ASSUME NEW text \in Words, NEW old, Len(old) \in Nat \ {0}, old[Len(old)] # T!CR,
           NEW new \in Words, NoLone(text), NoLone(new)
    PROVE  NoLone(T!Replace(text, old, new))
<1> DEFINE n == Len(text)
           at == T!Matches(text, old)
           L == Len(old)
           R(k) == Replaced(text, at, L, new, k)
           H == {k \in 0 .. n : /\ NoLone(R(k))
                                /\ k # 0 /\ k \notin at /\ ~Inside(k, at, L) =>
                                      R(k) # << >> /\ R(k)[Len(R(k))] = text[k]}
<1>0. n \in Nat /\ L \in Nat \ {0} /\ \A i \in 1 .. n : text[i] \in Symbols
  BY DEF Words
<1>1. FoundSome(at, text, old, n)
  BY <1>0, MatchesAre
<1>2. \A k \in 0 .. n : R(k) \in Words
  BY <1>0, ReplacedType DEF Words
<1>3. \A k \in 1 .. n :
        /\ k - 1 \in 0 .. n
        /\ k \in at => R(k) = R(k - 1) \o new
        /\ k \notin at /\ Inside(k, at, L) => R(k) = R(k - 1) \o << >>
        /\ k \notin at /\ ~Inside(k, at, L) => R(k) = R(k - 1) \o <<text[k]>>
  BY <1>0, ReplacedGoes
<1>4. R(0) = << >>
  BY FlatGoes DEF Replaced
<1> HIDE DEF R
<1>5. \A m \in at : m \in 1 .. n /\ T!IsAt(text, m, old)
  BY <1>1 DEF FoundSome
<1>6. \A m \in at : text[m + L - 1] # T!CR
  <2> SUFFICES ASSUME NEW m \in at PROVE text[m + L - 1] # T!CR
    OBVIOUS
  <2>1. old[L] = text[m + L - 1]
    <3>1. text \in Seq(Symbols) /\ Len(old) \in Nat \ {0} /\ m \in 1 .. Len(text) /\ T!IsAt(text, m, old)
      BY <1>0, <1>5 DEF Words
    <3>2. \A j \in 1 .. Len(old) : old[j] = text[m + j - 1]
      BY ONLY <3>1, AtIs
    <3>3. L \in 1 .. Len(old)
      BY <1>0
    <3> QED BY <3>2, <3>3
  <2> QED BY <2>1
<1> HIDE DEF at, L, n
<1>7. 0 \in H
  <2>1. NoLone(<< >>)
    BY DEF NoLone
  <2> QED BY <1>0, <1>4, <2>1
<1>8. ASSUME NEW k \in 1 .. n, k - 1 \in H PROVE k \in H
  <2>1. k \in 0 .. n /\ k - 1 \in 0 .. n /\ k # 0 /\ R(k - 1) \in Words /\ text[k] \in Symbols
    BY <1>0, <1>2
  <2>2. NoLone(R(k - 1))
    BY <1>8
  <2>3. CASE k \in at
    <3>1. NoLone(R(k))
      BY <1>3, <2>1, <2>2, <2>3, NoLoneJoins
    <3> QED BY <2>1, <2>3, <3>1
  <2>4. CASE k \notin at /\ Inside(k, at, L)
    <3>1. R(k) = R(k - 1)
      BY <1>3, <2>1, <2>4, ConcatEmptySeq DEF Words
    <3> QED BY <2>1, <2>2, <2>4, <3>1
  <2>5. CASE k \notin at /\ ~Inside(k, at, L)
    <3>1. ASSUME text[k] = T!LF PROVE R(k - 1) # << >> /\ R(k - 1)[Len(R(k - 1))] = T!CR
      <4>1. k # 1 /\ text[k - 1] = T!CR
        BY <3>1 DEF NoLone, n
      <4>2. ~Inside(k - 1, at, L)
        <5>1. ASSUME NEW m \in at, k - 1 \in m .. m + L - 1 PROVE FALSE
          <6>1. k \notin m .. m + L - 1
            BY <2>5 DEF Inside
          <6>2. m + L - 1 = k - 1
            BY <1>0, <1>5, <5>1, <6>1
          <6> QED BY <1>6, <4>1, <6>2
        <5> QED BY <5>1 DEF Inside
      <4>3. k - 1 \notin at
        <5>1. ASSUME k - 1 \in at PROVE Inside(k - 1, at, L)
          <6>1. k - 1 \in k - 1 .. (k - 1) + L - 1
            BY <1>0
          <6> QED BY <5>1, <6>1 DEF Inside
        <5> QED BY <4>2, <5>1
      <4>4. k - 1 # 0
        BY <1>0, <4>1
      <4> QED BY <1>8, <4>1, <4>2, <4>3, <4>4
    <3>2. R(k) = R(k - 1) \o <<text[k]>>
      BY <1>3, <2>5
    <3>3. NoLone(R(k)) /\ R(k) # << >> /\ R(k)[Len(R(k))] = text[k]
      BY <2>1, <2>2, <3>1, <3>2, NoLoneGrows
    <3> QED BY <2>1, <3>3
  <2> QED BY <2>3, <2>4, <2>5
<1> HIDE DEF H
<1>9. n \in H
  BY <1>0, <1>7, <1>8, Climb
<1>10. NoLone(R(n))
  BY <1>9 DEF H
<1> QED BY <1>10, ReplaceType DEF R, n, at, L, Words

\* Normalized texts: nothing is lost, and the ends of lines are of one kind.
CrLf == <<T!CR, T!LF>>
LEMMA NormalizeType ==
    ASSUME NEW S, T!CR \in S, T!LF \in S, NEW text \in Seq(S), NEW newline \in Seq(S)
    PROVE  /\ T!Normalize(text, newline) \in Seq(S)
           /\ text # << >> /\ newline # << >> => T!Normalize(text, newline) # << >>
<1> DEFINE lf == <<T!LF>>
           cr == <<T!CR>>
           a == T!Replace(text, CrLf, lf)
           b == T!Replace(a, cr, lf)
           c == T!Replace(b, lf, newline)
<1>1. lf \in Seq(S) /\ lf # << >> /\ Len(lf) \in Nat \ {0} /\ Len(cr) \in Nat \ {0} /\ Len(CrLf) \in Nat \ {0}
  BY DEF CrLf
<1>2. T!Normalize(text, newline) = c
  BY DEF T!Normalize, CrLf
<1> HIDE DEF lf, cr, a
<1>3. a \in Seq(S) /\ (text # << >> => a # << >>)
  BY <1>1, ReplaceType, ReplaceSome DEF a
<1> HIDE DEF b
<1>4. b \in Seq(S) /\ (a # << >> => b # << >>)
  BY <1>1, <1>3, ReplaceType, ReplaceSome DEF b
<1> HIDE DEF c
<1>5. c \in Seq(S) /\ (b # << >> /\ newline # << >> => c # << >>)
  BY <1>1, <1>4, ReplaceType, ReplaceSome DEF c
<1> QED BY <1>2, <1>3, <1>4, <1>5

\* What is put together of what is not to be replaced and of the new.
LEMMA OneGone ==
    ASSUME NEW text \in Words, NEW c \in Symbols, NEW new \in Seq(Symbols \ {c})
    PROVE  T!Replace(text, <<c>>, new) \in Seq(Symbols \ {c})
<1> DEFINE old == <<c>>
           at == T!Matches(text, old)
           n == Len(text)
<1>1. n \in Nat /\ Len(old) \in Nat \ {0} /\ \A i \in 1 .. n : text[i] \in Symbols
  BY DEF Words
<1>2. \A i \in 1 .. n : text[i] = c => T!IsAt(text, i, old)
  BY OneAt DEF Words
<1> HIDE DEF old
<1>3. FoundSome(at, text, old, n)
  BY <1>1, MatchesAre
<1> HIDE DEF at, n
<1>4. \A i \in 1 .. n : i \notin at /\ ~Inside(i, at, Len(old)) => text[i] \in Symbols \ {c}
  BY <1>1, <1>2, <1>3, CoverIs
<1> QED BY <1>1, <1>4, ReplaceIs DEF n, at, old

LEMMA NormalizeReturns ==
    ASSUME NEW text \in Words
    PROVE  /\ T!Normalize(text, <<T!LF>>) \in Seq(NoReturn)
           /\ \E b \in Seq(NoReturn) :
                T!Normalize(text, CrLf) = T!Replace(b, <<T!LF>>, CrLf) /\ (text # << >> => b # << >>)
<1> DEFINE lf == <<T!LF>>
           cr == <<T!CR>>
           a == T!Replace(text, CrLf, lf)
           b == T!Replace(a, cr, lf)
<1>1. lf \in Words /\ lf \in Seq(NoReturn) /\ lf # << >> /\ Len(cr) \in Nat \ {0} /\ Len(CrLf) \in Nat \ {0}
  <2>1. T!LF \in Symbols /\ T!LF \in NoReturn
    BY Symbolic
  <2> QED BY <2>1 DEF Words, CrLf
<1>2. T!Normalize(text, lf) = T!Replace(b, lf, lf) /\ T!Normalize(text, CrLf) = T!Replace(b, lf, CrLf)
  BY DEF T!Normalize, CrLf
<1> HIDE DEF lf, a
<1>3. a \in Words /\ (text # << >> => a # << >>)
  BY <1>1, ReplaceType, ReplaceSome DEF a, Words
<1>4. b \in Seq(NoReturn)
  BY <1>1, <1>3, OneGone, Symbolic DEF b, NoReturn
<1>5. a # << >> => b # << >>
  BY <1>1, <1>3, ReplaceSome DEF b, Words
<1> HIDE DEF b
<1>6. T!Replace(b, lf, lf) \in Seq(NoReturn)
  BY <1>1, <1>4, ReplaceType
<1> QED BY <1>2, <1>3, <1>4, <1>5, <1>6 DEF lf

LEMMA NormalizeEnds ==
    ASSUME NEW text \in Words, NEW new, new = T!Normalize(text, CrLf)
    PROVE  new \in Words /\ NoLone(new) /\ (new # << >> => new[Len(new)] # T!CR)
<1> DEFINE lf == <<T!LF>>
<1>0. PICK b \in Seq(NoReturn) : new = T!Replace(b, lf, CrLf)
  BY NormalizeReturns
<1> DEFINE n == Len(b)
           at == T!Matches(b, lf)
           L == Len(lf)
           R(k) == Replaced(b, at, L, CrLf, k)
           H == {k \in 0 .. n : NoLone(R(k)) /\ (R(k) # << >> => R(k)[Len(R(k))] # T!CR)}
<1>1. /\ n \in Nat /\ L \in Nat \ {0} /\ \A i \in 1 .. n : b[i] \in Symbols /\ b[i] # T!CR /\ b[i] \in NoReturn
      /\ b \in Words
  BY Symbolic, SeqMonotonic DEF Words, NoReturn
<1>2. CrLf \in Words /\ Len(CrLf) = 2 /\ CrLf[1] = T!CR /\ CrLf[2] = T!LF
  <2>1. T!CR \in Symbols /\ T!LF \in Symbols
    BY Symbolic
  <2> QED BY <2>1 DEF CrLf, Words
<1>3. NoLone(CrLf)
  <2>1. \A i \in 1 .. 2 : i = 1 \/ i = 2
    OBVIOUS
  <2>2. 2 - 1 = 1
    OBVIOUS
  <2> QED BY <1>2, <2>1, <2>2, Symbolic DEF NoLone
<1>4. \A i \in 1 .. n : b[i] = T!LF => T!IsAt(b, i, lf)
  BY <1>1, OneAt, Symbolic DEF Words
<1> HIDE DEF lf
<1>5. FoundSome(at, b, lf, n)
  BY <1>1, MatchesAre
<1>6. \A k \in 0 .. n : R(k) \in Words
  BY <1>1, <1>2, ReplacedType DEF Words
<1>7. \A k \in 1 .. n :
        /\ k - 1 \in 0 .. n
        /\ k \in at => R(k) = R(k - 1) \o CrLf
        /\ k \notin at /\ Inside(k, at, L) => R(k) = R(k - 1) \o << >>
        /\ k \notin at /\ ~Inside(k, at, L) => R(k) = R(k - 1) \o <<b[k]>>
  BY <1>1, ReplacedGoes
<1>8. R(0) = << >>
  BY FlatGoes DEF Replaced
<1>9. \A k \in 1 .. n : ~Inside(k, at, L) => b[k] # T!LF
  BY <1>1, <1>4, <1>5, CoverIs
<1> HIDE DEF R, at, n
<1>10. 0 \in H
  <2>1. NoLone(<< >>)
    BY DEF NoLone
  <2> QED BY <1>1, <1>8, <2>1
<1>11. ASSUME NEW k \in 1 .. n, k - 1 \in H PROVE k \in H
  <2>1. k \in 0 .. n /\ k - 1 \in 0 .. n /\ R(k - 1) \in Words /\ b[k] \in Symbols /\ b[k] # T!CR
    BY <1>1, <1>6, <1>7
  <2>2. NoLone(R(k - 1)) /\ (R(k - 1) # << >> => R(k - 1)[Len(R(k - 1))] # T!CR)
    BY <1>11
  <2>3. CASE k \in at
    <3>1. R(k) = R(k - 1) \o CrLf
      BY <1>7, <2>3
    <3>2. NoLone(R(k))
      BY <1>2, <1>3, <2>1, <2>2, <3>1, NoLoneJoins
    <3>3. /\ Len(R(k - 1)) \in Nat /\ Len(R(k)) = Len(R(k - 1)) + 2
          /\ \A i \in 1 .. Len(R(k - 1)) + 2 :
                R(k)[i] = IF i <= Len(R(k - 1)) THEN R(k - 1)[i] ELSE CrLf[i - Len(R(k - 1))]
      <4> DEFINE s == R(k - 1)
      <4>1. s \in Seq(Symbols) /\ CrLf \in Seq(Symbols) /\ Len(s) \in Nat
        BY <1>2, <2>1 DEF Words
      <4> HIDE DEF s
      <4>2. /\ Len(s \o CrLf) = Len(s) + Len(CrLf)
            /\ \A i \in 1 .. Len(s) + Len(CrLf) :
                  (s \o CrLf)[i] = IF i <= Len(s) THEN s[i] ELSE CrLf[i - Len(s)]
        BY <4>1, ConcatProperties
      <4> QED BY <1>2, <3>1, <4>1, <4>2 DEF s
    <3>4. ASSUME NEW x \in Nat, Len(R(k - 1)) = x PROVE R(k)[x + 2] = CrLf[2]
      <4>1. x + 2 \in 1 .. x + 2 /\ ~(x + 2 <= x) /\ (x + 2) - x = 2
        BY <3>4
      <4> QED BY <3>3, <3>4, <4>1
    <3>5. R(k)[Len(R(k))] = T!LF
      BY <1>2, <3>3, <3>4
    <3> QED BY <2>1, <3>2, <3>5, Symbolic
  <2>4. CASE k \notin at /\ Inside(k, at, L)
    <3>1. R(k) = R(k - 1)
      BY <1>7, <2>1, <2>4, ConcatEmptySeq DEF Words
    <3> QED BY <2>1, <2>2, <3>1
  <2>5. CASE k \notin at /\ ~Inside(k, at, L)
    <3>1. R(k) = R(k - 1) \o <<b[k]>> /\ b[k] # T!LF
      BY <1>7, <1>9, <2>5
    <3>2. NoLone(R(k)) /\ R(k)[Len(R(k))] = b[k]
      BY <2>1, <2>2, <3>1, NoLoneGrows
    <3> QED BY <2>1, <3>2
  <2> QED BY <2>3, <2>4, <2>5
<1> HIDE DEF H
<1>12. n \in H
  BY <1>1, <1>10, <1>11, Climb
<1>13. new = R(n)
  BY <1>0, <1>1, <1>2, ReplaceType DEF R, n, at, L, Words
<1>14. n \in 0 .. n
  BY <1>1
<1> QED BY <1>6, <1>12, <1>13, <1>14 DEF H

-----------------------------------------------------------------------------
(* The edits, one after the other.                                         *)

Edited(text, e, newline) == T!Replace(text, T!Normalize(e.old, newline), T!Normalize(e.new, newline))

LEMMA CountIs == \A S : T!Cardinality(S) = Cardinality(S)
BY DEF T!Cardinality, Cardinality

LEMMA EditNextIs ==
    ASSUME NEW text, NEW ok \in BOOLEAN, NEW e, NEW newline
    PROVE  T!EditNext([text |-> text, ok |-> ok], e, newline) =
             IF ok /\ Cardinality(T!Matches(text, T!Normalize(e.old, newline))) = e.expected
             THEN [text |-> Edited(text, e, newline), ok |-> ok]
             ELSE [text |-> text, ok |-> FALSE]
<1> DEFINE st == [text |-> text, ok |-> ok]
<1>1. ASSUME NEW more
      PROVE  [st EXCEPT !.text = more] = [text |-> more, ok |-> ok] /\ [st EXCEPT !.ok = more] = [text |-> text, ok |-> more]
  OBVIOUS
<1>2. st.text = text /\ (st.ok <=> ok)
  OBVIOUS
<1>3. T!EditNext(st, e, newline) =
        IF st.ok /\ Cardinality(T!Matches(st.text, T!Normalize(e.old, newline))) = e.expected
        THEN [st EXCEPT !.text = Edited(st.text, e, newline)]
        ELSE [st EXCEPT !.ok = FALSE]
  BY CountIs DEF T!EditNext, Edited
<1>4. T!EditNext(st, e, newline) =
        IF ok /\ Cardinality(T!Matches(text, T!Normalize(e.old, newline))) = e.expected
        THEN [st EXCEPT !.text = Edited(text, e, newline)]
        ELSE [st EXCEPT !.ok = FALSE]
  <2> HIDE DEF st
  <2>1. CASE ok
    BY <1>2, <1>3, <2>1
  <2>2. CASE ~ok
    BY <1>2, <1>3, <2>2
  <2> QED BY <2>1, <2>2
<1> QED BY <1>1, <1>4

LEMMA ApplyKeeps ==
    ASSUME NEW X, NEW text \in X, NEW edits, Len(edits) \in Nat, NEW newline,
           \A s \in X : \A i \in 1 .. Len(edits) : Edited(s, edits[i], newline) \in X
    PROVE  T!Apply(text, edits, newline).text \in X
<1> DEFINE base == [text |-> text, ok |-> TRUE]
           xs == EditSteps(edits, newline)
           n == Len(edits)
           R(k) == Run("edit", base, xs, k)
           H == {k \in 0 .. n : \E t \in X, ok \in BOOLEAN : R(k) = [text |-> t, ok |-> ok]}
<1>1. 0 \in H
  <2>1. R(0) = base
    BY RunGoes
  <2>2. 0 \in 0 .. n /\ text \in X /\ TRUE \in BOOLEAN
    OBVIOUS
  <2> HIDE DEF R
  <2> QED BY <2>1, <2>2
<1>2. ASSUME NEW k \in 1 .. n, k - 1 \in H PROVE k \in H
  <2>1. k \in Nat /\ k # 0 /\ k \in 0 .. n
    OBVIOUS
  <2>2. R(k) = Pass("edit", R(k - 1), xs[k])
    BY <2>1, RunGoes
  <2>3. xs[k] = [edit |-> edits[k], newline |-> newline]
    BY DEF EditSteps
  <2>4. R(k) = T!EditNext(R(k - 1), edits[k], newline)
    BY <2>2, <2>3 DEF Pass
  <2> HIDE DEF R, xs, base
  <2>5. PICK t \in X, ok \in BOOLEAN : R(k - 1) = [text |-> t, ok |-> ok]
    BY <1>2
  <2>6. Edited(t, edits[k], newline) \in X
    BY <2>5
  <2>7. R(k) = [text |-> Edited(t, edits[k], newline), ok |-> ok] \/ R(k) = [text |-> t, ok |-> FALSE]
    BY <2>4, <2>5, EditNextIs
  <2> QED BY <2>1, <2>5, <2>6, <2>7
<1> HIDE DEF H
<1>3. n \in H
  BY <1>1, <1>2, Climb
<1>4. PICK t \in X, ok \in BOOLEAN : R(n) = [text |-> t, ok |-> ok]
  BY <1>3 DEF H
<1>5. T!Apply(text, edits, newline) = R(n)
  BY ApplyIsRun
<1> HIDE DEF R, n
<1> QED BY <1>4, <1>5

LEMMA OneEdit ==
    ASSUME NEW text, NEW edits, Len(edits) = 1, NEW newline, T!Apply(text, edits, newline).ok
    PROVE  /\ T!Apply(text, edits, newline).text = Edited(text, edits[1], newline)
           /\ Cardinality(T!Matches(text, T!Normalize(edits[1].old, newline))) = edits[1].expected
<1> DEFINE base == [text |-> text, ok |-> TRUE]
           xs == EditSteps(edits, newline)
           st == T!Apply(text, edits, newline)
<1>1. st = Run("edit", base, xs, 1)
  <2>1. Len(edits) \in Nat
    OBVIOUS
  <2> QED BY <2>1, ApplyIsRun
<1>2. xs[1] = [edit |-> edits[1], newline |-> newline]
  BY DEF EditSteps
<1>3. Run("edit", base, xs, 1) = Pass("edit", Run("edit", base, xs, 0), xs[1]) /\ Run("edit", base, xs, 0) = base
  <2>1. 1 \in Nat /\ 1 # 0 /\ 1 - 1 = 0 /\ 0 \in Nat
    OBVIOUS
  <2> HIDE DEF base, xs
  <2> QED BY <2>1, RunGoes
<1>4. st = T!EditNext(base, edits[1], newline)
  BY <1>1, <1>2, <1>3 DEF Pass
<1>5. st = IF TRUE /\ Cardinality(T!Matches(text, T!Normalize(edits[1].old, newline))) = edits[1].expected
           THEN [text |-> Edited(text, edits[1], newline), ok |-> TRUE]
           ELSE [text |-> text, ok |-> FALSE]
  BY <1>4, EditNextIs
<1>6. st.ok
  OBVIOUS
<1> HIDE DEF st
<1> QED BY <1>5, <1>6 DEF st

EditAsked == [old : Seq(T!Chars), new : Seq(T!Chars), expected : Nat]

\* A file with lines of one kind keeps them.
LEMMA ApplyKeepsEnds ==
    ASSUME NEW text \in Words, NEW edits \in Seq(EditAsked), \A i \in 1 .. Len(edits) : edits[i].old # << >>
    PROVE  /\ T!Apply(text, edits, <<T!LF>>).text \in Words
           /\ T!Apply(text, edits, CrLf).text \in Words
           /\ text \in Seq(T!Chars) =>
                 /\ T!Apply(text, edits, <<T!LF>>).text \in Seq(T!Chars)
                 /\ T!Apply(text, edits, CrLf).text \in Seq(T!Chars)
           /\ text \in Seq(NoReturn) => T!Apply(text, edits, <<T!LF>>).text \in Seq(NoReturn)
           /\ NoLone(text) => NoLone(T!Apply(text, edits, CrLf).text)
<1> DEFINE lf == <<T!LF>>
           n == Len(edits)
           old(i) == edits[i].old
           new(i) == edits[i].new
<1>1. n \in Nat /\ \A i \in 1 .. n : old(i) \in Seq(T!Chars) /\ new(i) \in Seq(T!Chars) /\ old(i) # << >>
  <2>1. ASSUME NEW e \in EditAsked PROVE e.old \in Seq(T!Chars) /\ e.new \in Seq(T!Chars)
    BY DEF EditAsked
  <2>2. \A i \in 1 .. n : edits[i] \in EditAsked
    OBVIOUS
  <2> QED BY <2>1, <2>2
<1>2. /\ T!CR \in T!Chars /\ T!LF \in T!Chars /\ T!CR \in Symbols /\ T!LF \in Symbols
      /\ T!Chars \subseteq Symbols
  BY CharsAreSymbols, Symbolic DEF T!Chars
<1>3. /\ lf \in Seq(T!Chars) /\ CrLf \in Seq(T!Chars) /\ lf \in Words /\ CrLf \in Words
      /\ lf # << >> /\ CrLf # << >>
  BY <1>2 DEF CrLf, Words
<1>4. \A i \in 1 .. n : old(i) \in Words /\ new(i) \in Words
  BY <1>1, <1>2, SeqMonotonic DEF Words
<1> HIDE DEF lf
<1>5. ASSUME NEW S, T!CR \in S, T!LF \in S, T!Chars \subseteq S, text \in Seq(S), NEW newline \in {lf, CrLf}
      PROVE  T!Apply(text, edits, newline).text \in Seq(S)
  <2>1. newline \in Seq(S) /\ \A i \in 1 .. n : old(i) \in Seq(S) /\ new(i) \in Seq(S)
    BY <1>1, <1>3, <1>5, SeqMonotonic
  <2> HIDE DEF n
  <2>2. ASSUME NEW s \in Seq(S), NEW i \in 1 .. n PROVE Edited(s, edits[i], newline) \in Seq(S)
    BY <1>5, <2>1, NormalizeType, ReplaceType DEF Edited
  <2> QED BY <1>1, <1>5, <2>2, ApplyKeeps DEF n
<1>6. T!Apply(text, edits, lf).text \in Words /\ T!Apply(text, edits, CrLf).text \in Words
  BY <1>2, <1>5 DEF Words
<1>7. ASSUME text \in Seq(T!Chars)
      PROVE T!Apply(text, edits, lf).text \in Seq(T!Chars) /\ T!Apply(text, edits, CrLf).text \in Seq(T!Chars)
  BY <1>2, <1>5, <1>7
<1>8. ASSUME text \in Seq(NoReturn) PROVE T!Apply(text, edits, lf).text \in Seq(NoReturn)
  <2> HIDE DEF n
  <2>1. ASSUME NEW s \in Seq(NoReturn), NEW i \in 1 .. n PROVE Edited(s, edits[i], lf) \in Seq(NoReturn)
    BY <1>4, NormalizeReturns, ReplaceType DEF Edited, lf
  <2> QED BY <1>1, <1>8, <2>1, ApplyKeeps DEF n
<1>9. ASSUME NoLone(text) PROVE NoLone(T!Apply(text, edits, CrLf).text)
  <2> DEFINE X == {s \in Words : NoLone(s)}
  <2> HIDE DEF n
  <2>1. ASSUME NEW s \in Words, NoLone(s), NEW i \in 1 .. n
        PROVE  Edited(s, edits[i], CrLf) \in Words /\ NoLone(Edited(s, edits[i], CrLf))
    <3> DEFINE o == T!Normalize(old(i), CrLf)
               w == T!Normalize(new(i), CrLf)
    <3>1. o \in Words /\ o # << >>
      BY <1>1, <1>2, <1>3, <1>4, NormalizeType DEF Words
    <3>2. o[Len(o)] # T!CR
      BY <1>4, <3>1, NormalizeEnds
    <3>3. w \in Words /\ NoLone(w)
      BY <1>4, NormalizeEnds
    <3> HIDE DEF o, w
    <3>4. Len(o) \in Nat \ {0}
      BY <3>1 DEF Words
    <3>5. T!Replace(s, o, w) \in Words
      BY <3>3, ReplaceType DEF Words
    <3>6. NoLone(T!Replace(s, o, w))
      BY <2>1, <3>2, <3>3, <3>4, EndsAreKept
    <3> QED BY <3>5, <3>6 DEF Edited, o, w
  <2>2. T!Apply(text, edits, CrLf).text \in X
    <3>1. text \in X /\ \A s \in X : \A i \in 1 .. n : Edited(s, edits[i], CrLf) \in X
      BY <1>9, <2>1
    <3> HIDE DEF X
    <3> QED BY <1>1, <3>1, ApplyKeeps DEF n
  <2> QED BY <2>2
<1> QED BY <1>6, <1>7, <1>8, <1>9 DEF lf

-----------------------------------------------------------------------------
(* Decoding and encoding.                                                  *)

LEMMA TupleGrows ==
    ASSUME NEW S, NEW x \in S, NEW y \in S, NEW z \in S
    PROVE  <<x>> \o <<y>> = <<x, y>> /\ <<x, y>> \o <<z>> = <<x, y, z>>
<1>1. <<x>> \in Seq(S) /\ <<y>> \in Seq(S) /\ <<z>> \in Seq(S) /\ <<x, y>> \in Seq(S) /\ <<x, y, z>> \in Seq(S)
  OBVIOUS
<1>2. /\ Len(<<x>>) = 1 /\ Len(<<y>>) = 1 /\ Len(<<z>>) = 1 /\ Len(<<x, y>>) = 2 /\ Len(<<x, y, z>>) = 3
      /\ <<x>>[1] = x /\ <<y>>[1] = y /\ <<z>>[1] = z /\ <<x, y>>[1] = x /\ <<x, y>>[2] = y
      /\ <<x, y, z>>[1] = x /\ <<x, y, z>>[2] = y /\ <<x, y, z>>[3] = z
  OBVIOUS
<1>3. <<x>> \o <<y>> = <<x, y>>
  <2> DEFINE a == <<x>>
             b == <<y>>
             c == <<x, y>>
  <2>1. a \o b \in Seq(S) /\ Len(a \o b) = 2 /\ \A i \in 1 .. 2 : (a \o b)[i] = IF i <= 1 THEN a[i] ELSE b[i - 1]
    BY <1>1, <1>2, ConcatProperties
  <2> HIDE DEF a, b, c
  <2>2. ASSUME NEW i \in 1 .. 2 PROVE (a \o b)[i] = c[i]
    <3>1. i = 1 \/ i = 2
      OBVIOUS
    <3>2. a[1] = x /\ b[1] = y /\ c[1] = x /\ c[2] = y /\ 2 - 1 = 1 /\ ~(2 <= 1)
      BY <1>2 DEF a, b, c
    <3> QED BY <2>1, <3>1, <3>2
  <2>3. c \in Seq(S) /\ Len(c) = 2
    BY <1>1, <1>2 DEF c
  <2>4. a \o b = c
    BY <2>1, <2>2, <2>3, SeqEqual
  <2> QED BY <2>4 DEF a, b, c
<1>4. <<x, y>> \o <<z>> = <<x, y, z>>
  <2> DEFINE a == <<x, y>>
             b == <<z>>
             c == <<x, y, z>>
  <2>1. a \o b \in Seq(S) /\ Len(a \o b) = 3 /\ \A i \in 1 .. 3 : (a \o b)[i] = IF i <= 2 THEN a[i] ELSE b[i - 2]
    BY <1>1, <1>2, ConcatProperties
  <2> HIDE DEF a, b, c
  <2>2. ASSUME NEW i \in 1 .. 3 PROVE (a \o b)[i] = c[i]
    <3>1. i = 1 \/ i = 2 \/ i = 3
      OBVIOUS
    <3>2. a[1] = x /\ a[2] = y /\ b[1] = z /\ c[1] = x /\ c[2] = y /\ c[3] = z /\ 3 - 2 = 1 /\ ~(3 <= 2) /\ 1 <= 2 /\ 2 <= 2
      BY <1>2 DEF a, b, c
    <3> QED BY <2>1, <3>1, <3>2
  <2>3. c \in Seq(S) /\ Len(c) = 3
    BY <1>1, <1>2 DEF c
  <2>4. a \o b = c
    BY <2>1, <2>2, <2>3, SeqEqual
  <2> QED BY <2>4 DEF a, b, c
<1> QED BY <1>3, <1>4

LEMMA LastIs ==
    ASSUME NEW S, NEW s \in Seq(S), NEW x \in S
    PROVE  T!Front(Append(s, x)) = s /\ T!Last(Append(s, x)) = x
<1>1. Len(Append(s, x)) = Len(s) + 1 /\ Append(s, x)[Len(s) + 1] = x /\ Len(s) \in Nat
  BY AppendProperties
<1>2. SubSeq(Append(s, x), 1, Len(s)) = s
  <2>1. <<x>> \in Seq(S) /\ Append(s, x) = s \o <<x>>
    BY AppendIsConcat
  <2>2. CASE Len(s) = 0
    <3>1. SubSeq(Append(s, x), 1, Len(s)) = << >>
      BY <2>2, SubSeqEmpty
    <3>2. s = << >>
      BY <2>2
    <3> QED BY ONLY <3>1, <3>2
  <2>3. CASE Len(s) # 0
    <3>1. 1 \in 1 .. Len(s) /\ Len(s) \in 1 .. Len(s)
      BY <1>1, <2>3
    <3>2. SubSeq(s \o <<x>>, 1, Len(s)) = SubSeq(s, 1, Len(s))
      BY <2>1, <3>1, SubSeqOfConcat1
    <3> QED BY <2>1, <3>2, SubSeqFull
  <2> QED BY <2>2, <2>3
<1>3. (Len(s) + 1) - 1 = Len(s)
  BY <1>1
<1> QED BY <1>1, <1>2, <1>3 DEF T!Front, T!Last

LEMMA LastOf ==
    ASSUME NEW S, NEW s \in Seq(S), s # << >>
    PROVE  T!Front(s) \in Seq(S) /\ T!Last(s) \in S /\ s = Append(T!Front(s), T!Last(s))
<1>1. PICK f \in Seq(S), x \in S : s = Append(f, x)
  BY SequenceEmptyOrAppend
<1> QED BY <1>1, LastIs

LEMMA Utf8Goes ==
    ASSUME NEW S, NEW s \in Seq(S), NEW x \in S
    PROVE  /\ T!Utf8Chars(Append(s, x)) = T!Utf8Next(T!Utf8Chars(s), x)
           /\ T!Utf8Chars(<< >>) = << >>
<1> DEFINE r == Append(s, x)
           n == Len(s)
<1>1. Len(r) = n + 1 /\ n \in Nat /\ r[n + 1] = x /\ \A i \in 1 .. n : r[i] = s[i]
  BY AppendProperties
<1> HIDE DEF r, n
<1>2. Run("utf8", << >>, r, n + 1) = Pass("utf8", Run("utf8", << >>, r, n), r[n + 1])
  <2>1. n + 1 \in Nat /\ n + 1 # 0 /\ (n + 1) - 1 = n
    BY <1>1
  <2> QED BY <2>1, RunGoes
<1>3. Run("utf8", << >>, r, n) = Run("utf8", << >>, s, n)
  BY <1>1, RunSame
<1>4. T!Utf8Chars(<< >>) = << >>
  <2>1. Run("utf8", << >>, << >>, 0) = << >> /\ Len(<< >>) = 0
    BY RunGoes
  <2> QED BY <2>1, Utf8IsRun
<1> QED BY <1>1, <1>2, <1>3, <1>4, Utf8IsRun DEF Pass, r, n

Utf8s == {"utf-8", "utf-8-bom"}
Plain == T!Bytes \ {T!EAcute}
LEMMA PlainIs ==
    /\ Plain \subseteq Symbols /\ T!EAcute \in Symbols /\ T!Cjk \in Symbols
    /\ {"c3", "a9", "e6", "bc", "a2"} \subseteq Plain
    /\ \A x \in Plain : x # T!EAcute /\ x # T!Cjk
    /\ T!Chars \subseteq Plain \cup {T!EAcute, T!Cjk}
    /\ \A x \in T!Chars : x \notin {"a9", "a2", "c3", "e6", "bc"}
BY DEF Plain, Symbols, T!Bytes, T!Chars, T!EAcute, T!Cjk, T!CR, T!LF

LEMMA Utf8Bytes ==
    ASSUME NEW encoding \in Utf8s, NEW ch \in Symbols
    PROVE  T!CharBytes(ch, encoding) =
             IF ch = T!EAcute THEN <<"c3", "a9">> ELSE IF ch = T!Cjk THEN <<"e6", "bc", "a2">> ELSE <<ch>>
<1>1. encoding # "utf-16le" /\ encoding # "utf-16be" /\ encoding # "windows-1252"
  BY DEF Utf8s
<1> QED BY <1>1 DEF T!CharBytes, T!EAcute, T!Cjk

\* What is read as UTF-8 is written as it was.
LEMMA Utf8Writes ==
    ASSUME NEW encoding \in Utf8s, NEW bytes \in Seq(Plain)
    PROVE  T!Utf8Chars(bytes) \in Words /\ T!Payload(T!Utf8Chars(bytes), encoding) = bytes
<1> DEFINE P(t) == T!Payload(t, encoding)
           X == {b \in Seq(Plain) : T!Utf8Chars(b) \in Words /\ P(T!Utf8Chars(b)) = b}
<1>1. << >> \in X
  <2>1. T!Utf8Chars(<< >>) = << >>
    <3>1. << >> \in Words /\ T!CR \in Symbols
      BY Symbolic DEF Words
    <3> QED BY <3>1, Utf8Goes DEF Words
  <2>2. << >> \in Words /\ << >> \in Seq(Plain)
    BY DEF Words
  <2> QED BY <2>1, <2>2, PayloadStarts
<1>2. ASSUME NEW s \in Seq(Plain), s \in X, NEW x \in Plain PROVE Append(s, x) \in X
  <2> DEFINE st == T!Utf8Chars(s)
  <2>1. T!Utf8Chars(Append(s, x)) = T!Utf8Next(st, x)
    BY Utf8Goes
  <2>2. st \in Words /\ P(st) = s
    BY <1>2
  <2>3. x \in Symbols /\ x # T!EAcute /\ x # T!Cjk /\ "c3" \in Symbols /\ "a9" \in Symbols
        /\ "e6" \in Symbols /\ "bc" \in Symbols /\ "a2" \in Symbols /\ T!EAcute \in Symbols /\ T!Cjk \in Symbols
        /\ "c3" # T!EAcute /\ "c3" # T!Cjk /\ "e6" # T!EAcute /\ "e6" # T!Cjk /\ "bc" # T!EAcute /\ "bc" # T!Cjk
        /\ T!Cjk # T!EAcute
    BY PlainIs DEF T!EAcute, T!Cjk
  <2>4. Append(s, x) \in Seq(Plain) /\ Append(s, x) = s \o <<x>> /\ s \in Words
    <3>1. s \in Words
      BY PlainIs, SeqMonotonic DEF Words
    <3> QED BY <3>1, AppendProperties, AppendIsConcat
  <2> HIDE DEF st, X
  <2>5. ASSUME NEW t \in Words, NEW y \in Symbols
        PROVE  Append(t, y) \in Words /\ P(Append(t, y)) = P(t) \o T!CharBytes(y, encoding) /\ P(t) \in Words
    BY PayloadGoes, PayloadIs, AppendProperties DEF Words
  <2> HIDE DEF P
  <2>6. CASE x = "a9" /\ st # << >> /\ T!Last(st) = "c3"
    <3>1. T!Utf8Next(st, x) = Append(T!Front(st), T!EAcute)
      BY <2>6 DEF T!Utf8Next
    <3> DEFINE f == T!Front(st)
    <3>2. f \in Words /\ st = Append(f, "c3")
      BY <2>2, <2>6, LastOf DEF Words
    <3> HIDE DEF f
    <3>3. P(st) = P(f) \o <<"c3">> /\ P(f) \in Words
      BY <2>3, <2>5, <3>2, Utf8Bytes
    <3>4. P(Append(f, T!EAcute)) = P(f) \o <<"c3", "a9">> /\ Append(f, T!EAcute) \in Words
      BY <2>3, <2>5, <3>2, Utf8Bytes
    <3>5. (P(f) \o <<"c3">>) \o <<"a9">> = P(f) \o (<<"c3">> \o <<"a9">>)
      BY <2>3, <3>3, OneWord, ConcatAssociative DEF Words
    <3>6. <<"c3">> \o <<"a9">> = <<"c3", "a9">>
      BY <2>3, TupleGrows
    <3>7. P(Append(f, T!EAcute)) = Append(s, x)
      BY <2>2, <2>4, <2>6, <3>3, <3>4, <3>5, <3>6
    <3> QED BY <2>1, <2>4, <3>1, <3>4, <3>7 DEF X, P, f
  <2>7. CASE x = "a2" /\ Len(st) > 1 /\ T!Last(st) = "bc" /\ T!Last(T!Front(st)) = "e6"
    <3>1. T!Utf8Next(st, x) = Append(T!Front(T!Front(st)), T!Cjk)
      BY <2>7 DEF T!Utf8Next
    <3> DEFINE g == T!Front(st)
               f == T!Front(g)
    <3>2. g \in Words /\ st = Append(g, "bc")
      <4>1. st # << >>
        BY <2>7
      <4> QED BY <2>2, <2>7, <4>1, LastOf DEF Words
    <3> HIDE DEF g
    <3>3. Len(g) = Len(st) - 1 /\ Len(g) \in Nat
      BY <2>3, <3>2, AppendProperties DEF Words
    <3>4. f \in Words /\ g = Append(f, "e6")
      <4>1. g # << >>
        <5>1. Len(st) \in Nat
          BY <2>2 DEF Words
        <5> QED BY <2>7, <3>3, <5>1
      <4> QED BY <2>7, <3>2, <4>1, LastOf DEF Words, g
    <3> HIDE DEF f
    <3>5. P(g) = P(f) \o <<"e6">> /\ P(f) \in Words
      BY <2>3, <2>5, <3>4, Utf8Bytes
    <3>6. P(st) = P(g) \o <<"bc">>
      BY <2>3, <2>5, <3>2, Utf8Bytes
    <3>7. P(Append(f, T!Cjk)) = P(f) \o <<"e6", "bc", "a2">> /\ Append(f, T!Cjk) \in Words
      BY <2>3, <2>5, <3>4, Utf8Bytes
    <3>8. (P(f) \o <<"e6">>) \o <<"bc">> = P(f) \o (<<"e6">> \o <<"bc">>)
      BY <2>3, <3>5, OneWord, ConcatAssociative DEF Words
    <3>9. <<"e6">> \o <<"bc">> = <<"e6", "bc">> /\ <<"e6", "bc">> \o <<"a2">> = <<"e6", "bc", "a2">>
      BY <2>3, TupleGrows
    <3>10. (P(f) \o <<"e6", "bc">>) \o <<"a2">> = P(f) \o (<<"e6", "bc">> \o <<"a2">>)
      <4>1. <<"e6", "bc">> \in Words /\ <<"a2">> \in Words
        BY <2>3 DEF Words
      <4> QED BY <3>5, <4>1, ConcatAssociative DEF Words
    <3>11. P(Append(f, T!Cjk)) = Append(s, x)
      BY <2>2, <2>4, <2>7, <3>5, <3>6, <3>7, <3>8, <3>9, <3>10
    <3> QED BY <2>1, <2>4, <3>1, <3>7, <3>11 DEF X, P, f, g
  <2>8. CASE /\ ~(x = "a9" /\ st # << >> /\ T!Last(st) = "c3")
             /\ ~(x = "a2" /\ Len(st) > 1 /\ T!Last(st) = "bc" /\ T!Last(T!Front(st)) = "e6")
    <3>1. T!Utf8Next(st, x) = Append(st, x)
      BY <2>8 DEF T!Utf8Next
    <3>2. T!CharBytes(x, encoding) = <<x>>
      BY <2>3, Utf8Bytes
    <3>3. P(Append(st, x)) = Append(s, x) /\ Append(st, x) \in Words
      BY <2>2, <2>3, <2>4, <2>5, <3>2
    <3> QED BY <2>1, <2>4, <3>1, <3>3 DEF X, P
  <2> QED BY <2>6, <2>7, <2>8
<1> HIDE DEF X, P
<1>3. Seq(Plain) \subseteq X
  BY <1>1, <1>2, GrowAll
<1> QED BY <1>3 DEF X, P

\* What is written as UTF-8 is read as it was.
LEMMA Utf8Reads ==
    ASSUME NEW encoding \in Utf8s, NEW text \in Seq(T!Chars)
    PROVE  T!Payload(text, encoding) \in Seq(Plain) /\ T!Utf8Chars(T!Payload(text, encoding)) = text
<1> DEFINE P(t) == T!Payload(t, encoding)
           X == {t \in Seq(T!Chars) : P(t) \in Seq(Plain) /\ T!Utf8Chars(P(t)) = t}
<1>1. << >> \in X
  <2>1. T!Utf8Chars(<< >>) = << >>
    <3>1. << >> \in Words /\ T!CR \in Symbols
      BY Symbolic DEF Words
    <3> QED BY <3>1, Utf8Goes DEF Words
  <2>2. << >> \in Seq(T!Chars) /\ << >> \in Seq(Plain)
    OBVIOUS
  <2> QED BY <2>1, <2>2, PayloadStarts
<1>2. ASSUME NEW t \in Seq(T!Chars), t \in X, NEW x \in T!Chars PROVE Append(t, x) \in X
  <2> DEFINE b == P(t)
  <2>1. b \in Seq(Plain) /\ T!Utf8Chars(b) = t
    BY <1>2
  <2>2. /\ Append(t, x) \in Seq(T!Chars) /\ t \in Words /\ x \in Symbols
        /\ x \notin {"a9", "a2", "c3", "e6", "bc"} /\ x \in Plain \cup {T!EAcute, T!Cjk}
    BY PlainIs, CharsAreSymbols, SeqMonotonic, AppendProperties DEF Words
  <2>3. P(Append(t, x)) = b \o T!CharBytes(x, encoding)
    BY <2>2, PayloadGoes
  <2> HIDE DEF P, b, X
  <2>4. ASSUME NEW s \in Seq(Plain), NEW y \in Plain
        PROVE  /\ Append(s, y) \in Seq(Plain) /\ Append(s, y) = s \o <<y>> /\ <<y>> \in Seq(Plain)
               /\ T!Utf8Chars(Append(s, y)) = T!Utf8Next(T!Utf8Chars(s), y)
    BY AppendProperties, AppendIsConcat, Utf8Goes
  <2>5. "c3" \in Plain /\ "a9" \in Plain /\ "e6" \in Plain /\ "bc" \in Plain /\ "a2" \in Plain
    BY PlainIs
  <2>6. \A y \in Plain : y \in Symbols
    BY PlainIs
  <2>7. CASE x = T!EAcute
    <3>1. P(Append(t, x)) = b \o <<"c3", "a9">>
      BY <2>2, <2>3, <2>7, Utf8Bytes
    <3> DEFINE b1 == Append(b, "c3")
               b2 == Append(b1, "a9")
               t1 == Append(t, "c3")
    <3>2. b1 \in Seq(Plain) /\ b1 = b \o <<"c3">> /\ T!Utf8Chars(b1) = T!Utf8Next(t, "c3")
      BY <2>1, <2>4, <2>5
    <3>3. T!Utf8Next(t, "c3") = t1
      BY DEF T!Utf8Next
    <3>4. t1 \in Words /\ T!Front(t1) = t /\ T!Last(t1) = "c3" /\ t1 # << >>
      BY <2>2, <2>5, <2>6, LastIs, AppendProperties DEF Words
    <3> HIDE DEF b1, t1
    <3>5. b2 \in Seq(Plain) /\ b2 = b1 \o <<"a9">> /\ T!Utf8Chars(b2) = T!Utf8Next(t1, "a9")
      BY <2>4, <2>5, <3>2, <3>3
    <3> HIDE DEF b2
    <3>6. T!Utf8Next(t1, "a9") = Append(t, x)
      BY <2>7, <3>4 DEF T!Utf8Next
    <3>7. b2 = b \o <<"c3", "a9">>
      <4>1. (b \o <<"c3">>) \o <<"a9">> = b \o (<<"c3">> \o <<"a9">>)
        BY <2>1, <2>4, <2>5, ConcatAssociative
      <4>2. <<"c3">> \o <<"a9">> = <<"c3", "a9">>
        BY <2>5, TupleGrows
      <4> QED BY <3>2, <3>5, <4>1, <4>2
    <3> QED BY <2>2, <3>1, <3>5, <3>6, <3>7 DEF X
  <2>8. CASE x = T!Cjk
    <3>1. P(Append(t, x)) = b \o <<"e6", "bc", "a2">>
      BY <2>2, <2>3, <2>8, Utf8Bytes DEF T!Cjk, T!EAcute
    <3> DEFINE b1 == Append(b, "e6")
               b2 == Append(b1, "bc")
               b3 == Append(b2, "a2")
               t1 == Append(t, "e6")
               t2 == Append(t1, "bc")
    <3>2. b1 \in Seq(Plain) /\ b1 = b \o <<"e6">> /\ T!Utf8Chars(b1) = T!Utf8Next(t, "e6")
      BY <2>1, <2>4, <2>5
    <3>3. T!Utf8Next(t, "e6") = t1
      BY DEF T!Utf8Next
    <3>4. t1 \in Words /\ T!Front(t1) = t /\ T!Last(t1) = "e6" /\ Len(t1) > 0
      BY <2>2, <2>5, <2>6, LastIs, AppendProperties DEF Words
    <3> HIDE DEF b1, t1
    <3>5. b2 \in Seq(Plain) /\ b2 = b1 \o <<"bc">> /\ T!Utf8Chars(b2) = T!Utf8Next(t1, "bc")
      BY <2>4, <2>5, <3>2, <3>3
    <3>6. T!Utf8Next(t1, "bc") = t2
      BY DEF T!Utf8Next
    <3>7. t2 \in Words /\ T!Front(t2) = t1 /\ T!Last(t2) = "bc" /\ Len(t2) > 1
      <4>1. Len(t2) = Len(t1) + 1 /\ Len(t1) \in Nat
        BY <2>5, <2>6, <3>4, AppendProperties DEF Words
      <4>2. Len(t2) > 1
        BY <3>4, <4>1
      <4> QED BY <2>5, <2>6, <3>4, <4>2, LastIs, AppendProperties DEF Words
    <3> HIDE DEF b2, t2
    <3>8. b3 \in Seq(Plain) /\ b3 = b2 \o <<"a2">> /\ T!Utf8Chars(b3) = T!Utf8Next(t2, "a2")
      BY <2>4, <2>5, <3>5, <3>6
    <3> HIDE DEF b3
    <3>9. T!Utf8Next(t2, "a2") = Append(t, x)
      BY <2>8, <3>4, <3>7 DEF T!Utf8Next
    <3>10. b3 = b \o <<"e6", "bc", "a2">>
      <4>1. (b \o <<"e6">>) \o <<"bc">> = b \o (<<"e6">> \o <<"bc">>)
        BY <2>1, <2>4, <2>5, ConcatAssociative
      <4>2. <<"e6">> \o <<"bc">> = <<"e6", "bc">> /\ <<"e6", "bc">> \o <<"a2">> = <<"e6", "bc", "a2">>
        BY <2>5, TupleGrows
      <4>3. (b \o <<"e6", "bc">>) \o <<"a2">> = b \o (<<"e6", "bc">> \o <<"a2">>)
        <5>1. <<"e6", "bc">> \in Seq(Plain) /\ <<"a2">> \in Seq(Plain)
          BY <2>5
        <5> QED BY <2>1, <5>1, ConcatAssociative
      <4> QED BY <3>2, <3>5, <3>8, <4>1, <4>2, <4>3
    <3> QED BY <2>2, <3>1, <3>8, <3>9, <3>10 DEF X
  <2>9. CASE x # T!EAcute /\ x # T!Cjk
    <3>1. P(Append(t, x)) = b \o <<x>> /\ x \in Plain
      BY <2>2, <2>3, <2>9, Utf8Bytes
    <3>2. T!Utf8Next(t, x) = Append(t, x)
      BY <2>2 DEF T!Utf8Next
    <3> QED BY <2>1, <2>2, <2>4, <3>1, <3>2 DEF X
  <2> QED BY <2>7, <2>8, <2>9
<1> HIDE DEF X, P
<1>3. Seq(T!Chars) \subseteq X
  BY <1>1, <1>2, GrowAll
<1> QED BY <1>3 DEF X, P

\* UTF-16: two bytes for each character.
Wides == {"utf-16le", "utf-16be"}
Low(ch) == IF ch = T!Cjk THEN "22" ELSE ch
High(ch) == IF ch = T!Cjk THEN "6f" ELSE "00"
LEMMA WideBytes ==
    ASSUME NEW encoding \in Wides, NEW ch \in Symbols, NEW b, b = T!CharBytes(ch, encoding)
    PROVE  /\ b \in Words /\ Len(b) = 2
           /\ b[1] = IF encoding = "utf-16le" THEN Low(ch) ELSE High(ch)
           /\ b[2] = IF encoding = "utf-16le" THEN High(ch) ELSE Low(ch)
<1>1. b = IF encoding = "utf-16le" THEN <<Low(ch), High(ch)>> ELSE <<High(ch), Low(ch)>>
  BY DEF Wides, T!CharBytes, Low, High
<1>2. b \in Words
  BY CharBytesType
<1> QED BY <1>1, <1>2

LEMMA WidePayload ==
    ASSUME NEW encoding \in Wides, NEW text \in Words, NEW p, p = T!Payload(text, encoding)
    PROVE  /\ p \in Words /\ Len(p) = 2 * Len(text) /\ Len(text) \in Nat
           /\ \A i \in 1 .. Len(text) : /\ p[2 * i - 1] = T!CharBytes(text[i], encoding)[1]
                                        /\ p[2 * i] = T!CharBytes(text[i], encoding)[2]
<1> DEFINE P(t) == T!Payload(t, encoding)
           Good(t) == /\ Len(P(t)) = 2 * Len(t)
                      /\ \A i \in 1 .. Len(t) : /\ P(t)[2 * i - 1] = T!CharBytes(t[i], encoding)[1]
                                                /\ P(t)[2 * i] = T!CharBytes(t[i], encoding)[2]
           X == {t \in Words : Good(t)}
<1>1. << >> \in X
  <2>1. << >> \in Words /\ P(<< >>) = << >> /\ Len(<< >>) = 0
    BY PayloadStarts DEF Words
  <2> HIDE DEF P
  <2> QED BY <2>1
<1>2. ASSUME NEW t \in Words, t \in X, NEW x \in Symbols PROVE Append(t, x) \in X
  <2> DEFINE n == Len(t)
             r == Append(t, x)
             b == T!CharBytes(x, encoding)
             p0 == P(t)
  <2>1. r \in Words /\ Len(r) = n + 1 /\ n \in Nat /\ r[n + 1] = x /\ \A i \in 1 .. n : r[i] = t[i]
    BY AppendProperties DEF Words
  <2>2. P(r) = p0 \o b
    BY PayloadGoes
  <2>3. b \in Words /\ Len(b) = 2
    BY WideBytes
  <2>4. p0 \in Words
    BY PayloadIs
  <2>5. /\ Len(p0) = 2 * n
        /\ \A i \in 1 .. n : /\ p0[2 * i - 1] = T!CharBytes(t[i], encoding)[1]
                             /\ p0[2 * i] = T!CharBytes(t[i], encoding)[2]
    BY <1>2
  <2> HIDE DEF p0, r, b, n, P
  <2>6. /\ Len(p0 \o b) = 2 * n + 2
        /\ \A j \in 1 .. 2 * n + 2 : (p0 \o b)[j] = IF j <= 2 * n THEN p0[j] ELSE b[j - 2 * n]
    <3>1. /\ Len(p0 \o b) = Len(p0) + Len(b)
          /\ \A j \in 1 .. Len(p0) + Len(b) : (p0 \o b)[j] = IF j <= Len(p0) THEN p0[j] ELSE b[j - Len(p0)]
      BY <2>3, <2>4, ConcatProperties DEF Words
    <3>2. Len(p0) = 2 * n /\ Len(b) = 2
      BY <2>3, <2>5
    <3> QED BY <3>1, <3>2
  <2>7. ASSUME NEW i \in 1 .. n + 1
        PROVE  P(r)[2 * i - 1] = T!CharBytes(r[i], encoding)[1] /\ P(r)[2 * i] = T!CharBytes(r[i], encoding)[2]
    <3>1. CASE i \in 1 .. n
      <4>1. 2 * i - 1 \in 1 .. 2 * n + 2 /\ 2 * i \in 1 .. 2 * n + 2 /\ 2 * i - 1 <= 2 * n /\ 2 * i <= 2 * n
        BY <2>1, <3>1
      <4> QED BY <2>1, <2>2, <2>5, <2>6, <3>1, <4>1
    <3>2. CASE i = n + 1
      <4>1. /\ 2 * i - 1 \in 1 .. 2 * n + 2 /\ 2 * i \in 1 .. 2 * n + 2 /\ ~(2 * i - 1 <= 2 * n) /\ ~(2 * i <= 2 * n)
            /\ (2 * i - 1) - 2 * n = 1 /\ 2 * i - 2 * n = 2
        BY <2>1, <3>2
      <4>2. r[i] = x
        BY <2>1, <3>2
      <4> QED BY <2>2, <2>6, <4>1, <4>2 DEF b
    <3> QED BY <2>1, <3>1, <3>2
  <2>8. Len(P(r)) = 2 * Len(r)
    BY <2>1, <2>2, <2>6
  <2>9. Good(r)
    BY <2>1, <2>7, <2>8
  <2> HIDE DEF Good
  <2> QED BY <2>1, <2>9 DEF r
<1> HIDE DEF X
<1>3. Words \subseteq X
  BY <1>1, <1>2, GrowAll DEF Words
<1>4. Good(text)
  BY <1>3 DEF X
<1>5. P(text) \in Words /\ Len(text) \in Nat
  BY PayloadIs DEF Words
<1> QED BY <1>4, <1>5

LEMMA WideChar ==
    ASSUME NEW encoding \in Wides, NEW ch \in T!Chars, NEW b, NEW c, T!CharBytes(ch, encoding) = <<b, c>>,
           NEW low, low = IF encoding = "utf-16be" THEN c ELSE b
    PROVE  (IF low = "22" THEN T!Cjk ELSE low) = ch
<1>1. ch \in Symbols /\ ch # "22"
  BY CharsAreSymbols DEF T!Chars, T!CR, T!LF, T!EAcute, T!Cjk
<1> DEFINE bytes == T!CharBytes(ch, encoding)
<1>2. bytes[1] = b /\ bytes[2] = c
  OBVIOUS
<1> HIDE DEF bytes
<1>3. low = Low(ch)
  BY <1>1, <1>2, WideBytes DEF bytes, Wides
<1> QED BY <1>1, <1>3 DEF Low

\* What is read as UTF-16 is written as it was.
LEMMA WideWrites ==
    ASSUME NEW encoding \in Wides, NEW bytes \in Seq(T!Bytes), T!IsUtf16(bytes, encoding),
           NEW text, text = T!Utf16Chars(bytes, encoding)
    PROVE  text \in Seq(T!Chars) /\ T!Payload(text, encoding) = bytes
<1> DEFINE n == Len(bytes) \div 2
<1>1. n \in Nat /\ Len(bytes) = 2 * n /\ bytes \in Words
  <2>1. Len(bytes) \in Nat /\ bytes \in Words
    BY CharsAreSymbols, SeqMonotonic DEF Words
  <2> QED BY <2>1 DEF T!IsUtf16
<1>2. ASSUME NEW i \in 1 .. n
      PROVE  \E ch \in T!Chars : T!CharBytes(ch, encoding) = <<bytes[2 * i - 1], bytes[2 * i]>>
  BY DEF T!IsUtf16
<1>3. text = [i \in 1 .. n |->
                 IF bytes[2 * i - (IF encoding = "utf-16be" THEN 0 ELSE 1)] = "22" THEN T!Cjk
                 ELSE bytes[2 * i - (IF encoding = "utf-16be" THEN 0 ELSE 1)]]
  BY DEF T!Utf16Chars
<1> HIDE DEF n
<1>4. ASSUME NEW i \in 1 .. n
      PROVE  text[i] \in T!Chars /\ T!CharBytes(text[i], encoding) = <<bytes[2 * i - 1], bytes[2 * i]>>
  <2>1. PICK ch \in T!Chars : T!CharBytes(ch, encoding) = <<bytes[2 * i - 1], bytes[2 * i]>>
    BY <1>2
  <2> DEFINE low == bytes[2 * i - (IF encoding = "utf-16be" THEN 0 ELSE 1)]
  <2>2. low = IF encoding = "utf-16be" THEN bytes[2 * i] ELSE bytes[2 * i - 1]
    <3>1. 2 * i - 0 = 2 * i
      BY <1>1
    <3> QED BY <3>1
  <2>3. text[i] = IF low = "22" THEN T!Cjk ELSE low
    BY <1>3
  <2> HIDE DEF low
  <2>4. text[i] = ch
    BY <2>1, <2>2, <2>3, WideChar
  <2> QED BY <2>1, <2>4
<1>5. text \in Seq(T!Chars) /\ Len(text) = n
  <2>1. text = [i \in 1 .. n |-> text[i]]
    BY <1>3
  <2>2. text \in [1 .. n -> T!Chars]
    BY <1>4, <2>1
  <2> QED BY <1>1, <2>2
<1>6. text \in Words
  BY <1>5, CharsAreSymbols, SeqMonotonic DEF Words
<1> DEFINE p == T!Payload(text, encoding)
<1>7. /\ p \in Words /\ Len(p) = 2 * n
      /\ \A i \in 1 .. n : p[2 * i - 1] = bytes[2 * i - 1] /\ p[2 * i] = bytes[2 * i]
  <2>1. ASSUME NEW i \in 1 .. n
        PROVE  /\ T!CharBytes(text[i], encoding)[1] = bytes[2 * i - 1]
               /\ T!CharBytes(text[i], encoding)[2] = bytes[2 * i]
    <3>1. T!CharBytes(text[i], encoding) = <<bytes[2 * i - 1], bytes[2 * i]>>
      BY <1>4
    <3>2. <<bytes[2 * i - 1], bytes[2 * i]>>[1] = bytes[2 * i - 1] /\ <<bytes[2 * i - 1], bytes[2 * i]>>[2] = bytes[2 * i]
      OBVIOUS
    <3> QED BY <3>1, <3>2
  <2>2. /\ p \in Words /\ Len(p) = 2 * Len(text)
        /\ \A i \in 1 .. Len(text) : /\ p[2 * i - 1] = T!CharBytes(text[i], encoding)[1]
                                     /\ p[2 * i] = T!CharBytes(text[i], encoding)[2]
    BY <1>6, WidePayload
  <2> HIDE DEF p
  <2> QED BY <1>5, <2>1, <2>2
<1> HIDE DEF p
<1>8. ASSUME NEW j \in 1 .. 2 * n PROVE p[j] = bytes[j]
  <2>1. \E i \in 1 .. n : j = 2 * i - 1 \/ j = 2 * i
    <3>1. CASE j % 2 = 0
      <4>1. j \div 2 \in 1 .. n /\ j = 2 * (j \div 2)
        BY <1>1, <3>1
      <4> QED BY <4>1
    <3>2. CASE j % 2 # 0
      <4>1. j % 2 = 1
        BY <1>1, <3>2
      <4>2. (j \div 2) + 1 \in 1 .. n /\ j = 2 * ((j \div 2) + 1) - 1
        BY <1>1, <4>1
      <4> QED BY <4>2
    <3> QED BY <3>1, <3>2
  <2> QED BY <1>7, <2>1
<1>9. p = bytes
  BY <1>1, <1>7, <1>8, SeqEqual DEF Words
<1> QED BY <1>5, <1>9 DEF p

\* What is written as UTF-16 is read as it was.
LEMMA WideReads ==
    ASSUME NEW encoding \in Wides, NEW text \in Seq(T!Chars), NEW p, p = T!Payload(text, encoding)
    PROVE  T!IsUtf16(p, encoding) /\ T!Utf16Chars(p, encoding) = text
<1> DEFINE n == Len(text)
<1>1. text \in Words /\ n \in Nat /\ \A i \in 1 .. n : text[i] \in T!Chars /\ text[i] \in Symbols
  BY CharsAreSymbols, SeqMonotonic DEF Words
<1>2. /\ p \in Words /\ Len(p) = 2 * n
      /\ \A i \in 1 .. n : /\ p[2 * i - 1] = T!CharBytes(text[i], encoding)[1]
                           /\ p[2 * i] = T!CharBytes(text[i], encoding)[2]
  BY <1>1, WidePayload
<1>3. Len(p) % 2 = 0 /\ Len(p) \div 2 = n
  BY <1>1, <1>2
<1>4. text = [i \in 1 .. n |-> text[i]]
  OBVIOUS
<1> HIDE DEF n
<1>5. ASSUME NEW i \in 1 .. n PROVE T!CharBytes(text[i], encoding) = <<p[2 * i - 1], p[2 * i]>>
  <2> DEFINE b == T!CharBytes(text[i], encoding)
             c == <<p[2 * i - 1], p[2 * i]>>
  <2>1. b \in Words /\ Len(b) = 2 /\ b[1] = p[2 * i - 1] /\ b[2] = p[2 * i]
    BY <1>1, <1>2, WideBytes
  <2> HIDE DEF b
  <2>2. b[1] \in Symbols /\ b[2] \in Symbols
    <3>1. 1 \in 1 .. Len(b) /\ 2 \in 1 .. Len(b) /\ b \in Seq(Symbols)
      BY <2>1 DEF Words
    <3> QED BY ONLY <3>1, ElementOfSeq
  <2>3. c \in Seq(Symbols) /\ Len(c) = 2 /\ c[1] = b[1] /\ c[2] = b[2]
    BY <2>1, <2>2
  <2> HIDE DEF c
  <2>4. \A j \in 1 .. 2 : b[j] = c[j]
    <3>1. \A j \in 1 .. 2 : j = 1 \/ j = 2
      OBVIOUS
    <3> QED BY <2>3, <3>1
  <2>5. b = c
    BY <2>1, <2>3, <2>4, SeqEqual DEF Words
  <2> QED BY <2>5 DEF b, c
<1>6. T!IsUtf16(p, encoding)
  BY <1>1, <1>3, <1>5 DEF T!IsUtf16
<1>7. ASSUME NEW i \in 1 .. n
      PROVE  (IF p[2 * i - (IF encoding = "utf-16be" THEN 0 ELSE 1)] = "22" THEN T!Cjk
              ELSE p[2 * i - (IF encoding = "utf-16be" THEN 0 ELSE 1)]) = text[i]
  <2> DEFINE low == p[2 * i - (IF encoding = "utf-16be" THEN 0 ELSE 1)]
  <2>1. low = IF encoding = "utf-16be" THEN p[2 * i] ELSE p[2 * i - 1]
    <3>1. 2 * i - 0 = 2 * i
      BY <1>1
    <3> QED BY <3>1
  <2> HIDE DEF low
  <2>2. (IF low = "22" THEN T!Cjk ELSE low) = text[i]
    BY <1>1, <1>5, <2>1, WideChar
  <2> QED BY <2>2 DEF low
<1>8. T!Utf16Chars(p, encoding) = text
  BY <1>3, <1>4, <1>7 DEF T!Utf16Chars
<1> QED BY <1>6, <1>8

\* In windows-1252 a byte is a character.
LEMMA SinglePayload ==
    ASSUME NEW text \in Seq(Symbols \ {T!Cjk})
    PROVE  T!Payload(text, "windows-1252") = text
<1> DEFINE S == Symbols \ {T!Cjk}
           X == {t \in Seq(S) : T!Payload(t, "windows-1252") = t}
<1>1. << >> \in X
  BY PayloadStarts
<1>2. ASSUME NEW t \in Seq(S), t \in X, NEW x \in S PROVE Append(t, x) \in X
  <2>1. t \in Words /\ x \in Symbols /\ Append(t, x) \in Seq(S) /\ Append(t, x) = t \o <<x>>
    BY SeqMonotonic, AppendProperties, AppendIsConcat DEF Words
  <2>2. T!CharBytes(x, "windows-1252") = <<x>>
    BY DEF T!CharBytes
  <2>3. T!Payload(Append(t, x), "windows-1252") = T!Payload(t, "windows-1252") \o <<x>>
    BY <2>1, <2>2, PayloadGoes
  <2> QED BY <1>2, <2>1, <2>3
<1> HIDE DEF X, S
<1>3. Seq(S) \subseteq X
  BY <1>1, <1>2, GrowAll
<1> QED BY <1>3 DEF X, S

\* The mark at the front, read and written.
LEMMA MarkRead ==
    ASSUME NEW S, NEW bytes \in Seq(S), NEW bom \in Seq(S), bom # << >>
    PROVE  T!IsPrefix(bom, bytes) =>
             /\ SubSeq(bytes, Len(bom) + 1, Len(bytes)) \in Seq(S)
             /\ bytes = bom \o SubSeq(bytes, Len(bom) + 1, Len(bytes))
             /\ bytes[1] = bom[1] /\ bytes # << >>
<1> DEFINE n == Len(bytes)
           m == Len(bom)
           rest == SubSeq(bytes, m + 1, n)
<1>1. m \in Nat \ {0} /\ n \in Nat
  OBVIOUS
<1> SUFFICES ASSUME T!IsPrefix(bom, bytes)
             PROVE  rest \in Seq(S) /\ bytes = bom \o rest /\ bytes[1] = bom[1] /\ bytes # << >>
  OBVIOUS
<1>2. m <= n /\ SubSeq(bom, 1, m) = SubSeq(bytes, 1, m)
  BY DEF T!IsPrefix
<1>3. rest \in Seq(S)
  <2>1. \A i \in m + 1 .. n : bytes[i] \in S
    BY <1>1
  <2>2. m + 1 \in Int /\ n \in Int
    BY <1>1
  <2> HIDE DEF n, m
  <2> QED BY <2>1, <2>2, SubSeqProperties
<1>4. bom = SubSeq(bytes, 1, m) /\ bytes = SubSeq(bytes, 1, n)
  BY <1>2, SubSeqFull
<1>5. SubSeq(bytes, 1, m) \o SubSeq(bytes, m + 1, n) = SubSeq(bytes, 1, n)
  <2>1. 1 \in 1 .. n + 1 /\ m \in 1 - 1 .. n /\ n \in m .. n
    BY <1>1, <1>2
  <2> QED BY <2>1, ConcatAdjacentSubSeq
<1>6. bytes[1] = bom[1] /\ bytes # << >>
  <2>1. bytes = bom \o rest
    BY <1>4, <1>5
  <2> HIDE DEF rest
  <2>2. (bom \o rest)[1] = bom[1]
    <3>1. 1 \in 1 .. Len(bom) + Len(rest) /\ 1 <= Len(bom)
      BY <1>1, <1>3
    <3> QED BY <1>3, <3>1, ConcatProperties
  <2> QED BY <1>1, <1>2, <2>1, <2>2
<1> QED BY <1>3, <1>4, <1>5, <1>6

LEMMA MarkWritten ==
    ASSUME NEW S, NEW bom \in Seq(S), NEW rest \in Seq(S), bom # << >>, NEW bytes, bytes = bom \o rest
    PROVE  /\ T!IsPrefix(bom, bytes) /\ SubSeq(bytes, Len(bom) + 1, Len(bytes)) = rest
           /\ bytes[1] = bom[1] /\ bytes \in Seq(S)
<1>1. /\ bytes \in Seq(S) /\ Len(bytes) = Len(bom) + Len(rest) /\ Len(bom) \in Nat \ {0} /\ Len(rest) \in Nat
      /\ \A i \in 1 .. Len(bom) + Len(rest) : bytes[i] = IF i <= Len(bom) THEN bom[i] ELSE rest[i - Len(bom)]
  BY ConcatProperties
<1>2. SubSeq(bytes, 1, Len(bom)) = SubSeq(bom, 1, Len(bom))
  <2>1. 1 \in 1 .. Len(bom) /\ Len(bom) \in 1 .. Len(bom)
    BY <1>1
  <2> QED BY <2>1, SubSeqOfConcat1
<1>3. SubSeq(bytes, Len(bom) + 1, Len(bytes)) = rest
  <2>1. CASE Len(rest) = 0
    <3>1. rest = << >>
      BY <2>1
    <3>2. Len(bytes) < Len(bom) + 1 /\ Len(bytes) \in Int /\ Len(bom) + 1 \in Int
      BY <1>1, <2>1
    <3>3. SubSeq(bytes, Len(bom) + 1, Len(bytes)) = << >>
      BY ONLY <3>2, SubSeqEmpty
    <3> QED BY ONLY <3>1, <3>3
  <2>2. CASE Len(rest) # 0
    <3>1. /\ Len(bom) + 1 \in Len(bom) + 1 .. Len(bom) + Len(rest)
          /\ Len(bytes) \in Len(bom) + 1 .. Len(bom) + Len(rest)
          /\ (Len(bom) + 1) - Len(bom) = 1 /\ Len(bytes) - Len(bom) = Len(rest)
      BY <1>1, <2>2
    <3>2. SubSeq(bom \o rest, Len(bom) + 1, Len(bytes))
          = SubSeq(rest, (Len(bom) + 1) - Len(bom), Len(bytes) - Len(bom))
      BY <3>1, SubSeqOfConcat2
    <3>3. SubSeq(rest, 1, Len(rest)) = rest
      BY SubSeqFull
    <3> QED BY <3>1, <3>2, <3>3
  <2> QED BY <2>1, <2>2
<1>4. bytes[1] = bom[1]
  BY <1>1
<1>5. Len(bom) <= Len(bytes) /\ bytes \in Seq(S)
  BY <1>1
<1>6. T!IsPrefix(bom, bytes)
  BY ONLY <1>2, <1>5 DEF T!IsPrefix
<1> QED BY ONLY <1>3, <1>4, <1>5, <1>6

Marked == {"utf-8-bom", "utf-16le", "utf-16be"}
LEMMA BomIs ==
    /\ T!Bom("utf-8-bom") = <<"ef", "bb", "bf">> /\ T!Bom("utf-16le") = <<"ff", "fe">>
    /\ T!Bom("utf-16be") = <<"fe", "ff">> /\ T!Bom("utf-8") = << >> /\ T!Bom("windows-1252") = << >>
    /\ \A encoding \in Marked : T!Bom(encoding) \in Seq(T!Bytes) /\ T!Bom(encoding) # << >>
    /\ Len(T!Bom("utf-8-bom")) = 3 /\ Len(T!Bom("utf-16le")) = 2 /\ Len(T!Bom("utf-16be")) = 2
    /\ T!Bom("utf-8-bom")[1] = "ef" /\ T!Bom("utf-16le")[1] = "ff" /\ T!Bom("utf-16be")[1] = "fe"
<1>1. {"ef", "bb", "bf", "ff", "fe"} \subseteq T!Bytes
  BY DEF T!Bytes
<1>2. /\ T!Bom("utf-8-bom") = <<"ef", "bb", "bf">> /\ T!Bom("utf-16le") = <<"ff", "fe">>
      /\ T!Bom("utf-16be") = <<"fe", "ff">> /\ T!Bom("utf-8") = << >> /\ T!Bom("windows-1252") = << >>
  BY DEF T!Bom
<1>3. ASSUME NEW S, NEW x \in S, NEW y \in S, NEW z \in S
      PROVE  /\ <<x, y, z>> \in Seq(S) /\ <<x, y, z>> # << >> /\ <<x, y, z>>[1] = x /\ Len(<<x, y, z>>) = 3
             /\ <<x, y>> \in Seq(S) /\ <<x, y>> # << >> /\ <<x, y>>[1] = x /\ Len(<<x, y>>) = 2
  OBVIOUS
<1>4. <<"ef", "bb", "bf">> \in Seq(T!Bytes) /\ <<"ff", "fe">> \in Seq(T!Bytes) /\ <<"fe", "ff">> \in Seq(T!Bytes)
  BY <1>1, <1>3
<1>5. /\ <<"ef", "bb", "bf">> # << >> /\ <<"ff", "fe">> # << >> /\ <<"fe", "ff">> # << >>
      /\ <<"ef", "bb", "bf">>[1] = "ef" /\ <<"ff", "fe">>[1] = "ff" /\ <<"fe", "ff">>[1] = "fe"
      /\ Len(<<"ef", "bb", "bf">>) = 3 /\ Len(<<"ff", "fe">>) = 2 /\ Len(<<"fe", "ff">>) = 2
  BY <1>1, <1>3
<1> QED BY <1>2, <1>4, <1>5 DEF Marked

LEMMA IsUtf8Gives ==
    ASSUME NEW bytes \in Seq(T!Bytes), T!IsUtf8(bytes), NEW encoding \in Utf8s
    PROVE  T!Utf8Chars(bytes) \in Seq(T!Chars) /\ T!Payload(T!Utf8Chars(bytes), encoding) = bytes
<1> DEFINE text == T!Utf8Chars(bytes)
<1>1. bytes \in Seq(Plain)
  <2>1. \A i \in 1 .. Len(bytes) : bytes[i] \in Plain
    BY DEF T!IsUtf8, T!Range, Plain
  <2>2. bytes \in [1 .. Len(bytes) -> Plain] /\ Len(bytes) \in Nat
    BY <2>1
  <2> QED BY <2>2
<1>2. text \in Words /\ T!Payload(text, encoding) = bytes
  BY <1>1, Utf8Writes
<1> HIDE DEF text
<1>3. \A i \in 1 .. Len(text) : text[i] \in T!Chars
  BY <1>2 DEF T!IsUtf8, T!Range, Words, text
<1>4. text \in [1 .. Len(text) -> T!Chars] /\ Len(text) \in Nat
  BY <1>2, <1>3 DEF Words
<1> QED BY <1>2, <1>4 DEF text

\* What is read is written as it was.
LEMMA DecodeIs ==
    ASSUME NEW bytes \in Seq(T!Bytes), NEW d, d = T!Decode(bytes), d # T!Undecoded
    PROVE  /\ d.text \in Words /\ T!Encode(d.text, d.encoding) = bytes
           /\ \/ d.encoding = "windows-1252" /\ d.text = bytes
              \/ d.encoding \in Utf8s \cup Wides /\ d.text \in Seq(T!Chars)
<1> DEFINE after(n) == SubSeq(bytes, n + 1, Len(bytes))
           Marks(e) == T!IsPrefix(T!Bom(e), bytes)
           read(t, e) == [text |-> t, encoding |-> e]
<1>1. d = IF Marks("utf-8-bom")
          THEN IF T!IsUtf8(after(3)) THEN read(T!Utf8Chars(after(3)), "utf-8-bom") ELSE T!Undecoded
          ELSE IF Marks("utf-16le")
          THEN IF T!IsUtf16(after(2), "utf-16le")
               THEN read(T!Utf16Chars(after(2), "utf-16le"), "utf-16le") ELSE T!Undecoded
          ELSE IF Marks("utf-16be")
          THEN IF T!IsUtf16(after(2), "utf-16be")
               THEN read(T!Utf16Chars(after(2), "utf-16be"), "utf-16be") ELSE T!Undecoded
          ELSE IF T!IsUtf8(bytes) THEN read(T!Utf8Chars(bytes), "utf-8")
          ELSE read(bytes, "windows-1252")
  BY DEF T!Decode
<1>2. \A t, e : read(t, e).text = t /\ read(t, e).encoding = e
  OBVIOUS
<1>3. \A t \in Seq(T!Chars) : t \in Words
  BY CharsAreSymbols, SeqMonotonic DEF Words
<1>4. ASSUME NEW e \in Marked, Marks(e)
      PROVE  after(Len(T!Bom(e))) \in Seq(T!Bytes) /\ bytes = T!Bom(e) \o after(Len(T!Bom(e)))
  BY <1>4, BomIs, MarkRead
<1> HIDE DEF after, Marks, read
<1>5. CASE Marks("utf-8-bom")
  <2>1. "utf-8-bom" \in Marked /\ "utf-8-bom" \in Utf8s
    BY DEF Marked, Utf8s
  <2>2. after(3) \in Seq(T!Bytes) /\ bytes = T!Bom("utf-8-bom") \o after(3)
    BY <1>4, <1>5, <2>1, BomIs
  <2>3. T!IsUtf8(after(3)) /\ d = read(T!Utf8Chars(after(3)), "utf-8-bom")
    BY <1>1, <1>5
  <2>4. d.text \in Seq(T!Chars) /\ T!Payload(d.text, "utf-8-bom") = after(3) /\ d.encoding = "utf-8-bom"
    BY <1>2, <2>1, <2>2, <2>3, IsUtf8Gives
  <2> QED BY <1>3, <2>1, <2>2, <2>4 DEF T!Encode
<1>6. ASSUME NEW e \in Wides, Marks(e), T!IsUtf16(after(2), e), d = read(T!Utf16Chars(after(2), e), e)
      PROVE  d.text \in Seq(T!Chars) /\ d.encoding = e /\ T!Encode(d.text, e) = bytes
  <2>1. e \in Marked /\ Len(T!Bom(e)) = 2
    BY BomIs DEF Marked, Wides
  <2>2. after(2) \in Seq(T!Bytes) /\ bytes = T!Bom(e) \o after(2)
    BY <1>4, <1>6, <2>1
  <2>3. d.text = T!Utf16Chars(after(2), e) /\ d.encoding = e
    BY <1>2, <1>6
  <2>4. d.text \in Seq(T!Chars) /\ T!Payload(d.text, e) = after(2)
    BY <1>6, <2>2, <2>3, WideWrites
  <2> QED BY <2>2, <2>3, <2>4 DEF T!Encode
<1>7. CASE ~Marks("utf-8-bom") /\ (Marks("utf-16le") \/ Marks("utf-16be"))
  <2>1. "utf-16le" \in Wides /\ "utf-16be" \in Wides
    BY DEF Wides
  <2>2. PICK e \in Wides : Marks(e) /\ T!IsUtf16(after(2), e) /\ d = read(T!Utf16Chars(after(2), e), e)
    BY <1>1, <1>7, <2>1
  <2>3. d.text \in Seq(T!Chars) /\ d.encoding = e /\ T!Encode(d.text, e) = bytes
    BY <1>6, <2>2
  <2> QED BY <1>3, <2>3
<1>8. CASE ~Marks("utf-8-bom") /\ ~Marks("utf-16le") /\ ~Marks("utf-16be")
  <2>1. CASE T!IsUtf8(bytes)
    <3>1. d = read(T!Utf8Chars(bytes), "utf-8") /\ "utf-8" \in Utf8s
      BY <1>1, <1>8, <2>1 DEF Utf8s
    <3>2. d.text \in Seq(T!Chars) /\ T!Payload(d.text, "utf-8") = bytes /\ d.encoding = "utf-8"
      BY <1>2, <2>1, <3>1, IsUtf8Gives
    <3>3. << >> \o bytes = bytes
      BY ConcatEmptySeq
    <3> QED BY <1>3, <3>1, <3>2, <3>3, BomIs DEF T!Encode
  <2>2. CASE ~T!IsUtf8(bytes)
    <3>1. d = read(bytes, "windows-1252")
      BY <1>1, <1>8, <2>2
    <3>2. d.text = bytes /\ d.encoding = "windows-1252"
      BY <1>2, <3>1
    <3>3. bytes \in Seq(Symbols \ {T!Cjk}) /\ bytes \in Words
      <4>1. T!Bytes \subseteq Symbols \ {T!Cjk} /\ T!Bytes \subseteq Symbols
        BY DEF Symbols, T!Bytes, T!Cjk, T!EAcute, T!CR, T!LF
      <4> QED BY <4>1, SeqMonotonic DEF Words
    <3>4. T!Payload(bytes, "windows-1252") = bytes /\ << >> \o bytes = bytes
      BY <3>3, SinglePayload, ConcatEmptySeq
    <3> QED BY <3>2, <3>3, <3>4, BomIs DEF T!Encode
  <2> QED BY <2>1, <2>2
<1> QED BY <1>5, <1>7, <1>8

\* A text of characters that all encodings but windows-1252 have is read as it was written.
LEMMA EncodeReads ==
    ASSUME NEW text \in Seq(T!Chars), NEW encoding \in Utf8s \cup Wides,
           NEW bytes, bytes = T!Encode(text, encoding)
    PROVE  T!Decode(bytes).text = text
<1> DEFINE p == T!Payload(text, encoding)
           bom == T!Bom(encoding)
           after(n) == SubSeq(bytes, n + 1, Len(bytes))
           Marks(e) == T!IsPrefix(T!Bom(e), bytes)
           read(t, e) == [text |-> t, encoding |-> e]
<1>1. T!Decode(bytes) =
          IF Marks("utf-8-bom")
          THEN IF T!IsUtf8(after(3)) THEN read(T!Utf8Chars(after(3)), "utf-8-bom") ELSE T!Undecoded
          ELSE IF Marks("utf-16le")
          THEN IF T!IsUtf16(after(2), "utf-16le")
               THEN read(T!Utf16Chars(after(2), "utf-16le"), "utf-16le") ELSE T!Undecoded
          ELSE IF Marks("utf-16be")
          THEN IF T!IsUtf16(after(2), "utf-16be")
               THEN read(T!Utf16Chars(after(2), "utf-16be"), "utf-16be") ELSE T!Undecoded
          ELSE IF T!IsUtf8(bytes) THEN read(T!Utf8Chars(bytes), "utf-8")
          ELSE read(bytes, "windows-1252")
  BY DEF T!Decode
<1>2. \A t, e : read(t, e).text = t
  OBVIOUS
<1>3. bytes = bom \o p /\ p \in Words /\ text \in Words
  <2>1. text \in Words
    BY CharsAreSymbols, SeqMonotonic DEF Words
  <2> QED BY <2>1, PayloadIs DEF T!Encode
<1>4. \A e \in Marked : T!Bom(e) \in Words /\ T!Bom(e) # << >>
  BY BomIs, CharsAreSymbols, SeqMonotonic DEF Words
<1>5. encoding \in Marked =>
        /\ after(Len(bom)) = p /\ Marks(encoding) /\ bytes \in Words
        /\ bytes[1] = bom[1]
  <2> SUFFICES ASSUME encoding \in Marked
               PROVE  after(Len(bom)) = p /\ Marks(encoding) /\ bytes \in Words /\ bytes[1] = bom[1]
    OBVIOUS
  <2>1. bom \in Words /\ bom # << >>
    BY <1>4
  <2> HIDE DEF bom, p
  <2>2. /\ T!IsPrefix(bom, bytes) /\ SubSeq(bytes, Len(bom) + 1, Len(bytes)) = p
        /\ bytes[1] = bom[1] /\ bytes \in Seq(Symbols)
    BY <1>3, <2>1, MarkWritten DEF Words
  <2> QED BY <2>2 DEF Words, bom
<1>6. \A e \in Marked : Marks(e) /\ bytes \in Words => bytes # << >> /\ bytes[1] = T!Bom(e)[1]
  BY <1>4, MarkRead DEF Words
<1>7. ASSUME encoding \in Utf8s PROVE T!IsUtf8(p) /\ T!Utf8Chars(p) = text
  <2>1. p \in Seq(Plain) /\ T!Utf8Chars(p) = text
    BY <1>7, Utf8Reads
  <2> HIDE DEF p
  <2>2. T!Range(text) \subseteq T!Chars
    BY DEF T!Range
  <2>3. T!EAcute \notin T!Range(p)
    BY <2>1 DEF T!Range, Plain
  <2> QED BY <2>1, <2>2, <2>3 DEF T!IsUtf8
<1>8. ASSUME encoding \in Wides PROVE T!IsUtf16(p, encoding) /\ T!Utf16Chars(p, encoding) = text
  BY <1>8, WideReads
<1>9. ASSUME encoding \in Utf8s, p # << >> PROVE p[1] \notin {"ef", "ff", "fe"}
  <2> DEFINE S == {"a", "b", T!CR, T!LF, "c3", "a9", "e6", "bc", "a2"}
  <2>1. \A i \in 1 .. Len(text) : T!CharBytes(text[i], encoding) \in Seq(S)
    <3> SUFFICES ASSUME NEW i \in 1 .. Len(text) PROVE T!CharBytes(text[i], encoding) \in Seq(S)
      OBVIOUS
    <3>1. text[i] \in T!Chars /\ text[i] \in Symbols
      BY CharsAreSymbols
    <3>2. ASSUME NEW x \in S, NEW y \in S, NEW z \in S
          PROVE  <<x>> \in Seq(S) /\ <<x, y>> \in Seq(S) /\ <<x, y, z>> \in Seq(S)
      OBVIOUS
    <3>3. "c3" \in S /\ "a9" \in S /\ "e6" \in S /\ "bc" \in S /\ "a2" \in S
      OBVIOUS
    <3>4. text[i] = T!EAcute \/ text[i] = T!Cjk \/ text[i] \in S
      BY <3>1 DEF T!Chars
    <3> HIDE DEF S
    <3> QED BY <1>9, <3>1, <3>2, <3>3, <3>4, Utf8Bytes
  <2>2. p = Flat(Blocks(text, encoding), Len(text)) /\ Len(text) \in Nat /\ DOMAIN text = 1 .. Len(text)
    BY <1>3, PayloadIs
  <2>3. p \in Seq(S)
    <3> HIDE DEF S, p
    <3>1. \A k \in 1 .. Len(text) : Blocks(text, encoding)[k] \in Seq(S)
      BY <2>1, <2>2 DEF Blocks
    <3>2. \A k \in 0 .. Len(text) : Flat(Blocks(text, encoding), k) \in Seq(S)
      BY <2>2, <3>1, FlatType
    <3> QED BY <2>2, <3>2
  <2> HIDE DEF p, S
  <2>4. 1 \in 1 .. Len(p)
    BY <1>9, <2>3
  <2>5. p[1] \in S
    BY <2>3, <2>4, ElementOfSeq
  <2> QED BY <2>5 DEF S, T!CR, T!LF
<1> HIDE DEF p, bom, after, Marks, read
<1>10. "ef" # "ff" /\ "ef" # "fe" /\ "ff" # "fe"
  OBVIOUS
<1>11. CASE encoding = "utf-8-bom"
  <2>1. encoding \in Marked /\ encoding \in Utf8s /\ Len(bom) = 3
    BY <1>11, BomIs DEF Marked, Utf8s, bom
  <2>2. after(3) = p /\ Marks("utf-8-bom")
    BY <1>5, <1>11, <2>1
  <2> QED BY <1>1, <1>2, <1>7, <2>1, <2>2
<1>12. CASE encoding = "utf-16le"
  <2>1. encoding \in Marked /\ encoding \in Wides /\ Len(bom) = 2 /\ bom[1] = "ff" /\ "utf-8-bom" \in Marked
    BY <1>12, BomIs DEF Marked, Wides, bom
  <2>2. after(2) = p /\ Marks("utf-16le") /\ bytes[1] = "ff" /\ bytes \in Words
    BY <1>5, <1>12, <2>1
  <2>3. ~Marks("utf-8-bom")
    BY <1>6, <1>10, <2>1, <2>2, BomIs
  <2> QED BY <1>1, <1>2, <1>8, <1>12, <2>1, <2>2, <2>3
<1>13. CASE encoding = "utf-16be"
  <2>1. /\ encoding \in Marked /\ encoding \in Wides /\ Len(bom) = 2 /\ bom[1] = "fe"
        /\ "utf-8-bom" \in Marked /\ "utf-16le" \in Marked
    BY <1>13, BomIs DEF Marked, Wides, bom
  <2>2. after(2) = p /\ Marks("utf-16be") /\ bytes[1] = "fe" /\ bytes \in Words
    BY <1>5, <1>13, <2>1
  <2>3. ~Marks("utf-8-bom") /\ ~Marks("utf-16le")
    BY <1>6, <1>10, <2>1, <2>2, BomIs
  <2> QED BY <1>1, <1>2, <1>8, <1>13, <2>1, <2>2, <2>3
<1>14. CASE encoding = "utf-8"
  <2>1. encoding \in Utf8s /\ bytes = p
    <3>1. bom = << >>
      BY <1>14, BomIs DEF bom
    <3> QED BY <1>3, <1>14, <3>1, ConcatEmptySeq DEF Utf8s, Words
  <2>2. \A e \in Marked : T!Bom(e)[1] \in {"ef", "ff", "fe"}
    BY BomIs DEF Marked
  <2>3. \A e \in Marked : ~Marks(e)
    BY <1>3, <1>6, <1>9, <2>1, <2>2
  <2>4. ~Marks("utf-8-bom") /\ ~Marks("utf-16le") /\ ~Marks("utf-16be")
    BY <2>3 DEF Marked
  <2> QED BY <1>1, <1>2, <1>7, <2>1, <2>4
<1> QED BY <1>11, <1>12, <1>13, <1>14 DEF Utf8s, Wides

-----------------------------------------------------------------------------
(* Where a text's characters are in the bytes of a file.                   *)

\* The bytes of the first k characters, and how far they reach.
Begun(text, encoding, k) == Flat(Blocks(text, encoding), k)
Reach(text, encoding, bom, k) == Len(bom) + Len(Begun(text, encoding, k))

LEMMA BegunGoes ==
    ASSUME NEW text \in Words, NEW encoding
    PROVE  /\ Begun(text, encoding, 0) = << >>
           /\ Begun(text, encoding, Len(text)) = T!Payload(text, encoding)
           /\ \A k \in 0 .. Len(text) : Begun(text, encoding, k) \in Words
           /\ \A k \in 1 .. Len(text) :
                 /\ k - 1 \in 0 .. Len(text) /\ k \in 0 .. Len(text) /\ text[k] \in Symbols
                 /\ Begun(text, encoding, k) = Begun(text, encoding, k - 1) \o T!CharBytes(text[k], encoding)
<1> DEFINE n == Len(text)
           xs == Blocks(text, encoding)
<1>1. n \in Nat /\ DOMAIN text = 1 .. n /\ \A i \in 1 .. n : text[i] \in Symbols
  BY DEF Words
<1>2. \A k \in 1 .. n : xs[k] = T!CharBytes(text[k], encoding) /\ xs[k] \in Words
  BY <1>1, CharBytesType DEF Blocks
<1> HIDE DEF xs, n
<1>3. Flat(xs, 0) = << >>
  BY FlatGoes
<1>4. \A k \in 0 .. n : Flat(xs, k) \in Words
  BY <1>1, <1>2, FlatType DEF Words
<1>5. ASSUME NEW k \in 1 .. n PROVE k - 1 \in 0 .. n /\ k \in 0 .. n /\ Flat(xs, k) = Flat(xs, k - 1) \o xs[k]
  <2>1. k \in Nat /\ k # 0 /\ k - 1 \in 0 .. n /\ k \in 0 .. n
    BY <1>1
  <2> QED BY <2>1, FlatGoes
<1>6. Flat(xs, n) = T!Payload(text, encoding)
  BY PayloadIs DEF xs, n
<1> QED BY <1>1, <1>2, <1>3, <1>4, <1>5, <1>6 DEF Begun, xs, n

\* The places of a text in its file.
Laid(text, encoding, bom, file) ==
    /\ Len(text) \in Nat /\ Len(bom) \in Nat
    /\ Reach(text, encoding, bom, 0) = Len(bom)
    /\ Reach(text, encoding, bom, Len(text)) = Len(file)
    /\ \A k \in 0 .. Len(text) : Reach(text, encoding, bom, k) \in Nat
    /\ \A i, j \in 0 .. Len(text) : i < j => Reach(text, encoding, bom, i) < Reach(text, encoding, bom, j)
    /\ \A k \in 1 .. Len(text) :
          /\ Reach(text, encoding, bom, k) = Reach(text, encoding, bom, k - 1) + Len(T!CharBytes(text[k], encoding))
          /\ \A j \in 1 .. Len(T!CharBytes(text[k], encoding)) :
                file[Reach(text, encoding, bom, k - 1) + j] = T!CharBytes(text[k], encoding)[j]

LEMMA Lays ==
    ASSUME NEW text \in Words, NEW encoding, NEW bom \in Words, NEW file,
           file = bom \o T!Payload(text, encoding),
           \A i \in 1 .. Len(text) : T!CharBytes(text[i], encoding) # << >>
    PROVE  Laid(text, encoding, bom, file)
<1> DEFINE n == Len(text)
           B(k) == Begun(text, encoding, k)
           q(k) == Reach(text, encoding, bom, k)
           c(k) == T!CharBytes(text[k], encoding)
<1>1. /\ B(0) = << >> /\ B(n) = T!Payload(text, encoding)
      /\ \A k \in 0 .. n : B(k) \in Words
      /\ \A k \in 1 .. n : k - 1 \in 0 .. n /\ k \in 0 .. n /\ text[k] \in Symbols /\ B(k) = B(k - 1) \o c(k)
  BY BegunGoes
<1>2. n \in Nat /\ Len(bom) \in Nat
  BY DEF Words
<1>3. \A k \in 1 .. n : c(k) \in Words /\ Len(c(k)) \in Nat \ {0}
  <2> SUFFICES ASSUME NEW k \in 1 .. n PROVE c(k) \in Words /\ Len(c(k)) \in Nat \ {0}
    OBVIOUS
  <2>1. c(k) \in Words /\ c(k) # << >>
    BY <1>1, CharBytesType
  <2> HIDE DEF c
  <2> QED BY <2>1 DEF Words
<1>4. \A k : q(k) = Len(bom) + Len(B(k))
  BY DEF Reach
<1> HIDE DEF B, c, q, n
<1>5. \A k \in 0 .. n : Len(B(k)) \in Nat
  BY <1>1 DEF Words
<1>6. ASSUME NEW k \in 1 .. n
      PROVE  /\ Len(B(k)) = Len(B(k - 1)) + Len(c(k))
             /\ \A j \in 1 .. Len(B(k - 1)) : B(k)[j] = B(k - 1)[j]
             /\ \A j \in 1 .. Len(c(k)) : B(k)[Len(B(k - 1)) + j] = c(k)[j]
  <2> DEFINE s == B(k - 1)
             r == c(k)
  <2>1. s \in Words /\ r \in Words /\ B(k) = s \o r
    BY <1>1, <1>3
  <2> HIDE DEF s, r
  <2>2. /\ Len(s \o r) = Len(s) + Len(r) /\ Len(s) \in Nat /\ Len(r) \in Nat
        /\ \A j \in 1 .. Len(s) + Len(r) : (s \o r)[j] = IF j <= Len(s) THEN s[j] ELSE r[j - Len(s)]
    BY <2>1, ConcatProperties DEF Words
  <2>3. \A j \in 1 .. Len(s) : (s \o r)[j] = s[j]
    BY <2>2
  <2>4. \A j \in 1 .. Len(r) : (s \o r)[Len(s) + j] = r[j]
    <3> SUFFICES ASSUME NEW j \in 1 .. Len(r) PROVE (s \o r)[Len(s) + j] = r[j]
      OBVIOUS
    <3>1. Len(s) + j \in 1 .. Len(s) + Len(r) /\ ~(Len(s) + j <= Len(s)) /\ (Len(s) + j) - Len(s) = j
      BY <2>2
    <3> QED BY <2>2, <3>1
  <2>5. Len(s \o r) = Len(s) + Len(r)
    BY <2>2
  <2> QED BY <2>1, <2>3, <2>4, <2>5 DEF s, r
\* What has begun goes on.
<1> DEFINE H == {m \in 0 .. n : \A k \in 0 .. m : /\ q(k) + (m - k) <= q(m)
                                                 /\ Len(B(k)) <= Len(B(m))
                                                 /\ \A j \in 1 .. Len(B(k)) : B(m)[j] = B(k)[j]}
<1>7. 0 \in H
  <2>1. 0 \in 0 .. n /\ q(0) + (0 - 0) <= q(0) /\ Len(B(0)) <= Len(B(0))
    BY <1>2, <1>4, <1>5
  <2>2. \A k \in 0 .. 0 : k = 0
    OBVIOUS
  <2> QED BY <2>1, <2>2
<1>8. ASSUME NEW m \in 1 .. n, m - 1 \in H PROVE m \in H
  <2>1. /\ Len(B(m)) = Len(B(m - 1)) + Len(c(m)) /\ Len(c(m)) \in Nat \ {0} /\ Len(B(m - 1)) \in Nat
        /\ \A j \in 1 .. Len(B(m - 1)) : B(m)[j] = B(m - 1)[j]
    BY <1>1, <1>3, <1>5, <1>6
  <2>2. ASSUME NEW k \in 0 .. m
        PROVE  q(k) + (m - k) <= q(m) /\ Len(B(k)) <= Len(B(m)) /\ \A j \in 1 .. Len(B(k)) : B(m)[j] = B(k)[j]
    <3>1. CASE k = m
      <4>1. q(m) \in Nat /\ Len(B(m)) \in Nat /\ m \in Nat
        BY <1>2, <1>4, <1>5
      <4> QED BY <3>1, <4>1
    <3>2. CASE k # m
      <4>1. k \in 0 .. m - 1
        BY <1>2, <3>2
      <4>2. q(k) + ((m - 1) - k) <= q(m - 1) /\ Len(B(k)) <= Len(B(m - 1))
            /\ \A j \in 1 .. Len(B(k)) : B(m - 1)[j] = B(k)[j]
        BY <1>8, <4>1
      <4>3. q(m) = q(m - 1) + Len(c(m)) /\ q(m - 1) \in Nat /\ q(k) \in Nat /\ Len(B(k)) \in Nat
        <5>1. k \in 0 .. n /\ m - 1 \in 0 .. n
          BY <1>2, <4>1
        <5>2. q(m) = Len(bom) + Len(B(m)) /\ q(m - 1) = Len(bom) + Len(B(m - 1)) /\ q(k) = Len(bom) + Len(B(k))
          BY <1>4
        <5>3. Len(B(k)) \in Nat /\ Len(B(m - 1)) \in Nat
          BY <1>5, <5>1
        <5> QED BY ONLY <1>2, <2>1, <5>2, <5>3
      <4>4. q(k) + (m - k) <= q(m)
        BY <2>1, <4>2, <4>3
      <4>5. Len(B(k)) <= Len(B(m))
        BY <2>1, <4>2, <4>3
      <4>6. \A j \in 1 .. Len(B(k)) : B(m)[j] = B(k)[j]
        BY <2>1, <4>2, <4>3
      <4> QED BY <4>4, <4>5, <4>6
    <3> QED BY <3>1, <3>2
  <2>3. m \in 0 .. n
    BY <1>1
  <2> QED BY <2>2, <2>3
<1> HIDE DEF H
<1>9. 0 .. n \subseteq H
  BY <1>2, <1>7, <1>8, Climb
<1>10. ASSUME NEW m \in 0 .. n, NEW k \in 0 .. m
       PROVE  q(k) + (m - k) <= q(m) /\ Len(B(k)) <= Len(B(m)) /\ \A j \in 1 .. Len(B(k)) : B(m)[j] = B(k)[j]
  BY <1>9 DEF H
<1>11. \A k \in 0 .. n : q(k) \in Nat
  BY <1>2, <1>4, <1>5
<1>12. ASSUME NEW i \in 0 .. n, NEW j \in 0 .. n, i < j PROVE q(i) < q(j)
  <2>1. q(i) + (j - i) <= q(j) /\ q(i) \in Nat /\ q(j) \in Nat
    BY <1>10, <1>11, <1>12
  <2> QED BY <1>12, <2>1
<1>13. q(0) = Len(bom)
  BY <1>1, <1>2, <1>4
<1>14. /\ Len(file) = Len(bom) + Len(B(n))
       /\ \A j \in 1 .. Len(B(n)) : file[Len(bom) + j] = B(n)[j]
  <2> DEFINE s == B(n)
  <2>1. s \in Words /\ file = bom \o s
    BY <1>1, <1>2
  <2> HIDE DEF s
  <2>2. /\ Len(file) = Len(bom) + Len(s) /\ Len(s) \in Nat
        /\ \A j \in 1 .. Len(bom) + Len(s) : file[j] = IF j <= Len(bom) THEN bom[j] ELSE s[j - Len(bom)]
    BY <2>1, ConcatProperties DEF Words
  <2>3. ASSUME NEW j \in 1 .. Len(s) PROVE file[Len(bom) + j] = s[j]
    <3>1. Len(bom) + j \in 1 .. Len(bom) + Len(s) /\ ~(Len(bom) + j <= Len(bom)) /\ (Len(bom) + j) - Len(bom) = j
      BY <1>2, <2>2
    <3> QED BY <2>2, <3>1
  <2> QED BY <2>2, <2>3 DEF s
<1>15. ASSUME NEW k \in 1 .. n
       PROVE  /\ q(k) = q(k - 1) + Len(c(k))
              /\ \A j \in 1 .. Len(c(k)) : file[q(k - 1) + j] = c(k)[j]
  <2>1. Len(B(k)) = Len(B(k - 1)) + Len(c(k)) /\ Len(B(k - 1)) \in Nat /\ Len(c(k)) \in Nat /\ Len(B(n)) \in Nat
        /\ \A j \in 1 .. Len(c(k)) : B(k)[Len(B(k - 1)) + j] = c(k)[j]
    BY <1>1, <1>2, <1>3, <1>5, <1>6
  <2>2. q(k) = q(k - 1) + Len(c(k))
    <3>1. q(k) = Len(bom) + Len(B(k)) /\ q(k - 1) = Len(bom) + Len(B(k - 1))
      BY <1>4
    <3> QED BY ONLY <1>2, <2>1, <3>1
  <2>3. ASSUME NEW j \in 1 .. Len(c(k)) PROVE file[q(k - 1) + j] = c(k)[j]
    <3> DEFINE p == Len(B(k - 1)) + j
    <3>1. Len(B(k)) <= Len(B(n)) /\ \A i \in 1 .. Len(B(k)) : B(n)[i] = B(k)[i]
      <4>1. n \in 0 .. n /\ k \in 0 .. n
        BY <1>2
      <4> QED BY <1>10, <4>1
    <3>2. p \in 1 .. Len(B(k)) /\ p \in 1 .. Len(B(n)) /\ q(k - 1) + j = Len(bom) + p
      BY <1>2, <1>4, <2>1, <3>1
    <3>3. B(k)[p] = c(k)[j]
      BY <2>1
    <3> HIDE DEF p
    <3> QED BY <1>14, <3>1, <3>2, <3>3
  <2> QED BY <2>2, <2>3
<1>16. q(n) = Len(file)
  BY <1>4, <1>14
<1> QED BY <1>2, <1>11, <1>12, <1>13, <1>15, <1>16 DEF Laid, q, c, n

\* A match of the text is one of its bytes.
LEMMA MatchLaid ==
    ASSUME NEW text \in Words, NEW encoding, NEW bom, NEW file \in Words, Laid(text, encoding, bom, file),
           NEW old \in Words, old # << >>, NEW m \in 1 .. Len(text), T!IsAt(text, m, old),
           NEW bytes, bytes = T!Payload(old, encoding), NEW p, p = Reach(text, encoding, bom, m - 1) + 1,
           NEW e, e = m + Len(old) - 1
    PROVE  /\ e \in m .. Len(text) /\ m - 1 \in 0 .. Len(text)
           /\ p \in 1 .. Len(file) /\ T!IsAt(file, p, bytes)
           /\ p + Len(bytes) - 1 = Reach(text, encoding, bom, e)
           /\ bytes \in Words /\ bytes # << >>
<1> DEFINE n == Len(text)
           L == Len(old)
           D(l) == Begun(old, encoding, l)
           q(k) == Reach(text, encoding, bom, k)
           c(k) == T!CharBytes(text[k], encoding)
<1>1. n \in Nat /\ L \in Nat \ {0}
  BY DEF Words
<1>2. m + L <= n + 1 /\ \A j \in 1 .. L : old[j] = text[m + j - 1]
  BY <1>1, AtIs DEF Words
<1>3. /\ Len(bom) \in Nat /\ q(0) = Len(bom) /\ q(n) = Len(file)
      /\ \A k \in 0 .. n : q(k) \in Nat
      /\ \A i, j \in 0 .. n : i < j => q(i) < q(j)
      /\ \A k \in 1 .. n : q(k) = q(k - 1) + Len(c(k)) /\ \A j \in 1 .. Len(c(k)) : file[q(k - 1) + j] = c(k)[j]
  BY DEF Laid
<1>4. /\ D(0) = << >> /\ D(L) = bytes
      /\ \A l \in 0 .. L : D(l) \in Words
      /\ \A l \in 1 .. L : l - 1 \in 0 .. L /\ l \in 0 .. L /\ D(l) = D(l - 1) \o T!CharBytes(old[l], encoding)
  BY BegunGoes
<1>5. \A k \in 1 .. n : c(k) \in Words
  <2>1. \A k \in 1 .. n : text[k] \in Symbols
    BY DEF Words
  <2> QED BY <2>1, CharBytesType
<1>6. \A l \in 1 .. L : D(l) = D(l - 1) \o c(m + l - 1) /\ m + l - 1 \in 1 .. n /\ (m + l - 1) - 1 = m - 1 + (l - 1)
  <2> SUFFICES ASSUME NEW l \in 1 .. L
               PROVE  D(l) = D(l - 1) \o c(m + l - 1) /\ m + l - 1 \in 1 .. n /\ (m + l - 1) - 1 = m - 1 + (l - 1)
    OBVIOUS
  <2>1. old[l] = text[m + l - 1]
    BY <1>2
  <2>2. m + l - 1 \in 1 .. n /\ (m + l - 1) - 1 = m - 1 + (l - 1)
    BY <1>1, <1>2
  <2> HIDE DEF D
  <2> QED BY <1>4, <2>1, <2>2
<1> DEFINE H == {l \in 0 .. L : /\ Len(D(l)) = q(m - 1 + l) - q(m - 1)
                                /\ \A j \in 1 .. Len(D(l)) : D(l)[j] = file[q(m - 1) + j]}
<1> HIDE DEF D, q, c, n, L
<1>7. m - 1 \in 0 .. n
  BY <1>1 DEF n
<1>8. 0 \in H
  <2>1. Len(D(0)) = 0 /\ q(m - 1 + 0) = q(m - 1) /\ q(m - 1) \in Nat
    <3>1. m - 1 + 0 = m - 1
      BY <1>7, <1>1
    <3> QED BY <1>3, <1>4, <1>7, <3>1
  <2> QED BY <1>1, <2>1
<1>9. ASSUME NEW l \in 1 .. L, l - 1 \in H PROVE l \in H
  <2> DEFINE s == D(l - 1)
             k == m + l - 1
             r == c(k)
  <2>1. D(l) = s \o r /\ k \in 1 .. n /\ k - 1 = m - 1 + (l - 1) /\ m - 1 + l = k
    BY <1>1, <1>6, <1>7
  <2>2. s \in Words /\ r \in Words /\ l \in 0 .. L
    BY <1>4, <1>5, <2>1
  <2>3. /\ Len(s) = q(m - 1 + (l - 1)) - q(m - 1)
        /\ \A j \in 1 .. Len(s) : s[j] = file[q(m - 1) + j]
    BY <1>9
  <2>4. q(k) = q(k - 1) + Len(r) /\ \A j \in 1 .. Len(r) : file[q(k - 1) + j] = r[j]
    BY <1>3, <2>1
  <2>5. q(m - 1) \in Nat /\ q(k - 1) \in Nat /\ q(k) \in Nat
    <3>1. k - 1 \in 0 .. n /\ k \in 0 .. n
      BY <1>1, <2>1
    <3> QED BY <1>3, <1>7, <3>1
  <2> HIDE DEF s, k, r, H
  <2>6. /\ Len(s \o r) = Len(s) + Len(r) /\ Len(s) \in Nat /\ Len(r) \in Nat
        /\ \A j \in 1 .. Len(s) + Len(r) : (s \o r)[j] = IF j <= Len(s) THEN s[j] ELSE r[j - Len(s)]
    BY <2>2, ConcatProperties DEF Words
  <2>7. Len(s) = q(k - 1) - q(m - 1)
    BY <2>1, <2>3
  <2>8. Len(s \o r) = q(m - 1 + l) - q(m - 1)
    <3>1. q(m - 1 + l) = q(k)
      BY <2>1
    <3> QED BY ONLY <2>4, <2>5, <2>6, <2>7, <3>1
  <2>9. ASSUME NEW j \in 1 .. Len(s) + Len(r) PROVE (s \o r)[j] = file[q(m - 1) + j]
    <3>1. CASE j <= Len(s)
      BY <2>3, <2>6, <3>1
    <3>2. CASE ~(j <= Len(s))
      <4>1. j - Len(s) \in 1 .. Len(r) /\ q(k - 1) + (j - Len(s)) = q(m - 1) + j
        BY <2>5, <2>6, <2>7, <3>2
      <4> QED BY <2>4, <2>6, <3>2, <4>1
    <3> QED BY <3>1, <3>2
  <2> QED BY <2>1, <2>2, <2>6, <2>8, <2>9 DEF H
<1> HIDE DEF H
<1>10. L \in H
  BY <1>1, <1>8, <1>9, Climb
<1>11. e = m - 1 + L /\ e \in m .. n /\ e \in 0 .. n
  BY <1>1, <1>2, <1>7 DEF n, L
<1>12. Len(bytes) = q(e) - q(m - 1) /\ \A j \in 1 .. Len(bytes) : bytes[j] = file[q(m - 1) + j]
  BY <1>4, <1>10, <1>11 DEF H
<1>13. q(m - 1) < q(e) /\ q(m - 1) \in Nat /\ q(e) \in Nat /\ q(e) <= q(n)
  <2>1. m - 1 < e /\ n \in 0 .. n /\ (e = n \/ e < n)
    BY <1>1, <1>7, <1>11
  <2>2. q(m - 1) \in Nat /\ q(e) \in Nat /\ q(n) \in Nat
    BY <1>3, <1>7, <1>11, <2>1
  <2> QED BY <1>3, <1>7, <1>11, <2>1, <2>2
<1>14. p = q(m - 1) + 1 /\ p \in 1 .. Len(file) /\ p + Len(bytes) - 1 = q(e) /\ Len(bytes) \in Nat \ {0}
       /\ p + Len(bytes) <= Len(file) + 1
  <2>1. p = q(m - 1) + 1
    BY DEF q
  <2>2. Len(bytes) = q(e) - q(m - 1) /\ q(n) = Len(file) /\ q(e) <= q(n) /\ q(m - 1) < q(e) /\ q(m - 1) \in Nat /\ q(e) \in Nat
    BY <1>3, <1>12, <1>13
  <2>3. Len(file) \in Nat
    BY DEF Words
  <2>4. p \in Nat /\ Len(bytes) \in Nat \ {0} /\ p # 0
    BY ONLY <2>1, <2>2
  <2>5. p + Len(bytes) - 1 = q(e)
    BY ONLY <2>1, <2>2
  <2>6. p + Len(bytes) <= Len(file) + 1 /\ p <= Len(file)
    BY ONLY <2>1, <2>2, <2>3
  <2> QED BY ONLY <2>1, <2>3, <2>4, <2>5, <2>6
<1>15. bytes \in Words /\ bytes # << >>
  <2>1. L \in 0 .. L
    BY <1>1
  <2>2. bytes \in Words
    BY <1>4, <2>1
  <2> QED BY <1>14, <2>2
<1>16. \A j \in 1 .. Len(bytes) : bytes[j] = file[p + j - 1]
  <2> SUFFICES ASSUME NEW j \in 1 .. Len(bytes) PROVE bytes[j] = file[p + j - 1]
    OBVIOUS
  <2>1. p + j - 1 = q(m - 1) + j
    BY <1>13, <1>14
  <2> QED BY <1>12, <2>1
<1>17. T!IsAt(file, p, bytes)
  BY <1>14, <1>15, <1>16, AtIs DEF Words
<1> QED BY <1>7, <1>11, <1>14, <1>15, <1>17 DEF n, L, q

\* A run of nothing, and a run of what is copied.
LEMMA EmptyRun ==
    ASSUME NEW S, NEW xs, NEW a \in Nat, NEW w \in Nat, Flat(xs, a) \in Seq(S),
           \A j \in 1 .. w : xs[a + j] = << >>
    PROVE  Flat(xs, a + w) = Flat(xs, a)
<1> DEFINE H == {j \in 0 .. w : Flat(xs, a + j) = Flat(xs, a)}
<1>1. 0 \in H
  <2>1. a + 0 = a /\ 0 \in 0 .. w
    OBVIOUS
  <2> QED BY <2>1
<1>2. ASSUME NEW j \in 1 .. w, j - 1 \in H PROVE j \in H
  <2>1. a + j \in Nat /\ a + j # 0 /\ (a + j) - 1 = a + (j - 1) /\ j \in 0 .. w
    OBVIOUS
  <2>2. Flat(xs, a + j) = Flat(xs, a + (j - 1)) \o << >>
    BY <2>1, FlatGoes
  <2>3. Flat(xs, a + (j - 1)) = Flat(xs, a)
    BY <1>2
  <2> QED BY <2>1, <2>2, <2>3, ConcatEmptySeq
<1> HIDE DEF H
<1>3. w \in H
  BY <1>1, <1>2, Climb
<1> QED BY <1>3 DEF H

LEMMA CopyRun ==
    ASSUME NEW S, NEW xs, NEW a \in Nat, NEW ys \in Seq(S), Flat(xs, a) \in Seq(S),
           \A j \in 1 .. Len(ys) : xs[a + j] = <<ys[j]>>
    PROVE  Flat(xs, a + Len(ys)) = Flat(xs, a) \o ys
<1> DEFINE w == Len(ys)
           s == Flat(xs, a)
           H == {j \in 0 .. w : Flat(xs, a + j) = s \o SubSeq(ys, 1, j)}
<1>0. w \in Nat
  OBVIOUS
<1>1. 0 \in H
  <2>1. a + 0 = a /\ 0 \in 0 .. w
    OBVIOUS
  <2>2. SubSeq(ys, 1, 0) = << >> /\ s \o << >> = s
    BY SubSeqEmpty, ConcatEmptySeq
  <2> QED BY <2>1, <2>2
<1>2. ASSUME NEW j \in 1 .. w, j - 1 \in H PROVE j \in H
  <2>1. a + j \in Nat /\ a + j # 0 /\ (a + j) - 1 = a + (j - 1) /\ j \in 0 .. w /\ 1 \in 1 .. w /\ j \in 1 .. w
    BY <1>0
  <2>2. Flat(xs, a + j) = Flat(xs, a + (j - 1)) \o <<ys[j]>>
    BY <2>1, FlatGoes
  <2>3. Flat(xs, a + (j - 1)) = s \o SubSeq(ys, 1, j - 1)
    BY <1>2
  <2>4. SubSeq(ys, 1, j) = SubSeq(ys, 1, j - 1) \o <<ys[j]>>
    BY <2>1, SubSeqRecursiveSecond
  <2>5. SubSeq(ys, 1, j - 1) \in Seq(S) /\ <<ys[j]>> \in Seq(S) /\ s \in Seq(S)
    <3>1. \A i \in 1 .. j - 1 : ys[i] \in S
      OBVIOUS
    <3>2. 1 \in Int /\ j - 1 \in Int /\ ys[j] \in S
      BY <2>1
    <3>3. SubSeq(ys, 1, j - 1) \in Seq(S)
      BY <3>1, <3>2, SubSeqProperties
    <3> QED BY <3>2, <3>3
  <2> HIDE DEF s, w
  <2>6. (s \o SubSeq(ys, 1, j - 1)) \o <<ys[j]>> = s \o (SubSeq(ys, 1, j - 1) \o <<ys[j]>>)
    <3> DEFINE r == SubSeq(ys, 1, j - 1)
               x == <<ys[j]>>
    <3>1. r \in Seq(S) /\ x \in Seq(S) /\ s \in Seq(S)
      BY <2>5
    <3> HIDE DEF r, x
    <3>2. (s \o r) \o x = s \o (r \o x)
      BY ONLY <3>1, ConcatAssociative
    <3> QED BY <3>2 DEF r, x
  <2> QED BY <2>1, <2>2, <2>3, <2>4, <2>6
<1> HIDE DEF H
<1>3. w \in H
  BY <1>0, <1>1, <1>2, Climb
<1> QED BY <1>3, SubSeqFull DEF H

\* As many images as there were elements.
LEMMA SameCount ==
    ASSUME NEW S, IsFiniteSet(S), NEW f, f \in [S -> {f[x] : x \in S}], \A x, y \in S : f[x] = f[y] => x = y
    PROVE  Cardinality({f[x] : x \in S}) = Cardinality(S)
<1> DEFINE Q == {f[x] : x \in S}
<1>1. f \in Bijection(S, Q)
  BY DEF Bijection, Injection, Surjection, IsInjective
<1>2. ExistsBijection(S, Q)
  BY <1>1 DEF ExistsBijection
<1> HIDE DEF Q
<1>3. Cardinality(Q) = Cardinality(S)
  BY <1>2, FS_Bijection
<1> QED BY <1>3 DEF Q

\* The places in the bytes at which the matches are.
AtBytes(text, encoding, bom, at) == {Reach(text, encoding, bom, m - 1) + 1 : m \in at}

Placed(text, encoding, bom, file, old, at, AA) ==
    LET bytes == T!Payload(old, encoding) IN
    /\ AA \subseteq {p \in 1 .. Len(file) : T!IsAt(file, p, bytes)}
    /\ Cardinality(AA) = Cardinality(at)
    /\ \A p, r \in AA : p < r => p + Len(bytes) <= r
    /\ \A i \in 1 .. Len(bom) : i \notin AA /\ ~Inside(i, AA, Len(bytes))
    /\ \A k \in 1 .. Len(text) : \A j \in 1 .. Len(T!CharBytes(text[k], encoding)) :
          /\ Reach(text, encoding, bom, k - 1) + j \in AA <=> k \in at /\ j = 1
          /\ Inside(Reach(text, encoding, bom, k - 1) + j, AA, Len(bytes)) <=> Inside(k, at, Len(old))

LEMMA PlacesAre ==
    ASSUME NEW text \in Words, NEW encoding, NEW bom \in Words, NEW file \in Words,
           Laid(text, encoding, bom, file), NEW old \in Words, old # << >>,
           NEW at, FoundSome(at, text, old, Len(text))
    PROVE  Placed(text, encoding, bom, file, old, at, AtBytes(text, encoding, bom, at))
<1> DEFINE n == Len(text)
           L == Len(old)
           q(k) == Reach(text, encoding, bom, k)
           w(k) == Len(T!CharBytes(text[k], encoding))
           bytes == T!Payload(old, encoding)
           AA == AtBytes(text, encoding, bom, at)
           B == Len(bytes)
<1>1. n \in Nat /\ L \in Nat \ {0}
  BY DEF Words
<1>2. /\ at \subseteq 1 .. n
      /\ \A m \in at : T!IsAt(text, m, old)
      /\ \A m, p \in at : m < p => m + L <= p
  BY DEF FoundSome
<1>3. /\ Len(bom) \in Nat /\ q(0) = Len(bom)
      /\ \A k \in 0 .. n : q(k) \in Nat
      /\ \A i, j \in 0 .. n : i < j => q(i) < q(j)
      /\ \A k \in 1 .. n : q(k) = q(k - 1) + w(k)
  BY DEF Laid
<1>3a. \A k \in 1 .. n : w(k) \in Nat
  <2>1. \A k \in 1 .. n : T!CharBytes(text[k], encoding) \in Seq(Symbols)
    BY CharBytesType DEF Words
  <2> QED BY <2>1
<1>4. ASSUME NEW m \in at
      PROVE  /\ m \in 1 .. n /\ m + L - 1 \in m .. n /\ m - 1 \in 0 .. n
             /\ q(m - 1) + 1 \in 1 .. Len(file) /\ T!IsAt(file, q(m - 1) + 1, bytes)
             /\ (q(m - 1) + 1) + B - 1 = q(m + L - 1)
  BY <1>2, MatchLaid
<1>5. AA = {q(m - 1) + 1 : m \in at}
  BY DEF AtBytes
<1> HIDE DEF q, w, n, L, B, bytes, AA
<1>6. ASSUME NEW i \in 0 .. n, NEW j \in 0 .. n PROVE q(i) \in Nat /\ q(j) \in Nat /\ (q(i) < q(j) <=> i < j)
  <2>1. q(i) \in Nat /\ q(j) \in Nat /\ (i < j => q(i) < q(j)) /\ (j < i => q(j) < q(i)) /\ (i = j => q(i) = q(j))
    BY <1>3
  <2>2. i < j \/ j < i \/ i = j
    BY <1>1
  <2> QED BY <2>1, <2>2
<1>7. AA \subseteq {p \in 1 .. Len(file) : T!IsAt(file, p, bytes)}
  BY <1>4, <1>5
<1>8. Cardinality(AA) = Cardinality(at)
  <2> DEFINE f == [m \in at |-> q(m - 1) + 1]
             Q == {f[m] : m \in at}
  <2>1. \A m \in at : f[m] = q(m - 1) + 1
    OBVIOUS
  <2>2. Q = AA
    BY <1>5, <2>1
  <2>3. f \in [at -> Q]
    OBVIOUS
  <2>4. ASSUME NEW x \in at, NEW y \in at, f[x] = f[y] PROVE x = y
    <3>1. x - 1 \in 0 .. n /\ y - 1 \in 0 .. n /\ x \in Nat /\ y \in Nat
      BY <1>1, <1>4
    <3>2. q(x - 1) = q(y - 1)
      BY <1>3, <2>1, <2>4, <3>1
    <3>3. ~(x - 1 < y - 1) /\ ~(y - 1 < x - 1)
      BY <1>6, <3>1, <3>2
    <3> QED BY <3>1, <3>3
  <2>5. IsFiniteSet(at)
    <3>1. IsFiniteSet(1 .. n)
      BY <1>1, FS_Interval
    <3> QED BY <1>2, <3>1, FS_Subset
  <2> HIDE DEF f
  <2>6. Cardinality(Q) = Cardinality(at)
    BY <2>3, <2>4, <2>5, SameCount
  <2> QED BY <2>2, <2>6
<1>9. B \in Int
  <2>1. T!Payload(old, encoding) \in Words
    BY PayloadIs
  <2> QED BY <2>1 DEF Words, B, bytes
<1>10. ASSUME NEW p \in AA, NEW r \in AA, p < r PROVE p + B <= r
  <2>1. PICK m \in at : p = q(m - 1) + 1
    BY <1>5
  <2>2. PICK o \in at : r = q(o - 1) + 1
    BY <1>5
  <2>3. m - 1 \in 0 .. n /\ o - 1 \in 0 .. n /\ m \in Nat /\ o \in Nat /\ m + L - 1 \in 0 .. n
        /\ p + B - 1 = q(m + L - 1)
    BY <1>1, <1>4, <2>1
  <2>4. m - 1 < o - 1
    BY <1>6, <1>10, <2>1, <2>2, <2>3
  <2>5. m + L <= o
    BY <1>2, <2>3, <2>4
  <2>6. ~(o - 1 < m + L - 1)
    BY <1>1, <2>3, <2>5
  <2>7. ~(q(o - 1) < q(m + L - 1)) /\ q(o - 1) \in Nat /\ q(m + L - 1) \in Nat
    BY <1>6, <2>3, <2>6
  <2>8. p \in Nat
    BY <1>6, <2>1, <2>3
  <2> QED BY <1>9, <2>2, <2>3, <2>7, <2>8
\* A place is in the bytes of a match if its character is in the match.
<1>11. \A i : Inside(i, AA, B) <=> \E m \in at : i \in q(m - 1) + 1 .. q(m + L - 1)
  <2> SUFFICES ASSUME NEW i PROVE Inside(i, AA, B) <=> \E m \in at : i \in q(m - 1) + 1 .. q(m + L - 1)
    OBVIOUS
  <2>1. ASSUME NEW m \in at PROVE (q(m - 1) + 1) + B - 1 = q(m + L - 1)
    BY <1>4
  <2>2. Inside(i, AA, B) <=> \E p \in AA : i \in p .. p + B - 1
    BY DEF Inside
  <2>3. ASSUME NEW p \in AA, i \in p .. p + B - 1 PROVE \E m \in at : i \in q(m - 1) + 1 .. q(m + L - 1)
    <3>1. PICK m \in at : p = q(m - 1) + 1
      BY <1>5
    <3> QED BY <2>1, <2>3, <3>1
  <2>4. ASSUME NEW m \in at, i \in q(m - 1) + 1 .. q(m + L - 1) PROVE \E p \in AA : i \in p .. p + B - 1
    <3> DEFINE p == q(m - 1) + 1
    <3>1. p \in AA
      BY <1>5
    <3>2. i \in p .. p + B - 1
      BY <2>1, <2>4
    <3> QED BY <3>1, <3>2
  <2> QED BY <2>2, <2>3, <2>4
<1>12. ASSUME NEW i \in 1 .. Len(bom) PROVE i \notin AA /\ ~Inside(i, AA, B)
  <2>1. ASSUME NEW m \in at PROVE ~(i >= q(m - 1) + 1) /\ q(m - 1) \in Nat
    <3>1. m - 1 \in 0 .. n /\ 0 \in 0 .. n /\ ~(m - 1 < 0)
      BY <1>1, <1>4
    <3>2. ~(q(m - 1) < q(0)) /\ q(m - 1) \in Nat /\ q(0) \in Nat
      BY <1>6, <3>1
    <3> QED BY <1>3, <3>2
  <2>2. i \notin AA
    BY <1>5, <2>1
  <2> QED BY <1>11, <2>1, <2>2
<1>13. ASSUME NEW k \in 1 .. n, NEW j \in 1 .. w(k), NEW i, i = q(k - 1) + j
       PROVE  (i \in AA <=> k \in at /\ j = 1) /\ (Inside(i, AA, B) <=> Inside(k, at, L))
  <2>1. /\ k - 1 \in 0 .. n /\ k \in 0 .. n /\ k \in Nat /\ q(k - 1) \in Nat /\ q(k) \in Nat
        /\ q(k) = q(k - 1) + w(k)
    <3>1. k - 1 \in 0 .. n /\ k \in 0 .. n /\ k \in Nat
      BY <1>1
    <3> QED BY <1>3, <3>1
  <2>2. i \in Nat /\ q(k - 1) < i /\ i <= q(k)
    BY <1>3a, <1>13, <2>1
  <2>3. ASSUME i \in AA PROVE k \in at /\ j = 1
    <3>1. PICK m \in at : i = q(m - 1) + 1
      BY <1>5, <2>3
    <3>2. m - 1 \in 0 .. n /\ m \in 0 .. n /\ m \in Nat /\ q(m - 1) \in Nat
      BY <1>1, <1>3, <1>4
    <3>3. ~(k - 1 > m - 1)
      <4>1. ~(q(m - 1) < q(k - 1))
        BY <2>1, <2>2, <3>1, <3>2
      <4> QED BY <1>6, <2>1, <3>2, <4>1
    <3>4. m - 1 < k
      <4>1. q(m - 1) < q(k)
        BY <2>1, <2>2, <3>1, <3>2
      <4> QED BY <1>6, <2>1, <3>2, <4>1
    <3>5. m = k
      BY <2>1, <3>2, <3>3, <3>4
    <3> QED BY <1>13, <2>1, <3>1, <3>5
  <2>4. ASSUME k \in at, j = 1 PROVE i \in AA
    BY <1>5, <1>13, <2>4
  <2>5. Inside(k, at, L) <=> \E m \in at : k \in m .. m + L - 1
    BY DEF Inside
  <2>6. ASSUME NEW m \in at PROVE i \in q(m - 1) + 1 .. q(m + L - 1) <=> k \in m .. m + L - 1
    <3>1. m - 1 \in 0 .. n /\ m \in Nat /\ m + L - 1 \in 0 .. n
      BY <1>1, <1>4
    <3>2. q(m - 1) \in Nat /\ q(m + L - 1) \in Nat
      BY <1>3, <3>1
    <3>3. /\ q(k - 1) < q(m - 1) <=> k - 1 < m - 1
          /\ q(m - 1) < q(k) <=> m - 1 < k
          /\ q(k - 1) < q(m + L - 1) <=> k - 1 < m + L - 1
          /\ q(m + L - 1) < q(k) <=> m + L - 1 < k
      BY <1>6, <2>1, <3>1
    <3>4. ASSUME i \in q(m - 1) + 1 .. q(m + L - 1) PROVE k \in m .. m + L - 1
      <4>1. q(m - 1) < q(k) /\ q(k - 1) < q(m + L - 1)
        BY <2>1, <2>2, <3>2, <3>4
      <4> QED BY <1>1, <2>1, <3>1, <3>3, <4>1
    <3>5. ASSUME k \in m .. m + L - 1 PROVE i \in q(m - 1) + 1 .. q(m + L - 1)
      <4>1. ~(q(k - 1) < q(m - 1)) /\ ~(q(m + L - 1) < q(k))
        BY <1>1, <2>1, <3>1, <3>3, <3>5
      <4> QED BY <2>1, <2>2, <3>2, <4>1
    <3> QED BY <3>4, <3>5
  <2> QED BY <1>11, <2>3, <2>4, <2>5, <2>6
<1>14. \A p, r \in AA : p < r => p + B <= r
  BY <1>10
<1>15. \A i \in 1 .. Len(bom) : i \notin AA /\ ~Inside(i, AA, B)
  BY <1>12
<1>16. \A k \in 1 .. n : \A j \in 1 .. w(k) :
          /\ q(k - 1) + j \in AA <=> k \in at /\ j = 1
          /\ Inside(q(k - 1) + j, AA, B) <=> Inside(k, at, L)
  BY <1>13
<1> QED BY <1>7, <1>8, <1>14, <1>15, <1>16 DEF Placed, q, w, n, L, B, bytes, AA

LEMMA PayloadSplits ==
    ASSUME NEW encoding
    PROVE  \A s, t \in Words : T!Payload(s \o t, encoding) = T!Payload(s, encoding) \o T!Payload(t, encoding)
BY ONLY PayloadJoins

HasBytes(text, encoding) == \A i \in 1 .. Len(text) : T!CharBytes(text[i], encoding) # << >>
KeptAt(AA, file, content, old, new, count) ==
    /\ AA \subseteq {p \in 1 .. Len(file) : T!IsAt(file, p, old)}
    /\ Cardinality(AA) = count
    /\ \A p, r \in AA : p < r => p + Len(old) <= r
    /\ content = T!FlattenSeq(Chosen(file, AA, Len(old), new))

\* Replacing in the bytes is replacing in the text.
LEMMA RestIsKept ==
    ASSUME NEW text \in Words, NEW encoding, NEW bom \in Words, NEW file \in Words,
           file = bom \o T!Payload(text, encoding),
           HasBytes(text, encoding),
           NEW old \in Words, old # << >>, NEW new \in Words,
           NEW at, at = T!Matches(text, old),
           NEW oldBytes, oldBytes = T!Payload(old, encoding),
           NEW newBytes, newBytes = T!Payload(new, encoding),
           NEW AA, AA = AtBytes(text, encoding, bom, at)
    PROVE  KeptAt(AA, file, bom \o T!Payload(T!Replace(text, old, new), encoding), oldBytes, newBytes, Cardinality(at))
<1> DEFINE n == Len(text)
           L == Len(old)
           q(k) == Reach(text, encoding, bom, k)
           c(k) == T!CharBytes(text[k], encoding)
           B == Len(oldBytes)
           X == Chosen(file, AA, B, newBytes)
           R(k) == Replaced(text, at, L, new, k)
           P(t) == T!Payload(t, encoding)
<1>1. n \in Nat /\ L \in Nat \ {0} /\ Len(bom) \in Nat /\ Len(file) \in Nat /\ \A i \in 1 .. n : text[i] \in Symbols
  BY DEF Words
<1>2. Laid(text, encoding, bom, file)
  BY Lays DEF HasBytes
<1>3. FoundSome(at, text, old, n)
  BY <1>1, MatchesAre
<1>4. /\ AA \subseteq {p \in 1 .. Len(file) : T!IsAt(file, p, oldBytes)}
      /\ Cardinality(AA) = Cardinality(at)
      /\ \A p, r \in AA : p < r => p + B <= r
      /\ \A i \in 1 .. Len(bom) : i \notin AA /\ ~Inside(i, AA, B)
      /\ \A k \in 1 .. n : \A j \in 1 .. Len(c(k)) :
           /\ q(k - 1) + j \in AA <=> k \in at /\ j = 1
           /\ Inside(q(k - 1) + j, AA, B) <=> Inside(k, at, L)
  <2>1. Placed(text, encoding, bom, file, old, at, AA)
    BY <1>2, <1>3, PlacesAre
  <2> QED BY <2>1 DEF Placed
<1>5. /\ q(0) = Len(bom) /\ q(n) = Len(file)
      /\ \A k \in 0 .. n : q(k) \in Nat
      /\ \A i, j \in 0 .. n : i < j => q(i) < q(j)
      /\ \A k \in 1 .. n : q(k) = q(k - 1) + Len(c(k)) /\ \A j \in 1 .. Len(c(k)) : file[q(k - 1) + j] = c(k)[j]
  BY <1>2 DEF Laid
<1>6. ASSUME NEW k \in 1 .. n
      PROVE  c(k) \in Words /\ Len(c(k)) \in Nat \ {0} /\ c(k) # << >> /\ k - 1 \in 0 .. n /\ k \in 0 .. n /\ text[k] \in Symbols
  <2>1. c(k) \in Words /\ c(k) # << >>
    BY <1>1, CharBytesType DEF HasBytes
  <2> HIDE DEF c
  <2>2. Len(c(k)) \in Nat \ {0}
    BY <2>1 DEF Words
  <2> QED BY <1>1, <2>1, <2>2
<1>7. newBytes \in Words /\ newBytes = P(new) /\ \A t \in Words : P(t) \in Words
  <2>1. \A t \in Words : P(t) \in Words
    BY ONLY PayloadIs
  <2> HIDE DEF P
  <2>2. newBytes = P(new)
    BY DEF P
  <2> QED BY <2>1, <2>2
<1>a. \A s, t \in Words : P(s \o t) = P(s) \o P(t)
  BY ONLY PayloadSplits
<1>8. \A k \in 0 .. n : R(k) \in Words
  BY <1>1, ReplacedType DEF Words
<1>9. ASSUME NEW k \in 1 .. n
      PROVE  /\ k \in at => R(k) = R(k - 1) \o new
             /\ k \notin at /\ Inside(k, at, L) => R(k) = R(k - 1) \o << >>
             /\ k \notin at /\ ~Inside(k, at, L) => R(k) = R(k - 1) \o <<text[k]>>
  BY ONLY <1>1, <1>9, ReplacedGoes
<1>10. R(0) = << >>
  BY FlatGoes DEF Replaced
<1>11. T!Replace(text, old, new) = R(n)
  BY ReplaceType DEF Words
<1>12. \A i \in 1 .. Len(file) : X[i] = IF i \in AA THEN newBytes ELSE IF Inside(i, AA, B) THEN << >> ELSE <<file[i]>>
  BY DEF Chosen
<1>13. X \in Seq(Words) /\ Len(X) = Len(file) /\ \A i \in 1 .. Len(file) : X[i] \in Words
  <2>1. X = [i \in 1 .. Len(file) |-> X[i]]
    BY DEF Chosen
  <2>2. \A i \in 1 .. Len(file) : file[i] \in Symbols
    BY DEF Words
  <2>3. \A y \in Symbols : <<y>> \in Words
    BY OneWord
  <2>4. << >> \in Words
    BY DEF Words
  <2> HIDE DEF X
  <2>5. \A i \in 1 .. Len(file) : X[i] \in Words
    BY <1>7, <1>12, <2>2, <2>3, <2>4
  <2>6. X \in [1 .. Len(file) -> Words]
    BY <2>1, <2>5
  <2> QED BY <1>1, <2>5, <2>6
<1>14. \A j \in 0 .. Len(file) : Flat(X, j) \in Words
  BY <1>1, <1>13, FlatType DEF Words
<1>15. T!FlattenSeq(X) = Flat(X, Len(file))
  BY <1>13, FlattenIsRun DEF Words
<1> DEFINE H == {k \in 0 .. n : Flat(X, q(k)) = bom \o P(R(k))}
<1> HIDE DEF X, R, q, c, P, B, L, n
<1>16. ASSUME NEW k \in 1 .. n
       PROVE  q(k - 1) \in Nat /\ q(k) \in Nat /\ q(k) <= Len(file) /\ q(k) = q(k - 1) + Len(c(k)) /\ q(k - 1) \in 0 .. Len(file)
  <2>1. k - 1 \in 0 .. n /\ k \in 0 .. n /\ n \in 0 .. n /\ (k < n \/ k = n)
    BY <1>1
  <2>2. q(k - 1) \in Nat /\ q(k) \in Nat /\ q(k) = q(k - 1) + Len(c(k))
    BY <1>5, <2>1
  <2>3. q(k) <= q(n)
    <3>1. q(n) \in Nat
      BY <1>5, <2>1
    <3>2. k < n => q(k) < q(n)
      BY <1>5, <2>1
    <3> QED BY <2>1, <2>2, <3>1, <3>2
  <2> QED BY <1>1, <1>5, <1>6, <2>2, <2>3
<1>17. 0 \in H
  <2>1. Flat(X, 0) = << >>
    BY FlatGoes
  <2>2. Len(bom) <= Len(file)
    <3>1. q(0) <= q(n)
      <4>1. 0 \in 0 .. n /\ n \in 0 .. n /\ (0 < n \/ n = 0)
        BY <1>1
      <4>2. q(0) \in Nat /\ q(n) \in Nat /\ (0 < n => q(0) < q(n))
        BY <1>5, <4>1
      <4> QED BY <4>1, <4>2
    <3> QED BY <1>5, <3>1
  <2>3. \A j \in 1 .. Len(bom) : X[0 + j] = <<bom[j]>>
    <3> SUFFICES ASSUME NEW j \in 1 .. Len(bom) PROVE X[0 + j] = <<bom[j]>>
      OBVIOUS
    <3>1. 0 + j = j /\ j \in 1 .. Len(file)
      BY <1>1, <2>2
    <3>2. file[j] = bom[j]
      <4> DEFINE s == T!Payload(text, encoding)
      <4>1. s \in Words /\ file = bom \o s
        BY PayloadIs
      <4> HIDE DEF s
      <4>2. /\ Len(s) \in Nat
            /\ \A i \in 1 .. Len(bom) + Len(s) : file[i] = IF i <= Len(bom) THEN bom[i] ELSE s[i - Len(bom)]
        BY <4>1, ConcatProperties DEF Words
      <4>3. j \in 1 .. Len(bom) + Len(s) /\ j <= Len(bom)
        BY <1>1, <4>2
      <4> QED BY <4>2, <4>3
    <3>3. j \notin AA /\ ~Inside(j, AA, B)
      BY <1>4
    <3> QED BY <1>12, <3>1, <3>2, <3>3
  <2>4. Flat(X, 0 + Len(bom)) = Flat(X, 0) \o bom
    <3>1. << >> \in Seq(Symbols) /\ bom \in Seq(Symbols) /\ 0 \in Nat
      BY DEF Words
    <3> QED BY <2>1, <2>3, <3>1, CopyRun
  <2>5. 0 + Len(bom) = q(0) /\ 0 \in 0 .. n
    BY <1>1, <1>5
  <2>6. P(<< >>) = << >>
    BY PayloadStarts DEF P
  <2>7. << >> \o bom = bom /\ bom \o << >> = bom
    BY ConcatEmptySeq DEF Words
  <2> QED BY <1>10, <2>1, <2>4, <2>5, <2>6, <2>7
<1>18. ASSUME NEW k \in 1 .. n, k - 1 \in H PROVE k \in H
  <2> DEFINE a == q(k - 1)
             w == Len(c(k))
             r == R(k - 1)
  <2>1. /\ a \in Nat /\ w \in Nat \ {0} /\ q(k) = a + w /\ a + w <= Len(file) /\ k \in 0 .. n /\ k - 1 \in 0 .. n
        /\ c(k) \in Words /\ r \in Words /\ text[k] \in Symbols /\ Flat(X, a) \in Words
    BY <1>6, <1>8, <1>14, <1>16
  <2>2. Flat(X, a) = bom \o P(r) /\ P(r) \in Words
    BY <1>7, <1>18, <2>1
  <2>3. \A j \in 1 .. w : /\ a + j \in 1 .. Len(file)
                          /\ a + j \in AA <=> k \in at /\ j = 1
                          /\ Inside(a + j, AA, B) <=> Inside(k, at, L)
                          /\ file[a + j] = c(k)[j]
    <3> SUFFICES ASSUME NEW j \in 1 .. w
                 PROVE  /\ a + j \in 1 .. Len(file)
                        /\ a + j \in AA <=> k \in at /\ j = 1
                        /\ Inside(a + j, AA, B) <=> Inside(k, at, L)
                        /\ file[a + j] = c(k)[j]
      OBVIOUS
    <3>1. a + j \in 1 .. Len(file)
      BY <1>1, <2>1
    <3>2. (a + j \in AA <=> k \in at /\ j = 1) /\ (Inside(a + j, AA, B) <=> Inside(k, at, L))
      BY <1>4
    <3>3. file[a + j] = c(k)[j]
      BY <1>5
    <3> QED BY <3>1, <3>2, <3>3
  <2>4. k \in at => Inside(k, at, L)
    BY <1>1, <1>3, CoverIs DEF L
  <2> HIDE DEF a, w, r, H
  <2>5. ASSUME Flat(X, a + w) = bom \o P(R(k)) PROVE k \in H
    BY <2>1, <2>5 DEF H
  <2>6. ASSUME NEW s \in Words PROVE bom \o (P(r) \o s) = (bom \o P(r)) \o s
    <3>1. bom \in Seq(Symbols) /\ P(r) \in Seq(Symbols) /\ s \in Seq(Symbols)
      BY <2>2 DEF Words
    <3> QED BY ONLY <3>1, ConcatAssociative
  <2>7. CASE k \in at
    <3>1. X[a + 1] = newBytes
      <4>1. 1 \in 1 .. w
        BY <2>1
      <4> QED BY <1>12, <2>3, <2>7, <4>1
    <3>2. Flat(X, a + 1) = Flat(X, a) \o newBytes
      <4>1. a + 1 \in Nat /\ a + 1 # 0 /\ (a + 1) - 1 = a
        BY <2>1
      <4> QED BY <3>1, <4>1, FlatGoes
    <3>3. Flat(X, (a + 1) + (w - 1)) = Flat(X, a + 1)
      <4>1. a + 1 \in Nat /\ w - 1 \in Nat /\ a + 1 \in 0 .. Len(file)
        BY <1>1, <2>1
      <4>2. \A j \in 1 .. w - 1 : X[(a + 1) + j] = << >>
        <5> SUFFICES ASSUME NEW j \in 1 .. w - 1 PROVE X[(a + 1) + j] = << >>
          OBVIOUS
        <5>1. (a + 1) + j = a + (j + 1) /\ j + 1 \in 1 .. w /\ j + 1 # 1
          BY <2>1
        <5>2. X[a + (j + 1)] = << >>
          BY <1>12, <2>3, <2>4, <2>7, <5>1
        <5> QED BY <5>1, <5>2
      <4>3. Flat(X, a + 1) \in Seq(Symbols)
        BY <1>14, <4>1 DEF Words
      <4> QED BY <4>1, <4>2, <4>3, EmptyRun
    <3>4. (a + 1) + (w - 1) = a + w
      BY <2>1
    <3>5. P(R(k)) = P(r) \o newBytes
      <4>1. R(k) = r \o new
        BY <1>9, <2>7 DEF r
      <4>2. new \in Words /\ r \in Words
        BY <2>1
      <4> QED BY ONLY <1>7, <1>a, <4>1, <4>2
    <3>6. Flat(X, a + w) = bom \o P(R(k))
      BY <1>7, <2>2, <2>6, <3>2, <3>3, <3>4, <3>5
    <3> QED BY <2>5, <3>6
  <2>8. CASE k \notin at /\ Inside(k, at, L)
    <3>1. \A j \in 1 .. w : X[a + j] = << >>
      BY <1>12, <2>3, <2>8
    <3>2. Flat(X, a + w) = Flat(X, a)
      <4>1. a \in Nat /\ w \in Nat /\ Flat(X, a) \in Seq(Symbols)
        BY <2>1 DEF Words
      <4> QED BY ONLY <3>1, <4>1, EmptyRun
    <3>3. R(k) = r
      BY <1>9, <2>1, <2>8, ConcatEmptySeq DEF Words, r
    <3> QED BY <2>2, <2>5, <3>2, <3>3
  <2>9. CASE k \notin at /\ ~Inside(k, at, L)
    <3>1. \A j \in 1 .. w : X[a + j] = <<c(k)[j]>>
      BY <1>12, <2>3, <2>9
    <3>2. Flat(X, a + w) = Flat(X, a) \o c(k)
      <4>1. c(k) \in Seq(Symbols) /\ Flat(X, a) \in Seq(Symbols) /\ a \in Nat /\ w = Len(c(k))
        BY <2>1 DEF Words, w
      <4> QED BY ONLY <3>1, <4>1, CopyRun
    <3>3. P(R(k)) = P(r) \o c(k)
      <4>1. R(k) = r \o <<text[k]>>
        BY <1>9, <2>9 DEF r
      <4>2. R(k) = Append(r, text[k])
        BY <2>1, <4>1, AppendIsConcat DEF Words
      <4> QED BY <2>1, <4>2, PayloadGoes DEF P, c
    <3>4. Flat(X, a + w) = bom \o P(R(k))
      BY <2>1, <2>2, <2>6, <3>2, <3>3
    <3> QED BY <2>5, <3>4
  <2> QED BY <2>7, <2>8, <2>9
<1> HIDE DEF H
<1>19. n \in H
  BY <1>1, <1>17, <1>18, Climb
<1>20. Flat(X, Len(file)) = bom \o P(R(n))
  BY <1>5, <1>19 DEF H
<1>21. bom \o T!Payload(T!Replace(text, old, new), encoding) = T!FlattenSeq(X)
  BY <1>11, <1>15, <1>20 DEF P
<1> QED BY <1>4, <1>21 DEF KeptAt, X, B

-----------------------------------------------------------------------------
(* What an edit has made.                                                  *)

NewlineOf(e) == T!DetectedNewline(T!Decode(e.file).text)
EditedBy(e) == T!Apply(T!Decode(e.file).text, e.edits, NewlineOf(e))
Made(e) ==
    /\ e.file \in Seq(T!Bytes) /\ e.edits \in Seq(EditAsked)
    /\ \A i \in 1 .. Len(e.edits) : e.edits[i].old # << >>
    /\ T!Decode(e.file) # T!Undecoded /\ EditedBy(e).ok
    /\ T!Encodable(EditedBy(e).text, T!Decode(e.file).encoding)
    /\ e.content = T!Encode(EditedBy(e).text, T!Decode(e.file).encoding)
    /\ e.diff = T!Diff(T!Lines(T!Decode(e.file).text), T!Lines(EditedBy(e).text))

LEMMA NewlineIs ==
    ASSUME NEW e
    PROVE  NewlineOf(e) \in {<<T!LF>>, CrLf}
BY DEF NewlineOf, T!DetectedNewline, CrLf

\* What has been read has bytes for each of its characters.
LEMMA ReadHasBytes ==
    ASSUME NEW text, NEW encoding,
           \/ encoding = "windows-1252" /\ text \in Seq(T!Bytes)
           \/ encoding \in Utf8s \cup Wides /\ text \in Seq(T!Chars)
    PROVE  HasBytes(text, encoding)
<1>1. ASSUME NEW ch \in Symbols, encoding = "windows-1252", ch # T!Cjk PROVE T!CharBytes(ch, encoding) # << >>
  BY <1>1 DEF T!CharBytes
<1>2. ASSUME NEW ch \in Symbols, encoding \in Utf8s \cup Wides PROVE T!CharBytes(ch, encoding) # << >>
  BY <1>2 DEF T!CharBytes, Utf8s, Wides
<1>3. T!Cjk \notin T!Bytes /\ T!Bytes \subseteq Symbols /\ T!Chars \subseteq Symbols
  BY CharsAreSymbols DEF T!Cjk, T!Bytes, T!CR, T!LF, T!EAcute
<1>4. CASE encoding = "windows-1252" /\ text \in Seq(T!Bytes)
  <2>1. \A i \in 1 .. Len(text) : text[i] \in T!Bytes
    BY <1>4
  <2> QED BY <1>1, <1>3, <1>4, <2>1 DEF HasBytes
<1>5. CASE encoding \in Utf8s \cup Wides /\ text \in Seq(T!Chars)
  <2>1. \A i \in 1 .. Len(text) : text[i] \in T!Chars
    BY <1>5
  <2> QED BY <1>2, <1>3, <1>5, <2>1 DEF HasBytes
<1> QED BY <1>4, <1>5 DEF HasBytes

KeptIn(file, content, old, new, count) ==
    \E at \in SUBSET {p \in 1 .. Len(file) : T!IsAt(file, p, old)} :
        /\ Cardinality(at) = count
        /\ \A p, r \in at : p < r => p + Len(old) <= r
        /\ content = T!FlattenSeq(Chosen(file, at, Len(old), new))

LEMMA BomType ==
    ASSUME NEW encoding PROVE T!Bom(encoding) \in Words
<1>1. \A x, y, z \in Symbols : <<x, y, z>> \in Words /\ <<x, y>> \in Words
  BY DEF Words
<1>2. << >> \in Words /\ {"ef", "bb", "bf", "ff", "fe"} \subseteq Symbols
  BY DEF Words, Symbols, T!Bytes
<1> QED BY <1>1, <1>2 DEF T!Bom

LEMMA OneIsKept ==
    ASSUME NEW e, Made(e), Len(e.edits) = 1,
           NEW encoding, encoding = T!Decode(e.file).encoding,
           NEW o, o = T!Normalize(e.edits[1].old, NewlineOf(e)),
           NEW w, w = T!Normalize(e.edits[1].new, NewlineOf(e))
    PROVE  KeptIn(e.file, e.content, T!Payload(o, encoding), T!Payload(w, encoding), e.edits[1].expected)
<1> DEFINE text == T!Decode(e.file).text
           bom == T!Bom(encoding)
           old == e.edits[1].old
           new == e.edits[1].new
           newline == NewlineOf(e)
           at == T!Matches(text, o)
           AA == AtBytes(text, encoding, bom, at)
           oldBytes == T!Payload(o, encoding)
           newBytes == T!Payload(w, encoding)
<1>1. /\ e.file \in Seq(T!Bytes) /\ T!Decode(e.file) # T!Undecoded
      /\ e.content = T!Encode(EditedBy(e).text, encoding) /\ EditedBy(e).ok
      /\ EditedBy(e) = T!Apply(text, e.edits, newline)
  BY DEF Made, EditedBy
<1>2. old \in Seq(T!Chars) /\ new \in Seq(T!Chars) /\ old # << >>
  <2>1. e.edits \in Seq(EditAsked) /\ \A i \in 1 .. Len(e.edits) : e.edits[i].old # << >>
    BY DEF Made
  <2>2. 1 \in 1 .. Len(e.edits)
    OBVIOUS
  <2>3. e.edits[1] \in EditAsked
    BY <2>1, <2>2
  <2> QED BY <2>1, <2>2, <2>3 DEF EditAsked
<1>3. /\ text \in Words /\ T!Encode(text, encoding) = e.file
      /\ \/ encoding = "windows-1252" /\ text = e.file
         \/ encoding \in Utf8s \cup Wides /\ text \in Seq(T!Chars)
  BY <1>1, DecodeIs
<1> HIDE DEF text, old, new, newline
<1>4. HasBytes(text, encoding)
  BY <1>1, <1>3, ReadHasBytes
<1>5. newline \in Words /\ newline # << >> /\ T!CR \in Symbols /\ T!LF \in Symbols
  <2>1. T!CR \in Symbols /\ T!LF \in Symbols
    BY Symbolic
  <2>2. newline \in {<<T!LF>>, CrLf}
    BY NewlineIs DEF newline
  <2>3. CASE newline = <<T!LF>>
    <3>1. <<T!LF>> \in Words /\ <<T!LF>> # << >>
      BY <2>1, OneWord
    <3> QED BY <2>1, <2>3, <3>1
  <2>4. CASE newline = CrLf
    <3>1. ASSUME NEW x \in Symbols, NEW y \in Symbols PROVE <<x, y>> \in Words /\ <<x, y>> # << >>
      BY DEF Words
    <3>2. CrLf \in Words /\ CrLf # << >>
      BY <2>1, <3>1 DEF CrLf
    <3> QED BY <2>1, <2>4, <3>2
  <2> QED BY <2>2, <2>3, <2>4
<1>6. o \in Words /\ o # << >> /\ w \in Words
  <2>1. old \in Words /\ new \in Words
    BY <1>2, CharsAreSymbols, SeqMonotonic DEF Words
  <2>2. o = T!Normalize(old, newline) /\ w = T!Normalize(new, newline)
    BY DEF old, new, newline
  <2>3. newline \in Seq(Symbols) /\ old \in Seq(Symbols) /\ new \in Seq(Symbols)
    BY <1>5, <2>1 DEF Words
  <2> HIDE DEF newline
  <2>4. /\ T!Normalize(old, newline) \in Seq(Symbols) /\ T!Normalize(new, newline) \in Seq(Symbols)
        /\ T!Normalize(old, newline) # << >>
    BY <1>2, <1>5, <2>3, NormalizeType
  <2> QED BY <2>2, <2>4 DEF Words
<1>7. Cardinality(at) = e.edits[1].expected /\ EditedBy(e).text = T!Replace(text, o, w)
  <2>1. T!Apply(text, e.edits, newline).ok
    BY <1>1
  <2>2. /\ T!Apply(text, e.edits, newline).text = Edited(text, e.edits[1], newline)
        /\ Cardinality(T!Matches(text, T!Normalize(e.edits[1].old, newline))) = e.edits[1].expected
    BY <2>1, OneEdit
  <2> QED BY <1>1, <2>2 DEF Edited, newline
<1>8. bom \in Words /\ e.file = bom \o T!Payload(text, encoding)
  BY <1>3, BomType DEF T!Encode
<1>9. e.file \in Words
  BY <1>1, CharsAreSymbols, SeqMonotonic DEF Words
<1>b. /\ AA = AtBytes(text, encoding, bom, at) /\ oldBytes = T!Payload(o, encoding)
      /\ newBytes = T!Payload(w, encoding) /\ at = T!Matches(text, o)
  OBVIOUS
<1> HIDE DEF bom, AA, oldBytes, newBytes, at
<1>10. KeptAt(AA, e.file, bom \o T!Payload(T!Replace(text, o, w), encoding), oldBytes, newBytes, Cardinality(at))
  BY ONLY <1>b, <1>3, <1>4, <1>6, <1>8, <1>9, RestIsKept
<1>11. e.content = bom \o T!Payload(T!Replace(text, o, w), encoding)
  BY <1>1, <1>7 DEF T!Encode, bom
<1>12. KeptAt(AA, e.file, e.content, oldBytes, newBytes, e.edits[1].expected)
  BY <1>7, <1>10, <1>11
<1> QED BY <1>12, <1>b DEF KeptIn, KeptAt

LEMMA RestStays ==
    ASSUME Made(edit)
    PROVE  T!KeepsTheRest
<1> SUFFICES ASSUME edit # T!NoEdit, Len(edit.edits) = 1 PROVE T!KeepsTheRest
  BY DEF T!KeepsTheRest
<1> DEFINE old == T!InFile(edit.edits[1].old)
           new == T!InFile(edit.edits[1].new)
<1>1. KeptIn(edit.file, edit.content, old, new, edit.edits[1].expected)
  BY OneIsKept DEF T!InFile, NewlineOf
<1> HIDE DEF old, new
<1>2. \E at \in SUBSET {p \in 1 .. Len(edit.file) : T!IsAt(edit.file, p, old)} :
        /\ T!Cardinality(at) = edit.edits[1].expected
        /\ \A p, r \in at : p < r => p + Len(old) <= r
        /\ edit.content = T!FlattenSeq([i \in 1 .. Len(edit.file) |->
              IF i \in at THEN new
              ELSE IF \E p \in at : i \in p .. p + Len(old) - 1 THEN << >> ELSE <<edit.file[i]>>])
  BY <1>1, CountIs DEF KeptIn, Chosen, Inside
<1> QED BY <1>2 DEF T!KeepsTheRest, old, new

\* The text that an edit has made, and what is read of it.
ResultOf(e) ==
    IF T!Decode(e.file).encoding = "windows-1252" THEN e.content ELSE T!Decode(e.content).text

LEMMA EditedIs ==
    ASSUME NEW e, Made(e), NEW text, text = T!Decode(e.file).text,
           NEW after, after = EditedBy(e).text
    PROVE  /\ text \in Words /\ after \in Words
           /\ \/ T!Decode(e.file).encoding = "windows-1252"
              \/ T!Decode(e.file).encoding \in Utf8s \cup Wides /\ after \in Seq(T!Chars)
           /\ NewlineOf(e) = <<T!LF>> /\ text \in Seq(NoReturn) => after \in Seq(NoReturn)
           /\ NewlineOf(e) = CrLf /\ NoLone(text) => NoLone(after)
<1>1. /\ e.file \in Seq(T!Bytes) /\ T!Decode(e.file) # T!Undecoded
      /\ e.edits \in Seq(EditAsked) /\ \A i \in 1 .. Len(e.edits) : e.edits[i].old # << >>
      /\ after = T!Apply(text, e.edits, NewlineOf(e)).text
  BY DEF Made, EditedBy
<1>2. /\ text \in Words
      /\ \/ T!Decode(e.file).encoding = "windows-1252"
         \/ T!Decode(e.file).encoding \in Utf8s \cup Wides /\ text \in Seq(T!Chars)
  BY <1>1, DecodeIs
<1>3. /\ T!Apply(text, e.edits, <<T!LF>>).text \in Words
      /\ T!Apply(text, e.edits, CrLf).text \in Words
      /\ text \in Seq(T!Chars) =>
            /\ T!Apply(text, e.edits, <<T!LF>>).text \in Seq(T!Chars)
            /\ T!Apply(text, e.edits, CrLf).text \in Seq(T!Chars)
      /\ text \in Seq(NoReturn) => T!Apply(text, e.edits, <<T!LF>>).text \in Seq(NoReturn)
      /\ NoLone(text) => NoLone(T!Apply(text, e.edits, CrLf).text)
  BY <1>1, <1>2, ApplyKeepsEnds
<1>4. NewlineOf(e) \in {<<T!LF>>, CrLf}
  BY NewlineIs
<1> QED BY <1>1, <1>2, <1>3, <1>4

\* What was written is read again.
LEMMA ResultIs ==
    ASSUME NEW e, Made(e)
    PROVE  ResultOf(e) = EditedBy(e).text
<1> DEFINE after == EditedBy(e).text
           encoding == T!Decode(e.file).encoding
<1>1. e.content = T!Encode(after, encoding) /\ T!Encodable(after, encoding)
  BY DEF Made
<1>2. /\ after \in Words
      /\ encoding = "windows-1252" \/ (encoding \in Utf8s \cup Wides /\ after \in Seq(T!Chars))
  BY EditedIs
<1>3. ResultOf(e) = IF encoding = "windows-1252" THEN e.content ELSE T!Decode(e.content).text
  BY DEF ResultOf
<1> HIDE DEF after, encoding
<1>4. CASE encoding = "windows-1252"
  <2>1. \A i \in 1 .. Len(after) : after[i] \in Symbols /\ T!CharBytes(after[i], "windows-1252") # << >>
    BY <1>1, <1>2, <1>4 DEF T!Encodable, Words
  <2>2. T!CharBytes(T!Cjk, "windows-1252") = << >>
    BY DEF T!CharBytes
  <2>3. \A i \in 1 .. Len(after) : after[i] \in Symbols \ {T!Cjk}
    BY <2>1, <2>2
  <2>4. after \in Seq(Symbols \ {T!Cjk})
    BY <1>2, <2>3 DEF Words
  <2>5. T!Payload(after, "windows-1252") = after
    BY <2>4, SinglePayload
  <2>6. e.content = << >> \o after
    BY <1>1, <1>4, <2>5, BomIs DEF T!Encode
  <2>7. << >> \o after = after
    BY <1>2, ConcatEmptySeq DEF Words
  <2> QED BY <1>3, <1>4, <2>6, <2>7 DEF after
<1>5. CASE encoding \in Utf8s \cup Wides /\ after \in Seq(T!Chars)
  <2>1. T!Decode(e.content).text = after
    BY <1>1, <1>5, EncodeReads
  <2>2. encoding # "windows-1252"
    BY <1>5 DEF Utf8s, Wides
  <2> QED BY <1>3, <2>1, <2>2 DEF after
<1> QED BY <1>2, <1>4, <1>5

LEMMA EndsStay ==
    ASSUME Made(edit)
    PROVE  T!KeepsItsNewline
<1> SUFFICES ASSUME edit # T!NoEdit PROVE T!KeepsItsNewline
  BY DEF T!KeepsItsNewline
<1> DEFINE before == T!Decode(edit.file).text
           after == T!Result
           lone(s) == {i \in DOMAIN s : s[i] = T!LF /\ (i = 1 \/ s[i - 1] # T!CR)}
<1>1. after = EditedBy(edit).text
  BY ResultIs DEF T!Result, ResultOf
<1>2. /\ before \in Words /\ after \in Words
      /\ NewlineOf(edit) = <<T!LF>> /\ before \in Seq(NoReturn) => after \in Seq(NoReturn)
      /\ NewlineOf(edit) = CrLf /\ NoLone(before) => NoLone(after)
  BY <1>1, EditedIs
<1>3. NewlineOf(edit) = T!DetectedNewline(before)
  BY DEF NewlineOf
<1> HIDE DEF before, after
<1>4. ASSUME NEW s \in Words
      PROVE  /\ T!CR \notin T!Range(s) <=> s \in Seq(NoReturn)
             /\ lone(s) = {} <=> NoLone(s)
  <2>1. DOMAIN s = 1 .. Len(s) /\ Len(s) \in Nat /\ \A i \in 1 .. Len(s) : s[i] \in Symbols
    BY <1>4 DEF Words
  <2>2. T!CR \notin T!Range(s) <=> \A i \in 1 .. Len(s) : s[i] # T!CR
    BY <2>1 DEF T!Range
  <2>3. s \in Seq(NoReturn) <=> \A i \in 1 .. Len(s) : s[i] # T!CR
    <3>1. ASSUME s \in Seq(NoReturn) PROVE \A i \in 1 .. Len(s) : s[i] # T!CR
      <4>1. \A i \in 1 .. Len(s) : s[i] \in NoReturn
        BY <3>1
      <4> QED BY <4>1 DEF NoReturn
    <3>2. ASSUME \A i \in 1 .. Len(s) : s[i] # T!CR PROVE s \in Seq(NoReturn)
      <4>1. \A i \in 1 .. Len(s) : s[i] \in NoReturn
        BY <2>1, <3>2 DEF NoReturn
      <4> QED BY <1>4, <4>1 DEF Words
    <3> QED BY <3>1, <3>2
  <2>4. lone(s) = {} <=> NoLone(s)
    BY <2>1 DEF NoLone
  <2> QED BY <2>2, <2>3, <2>4
<1>5. ASSUME T!CR \notin T!Range(before) PROVE T!CR \notin T!Range(after)
  <2>1. before \in Seq(NoReturn)
    BY <1>2, <1>4, <1>5
  <2>2. T!Matches(before, CrLf) = {}
    <3>1. Len(before) \in Nat /\ \A i \in 1 .. Len(before) : before[i] # T!CR
      <4>1. \A i \in 1 .. Len(before) : before[i] \in NoReturn
        BY ONLY <2>1
      <4>2. Len(before) \in Nat
        BY <2>1
      <4> QED BY <4>1, <4>2 DEF NoReturn
    <3>2. Len(CrLf) \in Nat \ {0} /\ Len(CrLf) = 2 /\ CrLf[1] = T!CR
      BY DEF CrLf
    <3>3. FoundSome(T!Matches(before, CrLf), before, CrLf, Len(before))
      BY <3>1, <3>2, MatchesAre
    <3>4. ASSUME NEW i \in 1 .. Len(before), T!IsAt(before, i, CrLf) PROVE FALSE
      <4>1. \A j \in 1 .. Len(CrLf) : CrLf[j] = before[i + j - 1]
        <5>1. before \in Seq(Symbols) /\ Len(CrLf) \in Nat \ {0}
          BY <1>2, <3>2 DEF Words
        <5> QED BY ONLY <3>4, <5>1, AtIs
      <4>2. 1 \in 1 .. Len(CrLf) /\ i + 1 - 1 = i
        BY <3>2
      <4> QED BY <3>1, <3>2, <4>1, <4>2
    <3> QED BY <3>3, <3>4 DEF FoundSome
  <2>3. NewlineOf(edit) = <<T!LF>>
    BY <1>3, <2>2 DEF T!DetectedNewline, CrLf
  <2> QED BY <1>2, <1>4, <2>1, <2>3
<1>6. ASSUME T!DetectedNewline(before) = <<T!CR, T!LF>>, lone(before) = {} PROVE lone(after) = {}
  BY <1>2, <1>3, <1>4, <1>6 DEF CrLf
<1> QED BY <1>5, <1>6 DEF T!KeepsItsNewline, before, after

-----------------------------------------------------------------------------
(* The diff.                                                               *)

LEMMA LongestIs ==
    ASSUME NEW m \in Nat, NEW S, S \subseteq 0 .. m, 0 \in S
    PROVE  T!Longest(S) \in S
<1> DEFINE Best(n, k) == n \in S /\ \A j \in S : j <= k => j <= n
           H == {k \in 0 .. m : \E n \in S : Best(n, k)}
<1>1. 0 \in H
  <2>1. Best(0, 0)
    OBVIOUS
  <2> QED BY <2>1
<1>2. ASSUME NEW k \in 1 .. m, k - 1 \in H PROVE k \in H
  <2>1. PICK n \in S : Best(n, k - 1)
    BY <1>2
  <2>2. CASE k \in S
    <3>1. Best(k, k)
      BY <2>2
    <3> QED BY <2>2, <3>1
  <2>3. CASE k \notin S
    <3>1. Best(n, k)
      BY <2>1, <2>3
    <3> QED BY <3>1
  <2> QED BY <2>2, <2>3
<1>3. m \in H
  <2> HIDE DEF H
  <2> QED BY <1>1, <1>2, Climb
<1>4. PICK n \in S : Best(n, m)
  BY <1>3
<1>5. \A k \in S : k <= n
  BY <1>4
<1> QED BY <1>4, <1>5 DEF T!Longest

\* A piece of a sequence.
LEMMA PieceIs ==
    ASSUME NEW S, NEW xs \in Seq(S), NEW a \in Nat, NEW b \in Nat, a <= b, b <= Len(xs)
    PROVE  /\ SubSeq(xs, a + 1, b) \in Seq(S) /\ Len(SubSeq(xs, a + 1, b)) = b - a
           /\ \A i \in 1 .. b - a : SubSeq(xs, a + 1, b)[i] = xs[a + i]
<1>1. a + 1 \in Int /\ b \in Int /\ \A i \in a + 1 .. b : xs[i] \in S
  OBVIOUS
<1>2. /\ SubSeq(xs, a + 1, b) \in Seq(S)
      /\ Len(SubSeq(xs, a + 1, b)) = IF a + 1 <= b THEN b - (a + 1) + 1 ELSE 0
      /\ \A i \in 1 .. b - (a + 1) + 1 : SubSeq(xs, a + 1, b)[i] = xs[(a + 1) + i - 1]
  BY ONLY <1>1, SubSeqProperties
<1>3. b - (a + 1) + 1 = b - a /\ \A i \in 1 .. b - a : (a + 1) + i - 1 = a + i
  OBVIOUS
<1> DEFINE p == SubSeq(xs, a + 1, b)
<1> HIDE DEF p
<1>4. p \in Seq(S) /\ Len(p) = (IF a + 1 <= b THEN b - (a + 1) + 1 ELSE 0)
  BY <1>2 DEF p
<1>5. Len(p) = b - a
  BY <1>4
<1>6. \A i \in 1 .. b - a : p[i] = xs[a + i]
  BY <1>2, <1>3 DEF p
<1> QED BY <1>4, <1>5, <1>6 DEF p

SamePiece(xs, a, ys, c, n) == \A i \in 1 .. n : xs[a + i] = ys[c + i]
EqualPieces(xs, a, b, ys, c, d) == SubSeq(xs, a + 1, b) = SubSeq(ys, c + 1, d)
LEMMA PieceSame ==
    ASSUME NEW S, NEW xs \in Seq(S), NEW a \in Nat, NEW b \in Nat, a <= b, b <= Len(xs),
           NEW ys \in Seq(S), NEW c \in Nat, NEW d \in Nat, c <= d, d <= Len(ys),
           NEW n, n = b - a, n = d - c, SamePiece(xs, a, ys, c, n)
    PROVE  EqualPieces(xs, a, b, ys, c, d)
<1> DEFINE p == SubSeq(xs, a + 1, b)
           q == SubSeq(ys, c + 1, d)
<1>1. p \in Seq(S) /\ Len(p) = b - a /\ \A i \in 1 .. b - a : p[i] = xs[a + i]
  BY PieceIs
<1>2. q \in Seq(S) /\ Len(q) = d - c /\ \A i \in 1 .. d - c : q[i] = ys[c + i]
  BY PieceIs
<1> HIDE DEF p, q
<1>3. p \in Seq(S) /\ q \in Seq(S) /\ Len(p) = Len(q) /\ \A i \in 1 .. Len(p) : p[i] = q[i]
  BY <1>1, <1>2 DEF SamePiece
<1>4. p = q
  BY ONLY <1>3, SeqEqual
<1> QED BY <1>4 DEF p, q, EqualPieces

Glued(xs, a, b, c) == SubSeq(xs, a + 1, b) \o SubSeq(xs, b + 1, c) = SubSeq(xs, a + 1, c)
LEMMA PiecesGlue ==
    ASSUME NEW S, NEW xs \in Seq(S), NEW a \in Nat, NEW b \in Nat, NEW c \in Nat, a <= b, b <= c, c <= Len(xs)
    PROVE  Glued(xs, a, b, c)
<1>1. a + 1 \in 1 .. Len(xs) + 1 /\ b \in (a + 1) - 1 .. Len(xs) /\ c \in b .. Len(xs)
  OBVIOUS
<1> QED BY <1>1, ConcatAdjacentSubSeq DEF Glued

\* What is put together after a place is put after what stood before it.
Follows(xs, ys, S, a, n) ==
    (\A j \in 1 .. a + n : xs[j] \in Seq(S)) /\ (\A j \in 1 .. n : xs[a + j] = ys[j])
Joined(s, r, t) == s = r \o t
LEMMA FlatShift ==
    ASSUME NEW S, NEW xs, NEW ys, NEW a \in Nat, NEW n \in Nat, Follows(xs, ys, S, a, n)
    PROVE  Joined(Flat(xs, a + n), Flat(xs, a), Flat(ys, n))
<1>0. (\A j \in 1 .. a + n : xs[j] \in Seq(S)) /\ (\A j \in 1 .. n : xs[a + j] = ys[j])
  BY DEF Follows
<1> DEFINE f == Flat(xs, a)
           H == {k \in 0 .. n : Flat(xs, a + k) = f \o Flat(ys, k)}
<1>1. \A j \in 1 .. n : ys[j] \in Seq(S)
  <2> SUFFICES ASSUME NEW j \in 1 .. n PROVE ys[j] \in Seq(S)
    OBVIOUS
  <2>1. a + j \in 1 .. a + n
    OBVIOUS
  <2> QED BY <1>0, <2>1
<1>2. f \in Seq(S) /\ \A k \in 0 .. n : Flat(ys, k) \in Seq(S)
  <2> DEFINE m == a + n
  <2>1. m \in Nat /\ a \in 0 .. m /\ \A j \in 1 .. m : xs[j] \in Seq(S)
    BY <1>0
  <2> HIDE DEF m
  <2>2. \A k \in 0 .. m : Flat(xs, k) \in Seq(S)
    BY ONLY <2>1, FlatType
  <2>3. \A k \in 0 .. n : Flat(ys, k) \in Seq(S)
    BY <1>1, FlatType
  <2> QED BY <2>1, <2>2, <2>3
<1>3. 0 \in H
  <2>1. a + 0 = a /\ 0 \in 0 .. n /\ 0 \in Nat
    OBVIOUS
  <2>3. Flat(ys, 0) = << >>
    BY ONLY <2>1, FlatGoes
  <2> HIDE DEF f
  <2>2. f \o << >> = f
    BY <1>2, ConcatEmptySeq
  <2> QED BY <2>1, <2>2, <2>3 DEF f
<1>4. ASSUME NEW k \in 1 .. n, k - 1 \in H PROVE k \in H
  <2> DEFINE g == Flat(ys, k - 1)
             y == ys[k]
  <2>1. k - 1 \in 0 .. n /\ k \in 0 .. n /\ k \in Nat /\ k # 0 /\ a + k \in Nat /\ a + k # 0 /\ (a + k) - 1 = a + (k - 1)
    OBVIOUS
  <2>2. Flat(xs, a + k) = Flat(xs, a + (k - 1)) \o xs[a + k]
    BY <2>1, FlatGoes
  <2>3. Flat(ys, k) = g \o y
    BY <2>1, FlatGoes
  <2>4. f \in Seq(S) /\ g \in Seq(S) /\ y \in Seq(S) /\ xs[a + k] = y
    BY <1>0, <1>1, <1>2, <2>1
  <2>5. Flat(xs, a + (k - 1)) = f \o g
    BY <1>4
  <2> HIDE DEF f, g, y
  <2>6. (f \o g) \o y = f \o (g \o y)
    BY ONLY <2>4, ConcatAssociative
  <2>7. Flat(xs, a + k) = f \o Flat(ys, k)
    BY <2>2, <2>3, <2>4, <2>5, <2>6
  <2> QED BY <2>1, <2>7 DEF f
<1> HIDE DEF H
<1>5. n \in H
  BY <1>3, <1>4, Climb
<1> QED BY <1>5 DEF H, Joined

\* The lines of a hunk with some of the signs.
Signs == {" ", "-", "+"}
SignedLine(S) == Signs \X S
SignAll(sign, ys) == [i \in DOMAIN ys |-> <<sign, ys[i]>>]
KeptLines(lines, signs) == [i \in DOMAIN lines |-> IF lines[i][1] \in signs THEN <<lines[i][2]>> ELSE << >>]

LEMMA SignedIs ==
    ASSUME NEW S, NEW lines \in Seq(SignedLine(S)), NEW signs, NEW xs, xs = KeptLines(lines, signs)
    PROVE  /\ Len(lines) \in Nat /\ DOMAIN lines = 1 .. Len(lines)
           /\ \A i \in 1 .. Len(lines) : /\ xs[i] = IF lines[i][1] \in signs THEN <<lines[i][2]>> ELSE << >>
                                         /\ xs[i] \in Seq(S)
           /\ T!Signed(lines, signs) = Flat(xs, Len(lines)) /\ T!Signed(lines, signs) \in Seq(S)
<1> DEFINE n == Len(lines)
<1>1. n \in Nat /\ DOMAIN lines = 1 .. n /\ \A i \in 1 .. n : lines[i] \in SignedLine(S)
  OBVIOUS
<1>2. ASSUME NEW y \in SignedLine(S) PROVE y[2] \in S /\ <<y[2]>> \in Seq(S)
  BY DEF SignedLine
<1>3. << >> \in Seq(S)
  OBVIOUS
<1> HIDE DEF n
<1>4. xs = [i \in 1 .. n |-> xs[i]] /\ \A i \in 1 .. n : xs[i] = IF lines[i][1] \in signs THEN <<lines[i][2]>> ELSE << >>
  BY <1>1 DEF KeptLines
<1>5. ASSUME NEW i \in 1 .. n PROVE xs[i] \in Seq(S)
  BY <1>1, <1>2, <1>3, <1>4
<1>6. xs \in [1 .. n -> Seq(S)]
  BY <1>4, <1>5
<1>7. xs \in Seq(Seq(S)) /\ Len(xs) = n
  BY <1>1, <1>6
<1>8. T!Signed(lines, signs) = T!FlattenSeq(xs)
  BY DEF T!Signed, KeptLines
<1>9. T!FlattenSeq(xs) = Flat(xs, n)
  BY <1>7, FlattenIsRun
<1>10. Flat(xs, n) \in Seq(S)
  <2>1. n \in 0 .. n /\ \A k \in 1 .. n : xs[k] \in Seq(S)
    BY <1>1, <1>5
  <2> QED BY <1>1, <2>1, FlatType
<1> QED BY <1>1, <1>4, <1>5, <1>8, <1>9, <1>10 DEF n

SignsJoin(S, v, w) ==
    /\ v \o w \in Seq(SignedLine(S))
    /\ \A signs : T!Signed(v \o w, signs) = T!Signed(v, signs) \o T!Signed(w, signs)
LEMMA SignedJoins ==
    ASSUME NEW S, NEW v \in Seq(SignedLine(S)), NEW w \in Seq(SignedLine(S))
    PROVE  SignsJoin(S, v, w)
<1> SUFFICES ASSUME NEW signs
             PROVE  /\ v \o w \in Seq(SignedLine(S))
                    /\ T!Signed(v \o w, signs) = T!Signed(v, signs) \o T!Signed(w, signs)
  BY DEF SignsJoin
<1> DEFINE E == SignedLine(S)
           u == v \o w
           a == Len(v)
           n == Len(w)
           xs == KeptLines(u, signs)
           ys == KeptLines(w, signs)
           zs == KeptLines(v, signs)
<1>1. /\ u \in Seq(E) /\ Len(u) = a + n
      /\ \A i \in 1 .. a + n : u[i] = IF i <= a THEN v[i] ELSE w[i - a]
  <2> HIDE DEF E
  <2> QED BY ConcatProperties DEF E
<1> HIDE DEF u
<1>2. /\ a \in Nat /\ T!Signed(v, signs) = Flat(zs, a)
      /\ \A i \in 1 .. a : zs[i] = IF v[i][1] \in signs THEN <<v[i][2]>> ELSE << >>
  BY SignedIs
<1>3. /\ n \in Nat /\ T!Signed(w, signs) = Flat(ys, n)
      /\ \A i \in 1 .. n : ys[i] = IF w[i][1] \in signs THEN <<w[i][2]>> ELSE << >>
  BY SignedIs
<1>4. /\ T!Signed(u, signs) = Flat(xs, a + n)
      /\ \A i \in 1 .. a + n : /\ xs[i] = IF u[i][1] \in signs THEN <<u[i][2]>> ELSE << >>
                               /\ xs[i] \in Seq(S)
  BY <1>1, SignedIs
<1> HIDE DEF xs, ys, zs, a, n, E
<1>5. ASSUME NEW i \in 1 .. a PROVE xs[i] = zs[i]
  <2>1. i \in 1 .. a + n /\ i <= a
    BY <1>2, <1>3
  <2> QED BY <1>1, <1>2, <1>4, <2>1
<1>6. ASSUME NEW j \in 1 .. n PROVE xs[a + j] = ys[j]
  <2>1. a + j \in 1 .. a + n /\ ~(a + j <= a) /\ (a + j) - a = j
    BY <1>2, <1>3
  <2>2. u[a + j] = w[j]
    BY <1>1, <2>1
  <2> QED BY <1>3, <1>4, <2>1, <2>2
<1>7. Flat(xs, a + n) = Flat(xs, a) \o Flat(ys, n)
  <2>1. a \in Nat /\ n \in Nat
    BY <1>2, <1>3
  <2>2. \A j \in 1 .. a + n : xs[j] \in Seq(S)
    BY <1>4
  <2>3. \A j \in 1 .. n : xs[a + j] = ys[j]
    BY <1>6
  <2>4. Follows(xs, ys, S, a, n)
    BY <2>2, <2>3 DEF Follows
  <2>5. Joined(Flat(xs, a + n), Flat(xs, a), Flat(ys, n))
    BY ONLY <2>1, <2>4, FlatShift
  <2> QED BY ONLY <2>5 DEF Joined
<1>8. Flat(xs, a) = Flat(zs, a)
  BY ONLY <1>2, <1>5, FlatSame
<1> QED BY <1>1, <1>2, <1>3, <1>4, <1>7, <1>8 DEF u, E

OneSign(S, sign, ys) ==
    /\ SignAll(sign, ys) \in Seq(SignedLine(S))
    /\ \A signs : T!Signed(SignAll(sign, ys), signs) = IF sign \in signs THEN ys ELSE << >>
LEMMA SignedOne ==
    ASSUME NEW S, NEW ys \in Seq(S), NEW sign \in Signs
    PROVE  OneSign(S, sign, ys)
<1> SUFFICES ASSUME NEW signs
             PROVE  /\ SignAll(sign, ys) \in Seq(SignedLine(S))
                    /\ T!Signed(SignAll(sign, ys), signs) = IF sign \in signs THEN ys ELSE << >>
  BY DEF OneSign
<1> DEFINE lines == SignAll(sign, ys)
           n == Len(ys)
           xs == KeptLines(lines, signs)
<1>1. n \in Nat /\ DOMAIN ys = 1 .. n /\ \A i \in 1 .. n : ys[i] \in S
  OBVIOUS
<1>2. lines = [i \in 1 .. n |-> lines[i]] /\ \A i \in 1 .. n : lines[i] = <<sign, ys[i]>>
  <2> HIDE DEF n
  <2> QED BY <1>1 DEF SignAll
<1>3. ASSUME NEW y \in S PROVE <<sign, y>> \in SignedLine(S) /\ <<sign, y>>[1] = sign /\ <<sign, y>>[2] = y
  BY DEF SignedLine
<1> HIDE DEF lines
<1>4. lines \in Seq(SignedLine(S)) /\ Len(lines) = n
  <2> DEFINE E == SignedLine(S)
  <2>1. \A i \in 1 .. n : lines[i] \in E
    BY <1>1, <1>2, <1>3
  <2> HIDE DEF E, n
  <2>2. lines \in [1 .. n -> E]
    BY <1>2, <2>1
  <2>3. lines \in Seq(E) /\ Len(lines) = n
    BY <1>1, <2>2
  <2> QED BY <2>3 DEF E
<1>5. /\ T!Signed(lines, signs) = Flat(xs, n)
      /\ \A i \in 1 .. n : xs[i] = IF lines[i][1] \in signs THEN <<lines[i][2]>> ELSE << >>
  <2>1. xs = KeptLines(lines, signs)
    OBVIOUS
  <2> HIDE DEF xs
  <2>2. /\ T!Signed(lines, signs) = Flat(xs, Len(lines))
        /\ \A i \in 1 .. Len(lines) : xs[i] = IF lines[i][1] \in signs THEN <<lines[i][2]>> ELSE << >>
    BY ONLY <1>4, <2>1, SignedIs
  <2> QED BY <1>4, <2>2
<1> HIDE DEF xs
<1>6. \A i \in 1 .. n : xs[i] = IF sign \in signs THEN <<ys[i]>> ELSE << >>
  <2> SUFFICES ASSUME NEW i \in 1 .. n PROVE xs[i] = IF sign \in signs THEN <<ys[i]>> ELSE << >>
    OBVIOUS
  <2>1. lines[i][1] = sign /\ lines[i][2] = ys[i]
    BY <1>1, <1>2, <1>3
  <2> QED BY <1>5, <2>1
<1>7. Flat(xs, 0) = << >>
  BY FlatGoes
<1>8. << >> \o ys = ys
  BY ConcatEmptySeq
<1>9. Flat(xs, 0) \in Seq(S) /\ 0 \in Nat /\ 0 + n = n /\ \A j \in 1 .. n : 0 + j = j
  <2>1. << >> \in Seq(S)
    OBVIOUS
  <2>2. 0 \in Nat /\ 0 + n = n /\ \A j \in 1 .. n : 0 + j = j
    OBVIOUS
  <2> QED BY <1>7, <2>1, <2>2
<1>10. CASE sign \in signs
  <2>1. \A j \in 1 .. Len(ys) : xs[0 + j] = <<ys[j]>>
    BY <1>6, <1>9, <1>10
  <2>2. ys \in Seq(S)
    OBVIOUS
  <2>3. Flat(xs, 0 + Len(ys)) = Flat(xs, 0) \o ys
    BY ONLY <1>9, <2>1, <2>2, CopyRun
  <2> QED BY <1>4, <1>5, <1>7, <1>8, <1>9, <1>10, <2>3 DEF lines
<1>11. CASE sign \notin signs
  <2>1. \A j \in 1 .. n : xs[0 + j] = << >>
    BY <1>6, <1>9, <1>11
  <2> HIDE DEF n
  <2>2. Flat(xs, 0 + n) = Flat(xs, 0)
    BY ONLY <1>1, <1>9, <2>1, EmptyRun
  <2> QED BY <1>4, <1>5, <1>7, <1>9, <1>11, <2>2 DEF lines
<1> QED BY <1>10, <1>11

\* How much two sequences share at their front, and then at their end.
Shared(x, y) == T!Longest({n \in 0 .. T!Least(Len(x), Len(y)) : SubSeq(x, 1, n) = SubSeq(y, 1, n)})

LEMMA LeastIs ==
    ASSUME NEW a \in Nat, NEW b \in Nat
    PROVE  T!Least(a, b) \in Nat /\ T!Least(a, b) <= a /\ T!Least(a, b) <= b
BY DEF T!Least

LEMMA SharedIs ==
    ASSUME NEW S, NEW x \in Seq(S), NEW y \in Seq(S), NEW p, p = Shared(x, y)
    PROVE  /\ p \in Nat /\ p <= Len(x) /\ p <= Len(y)
           /\ p <= T!Least(Len(x), Len(y))
           /\ \A i \in 1 .. p : x[i] = y[i]
<1> DEFINE m == T!Least(Len(x), Len(y))
           Good(n) == SubSeq(x, 1, n) = SubSeq(y, 1, n)
           N == {n \in 0 .. m : Good(n)}
<1>1. m \in Nat /\ m <= Len(x) /\ m <= Len(y) /\ Len(x) \in Nat /\ Len(y) \in Nat
  BY LeastIs
<1>2. Good(0)
  OBVIOUS
<1> HIDE DEF m, Good
<1>3. N \subseteq 0 .. m /\ 0 \in N
  BY <1>1, <1>2
<1>4. p = T!Longest(N)
  BY DEF Shared, Good, m
<1> HIDE DEF N
<1>5. T!Longest(N) \in N
  BY ONLY <1>1, <1>3, LongestIs
<1>6. p \in 0 .. m /\ Good(p)
  BY <1>4, <1>5 DEF N
<1>7. \A i \in 1 .. p : x[i] = y[i]
  <2>1. SubSeq(x, 0 + 1, p) = SubSeq(y, 0 + 1, p) /\ p \in Nat /\ 0 <= p /\ p <= Len(x) /\ p <= Len(y) /\ 0 \in Nat
    BY <1>1, <1>6 DEF Good
  <2>2. \A i \in 1 .. p - 0 : SubSeq(x, 0 + 1, p)[i] = x[0 + i]
    BY <2>1, PieceIs
  <2>3. \A i \in 1 .. p - 0 : SubSeq(y, 0 + 1, p)[i] = y[0 + i]
    BY <2>1, PieceIs
  <2>4. \A i \in 1 .. p : i \in 1 .. p - 0 /\ 0 + i = i
    BY <2>1
  <2> QED BY <2>1, <2>2, <2>3, <2>4
<1> QED BY <1>1, <1>6, <1>7 DEF m

LEMMA SuffixIs ==
    ASSUME NEW S, NEW x \in Seq(S), NEW y \in Seq(S), NEW p \in Nat, p <= T!Least(Len(x), Len(y)),
           NEW s, s = T!CommonSuffix(x, y, p)
    PROVE  /\ s \in Nat /\ p + s <= Len(x) /\ p + s <= Len(y)
           /\ \A k \in 0 .. s - 1 : x[Len(x) - k] = y[Len(y) - k]
<1> DEFINE m == T!Least(Len(x), Len(y))
           Good(n) == \A k \in 0 .. n - 1 : x[Len(x) - k] = y[Len(y) - k]
           N == {n \in 0 .. m - p : Good(n)}
<1>1. m \in Nat /\ m <= Len(x) /\ m <= Len(y) /\ Len(x) \in Nat /\ Len(y) \in Nat /\ m - p \in Nat
  <2>0. Len(x) \in Nat /\ Len(y) \in Nat
    OBVIOUS
  <2>1. m \in Nat /\ m <= Len(x) /\ m <= Len(y) /\ Len(x) \in Nat /\ Len(y) \in Nat
    BY ONLY <2>0, LeastIs
  <2>2. p <= m
    OBVIOUS
  <2> HIDE DEF m
  <2> QED BY <2>1, <2>2
<1>2. Good(0)
  OBVIOUS
<1> DEFINE r == m - p
<1>3. N \subseteq 0 .. r /\ 0 \in N /\ r \in Nat
  <2> HIDE DEF Good, m
  <2> QED BY <1>1, <1>2
<1>4. s = T!Longest(N)
  BY DEF T!CommonSuffix
<1> HIDE DEF N, r
<1>5. T!Longest(N) \in N
  BY ONLY <1>3, LongestIs
<1>6. s \in 0 .. m - p /\ Good(s)
  <2> HIDE DEF Good, m
  <2> QED BY <1>4, <1>5 DEF N
<1>7. s \in Nat /\ p + s <= Len(x) /\ p + s <= Len(y)
  <2> HIDE DEF m
  <2> QED BY <1>1, <1>6
<1> QED BY <1>6, <1>7

\* The pieces of two sequences that share the first p and the last s elements.
ShareEnds(x, y, p, s) ==
    /\ p + s <= Len(x) /\ p + s <= Len(y)
    /\ \A i \in 1 .. p : x[i] = y[i]
    /\ \A k \in 0 .. s - 1 : x[Len(x) - k] = y[Len(y) - k]
Hunk(S, x, y, start, be, ae, A1, A2, A3, A4) ==
    /\ A1 \in Seq(S) /\ A2 \in Seq(S) /\ A3 \in Seq(S) /\ A4 \in Seq(S)
    /\ be \in Nat /\ ae \in Nat /\ start <= be /\ start <= ae
    /\ (A1 \o A2) \o A4 = SubSeq(x, start + 1, be)
    /\ (A1 \o A3) \o A4 = SubSeq(y, start + 1, ae)
    /\ Len(SubSeq(y, start + 1, ae)) = ae - start
    /\ y = (SubSeq(x, 1, start) \o SubSeq(y, start + 1, ae)) \o SubSeq(x, be + 1, Len(x))
LEMMA HunkIs ==
    ASSUME NEW S, NEW x \in Seq(S), NEW y \in Seq(S), NEW p \in Nat, NEW s \in Nat, ShareEnds(x, y, p, s),
           NEW start \in Nat, start <= p,
           NEW rest \in Nat, rest <= s,
           NEW be, be = Len(x) - s + rest, NEW ae, ae = Len(y) - s + rest,
           NEW A1, A1 = SubSeq(x, start + 1, p), NEW A2, A2 = SubSeq(x, p + 1, Len(x) - s),
           NEW A3, A3 = SubSeq(y, p + 1, Len(y) - s), NEW A4, A4 = SubSeq(y, Len(y) - s + 1, ae)
    PROVE  Hunk(S, x, y, start, be, ae, A1, A2, A3, A4)
<1>0. /\ p + s <= Len(x) /\ p + s <= Len(y)
      /\ \A i \in 1 .. p : x[i] = y[i]
      /\ \A k \in 0 .. s - 1 : x[Len(x) - k] = y[Len(y) - k]
  BY DEF ShareEnds
<1> DEFINE m == Len(x)
           n == Len(y)
<1>1. /\ m \in Nat /\ n \in Nat /\ be \in Nat /\ ae \in Nat /\ m - s \in Nat /\ n - s \in Nat
      /\ p <= m - s /\ m - s <= be /\ be <= m /\ p <= n - s /\ n - s <= ae /\ ae <= n
      /\ start <= p /\ start <= be /\ start <= ae /\ be - (m - s) = ae - (n - s) /\ m - be = n - ae
  BY <1>0
<1>2. A1 \in Seq(S) /\ A2 \in Seq(S) /\ A3 \in Seq(S) /\ A4 \in Seq(S)
  <2>1. p <= m /\ m - s <= m /\ n - s <= n
    BY <1>1
  <2>2. SubSeq(x, start + 1, p) \in Seq(S)
    BY <1>1, <2>1, PieceIs
  <2>3. SubSeq(x, p + 1, m - s) \in Seq(S)
    BY <1>1, <2>1, PieceIs
  <2>4. SubSeq(y, p + 1, n - s) \in Seq(S)
    BY <1>1, <2>1, PieceIs
  <2>5. SubSeq(y, (n - s) + 1, ae) \in Seq(S)
    BY <1>1, <2>1, PieceIs
  <2> QED BY <2>2, <2>3, <2>4, <2>5
<1>4. SubSeq(x, start + 1, p) = SubSeq(y, start + 1, p)
  <2>1. SamePiece(x, start, y, start, p - start)
    <3> SUFFICES ASSUME NEW i \in 1 .. p - start PROVE x[start + i] = y[start + i]
      BY DEF SamePiece
    <3>1. start + i \in 1 .. p
      OBVIOUS
    <3> QED BY <1>0, <3>1
  <2>2. p <= Len(x) /\ p <= Len(y) /\ start <= p
    BY <1>1
  <2> QED BY <2>1, <2>2, PieceSame DEF EqualPieces
<1>5. SubSeq(x, 0 + 1, start) = SubSeq(y, 0 + 1, start)
  <2>1. SamePiece(x, 0, y, 0, start - 0)
    <3> SUFFICES ASSUME NEW i \in 1 .. start - 0 PROVE x[0 + i] = y[0 + i]
      BY DEF SamePiece
    <3>1. 0 + i = i /\ i \in 1 .. p
      OBVIOUS
    <3> QED BY <1>0, <3>1
  <2>2. start <= Len(x) /\ start <= Len(y) /\ 0 <= start /\ 0 \in Nat
    BY <1>1
  <2> QED BY <2>1, <2>2, PieceSame DEF EqualPieces
\* What is at the same distance from the end.
<1>6. ASSUME NEW i \in 1 .. s PROVE x[(m - s) + i] = y[(n - s) + i]
  <2>1. s - i \in 0 .. s - 1 /\ m - (s - i) = (m - s) + i /\ n - (s - i) = (n - s) + i
    BY <1>1
  <2> QED BY <1>0, <2>1
<1>7. SubSeq(x, (m - s) + 1, be) = A4
  <2> DEFINE a == m - s
             c == n - s
  <2>1. a \in Nat /\ c \in Nat /\ a <= be /\ be <= Len(x) /\ c <= ae /\ ae <= Len(y) /\ be - a = ae - c /\ be - a <= s
    BY <1>1
  <2> DEFINE w == be - a
  <2>5. w = be - a /\ w = ae - c
    BY <2>1
  <2>2. SamePiece(x, a, y, c, be - a)
    <3> SUFFICES ASSUME NEW i \in 1 .. be - a PROVE x[a + i] = y[c + i]
      BY DEF SamePiece
    <3>1. i \in 1 .. s
      BY <2>1
    <3> QED BY <1>6, <3>1
  <2>4. x \in Seq(S) /\ y \in Seq(S) /\ be \in Nat /\ ae \in Nat
    BY <1>1
  <2>6. SamePiece(x, a, y, c, w)
    BY <2>2
  <2> HIDE DEF a, c, w
  <2>3. EqualPieces(x, a, be, y, c, ae)
    BY ONLY <2>1, <2>4, <2>5, <2>6, PieceSame
  <2> QED BY <2>3 DEF a, c, EqualPieces
<1>8. SubSeq(x, be + 1, m) = SubSeq(y, ae + 1, n)
  <2>1. SamePiece(x, be, y, ae, m - be)
    <3> SUFFICES ASSUME NEW i \in 1 .. m - be PROVE x[be + i] = y[ae + i]
      BY DEF SamePiece
    <3>1. rest + i \in 1 .. s /\ be + i = (m - s) + (rest + i) /\ ae + i = (n - s) + (rest + i)
      BY <1>1
    <3> QED BY <1>6, <3>1
  <2>2. be <= m /\ m <= Len(x) /\ ae <= n /\ n <= Len(y) /\ m - be = n - ae
    BY <1>1
  <2>3. x \in Seq(S) /\ y \in Seq(S) /\ be \in Nat /\ ae \in Nat /\ m \in Nat /\ n \in Nat
    BY <1>1
  <2> DEFINE w == m - be
  <2>4. w = m - be /\ w = n - ae /\ SamePiece(x, be, y, ae, w)
    BY <2>1, <2>2
  <2> HIDE DEF m, n, w
  <2>5. EqualPieces(x, be, m, y, ae, n)
    BY ONLY <2>2, <2>3, <2>4, PieceSame
  <2> QED BY <2>5 DEF EqualPieces
<1> DEFINE a == m - s
           c == n - s
<1>b. /\ a \in Nat /\ c \in Nat /\ p <= a /\ a <= be /\ be <= Len(x) /\ p <= c /\ c <= ae /\ ae <= Len(y)
      /\ a <= Len(x) /\ c <= Len(y) /\ start <= a /\ start <= c /\ be \in Nat /\ ae \in Nat /\ n \in Nat /\ n <= Len(y)
      /\ n = Len(y) /\ start <= p /\ 0 \in Nat /\ 0 <= start /\ 0 <= ae /\ ae <= n
  BY <1>1
<1>c. A2 = SubSeq(x, p + 1, a) /\ A3 = SubSeq(y, p + 1, c) /\ A4 = SubSeq(y, c + 1, ae) /\ SubSeq(x, a + 1, be) = A4
  BY <1>7
<1> HIDE DEF m, n, a, c
<1>d. x \in Seq(S) /\ y \in Seq(S) /\ start \in Nat /\ p \in Nat
  OBVIOUS
<1>9. (A1 \o A2) \o A4 = SubSeq(x, start + 1, be)
  <2>1. Glued(x, start, p, a) /\ Glued(x, start, a, be)
    BY ONLY <1>b, <1>d, PiecesGlue
  <2> QED BY <1>c, <2>1 DEF Glued
<1>10. (A1 \o A3) \o A4 = SubSeq(y, start + 1, ae)
  <2>1. Glued(y, start, p, c) /\ Glued(y, start, c, ae)
    BY ONLY <1>b, <1>d, PiecesGlue
  <2> QED BY <1>4, <1>c, <2>1 DEF Glued
<1>11. Len(SubSeq(y, start + 1, ae)) = ae - start
  BY ONLY <1>b, <1>d, PieceIs
<1>12. y = (SubSeq(x, 1, start) \o SubSeq(y, start + 1, ae)) \o SubSeq(x, be + 1, Len(x))
  <2>1. Glued(y, 0, start, ae)
    BY ONLY <1>b, <1>d, PiecesGlue
  <2>a. Glued(y, 0, ae, n)
    BY ONLY <1>b, <1>d, PiecesGlue
  <2>2. 0 + 1 = 1
    OBVIOUS
  <2>3. SubSeq(y, 1, n) = y
    BY <1>b, SubSeqFull
  <2>4. SubSeq(y, 1, start) \o SubSeq(y, start + 1, ae) = SubSeq(y, 1, ae)
    BY ONLY <2>1, <2>2 DEF Glued
  <2>5. SubSeq(y, 1, ae) \o SubSeq(y, ae + 1, n) = SubSeq(y, 1, n)
    BY ONLY <2>a, <2>2 DEF Glued
  <2>6. SubSeq(x, 1, start) = SubSeq(y, 1, start)
    BY ONLY <1>5, <2>2
  <2>7. SubSeq(x, be + 1, Len(x)) = SubSeq(y, ae + 1, n)
    BY <1>8 DEF m
  <2> QED BY ONLY <2>3, <2>4, <2>5, <2>6, <2>7
<1> QED BY <1>1, <1>2, <1>9, <1>10, <1>11, <1>12 DEF Hunk

\* A hunk shows what makes the one sequence into the other.
ShowsEdit(d, x, y) ==
    /\ T!Signed(d.lines, {" ", "-"}) = SubSeq(x, d.start + 1, d.start + d.old)
    /\ Len(T!Signed(d.lines, {" ", "+"})) = d.new
    /\ y = SubSeq(x, 1, d.start) \o T!Signed(d.lines, {" ", "+"}) \o SubSeq(x, d.start + d.old + 1, Len(x))

FourSigns(lines, A1, A2, A3, A4) ==
    /\ T!Signed(lines, {" ", "-"}) = (A1 \o A2) \o A4
    /\ T!Signed(lines, {" ", "+"}) = (A1 \o A3) \o A4
LEMMA SignedFour ==
    ASSUME NEW S, NEW A1 \in Seq(S), NEW A2 \in Seq(S), NEW A3 \in Seq(S), NEW A4 \in Seq(S),
           NEW lines, lines = ((SignAll(" ", A1) \o SignAll("-", A2)) \o SignAll("+", A3)) \o SignAll(" ", A4)
    PROVE  FourSigns(lines, A1, A2, A3, A4)
<1> DEFINE s1 == SignAll(" ", A1)
           s2 == SignAll("-", A2)
           s3 == SignAll("+", A3)
           s4 == SignAll(" ", A4)
           E == SignedLine(S)
<1>0. OneSign(S, " ", A1) /\ OneSign(S, "-", A2) /\ OneSign(S, "+", A3) /\ OneSign(S, " ", A4)
  <2>1. \A sign \in Signs, ys \in Seq(S) : OneSign(S, sign, ys)
    BY SignedOne
  <2>2. " " \in Signs /\ "-" \in Signs /\ "+" \in Signs
    BY DEF Signs
  <2> QED BY <2>1, <2>2
<1>1. s1 \in Seq(E) /\ s2 \in Seq(E) /\ s3 \in Seq(E) /\ s4 \in Seq(E)
  BY <1>0 DEF OneSign
<1>2. ASSUME NEW signs
      PROVE  T!Signed(lines, signs) =
               ((T!Signed(s1, signs) \o T!Signed(s2, signs)) \o T!Signed(s3, signs)) \o T!Signed(s4, signs)
  <2> HIDE DEF s1, s2, s3, s4
  <2> DEFINE u == s1 \o s2
             w == u \o s3
  <2>1. u \in Seq(E) /\ T!Signed(u, signs) = T!Signed(s1, signs) \o T!Signed(s2, signs)
    <3>1. SignsJoin(S, s1, s2)
      BY <1>1, SignedJoins DEF E
    <3> QED BY <3>1 DEF SignsJoin, E
  <2> HIDE DEF u
  <2>2. w \in Seq(E) /\ T!Signed(w, signs) = T!Signed(u, signs) \o T!Signed(s3, signs)
    <3>1. SignsJoin(S, u, s3)
      BY <1>1, <2>1, SignedJoins DEF E
    <3> QED BY <3>1 DEF SignsJoin, E
  <2> HIDE DEF w
  <2>3. T!Signed(w \o s4, signs) = T!Signed(w, signs) \o T!Signed(s4, signs)
    <3>1. SignsJoin(S, w, s4)
      BY <1>1, <2>2, SignedJoins DEF E
    <3> QED BY <3>1 DEF SignsJoin
  <2>4. lines = w \o s4
    BY DEF w, u, s1, s2, s3, s4
  <2> QED BY <2>1, <2>2, <2>3, <2>4
<1>3. ASSUME NEW signs
      PROVE  /\ T!Signed(s1, signs) = IF " " \in signs THEN A1 ELSE << >>
             /\ T!Signed(s2, signs) = IF "-" \in signs THEN A2 ELSE << >>
             /\ T!Signed(s3, signs) = IF "+" \in signs THEN A3 ELSE << >>
             /\ T!Signed(s4, signs) = IF " " \in signs THEN A4 ELSE << >>
  BY <1>0 DEF OneSign
<1> HIDE DEF s1, s2, s3, s4
<1>4. /\ T!Signed(s1, {" ", "-"}) = A1 /\ T!Signed(s2, {" ", "-"}) = A2
      /\ T!Signed(s3, {" ", "-"}) = << >> /\ T!Signed(s4, {" ", "-"}) = A4
  BY <1>3
<1>5. /\ T!Signed(s1, {" ", "+"}) = A1 /\ T!Signed(s2, {" ", "+"}) = << >>
      /\ T!Signed(s3, {" ", "+"}) = A3 /\ T!Signed(s4, {" ", "+"}) = A4
  BY <1>3
<1>6. T!Signed(lines, {" ", "-"}) = ((A1 \o A2) \o << >>) \o A4
  BY <1>2, <1>4
<1>7. T!Signed(lines, {" ", "+"}) = ((A1 \o << >>) \o A3) \o A4
  BY <1>2, <1>5
<1>8. A1 \o << >> = A1
  BY ConcatEmptySeq
<1>9. (A1 \o A2) \o << >> = A1 \o A2
  <2> DEFINE u == A1 \o A2
  <2>1. u \in Seq(S)
    BY ConcatProperties
  <2> HIDE DEF u
  <2>2. u \o << >> = u
    BY <2>1, ConcatEmptySeq
  <2> QED BY <2>2 DEF u
<1> QED BY <1>6, <1>7, <1>8, <1>9 DEF FourSigns

LEMMA DiffShows ==
    ASSUME NEW S, NEW x \in Seq(S), NEW y \in Seq(S), NEW d, d = T!Diff(x, y)
    PROVE  ShowsEdit(d, x, y)
<1> DEFINE p == Shared(x, y)
           s == T!CommonSuffix(x, y, p)
           start == IF p > 3 THEN p - 3 ELSE 0
           be == T!Least(Len(x) - s + 3, Len(x))
           ae == T!Least(Len(y) - s + 3, Len(y))
           rest == IF s < 3 THEN s ELSE 3
           A1 == SubSeq(x, start + 1, p)
           A2 == SubSeq(x, p + 1, Len(x) - s)
           A3 == SubSeq(y, p + 1, Len(y) - s)
           A4 == SubSeq(y, Len(y) - s + 1, ae)
           lines == ((SignAll(" ", A1) \o SignAll("-", A2)) \o SignAll("+", A3)) \o SignAll(" ", A4)
<1>1. /\ p \in Nat /\ p <= Len(x) /\ p <= Len(y) /\ p <= T!Least(Len(x), Len(y))
      /\ \A i \in 1 .. p : x[i] = y[i]
  BY SharedIs
<1>2. /\ s \in Nat /\ p + s <= Len(x) /\ p + s <= Len(y)
      /\ \A k \in 0 .. s - 1 : x[Len(x) - k] = y[Len(y) - k]
  <2> HIDE DEF p
  <2> QED BY <1>1, SuffixIs
<1>3. d = [start |-> start, old |-> be - start, new |-> ae - start, lines |-> lines]
  BY DEF T!Diff, Shared, SignAll
<1> HIDE DEF p, s
<1>4. start \in Nat /\ start <= p /\ rest \in Nat /\ rest <= s
  BY <1>1, <1>2
<1>5. be = Len(x) - s + rest /\ ae = Len(y) - s + rest
  <2>1. Len(x) \in Nat /\ Len(y) \in Nat
    OBVIOUS
  <2> QED BY <1>2, <2>1 DEF T!Least
<1> HIDE DEF start, rest, be, ae
<1>7. A1 = SubSeq(x, start + 1, p) /\ A2 = SubSeq(x, p + 1, Len(x) - s) /\ A3 = SubSeq(y, p + 1, Len(y) - s) /\ A4 = SubSeq(y, Len(y) - s + 1, ae)
  OBVIOUS
<1>8. lines = ((SignAll(" ", A1) \o SignAll("-", A2)) \o SignAll("+", A3)) \o SignAll(" ", A4)
  OBVIOUS
<1> HIDE DEF A1, A2, A3, A4, lines
<1>6. d.start = start /\ d.old = be - start /\ d.new = ae - start /\ d.lines = lines
  BY <1>3
<1>9. /\ A1 \in Seq(S) /\ A2 \in Seq(S) /\ A3 \in Seq(S) /\ A4 \in Seq(S)
      /\ be \in Nat /\ ae \in Nat /\ start <= be /\ start <= ae
      /\ (A1 \o A2) \o A4 = SubSeq(x, start + 1, be)
      /\ (A1 \o A3) \o A4 = SubSeq(y, start + 1, ae)
      /\ Len(SubSeq(y, start + 1, ae)) = ae - start
      /\ y = (SubSeq(x, 1, start) \o SubSeq(y, start + 1, ae)) \o SubSeq(x, be + 1, Len(x))
  <2>1. x \in Seq(S) /\ y \in Seq(S) /\ p \in Nat /\ s \in Nat
    BY <1>1, <1>2
  <2>2. ShareEnds(x, y, p, s)
    BY <1>1, <1>2 DEF ShareEnds
  <2>3. Hunk(S, x, y, start, be, ae, A1, A2, A3, A4)
    BY ONLY <1>4, <1>5, <1>7, <2>1, <2>2, HunkIs
  <2> QED BY ONLY <2>3 DEF Hunk
<1>10. T!Signed(lines, {" ", "-"}) = (A1 \o A2) \o A4 /\ T!Signed(lines, {" ", "+"}) = (A1 \o A3) \o A4
  <2>1. A1 \in Seq(S) /\ A2 \in Seq(S) /\ A3 \in Seq(S) /\ A4 \in Seq(S)
    BY <1>9
  <2>2. FourSigns(lines, A1, A2, A3, A4)
    BY ONLY <1>8, <2>1, SignedFour
  <2> QED BY ONLY <2>2 DEF FourSigns
<1>11. d.start + d.old = be
  BY <1>4, <1>6, <1>9
<1>12. T!Signed(d.lines, {" ", "-"}) = SubSeq(x, d.start + 1, d.start + d.old)
  BY ONLY <1>6, <1>9, <1>10, <1>11
<1>13. Len(T!Signed(d.lines, {" ", "+"})) = d.new
  BY ONLY <1>6, <1>9, <1>10
<1>14. y = SubSeq(x, 1, d.start) \o T!Signed(d.lines, {" ", "+"}) \o SubSeq(x, d.start + d.old + 1, Len(x))
  BY ONLY <1>6, <1>9, <1>10, <1>11
<1> QED BY <1>12, <1>13, <1>14 DEF ShowsEdit

\* The lines of a text are texts.
LEMMA LineGoes ==
    ASSUME NEW d \in Seq(Words), NEW l \in Words, NEW ch \in Symbols, NEW st, st = [done |-> d, line |-> l]
    PROVE  \E d2 \in Seq(Words), l2 \in Words : T!LineNext(st, ch) = [done |-> d2, line |-> l2]
<1> DEFINE whole == IF st.line # << >> /\ T!Last(st.line) = T!CR THEN T!Front(st.line) ELSE st.line
           dl == Append(d, whole)
           ll == Append(l, ch)
<1>1. st.done = d /\ st.line = l
  OBVIOUS
<1>2. whole \in Words
  <2>1. l # << >> => T!Front(l) \in Words
    BY LastOf DEF Words
  <2> QED BY <1>1, <2>1
<1>3. T!LineNext(st, ch) =
        IF ch = T!LF THEN [done |-> Append(st.done, whole), line |-> << >>]
        ELSE [st EXCEPT !.line = Append(st.line, ch)]
  BY DEF T!LineNext
<1>4. << >> \in Words
  BY DEF Words
<1> HIDE DEF whole
<1>5. dl \in Seq(Words)
  BY <1>2, AppendProperties
<1>6. ll \in Words
  BY AppendProperties DEF Words
<1>7. ASSUME NEW x PROVE [st EXCEPT !.line = x] = [done |-> d, line |-> x]
  OBVIOUS
<1>8. T!LineNext(st, ch) = IF ch = T!LF THEN [done |-> dl, line |-> << >>] ELSE [done |-> d, line |-> ll]
  BY <1>1, <1>3, <1>7
<1> HIDE DEF dl, ll
<1> QED BY <1>4, <1>5, <1>6, <1>8

LEMMA LinesType ==
    ASSUME NEW text \in Words
    PROVE  T!Lines(text) \in Seq(Words)
<1> DEFINE base == [done |-> << >>, line |-> << >>]
           n == Len(text)
           R(k) == Run("line", base, text, k)
           H == {k \in 0 .. n : \E d \in Seq(Words), l \in Words : R(k) = [done |-> d, line |-> l]}
<1>0. n \in Nat /\ \A i \in 1 .. n : text[i] \in Symbols
  BY DEF Words
<1>1. 0 \in H
  <2>1. R(0) = base
    BY RunGoes
  <2>2. << >> \in Seq(Words) /\ << >> \in Words /\ 0 \in 0 .. n
    BY <1>0 DEF Words
  <2> HIDE DEF R
  <2> QED BY <2>1, <2>2
<1>2. ASSUME NEW k \in 1 .. n, k - 1 \in H PROVE k \in H
  <2>1. k \in Nat /\ k # 0 /\ k \in 0 .. n /\ text[k] \in Symbols
    BY <1>0
  <2>2. R(k) = Pass("line", R(k - 1), text[k])
    BY <2>1, RunGoes
  <2>3. R(k) = T!LineNext(R(k - 1), text[k])
    BY <2>2 DEF Pass
  <2> HIDE DEF R
  <2>4. PICK d \in Seq(Words), l \in Words : R(k - 1) = [done |-> d, line |-> l]
    BY <1>2
  <2>5. \E d2 \in Seq(Words), l2 \in Words : T!LineNext(R(k - 1), text[k]) = [done |-> d2, line |-> l2]
    BY <2>1, <2>4, LineGoes
  <2> QED BY <2>1, <2>3, <2>5
<1> HIDE DEF H
<1>3. n \in H
  BY <1>0, <1>1, <1>2, Climb
<1>4. PICK d \in Seq(Words), l \in Words : R(n) = [done |-> d, line |-> l]
  BY <1>3 DEF H
<1>5. T!Lines(text) = IF R(n).line = << >> THEN R(n).done ELSE Append(R(n).done, R(n).line)
  BY LinesAreRun
<1> HIDE DEF R, n
<1>6. R(n).line = l /\ R(n).done = d
  BY <1>4
<1>7. Append(d, l) \in Seq(Words)
  BY AppendProperties
<1> QED BY <1>5, <1>6, <1>7

LEMMA DiffStays ==
    ASSUME Made(edit)
    PROVE  T!ShownIsDone
<1> SUFFICES ASSUME edit # T!NoEdit PROVE T!ShownIsDone
  BY DEF T!ShownIsDone
<1> DEFINE d == edit.diff
           before == T!Lines(T!Decode(edit.file).text)
           after == T!Lines(T!Result)
<1>1. T!Result = EditedBy(edit).text
  BY ResultIs DEF T!Result, ResultOf
<1>2. T!Decode(edit.file).text \in Words /\ EditedBy(edit).text \in Words
  BY EditedIs
<1>3. before \in Seq(Words) /\ after \in Seq(Words)
  BY <1>1, <1>2, LinesType
<1>4. d = T!Diff(before, after)
  BY <1>1 DEF Made
<1>5. ShowsEdit(d, before, after)
  <2> HIDE DEF before, after, d
  <2> QED BY <1>3, <1>4, DiffShows
<1> QED BY <1>5 DEF T!ShownIsDone, ShowsEdit

-----------------------------------------------------------------------------
(* Every edit that is made is one of these.                                *)

EditInv == edit = T!NoEdit \/ Made(edit)

LEMMA EditInvHolds ==
    ASSUME EditInv
    PROVE  EditIsExact
<1>1. CASE edit = T!NoEdit
  BY <1>1 DEF EditIsExact, T!EditIsExact, T!KeepsTheRest, T!KeepsItsNewline, T!ShownIsDone
<1>2. CASE Made(edit)
  BY <1>2, RestStays, EndsStay, DiffStays DEF EditIsExact, T!EditIsExact
<1> QED BY <1>1, <1>2 DEF EditInv

LEMMA PrepareMakes ==
    ASSUME NEW file \in TextFiles, NEW edits \in TextEdits, T!Prepare(file, edits)
    PROVE  Made(edit)'
<1> DEFINE text == T!Decode(file).text
           edited == T!Apply(text, edits, T!DetectedNewline(text))
<1>1. file \in Seq(T!Bytes) /\ edits \in Seq(EditAsked)
  BY EditsAreTexts DEF T!EditsAssumption, EditAsked
<1>2. /\ \A i \in DOMAIN edits : edits[i].old # << >>
      /\ T!Decode(file) # T!Undecoded /\ edited.ok /\ T!Encodable(edited.text, T!Decode(file).encoding)
      /\ edit' = [file |-> file, edits |-> edits,
                  content |-> T!Encode(edited.text, T!Decode(file).encoding),
                  diff |-> T!Diff(T!Lines(text), T!Lines(edited.text))]
  BY DEF T!Prepare
<1>3. DOMAIN edits = 1 .. Len(edits)
  BY <1>1
<1> HIDE DEF edited
<1>4. /\ edit'.file = file /\ edit'.edits = edits /\ edit'.content = T!Encode(edited.text, T!Decode(file).encoding)
      /\ edit'.diff = T!Diff(T!Lines(text), T!Lines(edited.text))
  BY <1>2
<1>5. EditedBy(edit') = edited
  BY <1>4 DEF EditedBy, NewlineOf, edited
<1>6. Made(edit')
  BY <1>1, <1>2, <1>3, <1>4, <1>5 DEF Made
<1> QED BY <1>6 DEF Made, EditedBy, NewlineOf

\* Every prepared edit keeps what it does not change, the ends of the lines among it, and
\* is shown as it is done (FsWorker::prepare_edit): from EditsAreTexts alone.
THEOREM EditsStayExact == ServiceSpec => []EditIsExact
<1>1. ServiceInit => EditInv
  BY DEF ServiceInit, T!Init, EditInv
<1>2. EditInv /\ [ServiceNext]_Service => EditInv'
  <2> SUFFICES ASSUME EditInv, [ServiceNext]_Service PROVE EditInv'
    OBVIOUS
  <2>1. CASE part = "edit" /\ T!Next
    BY <2>1, PrepareMakes DEF T!Next, EditInv
  <2>2. CASE UNCHANGED edit
    BY <2>2 DEF EditInv, Made, EditedBy, NewlineOf, T!NoEdit
  <2> QED BY <2>1, <2>2 DEF ServiceNext, Service
<1>3. EditInv => EditIsExact
  BY EditInvHolds
<1> QED BY <1>1, <1>2, <1>3, PTL DEF ServiceSpec
=============================================================================
