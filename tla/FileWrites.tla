------------------------------ MODULE FileWrites ------------------------------
(***************************************************************************)
(* A write of vor-fs, call by call: FsWorker::write_inner with its         *)
(* temporary file, backup and journal, and prepare_edit before it.  Two    *)
(* dispatchers may serve the same roots, the same request may come again,  *)
(* another program may write the file, a call may fail, and a process may  *)
(* die between any two calls.  One target; a content stands for its digest *)
(* and a transaction for the digest of its request.  A rename replaces its *)
(* target, as it does on Windows, where alone the policy grants a write.   *)
(***************************************************************************)
EXTENDS Naturals, FiniteSets, Sequences

CONSTANTS
    Workers,        \* the dispatchers
    Requests,       \* [id -> [expected, content]], the writes that may come in;
                    \* expected is a content, or Absent
    EditOf,         \* what the edits of a prepared edit make of a content
    Contents,       \* whole contents
    Foreign,        \* the contents that other programs write
    Absent, Partial,
    MaxJobs,        \* bound: requests served
    MaxFaults,      \* bound: calls that fail, processes that die
    MaxForeign      \* bound: changes by other programs

\* What the constants have to be.  Every write changes something: one that does not may
\* be done any number of times to no effect, and is left out.
ContentsAssumption ==
    /\ Absent \notin Contents /\ Partial \notin Contents /\ Absent # Partial
    /\ Absent \notin {"prepared", "replaced", "committed"}
    /\ Foreign \subseteq Contents
    /\ \A id \in DOMAIN Requests :
          /\ Requests[id].expected \in Contents \cup {Absent}
          /\ Requests[id].content \in Contents
          /\ Requests[id].content # Requests[id].expected
    /\ \A c \in DOMAIN EditOf : EditOf[c] \in Contents /\ EditOf[c] # c
    /\ DOMAIN EditOf \subseteq Contents

VARIABLES
    target,         \* the file: a content or Absent
    temp,           \* [id -> the temporary file beside the target]
    backup,         \* [id -> the copy in the journal's directory]
    journal,        \* [id -> the state in the record of the journal]
    work,           \* [worker -> its call of write_inner]
    prepared,       \* the edits that were prepared: [expected, content]
    jobs, faults, foreign,  \* counters of the bounds
    replaced,       \* history: what each replacement took away
    putback         \* history: the requests that had replaced the target when it
                    \* came to be again what they expect
vars == <<target, temp, backup, journal, work, prepared, jobs, faults,
          foreign, replaced, putback>>

Ids == DOMAIN Requests
Edit == "edit"      \* the request that commits a prepared edit, in Ids

\* backs: there was a file to copy; fresh: nobody has touched the target since
\* this write last looked at it; req: what is to be written; call: its number.
Idle == [pc |-> "idle", call |-> 0, id |-> Absent, backs |-> FALSE, fresh |-> FALSE, req |-> Absent]

Init ==
    /\ target \in {Requests[id].expected : id \in Ids}
    /\ temp = [id \in Ids |-> Absent] /\ backup = [id \in Ids |-> Absent]
    /\ journal = [id \in Ids |-> Absent]
    /\ work = [w \in Workers |-> Idle]
    /\ prepared = {}
    /\ jobs = 0 /\ faults = 0 /\ foreign = 0
    /\ replaced = {} /\ putback = {}

Id(w) == work[w].id
Expected(w) == work[w].req.expected
Content(w) == work[w].req.content

Goto(w, pc) == work' = [work EXCEPT ![w].pc = pc]
Return(w) == work' = [work EXCEPT ![w] = Idle]
\* What the others have seen of the target is no longer so.
Stale(ws) == [u \in Workers |-> [ws[u] EXCEPT !.fresh = FALSE]]

Bounds == <<jobs, faults, foreign>>
history == <<replaced, putback>>
PutBack(c) == putback' = putback \cup {r.id : r \in {q \in replaced : q.req.expected = c}}

-----------------------------------------------------------------------------
(* FsWorker::prepare_edit and write_inner.                                 *)

\* prepare_edit: the content is read once, the edits are applied to it, and the
\* write will expect the content that was read.
PrepareEdit ==
    /\ Edit \in Ids /\ prepared = {}
    /\ target \in DOMAIN EditOf
    /\ prepared' = {[expected |-> target, content |-> EditOf[target]]}
    /\ UNCHANGED <<target, temp, backup, journal, work, Bounds, history>>

\* A request comes in, for the first time or again.
Begin(w, id) ==
    /\ work[w].pc = "idle" /\ jobs < MaxJobs /\ jobs' = jobs + 1
    /\ \E req \in IF id = Edit THEN prepared ELSE {Requests[id]} :
          work' = [work EXCEPT ![w] = [Idle EXCEPT !.pc = "check", !.call = jobs', !.id = id, !.req = req]]
    /\ UNCHANGED <<target, temp, backup, journal, prepared, faults, foreign, history>>

\* verify_target_precondition: the target is as the request expects it.
Check(w) ==
    /\ work[w].pc = "check"
    /\ IF target = Expected(w) THEN Goto(w, "exists") ELSE Return(w)
    /\ UNCHANGED <<target, temp, backup, journal, prepared, Bounds, history>>

\* Whether there is something to back up; a temporary file or a journal of the
\* same request is a transaction that exists.
Look(w) ==
    /\ work[w].pc = "exists"
    /\ IF temp[Id(w)] # Absent \/ journal[Id(w)] # Absent THEN Return(w)
       ELSE work' = [work EXCEPT ![w].pc = "create", ![w].backs = target # Absent]
    /\ UNCHANGED <<target, temp, backup, journal, prepared, Bounds, history>>

\* Mutant of Create: an existing temporary file is used again.
CreateOrTruncate(w) ==
    /\ work[w].pc = "create"
    /\ temp' = [temp EXCEPT ![Id(w)] = Partial] /\ Goto(w, "fill")
    /\ UNCHANGED <<target, backup, journal, prepared, Bounds, history>>

\* create_new: the call fails if the file is there by now.
Create(w) ==
    /\ work[w].pc = "create"
    /\ IF temp[Id(w)] # Absent
       THEN Return(w) /\ UNCHANGED temp
       ELSE temp' = [temp EXCEPT ![Id(w)] = Partial] /\ Goto(w, "fill")
    /\ UNCHANGED <<target, backup, journal, prepared, Bounds, history>>

Fill(w) ==
    /\ work[w].pc = "fill"
    /\ temp' = [temp EXCEPT ![Id(w)] = Content(w)]
    /\ Goto(w, "verify")
    /\ UNCHANGED <<target, backup, journal, prepared, Bounds, history>>

\* Mutant of Verify: the target is not looked at again.
VerifyNothing(w) ==
    /\ work[w].pc = "verify"
    /\ work' = [work EXCEPT ![w].pc = IF work[w].backs THEN "backup" ELSE "prepare", ![w].fresh = TRUE]
    /\ UNCHANGED <<target, temp, backup, journal, prepared, Bounds, history>>

\* Mutant of Verify: only that there still is, or is not, a file.
VerifyItIsThere(w) ==
    /\ work[w].pc = "verify"
    /\ IF (target = Absent) = (Expected(w) = Absent)
       THEN work' = [work EXCEPT ![w].pc = IF work[w].backs THEN "backup" ELSE "prepare",
                                 ![w].fresh = TRUE]
       ELSE Return(w)
    /\ UNCHANGED <<target, temp, backup, journal, prepared, Bounds, history>>

\* The precondition once more, now that the content is on disk; if it fails, the
\* temporary file is removed, or stays when that fails too.
Verify(w) ==
    /\ work[w].pc = "verify"
    /\ IF target = Expected(w)
       THEN /\ work' = [work EXCEPT ![w].pc = IF work[w].backs THEN "backup" ELSE "prepare",
                                    ![w].fresh = TRUE]
            /\ UNCHANGED <<temp, faults>>
       ELSE /\ Return(w)
            /\ \/ temp' = [temp EXCEPT ![Id(w)] = Absent] /\ UNCHANGED faults
               \/ faults < MaxFaults /\ faults' = faults + 1 /\ UNCHANGED temp
    /\ UNCHANGED <<target, backup, journal, prepared, jobs, foreign, history>>

\* fs::copy: truncated first; it fails if the target has gone.
BeginBackup(w) ==
    /\ work[w].pc = "backup"
    /\ IF target = Absent
       THEN Return(w) /\ UNCHANGED backup
       ELSE backup' = [backup EXCEPT ![Id(w)] = Partial] /\ Goto(w, "copy")
    /\ UNCHANGED <<target, temp, journal, prepared, Bounds, history>>

\* The copy, of whatever the target is by then.
Copy(w) ==
    /\ work[w].pc = "copy" /\ target # Absent
    /\ backup' = [backup EXCEPT ![Id(w)] = target]
    /\ Goto(w, "prepare")
    /\ UNCHANGED <<target, temp, journal, prepared, Bounds, history>>

\* persist_journal: the new record takes the place of the old one.
Persist(w, state) == journal' = [journal EXCEPT ![Id(w)] = state]

Prepare(w) ==
    /\ work[w].pc = "prepare" /\ Persist(w, "prepared") /\ Goto(w, "replace")
    /\ UNCHANGED <<target, temp, backup, prepared, Bounds, history>>

\* atomic_replace: the temporary file takes the place of the target.
Rename(w) ==
    /\ work[w].pc = "replace"
    /\ target' = temp[Id(w)]
    /\ temp' = [temp EXCEPT ![Id(w)] = Absent]
    /\ replaced' = replaced \cup {[id |-> Id(w), call |-> work[w].call, req |-> work[w].req,
                                   away |-> target, backs |-> work[w].backs,
                                   fresh |-> work[w].fresh]}
    /\ PutBack(temp[Id(w)])
    /\ work' = [Stale(work) EXCEPT ![w].pc = "mark"]
    /\ UNCHANGED <<backup, journal, prepared, Bounds>>

Mark(w) ==
    /\ work[w].pc = "mark" /\ Persist(w, "replaced") /\ Goto(w, "confirm")
    /\ UNCHANGED <<target, temp, backup, prepared, Bounds, history>>

\* The target is read again: an error if it is not what was written.
Confirm(w) ==
    /\ work[w].pc = "confirm"
    /\ IF target = Content(w) THEN Goto(w, "commit") ELSE Return(w)
    /\ UNCHANGED <<target, temp, backup, journal, prepared, Bounds, history>>

Commit(w) ==
    /\ work[w].pc = "commit" /\ Persist(w, "committed") /\ Return(w)
    /\ UNCHANGED <<target, temp, backup, prepared, Bounds, history>>

-----------------------------------------------------------------------------
(* What goes wrong.                                                        *)

\* A call fails, and write_inner returns with what it had made left where it is;
\* or the process dies, which leaves the same.
Stop(w) ==
    /\ work[w].pc # "idle"
    /\ faults < MaxFaults /\ faults' = faults + 1
    /\ Return(w)
    /\ UNCHANGED <<target, temp, backup, journal, prepared, jobs, foreign, history>>

\* The target has gone while it was to be copied.
CopyFails(w) ==
    /\ work[w].pc = "copy" /\ target = Absent
    /\ Return(w)
    /\ UNCHANGED <<target, temp, backup, journal, prepared, Bounds, history>>

\* Another program writes or deletes the file.
Interfere ==
    /\ foreign < MaxForeign /\ foreign' = foreign + 1
    /\ target' \in (Foreign \cup {Absent}) \ {target}
    /\ PutBack(target')
    /\ work' = Stale(work)
    /\ UNCHANGED <<temp, backup, journal, prepared, jobs, faults, replaced>>

Serve(w) ==
    \/ Check(w) \/ Look(w) \/ Create(w) \/ Fill(w) \/ Verify(w) \/ BeginBackup(w)
    \/ Copy(w) \/ CopyFails(w) \/ Prepare(w) \/ Rename(w) \/ Mark(w)
    \/ Confirm(w) \/ Commit(w)

Next ==
    \/ PrepareEdit \/ Interfere
    \/ \E w \in Workers : Stop(w) \/ Serve(w) \/ \E id \in Ids : Begin(w, id)

Spec == Init /\ [][Next]_vars

-----------------------------------------------------------------------------
(* Properties.                                                             *)

\* pending_transactions
Pending == {id \in Ids : journal[id] \notin {Absent, "committed"}}
At(id) == {w \in Workers : work[w].id = id}

\* What a write takes away is what its request expected, and its backup holds
\* it from then on, through repetitions of the request, other writers, failures
\* and deaths; unless somebody had changed the file after the write had last
\* looked at it (the second verify_target_precondition and the backup after it),
\* or put back what the request expects while it was there a second time, or
\* the file was away for the moment when write_inner asked if there is one.
BackupHoldsWhatWasReplaced ==
    \A r \in replaced : r.fresh /\ r.id \notin putback /\ (r.backs \/ r.req.expected = Absent) =>
        /\ r.away = r.req.expected
        /\ r.away # Absent => backup[r.id] = r.away

\* One call of those for a request replaces the target, however often it comes
\* and to however many dispatchers, unless the file had been put back meanwhile: there is no claim for an automatic write, only
\* the journal, the temporary file and the precondition.
OncePerRequest == \A r, q \in replaced : r.id = q.id => r.call = q.call \/ r.id \in putback

\* A write that was interrupted can be told and undone: the file is whole, what
\* it has changed has a record, which is pending until it says committed, and a
\* record that is there before the change goes with a whole temporary file.
InterruptedIsPending ==
    /\ target \in Contents \cup {Absent}
    /\ \A r \in replaced : journal[r.id] # Absent
    /\ \A id \in Ids : journal[id] \in {"replaced", "committed"} =>
          \E r \in replaced : r.id = id
    /\ \A id \in Pending :
          \/ \E r \in replaced : r.id = id
          \/ temp[id] \in Contents

\* What the design says: a race fails without an effect.  It does not hold: the
\* backup and the journal lie between the last look and the replacement.
RaceHasNoEffect == \A r \in replaced : r.away = r.req.expected
=============================================================================
