------------------------- MODULE AuditLedgerProofs -------------------------
(* What AuditLedger guarantees for every value of its constants, fairness aside. *)
EXTENDS AuditLedger, TLAPS

\* Between its look at the database and the end of its transaction a process holds
\* a record that was the last one then, and still is while its insert is open.
SeenWasLast(p) ==
    /\ pc[p] \in {"compare", "insert", "write_line", "commit"} =>
        /\ Len(seen[p]) \in 0 .. Len(db)
        /\ seen[p] # Zero => db[Len(seen[p])] = seen[p]
    /\ pc[p] \in {"write_line", "commit"} => Len(seen[p]) = Len(db)

\* The inductive strengthening of OneChain.
ChainInv ==
    /\ TypeOK
    /\ OneChain
    /\ \A p \in Process : SeenWasLast(p)

\* One more record on a chain makes one more link.
LEMMA Extend ==
    ASSUME NEW chain \in Seq(Event), NEW e \in Event
    PROVE  /\ Append(chain, e) \in Seq(Event)
           /\ Len(Append(chain, e)) = Len(chain) + 1
           /\ SubSeq(Append(chain, e), 1, Len(chain)) = chain
  OBVIOUS

\* The last record of a chain of records is one of them, or ZERO_HASH.
LEMMA LastType ==
    ASSUME NEW s \in Seq(Seq(Event))
    PROVE  /\ LastOf(s) \in Seq(Event)
           /\ s # <<>> => LastOf(s) = s[Len(s)] /\ Len(s) \in DOMAIN s
           /\ s = <<>> => LastOf(s) = Zero
BY DEF LastOf, Zero

\* A line goes to the end of the mirror, or into the torn line there.
LEMMA LineType ==
    ASSUME ConstantsAssumption, NEW line \in Line, file \in Seq(Line)
    PROVE  AppendLine(line) \in Seq(Line)
<1>1. Torn \in Line /\ Garbled \in Line
  BY DEF Line
<1>2. Append(file, line) \in Seq(Line)
  OBVIOUS
<1>3. ASSUME NEW x \in Line, file # <<>>
      PROVE  [file EXCEPT ![Len(file)] = x] \in Seq(Line)
  BY <1>3
<1>4. LastOf(file) = Torn => file # <<>>
  <2>1. <<>> \in Seq(Event) /\ Torn \notin Seq(Event)
    BY DEF ConstantsAssumption
  <2> QED BY <2>1 DEF LastOf, Zero
<1> QED BY <1>1, <1>2, <1>3, <1>4 DEF AppendLine

\* Goto leads to where it says.
LEMMA GotoAt ==
    ASSUME TypeOK, NEW p \in Process, NEW step, Goto(p, step)
    PROVE  pc'[p] = step
BY DEF TypeOK, Goto

\* An insert that goes through has found the sequence number of its record free.
LEMMA InsertLeads ==
    ASSUME TypeOK, NEW p \in Process, Insert(p)
    PROVE  \/ pc'[p] = "drop"
           \/ pc'[p] = "write_line" /\ Len(Record(p)) \notin DOMAIN db
<1>1. CASE Goto(p, "drop")
  BY <1>1, GotoAt
<1>2. CASE Goto(p, "write_line") /\ Len(Record(p)) \notin DOMAIN db
  BY <1>2, GotoAt
<1> QED BY <1>1, <1>2 DEF Insert

\* Writing the line leads on to the commit, or out of the call.
LEMMA WriteLineLeads ==
    ASSUME TypeOK, NEW p \in Process, WriteLine(p)
    PROVE  db' = db /\ pc[p] = "write_line" /\ pc'[p] \in {"drop", "commit"}
<1>1. Goto(p, "drop") \/ Goto(p, "commit")
  BY DEF WriteLine
<1>2. pc'[p] \in {"drop", "commit"}
  BY <1>1, GotoAt
<1> QED BY <1>2 DEF WriteLine

\* A death commits nothing.
LEMMA CrashLeads ==
    ASSUME TypeOK, NEW p \in Process, Crash(p)
    PROVE  db' = db /\ pc'[p] = "down"
BY DEF TypeOK, Crash

\* What does not touch a process, nor the database, keeps what that process has seen.
LEMMA SeenKept ==
    ASSUME NEW p \in Process, SeenWasLast(p), pc'[p] = pc[p], seen'[p] = seen[p], db' = db
    PROVE  SeenWasLast(p)'
BY DEF SeenWasLast

\* A step of one process leaves the place and the view of the others alone.
OthersWait(p) == \A q \in Process \ {p} : pc'[q] = pc[q] /\ seen'[q] = seen[q]

\* A step that commits nothing keeps the chain, if the process that takes it keeps
\* an honest view.
LEMMA NoCommit ==
    ASSUME ChainInv, TypeOK', NEW p \in Process, OthersWait(p), db' = db, SeenWasLast(p)'
    PROVE  ChainInv'
<1>1. OneChain'
  BY DEF ChainInv, OneChain
<1>2. \A q \in Process : SeenWasLast(q)'
  BY SeenKept DEF ChainInv, OthersWait
<1> QED BY <1>1, <1>2 DEF ChainInv

\* The steps of a call that keep to the lock file.
LEMMA LockStepType ==
    ASSUME TypeOK, NEW p \in Process,
           \/ Open(p) \/ Opened(p) \/ CreateLock(p) \/ FindLock(p) \/ JudgeLock(p)
           \/ RemoveLock(p) \/ LockTimeout(p) \/ StampLock(p) \/ ReadDb(p) \/ Compare(p)
           \/ Release(p) \/ DropLock(p) \/ (\E e \in Event : AppendEvent(p, e))
    PROVE  /\ TypeOK' /\ OthersWait(p) /\ db' = db
           /\ pc'[p] \in {"compare", "insert"} => ReadDb(p) \/ Compare(p)
           /\ pc'[p] \notin {"write_line", "commit"}
<1>1. CASE Open(p)
  <2>1. LastOf(db) \in Seq(Event)
    BY LastType DEF TypeOK
  <2> QED BY <1>1, <2>1 DEF TypeOK, OthersWait, Open, Goto, stores, Step
<1>2. CASE Opened(p) \/ JudgeLock(p) \/ LockTimeout(p)
  BY <1>2 DEF TypeOK, OthersWait, Opened, JudgeLock, LockTimeout, Goto, Return, stores, Step
<1>8. CASE FindLock(p)
  <2>1. tries' \in [Process -> Nat]
    BY <1>8 DEF TypeOK, FindLock
  <2> QED BY <1>8, <2>1 DEF TypeOK, OthersWait, FindLock, Goto, stores, Step
<1>3. CASE CreateLock(p)
  <2>0. [by |-> p, stamped |-> FALSE, age |-> 0] \in [by : Process, stamped : BOOLEAN, age : Nat]
    OBVIOUS
  <2>1. lock' \in [by : Process, stamped : BOOLEAN, age : Nat] \cup {NoLock}
    BY <1>3, <2>0 DEF CreateLock
  <2> QED BY <1>3, <2>1 DEF TypeOK, OthersWait, CreateLock, Goto, stores, Step
<1>9. CASE RemoveLock(p)
  <2>1. stolen' \in BOOLEAN
    BY <1>9, Zenon DEF TypeOK, RemoveLock
  <2> QED BY <1>9, <2>1 DEF TypeOK, OthersWait, RemoveLock, Goto, stores, Step
<1>4. CASE StampLock(p)
  <2>1. lock' \in [by : Process, stamped : BOOLEAN, age : Nat] \cup {NoLock}
    BY <1>4 DEF TypeOK, StampLock
  <2> QED BY <1>4, <2>1 DEF TypeOK, OthersWait, StampLock, Goto, Return, stores, Step
<1>5. CASE ReadDb(p)
  <2>1. LastOf(db) \in Seq(Event)
    BY LastType DEF TypeOK
  <2> QED BY <1>5, <2>1 DEF TypeOK, OthersWait, ReadDb, Goto, stores, Step
<1>6. CASE Compare(p) \/ Release(p) \/ DropLock(p)
  BY <1>6 DEF TypeOK, OthersWait, Compare, Release, DropLock, Goto, Return, stores, Step
<1>7. CASE \E e \in Event : AppendEvent(p, e)
  BY <1>7, ConstantsAssumption DEF ConstantsAssumption, TypeOK, OthersWait, AppendEvent, stores, Step
<1> QED BY <1>1, <1>2, <1>3, <1>4, <1>5, <1>6, <1>7, <1>8, <1>9

\* The steps of the transaction, and the death of a process.
LEMMA WriterStepType ==
    ASSUME ConstantsAssumption, TypeOK, NEW p \in Process,
           Insert(p) \/ WriteLine(p) \/ Commit(p) \/ Crash(p)
    PROVE  TypeOK' /\ OthersWait(p) /\ seen'[p] = seen[p]
<1>1. Record(p) \in Seq(Event) /\ Record(p) \in Line /\ Torn \in Line
  BY Extend DEF TypeOK, Record, Line
<1>2. CASE Insert(p)
  BY <1>2, ConstantsAssumption
     DEF ConstantsAssumption, TypeOK, OthersWait, Insert, Goto, Step
<1>3. CASE WriteLine(p)
  <2>1. file' \in Seq(Line)
    BY <1>1, <1>3, LineType DEF TypeOK, WriteLine
  <2> QED BY <1>3, <2>1, ConstantsAssumption
          DEF ConstantsAssumption, TypeOK, OthersWait, WriteLine, Goto, Step
<1>4. CASE Commit(p)
  <2>0. Append(db, Record(p)) \in Seq(Seq(Event))
    BY <1>1, SMT DEF TypeOK
  <2>1. db' \in Seq(Seq(Event))
    BY <1>4, <2>0 DEF TypeOK, Commit
  <2> QED BY <1>4, <2>1, ConstantsAssumption
          DEF ConstantsAssumption, TypeOK, OthersWait, Commit, Goto, Step
<1>5. CASE Crash(p)
  BY <1>5, ConstantsAssumption DEF ConstantsAssumption, TypeOK, OthersWait, Crash, Step
<1> QED BY <1>2, <1>3, <1>4, <1>5

\* The transaction keeps the chain: its insert goes through only when the record is
\* the next one, and no other process commits before it is over.
LEMMA WriterStep ==
    ASSUME ConstantsAssumption, ChainInv, NEW p \in Process,
           Insert(p) \/ WriteLine(p) \/ Commit(p) \/ Crash(p)
    PROVE  ChainInv'
<1>1. TypeOK /\ SeenWasLast(p) /\ OneChain
  BY DEF ChainInv
<1>2. TypeOK' /\ OthersWait(p) /\ seen'[p] = seen[p]
  BY <1>1, WriterStepType
<1>3. /\ seen[p] \in Seq(Event) /\ event[p] \in Event /\ db \in Seq(Seq(Event))
      /\ Len(Record(p)) = Len(seen[p]) + 1
  BY <1>1, Extend DEF TypeOK, Record
<1>4. CASE Insert(p)
  <2>1. db' = db /\ pc[p] = "insert"
    BY <1>4 DEF Insert
  <2>2. \/ pc'[p] = "drop"
        \/ pc'[p] = "write_line" /\ Len(seen[p]) + 1 \notin DOMAIN db
    BY <1>1, <1>3, <1>4, InsertLeads
  <2>3. Len(seen[p]) \in 0 .. Len(db) /\ DOMAIN db = 1 .. Len(db) /\ Len(db) \in Nat
    BY <1>1, <1>3, <2>1 DEF SeenWasLast
  <2>4. Len(seen[p]) + 1 \notin DOMAIN db => Len(seen[p]) = Len(db)
    BY <2>3
  <2>5. SeenWasLast(p)'
    BY <1>1, <1>2, <2>1, <2>2, <2>4 DEF SeenWasLast
  <2> QED BY <1>2, <2>1, <2>5, NoCommit
<1>5. CASE WriteLine(p) \/ Crash(p)
  <2>1. /\ db' = db
        /\ \/ pc'[p] \in {"drop", "down"}
           \/ pc[p] = "write_line" /\ pc'[p] = "commit"
    BY <1>1, <1>5, WriteLineLeads, CrashLeads
  <2>2. SeenWasLast(p)'
    BY <1>1, <1>2, <2>1 DEF SeenWasLast
  <2> QED BY <1>2, <2>1, <2>2, NoCommit
<1>6. CASE Commit(p) /\ db' = db
  <2>1. pc'[p] \in {"release", "drop"}
    BY <1>1, <1>6 DEF Commit, Goto, TypeOK
  <2>2. SeenWasLast(p)'
    BY <2>1 DEF SeenWasLast
  <2> QED BY <1>2, <1>6, <2>2, NoCommit
<1>7. CASE Commit(p) /\ db' = Append(db, Record(p))
  <2> DEFINE n == Len(db)
  <2>1. /\ pc[p] = "commit" /\ pc'[p] \in {"release", "drop"} /\ writer = p
        /\ Len(seen[p]) = n /\ n \in Nat
    BY <1>1, <1>3, <1>7 DEF Commit, Goto, TypeOK, SeenWasLast
  <2>2. Record(p) \in Seq(Event) /\ Len(Record(p)) = n + 1 /\ SubSeq(Record(p), 1, n) = seen[p]
    BY <1>3, <2>1, Extend DEF Record
  <2>3. /\ DOMAIN db' = 1 .. n + 1 /\ db'[n + 1] = Record(p)
        /\ \A i \in 1 .. n : db'[i] = db[i]
    BY <1>3, <1>7, <2>2
  <2>4. n > 0 => db[n] = seen[p]
    BY <1>1, <1>3, <2>1 DEF SeenWasLast, Zero
  <2>5. OneChain'
    <3>1. ASSUME NEW i \in 1 .. n
          PROVE  Len(db'[i]) = i /\ (i > 1 => SubSeq(db'[i], 1, i - 1) = db'[i - 1])
      <4>1. i \in DOMAIN db /\ db'[i] = db[i]
        BY <1>3, <2>3
      <4>2. i > 1 => db'[i - 1] = db[i - 1]
        BY <2>1, <2>3
      <4>3. Len(db[i]) = i /\ (i > 1 => SubSeq(db[i], 1, i - 1) = db[i - 1])
        BY <1>1, <4>1 DEF OneChain
      <4> QED BY <4>1, <4>2, <4>3
    <3>2. /\ Len(db'[n + 1]) = n + 1
          /\ n + 1 > 1 => SubSeq(db'[n + 1], 1, (n + 1) - 1) = db'[(n + 1) - 1]
      BY <2>1, <2>2, <2>3, <2>4
    <3>3. \A i \in DOMAIN db' : i \in 1 .. n \/ i = n + 1
      BY <2>1, <2>3
    <3> QED BY <3>1, <3>2, <3>3 DEF OneChain
  <2>6. SeenWasLast(p)'
    BY <2>1 DEF SeenWasLast
  <2>7. ASSUME NEW q \in Process \ {p}
        PROVE  SeenWasLast(q)'
    <3>1. pc'[q] = pc[q] /\ seen'[q] = seen[q] /\ pc[q] \notin {"write_line", "commit"}
      BY <1>1, <1>2, <2>1 DEF OthersWait, TypeOK
    <3>2. Len(db') = n + 1
      BY <1>3, <1>7, <2>2
    <3>3. SeenWasLast(q) /\ seen[q] \in Seq(Event)
      BY <1>1 DEF ChainInv, TypeOK
    <3>4. CASE pc[q] \in {"compare", "insert"}
      <4>1. Len(seen[q]) \in 0 .. n /\ (seen[q] # Zero => db[Len(seen[q])] = seen[q])
        BY <3>3, <3>4 DEF SeenWasLast
      <4>2. seen[q] # Zero => Len(seen[q]) \in 1 .. n
        BY <3>3, <4>1 DEF Zero
      <4> QED BY <2>1, <2>3, <3>1, <3>2, <4>1, <4>2 DEF SeenWasLast
    <3>5. CASE pc[q] \notin {"compare", "insert"}
      BY <3>1, <3>5 DEF SeenWasLast
    <3> QED BY <3>4, <3>5
  <2> QED BY <1>2, <2>5, <2>6, <2>7 DEF ChainInv
<1> QED BY <1>4, <1>5, <1>6, <1>7 DEF Commit

\* Every step of every process keeps the inductive invariant.
LEMMA ChainStep ==
    ASSUME ConstantsAssumption, ChainInv, [Next]_vars
    PROVE  ChainInv'
<1>1. TypeOK
  BY DEF ChainInv
<1>2. CASE UNCHANGED vars
  BY <1>2 DEF ChainInv, vars, TypeOK, OneChain, SeenWasLast
<1>3. CASE Tick
  <2>0. lock \in [by : Process, stamped : BOOLEAN, age : Nat]
    BY <1>1, <1>3 DEF Tick, TypeOK
  <2>1. lock' \in [by : Process, stamped : BOOLEAN, age : Nat]
    BY <1>3, <2>0 DEF Tick
  <2>2. UNCHANGED <<db, file, writer, pc, event, seen, tries, answer, stolen>>
    BY <1>3 DEF Tick, stores
  <2> QED BY <2>1, <2>2 DEF ChainInv, TypeOK, OneChain, SeenWasLast
<1>4. ASSUME NEW p \in Process,
             \/ Open(p) \/ Opened(p) \/ CreateLock(p) \/ FindLock(p) \/ JudgeLock(p)
             \/ RemoveLock(p) \/ LockTimeout(p) \/ StampLock(p) \/ ReadDb(p) \/ Compare(p)
             \/ Release(p) \/ DropLock(p) \/ (\E e \in Event : AppendEvent(p, e))
      PROVE  ChainInv'
  <2>1. /\ TypeOK' /\ OthersWait(p) /\ db' = db
        /\ pc'[p] \in {"compare", "insert"} => ReadDb(p) \/ Compare(p)
        /\ pc'[p] \notin {"write_line", "commit"}
    BY <1>1, <1>4, LockStepType
  <2>2. CASE ReadDb(p)
    <3>1. seen'[p] = LastOf(db)
      BY <1>1, <2>2 DEF ReadDb, TypeOK
    <3>2. Len(LastOf(db)) \in 0 .. Len(db) /\ (LastOf(db) # Zero => db[Len(LastOf(db))] = LastOf(db))
      <4>1. CASE db = <<>>
        BY <4>1 DEF LastOf, Zero
      <4>2. CASE db # <<>>
        <5>1. LastOf(db) = db[Len(db)] /\ Len(db) \in DOMAIN db
          BY <1>1, <4>2, LastType DEF TypeOK
        <5>2. Len(db[Len(db)]) = Len(db) /\ Len(db) \in Nat
          <6>1. OneChain /\ db \in Seq(Seq(Event))
            BY DEF ChainInv, TypeOK
          <6>2. Len(db) \in Nat
            BY <6>1
          <6> QED BY <5>1, <6>1, <6>2 DEF OneChain
        <5> QED BY <5>1, <5>2
      <4> QED BY <4>1, <4>2
    <3>3. SeenWasLast(p)'
      BY <2>1, <3>1, <3>2 DEF SeenWasLast
    <3> QED BY <2>1, <3>3, NoCommit
  <2>3. CASE Compare(p)
    <3>1. seen'[p] = seen[p] /\ pc[p] = "compare"
      BY <2>3 DEF Compare
    <3>2. SeenWasLast(p)'
      BY <2>1, <3>1 DEF SeenWasLast, ChainInv
    <3> QED BY <2>1, <3>2, NoCommit
  <2>4. CASE ~ReadDb(p) /\ ~Compare(p)
    <3>1. SeenWasLast(p)'
      BY <2>1, <2>4 DEF SeenWasLast
    <3> QED BY <2>1, <3>1, NoCommit
  <2> QED BY <2>2, <2>3, <2>4
<1>5. ASSUME NEW p \in Process, Insert(p) \/ WriteLine(p) \/ Commit(p) \/ Crash(p)
      PROVE  ChainInv'
  BY <1>5, WriterStep
<1> QED BY <1>2, <1>3, <1>4, <1>5 DEF Next, Proceed

\* The invariant holds throughout.
LEMMA ChainInvariant ==
    ASSUME ConstantsAssumption
    PROVE  Spec => []ChainInv
<1>1. ASSUME Init
      PROVE  ChainInv
  <2>0. stolen \in BOOLEAN
    BY <1>1, Zenon DEF Init
  <2>1. TypeOK
    BY <1>1, <2>0, ConstantsAssumption DEF ConstantsAssumption, Init, TypeOK, Step, Zero
  <2> QED BY <1>1, <2>1 DEF Init, ChainInv, OneChain, SeenWasLast
<1> QED BY <1>1, ChainStep, PTL DEF Spec

\* Type correctness of the ledger, whatever its processes do.
THEOREM TypeCorrect ==
    ASSUME ConstantsAssumption
    PROVE  Spec => []TypeOK
<1>1. ChainInv => TypeOK
  BY DEF ChainInv
<1> QED BY <1>1, ChainInvariant, PTL

\* The database is one hash chain, however many processes append to it, take each
\* other's lock files away, and die.
THEOREM ChainHolds ==
    ASSUME ConstantsAssumption
    PROVE  Spec => []OneChain
<1>1. ChainInv => OneChain
  BY DEF ChainInv
<1> QED BY <1>1, ChainInvariant, PTL

-----------------------------------------------------------------------------
\* Unless a lock was stolen, the lock file names the only process that is past it:
\* the inductive strengthening of Exclusion.
HolderIsNamed == stolen \/ \A p \in Process : Holds(p) => lock # NoLock /\ lock.by = p

\* A theft is not forgotten.
LEMMA StolenStays ==
    ASSUME stolen, [Next]_vars
    PROVE  stolen'
<1>1. CASE UNCHANGED vars
  BY <1>1, Zenon DEF vars
<1>2. CASE Tick
  BY <1>2, Zenon DEF Tick
<1>3. ASSUME NEW p \in Process, RemoveLock(p)
      PROVE  stolen'
  BY <1>3, Zenon DEF RemoveLock
<1>4. ASSUME NEW p \in Process,
             \/ Open(p) \/ Opened(p) \/ CreateLock(p) \/ FindLock(p) \/ JudgeLock(p)
             \/ LockTimeout(p) \/ StampLock(p) \/ (\E e \in Event : AppendEvent(p, e))
      PROVE  stolen'
  BY <1>4, Zenon DEF Open, Opened, CreateLock, FindLock, JudgeLock, LockTimeout, StampLock,
                     AppendEvent
<1>5. ASSUME NEW p \in Process,
             \/ ReadDb(p) \/ Compare(p) \/ Insert(p) \/ WriteLine(p) \/ Commit(p)
             \/ Release(p) \/ DropLock(p) \/ Crash(p)
      PROVE  stolen'
  BY <1>5, Zenon DEF ReadDb, Compare, Insert, WriteLine, Commit, Release, DropLock, Crash
<1> QED BY <1>1, <1>2, <1>3, <1>4, <1>5 DEF Next, Proceed

\* A process that is not yet past the lock takes it only when there is no lock file;
\* one that goes on, or leaves, had its name in it.
LEMMA HolderStep ==
    ASSUME ConstantsAssumption, TypeOK, HolderIsNamed, [Next]_vars
    PROVE  HolderIsNamed'
<1>1. SUFFICES ASSUME ~stolen, ~stolen', NEW q \in Process, Holds(q)'
               PROVE  lock' # NoLock /\ (lock').by = q
  BY StolenStays DEF HolderIsNamed
<1>2. \A p \in Process : Holds(p) => lock # NoLock /\ lock.by = p
  BY <1>1 DEF HolderIsNamed
<1>3. CASE UNCHANGED vars
  BY <1>1, <1>2, <1>3 DEF vars, Holds
<1>4. CASE Tick
  <2>1. lock \in [by : Process, stamped : BOOLEAN, age : Nat] /\ Holds(q)
    BY <1>1, <1>4 DEF Tick, TypeOK, Holds
  <2>2. (lock').by = lock.by /\ lock' \in [by : Process, stamped : BOOLEAN, age : Nat]
    BY <1>4, <2>1 DEF Tick
  <2> QED BY <1>2, <2>1, <2>2 DEF ConstantsAssumption
<1>5. ASSUME NEW p \in Process, lock' = lock, \A r \in Process \ {p} : pc'[r] = pc[r],
             Holds(p)' => Holds(p)
      PROVE  lock' # NoLock /\ (lock').by = q
  BY <1>1, <1>2, <1>5 DEF Holds
<1>6. ASSUME NEW p \in Process,
             \/ Open(p) \/ Opened(p) \/ FindLock(p) \/ JudgeLock(p) \/ LockTimeout(p)
             \/ (\E e \in Event : AppendEvent(p, e)) \/ Crash(p)
      PROVE  lock' # NoLock /\ (lock').by = q
  <2>1. lock' = lock /\ (\A r \in Process \ {p} : pc'[r] = pc[r]) /\ pc'[p] \notin Locked
    BY <1>6 DEF TypeOK, Open, Opened, FindLock, JudgeLock, LockTimeout, AppendEvent, Crash,
                Goto, Return, Locked
  <2> QED BY <1>5, <2>1 DEF Holds
<1>7. ASSUME NEW p \in Process,
             ReadDb(p) \/ Compare(p) \/ Insert(p) \/ WriteLine(p) \/ Commit(p)
      PROVE  lock' # NoLock /\ (lock').by = q
  <2>1. lock' = lock /\ (\A r \in Process \ {p} : pc'[r] = pc[r]) /\ pc[p] \in Locked
    BY <1>7 DEF TypeOK, ReadDb, Compare, Insert, WriteLine, Commit, Goto, Locked
  <2> QED BY <1>5, <2>1 DEF Holds
<1>8. ASSUME NEW p \in Process, CreateLock(p)
      PROVE  lock' # NoLock /\ (lock').by = q
  <2>1. /\ lock = NoLock /\ \A r \in Process \ {p} : pc'[r] = pc[r]
        /\ lock' = [by |-> p, stamped |-> FALSE, age |-> 0]
    BY <1>8 DEF TypeOK, CreateLock, Goto
  <2>2. q = p
    BY <1>1, <1>2, <2>1 DEF Holds
  <2>3. lock' \in [by : Process, stamped : BOOLEAN, age : Nat]
    BY <2>1
  <2> QED BY <2>1, <2>2, <2>3 DEF ConstantsAssumption
<1>9. ASSUME NEW p \in Process, StampLock(p)
      PROVE  lock' # NoLock /\ (lock').by = q
  <2>1. (\A r \in Process \ {p} : pc'[r] = pc[r]) /\ pc[p] \in Locked
    BY <1>9 DEF TypeOK, StampLock, Goto, Return, Locked
  <2>2. Holds(q)
    BY <1>1, <2>1 DEF Holds
  <2>3. lock # NoLock /\ lock.by = q /\ lock \in [by : Process, stamped : BOOLEAN, age : Nat]
    BY <1>2, <2>2 DEF TypeOK
  <2>4. lock' \in [by : Process, stamped : BOOLEAN, age : Nat] /\ (lock').by = lock.by
    BY <1>9, <2>3 DEF StampLock
  <2> QED BY <2>3, <2>4 DEF ConstantsAssumption
<1>10. ASSUME NEW p \in Process, RemoveLock(p) \/ Release(p) \/ DropLock(p)
       PROVE  lock' # NoLock /\ (lock').by = q
  <2>1. /\ \A r \in Process \ {p} : pc'[r] = pc[r]
        /\ pc'[p] \notin Locked
    BY <1>10 DEF TypeOK, RemoveLock, Release, DropLock, Goto, Return, Locked
  <2>2. Holds(q) /\ q # p
    BY <1>1, <2>1 DEF Holds
  <2>3. lock # NoLock /\ lock.by = q
    BY <1>2, <2>2
  <2>4. CASE RemoveLock(p)
    BY <1>1, <2>2, <2>3, <2>4 DEF RemoveLock
  <2>5. CASE Release(p) \/ DropLock(p)
    BY <1>2, <2>2, <2>3, <2>5 DEF Release, DropLock, Holds, Locked
  <2> QED BY <1>10, <2>4, <2>5
<1> QED BY <1>3, <1>4, <1>6, <1>7, <1>8, <1>9, <1>10 DEF Next, Proceed

\* The lock file keeps all others out, however processes die and fail in its keeping,
\* until it is taken from one that is still at work.
THEOREM LockExcludes ==
    ASSUME ConstantsAssumption
    PROVE  Spec => []Exclusion
<1>1. Init => HolderIsNamed
  BY DEF Init, HolderIsNamed, Holds, Locked
<1>2. HolderIsNamed => Exclusion
  BY DEF HolderIsNamed, Exclusion
<1>3. Spec => []TypeOK
  BY TypeCorrect
<1> QED BY <1>1, <1>2, <1>3, HolderStep, PTL DEF Spec

-----------------------------------------------------------------------------
\* Unless a lock was stolen, the mirror is the database's copy, or that and one line
\* more that is not the database's last record; and the process past the comparison
\* works on equal stores.  This is the inductive strengthening of
\* OnlyTheftHidesDivergence and CommittedIsMirrored.
AheadByOne == file = Append(db, LastOf(file)) /\ LastOf(file) # LastOf(db)

Works(p) ==
    /\ pc[p] = "compare" => seen[p] = LastOf(db)
    /\ pc[p] \in {"insert", "write_line"} => seen[p] = LastOf(db) /\ file = db
    /\ pc[p] = "commit" => seen[p] = LastOf(db) /\ file = Append(db, Record(p))

MirrorFollows ==
    stolen \/ ((file = db \/ AheadByOne) /\ \A p \in Process : Works(p))

\* The last line of a mirror that got one more.
LEMMA LastAppended ==
    ASSUME NEW S, NEW s \in Seq(S), NEW x \in S
    PROVE  LastOf(Append(s, x)) = x
BY DEF LastOf

\* A step that leaves both stores alone keeps the invariant if the process that takes
\* it keeps to its part.
LEMMA StoresKept ==
    ASSUME ~stolen, MirrorFollows, UNCHANGED <<db, file>>, NEW p \in Process, OthersWait(p),
           UNCHANGED event, Works(p)'
    PROVE  MirrorFollows'
<1>1. (file = db \/ AheadByOne)'
  BY DEF MirrorFollows, AheadByOne, LastOf
<1>2. ASSUME NEW q \in Process \ {p}
      PROVE  Works(q)'
  BY <1>2 DEF MirrorFollows, OthersWait, Works, Record, LastOf
<1> QED BY <1>1, <1>2 DEF MirrorFollows

\* The step that changes a store is made by the only process past the lock.
LEMMA StoreStep ==
    ASSUME ConstantsAssumption, TypeOK, Exclusion, MirrorFollows, ~stolen, ~stolen',
           NEW p \in Process, WriteLine(p) \/ Commit(p), TypeOK', OthersWait(p)
    PROVE  MirrorFollows'
<1>1. /\ pc[p] \in {"write_line", "commit"} /\ event' = event /\ seen' = seen
      /\ db \in Seq(Seq(Event)) /\ file \in Seq(Line) /\ seen[p] \in Seq(Event)
      /\ event[p] \in Event /\ seen[p] = LastOf(db) /\ Works(p)
  BY DEF TypeOK, WriteLine, Commit, Goto, MirrorFollows, Works
<1>2. ASSUME NEW q \in Process \ {p}
      PROVE  Works(q)'
  <2>1. ~Holds(q)
    BY <1>1 DEF Exclusion, Holds, Locked
  <2> QED BY <2>1 DEF OthersWait, Works, Holds, Locked
<1>3. /\ Record(p) \in Seq(Event) /\ Record(p) # LastOf(db) /\ Record(p)' = Record(p)
      /\ Record(p) \in Line /\ Torn \in Line /\ db \in Seq(Line)
  BY <1>1, Extend DEF Record, Line
<1>4. CASE WriteLine(p)
  <2>1. file = db /\ db' = db
    BY <1>1, <1>4 DEF WriteLine, Works
  <2>2. LastOf(file) # Torn /\ LastOf(db) # Torn
    BY <1>1, <2>1, LastType DEF ConstantsAssumption
  <2>3. CASE file' = AppendLine(Record(p)) /\ Goto(p, "commit")
    <3>1. file' = Append(db, Record(p)) /\ LastOf(file)' = Record(p)
      BY <1>3, <2>1, <2>2, <2>3, LastAppended DEF AppendLine, LastOf
    <3>2. pc'[p] = "commit"
      BY <2>3, GotoAt
    <3>3. Works(p)' /\ AheadByOne'
      BY <1>1, <1>3, <2>1, <3>1, <3>2 DEF Works, AheadByOne, LastOf
    <3> QED BY <1>2, <3>3 DEF MirrorFollows
  <2>4. CASE file' = AppendLine(Torn) /\ Goto(p, "drop")
    <3>1. file' = Append(db, Torn) /\ LastOf(file)' = Torn
      BY <1>3, <2>1, <2>2, <2>4, LastAppended DEF AppendLine, LastOf
    <3>2. pc'[p] = "drop"
      BY <2>4, GotoAt
    <3>3. Works(p)' /\ AheadByOne'
      BY <2>1, <2>2, <3>1, <3>2 DEF Works, AheadByOne, LastOf
    <3> QED BY <1>2, <3>3 DEF MirrorFollows
  <2>5. CASE file' = file /\ Goto(p, "drop")
    <3>1. pc'[p] = "drop"
      BY <2>5, GotoAt
    <3>2. Works(p)'
      BY <3>1 DEF Works
    <3> QED BY <1>1, <2>1, <2>5, <3>2, StoresKept
  <2> QED BY <1>4, <2>3, <2>4, <2>5 DEF WriteLine
<1>5. CASE Commit(p)
  <2>1. file = Append(db, Record(p)) /\ file' = file /\ pc'[p] \in {"release", "drop"}
    BY <1>1, <1>5 DEF Commit, Works, Goto, TypeOK
  <2>2. Works(p)'
    BY <2>1 DEF Works
  <2>3. (file = db \/ AheadByOne)'
    <3>1. CASE db' = db
      BY <2>1, <3>1 DEF MirrorFollows, AheadByOne, LastOf
    <3>2. CASE db' = Append(db, Record(p))
      BY <2>1, <3>2
    <3> QED BY <1>5, <3>1, <3>2 DEF Commit
  <2> QED BY <1>2, <2>2, <2>3 DEF MirrorFollows
<1> QED BY <1>4, <1>5

\* Every step keeps the invariant.
LEMMA MirrorStep ==
    ASSUME ConstantsAssumption, TypeOK, Exclusion, MirrorFollows, [Next]_vars
    PROVE  MirrorFollows'
<1>1. SUFFICES ASSUME ~stolen, ~stolen'
               PROVE  MirrorFollows'
  BY StolenStays DEF MirrorFollows
<1>2. CASE UNCHANGED vars
  BY <1>2 DEF vars, MirrorFollows, AheadByOne, Works, Record, LastOf
<1>3. CASE Tick
  <2>1. UNCHANGED <<db, file, pc, event, seen, stolen>>
    BY <1>3 DEF Tick, stores
  <2> QED BY <2>1 DEF MirrorFollows, AheadByOne, Works, Record, LastOf
<1>4. ASSUME NEW p \in Process, NEW e \in Event, AppendEvent(p, e)
      PROVE  MirrorFollows'
  <2>1. /\ OthersWait(p) /\ UNCHANGED <<db, file>> /\ pc'[p] = "acquire"
        /\ \A q \in Process \ {p} : event'[q] = event[q]
    BY <1>4 DEF TypeOK, AppendEvent, OthersWait, stores
  <2>2. Works(p)'
    BY <2>1 DEF Works
  <2>3. ASSUME NEW q \in Process \ {p}
        PROVE  Works(q)'
    BY <1>1, <2>1, <2>3 DEF MirrorFollows, OthersWait, Works, Record, LastOf
  <2>4. (file = db \/ AheadByOne)'
    BY <1>1, <2>1 DEF MirrorFollows, AheadByOne, LastOf
  <2> QED BY <2>2, <2>3, <2>4 DEF MirrorFollows
<1>5. ASSUME NEW p \in Process,
             \/ Open(p) \/ Opened(p) \/ CreateLock(p) \/ FindLock(p) \/ JudgeLock(p)
             \/ RemoveLock(p) \/ LockTimeout(p) \/ StampLock(p) \/ Release(p) \/ DropLock(p)
      PROVE  MirrorFollows'
  <2>1. OthersWait(p) /\ db' = db
    BY <1>5, LockStepType
  <2>2. UNCHANGED <<file, event>>
    BY <1>5 DEF Open, Opened, CreateLock, FindLock, JudgeLock, RemoveLock, LockTimeout, StampLock,
                Release, DropLock, Goto, Return, stores
  <2>3. pc'[p] \notin {"compare", "insert", "write_line", "commit"}
    BY <1>5 DEF TypeOK, Open, Opened, CreateLock, FindLock, JudgeLock, RemoveLock, LockTimeout,
                StampLock, Release, DropLock, Goto, Return
  <2>4. Works(p)'
    BY <2>3 DEF Works
  <2> QED BY <1>1, <2>1, <2>2, <2>4, StoresKept
<1>6. ASSUME NEW p \in Process, ReadDb(p) \/ Compare(p)
      PROVE  MirrorFollows'
  <2>1. OthersWait(p) /\ db' = db
    BY <1>6, LockStepType
  <2>2. UNCHANGED <<file, event>>
    BY <1>6 DEF ReadDb, Compare, Goto, stores
  <2>3. CASE ReadDb(p)
    <3>1. pc'[p] = "compare" /\ seen'[p] = LastOf(db)
      BY <2>3, GotoAt DEF ReadDb, TypeOK
    <3>2. Works(p)'
      BY <2>1, <3>1 DEF Works, LastOf
    <3> QED BY <1>1, <2>1, <2>2, <3>2, StoresKept
  <2>4. CASE Compare(p) /\ LastOf(file) = seen[p] /\ Goto(p, "insert")
    <3>1. pc'[p] = "insert" /\ seen'[p] = LastOf(db) /\ file = db
      BY <1>1, <2>4, GotoAt DEF Compare, MirrorFollows, Works, AheadByOne
    <3>2. Works(p)'
      BY <2>1, <2>2, <3>1 DEF Works, LastOf
    <3> QED BY <1>1, <2>1, <2>2, <3>2, StoresKept
  <2>5. CASE Compare(p) /\ Goto(p, "drop")
    <3>1. pc'[p] = "drop"
      BY <2>5, GotoAt
    <3>2. Works(p)'
      BY <3>1 DEF Works
    <3> QED BY <1>1, <2>1, <2>2, <3>2, StoresKept
  <2> QED BY <1>6, <2>3, <2>4, <2>5 DEF Compare
<1>7. ASSUME NEW p \in Process, Insert(p) \/ Crash(p)
      PROVE  MirrorFollows'
  <2>1. OthersWait(p) /\ seen'[p] = seen[p]
    BY <1>7, WriterStepType
  <2>2. UNCHANGED <<db, file, event>>
    BY <1>7 DEF Insert, Crash, Goto
  <2>3. \/ pc'[p] \in {"drop", "down"}
        \/ pc[p] = "insert" /\ pc'[p] = "write_line"
    BY <1>7, InsertLeads, CrashLeads DEF Insert
  <2>4. Works(p)'
    BY <1>1, <2>1, <2>2, <2>3 DEF MirrorFollows, Works, LastOf
  <2> QED BY <1>1, <2>1, <2>2, <2>4, StoresKept
<1>8. ASSUME NEW p \in Process, WriteLine(p) \/ Commit(p)
      PROVE  MirrorFollows'
  BY <1>1, <1>8, WriterStepType, StoreStep
<1> QED BY <1>2, <1>3, <1>4, <1>5, <1>6, <1>7, <1>8 DEF Next, Proceed

\* The invariant holds throughout.
LEMMA MirrorInvariant ==
    ASSUME ConstantsAssumption
    PROVE  Spec => []MirrorFollows
<1>1. Init => MirrorFollows
  BY DEF Init, MirrorFollows, Works
<1>2. (Spec => []TypeOK) /\ (Spec => []Exclusion)
  BY TypeCorrect, LockExcludes
<1> QED BY <1>1, <1>2, MirrorStep, PTL DEF Spec

\* Stores that end alike are alike throughout, and every committed record has its line,
\* unless a lock was taken from a process at work: deaths and failed writes at any
\* point are seen by the next comparison.
THEOREM ComparisonSuffices ==
    ASSUME ConstantsAssumption
    PROVE  Spec => []OnlyTheftHidesDivergence
<1>1. MirrorFollows => OnlyTheftHidesDivergence
  BY DEF MirrorFollows, AheadByOne, OnlyTheftHidesDivergence, DivergenceIsSeen
<1> QED BY <1>1, MirrorInvariant, PTL

\* The same invariant, read from the side of the committed records.
THEOREM MirrorIsComplete ==
    ASSUME ConstantsAssumption
    PROVE  Spec => []CommittedIsMirrored
<1>1. TypeOK /\ MirrorFollows => CommittedIsMirrored
  <2>1. SUFFICES ASSUME TypeOK, MirrorFollows, ~stolen, NEW n \in DOMAIN db
                 PROVE  n \in DOMAIN file /\ file[n] = db[n]
    BY DEF CommittedIsMirrored
  <2>2. db \in Seq(Line) /\ file \in Seq(Line)
    BY <2>1 DEF TypeOK, Line
  <2>3. file # <<>> => LastOf(file) \in Line
    BY <2>2 DEF LastOf
  <2>4. CASE file = db
    BY <2>1, <2>4
  <2>5. CASE AheadByOne
    BY <2>1, <2>2, <2>3, <2>5 DEF AheadByOne
  <2> QED BY <2>1, <2>4, <2>5 DEF MirrorFollows
<1> QED BY <1>1, TypeCorrect, MirrorInvariant, PTL

-----------------------------------------------------------------------------
\* The events on record, as the promise to callers has them.
EventsOf(rows) == [n \in DOMAIN rows |-> LastOf(rows[n])]

\* How a place in the code reads as a state of a call.
LEMMA CallReads ==
    ASSUME NEW p \in Process
    PROVE  /\ pc[p] \in {"down", "open", "idle"} => call[p] = "none"
           /\ pc[p] = "release" => call[p] = "written"
           /\ pc[p] \in Step \ {"down", "open", "idle", "release"} => call[p] = "pending"
           /\ pc'[p] \in {"down", "open", "idle"} => call'[p] = "none"
           /\ pc'[p] = "release" => call'[p] = "written"
           /\ pc'[p] \in Step \ {"down", "open", "idle", "release"} => call'[p] = "pending"
BY DEF call, Step

\* A step of one process is a step of its call.
LEMMA CallMoves ==
    ASSUME NEW p \in Process, OthersWait(p), NEW x, call'[p] = x
    PROVE  /\ call' = [call EXCEPT ![p] = x]
           /\ x = call[p] => call' = call
BY DEF call, OthersWait

\* One committed record is one more event on record.
LEMMA CommitAppends ==
    ASSUME NEW rows \in Seq(Seq(Event)), NEW chain \in Seq(Event), NEW e \in Event
    PROVE  EventsOf(Append(rows, Append(chain, e))) = Append(EventsOf(rows), e)
<1> DEFINE new == Append(chain, e)
           more == Append(rows, new)
           old == [n \in DOMAIN rows |-> LastOf(rows[n])]
           all == [n \in DOMAIN more |-> LastOf(more[n])]
           any == {LastOf(rows[n]) : n \in DOMAIN rows} \cup {e}
<1>1. /\ new \in Seq(Event) /\ LastOf(new) = e
  BY LastAppended
<1>2. /\ Len(rows) \in Nat /\ DOMAIN rows = 1 .. Len(rows)
      /\ DOMAIN more = 1 .. Len(rows) + 1
      /\ more[Len(rows) + 1] = new
      /\ \A n \in 1 .. Len(rows) : more[n] = rows[n]
  BY <1>1
<1>3. old \in Seq(any) /\ Len(old) = Len(rows)
  BY <1>2
<1>4. /\ DOMAIN Append(old, e) = 1 .. Len(rows) + 1
      /\ Append(old, e)[Len(rows) + 1] = e
      /\ \A n \in 1 .. Len(rows) : Append(old, e)[n] = LastOf(rows[n])
  BY <1>2, <1>3
<1>5. \A n \in 1 .. Len(rows) + 1 : all[n] = Append(old, e)[n]
  <2>1. ASSUME NEW n \in 1 .. Len(rows)
        PROVE  all[n] = Append(old, e)[n]
    BY <1>2, <1>4 DEF LastOf
  <2>2. all[Len(rows) + 1] = Append(old, e)[Len(rows) + 1]
    <3>1. Len(rows) + 1 \in DOMAIN more
      BY <1>2
    <3>2. all[Len(rows) + 1] = LastOf(more[Len(rows) + 1])
      BY <3>1
    <3> QED BY <1>1, <1>2, <1>4, <3>2
  <2> QED BY <1>2, <2>1, <2>2
<1>6. Append(old, e) = [n \in 1 .. Len(rows) + 1 |-> Append(old, e)[n]]
  BY <1>3, <1>4
<1>7. all = [n \in 1 .. Len(rows) + 1 |-> all[n]]
  BY <1>2
<1> QED BY <1>5, <1>6, <1>7 DEF EventsOf

\* What a call does before its record is committed, and opening the stores, is no step
\* of the promise; the commit writes, and a call comes back with success or an error.
LEMMA LogStep ==
    ASSUME ConstantsAssumption, TypeOK, TypeOK', [Next]_vars
    PROVE  [Log!Next]_Log!vars
<1> USE DEF Log!Next, Log!vars
<1>1. CASE UNCHANGED vars
  BY <1>1 DEF vars, call, LastOf
<1>2. CASE Tick
  BY <1>2 DEF Tick, stores, call, LastOf
<1>3. ASSUME NEW p \in Process, OthersWait(p), UNCHANGED <<db, event, answer>>,
             call'[p] = call[p]
      PROVE  UNCHANGED Log!vars
  BY <1>3, CallMoves DEF LastOf
<1>4. ASSUME NEW p \in Process, NEW a \in {"none", "error"}, OthersWait(p),
             UNCHANGED <<db, event>>, answer' = [answer EXCEPT ![p] = a], call'[p] = "none"
      PROVE  Log!Next
  <2>1. Log!Fail(p, a)
    BY <1>4, CallMoves DEF Log!Fail, LastOf
  <2> QED BY <2>1
<1>5. ASSUME NEW p \in Process, NEW e \in Event, AppendEvent(p, e)
      PROVE  Log!Next
  <2>1. OthersWait(p) /\ pc[p] = "idle" /\ pc'[p] = "acquire"
    BY <1>5 DEF AppendEvent, OthersWait, TypeOK
  <2>2. call[p] = "none" /\ call'[p] = "pending"
    BY <2>1, CallReads DEF Step
  <2>3. Log!Call(p, e)
    BY <1>5, <2>1, <2>2, CallMoves DEF AppendEvent, stores, Log!Call, LastOf
  <2> QED BY <2>3
<1>6. ASSUME NEW p \in Process, Open(p) \/ Opened(p)
      PROVE  UNCHANGED Log!vars
  <2>1. /\ OthersWait(p) /\ UNCHANGED <<db, event, answer>>
        /\ {pc[p], pc'[p]} \subseteq {"down", "open", "idle"}
    BY <1>6 DEF Open, Opened, Goto, OthersWait, TypeOK, stores
  <2>2. call'[p] = call[p]
    BY <2>1, CallReads
  <2> QED BY <1>3, <2>1, <2>2
<1>7. ASSUME NEW p \in Process,
             \/ CreateLock(p) \/ FindLock(p) \/ JudgeLock(p) \/ RemoveLock(p) \/ ReadDb(p)
             \/ Compare(p) \/ Insert(p) \/ WriteLine(p)
             \/ StampLock(p) /\ Goto(p, "read_db")
             \/ Commit(p) /\ Goto(p, "drop") /\ UNCHANGED db
      PROVE  UNCHANGED Log!vars
  <2>1. /\ OthersWait(p) /\ UNCHANGED <<db, event, answer>>
        /\ {pc[p], pc'[p]} \subseteq Step \ {"down", "open", "idle", "release"}
    <3> USE DEF Goto, OthersWait, TypeOK, stores, Step
    <3>1. CASE CreateLock(p) \/ FindLock(p)
      BY <3>1 DEF CreateLock, FindLock
    <3>2. CASE JudgeLock(p) \/ RemoveLock(p)
      BY <3>2 DEF JudgeLock, RemoveLock
    <3>3. CASE ReadDb(p)
      BY <3>3 DEF ReadDb
    <3>4. CASE Compare(p) \/ Insert(p)
      BY <3>4 DEF Compare, Insert
    <3>5. CASE WriteLine(p)
      BY <3>5 DEF WriteLine
    <3>6. CASE StampLock(p) /\ Goto(p, "read_db")
      BY <3>6 DEF StampLock
    <3>7. CASE Commit(p) /\ Goto(p, "drop") /\ UNCHANGED db
      BY <3>7 DEF Commit
    <3> QED BY <1>7, <3>1, <3>2, <3>3, <3>4, <3>5, <3>6, <3>7
  <2>2. call'[p] = call[p]
    BY <2>1, CallReads
  <2> QED BY <1>3, <2>1, <2>2
<1>8. ASSUME NEW p \in Process,
             \/ LockTimeout(p) \/ DropLock(p) \/ Crash(p)
             \/ StampLock(p) /\ Return(p, "error")
             \/ Release(p) /\ Return(p, "error")
      PROVE  Log!Next
  <2>1. PICK a \in {"none", "error"} : answer' = [answer EXCEPT ![p] = a]
    BY <1>8 DEF LockTimeout, DropLock, Crash, Return
  <2>2. OthersWait(p) /\ UNCHANGED <<db, event>> /\ pc'[p] \in {"down", "idle"}
    BY <1>8 DEF LockTimeout, DropLock, Crash, StampLock, Release, Return, OthersWait, TypeOK,
                stores
  <2>3. call'[p] = "none"
    BY <2>2, CallReads
  <2> QED BY <1>4, <2>1, <2>2, <2>3
<1>9. ASSUME NEW p \in Process, Release(p), Return(p, "ok")
      PROVE  Log!Next
  <2>1. /\ OthersWait(p) /\ UNCHANGED <<db, event>> /\ pc[p] = "release" /\ pc'[p] = "idle"
        /\ answer' = [answer EXCEPT ![p] = "ok"]
    BY <1>9 DEF Release, Return, OthersWait, TypeOK, stores
  <2>2. call[p] = "written" /\ call'[p] = "none"
    BY <2>1, CallReads
  <2>3. Log!Succeed(p)
    BY <2>1, <2>2, CallMoves DEF Log!Succeed, LastOf
  <2> QED BY <2>3
<1>10. ASSUME NEW p \in Process, Commit(p), Goto(p, "release"), db' = Append(db, Record(p))
       PROVE  Log!Next
  <2>1. /\ OthersWait(p) /\ UNCHANGED <<event, answer>>
        /\ pc[p] = "commit" /\ pc'[p] = "release"
    BY <1>10 DEF Commit, Goto, OthersWait, TypeOK
  <2>2. call[p] = "pending" /\ call'[p] = "written"
    BY <2>1, CallReads DEF Step
  <2>3. EventsOf(db') = Append(EventsOf(db), event[p])
    <3>1. /\ db \in Seq(Seq(Event)) /\ seen[p] \in Seq(Event) /\ event[p] \in Event
          /\ db' = Append(db, Append(seen[p], event[p]))
      BY <1>10 DEF TypeOK, Record
    <3> QED BY <3>1, CommitAppends
  <2>4. Log!Write(p)
    BY <2>1, <2>2, <2>3, CallMoves DEF Log!Write, EventsOf, LastOf
  <2> QED BY <2>4
<1> QED
  <2>1. ASSUME NEW p \in Process, StampLock(p)
        PROVE  Log!Next \/ UNCHANGED Log!vars
    <3>1. Goto(p, "read_db") \/ Return(p, "error")
      BY <2>1 DEF StampLock
    <3> QED BY <1>7, <1>8, <2>1, <3>1
  <2>2. ASSUME NEW p \in Process, Release(p)
        PROVE  Log!Next
    <3>1. Return(p, "ok") \/ Return(p, "error")
      BY <2>2 DEF Release
    <3> QED BY <1>8, <1>9, <2>2, <3>1
  <2>3. ASSUME NEW p \in Process, Commit(p)
        PROVE  Log!Next \/ UNCHANGED Log!vars
    <3>1. \/ Goto(p, "release") /\ db' = Append(db, Record(p))
          \/ Goto(p, "drop") /\ UNCHANGED db
      BY <2>3 DEF Commit
    <3> QED BY <1>7, <1>10, <2>3, <3>1
  <2> QED BY <1>1, <1>2, <1>5, <1>6, <1>7, <1>8, <2>1, <2>2, <2>3 DEF Next, Proceed

\* The ledger keeps what is promised to callers: one log that grows by the event of a
\* pending call, and "ok" only for an event that is in it.
THEOREM KeepsLog ==
    ASSUME ConstantsAssumption
    PROVE  Spec => LogSpec
<1>1. Init => Log!Init
  BY DEF Init, Log!Init, call, LastOf
<1>2. TypeOK /\ TypeOK' /\ [Next]_vars => [Log!Next]_Log!vars
  BY LogStep
<1>3. Spec => []TypeOK
  BY TypeCorrect
<1> QED BY <1>1, <1>2, <1>3, PTL DEF Spec, LogSpec, Log!Spec
=============================================================================
