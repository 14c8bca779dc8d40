---------------------------- MODULE AuditLedger ----------------------------
(***************************************************************************)
(* Ledger::append of vor-audit, system call by system call: a lock file    *)
(* beside the JSONL mirror, a comparison of the last record of both        *)
(* stores, an SQLite transaction around the insert and the mirror's line,  *)
(* and the removal of the lock file.  Any number of processes have the     *)
(* two stores open, and each may die between two system calls.             *)
(*                                                                         *)
(* A record is named by its hash, and a hash stands for what it was        *)
(* computed from: the chain of events the record closes.  A record is      *)
(* therefore a sequence of events, its sequence number the length of it,   *)
(* its previous_hash all but the last, and ZERO_HASH the empty one.        *)
(***************************************************************************)
EXTENDS Naturals, Sequences

CONSTANTS
    Process,        \* processes with the ledger open, or about to open it
    Event,          \* what they put on record
    NoOne,          \* no process holds the database's write lock
    NoLock,         \* there is no lock file
    Torn,           \* a last line of the mirror that ends before its newline
    Garbled,        \* a whole line that is no record
    Attempts,       \* LOCK_RETRY_ATTEMPTS
    AbandonedAge,   \* ABANDONED_LOCK_AGE
    MaxAge,         \* bound: how old a lock file gets
    MaxLines        \* bound: lines in the mirror

ASSUME ConstantsAssumption ==
    /\ Attempts \in Nat
    /\ AbandonedAge \in Nat
    /\ MaxAge \in Nat
    /\ NoOne \notin Process
    /\ NoLock \notin [by : Process, stamped : BOOLEAN, age : Nat]
    /\ {Torn, Garbled} \cap Seq(Event) = {}

VARIABLES
    db,         \* committed rows of audit_records, by sequence number
    file,       \* lines of the JSONL mirror
    writer,     \* the process with an open transaction that has inserted
    lock,       \* the lock file: whose handle made it, is there a time in it, its age
    pc,         \* where a process stands in its call
    event,      \* the event of its call
    seen,       \* the last record it has read from the database
    tries,      \* attempts at the lock it has left
    answer,     \* what its last call came back with
    stolen      \* history: some lock file was taken from a process still in its call

stores == <<db, file, writer>>
vars == <<db, file, writer, lock, pc, event, seen, tries, answer, stolen>>

Zero == <<>>
LastOf(s) == IF s = <<>> THEN Zero ELSE s[Len(s)]

\* The record process p has built on what it saw.
Record(p) == Append(seen[p], event[p])

Step == {"down", "open", "idle", "acquire", "judge", "remove", "stamp", "read_db",
         "compare", "insert", "write_line", "commit", "release", "drop"}

Goto(p, step) ==
    /\ pc' = [pc EXCEPT ![p] = step]
    /\ UNCHANGED <<event, answer>>

Return(p, a) ==
    /\ pc' = [pc EXCEPT ![p] = "idle"]
    /\ answer' = [answer EXCEPT ![p] = a]
    /\ UNCHANGED event

Init ==
    /\ db = <<>>
    /\ file = <<>>
    /\ writer = NoOne
    /\ lock = NoLock
    /\ pc = [p \in Process |-> "down"]
    /\ event \in [Process -> Event]
    /\ seen = [p \in Process |-> Zero]
    /\ tries = [p \in Process |-> 0]
    /\ answer = [p \in Process |-> "none"]
    /\ stolen = FALSE

\* Ledger::open reads the end of both stores, one after the other and unlocked.
Open(p) ==
    /\ pc[p] = "down"
    /\ seen' = [seen EXCEPT ![p] = LastOf(db)]
    /\ Goto(p, "open")
    /\ UNCHANGED <<stores, lock, tries, stolen>>

Opened(p) ==
    /\ pc[p] = "open"
    /\ IF LastOf(file) = seen[p] THEN Goto(p, "idle") ELSE Goto(p, "down")
    /\ UNCHANGED <<stores, lock, seen, tries, stolen>>

\* The process dies: its transaction is rolled back, its lock file stays.
Crash(p) ==
    /\ pc[p] # "down"
    /\ pc' = [pc EXCEPT ![p] = "down"]
    /\ answer' = [answer EXCEPT ![p] = "none"]
    /\ writer' = IF writer = p THEN NoOne ELSE writer
    /\ UNCHANGED <<db, file, lock, event, seen, tries, stolen>>

\* Time shows in the age of a lock file that says when it was made.
Tick ==
    /\ lock # NoLock
    /\ lock.stamped
    /\ lock.age < MaxAge
    /\ lock' = [lock EXCEPT !.age = @ + 1]
    /\ UNCHANGED <<stores, pc, event, seen, tries, answer, stolen>>

-----------------------------------------------------------------------------
(* LedgerFileLock::acquire.                                                *)

AppendEvent(p, e) ==
    /\ pc[p] = "idle"
    /\ Len(file) < MaxLines
    /\ pc' = [pc EXCEPT ![p] = "acquire"]
    /\ event' = [event EXCEPT ![p] = e]
    /\ tries' = [tries EXCEPT ![p] = Attempts]
    /\ UNCHANGED <<stores, lock, seen, answer, stolen>>

\* create_new succeeds; the file is still empty.
CreateLock(p) ==
    /\ pc[p] = "acquire"
    /\ tries[p] > 0
    /\ lock = NoLock
    /\ lock' = [by |-> p, stamped |-> FALSE, age |-> 0]
    /\ Goto(p, "stamp")
    /\ UNCHANGED <<stores, seen, tries, stolen>>

\* Mutant of FindLock: attempts are not counted.
FindLockAgain(p) ==
    /\ pc[p] = "acquire"
    /\ tries[p] > 0
    /\ lock # NoLock
    /\ Goto(p, "judge")
    /\ UNCHANGED <<stores, lock, seen, tries, stolen>>

\* ... or the file is there; whether it is abandoned is read next.
FindLock(p) ==
    /\ pc[p] = "acquire"
    /\ tries[p] > 0
    /\ lock # NoLock
    /\ tries' = [tries EXCEPT ![p] = @ - 1]
    /\ Goto(p, "judge")
    /\ UNCHANGED <<stores, lock, seen, stolen>>

Abandoned == lock # NoLock /\ lock.stamped /\ lock.age >= AbandonedAge

JudgeLock(p) ==
    /\ pc[p] = "judge"
    /\ IF Abandoned THEN Goto(p, "remove") ELSE Goto(p, "acquire")
    /\ UNCHANGED <<stores, lock, seen, tries, stolen>>

\* From the creation of its lock file until a call lets go of it.
Locked == {"stamp", "read_db", "compare", "insert", "write_line", "commit", "release", "drop"}

Holds(p) == pc[p] \in Locked

\* Removal is by path: it takes away whatever lock file is there by now.
RemoveLock(p) ==
    /\ pc[p] = "remove"
    /\ lock' = NoLock
    /\ stolen' = (stolen \/ (lock # NoLock /\ Holds(lock.by)))
    /\ Goto(p, "acquire")
    /\ UNCHANGED <<stores, seen, tries>>

LockTimeout(p) ==
    /\ pc[p] = "acquire"
    /\ tries[p] = 0
    /\ Return(p, "error")
    /\ UNCHANGED <<stores, lock, seen, tries, stolen>>

\* The time goes through the handle, wherever the path leads by now.  When that
\* write fails there is no guard yet that would remove the empty file.
StampLock(p) ==
    /\ pc[p] = "stamp"
    /\ \/ /\ lock' = IF lock # NoLock /\ lock.by = p
                     THEN [lock EXCEPT !.stamped = TRUE] ELSE lock
          /\ Goto(p, "read_db")
       \/ UNCHANGED lock /\ Return(p, "error")
    /\ UNCHANGED <<stores, seen, tries, stolen>>

-----------------------------------------------------------------------------
(* Ledger::append, the lock once taken.                                    *)

ReadDb(p) ==
    /\ pc[p] = "read_db"
    /\ seen' = [seen EXCEPT ![p] = LastOf(db)]
    /\ Goto(p, "compare")
    /\ UNCHANGED <<stores, lock, tries, stolen>>

\* Mutant of Compare: append trusts the comparison made by open.
CompareNothing(p) ==
    /\ pc[p] = "compare"
    /\ Goto(p, "insert")
    /\ UNCHANGED <<stores, lock, seen, tries, stolen>>

\* A mirror that ends in anything but that record is a divergence.
Compare(p) ==
    /\ pc[p] = "compare"
    /\ IF LastOf(file) = seen[p] THEN Goto(p, "insert") ELSE Goto(p, "drop")
    /\ UNCHANGED <<stores, lock, seen, tries, stolen>>

\* The first write of a transaction takes the database's write lock; sequence is
\* the primary key, and the wait for another writer is limited.
Insert(p) ==
    /\ pc[p] = "insert"
    /\ \/ /\ writer = NoOne
          /\ Len(Record(p)) \notin DOMAIN db
          /\ writer' = p
          /\ Goto(p, "write_line")
       \/ /\ writer # NoOne \/ Len(Record(p)) \in DOMAIN db
          /\ Goto(p, "drop")
          /\ UNCHANGED writer
    /\ UNCHANGED <<db, file, lock, seen, tries, stolen>>

\* A line that begins behind a torn one becomes a part of it.
AppendLine(line) ==
    IF LastOf(file) = Torn
    THEN [file EXCEPT ![Len(file)] = IF line = Torn THEN Torn ELSE Garbled]
    ELSE Append(file, line)

\* Mutant of WriteLine: its error is dropped.
WriteLineOrNot(p) ==
    /\ pc[p] = "write_line"
    /\ file' \in {AppendLine(Record(p)), AppendLine(Torn), file}
    /\ Goto(p, "commit")
    /\ UNCHANGED <<db, writer, lock, seen, tries, stolen>>

\* append_jsonl: the whole line, a part of it, or nothing.
WriteLine(p) ==
    /\ pc[p] = "write_line"
    /\ \/ file' = AppendLine(Record(p)) /\ Goto(p, "commit") /\ UNCHANGED writer
       \/ file' = AppendLine(Torn) /\ Goto(p, "drop") /\ writer' = NoOne
       \/ UNCHANGED file /\ Goto(p, "drop") /\ writer' = NoOne
    /\ UNCHANGED <<db, lock, seen, tries, stolen>>

\* Mutant of Commit: its error is dropped.
CommitOrNot(p) ==
    /\ pc[p] = "commit"
    /\ writer' = NoOne
    /\ db' \in {Append(db, Record(p)), db}
    /\ Goto(p, "release")
    /\ UNCHANGED <<file, lock, seen, tries, stolen>>

\* A commit that fails rolls the insert back and leaves the line.
Commit(p) ==
    /\ pc[p] = "commit"
    /\ writer' = NoOne
    /\ \/ db' = Append(db, Record(p)) /\ Goto(p, "release")
       \/ UNCHANGED db /\ Goto(p, "drop")
    /\ UNCHANGED <<file, lock, seen, tries, stolen>>

\* guard.release(): its failure is reported although the record is committed.
Release(p) ==
    /\ pc[p] = "release"
    /\ \/ lock' = NoLock /\ Return(p, "ok")
       \/ UNCHANGED lock /\ Return(p, "error")
    /\ UNCHANGED <<stores, seen, tries, stolen>>

\* Drop of the guard on the way out of an error.
DropLock(p) ==
    /\ pc[p] = "drop"
    /\ lock' = NoLock \/ UNCHANGED lock
    /\ Return(p, "error")
    /\ UNCHANGED <<stores, seen, tries, stolen>>

-----------------------------------------------------------------------------
\* What a call does once it is made.
Proceed(p) ==
    \/ Opened(p)
    \/ CreateLock(p) \/ FindLock(p) \/ JudgeLock(p) \/ RemoveLock(p) \/ LockTimeout(p)
    \/ StampLock(p) \/ ReadDb(p) \/ Compare(p) \/ Insert(p) \/ WriteLine(p) \/ Commit(p)
    \/ Release(p) \/ DropLock(p)

Next ==
    \/ Tick
    \/ \E p \in Process :
        \/ Open(p) \/ Crash(p) \/ Proceed(p)
        \/ \E e \in Event : AppendEvent(p, e)

\* A thread that is in a call gets to run: nothing but a crash stops it.
Fairness == \A p \in Process : WF_vars(Proceed(p))

Spec == Init /\ [][Next]_vars /\ Fairness

-----------------------------------------------------------------------------
(* Properties.                                                             *)

Line == Seq(Event) \cup {Torn, Garbled}

\* Type correctness; a transaction is open exactly while its process writes.
TypeOK ==
    /\ db \in Seq(Seq(Event))
    /\ file \in Seq(Line)
    /\ writer \in Process \cup {NoOne}
    /\ lock \in [by : Process, stamped : BOOLEAN, age : Nat] \cup {NoLock}
    /\ pc \in [Process -> Step]
    /\ event \in [Process -> Event]
    /\ seen \in [Process -> Seq(Event)]
    /\ tries \in [Process -> Nat]
    /\ answer \in [Process -> {"none", "ok", "error"}]
    /\ stolen \in BOOLEAN
    /\ \A p \in Process : writer = p <=> pc[p] \in {"write_line", "commit"}

\* The database holds one hash chain: row n is record number n and extends row
\* n - 1.  It does not depend on the lock file, which may be taken from a live
\* holder: the primary key turns the slower of two writers away.
OneChain ==
    \A n \in DOMAIN db :
        /\ Len(db[n]) = n
        /\ n > 1 => SubSeq(db[n], 1, n - 1) = db[n - 1]

\* The stores as callers may think of them: AppendLog.
call == [p \in Process |->
    CASE pc[p] \in {"down", "open", "idle"} -> "none"
      [] pc[p] = "release" -> "written"
      [] OTHER -> "pending"]
Log == INSTANCE AppendLog WITH log <- [n \in DOMAIN db |-> LastOf(db[n])], arg <- event
LogSpec == Log!Spec

\* The lock file keeps all others out of the call, whoever dies or fails and leaves it
\* behind, unless it was taken from a process that was still at work.
Exclusion == stolen \/ \A p, q \in Process : Holds(p) /\ Holds(q) => p = q

\* The comparison of the last records, which open and append rely on, sees every
\* divergence: stores whose ends agree are the same throughout (M4_ACCEPTANCE, G2).  It
\* does not hold once a lock has been taken from a process at work.
DivergenceIsSeen == writer = NoOne /\ LastOf(db) = LastOf(file) => file = db

\* It does after any deaths and failures, as long as no lock is taken from a process
\* that was still at work.
OnlyTheftHidesDivergence == stolen \/ DivergenceIsSeen

\* With the same exception, the mirror has a line for every committed record, in order.
CommittedIsMirrored == stolen \/ \A n \in DOMAIN db : n \in DOMAIN file /\ file[n] = db[n]

\* A call comes back, whatever the others do and however they leave the lock file.
AppendReturns ==
    \A p \in Process : pc[p] \notin {"down", "idle"} ~> pc[p] \in {"down", "idle"}
=============================================================================
