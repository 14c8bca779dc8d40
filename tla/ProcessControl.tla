---------------------------- MODULE ProcessControl ----------------------------
(***************************************************************************)
(* process.terminate (vor-process's terminate_with_api), on a system whose *)
(* processes come and go and whose process numbers are used again.  The    *)
(* approval was given for an identity that process.inspect or the owner    *)
(* saw earlier: number, executable, path and time of creation.  Windows    *)
(* keeps the number of a process for as long as a handle to it is open.    *)
(***************************************************************************)
EXTENDS Naturals, FiniteSets

CONSTANTS
    Pids,
    Images,         \* executable_name and image_path
    Protected,      \* those of reject_protected_identity
    Own,            \* the pid of the agent's own process
    None,
    MaxBirths,      \* bound: processes
    MaxCalls,       \* bound: approved terminations
    MaxFaults       \* bound: queries that fail

VARIABLES
    procs,          \* [pid -> the process of that number, or None]
    seen,           \* the identities that somebody may have seen
    call,           \* the dispatcher's call: a termination, or another one
    answers,        \* history: [expected, status] of the terminations
    killed,         \* history: [victim, expected]
    births, calls, faults
vars == <<procs, seen, call, answers, killed, births, calls, faults>>

\* born is the creation time in units of 100 ns, and no two processes share one;
\* a process that has exited stays in the table while a handle holds it.
Process(pid, image, born, critical) ==
    [pid |-> pid, image |-> image, born |-> born, critical |-> critical, alive |-> TRUE]
NoneAssumption ==
    None \notin [pid : Pids, image : Images, born : Nat, critical : BOOLEAN, alive : BOOLEAN]
Identity(p) == [pid |-> p.pid, image |-> p.image, born |-> p.born]

Idle == [kind |-> "idle"]
At(pc) == call.kind = "terminate" /\ call.pc = pc

Init ==
    /\ procs = [pid \in Pids |-> None]
    /\ seen = {} /\ call = Idle
    /\ answers = {} /\ killed = {}
    /\ births = 0 /\ calls = 0 /\ faults = 0

\* A process begins, with a number that is free.
Begin(pid) ==
    /\ procs[pid] = None /\ births < MaxBirths /\ births' = births + 1
    /\ \E image \in Images, critical \in BOOLEAN :
          LET p == Process(pid, image, births', critical) IN
          /\ procs' = [procs EXCEPT ![pid] = p]
          /\ seen' = seen \cup {Identity(p)}
    /\ UNCHANGED <<call, answers, killed, calls, faults>>

Held(pid) == call.kind = "terminate" /\ call.pc # "open" /\ call.expected.pid = pid

\* A process exits; its number is free when no handle holds it.
End(pid) ==
    /\ procs[pid] # None /\ procs[pid].alive /\ pid # Own
    /\ procs' = [procs EXCEPT ![pid] = IF Held(pid) THEN [@ EXCEPT !.alive = FALSE] ELSE None]
    /\ UNCHANGED <<seen, call, answers, killed, births, calls, faults>>

\* An approved termination of something that was seen.
Terminate(expected) ==
    /\ call = Idle /\ calls < MaxCalls /\ calls' = calls + 1
    /\ call' = [kind |-> "terminate", expected |-> expected, pc |-> "open"]
    /\ UNCHANGED <<procs, seen, answers, killed, births, faults>>

\* The call ends and its handle is closed.
Answer(status) ==
    /\ answers' = answers \cup {[expected |-> call.expected, status |-> status]}
    /\ call' = Idle
Release(ps) ==
    LET pid == call.expected.pid IN
    procs' = IF ps[pid] # None /\ ~ps[pid].alive THEN [ps EXCEPT ![pid] = None] ELSE ps
Goto(pc) == call' = [call EXCEPT !.pc = pc] /\ UNCHANGED answers

\* open: whatever has the number now.
Open ==
    LET pid == call.expected.pid IN
    /\ At("open")
    /\ IF pid = Own THEN Answer("protected")
       ELSE IF procs[pid] = None THEN Answer("not_found")
       ELSE Goto("identify")
    /\ UNCHANGED <<procs, seen, killed, births, calls, faults>>

Target == procs[call.expected.pid]

\* ensure_still_running, identity, reject_protected_identity and criticality, all
\* on the handle; a query that fails is an error too.
Identify ==
    /\ At("identify")
    /\ \/ /\ IF /\ Target.alive /\ Identity(Target) = call.expected
                /\ Target.image \notin Protected /\ ~Target.critical
             THEN Goto("kill") /\ UNCHANGED procs
             ELSE Answer("refused") /\ Release(procs)
          /\ UNCHANGED faults
       \/ /\ faults < MaxFaults /\ faults' = faults + 1
          /\ Answer("query_failed") /\ Release(procs)
    /\ UNCHANGED <<seen, killed, births, calls>>

\* terminate: begins the end of the process, if it has not come to it by itself.
Kill ==
    /\ At("kill")
    /\ IF ~Target.alive
       THEN Answer("terminate_failed") /\ Release(procs) /\ UNCHANGED killed
       ELSE /\ killed' = killed \cup {[victim |-> Target, expected |-> call.expected]}
            /\ Goto("wait") /\ UNCHANGED procs
    /\ UNCHANGED <<seen, births, calls, faults>>

\* wait: it is gone, or the five seconds are over.
Wait ==
    /\ At("wait")
    /\ Answer(IF Target.alive THEN "unconfirmed" ELSE "terminated")
    /\ Release(procs)
    /\ UNCHANGED <<seen, killed, births, calls, faults>>

Next ==
    \/ \E pid \in Pids : Begin(pid) \/ End(pid)
    \/ \E expected \in seen : Terminate(expected)
    \/ Open \/ Identify \/ Kill \/ Wait

Spec == Init /\ [][Next]_vars

-----------------------------------------------------------------------------
(* Properties.                                                             *)

\* What is ended is the process that was approved, not another one with its
\* number and name, and none that is protected or critical (terminate_with_api,
\* against the exits and beginnings since the identity was seen).
OnlyTheApproved ==
    \A k \in killed :
        /\ Identity(k.victim) = k.expected
        /\ k.victim.image \notin Protected /\ ~k.victim.critical /\ k.victim.pid # Own

\* A termination that is confirmed has happened: no process of that identity is
\* running, and it was this system of calls that ended it (WaitStatus::Object0).
ConfirmedIsGone ==
    \A a \in answers : a.status = "terminated" =>
        /\ ~\E pid \in Pids : procs[pid] # None /\ procs[pid].alive
                              /\ Identity(procs[pid]) = a.expected
        /\ \E k \in killed : k.expected = a.expected
=============================================================================
