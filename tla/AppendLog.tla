----------------------------- MODULE AppendLog -----------------------------
(***************************************************************************)
(* What Ledger::append promises to its callers: one log that only grows,   *)
(* by at most one event a call; "ok" means that the event is in it, an     *)
(* error leaves that open.  ApprovedDispatch takes its appends to be like  *)
(* this; AuditLedger implements it.                                        *)
(***************************************************************************)
EXTENDS Sequences

CONSTANTS
    Process,    \* callers
    Event

VARIABLES
    log,        \* the events on record
    call,       \* for each caller "none", "pending" or "written"
    arg,        \* the event it wants on record
    answer      \* what its last call came back with

vars == <<log, call, arg, answer>>

Init ==
    /\ log = <<>>
    /\ call = [p \in Process |-> "none"]
    /\ arg \in [Process -> Event]
    /\ answer = [p \in Process |-> "none"]

Call(p, e) ==
    /\ call[p] = "none"
    /\ call' = [call EXCEPT ![p] = "pending"]
    /\ arg' = [arg EXCEPT ![p] = e]
    /\ UNCHANGED <<log, answer>>

Write(p) ==
    /\ call[p] = "pending"
    /\ call' = [call EXCEPT ![p] = "written"]
    /\ log' = Append(log, arg[p])
    /\ UNCHANGED <<arg, answer>>

Succeed(p) ==
    /\ call[p] = "written"
    /\ call' = [call EXCEPT ![p] = "none"]
    /\ answer' = [answer EXCEPT ![p] = "ok"]
    /\ UNCHANGED <<log, arg>>

\* An error, or the caller's own death.
Fail(p, a) ==
    /\ a # "ok"
    /\ call' = [call EXCEPT ![p] = "none"]
    /\ answer' = [answer EXCEPT ![p] = a]
    /\ UNCHANGED <<log, arg>>

Next ==
    \E p \in Process :
        \/ \E e \in Event : Call(p, e)
        \/ Write(p) \/ Succeed(p)
        \/ \E a \in {"none", "error"} : Fail(p, a)

Spec == Init /\ [][Next]_vars
=============================================================================
