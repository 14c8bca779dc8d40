---------------------------- MODULE DeviceProofs ----------------------------
(***************************************************************************)
(* What the device's dispatcher and its workers guarantee.                 *)
(* ApprovedDispatch, which comes first: for every value of its constants.  *)
(* DeviceWorkers: for any sessions, processes, windows and commands that   *)
(* share the dispatcher's one call.                                        *)
(***************************************************************************)
EXTENDS ApprovedDispatch, DeviceWorkers, Sequences, FiniteSetTheorems, SequenceTheorems,
        WellFoundedInduction, TLAPS

\* The broker's decision is one of three, whatever the budget says.
LEMMA DecisionType ==
    ASSUME NEW p \in Policy, NEW r \in Request, NEW now \in Time
    PROVE  Decision(p, r, now) \in {"auto", "approval", "deny"}
BY DEF Decision

\* A job that goes on keeps its dispatcher busy with a well-formed job.
LEMMA ContinueType ==
    ASSUME TypeOK, NEW d \in Dispatcher, NEW step \in Step \ {"down", "idle"},
           NEW j \in Job, Continue(d, step, j)
    PROVE  /\ pc' \in [Dispatcher -> Step]
           /\ status' \in [Dispatcher -> Status]
           /\ DOMAIN job' = Dispatcher
           /\ \A e \in Dispatcher : IF (Busy(e))' THEN job'[e] \in Job ELSE job'[e] = NoJob
BY DEF TypeOK, Continue, Busy

\* A job that ends leaves its dispatcher idle and without one.
LEMMA ReturnType ==
    ASSUME TypeOK, NEW d \in Dispatcher, NEW answer \in Status, Return(d, answer)
    PROVE  /\ pc' \in [Dispatcher -> Step]
           /\ status' \in [Dispatcher -> Status]
           /\ DOMAIN job' = Dispatcher
           /\ \A e \in Dispatcher : IF (Busy(e))' THEN job'[e] \in Job ELSE job'[e] = NoJob
BY DEF TypeOK, Return, Busy, Step

\* Every dispatcher step keeps the types: one fact per action.
LEMMA TypeStep ==
    ASSUME ConstantsAssumption, TypeOK, [Next]_vars
    PROVE  TypeOK'
<1> USE ConstantsAssumption DEF ledger, local
<1>1. CASE UNCHANGED vars
  BY <1>1 DEF TypeOK, vars, Busy
<1>2. CASE Tick
  BY <1>2 DEF TypeOK, Tick, Busy, Time
<1>3. ASSUME NEW d \in Dispatcher, NEW p \in Policy, Open(d, p)
      PROVE  TypeOK'
  <2>1. "none" \in Status
    BY DEF Status
  <2> QED BY <1>3, <2>1, ReturnType DEF TypeOK, Open
<1>4. ASSUME NEW d \in Dispatcher, Crash(d)
      PROVE  TypeOK'
  BY <1>4 DEF TypeOK, Crash, Busy, Step, Status
<1>5. ASSUME NEW d \in Dispatcher, LedgerFails(d) \/ Panic(d)
      PROVE  TypeOK'
  <2>1. {"none", "audit_or_broker_unavailable"} \subseteq Status
    BY DEF Status
  <2> QED BY <1>5, <2>1, ReturnType DEF TypeOK, LedgerFails, Panic
<1>6. ASSUME NEW d \in Dispatcher, NEW a \in Approver, NEW e \in Enrolment, SetApprover(d, a, e)
      PROVE  TypeOK'
  BY <1>6 DEF TypeOK, SetApprover, Entry, Busy
<1>7. ASSUME NEW d \in Dispatcher, NEW a \in Approver, RevokeApprover(d, a)
      PROVE  TypeOK'
  <2>a. registry[d][a] \in Entry
    BY <1>7 DEF TypeOK, RevokeApprover
  <2>1. [registry[d][a] EXCEPT !.revoked = TRUE] \in Entry
    BY <2>a DEF Entry
  <2> QED BY <1>7, <2>1 DEF TypeOK, RevokeApprover, Busy
<1>8. ASSUME NEW d \in Dispatcher, NEW r \in Request, NEW kind \in {"prepare", "commit"},
             Receive(d, r, kind)
      PROVE  TypeOK'
  <2>1. [req |-> r, kind |-> kind, now |-> clock, decision |-> "deny",
         approval |-> NoApproval] \in Job
    BY DEF TypeOK, Job
  <2>2. "authorize" \in Step \ {"down", "idle"}
    BY DEF Step
  <2> QED BY <1>8, <2>1, <2>2, ContinueType DEF TypeOK, Receive
<1>9. ASSUME NEW d \in Dispatcher, Busy(d), Decide(d) \/ Approved(d)
      PROVE  TypeOK'
  <2> DEFINE j == job[d]
  <2>1. j \in Job /\ j.req \in Request /\ j.now \in Time /\ j.decision \in {"auto", "approval", "deny"}
    BY <1>9 DEF TypeOK, Job
  <2>2. "audit_or_broker_unavailable" \in Status /\ "none" \in Status
    BY DEF Status
  <2>a. ASSUME NEW step \in Step \ {"down", "idle"}, Goto(d, step)
        PROVE  /\ pc' \in [Dispatcher -> Step]
               /\ status' \in [Dispatcher -> Status]
               /\ DOMAIN job' = Dispatcher
               /\ \A e \in Dispatcher : IF (Busy(e))' THEN job'[e] \in Job ELSE job'[e] = NoJob
    BY <2>1, <2>a, ContinueType DEF Goto
  <2>b. ASSUME NEW outcome \in Outcome, AppendAudit(d, outcome)
        PROVE  audit' \in [Request -> SUBSET Outcome]
    BY <2>1, <2>b DEF TypeOK, AppendAudit
  <2>c. ASSUME NEW s \in RecoveryState, SetRecovery(d, s)
        PROVE  recovery' \in [Request -> RecoveryState]
    BY <2>1, <2>c DEF TypeOK, SetRecovery
  <2>3. CASE Authorize(d)
    <3>1. Decision(policy[d], j.req, j.now) \in {"auto", "approval", "deny"}
      BY <2>1, DecisionType DEF TypeOK
    <3>2. [j EXCEPT !.decision = Decision(policy[d], j.req, j.now)] \in Job
      BY <2>1, <3>1 DEF Job
    <3>3. "append_decision" \in Step \ {"down", "idle"}
      BY DEF Step
    <3> QED BY <2>3, <2>2, <3>2, <3>3, ContinueType, ReturnType DEF TypeOK, Authorize
  <2>4. CASE AppendDecision(d)
    <3>1. j.decision \in Outcome /\ "decided" \in Step \ {"down", "idle"}
      BY <2>1 DEF Outcome, Step
    <3>2. charges' \in [Request -> [Time -> Nat]]
      BY <2>4, <2>1 DEF TypeOK, AppendDecision
    <3> QED BY <2>4, <2>2, <2>a, <2>b, <3>1, <3>2, ReturnType
            DEF TypeOK, AppendDecision, AppendThen
  <2>5. CASE Deny(d) \/ RunByPolicy(d) \/ (\E s \in SignedApproval : RejectApproval(d, s))
    <3>1. /\ {"policy_denied", "worker_error", "approval_not_prepared", "approval_invalid"}
                \subseteq Status
          /\ "append_executed_by_policy" \in Step \ {"down", "idle"}
      BY DEF Status, Step
    <3> QED BY <2>5, <2>a, <3>1, ReturnType DEF TypeOK, Deny, RunByPolicy, RejectApproval
  <2>6. CASE PrepareEdit(d)
    <3>1. [j EXCEPT !.req = Transform[j.req], !.kind = "edited"] \in Job
      BY <2>1, <2>6 DEF Job, PrepareEdit
    <3>2. "authorize" \in Step \ {"down", "idle"}
      BY DEF Step
    <3> QED BY <2>6, <3>1, <3>2, ContinueType DEF TypeOK, PrepareEdit
  <2>7. CASE ChooseRunByPolicy(d) \/ ChooseNotRequired(d) \/ ChooseChallenge(d) \/ CheckOutput(d)
    <3>1. {"run_by_policy", "append_not_required", "append_challenge", "append_output_limit",
           "append_executed"} \subseteq Step \ {"down", "idle"}
      BY DEF Step
    <3> QED BY <2>7, <2>a, <3>1
            DEF TypeOK, ChooseRunByPolicy, ChooseNotRequired, ChooseChallenge, CheckOutput
  <2>8. CASE AppendNotRequired(d) \/ AppendChallenge(d) \/ AppendExecutedByPolicy(d)
             \/ AppendWorkerFailed(d) \/ AppendOutputLimit(d)
    <3>1. {"remote_approval_policy_required", "approval_challenge_issued", "executed_by_policy",
           "worker_failed", "output_limit_exceeded"} \subseteq Outcome
      BY DEF Outcome
    <3>2. {"approval_policy_required", "approval_required", "ok", "worker_error",
           "output_limit_exceeded"} \subseteq Status
      BY DEF Status
    <3> QED BY <2>8, <2>2, <2>b, <3>1, <3>2, ReturnType
            DEF TypeOK, AppendNotRequired, AppendChallenge, AppendExecutedByPolicy,
                AppendWorkerFailed, AppendOutputLimit, AppendLast
  <2>9. CASE \E s \in SignedApproval : AcceptApproval(d, s)
    <3>1. PICK s \in SignedApproval : AcceptApproval(d, s)
      BY <2>9
    <3>2. [j EXCEPT !.approval = s] \in Job
      BY <2>1 DEF Job
    <3>3. "claim" \in Step \ {"down", "idle"}
      BY DEF Step
    <3> QED BY <3>1, <3>2, <3>3, ContinueType DEF TypeOK, AcceptApproval
  <2>10. CASE Claim(d)
    <3>1. [j EXCEPT !.approval = NoApproval] \in Job
      BY <2>1 DEF Job
    <3>2. "append_verified" \in Step \ {"down", "idle"} /\ "approval_replayed" \in Status
      BY DEF Step, Status
    <3>3. claimed' \subseteq Request /\ recovery' \in [Request -> RecoveryState]
      <4>1. \/ UNCHANGED <<claimed, recovery>>
            \/ claimed' = claimed \cup {j.req} /\ recovery' = [recovery EXCEPT ![j.req] = "not_executed"]
        BY <2>10 DEF Claim
      <4>2. "not_executed" \in RecoveryState
        BY DEF RecoveryState
      <4> QED BY <2>1, <4>1, <4>2 DEF TypeOK
    <3> QED BY <2>10, <3>1, <3>2, <3>3, ContinueType, ReturnType DEF TypeOK, Claim
  <2>11. CASE AppendVerified(d) \/ AppendConsumed(d)
    <3>1. {"approval_verified", "approval_consumed"} \subseteq Outcome
      BY DEF Outcome
    <3>2. {"append_consumed", "mark_uncertain"} \subseteq Step \ {"down", "idle"}
      BY DEF Step
    <3>3. CASE AppendVerified(d)
      BY <2>2, <2>a, <2>b, <3>1, <3>2, <3>3, ReturnType DEF TypeOK, AppendVerified, AppendThen
    <3>4. CASE AppendConsumed(d)
      BY <2>2, <2>a, <2>b, <3>1, <3>2, <3>4, ReturnType DEF TypeOK, AppendConsumed, AppendThen
    <3> QED BY <2>11, <3>3, <3>4
  <2>12. CASE MarkUncertain(d) \/ MarkApplied(d)
    <3>1. {"execute", "check_output"} \subseteq Step \ {"down", "idle"}
      BY DEF Step
    <3>2. {"effect_uncertain", "effect_applied"} \subseteq RecoveryState
      BY DEF RecoveryState
    <3> QED BY <2>12, <2>a, <2>c, <3>1, <3>2 DEF TypeOK, MarkUncertain, MarkApplied
  <2>13. CASE Execute(d)
    <3>1. {"mark_applied", "append_worker_failed"} \subseteq Step \ {"down", "idle"}
      BY DEF Step
    <3>2. ran' \in [Request -> Nat]
      <4>1. ran' = ran \/ ran' = [ran EXCEPT ![j.req] = @ + 1]
        BY <2>13 DEF Execute
      <4>2. j.req \in Request /\ ran \in [Request -> Nat]
        BY <2>1 DEF TypeOK, Job
      <4>3. [ran EXCEPT ![j.req] = @ + 1] \in [Request -> Nat]
        BY <4>2
      <4> QED BY <4>1, <4>2, <4>3
    <3> QED BY <2>13, <2>a, <3>1, <3>2 DEF TypeOK, Execute
  <2>14. CASE AppendExecuted(d)
    <3>1. {"mark_completed", "mark_post_uncertain"} \subseteq Step \ {"down", "idle"}
      BY DEF Step
    <3>2. "executed" \in Outcome
      BY DEF Outcome
    <3>3. audit' \in [Request -> SUBSET Outcome]
      BY <2>14, <2>b, <3>2 DEF TypeOK, AppendExecuted
    <3>4. Goto(d, "mark_completed") \/ Goto(d, "mark_post_uncertain")
      BY <2>14 DEF AppendExecuted
    <3> QED BY <2>14, <2>a, <3>1, <3>3, <3>4 DEF TypeOK, AppendExecuted
  <2>15. CASE MarkCompleted(d) \/ MarkPostUncertain(d)
    <3>1. {"ok", "post_effect_uncertain"} \subseteq Status
      BY DEF Status
    <3>2. {"completed", "post_effect_uncertain"} \subseteq RecoveryState
      BY DEF RecoveryState
    <3> QED BY <2>15, <2>c, <3>1, <3>2, ReturnType DEF TypeOK, MarkCompleted, MarkPostUncertain
  <2>16. ~\E r \in Request, kind \in {"prepare", "commit"} : Receive(d, r, kind)
    BY <1>9 DEF Receive, Idle, Busy
  <2> QED BY <1>9, <2>3, <2>4, <2>5, <2>6, <2>7, <2>8, <2>9, <2>10, <2>11, <2>12, <2>13,
             <2>14, <2>15, <2>16 DEF Decide, Approved
<1>10. ASSUME NEW d \in Dispatcher, ~Busy(d), Decide(d) \/ Approved(d)
       PROVE  \E r \in Request, kind \in {"prepare", "commit"} : Receive(d, r, kind)
  BY <1>10 DEF Busy, Decide, Approved, Authorize, AppendDecision, Deny, PrepareEdit,
       ChooseRunByPolicy, ChooseNotRequired, AppendNotRequired, ChooseChallenge,
       AppendChallenge, RunByPolicy, AppendExecutedByPolicy, AcceptApproval, RejectApproval,
       AtCommit, Claim, AppendVerified, AppendConsumed, MarkUncertain, Execute,
       AppendWorkerFailed, MarkApplied, CheckOutput, AppendOutputLimit, AppendExecuted,
       MarkCompleted, MarkPostUncertain
<1>11. ASSUME NEW d \in Dispatcher, Operator(d)
       PROVE  TypeOK'
  BY <1>3, <1>6, <1>7, <1>11 DEF Operator, AddApprover, RotateApprover
<1> QED BY <1>1, <1>2, <1>4, <1>5, <1>8, <1>9, <1>10, <1>11 DEF Next

\* Every reachable state is well typed, for any number of dispatchers and requests.
THEOREM TypeCorrect ==
    ASSUME ConstantsAssumption
    PROVE  Spec => []TypeOK
<1>1. Init => TypeOK
  BY ConstantsAssumption DEF Init, TypeOK, RecoveryState, Outcome, Step, Status, Time, Busy
<1> QED BY <1>1, TypeStep, PTL DEF Spec

-----------------------------------------------------------------------------
(* The inductive invariant.                                                *)

\* A step of one dispatcher leaves the jobs of the others alone.
OthersWait(d) == \A e \in Dispatcher \ {d} : pc'[e] = pc[e] /\ job'[e] = job[e]

\* What is on record of a request never goes away.
AuditGrows == \A r \in Request : audit[r] \subseteq audit'[r]

LEMMA Continues ==
    ASSUME TypeOK, NEW d \in Dispatcher, NEW step, NEW j, Continue(d, step, j)
    PROVE  OthersWait(d) /\ pc'[d] = step /\ job'[d] = j
BY DEF TypeOK, Continue, OthersWait

LEMMA Returns ==
    ASSUME TypeOK, NEW d \in Dispatcher, NEW answer, Return(d, answer)
    PROVE  OthersWait(d) /\ pc'[d] = "idle"
BY DEF TypeOK, Return, OthersWait

\* An append adds its outcome to the records of the job's request, and nothing else.
LEMMA Appends ==
    ASSUME TypeOK, NEW d \in Dispatcher, Busy(d), NEW outcome, AppendAudit(d, outcome)
    PROVE  /\ AuditGrows
           /\ audit'[job[d].req] = audit[job[d].req] \cup {outcome}
           /\ \A r \in Request \ {job[d].req} : audit'[r] = audit[r]
<1>1. job[d].req \in Request
  BY DEF TypeOK, Job
<1> QED BY <1>1 DEF TypeOK, AppendAudit, AuditGrows

\* A step that touches neither table nor effect, and after which the dispatcher
\* owns nothing, keeps the invariant: deciding, preparing, failing, dying.
LEMMA Quiet ==
    ASSUME Inductive, TypeOK', NEW d \in Dispatcher, OthersWait(d), AuditGrows,
           claimed' = claimed, recovery' = recovery, ran' = ran,
           \A r \in Request : "approval_consumed" \in audit'[r] => "approval_consumed" \in audit[r],
           pc'[d] \notin Owning \cup {"claim"},
           pc[d] = "down" => pc'[d] = "down"
    PROVE  Inductive'
<1>1. \A e \in Dispatcher : pc'[e] # "down" => Legacy \subseteq claimed'
  BY DEF Inductive, OthersWait
<1>2. ASSUME NEW e \in Dispatcher, pc'[e] \in Owning \cup {"claim"}
      PROVE  /\ e # d /\ pc'[e] = pc[e] /\ job'[e] = job[e]
             /\ job[e].req \in Request
  BY <1>2 DEF OthersWait, Inductive, TypeOK, Busy, Owning, Job
<1>3. \A e \in Dispatcher : pc'[e] = "claim" => "approval" \in audit'[job'[e].req]
  BY <1>2 DEF Inductive, AuditGrows
<1>4. ASSUME NEW e \in Dispatcher, pc'[e] \in Owning
      PROVE  OwnerAt(e)'
  <2>1. OwnerAt(e) /\ audit[job[e].req] \subseteq audit'[job[e].req]
    BY <1>2, <1>4 DEF Inductive, AuditGrows
  <2> QED BY <1>2, <1>4, <2>1 DEF OwnerAt
<1>5. OneOwner'
  BY <1>2 DEF Inductive, OneOwner
<1>6. ASSUME NEW r \in Request
      PROVE  RequestAt(r)'
  BY DEF Inductive, RequestAt, AuditGrows, Trail
<1> QED BY <1>1, <1>3, <1>4, <1>5, <1>6 DEF Inductive

\* A step of the owner of a claim keeps the invariant when it touches nothing but the
\* request it owns and leaves that request, and itself, as the invariant wants them.
LEMMA OwnerStep ==
    ASSUME Inductive, TypeOK', NEW d \in Dispatcher, NEW r \in Request,
           pc[d] \in Owning, job[d].req = r, OthersWait(d), AuditGrows, claimed' = claimed,
           \A q \in Request \ {r} : /\ recovery'[q] = recovery[q]
                                   /\ ran'[q] = ran[q]
                                   /\ audit'[q] = audit[q],
           pc'[d] \in Owning, job'[d].req = r, OwnerAt(d)', RequestAt(r)'
    PROVE  Inductive'
<1>1. \A e \in Dispatcher : pc'[e] # "down" => Legacy \subseteq claimed'
  BY DEF Inductive, OthersWait, Owning
<1>2. ASSUME NEW e \in Dispatcher \ {d}, pc'[e] \in Owning \cup {"claim"}
      PROVE  /\ pc'[e] = pc[e] /\ job'[e] = job[e]
             /\ job[e].req \in Request
  BY <1>2 DEF OthersWait, Inductive, TypeOK, Busy, Owning, Job
<1>3. \A e \in Dispatcher : pc'[e] = "claim" => "approval" \in audit'[job'[e].req]
  BY <1>2 DEF Inductive, AuditGrows, Owning
<1>4. ASSUME NEW e \in Dispatcher \ {d}, pc'[e] \in Owning
      PROVE  OwnerAt(e)'
  <2>1. OwnerAt(e) /\ job[e].req # r
    BY <1>2, <1>4 DEF Inductive, OneOwner
  <2> QED BY <1>2, <1>4, <2>1 DEF OwnerAt
<1>5. OneOwner'
  <2>1. ASSUME NEW e \in Dispatcher \ {d}, pc'[e] \in Owning
        PROVE  job'[e].req # r
    BY <1>2, <2>1 DEF Inductive, OneOwner
  <2>2. ASSUME NEW e \in Dispatcher \ {d}, NEW f \in Dispatcher \ {d},
               pc'[e] \in Owning, pc'[f] \in Owning, job'[e].req = job'[f].req
        PROVE  e = f
    BY <1>2, <2>2 DEF Inductive, OneOwner
  <2> QED BY <2>1, <2>2 DEF OneOwner
<1>6. ASSUME NEW q \in Request \ {r}
      PROVE  RequestAt(q)'
  BY DEF Inductive, RequestAt
<1> QED BY <1>1, <1>3, <1>4, <1>5, <1>6 DEF Inductive

\* The owner of a claim stops: its request stays as the ledger has it.
LEMMA OwnerStops ==
    ASSUME Inductive, TypeOK', NEW d \in Dispatcher, NEW r \in Request,
           pc[d] \in Owning, job[d].req = r, OthersWait(d), AuditGrows, claimed' = claimed,
           \A q \in Request \ {r} : /\ recovery'[q] = recovery[q]
                                   /\ ran'[q] = ran[q]
                                   /\ audit'[q] = audit[q],
           pc'[d] = "idle", RequestAt(r)'
    PROVE  Inductive'
<1>1. \A e \in Dispatcher : pc'[e] # "down" => Legacy \subseteq claimed'
  BY DEF Inductive, OthersWait, Owning
<1>2. ASSUME NEW e \in Dispatcher, pc'[e] \in Owning \cup {"claim"}
      PROVE  /\ e # d /\ pc'[e] = pc[e] /\ job'[e] = job[e]
             /\ job[e].req \in Request
  BY <1>2 DEF OthersWait, Inductive, TypeOK, Busy, Owning, Job
<1>3. \A e \in Dispatcher : pc'[e] = "claim" => "approval" \in audit'[job'[e].req]
  BY <1>2 DEF Inductive, AuditGrows
<1>4. ASSUME NEW e \in Dispatcher, pc'[e] \in Owning
      PROVE  OwnerAt(e)'
  <2>1. OwnerAt(e) /\ job[e].req # r
    BY <1>2, <1>4 DEF Inductive, OneOwner
  <2> QED BY <1>2, <1>4, <2>1 DEF OwnerAt
<1>5. OneOwner'
  BY <1>2 DEF Inductive, OneOwner
<1>6. ASSUME NEW q \in Request \ {r}
      PROVE  RequestAt(q)'
  BY DEF Inductive, RequestAt
<1> QED BY <1>1, <1>3, <1>4, <1>5, <1>6 DEF Inductive

\* What a dispatcher that owns a claim knows of its request.
LEMMA OwnerFacts ==
    ASSUME Inductive, NEW d \in Dispatcher, pc[d] \in Owning
    PROVE  /\ TypeOK /\ Busy(d) /\ job[d].req \in Request
           /\ OwnerAt(d) /\ RequestAt(job[d].req)
<1>1. TypeOK /\ Busy(d)
  BY DEF Inductive, Busy, Owning
<1>2. job[d].req \in Request
  BY <1>1 DEF TypeOK, Job
<1> QED BY <1>1, <1>2 DEF Inductive

\* The decision steps: none of them writes approval_consumed, or owns a claim.
LEMMA DecideStep ==
    ASSUME ConstantsAssumption, Inductive, TypeOK', NEW d \in Dispatcher, Decide(d)
    PROVE  Inductive'
<1> USE DEF ledger, local
<1>0. TypeOK
  BY DEF Inductive
<1>1. CASE \E r \in Request, kind \in {"prepare", "commit"} : Receive(d, r, kind)
  <2>1. OthersWait(d) /\ pc'[d] = "authorize" /\ pc[d] = "idle"
    BY <1>0, <1>1, Continues DEF Receive, Idle
  <2>2. AuditGrows /\ UNCHANGED <<claimed, recovery, ran, audit>>
    BY <1>1 DEF Receive, AuditGrows
  <2> QED BY <2>1, <2>2, Quiet DEF Owning
<1>2. CASE Authorize(d) \/ Deny(d) \/ PrepareEdit(d) \/ ChooseRunByPolicy(d)
            \/ ChooseNotRequired(d) \/ ChooseChallenge(d) \/ RunByPolicy(d)
  <2>1. /\ OthersWait(d) /\ pc[d] # "down"
        /\ pc'[d] \in {"idle", "authorize", "append_decision", "run_by_policy", "append_not_required",
                       "append_challenge", "append_executed_by_policy"}
    BY <1>0, <1>2, Continues, Returns
       DEF Authorize, Deny, PrepareEdit, ChooseRunByPolicy, ChooseNotRequired,
           ChooseChallenge, RunByPolicy, Goto
  <2>2. AuditGrows /\ UNCHANGED <<claimed, recovery, ran, audit>>
    BY <1>2 DEF Authorize, Deny, PrepareEdit, ChooseRunByPolicy, ChooseNotRequired,
                ChooseChallenge, RunByPolicy, AuditGrows
  <2> QED BY <2>1, <2>2, Quiet DEF Owning
<1>3. CASE AppendDecision(d) \/ AppendNotRequired(d) \/ AppendChallenge(d)
            \/ AppendExecutedByPolicy(d)
  <2>1. /\ OthersWait(d) /\ Busy(d) /\ pc'[d] \in {"idle", "decided"}
    BY <1>0, <1>3, Continues, Returns
       DEF AppendDecision, AppendNotRequired, AppendChallenge, AppendExecutedByPolicy,
           AppendThen, AppendLast, Goto, Busy
  <2>2. PICK outcome \in Outcome \ {"approval_consumed"} : AppendAudit(d, outcome)
    <3>1. job[d].decision \in {"auto", "approval", "deny"}
      BY <1>0, <2>1 DEF TypeOK, Job
    <3> QED BY <1>3, <3>1 DEF AppendDecision, AppendNotRequired, AppendChallenge,
               AppendExecutedByPolicy, AppendThen, AppendLast, Outcome
  <2>3. /\ AuditGrows
        /\ audit'[job[d].req] = audit[job[d].req] \cup {outcome}
        /\ \A r \in Request \ {job[d].req} : audit'[r] = audit[r]
    BY <1>0, <2>1, <2>2, Appends
  <2>4. UNCHANGED <<claimed, recovery, ran>>
    BY <1>3 DEF AppendDecision, AppendNotRequired, AppendChallenge, AppendExecutedByPolicy
  <2> QED BY <2>1, <2>3, <2>4, Quiet DEF Owning, Busy
<1> QED BY <1>1, <1>2, <1>3 DEF Decide

\* The approved path, up to the claim.
LEMMA ConsumeStep ==
    ASSUME ConstantsAssumption, Inductive, TypeOK', NEW d \in Dispatcher,
           \/ \E s \in SignedApproval : AcceptApproval(d, s) \/ RejectApproval(d, s)
           \/ Claim(d)
    PROVE  Inductive'
<1> USE DEF ledger, local
<1>0. TypeOK
  BY DEF Inductive
<1>1. CASE \E s \in SignedApproval : AcceptApproval(d, s)
  <2>1. PICK s \in SignedApproval : AcceptApproval(d, s)
    BY <1>1
  <2>2. /\ OthersWait(d) /\ pc[d] = "decided" /\ pc'[d] = "claim"
        /\ job'[d].req = job[d].req /\ "approval" \in audit[job[d].req]
    <3>1. job[d] \in Job
      BY <1>0, <2>1 DEF TypeOK, Busy, AcceptApproval, AtCommit
    <3> DEFINE j == [job[d] EXCEPT !.approval = s]
    <3>2. j.req = job[d].req
      BY <3>1 DEF Job
    <3>3. /\ Continue(d, "claim", j)
          /\ pc[d] = "decided" /\ "approval" \in audit[job[d].req]
      BY <2>1 DEF AcceptApproval, AtCommit
    <3> HIDE DEF j
    <3>4. OthersWait(d) /\ pc'[d] = "claim" /\ job'[d] = j
      BY <1>0, <3>3, Continues
    <3> QED BY <3>2, <3>3, <3>4
  <2>3. UNCHANGED <<claimed, recovery, ran, audit>>
    BY <2>1 DEF AcceptApproval
  <2>4. \A e \in Dispatcher : pc'[e] # "down" => Legacy \subseteq claimed'
    BY <2>2, <2>3 DEF Inductive, OthersWait
  <2>5. \A e \in Dispatcher : pc'[e] = "claim" => "approval" \in audit'[job'[e].req]
    BY <2>2, <2>3 DEF Inductive, OthersWait
  <2>6. \A e \in Dispatcher : pc'[e] \in Owning => e # d /\ pc'[e] = pc[e] /\ job'[e] = job[e]
    BY <2>2 DEF OthersWait, Owning
  <2>7. OneOwner' /\ \A e \in Dispatcher : pc'[e] \in Owning => OwnerAt(e)'
    BY <2>3, <2>6 DEF Inductive, OneOwner, OwnerAt
  <2>8. \A r \in Request : RequestAt(r)'
    BY <2>3 DEF Inductive, RequestAt
  <2> QED BY <2>4, <2>5, <2>7, <2>8 DEF Inductive
<1>2. CASE \E s \in SignedApproval : RejectApproval(d, s)
  <2>1. OthersWait(d) /\ pc[d] = "decided" /\ pc'[d] = "idle"
    BY <1>0, <1>2, Returns DEF RejectApproval, AtCommit
  <2>2. AuditGrows /\ UNCHANGED <<claimed, recovery, ran, audit>>
    BY <1>2 DEF RejectApproval, AuditGrows
  <2> QED BY <2>1, <2>2, Quiet DEF Owning
<1>3. CASE Claim(d) /\ job[d].req \in claimed
  <2>1. OthersWait(d) /\ pc[d] = "claim" /\ pc'[d] = "idle"
    BY <1>0, <1>3, Returns DEF Claim
  <2>2. AuditGrows /\ UNCHANGED <<claimed, recovery, ran, audit>>
    BY <1>3 DEF Claim, AuditGrows
  <2> QED BY <2>1, <2>2, Quiet DEF Owning
<1>4. CASE Claim(d) /\ job[d].req \notin claimed
  <2>0. job[d] \in Job
    BY <1>0, <1>4 DEF TypeOK, Busy, Claim
  <2>1. PICK r \in Request : job[d].req = r
    BY <2>0 DEF Job
  <2>2. /\ OthersWait(d) /\ pc[d] = "claim" /\ pc'[d] = "append_verified" /\ job'[d].req = r
        /\ claimed' = claimed \cup {r}
        /\ recovery' = [recovery EXCEPT ![r] = "not_executed"]
        /\ UNCHANGED <<audit, ran>>
    <3> DEFINE j == [job[d] EXCEPT !.approval = NoApproval]
    <3>1. j.req = r
      BY <2>0, <2>1 DEF Job
    <3>2. /\ pc[d] = "claim" /\ Continue(d, "append_verified", j)
          /\ claimed' = claimed \cup {r}
          /\ recovery' = [recovery EXCEPT ![r] = "not_executed"]
          /\ UNCHANGED <<audit, ran>>
      BY <1>4, <2>1 DEF Claim
    <3> HIDE DEF j
    <3>3. OthersWait(d) /\ pc'[d] = "append_verified" /\ job'[d] = j
      BY <1>0, <3>2, Continues
    <3> QED BY <3>1, <3>2, <3>3
  <2>3. r \notin Legacy /\ ran[r] = 0 /\ "approval" \in audit[r]
    BY <1>4, <2>1, <2>2 DEF Inductive, RequestAt
  <2>4. recovery'[r] = "not_executed" /\ \A q \in Request \ {r} : recovery'[q] = recovery[q]
    BY <1>0, <2>1, <2>2 DEF TypeOK
  <2>5. \A e \in Dispatcher : pc'[e] # "down" => Legacy \subseteq claimed'
    BY <2>2 DEF Inductive, OthersWait
  <2>6. \A e \in Dispatcher : pc'[e] = "claim" => "approval" \in audit'[job'[e].req]
    BY <2>2 DEF Inductive, OthersWait
  <2>7. ASSUME NEW e \in Dispatcher \ {d}, pc'[e] \in Owning
        PROVE  /\ pc'[e] = pc[e] /\ job'[e] = job[e] /\ OwnerAt(e)
               /\ job[e].req \in Request \ {r}
    <3>1. pc'[e] = pc[e] /\ job'[e] = job[e]
      BY <2>2, <2>7 DEF OthersWait
    <3>2. OwnerAt(e) /\ job[e].req \in Request
      BY <2>7, <3>1, OwnerFacts
    <3> QED BY <1>4, <2>1, <3>1, <3>2 DEF OwnerAt
  <2>8. OneOwner'
    BY <2>2, <2>7 DEF Inductive, OneOwner
  <2>9. OwnerAt(d)'
    BY <2>2, <2>3, <2>4 DEF OwnerAt
  <2>10. ASSUME NEW e \in Dispatcher \ {d}, pc'[e] \in Owning
         PROVE  OwnerAt(e)'
    <3>1. recovery'[job[e].req] = recovery[job[e].req]
      BY <2>4, <2>7, <2>10
    <3> QED BY <2>2, <2>7, <2>10, <3>1 DEF OwnerAt
  <2>11. RequestAt(r)'
    BY <2>1, <2>2, <2>3, <2>4 DEF RequestAt
  <2>12. ASSUME NEW q \in Request \ {r}
         PROVE  RequestAt(q)'
    BY <2>2, <2>4 DEF Inductive, RequestAt
  <2>13. \A e \in Dispatcher : pc'[e] \in Owning => OwnerAt(e)'
    BY <2>9, <2>10
  <2>14. \A q \in Request : RequestAt(q)'
    BY <2>11, <2>12
  <2> QED BY <2>5, <2>6, <2>8, <2>13, <2>14 DEF Inductive
<1>5. \/ \E s \in SignedApproval : AcceptApproval(d, s)
      \/ \E s \in SignedApproval : RejectApproval(d, s)
      \/ Claim(d)
  OBVIOUS
<1>6. CASE Claim(d)
  BY <1>3, <1>4, <1>6
<1> QED BY <1>1, <1>2, <1>5, <1>6

\* The approved path, from the claim to the answer.
LEMMA OwningStep ==
    ASSUME ConstantsAssumption, Inductive, TypeOK', NEW d \in Dispatcher,
           \/ AppendVerified(d) \/ AppendConsumed(d) \/ MarkUncertain(d) \/ Execute(d)
           \/ AppendWorkerFailed(d) \/ MarkApplied(d) \/ CheckOutput(d)
           \/ AppendOutputLimit(d) \/ AppendExecuted(d) \/ MarkCompleted(d)
           \/ MarkPostUncertain(d)
    PROVE  Inductive'
<1> USE DEF ledger, local
<1>1. pc[d] \in Owning
  BY DEF AppendVerified, AppendConsumed, MarkUncertain, Execute, AppendWorkerFailed,
         MarkApplied, CheckOutput, AppendOutputLimit, AppendExecuted, MarkCompleted,
         MarkPostUncertain, Owning
<1>2. TypeOK /\ Busy(d) /\ OwnerAt(d)
  BY <1>1, OwnerFacts
<1>3. PICK r \in Request : job[d].req = r /\ RequestAt(r)
  BY <1>1, OwnerFacts
<1>4. claimed' = claimed /\ r \in claimed \ Legacy
  BY <1>2, <1>3 DEF OwnerAt, AppendVerified, AppendConsumed, MarkUncertain, Execute,
     AppendWorkerFailed, MarkApplied, CheckOutput, AppendOutputLimit, AppendExecuted,
     MarkCompleted, MarkPostUncertain
<1>a. ASSUME NEW step, Goto(d, step)
      PROVE  OthersWait(d) /\ pc'[d] = step /\ job'[d].req = r
  BY <1>2, <1>3, <1>a, Continues DEF Goto
<1>b. ASSUME NEW answer, Return(d, answer)
      PROVE  OthersWait(d) /\ pc'[d] = "idle"
  BY <1>2, <1>b, Returns
<1>c. ASSUME NEW outcome, AppendAudit(d, outcome)
      PROVE  /\ AuditGrows /\ audit'[r] = audit[r] \cup {outcome}
             /\ \A q \in Request \ {r} : audit'[q] = audit[q]
  BY <1>2, <1>3, <1>c, Appends
<1>d. ASSUME NEW s, SetRecovery(d, s)
      PROVE  /\ recovery'[r] = s
             /\ \A q \in Request \ {r} : recovery'[q] = recovery[q]
  BY <1>2, <1>3, <1>d DEF TypeOK, SetRecovery
<1>e. UNCHANGED audit => AuditGrows
  BY DEF AuditGrows
<1>5. CASE AppendVerified(d)
  <2>1. UNCHANGED <<recovery, ran>> /\ pc[d] = "append_verified" /\ AppendAudit(d, "approval_verified")
    BY <1>5 DEF AppendVerified, AppendThen
  <2>2. RequestAt(r)'
    BY <1>3, <1>4, <1>c, <2>1 DEF RequestAt, Trail
  <2>3. CASE Goto(d, "append_consumed")
    <3>1. OwnerAt(d)'
      BY <1>2, <1>3, <1>4, <1>a, <1>c, <2>1, <2>3 DEF OwnerAt
    <3> QED BY <1>1, <1>3, <1>4, <1>a, <1>c, <2>1, <2>2, <2>3, <3>1, OwnerStep DEF Owning
  <2>4. CASE Return(d, "audit_or_broker_unavailable")
    BY <1>1, <1>3, <1>4, <1>b, <1>c, <2>1, <2>2, <2>4, OwnerStops
  <2> QED BY <1>5, <2>3, <2>4 DEF AppendVerified, AppendThen
<1>6. CASE AppendConsumed(d)
  <2>1. UNCHANGED <<recovery, ran>> /\ pc[d] = "append_consumed" /\ AppendAudit(d, "approval_consumed")
    BY <1>6 DEF AppendConsumed, AppendThen
  <2>2. RequestAt(r)'
    BY <1>3, <1>4, <1>c, <2>1 DEF RequestAt, Trail
  <2>3. CASE Goto(d, "mark_uncertain")
    <3>1. OwnerAt(d)'
      BY <1>2, <1>3, <1>4, <1>a, <1>c, <2>1, <2>3 DEF OwnerAt
    <3> QED BY <1>1, <1>3, <1>4, <1>a, <1>c, <2>1, <2>2, <2>3, <3>1, OwnerStep DEF Owning
  <2>4. CASE Return(d, "audit_or_broker_unavailable")
    BY <1>1, <1>3, <1>4, <1>b, <1>c, <2>1, <2>2, <2>4, OwnerStops
  <2> QED BY <1>6, <2>3, <2>4 DEF AppendConsumed, AppendThen
<1>7. CASE MarkUncertain(d)
  <2>1. /\ UNCHANGED <<audit, ran>> /\ pc[d] = "mark_uncertain"
        /\ SetRecovery(d, "effect_uncertain") /\ Goto(d, "execute")
    BY <1>7 DEF MarkUncertain
  <2>2. RequestAt(r)'
    BY <1>2, <1>3, <1>4, <1>d, <2>1 DEF RequestAt, OwnerAt
  <2>3. OwnerAt(d)'
    BY <1>2, <1>3, <1>4, <1>a, <1>d, <2>1 DEF OwnerAt, RequestAt
  <2> QED BY <1>1, <1>3, <1>4, <1>a, <1>d, <1>e, <2>1, <2>2, <2>3, OwnerStep DEF Owning
<1>8. CASE Execute(d)
  <2>1. UNCHANGED <<audit, recovery>> /\ pc[d] = "execute"
    BY <1>8 DEF Execute
  <2>2. /\ \A q \in Request \ {r} : ran'[q] = ran[q]
        /\ \/ ran'[r] = 1 /\ (Goto(d, "mark_applied") \/ Goto(d, "append_worker_failed"))
           \/ ran'[r] = 0 /\ Goto(d, "append_worker_failed")
    BY <1>2, <1>3, <1>8 DEF Execute, OwnerAt, TypeOK
  <2>3. RequestAt(r)'
    BY <1>2, <1>3, <1>4, <2>1, <2>2 DEF RequestAt, OwnerAt, Trail
  <2>4. OwnerAt(d)'
    BY <1>2, <1>3, <1>4, <1>a, <2>1, <2>2 DEF OwnerAt
  <2> QED BY <1>1, <1>3, <1>4, <1>a, <1>e, <2>1, <2>2, <2>3, <2>4, OwnerStep DEF Owning
<1>9. CASE AppendWorkerFailed(d) \/ AppendOutputLimit(d)
  <2>1. PICK outcome \in {"worker_failed", "output_limit_exceeded"} : AppendAudit(d, outcome)
    BY <1>9 DEF AppendWorkerFailed, AppendOutputLimit, AppendLast
  <2>2. UNCHANGED <<recovery, ran>> /\ \E answer \in Status : Return(d, answer)
    BY <1>9 DEF AppendWorkerFailed, AppendOutputLimit, AppendLast, Status
  <2>3. RequestAt(r)'
    BY <1>3, <1>4, <1>c, <2>1, <2>2 DEF RequestAt, Trail
  <2> QED BY <1>1, <1>3, <1>4, <1>b, <1>c, <2>1, <2>2, <2>3, OwnerStops
<1>10. CASE MarkApplied(d)
  <2>1. /\ UNCHANGED <<audit, ran>> /\ pc[d] = "mark_applied"
        /\ SetRecovery(d, "effect_applied") /\ Goto(d, "check_output")
    BY <1>10 DEF MarkApplied
  <2>2. RequestAt(r)'
    BY <1>2, <1>3, <1>4, <1>d, <2>1 DEF RequestAt, OwnerAt
  <2>3. OwnerAt(d)'
    BY <1>2, <1>3, <1>4, <1>a, <1>d, <2>1 DEF OwnerAt
  <2> QED BY <1>1, <1>3, <1>4, <1>a, <1>d, <1>e, <2>1, <2>2, <2>3, OwnerStep DEF Owning
<1>11. CASE CheckOutput(d)
  <2>1. /\ UNCHANGED <<audit, recovery, ran>> /\ pc[d] = "check_output"
        /\ Goto(d, "append_output_limit") \/ Goto(d, "append_executed")
    BY <1>11 DEF CheckOutput
  <2>2. RequestAt(r)'
    BY <1>3, <1>4, <2>1 DEF RequestAt
  <2>3. OwnerAt(d)'
    BY <1>2, <1>3, <1>4, <1>a, <2>1 DEF OwnerAt
  <2> QED BY <1>1, <1>3, <1>4, <1>a, <1>e, <2>1, <2>2, <2>3, OwnerStep DEF Owning
<1>12. CASE AppendExecuted(d)
  <2>1. /\ UNCHANGED <<recovery, ran>> /\ pc[d] = "append_executed"
        /\ \/ AppendAudit(d, "executed") /\ Goto(d, "mark_completed")
           \/ AppendAudit(d, "executed") /\ Goto(d, "mark_post_uncertain")
           \/ UNCHANGED audit /\ Goto(d, "mark_post_uncertain")
    BY <1>12 DEF AppendExecuted
  <2>2. AuditGrows /\ \A q \in Request \ {r} : audit'[q] = audit[q]
    BY <1>c, <1>e, <2>1
  <2>3. RequestAt(r)'
    BY <1>3, <1>4, <1>c, <2>1 DEF RequestAt, Trail
  <2>4. OwnerAt(d)'
    BY <1>2, <1>3, <1>4, <1>a, <1>c, <2>1 DEF OwnerAt
  <2> QED BY <1>1, <1>3, <1>4, <1>a, <2>1, <2>2, <2>3, <2>4, OwnerStep DEF Owning
<1>13. CASE MarkCompleted(d) \/ MarkPostUncertain(d)
  <2>1. PICK s \in {"completed", "post_effect_uncertain"} :
            SetRecovery(d, s) /\ (s = "completed" => pc[d] = "mark_completed")
    BY <1>13 DEF MarkCompleted, MarkPostUncertain
  <2>2. /\ UNCHANGED <<audit, ran>> /\ pc[d] \in {"mark_completed", "mark_post_uncertain"}
        /\ \E answer \in Status : Return(d, answer)
    BY <1>13 DEF MarkCompleted, MarkPostUncertain, Status
  <2>3. RequestAt(r)'
    BY <1>2, <1>3, <1>4, <1>d, <2>1, <2>2 DEF RequestAt, OwnerAt
  <2> QED BY <1>1, <1>3, <1>4, <1>b, <1>d, <1>e, <2>1, <2>2, <2>3, OwnerStops
<1> QED BY <1>5, <1>6, <1>7, <1>8, <1>9, <1>10, <1>11, <1>12, <1>13

\* Opening the ledger claims what older ledgers only have on record, which is no
\* more than the legacy requests and what is claimed already.
LEMMA OpenStep ==
    ASSUME ConstantsAssumption, Inductive, TypeOK', NEW d \in Dispatcher, NEW p \in Policy,
           Open(d, p)
    PROVE  /\ Inductive'
           /\ claimed' \cup Legacy = claimed \cup Legacy
           /\ UNCHANGED <<recovery, audit, ran>>
<1>1. TypeOK /\ UNCHANGED <<recovery, audit, ran>>
  BY DEF Inductive, Open
<1>2. OthersWait(d) /\ pc'[d] = "idle"
  BY <1>1, Returns DEF Open
<1>3. claimed \cup Legacy \subseteq claimed' /\ claimed' \subseteq claimed \cup Legacy
  <2>1. \A r \in Legacy : "approval_consumed" \in audit[r]
    BY ConstantsAssumption DEF Inductive, RequestAt, Trail
  <2>2. \A r \in Request : "approval_consumed" \in audit[r] => r \in claimed \cup Legacy
    BY DEF Inductive, RequestAt
  <2> QED BY <2>1, <2>2, ConstantsAssumption DEF Open
<1>4. \A e \in Dispatcher : pc'[e] # "down" => Legacy \subseteq claimed'
  BY <1>3
<1>5. \A e \in Dispatcher : pc'[e] \in Owning \cup {"claim"} =>
          e # d /\ pc'[e] = pc[e] /\ job'[e] = job[e]
  BY <1>2 DEF OthersWait, Owning
<1>6. \A e \in Dispatcher : pc'[e] = "claim" => "approval" \in audit'[job'[e].req]
  BY <1>1, <1>5 DEF Inductive
<1>7. ASSUME NEW e \in Dispatcher, pc'[e] \in Owning
      PROVE  OwnerAt(e)'
  <2>1. OwnerAt(e) /\ pc'[e] = pc[e] /\ job'[e] = job[e]
    BY <1>5, <1>7 DEF Inductive
  <2> QED BY <1>1, <1>3, <2>1 DEF OwnerAt
<1>8. OneOwner'
  BY <1>5 DEF Inductive, OneOwner
<1>9. ASSUME NEW r \in Request
      PROVE  RequestAt(r)'
  <2>1. RequestAt(r)
    BY DEF Inductive
  <2> QED BY <1>1, <1>3, <2>1 DEF RequestAt
<1> QED BY <1>1, <1>3, <1>4, <1>6, <1>7, <1>8, <1>9 DEF Inductive

\* A dispatcher dies, panics or is refused by the ledger: whatever it owned is kept
\* for nobody, in the state the ledger has.
LEMMA FailureStep ==
    ASSUME Inductive, TypeOK', NEW d \in Dispatcher,
           Crash(d) \/ LedgerFails(d) \/ Panic(d)
    PROVE  Inductive' /\ UNCHANGED <<claimed, recovery, audit, ran>>
<1>1. TypeOK /\ UNCHANGED <<claimed, recovery, audit, ran>>
  BY DEF Inductive, Crash, LedgerFails, Panic, ledger
<1>2. OthersWait(d) /\ pc'[d] \in {"down", "idle"} /\ pc[d] # "down"
  <2>1. CASE Crash(d)
    BY <1>1, <2>1 DEF TypeOK, Crash, OthersWait
  <2>2. CASE LedgerFails(d) \/ Panic(d)
    BY <1>1, <2>2, Returns DEF LedgerFails, Panic, LedgerCall, Busy
  <2> QED BY <2>1, <2>2
<1>3. AuditGrows
  BY <1>1 DEF AuditGrows
<1> QED BY <1>1, <1>2, <1>3, Quiet DEF Owning

\* Time passes, or the registry changes.
LEMMA OutsideStep ==
    ASSUME Inductive, TypeOK', UNCHANGED <<claimed, recovery, audit, ran, pc, job>>
    PROVE  Inductive'
BY DEF Inductive, OwnerAt, OneOwner, RequestAt

\* The steps that concern neither the tables nor the records.
LEMMA OutsideActions ==
    ASSUME \/ Tick
           \/ \E d \in Dispatcher, a \in Approver, e \in Enrolment : SetApprover(d, a, e)
           \/ \E d \in Dispatcher, a \in Approver : RevokeApprover(d, a)
           \/ UNCHANGED vars
    PROVE  UNCHANGED <<claimed, recovery, audit, ran, pc, job>>
BY DEF Tick, SetApprover, RevokeApprover, vars, ledger, local

\* The disjuncts of Next, as the two inductions below go through them.
LEMMA Steps ==
    ASSUME [Next]_vars
    PROVE  \/ Tick \/ UNCHANGED vars
           \/ \E d \in Dispatcher, p \in Policy : Open(d, p)
           \/ \E d \in Dispatcher, a \in Approver, e \in Enrolment : SetApprover(d, a, e)
           \/ \E d \in Dispatcher, a \in Approver : RevokeApprover(d, a)
           \/ \E d \in Dispatcher : Decide(d)
           \/ \E d \in Dispatcher : Approved(d)
           \/ \E d \in Dispatcher : Crash(d) \/ LedgerFails(d) \/ Panic(d)
BY DEF Next, Operator, AddApprover, RotateApprover

LEMMA InductiveStep ==
    ASSUME ConstantsAssumption, Inductive, [Next]_vars
    PROVE  Inductive'
<1>1. TypeOK'
  BY TypeStep DEF Inductive
<1>2. CASE \E d \in Dispatcher, p \in Policy : Open(d, p)
  BY <1>1, <1>2, OpenStep
<1>3. CASE \E d \in Dispatcher : Decide(d)
  BY <1>1, <1>3, DecideStep
<1>4. CASE \E d \in Dispatcher : Approved(d)
  <2>1. PICK d \in Dispatcher : Approved(d)
    BY <1>4
  <2> QED BY <1>1, <2>1, ConsumeStep, OwningStep DEF Approved
<1>5. CASE \E d \in Dispatcher : Crash(d) \/ LedgerFails(d) \/ Panic(d)
  BY <1>1, <1>5, FailureStep
<1>6. CASE UNCHANGED <<claimed, recovery, audit, ran, pc, job>>
  BY <1>1, <1>6, OutsideStep
<1> QED BY <1>2, <1>3, <1>4, <1>5, <1>6, Steps, OutsideActions

\* The inductive invariant holds in every reachable state.
THEOREM InductiveInvariant ==
    ASSUME ConstantsAssumption
    PROVE  Spec => []Inductive
<1>1. ASSUME Init
      PROVE  Inductive
  <2>1. TypeOK
    BY <1>1, ConstantsAssumption
       DEF Init, TypeOK, RecoveryState, Outcome, Step, Status, Time, Busy
  <2>2. \A d \in Dispatcher : pc[d] = "down"
    BY <1>1 DEF Init
  <2>3. \A r \in Request : RequestAt(r)
    BY <1>1 DEF Init, RequestAt, Trail
  <2> QED BY <2>1, <2>2, <2>3 DEF Inductive, OneOwner, Owning
<1> QED BY <1>1, InductiveStep, PTL DEF Spec

\* An approved effect happens at most once, whatever the number of dispatchers,
\* requests, approvals, crashes and restarts.
THEOREM AtMostOnce ==
    ASSUME ConstantsAssumption
    PROVE  Spec => []EffectAtMostOnce
<1>1. Inductive => EffectAtMostOnce
  BY DEF Inductive, RequestAt, EffectAtMostOnce
<1> QED BY <1>1, InductiveInvariant, PTL

\* The recovery state on disk never contradicts what happened.
THEOREM RecoveryIsTruthful ==
    ASSUME ConstantsAssumption
    PROVE  Spec => []RecoveryTellsTheTruth
<1>1. Inductive => RecoveryTellsTheTruth
  BY DEF Inductive, RequestAt, RecoveryTellsTheTruth
<1> QED BY <1>1, InductiveInvariant, PTL

\* An effect without its trail of records does not occur.
THEOREM TrailPrecedesEffect ==
    ASSUME ConstantsAssumption
    PROVE  Spec => []EffectHasTrail
<1>1. Inductive => EffectHasTrail
  BY DEF Inductive, RequestAt, EffectHasTrail, Trail
<1> QED BY <1>1, InductiveInvariant, PTL

-----------------------------------------------------------------------------
(* ApprovedDispatch implements OneShotApproval.                            *)

\* A step of the approved path is the abstract step of its name, or none.
LEMMA ApprovedImplements ==
    ASSUME ConstantsAssumption, Inductive, NEW d \in Dispatcher, Approved(d)
    PROVE  [OneShot!Next]_(OneShot!vars)
<1> USE DEF ledger
<1>0. TypeOK
  BY DEF Inductive
<1>1. CASE UNCHANGED <<claimed, recovery, ran>>
  BY <1>1 DEF OneShot!vars
<1>2. CASE Claim(d) /\ job[d].req \notin claimed
  <2>1. PICK r \in Request : job[d].req = r
    BY <1>0, <1>2 DEF TypeOK, Busy, Claim, Job
  <2>2. r \notin Legacy
    <3>1. pc[d] # "down"
      BY <1>2 DEF Claim
    <3> QED BY <1>2, <2>1, <3>1 DEF Inductive
  <2>3. OneShot!Claim(r)
    BY <1>2, <2>1, <2>2 DEF Claim, OneShot!Claim
  <2> QED BY <2>3 DEF OneShot!Next
<1>3. CASE MarkUncertain(d) \/ Execute(d) \/ MarkApplied(d) \/ MarkCompleted(d)
            \/ MarkPostUncertain(d)
  <2>1. pc[d] \in Owning /\ OwnerAt(d)
    BY <1>3 DEF Inductive, Owning, MarkUncertain, Execute, MarkApplied, MarkCompleted,
       MarkPostUncertain
  <2>2. PICK r \in Request : job[d].req = r /\ RequestAt(r) /\ r \in claimed \ Legacy
    BY <2>1, OwnerFacts DEF OwnerAt
  <2>3. CASE MarkUncertain(d)
    <3>1. OneShot!Announce(r)
      BY <2>1, <2>2, <2>3 DEF MarkUncertain, SetRecovery, OwnerAt, OneShot!Announce
    <3> QED BY <3>1 DEF OneShot!Next
  <2>4. CASE Execute(d)
    <3>1. recovery[r] = "effect_uncertain" /\ ran[r] = 0 /\ UNCHANGED <<claimed, recovery>>
      BY <2>1, <2>2, <2>4 DEF Execute, OwnerAt
    <3>2. ran' = ran \/ ran' = [ran EXCEPT ![r] = 1]
      BY <1>0, <2>2, <2>4, <3>1 DEF Execute, TypeOK
    <3>3. OneShot!Apply(r) \/ UNCHANGED OneShot!vars
      BY <3>1, <3>2 DEF OneShot!Apply, OneShot!vars
    <3> QED BY <3>3 DEF OneShot!Next
  <2>5. CASE MarkApplied(d)
    <3>1. OneShot!Record(r)
      BY <2>1, <2>2, <2>5 DEF MarkApplied, SetRecovery, OwnerAt, OneShot!Record
    <3> QED BY <3>1 DEF OneShot!Next
  <2>6. CASE MarkCompleted(d) \/ MarkPostUncertain(d)
    <3>1. PICK s \in {"completed", "post_effect_uncertain"} : SetRecovery(d, s)
      BY <2>6 DEF MarkCompleted, MarkPostUncertain
    <3>2. s \in OneShot!RecoveryState
      BY DEF OneShot!RecoveryState
    <3>3. OneShot!Settle(r, s)
      BY <2>1, <2>2, <2>6, <3>1
         DEF MarkCompleted, MarkPostUncertain, SetRecovery, OwnerAt, OneShot!Settle
    <3> QED BY <3>2, <3>3 DEF OneShot!Next
  <2> QED BY <1>3, <2>3, <2>4, <2>5, <2>6
<1>4. CASE \/ \E s \in SignedApproval : AcceptApproval(d, s) \/ RejectApproval(d, s)
           \/ Claim(d) /\ job[d].req \in claimed
           \/ AppendVerified(d) \/ AppendConsumed(d) \/ AppendWorkerFailed(d)
           \/ CheckOutput(d) \/ AppendOutputLimit(d) \/ AppendExecuted(d)
  <2>1. UNCHANGED <<claimed, recovery, ran>>
    BY <1>4 DEF AcceptApproval, RejectApproval, Claim, AppendVerified, AppendConsumed,
       AppendWorkerFailed, CheckOutput, AppendOutputLimit, AppendExecuted
  <2> QED BY <1>1, <2>1
<1>5. Claim(d) => \/ Claim(d) /\ job[d].req \in claimed
                  \/ Claim(d) /\ job[d].req \notin claimed
  OBVIOUS
<1> QED BY <1>2, <1>3, <1>4, <1>5 DEF Approved

\* A decision touches neither table nor effect.
LEMMA DecideImplements ==
    ASSUME NEW d \in Dispatcher, Decide(d)
    PROVE  UNCHANGED OneShot!vars
BY DEF Decide, Receive, Authorize, AppendDecision, Deny, PrepareEdit, ChooseRunByPolicy,
       ChooseNotRequired, AppendNotRequired, ChooseChallenge, AppendChallenge, RunByPolicy,
       AppendExecutedByPolicy, ledger, OneShot!vars

\* The device keeps the promise of the durable tables: every behaviour of the
\* dispatchers is one of OneShotApproval, for every value of the constants.
THEOREM KeepsOneShot ==
    ASSUME ConstantsAssumption
    PROVE  Spec => OneShotSpec
<1>1. Init => OneShot!Init
  BY DEF Init, OneShot!Init
<1>2. ASSUME Inductive, Inductive', [Next]_vars
      PROVE  [OneShot!Next]_(OneShot!vars)
  <2>1. TypeOK'
    BY <1>2 DEF Inductive
  <2>2. CASE \E d \in Dispatcher, p \in Policy : Open(d, p)
    BY <1>2, <2>1, <2>2, ConstantsAssumption, OpenStep DEF OneShot!vars
  <2>3. CASE \E d \in Dispatcher : Decide(d)
    BY <2>3, DecideImplements
  <2>4. CASE \E d \in Dispatcher : Approved(d)
    BY <1>2, <2>4, ConstantsAssumption, ApprovedImplements
  <2>5. CASE \E d \in Dispatcher : Crash(d) \/ LedgerFails(d) \/ Panic(d)
    BY <1>2, <2>1, <2>5, FailureStep DEF OneShot!vars
  <2>6. CASE UNCHANGED <<claimed, recovery, audit, ran, pc, job>>
    BY <2>6 DEF OneShot!vars
  <2> QED BY <1>2, <2>2, <2>3, <2>4, <2>5, <2>6, Steps, OutsideActions
<1> QED BY <1>1, <1>2, InductiveInvariant, ConstantsAssumption, PTL DEF Spec, OneShotSpec, OneShot!Spec
-----------------------------------------------------------------------------
(* An approval is spent by those who verified it.                          *)

\* Whoever is about to claim holds an approval that its own registry and policy
\* accept: neither changes under a job.
Scrutinized ==
    \A d \in Dispatcher : pc[d] = "claim" =>
        Verified(d, job[d].req, job[d].approval, job[d].now)

\* A dispatcher is about to claim because it was, or because it has just verified.
LEMMA ComesToClaim ==
    ASSUME TypeOK, [Next]_vars, NEW d \in Dispatcher, pc'[d] = "claim"
    PROVE  \/ /\ pc[d] = "claim" /\ job'[d] = job[d]
              /\ policy'[d] = policy[d] /\ registry'[d] = registry[d]
           \/ \E s \in SignedApproval : AcceptApproval(d, s)
<1> USE DEF ledger, local
<1>1. ASSUME NEW e \in Dispatcher, Decide(e)
      PROVE  UNCHANGED <<policy, registry>> /\ OthersWait(e) /\ pc'[e] # "claim"
  <2>1. UNCHANGED <<policy, registry>>
    BY <1>1 DEF Decide, Receive, Authorize, AppendDecision, Deny, PrepareEdit,
       ChooseRunByPolicy, ChooseNotRequired, AppendNotRequired, ChooseChallenge,
       AppendChallenge, RunByPolicy, AppendExecutedByPolicy
  <2>2. \/ \E answer \in Status : Return(e, answer)
        \/ \E step \in Step \ {"down", "idle", "claim"} : \E j : Continue(e, step, j)
    BY <1>1 DEF Decide, Receive, Authorize, AppendDecision, Deny, PrepareEdit,
       ChooseRunByPolicy, ChooseNotRequired, AppendNotRequired, ChooseChallenge,
       AppendChallenge, RunByPolicy, AppendExecutedByPolicy, AppendThen, AppendLast, Goto,
       Status, Step
  <2> QED BY <2>1, <2>2, Continues, Returns
<1>2. ASSUME NEW e \in Dispatcher, Approved(e), ~\E s \in SignedApproval : AcceptApproval(e, s)
      PROVE  UNCHANGED <<policy, registry>> /\ OthersWait(e) /\ pc'[e] # "claim"
  <2>1. UNCHANGED <<policy, registry>>
    BY <1>2 DEF Approved, RejectApproval, Claim, AppendVerified, AppendConsumed, MarkUncertain,
       Execute, AppendWorkerFailed, MarkApplied, CheckOutput, AppendOutputLimit,
       AppendExecuted, MarkCompleted, MarkPostUncertain
  <2>2. \/ \E answer \in Status : Return(e, answer)
        \/ \E step \in Step \ {"down", "idle", "claim"} : \E j : Continue(e, step, j)
    BY <1>2 DEF Approved, RejectApproval, Claim, AppendVerified, AppendConsumed, MarkUncertain,
       Execute, AppendWorkerFailed, MarkApplied, CheckOutput, AppendOutputLimit,
       AppendExecuted, MarkCompleted, MarkPostUncertain, AppendThen, AppendLast, Goto,
       Status, Step
  <2> QED BY <2>1, <2>2, Continues, Returns
<1>3. ASSUME NEW e \in Dispatcher, NEW s \in SignedApproval, AcceptApproval(e, s), e # d
      PROVE  pc'[d] = pc[d] /\ job'[d] = job[d] /\ UNCHANGED <<policy, registry>>
  BY <1>3, Continues DEF AcceptApproval, OthersWait
<1>4. ASSUME NEW e \in Dispatcher,
             Crash(e) \/ LedgerFails(e) \/ Panic(e) \/ \E p \in Policy : Open(e, p)
      PROVE  /\ OthersWait(e) /\ pc'[e] # "claim"
             /\ (policy'[d] = policy[d] /\ registry'[d] = registry[d]) \/ d = e
  <2>1. OthersWait(e) /\ pc'[e] \in {"down", "idle"}
    <3>1. CASE Crash(e)
      BY <3>1 DEF TypeOK, Crash, OthersWait
    <3> QED BY <1>4, <3>1, Returns DEF LedgerFails, Panic, Open
  <2>2. (policy'[d] = policy[d] /\ registry'[d] = registry[d]) \/ d = e
    BY <1>4 DEF TypeOK, Crash, LedgerFails, Panic, Open
  <2> QED BY <2>1, <2>2
<1>5. ASSUME NEW e \in Dispatcher,
             \/ \E a \in Approver, x \in Enrolment : SetApprover(e, a, x)
             \/ \E a \in Approver : RevokeApprover(e, a)
      PROVE  /\ pc'[d] = pc[d] /\ job'[d] = job[d] /\ policy'[d] = policy[d]
             /\ pc[d] = "claim" => registry'[d] = registry[d]
  BY <1>5 DEF TypeOK, SetApprover, RevokeApprover, Idle
<1>6. CASE Tick \/ UNCHANGED vars
  BY <1>6 DEF Tick, vars
<1> QED BY <1>1, <1>2, <1>3, <1>4, <1>5, <1>6, Steps DEF OthersWait

\* Nobody claims on behalf of a signature that its registry would not accept now.
LEMMA ScrutinyStep ==
    ASSUME TypeOK, Scrutinized, [Next]_vars
    PROVE  Scrutinized'
<1> SUFFICES ASSUME NEW d \in Dispatcher, pc'[d] = "claim"
             PROVE  Verified(d, job[d].req, job[d].approval, job[d].now)'
  BY DEF Scrutinized
<1>1. CASE /\ pc[d] = "claim" /\ job'[d] = job[d]
           /\ policy'[d] = policy[d] /\ registry'[d] = registry[d]
  BY <1>1 DEF Scrutinized, Verified, Entitled
<1>2. ASSUME NEW s \in SignedApproval, AcceptApproval(d, s)
      PROVE  Verified(d, job[d].req, job[d].approval, job[d].now)'
  <2>1. job[d] \in Job
    BY <1>2 DEF TypeOK, AcceptApproval, AtCommit, Busy
  <2>2. job'[d] = [job[d] EXCEPT !.approval = s] /\ UNCHANGED <<policy, registry>>
    BY <1>2, Continues DEF AcceptApproval, local
  <2>3. job'[d].req = job[d].req /\ job'[d].approval = s /\ job'[d].now = job[d].now
    BY <2>1, <2>2 DEF Job
  <2> QED BY <1>2, <2>2, <2>3 DEF AcceptApproval, Verified, Entitled
<1> QED BY <1>1, <1>2, ComesToClaim

\* A claim that is new, and no older ledger's, is made by a step of Claim.
LEMMA NewClaims ==
    ASSUME ConstantsAssumption, Inductive, [Next]_vars,
           NEW r \in (claimed' \ claimed) \ Legacy
    PROVE  \E d \in Dispatcher : pc[d] = "claim" /\ job[d].req = r
<1> USE DEF ledger, local
<1>1. TypeOK'
  BY TypeStep DEF Inductive
<1>2. CASE \E d \in Dispatcher, p \in Policy : Open(d, p)
  BY <1>1, <1>2, OpenStep
<1>3. CASE \E d \in Dispatcher : Decide(d)
  BY <1>3, DecideImplements DEF OneShot!vars
<1>4. CASE \E d \in Dispatcher : Approved(d)
  BY <1>4 DEF Approved, AcceptApproval, RejectApproval, Claim, AppendVerified, AppendConsumed,
     MarkUncertain, Execute, AppendWorkerFailed, MarkApplied, CheckOutput, AppendOutputLimit,
     AppendExecuted, MarkCompleted, MarkPostUncertain
<1>5. CASE \E d \in Dispatcher : Crash(d) \/ LedgerFails(d) \/ Panic(d)
  BY <1>1, <1>5, FailureStep
<1> QED BY <1>2, <1>3, <1>4, <1>5, Steps, OutsideActions

\* An approval is spent only by a dispatcher that holds a signature which its registry and
\* policy accept at that moment, through rotations, revocations, restarts with another
\* policy, replays and crashes, for any number of approvers, keys and dispatchers.
THEOREM ClaimsAreEntitled ==
    ASSUME ConstantsAssumption
    PROVE  Spec => ClaimIsEntitled
<1> DEFINE EntitledStep == \A r \in (claimed' \ claimed) \ Legacy : \E d \in Dispatcher :
        LET s == job[d].approval
            e == registry[d][s.approver] IN
        /\ pc[d] = "claim" /\ job[d].req = r
        /\ Rule[policy[d]][r] \in {"approval", "elevated"}
        /\ s.challenge.req = r
        /\ job[d].now < s.challenge.expires /\ s.challenge.expires <= Expiry[r]
        /\ e # Unknown /\ ~e.revoked /\ e.key = s.key
        /\ Rule[policy[d]][r] = "elevated" => e.level >= 1
        /\ e.org # Org[r] => e.org = NoOrg /\ ~TenantScoped
<1>1. Init => Scrutinized
  BY DEF Init, Scrutinized
<1>2. ASSUME Inductive, Scrutinized, [Next]_vars
      PROVE  Scrutinized' /\ EntitledStep
  <2>1. Scrutinized'
    BY <1>2, ScrutinyStep DEF Inductive
  <2>2. ASSUME NEW r \in (claimed' \ claimed) \ Legacy
        PROVE  \E d \in Dispatcher :
                  /\ pc[d] = "claim" /\ job[d].req = r
                  /\ Verified(d, r, job[d].approval, job[d].now)
    BY <1>2, <2>2, ConstantsAssumption, NewClaims DEF Scrutinized
  <2>3. ASSUME NEW r \in (claimed' \ claimed) \ Legacy, NEW d \in Dispatcher,
               pc[d] = "claim", job[d].req = r,
               Verified(d, r, job[d].approval, job[d].now)
        PROVE  LET s == job[d].approval
                   e == registry[d][s.approver] IN
               /\ Rule[policy[d]][r] \in {"approval", "elevated"}
               /\ s.challenge.req = r
               /\ job[d].now < s.challenge.expires /\ s.challenge.expires <= Expiry[r]
               /\ e # Unknown /\ ~e.revoked /\ e.key = s.key
               /\ Rule[policy[d]][r] = "elevated" => e.level >= 1
               /\ e.org # Org[r] => e.org = NoOrg /\ ~TenantScoped
    BY <2>3 DEF Verified, NeedsSignature, Bound, Entitled, RequiredLevel
  <2>4. EntitledStep
    <3> SUFFICES ASSUME NEW r \in (claimed' \ claimed) \ Legacy
                 PROVE  \E d \in Dispatcher :
                            LET s == job[d].approval
                                e == registry[d][s.approver] IN
                            /\ pc[d] = "claim" /\ job[d].req = r
                            /\ Rule[policy[d]][r] \in {"approval", "elevated"}
                            /\ s.challenge.req = r
                            /\ job[d].now < s.challenge.expires /\ s.challenge.expires <= Expiry[r]
                            /\ e # Unknown /\ ~e.revoked /\ e.key = s.key
                            /\ Rule[policy[d]][r] = "elevated" => e.level >= 1
                            /\ e.org # Org[r] => e.org = NoOrg /\ ~TenantScoped
      OBVIOUS
    <3>1. PICK d \in Dispatcher : /\ pc[d] = "claim" /\ job[d].req = r
                                  /\ Verified(d, r, job[d].approval, job[d].now)
      BY <2>2
    <3>2. LET s == job[d].approval
              e == registry[d][s.approver] IN
          /\ Rule[policy[d]][r] \in {"approval", "elevated"}
          /\ s.challenge.req = r
          /\ job[d].now < s.challenge.expires /\ s.challenge.expires <= Expiry[r]
          /\ e # Unknown /\ ~e.revoked /\ e.key = s.key
          /\ Rule[policy[d]][r] = "elevated" => e.level >= 1
          /\ e.org # Org[r] => e.org = NoOrg /\ ~TenantScoped
      BY <2>3, <3>1
    <3> WITNESS d \in Dispatcher
    <3> QED BY ONLY <3>1, <3>2
  <2> QED BY <2>1, <2>4
<1> QED BY <1>1, <1>2, InductiveInvariant, ConstantsAssumption, PTL DEF Spec, ClaimIsEntitled

-----------------------------------------------------------------------------
(* Sums, by a least counterexample: what holds of a sum over every smaller set of *)
(* places holds of it over the whole.                                             *)

\* Of the finite sets that have a property one is least.
LEMMA Least ==
    ASSUME NEW X, IsFiniteSet(X), NEW B, B \subseteq SUBSET X, B # {}
    PROVE  \E T \in B : IsFiniteSet(T) /\ \A U \in B : U \subseteq T => U = T
<1>1. FiniteSubsetsOf(X) = SUBSET X
  BY FS_FiniteSubsetsOfFinite
<1>2. IsWellFoundedOn(StrictSubsetOrdering(X), SUBSET X)
  BY <1>1, FS_StrictSubsetOrderingWellFounded
<1>3. PICK T \in B : \A U \in B : ~(<<U, T>> \in StrictSubsetOrdering(X))
  BY <1>2, WFMin
<1>4. \A U \in B : U \subseteq T => U = T
  BY <1>3 DEF StrictSubsetOrdering
<1> QED BY <1>4, FS_Subset

\* The partial sums that the definition goes through.
IsSums(f, S, g) == g = [s \in SUBSET S |-> IF s = {} THEN 0
                          ELSE LET x == CHOOSE x \in s : TRUE IN f[x] + g[s \ {x}]]

LEMMA SumIs == ASSUME NEW f, NEW S PROVE SumFunctionOnSet(f, S) = (CHOOSE g : IsSums(f, S, g))[S]
BY DEF SumFunctionOnSet, FoldFunctionOnSet, MapThenFoldSet, IsSums

First(s) == CHOOSE x \in s : TRUE

LEMMA FirstIn == ASSUME NEW s, s # {} PROVE First(s) \in s
BY DEF First

LEMMA SumsUnfold ==
    ASSUME NEW f, NEW S, NEW g, IsSums(f, S, g), NEW s, s \subseteq S
    PROVE  g[s] = IF s = {} THEN 0 ELSE f[First(s)] + g[s \ {First(s)}]
BY DEF IsSums, First

LEMMA SumsAgree ==
    ASSUME NEW f, NEW S, NEW g, IsSums(f, S, g), NEW R, NEW h, IsSums(f, R, h),
           NEW U, IsFiniteSet(U), U \subseteq S, U \subseteq R
    PROVE  g[U] = h[U]
<1> DEFINE B == {s \in SUBSET U : g[s] # h[s]}
<1>1. SUFFICES ASSUME B # {} PROVE FALSE
  OBVIOUS
<1>2. PICK s \in B : \A u \in B : u \subseteq s => u = s
  <2>1. B \subseteq SUBSET U
    OBVIOUS
  <2> HIDE DEF B
  <2> QED BY <1>1, <2>1, Least
<1> DEFINE u == s \ {First(s)}
<1>3. /\ g[s] = IF s = {} THEN 0 ELSE f[First(s)] + g[u]
      /\ h[s] = IF s = {} THEN 0 ELSE f[First(s)] + h[u]
  BY SumsUnfold
<1>4. s # {} => First(s) \in s
  BY FirstIn
<1>5. s # {} => g[u] = h[u]
  BY <1>2, <1>4
<1> QED BY <1>3, <1>5

LEMMA SumsExist ==
    ASSUME NEW f, NEW S, IsFiniteSet(S)
    PROVE  \E g : IsSums(f, S, g)
<1> DEFINE B == {s \in SUBSET S : ~\E g : IsSums(f, s, g)}
<1>1. SUFFICES ASSUME B # {} PROVE FALSE
  OBVIOUS
<1>2. PICK W \in B : IsFiniteSet(W) /\ \A u \in B : u \subseteq W => u = W
  <2>1. B \subseteq SUBSET S
    OBVIOUS
  <2> HIDE DEF B
  <2> QED BY <1>1, <2>1, Least
<1> DEFINE G(s) == CHOOSE g : IsSums(f, s, g)
           h == [s \in SUBSET W |-> IF s = {} THEN 0
                    ELSE f[First(s)] + G(s \ {First(s)})[s \ {First(s)}]]
<1>3. ASSUME NEW s \in SUBSET W, s # W
      PROVE  IsSums(f, s, G(s)) /\ IsFiniteSet(s)
  <2>1. s \notin B /\ s \in SUBSET S
    BY <1>2, <1>3
  <2>2. IsFiniteSet(s)
    BY <1>2, FS_Subset
  <2> QED BY <2>1, <2>2
<1>4. ASSUME NEW s \in SUBSET W, s # {}
      PROVE  h[s \ {First(s)}] = G(s \ {First(s)})[s \ {First(s)}]
  <2> DEFINE u == s \ {First(s)}  v == u \ {First(u)}
  <2> HIDE DEF G
  <2>1. First(s) \in s
    BY <1>4, FirstIn
  <2>2. u \in SUBSET W /\ u # W
    BY <2>1
  <2>3. IsSums(f, u, G(u)) /\ IsFiniteSet(u)
    BY <1>3, <2>2
  <2>4. G(u)[u] = IF u = {} THEN 0 ELSE f[First(u)] + G(u)[v]
    <3>1. \A w : IsSums(f, w, G(w)) =>
              G(w)[w] = IF w = {} THEN 0 ELSE f[First(w)] + G(w)[w \ {First(w)}]
      BY SumsUnfold
    <3> QED BY <2>3, <3>1
  <2>5. h[u] = IF u = {} THEN 0 ELSE f[First(u)] + G(v)[v]
    BY <2>2
  <2>6. u # {} => G(u)[v] = G(v)[v]
    <3>1. SUFFICES ASSUME u # {} PROVE G(u)[v] = G(v)[v]
      OBVIOUS
    <3>2. First(u) \in u
      BY <3>1, FirstIn
    <3>3. v \in SUBSET W /\ v # W /\ v \subseteq u
      BY <2>2, <3>2
    <3>4. IsSums(f, v, G(v)) /\ IsFiniteSet(v)
      BY <1>3, <3>3
    <3> QED BY <2>3, <3>3, <3>4, SumsAgree
  <2> QED BY <2>4, <2>5, <2>6
<1>5. \A s \in SUBSET W : s # {} => h[s] = f[First(s)] + h[s \ {First(s)}]
  BY <1>4
<1>6. h = [s \in SUBSET W |-> IF s = {} THEN 0
                  ELSE LET x == CHOOSE x \in s : TRUE IN f[x] + h[s \ {x}]]
  <2> DEFINE k == [s \in SUBSET W |-> IF s = {} THEN 0
                      ELSE LET x == CHOOSE x \in s : TRUE IN f[x] + h[s \ {x}]]
  <2>1. \A s \in SUBSET W : h[s] = k[s]
    <3> HIDE DEF h
    <3>1. \A s \in SUBSET W : k[s] = IF s = {} THEN 0 ELSE f[First(s)] + h[s \ {First(s)}]
      BY DEF First
    <3>2. {} \in SUBSET W => h[{}] = 0
      BY DEF h
    <3> QED BY <1>5, <3>1, <3>2
  <2>2. DOMAIN h = SUBSET W /\ DOMAIN k = SUBSET W
    OBVIOUS
  <2> HIDE DEF h
  <2>3. k = h
    BY <2>1, <2>2 DEF h
  <2> QED BY <2>3
<1> HIDE DEF h
<1>7. IsSums(f, W, h)
  BY <1>6 DEF IsSums
<1> QED BY <1>2, <1>7

\* What is added up may be taken apart.
LEMMA SumUnfolds ==
    ASSUME NEW f, NEW S, IsFiniteSet(S)
    PROVE  SumFunctionOnSet(f, S) =
               IF S = {} THEN 0 ELSE f[First(S)] + SumFunctionOnSet(f, S \ {First(S)})
<1> DEFINE G(s) == CHOOSE g : IsSums(f, s, g)  u == S \ {First(S)}
<1>1. IsFiniteSet(u)
  BY FS_Subset
<1>2. IsSums(f, S, G(S)) /\ IsSums(f, u, G(u))
  BY <1>1, SumsExist
<1>3. G(S)[S] = SumFunctionOnSet(f, S) /\ G(u)[u] = SumFunctionOnSet(f, u)
  BY SumIs
<1> HIDE DEF G
<1>4. G(S)[S] = IF S = {} THEN 0 ELSE f[First(S)] + G(S)[u]
  BY <1>2, SumsUnfold
<1>5. G(S)[u] = G(u)[u]
  BY <1>1, <1>2, SumsAgree
<1> QED BY <1>3, <1>4, <1>5

LEMMA SumOfNone == ASSUME NEW f PROVE SumFunctionOnSet(f, {}) = 0
BY FS_EmptySet, SumUnfolds

\* ... at any of its places,
LEMMA SumTakes ==
    ASSUME NEW f, NEW S, IsFiniteSet(S), \A x \in S : f[x] \in Nat
    PROVE  /\ SumFunctionOnSet(f, S) \in Nat
           /\ \A x \in S : SumFunctionOnSet(f, S) = f[x] + SumFunctionOnSet(f, S \ {x})
<1> DEFINE sum(s) == SumFunctionOnSet(f, s)
           P(s) == sum(s) \in Nat /\ \A x \in s : sum(s) = f[x] + sum(s \ {x})
           B == {s \in SUBSET S : ~P(s)}
<1>1. SUFFICES ASSUME B # {} PROVE FALSE
  OBVIOUS
<1>2. PICK s \in B : IsFiniteSet(s) /\ \A u \in B : u \subseteq s => u = s
  <2>1. B \subseteq SUBSET S
    OBVIOUS
  <2> HIDE DEF B
  <2> QED BY <1>1, <2>1, Least
<1>3. ASSUME NEW u \in SUBSET s, u # s PROVE P(u)
  BY <1>2, <1>3
<1>a. ~P(s)
  OBVIOUS
<1> HIDE DEF P
<1>4. sum({}) = 0 /\ sum(s) = IF s = {} THEN 0 ELSE f[First(s)] + sum(s \ {First(s)})
  BY <1>2, SumOfNone, SumUnfolds
<1> HIDE DEF sum
<1>5. s = {} => P(s)
  BY <1>4 DEF P
<1>6. s # {} => P(s)
  <2> SUFFICES ASSUME s # {} PROVE P(s)
    OBVIOUS
  <2> DEFINE y == First(s)
  <2>1. y \in s
    BY FirstIn
  <2> HIDE DEF y
  <2>2. sum(s) = f[y] + sum(s \ {y}) /\ sum(s \ {y}) \in Nat /\ f[y] \in Nat
    <3>1. P(s \ {y})
      BY <1>3, <2>1
    <3> QED BY <1>4, <2>1, <3>1 DEF P, y
  <2>3. ASSUME NEW x \in s, x # y
        PROVE  sum(s) = f[x] + sum(s \ {x})
    <3> DEFINE o == (s \ {y}) \ {x}
    <3>1. P(s \ {y}) /\ P(s \ {x}) /\ P(o)
      BY <1>3, <2>1, <2>3
    <3>2. (s \ {x}) \ {y} = o
      OBVIOUS
    <3> HIDE DEF o
    <3>3. sum(s \ {y}) = f[x] + sum(o) /\ sum(o) \in Nat
      BY <2>3, <3>1 DEF P, o
    <3>4. sum(s \ {x}) = f[y] + sum(o)
      BY <2>1, <2>3, <3>1, <3>2 DEF P
    <3>5. f[x] \in Nat /\ f[y] \in Nat
      BY <2>1
    <3> QED BY <2>2, <3>3, <3>4, <3>5
  <2>4. sum(s) \in Nat
    BY <2>2
  <2> QED BY <2>2, <2>3, <2>4 DEF P
<1> QED BY <1>a, <1>5, <1>6

\* ... it grows with what is added up,
LEMMA SumGrows ==
    ASSUME NEW f, NEW g, NEW S, IsFiniteSet(S),
           \A x \in S : f[x] \in Nat /\ g[x] \in Nat /\ f[x] <= g[x]
    PROVE  SumFunctionOnSet(f, S) <= SumFunctionOnSet(g, S)
<1> DEFINE B == {s \in SUBSET S : ~(SumFunctionOnSet(f, s) <= SumFunctionOnSet(g, s))}
<1>1. SUFFICES ASSUME B # {} PROVE FALSE
  OBVIOUS
<1>2. PICK s \in B : IsFiniteSet(s) /\ \A u \in B : u \subseteq s => u = s
  <2>1. B \subseteq SUBSET S
    OBVIOUS
  <2> HIDE DEF B
  <2> QED BY <1>1, <2>1, Least
<1>3. s \in SUBSET S /\ ~(SumFunctionOnSet(f, s) <= SumFunctionOnSet(g, s))
  OBVIOUS
<1>4. \A u \in SUBSET s : u # s => SumFunctionOnSet(f, u) <= SumFunctionOnSet(g, u)
  BY <1>2
<1> HIDE DEF B
<1>5. s # {}
  <2>1. SumFunctionOnSet(f, {}) = 0 /\ SumFunctionOnSet(g, {}) = 0
    BY SumOfNone
  <2> QED BY <1>3, <2>1
<1>6. PICK x \in s : TRUE
  BY <1>5
<1> DEFINE u == s \ {x}
<1>7. u \in SUBSET s /\ u # s /\ IsFiniteSet(u)
  BY <1>2, FS_Subset
<1>8. /\ SumFunctionOnSet(f, s) = f[x] + SumFunctionOnSet(f, u)
      /\ SumFunctionOnSet(g, s) = g[x] + SumFunctionOnSet(g, u)
  <2>1. (\A y \in s : f[y] \in Nat) /\ (\A y \in s : g[y] \in Nat)
    BY <1>3
  <2>2. \A y \in s : SumFunctionOnSet(f, s) = f[y] + SumFunctionOnSet(f, s \ {y})
    BY <1>2, <2>1, SumTakes
  <2>3. \A y \in s : SumFunctionOnSet(g, s) = g[y] + SumFunctionOnSet(g, s \ {y})
    BY <1>2, <2>1, SumTakes
  <2> QED BY <2>2, <2>3
<1> HIDE DEF u
<1>9. /\ SumFunctionOnSet(f, u) \in Nat /\ SumFunctionOnSet(g, u) \in Nat
      /\ SumFunctionOnSet(f, u) <= SumFunctionOnSet(g, u)
      /\ f[x] \in Nat /\ g[x] \in Nat /\ f[x] <= g[x]
  BY <1>3, <1>4, <1>7, SumTakes
<1> QED BY <1>3, <1>8, <1>9

\* ... and with the places,
LEMMA SumWidens ==
    ASSUME NEW f, NEW S, IsFiniteSet(S), \A x \in S : f[x] \in Nat, NEW R \in SUBSET S
    PROVE  SumFunctionOnSet(f, R) <= SumFunctionOnSet(f, S)
<1> DEFINE B == {s \in SUBSET S : R \subseteq s /\ ~(SumFunctionOnSet(f, R) <= SumFunctionOnSet(f, s))}
<1>1. SUFFICES ASSUME B # {} PROVE FALSE
  OBVIOUS
<1>2. PICK s \in B : IsFiniteSet(s) /\ \A u \in B : u \subseteq s => u = s
  <2>1. B \subseteq SUBSET S
    OBVIOUS
  <2> HIDE DEF B
  <2> QED BY <1>1, <2>1, Least
<1>3. s \in SUBSET S /\ R \subseteq s /\ ~(SumFunctionOnSet(f, R) <= SumFunctionOnSet(f, s))
  OBVIOUS
<1>4. \A u \in SUBSET s : u # s /\ R \subseteq u => SumFunctionOnSet(f, R) <= SumFunctionOnSet(f, u)
  BY <1>2
<1> HIDE DEF B
<1>5. SumFunctionOnSet(f, s) \in Nat /\ \A x \in s : f[x] \in Nat
  BY <1>2, <1>3, SumTakes
<1>6. PICK x \in s : x \notin R
  BY <1>3, <1>5
<1> DEFINE u == s \ {x}
<1>7. u \in SUBSET s /\ u # s /\ R \subseteq u
  BY <1>3, <1>6
<1>8. SumFunctionOnSet(f, s) = f[x] + SumFunctionOnSet(f, u)
  BY <1>2, <1>5, SumTakes
<1>9. IsFiniteSet(u) /\ \A y \in u : f[y] \in Nat
  BY <1>2, <1>5, FS_Subset
<1> HIDE DEF u
<1>10. SumFunctionOnSet(f, u) \in Nat /\ SumFunctionOnSet(f, R) <= SumFunctionOnSet(f, u)
  BY <1>4, <1>7, <1>9, SumTakes
<1>11. IsFiniteSet(R) /\ \A y \in R : f[y] \in Nat
  BY <1>2, <1>3, <1>5, FS_Subset
<1>12. SumFunctionOnSet(f, R) \in Nat
  BY <1>11, SumTakes
<1> QED BY <1>3, <1>5, <1>8, <1>10, <1>12

\* ... and is no more than so much for each place.
LEMMA SumIsBounded ==
    ASSUME NEW f, NEW S, IsFiniteSet(S), NEW m \in Nat, \A x \in S : f[x] \in Nat /\ f[x] <= m
    PROVE  SumFunctionOnSet(f, S) <= Cardinality(S) * m
<1> DEFINE B == {s \in SUBSET S : ~(SumFunctionOnSet(f, s) <= Cardinality(s) * m)}
<1>1. SUFFICES ASSUME B # {} PROVE FALSE
  OBVIOUS
<1>2. PICK s \in B : IsFiniteSet(s) /\ \A u \in B : u \subseteq s => u = s
  <2>1. B \subseteq SUBSET S
    OBVIOUS
  <2> HIDE DEF B
  <2> QED BY <1>1, <2>1, Least
<1>3. s \in SUBSET S /\ ~(SumFunctionOnSet(f, s) <= Cardinality(s) * m)
  OBVIOUS
<1>4. \A u \in SUBSET s : u # s => SumFunctionOnSet(f, u) <= Cardinality(u) * m
  BY <1>2
<1> HIDE DEF B
<1>5. s # {}
  <2>1. SumFunctionOnSet(f, {}) = 0 /\ Cardinality({}) = 0
    BY FS_EmptySet, SumOfNone
  <2> QED BY <1>3, <2>1
<1>6. PICK x \in s : TRUE
  BY <1>5
<1> DEFINE u == s \ {x}  n == Cardinality(u)
<1>7. u \in SUBSET s /\ u # s /\ IsFiniteSet(u) /\ \A y \in u : f[y] \in Nat
  BY <1>2, <1>3, FS_Subset
<1>8. SumFunctionOnSet(f, s) = f[x] + SumFunctionOnSet(f, u)
  BY <1>2, <1>3, SumTakes
<1>9. Cardinality(s) = n + 1 /\ n \in Nat
  <2>1. Cardinality(s) \in Nat /\ n \in Nat
    BY <1>2, <1>7, FS_CardinalityType
  <2>2. n = Cardinality(s) - 1
    BY <1>2, <1>6, FS_RemoveElement
  <2> QED BY <2>1, <2>2
<1>10. SumFunctionOnSet(f, u) <= n * m
  BY <1>4, <1>7
<1> HIDE DEF u, n
<1>11. SumFunctionOnSet(f, u) \in Nat /\ f[x] \in Nat /\ f[x] <= m
  BY <1>3, <1>7, SumTakes
<1>12. (n + 1) * m = n * m + m /\ n * m \in Nat
  BY <1>9
<1> QED BY <1>3, <1>8, <1>9, <1>10, <1>11, <1>12

\* What is added up changes at one place.
LEMMA SumChanges ==
    ASSUME NEW f, NEW g, NEW S, IsFiniteSet(S), \A x \in S : f[x] \in Nat /\ g[x] \in Nat,
           NEW k \in S, \A x \in S \ {k} : f[x] = g[x]
    PROVE  SumFunctionOnSet(g, S) + f[k] = SumFunctionOnSet(f, S) + g[k]
<1> DEFINE u == S \ {k}
<1>1. /\ IsFiniteSet(u)
      /\ \A x \in u : f[x] \in Nat /\ g[x] \in Nat /\ f[x] <= g[x] /\ g[x] <= f[x]
  BY FS_Subset
<1>2. /\ SumFunctionOnSet(f, u) <= SumFunctionOnSet(g, u)
      /\ SumFunctionOnSet(g, u) <= SumFunctionOnSet(f, u)
  <2> HIDE DEF u
  <2> QED BY <1>1, SumGrows
<1>3. /\ SumFunctionOnSet(f, S) = f[k] + SumFunctionOnSet(f, u)
      /\ SumFunctionOnSet(g, S) = g[k] + SumFunctionOnSet(g, u)
  BY SumTakes
<1>4. SumFunctionOnSet(f, u) \in Nat /\ SumFunctionOnSet(g, u) \in Nat
  <2> HIDE DEF u
  <2> QED BY <1>1, SumTakes
<1> QED BY <1>2, <1>3, <1>4

-----------------------------------------------------------------------------
(* The auto-write budget.                                                  *)

\* The decision of a dispatcher that read the budget at an instant of S is still to be
\* put on the ledger, at so much.
Pends(d, S) == /\ pc[d] = "append_decision" /\ job[d].decision = "auto"
               /\ job[d].req \in Write /\ job[d].now \in S
Due(weight, S) == [d \in Dispatcher |-> IF Pends(d, S) THEN weight[job[d].req] ELSE 0]
Pending(weight, S) == SumFunctionOnSet(Due(weight, S), Dispatcher)
Minute(t) == {u \in Time : u <= t /\ u + Window >= t}

\* No minute is overrun by more than a write for each further dispatcher, what is still
\* to be put on the ledger included.
Ceiling(limit, most) == limit + (Cardinality(Dispatcher) - 1) * most
Within(weight, limit, most) ==
    \A t \in Time : Spent(weight, Minute(t)) + Pending(weight, Minute(t)) <= Ceiling(limit, most)

\* A weight of writes that has a limit: the budget keeps both, the number and the bytes.
Counts(weight, limit, most) ==
    /\ weight \in [Request -> Nat] /\ limit \in Nat /\ most \in Nat
    /\ \A r \in Request : weight[r] <= most
    /\ \/ weight = OneEach /\ limit = MaxFiles
       \/ weight = Size /\ limit = MaxBytes

LEMMA SpentIs ==
    ASSUME ConstantsAssumption, BudgetAssumption, TypeOK, NEW weight \in [Request -> Nat],
           NEW S \in SUBSET Time
    PROVE  /\ IsFiniteSet(Request \X S)
           /\ \A x \in Request \X S : charges[x[1]][x[2]] \in Nat
                                      /\ weight[x[1]] * charges[x[1]][x[2]] \in Nat
           /\ Spent(weight, S) \in Nat
<1>1. IsFiniteSet(S)
  <2>1. IsFiniteSet(0 .. MaxTime)
    BY FS_Interval DEF ConstantsAssumption
  <2> QED BY <2>1, FS_Subset DEF Time
<1>2. IsFiniteSet(Request \X S)
  BY <1>1, FS_Product DEF BudgetAssumption
<1>3. ASSUME NEW x \in Request \X S
      PROVE  charges[x[1]][x[2]] \in Nat /\ weight[x[1]] * charges[x[1]][x[2]] \in Nat
  <2>1. charges[x[1]][x[2]] \in Nat /\ weight[x[1]] \in Nat
    BY DEF TypeOK
  <2> QED BY <2>1
<1> DEFINE f == [x \in Request \X S |-> weight[x[1]] * charges[x[1]][x[2]]]
<1>4. \A x \in Request \X S : f[x] \in Nat
  BY <1>3
<1> HIDE DEF f
<1>5. SumFunctionOnSet(f, Request \X S) \in Nat
  BY <1>2, <1>4, SumTakes
<1> QED BY <1>2, <1>3, <1>5 DEF Spent, f

LEMMA SpentWidens ==
    ASSUME ConstantsAssumption, BudgetAssumption, TypeOK, NEW weight \in [Request -> Nat],
           NEW S \in SUBSET Time, NEW R \in SUBSET S
    PROVE  Spent(weight, R) <= Spent(weight, S)
<1> DEFINE f == [x \in Request \X R |-> weight[x[1]] * charges[x[1]][x[2]]]
           g == [x \in Request \X S |-> weight[x[1]] * charges[x[1]][x[2]]]
<1>1. /\ IsFiniteSet(Request \X R) /\ IsFiniteSet(Request \X S)
      /\ \A x \in Request \X S : weight[x[1]] * charges[x[1]][x[2]] \in Nat
      /\ Spent(weight, R) \in Nat /\ Spent(weight, S) \in Nat
  BY SpentIs
<1>2. /\ \A x \in Request \X R : f[x] \in Nat /\ g[x] \in Nat /\ f[x] <= g[x]
      /\ \A x \in Request \X S : g[x] \in Nat
  <2>1. \A x \in Request \X R : x \in Request \X S /\ f[x] = g[x]
    OBVIOUS
  <2>2. \A x \in Request \X S : g[x] \in Nat
    BY <1>1
  <2> HIDE DEF f, g
  <2> QED BY <2>1, <2>2
<1>3. Request \X R \in SUBSET (Request \X S)
  OBVIOUS
<1>4. Spent(weight, R) = SumFunctionOnSet(f, Request \X R)
      /\ Spent(weight, S) = SumFunctionOnSet(g, Request \X S)
  BY DEF Spent
<1> HIDE DEF f, g
<1>5. SumFunctionOnSet(f, Request \X R) <= SumFunctionOnSet(g, Request \X R)
  BY <1>1, <1>2, SumGrows
<1>6. SumFunctionOnSet(g, Request \X R) <= SumFunctionOnSet(g, Request \X S)
  BY <1>1, <1>2, <1>3, SumWidens
<1>7. SumFunctionOnSet(g, Request \X R) \in Nat
  BY <1>1, <1>2, SumTakes
<1> QED BY <1>1, <1>4, <1>5, <1>6, <1>7

\* A decision is put on the ledger at the instant its job read.
LEMMA SpentGrows ==
    ASSUME ConstantsAssumption, BudgetAssumption, TypeOK, TypeOK', NEW weight \in [Request -> Nat],
           NEW S \in SUBSET Time, NEW r \in Request, NEW t \in Time,
           charges' = [charges EXCEPT ![r][t] = @ + 1]
    PROVE  Spent(weight, S)' = Spent(weight, S) + (IF t \in S THEN weight[r] ELSE 0)
<1> DEFINE W == Request \X S  k == <<r, t>>
<1>1. \A q \in Request, u \in Time : charges'[q][u] = IF q = r /\ u = t THEN charges[q][u] + 1 ELSE charges[q][u]
  BY DEF TypeOK
<1>2. /\ IsFiniteSet(W) /\ \A x \in W : charges[x[1]][x[2]] \in Nat
      /\ \A x \in W : weight[x[1]] * charges[x[1]][x[2]] \in Nat
  BY SpentIs
<1>3. \A x \in W : weight[x[1]] * charges'[x[1]][x[2]] \in Nat
  <2>1. \A x \in W : charges'[x[1]][x[2]] \in Nat /\ weight[x[1]] \in Nat
    BY DEF TypeOK
  <2> QED BY <2>1
<1>4. SUFFICES ASSUME NEW f, f = [x \in W |-> weight[x[1]] * charges[x[1]][x[2]]],
                      NEW g, g = [x \in W |-> weight[x[1]] * charges'[x[1]][x[2]]]
               PROVE  SumFunctionOnSet(g, W) = SumFunctionOnSet(f, W) + (IF t \in S THEN weight[r] ELSE 0)
  BY DEF Spent
<1>5. \A x \in W : f[x] \in Nat /\ g[x] \in Nat
  BY <1>2, <1>3, <1>4
<1>6. \A x \in W \ {k} : f[x] = g[x]
  <2> SUFFICES ASSUME NEW x \in W \ {k} PROVE f[x] = g[x]
    OBVIOUS
  <2>1. x[1] \in Request /\ x[2] \in Time /\ ~(x[1] = r /\ x[2] = t)
    OBVIOUS
  <2>2. charges'[x[1]][x[2]] = charges[x[1]][x[2]]
    BY <1>1, <2>1
  <2> QED BY <1>4, <2>2
<1>7. CASE t \in S
  <2>1. k \in W /\ f[k] = weight[r] * charges[r][t] /\ g[k] = weight[r] * charges'[r][t]
    BY <1>4, <1>7
  <2>2. charges'[r][t] = charges[r][t] + 1 /\ charges[r][t] \in Nat /\ weight[r] \in Nat
    BY <1>1 DEF TypeOK
  <2>3. g[k] = f[k] + weight[r]
    BY <2>1, <2>2
  <2> HIDE DEF W, k
  <2>4. SumFunctionOnSet(g, W) + f[k] = SumFunctionOnSet(f, W) + g[k]
    BY <1>2, <1>5, <1>6, <2>1, SumChanges
  <2>5. (\A x \in W : f[x] \in Nat) /\ (\A x \in W : g[x] \in Nat)
    BY <1>5
  <2>6. SumFunctionOnSet(f, W) \in Nat
    BY <1>2, <2>5, SumTakes
  <2>7. SumFunctionOnSet(g, W) \in Nat
    BY <1>2, <2>5, SumTakes
  <2>8. f[k] \in Nat
    BY <1>5, <2>1
  <2>9. \A a, b, p, w \in Nat : b + p = a + (p + w) => b = a + w
    OBVIOUS
  <2>10. SumFunctionOnSet(g, W) = SumFunctionOnSet(f, W) + weight[r]
    BY <2>2, <2>3, <2>4, <2>6, <2>7, <2>8, <2>9
  <2> QED BY <1>7, <2>10
<1>8. CASE t \notin S
  <2>1. k \notin W
    <3>1. k[2] = t /\ \A x \in W : x[2] \in S
      OBVIOUS
    <3> HIDE DEF W, k
    <3> QED BY <1>8, <3>1
  <2> HIDE DEF W, k
  <2>2. \A x \in W : f[x] \in Nat /\ g[x] \in Nat /\ f[x] <= g[x] /\ g[x] <= f[x]
    BY <1>5, <1>6, <2>1
  <2>3. SumFunctionOnSet(f, W) <= SumFunctionOnSet(g, W)
    BY <1>2, <2>2, SumGrows
  <2>4. SumFunctionOnSet(g, W) <= SumFunctionOnSet(f, W)
    BY <1>2, <2>2, SumGrows
  <2>5. SumFunctionOnSet(f, W) \in Nat
    BY <1>2, <2>2, SumTakes
  <2>6. SumFunctionOnSet(g, W) \in Nat
    BY <1>2, <2>2, SumTakes
  <2> QED BY <1>8, <2>3, <2>4, <2>5, <2>6
<1> QED BY <1>7, <1>8

LEMMA DueIs ==
    ASSUME BudgetAssumption, TypeOK, NEW weight \in [Request -> Nat], NEW S, NEW m \in Nat,
           \A r \in Request : weight[r] <= m
    PROVE  /\ \A d \in Dispatcher : Due(weight, S)[d] \in Nat /\ Due(weight, S)[d] <= m
           /\ Pending(weight, S) \in Nat
<1>1. ASSUME NEW d \in Dispatcher
      PROVE  Due(weight, S)[d] \in Nat /\ Due(weight, S)[d] <= m
  <2>1. pc[d] = "append_decision" => job[d].req \in Request
    BY DEF TypeOK, Busy, Job
  <2>2. Due(weight, S)[d] = IF Pends(d, S) THEN weight[job[d].req] ELSE 0
    BY DEF Due
  <2> QED BY <2>1, <2>2 DEF Pends
<1>2. Pending(weight, S) \in Nat
  BY <1>1, SumTakes DEF Pending, BudgetAssumption
<1> QED BY <1>1, <1>2

LEMMA CeilingIs ==
    ASSUME BudgetAssumption, NEW limit \in Nat, NEW most \in Nat, NEW d \in Dispatcher
    PROVE  /\ Cardinality(Dispatcher \ {d}) = Cardinality(Dispatcher) - 1
           /\ (Cardinality(Dispatcher) - 1) * most \in Nat
           /\ Ceiling(limit, most) = limit + (Cardinality(Dispatcher) - 1) * most
           /\ Ceiling(limit, most) \in Nat
<1>1. /\ IsFiniteSet(Dispatcher \ {d})
      /\ Cardinality(Dispatcher \ {d}) = Cardinality(Dispatcher) - 1
  BY FS_RemoveElement DEF BudgetAssumption
<1>2. Cardinality(Dispatcher) - 1 \in Nat
  BY <1>1, FS_CardinalityType
<1>3. (Cardinality(Dispatcher) - 1) * most \in Nat
  <2>1. \A n \in Nat : n * most \in Nat
    OBVIOUS
  <2> QED BY <1>2, <2>1
<1> QED BY <1>1, <1>3 DEF Ceiling

\* What one dispatcher does leaves what the others have to put on the ledger alone.
LEMMA DueChanges ==
    ASSUME BudgetAssumption, TypeOK, TypeOK', NEW weight \in [Request -> Nat], NEW S, NEW m \in Nat,
           \A r \in Request : weight[r] <= m, NEW d \in Dispatcher, OthersWait(d)
    PROVE  /\ Pending(weight, S)' + Due(weight, S)[d] = Pending(weight, S) + Due(weight, S)'[d]
           /\ Pending(weight, S)' \in Nat
<1>1. SUFFICES ASSUME NEW f, f = Due(weight, S), NEW g, g = Due(weight, S)'
               PROVE  /\ SumFunctionOnSet(g, Dispatcher) + f[d] = SumFunctionOnSet(f, Dispatcher) + g[d]
                      /\ SumFunctionOnSet(g, Dispatcher) \in Nat
  BY DEF Pending
<1>2. \A e \in Dispatcher : f[e] \in Nat
  BY <1>1, DueIs
<1>3. ASSUME NEW e \in Dispatcher
      PROVE  g[e] \in Nat
  <2>1. pc'[e] = "append_decision" => job'[e].req \in Request
    BY DEF TypeOK, Busy, Job
  <2>2. g[e] = IF Pends(e, S)' THEN weight[job'[e].req] ELSE 0
    BY <1>1 DEF Due
  <2> QED BY <2>1, <2>2 DEF Pends
<1>4. \A e \in Dispatcher \ {d} : f[e] = g[e]
  BY <1>1 DEF Due, Pends, OthersWait
<1>5. SumFunctionOnSet(g, Dispatcher) + f[d] = SumFunctionOnSet(f, Dispatcher) + g[d]
  BY <1>2, <1>3, <1>4, SumChanges DEF BudgetAssumption
<1>6. SumFunctionOnSet(g, Dispatcher) \in Nat
  BY <1>3, SumTakes DEF BudgetAssumption
<1> QED BY <1>5, <1>6

\* A step that decides nothing and charges nothing.
LEMMA BudgetSpares ==
    ASSUME ConstantsAssumption, BudgetAssumption, TypeOK, TypeOK',
           NEW weight, NEW limit, NEW most, Counts(weight, limit, most), Within(weight, limit, most),
           charges' = charges, NEW d \in Dispatcher, OthersWait(d),
           \A S \in SUBSET Time : Pends(d, S)' => Pends(d, S) /\ job'[d] = job[d]
    PROVE  Within(weight, limit, most)'
<1>1. /\ weight \in [Request -> Nat] /\ limit \in Nat /\ most \in Nat
      /\ \A r \in Request : weight[r] <= most
  BY DEF Counts
<1>2. ASSUME NEW t \in Time
      PROVE  Spent(weight, Minute(t))' + Pending(weight, Minute(t))'
             <= Ceiling(limit, most)
  <2> DEFINE S == Minute(t)
  <2>0. S \in SUBSET Time
    BY DEF Minute
  <2> HIDE DEF S
  <2>1. Spent(weight, S)' = Spent(weight, S) /\ Spent(weight, S) \in Nat
    BY <1>1, <2>0, SpentIs DEF Spent
  <2>2. /\ Pending(weight, S)' + Due(weight, S)[d] = Pending(weight, S) + Due(weight, S)'[d]
        /\ Pending(weight, S)' \in Nat
    BY <1>1, DueChanges
  <2>3. Due(weight, S)[d] \in Nat /\ Pending(weight, S) \in Nat
    BY <1>1, DueIs
  <2>4. Due(weight, S)'[d] = 0 \/ Due(weight, S)'[d] = Due(weight, S)[d]
    <3>1. Due(weight, S)[d] = IF Pends(d, S) THEN weight[job[d].req] ELSE 0
      BY DEF Due
    <3>2. Due(weight, S)'[d] = IF Pends(d, S)' THEN weight[job'[d].req] ELSE 0
      BY DEF Due
    <3> QED BY <2>0, <3>1, <3>2
  <2>6. Pending(weight, S)' <= Pending(weight, S)
    BY <2>2, <2>3, <2>4
  <2>5. Ceiling(limit, most) \in Nat /\ Spent(weight, S) + Pending(weight, S) <= Ceiling(limit, most)
    BY <1>1, CeilingIs DEF Within, S
  <2>7. Spent(weight, S)' + Pending(weight, S)' <= Ceiling(limit, most)
    BY <2>1, <2>2, <2>3, <2>5, <2>6
  <2> QED BY <2>7 DEF S
<1>3. Ceiling(limit, most)' = Ceiling(limit, most)
  BY DEF Ceiling
<1> QED BY <1>2, <1>3 DEF Within

\* The budget is read: there is room for what is decided, but others may have decided too.
LEMMA BudgetDecides ==
    ASSUME ConstantsAssumption, BudgetAssumption, TypeOK, TypeOK',
           NEW weight, NEW limit, NEW most, Counts(weight, limit, most), Within(weight, limit, most),
           NEW d \in Dispatcher, Authorize(d)
    PROVE  Within(weight, limit, most)'
<1> DEFINE r == job[d].req  now == job[d].now
<1>1. /\ weight \in [Request -> Nat] /\ limit \in Nat /\ most \in Nat
      /\ \A q \in Request : weight[q] <= most
  BY DEF Counts
<1>2. r \in Request /\ now \in Time /\ job[d] \in Job /\ pc[d] = "authorize"
  BY DEF Authorize, TypeOK, Busy, Job
<1>3. OthersWait(d) /\ charges' = charges
  BY Continues, Returns DEF Authorize, ledger
<1>4. CASE ~(pc'[d] = "append_decision" /\ job'[d].decision = "auto" /\ r \in Write /\ job'[d].req = r)
  <2>1. pc'[d] = "append_decision" => job'[d].req = r
    BY <1>2, Continues, Returns DEF Authorize, Job
  <2>2. \A S \in SUBSET Time : ~Pends(d, S)'
    BY <1>4, <2>1 DEF Pends
  <2> QED BY <1>3, <2>2, BudgetSpares
<1>5. CASE pc'[d] = "append_decision" /\ job'[d].decision = "auto" /\ r \in Write /\ job'[d].req = r
  <2>1. job'[d].now = now /\ Decision(policy[d], r, now) = "auto"
    BY <1>2, <1>5, Continues, Returns DEF Authorize, Job
  <2>2. ~RateLimited(r, now)
    BY <2>1 DEF Decision
  <2>3. Recent(now) \in SUBSET Time
    BY DEF Recent
  <2>4. Spent(weight, Recent(now)) + weight[r] <= limit
    <3>1. Spent(weight, Recent(now)) \in Nat
      BY <1>1, <2>3, SpentIs
    <3>2. CASE weight = OneEach /\ limit = MaxFiles
      <4>1. ~(Spent(weight, Recent(now)) >= limit) /\ weight[r] = 1
        BY <1>2, <1>5, <2>2, <3>2 DEF RateLimited, AutoWrites, OneEach
      <4> QED BY <1>1, <3>1, <4>1
    <3>3. CASE weight = Size /\ limit = MaxBytes
      <4>1. ~(Spent(weight, Recent(now)) + weight[r] > limit) /\ weight[r] \in Nat
        BY <1>1, <1>2, <1>5, <2>2, <3>3 DEF RateLimited, AutoBytes
      <4> QED BY <1>1, <3>1, <4>1
    <3> QED BY <3>2, <3>3 DEF Counts
  <2>5. ASSUME NEW t \in Time
        PROVE  Spent(weight, Minute(t))' + Pending(weight, Minute(t))' <= Ceiling(limit, most)
    <3> DEFINE S == Minute(t)
    <3>0. S \in SUBSET Time /\ (now \in S => S \subseteq Recent(now))
      <4>1. S \in SUBSET Time
        BY DEF Minute
      <4>2. ASSUME now \in S, NEW u \in S PROVE u \in Recent(now)
        <5>1. /\ u \in Nat /\ t \in Nat /\ now \in Nat /\ Window \in Nat /\ now <= t /\ u + Window >= t
              /\ u \in Time
          BY <1>2, <4>2 DEF Minute, Time, BudgetAssumption
        <5>2. u + Window >= now
          BY <5>1
        <5> QED BY <5>1, <5>2 DEF Recent
      <4> QED BY <4>1, <4>2
    <3> HIDE DEF S
    <3>1. Spent(weight, S)' = Spent(weight, S) /\ Spent(weight, S) \in Nat
      BY <1>1, <1>3, <3>0, SpentIs DEF Spent
    <3>2. /\ Pending(weight, S)' + Due(weight, S)[d] = Pending(weight, S) + Due(weight, S)'[d]
          /\ Pending(weight, S)' \in Nat
      BY <1>1, <1>3, DueChanges
    <3>3. Due(weight, S)[d] = 0
      BY <1>2 DEF Due, Pends
    <3>4. Due(weight, S)'[d] = IF now \in S THEN weight[r] ELSE 0
      BY <1>5, <2>1 DEF Due, Pends
    <3>5. /\ \A e \in Dispatcher : Due(weight, S)[e] \in Nat /\ Due(weight, S)[e] <= most
          /\ Pending(weight, S) \in Nat
      BY <1>1, DueIs
    <3>6. Pending(weight, S) <= (Cardinality(Dispatcher) - 1) * most
      <4> DEFINE f == Due(weight, S)  R == Dispatcher \ {d}
      <4>1. IsFiniteSet(Dispatcher) /\ IsFiniteSet(R)
        BY FS_RemoveElement DEF BudgetAssumption
      <4>2. (\A e \in Dispatcher : f[e] \in Nat) /\ \A e \in R : f[e] \in Nat /\ f[e] <= most
        BY <3>5
      <4>3. Cardinality(R) = Cardinality(Dispatcher) - 1
        BY <1>1, CeilingIs
      <4>4. SumFunctionOnSet(f, Dispatcher) = f[d] + SumFunctionOnSet(f, R)
        BY <4>1, <4>2, SumTakes
      <4>5. SumFunctionOnSet(f, R) <= Cardinality(R) * most
        <5> HIDE DEF f, R
        <5> QED BY <1>1, <4>1, <4>2, SumIsBounded
      <4>6. SumFunctionOnSet(f, R) \in Nat
        <5> HIDE DEF f, R
        <5> QED BY <4>1, <4>2, SumTakes
      <4>7. SumFunctionOnSet(f, Dispatcher) = SumFunctionOnSet(f, R)
        BY <3>3, <4>4, <4>6
      <4> QED BY <4>3, <4>5, <4>7 DEF Pending
    <3>7. /\ (Cardinality(Dispatcher) - 1) * most \in Nat /\ Ceiling(limit, most) \in Nat
          /\ Ceiling(limit, most) = limit + (Cardinality(Dispatcher) - 1) * most
          /\ weight[r] \in Nat
      BY <1>1, <1>2, CeilingIs
    <3>8. CASE now \in S
      <4>1. Spent(weight, S) <= Spent(weight, Recent(now)) /\ Spent(weight, Recent(now)) \in Nat
        BY <1>1, <2>3, <3>0, <3>8, SpentWidens, SpentIs
      <4>2. Pending(weight, S)' = Pending(weight, S) + weight[r]
        BY <3>2, <3>3, <3>4, <3>5, <3>7, <3>8
      <4> HIDE DEF r, now
      <4>3. Spent(weight, S)' + Pending(weight, S)' <= Ceiling(limit, most)
        BY <1>1, <2>4, <3>1, <3>5, <3>6, <3>7, <4>1, <4>2
      <4> QED BY <4>3 DEF S
    <3>9. CASE now \notin S
      <4>1. Spent(weight, S) + Pending(weight, S) <= Ceiling(limit, most)
        BY DEF Within, S
      <4>2. Pending(weight, S)' = Pending(weight, S)
        BY <3>2, <3>3, <3>4, <3>5, <3>9
      <4>3. Spent(weight, S)' + Pending(weight, S)' <= Ceiling(limit, most)
        BY <3>1, <4>1, <4>2
      <4> QED BY <4>3 DEF S
    <3> QED BY <3>8, <3>9
  <2>6. Ceiling(limit, most)' = Ceiling(limit, most)
    BY DEF Ceiling
  <2> QED BY <2>5, <2>6 DEF Within
<1> QED BY <1>4, <1>5

\* The decision goes on the ledger: what was pending is spent.
LEMMA BudgetCharges ==
    ASSUME ConstantsAssumption, BudgetAssumption, TypeOK, TypeOK',
           NEW weight, NEW limit, NEW most, Counts(weight, limit, most), Within(weight, limit, most),
           NEW d \in Dispatcher, AppendDecision(d)
    PROVE  Within(weight, limit, most)'
<1> DEFINE r == job[d].req  now == job[d].now
<1>1. /\ weight \in [Request -> Nat] /\ limit \in Nat /\ most \in Nat
      /\ \A q \in Request : weight[q] <= most
  BY DEF Counts
<1>2. r \in Request /\ now \in Time /\ pc[d] = "append_decision"
  BY DEF AppendDecision, TypeOK, Busy, Job
<1>3. OthersWait(d) /\ pc'[d] # "append_decision"
  BY Continues, Returns DEF AppendDecision, AppendThen, Goto
<1>4. CASE ~(job[d].decision = "auto" /\ r \in Write)
  <2>1. charges' = charges
    BY <1>4 DEF AppendDecision
  <2> QED BY <1>3, <2>1, BudgetSpares DEF Pends
<1>5. CASE job[d].decision = "auto" /\ r \in Write
  <2>1. charges' = [charges EXCEPT ![r][now] = @ + 1]
    BY <1>5 DEF AppendDecision
  <2>2. ASSUME NEW t \in Time
        PROVE  Spent(weight, Minute(t))' + Pending(weight, Minute(t))' <= Ceiling(limit, most)
    <3> DEFINE S == Minute(t)  w == IF now \in S THEN weight[r] ELSE 0
    <3>0. S \in SUBSET Time
      BY DEF Minute
    <3> HIDE DEF S
    <3>1. Spent(weight, S)' = Spent(weight, S) + w /\ Spent(weight, S) \in Nat
      BY <1>1, <1>2, <2>1, <3>0, SpentGrows, SpentIs
    <3>2. /\ Pending(weight, S)' + Due(weight, S)[d] = Pending(weight, S) + Due(weight, S)'[d]
          /\ Pending(weight, S)' \in Nat
      BY <1>1, <1>3, DueChanges
    <3>3. Due(weight, S)[d] = w
      BY <1>2, <1>5 DEF Due, Pends
    <3>4. Due(weight, S)'[d] = 0
      BY <1>3 DEF Due, Pends
    <3>5. Pending(weight, S) \in Nat /\ w \in Nat
      BY <1>1, <1>2, DueIs
    <3> HIDE DEF w
    <3>6. Spent(weight, S)' + Pending(weight, S)' = Spent(weight, S) + Pending(weight, S)
      BY <3>1, <3>2, <3>3, <3>4, <3>5
    <3>7. Spent(weight, S) + Pending(weight, S) <= Ceiling(limit, most)
      BY DEF Within, S
    <3> QED BY <3>6, <3>7 DEF S
  <2>3. Ceiling(limit, most)' = Ceiling(limit, most)
    BY DEF Ceiling
  <2> QED BY <2>2, <2>3 DEF Within
<1> QED BY <1>4, <1>5

\* No other step of a dispatcher's job decides or charges.
LEMMA JobMovesOn ==
    ASSUME TypeOK, NEW d \in Dispatcher, Decide(d) \/ Approved(d),
           ~Authorize(d), ~AppendDecision(d)
    PROVE  OthersWait(d) /\ charges' = charges /\ pc'[d] # "append_decision"
<1>1. CASE \E r \in Request, kind \in {"prepare", "commit"} : Receive(d, r, kind)
  BY <1>1, Continues DEF Receive, ledger
<1>2. CASE Deny(d) \/ PrepareEdit(d) \/ ChooseRunByPolicy(d) \/ ChooseNotRequired(d)
           \/ ChooseChallenge(d) \/ RunByPolicy(d)
  BY <1>2, Continues, Returns
     DEF Deny, PrepareEdit, ChooseRunByPolicy, ChooseNotRequired, ChooseChallenge, RunByPolicy,
         Goto, ledger
<1>3. CASE AppendNotRequired(d) \/ AppendChallenge(d) \/ AppendExecutedByPolicy(d)
           \/ AppendWorkerFailed(d) \/ AppendOutputLimit(d)
  BY <1>3, Returns DEF AppendNotRequired, AppendChallenge, AppendExecutedByPolicy,
       AppendWorkerFailed, AppendOutputLimit, AppendLast
<1>4. CASE \E s \in SignedApproval : AcceptApproval(d, s) \/ RejectApproval(d, s)
  BY <1>4, Continues, Returns DEF AcceptApproval, RejectApproval, ledger
<1>5. CASE Claim(d)
  BY <1>5, Continues, Returns DEF Claim
<1>6. CASE AppendVerified(d) \/ AppendConsumed(d) \/ AppendExecuted(d)
  BY <1>6, Continues, Returns DEF AppendVerified, AppendConsumed, AppendExecuted, AppendThen, Goto
<1>7. CASE MarkUncertain(d) \/ MarkApplied(d) \/ MarkCompleted(d) \/ MarkPostUncertain(d)
  BY <1>7, Continues, Returns
     DEF MarkUncertain, MarkApplied, MarkCompleted, MarkPostUncertain, Goto
<1>8. CASE Execute(d) \/ CheckOutput(d)
  BY <1>8, Continues DEF Execute, CheckOutput, Goto, ledger
<1> QED BY <1>1, <1>2, <1>3, <1>4, <1>5, <1>6, <1>7, <1>8 DEF Decide, Approved

\* Starting, dying and being refused end a job; time and the registry leave it alone.
LEMMA LifeMovesOn ==
    ASSUME TypeOK, NEW d \in Dispatcher,
           (\E p \in Policy : Open(d, p)) \/ Crash(d) \/ LedgerFails(d) \/ Panic(d)
    PROVE  OthersWait(d) /\ charges' = charges /\ pc'[d] # "append_decision"
<1>1. CASE \E p \in Policy : Open(d, p)
  BY <1>1, Returns DEF Open
<1>2. CASE Crash(d)
  BY <1>2 DEF Crash, ledger, OthersWait, TypeOK
<1>3. CASE LedgerFails(d) \/ Panic(d)
  BY <1>3, Returns DEF LedgerFails, Panic, ledger
<1> QED BY <1>1, <1>2, <1>3

\* Every step keeps the budget, with what is still to be put on the ledger.
LEMMA BudgetStep ==
    ASSUME ConstantsAssumption, BudgetAssumption, TypeOK, TypeOK', [Next]_vars,
           NEW weight, NEW limit, NEW most, Counts(weight, limit, most), Within(weight, limit, most)
    PROVE  Within(weight, limit, most)'
<1>1. ASSUME NEW d \in Dispatcher, OthersWait(d), charges' = charges, pc'[d] # "append_decision"
      PROVE  Within(weight, limit, most)'
  BY <1>1, BudgetSpares DEF Pends
<1>2. CASE \E d \in Dispatcher : Decide(d) \/ Approved(d)
  <2>1. PICK d \in Dispatcher : Decide(d) \/ Approved(d)
    BY <1>2
  <2>2. CASE ~Authorize(d) /\ ~AppendDecision(d)
    BY <1>1, <2>1, <2>2, JobMovesOn
  <2> QED BY <2>2, BudgetDecides, BudgetCharges
<1>3. CASE \E d \in Dispatcher :
              (\E p \in Policy : Open(d, p)) \/ Crash(d) \/ LedgerFails(d) \/ Panic(d)
  BY <1>1, <1>3, LifeMovesOn
<1>4. CASE UNCHANGED <<pc, job, charges>>
  <2>1. PICK d \in Dispatcher : TRUE
    BY DEF BudgetAssumption
  <2> QED BY <1>4, <2>1, BudgetSpares DEF Pends, OthersWait
<1>5. \/ Tick \/ UNCHANGED vars
      \/ \E d \in Dispatcher, a \in Approver, e \in Enrolment : SetApprover(d, a, e)
      \/ \E d \in Dispatcher, a \in Approver : RevokeApprover(d, a)
      => UNCHANGED <<pc, job, charges>>
  BY DEF Tick, SetApprover, RevokeApprover, vars, ledger
<1> QED BY <1>2, <1>3, <1>4, <1>5, Steps

\* Nothing is charged at first and nothing pends.
LEMMA BudgetStarts ==
    ASSUME ConstantsAssumption, BudgetAssumption, Init, TypeOK,
           NEW weight, NEW limit, NEW most, Counts(weight, limit, most)
    PROVE  Within(weight, limit, most)
<1>1. /\ weight \in [Request -> Nat] /\ limit \in Nat /\ most \in Nat
      /\ \A r \in Request : weight[r] <= most
  BY DEF Counts
<1>2. ASSUME NEW f, NEW S, IsFiniteSet(S), \A x \in S : f[x] = 0
      PROVE  SumFunctionOnSet(f, S) = 0
  <2>1. SumFunctionOnSet(f, S) \in Nat
    BY <1>2, SumTakes
  <2>2. SumFunctionOnSet(f, S) <= Cardinality(S) * 0
    BY <1>2, SumIsBounded
  <2>3. Cardinality(S) \in Nat
    BY <1>2, FS_CardinalityType
  <2> QED BY <2>1, <2>2, <2>3
<1>3. ASSUME NEW t \in Time
      PROVE  Spent(weight, Minute(t)) + Pending(weight, Minute(t)) <= Ceiling(limit, most)
  <2> DEFINE S == Minute(t)
  <2>1. S \in SUBSET Time
    BY DEF Minute
  <2> HIDE DEF S
  <2>2. Spent(weight, S) = 0
    <3> DEFINE f == [x \in Request \X S |-> weight[x[1]] * charges[x[1]][x[2]]]
    <3>1. IsFiniteSet(Request \X S)
      BY <1>1, <2>1, SpentIs
    <3>2. ASSUME NEW x \in Request \X S
          PROVE  f[x] = 0
      <4>1. charges[x[1]][x[2]] = 0 /\ weight[x[1]] \in Nat
        BY <1>1, <2>1 DEF Init
      <4> QED BY <4>1
    <3>3. Spent(weight, S) = SumFunctionOnSet(f, Request \X S)
      BY DEF Spent
    <3> HIDE DEF f
    <3> QED BY <1>2, <3>1, <3>2, <3>3
  <2>3. Pending(weight, S) = 0
    <3>1. \A d \in Dispatcher : Due(weight, S)[d] = 0
      BY DEF Due, Pends, Init
    <3> QED BY <1>2, <3>1 DEF Pending, BudgetAssumption
  <2>4. Ceiling(limit, most) \in Nat
    BY <1>1, CeilingIs DEF BudgetAssumption
  <2> QED BY <2>2, <2>3, <2>4 DEF S
<1> QED BY <1>3 DEF Within

\* Of finitely many requests one is the largest.
LEMMA Largest ==
    ASSUME BudgetAssumption
    PROVE  /\ Max({Size[r] : r \in Request}) \in Nat
           /\ \A r \in Request : Size[r] <= Max({Size[q] : q \in Request})
<1> DEFINE Over(r) == {q \in Request : Size[q] > Size[r]}
           B == {Over(r) : r \in Request}
<1>1. PICK T \in B : \A U \in B : U \subseteq T => U = T
  <2>1. B \subseteq SUBSET Request /\ B # {}
    <3>1. PICK q \in Request : TRUE
      BY DEF BudgetAssumption
    <3>2. Over(q) \in B /\ \A p \in Request : Over(p) \subseteq Request
      OBVIOUS
    <3> QED BY <3>2
  <2> HIDE DEF B
  <2> QED BY <2>1, Least DEF BudgetAssumption
<1>2. PICK r \in Request : T = Over(r)
  OBVIOUS
<1>3. ASSUME NEW q \in Request
      PROVE  Size[q] <= Size[r]
  <2>1. SUFFICES ASSUME Size[q] > Size[r] PROVE FALSE
    BY DEF BudgetAssumption
  <2>2. Over(q) \subseteq T
    BY <1>2, <2>1 DEF BudgetAssumption
  <2>3. q \in T /\ q \notin Over(q)
    BY <1>2, <2>1 DEF BudgetAssumption
  <2> QED BY <1>1, <2>2, <2>3
<1>4. \E x \in {Size[q] : q \in Request} : \A y \in {Size[q] : q \in Request} : x >= y
  <2>1. Size[r] \in {Size[q] : q \in Request}
    OBVIOUS
  <2>2. \A y \in {Size[q] : q \in Request} : Size[r] >= y
    BY <1>3 DEF BudgetAssumption
  <2> QED BY <2>1, <2>2
<1>5. /\ Max({Size[q] : q \in Request}) \in {Size[q] : q \in Request}
      /\ \A y \in {Size[q] : q \in Request} : Max({Size[q] : q \in Request}) >= y
  BY <1>4 DEF Max
<1> QED BY <1>5 DEF BudgetAssumption

\* Whatever the number of dispatchers and requests, the budget of a minute is overrun
\* by no more than one write for each further dispatcher, in number and in bytes: what
\* the ledger holds and what is decided but still to be put on it stay within that.
THEOREM BudgetIsKept ==
    ASSUME ConstantsAssumption, BudgetAssumption
    PROVE  Spec => []BudgetHolds
<1> DEFINE largest == Max({Size[r] : r \in Request})
<1>1. largest \in Nat /\ \A r \in Request : Size[r] <= largest
  BY Largest
<1> HIDE DEF largest
<1> DEFINE Kept == Within(OneEach, MaxFiles, 1) /\ Within(Size, MaxBytes, largest)
<1>2. Counts(OneEach, MaxFiles, 1) /\ Counts(Size, MaxBytes, largest)
  BY <1>1 DEF Counts, OneEach, BudgetAssumption
<1>3. Init /\ TypeOK => Kept
  BY <1>2, BudgetStarts
<1>4. TypeOK /\ TypeOK' /\ Kept /\ [Next]_vars => Kept'
  BY <1>2, BudgetStep
<1>5. ASSUME TypeOK, Kept
      PROVE  BudgetHolds
  <2>1. ASSUME NEW t \in Time, NEW weight, NEW limit, NEW most, Counts(weight, limit, most),
               Within(weight, limit, most)
        PROVE  Spent(weight, Minute(t)) <= limit + (Cardinality(Dispatcher) - 1) * most
    <3>1. /\ weight \in [Request -> Nat] /\ limit \in Nat /\ most \in Nat
          /\ \A q \in Request : weight[q] <= most
      BY <2>1 DEF Counts
    <3>2. Minute(t) \in SUBSET Time
      BY DEF Minute
    <3>3. Spent(weight, Minute(t)) \in Nat
      BY <1>5, <3>1, <3>2, SpentIs
    <3>4. Pending(weight, Minute(t)) \in Nat
      BY <1>5, <3>1, DueIs
    <3>5. Ceiling(limit, most) \in Nat
      BY <3>1, CeilingIs DEF BudgetAssumption
    <3>6. Spent(weight, Minute(t)) + Pending(weight, Minute(t)) <= Ceiling(limit, most)
      BY <2>1 DEF Within
    <3>7. Spent(weight, Minute(t)) <= Ceiling(limit, most)
      BY <3>3, <3>4, <3>5, <3>6
    <3> QED BY <3>7 DEF Ceiling
  <2>2. Cardinality(Dispatcher) - 1 \in Nat
    <3>1. PICK d \in Dispatcher : TRUE
      BY DEF BudgetAssumption
    <3>2. IsFiniteSet(Dispatcher \ {d}) /\ Cardinality(Dispatcher \ {d}) = Cardinality(Dispatcher) - 1
      BY FS_RemoveElement DEF BudgetAssumption
    <3> QED BY <3>2, FS_CardinalityType
  <2>3. (Cardinality(Dispatcher) - 1) * 1 = Cardinality(Dispatcher) - 1
    BY <2>2
  <2>4. ASSUME NEW t \in Time
        PROVE  /\ Spent(OneEach, Minute(t)) <= MaxFiles + (Cardinality(Dispatcher) - 1)
               /\ Spent(Size, Minute(t)) <= MaxBytes + (Cardinality(Dispatcher) - 1) * largest
    <3>1. Spent(OneEach, Minute(t)) <= MaxFiles + (Cardinality(Dispatcher) - 1) * 1
      BY <1>2, <1>5, <2>1
    <3>2. Spent(Size, Minute(t)) <= MaxBytes + (Cardinality(Dispatcher) - 1) * largest
      BY <1>2, <1>5, <2>1
    <3> QED BY <2>3, <3>1, <3>2
  <2> QED BY <2>4 DEF BudgetHolds, Minute, largest
<1> QED BY <1>3, <1>4, <1>5, TypeCorrect, ConstantsAssumption, PTL DEF Spec

-----------------------------------------------------------------------------
(* The device's workers: they share the dispatcher's call and the counters. *)

\* Of some numbers one is least.
LEMMA LeastNumber ==
    ASSUME NEW S \in SUBSET Nat, S # {}
    PROVE  \E i \in S : \A j \in S : i <= j
<1>1. PICK n \in S : TRUE
  OBVIOUS
<1> DEFINE B == {0..i : i \in {i \in S : i <= n}}
<1>2. B \subseteq SUBSET (0..n) /\ 0..n \in B
  BY <1>1
<1>3. IsWellFoundedOn(StrictSubsetOrdering(0..n), SUBSET (0..n))
  <2>1. IsFiniteSet(0..n)
    BY <1>1, FS_Interval
  <2>2. FiniteSubsetsOf(0..n) = SUBSET (0..n)
    BY <2>1, FS_FiniteSubsetsOfFinite
  <2> QED BY <2>2, FS_StrictSubsetOrderingWellFounded
<1>4. PICK X \in B : \A U \in B : ~(<<U, X>> \in StrictSubsetOrdering(0..n))
  <2> HIDE DEF B
  <2> QED BY <1>2, <1>3, WFMin
<1>5. PICK i \in S : i <= n /\ X = 0..i
  OBVIOUS
<1>6. ASSUME NEW j \in S, j < i
      PROVE  FALSE
  <2>1. 0..j \in B /\ 0..j \subseteq 0..i /\ i \in 0..i /\ i \notin 0..j
    BY <1>1, <1>5, <1>6
  <2> QED BY <1>2, <1>4, <1>5, <2>1 DEF StrictSubsetOrdering
<1> QED BY <1>6

Counters == calls \in Nat /\ failures \in Nat
Grow == /\ calls' \in Nat /\ failures' \in Nat
        /\ calls <= calls' /\ failures <= failures'

\* A step is none of a call of these kinds.
Apart(kinds) == call' = call \/ (call.kind \notin kinds /\ call'.kind \notin kinds)

-----------------------------------------------------------------------------
(* process.terminate                                                       *)

Running == [pid : Pids, image : Images, born : Nat, critical : BOOLEAN, alive : BOOLEAN]
Identities == [pid : Pids, image : Images, born : Nat]
Terminations == [kind : {"terminate"}, expected : Identities,
                 pc : {"open", "identify", "kill", "wait"}]

\* Numbers are those of the table's entries, and what was seen was born by now.
ProcessTypes ==
    /\ births \in Nat
    /\ procs \in [Pids -> Running \cup {None}]
    /\ \A pid \in Pids : procs[pid] # None => procs[pid].pid = pid /\ procs[pid].born <= births
    /\ seen \subseteq Identities /\ \A i \in seen : i.born <= births
    /\ call.kind = "terminate" => call \in Terminations /\ call.expected \in seen
    /\ \A a \in answers : a.status = "terminated" => a.expected \in seen

\* The handle keeps the number for the process that was identified.
ProcessPlace ==
    call.kind = "terminate" =>
        /\ call.pc # "open" => call.expected.pid # Own /\ PC!Target # None
        /\ call.pc \in {"kill", "wait"} =>
              /\ PC!Identity(PC!Target) = call.expected
              /\ PC!Target.image \notin Protected /\ ~PC!Target.critical
        /\ call.pc = "wait" => \E k \in killed : k.expected = call.expected

ProcessInv == ProcessTypes /\ ProcessPlace /\ PC!OnlyTheApproved /\ PC!ConfirmedIsGone

LEMMA ProcessStarts == ASSUME PC!Init PROVE ProcessInv
BY DEF PC!Init, PC!Idle, ProcessInv, ProcessTypes, ProcessPlace, PC!OnlyTheApproved, PC!ConfirmedIsGone

LEMMA ProcessWaits ==
    ASSUME ProcessInv, UNCHANGED process, Apart({"terminate"})
    PROVE  ProcessInv'
BY DEF ProcessInv, ProcessTypes, ProcessPlace, PC!OnlyTheApproved, PC!ConfirmedIsGone, process,
       Apart, PC!Target, PC!Identity

LEMMA ProcessMoves ==
    ASSUME ProcessInv, Counters, PC!Next, NEW kinds, kinds \cap {"idle", "terminate"} = {}
    PROVE  Apart(kinds) /\ Grow
<1>1. CASE \E pid \in Pids : PC!Begin(pid) \/ PC!End(pid)
  BY <1>1 DEF PC!Begin, PC!End, Apart, Grow, Counters
<1>2. CASE \E expected \in seen : PC!Terminate(expected)
  BY <1>2 DEF PC!Terminate, PC!Idle, Apart, Grow, Counters
<1>3. CASE PC!Open \/ PC!Identify \/ PC!Kill \/ PC!Wait
  <2>1. call \in Terminations
    BY <1>3 DEF PC!Open, PC!Identify, PC!Kill, PC!Wait, PC!At, ProcessInv, ProcessTypes
  <2>2. Grow
    BY <1>3 DEF PC!Open, PC!Identify, PC!Kill, PC!Wait, Grow, Counters
  <2>3. call' = PC!Idle \/ call' = call \/ \E stage : call' = [call EXCEPT !.pc = stage]
    BY <1>3 DEF PC!Open, PC!Identify, PC!Kill, PC!Wait, PC!Answer, PC!Goto
  <2> QED BY <2>1, <2>2, <2>3 DEF Terminations, Apart, PC!Idle
<1> QED BY <1>1, <1>2, <1>3 DEF PC!Next

\* What the table may become while a handle is open, or when it is closed.
LEMMA ProcessEnds ==
    ASSUME ProcessInv, call.kind = "terminate", NEW said, PC!Answer(said), PC!Release(procs),
           UNCHANGED <<seen, births>>, UNCHANGED killed,
           said = "terminated" => call.pc = "wait" /\ ~PC!Target.alive
    PROVE  ProcessInv'
<1>1. /\ call \in Terminations /\ call.expected \in seen /\ call'.kind # "terminate"
      /\ call.expected.pid \in Pids
  BY DEF ProcessInv, ProcessTypes, PC!Answer, PC!Idle, Terminations, Identities
<1>2. /\ DOMAIN procs' = Pids
      /\ \A pid \in Pids : procs'[pid] = procs[pid] \/ procs'[pid] = None
  BY <1>1 DEF PC!Release, ProcessInv, ProcessTypes
<1>3. ProcessTypes'
  <2>1. procs' \in [Pids -> Running \cup {None}]
    <3>1. \A pid \in Pids : procs'[pid] \in Running \cup {None}
      BY <1>2 DEF ProcessInv, ProcessTypes
    <3>2. procs' = [pid \in Pids |-> procs'[pid]]
      BY <1>1 DEF PC!Release, ProcessInv, ProcessTypes
    <3> QED BY <3>1, <3>2
  <2>2. \A pid \in Pids : procs'[pid] # None => procs'[pid].pid = pid /\ procs'[pid].born <= births
    BY <1>2 DEF ProcessInv, ProcessTypes
  <2>3. \A a \in answers' : a.status = "terminated" => a.expected \in seen
    BY <1>1 DEF PC!Answer, ProcessInv, ProcessTypes
  <2> QED BY <1>1, <2>1, <2>2, <2>3 DEF ProcessInv, ProcessTypes
<1>4. ProcessPlace' /\ PC!OnlyTheApproved'
  BY <1>1 DEF ProcessInv, ProcessPlace, PC!OnlyTheApproved
<1>5. PC!ConfirmedIsGone'
  <2> SUFFICES ASSUME NEW a \in answers', a.status = "terminated"
               PROVE  /\ ~\E pid \in Pids : procs'[pid] # None /\ procs'[pid].alive
                                            /\ PC!Identity(procs'[pid]) = a.expected
                      /\ \E k \in killed : k.expected = a.expected
    BY DEF PC!ConfirmedIsGone, PC!Identity
  <2>1. CASE a \in answers
    BY <1>2, <2>1 DEF ProcessInv, PC!ConfirmedIsGone
  <2>2. CASE a \notin answers
    <3>1. a = [expected |-> call.expected, status |-> said] /\ said = "terminated"
      BY <2>2 DEF PC!Answer
    <3>2. \E k \in killed : k.expected = a.expected
      BY <3>1 DEF ProcessInv, ProcessPlace
    <3>3. ASSUME NEW pid \in Pids, procs'[pid] # None, PC!Identity(procs'[pid]) = a.expected
          PROVE  ~procs'[pid].alive
      <4>1. procs'[pid] = procs[pid] /\ procs[pid].pid = pid
        BY <1>2, <3>3 DEF ProcessInv, ProcessTypes
      <4>2. pid = call.expected.pid
        BY <3>1, <3>3, <4>1 DEF PC!Identity
      <4> QED BY <3>1, <4>1, <4>2 DEF PC!Target
    <3> QED BY <3>2, <3>3
  <2> QED BY <2>1, <2>2
<1> QED BY <1>3, <1>4, <1>5 DEF ProcessInv

LEMMA ProcessStep ==
    ASSUME PC!NoneAssumption, ProcessInv, PC!Next
    PROVE  ProcessInv'
<1>0. None \notin Running
  BY DEF PC!NoneAssumption, Running
<1>1. ASSUME NEW pid \in Pids, PC!Begin(pid)
      PROVE  ProcessInv'
  <2>1. PICK image \in Images, critical \in BOOLEAN :
            /\ procs' = [procs EXCEPT ![pid] = PC!Process(pid, image, births', critical)]
            /\ seen' = seen \cup {PC!Identity(PC!Process(pid, image, births', critical))}
    BY <1>1 DEF PC!Begin
  <2> DEFINE p == PC!Process(pid, image, births', critical)
  <2>2. /\ births \in Nat /\ births' = births + 1 /\ procs[pid] = None
        /\ UNCHANGED <<call, answers, killed>>
    BY <1>1 DEF PC!Begin, ProcessInv, ProcessTypes
  <2>3. /\ p \in Running /\ p.pid = pid /\ p.born = births'
        /\ PC!Identity(p) \in Identities /\ PC!Identity(p).born = births'
    BY <2>2 DEF PC!Process, PC!Identity, Running, Identities
  <2>4. \A q \in Pids : procs'[q] = IF q = pid THEN p ELSE procs[q]
    BY <2>1 DEF ProcessInv, ProcessTypes
  <2>5. seen' = seen \cup {PC!Identity(p)}
    BY <2>1
  <2>a. procs' \in [Pids -> Running \cup {None}]
    BY <2>1, <2>3 DEF ProcessInv, ProcessTypes
  <2> HIDE DEF p
  <2>b. \A n \in Nat : n <= births => n <= births' /\ n # births'
    BY <2>2
  <2>6. ProcessTypes'
    <3>1. \A q \in Pids : procs'[q] # None => procs'[q].pid = q /\ procs'[q].born <= births'
      <4>1. \A q \in Pids : procs[q] # None => procs[q].pid = q /\ procs[q].born <= births /\ procs[q].born \in Nat
        BY DEF ProcessInv, ProcessTypes, Running
      <4> QED BY <2>2, <2>3, <2>4, <2>b, <4>1
    <3>2. seen' \subseteq Identities /\ \A i \in seen' : i.born <= births'
      <4>1. \A i \in seen : i.born <= births /\ i.born \in Nat
        BY DEF ProcessInv, ProcessTypes, Identities
      <4> QED BY <2>2, <2>3, <2>5, <2>b, <4>1 DEF ProcessInv, ProcessTypes
    <3>3. seen \subseteq seen'
      BY <2>5
    <3> QED BY <2>2, <2>a, <3>1, <3>2, <3>3 DEF ProcessInv, ProcessTypes
  <2>7. call.kind = "terminate" /\ call.pc # "open" => call.expected.pid # pid /\ PC!Target' = PC!Target
    BY <2>2, <2>4 DEF ProcessInv, ProcessTypes, ProcessPlace, PC!Target, Terminations, Identities
  <2>8. ProcessPlace' /\ PC!OnlyTheApproved'
    BY <2>2, <2>7 DEF ProcessInv, ProcessPlace, PC!OnlyTheApproved
  <2>9. PC!ConfirmedIsGone'
    <3>1. \A a \in answers : a.status = "terminated" => a.expected # PC!Identity(p)
      <4>1. \A i \in seen : i.born <= births /\ i.born \in Nat
        BY DEF ProcessInv, ProcessTypes, Identities
      <4> QED BY <2>3, <2>b, <4>1 DEF ProcessInv, ProcessTypes
    <3> QED BY <2>2, <2>4, <3>1 DEF ProcessInv, PC!ConfirmedIsGone
  <2> QED BY <2>6, <2>8, <2>9 DEF ProcessInv
<1>2. ASSUME NEW pid \in Pids, PC!End(pid)
      PROVE  ProcessInv'
  <2>1. /\ procs[pid] \in Running /\ UNCHANGED <<seen, call, answers, killed, births>>
        /\ procs' = [procs EXCEPT ![pid] = IF PC!Held(pid) THEN [procs[pid] EXCEPT !.alive = FALSE] ELSE None]
    BY <1>2 DEF PC!End, ProcessInv, ProcessTypes
  <2> DEFINE p == [procs[pid] EXCEPT !.alive = FALSE]
  <2>2. /\ p \in Running /\ p.pid = procs[pid].pid /\ p.born = procs[pid].born /\ ~p.alive
        /\ p.image = procs[pid].image /\ p.critical = procs[pid].critical
    BY <2>1 DEF Running
  <2>3. \A q \in Pids : procs'[q] = IF q # pid THEN procs[q] ELSE IF PC!Held(pid) THEN p ELSE None
    BY <2>1 DEF ProcessInv, ProcessTypes
  <2>4. procs' \in [Pids -> Running \cup {None}]
    BY <2>1, <2>2 DEF ProcessInv, ProcessTypes
  <2> HIDE DEF p
  <2>5. ProcessTypes'
    <3>1. \A q \in Pids : procs'[q] # None => procs'[q].pid = q /\ procs'[q].born <= births
      BY <1>0, <2>1, <2>2, <2>3 DEF ProcessInv, ProcessTypes
    <3> QED BY <2>1, <2>4, <3>1 DEF ProcessInv, ProcessTypes
  <2>6. ASSUME call.kind = "terminate", call.pc # "open"
        PROVE  /\ PC!Target' # None /\ PC!Identity(PC!Target') = PC!Identity(PC!Target)
               /\ PC!Target'.image = PC!Target.image /\ PC!Target'.critical = PC!Target.critical
    <3>1. call.expected.pid \in Pids /\ PC!Target # None
      BY <2>6 DEF ProcessInv, ProcessTypes, ProcessPlace, Terminations, Identities
    <3>2. CASE call.expected.pid = pid
      <4>1. PC!Held(pid) /\ PC!Target = procs[pid] /\ PC!Target' = p
        BY <2>1, <2>3, <2>6, <3>2 DEF PC!Held, PC!Target
      <4> QED BY <1>0, <2>2, <4>1 DEF PC!Identity
    <3>3. CASE call.expected.pid # pid
      BY <2>1, <2>3, <3>1, <3>3 DEF PC!Target, PC!Identity
    <3> QED BY <3>2, <3>3
  <2>7. ProcessPlace' /\ PC!OnlyTheApproved'
    BY <2>1, <2>6 DEF ProcessInv, ProcessPlace, PC!OnlyTheApproved, PC!Identity
  <2>8. PC!ConfirmedIsGone'
    BY <2>1, <2>2, <2>3 DEF ProcessInv, PC!ConfirmedIsGone
  <2> QED BY <2>5, <2>7, <2>8 DEF ProcessInv
<1>3. ASSUME NEW expected \in seen, PC!Terminate(expected)
      PROVE  ProcessInv'
  <2>1. /\ UNCHANGED <<procs, seen, answers, killed, births>>
        /\ call' \in Terminations /\ call'.expected = expected /\ call'.pc = "open"
    BY <1>3 DEF PC!Terminate, Terminations, ProcessInv, ProcessTypes
  <2> QED BY <2>1 DEF ProcessInv, ProcessTypes, ProcessPlace, PC!OnlyTheApproved, PC!ConfirmedIsGone
\* The call goes on: the table is as it was.
<1>4. ASSUME call.kind = "terminate", NEW stage \in {"identify", "kill", "wait"}, PC!Goto(stage),
             UNCHANGED <<procs, seen, births>>, killed \subseteq killed', PC!OnlyTheApproved',
             call.expected.pid # Own, PC!Target # None,
             stage # "identify" => /\ PC!Identity(PC!Target) = call.expected
                                /\ PC!Target.image \notin Protected /\ ~PC!Target.critical,
             stage = "wait" => \E k \in killed' : k.expected = call.expected
      PROVE  ProcessInv'
  <2>1. /\ call' \in Terminations /\ call'.expected = call.expected /\ call'.pc = stage
        /\ call.expected \in seen /\ UNCHANGED answers /\ PC!Target' = PC!Target
    BY <1>4 DEF PC!Goto, ProcessInv, ProcessTypes, Terminations, PC!Target
  <2>2. ProcessTypes' /\ PC!ConfirmedIsGone'
    BY <1>4, <2>1 DEF ProcessInv, ProcessTypes, PC!ConfirmedIsGone
  <2>3. ProcessPlace'
    BY <1>4, <2>1 DEF ProcessPlace, PC!Identity
  <2> QED BY <1>4, <2>2, <2>3 DEF ProcessInv
<1>5. CASE PC!Open
  <2>1. call.kind = "terminate" /\ UNCHANGED <<procs, seen, killed, births>>
    BY <1>5 DEF PC!Open, PC!At
  <2>2. CASE PC!Answer("protected") \/ PC!Answer("not_found")
    BY <2>1, <2>2 DEF PC!Answer, PC!Idle, ProcessInv, ProcessTypes, ProcessPlace, PC!OnlyTheApproved,
         PC!ConfirmedIsGone
  <2>3. CASE PC!Goto("identify") /\ call.expected.pid # Own /\ procs[call.expected.pid] # None
    BY <1>4, <2>1, <2>3 DEF PC!Target, ProcessInv, PC!OnlyTheApproved
  <2> QED BY <1>5, <2>2, <2>3 DEF PC!Open
<1>6. CASE PC!Identify
  <2>1. /\ call.kind = "terminate" /\ UNCHANGED <<seen, killed, births>>
        /\ call.expected.pid # Own /\ PC!Target # None
    BY <1>6 DEF PC!Identify, PC!At, ProcessInv, ProcessPlace
  <2>2. CASE (PC!Answer("refused") \/ PC!Answer("query_failed")) /\ PC!Release(procs)
    BY <2>1, <2>2, ProcessEnds
  <2>3. CASE /\ PC!Identity(PC!Target) = call.expected
             /\ PC!Target.image \notin Protected /\ ~PC!Target.critical
             /\ PC!Goto("kill") /\ UNCHANGED procs
    BY <1>4, <2>1, <2>3 DEF ProcessInv, PC!OnlyTheApproved
  <2> QED BY <1>6, <2>2, <2>3 DEF PC!Identify
<1>7. CASE PC!Kill
  <2>1. /\ call.kind = "terminate" /\ UNCHANGED <<seen, births>> /\ call.pc = "kill"
        /\ call.expected.pid # Own /\ PC!Target # None
        /\ PC!Identity(PC!Target) = call.expected
        /\ PC!Target.image \notin Protected /\ ~PC!Target.critical
    BY <1>7 DEF PC!Kill, PC!At, ProcessInv, ProcessPlace
  <2>2. CASE PC!Answer("terminate_failed") /\ PC!Release(procs) /\ UNCHANGED killed
    BY <2>1, <2>2, ProcessEnds
  <2>3. CASE /\ killed' = killed \cup {[victim |-> PC!Target, expected |-> call.expected]}
             /\ PC!Goto("wait") /\ UNCHANGED procs
    <3>1. PC!Target.pid # Own
      BY <2>1 DEF PC!Identity
    <3> DEFINE new == [victim |-> PC!Target, expected |-> call.expected]
    <3>2. new.victim = PC!Target /\ new.expected = call.expected /\ killed' = killed \cup {new}
      BY <2>3
    <3> HIDE DEF new
    <3>3. PC!Identity(new.victim) = new.expected
      BY <2>1, <3>2
    <3>4. PC!OnlyTheApproved'
      BY <2>1, <3>1, <3>2, <3>3 DEF ProcessInv, PC!OnlyTheApproved, PC!Identity
    <3>5. \E k \in killed' : k.expected = call.expected
      BY <3>2
    <3>6. killed \subseteq killed'
      BY <3>2
    <3> QED BY <1>4, <2>1, <2>3, <3>4, <3>5, <3>6
  <2> QED BY <1>7, <2>2, <2>3 DEF PC!Kill
<1>8. CASE PC!Wait
  BY <1>8, ProcessEnds DEF PC!Wait, PC!At
<1> QED BY <1>1, <1>2, <1>3, <1>5, <1>6, <1>7, <1>8 DEF PC!Next

-----------------------------------------------------------------------------
(* The browser.                                                            *)

Sessions == [owner : Owners, generation : Nat, page : Nat, steady : BOOLEAN,
             close : {"open", "unconfirmed"}]
Looks == [id : BrowserIds, owner : Owners, generation : Nat, page : Nat, steady : BOOLEAN]
Downloaded == [part : BOOLEAN, at : Nat]
Downloads == [kind : {"download"}, id : BrowserIds, op : Nat, file : Files]

BrowserTypes ==
    /\ pages \in Nat
    /\ sessions \in [BrowserIds -> Sessions \cup {None}]
    /\ dir \in [BrowserIds -> [Files -> Downloaded \cup {None}]]
    /\ started \subseteq BrowserIds
    /\ views \cup clicks \subseteq Looks
    /\ call.kind = "download" => call \in Downloads

\* What was looked at is what the session is at, or an earlier generation of it.
Before(a, s) ==
    /\ a.owner = s.owner /\ a.generation <= s.generation
    /\ a.generation = s.generation /\ a.steady /\ s.steady => a.page = s.page
Agree(a, b) ==
    a.id = b.id => /\ a.owner = b.owner
                   /\ a.generation = b.generation /\ a.steady /\ b.steady => a.page = b.page
LooksAgree ==
    /\ \A a \in views \cup clicks :
          a.id \in started /\ (sessions[a.id] # None => Before(a, sessions[a.id]))
    /\ \A a, b \in views \cup clicks : Agree(a, b)

\* A file that has arrived since the download was asked for.
ArrivesLater ==
    /\ call.kind = "download" =>
          /\ call.op <= calls
          /\ dir[call.id][call.file] # None => dir[call.id][call.file].at >= call.op
    /\ BS!ReceiptIsNew

Unconfirmed == {id \in driver : sessions[id].close # "open"}
NothingIsLeft ==
    /\ IsFiniteSet(roots) /\ roots \cup closed \subseteq started
    /\ driver = {id \in BrowserIds : sessions[id] # None} /\ driver \subseteq roots
    /\ Cardinality(roots \ driver) + Cardinality(Unconfirmed) <= failures
    /\ closed \cap (roots \cup driver) = {}

BrowserInv == BrowserTypes /\ LooksAgree /\ ArrivesLater /\ NothingIsLeft

LEMMA BrowserStarts == ASSUME BS!Init PROVE BrowserInv
<1>1. BrowserTypes /\ LooksAgree /\ ArrivesLater
  BY DEF BS!Init, BS!Idle, BS!NoFiles, BrowserTypes, LooksAgree, ArrivesLater, BS!ReceiptIsNew
<1>2. NothingIsLeft
  <2>1. roots \ driver = {} /\ Unconfirmed = {} /\ failures = 0 /\ closed = {} /\ roots = {} /\ driver = {}
    BY DEF BS!Init, Unconfirmed
  <2>2. IsFiniteSet({}) /\ Cardinality({}) = 0
    BY FS_EmptySet
  <2>3. driver = {id \in BrowserIds : sessions[id] # None}
    BY DEF BS!Init
  <2> QED BY <2>1, <2>2, <2>3 DEF NothingIsLeft
<1> QED BY <1>1, <1>2 DEF BrowserInv

LEMMA LeavesFinite ==
    ASSUME NothingIsLeft
    PROVE  /\ IsFiniteSet(roots \ driver) /\ IsFiniteSet(Unconfirmed)
           /\ Cardinality(roots \ driver) \in Nat /\ Cardinality(Unconfirmed) \in Nat
<1>1. IsFiniteSet(roots \ driver) /\ IsFiniteSet(Unconfirmed)
  BY FS_Subset DEF NothingIsLeft, Unconfirmed
<1> QED BY <1>1, FS_CardinalityType

LEMMA BrowserWaits ==
    ASSUME Counters, BrowserInv, UNCHANGED browser, Apart({"download"}), Grow
    PROVE  BrowserInv'
<1>1. BrowserTypes' /\ LooksAgree'
  BY DEF BrowserInv, BrowserTypes, LooksAgree, Before, Agree, browser, Apart
<1>2. ArrivesLater'
  <2>1. BS!ReceiptIsNew'
    BY DEF BrowserInv, ArrivesLater, browser, BS!ReceiptIsNew
  <2>2. ASSUME call'.kind = "download"
        PROVE  call' = call /\ dir' = dir /\ call.op \in Nat /\ call.op <= calls /\ calls <= calls'
               /\ calls \in Nat /\ calls' \in Nat
    BY <2>2 DEF BrowserInv, BrowserTypes, ArrivesLater, Downloads, Apart, Grow, Counters, browser
  <2>3. call'.kind = "download" => call'.op <= calls'
    BY <2>2
  <2> QED BY <2>1, <2>2, <2>3 DEF BrowserInv, ArrivesLater
<1>3. NothingIsLeft'
  <2>1. Cardinality(roots \ driver) \in Nat /\ Cardinality(Unconfirmed) \in Nat
    BY LeavesFinite DEF BrowserInv
  <2>2. Cardinality(roots \ driver) + Cardinality(Unconfirmed) <= failures
    BY DEF BrowserInv, NothingIsLeft
  <2>3. Cardinality(roots \ driver) + Cardinality(Unconfirmed) <= failures'
    BY <2>1, <2>2 DEF Counters, Grow
  <2>4. UNCHANGED <<roots, driver, closed, started, sessions>>
    BY DEF browser
  <2> QED BY <2>3, <2>4 DEF BrowserInv, NothingIsLeft, Unconfirmed
<1> QED BY <1>1, <1>2, <1>3 DEF BrowserInv

LEMMA BrowserMoves ==
    ASSUME Counters, BS!Next, NEW kinds, kinds \cap {"idle", "download"} = {}
    PROVE  Apart(kinds) /\ Grow
<1>1. ASSUME NEW id \in BrowserIds, NEW owner \in Owners,
             BS!Start(id, owner) \/ BS!Navigate(id, owner) \/ BS!Observe(id, owner) \/ BS!Close(id, owner)
      PROVE  Apart(kinds) /\ Grow
  <2>1. call' = call /\ calls' = calls + 1
    BY <1>1 DEF BS!Start, BS!Navigate, BS!Observe, BS!Close, BS!Call
  <2>2. failures' \in {failures, failures + 1, failures + 2}
    <3>1. CASE BS!Start(id, owner)
      BY <3>1 DEF BS!Start, BS!Fault
    <3>2. CASE BS!Navigate(id, owner)
      BY <3>2 DEF BS!Navigate, BS!Fault
    <3>3. CASE BS!Observe(id, owner)
      BY <3>3 DEF BS!Observe
    <3>4. CASE BS!Close(id, owner)
      BY <3>4 DEF BS!Close, BS!Fault
    <3> QED BY <1>1, <3>1, <3>2, <3>3, <3>4
  <2> QED BY <2>1, <2>2 DEF Apart, Grow, Counters
<1>2. ASSUME NEW id, NEW owner, NEW generation, BS!Click(id, owner, generation)
      PROVE  Apart(kinds) /\ Grow
  BY <1>2 DEF BS!Click, BS!Call, Apart, Grow, Counters
<1>3. ASSUME NEW id, NEW owner, NEW file, NEW generation, BS!Download(id, owner, file, generation)
      PROVE  Apart(kinds) /\ Grow
  BY <1>3 DEF BS!Download, BS!Call, BS!Idle, Apart, Grow, Counters
<1>4. ASSUME NEW id, BS!PageChanges(id) \/ BS!Receive(id) \/ BS!DownloadTimeout(id)
                     \/ \E file \in Files : BS!Arrives(id, file) \/ BS!Completes(id, file)
      PROVE  Apart(kinds) /\ Grow
  <2>1. UNCHANGED <<calls, failures>>
    BY <1>4 DEF BS!PageChanges, BS!Receive, BS!DownloadTimeout, BS!Arrives, BS!Completes
  <2>2. call' = call \/ (call.kind = "download" /\ call' = BS!Idle)
    BY <1>4 DEF BS!PageChanges, BS!Receive, BS!DownloadTimeout, BS!Arrives, BS!Completes
  <2> QED BY <2>1, <2>2 DEF BS!Idle, Apart, Grow, Counters
<1> QED BY <1>1, <1>2, <1>3, <1>4 DEF BS!Next

\* A document is loaded: what was looked at is of an earlier generation, or the session is no
\* longer at one.
LEMMA Loads ==
    ASSUME BS!NoneAssumption, BrowserInv, NEW id \in BrowserIds, sessions[id] # None,
           NEW counted \in BOOLEAN, BS!Load(id, counted)
    PROVE  /\ pages' \in Nat
           /\ sessions' \in [BrowserIds -> Sessions \cup {None}]
           /\ \A i \in BrowserIds \ {id} : sessions'[i] = sessions[i]
           /\ sessions'[id] # None /\ sessions'[id].owner = sessions[id].owner
           /\ sessions'[id].close = sessions[id].close
           /\ \A a \in Looks : Before(a, sessions[id]) => Before(a, sessions'[id])
<1> DEFINE s == sessions[id]
           t == [owner |-> s.owner, generation |-> IF counted THEN s.generation + 1 ELSE s.generation,
                 page |-> pages', steady |-> counted, close |-> s.close]
<1>1. s \in Sessions /\ pages \in Nat /\ pages' = pages + 1
  BY DEF BrowserInv, BrowserTypes, BS!Load
<1>2. sessions' = [sessions EXCEPT ![id] = t]
  <2>1. t = [s EXCEPT !.page = pages', !.steady = counted,
                      !.generation = IF counted THEN @ + 1 ELSE @]
    <3>1. s = [owner |-> s.owner, generation |-> s.generation, page |-> s.page,
               steady |-> s.steady, close |-> s.close]
      BY <1>1 DEF Sessions
    <3> HIDE DEF s
    <3>2. PICK o, g, n, b, c : s = [owner |-> o, generation |-> g, page |-> n, steady |-> b, close |-> c]
      BY <3>1
    <3> DEFINE s1 == [s EXCEPT !.page = pages']
               s2 == [s1 EXCEPT !.steady = counted]
               count == IF counted THEN s.generation + 1 ELSE s.generation
               s3 == [s2 EXCEPT !.generation = count]
    <3>3. s1 = [owner |-> o, generation |-> g, page |-> pages', steady |-> b, close |-> c]
      BY <3>2
    <3>4. s.owner = o /\ s.generation = g /\ s.close = c
      BY <3>2
    <3> HIDE DEF s1
    <3>5. s2 = [owner |-> o, generation |-> g, page |-> pages', steady |-> counted, close |-> c]
      BY <3>3
    <3> HIDE DEF s2, count
    <3>6. s3 = [owner |-> o, generation |-> count, page |-> pages', steady |-> counted, close |-> c]
      BY <3>5
    <3>7. t = s3
      <4> HIDE DEF s3
      <4>1. t = [owner |-> s.owner, generation |-> count, page |-> pages', steady |-> counted,
                 close |-> s.close]
        BY DEF count
      <4> HIDE DEF t
      <4> QED BY <3>4, <3>6, <4>1
    <3> USE DEF s1, s2, count
    <3> QED BY ONLY <3>7
  <2>2. DOMAIN sessions = BrowserIds
    BY DEF BrowserInv, BrowserTypes
  <2> QED BY <2>1, <2>2 DEF BS!Load
<1>3. t \in Sessions /\ t # None
  BY <1>1 DEF Sessions, BS!NoneAssumption
<1>4. /\ t.owner = s.owner /\ t.close = s.close /\ t.steady = counted
      /\ t.generation = IF counted THEN s.generation + 1 ELSE s.generation
  OBVIOUS
<1>5. s.generation \in Nat
  BY <1>1 DEF Sessions
<1> HIDE DEF t
<1>6. ASSUME NEW a \in Looks, Before(a, s)
      PROVE  Before(a, t)
  <2>1. a.generation \in Nat
    BY DEF Looks
  <2> QED BY <1>4, <1>5, <1>6, <2>1 DEF Before
<1>7. sessions' \in [BrowserIds -> Sessions \cup {None}] /\ sessions'[id] = t
      /\ \A i \in BrowserIds \ {id} : sessions'[i] = sessions[i]
  BY <1>2, <1>3 DEF BrowserInv, BrowserTypes
<1> QED BY <1>1, <1>3, <1>4, <1>6, <1>7

\* A look is at what the session is at.
LEMMA LooksNow ==
    ASSUME BrowserInv, NEW id \in BrowserIds, NEW owner \in Owners, BS!Open(id, owner),
           NEW a, a = [id |-> id, owner |-> owner, generation |-> sessions[id].generation,
                       page |-> sessions[id].page, steady |-> sessions[id].steady]
    PROVE  /\ a \in Looks /\ a.id = id /\ Before(a, sessions[id]) /\ Agree(a, a)
           /\ \A b \in views \cup clicks : Agree(a, b) /\ Agree(b, a)
<1>1. /\ sessions[id] \in Sessions /\ sessions[id].owner = owner /\ sessions[id] # None
  BY DEF BS!Open, BS!Mine, BrowserInv, BrowserTypes
<1>2. /\ a \in Looks /\ a.id = id /\ a.owner = owner /\ a.generation = sessions[id].generation
      /\ a.page = sessions[id].page /\ a.steady = sessions[id].steady /\ a.generation \in Nat
  BY <1>1 DEF Sessions, Looks
<1>3. \A b \in views \cup clicks : b.id = id => Before(b, sessions[id])
  BY <1>1 DEF BrowserInv, LooksAgree
<1> QED BY <1>1, <1>2, <1>3 DEF Before, Agree

\* A click, and what may be loaded by it.
LEMMA ClickedLooks ==
    ASSUME BS!NoneAssumption, BrowserInv, NEW id \in BrowserIds, NEW owner \in Owners,
           BS!Open(id, owner), BS!Clicked(id, owner), UNCHANGED <<views, started>>
    PROVE  /\ LooksAgree' /\ (views \cup clicks)' \subseteq Looks
           /\ pages' \in Nat
           /\ sessions' \in [BrowserIds -> Sessions \cup {None}]
           /\ \A i \in BrowserIds : (sessions'[i] # None <=> sessions[i] # None)
                                   /\ sessions'[i].close = sessions[i].close
<1>1. PICK a : /\ a = [id |-> id, owner |-> owner, generation |-> sessions[id].generation,
                       page |-> sessions[id].page, steady |-> sessions[id].steady]
               /\ clicks' = clicks \cup {a}
  BY DEF BS!Clicked
<1>2. /\ a \in Looks /\ a.id = id /\ Before(a, sessions[id]) /\ Agree(a, a)
      /\ \A b \in views \cup clicks : Agree(a, b) /\ Agree(b, a)
  BY <1>1, LooksNow
<1>3. sessions[id] # None /\ views \cup clicks \subseteq Looks
  BY DEF BS!Open, BS!Mine, BrowserInv, BrowserTypes
<1>4. /\ pages' \in Nat
      /\ sessions' \in [BrowserIds -> Sessions \cup {None}]
      /\ \A i \in BrowserIds \ {id} : sessions'[i] = sessions[i]
      /\ sessions'[id] # None /\ sessions'[id].close = sessions[id].close
      /\ \A b \in Looks : Before(b, sessions[id]) => Before(b, sessions'[id])
  <2>1. CASE UNCHANGED <<sessions, pages>>
    BY <1>3, <2>1 DEF BrowserInv, BrowserTypes
  <2>2. CASE BS!Load(id, FALSE)
    BY <1>3, <2>2, Loads
  <2> QED BY <2>1, <2>2 DEF BS!Clicked
<1>5. (views \cup clicks)' = views \cup clicks \cup {a}
  BY <1>1
<1>6. id \in started
  <2>1. id \in roots
    BY <1>3 DEF BrowserInv, NothingIsLeft
  <2> QED BY <2>1 DEF BrowserInv, NothingIsLeft
<1>7. \A b \in (views \cup clicks)' : b.id \in started' /\ (sessions'[b.id] # None => Before(b, sessions'[b.id]))
  <2> SUFFICES ASSUME NEW b \in (views \cup clicks)'
               PROVE  b.id \in started /\ (sessions'[b.id] # None => Before(b, sessions'[b.id]))
    OBVIOUS
  <2>1. b \in Looks /\ b.id \in BrowserIds
    BY <1>2, <1>3, <1>5 DEF Looks
  <2>2. b.id \in started /\ (sessions[b.id] # None => Before(b, sessions[b.id]))
    BY <1>2, <1>5, <1>6 DEF BrowserInv, LooksAgree
  <2> QED BY <1>3, <1>4, <2>1, <2>2
<1>8. \A b, c \in (views \cup clicks)' : Agree(b, c)
  BY <1>2, <1>5 DEF BrowserInv, LooksAgree
<1> QED BY <1>2, <1>3, <1>4, <1>5, <1>7, <1>8 DEF LooksAgree, Before, Agree

\* What is left, when a step starts and ends nothing.
LEMMA LeavesNothingNew ==
    ASSUME BrowserInv, Counters, UNCHANGED <<roots, driver, closed, started>>,
           failures' \in Nat, failures <= failures',
           \A i \in BrowserIds : (sessions'[i] # None <=> sessions[i] # None)
                                 /\ (sessions[i] # None => sessions'[i].close = sessions[i].close)
    PROVE  NothingIsLeft'
<1>1. /\ Cardinality(roots \ driver) \in Nat /\ Cardinality(Unconfirmed) \in Nat
      /\ Cardinality(roots \ driver) + Cardinality(Unconfirmed) <= failures
  BY LeavesFinite DEF BrowserInv, NothingIsLeft
<1>2. Unconfirmed' = Unconfirmed
  BY DEF Unconfirmed, BrowserInv, NothingIsLeft
<1>3. Cardinality(roots \ driver) + Cardinality(Unconfirmed) <= failures'
  BY <1>1 DEF Counters
<1> QED BY <1>2, <1>3 DEF BrowserInv, NothingIsLeft

\* What was looked at, when nothing is looked at.
LEMMA LooksStay ==
    ASSUME BrowserInv, UNCHANGED <<views, clicks>>, started \subseteq started',
           \A i \in BrowserIds : sessions'[i] # None /\ i \in started =>
               /\ sessions[i] # None
               /\ \A a \in Looks : Before(a, sessions[i]) => Before(a, sessions'[i])
    PROVE  LooksAgree'
<1>1. \A a \in views \cup clicks :
          a.id \in started /\ (sessions[a.id] # None => Before(a, sessions[a.id]))
  BY DEF BrowserInv, LooksAgree
<1>2. \A a \in views \cup clicks : a \in Looks /\ a.id \in BrowserIds
  BY DEF BrowserInv, BrowserTypes, Looks
<1>3. \A a \in (views \cup clicks)' :
          a.id \in started' /\ (sessions'[a.id] # None => Before(a, sessions'[a.id]))
  BY <1>1, <1>2
<1>4. \A a, b \in (views \cup clicks)' : Agree(a, b)
  BY DEF BrowserInv, LooksAgree
<1> QED BY <1>3, <1>4 DEF LooksAgree, Before, Agree

\* Downloads go on.
LEMMA ArrivalsWait ==
    ASSUME BrowserInv, Counters, UNCHANGED <<receipts>>, calls' \in Nat, calls <= calls',
           call' = call \/ call'.kind # "download",
           \A i \in BrowserIds : dir'[i] = dir[i] \/ dir'[i] = BS!NoFiles
    PROVE  ArrivesLater'
<1>1. BS!ReceiptIsNew'
  BY DEF BrowserInv, ArrivesLater, BS!ReceiptIsNew
<1>2. ASSUME call'.kind = "download"
      PROVE  /\ call'.op <= calls'
             /\ dir'[call'.id][call'.file] # None => dir'[call'.id][call'.file].at >= call'.op
  <2>1. call' = call /\ call.id \in BrowserIds /\ call.file \in Files /\ call.op \in Nat /\ call.op <= calls
    BY <1>2 DEF BrowserInv, BrowserTypes, ArrivesLater, Downloads
  <2>2. call.op <= calls'
    BY <2>1 DEF Counters
  <2>3. dir[call.id][call.file] # None => dir[call.id][call.file].at >= call.op
    BY <1>2, <2>1 DEF BrowserInv, ArrivesLater
  <2>4. BS!NoFiles[call.file] = None
    BY <2>1 DEF BS!NoFiles
  <2> QED BY <2>1, <2>2, <2>3, <2>4
<1> QED BY <1>1, <1>2 DEF ArrivesLater

LEMMA BrowserStarted ==
    ASSUME BS!NoneAssumption, BrowserInv, Counters, NEW id \in BrowserIds, NEW owner \in Owners,
           BS!Start(id, owner)
    PROVE  BrowserInv'
<1>1. /\ id \notin started /\ started' = started \cup {id} /\ call' = call
      /\ calls' = calls + 1 /\ UNCHANGED <<dir, pages, call, views, clicks, receipts, closed>>
  BY DEF BS!Start, BS!Call, BS!history
<1>2. id \notin roots /\ id \notin driver /\ id \notin closed
  BY <1>1 DEF BrowserInv, NothingIsLeft
<1>3. BS!Session(owner) \in Sessions /\ BS!Session(owner) # None /\ BS!Session(owner).close = "open"
  <2>1. BS!Session(owner) \in Sessions /\ BS!Session(owner).close = "open"
    BY DEF BS!Session, Sessions
  <2>2. None \notin Sessions
    BY DEF Sessions, BS!NoneAssumption
  <2> QED BY <2>1, <2>2
<1>4. \/ sessions' = sessions
      \/ sessions' = [sessions EXCEPT ![id] = BS!Session(owner)]
  BY DEF BS!Start
<1>5. /\ sessions' \in [BrowserIds -> Sessions \cup {None}]
      /\ \A i \in BrowserIds \ {id} : sessions'[i] = sessions[i]
  BY <1>3, <1>4 DEF BrowserInv, BrowserTypes
<1>6. BrowserTypes'
  BY <1>1, <1>5 DEF BrowserInv, BrowserTypes
<1>7. LooksAgree'
  BY <1>1, <1>5, LooksStay
<1>8. ArrivesLater'
  BY <1>1, ArrivalsWait DEF Counters
<1>9. NothingIsLeft'
  <2>1. /\ IsFiniteSet(roots \ driver) /\ IsFiniteSet(roots)
        /\ Cardinality(roots \ driver) \in Nat /\ Cardinality(Unconfirmed) \in Nat
        /\ Cardinality(roots \ driver) + Cardinality(Unconfirmed) <= failures /\ failures \in Nat
    BY LeavesFinite DEF BrowserInv, NothingIsLeft, Counters
  <2>2. IsFiniteSet(roots \cup {id})
    BY <2>1, FS_AddElement
  <2>3. CASE /\ roots' = roots \cup {id} /\ driver' = driver \cup {id}
             /\ sessions' = [sessions EXCEPT ![id] = BS!Session(owner)]
             /\ UNCHANGED failures
    <3>1. roots' \ driver' = roots \ driver
      BY <1>2, <2>3
    <3>2. sessions'[id] = BS!Session(owner)
      BY <2>3 DEF BrowserInv, BrowserTypes
    <3>3. Unconfirmed' = Unconfirmed
      BY <1>2, <1>3, <1>5, <2>3, <3>2 DEF Unconfirmed, BrowserInv, NothingIsLeft
    <3>4. driver' = {i \in BrowserIds : sessions'[i] # None}
      BY <1>3, <1>5, <2>3, <3>2 DEF BrowserInv, NothingIsLeft
    <3>5. /\ IsFiniteSet(roots') /\ roots' \cup closed' \subseteq started' /\ driver' \subseteq roots'
          /\ closed' \cap (roots' \cup driver') = {}
      BY <1>1, <1>2, <2>2, <2>3 DEF BrowserInv, NothingIsLeft
    <3>6. Cardinality(roots' \ driver') + Cardinality(Unconfirmed') <= failures'
      BY <2>1, <2>3, <3>1, <3>3
    <3> QED BY <3>4, <3>5, <3>6 DEF NothingIsLeft
  <2>4. CASE BS!Fault /\ UNCHANGED <<roots, driver, sessions>>
    <3>1. Cardinality(roots \ driver) + Cardinality(Unconfirmed) <= failures'
      BY <2>1, <2>4 DEF BS!Fault
    <3>2. Unconfirmed' = Unconfirmed
      BY <2>4 DEF Unconfirmed
    <3> QED BY <1>1, <2>4, <3>1, <3>2 DEF BrowserInv, NothingIsLeft
  <2>5. CASE /\ failures' = failures + 2 /\ roots' = roots \cup {id} /\ UNCHANGED <<driver, sessions>>
    <3>1. roots' \ driver' = (roots \ driver) \cup {id} /\ id \notin roots \ driver
      BY <1>2, <2>5
    <3>2. Cardinality((roots \ driver) \cup {id}) = Cardinality(roots \ driver) + 1
      BY <2>1, <3>1, FS_AddElement
    <3>3. Unconfirmed' = Unconfirmed
      BY <2>5 DEF Unconfirmed
    <3>4. Cardinality((roots \ driver) \cup {id}) + Cardinality(Unconfirmed) <= failures'
      BY <2>1, <2>5, <3>2
    <3> QED BY <1>1, <1>2, <2>2, <2>5, <3>1, <3>3, <3>4 DEF BrowserInv, NothingIsLeft
  <2> QED BY <2>3, <2>4, <2>5 DEF BS!Start
<1> QED BY <1>6, <1>7, <1>8, <1>9 DEF BrowserInv

LEMMA BrowserNavigated ==
    ASSUME BS!NoneAssumption, BrowserInv, Counters, NEW id \in BrowserIds, NEW owner \in Owners,
           BS!Navigate(id, owner)
    PROVE  BrowserInv'
<1>1. /\ UNCHANGED <<roots, driver, dir, started, call, views, clicks, receipts, closed>>
      /\ calls' = calls + 1 /\ sessions[id] # None
      /\ failures' \in Nat /\ failures <= failures'
  <2>1. /\ UNCHANGED <<roots, driver, dir, started, call, views, clicks, receipts, closed>>
        /\ calls' = calls + 1 /\ sessions[id] # None
    BY DEF BS!Navigate, BS!Call, BS!history, BS!Open, BS!Mine
  <2>2. failures' = failures \/ failures' = failures + 1
    BY DEF BS!Navigate, BS!Fault
  <2> QED BY <2>1, <2>2 DEF Counters
<1>2. /\ pages' \in Nat
      /\ sessions' \in [BrowserIds -> Sessions \cup {None}]
      /\ \A i \in BrowserIds \ {id} : sessions'[i] = sessions[i]
      /\ sessions'[id] # None /\ sessions'[id].close = sessions[id].close
      /\ \A a \in Looks : Before(a, sessions[id]) => Before(a, sessions'[id])
  <2>1. CASE UNCHANGED <<pages, sessions>>
    BY <1>1, <2>1 DEF BrowserInv, BrowserTypes
  <2>2. ASSUME NEW counted \in BOOLEAN, BS!Load(id, counted)
        PROVE  <1>2
    BY <1>1, <2>2, Loads
  <2> QED BY <2>1, <2>2 DEF BS!Navigate
<1>3. BrowserTypes'
  BY <1>1, <1>2 DEF BrowserInv, BrowserTypes
<1>4. LooksAgree'
  BY <1>1, <1>2, LooksStay
<1>5. ArrivesLater'
  BY <1>1, ArrivalsWait DEF Counters
<1>6. NothingIsLeft'
  BY <1>1, <1>2, LeavesNothingNew
<1> QED BY <1>3, <1>4, <1>5, <1>6 DEF BrowserInv

LEMMA BrowserObserved ==
    ASSUME BS!NoneAssumption, BrowserInv, Counters, NEW id \in BrowserIds, NEW owner \in Owners,
           BS!Observe(id, owner)
    PROVE  BrowserInv'
<1>1. /\ UNCHANGED <<roots, sessions, driver, dir, started, pages, failures, call, clicks, receipts, closed>>
      /\ calls' = calls + 1 /\ BS!Open(id, owner)
  BY DEF BS!Observe, BS!Call
<1>2. PICK a : /\ a = [id |-> id, owner |-> owner, generation |-> sessions[id].generation,
                       page |-> sessions[id].page, steady |-> sessions[id].steady]
               /\ views' = views \cup {a}
  BY DEF BS!Observe
<1>3. /\ a \in Looks /\ a.id = id /\ Before(a, sessions[id]) /\ Agree(a, a)
      /\ \A b \in views \cup clicks : Agree(a, b) /\ Agree(b, a)
  BY <1>1, <1>2, LooksNow
<1>4. sessions[id] # None /\ id \in started
  BY <1>1 DEF BS!Open, BS!Mine, BrowserInv, NothingIsLeft
<1>5. (views \cup clicks)' = views \cup clicks \cup {a}
  BY <1>1, <1>2
<1>6. BrowserTypes'
  BY <1>1, <1>3, <1>5 DEF BrowserInv, BrowserTypes
<1>7. LooksAgree'
  <2>1. \A b \in (views \cup clicks)' :
            b.id \in started' /\ (sessions'[b.id] # None => Before(b, sessions'[b.id]))
    BY <1>1, <1>3, <1>4, <1>5 DEF BrowserInv, LooksAgree
  <2>2. \A b, c \in (views \cup clicks)' : Agree(b, c)
    BY <1>3, <1>5 DEF BrowserInv, LooksAgree
  <2> QED BY <2>1, <2>2 DEF LooksAgree, Before, Agree
<1>8. ArrivesLater'
  BY <1>1, ArrivalsWait DEF Counters
<1>9. NothingIsLeft'
  BY <1>1, LeavesNothingNew DEF Counters
<1> QED BY <1>6, <1>7, <1>8, <1>9 DEF BrowserInv

LEMMA BrowserClicked ==
    ASSUME BS!NoneAssumption, BrowserInv, Counters, NEW id \in BrowserIds, NEW owner \in Owners,
           NEW generation, BS!Click(id, owner, generation)
    PROVE  BrowserInv'
<1>1. /\ UNCHANGED <<roots, driver, dir, started, failures, call, views, receipts, closed>>
      /\ calls' = calls + 1 /\ BS!Open(id, owner) /\ BS!Clicked(id, owner)
  BY DEF BS!Click, BS!Call
<1>2. /\ LooksAgree' /\ (views \cup clicks)' \subseteq Looks
      /\ pages' \in Nat
      /\ sessions' \in [BrowserIds -> Sessions \cup {None}]
      /\ \A i \in BrowserIds : (sessions'[i] # None <=> sessions[i] # None)
                               /\ sessions'[i].close = sessions[i].close
  BY <1>1, ClickedLooks
<1>3. BrowserTypes'
  BY <1>1, <1>2 DEF BrowserInv, BrowserTypes
<1>4. ArrivesLater'
  BY <1>1, ArrivalsWait DEF Counters
<1>5. NothingIsLeft'
  BY <1>1, <1>2, LeavesNothingNew DEF Counters
<1> QED BY <1>2, <1>3, <1>4, <1>5 DEF BrowserInv

LEMMA BrowserAsked ==
    ASSUME BS!NoneAssumption, BrowserInv, Counters, NEW id \in BrowserIds, NEW owner \in Owners,
           NEW file \in Files, NEW generation, BS!Download(id, owner, file, generation)
    PROVE  BrowserInv'
<1>1. /\ UNCHANGED <<roots, driver, dir, started, failures, views, receipts, closed>>
      /\ calls' = calls + 1 /\ BS!Open(id, owner) /\ BS!Clicked(id, owner)
      /\ dir[id][file] = None
      /\ call' = [kind |-> "download", id |-> id, op |-> calls', file |-> file]
  BY DEF BS!Download, BS!Call
<1>2. /\ LooksAgree' /\ (views \cup clicks)' \subseteq Looks
      /\ pages' \in Nat
      /\ sessions' \in [BrowserIds -> Sessions \cup {None}]
      /\ \A i \in BrowserIds : (sessions'[i] # None <=> sessions[i] # None)
                               /\ sessions'[i].close = sessions[i].close
  BY <1>1, ClickedLooks
<1>3. /\ call' \in Downloads /\ call'.id = id /\ call'.file = file /\ call'.op = calls'
      /\ calls' \in Nat
  BY <1>1 DEF Downloads, Counters
<1>4. BrowserTypes'
  BY <1>1, <1>2, <1>3 DEF BrowserInv, BrowserTypes
<1>5. ArrivesLater'
  <2>1. BS!ReceiptIsNew'
    BY <1>1 DEF BrowserInv, ArrivesLater, BS!ReceiptIsNew
  <2>2. call'.op <= calls'
    BY <1>3
  <2>3. dir'[call'.id][call'.file] = None
    BY <1>1, <1>3
  <2> QED BY <2>1, <2>2, <2>3 DEF ArrivesLater
<1>6. NothingIsLeft'
  BY <1>1, <1>2, LeavesNothingNew DEF Counters
<1> QED BY <1>2, <1>4, <1>5, <1>6 DEF BrowserInv

LEMMA BrowserChanges ==
    ASSUME BS!NoneAssumption, BrowserInv, Counters, NEW id \in BrowserIds, BS!PageChanges(id)
    PROVE  BrowserInv'
<1>1. /\ UNCHANGED <<roots, driver, dir, started, calls, failures, call, views, clicks, receipts, closed>>
      /\ sessions[id] # None /\ BS!Load(id, FALSE)
  BY DEF BS!PageChanges, BS!history
<1>2. /\ pages' \in Nat
      /\ sessions' \in [BrowserIds -> Sessions \cup {None}]
      /\ \A i \in BrowserIds \ {id} : sessions'[i] = sessions[i]
      /\ sessions'[id] # None /\ sessions'[id].close = sessions[id].close
      /\ \A a \in Looks : Before(a, sessions[id]) => Before(a, sessions'[id])
  BY <1>1, Loads
<1>3. BrowserTypes'
  BY <1>1, <1>2 DEF BrowserInv, BrowserTypes
<1>4. LooksAgree'
  BY <1>1, <1>2, LooksStay
<1>5. ArrivesLater'
  BY <1>1, ArrivalsWait DEF Counters
<1>6. NothingIsLeft'
  BY <1>1, <1>2, LeavesNothingNew DEF Counters
<1> QED BY <1>3, <1>4, <1>5, <1>6 DEF BrowserInv

\* What Firefox does with a file.
LEMMA BrowserFiles ==
    ASSUME BS!NoneAssumption, BrowserInv, Counters, NEW id \in BrowserIds, NEW file \in Files,
           BS!Arrives(id, file) \/ BS!Completes(id, file)
    PROVE  BrowserInv'
<1>1. /\ UNCHANGED <<roots, sessions, driver, started, pages, calls, failures, call,
                     views, clicks, receipts, closed>>
  BY DEF BS!Arrives, BS!Completes, BS!history
<1>2. PICK d \in Downloaded :
          /\ dir' = [dir EXCEPT ![id][file] = d]
          /\ d.at = calls \/ (dir[id][file] # None /\ d.at = dir[id][file].at)
  <2>1. CASE BS!Arrives(id, file)
    <3> DEFINE d == [part |-> TRUE, at |-> calls]
    <3>1. d \in Downloaded /\ d.at = calls /\ dir' = [dir EXCEPT ![id][file] = d]
      BY <2>1 DEF BS!Arrives, Downloaded, Counters
    <3> QED BY <3>1
  <2>2. CASE BS!Completes(id, file)
    <3> DEFINE d == [dir[id][file] EXCEPT !.part = FALSE]
    <3>1. dir[id][file] # None /\ dir' = [dir EXCEPT ![id][file] = d]
      BY <2>2 DEF BS!Completes
    <3>2. dir[id][file] \in Downloaded
      BY <3>1 DEF BrowserInv, BrowserTypes
    <3>3. d \in Downloaded /\ d.at = dir[id][file].at
      BY <3>2 DEF Downloaded
    <3> QED BY <3>1, <3>3
  <2> QED BY <2>1, <2>2
<1>3. /\ dir' \in [BrowserIds -> [Files -> Downloaded \cup {None}]]
      /\ dir'[id][file] = d
      /\ \A i \in BrowserIds, f \in Files : i # id \/ f # file => dir'[i][f] = dir[i][f]
  BY <1>2 DEF BrowserInv, BrowserTypes
<1>4. BrowserTypes'
  BY <1>1, <1>3 DEF BrowserInv, BrowserTypes
<1>5. LooksAgree'
  BY <1>1, LooksStay
<1>6. ArrivesLater'
  <2>1. BS!ReceiptIsNew'
    BY <1>1 DEF BrowserInv, ArrivesLater, BS!ReceiptIsNew
  <2>2. ASSUME call.kind = "download"
        PROVE  call.op <= calls /\ (dir'[call.id][call.file] # None => dir'[call.id][call.file].at >= call.op)
    <3>1. call.id \in BrowserIds /\ call.file \in Files /\ call.op \in Nat /\ call.op <= calls
      BY <2>2 DEF BrowserInv, BrowserTypes, ArrivesLater, Downloads
    <3>2. dir[call.id][call.file] # None => dir[call.id][call.file].at >= call.op
      BY <2>2 DEF BrowserInv, ArrivesLater
    <3>3. CASE call.id = id /\ call.file = file
      BY <1>2, <1>3, <3>1, <3>2, <3>3 DEF Counters
    <3>4. CASE call.id # id \/ call.file # file
      BY <1>3, <3>1, <3>2, <3>4
    <3> QED BY <3>3, <3>4
  <2> QED BY <1>1, <2>1, <2>2 DEF ArrivesLater
<1>7. NothingIsLeft'
  BY <1>1, LeavesNothingNew DEF Counters
<1> QED BY <1>4, <1>5, <1>6, <1>7 DEF BrowserInv

LEMMA BrowserEnds ==
    ASSUME BS!NoneAssumption, BrowserInv, Counters, NEW id \in BrowserIds,
           BS!Receive(id) \/ BS!DownloadTimeout(id)
    PROVE  BrowserInv'
<1>1. /\ UNCHANGED <<roots, sessions, driver, dir, started, pages, calls, failures, views, clicks, closed>>
      /\ call.kind = "download" /\ call.id = id /\ call' = BS!Idle /\ call'.kind # "download"
  BY DEF BS!Receive, BS!DownloadTimeout, BS!history, BS!Idle
<1>2. BrowserTypes'
  BY <1>1 DEF BrowserInv, BrowserTypes
<1>3. LooksAgree'
  BY <1>1, LooksStay
<1>4. ArrivesLater'
  <2>1. CASE BS!Receive(id)
    <3>1. PICK r : /\ r = [op |-> call.op, at |-> dir[id][call.file].at, part |-> dir[id][call.file].part]
                   /\ receipts' = receipts \cup {r}
                   /\ dir[id][call.file] # None /\ ~dir[id][call.file].part
      BY <2>1 DEF BS!Receive
    <3>2. ~r.part /\ r.at >= r.op
      BY <1>1, <3>1 DEF BrowserInv, ArrivesLater
    <3>3. BS!ReceiptIsNew'
      BY <3>1, <3>2 DEF BrowserInv, ArrivesLater, BS!ReceiptIsNew
    <3> QED BY <1>1, <3>3 DEF ArrivesLater
  <2>2. CASE BS!DownloadTimeout(id)
    <3>1. UNCHANGED receipts
      BY <2>2 DEF BS!DownloadTimeout, BS!history
    <3> QED BY <1>1, <3>1, ArrivalsWait DEF Counters
  <2> QED BY <2>1, <2>2
<1>5. NothingIsLeft'
  BY <1>1, LeavesNothingNew DEF Counters
<1> QED BY <1>2, <1>3, <1>4, <1>5 DEF BrowserInv

LEMMA BrowserClosed ==
    ASSUME BS!NoneAssumption, BrowserInv, Counters, NEW id \in BrowserIds, NEW owner \in Owners,
           BS!Close(id, owner)
    PROVE  BrowserInv'
<1>1. /\ UNCHANGED <<started, pages, call, views, clicks, receipts>>
      /\ calls' = calls + 1 /\ sessions[id] # None /\ sessions[id].close = "open"
  BY DEF BS!Close, BS!Call, BS!Open, BS!Mine
<1>2. /\ IsFiniteSet(roots) /\ roots \cup closed \subseteq started
      /\ driver = {i \in BrowserIds : sessions[i] # None} /\ driver \subseteq roots
      /\ closed \cap (roots \cup driver) = {}
      /\ id \in driver /\ id \in roots /\ id \in started /\ id \notin Unconfirmed
  BY <1>1 DEF BrowserInv, NothingIsLeft, Unconfirmed
<1>3. /\ IsFiniteSet(roots \ driver) /\ IsFiniteSet(Unconfirmed)
      /\ Cardinality(roots \ driver) \in Nat /\ Cardinality(Unconfirmed) \in Nat
      /\ Cardinality(roots \ driver) + Cardinality(Unconfirmed) <= failures /\ failures \in Nat
  BY LeavesFinite DEF BrowserInv, NothingIsLeft, Counters
<1> DEFINE u == [sessions[id] EXCEPT !.close = "unconfirmed"]
<1>4. /\ u \in Sessions /\ u.close = "unconfirmed" /\ u.owner = sessions[id].owner
      /\ u.generation = sessions[id].generation /\ u.steady = sessions[id].steady
      /\ u.page = sessions[id].page
  <2>1. sessions[id] \in Sessions
    BY <1>1 DEF BrowserInv, BrowserTypes
  <2> QED BY <2>1 DEF Sessions
<1>5. u # None
  BY <1>4 DEF Sessions, BS!NoneAssumption
<1>6. \/ sessions' = [sessions EXCEPT ![id] = None]
      \/ sessions' = [sessions EXCEPT ![id] = u]
  BY DEF BS!Close
<1> HIDE DEF u
<1>7. /\ sessions' \in [BrowserIds -> Sessions \cup {None}]
      /\ \A i \in BrowserIds \ {id} : sessions'[i] = sessions[i]
      /\ sessions'[id] = None \/ sessions'[id] = u
  BY <1>4, <1>6 DEF BrowserInv, BrowserTypes
<1>8. \A i \in BrowserIds : dir'[i] = dir[i] \/ dir'[i] = BS!NoFiles
  BY DEF BS!Close, BrowserInv, BrowserTypes
<1>9. BrowserTypes'
  <2>1. BS!NoFiles \in [Files -> Downloaded \cup {None}]
    BY DEF BS!NoFiles
  <2>2. dir' = dir \/ dir' = [dir EXCEPT ![id] = BS!NoFiles]
    BY DEF BS!Close
  <2>3. dir' \in [BrowserIds -> [Files -> Downloaded \cup {None}]]
    BY <2>1, <2>2 DEF BrowserInv, BrowserTypes
  <2> QED BY <1>1, <1>7, <2>3 DEF BrowserInv, BrowserTypes
<1>10. LooksAgree'
  <2>1. \A a \in Looks : Before(a, sessions[id]) => Before(a, u)
    BY <1>4 DEF Before
  <2> QED BY <1>1, <1>7, <2>1, LooksStay
<1>11. ArrivesLater'
  BY <1>1, <1>8, ArrivalsWait DEF Counters
<1>12. NothingIsLeft'
  <2>1. CASE /\ sessions' = [sessions EXCEPT ![id] = None] /\ driver' = driver \ {id}
             /\ roots' = roots \ {id} /\ closed' = closed \cup {id} /\ UNCHANGED failures
    <3>1. sessions'[id] = None
      BY <2>1 DEF BrowserInv, BrowserTypes
    <3>2. driver' = {i \in BrowserIds : sessions'[i] # None}
      BY <1>2, <1>7, <2>1, <3>1
    <3>3. roots' \ driver' = roots \ driver
      BY <1>2, <2>1
    <3>4. Unconfirmed' = Unconfirmed
      BY <1>2, <1>7, <2>1 DEF Unconfirmed
    <3>5. IsFiniteSet(roots')
      BY <1>2, <2>1, FS_Subset
    <3>6. /\ roots' \cup closed' \subseteq started' /\ driver' \subseteq roots'
          /\ closed' \cap (roots' \cup driver') = {}
      BY <1>1, <1>2, <2>1
    <3>7. Cardinality(roots' \ driver') + Cardinality(Unconfirmed') <= failures'
      BY <1>3, <2>1, <3>3, <3>4
    <3> QED BY <3>2, <3>5, <3>6, <3>7 DEF NothingIsLeft
  <2>2. CASE /\ sessions' = [sessions EXCEPT ![id] = None] /\ driver' = driver \ {id}
             /\ BS!Fault /\ UNCHANGED <<roots, closed>>
    <3>1. sessions'[id] = None
      BY <2>2 DEF BrowserInv, BrowserTypes
    <3>2. driver' = {i \in BrowserIds : sessions'[i] # None}
      BY <1>2, <1>7, <2>2, <3>1
    <3>3. roots' \ driver' = (roots \ driver) \cup {id} /\ id \notin roots \ driver
      BY <1>2, <2>2
    <3>4. Cardinality((roots \ driver) \cup {id}) = Cardinality(roots \ driver) + 1
      BY <1>3, <3>3, FS_AddElement
    <3>5. Unconfirmed' = Unconfirmed
      BY <1>2, <1>7, <2>2 DEF Unconfirmed
    <3>6. /\ IsFiniteSet(roots') /\ roots' \cup closed' \subseteq started' /\ driver' \subseteq roots'
          /\ closed' \cap (roots' \cup driver') = {}
      BY <1>1, <1>2, <2>2
    <3>7. failures' = failures + 1
      BY <2>2 DEF BS!Fault
    <3>8. Cardinality(roots' \ driver') + Cardinality(Unconfirmed') <= failures'
      BY <1>3, <3>3, <3>4, <3>5, <3>7
    <3> QED BY <3>2, <3>6, <3>8 DEF NothingIsLeft
  <2>3. CASE /\ BS!Fault /\ sessions' = [sessions EXCEPT ![id] = u]
             /\ UNCHANGED <<driver, roots, closed>>
    <3>1. sessions'[id] = u
      BY <2>3 DEF BrowserInv, BrowserTypes
    <3>2. driver' = {i \in BrowserIds : sessions'[i] # None}
      BY <1>1, <1>2, <1>5, <1>7, <2>3, <3>1
    <3>3. Unconfirmed' = Unconfirmed \cup {id}
      <4>1. id \in driver' /\ sessions'[id].close # "open"
        BY <1>2, <1>4, <2>3, <3>1
      <4> QED BY <1>2, <1>7, <2>3, <4>1 DEF Unconfirmed
    <3>4. Cardinality(Unconfirmed \cup {id}) = Cardinality(Unconfirmed) + 1
      BY <1>2, <1>3, FS_AddElement
    <3>5. failures' = failures + 1
      BY <2>3 DEF BS!Fault
    <3>6. Cardinality(roots' \ driver') + Cardinality(Unconfirmed') <= failures'
      BY <1>3, <2>3, <3>3, <3>4, <3>5
    <3> QED BY <1>1, <1>2, <2>3, <3>2, <3>6 DEF NothingIsLeft
  <2> QED BY <2>1, <2>2, <2>3 DEF BS!Close, u
<1> QED BY <1>9, <1>10, <1>11, <1>12 DEF BrowserInv

LEMMA BrowserStep ==
    ASSUME BS!NoneAssumption, BrowserInv, Counters, BS!Next
    PROVE  BrowserInv'
BY BrowserStarted, BrowserNavigated, BrowserObserved, BrowserClosed, BrowserClicked, BrowserAsked,
   BrowserChanges, BrowserEnds, BrowserFiles DEF BS!Next

\* What the invariant says of the browser's promises.
LEMMA BrowserPromises ==
    ASSUME BrowserInv
    PROVE  BS!SeenIsClicked /\ BS!ReceiptIsNew /\ BS!BrowserLeavesNothing
<1>1. BS!SeenIsClicked
  BY DEF BrowserInv, LooksAgree, Agree, BS!SeenIsClicked
<1>2. \A S : BS!Cardinality(S) = Cardinality(S)
  BY Zenon DEF BS!Cardinality, Cardinality
<1>3. BS!BrowserLeavesNothing
  BY <1>2 DEF BrowserInv, NothingIsLeft, BS!BrowserLeavesNothing, Unconfirmed
<1> QED BY <1>1, <1>3 DEF BrowserInv, ArrivesLater

-----------------------------------------------------------------------------
(* terminal.exec without a signature.                                      *)

\* Configured paths name what they were configured for, or nothing.
CommandTypes ==
    /\ disk \in [DOMAIN StartDisk -> Programs \cup {None}]
    /\ \A i \in DOMAIN Configured : disk[Configured[i]] \in {None, StartDisk[Configured[i]]}

\* What the decision found out, when it was that the command runs as it is.
Ruled(c, decided) ==
    /\ config.mode # "strict" /\ ~CR!InlineEval(c)
    /\ decided \in Programs /\ ~decided.shell
    /\ CR!Range(c.args) \cap (CR!ShellControl \cup CR!ForbiddenArguments) = {}
    /\ \E rule \in Rules : rule.name = decided.name /\ rule.args = c.args
    /\ c.path = None => decided.name = c.name

CommandInv ==
    /\ CommandTypes /\ CR!UnsignedAsRuled
    /\ CR!At("resolve") => Ruled(call.command, call.decided)

\* What is resolved is one of the configured files; a name resolves to a file of that name.
LEMMA Resolved ==
    ASSUME CR!FilesAssumption, CommandTypes, NEW c, NEW file,
           file = CR!Resolve(disk, c), file # None
    PROVE  /\ file \in Programs
           /\ \E i \in DOMAIN Configured : StartDisk[Configured[i]] = file
           /\ c.path = None => file.name = c.name
<1>1. /\ Configured \in Seq(DOMAIN StartDisk) /\ DOMAIN Configured \subseteq Nat
      /\ \A i \in DOMAIN Configured : Configured[i] \in DOMAIN StartDisk
  BY DEF CR!FilesAssumption
<1>2. ASSUME NEW i \in CR!Trusted(disk), file = disk[Configured[i]]
      PROVE  file \in Programs /\ \E j \in DOMAIN Configured : StartDisk[Configured[j]] = file
  <2>1. i \in DOMAIN Configured /\ disk[Configured[i]] # None
    BY <1>2 DEF CR!Trusted
  <2> QED BY <1>1, <1>2, <2>1 DEF CommandTypes
<1>3. CASE c.path = None
  <2> DEFINE named == {i \in CR!Trusted(disk) : disk[Configured[i]].name = c.name}
  <2>1. named # {} /\ file = disk[Configured[CHOOSE i \in named : \A j \in named : i <= j]]
    BY <1>3 DEF CR!Resolve, CR!Named
  <2>2. named \in SUBSET Nat
    BY <1>1 DEF CR!Trusted
  <2>3. \E i \in named : \A j \in named : i <= j
    <3> HIDE DEF named
    <3> QED BY <2>1, <2>2, LeastNumber
  <2>4. PICK i \in named : file = disk[Configured[i]]
    <3> HIDE DEF named
    <3> QED BY <2>1, <2>3
  <2> QED BY <1>2, <2>4
<1>4. CASE c.path # None
  <2>1. PICK i \in CR!Trusted(disk) : disk[Configured[i]] = file
    BY <1>4 DEF CR!Resolve
  <2> QED BY <1>2, <1>4, <2>1
<1> QED BY <1>3, <1>4

LEMMA CommandStarts ==
    ASSUME CR!FilesAssumption, CR!Init
    PROVE  CommandInv
<1>1. CommandTypes
  BY DEF CR!Init, CR!FilesAssumption, CommandTypes
<1>2. CR!UnsignedAsRuled /\ ~CR!At("resolve")
  BY DEF CR!Init, CR!UnsignedAsRuled, CR!At, CR!Idle
<1> QED BY <1>1, <1>2 DEF CommandInv

LEMMA CommandWaits ==
    ASSUME CommandInv, UNCHANGED command, Apart({"command"})
    PROVE  CommandInv'
<1>1. CommandTypes' /\ CR!UnsignedAsRuled'
  BY DEF CommandInv, CommandTypes, CR!UnsignedAsRuled, command
<1>2. CR!At("resolve")' => Ruled(call.command, call.decided)'
  BY DEF CommandInv, Apart, CR!At, Ruled, command
<1> QED BY <1>1, <1>2 DEF CommandInv

LEMMA CommandMoves ==
    ASSUME Counters, CR!Next, UNCHANGED failures, NEW kinds, kinds \cap {"idle", "command"} = {}
    PROVE  Apart(kinds) /\ Grow
<1>1. ASSUME NEW c, CR!Authorize(c)
      PROVE  Apart(kinds) /\ Grow
  <2>1. call = CR!Idle /\ call'.kind \in {"command", "idle"} /\ calls' = calls + 1
    BY <1>1 DEF CR!Authorize, CR!Idle
  <2> QED BY <2>1 DEF CR!Idle, Apart, Grow, Counters
<1>2. CASE CR!Execute \/ CR!ExecuteSigned
  <2>1. call.kind = "command" /\ call' = CR!Idle /\ UNCHANGED calls
    BY <1>2 DEF CR!Execute, CR!ExecuteSigned, CR!At
  <2> QED BY <2>1 DEF CR!Idle, Apart, Grow, Counters
<1>3. ASSUME NEW path, CR!Uninstall(path) \/ \E file \in Programs \cup {None} : CR!Relink(path, file)
      PROVE  Apart(kinds) /\ Grow
  <2>1. UNCHANGED <<call, calls>>
    BY <1>3 DEF CR!Uninstall, CR!Relink
  <2> QED BY <2>1 DEF Apart, Grow, Counters
<1> QED BY <1>1, <1>2, <1>3 DEF CR!Next

LEMMA CommandStep ==
    ASSUME CR!FilesAssumption, CommandInv, CR!Next
    PROVE  CommandInv'
<1>1. ASSUME NEW c, CR!Authorize(c)
      PROVE  CommandInv'
  <2>1. UNCHANGED <<disk, config, launched>>
    BY <1>1 DEF CR!Authorize
  <2>2. CommandTypes' /\ CR!UnsignedAsRuled'
    BY <2>1 DEF CommandInv, CommandTypes, CR!UnsignedAsRuled
  <2>3. ASSUME CR!At("resolve")'
        PROVE  Ruled(call.command, call.decided)'
    <3>1. /\ CR!Decision(c).reason = "terminal_safe_list"
          /\ call' = [kind |-> "command", command |-> c, pc |-> "resolve", decided |-> CR!Resolve(disk, c)]
      BY <1>1, <2>3 DEF CR!Authorize, CR!At, CR!Idle
    <3>2. ~CR!InlineEval(c) /\ config.mode # "strict" /\ CR!Safe(disk, c)
      BY <3>1 DEF CR!Decision
    <3>3. /\ CR!Resolve(disk, c) # None /\ ~CR!Resolve(disk, c).shell
          /\ CR!Range(c.args) \cap (CR!ShellControl \cup CR!ForbiddenArguments) = {}
          /\ \E rule \in Rules : rule.name = CR!Resolve(disk, c).name /\ rule.args = c.args
      BY <3>2 DEF CR!Safe
    <3>4. /\ CR!Resolve(disk, c) \in Programs
          /\ c.path = None => CR!Resolve(disk, c).name = c.name
      BY <3>3, Resolved DEF CommandInv
    <3>5. call'.command = c /\ call'.decided = CR!Resolve(disk, c) /\ config' = config
      BY <2>1, <3>1
    <3>6. Ruled(c, CR!Resolve(disk, c))
      BY <3>2, <3>3, <3>4 DEF Ruled
    <3> QED BY <3>5, <3>6 DEF Ruled
  <2> QED BY <2>2, <2>3 DEF CommandInv
<1>2. CASE CR!Execute
  <2> DEFINE c == call.command
             file == CR!Resolve(disk, c)
             harden == file # None /\ file.name = "git" /\ c.args # << >> /\ c.args[1] \in CR!ReadingGit
             x == [command |-> c, file |-> file, decided |-> call.decided, signed |-> FALSE,
                   hardened |-> harden]
  <2>1. /\ UNCHANGED <<disk, config>> /\ CR!At("resolve") /\ ~CR!At("resolve")'
        /\ \/ file # None /\ launched' = {x}
           \/ UNCHANGED launched
    BY <1>2 DEF CR!Execute, CR!At, CR!Idle
  <2>2. CommandTypes'
    BY <2>1 DEF CommandInv, CommandTypes
  <2>3. CASE UNCHANGED launched
    BY <2>1, <2>2, <2>3 DEF CommandInv, CR!UnsignedAsRuled
  <2>4. CASE file # None /\ launched' = {x}
    <3>1. Ruled(c, call.decided)
      BY <2>1 DEF CommandInv
    <3>2. /\ file \in Programs
          /\ \E i \in DOMAIN Configured : StartDisk[Configured[i]] = file
          /\ c.path = None => file.name = c.name
      BY <2>4, Resolved DEF CommandInv
    <3>3. c.path = None => file.name = call.decided.name
      BY <3>1, <3>2 DEF Ruled
    <3>4. file.name = "git" /\ c.args # << >> => (c.args[1] \in CR!ReadingGit => harden)
      BY <2>4
    <3>5. x.command = c /\ x.file = file /\ x.decided = call.decided /\ x.hardened = harden /\ config' = config
      BY <2>1
    <3>6. launched' = {x}
      BY <2>4
    <3> HIDE DEF c, file, harden, x
    <3>7. CR!UnsignedAsRuled'
      BY <3>1, <3>2, <3>3, <3>4, <3>5, <3>6 DEF Ruled, CR!UnsignedAsRuled
    <3> QED BY <2>1, <2>2, <3>7 DEF CommandInv
  <2> QED BY <2>1, <2>3, <2>4
<1>3. CASE CR!ExecuteSigned
  <2>1. UNCHANGED <<disk, config>> /\ ~CR!At("resolve")'
    BY <1>3 DEF CR!ExecuteSigned, CR!At, CR!Idle
  <2>2. CommandTypes'
    BY <2>1 DEF CommandInv, CommandTypes
  <2>3. launched' = launched \/ \E x : x.signed /\ launched' = {x}
    <3> DEFINE x == [command |-> call.command, file |-> disk[call.command.path], signed |-> TRUE]
    <3>1. x.signed /\ (launched' = launched \/ launched' = {x})
      BY <1>3 DEF CR!ExecuteSigned
    <3> QED BY <3>1
  <2> QED BY <2>1, <2>2, <2>3 DEF CommandInv, CR!UnsignedAsRuled
<1>4. ASSUME NEW path \in DOMAIN StartDisk,
             CR!Uninstall(path) \/ \E file \in Programs \cup {None} : CR!Relink(path, file)
      PROVE  CommandInv'
  <2>1. UNCHANGED <<config, call, launched>>
    BY <1>4 DEF CR!Uninstall, CR!Relink
  <2>2. CommandTypes'
    <3>1. \A i \in DOMAIN Configured : Configured[i] \in DOMAIN StartDisk
      BY DEF CR!FilesAssumption
    <3>2. StartDisk[path] \in Programs \cup {None}
      BY DEF CR!FilesAssumption
    <3>3. CASE CR!Uninstall(path)
      <4>1. PICK file \in {None, StartDisk[path]} : disk' = [disk EXCEPT ![path] = file]
        BY <3>3 DEF CR!Uninstall
      <4> QED BY <3>1, <3>2, <4>1 DEF CommandInv, CommandTypes
    <3>4. ASSUME NEW file \in Programs \cup {None}, CR!Relink(path, file)
          PROVE  CommandTypes'
      <4>1. disk' = [disk EXCEPT ![path] = file] /\ path \notin CR!Range(Configured)
        BY <3>4 DEF CR!Relink
      <4>2. \A i \in DOMAIN Configured : Configured[i] # path
        BY <4>1 DEF CR!Range
      <4> QED BY <3>1, <4>1, <4>2 DEF CommandInv, CommandTypes
    <3> QED BY <1>4, <3>3, <3>4
  <2> QED BY <2>1, <2>2 DEF CommandInv, CR!UnsignedAsRuled, CR!At, Ruled
<1> QED BY <1>1, <1>2, <1>3, <1>4 DEF CR!Next

-----------------------------------------------------------------------------
(* terminal.exec, terminal.poll and terminal.cancel.                       *)

Room == ((MaxTerminalOutput - Headroom) * 3) \div 4

Runs == [owner : Owners, limit : Nat, registered : BOOLEAN, state : TS!Outcomes \cup {"running"},
         pc : {"begin", "loop", "exit", "drain", "end"}, cancel : BOOLEAN, elapsed : BOOLEAN,
         quiet : Nat, reads : Nat, child : {"none", "alive", "exited", "killed"},
         code : Codes \cup {0}, exit : Codes \cup {0}, wrote : Nat, pipe : Nat, n : Nat]

\* The child has exited, and not with the code of a running one.
HasExited(r) == r.child = "exited" /\ r.exit = r.code /\ r.code # StillActive

\* A session whose cancellation was asked for, or was not.
RunInv(r, wanted) ==
    /\ r \in Runs
    /\ r.n <= r.limit /\ r.limit <= Room
    /\ r.state = "running" <=> r.pc # "end"
    /\ r.state = "running" => r.registered
    /\ r.pc = "begin" => r.child = "none"
    /\ r.pc = "drain" \/ r.state = "completed" => HasExited(r)
    /\ r.state \in {"completed", "cancelled", "timed_out", "output_limit"} => r.child # "alive"
    /\ r.cancel \/ r.state = "cancelled" => wanted
    /\ r.state = "timed_out" => r.elapsed

\* A thread, its child or the clock makes r to s: the table is as it was, and an outcome stays.
RunStep(r, s, wanted) ==
    /\ RunInv(s, wanted) /\ s.registered = r.registered
    /\ r.state # "running" => s.state = r.state

AnyTerminal == {"exec", "poll", "cancel"}
TerminalCalls == [kind : AnyTerminal, id : Nat, owner : Owners,
                  pc : {"look", "remove", "flag", "record"},
                  snapshot : TS!Outcomes \cup {"running"}]

RunsAreTrue ==
    /\ DOMAIN runs \subseteq 1..calls
    /\ \A id \in DOMAIN runs : RunInv(runs[id], id \in cancelled)

Unanswered(id) == call.kind = "poll" /\ call.pc = "record" /\ call.id = id /\ call.snapshot = runs[id].state

Accounts ==
    /\ told \subseteq DOMAIN runs /\ lost \subseteq DOMAIN runs
    /\ \A id \in lost : id \notin told \/ ~runs[id].registered
    /\ \A r \in returned : r.id \in DOMAIN runs /\ ~runs[r.id].registered /\ r.id \notin lost
    /\ \A id \in DOMAIN runs : ~runs[id].registered =>
          \/ id \in lost \/ Unanswered(id)
          \/ \E r \in returned : r.id = id /\ r.outcome = runs[id].state
    /\ \A id \in DOMAIN runs : runs[id].registered =>
          id \in told \cup lost \/ (call.kind = "exec" /\ call.id = id)
    /\ Cardinality(lost) <= failures

CallFits ==
    call.kind \in AnyTerminal =>
        /\ call \in TerminalCalls /\ call.id \in DOMAIN runs
        /\ call.kind = "exec" => /\ call.pc = "record" /\ runs[call.id].registered
                                 /\ call.id \notin told \cup lost
        /\ call.kind # "exec" => call.id \in told
        /\ call.kind = "poll" /\ call.pc = "remove" =>
              runs[call.id].registered /\ call.snapshot = runs[call.id].state
        /\ call.kind = "poll" /\ call.pc = "record" /\ call.snapshot # "running" =>
              /\ ~runs[call.id].registered /\ call.snapshot = runs[call.id].state
              /\ call.id \notin lost /\ \A r \in returned : r.id # call.id
        /\ call.kind = "poll" /\ call.pc = "remove" => call.snapshot # "running"

Slots == Cardinality({id \in DOMAIN runs : runs[id].registered}) <= MaxSessions

TerminalInv == RunsAreTrue /\ Accounts /\ CallFits /\ Slots

LEMMA RunsFinite ==
    ASSUME Counters, TerminalInv
    PROVE  /\ IsFiniteSet(DOMAIN runs) /\ IsFiniteSet(lost) /\ Cardinality(lost) \in Nat
           /\ IsFiniteSet({id \in DOMAIN runs : runs[id].registered})
           /\ Cardinality({id \in DOMAIN runs : runs[id].registered}) \in Nat
<1>1. IsFiniteSet(1..calls)
  BY FS_Interval DEF Counters
<1>2. IsFiniteSet(DOMAIN runs)
  BY <1>1, FS_Subset DEF TerminalInv, RunsAreTrue
<1>3. IsFiniteSet(lost) /\ IsFiniteSet({id \in DOMAIN runs : runs[id].registered})
  BY <1>2, FS_Subset DEF TerminalInv, Accounts
<1> QED BY <1>2, <1>3, FS_CardinalityType

\* The limits that remote_terminal_spec gives are small enough for a poll's answer.
LEMMA RoomFits ==
    ASSUME TS!LimitsAssumption
    PROVE  /\ Room \in Nat
           /\ \A n \in Nat : n <= Room => TS!Encoded(n) <= MaxTerminalOutput
<1>1. /\ MaxTerminalOutput \in Nat /\ Headroom \in Nat /\ Overhead \in Nat
      /\ Overhead + 3 <= Headroom /\ Headroom < MaxTerminalOutput
  BY DEF TS!LimitsAssumption
<1>2. PICK m \in Nat : m = MaxTerminalOutput - Headroom
  BY <1>1
<1>3. Room = (m * 3) \div 4
  BY <1>2 DEF Room
<1>4. Room \in Nat /\ 4 * Room <= 3 * m
  BY <1>2, <1>3
<1>5. ASSUME NEW n \in Nat, n <= Room
      PROVE  TS!Encoded(n) <= MaxTerminalOutput
  <2>1. PICK q \in Nat : q = (n + 2) \div 3
    OBVIOUS
  <2>2. 3 * q <= n + 2
    BY <2>1
  <2>3. 4 * q <= m + 2
    BY <1>2, <1>4, <1>5, <2>2
  <2>4. TS!Encoded(n) = 4 * q + Overhead
    BY <2>1 DEF TS!Encoded
  <2> QED BY <1>1, <1>2, <2>3, <2>4
<1> QED BY <1>4, <1>5

LEMMA LimitFits ==
    ASSUME TS!LimitsAssumption, NEW wanted \in Wanted
    PROVE  TS!OutputLimit(wanted) \in Nat /\ TS!OutputLimit(wanted) <= Room
<1>1. Room \in Nat /\ wanted \in Nat
  BY RoomFits DEF TS!LimitsAssumption
<1> QED BY <1>1 DEF TS!OutputLimit, TS!RoomFor, Room

RunsTo(id) ==
    /\ DOMAIN runs' = DOMAIN runs
    /\ \A j \in DOMAIN runs \ {id} : runs'[j] = runs[j]
    /\ RunStep(runs[id], runs'[id], id \in cancelled)

\* What Finish makes of a session.
LEMMA RunFinishes ==
    ASSUME NEW id \in DOMAIN runs, RunInv(runs[id], id \in cancelled), runs[id].state = "running",
           NEW outcome \in TS!Outcomes, NEW r \in Runs,
           r.registered = runs[id].registered, r.n <= r.limit, r.limit <= Room,
           outcome = "completed" => HasExited(r), outcome # "failed" => r.child # "alive",
           outcome = "cancelled" \/ r.cancel => id \in cancelled,
           outcome = "timed_out" => r.elapsed,
           TS!Finish(id, outcome, r)
    PROVE  RunsTo(id)
<1> DEFINE s == [r EXCEPT !.state = outcome, !.pc = "end", !.pipe = 0,
                          !.wrote = 0, !.quiet = 0, !.reads = 0]
<1>1. runs' = [runs EXCEPT ![id] = s]
  BY DEF TS!Finish
<1>2. s \in Runs
  BY DEF Runs
<1>3. /\ s.registered = r.registered /\ s.n = r.n /\ s.limit = r.limit /\ s.state = outcome
      /\ s.pc = "end" /\ s.child = r.child /\ s.code = r.code /\ s.exit = r.exit
      /\ s.cancel = r.cancel /\ s.elapsed = r.elapsed
  BY DEF Runs
<1> HIDE DEF s
<1>4. RunInv(s, id \in cancelled)
  BY <1>2, <1>3 DEF RunInv, HasExited, TS!Outcomes
<1> QED BY <1>1, <1>3, <1>4 DEF RunsTo, RunStep

LEMMA RunTerminates ==
    ASSUME NEW id \in DOMAIN runs, RunInv(runs[id], id \in cancelled), runs[id].pc \in {"loop", "drain"},
           NEW outcome \in {"cancelled", "timed_out", "output_limit"},
           outcome = "cancelled" => id \in cancelled, outcome = "timed_out" => runs[id].elapsed,
           TS!Terminate(id, outcome)
    PROVE  RunsTo(id)
<1>1. /\ runs[id] \in Runs /\ runs[id].state = "running" /\ runs[id].n <= runs[id].limit
      /\ runs[id].limit <= Room /\ (runs[id].cancel => id \in cancelled)
  BY DEF RunInv
<1>2. CASE TS!Finish(id, "failed", runs[id])
  BY <1>1, <1>2, RunFinishes DEF TS!Outcomes
<1>3. CASE TS!Finish(id, outcome, [runs[id] EXCEPT !.child = IF @ = "alive" THEN "killed" ELSE @])
  <2> DEFINE r == [runs[id] EXCEPT !.child = IF @ = "alive" THEN "killed" ELSE @]
  <2>1. r \in Runs
    BY <1>1 DEF Runs
  <2>2. /\ r.registered = runs[id].registered /\ r.n = runs[id].n /\ r.limit = runs[id].limit
        /\ r.cancel = runs[id].cancel /\ r.elapsed = runs[id].elapsed /\ r.child # "alive"
    BY <1>1 DEF Runs
  <2>3. TS!Finish(id, outcome, r)
    BY <1>3
  <2>4. outcome \in TS!Outcomes /\ outcome # "completed"
    BY DEF TS!Outcomes
  <2> HIDE DEF r
  <2> QED BY <1>1, <2>1, <2>2, <2>3, <2>4, RunFinishes
<1> QED BY <1>2, <1>3 DEF TS!Terminate

\* A session goes on: how the fields come out that the invariant is about.
LEMMA RunGoesOn ==
    ASSUME NEW id \in DOMAIN runs, RunInv(runs[id], id \in cancelled), NEW s \in Runs,
           runs' = [runs EXCEPT ![id] = s],
           s.registered = runs[id].registered, s.state = runs[id].state, s.limit = runs[id].limit,
           s.cancel = runs[id].cancel, s.n <= s.limit,
           s.pc # "begin", s.pc # "end", runs[id].pc # "end",
           s.pc = "drain" => HasExited(s)
    PROVE  RunsTo(id)
<1>1. RunInv(s, id \in cancelled)
  BY DEF RunInv
<1> QED BY <1>1 DEF RunsTo, RunStep

LEMMA RunSpawns ==
    ASSUME NEW id \in DOMAIN runs, RunInv(runs[id], id \in cancelled), TS!Spawn(id)
    PROVE  RunsTo(id)
<1>1. /\ runs[id] \in Runs /\ runs[id].state = "running" /\ runs[id].n <= runs[id].limit
      /\ runs[id].limit <= Room /\ runs[id].child = "none" /\ (runs[id].cancel => id \in cancelled)
  BY DEF RunInv, TS!Spawn
<1>2. CASE runs[id].cancel /\ TS!Finish(id, "cancelled", runs[id])
  BY <1>1, <1>2, RunFinishes DEF TS!Outcomes
<1>3. CASE runs' = [runs EXCEPT ![id].pc = "loop", ![id].child = "alive"]
  <2> DEFINE s == [runs[id] EXCEPT !.pc = "loop", !.child = "alive"]
  <2>1. runs' = [runs EXCEPT ![id] = s]
    BY <1>3
  <2>2. s \in Runs
    BY <1>1 DEF Runs
  <2>3. /\ s.registered = runs[id].registered /\ s.state = runs[id].state
        /\ s.limit = runs[id].limit /\ s.cancel = runs[id].cancel
        /\ s.n = runs[id].n /\ s.pc = "loop"
    BY <1>1 DEF Runs
  <2> HIDE DEF s
  <2> QED BY <1>1, <2>1, <2>2, <2>3, RunGoesOn DEF TS!Spawn
<1> QED BY <1>2, <1>3 DEF TS!Spawn

LEMMA RunTurns ==
    ASSUME NEW id \in DOMAIN runs, RunInv(runs[id], id \in cancelled), TS!Turn(id)
    PROVE  RunsTo(id)
<1>1. runs[id] \in Runs /\ runs[id].pc = "loop" /\ (runs[id].cancel => id \in cancelled)
  BY DEF RunInv, TS!Turn
<1>2. CASE runs[id].cancel /\ TS!Terminate(id, "cancelled")
  BY <1>1, <1>2, RunTerminates
<1>3. CASE runs[id].elapsed /\ TS!Terminate(id, "timed_out")
  BY <1>1, <1>3, RunTerminates
<1>4. CASE TS!Terminate(id, "output_limit")
  BY <1>1, <1>4, RunTerminates
<1>5. CASE /\ ~(runs[id].n + runs[id].pipe > runs[id].limit)
           /\ runs' = [runs EXCEPT ![id].n = @ + runs[id].pipe, ![id].pipe = 0, ![id].pc = "exit"]
  <2> DEFINE s == [runs[id] EXCEPT !.n = @ + runs[id].pipe, !.pipe = 0, !.pc = "exit"]
  <2>1. runs' = [runs EXCEPT ![id] = s]
    BY <1>5
  <2>2. /\ runs[id].n \in Nat /\ runs[id].pipe \in Nat /\ runs[id].n + runs[id].pipe \in Nat
        /\ runs[id].limit \in Nat
    BY <1>1 DEF Runs
  <2>3. s \in Runs
    BY <1>1, <2>2 DEF Runs
  <2>4. /\ s.registered = runs[id].registered /\ s.state = runs[id].state
        /\ s.limit = runs[id].limit /\ s.cancel = runs[id].cancel
        /\ s.n = runs[id].n + runs[id].pipe /\ s.pc = "exit"
    BY <1>1 DEF Runs
  <2>5. s.n <= s.limit
    BY <1>5, <2>2, <2>4
  <2> HIDE DEF s
  <2> QED BY <1>1, <2>1, <2>3, <2>4, <2>5, RunGoesOn
<1> QED BY <1>2, <1>3, <1>4, <1>5 DEF TS!Turn, TS!Read

LEMMA RunExits ==
    ASSUME NEW id \in DOMAIN runs, RunInv(runs[id], id \in cancelled), TS!Exit(id)
    PROVE  RunsTo(id)
<1>1. runs[id] \in Runs /\ runs[id].pc = "exit" /\ runs[id].n <= runs[id].limit
  BY DEF RunInv, TS!Exit
<1>2. CASE /\ runs[id].child = "exited" /\ runs[id].code # StillActive
           /\ runs' = [runs EXCEPT ![id].pc = "drain", ![id].exit = runs[id].code]
  <2> DEFINE s == [runs[id] EXCEPT !.pc = "drain", !.exit = runs[id].code]
  <2>1. runs' = [runs EXCEPT ![id] = s]
    BY <1>2
  <2>2. s \in Runs
    BY <1>1 DEF Runs
  <2>3. /\ s.registered = runs[id].registered /\ s.state = runs[id].state
        /\ s.limit = runs[id].limit /\ s.cancel = runs[id].cancel
        /\ s.n = runs[id].n /\ s.pc = "drain" /\ s.child = runs[id].child /\ s.code = runs[id].code
        /\ s.exit = s.code
    BY <1>1 DEF Runs
  <2>4. HasExited(s)
    BY <1>2, <2>3 DEF HasExited
  <2> HIDE DEF s
  <2> QED BY <1>1, <2>1, <2>2, <2>3, <2>4, RunGoesOn
<1>3. CASE runs' = [runs EXCEPT ![id].pc = "loop"]
  <2> DEFINE s == [runs[id] EXCEPT !.pc = "loop"]
  <2>1. runs' = [runs EXCEPT ![id] = s]
    BY <1>3
  <2>2. s \in Runs
    BY <1>1 DEF Runs
  <2>3. /\ s.registered = runs[id].registered /\ s.state = runs[id].state
        /\ s.limit = runs[id].limit /\ s.cancel = runs[id].cancel
        /\ s.n = runs[id].n /\ s.pc = "loop"
    BY <1>1 DEF Runs
  <2> HIDE DEF s
  <2> QED BY <1>1, <2>1, <2>2, <2>3, RunGoesOn
<1> QED BY <1>2, <1>3 DEF TS!Exit, TS!Goto

LEMMA RunDrains ==
    ASSUME NEW id \in DOMAIN runs, RunInv(runs[id], id \in cancelled), TS!Drain(id)
    PROVE  RunsTo(id)
<1>1. /\ runs[id] \in Runs /\ runs[id].state = "running" /\ runs[id].n <= runs[id].limit
      /\ runs[id].limit <= Room /\ runs[id].pc = "drain" /\ HasExited(runs[id])
      /\ (runs[id].cancel => id \in cancelled)
  BY DEF RunInv, TS!Drain
<1>2. /\ runs[id].n \in Nat /\ runs[id].pipe \in Nat /\ runs[id].n + runs[id].pipe \in Nat
      /\ runs[id].limit \in Nat /\ runs[id].reads + 1 \in Nat /\ runs[id].quiet + 1 \in Nat
  BY <1>1 DEF Runs
<1>3. CASE TS!Finish(id, "completed", runs[id]) \/ TS!Finish(id, "failed", runs[id])
  <2>1. runs[id].child # "alive"
    BY <1>1 DEF HasExited
  <2> QED BY <1>1, <1>3, <2>1, RunFinishes DEF TS!Outcomes
<1>4. CASE TS!Terminate(id, "output_limit")
  BY <1>1, <1>4, RunTerminates
<1>5. CASE runs' = [runs EXCEPT ![id].quiet = @ + 1, ![id].reads = @ + 1]
  <2> DEFINE s == [runs[id] EXCEPT !.quiet = @ + 1, !.reads = @ + 1]
  <2>1. runs' = [runs EXCEPT ![id] = s]
    BY <1>5
  <2>2. s \in Runs
    BY <1>1, <1>2 DEF Runs
  <2>3. /\ s.registered = runs[id].registered /\ s.state = runs[id].state
        /\ s.limit = runs[id].limit /\ s.cancel = runs[id].cancel
        /\ s.n = runs[id].n /\ s.pc = "drain" /\ s.child = runs[id].child /\ s.code = runs[id].code
        /\ s.exit = runs[id].exit
    BY <1>1 DEF Runs
  <2>4. HasExited(s)
    BY <1>1, <2>3 DEF HasExited
  <2> HIDE DEF s
  <2> QED BY <1>1, <2>1, <2>2, <2>3, <2>4, RunGoesOn
<1>6. CASE /\ ~(runs[id].n + runs[id].pipe > runs[id].limit)
           /\ TS!Finish(id, "failed", [runs[id] EXCEPT !.n = @ + runs[id].pipe, !.pipe = 0])
  <2> DEFINE r == [runs[id] EXCEPT !.n = @ + runs[id].pipe, !.pipe = 0]
  <2>1. r \in Runs
    BY <1>1, <1>2 DEF Runs
  <2>2. /\ r.registered = runs[id].registered /\ r.n = runs[id].n + runs[id].pipe
        /\ r.limit = runs[id].limit /\ r.cancel = runs[id].cancel /\ r.elapsed = runs[id].elapsed
    BY <1>1 DEF Runs
  <2>3. r.n <= r.limit
    BY <1>2, <1>6, <2>2
  <2>4. TS!Finish(id, "failed", r)
    BY <1>6
  <2> HIDE DEF r
  <2> QED BY <1>1, <2>1, <2>2, <2>3, <2>4, RunFinishes DEF TS!Outcomes
<1>7. CASE /\ ~(runs[id].n + runs[id].pipe > runs[id].limit)
           /\ runs' = [runs EXCEPT ![id].n = @ + runs[id].pipe, ![id].pipe = 0,
                                   ![id].quiet = 0, ![id].reads = @ + 1]
  <2> DEFINE s == [runs[id] EXCEPT !.n = @ + runs[id].pipe, !.pipe = 0, !.quiet = 0, !.reads = @ + 1]
  <2>1. runs' = [runs EXCEPT ![id] = s]
    BY <1>7
  <2>2. s \in Runs
    BY <1>1, <1>2 DEF Runs
  <2>3. /\ s.registered = runs[id].registered /\ s.state = runs[id].state
        /\ s.limit = runs[id].limit /\ s.cancel = runs[id].cancel
        /\ s.n = runs[id].n + runs[id].pipe /\ s.pc = "drain" /\ s.child = runs[id].child
        /\ s.code = runs[id].code /\ s.exit = runs[id].exit
    BY <1>1 DEF Runs
  <2>4. HasExited(s) /\ s.n <= s.limit
    BY <1>1, <1>2, <1>7, <2>3 DEF HasExited
  <2> HIDE DEF s
  <2> QED BY <1>1, <2>1, <2>2, <2>3, <2>4, RunGoesOn
<1> QED BY <1>3, <1>4, <1>5, <1>6, <1>7 DEF TS!Drain

LEMMA RunBreaks ==
    ASSUME NEW id \in DOMAIN runs, RunInv(runs[id], id \in cancelled), TS!Breaks(id)
    PROVE  RunsTo(id)
<1>1. /\ runs[id] \in Runs /\ runs[id].state = "running" /\ runs[id].n <= runs[id].limit
      /\ runs[id].limit <= Room /\ (runs[id].cancel => id \in cancelled)
      /\ TS!Finish(id, "failed", runs[id])
  BY DEF RunInv, TS!Breaks
<1> QED BY <1>1, RunFinishes DEF TS!Outcomes

\* The child and the clock go on beside the thread.
LEMMA RunBeside ==
    ASSUME NEW id \in DOMAIN runs, RunInv(runs[id], id \in cancelled),
           TS!ChildWrites(id) \/ TS!ChildExits(id) \/ TS!TimeUp(id), TS!LimitsAssumption
    PROVE  RunsTo(id)
<1>1. runs[id] \in Runs /\ runs[id].state = "running" /\ runs[id].pc # "end"
  BY DEF RunInv, TS!ChildWrites, TS!ChildExits, TS!TimeUp
<1>2. CASE TS!ChildWrites(id)
  <2>1. PICK k \in Chunks : runs' = [runs EXCEPT ![id].pipe = @ + k, ![id].wrote = @ + k]
    BY <1>2 DEF TS!ChildWrites
  <2> DEFINE s == [runs[id] EXCEPT !.pipe = @ + k, !.wrote = @ + k]
  <2>2. runs' = [runs EXCEPT ![id] = s]
    BY <2>1
  <2>3. runs[id].pipe + k \in Nat /\ runs[id].wrote + k \in Nat
    <3>1. k \in Nat /\ runs[id].pipe \in Nat /\ runs[id].wrote \in Nat
      BY <1>1 DEF TS!LimitsAssumption, Runs
    <3> QED BY <3>1
  <2>4. s \in Runs
    BY <1>1, <2>3 DEF Runs
  <2>5. /\ s.registered = runs[id].registered /\ s.state = runs[id].state
        /\ s.limit = runs[id].limit /\ s.cancel = runs[id].cancel /\ s.elapsed = runs[id].elapsed
        /\ s.n = runs[id].n /\ s.pc = runs[id].pc /\ s.child = runs[id].child
        /\ s.code = runs[id].code /\ s.exit = runs[id].exit
    BY <1>1 DEF Runs
  <2> HIDE DEF s
  <2>6. RunInv(s, id \in cancelled)
    BY <2>4, <2>5 DEF RunInv, HasExited
  <2> QED BY <2>2, <2>5, <2>6 DEF RunsTo, RunStep
<1>3. CASE TS!ChildExits(id)
  <2>1. PICK code \in Codes : runs' = [runs EXCEPT ![id].child = "exited", ![id].code = code]
    BY <1>3 DEF TS!ChildExits
  <2> DEFINE s == [runs[id] EXCEPT !.child = "exited", !.code = code]
  <2>2. runs' = [runs EXCEPT ![id] = s]
    BY <2>1
  <2>3. s \in Runs
    BY <1>1 DEF Runs
  <2>4. /\ s.registered = runs[id].registered /\ s.state = runs[id].state
        /\ s.limit = runs[id].limit /\ s.cancel = runs[id].cancel /\ s.elapsed = runs[id].elapsed
        /\ s.n = runs[id].n /\ s.pc = runs[id].pc
    BY <1>1 DEF Runs
  <2> HIDE DEF s
  <2>5. s.pc # "begin" /\ s.pc # "end" /\ s.pc # "drain"
    BY <1>1, <1>3, <2>4 DEF RunInv, HasExited, TS!ChildExits
  <2>6. s.n <= s.limit
    BY <2>4 DEF RunInv
  <2> QED BY <1>1, <2>2, <2>3, <2>4, <2>5, <2>6, RunGoesOn
<1>4. CASE TS!TimeUp(id)
  <2> DEFINE s == [runs[id] EXCEPT !.elapsed = TRUE]
  <2>1. runs' = [runs EXCEPT ![id] = s]
    BY <1>4 DEF TS!TimeUp
  <2>2. s \in Runs
    BY <1>1 DEF Runs
  <2>3. /\ s.registered = runs[id].registered /\ s.state = runs[id].state
        /\ s.limit = runs[id].limit /\ s.cancel = runs[id].cancel
        /\ s.n = runs[id].n /\ s.pc = runs[id].pc /\ s.child = runs[id].child
        /\ s.code = runs[id].code /\ s.exit = runs[id].exit
    BY <1>1 DEF Runs
  <2> HIDE DEF s
  <2>4. s.pc # "begin" /\ s.pc # "end" /\ s.n <= s.limit /\ (s.pc = "drain" => HasExited(s))
    BY <1>1, <1>4, <2>3 DEF RunInv, HasExited, TS!TimeUp
  <2> QED BY <1>1, <2>1, <2>2, <2>3, <2>4, RunGoesOn
<1> QED BY <1>2, <1>3, <1>4

\* A session's step is nobody's loss.
LEMMA RunKeeps ==
    ASSUME Counters, TerminalInv, NEW id \in DOMAIN runs, RunsTo(id),
           UNCHANGED <<call, calls, told, returned, lost, cancelled>>,
           failures' \in Nat, failures <= failures'
    PROVE  TerminalInv'
<1>1. /\ DOMAIN runs' = DOMAIN runs
      /\ \A j \in DOMAIN runs : /\ RunInv(runs'[j], j \in cancelled)
                                /\ runs'[j].registered = runs[j].registered
                                /\ runs[j].state # "running" => runs'[j].state = runs[j].state
  BY DEF TerminalInv, RunsAreTrue, RunsTo, RunStep
<1>2. RunsAreTrue'
  BY <1>1 DEF TerminalInv, RunsAreTrue
<1>3. \A j \in DOMAIN runs : ~runs[j].registered => runs[j].state # "running"
  BY DEF TerminalInv, RunsAreTrue, RunInv
<1>4. Accounts'
  <2>1. Cardinality(lost) <= failures'
    BY RunsFinite DEF TerminalInv, Accounts, Counters
  <2>2. \A j \in DOMAIN runs : ~runs'[j].registered =>
            \/ j \in lost \/ Unanswered(j)'
            \/ \E r \in returned : r.id = j /\ r.outcome = runs'[j].state
    BY <1>1, <1>3 DEF TerminalInv, Accounts, Unanswered
  <2>3. /\ told \subseteq DOMAIN runs' /\ lost \subseteq DOMAIN runs'
        /\ \A j \in lost : j \notin told \/ ~runs'[j].registered
        /\ \A r \in returned : r.id \in DOMAIN runs' /\ ~runs'[r.id].registered /\ r.id \notin lost
        /\ \A j \in DOMAIN runs' : runs'[j].registered =>
              j \in told \cup lost \/ (call.kind = "exec" /\ call.id = j)
    BY <1>1 DEF TerminalInv, Accounts
  <2> QED BY <1>1, <2>1, <2>2, <2>3 DEF Accounts
<1>5. CallFits'
  <2>1. call.kind \in AnyTerminal => call.id \in DOMAIN runs
    BY DEF TerminalInv, CallFits
  <2> QED BY <1>1, <1>3, <2>1 DEF TerminalInv, CallFits
<1>6. Slots'
  <2>1. {j \in DOMAIN runs' : runs'[j].registered} = {j \in DOMAIN runs : runs[j].registered}
    BY <1>1
  <2> QED BY <2>1 DEF TerminalInv, Slots
<1> QED BY <1>2, <1>4, <1>5, <1>6 DEF TerminalInv

LEMMA TerminalStarts == ASSUME TS!LimitsAssumption, TS!Init PROVE TerminalInv
<1>1. runs = << >> /\ DOMAIN runs = {}
  BY DEF TS!Init
<1>2. {id \in DOMAIN runs : runs[id].registered} = {}
  BY <1>1
<1>3. Cardinality({}) = 0
  BY FS_EmptySet
<1>4. Slots
  BY <1>2, <1>3 DEF Slots, TS!LimitsAssumption
<1>5. RunsAreTrue
  BY <1>1 DEF RunsAreTrue
<1>6. Accounts
  BY <1>1, <1>3 DEF TS!Init, Accounts
<1>7. CallFits
  BY DEF TS!Init, TS!Idle, CallFits, AnyTerminal
<1> QED BY <1>4, <1>5, <1>6, <1>7 DEF TerminalInv

LEMMA TerminalWaits ==
    ASSUME Counters, TerminalInv, UNCHANGED terminal, Apart(AnyTerminal), Grow
    PROVE  TerminalInv'
<1>1. UNCHANGED <<runs, told, returned, lost, cancelled>>
  BY DEF terminal
<1>2. RunsAreTrue'
  <2>1. 1..calls \subseteq 1..calls'
    BY DEF Counters, Grow
  <2> QED BY <1>1, <2>1 DEF TerminalInv, RunsAreTrue
<1>3. call.kind \in AnyTerminal \/ call'.kind \in AnyTerminal => call' = call
  BY DEF Apart
<1>4. Accounts'
  <2>1. Cardinality(lost) <= failures'
    BY RunsFinite DEF TerminalInv, Accounts, Counters, Grow
  <2>2. \A id : Unanswered(id) => Unanswered(id)'
    BY <1>1, <1>3 DEF Unanswered, AnyTerminal
  <2>3. \A id : call.kind = "exec" /\ call.id = id => call'.kind = "exec" /\ call'.id = id
    BY <1>3 DEF AnyTerminal
  <2> QED BY <1>1, <2>1, <2>2, <2>3 DEF TerminalInv, Accounts
<1>5. CallFits'
  BY <1>1, <1>3 DEF TerminalInv, CallFits
<1>6. Slots'
  BY <1>1 DEF TerminalInv, Slots
<1> QED BY <1>2, <1>4, <1>5, <1>6 DEF TerminalInv

LEMMA SessionStarted ==
    ASSUME TS!LimitsAssumption, Counters, TerminalInv, NEW owner \in Owners, NEW wanted \in Wanted,
           call = TS!Idle, calls' = calls + 1,
           call' = [kind |-> "exec", id |-> calls + 1, owner |-> owner, pc |-> "record", snapshot |-> "running"],
           TS!Cardinality(TS!Registered) < MaxSessions,
           runs' = [id \in DOMAIN runs \cup {calls'} |->
                      IF id = calls' THEN TS!Run(owner, TS!OutputLimit(wanted)) ELSE runs[id]],
           UNCHANGED <<failures, told, returned, lost, cancelled>>
    PROVE  TerminalInv'
<1> DEFINE new == calls + 1
           r == TS!Run(owner, TS!OutputLimit(wanted))
<1>1. calls \in Nat /\ new \in Nat /\ new \notin 1..calls /\ new \in 1..calls' /\ 1..calls \subseteq 1..calls'
  BY DEF Counters
<1>2. /\ DOMAIN runs' = DOMAIN runs \cup {new} /\ new \notin DOMAIN runs
      /\ runs'[new] = r /\ \A j \in DOMAIN runs : runs'[j] = runs[j]
  BY <1>1 DEF TerminalInv, RunsAreTrue
<1>3. /\ r \in Runs /\ r.registered /\ r.state = "running" /\ r.pc = "begin" /\ r.n = 0
      /\ r.limit = TS!OutputLimit(wanted) /\ r.child = "none" /\ ~r.cancel
  BY LimitFits DEF TS!Run, Runs
<1>4. RunInv(r, new \in cancelled)
  <2>1. r.limit \in Nat /\ r.limit <= Room
    BY <1>3, LimitFits
  <2> HIDE DEF r
  <2> QED BY <1>3, <2>1 DEF RunInv
<1>5. RunsAreTrue'
  BY <1>1, <1>2, <1>4 DEF TerminalInv, RunsAreTrue
<1>6. /\ call'.kind = "exec" /\ call'.id = new /\ call'.pc = "record" /\ call' \in TerminalCalls
      /\ call.kind = "idle"
  BY <1>1 DEF TS!Idle, TerminalCalls, AnyTerminal
<1> HIDE DEF r, new
<1>7. Accounts'
  <2>1. /\ told \subseteq DOMAIN runs' /\ lost \subseteq DOMAIN runs' /\ Cardinality(lost) <= failures
        /\ \A j \in lost : j \notin told \/ ~runs'[j].registered
        /\ \A x \in returned : x.id \in DOMAIN runs' /\ ~runs'[x.id].registered /\ x.id \notin lost
    BY <1>2 DEF TerminalInv, Accounts
  <2>2. \A j \in DOMAIN runs' : ~runs'[j].registered =>
            \/ j \in lost \/ Unanswered(j)'
            \/ \E x \in returned : x.id = j /\ x.outcome = runs'[j].state
    BY <1>2, <1>3, <1>6 DEF TerminalInv, Accounts, Unanswered
  <2>3. \A j \in DOMAIN runs' : runs'[j].registered =>
            j \in told \cup lost \/ (call'.kind = "exec" /\ call'.id = j)
    BY <1>2, <1>6 DEF TerminalInv, Accounts
  <2> QED BY <2>1, <2>2, <2>3 DEF Accounts
<1>8. CallFits'
  <2>1. new \notin told \cup lost
    BY <1>2 DEF TerminalInv, Accounts
  <2> QED BY <1>2, <1>3, <1>6, <2>1 DEF CallFits
<1>9. Slots'
  <2> DEFINE R == {j \in DOMAIN runs : runs[j].registered}
  <2>1. {j \in DOMAIN runs' : runs'[j].registered} = R \cup {new} /\ new \notin R
    BY <1>2, <1>3
  <2>2. IsFiniteSet(R) /\ Cardinality(R) \in Nat
    BY RunsFinite
  <2>3. Cardinality(R) < MaxSessions
    <3>1. TS!Cardinality(TS!Registered) = Cardinality(TS!Registered)
      BY Zenon DEF TS!Cardinality, Cardinality
    <3>2. TS!Registered = R
      BY DEF TS!Registered, TS!Started
    <3> QED BY <3>1, <3>2
  <2> HIDE DEF R
  <2>4. Cardinality(R \cup {new}) = Cardinality(R) + 1
    BY <2>1, <2>2, FS_AddElement
  <2>5. Cardinality(R \cup {new}) <= MaxSessions
    BY <2>2, <2>3, <2>4 DEF TS!LimitsAssumption
  <2> QED BY <2>1, <2>5 DEF Slots
<1> QED BY <1>5, <1>7, <1>8, <1>9 DEF TerminalInv

\* A call comes, goes on or ends without a trace.
LEMMA CallMoves ==
    ASSUME Counters, TerminalInv, UNCHANGED terminal, Grow, CallFits',
           call.kind # "exec", ~(call.kind = "poll" /\ call.pc = "record")
    PROVE  TerminalInv'
<1>1. UNCHANGED <<runs, told, returned, lost, cancelled>>
  BY DEF terminal
<1>2. RunsAreTrue'
  <2>1. 1..calls \subseteq 1..calls'
    BY DEF Counters, Grow
  <2> QED BY <1>1, <2>1 DEF TerminalInv, RunsAreTrue
<1>3. Accounts'
  <2>1. Cardinality(lost) <= failures'
    BY RunsFinite DEF TerminalInv, Accounts, Counters, Grow
  <2>2. \A id : ~Unanswered(id)
    BY DEF Unanswered
  <2> QED BY <1>1, <2>1, <2>2 DEF TerminalInv, Accounts
<1>4. Slots'
  BY <1>1 DEF TerminalInv, Slots
<1> QED BY <1>2, <1>3, <1>4 DEF TerminalInv

LEMMA SessionAsked ==
    ASSUME Counters, TerminalInv, NEW id \in told, NEW owner \in Owners,
           TS!Poll(id, owner) \/ TS!Cancel(id, owner)
    PROVE  TerminalInv'
<1>1. PICK kind \in {"poll", "cancel"} :
          call' = [kind |-> kind, id |-> id, owner |-> owner, pc |-> "look", snapshot |-> "running"]
  BY DEF TS!Poll, TS!Cancel, TS!Call
<1>2. /\ call.kind = "idle" /\ calls' = calls + 1 /\ UNCHANGED <<failures, terminal>>
  BY DEF TS!Poll, TS!Cancel, TS!Call, TS!Idle, TS!history, terminal
<1>3. id \in DOMAIN runs /\ id \in Nat
  BY DEF TerminalInv, Accounts, RunsAreTrue, Counters
<1>4. /\ call' \in TerminalCalls /\ call'.id = id /\ call'.pc = "look" /\ call'.kind \in {"poll", "cancel"}
      /\ call'.snapshot = "running"
  BY <1>1, <1>3 DEF TerminalCalls, AnyTerminal
<1>5. UNCHANGED <<runs, told>>
  BY <1>2 DEF terminal
<1>6. CallFits'
  BY <1>3, <1>4, <1>5 DEF CallFits
<1> QED BY <1>2, <1>6, CallMoves DEF Grow, Counters

\* The first look at a session.
LEMMA SessionLooked ==
    ASSUME Counters, TerminalInv, TS!PollLooks \/ TS!CancelLooks
    PROVE  TerminalInv'
<1>1. /\ call.kind \in {"poll", "cancel"} /\ call.pc = "look" /\ UNCHANGED <<calls, failures, terminal>>
      /\ UNCHANGED <<runs, told, lost>>
  BY DEF TS!PollLooks, TS!CancelLooks, TS!history, terminal
<1>2. call \in TerminalCalls /\ call.id \in DOMAIN runs /\ call.id \in told
  BY <1>1 DEF TerminalInv, CallFits, AnyTerminal
<1>3. CallFits'
  <2>1. CASE call' = TS!Idle
    BY <2>1 DEF CallFits, TS!Idle, AnyTerminal
  <2>2. CASE TS!PollLooks /\ TS!Owned(call.id, call.owner)
    <3> DEFINE state == runs[call.id].state
    <3>1. /\ call' = [call EXCEPT !.snapshot = state,
                                  !.pc = IF state = "running" THEN "record" ELSE "remove"]
          /\ runs[call.id].registered
      BY <2>2 DEF TS!PollLooks, TS!Owned, TS!Registered
    <3>2. state \in TS!Outcomes \cup {"running"}
      BY <1>2 DEF TerminalInv, RunsAreTrue, RunInv, Runs
    <3> HIDE DEF state
    <3>3. /\ call' \in TerminalCalls /\ call'.id = call.id /\ call'.snapshot = state
          /\ call'.kind = call.kind
          /\ call'.pc = IF state = "running" THEN "record" ELSE "remove"
      BY <1>2, <3>1, <3>2 DEF TerminalCalls
    <3>4. call.kind = "poll"
      BY <2>2 DEF TS!PollLooks
    <3> QED BY <1>1, <1>2, <3>1, <3>3, <3>4 DEF CallFits, state
  <2>3. CASE TS!CancelLooks /\ TS!Owned(call.id, call.owner)
    <3>1. PICK stage \in {"flag", "record"} : call' = [call EXCEPT !.pc = stage]
      BY <2>3 DEF TS!CancelLooks
    <3>2. call' \in TerminalCalls /\ call'.id = call.id /\ call'.kind = "cancel"
      BY <1>2, <2>3, <3>1 DEF TerminalCalls, TS!CancelLooks
    <3> QED BY <1>1, <1>2, <3>2 DEF CallFits
  <2> QED BY <2>1, <2>2, <2>3 DEF TS!PollLooks, TS!CancelLooks, TS!Return
<1> QED BY <1>1, <1>3, CallMoves DEF Grow, Counters

\* A session that has ended leaves the table.
LEMMA SessionRemoved ==
    ASSUME TS!LimitsAssumption, Counters, TerminalInv, TS!RemoveSession
    PROVE  TerminalInv'
<1>1. /\ call.kind = "poll" /\ call.pc = "remove" /\ call' = [call EXCEPT !.pc = "record"]
      /\ UNCHANGED <<calls, failures, told, returned, lost, cancelled>>
  BY DEF TS!RemoveSession, TS!history
<1> PICK id : id = call.id
  OBVIOUS
<1> DEFINE s == [runs[id] EXCEPT !.registered = FALSE]
<1>2. /\ call \in TerminalCalls /\ id \in DOMAIN runs /\ id \in told
      /\ runs[id].registered /\ call.snapshot = runs[id].state /\ runs[id].state # "running"
  BY <1>1 DEF TerminalInv, CallFits, AnyTerminal
<1>3. id \notin lost /\ \A r \in returned : r.id # id
  BY <1>2 DEF TerminalInv, Accounts
<1>4. runs' = [runs EXCEPT ![id] = s]
  BY <1>2 DEF TS!RemoveSession
<1>5. RunInv(runs[id], id \in cancelled)
  BY <1>2 DEF TerminalInv, RunsAreTrue
<1>6. /\ s \in Runs /\ ~s.registered /\ s.state = runs[id].state /\ s.n = runs[id].n
      /\ s.limit = runs[id].limit /\ s.pc = runs[id].pc /\ s.child = runs[id].child
      /\ s.code = runs[id].code /\ s.exit = runs[id].exit /\ s.cancel = runs[id].cancel
      /\ s.elapsed = runs[id].elapsed
  BY <1>5 DEF RunInv, Runs
<1>7. /\ call' \in TerminalCalls /\ call'.kind = "poll" /\ call'.id = id /\ call'.pc = "record"
      /\ call'.snapshot = call.snapshot
  BY <1>1, <1>2 DEF TerminalCalls
<1> HIDE DEF s
<1>8. RunInv(s, id \in cancelled)
  BY <1>2, <1>5, <1>6 DEF RunInv, HasExited
<1>9. /\ DOMAIN runs' = DOMAIN runs /\ runs'[id] = s
      /\ \A j \in DOMAIN runs : j # id => runs'[j] = runs[j]
  BY <1>2, <1>4
<1>10. RunsAreTrue'
  BY <1>1, <1>8, <1>9 DEF TerminalInv, RunsAreTrue
<1>11. Accounts'
  <2>1. Unanswered(id)'
    BY <1>2, <1>6, <1>7, <1>9 DEF Unanswered
  <2>2. \A j \in DOMAIN runs' : ~runs'[j].registered =>
            \/ j \in lost \/ Unanswered(j)'
            \/ \E x \in returned : x.id = j /\ x.outcome = runs'[j].state
    <3>1. \A j \in DOMAIN runs : j # id /\ ~runs[j].registered =>
              \/ j \in lost \/ \E x \in returned : x.id = j /\ x.outcome = runs[j].state
      BY <1>1 DEF TerminalInv, Accounts, Unanswered
    <3> QED BY <1>9, <2>1, <3>1
  <2>3. \A x \in returned : x.id \in DOMAIN runs' /\ ~runs'[x.id].registered /\ x.id \notin lost
    BY <1>6, <1>9 DEF TerminalInv, Accounts
  <2>4. \A j \in DOMAIN runs' : runs'[j].registered =>
            j \in told \cup lost \/ (call'.kind = "exec" /\ call'.id = j)
    BY <1>1, <1>6, <1>9 DEF TerminalInv, Accounts
  <2>5. \A j \in lost : j \notin told \/ ~runs'[j].registered
    BY <1>3, <1>9 DEF TerminalInv, Accounts
  <2>6. told \subseteq DOMAIN runs' /\ lost \subseteq DOMAIN runs' /\ Cardinality(lost) <= failures
    BY <1>9 DEF TerminalInv, Accounts
  <2> QED BY <1>1, <2>2, <2>3, <2>4, <2>5, <2>6 DEF Accounts
<1>12. CallFits'
  BY <1>1, <1>2, <1>3, <1>6, <1>7, <1>9 DEF CallFits
<1>13. Slots'
  <2> DEFINE R == {j \in DOMAIN runs : runs[j].registered}
             S == {j \in DOMAIN runs' : runs'[j].registered}
  <2>1. S \subseteq R
    BY <1>6, <1>9
  <2>2. IsFiniteSet(R) /\ Cardinality(R) \in Nat
    BY RunsFinite
  <2>3. Cardinality(R) <= MaxSessions
    BY DEF TerminalInv, Slots
  <2>4. Cardinality(S) <= MaxSessions
    <3> HIDE DEF R, S
    <3>1. Cardinality(S) <= Cardinality(R) /\ Cardinality(S) \in Nat
      BY <2>1, <2>2, FS_Subset, FS_CardinalityType
    <3>2. MaxSessions \in Nat
      BY DEF TS!LimitsAssumption
    <3> QED BY <2>2, <2>3, <3>1, <3>2
  <2> QED BY <2>4 DEF Slots
<1> QED BY <1>10, <1>11, <1>12, <1>13 DEF TerminalInv

\* A cancellation is asked for.
LEMMA SessionFlagged ==
    ASSUME Counters, TerminalInv, TS!Flag
    PROVE  TerminalInv'
<1>1. /\ call.kind = "cancel" /\ call.pc = "flag" /\ call' = [call EXCEPT !.pc = "record"]
      /\ UNCHANGED <<calls, failures, told, returned, lost>>
  BY DEF TS!Flag
<1> PICK id : id = call.id
  OBVIOUS
<1> DEFINE s == [runs[id] EXCEPT !.cancel = TRUE]
<1>2. call \in TerminalCalls /\ id \in DOMAIN runs /\ id \in told
  BY <1>1 DEF TerminalInv, CallFits, AnyTerminal
<1>3. runs' = [runs EXCEPT ![id] = s] /\ cancelled' = cancelled \cup {id}
  BY DEF TS!Flag
<1>4. RunInv(runs[id], id \in cancelled)
  BY <1>2 DEF TerminalInv, RunsAreTrue
<1>5. /\ s \in Runs /\ s.registered = runs[id].registered /\ s.state = runs[id].state /\ s.n = runs[id].n
      /\ s.limit = runs[id].limit /\ s.pc = runs[id].pc /\ s.child = runs[id].child
      /\ s.code = runs[id].code /\ s.exit = runs[id].exit /\ s.elapsed = runs[id].elapsed
  BY <1>4 DEF RunInv, Runs
<1>6. /\ call' \in TerminalCalls /\ call'.kind = "cancel" /\ call'.id = id
  BY <1>1, <1>2 DEF TerminalCalls
<1> HIDE DEF s
<1>7. RunInv(s, TRUE)
  BY <1>4, <1>5 DEF RunInv, HasExited
<1>8. \A j \in DOMAIN runs : j # id => (j \in cancelled' <=> j \in cancelled)
  BY <1>3
<1>9. /\ DOMAIN runs' = DOMAIN runs /\ runs'[id] = s
      /\ \A j \in DOMAIN runs : j # id => runs'[j] = runs[j]
  BY <1>2, <1>3
<1>10. RunsAreTrue'
  <2>1. \A j \in DOMAIN runs : RunInv(runs'[j], j \in cancelled')
    <3> SUFFICES ASSUME NEW j \in DOMAIN runs PROVE RunInv(runs'[j], j \in cancelled')
      OBVIOUS
    <3>1. CASE j = id
      <4>1. (j \in cancelled') = TRUE
        BY <1>3, <3>1
      <4> QED BY <1>7, <1>9, <3>1, <4>1
    <3>2. CASE j # id
      <4>1. (j \in cancelled') = (j \in cancelled)
        BY <1>3, <3>2
      <4> QED BY <1>9, <3>2, <4>1 DEF TerminalInv, RunsAreTrue
    <3> QED BY <3>1, <3>2
  <2> QED BY <1>1, <1>9, <2>1 DEF TerminalInv, RunsAreTrue
<1>11. \A j \in DOMAIN runs : runs'[j].registered = runs[j].registered /\ runs'[j].state = runs[j].state
  BY <1>5, <1>9
<1>12. Accounts'
  <2>1. \A j \in DOMAIN runs : ~runs'[j].registered =>
            j \in lost \/ \E x \in returned : x.id = j /\ x.outcome = runs'[j].state
    BY <1>1, <1>11 DEF TerminalInv, Accounts, Unanswered
  <2>2. \A j \in DOMAIN runs : runs'[j].registered => j \in told \cup lost
    BY <1>1, <1>11 DEF TerminalInv, Accounts
  <2>3. /\ told \subseteq DOMAIN runs /\ lost \subseteq DOMAIN runs /\ Cardinality(lost) <= failures
        /\ \A j \in lost : j \notin told \/ ~runs'[j].registered
        /\ \A x \in returned : x.id \in DOMAIN runs /\ ~runs'[x.id].registered /\ x.id \notin lost
    BY <1>11 DEF TerminalInv, Accounts
  <2> QED BY <1>1, <1>9, <2>1, <2>2, <2>3 DEF Accounts
<1>13. CallFits'
  BY <1>1, <1>2, <1>6, <1>9 DEF CallFits
<1>14. Slots'
  <2>1. {j \in DOMAIN runs' : runs'[j].registered} = {j \in DOMAIN runs : runs[j].registered}
    BY <1>9, <1>11
  <2> QED BY <2>1 DEF TerminalInv, Slots
<1> QED BY <1>10, <1>12, <1>13, <1>14 DEF TerminalInv

\* The call is answered, or nobody is told.
LEMMA SessionAnswered ==
    ASSUME TS!LimitsAssumption, Counters, TerminalInv, TS!Record \/ TS!RecordFails
    PROVE  TerminalInv'
<1>1. /\ call.kind \in AnyTerminal /\ call.pc = "record" /\ call' = TS!Idle
      /\ UNCHANGED <<calls, runs, cancelled>> /\ failures' \in {failures, failures + 1}
  BY DEF TS!Record, TS!RecordFails, AnyTerminal, TS!Return
<1> PICK id : id = call.id
  OBVIOUS
<1> DEFINE ended == call.kind = "poll" /\ call.snapshot # "running"
<1>2. /\ id \in DOMAIN runs
      /\ call.kind = "exec" => id \notin told \cup lost /\ runs[id].registered
      /\ call.kind # "exec" => id \in told
      /\ ended => ~runs[id].registered /\ call.snapshot = runs[id].state /\ id \notin lost
                  /\ \A r \in returned : r.id # id
  BY <1>1 DEF TerminalInv, CallFits
<1>3. TS!Encoded(runs[id].n) <= MaxTerminalOutput
  <2>1. /\ runs[id].n \in Nat /\ runs[id].limit \in Nat /\ runs[id].n <= runs[id].limit
        /\ runs[id].limit <= Room
    BY <1>2 DEF TerminalInv, RunsAreTrue, RunInv, Runs
  <2>2. Room \in Nat /\ runs[id].n <= Room
    BY <2>1, RoomFits
  <2> QED BY <2>1, <2>2, RoomFits
<1>4. call'.kind \notin AnyTerminal
  BY <1>1 DEF TS!Idle, AnyTerminal
<1>5. RunsAreTrue' /\ CallFits' /\ Slots'
  BY <1>1, <1>4 DEF TerminalInv, RunsAreTrue, CallFits, Slots
<1>6. IsFiniteSet(lost) /\ Cardinality(lost) \in Nat /\ Cardinality(lost) <= failures /\ failures \in Nat
  BY RunsFinite DEF TerminalInv, Accounts, Counters
\* What becomes of the ids, when the call is answered and when it is not.
<1>7. ASSUME told' \in {told, told \cup {id}}, lost' \in {lost, lost \cup {id}},
             call.kind # "exec" => told' = told,
             call.kind = "exec" => (id \in told' <=> id \notin lost'),
             call.kind # "exec" /\ ~ended => lost' = lost /\ returned' = returned,
             call.kind = "exec" => returned' = returned,
             ended => \/ id \in lost' /\ returned' = returned
                      \/ /\ lost' = lost
                         /\ \E x : /\ x.id = id /\ x.outcome = call.snapshot
                                   /\ returned' = returned \cup {x},
             Cardinality(lost') <= failures'
      PROVE  Accounts'
  <2>1. \A j \in DOMAIN runs : ~runs[j].registered =>
            j \in lost' \/ \E x \in returned' : x.id = j /\ x.outcome = runs[j].state
    <3> SUFFICES ASSUME NEW j \in DOMAIN runs, ~runs[j].registered
                 PROVE  j \in lost' \/ \E x \in returned' : x.id = j /\ x.outcome = runs[j].state
      OBVIOUS
    <3>1. CASE j \in lost \/ \E x \in returned : x.id = j /\ x.outcome = runs[j].state
      BY <1>7, <3>1
    <3>2. CASE Unanswered(j)
      <4>1. ended /\ j = id /\ call.snapshot = runs[j].state
        BY <3>2 DEF Unanswered, TerminalInv, RunsAreTrue, RunInv
      <4> QED BY <1>7, <4>1
    <3> QED BY <3>1, <3>2 DEF TerminalInv, Accounts
  <2>2. \A x \in returned' : x.id \in DOMAIN runs /\ ~runs[x.id].registered /\ x.id \notin lost'
    <3>1. \A x \in returned : x.id \in DOMAIN runs /\ ~runs[x.id].registered /\ x.id \notin lost
      BY DEF TerminalInv, Accounts
    <3>2. CASE call.kind = "exec"
      BY <1>2, <1>7, <3>1, <3>2
    <3>3. CASE call.kind # "exec" /\ ~ended
      BY <1>7, <3>1, <3>3
    <3>4. CASE ended /\ lost' = lost
      BY <1>2, <1>7, <3>1, <3>4
    <3>5. CASE ended /\ lost' # lost
      BY <1>2, <1>7, <3>1, <3>5
    <3> QED BY <3>2, <3>3, <3>4, <3>5
  <2>3. \A j \in lost' : j \notin told' \/ ~runs[j].registered
    BY <1>2, <1>7 DEF TerminalInv, Accounts
  <2>4. \A j \in DOMAIN runs : runs[j].registered => j \in told' \cup lost'
    BY <1>2, <1>7 DEF TerminalInv, Accounts
  <2>5. told' \subseteq DOMAIN runs /\ lost' \subseteq DOMAIN runs
    BY <1>2, <1>7 DEF TerminalInv, Accounts
  <2> QED BY <1>1, <1>7, <2>1, <2>2, <2>3, <2>4, <2>5 DEF Accounts
<1>8. CASE TS!Record
  <2>1. UNCHANGED <<failures, lost>>
    BY <1>3, <1>8 DEF TS!Record
  <2>2. /\ told' = IF call.kind = "exec" THEN told \cup {id} ELSE told
        /\ returned' = IF ended THEN returned \cup {[id |-> id, outcome |-> call.snapshot]} ELSE returned
    BY <1>3, <1>8 DEF TS!Record
  <2>3. ended => \E x : /\ x.id = id /\ x.outcome = call.snapshot
                         /\ returned' = returned \cup {x}
    <3> DEFINE x == [id |-> id, outcome |-> call.snapshot]
    <3>1. x.id = id /\ x.outcome = call.snapshot /\ (ended => returned' = returned \cup {x})
      BY <2>2
    <3> HIDE DEF x
    <3> QED BY <3>1
  <2>4. call.kind = "exec" => (id \in told' <=> id \notin lost')
    BY <1>2, <2>1, <2>2
  <2>5. Cardinality(lost') <= failures'
    BY <1>6, <2>1
  <2>6. Accounts'
    BY <1>7, <2>1, <2>2, <2>3, <2>4, <2>5
  <2> QED BY <1>5, <2>6 DEF TerminalInv
<1>9. CASE TS!RecordFails
  <2>1. /\ UNCHANGED <<told, returned>> /\ failures' = failures + 1
        /\ lost' = IF call.kind = "exec" \/ ended THEN lost \cup {id} ELSE lost
    BY <1>9 DEF TS!RecordFails
  <2>2. Cardinality(lost \cup {id}) <= Cardinality(lost) + 1
    <3>1. CASE id \in lost
      <4>1. lost \cup {id} = lost
        BY <3>1
      <4>2. Cardinality(lost \cup {id}) = Cardinality(lost)
        BY <4>1
      <4> QED BY <1>6, <4>2
    <3>2. CASE id \notin lost
      <4>1. Cardinality(lost \cup {id}) = Cardinality(lost) + 1
        BY <1>6, <3>2, FS_AddElement
      <4> QED BY <1>6, <4>1
    <3> QED BY <3>1, <3>2
  <2>3. IsFiniteSet(lost \cup {id}) /\ Cardinality(lost \cup {id}) \in Nat
    BY <1>6, FS_AddElement, FS_CardinalityType
  <2>4. Cardinality(lost') <= failures'
    BY <1>6, <2>1, <2>2, <2>3
  <2>5. call.kind = "exec" => (id \in told' <=> id \notin lost')
    BY <1>2, <2>1
  <2>6. Accounts'
    BY <1>7, <2>1, <2>4, <2>5
  <2> QED BY <1>5, <2>6 DEF TerminalInv
<1> QED BY <1>5, <1>7, <1>8, <1>9 DEF TerminalInv

LEMMA TerminalStep ==
    ASSUME TS!LimitsAssumption, Counters, TerminalInv, TS!Next
    PROVE  TerminalInv'
<1>1. ASSUME NEW owner \in Owners, TS!Start(owner)
      PROVE  TerminalInv'
  <2>1. PICK wanted \in Wanted :
          /\ IF TS!Cardinality(TS!Registered) >= MaxSessions
             THEN calls' = calls + 1 /\ UNCHANGED <<call, runs, failures>>
             ELSE \/ /\ TS!Call("exec", calls + 1, owner, "record")
                     /\ runs' = [id \in DOMAIN runs \cup {calls'} |->
                                   IF id = calls' THEN TS!Run(owner, TS!OutputLimit(wanted)) ELSE runs[id]]
                     /\ UNCHANGED failures
                  \/ /\ calls' = calls + 1 /\ failures' = failures + 1
                     /\ UNCHANGED <<call, runs>>
          /\ UNCHANGED TS!history
    BY <1>1 DEF TS!Start, TS!Started
  <2>2. CASE calls' = calls + 1 /\ failures' \in {failures, failures + 1} /\ UNCHANGED <<call, runs>>
    <3>1. Apart(AnyTerminal) /\ Grow
      BY <2>2 DEF Apart, Grow, Counters
    <3> QED BY <2>1, <2>2, <3>1, TerminalWaits DEF TS!history, terminal
  <2>3. CASE /\ ~(TS!Cardinality(TS!Registered) >= MaxSessions)
             /\ TS!Call("exec", calls + 1, owner, "record")
             /\ runs' = [id \in DOMAIN runs \cup {calls'} |->
                           IF id = calls' THEN TS!Run(owner, TS!OutputLimit(wanted)) ELSE runs[id]]
             /\ UNCHANGED failures
    <3>1. TS!Cardinality(TS!Registered) < MaxSessions
      <4>1. TS!Cardinality(TS!Registered) = Cardinality(TS!Registered)
        BY Zenon DEF TS!Cardinality, Cardinality
      <4>2. Cardinality(TS!Registered) \in Nat
        BY RunsFinite DEF TS!Registered, TS!Started
      <4>3. MaxSessions \in Nat
        BY DEF TS!LimitsAssumption
      <4> QED BY <2>3, <4>1, <4>2, <4>3
    <3>2. /\ call = TS!Idle /\ calls' = calls + 1
          /\ call' = [kind |-> "exec", id |-> calls + 1, owner |-> owner, pc |-> "record",
                      snapshot |-> "running"]
      BY <2>3 DEF TS!Call
    <3>3. UNCHANGED <<failures, told, returned, lost, cancelled>>
      BY <2>1, <2>3 DEF TS!history
    <3>4. runs' = [id \in DOMAIN runs \cup {calls'} |->
                     IF id = calls' THEN TS!Run(owner, TS!OutputLimit(wanted)) ELSE runs[id]]
      BY <2>3
    <3> QED BY <3>1, <3>2, <3>3, <3>4, SessionStarted
  <2> QED BY <2>1, <2>2, <2>3
<1>2. ASSUME NEW id \in told, NEW owner \in Owners, TS!Poll(id, owner) \/ TS!Cancel(id, owner)
      PROVE  TerminalInv'
  BY <1>2, SessionAsked
<1>3. CASE TS!Serve
  BY <1>3, SessionLooked, SessionRemoved, SessionFlagged, SessionAnswered DEF TS!Serve
<1>4. ASSUME NEW id \in DOMAIN runs,
             \/ TS!Thread(id) \/ TS!Breaks(id)
             \/ TS!ChildWrites(id) \/ TS!ChildExits(id) \/ TS!TimeUp(id)
      PROVE  TerminalInv'
  <2>1. RunInv(runs[id], id \in cancelled)
    BY DEF TerminalInv, RunsAreTrue
  <2>2. RunsTo(id)
    <3>1. CASE TS!Thread(id)
      BY <2>1, <3>1, RunSpawns, RunTurns, RunExits, RunDrains DEF TS!Thread
    <3>2. CASE TS!Breaks(id)
      BY <2>1, <3>2, RunBreaks
    <3>3. CASE TS!ChildWrites(id) \/ TS!ChildExits(id) \/ TS!TimeUp(id)
      BY <2>1, <3>3, RunBeside
    <3> QED BY <1>4, <3>1, <3>2, <3>3
  <2>3. /\ UNCHANGED <<call, calls, told, returned, lost, cancelled>>
        /\ failures' = failures \/ failures' = failures + 1
    BY <1>4 DEF TS!Thread, TS!Spawn, TS!Turn, TS!Exit, TS!Drain, TS!Breaks, TS!ChildWrites,
         TS!ChildExits, TS!TimeUp, TS!Others, TS!history
  <2>4. failures' \in Nat /\ failures <= failures'
    BY <2>3 DEF Counters
  <2> QED BY <2>2, <2>3, <2>4, RunKeeps
<1> QED BY <1>1, <1>2, <1>3, <1>4 DEF TS!Next, TS!Started

LEMMA TerminalMoves ==
    ASSUME Counters, TerminalInv, TS!Next, NEW kinds, kinds \cap (AnyTerminal \cup {"idle"}) = {}
    PROVE  Apart(kinds) /\ Grow
<1>0. {call.kind, call'.kind} \subseteq AnyTerminal \cup {"idle"} => Apart(kinds)
  BY DEF Apart
<1>1. ASSUME NEW owner, TS!Start(owner)
      PROVE  Apart(kinds) /\ Grow
  <2>1. calls' = calls + 1 /\ failures' \in {failures, failures + 1}
    BY <1>1 DEF TS!Start, TS!Call
  <2>2. call' = call \/ \E id : TS!Call("exec", id, owner, "record")
    BY <1>1 DEF TS!Start
  <2>3. call' = call \/ (call.kind = "idle" /\ call'.kind = "exec")
    BY <2>2 DEF TS!Call, TS!Idle
  <2> QED BY <1>0, <2>1, <2>3 DEF Apart, Grow, Counters, AnyTerminal
<1>2. ASSUME NEW id, NEW owner, TS!Poll(id, owner) \/ TS!Cancel(id, owner)
      PROVE  Apart(kinds) /\ Grow
  <2>1. call.kind = "idle" /\ call'.kind \in AnyTerminal /\ calls' = calls + 1 /\ UNCHANGED failures
    BY <1>2 DEF TS!Poll, TS!Cancel, TS!Call, TS!Idle, AnyTerminal
  <2> QED BY <1>0, <2>1 DEF Grow, Counters
<1>3. CASE TS!Serve
  <2>1. call.kind \in AnyTerminal /\ UNCHANGED calls /\ failures' \in {failures, failures + 1}
    BY <1>3 DEF TS!Serve, TS!PollLooks, TS!RemoveSession, TS!CancelLooks, TS!Flag, TS!Record,
         TS!RecordFails, AnyTerminal
  <2>2. call \in TerminalCalls
    BY <2>1 DEF TerminalInv, CallFits
  <2>3. call'.kind = call.kind \/ call'.kind = "idle"
    <3>1. CASE TS!PollLooks
      <4> DEFINE stage == IF runs[call.id].state = "running" THEN "record" ELSE "remove"
                 looked == [call EXCEPT !.snapshot = runs[call.id].state, !.pc = stage]
      <4>1. call' = TS!Idle \/ call' = looked
        BY <3>1 DEF TS!PollLooks, TS!Return
      <4> HIDE DEF stage
      <4>2. looked.kind = call.kind
        BY <2>2 DEF TerminalCalls
      <4> HIDE DEF looked
      <4> QED BY <4>1, <4>2 DEF TS!Idle
    <3>2. CASE TS!RemoveSession
      BY <2>2, <3>2 DEF TS!RemoveSession, TerminalCalls
    <3>3. CASE TS!CancelLooks
      <4>1. \/ call' = TS!Idle
            \/ call' = [call EXCEPT !.pc = IF runs[call.id].state = "running" THEN "flag" ELSE "record"]
        BY <3>3 DEF TS!CancelLooks, TS!Return
      <4> QED BY <2>2, <4>1 DEF TS!Idle, TerminalCalls
    <3>4. CASE TS!Flag
      BY <2>2, <3>4 DEF TS!Flag, TerminalCalls
    <3>5. CASE TS!Record \/ TS!RecordFails
      BY <3>5 DEF TS!Record, TS!RecordFails, TS!Return, TS!Idle
    <3> QED BY <1>3, <3>1, <3>2, <3>3, <3>4, <3>5 DEF TS!Serve
  <2>4. Grow
    BY <2>1 DEF Grow, Counters
  <2> QED BY <1>0, <2>1, <2>3, <2>4
<1>4. ASSUME NEW id, \/ TS!Thread(id) \/ TS!Breaks(id)
                    \/ TS!ChildWrites(id) \/ TS!ChildExits(id) \/ TS!TimeUp(id)
      PROVE  Apart(kinds) /\ Grow
  <2>1. UNCHANGED <<call, calls>> /\ failures' \in {failures, failures + 1}
    BY <1>4 DEF TS!Thread, TS!Spawn, TS!Turn, TS!Exit, TS!Drain, TS!Breaks, TS!ChildWrites,
         TS!ChildExits, TS!TimeUp, TS!Others
  <2> QED BY <2>1 DEF Apart, Grow, Counters
<1> QED BY <1>1, <1>2, <1>3, <1>4 DEF TS!Next

LEMMA TerminalPromises ==
    ASSUME TS!LimitsAssumption, Counters, TerminalInv
    PROVE  TS!ResultsAreKept /\ TS!SlotsAreKnown /\ TS!OutcomeIsTrue /\ TS!PollFits
<1>1. \A S : TS!Cardinality(S) = Cardinality(S)
  BY Zenon DEF TS!Cardinality, Cardinality
<1>2. TS!ResultsAreKept
  BY <1>1 DEF TerminalInv, Accounts, Unanswered, TS!ResultsAreKept, TS!Started
<1>3. TS!SlotsAreKnown
  BY <1>1 DEF TerminalInv, Accounts, Slots, RunsAreTrue, RunInv, TS!SlotsAreKnown, TS!Started,
       TS!Registered, TS!Ended
<1>4. TS!OutcomeIsTrue
  <2> SUFFICES ASSUME NEW id \in DOMAIN runs
               PROVE  LET r == runs[id] IN
                      /\ r.state \in {"completed", "cancelled", "timed_out", "output_limit"}
                            => r.child # "alive"
                      /\ r.state = "completed"
                            => r.child = "exited" /\ r.exit = r.code /\ r.code # StillActive
                      /\ r.state = "cancelled" => id \in cancelled
                      /\ r.state = "timed_out" => r.elapsed
                      /\ r.n <= r.limit
    BY DEF TS!OutcomeIsTrue, TS!Started
  <2>1. RunInv(runs[id], id \in cancelled)
    BY DEF TerminalInv, RunsAreTrue
  <2> QED BY <2>1 DEF RunInv, HasExited
<1>5. TS!PollFits
  <2> SUFFICES ASSUME NEW id \in DOMAIN runs
               PROVE  TS!Encoded(runs[id].n) <= MaxTerminalOutput
    BY DEF TS!PollFits, TS!Started
  <2>1. /\ runs[id].n \in Nat /\ runs[id].limit \in Nat /\ runs[id].n <= runs[id].limit
        /\ runs[id].limit <= Room
    BY DEF TerminalInv, RunsAreTrue, RunInv, Runs
  <2>2. Room \in Nat /\ runs[id].n <= Room
    BY <2>1, RoomFits
  <2> QED BY <2>1, <2>2, RoomFits
<1> QED BY <1>2, <1>3, <1>4, <1>5

-----------------------------------------------------------------------------
(* The workers beside each other.                                          *)

DeviceInv == Counters /\ TerminalInv /\ ProcessInv /\ BrowserInv /\ CommandInv

LEMMA DeviceStarts == ASSUME DeviceInit PROVE DeviceInv
<1>1. Counters
  BY DEF DeviceInit, TS!Init, Counters
<1> QED BY <1>1, TerminalStarts, ProcessStarts, BrowserStarts, CommandStarts, LimitsFit, CommandsFit
        DEF DeviceInit, DeviceInv

LEMMA DeviceStep == ASSUME DeviceInv, [DeviceNext]_Device PROVE DeviceInv'
<1> USE LimitsFit, NobodyIsNone, CommandsFit DEF DeviceInv
<1>1. CASE TS!Next /\ UNCHANGED <<process, browser, command, spawn>>
  <2>1. TerminalInv'
    BY <1>1, TerminalStep
  <2>2. \A kinds : kinds \cap (AnyTerminal \cup {"idle"}) = {} => Apart(kinds) /\ Grow
    BY <1>1, TerminalMoves
  <2>3. Apart({"terminate"}) /\ Apart({"download"}) /\ Apart({"command"}) /\ Grow
    BY <2>2 DEF AnyTerminal
  <2> QED BY <1>1, <2>1, <2>3, ProcessWaits, BrowserWaits, CommandWaits DEF Counters, Grow
<1>2. CASE PC!Next /\ UNCHANGED <<terminal, browser, command, spawn>>
  <2>1. ProcessInv'
    BY <1>2, ProcessStep
  <2>2. \A kinds : kinds \cap {"idle", "terminate"} = {} => Apart(kinds) /\ Grow
    BY <1>2, ProcessMoves
  <2>3. Apart(AnyTerminal) /\ Apart({"download"}) /\ Apart({"command"}) /\ Grow
    BY <2>2 DEF AnyTerminal
  <2> QED BY <1>2, <2>1, <2>3, TerminalWaits, BrowserWaits, CommandWaits DEF Counters, Grow
<1>3. CASE BS!Next /\ UNCHANGED <<terminal, process, command, spawn>>
  <2>1. BrowserInv'
    BY <1>3, BrowserStep
  <2>2. \A kinds : kinds \cap {"idle", "download"} = {} => Apart(kinds) /\ Grow
    BY <1>3, BrowserMoves
  <2>3. Apart(AnyTerminal) /\ Apart({"terminate"}) /\ Apart({"command"}) /\ Grow
    BY <2>2 DEF AnyTerminal
  <2> QED BY <1>3, <2>1, <2>3, TerminalWaits, ProcessWaits, CommandWaits DEF Counters, Grow
<1>4. CASE CR!Next /\ UNCHANGED <<failures, terminal, process, browser, spawn>>
  <2>1. CommandInv'
    BY <1>4, CommandStep
  <2>2. \A kinds : kinds \cap {"idle", "command"} = {} => Apart(kinds) /\ Grow
    BY <1>4, CommandMoves
  <2>3. Apart(AnyTerminal) /\ Apart({"terminate"}) /\ Apart({"download"}) /\ Grow
    BY <2>2 DEF AnyTerminal
  <2> QED BY <1>4, <2>1, <2>3, TerminalWaits, ProcessWaits, BrowserWaits DEF Counters, Grow
<1>5. CASE UNCHANGED <<call, calls, failures, terminal, process, browser, command>>
  <2>1. Grow /\ \A kinds : Apart(kinds)
    BY <1>5 DEF Grow, Apart, Counters
  <2> QED BY <1>5, <2>1, TerminalWaits, ProcessWaits, BrowserWaits, CommandWaits DEF Counters, Grow
<1> QED BY <1>1, <1>2, <1>3, <1>4, <1>5 DEF DeviceNext, Device

-----------------------------------------------------------------------------
(* The command line.  First its folds: each goes through sets of places,   *)
(* the last place of each first, and passes from one state to the next.    *)

\* What holds at first and from each number to the next holds for all.
LEMMA Climb ==
    ASSUME NEW n \in Nat, NEW A, 0 \in A, \A k \in 1 .. n : k - 1 \in A => k \in A
    PROVE  0 .. n \subseteq A /\ n \in A
<1> DEFINE B == {k \in 0 .. n : k \notin A}
<1>1. SUFFICES ASSUME B # {} PROVE FALSE
  OBVIOUS
<1>2. PICK k \in B : \A j \in B : k <= j
  <2>1. B \in SUBSET Nat
    OBVIOUS
  <2> HIDE DEF B
  <2> QED BY <1>1, <2>1, LeastNumber
<1>3. k \in 1 .. n /\ k - 1 \in 0 .. n /\ ~(k <= k - 1)
  OBVIOUS
<1>4. k - 1 \in A
  BY <1>2, <1>3
<1> QED BY <1>3, <1>4

Folds == {"quote", "join", "read"}

\* What one more element does.
Pass(how, st, x) ==
    IF how = "quote" THEN CL!QuoteNext(st, x)
    ELSE IF how = "read" THEN CL!ReadNext(st, x)
    ELSE CL!JoinNext(st, x)

Fold(how, base, seq) ==
    IF how = "quote" THEN CL!FoldLeft(CL!QuoteNext, base, seq)
    ELSE IF how = "read" THEN CL!FoldLeft(CL!ReadNext, base, seq)
    ELSE CL!FoldLeft(CL!JoinNext, base, seq)

IsFold(how, base, seq, S, g) ==
    g = [s \in SUBSET S |-> IF s = {} THEN base
                            ELSE Pass(how, g[s \ {CL!Max(s)}], seq[CL!Max(s)])]

LEMMA LastIs ==
    ASSUME NEW n \in Nat, NEW s \in SUBSET (1 .. n), s # {}
    PROVE  CL!Max(s) \in s /\ \A y \in s : CL!Max(s) >= y
<1> DEFINE R == {n - x : x \in s}
<1>1. R \in SUBSET Nat /\ R # {}
  <2>1. \A x \in s : n - x \in Nat
    OBVIOUS
  <2> QED BY <2>1
<1>2. PICK i \in R : \A j \in R : i <= j
  <2> HIDE DEF R
  <2> QED BY <1>1, LeastNumber
<1>3. PICK x \in s : i = n - x
  OBVIOUS
<1>4. ASSUME NEW y \in s PROVE x >= y
  <2>1. n - y \in R /\ x \in Nat /\ y \in Nat
    OBVIOUS
  <2> QED BY <1>2, <1>3, <2>1
<1> QED BY <1>4 DEF CL!Max

LEMMA FoldUnfolds ==
    ASSUME NEW how, NEW base, NEW seq, NEW S, NEW g, IsFold(how, base, seq, S, g), NEW s \in SUBSET S
    PROVE  g[s] = IF s = {} THEN base
                  ELSE Pass(how, g[s \ {CL!Max(s)}], seq[CL!Max(s)])
BY DEF IsFold

LEMMA FoldOfAll ==
    ASSUME NEW how, NEW base, NEW seq, NEW S, NEW g, IsFold(how, base, seq, S, g)
    PROVE  g[S] = IF S = {} THEN base
                  ELSE Pass(how, g[S \ {CL!Max(S)}], seq[CL!Max(S)])
<1>1. S \in SUBSET S
  OBVIOUS
<1> QED BY <1>1 DEF IsFold

LEMMA LeastPlaces ==
    ASSUME NEW X, IsFiniteSet(X), NEW B, B \subseteq SUBSET X, B # {}
    PROVE  \E V \in B : \A U \in B : U \subseteq V => U = V
<1>1. FiniteSubsetsOf(X) = SUBSET X
  BY FS_FiniteSubsetsOfFinite
<1>2. IsWellFoundedOn(StrictSubsetOrdering(X), SUBSET X)
  BY <1>1, FS_StrictSubsetOrderingWellFounded
<1>3. PICK V \in B : \A U \in B : ~(<<U, V>> \in StrictSubsetOrdering(X))
  BY <1>2, WFMin
<1> QED BY <1>3 DEF StrictSubsetOrdering

LEMMA FoldsAgree ==
    ASSUME NEW how, NEW base, NEW p, NEW S, NEW g, IsFold(how, base, p, S, g),
           NEW q, NEW R, NEW h, IsFold(how, base, q, R, h),
           NEW U, U \subseteq S, U \subseteq R, \A x \in U : p[x] = q[x],
           IsFiniteSet(U), \A s \in SUBSET U : s # {} => CL!Max(s) \in s
    PROVE  g[U] = h[U]
<1> DEFINE B == {s \in SUBSET U : g[s] # h[s]}
<1>1. SUFFICES ASSUME B # {} PROVE FALSE
  OBVIOUS
<1>2. PICK s \in B : \A u \in B : u \subseteq s => u = s
  <2>1. B \subseteq SUBSET U
    OBVIOUS
  <2> HIDE DEF B
  <2> QED BY <1>1, <2>1, LeastPlaces
<1> DEFINE m == CL!Max(s)  u == s \ {m}
<1>3. /\ g[s] = IF s = {} THEN base ELSE Pass(how, g[u], p[m])
      /\ h[s] = IF s = {} THEN base ELSE Pass(how, h[u], q[m])
  <2>1. s \in SUBSET S /\ s \in SUBSET R
    OBVIOUS
  <2> QED BY <2>1, FoldUnfolds
<1>4. s # {} => m \in s
  OBVIOUS
<1> HIDE DEF m
<1>5. s # {} => g[u] = h[u] /\ p[m] = q[m]
  BY <1>2, <1>4
<1> QED BY <1>2, <1>3, <1>5

LEMMA FoldsExist ==
    ASSUME NEW how, NEW base, NEW seq, NEW n \in Nat
    PROVE  \E g : IsFold(how, base, seq, 1 .. n, g)
<1> DEFINE S == 1 .. n
           B == {s \in SUBSET S : ~\E g : IsFold(how, base, seq, s, g)}
<1>1. SUFFICES ASSUME B # {} PROVE FALSE
  OBVIOUS
<1>2. PICK W \in B : \A u \in B : u \subseteq W => u = W
  <2>1. B \subseteq SUBSET S /\ IsFiniteSet(S)
    BY FS_Interval
  <2> HIDE DEF B, S
  <2> QED BY <1>1, <2>1, LeastPlaces
<1> DEFINE G(s) == CHOOSE g : IsFold(how, base, seq, s, g)
           L(s) == CL!Max(s)
           h == [s \in SUBSET W |-> IF s = {} THEN base
                    ELSE Pass(how, G(s \ {L(s)})[s \ {L(s)}], seq[L(s)])]
<1>0. ASSUME NEW s \in SUBSET W, s # {} PROVE L(s) \in s
  BY <1>0, LastIs
<1> HIDE DEF L
<1>3. ASSUME NEW s \in SUBSET W, s # W
      PROVE  IsFold(how, base, seq, s, G(s))
  <2>1. s \notin B /\ s \in SUBSET S
    BY <1>2, <1>3
  <2> QED BY <2>1
<1>4. ASSUME NEW s \in SUBSET W, s # {}
      PROVE  h[s \ {L(s)}] = G(s \ {L(s)})[s \ {L(s)}]
  <2> DEFINE u == s \ {L(s)}  v == u \ {L(u)}
  <2> HIDE DEF G
  <2>1. L(s) \in s
    BY <1>0, <1>4
  <2>2. u \in SUBSET W /\ u # W
    BY <2>1
  <2>3. IsFold(how, base, seq, u, G(u))
    BY <1>3, <2>2
  <2>4. G(u)[u] = IF u = {} THEN base ELSE Pass(how, G(u)[v], seq[L(u)])
    <3> DEFINE g == G(u)
    <3> HIDE DEF G, g, h, u
    <3>1. IsFold(how, base, seq, u, g)
      BY <2>3 DEF g
    <3>2. g[u] = IF u = {} THEN base ELSE Pass(how, g[u \ {CL!Max(u)}], seq[CL!Max(u)])
      BY <3>1, FoldOfAll
    <3> QED BY <3>2 DEF g, L
  <2>5. h[u] = IF u = {} THEN base ELSE Pass(how, G(v)[v], seq[L(u)])
    BY <2>2
  <2>6. u # {} => G(u)[v] = G(v)[v]
    <3>1. SUFFICES ASSUME u # {} PROVE G(u)[v] = G(v)[v]
      OBVIOUS
    <3>2. L(u) \in u
      BY <1>0, <2>2, <3>1
    <3>3. v \in SUBSET W /\ v # W /\ v \subseteq u
      BY <2>2, <3>2
    <3>4. IsFold(how, base, seq, v, G(v))
      BY <1>3, <3>3
    <3>5. IsFiniteSet(v) /\ \A x \in SUBSET v : x # {} => CL!Max(x) \in x
      <4>1. v \in SUBSET (1 .. n)
        BY <1>2, <3>3
      <4>2. IsFiniteSet(1 .. n)
        BY FS_Interval
      <4> HIDE DEF v
      <4>3. \A x \in SUBSET v : x # {} => CL!Max(x) \in x
        BY <4>1, LastIs
      <4> QED BY <4>1, <4>2, <4>3, FS_Subset
    <3> HIDE DEF v, u
    <3>6. \A U : /\ U \subseteq u /\ U \subseteq v /\ IsFiniteSet(U)
                 /\ \A x \in SUBSET U : x # {} => CL!Max(x) \in x
                 => G(u)[U] = G(v)[U]
      BY <2>3, <3>4, FoldsAgree
    <3> QED BY <3>3, <3>5, <3>6
  <2> QED BY <2>4, <2>5, <2>6
<1>5. \A s \in SUBSET W : s # {} => h[s] = Pass(how, h[s \ {L(s)}], seq[L(s)])
  BY <1>4
<1>6. h = [s \in SUBSET W |-> IF s = {} THEN base
                  ELSE Pass(how, h[s \ {CL!Max(s)}], seq[CL!Max(s)])]
  <2> DEFINE k == [s \in SUBSET W |-> IF s = {} THEN base
                      ELSE Pass(how, h[s \ {CL!Max(s)}], seq[CL!Max(s)])]
  <2>1. \A s \in SUBSET W : h[s] = k[s]
    <3> HIDE DEF h
    <3>1. \A s \in SUBSET W : k[s] = IF s = {} THEN base ELSE Pass(how, h[s \ {L(s)}], seq[L(s)])
      BY DEF L
    <3>2. {} \in SUBSET W => h[{}] = base
      BY DEF h
    <3> QED BY <1>5, <3>1, <3>2
  <2>2. DOMAIN h = SUBSET W /\ DOMAIN k = SUBSET W
    OBVIOUS
  <2> HIDE DEF h
  <2>3. k = h
    BY <2>1, <2>2 DEF h
  <2> QED BY <2>3
<1> HIDE DEF h
<1>7. IsFold(how, base, seq, W, h)
  BY <1>6 DEF IsFold
<1> QED BY <1>2, <1>7

\* The definitions are folds over such sets.
LEMMA FoldIs ==
    ASSUME NEW how \in Folds, NEW base, NEW seq, NEW n \in Nat, DOMAIN seq = 1 .. n
    PROVE  \E g : IsFold(how, base, seq, DOMAIN seq, g) /\ Fold(how, base, seq) = g[DOMAIN seq]
<1> DEFINE S == DOMAIN seq
           Q(g) == [s \in SUBSET S |-> IF s = {} THEN base
                                       ELSE CL!QuoteNext(g[s \ {CL!Max(s)}], seq[CL!Max(s)])]
           R(g) == [s \in SUBSET S |-> IF s = {} THEN base
                                       ELSE CL!ReadNext(g[s \ {CL!Max(s)}], seq[CL!Max(s)])]
           J(g) == [s \in SUBSET S |-> IF s = {} THEN base
                                       ELSE CL!JoinNext(g[s \ {CL!Max(s)}], seq[CL!Max(s)])]
           P(g) == [s \in SUBSET S |-> IF s = {} THEN base
                                       ELSE Pass(how, g[s \ {CL!Max(s)}], seq[CL!Max(s)])]
<1>0. \E g : g = P(g)
  <2>1. \E g : IsFold(how, base, seq, S, g)
    BY FoldsExist
  <2>2. PICK g : IsFold(how, base, seq, S, g)
    BY <2>1
  <2>3. g = P(g)
    BY <2>2 DEF IsFold
  <2> QED BY <2>3
<1>1. CASE how = "quote"
  <2>1. Fold(how, base, seq) = (CHOOSE g : g = Q(g))[S]
    BY Zenon, <1>1 DEF Fold, CL!FoldLeft, CL!MapThenFoldSet
  <2>2. \A g : P(g) = Q(g)
    BY <1>1 DEF Pass
  <2> HIDE DEF P, Q
  <2>3. (CHOOSE g : g = Q(g)) = P(CHOOSE g : g = Q(g))
    BY <1>0, <2>2
  <2> QED BY <2>1, <2>3 DEF IsFold, P
<1>2. CASE how = "read"
  <2>1. Fold(how, base, seq) = (CHOOSE g : g = R(g))[S]
    <3>1. Fold(how, base, seq) = CL!FoldLeft(CL!ReadNext, base, seq)
      BY <1>2 DEF Fold
    <3> QED BY Zenon, <3>1 DEF CL!FoldLeft, CL!MapThenFoldSet
  <2>2. \A g : P(g) = R(g)
    BY <1>2 DEF Pass
  <2> HIDE DEF P, R
  <2>3. (CHOOSE g : g = R(g)) = P(CHOOSE g : g = R(g))
    BY <1>0, <2>2
  <2> QED BY <2>1, <2>3 DEF IsFold, P
<1>3. CASE how = "join"
  <2>1. Fold(how, base, seq) = (CHOOSE g : g = J(g))[S]
    <3>1. Fold(how, base, seq) = CL!FoldLeft(CL!JoinNext, base, seq)
      BY <1>3 DEF Fold
    <3> QED BY Zenon, <3>1 DEF CL!FoldLeft, CL!MapThenFoldSet
  <2>2. \A g : P(g) = J(g)
    BY <1>3 DEF Pass
  <2> HIDE DEF P, J
  <2>3. (CHOOSE g : g = J(g)) = P(CHOOSE g : g = J(g))
    BY <1>0, <2>2
  <2> QED BY <2>1, <2>3 DEF IsFold, P
<1> QED BY <1>1, <1>2, <1>3 DEF Folds

\* A fold is the fold of what comes before the last element, and one step more.
LEMMA FoldStarts ==
    ASSUME NEW how \in Folds, NEW base
    PROVE  Fold(how, base, << >>) = base
<1> DEFINE q == << >>
<1>1. DOMAIN q = 1 .. 0 /\ DOMAIN q = {}
  OBVIOUS
<1> HIDE DEF q
<1>2. PICK g : IsFold(how, base, q, DOMAIN q, g) /\ Fold(how, base, q) = g[DOMAIN q]
  BY <1>1, FoldIs
<1>3. g[{}] = base
  BY <1>1, <1>2, FoldUnfolds
<1> QED BY <1>1, <1>2, <1>3 DEF q

LEMMA FoldGoesOn ==
    ASSUME NEW how \in Folds, NEW base, NEW C, NEW p \in Seq(C), NEW x \in C
    PROVE  Fold(how, base, Append(p, x)) = Pass(how, Fold(how, base, p), x)
<1> DEFINE q == Append(p, x)  n == Len(q)  U == 1 .. n - 1  V == 1 .. n
<1>1. /\ n \in Nat \ {0} /\ DOMAIN q = V /\ DOMAIN p = U /\ q[n] = x
      /\ \A k \in U : q[k] = p[k]
  OBVIOUS
<1> HIDE DEF q
<1>2. PICK g : IsFold(how, base, q, DOMAIN q, g) /\ Fold(how, base, q) = g[DOMAIN q]
  BY <1>1, FoldIs
<1>3. PICK h : IsFold(how, base, p, DOMAIN p, h) /\ Fold(how, base, p) = h[DOMAIN p]
  <2>1. Len(p) \in Nat /\ DOMAIN p = 1 .. Len(p)
    OBVIOUS
  <2> QED BY <2>1, FoldIs
<1> HIDE DEF n
<1>5. CL!Max(V) = n /\ V \ {n} = U /\ V # {}
  <2>1. n \in V
    BY <1>1
  <2>2. V # {} /\ V \in SUBSET (1 .. n)
    BY <2>1
  <2> HIDE DEF V
  <2>3. CL!Max(V) \in V /\ \A y \in V : CL!Max(V) >= y
    BY <1>1, <2>2, LastIs
  <2> QED BY <1>1, <2>1, <2>3 DEF V
<1> HIDE DEF U, V
<1>6. g[V] = Pass(how, g[U], q[n])
  <2> DEFINE D == DOMAIN q
  <2>1. IsFold(how, base, q, D, g) /\ V # {} /\ V \in SUBSET D
    BY <1>1, <1>2, <1>5
  <2> HIDE DEF D
  <2>2. g[V] = Pass(how, g[V \ {CL!Max(V)}], q[CL!Max(V)])
    BY ONLY <2>1, FoldUnfolds
  <2> QED BY <1>5, <2>2
<1>7. g[U] = h[U]
  <2>1. IsFiniteSet(U) /\ U \subseteq DOMAIN q /\ U \subseteq DOMAIN p
    BY <1>1, FS_Interval DEF U, V
  <2>2. \A s \in SUBSET U : s # {} => CL!Max(s) \in s
    <3>1. n - 1 \in Nat
      BY <1>1
    <3> QED BY <3>1, LastIs DEF U
  <2> QED BY <1>1, <1>2, <1>3, <2>1, <2>2, FoldsAgree
<1> QED BY <1>1, <1>2, <1>3, <1>6, <1>7 DEF q

-----------------------------------------------------------------------------
(* How the child reads.                                                    *)

Alphabet == STRING \cup {CL!Slash, CL!Quote, CL!Space}
Chars == Seq(Alphabet)
Read(st, s) == Fold("read", st, s)

\* The child has read whole arguments, and of the next one, in quotes or not, some characters
\* and the backslashes after them.
InQuotes(args, word, n) ==
    [args |-> args, word |-> word, open |-> TRUE, quoted |-> TRUE, slashes |-> n]
InWord(args, word, n) ==
    [args |-> args, word |-> word, open |-> TRUE, quoted |-> FALSE, slashes |-> n]
Start(args) ==
    [args |-> args, word |-> << >>, open |-> FALSE, quoted |-> FALSE, slashes |-> 0]

LEMMA OneMore ==
    ASSUME NEW S, NEW p \in Seq(S), NEW x \in S
    PROVE  p \o <<x>> = Append(p, x) /\ Append(p, x) \in Seq(S) /\ Append(p, x) # << >>
OBVIOUS

LEMMA ConcatAppend ==
    ASSUME NEW S, NEW p \in Seq(S), NEW q \in Seq(S), NEW x \in S
    PROVE  p \o Append(q, x) = Append(p \o q, x)
OBVIOUS

LEMMA Prefixes ==
    ASSUME NEW S, NEW p \in Seq(S)
    PROVE  /\ SubSeq(p, 1, 0) = << >> /\ SubSeq(p, 1, Len(p)) = p
           /\ \A k \in 1 .. Len(p) : /\ SubSeq(p, 1, k - 1) \in Seq(S) /\ p[k] \in S
                                     /\ SubSeq(p, 1, k) = Append(SubSeq(p, 1, k - 1), p[k])
OBVIOUS

LEMMA SlashesAre ==
    ASSUME NEW n \in Nat
    PROVE  /\ CL!Slashes(n) \in Chars /\ Len(CL!Slashes(n)) = n /\ CL!Slashes(0) = << >>
           /\ Append(CL!Slashes(n), CL!Slash) = CL!Slashes(n + 1)
<1> DEFINE p == CL!Slashes(n)  q == CL!Slashes(n + 1)  x == CL!Slash
<1>0. x \in Alphabet
  BY DEF Alphabet
<1>1. /\ p \in Seq(Alphabet) /\ Len(p) = n /\ \A k \in 1 .. n : p[k] = x
      /\ q \in Seq(Alphabet) /\ Len(q) = n + 1 /\ \A k \in 1 .. n + 1 : q[k] = x
  BY <1>0 DEF CL!Slashes
<1>2. CL!Slashes(0) = << >>
  <2> DEFINE r == CL!Slashes(0)
  <2>1. r \in Seq(Alphabet) /\ Len(r) = 0
    BY <1>0 DEF CL!Slashes
  <2> HIDE DEF r
  <2>2. r = << >>
    BY <2>1
  <2> QED BY <2>2 DEF r
<1> HIDE DEF p, q, x
<1>3. Append(p, x) = q
  <2> DEFINE r == Append(p, x)
  <2>1. /\ r \in Seq(Alphabet) /\ Len(r) = n + 1 /\ r[n + 1] = x
        /\ \A k \in 1 .. n : r[k] = p[k]
    BY <1>0, <1>1
  <2>2. \A k \in 1 .. n + 1 : r[k] = x
    BY <1>1, <2>1
  <2> HIDE DEF r
  <2>3. r = q
    BY <1>1, <2>1, <2>2, SeqEqual
  <2> QED BY <2>3 DEF r
<1> QED BY <1>1, <1>2, <1>3 DEF p, q, x, Chars

LEMMA ReadStarts == ASSUME NEW st PROVE Read(st, << >>) = st
BY FoldStarts DEF Folds, Read

LEMMA ReadGoesOn ==
    ASSUME NEW st, NEW s \in Chars, NEW ch \in Alphabet
    PROVE  Read(st, Append(s, ch)) = CL!ReadNext(Read(st, s), ch)
<1>1. Fold("read", st, Append(s, ch)) = Pass("read", Fold("read", st, s), ch)
  BY FoldGoesOn DEF Folds, Chars
<1> QED BY <1>1 DEF Read, Pass

\* A line is read piece by piece.
LEMMA ReadPieces ==
    ASSUME NEW st, NEW s \in Chars, NEW t \in Chars
    PROVE  Read(st, s \o t) = Read(Read(st, s), t)
<1> DEFINE n == Len(t)  P(k) == SubSeq(t, 1, k)
           A == {k \in 0 .. n : Read(st, s \o P(k)) = Read(Read(st, s), P(k))}
<1>0. n \in Nat /\ P(0) = << >> /\ P(n) = t
  BY Prefixes DEF Chars
<1>1. 0 \in A
  <2>1. s \o << >> = s
    BY DEF Chars
  <2>2. Read(st, s \o P(0)) = Read(Read(st, s), P(0))
    BY <1>0, <2>1, ReadStarts
  <2>3. 0 \in 0 .. n
    BY <1>0
  <2> HIDE DEF P, n
  <2> QED BY <2>2, <2>3
<1>2. ASSUME NEW k \in 1 .. n, k - 1 \in A PROVE k \in A
  <2>1. P(k) = Append(P(k - 1), t[k]) /\ P(k - 1) \in Chars /\ t[k] \in Alphabet
    BY Prefixes DEF Chars
  <2> HIDE DEF P
  <2>2. s \o P(k) = Append(s \o P(k - 1), t[k]) /\ s \o P(k - 1) \in Chars
    BY <2>1, ConcatAppend DEF Chars
  <2>3. Read(st, s \o P(k)) = CL!ReadNext(Read(st, s \o P(k - 1)), t[k])
    BY <2>1, <2>2, ReadGoesOn
  <2>4. Read(Read(st, s), P(k)) = CL!ReadNext(Read(Read(st, s), P(k - 1)), t[k])
    BY <2>1, ReadGoesOn
  <2> QED BY <1>2, <2>3, <2>4
<1> HIDE DEF P
<1>3. n \in A
  <2> HIDE DEF A, n
  <2> QED BY ONLY <1>0, <1>1, <1>2, Climb
<1> QED BY <1>0, <1>3

LEMMA SignsDiffer == CL!Slash # CL!Quote /\ CL!Space # CL!Slash /\ CL!Space # CL!Quote
BY DEF CL!Space, CL!Slash, CL!Quote

LEMMA NextSlash ==
    ASSUME NEW a, NEW w, NEW n \in Nat
    PROVE  /\ CL!ReadNext(InQuotes(a, w, n), CL!Slash) = InQuotes(a, w, n + 1)
           /\ CL!ReadNext(InWord(a, w, n), CL!Slash) = InWord(a, w, n + 1)
           /\ CL!ReadNext(Start(a), CL!Slash) = InWord(a, << >>, 1)
<1>1. CL!ReadNext(InQuotes(a, w, n), CL!Slash) = InQuotes(a, w, n + 1)
  BY DEF CL!ReadNext, InQuotes
<1>2. CL!ReadNext(InWord(a, w, n), CL!Slash) = InWord(a, w, n + 1)
  BY DEF CL!ReadNext, InWord
<1>3. CL!ReadNext(Start(a), CL!Slash) = InWord(a, << >>, 1)
  <2>1. CL!ReadNext(Start(a), CL!Slash) = InWord(a, << >>, 0 + 1)
    BY DEF CL!ReadNext, InWord, Start
  <2>2. 0 + 1 = 1
    OBVIOUS
  <2> QED BY <2>1, <2>2
<1> QED BY <1>1, <1>2, <1>3

LEMMA NextInQuotes ==
    ASSUME NEW a, NEW w, NEW n \in Nat, NEW ch, ch \notin {CL!Slash, CL!Quote}
    PROVE  CL!ReadNext(InQuotes(a, w, n), ch) = InQuotes(a, Append(w \o CL!Slashes(n), ch), 0)
BY DEF CL!ReadNext, CL!Flush, InQuotes

LEMMA NextInWord ==
    ASSUME NEW a, NEW w, NEW n \in Nat, NEW ch, ch \notin {CL!Slash, CL!Quote, CL!Space}
    PROVE  CL!ReadNext(InWord(a, w, n), ch) = InWord(a, Append(w \o CL!Slashes(n), ch), 0)
BY DEF CL!ReadNext, CL!Flush, InWord

LEMMA NextAtStart ==
    ASSUME NEW a, NEW ch, ch \notin {CL!Slash, CL!Quote, CL!Space}
    PROVE  CL!ReadNext(Start(a), ch) = InWord(a, Append(<< >> \o CL!Slashes(0), ch), 0)
BY DEF CL!ReadNext, CL!Flush, InWord, Start

LEMMA Halves ==
    ASSUME NEW m \in Nat
    PROVE  /\ (2 * m) \div 2 = m /\ (2 * m) % 2 = 0
           /\ (2 * m + 1) \div 2 = m /\ (2 * m + 1) % 2 = 1
OBVIOUS

\* After an even number of backslashes a quote is a sign, after an odd one a character.
LEMMA QuoteCloses ==
    ASSUME NEW a, NEW w, NEW m \in Nat, NEW n, n = 2 * m, a # << >>
    PROVE  CL!ReadNext(InQuotes(a, w, n), CL!Quote) = InWord(a, w \o CL!Slashes(m), 0)
<1>1. n \div 2 = m /\ ~(n % 2 = 1)
  BY Halves
<1> QED BY <1>1, SignsDiffer DEF CL!ReadNext, InQuotes, InWord

LEMMA QuoteCounts ==
    ASSUME NEW a, NEW w, NEW m \in Nat, NEW n, n = 2 * m + 1, a # << >>
    PROVE  CL!ReadNext(InQuotes(a, w, n), CL!Quote)
               = InQuotes(a, Append(w \o CL!Slashes(m), CL!Quote), 0)
<1>1. n \div 2 = m /\ n % 2 = 1
  BY Halves
<1> QED BY <1>1, SignsDiffer DEF CL!ReadNext, InQuotes

\* In the name of the program a quote is always a sign.
LEMMA QuoteOfName ==
    ASSUME NEW w, NEW n \in Nat
    PROVE  CL!ReadNext(InQuotes(<< >>, w, n), CL!Quote) = InWord(<< >>, w \o CL!Slashes(n), 0)
BY SignsDiffer DEF CL!ReadNext, CL!Flush, InQuotes, InWord

LEMMA QuoteAtStart ==
    ASSUME NEW a
    PROVE  CL!ReadNext(Start(a), CL!Quote) = InQuotes(a, << >> \o CL!Slashes(0), 0)
<1>1. CASE a = << >>
  BY <1>1, SignsDiffer DEF CL!ReadNext, CL!Flush, InQuotes, Start
<1>2. CASE a # << >>
  <2>1. 0 \div 2 = 0 /\ ~(0 % 2 = 1)
    OBVIOUS
  <2> QED BY <1>2, <2>1, SignsDiffer DEF CL!ReadNext, InQuotes, Start
<1> QED BY <1>1, <1>2

\* A space or the end of the line ends a word.
LEMMA WordEnds ==
    ASSUME NEW a, NEW w, NEW n
    PROVE  /\ CL!EndWord(InWord(a, w, n)) = Start(Append(a, w \o CL!Slashes(n)))
           /\ CL!ReadNext(InWord(a, w, n), CL!Space) = Start(Append(a, w \o CL!Slashes(n)))
<1>1. CL!EndWord(InWord(a, w, n)) = Start(Append(a, w \o CL!Slashes(n)))
  BY DEF CL!EndWord, CL!Flush, InWord, Start
<1>2. CL!ReadNext(InWord(a, w, n), CL!Space) = CL!EndWord(InWord(a, w, n))
  <2>1. InWord(a, w, n).quoted = FALSE
    BY DEF InWord
  <2> QED BY <2>1, SignsDiffer DEF CL!ReadNext
<1> QED BY <1>1, <1>2

-----------------------------------------------------------------------------
(* An argument on the line is read as that argument.                       *)

\* The child that has read what is on the line of the characters p is in quotes and has p.
Carried(a, p, st) ==
    /\ st \in [out : Chars, slashes : Nat]
    /\ \E w \in Chars : /\ Read(Start(a), st.out) = InQuotes(a, w, 0)
                        /\ p = w \o CL!Slashes(st.slashes)

\* The child that has read s is at the end of arg.
Whole(a, arg, s) ==
    /\ s \in Chars /\ s # << >>
    /\ \E w \in Chars, n \in Nat : /\ Read(Start(a), s) = InWord(a, w, n)
                                   /\ arg = w \o CL!Slashes(n)

LEMMA Signs == {CL!Slash, CL!Quote, CL!Space} \subseteq Alphabet
BY DEF Alphabet

\* One run of backslashes is another with one more.
LEMMA OneSlashMore ==
    ASSUME NEW k \in Nat, k # 0
    PROVE  /\ CL!Slashes(k) = Append(CL!Slashes(k - 1), CL!Slash) /\ CL!Slashes(k - 1) \in Chars
           /\ \A a, w : CL!ReadNext(InQuotes(a, w, k - 1), CL!Slash) = InQuotes(a, w, k)
<1> DEFINE j == k - 1
<1>1. j \in Nat /\ j + 1 = k
  OBVIOUS
<1> HIDE DEF j
<1>2. CL!Slashes(k) = Append(CL!Slashes(j), CL!Slash) /\ CL!Slashes(j) \in Chars
  BY <1>1, SlashesAre
<1>3. \A a, w : CL!ReadNext(InQuotes(a, w, j), CL!Slash) = InQuotes(a, w, k)
  BY <1>1, NextSlash
<1> QED BY <1>2, <1>3 DEF j

LEMMA SlashesRead ==
    ASSUME NEW a, NEW w, NEW n \in Nat
    PROVE  Read(InQuotes(a, w, 0), CL!Slashes(n)) = InQuotes(a, w, n)
<1> DEFINE st == InQuotes(a, w, 0)
           A == {k \in 0 .. n : Read(st, CL!Slashes(k)) = InQuotes(a, w, k)}
<1>1. 0 \in A
  <2>1. CL!Slashes(0) = << >>
    BY SlashesAre
  <2>2. Read(st, CL!Slashes(0)) = st
    BY <2>1, ReadStarts
  <2> QED BY <2>2
<1>2. ASSUME NEW k \in 1 .. n, k - 1 \in A PROVE k \in A
  <2>1. /\ CL!Slashes(k) = Append(CL!Slashes(k - 1), CL!Slash) /\ CL!Slashes(k - 1) \in Chars
        /\ CL!ReadNext(InQuotes(a, w, k - 1), CL!Slash) = InQuotes(a, w, k)
    <3>1. k \in Nat /\ k # 0
      OBVIOUS
    <3> QED BY <3>1, OneSlashMore
  <2>2. Read(st, CL!Slashes(k)) = CL!ReadNext(Read(st, CL!Slashes(k - 1)), CL!Slash)
    BY <2>1, Signs, ReadGoesOn
  <2>3. Read(st, CL!Slashes(k - 1)) = InQuotes(a, w, k - 1)
    BY <1>2
  <2>4. Read(st, CL!Slashes(k)) = InQuotes(a, w, k) /\ k \in 0 .. n
    BY <2>1, <2>2, <2>3
  <2> QED BY <2>4
<1>3. n \in A
  <2> HIDE DEF A
  <2> QED BY ONLY <1>1, <1>2, Climb, n \in Nat
<1> QED BY <1>3

\* What is put on the line: backslashes, and one sign after them.
LEMMA ReadRun ==
    ASSUME NEW st, NEW s \in Chars, NEW n \in Nat, NEW ch \in Alphabet,
           NEW a, NEW w, Read(st, s) = InQuotes(a, w, 0)
    PROVE  /\ s \o CL!Slashes(n) \o <<ch>> \in Chars /\ s \o CL!Slashes(n) \o <<ch>> # << >>
           /\ Read(st, s \o CL!Slashes(n) \o <<ch>>) = CL!ReadNext(InQuotes(a, w, n), ch)
<1> DEFINE t == s \o CL!Slashes(n)
<1>1. CL!Slashes(n) \in Chars
  BY SlashesAre
<1>2. t \in Chars
  BY <1>1 DEF Chars
<1>3. Read(st, t) = InQuotes(a, w, n)
  <2>1. Read(st, t) = Read(Read(st, s), CL!Slashes(n))
    BY <1>1, ReadPieces
  <2>2. Read(InQuotes(a, w, 0), CL!Slashes(n)) = InQuotes(a, w, n)
    BY SlashesRead
  <2> QED BY <2>1, <2>2
<1> HIDE DEF t
<1>4. t \o <<ch>> = Append(t, ch) /\ Append(t, ch) \in Chars /\ Append(t, ch) # << >>
  BY <1>2, OneMore DEF Chars
<1>5. Read(st, Append(t, ch)) = CL!ReadNext(Read(st, t), ch)
  BY <1>2, ReadGoesOn
<1> QED BY <1>3, <1>4, <1>5 DEF t

LEMMA NoSlash == ASSUME NEW p \in Chars PROVE p \o CL!Slashes(0) = p
<1>1. CL!Slashes(0) = << >>
  BY SlashesAre
<1> QED BY <1>1 DEF Chars

LEMMA QuoteOpens ==
    ASSUME NEW a
    PROVE  Carried(a, << >>, [out |-> <<CL!Quote>>, slashes |-> 0])
<1> DEFINE q == CL!Quote  e == << >>
<1>1. <<q>> = Append(e, q) /\ e \in Chars /\ q \in Alphabet /\ <<q>> \in Chars
  BY Signs DEF Chars
<1> HIDE DEF e
<1>2. Read(Start(a), <<q>>) = CL!ReadNext(Start(a), q)
  <2>1. Read(Start(a), Append(e, q)) = CL!ReadNext(Read(Start(a), e), q)
    BY <1>1, ReadGoesOn
  <2> QED BY <1>1, <2>1, ReadStarts DEF e
<1>3. CL!ReadNext(Start(a), q) = InQuotes(a, e \o CL!Slashes(0), 0)
  BY QuoteAtStart DEF e
<1>4. e = e \o CL!Slashes(0)
  BY <1>1, NoSlash
<1> QED BY <1>1, <1>2, <1>3, <1>4 DEF Carried, e

LEMMA QuoteGoesOn ==
    ASSUME NEW a, NEW p \in Chars, NEW ch \in Alphabet, a # << >> \/ ch # CL!Quote,
           NEW st, Carried(a, p, st)
    PROVE  Carried(a, Append(p, ch), CL!QuoteNext(st, ch))
<1> DEFINE n == st.slashes
<1>1. st \in [out : Chars, slashes : Nat] /\ n \in Nat /\ st.out \in Chars
  BY DEF Carried
<1>2. PICK w \in Chars : Read(Start(a), st.out) = InQuotes(a, w, 0) /\ p = w \o CL!Slashes(n)
  BY DEF Carried
<1>3. CL!Slashes(n) \in Chars
  BY <1>1, SlashesAre
<1>4. CASE ch = CL!Slash
  <2>1. CL!QuoteNext(st, ch) = [out |-> st.out, slashes |-> n + 1]
    BY <1>1, <1>4 DEF CL!QuoteNext
  <2>2. Append(p, ch) = w \o CL!Slashes(n + 1)
    <3> HIDE DEF n
    <3>1. CL!Slashes(n + 1) = Append(CL!Slashes(n), ch)
      BY <1>1, <1>4, SlashesAre
    <3>2. w \o Append(CL!Slashes(n), ch) = Append(w \o CL!Slashes(n), ch)
      BY <1>3, ConcatAppend DEF Chars
    <3> QED BY <1>2, <3>1, <3>2
  <2> DEFINE st2 == CL!QuoteNext(st, ch)
  <2>3. st2 \in [out : Chars, slashes : Nat] /\ st2.out = st.out /\ st2.slashes = n + 1
    BY <1>1, <2>1
  <2> HIDE DEF st2
  <2>4. Carried(a, Append(p, ch), st2)
    BY <1>2, <2>2, <2>3 DEF Carried
  <2> QED BY <2>4 DEF st2
<1>5. ASSUME NEW m \in Nat, NEW v \in Chars, Append(p, ch) = v,
             CL!QuoteNext(st, ch) = [out |-> st.out \o CL!Slashes(m) \o <<ch>>, slashes |-> 0],
             CL!ReadNext(InQuotes(a, w, m), ch) = InQuotes(a, v, 0)
      PROVE  Carried(a, Append(p, ch), CL!QuoteNext(st, ch))
  <2> DEFINE line == st.out \o CL!Slashes(m) \o <<ch>>
  <2>1. line \in Chars /\ Read(Start(a), line) = CL!ReadNext(InQuotes(a, w, m), ch)
    BY <1>1, <1>2, ReadRun
  <2>2. v = v \o CL!Slashes(0)
    BY NoSlash
  <2> HIDE DEF line
  <2>3. CL!QuoteNext(st, ch) = [out |-> line, slashes |-> 0]
    BY <1>5 DEF line
  <2> DEFINE st2 == CL!QuoteNext(st, ch)
  <2>4. st2 \in [out : Chars, slashes : Nat] /\ st2.out = line /\ st2.slashes = 0
    BY <2>1, <2>3
  <2> HIDE DEF st2
  <2>5. Carried(a, v, st2)
    BY <1>5, <2>1, <2>2, <2>4 DEF Carried
  <2> QED BY <1>5, <2>5 DEF st2
<1>6. Append(p, ch) \in Chars
  BY DEF Chars
<1>7. CASE ch # CL!Slash /\ ch = CL!Quote
  <2> DEFINE m == 2 * n + 1
  <2>1. m \in Nat
    BY <1>1
  <2>2. CL!QuoteNext(st, ch) = [out |-> st.out \o CL!Slashes(m) \o <<ch>>, slashes |-> 0]
    BY <1>7 DEF CL!QuoteNext
  <2> HIDE DEF n
  <2>3. CL!ReadNext(InQuotes(a, w, m), CL!Quote) = InQuotes(a, Append(w \o CL!Slashes(n), CL!Quote), 0)
    BY <1>1, <1>7, QuoteCounts
  <2> HIDE DEF m
  <2> QED BY <1>2, <1>5, <1>6, <1>7, <2>1, <2>2, <2>3
<1>8. CASE ch # CL!Slash /\ ch # CL!Quote
  <2>1. CL!QuoteNext(st, ch) = [out |-> st.out \o CL!Slashes(n) \o <<ch>>, slashes |-> 0]
    BY <1>8 DEF CL!QuoteNext
  <2> HIDE DEF n
  <2>2. CL!ReadNext(InQuotes(a, w, n), ch) = InQuotes(a, Append(w \o CL!Slashes(n), ch), 0)
    BY <1>1, <1>8, NextInQuotes
  <2> QED BY <1>1, <1>2, <1>5, <1>6, <2>1, <2>2
<1> QED BY <1>4, <1>7, <1>8

\* What quote_windows_arg has made of the characters so far.
Quoting(p) == Fold("quote", [out |-> <<CL!Quote>>, slashes |-> 0], p)

\* No character is lost on the way (QuoteNext), the quotes in a program's name, which has none, aside.
LEMMA AllCarried ==
    ASSUME NEW a, NEW arg \in Chars, a # << >> \/ \A k \in 1 .. Len(arg) : arg[k] # CL!Quote
    PROVE  Carried(a, arg, Quoting(arg))
<1> DEFINE n == Len(arg)  P(k) == SubSeq(arg, 1, k)
           A == {k \in 0 .. n : Carried(a, P(k), Quoting(P(k)))}
<1>0. n \in Nat /\ P(0) = << >> /\ P(n) = arg
  BY Prefixes DEF Chars
<1>1. 0 \in A
  <2>1. Quoting(<< >>) = [out |-> <<CL!Quote>>, slashes |-> 0]
    BY FoldStarts DEF Folds, Quoting
  <2>2. Carried(a, P(0), Quoting(P(0)))
    BY <1>0, <2>1, QuoteOpens
  <2> HIDE DEF P
  <2> QED BY <1>0, <2>2
<1>2. ASSUME NEW k \in 1 .. n, k - 1 \in A PROVE k \in A
  <2>1. /\ P(k) = Append(P(k - 1), arg[k]) /\ P(k - 1) \in Chars /\ arg[k] \in Alphabet
        /\ a # << >> \/ arg[k] # CL!Quote
    BY Prefixes DEF Chars
  <2> HIDE DEF P
  <2>2. Carried(a, P(k - 1), Quoting(P(k - 1)))
    BY <1>2
  <2>3. Quoting(P(k)) = CL!QuoteNext(Quoting(P(k - 1)), arg[k])
    <3>1. Fold("quote", [out |-> <<CL!Quote>>, slashes |-> 0], Append(P(k - 1), arg[k]))
              = Pass("quote", Quoting(P(k - 1)), arg[k])
      BY <2>1, FoldGoesOn DEF Folds, Chars, Quoting
    <3> QED BY <2>1, <3>1 DEF Pass, Quoting
  <2>4. Carried(a, P(k), Quoting(P(k)))
    BY <2>1, <2>2, <2>3, QuoteGoesOn
  <2> QED BY <1>0, <2>4
<1> HIDE DEF P
<1>3. n \in A
  <2> HIDE DEF A, n
  <2> QED BY ONLY <1>0, <1>1, <1>2, Climb
<1> QED BY <1>0, <1>3

\* A name that has no backslash at its end has none before the quote that closes it.
LEMMA LastCarried ==
    ASSUME NEW w \in Chars, NEW n \in Nat, NEW arg, arg = w \o CL!Slashes(n), arg[Len(arg)] # CL!Slash
    PROVE  n = 0
<1>1. SUFFICES ASSUME n # 0 PROVE FALSE
  OBVIOUS
<1>2. CL!Slashes(n) = Append(CL!Slashes(n - 1), CL!Slash) /\ CL!Slashes(n - 1) \in Chars
  BY <1>1, OneSlashMore
<1> DEFINE v == CL!Slashes(n - 1)
<1>3. arg = Append(w \o v, CL!Slash) /\ w \o v \in Chars
  BY <1>2, Signs, ConcatAppend DEF Chars
<1> HIDE DEF v
<1>4. Append(w \o v, CL!Slash)[Len(Append(w \o v, CL!Slash))] = CL!Slash
  BY <1>3, Signs DEF Chars
<1> QED BY <1>3, <1>4

LEMMA QuotedWhole ==
    ASSUME NEW a, NEW arg \in Chars,
           \/ a # << >>
           \/ arg[Len(arg)] # CL!Slash /\ \A k \in 1 .. Len(arg) : arg[k] # CL!Quote,
           NEW st, st = Quoting(arg)
    PROVE  Whole(a, arg, st.out \o CL!Slashes(2 * st.slashes) \o <<CL!Quote>>)
<1> DEFINE n == st.slashes  m == 2 * n  line == st.out \o CL!Slashes(m) \o <<CL!Quote>>
<1>1. Carried(a, arg, st)
  BY AllCarried
<1>2. n \in Nat /\ m \in Nat /\ st.out \in Chars
  BY <1>1 DEF Carried
<1>3. PICK w \in Chars : Read(Start(a), st.out) = InQuotes(a, w, 0) /\ arg = w \o CL!Slashes(n)
  BY <1>1 DEF Carried
<1>4. CL!Slashes(n) \in Chars
  BY <1>2, SlashesAre
<1>5. CL!ReadNext(InQuotes(a, w, m), CL!Quote) = InWord(a, arg, 0)
  <2>1. CASE a # << >>
    <3> HIDE DEF n
    <3> QED BY <1>2, <1>3, <2>1, QuoteCloses
  <2>2. CASE a = << >>
    <3>1. n = 0
      <4> HIDE DEF n
      <4> QED BY <1>2, <1>3, <2>2, LastCarried
    <3>2. m = 0
      BY <3>1
    <3> HIDE DEF n, m
    <3> QED BY <1>3, <2>2, <3>1, <3>2, QuoteOfName
  <2> QED BY <2>1, <2>2
<1> HIDE DEF n, m
<1>6. line \in Chars /\ line # << >> /\ Read(Start(a), line) = CL!ReadNext(InQuotes(a, w, m), CL!Quote)
  BY <1>2, <1>3, Signs, ReadRun
<1>7. arg = arg \o CL!Slashes(0)
  BY NoSlash
<1> HIDE DEF line
<1>8. Whole(a, arg, line)
  BY <1>5, <1>6, <1>7 DEF Whole
<1> QED BY <1>8 DEF line, m, n

\* What needs no quotes is read as it is.
LEMMA PlainWhole ==
    ASSUME NEW a, NEW arg \in Chars, arg # << >>,
           \A k \in 1 .. Len(arg) : arg[k] \notin {CL!Quote, CL!Space}
    PROVE  Whole(a, arg, arg)
<1> DEFINE n == Len(arg)  P(k) == SubSeq(arg, 1, k)
           A == {k \in 0 .. n : IF k = 0 THEN Read(Start(a), P(k)) = Start(a)
                                ELSE \E w \in Chars, m \in Nat : /\ Read(Start(a), P(k)) = InWord(a, w, m)
                                                                 /\ P(k) = w \o CL!Slashes(m)}
<1>0. n \in Nat /\ P(0) = << >> /\ P(n) = arg /\ n # 0
  BY Prefixes DEF Chars
<1>1. 0 \in A
  <2>1. Read(Start(a), P(0)) = Start(a)
    BY <1>0, ReadStarts
  <2> HIDE DEF P
  <2> QED BY <1>0, <2>1
<1>2. ASSUME NEW k \in 1 .. n, k - 1 \in A PROVE k \in A
  <2> DEFINE ch == arg[k]
  <2>1. /\ P(k) = Append(P(k - 1), ch) /\ P(k - 1) \in Chars /\ ch \in Alphabet
        /\ ch \notin {CL!Quote, CL!Space}
    BY Prefixes DEF Chars
  <2> HIDE DEF P, ch
  <2>2. Read(Start(a), P(k)) = CL!ReadNext(Read(Start(a), P(k - 1)), ch)
    BY <2>1, ReadGoesOn
  <2>3. SUFFICES \E w \in Chars, m \in Nat : /\ Read(Start(a), P(k)) = InWord(a, w, m)
                                             /\ P(k) = w \o CL!Slashes(m)
    <3>1. k \in 0 .. n /\ k # 0
      OBVIOUS
    <3> HIDE DEF n
    <3> QED BY <3>1
  <2>4. CASE k = 1
    <3>1. Read(Start(a), P(0)) = Start(a) /\ P(k - 1) = P(0)
      BY <1>1, <2>4
    <3>2. CASE ch = CL!Slash
      <4> DEFINE e == << >>
      <4>1. e \in Chars
        BY DEF Chars
      <4>2. Read(Start(a), P(k)) = InWord(a, e, 1)
        BY <2>2, <3>1, <3>2, NextSlash
      <4>3. CL!Slashes(1) = Append(CL!Slashes(0), CL!Slash) /\ CL!Slashes(0) = e
        BY SlashesAre
      <4>4. P(k) = Append(e, CL!Slash) /\ Append(e, CL!Slash) = CL!Slashes(1)
        BY <1>0, <2>1, <3>1, <3>2, <4>3
      <4>5. e \o CL!Slashes(1) = CL!Slashes(1)
        BY SlashesAre DEF Chars
      <4> HIDE DEF e
      <4> QED BY <4>1, <4>2, <4>4, <4>5
    <3>3. CASE ch # CL!Slash
      <4> DEFINE e == << >>  v == Append(e \o CL!Slashes(0), ch)
      <4>1. Read(Start(a), P(k)) = InWord(a, v, 0)
        BY <2>1, <2>2, <3>1, <3>3, NextAtStart
      <4>2. e \o CL!Slashes(0) = e
        BY SlashesAre
      <4>3. v = P(k) /\ v \in Chars
        BY <1>0, <2>1, <3>1, <4>2 DEF Chars
      <4> HIDE DEF v
      <4> QED BY <4>1, <4>3, NoSlash
    <3> QED BY <3>2, <3>3
  <2>5. CASE k # 1
    <3>1. k - 1 # 0
      BY <2>5
    <3>2. PICK w \in Chars, m \in Nat : /\ Read(Start(a), P(k - 1)) = InWord(a, w, m)
                                        /\ P(k - 1) = w \o CL!Slashes(m)
      BY <1>2, <3>1
    <3>3. CL!Slashes(m) \in Chars
      BY SlashesAre
    <3>4. CASE ch = CL!Slash
      <4>1. Read(Start(a), P(k)) = InWord(a, w, m + 1)
        BY <2>2, <3>2, <3>4, NextSlash
      <4>2. P(k) = w \o CL!Slashes(m + 1)
        <5>1. CL!Slashes(m + 1) = Append(CL!Slashes(m), ch)
          BY <3>4, SlashesAre
        <5>2. w \o Append(CL!Slashes(m), ch) = Append(w \o CL!Slashes(m), ch)
          BY <2>1, <3>3, ConcatAppend DEF Chars
        <5> QED BY <2>1, <3>2, <5>1, <5>2
      <4>3. m + 1 \in Nat
        OBVIOUS
      <4> QED BY <4>1, <4>2, <4>3
    <3>5. CASE ch # CL!Slash
      <4>1. Read(Start(a), P(k)) = InWord(a, Append(w \o CL!Slashes(m), ch), 0)
        BY <2>1, <2>2, <3>2, <3>5, NextInWord
      <4>2. P(k) = Append(w \o CL!Slashes(m), ch) /\ P(k) \in Chars
        BY <2>1, <3>2, OneMore DEF Chars
      <4> QED BY <4>1, <4>2, NoSlash
    <3> QED BY <3>4, <3>5
  <2> QED BY <2>4, <2>5
<1> HIDE DEF P
<1>3. n \in A
  <2> HIDE DEF A, n
  <2> QED BY ONLY <1>0, <1>1, <1>2, Climb
<1> QED BY <1>0, <1>3 DEF Whole

LEMMA ArgWhole ==
    ASSUME NEW a, NEW arg \in Chars,
           \/ a # << >>
           \/ /\ arg # << >> /\ arg[Len(arg)] # CL!Slash
              /\ \A k \in 1 .. Len(arg) : arg[k] # CL!Quote
    PROVE  Whole(a, arg, CL!QuoteArg(arg))
<1>1. DOMAIN arg = 1 .. Len(arg)
  BY DEF Chars
<1>2. CASE arg # << >> /\ CL!Range(arg) \cap {CL!Space, CL!Quote} = {}
  <2>1. \A k \in 1 .. Len(arg) : arg[k] \notin {CL!Quote, CL!Space}
    BY <1>1, <1>2 DEF CL!Range
  <2>2. CL!QuoteArg(arg) = arg
    BY <1>2 DEF CL!QuoteArg
  <2> QED BY <1>2, <2>1, <2>2, PlainWhole
<1>3. CASE ~(arg # << >> /\ CL!Range(arg) \cap {CL!Space, CL!Quote} = {})
  <2> DEFINE st == Quoting(arg)
  <2>1. CL!QuoteArg(arg) = st.out \o CL!Slashes(2 * st.slashes) \o <<CL!Quote>>
    BY <1>3 DEF CL!QuoteArg, Quoting, Fold
  <2>2. Whole(a, arg, st.out \o CL!Slashes(2 * st.slashes) \o <<CL!Quote>>)
    <3> HIDE DEF st
    <3>1. st = Quoting(arg)
      BY DEF st
    <3> QED BY <3>1, QuotedWhole
  <2> QED BY <2>1, <2>2
<1> QED BY <1>2, <1>3

\* What CreateProcessW finds at the start of the line, and the rest.
Nameable(name) ==
    /\ name # << >> /\ name[Len(name)] # CL!Slash
    /\ \A k \in 1 .. Len(name) : name[k] # CL!Quote

\* The child that has read the line of the first k arguments is at the end of the last of them.
Told(argv, k, line) ==
    /\ line \in Chars /\ line # << >>
    /\ \E w \in Chars, n \in Nat :
          /\ Read(Start(<< >>), line) = InWord(SubSeq(argv, 1, k - 1), w, n)
          /\ argv[k] = w \o CL!Slashes(n)

LEMMA NextTold ==
    ASSUME NEW argv \in Seq(Chars), NEW k \in 1 .. Len(argv), k # 1,
           NEW line, Told(argv, k - 1, line), NEW word, Whole(SubSeq(argv, 1, k - 1), argv[k], word)
    PROVE  Told(argv, k, line \o <<CL!Space>> \o word)
<1> DEFINE a == SubSeq(argv, 1, k - 1)  b == SubSeq(argv, 1, k - 2)
           s == line \o <<CL!Space>>
<1>1. PICK w \in Chars, n \in Nat : /\ Read(Start(<< >>), line) = InWord(b, w, n)
                                    /\ argv[k - 1] = w \o CL!Slashes(n)
  <2>1. (k - 1) - 1 = k - 2
    OBVIOUS
  <2> QED BY <2>1 DEF Told
<1>2. line \in Chars /\ line # << >> /\ word \in Chars /\ word # << >>
  BY DEF Told, Whole
<1>3. a = Append(b, argv[k - 1])
  <2> DEFINE j == k - 1
  <2>1. j \in 1 .. Len(argv) /\ j - 1 = k - 2
    OBVIOUS
  <2> HIDE DEF j
  <2>2. SubSeq(argv, 1, j) = Append(SubSeq(argv, 1, j - 1), argv[j])
    BY <2>1, Prefixes
  <2> QED BY <2>1, <2>2 DEF j
<1>4. PICK v \in Chars, m \in Nat : /\ Read(Start(a), word) = InWord(a, v, m)
                                    /\ argv[k] = v \o CL!Slashes(m)
  BY DEF Whole
<1> HIDE DEF a, b
<1>5. s = Append(line, CL!Space) /\ s \in Chars
  BY <1>2, Signs, OneMore DEF Chars
<1> HIDE DEF s
<1>6. Read(Start(<< >>), s) = Start(a)
  <2>1. Read(Start(<< >>), s) = CL!ReadNext(InWord(b, w, n), CL!Space)
    BY <1>1, <1>2, <1>5, Signs, ReadGoesOn
  <2> QED BY <1>1, <1>3, <2>1, WordEnds
<1>7. Read(Start(<< >>), s \o word) = InWord(a, v, m)
  BY <1>2, <1>4, <1>5, <1>6, ReadPieces
<1>8. s \o word \in Chars /\ s \o word # << >>
  BY <1>2, <1>5 DEF Chars
<1>9. Told(argv, k, s \o word)
  BY <1>4, <1>7, <1>8 DEF Told, a
<1> QED BY <1>9 DEF s

\* The line that is put together of the arguments.
LEMMA LineTold ==
    ASSUME NEW argv \in Seq(Chars), argv # << >>, Nameable(argv[1])
    PROVE  Told(argv, Len(argv), CL!CommandLineOf(argv))
<1> DEFINE n == Len(argv)  words == [i \in DOMAIN argv |-> CL!QuoteArg(argv[i])]
           P(k) == SubSeq(words, 1, k)  J(k) == Fold("join", << >>, P(k))
           A == {k \in 0 .. n : IF k = 0 THEN J(k) = << >> ELSE Told(argv, k, J(k))}
<1>1. n \in Nat /\ n # 0 /\ DOMAIN argv = 1 .. n
  OBVIOUS
<1>2. ASSUME NEW k \in 1 .. n
      PROVE  argv[k] \in Chars /\ Whole(SubSeq(argv, 1, k - 1), argv[k], words[k])
  <2>1. argv[k] \in Chars /\ words[k] = CL!QuoteArg(argv[k])
    OBVIOUS
  <2>2. CASE k = 1
    BY <2>1, <2>2, ArgWhole DEF Nameable
  <2>3. CASE k # 1
    <3>1. SubSeq(argv, 1, k - 1) # << >>
      <4>1. Len(SubSeq(argv, 1, k - 1)) = k - 1
        OBVIOUS
      <4> QED BY <2>3, <4>1
    <3> HIDE DEF words
    <3> QED BY <2>1, <3>1, ArgWhole
  <2> QED BY <2>2, <2>3
<1>3. words \in Seq(Chars) /\ Len(words) = n
  <2>1. \A k \in 1 .. n : words[k] \in Chars
    BY <1>2 DEF Whole
  <2>2. DOMAIN words = 1 .. n
    OBVIOUS
  <2>3. words = [k \in 1 .. n |-> words[k]]
    OBVIOUS
  <2> HIDE DEF words, n
  <2> QED BY <1>1, <2>1, <2>2, <2>3
<1> HIDE DEF words
<1>4. P(0) = << >> /\ P(n) = words
  BY <1>3, Prefixes
<1> HIDE DEF n
<1>5. 0 \in A
  <2>1. J(0) = << >>
    BY <1>4, FoldStarts DEF Folds
  <2> QED BY <1>1, <2>1
<1>6. ASSUME NEW k \in 1 .. n, k - 1 \in A PROVE k \in A
  <2>1. P(k) = Append(P(k - 1), words[k]) /\ P(k - 1) \in Seq(Chars) /\ words[k] \in Chars
    BY <1>3, Prefixes
  <2> HIDE DEF P
  <2>2. J(k) = IF J(k - 1) = << >> THEN words[k] ELSE J(k - 1) \o <<CL!Space>> \o words[k]
    <3>1. Fold("join", << >>, Append(P(k - 1), words[k])) = Pass("join", J(k - 1), words[k])
      BY <2>1, FoldGoesOn DEF Folds
    <3> HIDE DEF J
    <3>2. Fold("join", << >>, P(k)) = J(k)
      BY DEF J
    <3> QED BY <2>1, <3>1, <3>2 DEF Pass, CL!JoinNext
  <2> HIDE DEF J
  <2>3. Told(argv, k, J(k))
    <3>1. CASE k = 1
      <4>1. J(k - 1) = << >>
        BY <1>6, <3>1
      <4>2. SubSeq(argv, 1, k - 1) = << >>
        BY <3>1
      <4> QED BY <1>2, <2>2, <4>1, <4>2 DEF Told, Whole
    <3>2. CASE k # 1
      <4>1. Told(argv, k - 1, J(k - 1))
        BY <1>6, <3>2
      <4>2. J(k) = J(k - 1) \o <<CL!Space>> \o words[k]
        BY <2>2, <4>1 DEF Told
      <4>3. k \in 1 .. Len(argv)
        BY DEF n
      <4> QED BY <1>2, <3>2, <4>1, <4>2, <4>3, NextTold
    <3> QED BY <3>1, <3>2
  <2> QED BY <1>1, <2>3
<1> HIDE DEF J
<1>7. n \in A
  <2> HIDE DEF A
  <2> QED BY ONLY <1>1, <1>5, <1>6, Climb, n \in Nat
<1>8. CL!CommandLineOf(argv) = J(n)
  <2>1. CL!CommandLineOf(argv) = Fold("join", << >>, words)
    BY DEF CL!CommandLineOf, CL!Join, Fold, words
  <2> QED BY <1>4, <2>1 DEF J
<1> QED BY <1>1, <1>7, <1>8 DEF n

\* The arguments come back from the line (argv_to_windows_command_line and the child's start).
LEMMA ArgvComesBack ==
    ASSUME NEW argv \in Seq(Chars), argv # << >>, Nameable(argv[1])
    PROVE  CL!ArgvOf(CL!CommandLineOf(argv)) = argv
<1> DEFINE n == Len(argv)  line == CL!CommandLineOf(argv)
<1>1. n \in 1 .. Len(argv)
  OBVIOUS
<1>2. Told(argv, n, line)
  BY LineTold
<1> HIDE DEF n, line
<1>3. PICK w \in Chars, m \in Nat : /\ Read(Start(<< >>), line) = InWord(SubSeq(argv, 1, n - 1), w, m)
                                    /\ argv[n] = w \o CL!Slashes(m)
  BY <1>2 DEF Told
<1>4. CL!EndWord(Read(Start(<< >>), line)) = Start(argv)
  <2>1. Append(SubSeq(argv, 1, n - 1), argv[n]) = argv
    BY <1>1, Prefixes DEF n
  <2> QED BY <1>3, <2>1, WordEnds
<1>5. CL!ArgvOf(line) = CL!EndWord(Read(Start(<< >>), line)).args
  BY DEF CL!ArgvOf, Read, Fold, Start
<1> QED BY <1>4, <1>5 DEF Start, line

LEMMA ArgvStands == ASSUME CL!ArgvAssumption, CL!ArgvSurvives, CL!Next PROVE CL!ArgvSurvives'
<1>1. PICK argv \in Argvs : CL!Spawn(argv) \/ CL!Refuse(argv)
  BY DEF CL!Next
<1>2. CASE CL!Refuse(argv)
  BY <1>2 DEF CL!Refuse, CL!ArgvSurvives
<1>3. CASE CL!Spawn(argv)
  <2>1. argv \in Seq(Chars)
    <3>1. argv \in Seq(Seq(STRING))
      BY DEF CL!ArgvAssumption
    <3>2. STRING \subseteq Alphabet
      BY DEF Alphabet
    <3> HIDE DEF Alphabet
    <3>3. ASSUME NEW p \in Seq(STRING) PROVE p \in Chars
      <4>1. Len(p) \in Nat /\ p = [k \in 1 .. Len(p) |-> p[k]]
        OBVIOUS
      <4>2. \A k \in 1 .. Len(p) : p[k] \in Alphabet
        BY Zenon, <3>2, ElementOfSeq
      <4> QED BY <4>1, <4>2 DEF Chars
    <3> QED BY <3>1, <3>3
  <2>2. argv # << >> /\ argv[1] \in Names \ {<< >>}
    BY <1>3, <2>1 DEF CL!Spawn, CL!Accepted
  <2>3. Nameable(argv[1])
    <3> DEFINE name == argv[1]
    <3>1. name # << >> /\ CL!Quote \notin CL!Range(name) /\ name[Len(name)] # CL!Slash
      BY <2>2 DEF CL!ArgvAssumption, CL!Last
    <3>2. DOMAIN name = 1 .. Len(name)
      BY <2>1, <2>2 DEF Chars
    <3> HIDE DEF name
    <3>3. Nameable(name)
      BY <3>1, <3>2 DEF CL!Range, Nameable
    <3> QED BY <3>3 DEF name
  <2>4. CL!ArgvOf(CL!CommandLineOf(argv)) = argv
    BY <2>1, <2>2, <2>3, ArgvComesBack
  <2> QED BY <1>3, <2>4 DEF CL!Spawn, CL!ArgvSurvives
<1> QED BY <1>1, <1>2, <1>3

LEMMA ArgvBegins == ASSUME CL!Init PROVE CL!ArgvSurvives
BY DEF CL!Init, CL!NoSpawn, CL!ArgvSurvives

\* The inductive invariant of the workers that share a call: what the tables, the threads and
\* the log say of each other between any two steps of any of them.
THEOREM DeviceKeeps == DeviceSpec => []DeviceInv
BY DeviceStarts, DeviceStep, PTL DEF DeviceSpec

\* What a session came to is answered once, as it was, or is still there to be asked for; a
\* session without an owner who knows of it has a fault to account for it; and an answer fits
\* (TerminalSessionManager's poll and cancel beside the session's thread, its child and the
\* clock, remote_terminal_spec's budget).
THEOREM ResultsStayTrue == DeviceSpec => []ResultsAreTrue
<1>1. DeviceInv => ResultsAreTrue
  BY TerminalPromises, LimitsFit DEF DeviceInv, ResultsAreTrue
<1> QED BY <1>1, DeviceKeeps, PTL

\* Only the process that was approved is ended, and only a configured executable runs without a
\* signature, by a rule for the file that the decision saw (terminate_with_api against the reuse
\* of numbers; terminal_exec_decision and execute_authorized against what moves in between).
THEOREM OnlyTheApprovedEver == DeviceSpec => []OnlyTheApproved
<1>1. DeviceInv => OnlyTheApproved
  BY DEF DeviceInv, ProcessInv, CommandInv, OnlyTheApproved
<1> QED BY <1>1, DeviceKeeps, PTL

\* A click is on what its owner saw, a receipt for a file that came after it was asked for, and
\* a driver, a directory or a session that is left over has a fault to account for it
\* (BrowserSessionWorker beside Firefox).
THEOREM BrowserStaysOwned == DeviceSpec => []BrowserIsOwned
<1>1. DeviceInv => BrowserIsOwned
  BY BrowserPromises DEF DeviceInv, BrowserIsOwned
<1> QED BY <1>1, DeviceKeeps, PTL

\* The child is given the argv that was decided on, whatever it is made of and however its
\* quotes, spaces and backslashes stand beside each other (argv_to_windows_command_line, the
\* child's C runtime).
THEOREM ArgvsSurvive == DeviceSpec => []ArgvSurvives
<1>1. DeviceInit => ArgvSurvives
  BY ArgvBegins DEF DeviceInit, ArgvSurvives
<1>2. ASSUME ArgvSurvives, [DeviceNext]_Device PROVE ArgvSurvives'
  <2>1. CASE CL!Next
    BY <1>2, <2>1, LinesFit, ArgvStands DEF ArgvSurvives
  <2>2. CASE UNCHANGED spawn
    BY <1>2, <2>2 DEF ArgvSurvives, CL!ArgvSurvives
  <2> QED BY <1>2, <2>1, <2>2 DEF DeviceNext, Device
<1> QED BY <1>1, <1>2, PTL DEF DeviceSpec
=============================================================================
