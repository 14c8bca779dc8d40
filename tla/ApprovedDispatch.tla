------------------------- MODULE ApprovedDispatch -------------------------
(***************************************************************************)
(* The device side of a signed action: vor-dispatch drives vor-core's      *)
(* Broker, which asks vor-policy, verifies with vor-approval, and keeps    *)
(* its durable facts in the vor-audit ledger.  Several dispatchers may     *)
(* have the same ledger files open; each serves one call at a time (its    *)
(* methods take &mut self) and may die between any two of the calls it     *)
(* makes.                                                                  *)
(*                                                                         *)
(* One call of a dispatcher is a job that moves through the values of pc,  *)
(* one durable read or write per step.  All requests of an instance come   *)
(* from one actor and are addressed to this device, so that the auto-write *)
(* budget, which is counted per actor and device, is one budget.           *)
(***************************************************************************)
EXTENDS Naturals, FiniteSets, FiniteSetsExt, Functions

CONSTANTS
    Dispatcher,     \* processes (ReadOnlyDispatcher) on one pair of ledger files
    Request,        \* sealed requests, each a (request_id, envelope_digest) pair
    Legacy,         \* requests executed before approval_consumptions existed
    Approver,       \* approver ids
    Key,            \* Ed25519 key pairs
    Enrolment,      \* what an operator may register for an approver
    Unknown,        \* the registry holds nothing for an approver
    Org,            \* [Request -> organization]
    NoOrg,          \* an approver that is not scoped to an organization
    TenantScoped,   \* require_tenant_scoped_approvers was called
    Policy,         \* policy files a dispatcher may be started with
    PolicyId,       \* [Policy -> policy_id of the file]
    Rule,           \* [Policy -> [Request -> what PolicyEngine::evaluate says]]
    Write,          \* requests whose action is filesystem.write
    SelfRun,        \* requests that run unsigned when the policy says auto:
                    \* policy_attempt writes and safe-listed terminal commands
    Transform,      \* edit_recipe requests, each with the request it becomes
    Size,           \* [Request -> content_bytes]
    Expiry,         \* [Request -> expires_at_unix_ms]
    MaxFiles,       \* auto_write.max_files_per_minute
    MaxBytes,       \* auto_write.max_bytes_per_minute
    Window,         \* the 60_000 ms of the auto-write window
    MaxTime,        \* bound: the last instant of the model
    MaxCharge       \* bound: auto decisions per request and instant

RuleDecision == {"auto", "approval", "deny", "elevated"}
Authority == 0 .. 2         \* Approve < Elevated < Owner
Time == 0 .. MaxTime

ASSUME ConstantsAssumption ==
    /\ Legacy \subseteq Request
    /\ Write \subseteq Request
    /\ SelfRun \subseteq Request
    /\ Enrolment \subseteq [key : Key, level : Authority,
                            org : {Org[r] : r \in Request} \cup {NoOrg}]
    /\ Unknown \notin [key : Key, level : Authority,
                       org : {Org[r] : r \in Request} \cup {NoOrg}, revoked : BOOLEAN]
    /\ Rule \in [Policy -> [Request -> RuleDecision]]
    /\ DOMAIN Transform \subseteq Request
    /\ \A r \in DOMAIN Transform : Transform[r] \in Request \ DOMAIN Transform
    /\ MaxTime \in Nat
    /\ TenantScoped \in BOOLEAN

\* What the auto-write budget counts.
ASSUME BudgetAssumption ==
    /\ IsFiniteSet(Dispatcher) /\ Dispatcher # {}
    /\ IsFiniteSet(Request) /\ Request # {}
    /\ Size \in [Request -> Nat]
    /\ {MaxFiles, MaxBytes, Window} \subseteq Nat

VARIABLES
    \* The ledger: what survives a crash.
    claimed,    \* rows of approval_consumptions
    recovery,   \* rows of approval_executions ("none": no row)
    audit,      \* outcomes on record for each request
    charges,    \* how many of them are policy "auto" writes, by timestamp
    \* The world.
    ran,        \* how often the approved effect of a request happened
    clock,
    \* One dispatcher.
    policy,     \* the policy it was started with
    registry,   \* ApprovalVerifier::approvers
    pc,         \* where its job stands: "down", "idle" or the next call to make
    job,        \* the request at hand, the time read on arrival, the decision
    status      \* the status of its last answer

ledger == <<claimed, recovery, audit, charges>>
local == <<policy, registry>>
vars == <<claimed, recovery, audit, charges, ran, clock, policy, registry, pc, job, status>>

RecoveryState == {"none", "not_executed", "effect_uncertain", "effect_applied",
                  "post_effect_uncertain", "completed"}

\* "executed" by signature; a run on the policy's own authority is told apart
\* in the records by their authority field, here by the name.
Outcome == {"auto", "approval", "deny", "remote_approval_policy_required",
            "approval_challenge_issued", "approval_verified", "approval_consumed",
            "worker_failed", "output_limit_exceeded", "executed", "executed_by_policy"}

Step == {"down", "idle", "authorize", "append_decision", "decided", "append_not_required",
         "append_challenge", "run_by_policy", "append_executed_by_policy",
         "claim", "append_verified", "append_consumed", "mark_uncertain", "execute",
         "append_worker_failed", "mark_applied", "check_output", "append_output_limit",
         "append_executed", "mark_completed", "mark_post_uncertain"}

\* Steps that call the ledger and pass its error on.
LedgerCall == {"authorize", "append_decision", "append_not_required", "append_challenge",
               "append_executed_by_policy", "claim", "append_verified", "append_consumed",
               "mark_uncertain", "append_worker_failed", "mark_applied",
               "append_output_limit", "mark_completed", "mark_post_uncertain"}

Status == {"none", "ok", "approval_required", "policy_denied", "approval_policy_required",
           "approval_not_prepared", "approval_invalid", "approval_replayed",
           "audit_or_broker_unavailable", "worker_error", "output_limit_exceeded",
           "post_effect_uncertain"}

Entry == [key : Key, level : Authority,
          org : {Org[r] : r \in Request} \cup {NoOrg}, revoked : BOOLEAN]

\* A challenge names the request it was issued for, the policy and the capability.
Challenge == [req : Request, policyId : {PolicyId[p] : p \in Policy},
              elevated : BOOLEAN, expires : Time]

\* An approval is a challenge, the approver's name and the key that signed both.
SignedApproval == [challenge : Challenge, approver : Approver, key : Key]

NoApproval == [approver |-> "none"]

Idle(d) == pc[d] = "idle"
Busy(d) == pc[d] \notin {"down", "idle"}

\* No job is under way.
NoJob == [req |-> "none"]

\* The job goes on to its next step, with what it has learnt; or it ends.
Continue(d, step, j) ==
    /\ pc' = [pc EXCEPT ![d] = step]
    /\ job' = [job EXCEPT ![d] = j]
    /\ UNCHANGED status

Goto(d, step) == Continue(d, step, job[d])

Return(d, answer) ==
    /\ pc' = [pc EXCEPT ![d] = "idle"]
    /\ job' = [job EXCEPT ![d] = NoJob]
    /\ status' = [status EXCEPT ![d] = answer]

-----------------------------------------------------------------------------
(* Policy and approvals: pure decisions over the state.                    *)

\* Mutant of Recent: the record that is exactly a window old is left out.
RecentStrictly(now) == {t \in Time : t + Window > now}

\* Records that fall in the minute before now; the query has no upper end.
Recent(now) == {t \in Time : t + Window >= now}

\* What the automatic writes of some instants come to, at so much for each of a request.
Spent(weight, S) == SumFunctionOnSet(
    [x \in Request \X S |-> weight[x[1]] * charges[x[1]][x[2]]], Request \X S)

OneEach == [r \in Request |-> 1]
AutoWrites(now) == Spent(OneEach, Recent(now))
AutoBytes(now) == Spent(Size, Recent(now))

RateLimited(r, now) ==
    /\ r \in Write
    /\ \/ AutoWrites(now) >= MaxFiles
       \/ AutoBytes(now) + Size[r] > MaxBytes

NeedsSignature(rule) == rule \in {"approval", "elevated"}

\* Broker::authorize_at: the policy, then the auto-write budget.
Decision(p, r, now) ==
    IF Rule[p][r] = "auto"
    THEN IF RateLimited(r, now) THEN "approval" ELSE "auto"
    ELSE IF Rule[p][r] = "deny" THEN "deny" ELSE "approval"

RequiredLevel(rule) == IF rule = "elevated" THEN 1 ELSE 0

\* Mutant of Entitled: revocation is forgotten.
EntitledThoughRevoked(reg, a, r, rule) ==
    /\ reg[a] # Unknown
    /\ reg[a].level >= RequiredLevel(rule)
    /\ TenantScoped => reg[a].org # NoOrg
    /\ reg[a].org \in {NoOrg, Org[r]}

\* The approver may sign for this request under this rule.
Entitled(reg, a, r, rule) ==
    /\ reg[a] # Unknown
    /\ ~reg[a].revoked
    /\ reg[a].level >= RequiredLevel(rule)
    /\ TenantScoped => reg[a].org # NoOrg
    /\ reg[a].org \in {NoOrg, Org[r]}

\* verify_challenge_binding: same request, policy and capability, still valid, and
\* no longer than the request itself.
Bound(c, r, p, now) ==
    /\ c.req = r
    /\ c.policyId = PolicyId[p]
    /\ c.elevated = (Rule[p][r] = "elevated")
    /\ c.expires > now
    /\ c.expires <= Expiry[r]

\* ApprovalVerifier::verify.
Verified(d, r, s, now) ==
    LET rule == Rule[policy[d]][r] IN
    /\ NeedsSignature(rule)
    /\ Bound(s.challenge, r, policy[d], now)
    /\ Entitled(registry[d], s.approver, r, rule)
    /\ s.key = registry[d][s.approver].key

-----------------------------------------------------------------------------
(* A dispatcher's life.                                                    *)

Init ==
    /\ claimed = {}
    /\ recovery = [r \in Request |-> "none"]
    /\ audit = [r \in Request |-> IF r \in Legacy
                    THEN {"approval", "approval_verified", "approval_consumed", "executed"}
                    ELSE {}]
    /\ charges = [r \in Request |-> [t \in Time |-> 0]]
    /\ ran = [r \in Request |-> IF r \in Legacy THEN 1 ELSE 0]
    /\ clock = 0
    /\ policy \in [Dispatcher -> Policy]
    /\ registry = [d \in Dispatcher |-> [a \in Approver |-> Unknown]]
    /\ pc = [d \in Dispatcher |-> "down"]
    /\ job = [d \in Dispatcher |-> NoJob]
    /\ status = [d \in Dispatcher |-> "none"]

\* ReadOnlyDispatcher::open: read the policy file, open the ledger, which turns the
\* approval_consumed events of older ledgers into claims; no approver is known yet.
Open(d, p) ==
    /\ pc[d] = "down"
    /\ policy' = [policy EXCEPT ![d] = p]
    /\ claimed' = claimed \cup {r \in Request : "approval_consumed" \in audit[r]}
    /\ registry' = [registry EXCEPT ![d] = [a \in Approver |-> Unknown]]
    /\ Return(d, "none")
    /\ UNCHANGED <<recovery, audit, charges, ran, clock>>

\* The process dies wherever it stands; the ledger keeps what was committed.
Crash(d) ==
    /\ pc[d] # "down"
    /\ pc' = [pc EXCEPT ![d] = "down"]
    /\ job' = [job EXCEPT ![d] = NoJob]
    /\ status' = [status EXCEPT ![d] = "none"]
    /\ UNCHANGED <<ledger, ran, clock, local>>

\* A call to the ledger returns an error and has changed nothing; the job ends with
\* it, except after append_executed, which has a way out of its own.
LedgerFails(d) ==
    /\ pc[d] \in LedgerCall
    /\ Return(d, "audit_or_broker_unavailable")
    /\ UNCHANGED <<ledger, ran, clock, local>>

\* The job panics, unanswered; lock_dispatcher takes the poisoned mutex over.
Panic(d) ==
    /\ Busy(d)
    /\ Return(d, "none")
    /\ UNCHANGED <<ledger, ran, clock, local>>

Tick ==
    /\ clock < MaxTime
    /\ clock' = clock + 1
    /\ UNCHANGED <<ledger, ran, local, pc, job, status>>

\* The registry changes between jobs only.
SetApprover(d, a, e) ==
    /\ Idle(d)
    /\ registry' = [registry EXCEPT ![d][a] =
            [key |-> e.key, level |-> e.level, org |-> e.org, revoked |-> FALSE]]
    /\ UNCHANGED <<ledger, ran, clock, policy, pc, job, status>>

AddApprover(d, a, e) == registry[d][a] = Unknown /\ SetApprover(d, a, e)

\* Rotation replaces whatever is registered, a revoked approver included.
RotateApprover(d, a, e) == e.org # NoOrg /\ SetApprover(d, a, e)

RevokeApprover(d, a) ==
    /\ Idle(d)
    /\ registry[d][a] # Unknown
    /\ registry' = [registry EXCEPT ![d][a].revoked = TRUE]
    /\ UNCHANGED <<ledger, ran, clock, policy, pc, job, status>>

-----------------------------------------------------------------------------
(* A job up to the broker's decision.                                      *)

\* A frame arrives: an ActionRequest is prepared, an ApprovedActionRequest is
\* committed.  The clock is read here, once for the whole job.
Receive(d, r, kind) ==
    /\ Idle(d)
    /\ charges[r][clock] < MaxCharge
    /\ Continue(d, "authorize", [req |-> r, kind |-> kind, now |-> clock,
                                 decision |-> "deny", approval |-> NoApproval])
    /\ UNCHANGED <<ledger, ran, clock, local>>

\* Broker::authorize_at up to the append: the budget is read before the charge.
Authorize(d) ==
    LET j == job[d] IN
    /\ pc[d] = "authorize"
    /\ \/ /\ Expiry[j.req] <= j.now
          /\ Return(d, "audit_or_broker_unavailable")
       \/ /\ Expiry[j.req] > j.now
          /\ Continue(d, "append_decision",
                      [j EXCEPT !.decision = Decision(policy[d], j.req, j.now)])
    /\ UNCHANGED <<ledger, ran, clock, local>>

\* Ledger::append of one record for the job's request.
AppendAudit(d, outcome) ==
    audit' = [audit EXCEPT ![job[d].req] = @ \cup {outcome}]

\* ... and the job goes on, or the record is on disk but the lock file cannot be
\* removed and the caller is told that the append failed.
AppendThen(d, outcome, next) ==
    /\ AppendAudit(d, outcome)
    /\ \/ Goto(d, next)
       \/ Return(d, "audit_or_broker_unavailable")

\* ... or the job ends with its last record.
AppendLast(d, outcome, answer) ==
    /\ AppendAudit(d, outcome)
    /\ \/ Return(d, answer)
       \/ Return(d, "audit_or_broker_unavailable")

AppendDecision(d) ==
    LET j == job[d] IN
    /\ pc[d] = "append_decision"
    /\ AppendThen(d, j.decision, "decided")
    /\ charges' = IF j.decision = "auto" /\ j.req \in Write
                  THEN [charges EXCEPT ![j.req][j.now] = @ + 1]
                  ELSE charges
    /\ UNCHANGED <<claimed, recovery, ran, clock, local>>

\* The second decision about an edit is not looked at for a denial.
Deny(d) ==
    /\ pc[d] = "decided"
    /\ job[d].decision = "deny"
    /\ job[d].kind # "edited"
    /\ Return(d, "policy_denied")
    /\ UNCHANGED <<ledger, ran, clock, local>>

\* FsWorker::prepare_edit turns an edit recipe into the write it amounts to, which
\* is sealed and authorized anew.
PrepareEdit(d) ==
    LET j == job[d] IN
    /\ pc[d] = "decided"
    /\ j.kind = "prepare"
    /\ j.decision = "approval"
    /\ j.req \in DOMAIN Transform
    /\ Continue(d, "authorize", [j EXCEPT !.req = Transform[j.req], !.kind = "edited"])
    /\ UNCHANGED <<ledger, ran, clock, local>>

\* Nothing is left to prepare: the decision is about the request as it would run.
Prepared(d) ==
    \/ job[d].kind = "edited"
    \/ job[d].kind = "prepare" /\ job[d].req \notin DOMAIN Transform

ChooseRunByPolicy(d) ==
    /\ pc[d] = "decided"
    /\ Prepared(d)
    /\ job[d].decision = "auto"
    /\ job[d].req \in SelfRun
    /\ Goto(d, "run_by_policy")
    /\ UNCHANGED <<ledger, ran, clock, local>>

\* An automatic decision where a signed one was asked for.
ChooseNotRequired(d) ==
    LET j == job[d] IN
    /\ pc[d] = "decided"
    /\ j.decision # "approval"
    /\ \/ Prepared(d) /\ ~(j.decision = "auto" /\ j.req \in SelfRun)
       \/ j.kind = "commit" /\ j.decision = "auto"
    /\ j.decision = "deny" => j.kind = "edited"
    /\ Goto(d, "append_not_required")
    /\ UNCHANGED <<ledger, ran, clock, local>>

AppendNotRequired(d) ==
    /\ pc[d] = "append_not_required"
    /\ AppendLast(d, "remote_approval_policy_required", "approval_policy_required")
    /\ UNCHANGED <<claimed, recovery, charges, ran, clock, local>>

ChooseChallenge(d) ==
    /\ pc[d] = "decided"
    /\ Prepared(d)
    /\ job[d].decision = "approval"
    /\ Goto(d, "append_challenge")
    /\ UNCHANGED <<ledger, ran, clock, local>>

\* The challenge goes back to the client, who has an approver sign it.
AppendChallenge(d) ==
    /\ pc[d] = "append_challenge"
    /\ AppendLast(d, "approval_challenge_issued", "approval_required")
    /\ UNCHANGED <<claimed, recovery, charges, ran, clock, local>>

\* execute_authorized: a worker error is returned without a record.
RunByPolicy(d) ==
    /\ pc[d] = "run_by_policy"
    /\ \/ Goto(d, "append_executed_by_policy")
       \/ Return(d, "worker_error")
    /\ UNCHANGED <<ledger, ran, clock, local>>

AppendExecutedByPolicy(d) ==
    /\ pc[d] = "append_executed_by_policy"
    /\ AppendLast(d, "executed_by_policy", "ok")
    /\ UNCHANGED <<claimed, recovery, charges, ran, clock, local>>

-----------------------------------------------------------------------------
(* The approved path.                                                      *)

AtCommit(d) ==
    /\ pc[d] = "decided"
    /\ job[d].kind = "commit"
    /\ job[d].decision = "approval"

\* Broker::consume_approval_at asks the policy again, without the budget, and
\* checks the approval that came with the request (chosen here, where it is first
\* looked at).
AcceptApproval(d, s) ==
    LET j == job[d] IN
    /\ AtCommit(d)
    /\ "approval" \in audit[j.req]
    /\ Verified(d, j.req, s, j.now)
    /\ Continue(d, "claim", [j EXCEPT !.approval = s])
    /\ UNCHANGED <<ledger, ran, clock, local>>

RejectApproval(d, s) ==
    LET j == job[d] IN
    /\ AtCommit(d)
    /\ \/ "approval" \notin audit[j.req] /\ Return(d, "approval_not_prepared")
       \/ /\ "approval" \in audit[j.req]
          /\ ~Verified(d, j.req, s, j.now)
          /\ Return(d, "approval_invalid")
    /\ UNCHANGED <<ledger, ran, clock, local>>

\* Mutant of Claim: INSERT OR REPLACE, which never finds the row already there.
ClaimReplacing(d) ==
    LET r == job[d].req IN
    /\ pc[d] = "claim"
    /\ claimed' = claimed \cup {r}
    /\ recovery' = [recovery EXCEPT ![r] = "not_executed"]
    /\ Continue(d, "append_verified", [job[d] EXCEPT !.approval = NoApproval])
    /\ UNCHANGED <<audit, charges, ran, clock, local>>

\* Ledger::claim_approval_consumed: INSERT OR IGNORE and the execution row in one
\* transaction; the insert that changes nothing is a replay.
Claim(d) ==
    LET r == job[d].req IN
    /\ pc[d] = "claim"
    /\ \/ /\ r \in claimed
          /\ Return(d, "approval_replayed")
          /\ UNCHANGED <<claimed, recovery>>
       \/ /\ r \notin claimed
          /\ claimed' = claimed \cup {r}
          /\ recovery' = [recovery EXCEPT ![r] = "not_executed"]
          /\ Continue(d, "append_verified", [job[d] EXCEPT !.approval = NoApproval])
    /\ UNCHANGED <<audit, charges, ran, clock, local>>

\* Mutant of AppendVerified: the error of the append is dropped.
AppendVerifiedOrNot(d) ==
    /\ pc[d] = "append_verified"
    /\ AppendAudit(d, "approval_verified") \/ UNCHANGED audit
    /\ Goto(d, "append_consumed")
    /\ UNCHANGED <<claimed, recovery, charges, ran, clock, local>>

AppendVerified(d) ==
    /\ pc[d] = "append_verified"
    /\ AppendThen(d, "approval_verified", "append_consumed")
    /\ UNCHANGED <<claimed, recovery, charges, ran, clock, local>>

AppendConsumed(d) ==
    /\ pc[d] = "append_consumed"
    /\ AppendThen(d, "approval_consumed", "mark_uncertain")
    /\ UNCHANGED <<claimed, recovery, charges, ran, clock, local>>

Rank(s) == CASE s = "not_executed" -> 0 [] s = "effect_uncertain" -> 1
             [] s = "effect_applied" -> 2 [] s = "post_effect_uncertain" -> 3
             [] s = "completed" -> 4

\* Ledger::set_execution_recovery_state: the row must exist and never moves back.
MaySet(r, s) == recovery[r] # "none" /\ Rank(s) >= Rank(recovery[r])

SetRecovery(d, s) ==
    /\ MaySet(job[d].req, s)
    /\ recovery' = [recovery EXCEPT ![job[d].req] = s]

\* Mutant of MarkUncertain: the effect is not announced.
MarkNothing(d) ==
    /\ pc[d] = "mark_uncertain"
    /\ Goto(d, "execute")
    /\ UNCHANGED <<ledger, ran, clock, local>>

MarkUncertain(d) ==
    /\ pc[d] = "mark_uncertain"
    /\ SetRecovery(d, "effect_uncertain")
    /\ Goto(d, "execute")
    /\ UNCHANGED <<claimed, audit, charges, ran, clock, local>>

\* execute_approved: the worker does its work, or reports an error before or after
\* the effect took place.
Execute(d) ==
    LET r == job[d].req IN
    /\ pc[d] = "execute"
    /\ \/ ran' = [ran EXCEPT ![r] = @ + 1] /\ Goto(d, "mark_applied")
       \/ ran' = [ran EXCEPT ![r] = @ + 1] /\ Goto(d, "append_worker_failed")
       \/ ran' = ran /\ Goto(d, "append_worker_failed")
    /\ UNCHANGED <<ledger, clock, local>>

AppendWorkerFailed(d) ==
    /\ pc[d] = "append_worker_failed"
    /\ AppendLast(d, "worker_failed", "worker_error")
    /\ UNCHANGED <<claimed, recovery, charges, ran, clock, local>>

MarkApplied(d) ==
    /\ pc[d] = "mark_applied"
    /\ SetRecovery(d, "effect_applied")
    /\ Goto(d, "check_output")
    /\ UNCHANGED <<claimed, audit, charges, ran, clock, local>>

CheckOutput(d) ==
    /\ pc[d] = "check_output"
    /\ Goto(d, "append_output_limit") \/ Goto(d, "append_executed")
    /\ UNCHANGED <<ledger, ran, clock, local>>

AppendOutputLimit(d) ==
    /\ pc[d] = "append_output_limit"
    /\ AppendLast(d, "output_limit_exceeded", "output_limit_exceeded")
    /\ UNCHANGED <<claimed, recovery, charges, ran, clock, local>>

\* Mutant of AppendExecuted: completed, whether or not the record could be written.
AppendExecutedOrNot(d) ==
    /\ pc[d] = "append_executed"
    /\ AppendAudit(d, "executed") \/ UNCHANGED audit
    /\ Goto(d, "mark_completed")
    /\ UNCHANGED <<claimed, recovery, charges, ran, clock, local>>

\* The only append whose failure does not end the job, be the record there or not.
AppendExecuted(d) ==
    /\ pc[d] = "append_executed"
    /\ \/ AppendAudit(d, "executed") /\ Goto(d, "mark_completed")
       \/ AppendAudit(d, "executed") /\ Goto(d, "mark_post_uncertain")
       \/ UNCHANGED audit /\ Goto(d, "mark_post_uncertain")
    /\ UNCHANGED <<claimed, recovery, charges, ran, clock, local>>

MarkCompleted(d) ==
    /\ pc[d] = "mark_completed"
    /\ SetRecovery(d, "completed")
    /\ Return(d, "ok")
    /\ UNCHANGED <<claimed, audit, charges, ran, clock, local>>

MarkPostUncertain(d) ==
    /\ pc[d] = "mark_post_uncertain"
    /\ SetRecovery(d, "post_effect_uncertain")
    /\ Return(d, "post_effect_uncertain")
    /\ UNCHANGED <<claimed, audit, charges, ran, clock, local>>

-----------------------------------------------------------------------------
Operator(d) ==
    \/ \E p \in Policy : Open(d, p)
    \/ \E a \in Approver, e \in Enrolment : AddApprover(d, a, e) \/ RotateApprover(d, a, e)
    \/ \E a \in Approver : RevokeApprover(d, a)

Decide(d) ==
    \/ \E r \in Request, kind \in {"prepare", "commit"} : Receive(d, r, kind)
    \/ Authorize(d) \/ AppendDecision(d) \/ Deny(d) \/ PrepareEdit(d)
    \/ ChooseRunByPolicy(d) \/ ChooseNotRequired(d) \/ AppendNotRequired(d)
    \/ ChooseChallenge(d) \/ AppendChallenge(d)
    \/ RunByPolicy(d) \/ AppendExecutedByPolicy(d)

Approved(d) ==
    \/ \E s \in SignedApproval : AcceptApproval(d, s) \/ RejectApproval(d, s)
    \/ Claim(d) \/ AppendVerified(d) \/ AppendConsumed(d)
    \/ MarkUncertain(d) \/ Execute(d) \/ AppendWorkerFailed(d) \/ MarkApplied(d)
    \/ CheckOutput(d) \/ AppendOutputLimit(d) \/ AppendExecuted(d)
    \/ MarkCompleted(d) \/ MarkPostUncertain(d)

Next ==
    \/ Tick
    \/ \E d \in Dispatcher :
        Operator(d) \/ Decide(d) \/ Approved(d) \/ Crash(d) \/ LedgerFails(d) \/ Panic(d)

Spec == Init /\ [][Next]_vars

-----------------------------------------------------------------------------
(* Properties.                                                             *)

Job == [req : Request, kind : {"prepare", "edited", "commit"}, now : Time,
        decision : {"auto", "approval", "deny"}, approval : SignedApproval \cup {NoApproval}]

\* Type correctness; a dispatcher has a job exactly while it is busy.
TypeOK ==
    /\ claimed \subseteq Request
    /\ recovery \in [Request -> RecoveryState]
    /\ audit \in [Request -> SUBSET Outcome]
    /\ charges \in [Request -> [Time -> Nat]]
    /\ ran \in [Request -> Nat]
    /\ clock \in Time
    /\ policy \in [Dispatcher -> Policy]
    /\ registry \in [Dispatcher -> [Approver -> Entry \cup {Unknown}]]
    /\ pc \in [Dispatcher -> Step]
    /\ status \in [Dispatcher -> Status]
    /\ DOMAIN job = Dispatcher
    /\ \A d \in Dispatcher : IF Busy(d) THEN job[d] \in Job ELSE job[d] = NoJob

\* However many dispatchers commit the same approval, crash, restart with another
\* policy or replay it, its effect happens at most once (README: an approval is
\* one-shot; lock_dispatcher: the guarantee lives in the ledger on disk).
EffectAtMostOnce == \A r \in Request : ran[r] <= 1

\* What is durable about an execution is never ahead of nor behind the effect: a
\* not_executed request may be retried by hand, an effect_applied one has been
\* applied, a completed one is also on record as executed.
RecoveryTellsTheTruth ==
    \A r \in Request \ Legacy :
        /\ recovery[r] \in {"none", "not_executed"} => ran[r] = 0
        /\ recovery[r] \in {"effect_applied", "post_effect_uncertain", "completed"} => ran[r] = 1
        /\ recovery[r] = "completed" => "executed" \in audit[r]

\* No approved effect without its trail: by the time the effect happens the request
\* is on record as needing approval, as verified and as consumed, and is claimed.
EffectHasTrail ==
    \A r \in Request : ran[r] > 0 =>
        /\ {"approval", "approval_verified", "approval_consumed"} \subseteq audit[r]
        /\ (\E d \in Dispatcher : pc[d] # "down") => r \in claimed

\* An approval is spent only by a dispatcher that holds, at that very moment, a
\* signature under the key now registered for an approver who is neither unknown,
\* revoked, too weak for the request nor of another organization, over a challenge
\* for this request that was still running when the job arrived.
ClaimIsEntitled ==
    [][\A r \in (claimed' \ claimed) \ Legacy : \E d \in Dispatcher :
        LET s == job[d].approval
            e == registry[d][s.approver] IN
        /\ pc[d] = "claim" /\ job[d].req = r
        /\ Rule[policy[d]][r] \in {"approval", "elevated"}
        /\ s.challenge.req = r
        /\ job[d].now < s.challenge.expires /\ s.challenge.expires <= Expiry[r]
        /\ e # Unknown /\ ~e.revoked /\ e.key = s.key
        /\ Rule[policy[d]][r] = "elevated" => e.level >= 1
        /\ e.org # Org[r] => e.org = NoOrg /\ ~TenantScoped]_vars

\* The auto-write budget is read before it is charged, so that dispatchers on one
\* ledger may overrun it, but by no more than one write for each further dispatcher;
\* a single dispatcher keeps it exactly, in every window.
BudgetHolds ==
    \A t \in Time :
        LET minute == {u \in Time : u <= t /\ u + Window >= t}
            others == Cardinality(Dispatcher) - 1 IN
        /\ Spent(OneEach, minute) <= MaxFiles + others
        /\ Spent(Size, minute) <= MaxBytes + others * Max({Size[r] : r \in Request})

\* The promises of the durable tables, as a specification of their own.
OneShot == INSTANCE OneShotApproval WITH consumed <- claimed \cup Legacy
OneShotSpec == OneShot!Spec

\* A signed approval that fits a request for which a challenge was issued, signed by
\* an entitled approver and still running, is not turned away as invalid (commit_write
\* and edit_file promise that an approval_required answer can be committed).
ChallengeCanBeCommitted ==
    [][\A d \in Dispatcher, s \in SignedApproval :
        LET j == job[d] IN
        /\ pc[d] = "decided" /\ pc'[d] = "idle" /\ RejectApproval(d, s)
        /\ "approval_challenge_issued" \in audit[j.req]
        /\ Bound(s.challenge, j.req, policy[d], j.now)
        /\ Entitled(registry[d], s.approver, j.req, "approval")
        /\ s.key = registry[d][s.approver].key
        => FALSE]_vars

-----------------------------------------------------------------------------
(* Why the properties hold: an inductive invariant.                        *)

Trail == {"approval", "approval_verified", "approval_consumed"}

\* The steps between a claim and the end of the job that made it.
Owning == {"append_verified", "append_consumed", "mark_uncertain", "execute",
           "append_worker_failed", "mark_applied", "check_output", "append_output_limit",
           "append_executed", "mark_completed", "mark_post_uncertain"}

Owns(d, r) == pc[d] \in Owning /\ job[d].req = r

\* A claim has one owner: the dispatcher whose insert changed a row.
OneOwner ==
    \A d, e \in Dispatcher : pc[d] \in Owning /\ pc[e] \in Owning
                              /\ job[d].req = job[e].req => d = e

\* What the owner relies on at each of its steps.
OwnerAt(d) ==
    LET r == job[d].req IN
    /\ r \in claimed \ Legacy
    /\ "approval" \in audit[r]
    /\ pc[d] # "append_verified" => "approval_verified" \in audit[r]
    /\ pc[d] \notin {"append_verified", "append_consumed"} => "approval_consumed" \in audit[r]
    /\ pc[d] \in {"append_verified", "append_consumed", "mark_uncertain"} =>
           recovery[r] = "not_executed"
    /\ pc[d] \in {"execute", "mark_applied", "append_worker_failed"} =>
           recovery[r] = "effect_uncertain"
    /\ pc[d] \in {"check_output", "append_output_limit", "append_executed",
                   "mark_completed", "mark_post_uncertain"} => recovery[r] = "effect_applied"
    /\ pc[d] = "execute" => ran[r] = 0
    /\ pc[d] = "mark_applied" => ran[r] = 1
    /\ pc[d] = "mark_completed" => "executed" \in audit[r]

\* What holds of a request whoever works on it.
RequestAt(r) ==
    /\ "approval_consumed" \in audit[r] => r \in claimed \cup Legacy
    /\ r \in Legacy => ran[r] = 1 /\ recovery[r] = "none" /\ Trail \subseteq audit[r]
    /\ r \notin claimed \cup Legacy => ran[r] = 0 /\ recovery[r] = "none"
    /\ r \in claimed \ Legacy =>
          /\ recovery[r] # "none"
          /\ recovery[r] = "not_executed" => ran[r] = 0
          /\ recovery[r] \in {"effect_applied", "post_effect_uncertain", "completed"} => ran[r] = 1
          /\ recovery[r] = "completed" => "executed" \in audit[r]
          /\ ran[r] \in {0, 1}
          /\ ran[r] = 1 => Trail \subseteq audit[r]

\* TypeOK, EffectAtMostOnce, RecoveryTellsTheTruth and EffectHasTrail follow from it,
\* and every step preserves it: the claim in the ledger names at most one running job,
\* and that job's place says how far the durable tables have got.
Inductive ==
    /\ TypeOK
    /\ \A d \in Dispatcher : pc[d] # "down" => Legacy \subseteq claimed
    /\ \A d \in Dispatcher : pc[d] = "claim" => "approval" \in audit[job[d].req]
    /\ \A d \in Dispatcher : pc[d] \in Owning => OwnerAt(d)
    /\ OneOwner
    /\ \A r \in Request : RequestAt(r)
=============================================================================
