---------------------------- MODULE GatewayAccess ----------------------------
(***************************************************************************)
(* Who may do what through the gateway.  The requests of the gateway's     *)
(* routes (apps/vor-gateway/src/lib.rs and oauth.rs), the commands of its  *)
(* binary (main.rs) and the library's own mutators, each a sequence of     *)
(* operations on two stores kept in a file each (vor-auth/src/lib.rs).     *)
(*                                                                         *)
(* An operation takes the store's lock file, reads the file, decides, and  *)
(* if it is a writer writes a temporary file and puts it in the file's     *)
(* place, which on Unix removes the old file first; open takes no lock.    *)
(* A process may die between any two of these steps, and a writer may fail *)
(* at each; the lock file of a dead process stays.                         *)
(*                                                                         *)
(* The history variables say what has been acknowledged: barred, what has  *)
(* been taken away and not been given again; delivered, the tokens handed  *)
(* out, until when each is good, unless it has been revoked on file;       *)
(* minted, which code a grant came from; counted, the usage recorded;      *)
(* consented, the codes that a browser was sent back with; exchanged, the  *)
(* grants that /oauth/token has handed out for one.                        *)
(***************************************************************************)
EXTENDS AuthRecords, OAuthRequests, Sequences

CONSTANTS
    Threads,            \* the threads that serve requests or run a command
    ProcessOf,          \* the process of a thread
    Gateways,           \* the processes that are a gateway
    Jobs,               \* the requests that may be made, each at most once
    Scenarios,          \* the sets of requests that are made together
    Job,                \* what each of them is: a record with a kind
    GatewayDevice,      \* the device id that the gateway was started with
    AtomicReplace,      \* TRUE on Windows: the replacement is one call
    InitGrants, InitTenants,    \* what the stores hold at first
    MaxFaults,          \* deaths and failed calls in a run
    MaxClock,
    NoJob, Boot,        \* no request; the start of a gateway
    Free, Dead,         \* no lock file; the lock file of a process that died
    Absent              \* no file; nothing read yet

ASSUME ConstantsAssumption ==
    /\ AtomicReplace \in BOOLEAN
    /\ MaxFaults \in Nat /\ MaxClock \in Nat /\ MaxUnits \in Nat
    /\ Scenarios \subseteq SUBSET Jobs
    /\ NoJob \notin Jobs /\ Boot \notin Jobs /\ NoJob # Boot
    /\ Free \notin Threads /\ Dead \notin Threads /\ Free # Dead
    /\ IsGrantStore(InitGrants) /\ IsTenantStore(InitTenants)
    /\ \A c \in DOMAIN InitGrants.clients : \A uri \in InitGrants.clients[c] :
          ValidRedirectUri(uri, "native")

Stores == {"grants", "tenants"}

VARIABLES
    file,       \* each store's file: a state of AuthRecords, or Absent
    lock,       \* each store's lock file: Free, the thread that made it, or Dead
    th,         \* what each thread is at
    up,         \* the gateways that serve
    codes,      \* oauth.rs: the authorization codes each gateway has in memory
    prepared,   \* the requests that have come back to be approved, by job
    todo,       \* the jobs not begun yet
    clock, faults,
    barred, delivered, minted, counted, consented, exchanged,   \* history, as above
    acted,      \* history: what requests did though it had been barred before
    reset       \* history: the stores that an open has begun afresh

vars == <<file, lock, th, up, codes, prepared, todo, clock, faults,
          barred, delivered, minted, counted, consented, exchanged, acted, reset>>
history == <<barred, delivered, minted, counted, consented, exchanged, acted, reset>>

Idle == [job |-> NoJob, k |-> 0, pc |-> "idle", now |-> 0, grant |-> Absent,
         next |-> Absent, barred |-> {}]

-----------------------------------------------------------------------------
(* The requests and their operations.                                      *)

\* The tools of the MCP server, by what they ask of the caller and send.
ReadActions == {"filesystem.read", "filesystem.list", "filesystem.search_files",
                "filesystem.search_content", "filesystem.info", "git.status",
                "git.diff", "process.list", "process.inspect"}
SessionActions == {"terminal.poll", "terminal.cancel"}
EditTools == {"edit_file", "prepare_edit"}
WriteTools == {"write_file", "prepare_write"}
TerminalTools == {"prepare_terminal"}
Commits == {"commit_write", "commit_terminal"}
Tools == {"read"} \cup EditTools \cup WriteTools \cup TerminalTools \cup Commits
Admin == {"admin_revoke", "admin_pair"}
Status == {"commander_status"}      \* it lists the connected devices

RoleOfTool(kind) == IF kind = "read" THEN "viewer" ELSE "operator"

\* The request that a tool seals in the name of the grant's actor.
Sealed(r, grant, action) ==
    [org |-> grant.org, actor |-> grant.actor, device |-> r.device,
     workspace |-> r.workspace, action |-> action]
WriteRequest(r, grant) == Sealed(r, grant, "filesystem.write")
EditRequest(r, grant) == Sealed(r, grant, "filesystem.write")
TerminalRequest(r, grant) == Sealed(r, grant, "terminal.exec")

\* Each tool's request, to be sent or, if the device asks for an approval, to
\* come back with it.
RequestOf(r, grant) ==
    CASE r.kind = "read" -> Sealed(r, grant, r.action)
      [] r.kind \in EditTools -> EditRequest(r, grant)
      [] r.kind \in WriteTools -> WriteRequest(r, grant)
      [] r.kind \in TerminalTools -> TerminalRequest(r, grant)

\* commit_write and commit_terminal: the prepared request is bound to this
\* grant's actor and organization, to the device, the action and the selected
\* workspace.
Bound(p, r, grant, action) == p = Sealed(r, grant, action)
BoundWrite(p, r, grant) == Bound(p, r, grant, "filesystem.write")
BoundTerminal(p, r, grant) == Bound(p, r, grant, "terminal.exec")
IsBound(p, r, grant) ==
    IF r.kind = "commit_write" THEN BoundWrite(p, r, grant) ELSE BoundTerminal(p, r, grant)

\* require_grant: the checks of every protected route, and those a tool makes
\* of its own device and workspace after them.
RequireGrant == <<"validate", "verify_gateway">>

\* Mutant of ToolChecks: it goes by the route's check.
ToolChecksNothing(kind) == << >>

ToolChecks(kind) == IF kind \in Commits THEN <<"verify_prepared">> ELSE <<"verify_tool">>

\* The operations of a request, in the order its handler makes them.
Routes ==
    [commander_status |-> RequireGrant \o <<"verify_listed">>,
     admin_revoke |-> RequireGrant \o <<"revoke">>,
     admin_pair |-> RequireGrant \o <<"create_pairing">>,
     register |-> <<"check_client", "register">>,
     authorize_page |-> <<"check_request", "oauth_client">>,
     authorize |-> <<"check_request", "oauth_client", "validate", "create_pairing", "remember_code">>,
     exchange |-> <<"take_code", "redeem">>,
     cli_grant |-> <<"open", "issue">>,
     cli_revoke |-> <<"open", "revoke">>,
     cli_device_id |-> <<"open", "device_id">>]
Plan(job) ==
    IF job = Boot THEN <<"open", "device_id">>
    ELSE LET kind == Job[job].kind IN
         IF kind \in Tools THEN RequireGrant \o ToolChecks(kind)
         ELSE IF kind \in DOMAIN Routes THEN Routes[kind]
         ELSE <<kind>>

\* The requests that are one operation each, most of them made by the library's own users.
Mutators == {"redeem", "expire", "remove_workspace", "prune_expired", "prune_expired_pairings",
             "upsert_user", "upsert_organization", "upsert_workspace", "set_membership",
             "revoke_membership", "pair_device", "revoke_device", "remove_device_workspace",
             "record_usage", "list_usage"}
Kinds == Tools \cup DOMAIN Routes \cup Mutators

\* What the requests have to be: of a known kind, with the fields that it goes by; and the
\* tokens and codes that are drawn at random for them are drawn once.
Mints(job) == Job[job].kind \in {"exchange", "redeem", "cli_grant"}
Creates(job) == Job[job].kind \in {"authorize", "admin_pair"}
ASSUME JobsAssumption ==
    /\ \A job \in Jobs : LET r == Job[job] IN
          /\ r.kind \in Kinds
          /\ r.kind = "exchange" => {"kind", "code", "new", "client", "redirect", "verifier"} \subseteq DOMAIN r
          /\ r.kind = "authorize" => {"code", "ttl", "code_ttl", "scopes"} \subseteq DOMAIN r
          /\ r.kind \in {"authorize", "exchange"} => r.by \in Gateways
          /\ r.kind = "admin_revoke" => {"kind", "target"} \subseteq DOMAIN r
          /\ r.kind \in {"authorize", "admin_pair", "cli_grant"} => r.ttl \in Nat
          /\ r.kind = "expire" => r.at \in Nat
          /\ r.kind = "record_usage" => r.units \in Nat
          /\ Mints(job) => r.new \notin DOMAIN InitGrants.grants
          /\ Creates(job) => r.code \notin DOMAIN InitGrants.pairings
    /\ \A S \in Scenarios : \A i, j \in S :
          /\ Mints(i) /\ Mints(j) /\ Job[i].new = Job[j].new => i = j
          /\ Creates(i) /\ Creates(j) /\ Job[i].code = Job[j].code => i = j

TenantOps == {"verify_gateway", "verify_tool", "verify_prepared", "verify_listed",
              "upsert_user", "upsert_organization", "upsert_workspace", "set_membership",
              "revoke_membership", "pair_device", "revoke_device",
              "remove_device_workspace", "record_usage", "list_usage"}
Readers == {"validate", "verify_gateway", "verify_tool", "verify_prepared",
            "verify_listed", "oauth_client", "device_id", "list_usage"}
Checks == {"check_client", "check_request"}
InMemory == {"remember_code", "take_code"}

StoreOf(op) == IF op \in TenantOps THEN "tenants" ELSE "grants"
Op(t) == Plan(th[t].job)[th[t].k]
At(t) == StoreOf(Op(t))
Request(t) == Job[th[t].job]

\* The clock is read by the handler, before the store is locked; the code of an
\* exchange and the token of an owner are judged by one reading with what follows.
ReadsClock(job, op) ==
    \/ op \in {"validate", "take_code", "issue", "prune_expired", "prune_expired_pairings"}
    \/ job # Boot /\ Job[job].kind \in {"admin_pair", "redeem"}

\* The scope and the role that require_grant asks of a route.
ScopeOf(r) == IF r.kind \in Admin THEN "admin" ELSE "mcp"
RoleOf(r) == IF r.kind \in Admin THEN "admin" ELSE "viewer"

\* authorized_status_devices: a device is listed that one of the grant's
\* workspaces may see.
Listed(s, grant, device) ==
    \E w \in grant.ws : Verifies(s, grant, device, {w}, "viewer")

\* What a reader answers: TRUE to go on.
Answers(op, s, r, t) ==
    CASE op = "validate" ->
             /\ Validates(s, r.token, ScopeOf(r), th[t].now)
             \* authorize_post: the token is the owner's.
             /\ r.kind = "authorize" => s.grants[r.token].actor = "local-pilot"
      [] op = "verify_gateway" -> Verifies(s, th[t].grant, GatewayDevice, {}, RoleOf(r))
      [] op = "verify_tool" ->
             Verifies(s, th[t].grant, r.device, {r.workspace}, RoleOfTool(r.kind))
      [] op = "verify_listed" -> Listed(s, th[t].grant, r.device)
      [] op = "verify_prepared" ->
             /\ IsBound(prepared[r.of], r, th[t].grant)
             /\ Verifies(s, th[t].grant, r.device, {r.workspace}, "operator")
      [] op = "oauth_client" ->
             r.client \in DOMAIN s.clients /\ ValidForClient(r, s.clients[r.client])
      [] OTHER -> TRUE

\* The administrator's revocation is confined to its own organization.
Targeted(r, t) ==
    IF r.kind = "admin_revoke" THEN Put(r, "org", th[t].grant.org) ELSE r

\* authorize_post pairs the scopes it has parsed; an exchange redeems in the
\* name that was remembered with the code.
Paired(r) == IF r.kind = "authorize" THEN [r EXCEPT !.scopes = ParsedScopes(@)] ELSE r
Redeemer(r, t) == IF r.kind = "exchange" THEN Put(r, "actor", th[t].grant.actor) ELSE r

\* What a writer makes of the state.
Writes(op, s, r, t) ==
    CASE op = "issue" -> Issue(s, r, th[t].now)
      [] op = "create_pairing" -> CreatePairing(s, Paired(r), th[t].now)
      [] op = "redeem" -> Redeem(s, Redeemer(r, t), th[t].now)
      [] op = "revoke" -> Revoke(s, Targeted(r, t))
      [] op = "expire" -> Expire(s, r)
      [] op = "remove_workspace" -> RemoveWorkspace(s, r)
      [] op = "prune_expired" -> PruneExpired(s, th[t].now)
      [] op = "prune_expired_pairings" -> PruneExpiredPairings(s, th[t].now)
      [] op = "register" -> RegisterClient(s, r)
      [] op = "upsert_user" -> UpsertUser(s, r)
      [] op = "upsert_organization" -> UpsertOrganization(s, r)
      [] op = "upsert_workspace" -> UpsertWorkspace(s, r)
      [] op = "set_membership" -> SetMembership(s, r)
      [] op = "revoke_membership" -> RevokeMembership(s, r)
      [] op = "pair_device" -> PairDevice(s, r)
      [] op = "revoke_device" -> RevokeDevice(s, r)
      [] op = "remove_device_workspace" -> RemoveDeviceWorkspace(s, r)
      [] op = "record_usage" -> RecordUsage(s, r)

-----------------------------------------------------------------------------
(* What the history is told.                                               *)

\* What an operation takes away, and what it gives again.
Bars(op, s, r, t) ==
    CASE op = "revoke" /\ Found(s, Targeted(r, t)) -> {<<"grant", r.target>>}
      [] op = "remove_workspace" /\ Found(s, r) -> {<<"grant", r.target, r.workspace>>}
      [] op = "revoke_membership" -> {<<"member", r.org, r.user>>}
      [] op = "revoke_device" -> {<<"device", r.org, r.device>>}
      [] op = "remove_device_workspace" -> {<<"device", r.org, r.device, r.workspace>>}
      [] OTHER -> {}
Restores(op, r) ==
    CASE op = "set_membership" -> {<<"member", r.org, r.user>>}
      [] op = "pair_device" -> {<<"device", r.org, r.device>>}
                               \cup {<<"device", r.org, r.device, w>> : w \in r.workspaces}
      [] OTHER -> {}

\* What has been delivered once the revocation or the new expiry of a grant is on file.
Redated(op, s, r, t) ==
    LET mine == {d \in delivered : d[1] = r.target /\ Found(s, Targeted(r, t))} IN
    CASE op = "revoke" -> delivered \ mine
      [] op = "expire" -> (delivered \ mine) \cup {<<d[1], r.at>> : d \in mine}
      [] OTHER -> delivered

\* What an action done in a request's name stands on.
StandsOn(r, grant) ==
    {<<"grant", r.token>>, <<"member", grant.org, grant.actor>>,
     <<"device", grant.org, GatewayDevice>>}
    \cup IF r.kind \in Tools
         THEN {<<"device", grant.org, r.device>>,
               <<"device", grant.org, r.device, r.workspace>>,
               <<"grant", r.token, r.workspace>>}
         ELSE IF r.kind \in Status THEN {<<"device", grant.org, r.device>>} ELSE {}

-----------------------------------------------------------------------------
Init ==
    /\ file = [grants |-> InitGrants, tenants |-> InitTenants]
    /\ lock = [s \in Stores |-> Free]
    /\ th = [t \in Threads |-> Idle]
    /\ up = Gateways
    /\ codes = [p \in Gateways |-> {}]
    /\ prepared = << >>
    /\ todo \in Scenarios
    /\ clock = 0 /\ faults = 0
    /\ barred = {} /\ delivered = {} /\ minted = {} /\ counted = << >>
    /\ consented = {} /\ exchanged = {}
    /\ acted = {} /\ reset = {}

Busy(t) == th[t].job # NoJob

\* Where an operation begins.
StartOf(op) == CASE op = "open" -> "open" [] op \in Checks -> "check"
                 [] op \in InMemory -> "memory" [] OTHER -> "lock"

Enter(t, job, k) ==
    th' = [th EXCEPT ![t] =
        [th[t] EXCEPT !.job = job, !.k = k, !.pc = StartOf(Plan(job)[k]), !.next = Absent,
                      !.now = IF ReadsClock(job, Plan(job)[k]) THEN clock ELSE th[t].now,
                      !.barred = IF k = 1 THEN barred ELSE th[t].barred]]

\* A request comes in, or a command is run.
Begin(t, job) ==
    /\ ~Busy(t) /\ job \in todo
    /\ ProcessOf[t] = Job[job].by
    /\ Job[job].kind \in Commits => Job[job].of \in DOMAIN prepared
    /\ ProcessOf[t] \in Gateways => ProcessOf[t] \in up
    /\ todo' = todo \ {job}
    /\ Enter(t, job, 1)
    /\ UNCHANGED <<file, lock, up, codes, prepared, clock, faults, history>>

\* A gateway that has died is started again: its codes are gone.
Restart(t) ==
    /\ ~Busy(t) /\ ProcessOf[t] \in Gateways \ up
    /\ \A u \in Threads : ProcessOf[u] = ProcessOf[t] => ~Busy(u)
    /\ Enter(t, Boot, 1)
    /\ UNCHANGED <<file, lock, up, codes, prepared, todo, clock, faults, history>>

\* The request ends, with an error or after its last operation.
Leave(t) == th' = [th EXCEPT ![t] = Idle]

\* After an operation that went well: the next one, or the end.
Continue(t) ==
    IF th[t].k < Len(Plan(th[t].job))
    THEN Enter(t, th[t].job, th[t].k + 1)
    ELSE Leave(t)

-----------------------------------------------------------------------------
(* The steps of an operation on a store.                                   *)

\* Mutant of TakeLock: a lock file that exists is taken over.
TakeAnyLock(t) ==
    /\ th[t].pc = "lock"
    /\ lock' = [lock EXCEPT ![At(t)] = t]
    /\ th' = [th EXCEPT ![t].pc = "read"]
    /\ UNCHANGED <<file, up, codes, prepared, todo, clock, faults, history>>

\* StoreFileLock::acquire: the lock file is created if it does not exist.
TakeLock(t) ==
    /\ th[t].pc = "lock" /\ lock[At(t)] = Free
    /\ lock' = [lock EXCEPT ![At(t)] = t]
    /\ th' = [th EXCEPT ![t].pc = "read"]
    /\ UNCHANGED <<file, up, codes, prepared, todo, clock, faults, history>>

\* Mutant of GiveUp: the request is tried again.
GiveUpAndStartOver(t) ==
    /\ th[t].pc = "lock" /\ lock[At(t)] # Free
    /\ lock[At(t)] # Dead => ProcessOf[lock[At(t)]] # ProcessOf[t]
    /\ Enter(t, th[t].job, 1)
    /\ UNCHANGED <<file, lock, up, codes, prepared, todo, clock, faults, history>>

\* A hundred attempts were too few: LockTimeout.  A lock of the own process is
\* waited for at the mutex, without a limit.
GiveUp(t) ==
    /\ th[t].pc = "lock" /\ lock[At(t)] # Free
    /\ lock[At(t)] # Dead => ProcessOf[lock[At(t)]] # ProcessOf[t]
    /\ Leave(t)
    /\ UNCHANGED <<file, lock, up, codes, prepared, todo, clock, faults, history>>

Unlocked(s) == lock' = [lock EXCEPT ![s] = Free]

\* refresh: the file is not there, and every operation fails.
ReadAbsent(t) ==
    /\ th[t].pc = "read" /\ file[At(t)] = Absent
    /\ Unlocked(At(t)) /\ Leave(t)
    /\ UNCHANGED <<file, up, codes, prepared, todo, clock, faults, history>>

\* A reader: its answer, and the lock is dropped.  A request whose last check
\* this was acts now: it is dispatched to the device.
Read(t) ==
    LET op == Op(t)  s == file[At(t)] IN
    /\ th[t].pc = "read" /\ s # Absent /\ op \in Readers
    /\ th' = [th EXCEPT
           ![t].pc = IF op = "device_id" \/ Answers(op, s, Request(t), t)
                     THEN "granted" ELSE "denied",
           ![t].grant = IF op = "validate" /\ Answers(op, s, Request(t), t)
                        THEN s.grants[Request(t).token] ELSE @]
    /\ UNCHANGED <<file, lock, up, codes, prepared, todo, clock, faults, history>>

\* The last step of a tool's or an administrator's request: what it does in spite
\* of what had been barred before it came, and the request it leaves to commit.
Act(t) ==
    LET r == Request(t)
        acts == th[t].job # Boot /\ r.kind \in Tools \cup Admin \cup Status
                /\ th[t].k = Len(Plan(th[t].job)) IN
    /\ acted' = IF acts THEN acted \cup (StandsOn(r, th[t].grant) \cap th[t].barred)
                ELSE acted
    /\ prepared' = IF acts /\ r.kind \in Tools \ Commits
                   THEN Put(prepared, th[t].job, RequestOf(r, th[t].grant))
                   ELSE prepared

Answer(t) ==
    /\ th[t].pc \in {"granted", "denied"}
    /\ Unlocked(At(t))
    /\ IF th[t].pc = "granted"
       THEN /\ Continue(t)
            /\ Act(t)
            /\ up' = IF th[t].job = Boot THEN up \cup {ProcessOf[t]} ELSE up
       ELSE /\ Leave(t)
            /\ UNCHANGED <<acted, prepared, up>>
    /\ UNCHANGED <<file, codes, todo, clock, faults, barred, delivered, minted, counted,
                   consented, exchanged, reset>>

\* A writer that refuses: the file stays as it is.
Refuse(t) ==
    /\ th[t].pc = "read" /\ file[At(t)] # Absent /\ Op(t) \notin Readers
    /\ ~Writes(Op(t), file[At(t)], Request(t), t).ok
    /\ Unlocked(At(t)) /\ Leave(t)
    /\ UNCHANGED <<file, up, codes, prepared, todo, clock, faults, history>>

Decide(t) ==
    LET w == Writes(Op(t), file[At(t)], Request(t), t) IN
    /\ th[t].pc = "read" /\ file[At(t)] # Absent /\ Op(t) \notin Readers
    /\ w.ok
    /\ LET again == Restores(Op(t), Request(t)) IN
       /\ barred' = barred \ again
       /\ th' = [u \in Threads |->
                    IF u = t THEN [th[t] EXCEPT !.pc = "temp", !.next = w.s]
                    ELSE [th[u] EXCEPT !.barred = @ \ again]]
    /\ UNCHANGED <<file, lock, up, codes, prepared, todo, clock, faults,
                   delivered, minted, counted, consented, exchanged, acted, reset>>

\* GrantStore::open and TenantStore::open: no lock; a file that is not there is
\* made, with nothing in it.
Open(t) ==
    /\ th[t].pc = "open"
    /\ IF file.grants = Absent
       THEN th' = [th EXCEPT ![t].pc = "temp", ![t].next = NewGrantStore]
       ELSE Continue(t)
    /\ UNCHANGED <<file, lock, up, codes, prepared, todo, clock, faults, history>>

\* persist_state: the new state is written whole to a file of its own name...
WriteTemp(t) ==
    /\ th[t].pc = "temp"
    /\ th' = [th EXCEPT ![t].pc = IF AtomicReplace THEN "rename" ELSE "remove"]
    /\ UNCHANGED <<file, lock, up, codes, prepared, todo, clock, faults, history>>

\* ... the old file, if it is there, is removed first, where there is no call
\* that replaces it...
RemoveOld(t) ==
    /\ th[t].pc = "remove"
    /\ file' = [file EXCEPT ![At(t)] = Absent]
    /\ th' = [th EXCEPT ![t].pc = "rename"]
    /\ UNCHANGED <<lock, up, codes, prepared, todo, clock, faults, history>>

\* ... and the new one takes its place.
Rename(t) ==
    LET op == Op(t)  s == file[At(t)] IN
    /\ th[t].pc = "rename"
    /\ file' = [file EXCEPT ![At(t)] = th[t].next]
    /\ minted' = IF op = "redeem" THEN minted \cup {<<Request(t).code, Request(t).new>>}
                 ELSE minted
    /\ delivered' = Redated(op, th[t].next, Request(t), t)
    /\ reset' = IF op = "open" THEN reset \cup {"grants"} ELSE reset
    /\ th' = [th EXCEPT ![t].pc = "written"]
    /\ UNCHANGED <<lock, up, codes, prepared, todo, clock, faults, barred, counted,
                   consented, exchanged, acted>>

\* The lock is dropped and the call returns: it is acknowledged.  The token of
\* a grant goes to its bearer; an administrator's request has acted.
Return(t) ==
    LET op == Op(t)  r == Request(t) IN
    /\ th[t].pc = "written" /\ op # "open"
    /\ Unlocked(At(t))
    /\ Continue(t)
    /\ barred' = barred \cup Bars(op, th[t].next, r, t)
    /\ delivered' = delivered \cup IF op \in {"issue", "redeem"}
                                   THEN {<<r.new, th[t].next.grants[r.new].expires>>}
                                   ELSE {}
    /\ counted' = IF op = "record_usage"
                  THEN LET key == <<r.org, r.workspace>> IN
                       Put(counted, key, r.units + IF key \in DOMAIN counted
                                                   THEN counted[key] ELSE 0)
                  ELSE counted
    /\ exchanged' = IF op = "redeem" /\ r.kind = "exchange"
                    THEN exchanged \cup {[by |-> r, grant |-> th[t].next.grants[r.new]]}
                    ELSE exchanged
    /\ Act(t)
    /\ UNCHANGED <<file, up, codes, todo, clock, faults, minted, consented, reset>>

Opened(t) ==
    /\ th[t].pc = "written" /\ Op(t) = "open"
    /\ Continue(t)
    /\ UNCHANGED <<file, lock, up, codes, prepared, todo, clock, faults, history>>

-----------------------------------------------------------------------------
(* oauth.rs: its requests, and the authorization codes in a gateway's      *)
(* memory.                                                                 *)

\* register_client and validate_authorization, before they ask the store.
CheckRequest(t) ==
    LET r == Request(t) IN
    /\ th[t].pc = "check"
    /\ IF IF Op(t) = "check_client" THEN ValidClient(r) ELSE ValidRequest(r)
       THEN Continue(t)
       ELSE Leave(t)
    /\ UNCHANGED <<file, lock, up, codes, prepared, todo, clock, faults, history>>

\* authorize_post: the expired codes go, the new one is remembered with what
\* it is for, and the browser is sent back with it.
RememberCode(t) ==
    LET r == Request(t)  p == ProcessOf[t]
        record == [code |-> r.code, client |-> r.client, redirect |-> r.redirect,
                   challenge |-> r.challenge, scopes |-> ParsedScopes(r.scopes),
                   actor |-> OAuthActor(th[t].grant.actor, r.client),
                   expires |-> th[t].now + r.code_ttl] IN
    /\ th[t].pc = "memory" /\ Op(t) = "remember_code"
    /\ codes' = [codes EXCEPT ![p] = {c \in @ : c.expires > th[t].now} \cup {record}]
    /\ consented' = consented \cup {record}
    /\ Continue(t)
    /\ UNCHANGED <<file, lock, up, prepared, todo, clock, faults,
                   barred, delivered, minted, counted, exchanged, acted, reset>>

\* Mutant of TakeCode: neither the redirect URI nor the verifier is asked for.
TakeCodeUnproved(t) ==
    LET r == Request(t)  p == ProcessOf[t]
        found == {c \in codes[p] : c.code = r.code /\ c.expires > th[t].now /\ c.client = r.client} IN
    /\ th[t].pc = "memory" /\ Op(t) = "take_code" /\ found # {}
    /\ codes' = [codes EXCEPT ![p] = @ \ found]
    /\ LET c == CHOOSE d \in found : TRUE IN
       th' = [th EXCEPT ![t].k = 2, ![t].pc = "lock", ![t].grant = c]
    /\ UNCHANGED <<file, lock, up, prepared, todo, clock, faults, history>>

\* exchange_authorization_code: the code is taken out of memory before it is
\* judged, so one wrong exchange spends it; what it was remembered with goes on.
TakeCode(t) ==
    LET r == Request(t)  p == ProcessOf[t]
        found == {c \in codes[p] : c.code = r.code}
        good == {c \in found : /\ c.expires > th[t].now
                               /\ c.client = r.client /\ c.redirect = r.redirect
                               /\ VerifiesPkce(r.verifier, c.challenge)} IN
    /\ th[t].pc = "memory" /\ Op(t) = "take_code"
    /\ codes' = [codes EXCEPT ![p] = @ \ found]
    /\ IF good = {}
       THEN Leave(t)
       ELSE th' = [th EXCEPT ![t].k = 2, ![t].pc = "lock", ![t].grant = CHOOSE c \in good : TRUE]
    /\ UNCHANGED <<file, lock, up, prepared, todo, clock, faults, history>>

-----------------------------------------------------------------------------
(* Faults.                                                                 *)

\* A call of persist_state fails: the error goes up, the lock is dropped.
FailToWrite(t) ==
    /\ th[t].pc \in {"temp", "remove", "rename"}
    /\ faults < MaxFaults /\ faults' = faults + 1
    /\ lock' = IF Op(t) = "open" THEN lock ELSE [lock EXCEPT ![At(t)] = Free]
    /\ Leave(t)
    /\ UNCHANGED <<file, up, codes, prepared, todo, clock, history>>

\* A process dies: nothing drops its locks.
Die(p) ==
    /\ \E t \in Threads : ProcessOf[t] = p /\ Busy(t)
    /\ faults < MaxFaults /\ faults' = faults + 1
    /\ th' = [t \in Threads |-> IF ProcessOf[t] = p THEN Idle ELSE th[t]]
    /\ up' = up \ {p}
    /\ codes' = [q \in Gateways |-> IF q = p THEN {} ELSE codes[q]]
    /\ lock' = [s \in Stores |->
                   IF lock[s] \in Threads /\ ProcessOf[lock[s]] = p THEN Dead ELSE lock[s]]
    /\ UNCHANGED <<file, prepared, todo, clock, history>>

Tick ==
    /\ clock < MaxClock
    /\ clock' = clock + 1
    /\ UNCHANGED <<file, lock, th, up, codes, prepared, todo, faults, history>>

Serve(t) ==
    \/ TakeLock(t) \/ GiveUp(t) \/ ReadAbsent(t) \/ Read(t) \/ Answer(t)
    \/ Refuse(t) \/ Decide(t) \/ Open(t) \/ WriteTemp(t) \/ RemoveOld(t)
    \/ Rename(t) \/ Return(t) \/ Opened(t)
    \/ CheckRequest(t) \/ RememberCode(t) \/ TakeCode(t)

Next ==
    \/ \E t \in Threads, job \in Jobs : Begin(t, job)
    \/ \E t \in Threads : Restart(t) \/ Serve(t) \/ FailToWrite(t)
    \/ \E p \in {ProcessOf[t] : t \in Threads} : Die(p)
    \/ Tick

\* A thread can go on: Serve(t) is enabled.
Ready(t) ==
    /\ Busy(t)
    /\ th[t].pc = "lock" /\ lock[At(t)] \notin {Free, Dead} =>
           ProcessOf[lock[At(t)]] # ProcessOf[t]

\* The system runs every thread that can go on: WF_vars(Serve(t)), written out
\* because TLC is slow to find ENABLED Serve(t), which is Ready(t).
Fairness == \A t \in Threads : []<>~Ready(t) \/ []<><<Serve(t)>>_vars

Spec == Init /\ [][Next]_vars /\ Fairness

-----------------------------------------------------------------------------
(* Properties.                                                             *)

\* Only what holds of the type of each variable, and that a lock file belongs
\* to a thread that is between acquire and the end of its operation.
TypeOK ==
    /\ DOMAIN file = Stores /\ DOMAIN th = Threads
    /\ up \subseteq Gateways /\ todo \subseteq Jobs
    /\ clock \in 0..MaxClock /\ faults \in 0..MaxFaults
    /\ \A s \in Stores :
          lock[s] \in Threads =>
              /\ Busy(lock[s]) /\ At(lock[s]) = s
              /\ th[lock[s]].pc \in {"read", "granted", "denied", "temp", "remove", "rename", "written"}

\* A request that came in after a revocation had been acknowledged, of its
\* grant, the membership, the device or the workspace, never acts: through
\* other writers, the check of a grant in one store and of its tenant in the
\* other, deaths, failed writes and stores begun afresh (require_grant and
\* authorize_mcp read both stores anew each time; revoke_matching and
\* revoke_membership write under the lock).
NothingAfterRevocation == acted = {}

\* A store's state: its file, or what is about to take the file's place.
\* It is lost if the file was removed and nobody is about to put it back.
Writers(s) == {t \in Threads : Busy(t) /\ th[t].pc = "rename" /\ At(t) = s /\ Op(t) # "open"}
Lost(s) == s \in reset \/ (file[s] = Absent /\ Writers(s) = {})
Current(s) == IF file[s] # Absent THEN file[s] ELSE th[CHOOSE t \in Writers(s) : TRUE].next

\* What was acknowledged stays: a code that was exchanged at /oauth/token or
\* redeemed at /v1/pair, or both at once, yields no second grant; a grant that
\* was delivered is on file until it is revoked or expires, what was barred is
\* barred, usage is counted whole; no later writer undoes it with a state it had
\* read before.  Only a store whose file was away, on Unix, when its writer died
\* or failed, or when another process opened it, is lost.
AcknowledgedLasts ==
    /\ \A a, b \in minted : a[1] = b[1] => a = b
    /\ ~Lost("grants") =>
          LET s == Current("grants") IN
          /\ \A d \in delivered : d[1] \in DOMAIN s.grants \/ d[2] <= clock
          /\ \A g \in DOMAIN s.grants :
                /\ <<"grant", g>> \in barred => s.grants[g].revoked
                /\ \A w \in s.grants[g].ws : <<"grant", g, w>> \notin barred
    /\ ~Lost("tenants") =>
          LET s == Current("tenants") IN
          /\ \A m \in DOMAIN s.members :
                <<"member", m[1], m[2]>> \in barred => s.members[m].revoked
          /\ \A d \in DOMAIN s.devices :
                /\ <<"device", d[1], d[2]>> \in barred => s.devices[d].revoked
                /\ \A w \in s.devices[d].ws : <<"device", d[1], d[2], w>> \notin barred
          /\ \A key \in DOMAIN counted :
                /\ key \in DOMAIN s.usage
                /\ s.usage[key] >= counted[key] \/ s.usage[key] = MaxUnits

\* What /oauth/token hands out is what the owner has consented to: to the
\* client and its registered redirect URI, for the bearer of the verifier that
\* the consent was asked with, with its scopes and in its name, whatever was
\* registered, expired, redeemed, restarted or guessed at meanwhile.  A code is
\* two records, in the memory of a gateway and in the store, and one of a code
\* that went wrong once is never exchanged (authorize_post,
\* exchange_authorization_code).
ConsentBinds ==
    \A x \in exchanged :
        \E c \in consented :
            /\ c.code = x.by.code /\ c.client = x.by.client /\ c.redirect = x.by.redirect
            /\ ValidRedirectUri(c.redirect, "native")
            /\ VerifiesPkce(x.by.verifier, c.challenge)
            /\ x.grant.scopes = c.scopes /\ x.grant.actor = c.actor
            /\ \A p \in Gateways : \A d \in codes[p] : d.code # c.code

\* Every request comes back, or its process dies: a lock file left behind by a
\* dead process makes every later operation fail, but none wait for ever.
RequestsReturn == \A t \in Threads : Busy(t) ~> ~Busy(t)
=============================================================================
