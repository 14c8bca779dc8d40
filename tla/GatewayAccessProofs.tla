------------------------- MODULE GatewayAccessProofs -------------------------
(***************************************************************************)
(* What GatewayAccess guarantees for any number of threads, processes and  *)
(* requests, any stores to begin with, and any deaths and failed writes.   *)
(***************************************************************************)
EXTENDS GatewayAccess, TLAPS

ActingKinds == Tools \cup Admin \cup Status
GrantWriters == {"issue", "create_pairing", "redeem", "revoke", "expire", "remove_workspace",
                 "prune_expired", "prune_expired_pairings", "register"}
TenantWriters == TenantOps \ Readers
Ops == {"open"} \cup Checks \cup InMemory \cup Readers \cup GrantWriters \cup TenantWriters

Writing == {"temp", "remove", "rename", "written"}
Held == {"read", "granted", "denied"} \cup Writing

\* Where a thread can be in an operation.
StepsOf(op) ==
    IF op = "open" THEN {"open"} \cup Writing
    ELSE IF op \in Checks THEN {"check"}
    ELSE IF op \in InMemory THEN {"memory"}
    ELSE IF op \in Readers THEN {"lock", "read", "granted", "denied"}
    ELSE {"lock", "read"} \cup Writing

IsStore(s, x) == IF s = "grants" THEN IsGrantStore(x) ELSE IsTenantStore(x)

Kind(t) == Job[th[t].job].kind
Runs(t) == th[t].job \in Jobs

-----------------------------------------------------------------------------
(* The inductive invariant.                                                *)

ThreadOK(t) ==
    /\ DOMAIN th[t] = {"job", "k", "pc", "now", "grant", "next", "barred"}
    /\ th[t].job \in Jobs \cup {NoJob, Boot}
    /\ th[t].now \in Nat /\ th[t].now <= clock
    /\ th[t].job = NoJob => th[t].pc = "idle"
    /\ Busy(t) => /\ th[t].k \in 1 .. Len(Plan(th[t].job)) /\ th[t].pc \in StepsOf(Op(t))
                  /\ th[t].pc \in Writing => IsStore(At(t), th[t].next)
                  /\ th[t].pc \in Writing /\ Op(t) = "open" => th[t].next = NewGrantStore

TypeInv ==
    /\ DOMAIN file = Stores /\ \A s \in Stores : file[s] # Absent => IsStore(s, file[s])
    /\ lock \in [Stores -> Threads \cup {Free, Dead}]
    /\ DOMAIN th = Threads /\ \A t \in Threads : ThreadOK(t)
    /\ DOMAIN codes = Gateways
    /\ todo \subseteq Jobs
    /\ clock \in Nat

\* Whoever reads or writes a store has its lock file, but for an open.
Locks(t, s) == Busy(t) /\ th[t].pc \in Held /\ Op(t) # "open" /\ At(t) = s
LockInv == \A t \in Threads, s \in Stores : Locks(t, s) => lock[s] = t

\* Each request is made once, and those that are still to be made or under way have drawn
\* tokens and codes of their own.
Alive(job) == job \in todo \/ \E t \in Threads : th[t].job = job
JobsInv ==
    /\ \A t, u \in Threads : Runs(t) /\ th[t].job = th[u].job => t = u
    /\ \A t \in Threads : th[t].job \notin todo
    /\ \A i, j \in Jobs : Alive(i) /\ Alive(j) =>
          /\ Mints(i) /\ Mints(j) /\ Job[i].new = Job[j].new => i = j
          /\ Creates(i) /\ Creates(j) /\ Job[i].code = Job[j].code => i = j

\* The states that a store may have, now or when the one who has its lock is done.
Writes1(t, s) == Busy(t) /\ th[t].pc \in Writing /\ Op(t) # "open" /\ At(t) = s
States(s) == {x \in {file[s]} : x # Absent} \cup {th[t].next : t \in {u \in Threads : Writes1(u, s)}}

\* What is barred is barred in a store's state.
GrantsBarred(x) ==
    \A g \in DOMAIN x.grants :
        /\ <<"grant", g>> \in barred => x.grants[g].revoked
        /\ \A w \in x.grants[g].ws : <<"grant", g, w>> \notin barred
TenantsBarred(x) ==
    /\ \A m \in DOMAIN x.members : <<"member", m[1], m[2]>> \in barred => x.members[m].revoked
    /\ \A d \in DOMAIN x.devices :
          /\ <<"device", d[1], d[2]>> \in barred => x.devices[d].revoked
          /\ \A w \in x.devices[d].ws : <<"device", d[1], d[2], w>> \notin barred
BarredInv ==
    /\ \A x \in States("grants") : GrantsBarred(x)
    /\ \A x \in States("tenants") : TenantsBarred(x)

\* What a writer has made of the state it read, by its operation; and of the request it
\* serves, what has been asked for so far is so.
Made(t) ==
    LET op == Op(t)  s == th[t].next  r == Request(t) IN
    /\ op = "revoke" /\ Found(s, Targeted(r, t)) => s.grants[r.target].revoked
    /\ op = "remove_workspace" /\ Found(s, r) => r.workspace \notin s.grants[r.target].ws
    /\ op = "revoke_membership" /\ <<r.org, r.user>> \in DOMAIN s.members =>
           s.members[<<r.org, r.user>>].revoked
    /\ op = "revoke_device" /\ <<r.org, r.device>> \in DOMAIN s.devices =>
           s.devices[<<r.org, r.device>>].revoked
    /\ op = "remove_device_workspace" /\ <<r.org, r.device>> \in DOMAIN s.devices =>
           r.workspace \notin s.devices[<<r.org, r.device>>].ws
    /\ op \in {"issue", "redeem"} => r.new \in DOMAIN s.grants /\ ~s.grants[r.new].revoked
    /\ op = "redeem" => r.code \notin DOMAIN s.pairings /\ \A m \in minted : th[t].pc # "written" => m[1] # r.code
MadeInv ==
    \A t \in Threads : Runs(t) /\ th[t].pc \in Writing /\ Op(t) # "open" =>
        /\ Made(t)
        /\ th[t].pc = "written" =>
              \/ file[At(t)] \in {Absent, th[t].next}
              \/ At(t) = "grants" /\ file["grants"] = NewGrantStore /\ "grants" \in reset

\* A request's own token is not known before it has decided, nor is its code.
Undecided(job) == job \in todo \/ \E t \in Threads : th[t].job = job /\ (th[t].pc \notin Writing \/ Op(t) = "open")
Uncreated(job) ==
    \/ job \in todo
    \/ \E t \in Threads : th[t].job = job /\ th[t].pc \notin Writing /\ Op(t) # "remember_code"
FreshInv ==
    /\ \A job \in Jobs : Mints(job) /\ Undecided(job) =>
          LET g == Job[job].new IN
          /\ \A x \in States("grants") : g \notin DOMAIN x.grants
          /\ \A b \in barred : b[1] = "grant" => b[2] # g
          /\ \A d \in delivered : d[1] # g
    /\ \A job \in Jobs : Creates(job) /\ Uncreated(job) =>
          /\ \A x \in States("grants") : Job[job].code \notin DOMAIN x.pairings
          /\ \A m \in minted : m[1] # Job[job].code
          /\ \A t \in Threads : Runs(t) /\ th[t].pc \in Writing /\ Op(t) = "redeem" =>
                Request(t).code # Job[job].code

\* A request that will act stands on nothing that was barred when it came.
Past(t, k) == th[t].k > k \/ (th[t].k = k /\ th[t].pc = "granted")
Stands(t) ==
    LET r == Request(t)  g == th[t].grant  b == th[t].barred IN
    /\ b \subseteq barred
    /\ Past(t, 1) => <<"grant", r.token>> \notin b /\ \A w \in g.ws : <<"grant", r.token, w>> \notin b
    /\ Past(t, 2) => <<"member", g.org, g.actor>> \notin b /\ <<"device", g.org, GatewayDevice>> \notin b
    /\ Past(t, 3) => StandsOn(r, g) \cap b = {}
StandsInv == \A t \in Threads : Runs(t) /\ Kind(t) \in ActingKinds => Stands(t)

\* A code is exchanged once.
MintedInv ==
    /\ \A a, b \in minted : a[1] = b[1] => a = b
    /\ \A m \in minted, x \in States("grants") : m[1] \notin DOMAIN x.pairings

\* What was delivered is on file, as it was delivered, until it expires; a revocation or a
\* new expiry that is under way will be on file.
Ending(t, g) ==
    /\ Runs(t) /\ Op(t) \in {"revoke", "expire"} /\ g = Request(t).target
    /\ Found(th[t].next, Targeted(Request(t), t))
DeliveredIn(x, d) ==
    IF d[1] \in DOMAIN x.grants
    THEN ~x.grants[d[1]].revoked /\ x.grants[d[1]].expires = d[2]
    ELSE d[2] <= clock
DeliveredBy(t, d) ==
    IF Ending(t, d[1])
    THEN /\ d[1] \in DOMAIN th[t].next.grants
         /\ Op(t) = "expire" => /\ ~th[t].next.grants[d[1]].revoked
                                /\ th[t].next.grants[d[1]].expires = Request(t).at
    ELSE DeliveredIn(th[t].next, d)
DeliveredInv ==
    /\ \A d \in delivered : d[2] \in Nat
    /\ "grants" \notin reset =>
          \A d \in delivered :
              /\ file["grants"] # Absent => DeliveredIn(file["grants"], d)
              /\ \A t \in Threads : Writes1(t, "grants") /\ th[t].pc # "written" => DeliveredBy(t, d)

\* Usage is counted whole.
CountedIn(x, key, n) == key \in DOMAIN x.usage /\ (x.usage[key] >= n \/ x.usage[key] = MaxUnits)
CountedInv ==
    /\ \A key \in DOMAIN counted : counted[key] \in Nat
    /\ \A x \in States("tenants"), key \in DOMAIN counted : CountedIn(x, key, counted[key])
    /\ \A t \in Threads : Runs(t) /\ th[t].pc \in Writing /\ Op(t) = "record_usage" =>
          LET key == <<Request(t).org, Request(t).workspace>> IN
          CountedIn(th[t].next, key,
                    Request(t).units + IF key \in DOMAIN counted THEN counted[key] ELSE 0)

\* A consent stands for the pairing of its code, and its code is in one gateway's memory
\* until it is exchanged.
Unremembered(code) == \A p \in Gateways : \A d \in codes[p] : d.code # code
CodesInv ==
    /\ \A p \in Gateways : codes[p] \subseteq consented
    /\ \A p, q \in Gateways : \A c \in codes[p], d \in codes[q] : c.code = d.code => p = q /\ c = d
AskedFor(c) ==
    /\ ValidRedirectUri(c.redirect, "native")
    /\ \A job \in Jobs : Creates(job) /\ Alive(job) => Job[job].code # c.code
ConsentedIn(x) ==
    /\ \A c \in consented : c.code \in DOMAIN x.pairings => x.pairings[c.code].scopes = c.scopes
    /\ \A job \in Jobs :
          Job[job].kind = "authorize" /\ Alive(job) /\ Job[job].code \in DOMAIN x.pairings =>
              x.pairings[Job[job].code].scopes = ParsedScopes(Job[job].scopes)
    /\ \A client \in DOMAIN x.clients : \A uri \in x.clients[client] : ValidRedirectUri(uri, "native")

\* What the requests of oauth.rs have been asked for so far.
Exchanging(t) == Runs(t) /\ Kind(t) = "exchange" /\ th[t].k = 2
Exchanges(t) ==
    LET r == Request(t)  c == th[t].grant IN
    /\ c \in consented
    /\ c.code = r.code /\ c.client = r.client /\ c.redirect = r.redirect
    /\ VerifiesPkce(r.verifier, c.challenge)
    /\ Unremembered(r.code)
    /\ th[t].pc \in Writing =>
          th[t].next.grants[r.new].scopes = c.scopes /\ th[t].next.grants[r.new].actor = c.actor
Serves(t) ==
    /\ Runs(t) /\ Kind(t) = "register" /\ th[t].k = 2 => ValidClient(Request(t))
    /\ Runs(t) /\ Kind(t) = "authorize" /\ Past(t, 2) => ValidRedirectUri(Request(t).redirect, "native")
    /\ Runs(t) /\ Kind(t) = "exchange" => ProcessOf[t] \in Gateways
    /\ Exchanging(t) => Exchanges(t)
ConsentInv ==
    /\ CodesInv
    /\ \A c \in consented : AskedFor(c)
    /\ \A x \in States("grants") : ConsentedIn(x)
    /\ \A t \in Threads : Serves(t)
    /\ ConsentBinds

-----------------------------------------------------------------------------
(* The requests' operations.                                               *)

Commands == {"cli_grant", "cli_revoke", "cli_device_id"}
RouteKinds == {"commander_status", "admin_revoke", "admin_pair", "register", "authorize_page",
               "authorize", "exchange", "cli_grant", "cli_revoke", "cli_device_id"}

\* The one list that a request's operations are in.
LEMMA Plans ==
    ASSUME NEW j \in Jobs
    PROVE  LET kind == Job[j].kind IN
           /\ kind \in Tools => Plan(j) = RequireGrant \o ToolChecks(kind)
           /\ kind \in RouteKinds => Plan(j) = Routes[kind]
           /\ kind \in Mutators => Plan(j) = <<kind>>
<1> DEFINE kind == Job[j].kind
<1>0. j # Boot
  BY ConstantsAssumption
<1>1. DOMAIN Routes = RouteKinds
  BY DEF Routes, RouteKinds
<1>2. kind \in RouteKinds => kind \notin Tools
  BY DEF RouteKinds, Tools, EditTools, WriteTools, TerminalTools, Commits
<1>3. kind \in Mutators => kind \notin Tools /\ kind \notin RouteKinds
  BY DEF Mutators, RouteKinds, Tools, EditTools, WriteTools, TerminalTools, Commits
<1> QED BY <1>0, <1>1, <1>2, <1>3 DEF Plan

\* Where in the list of which request an operation stands.
Place(j, k, op, last) ==
    LET kind == Job[j].kind IN
    \/ j = Boot /\ k = 1 /\ op = "open" /\ ~last
    \/ j = Boot /\ k = 2 /\ op = "device_id" /\ last
    \/ j \in Jobs /\ kind \in ActingKinds /\ k = 1 /\ op = "validate" /\ ~last
    \/ j \in Jobs /\ kind \in ActingKinds /\ k = 2 /\ op = "verify_gateway" /\ ~last
    \/ j \in Jobs /\ kind \in Commits /\ k = 3 /\ op = "verify_prepared" /\ last
    \/ j \in Jobs /\ kind \in Tools \ Commits /\ k = 3 /\ op = "verify_tool" /\ last
    \/ j \in Jobs /\ kind = "commander_status" /\ k = 3 /\ op = "verify_listed" /\ last
    \/ j \in Jobs /\ kind = "admin_revoke" /\ k = 3 /\ op = "revoke" /\ last
    \/ j \in Jobs /\ kind = "admin_pair" /\ k = 3 /\ op = "create_pairing" /\ last
    \/ j \in Jobs /\ kind = "register" /\ k = 1 /\ op = "check_client" /\ ~last
    \/ j \in Jobs /\ kind = "register" /\ k = 2 /\ op = "register" /\ last
    \/ j \in Jobs /\ kind = "authorize_page" /\ k = 1 /\ op = "check_request" /\ ~last
    \/ j \in Jobs /\ kind = "authorize_page" /\ k = 2 /\ op = "oauth_client" /\ last
    \/ j \in Jobs /\ kind = "authorize" /\ k = 1 /\ op = "check_request" /\ ~last
    \/ j \in Jobs /\ kind = "authorize" /\ k = 2 /\ op = "oauth_client" /\ ~last
    \/ j \in Jobs /\ kind = "authorize" /\ k = 3 /\ op = "validate" /\ ~last
    \/ j \in Jobs /\ kind = "authorize" /\ k = 4 /\ op = "create_pairing" /\ ~last
    \/ j \in Jobs /\ kind = "authorize" /\ k = 5 /\ op = "remember_code" /\ last
    \/ j \in Jobs /\ kind = "exchange" /\ k = 1 /\ op = "take_code" /\ ~last
    \/ j \in Jobs /\ kind = "exchange" /\ k = 2 /\ op = "redeem" /\ last
    \/ j \in Jobs /\ kind \in Commands /\ k = 1 /\ op = "open" /\ ~last
    \/ j \in Jobs /\ kind = "cli_grant" /\ k = 2 /\ op = "issue" /\ last
    \/ j \in Jobs /\ kind = "cli_revoke" /\ k = 2 /\ op = "revoke" /\ last
    \/ j \in Jobs /\ kind = "cli_device_id" /\ k = 2 /\ op = "device_id" /\ last
    \/ j \in Jobs /\ kind \in Mutators /\ k = 1 /\ op = kind /\ last

LEMMA Places ==
    ASSUME NEW j \in Jobs \cup {Boot}
    PROVE  /\ Len(Plan(j)) \in Nat \ {0}
           /\ \A k \in 1 .. Len(Plan(j)) : Place(j, k, Plan(j)[k], k = Len(Plan(j)))
<1> DEFINE kind == Job[j].kind
<1> SUFFICES ASSUME NEW k
             PROVE  /\ Len(Plan(j)) \in Nat \ {0}
                    /\ k \in 1 .. Len(Plan(j)) => Place(j, k, Plan(j)[k], k = Len(Plan(j)))
  OBVIOUS
<1>1. CASE j = Boot
  <2>1. Plan(j) = <<"open", "device_id">>
    BY <1>1 DEF Plan
  <2>2. Len(Plan(j)) = 2 /\ Plan(j)[1] = "open" /\ Plan(j)[2] = "device_id"
    BY <2>1
  <2>3. k \in 1 .. Len(Plan(j)) => k = 1 \/ k = 2
    BY <2>2
  <2> QED BY <1>1, <2>2, <2>3 DEF Place
<1>2. CASE j \in Jobs /\ kind \in Tools \ Commits
  <2>1. Plan(j) = <<"validate", "verify_gateway", "verify_tool">>
    BY <1>2, Plans DEF ToolChecks, RequireGrant
  <2>2. /\ Len(Plan(j)) = 3 /\ Plan(j)[1] = "validate"
        /\ Plan(j)[2] = "verify_gateway" /\ Plan(j)[3] = "verify_tool"
    BY <2>1
  <2>3. k \in 1 .. Len(Plan(j)) => k = 1 \/ k = 2 \/ k = 3
    BY <2>2
  <2> QED BY <1>2, <2>2, <2>3 DEF Place, ActingKinds, Tools, Admin, Status
<1>3. CASE j \in Jobs /\ kind \in Commits
  <2>1. Plan(j) = <<"validate", "verify_gateway", "verify_prepared">>
    BY <1>3, Plans DEF ToolChecks, RequireGrant, Tools
  <2>2. /\ Len(Plan(j)) = 3 /\ Plan(j)[1] = "validate"
        /\ Plan(j)[2] = "verify_gateway" /\ Plan(j)[3] = "verify_prepared"
    BY <2>1
  <2>3. k \in 1 .. Len(Plan(j)) => k = 1 \/ k = 2 \/ k = 3
    BY <2>2
  <2> QED BY <1>3, <2>2, <2>3 DEF Place, ActingKinds, Tools, Admin, Status
<1>4. CASE j \in Jobs /\ kind = "commander_status"
  <2>1. Plan(j) = <<"validate", "verify_gateway", "verify_listed">>
    BY <1>4, Plans DEF RouteKinds, Routes, RequireGrant
  <2>2. /\ Len(Plan(j)) = 3 /\ Plan(j)[1] = "validate"
        /\ Plan(j)[2] = "verify_gateway" /\ Plan(j)[3] = "verify_listed"
    BY <2>1
  <2>3. k \in 1 .. Len(Plan(j)) => k = 1 \/ k = 2 \/ k = 3
    BY <2>2
  <2> QED BY <1>4, <2>2, <2>3 DEF Place, ActingKinds, Tools, Admin, Status
<1>5. CASE j \in Jobs /\ kind = "admin_revoke"
  <2>1. Plan(j) = <<"validate", "verify_gateway", "revoke">>
    BY <1>5, Plans DEF RouteKinds, Routes, RequireGrant
  <2>2. /\ Len(Plan(j)) = 3 /\ Plan(j)[1] = "validate"
        /\ Plan(j)[2] = "verify_gateway" /\ Plan(j)[3] = "revoke"
    BY <2>1
  <2>3. k \in 1 .. Len(Plan(j)) => k = 1 \/ k = 2 \/ k = 3
    BY <2>2
  <2> QED BY <1>5, <2>2, <2>3 DEF Place, ActingKinds, Tools, Admin, Status
<1>6. CASE j \in Jobs /\ kind = "admin_pair"
  <2>1. Plan(j) = <<"validate", "verify_gateway", "create_pairing">>
    BY <1>6, Plans DEF RouteKinds, Routes, RequireGrant
  <2>2. /\ Len(Plan(j)) = 3 /\ Plan(j)[1] = "validate"
        /\ Plan(j)[2] = "verify_gateway" /\ Plan(j)[3] = "create_pairing"
    BY <2>1
  <2>3. k \in 1 .. Len(Plan(j)) => k = 1 \/ k = 2 \/ k = 3
    BY <2>2
  <2> QED BY <1>6, <2>2, <2>3 DEF Place, ActingKinds, Tools, Admin, Status
<1>7. CASE j \in Jobs /\ kind = "register"
  <2>1. Plan(j) = <<"check_client", "register">>
    BY <1>7, Plans DEF RouteKinds, Routes
  <2>2. Len(Plan(j)) = 2 /\ Plan(j)[1] = "check_client" /\ Plan(j)[2] = "register"
    BY <2>1
  <2>3. k \in 1 .. Len(Plan(j)) => k = 1 \/ k = 2
    BY <2>2
  <2> QED BY <1>7, <2>2, <2>3 DEF Place
<1>8. CASE j \in Jobs /\ kind = "authorize_page"
  <2>1. Plan(j) = <<"check_request", "oauth_client">>
    BY <1>8, Plans DEF RouteKinds, Routes
  <2>2. Len(Plan(j)) = 2 /\ Plan(j)[1] = "check_request" /\ Plan(j)[2] = "oauth_client"
    BY <2>1
  <2>3. k \in 1 .. Len(Plan(j)) => k = 1 \/ k = 2
    BY <2>2
  <2> QED BY <1>8, <2>2, <2>3 DEF Place
<1>9. CASE j \in Jobs /\ kind = "authorize"
  <2>1. Plan(j) = <<"check_request", "oauth_client", "validate", "create_pairing", "remember_code">>
    BY <1>9, Plans DEF RouteKinds, Routes
  <2>2. /\ Len(Plan(j)) = 5 /\ Plan(j)[1] = "check_request" /\ Plan(j)[2] = "oauth_client"
        /\ Plan(j)[3] = "validate" /\ Plan(j)[4] = "create_pairing" /\ Plan(j)[5] = "remember_code"
    BY <2>1
  <2>3. k \in 1 .. Len(Plan(j)) => k = 1 \/ k = 2 \/ k = 3 \/ k = 4 \/ k = 5
    BY <2>2
  <2> QED BY <1>9, <2>2, <2>3 DEF Place
<1>10. CASE j \in Jobs /\ kind = "exchange"
  <2>1. Plan(j) = <<"take_code", "redeem">>
    BY <1>10, Plans DEF RouteKinds, Routes
  <2>2. Len(Plan(j)) = 2 /\ Plan(j)[1] = "take_code" /\ Plan(j)[2] = "redeem"
    BY <2>1
  <2>3. k \in 1 .. Len(Plan(j)) => k = 1 \/ k = 2
    BY <2>2
  <2> QED BY <1>10, <2>2, <2>3 DEF Place
<1>11. CASE j \in Jobs /\ kind = "cli_grant"
  <2>1. Plan(j) = <<"open", "issue">>
    BY <1>11, Plans DEF RouteKinds, Routes
  <2>2. Len(Plan(j)) = 2 /\ Plan(j)[1] = "open" /\ Plan(j)[2] = "issue"
    BY <2>1
  <2>3. k \in 1 .. Len(Plan(j)) => k = 1 \/ k = 2
    BY <2>2
  <2> QED BY <1>11, <2>2, <2>3 DEF Place, Commands
<1>12. CASE j \in Jobs /\ kind = "cli_revoke"
  <2>1. Plan(j) = <<"open", "revoke">>
    BY <1>12, Plans DEF RouteKinds, Routes
  <2>2. Len(Plan(j)) = 2 /\ Plan(j)[1] = "open" /\ Plan(j)[2] = "revoke"
    BY <2>1
  <2>3. k \in 1 .. Len(Plan(j)) => k = 1 \/ k = 2
    BY <2>2
  <2> QED BY <1>12, <2>2, <2>3 DEF Place, Commands
<1>13. CASE j \in Jobs /\ kind = "cli_device_id"
  <2>1. Plan(j) = <<"open", "device_id">>
    BY <1>13, Plans DEF RouteKinds, Routes
  <2>2. Len(Plan(j)) = 2 /\ Plan(j)[1] = "open" /\ Plan(j)[2] = "device_id"
    BY <2>1
  <2>3. k \in 1 .. Len(Plan(j)) => k = 1 \/ k = 2
    BY <2>2
  <2> QED BY <1>13, <2>2, <2>3 DEF Place, Commands
<1>14. CASE j \in Jobs /\ kind \in Mutators
  <2>1. Plan(j) = <<kind>>
    BY <1>14, Plans
  <2>2. Len(Plan(j)) = 1 /\ Plan(j)[1] = kind
    BY <2>1
  <2>3. k \in 1 .. Len(Plan(j)) => k = 1
    BY <2>2
  <2> QED BY <1>14, <2>2, <2>3 DEF Place
<1>15. DOMAIN Routes = RouteKinds
  BY DEF Routes, RouteKinds
<1>16. j \in Jobs => kind \in Tools \cup RouteKinds \cup Mutators
  BY <1>15, JobsAssumption DEF Kinds
<1> QED BY <1>1, <1>2, <1>3, <1>4, <1>5, <1>6, <1>7, <1>8, <1>9, <1>10, <1>11, <1>12, <1>13, <1>14, <1>16 DEF RouteKinds

\* What follows from an operation for the request that makes it, and the other way round.
Fits(j, k, op, kind, last) ==
    /\ op \in Ops
    /\ j = Boot => op \in {"open", "device_id"}
    /\ op = "open" => k = 1 /\ ~last
    /\ op \in {"issue", "redeem", "create_pairing", "remember_code", "take_code", "validate",
               "revoke", "register", "oauth_client", "verify_gateway", "verify_tool",
               "verify_prepared", "verify_listed"} \cup Mutators => j \in Jobs
    /\ op = "issue" => kind = "cli_grant" /\ last
    /\ op = "redeem" => last /\ kind \in {"exchange", "redeem"}
    /\ op = "create_pairing" => kind = "authorize" \/ (kind = "admin_pair" /\ last)
    /\ op = "remember_code" => kind = "authorize" /\ last
    /\ op = "take_code" => kind = "exchange" /\ k = 1 /\ ~last
    /\ op = "validate" => ~last /\ (kind = "authorize" \/ (kind \in ActingKinds /\ k = 1))
    /\ op = "verify_gateway" => ~last /\ kind \in ActingKinds /\ k = 2
    /\ op \in {"verify_tool", "verify_prepared"} => last /\ kind \in Tools /\ k = 3
    /\ op = "verify_listed" => last /\ kind \in Status /\ k = 3
    /\ op = "revoke" => last /\ kind \in {"admin_revoke", "cli_revoke"}
    /\ op = "register" => last /\ kind = "register" /\ k = 2
    /\ op = "check_client" => kind = "register" /\ k = 1
    /\ op \in Mutators \ {"redeem"} => last /\ kind = op /\ k = 1
LEMMA Operations ==
    ASSUME NEW j \in Jobs \cup {Boot}, NEW k \in 1 .. Len(Plan(j)),
           NEW op, op = Plan(j)[k], NEW kind, kind = Job[j].kind, NEW last, last = (k = Len(Plan(j)))
    PROVE  Fits(j, k, op, kind, last)
<1>1. Place(j, k, op, last)
  BY Places
<1>2. /\ op = "open" => k = 1 /\ ~last
      /\ j = Boot => op \in {"open", "device_id"}
      /\ op \in {"issue", "redeem", "create_pairing", "remember_code", "take_code", "validate",
                 "revoke", "register", "oauth_client", "verify_gateway", "verify_tool",
                 "verify_prepared", "verify_listed"} \cup Mutators => j \in Jobs
  BY <1>1, ConstantsAssumption DEF Place, Mutators
<1>3. /\ op = "issue" => kind = "cli_grant" /\ last
      /\ op = "redeem" => last /\ kind \in {"exchange", "redeem"}
      /\ op = "create_pairing" => kind = "authorize" \/ (kind = "admin_pair" /\ last)
      /\ op = "remember_code" => kind = "authorize" /\ last
      /\ op = "take_code" => kind = "exchange" /\ k = 1 /\ ~last
  BY <1>1 DEF Place, Mutators
<1>4. /\ op = "validate" => ~last /\ (kind = "authorize" \/ (kind \in ActingKinds /\ k = 1))
      /\ op = "verify_gateway" => ~last /\ kind \in ActingKinds /\ k = 2
      /\ op \in {"verify_tool", "verify_prepared"} => last /\ kind \in Tools /\ k = 3
      /\ op = "verify_listed" => last /\ kind \in Status /\ k = 3
  BY <1>1 DEF Place, Mutators, Status, Tools
<1>5. /\ op = "revoke" => last /\ kind \in {"admin_revoke", "cli_revoke"}
      /\ op = "register" => last /\ kind = "register" /\ k = 2
      /\ op = "check_client" => kind = "register" /\ k = 1
      /\ op \in Mutators \ {"redeem"} => last /\ kind = op /\ k = 1
  BY <1>1 DEF Place, Mutators
<1>6. op \in Ops
  BY <1>1 DEF Place, Mutators, Ops, Checks, InMemory, Readers, GrantWriters, TenantWriters, TenantOps
<1> QED BY <1>2, <1>3, <1>4, <1>5, <1>6 DEF Fits

Suits(k, op, kind, last) ==
    /\ kind \in ActingKinds =>
           /\ k = 1 => op = "validate"
           /\ k = 2 => op = "verify_gateway"
           /\ k = 3 => last /\ op \in {"verify_tool", "verify_prepared", "verify_listed",
                                       "revoke", "create_pairing"}
           /\ k \in {1, 2, 3}
    /\ kind = "authorize" =>
           /\ k = 1 => op = "check_request"
           /\ k = 2 => op = "oauth_client"
           /\ k = 3 => op = "validate"
           /\ k = 4 => op = "create_pairing"
           /\ k = 5 => op = "remember_code"
           /\ k \in 1 .. 5
    /\ kind = "exchange" => (k = 1 /\ op = "take_code") \/ (k = 2 /\ op = "redeem")
    /\ kind = "register" => (k = 1 /\ op = "check_client") \/ (k = 2 /\ op = "register")
    /\ kind = "redeem" => op = "redeem"
    /\ kind = "admin_pair" => op \in {"validate", "verify_gateway", "create_pairing"}
    /\ kind = "cli_grant" => op \in {"open", "issue"}
LEMMA OperationsOf ==
    ASSUME NEW j \in Jobs, NEW k \in 1 .. Len(Plan(j)),
           NEW op, op = Plan(j)[k], NEW kind, kind = Job[j].kind, NEW last, last = (k = Len(Plan(j)))
    PROVE  Suits(k, op, kind, last)
<1>1. Place(j, k, op, last) /\ j # Boot
  BY Places, ConstantsAssumption
<1>2. kind \in ActingKinds =>
          /\ k = 1 => op = "validate"
          /\ k = 2 => op = "verify_gateway"
          /\ k = 3 => last /\ op \in {"verify_tool", "verify_prepared", "verify_listed",
                                      "revoke", "create_pairing"}
          /\ k \in {1, 2, 3}
  BY <1>1 DEF Place, Mutators, ActingKinds, Tools, Status, Admin, Commits, EditTools, WriteTools,
              TerminalTools, Commands
<1>3. kind = "authorize" =>
          /\ k = 1 => op = "check_request"
          /\ k = 2 => op = "oauth_client"
          /\ k = 3 => op = "validate"
          /\ k = 4 => op = "create_pairing"
          /\ k = 5 => op = "remember_code"
          /\ k \in 1 .. 5
  BY <1>1 DEF Place, Mutators, ActingKinds, Tools, Status, Admin, Commits, EditTools, WriteTools,
              TerminalTools, Commands
<1>4. /\ kind = "exchange" => (k = 1 /\ op = "take_code") \/ (k = 2 /\ op = "redeem")
      /\ kind = "register" => (k = 1 /\ op = "check_client") \/ (k = 2 /\ op = "register")
      /\ kind = "redeem" => op = "redeem"
      /\ kind = "admin_pair" => op \in {"validate", "verify_gateway", "create_pairing"}
      /\ kind = "cli_grant" => op \in {"open", "issue"}
  BY <1>1 DEF Place, Mutators, ActingKinds, Tools, Status, Admin, Commits, EditTools, WriteTools,
              TerminalTools, Commands
<1> QED BY <1>2, <1>3, <1>4 DEF Suits

-----------------------------------------------------------------------------
(* What the steps do to the threads.                                       *)

Fields == {"job", "k", "pc", "now", "grant", "next", "barred"}

Others(t) == DOMAIN th' = Threads /\ \A u \in Threads \ {t} : th'[u] = th[u]
Starts == {"open", "check", "memory", "lock"}

\* A thread begins an operation, or a step of one is done.
Entered(t, job, k) ==
    /\ DOMAIN th'[t] = Fields
    /\ th'[t].job = job /\ th'[t].k = k /\ th'[t].pc = StartOf(Plan(job)[k]) /\ th'[t].next = Absent
    /\ th'[t].grant = th[t].grant /\ th'[t].now \in {clock, th[t].now}
    /\ th'[t].barred = IF k = 1 THEN barred ELSE th[t].barred
Went(t) ==
    \/ th[t].k = Len(Plan(th[t].job)) /\ th'[t] = Idle
    \/ th[t].k < Len(Plan(th[t].job)) /\ Entered(t, th[t].job, th[t].k + 1)
Moved(t, pc) ==
    /\ DOMAIN th'[t] = Fields /\ th'[t].pc = pc
    /\ th'[t].job = th[t].job /\ th'[t].k = th[t].k /\ th'[t].now = th[t].now
    /\ th'[t].barred = th[t].barred

LEMMA EnterStep ==
    ASSUME NEW t \in Threads, NEW job, NEW k, DOMAIN th = Threads, DOMAIN th[t] = Fields,
           Enter(t, job, k)
    PROVE  Others(t) /\ Entered(t, job, k)
<1>1. Others(t)
  BY DEF Enter, Others
<1> DEFINE x == th'[t]
<1>2. x = [th[t] EXCEPT !.job = job, !.k = k, !.pc = StartOf(Plan(job)[k]), !.next = Absent,
              !.now = IF ReadsClock(job, Plan(job)[k]) THEN clock ELSE th[t].now,
              !.barred = IF k = 1 THEN barred ELSE th[t].barred]
  BY DEF Enter
<1> HIDE DEF x
<1>3. /\ DOMAIN x = Fields
      /\ x.job = job /\ x.k = k /\ x.pc = StartOf(Plan(job)[k]) /\ x.next = Absent
      /\ x.grant = th[t].grant /\ x.now \in {clock, th[t].now}
      /\ x.barred = IF k = 1 THEN barred ELSE th[t].barred
  BY <1>2 DEF Fields
<1> QED BY <1>1, <1>3 DEF x, Entered

LEMMA LeaveStep ==
    ASSUME NEW t \in Threads, DOMAIN th = Threads, Leave(t)
    PROVE  Others(t) /\ th'[t] = Idle
BY DEF Leave, Others

LEMMA ContinueStep ==
    ASSUME NEW t \in Threads, DOMAIN th = Threads, ThreadOK(t), Busy(t), Continue(t)
    PROVE  Others(t) /\ Went(t)
<1>1. DOMAIN th[t] = Fields /\ th[t].k \in 1 .. Len(Plan(th[t].job)) /\ Len(Plan(th[t].job)) \in Nat
  BY Places DEF ThreadOK, Fields, Busy
<1>2. CASE th[t].k < Len(Plan(th[t].job))
  BY <1>1, <1>2, EnterStep DEF Continue, Went
<1>3. CASE ~(th[t].k < Len(Plan(th[t].job)))
  <2>1. th[t].k = Len(Plan(th[t].job))
    BY <1>1, <1>3
  <2> QED BY <1>3, <2>1, LeaveStep DEF Continue, Went
<1> QED BY <1>2, <1>3

\* A thread that is left as it was.
LEMMA Same ==
    ASSUME NEW u \in Threads, th'[u] = th[u]
    PROVE  /\ Op(u)' = Op(u) /\ At(u)' = At(u) /\ Request(u)' = Request(u)
           /\ Busy(u)' = Busy(u) /\ Runs(u)' = Runs(u) /\ Kind(u)' = Kind(u)
BY DEF Op, At, Request, Busy, Runs, Kind

\* One that goes on in its operation.
LEMMA SameOperation ==
    ASSUME NEW u \in Threads, th'[u].job = th[u].job, th'[u].k = th[u].k
    PROVE  /\ Op(u)' = Op(u) /\ At(u)' = At(u) /\ Request(u)' = Request(u)
           /\ Busy(u)' = Busy(u) /\ Runs(u)' = Runs(u) /\ Kind(u)' = Kind(u)
BY DEF Op, At, Request, Busy, Runs, Kind

LEMMA IdleIs == Idle.job = NoJob /\ Idle.pc = "idle" /\ Idle.k = 0 /\ Idle.now = 0 /\ DOMAIN Idle = Fields
BY DEF Idle, Fields

-----------------------------------------------------------------------------
(* Threads stay well formed.                                               *)

LEMMA ThreadKept ==
    ASSUME NEW u \in Threads, ThreadOK(u), th'[u] = th[u], clock \in Nat, clock' \in Nat, clock <= clock'
    PROVE  ThreadOK(u)'
<1>1. Op(u)' = Op(u) /\ At(u)' = At(u) /\ Busy(u)' = Busy(u)
  BY Same
<1> QED BY <1>1 DEF ThreadOK

LEMMA ThreadLeft ==
    ASSUME NEW u \in Threads, th'[u] = Idle, clock' \in Nat
    PROVE  ThreadOK(u)'
BY IdleIs DEF ThreadOK, Busy, Fields

LEMMA StartsOfSteps ==
    ASSUME NEW op \in Ops
    PROVE  StartOf(op) \in StepsOf(op) /\ StartOf(op) \in Starts /\ StartOf(op) \notin Held
BY DEF StartOf, StepsOf, Starts, Held, Writing, Ops, Checks, InMemory, Readers, GrantWriters,
       TenantWriters, TenantOps

LEMMA ThreadEntered ==
    ASSUME NEW u \in Threads, NEW job \in Jobs \cup {Boot}, NEW k \in 1 .. Len(Plan(job)),
           ThreadOK(u), clock \in Nat, clock' = clock, Entered(u, job, k)
    PROVE  ThreadOK(u)'
<1> DEFINE op == Plan(job)[k]
<1>1. op \in Ops
  BY Operations DEF Fits
<1>2. job # NoJob
  BY ConstantsAssumption
<1>3. StartOf(op) \in StepsOf(op) /\ StartOf(op) \notin Writing
  BY <1>1, StartsOfSteps DEF Held
<1>4. Op(u)' = op
  BY DEF Entered, Op
<1> QED BY <1>2, <1>3, <1>4 DEF ThreadOK, Entered, Fields, Busy

LEMMA ThreadWent ==
    ASSUME NEW u \in Threads, ThreadOK(u), Busy(u), clock \in Nat, clock' = clock, Went(u)
    PROVE  ThreadOK(u)'
<1>1. /\ th[u].job \in Jobs \cup {Boot}
      /\ th[u].k \in 1 .. Len(Plan(th[u].job)) /\ Len(Plan(th[u].job)) \in Nat
  BY Places DEF ThreadOK, Busy
<1>2. CASE th'[u] = Idle
  BY <1>2, ThreadLeft
<1>3. CASE th[u].k < Len(Plan(th[u].job)) /\ Entered(u, th[u].job, th[u].k + 1)
  <2>1. th[u].k + 1 \in 1 .. Len(Plan(th[u].job))
    BY <1>1, <1>3
  <2> QED BY <1>1, <1>3, <2>1, ThreadEntered
<1> QED BY <1>2, <1>3 DEF Went

LEMMA ThreadMoved ==
    ASSUME NEW u \in Threads, ThreadOK(u), Busy(u), clock \in Nat, clock' = clock,
           NEW pc \in StepsOf(Op(u)), Moved(u, pc),
           pc \in Writing => IsStore(At(u), th'[u].next) /\ (Op(u) = "open" => th'[u].next = NewGrantStore)
    PROVE  ThreadOK(u)'
<1>1. Op(u)' = Op(u) /\ At(u)' = At(u) /\ Busy(u)' = Busy(u)
  BY SameOperation DEF Moved
<1> QED BY <1>1 DEF ThreadOK, Moved, Fields, Busy

-----------------------------------------------------------------------------
(* What the writers make of a store.                                       *)

LEMMA Fielded ==
    ASSUME NEW j \in Jobs, NEW r, r = Job[j]
    PROVE  /\ r.kind \in Kinds
           /\ r.kind = "exchange" => /\ "code" \in DOMAIN r /\ "new" \in DOMAIN r /\ "kind" \in DOMAIN r
                                     /\ "client" \in DOMAIN r /\ "redirect" \in DOMAIN r
                                     /\ "verifier" \in DOMAIN r
           /\ r.kind = "authorize" => /\ "code" \in DOMAIN r /\ "ttl" \in DOMAIN r
                                      /\ "code_ttl" \in DOMAIN r /\ "scopes" \in DOMAIN r
           /\ r.kind = "admin_revoke" => "target" \in DOMAIN r /\ "kind" \in DOMAIN r
           /\ r.kind \in {"authorize", "admin_pair", "cli_grant"} => r.ttl \in Nat
           /\ r.kind = "expire" => r.at \in Nat
           /\ r.kind = "record_usage" => r.units \in Nat
<1>1. /\ r.kind = "exchange" => {"kind", "code", "new", "client", "redirect", "verifier"} \subseteq DOMAIN r
      /\ r.kind = "authorize" => {"code", "ttl", "code_ttl", "scopes"} \subseteq DOMAIN r
      /\ r.kind = "admin_revoke" => {"kind", "target"} \subseteq DOMAIN r
      /\ r.kind \in Kinds
  BY JobsAssumption
<1>2. /\ r.kind \in {"authorize", "admin_pair", "cli_grant"} => r.ttl \in Nat
      /\ r.kind = "expire" => r.at \in Nat
      /\ r.kind = "record_usage" => r.units \in Nat
  BY JobsAssumption
<1>3. /\ r.kind = "exchange" => /\ "code" \in DOMAIN r /\ "new" \in DOMAIN r /\ "kind" \in DOMAIN r
                                /\ "client" \in DOMAIN r /\ "redirect" \in DOMAIN r
                                /\ "verifier" \in DOMAIN r
      /\ r.kind = "authorize" => /\ "code" \in DOMAIN r /\ "ttl" \in DOMAIN r
                                 /\ "code_ttl" \in DOMAIN r /\ "scopes" \in DOMAIN r
      /\ r.kind = "admin_revoke" => "target" \in DOMAIN r /\ "kind" \in DOMAIN r
  BY <1>1, SMT
<1> QED BY <1>1, <1>2, <1>3

\* The requests keep their fields when something is added to them.
RequestFits(t, op, r) ==
    /\ op = "redeem" => /\ Redeemer(r, t).new = r.new /\ Redeemer(r, t).code = r.code
                        /\ r.kind = "exchange" => Redeemer(r, t).actor = th[t].grant.actor
                        /\ Mints(th[t].job)
    /\ op = "issue" => r.ttl \in Nat /\ Mints(th[t].job)
    /\ op = "create_pairing" =>
           /\ Paired(r).code = r.code /\ Paired(r).ttl = r.ttl /\ r.ttl \in Nat
           /\ Paired(r).scopes = IF r.kind = "authorize" THEN ParsedScopes(r.scopes) ELSE r.scopes
           /\ Creates(th[t].job)
    /\ op = "revoke" => Targeted(r, t).target = r.target
    /\ op \in {"expire", "remove_workspace"} => Targeted(r, t) = r
    /\ op = "expire" => r.at \in Nat
    /\ op = "record_usage" => r.units \in Nat

LEMMA RequestIs ==
    ASSUME NEW t \in Threads, th[t].job \in Jobs, th[t].k \in 1 .. Len(Plan(th[t].job)),
           NEW op, op = Op(t), NEW r, r = Request(t)
    PROVE  RequestFits(t, op, r)
<1> DEFINE j == th[t].job
<1>0. j \in Jobs /\ op = Plan(j)[th[t].k] /\ r = Job[j]
  BY DEF Op, Request
<1>1. /\ op = "redeem" => r.kind \in {"exchange", "redeem"}
      /\ op = "issue" => r.kind = "cli_grant"
      /\ op = "create_pairing" => r.kind \in {"authorize", "admin_pair"}
      /\ op = "revoke" => r.kind \in {"admin_revoke", "cli_revoke"}
      /\ op = "expire" => r.kind = "expire"
      /\ op = "remove_workspace" => r.kind = "remove_workspace"
      /\ op = "record_usage" => r.kind = "record_usage"
  BY <1>0, Operations DEF Mutators, Fits
<1>2. op = "redeem" => /\ Redeemer(r, t).new = r.new /\ Redeemer(r, t).code = r.code
                       /\ r.kind = "exchange" => Redeemer(r, t).actor = th[t].grant.actor
                       /\ Mints(j)
  <2>1. r.kind = "exchange" => "code" \in DOMAIN r /\ "new" \in DOMAIN r
    BY <1>0, Fielded
  <2> QED BY <1>0, <1>1, <2>1 DEF Redeemer, Mints, Put
<1>3. op = "issue" => r.ttl \in Nat /\ Mints(j)
  BY <1>0, <1>1, Fielded DEF Mints
<1>4. op = "create_pairing" =>
          /\ Paired(r).code = r.code /\ Paired(r).ttl = r.ttl /\ r.ttl \in Nat
          /\ Paired(r).scopes = IF r.kind = "authorize" THEN ParsedScopes(r.scopes) ELSE r.scopes
          /\ Creates(j)
  <2>1. /\ r.kind = "authorize" => /\ "code" \in DOMAIN r /\ "ttl" \in DOMAIN r
                                   /\ "code_ttl" \in DOMAIN r /\ "scopes" \in DOMAIN r
        /\ r.kind \in {"authorize", "admin_pair"} => r.ttl \in Nat
    BY <1>0, Fielded
  <2> QED BY <1>0, <1>1, <2>1 DEF Paired, Creates
<1>5. op = "revoke" => Targeted(r, t).target = r.target
  <2>1. r.kind = "admin_revoke" => "target" \in DOMAIN r
    BY <1>0, Fielded
  <2> QED BY <1>1, <2>1 DEF Targeted, Put
<1>6. /\ op \in {"expire", "remove_workspace"} => Targeted(r, t) = r
      /\ op = "expire" => r.at \in Nat
  BY <1>0, <1>1, Fielded DEF Targeted
<1>7. op = "record_usage" => r.units \in Nat
  BY <1>0, <1>1, Fielded
<1> QED BY <1>0, <1>2, <1>3, <1>4, <1>5, <1>6, <1>7 DEF RequestFits

\* The grant that a writer makes, and what each writer makes of the three maps.
MadeGrant(g, r, now) ==
    /\ IsGrant(g) /\ ~g.revoked /\ g.issued = now
MadePairing(p, r) ==
    /\ DOMAIN p = {"scopes", "expires", "ttl"} /\ p.ttl \in Nat
    /\ p.scopes = IF r.kind = "authorize" THEN ParsedScopes(r.scopes) ELSE r.scopes

GrantsChange(t, op, r, s, x) ==
    /\ op \in {"create_pairing", "prune_expired_pairings", "register"} => x.grants = s.grants
    /\ op \in {"issue", "redeem"} =>
           /\ DOMAIN x.grants = DOMAIN s.grants \cup {r.new}
           /\ MadeGrant(x.grants[r.new], r, th[t].now)
           /\ \A g \in DOMAIN s.grants \ {r.new} : x.grants[g] = s.grants[g]
    /\ op \in {"revoke", "expire", "remove_workspace"} =>
           /\ DOMAIN x.grants = DOMAIN s.grants
           /\ \A g \in DOMAIN s.grants : g # r.target => x.grants[g] = s.grants[g]
           /\ ~Found(s, Targeted(r, t)) => x = s
           /\ r.target \in DOMAIN s.grants =>
                 /\ IsGrant(x.grants[r.target])
                 /\ x.grants[r.target].org = s.grants[r.target].org
                 /\ x.grants[r.target].issued = s.grants[r.target].issued
    /\ op = "revoke" /\ Found(s, Targeted(r, t)) =>
           /\ x.grants[r.target].revoked
           /\ x.grants[r.target].ws = s.grants[r.target].ws
    /\ op = "expire" /\ Found(s, r) =>
           /\ x.grants[r.target].revoked = s.grants[r.target].revoked
           /\ x.grants[r.target].ws = s.grants[r.target].ws
           /\ x.grants[r.target].expires = r.at
    /\ op = "remove_workspace" /\ Found(s, Targeted(r, t)) =>
           /\ x.grants[r.target].revoked = s.grants[r.target].revoked
           /\ x.grants[r.target].ws = s.grants[r.target].ws \ {r.workspace}
           /\ x.grants[r.target].expires = s.grants[r.target].expires
    /\ op = "prune_expired" =>
           /\ DOMAIN x.grants = {g \in DOMAIN s.grants : Live(s.grants[g], th[t].now)}
           /\ \A g \in DOMAIN x.grants : x.grants[g] = s.grants[g]
PairingsChange(op, r, s, x) ==
    /\ op = "redeem" => /\ DOMAIN x.pairings = DOMAIN s.pairings \ {r.code}
                        /\ \A c \in DOMAIN x.pairings : x.pairings[c] = s.pairings[c]
    /\ op = "create_pairing" =>
           /\ DOMAIN x.pairings = DOMAIN s.pairings \cup {r.code}
           /\ MadePairing(x.pairings[r.code], r)
           /\ \A c \in DOMAIN s.pairings \ {r.code} : x.pairings[c] = s.pairings[c]
    /\ op = "prune_expired_pairings" =>
           /\ DOMAIN x.pairings \subseteq DOMAIN s.pairings
           /\ \A c \in DOMAIN x.pairings : x.pairings[c] = s.pairings[c]
    /\ op \notin {"redeem", "create_pairing", "prune_expired_pairings"} => x.pairings = s.pairings
ClientsChange(op, r, s, x) ==
    /\ op = "register" => /\ DOMAIN x.clients = DOMAIN s.clients \cup {r.client}
                          /\ x.clients[r.client] = r.redirects
                          /\ \A c \in DOMAIN s.clients \ {r.client} : x.clients[c] = s.clients[c]
    /\ op # "register" => x.clients = s.clients
Redeems(t, op, r, s, x) ==
    op = "redeem" => /\ r.code \in DOMAIN s.pairings
                     /\ x.grants[r.new].scopes = s.pairings[r.code].scopes
                     /\ r.kind = "exchange" => x.grants[r.new].actor = th[t].grant.actor

LEMMA GrantWrites ==
    ASSUME NEW t \in Threads, th[t].job \in Jobs, th[t].k \in 1 .. Len(Plan(th[t].job)),
           th[t].now \in Nat, NEW op, op = Op(t), op \in GrantWriters, NEW r, r = Request(t),
           NEW s, IsGrantStore(s), NEW w, w = Writes(op, s, r, t), w.ok, NEW x, x = w.s
    PROVE  /\ DOMAIN x = {"grants", "pairings", "clients"}
           /\ GrantsChange(t, op, r, s, x) /\ PairingsChange(op, r, s, x) /\ ClientsChange(op, r, s, x)
           /\ Redeems(t, op, r, s, x)
<1> DEFINE now == th[t].now
<1>0. /\ DOMAIN s = {"grants", "pairings", "clients"}
      /\ \A g \in DOMAIN s.grants : IsGrant(s.grants[g])
      /\ \A c \in DOMAIN s.pairings : DOMAIN s.pairings[c] = {"scopes", "expires", "ttl"}
                                      /\ s.pairings[c].ttl \in Nat
  BY DEF IsGrantStore
<1>000. RequestFits(t, op, r)
  BY RequestIs
<1>00. /\ op = "redeem" => /\ Redeemer(r, t).new = r.new /\ Redeemer(r, t).code = r.code
                           /\ r.kind = "exchange" => Redeemer(r, t).actor = th[t].grant.actor
       /\ op = "create_pairing" =>
              /\ Paired(r).code = r.code /\ Paired(r).ttl = r.ttl /\ r.ttl \in Nat
              /\ Paired(r).scopes = IF r.kind = "authorize" THEN ParsedScopes(r.scopes) ELSE r.scopes
  BY <1>000 DEF RequestFits
<1> USE DEF Done, Refused
<1>1. CASE op = "issue"
  <2>1. r.ttl \in Nat
    BY <1>1, <1>000 DEF RequestFits
  <2>2. w = Issue(s, r, now)
    BY <1>1 DEF Writes
  <2>3. x = [s EXCEPT !.grants = Put(s.grants, r.new,
                [actor |-> r.actor, org |-> r.org, ws |-> r.workspaces, scopes |-> r.scopes,
                 issued |-> now, expires |-> now + r.ttl, revoked |-> FALSE])]
    BY <2>2 DEF Issue
  <2>4. /\ DOMAIN x = {"grants", "pairings", "clients"}
        /\ x.pairings = s.pairings /\ x.clients = s.clients
        /\ x.grants = Put(s.grants, r.new,
                [actor |-> r.actor, org |-> r.org, ws |-> r.workspaces, scopes |-> r.scopes,
                 issued |-> now, expires |-> now + r.ttl, revoked |-> FALSE])
    BY <1>0, <2>3
  <2>5. /\ DOMAIN x.grants = DOMAIN s.grants \cup {r.new}
        /\ x.grants[r.new] = [actor |-> r.actor, org |-> r.org, ws |-> r.workspaces,
                scopes |-> r.scopes, issued |-> now, expires |-> now + r.ttl, revoked |-> FALSE]
        /\ \A g \in DOMAIN s.grants \ {r.new} : x.grants[g] = s.grants[g]
    BY <2>4 DEF Put
  <2>6. MadeGrant(x.grants[r.new], r, now)
    BY <2>1, <2>5 DEF MadeGrant, IsGrant
  <2> QED BY <1>1, <2>4, <2>5, <2>6 DEF GrantsChange, PairingsChange, ClientsChange, Redeems
<1>2. CASE op = "create_pairing"
  <2>1. /\ Paired(r).code = r.code /\ Paired(r).ttl = r.ttl /\ r.ttl \in Nat
        /\ Paired(r).scopes = IF r.kind = "authorize" THEN ParsedScopes(r.scopes) ELSE r.scopes
    BY <1>2, <1>00
  <2>2. w = CreatePairing(s, Paired(r), now)
    BY <1>2 DEF Writes
  <2>3. x = [s EXCEPT !.pairings = Put(s.pairings, r.code,
                [scopes |-> Paired(r).scopes, expires |-> now + Paired(r).code_ttl, ttl |-> r.ttl])]
    BY <2>1, <2>2 DEF CreatePairing
  <2>4. /\ DOMAIN x = {"grants", "pairings", "clients"}
        /\ x.grants = s.grants /\ x.clients = s.clients
        /\ x.pairings = Put(s.pairings, r.code,
                [scopes |-> Paired(r).scopes, expires |-> now + Paired(r).code_ttl, ttl |-> r.ttl])
    BY <1>0, <2>3
  <2>5. /\ DOMAIN x.pairings = DOMAIN s.pairings \cup {r.code}
        /\ x.pairings[r.code] = [scopes |-> Paired(r).scopes, expires |-> now + Paired(r).code_ttl,
                                 ttl |-> r.ttl]
        /\ \A c \in DOMAIN s.pairings \ {r.code} : x.pairings[c] = s.pairings[c]
    BY <2>4 DEF Put
  <2>6. MadePairing(x.pairings[r.code], r)
    BY <2>1, <2>5 DEF MadePairing
  <2> QED BY <1>2, <2>4, <2>5, <2>6 DEF GrantsChange, PairingsChange, ClientsChange, Redeems
<1>3. CASE op = "redeem"
  <2> DEFINE q == Redeemer(r, t)
  <2>1. /\ q.new = r.new /\ q.code = r.code
        /\ r.kind = "exchange" => q.actor = th[t].grant.actor
    BY <1>3, <1>00
  <2>2. w = Redeem(s, q, now)
    BY <1>3 DEF Writes
  <2> HIDE DEF q
  <2> DEFINE pairing == s.pairings[r.code]
             new == [actor |-> q.actor, org |-> "local", ws |-> {}, scopes |-> pairing.scopes,
                     issued |-> now, expires |-> now + pairing.ttl, revoked |-> FALSE]
  <2>3. /\ r.code \in DOMAIN s.pairings
        /\ x = [s EXCEPT !.pairings = Drop(s.pairings, {r.code}), !.grants = Put(s.grants, r.new, new)]
    BY <2>1, <2>2 DEF Redeem
  <2>4. /\ DOMAIN x = {"grants", "pairings", "clients"}
        /\ x.pairings = Drop(s.pairings, {r.code}) /\ x.clients = s.clients
        /\ x.grants = Put(s.grants, r.new, new)
    BY <1>0, <2>3
  <2>5. pairing.ttl \in Nat
    BY <1>0, <2>3
  <2>6. /\ DOMAIN x.grants = DOMAIN s.grants \cup {r.new}
        /\ x.grants[r.new] = new
        /\ \A g \in DOMAIN s.grants \ {r.new} : x.grants[g] = s.grants[g]
    <3> HIDE DEF new
    <3> QED BY <2>4 DEF Put
  <2>7. /\ MadeGrant(x.grants[r.new], r, now)
        /\ x.grants[r.new].scopes = s.pairings[r.code].scopes
        /\ r.kind = "exchange" => x.grants[r.new].actor = th[t].grant.actor
    BY <2>1, <2>5, <2>6 DEF MadeGrant, IsGrant
  <2>8. /\ DOMAIN x.pairings = DOMAIN s.pairings \ {r.code}
        /\ \A c \in DOMAIN x.pairings : x.pairings[c] = s.pairings[c]
    BY <2>4 DEF Drop
  <2> QED BY <1>3, <2>3, <2>4, <2>6, <2>7, <2>8 DEF GrantsChange, PairingsChange, ClientsChange, Redeems
<1>4. CASE op = "revoke"
  <2>1. Targeted(r, t).target = r.target
    BY <1>4, <1>000 DEF RequestFits
  <2>2. x = IF Found(s, Targeted(r, t)) THEN [s EXCEPT !.grants[r.target].revoked = TRUE] ELSE s
    BY <1>4, <2>1 DEF Writes, Revoke
  <2>3. CASE ~Found(s, Targeted(r, t))
    BY <1>0, <1>4, <2>2, <2>3 DEF GrantsChange, PairingsChange, ClientsChange, Redeems
  <2>4. CASE Found(s, Targeted(r, t))
    <3>1. r.target \in DOMAIN s.grants
      BY <2>1, <2>4 DEF Found
    <3>2. /\ DOMAIN x = {"grants", "pairings", "clients"}
          /\ x.pairings = s.pairings /\ x.clients = s.clients
          /\ x.grants = [s.grants EXCEPT ![r.target] = [s.grants[r.target] EXCEPT !.revoked = TRUE]]
      BY <1>0, <2>2, <2>4
    <3>3. /\ DOMAIN x.grants = DOMAIN s.grants
          /\ \A g \in DOMAIN s.grants : g # r.target => x.grants[g] = s.grants[g]
          /\ x.grants[r.target] = [s.grants[r.target] EXCEPT !.revoked = TRUE]
      BY <3>1, <3>2
    <3>4. /\ IsGrant(x.grants[r.target]) /\ x.grants[r.target].revoked
          /\ x.grants[r.target].org = s.grants[r.target].org
          /\ x.grants[r.target].issued = s.grants[r.target].issued
          /\ x.grants[r.target].ws = s.grants[r.target].ws
      BY <1>0, <3>1, <3>3 DEF IsGrant
    <3> QED BY <1>4, <2>4, <3>2, <3>3, <3>4 DEF GrantsChange, PairingsChange, ClientsChange, Redeems
  <2> QED BY <2>3, <2>4
<1>5. CASE op = "expire"
  <2>1. Targeted(r, t) = r /\ r.at \in Nat
    BY <1>5, <1>000 DEF RequestFits
  <2>2. x = IF Found(s, r) THEN [s EXCEPT !.grants[r.target].expires = r.at] ELSE s
    BY <1>5 DEF Writes, Expire
  <2>3. CASE ~Found(s, r)
    BY <1>0, <1>5, <2>1, <2>2, <2>3 DEF GrantsChange, PairingsChange, ClientsChange, Redeems
  <2>4. CASE Found(s, r)
    <3>1. r.target \in DOMAIN s.grants
      BY <2>4 DEF Found
    <3>2. /\ DOMAIN x = {"grants", "pairings", "clients"}
          /\ x.pairings = s.pairings /\ x.clients = s.clients
          /\ x.grants = [s.grants EXCEPT ![r.target] = [s.grants[r.target] EXCEPT !.expires = r.at]]
      BY <1>0, <2>2, <2>4
    <3>3. /\ DOMAIN x.grants = DOMAIN s.grants
          /\ \A g \in DOMAIN s.grants : g # r.target => x.grants[g] = s.grants[g]
          /\ x.grants[r.target] = [s.grants[r.target] EXCEPT !.expires = r.at]
      BY <3>1, <3>2
    <3>4. /\ IsGrant(x.grants[r.target]) /\ x.grants[r.target].expires = r.at
          /\ x.grants[r.target].org = s.grants[r.target].org
          /\ x.grants[r.target].issued = s.grants[r.target].issued
          /\ x.grants[r.target].ws = s.grants[r.target].ws
          /\ x.grants[r.target].revoked = s.grants[r.target].revoked
      BY <1>0, <2>1, <3>1, <3>3 DEF IsGrant
    <3> QED BY <1>5, <2>1, <2>4, <3>2, <3>3, <3>4 DEF GrantsChange, PairingsChange, ClientsChange, Redeems
  <2> QED BY <2>3, <2>4
<1>6. CASE op = "remove_workspace"
  <2>1. x = IF Found(s, r) THEN [s EXCEPT !.grants[r.target].ws = s.grants[r.target].ws \ {r.workspace}]
            ELSE s
    BY <1>6 DEF Writes, RemoveWorkspace
  <2>2. Targeted(r, t) = r
    BY <1>6, <1>000 DEF RequestFits
  <2>3. CASE ~Found(s, r)
    BY <1>0, <1>6, <2>1, <2>2, <2>3 DEF GrantsChange, PairingsChange, ClientsChange, Redeems
  <2>4. CASE Found(s, r)
    <3>1. r.target \in DOMAIN s.grants
      BY <2>4 DEF Found
    <3>2. /\ DOMAIN x = {"grants", "pairings", "clients"}
          /\ x.pairings = s.pairings /\ x.clients = s.clients
          /\ x.grants = [s.grants EXCEPT ![r.target] =
                            [s.grants[r.target] EXCEPT !.ws = s.grants[r.target].ws \ {r.workspace}]]
      BY <1>0, <2>1, <2>4
    <3>3. /\ DOMAIN x.grants = DOMAIN s.grants
          /\ \A g \in DOMAIN s.grants : g # r.target => x.grants[g] = s.grants[g]
          /\ x.grants[r.target] = [s.grants[r.target] EXCEPT !.ws = s.grants[r.target].ws \ {r.workspace}]
      BY <3>1, <3>2
    <3>4. /\ IsGrant(x.grants[r.target])
          /\ x.grants[r.target].expires = s.grants[r.target].expires
          /\ x.grants[r.target].org = s.grants[r.target].org
          /\ x.grants[r.target].issued = s.grants[r.target].issued
          /\ x.grants[r.target].ws = s.grants[r.target].ws \ {r.workspace}
          /\ x.grants[r.target].revoked = s.grants[r.target].revoked
      BY <1>0, <3>1, <3>3 DEF IsGrant
    <3> QED BY <1>6, <2>2, <2>4, <3>2, <3>3, <3>4 DEF GrantsChange, PairingsChange, ClientsChange, Redeems
  <2> QED BY <2>3, <2>4
<1>7. CASE op = "prune_expired"
  <2>1. x = [s EXCEPT !.grants = Drop(s.grants, {g \in DOMAIN s.grants : ~Live(s.grants[g], now)})]
    BY <1>7 DEF Writes, PruneExpired
  <2>2. /\ DOMAIN x = {"grants", "pairings", "clients"}
        /\ x.pairings = s.pairings /\ x.clients = s.clients
        /\ x.grants = Drop(s.grants, {g \in DOMAIN s.grants : ~Live(s.grants[g], now)})
    BY <1>0, <2>1
  <2>3. /\ DOMAIN x.grants = {g \in DOMAIN s.grants : Live(s.grants[g], now)}
        /\ \A g \in DOMAIN x.grants : x.grants[g] = s.grants[g]
    BY <2>2 DEF Drop
  <2> QED BY <1>7, <2>2, <2>3 DEF GrantsChange, PairingsChange, ClientsChange, Redeems
<1>8. CASE op = "prune_expired_pairings"
  <2>1. x = [s EXCEPT !.pairings = Drop(s.pairings,
                 {c \in DOMAIN s.pairings : s.pairings[c].expires <= now})]
    BY <1>8 DEF Writes, PruneExpiredPairings
  <2>2. /\ DOMAIN x = {"grants", "pairings", "clients"}
        /\ x.grants = s.grants /\ x.clients = s.clients
        /\ x.pairings = Drop(s.pairings, {c \in DOMAIN s.pairings : s.pairings[c].expires <= now})
    BY <1>0, <2>1
  <2>3. /\ DOMAIN x.pairings \subseteq DOMAIN s.pairings
        /\ \A c \in DOMAIN x.pairings : x.pairings[c] = s.pairings[c]
    BY <2>2 DEF Drop
  <2> QED BY <1>8, <2>2, <2>3 DEF GrantsChange, PairingsChange, ClientsChange, Redeems
<1>9. CASE op = "register"
  <2>1. x = [s EXCEPT !.clients = Put(s.clients, r.client, r.redirects)]
    BY <1>9 DEF Writes, RegisterClient
  <2>2. /\ DOMAIN x = {"grants", "pairings", "clients"}
        /\ x.grants = s.grants /\ x.pairings = s.pairings
        /\ x.clients = Put(s.clients, r.client, r.redirects)
    BY <1>0, <2>1
  <2>3. /\ DOMAIN x.clients = DOMAIN s.clients \cup {r.client}
        /\ x.clients[r.client] = r.redirects
        /\ \A c \in DOMAIN s.clients \ {r.client} : x.clients[c] = s.clients[c]
    BY <2>2 DEF Put
  <2> QED BY <1>9, <2>2, <2>3 DEF GrantsChange, PairingsChange, ClientsChange, Redeems
<1> QED BY <1>1, <1>2, <1>3, <1>4, <1>5, <1>6, <1>7, <1>8, <1>9 DEF GrantWriters

LEMMA GrantsTyped ==
    ASSUME NEW t \in Threads, th[t].job \in Jobs, th[t].k \in 1 .. Len(Plan(th[t].job)),
           th[t].now \in Nat, NEW op, op = Op(t), op \in GrantWriters,
           NEW s, IsGrantStore(s), Writes(op, s, Request(t), t).ok
    PROVE  IsGrantStore(Writes(op, s, Request(t), t).s)
<1> DEFINE r == Request(t)
           x == Writes(op, s, Request(t), t).s
<1>1. /\ \A g \in DOMAIN s.grants : IsGrant(s.grants[g])
      /\ \A c \in DOMAIN s.pairings : DOMAIN s.pairings[c] = {"scopes", "expires", "ttl"}
                                      /\ s.pairings[c].ttl \in Nat
  BY DEF IsGrantStore
<1>2. /\ DOMAIN x = {"grants", "pairings", "clients"}
      /\ GrantsChange(t, op, r, s, x) /\ PairingsChange(op, r, s, x)
  BY GrantWrites
<1> HIDE DEF x, r
<1>4. \A g \in DOMAIN x.grants : IsGrant(x.grants[g])
  BY <1>1, <1>2 DEF GrantWriters, MadeGrant, GrantsChange
<1>5. \A c \in DOMAIN x.pairings :
          DOMAIN x.pairings[c] = {"scopes", "expires", "ttl"} /\ x.pairings[c].ttl \in Nat
  BY <1>1, <1>2 DEF MadePairing, PairingsChange
<1>6. IsGrantStore(x)
  BY <1>2, <1>4, <1>5 DEF IsGrantStore
<1> QED BY <1>6 DEF x, r

MembersChange(op, r, s, x) ==
    LET key == <<r.org, r.user>> IN
    /\ op \notin {"set_membership", "revoke_membership"} => x.members = s.members
    /\ op \in {"set_membership", "revoke_membership"} =>
           /\ \A m \in DOMAIN s.members \ {key} : x.members[m] = s.members[m]
           /\ key \in DOMAIN x.members =>
                 DOMAIN x.members[key] = {"role", "revoked"} /\ x.members[key].revoked \in BOOLEAN
    /\ op = "set_membership" => DOMAIN x.members = DOMAIN s.members \cup {key}
    /\ op = "revoke_membership" =>
           /\ DOMAIN x.members = DOMAIN s.members
           /\ key \in DOMAIN s.members => x.members[key].revoked
DevicesChange(op, r, s, x) ==
    LET key == <<r.org, r.device>> IN
    /\ op \notin {"pair_device", "revoke_device", "remove_device_workspace"} => x.devices = s.devices
    /\ op \in {"pair_device", "revoke_device", "remove_device_workspace"} =>
           /\ \A d \in DOMAIN s.devices \ {key} : x.devices[d] = s.devices[d]
           /\ key \in DOMAIN x.devices =>
                 DOMAIN x.devices[key] = {"ws", "revoked"} /\ x.devices[key].revoked \in BOOLEAN
    /\ op = "pair_device" =>
           /\ DOMAIN x.devices = DOMAIN s.devices \cup {key}
           /\ x.devices[key].ws = r.workspaces
    /\ op \in {"revoke_device", "remove_device_workspace"} => DOMAIN x.devices = DOMAIN s.devices
    /\ op = "revoke_device" /\ key \in DOMAIN s.devices =>
           x.devices[key].revoked /\ x.devices[key].ws = s.devices[key].ws
    /\ op = "remove_device_workspace" /\ key \in DOMAIN s.devices =>
           /\ x.devices[key].ws = s.devices[key].ws \ {r.workspace}
           /\ x.devices[key].revoked = s.devices[key].revoked
UsageChange(op, r, s, x) ==
    LET key == <<r.org, r.workspace>>
        sum == r.units + (IF key \in DOMAIN s.usage THEN s.usage[key] ELSE 0) IN
    /\ op # "record_usage" => x.usage = s.usage
    /\ op = "record_usage" =>
           /\ DOMAIN x.usage = DOMAIN s.usage \cup {key}
           /\ x.usage[key] = IF sum > MaxUnits THEN MaxUnits ELSE sum
           /\ \A k \in DOMAIN s.usage \ {key} : x.usage[k] = s.usage[k]

LEMMA TenantWrites ==
    ASSUME NEW t \in Threads, NEW op, op \in TenantWriters, NEW r, op = "record_usage" => r.units \in Nat,
           NEW s, IsTenantStore(s), NEW w, w = Writes(op, s, r, t), w.ok, NEW x, x = w.s
    PROVE  /\ DOMAIN x = {"users", "orgs", "members", "workspaces", "devices", "usage"}
           /\ MembersChange(op, r, s, x) /\ DevicesChange(op, r, s, x) /\ UsageChange(op, r, s, x)
<1>0. /\ DOMAIN s = {"users", "orgs", "members", "workspaces", "devices", "usage"}
      /\ \A m \in DOMAIN s.members : DOMAIN s.members[m] = {"role", "revoked"} /\ s.members[m].revoked \in BOOLEAN
      /\ \A d \in DOMAIN s.devices : DOMAIN s.devices[d] = {"ws", "revoked"} /\ s.devices[d].revoked \in BOOLEAN
  BY DEF IsTenantStore
<1> USE DEF Done, Refused
<1>1. CASE op \in {"upsert_user", "upsert_organization", "upsert_workspace"}
  <2>1. \E U, O, W : x = [s EXCEPT !.users = U] \/ x = [s EXCEPT !.orgs = O] \/ x = [s EXCEPT !.workspaces = W]
    BY <1>1 DEF Writes, UpsertUser, UpsertOrganization, UpsertWorkspace
  <2>2. /\ DOMAIN x = {"users", "orgs", "members", "workspaces", "devices", "usage"}
        /\ x.members = s.members /\ x.devices = s.devices /\ x.usage = s.usage
    BY <1>0, <2>1
  <2> QED BY <1>1, <2>2 DEF MembersChange, DevicesChange, UsageChange
<1>2. CASE op = "set_membership"
  <2> DEFINE key == <<r.org, r.user>>
             m == [role |-> r.role, revoked |-> FALSE]
  <2>1. x = [s EXCEPT !.members = Put(s.members, key, m)]
    BY <1>2 DEF Writes, SetMembership
  <2> HIDE DEF key, m
  <2>2. /\ DOMAIN x = {"users", "orgs", "members", "workspaces", "devices", "usage"}
        /\ x.members = Put(s.members, key, m) /\ x.devices = s.devices /\ x.usage = s.usage
    BY <1>0, <2>1
  <2>3. /\ DOMAIN x.members = DOMAIN s.members \cup {key} /\ x.members[key] = m
        /\ \A n \in DOMAIN s.members \ {key} : x.members[n] = s.members[n]
    BY <2>2 DEF Put
  <2>4. DOMAIN m = {"role", "revoked"} /\ m.revoked \in BOOLEAN
    BY DEF m
  <2> QED BY <1>2, <2>2, <2>3, <2>4 DEF key, MembersChange, DevicesChange, UsageChange
<1>3. CASE op = "revoke_membership"
  <2> DEFINE key == <<r.org, r.user>>
  <2>1. x = IF key \in DOMAIN s.members THEN [s EXCEPT !.members[key].revoked = TRUE] ELSE s
    BY <1>3 DEF Writes, RevokeMembership
  <2> HIDE DEF key
  <2>2. CASE key \notin DOMAIN s.members
    <3>1. x = s
      BY <2>1, <2>2
    <3> QED BY <1>0, <1>3, <2>2, <3>1 DEF key, MembersChange, DevicesChange, UsageChange
  <2>3. CASE key \in DOMAIN s.members
    <3>1. /\ DOMAIN x = {"users", "orgs", "members", "workspaces", "devices", "usage"}
          /\ x.members = [s.members EXCEPT ![key] = [s.members[key] EXCEPT !.revoked = TRUE]]
          /\ x.devices = s.devices /\ x.usage = s.usage
      BY <1>0, <2>1, <2>3
    <3>2. /\ DOMAIN x.members = DOMAIN s.members
          /\ \A n \in DOMAIN s.members \ {key} : x.members[n] = s.members[n]
          /\ x.members[key] = [s.members[key] EXCEPT !.revoked = TRUE]
      BY <2>3, <3>1
    <3>3. x.members[key].revoked = TRUE /\ DOMAIN x.members[key] = {"role", "revoked"}
      BY <1>0, <2>3, <3>2
    <3> QED BY <1>3, <3>1, <3>2, <3>3 DEF key, MembersChange, DevicesChange, UsageChange
  <2> QED BY <2>2, <2>3
<1>4. CASE op = "pair_device"
  <2> DEFINE key == <<r.org, r.device>>
             d == [ws |-> r.workspaces, revoked |-> FALSE]
  <2>1. x = [s EXCEPT !.devices = Put(s.devices, key, d)]
    BY <1>4 DEF Writes, PairDevice
  <2> HIDE DEF key, d
  <2>2. /\ DOMAIN x = {"users", "orgs", "members", "workspaces", "devices", "usage"}
        /\ x.devices = Put(s.devices, key, d) /\ x.members = s.members /\ x.usage = s.usage
    BY <1>0, <2>1
  <2>3. /\ DOMAIN x.devices = DOMAIN s.devices \cup {key} /\ x.devices[key] = d
        /\ \A n \in DOMAIN s.devices \ {key} : x.devices[n] = s.devices[n]
    BY <2>2 DEF Put
  <2>4. DOMAIN d = {"ws", "revoked"} /\ d.revoked \in BOOLEAN /\ d.ws = r.workspaces
    BY DEF d
  <2> QED BY <1>4, <2>2, <2>3, <2>4 DEF key, MembersChange, DevicesChange, UsageChange
<1>5. CASE op = "revoke_device"
  <2> DEFINE key == <<r.org, r.device>>
  <2>1. x = IF key \in DOMAIN s.devices THEN [s EXCEPT !.devices[key].revoked = TRUE] ELSE s
    BY <1>5 DEF Writes, RevokeDevice
  <2> HIDE DEF key
  <2>2. CASE key \notin DOMAIN s.devices
    <3>1. x = s
      BY <2>1, <2>2
    <3> QED BY <1>0, <1>5, <2>2, <3>1 DEF key, MembersChange, DevicesChange, UsageChange
  <2>3. CASE key \in DOMAIN s.devices
    <3>1. /\ DOMAIN x = {"users", "orgs", "members", "workspaces", "devices", "usage"}
          /\ x.devices = [s.devices EXCEPT ![key] = [s.devices[key] EXCEPT !.revoked = TRUE]]
          /\ x.members = s.members /\ x.usage = s.usage
      BY <1>0, <2>1, <2>3
    <3>2. /\ DOMAIN x.devices = DOMAIN s.devices
          /\ \A n \in DOMAIN s.devices \ {key} : x.devices[n] = s.devices[n]
          /\ x.devices[key] = [s.devices[key] EXCEPT !.revoked = TRUE]
      BY <2>3, <3>1
    <3>3. /\ x.devices[key].revoked = TRUE /\ DOMAIN x.devices[key] = {"ws", "revoked"}
          /\ x.devices[key].ws = s.devices[key].ws
      BY <1>0, <2>3, <3>2
    <3> QED BY <1>5, <3>1, <3>2, <3>3 DEF key, MembersChange, DevicesChange, UsageChange
  <2> QED BY <2>2, <2>3
<1>6. CASE op = "remove_device_workspace"
  <2> DEFINE key == <<r.org, r.device>>
             left == s.devices[key].ws \ {r.workspace}
  <2>1. x = IF key \in DOMAIN s.devices THEN [s EXCEPT !.devices[key].ws = left] ELSE s
    BY <1>6 DEF Writes, RemoveDeviceWorkspace
  <2> HIDE DEF key, left
  <2>2. CASE key \notin DOMAIN s.devices
    <3>1. x = s
      BY <2>1, <2>2
    <3> QED BY <1>0, <1>6, <2>2, <3>1 DEF key, MembersChange, DevicesChange, UsageChange
  <2>3. CASE key \in DOMAIN s.devices
    <3>1. /\ DOMAIN x = {"users", "orgs", "members", "workspaces", "devices", "usage"}
          /\ x.devices = [s.devices EXCEPT ![key] = [s.devices[key] EXCEPT !.ws = left]]
          /\ x.members = s.members /\ x.usage = s.usage
      BY <1>0, <2>1, <2>3
    <3>2. /\ DOMAIN x.devices = DOMAIN s.devices
          /\ \A n \in DOMAIN s.devices \ {key} : x.devices[n] = s.devices[n]
          /\ x.devices[key] = [s.devices[key] EXCEPT !.ws = left]
      BY <2>3, <3>1
    <3>3. /\ x.devices[key].revoked = s.devices[key].revoked /\ DOMAIN x.devices[key] = {"ws", "revoked"}
          /\ x.devices[key].ws = left /\ s.devices[key].revoked \in BOOLEAN
      BY <1>0, <2>3, <3>2
    <3> QED BY <1>6, <3>1, <3>2, <3>3 DEF key, left, MembersChange, DevicesChange, UsageChange
  <2> QED BY <2>2, <2>3
<1>7. CASE op = "record_usage"
  <2> DEFINE key == <<r.org, r.workspace>>
             sum == r.units + (IF key \in DOMAIN s.usage THEN s.usage[key] ELSE 0)
             n == IF sum > MaxUnits THEN MaxUnits ELSE sum
  <2>1. x = [s EXCEPT !.usage = Put(s.usage, key, n)]
    BY <1>7 DEF Writes, RecordUsage
  <2> HIDE DEF key, n
  <2>2. /\ DOMAIN x = {"users", "orgs", "members", "workspaces", "devices", "usage"}
        /\ x.usage = Put(s.usage, key, n) /\ x.members = s.members /\ x.devices = s.devices
    BY <1>0, <2>1
  <2>3. /\ DOMAIN x.usage = DOMAIN s.usage \cup {key} /\ x.usage[key] = n
        /\ \A k \in DOMAIN s.usage \ {key} : x.usage[k] = s.usage[k]
    BY <2>2 DEF Put
  <2> QED BY <1>7, <2>2, <2>3 DEF key, n, MembersChange, DevicesChange, UsageChange
<1> QED BY <1>1, <1>2, <1>3, <1>4, <1>5, <1>6, <1>7 DEF TenantWriters, TenantOps, Readers

LEMMA TenantsTyped ==
    ASSUME NEW t \in Threads, NEW op, op \in TenantWriters, NEW r, op = "record_usage" => r.units \in Nat,
           NEW s, IsTenantStore(s), Writes(op, s, r, t).ok
    PROVE  IsTenantStore(Writes(op, s, r, t).s)
<1> DEFINE x == Writes(op, s, r, t).s
<1>0. /\ \A m \in DOMAIN s.members :
            m = <<m[1], m[2]>> /\ DOMAIN s.members[m] = {"role", "revoked"} /\ s.members[m].revoked \in BOOLEAN
      /\ \A d \in DOMAIN s.devices :
            d = <<d[1], d[2]>> /\ DOMAIN s.devices[d] = {"ws", "revoked"} /\ s.devices[d].revoked \in BOOLEAN
      /\ \A key \in DOMAIN s.usage : s.usage[key] \in Nat
  BY DEF IsTenantStore
<1>1. /\ DOMAIN x = {"users", "orgs", "members", "workspaces", "devices", "usage"}
      /\ MembersChange(op, r, s, x) /\ DevicesChange(op, r, s, x) /\ UsageChange(op, r, s, x)
  BY TenantWrites
<1> HIDE DEF x
<1>2. \A m \in DOMAIN x.members :
          m = <<m[1], m[2]>> /\ DOMAIN x.members[m] = {"role", "revoked"} /\ x.members[m].revoked \in BOOLEAN
  <2> DEFINE key == <<r.org, r.user>>
  <2>1. /\ key = <<key[1], key[2]>>
        /\ op \in {"set_membership", "revoke_membership"} =>
              /\ DOMAIN x.members \subseteq DOMAIN s.members \cup {key}
              /\ \A m \in DOMAIN s.members \ {key} : x.members[m] = s.members[m]
              /\ key \in DOMAIN x.members =>
                    DOMAIN x.members[key] = {"role", "revoked"} /\ x.members[key].revoked \in BOOLEAN
        /\ op \notin {"set_membership", "revoke_membership"} => x.members = s.members
    BY <1>1 DEF MembersChange
  <2> HIDE DEF key
  <2> QED BY <1>0, <2>1
<1>3. \A d \in DOMAIN x.devices :
          d = <<d[1], d[2]>> /\ DOMAIN x.devices[d] = {"ws", "revoked"} /\ x.devices[d].revoked \in BOOLEAN
  <2> DEFINE key == <<r.org, r.device>>
             ops == {"pair_device", "revoke_device", "remove_device_workspace"}
  <2>1. /\ key = <<key[1], key[2]>>
        /\ op \in ops =>
              /\ DOMAIN x.devices \subseteq DOMAIN s.devices \cup {key}
              /\ \A d \in DOMAIN s.devices \ {key} : x.devices[d] = s.devices[d]
              /\ key \in DOMAIN x.devices =>
                    DOMAIN x.devices[key] = {"ws", "revoked"} /\ x.devices[key].revoked \in BOOLEAN
        /\ op \notin ops => x.devices = s.devices
    BY <1>1 DEF DevicesChange
  <2> HIDE DEF key, ops
  <2> QED BY <1>0, <2>1
<1>4. \A key \in DOMAIN x.usage : x.usage[key] \in Nat
  <2> DEFINE key == <<r.org, r.workspace>>
  <2>1. op = "record_usage" =>
            /\ DOMAIN x.usage = DOMAIN s.usage \cup {key}
            /\ x.usage[key] \in Nat
            /\ \A k \in DOMAIN s.usage \ {key} : x.usage[k] = s.usage[k]
    BY <1>0, <1>1, ConstantsAssumption DEF UsageChange
  <2>2. op # "record_usage" => x.usage = s.usage
    BY <1>1 DEF UsageChange
  <2> HIDE DEF key
  <2> QED BY <1>0, <2>1, <2>2
<1>5. IsTenantStore(x)
  BY <1>1, <1>2, <1>3, <1>4 DEF IsTenantStore
<1> QED BY <1>5 DEF x

-----------------------------------------------------------------------------
(* Types and locks.                                                        *)

\* A thread that reads or writes: which operation, on which store.
LEMMA WhatIsServed ==
    ASSUME NEW t \in Threads, ThreadOK(t), th[t].pc # "idle"
    PROVE  /\ Busy(t) /\ th[t].job \in Jobs \cup {Boot} /\ Boot \notin Jobs
           /\ th[t].k \in 1 .. Len(Plan(th[t].job)) /\ Len(Plan(th[t].job)) \in Nat
           /\ Op(t) \in Ops /\ th[t].pc \in StepsOf(Op(t)) /\ At(t) \in Stores
           /\ th[t].job = Boot => Op(t) \in {"open", "device_id"}
           /\ Fits(th[t].job, th[t].k, Op(t), Kind(t), th[t].k = Len(Plan(th[t].job)))
           /\ Runs(t) => Suits(th[t].k, Op(t), Kind(t), th[t].k = Len(Plan(th[t].job)))
<1>1. /\ Busy(t) /\ th[t].job \in Jobs \cup {Boot} /\ Boot \notin Jobs
      /\ th[t].k \in 1 .. Len(Plan(th[t].job)) /\ Len(Plan(th[t].job)) \in Nat
      /\ th[t].pc \in StepsOf(Op(t))
  BY Places, ConstantsAssumption DEF ThreadOK, Busy
<1>2. Fits(th[t].job, th[t].k, Op(t), Kind(t), th[t].k = Len(Plan(th[t].job)))
  BY <1>1, Operations DEF Op, Kind
<1>3. th[t].job \in Jobs => Suits(th[t].k, Op(t), Kind(t), th[t].k = Len(Plan(th[t].job)))
  BY <1>1, OperationsOf DEF Op, Kind
<1> QED BY <1>1, <1>2, <1>3 DEF At, StoreOf, Stores, Fits, Runs

LEMMA WriterIs ==
    ASSUME NEW t \in Threads, ThreadOK(t), th[t].pc \in {"read"} \cup Writing,
           Op(t) \notin Readers, Op(t) # "open"
    PROVE  /\ Runs(t)
           /\ \/ Op(t) \in GrantWriters /\ At(t) = "grants"
              \/ Op(t) \in TenantWriters /\ At(t) = "tenants"
<1>1. /\ Op(t) \in Ops /\ th[t].pc \in StepsOf(Op(t)) /\ th[t].job \in Jobs \cup {Boot}
      /\ th[t].job = Boot => Op(t) \in {"open", "device_id"}
  BY WhatIsServed DEF Writing
<1>2. Op(t) \in GrantWriters \cup TenantWriters
  BY <1>1 DEF StepsOf, Ops, Writing, Checks, InMemory
<1>3. th[t].job # Boot
  BY <1>1, <1>2 DEF Readers
<1> QED BY <1>1, <1>2, <1>3 DEF Runs, At, StoreOf, GrantWriters, TenantWriters, TenantOps

\* Those that have a store's lock.
LEMMA HeldIs ==
    ASSUME NEW t \in Threads, ThreadOK(t), th[t].pc \in Held, Op(t) # "open"
    PROVE  Locks(t, At(t)) /\ At(t) \in Stores
BY WhatIsServed DEF Locks, Held, Writing

LEMMA OpenIs ==
    ASSUME NEW t \in Threads, ThreadOK(t), th[t].pc # "idle", Op(t) = "open"
    PROVE  At(t) = "grants" /\ th[t].pc \notin {"lock", "read", "granted", "denied"}
BY WhatIsServed DEF At, StoreOf, TenantOps, StepsOf, Writing

LEMMA WentOff ==
    ASSUME NEW t \in Threads, ThreadOK(t), Busy(t), Went(t)
    PROVE  th'[t].pc \notin Held /\ th'[t].pc \notin Writing
<1>1. CASE th'[t] = Idle
  BY <1>1, IdleIs DEF Held, Writing
<1>2. CASE th[t].k < Len(Plan(th[t].job)) /\ Entered(t, th[t].job, th[t].k + 1)
  <2>1. /\ th[t].job \in Jobs \cup {Boot}
        /\ th[t].k \in 1 .. Len(Plan(th[t].job)) /\ Len(Plan(th[t].job)) \in Nat
    BY Places DEF ThreadOK, Busy
  <2>2. th[t].k + 1 \in 1 .. Len(Plan(th[t].job))
    BY <1>2, <2>1
  <2>3. Plan(th[t].job)[th[t].k + 1] \in Ops
    BY <2>1, <2>2, Operations DEF Fits
  <2>4. th'[t].pc \notin Held
    BY <1>2, <2>3, StartsOfSteps DEF Entered
  <2> QED BY <2>4 DEF Held
<1> QED BY <1>1, <1>2 DEF Went

LEMMA TypesOfThreads ==
    ASSUME TypeInv, NEW t \in Threads, Others(t), ThreadOK(t)', clock' = clock
    PROVE  DOMAIN th' = Threads /\ \A u \in Threads : ThreadOK(u)'
<1>1. \A u \in Threads \ {t} : ThreadOK(u)'
  BY ThreadKept DEF Others, TypeInv
<1> QED BY <1>1 DEF Others

Locking == lock' \in [Stores -> Threads \cup {Free, Dead}] /\ LockInv'

LEMMA LocksKept ==
    ASSUME NEW u \in Threads, NEW s \in Stores, th'[u] = th[u], Locks(u, s)'
    PROVE  Locks(u, s)
BY Same DEF Locks

LEMMA LockOff ==
    ASSUME TypeInv, LockInv, NEW t \in Threads, Others(t), lock' = lock, th'[t].pc \notin Held
    PROVE  Locking
<1>1. ASSUME NEW u \in Threads, NEW s \in Stores, Locks(u, s)'
      PROVE  lock'[s] = u
  <2>1. u # t
    BY <1>1 DEF Locks
  <2> QED BY <1>1, <2>1, LocksKept DEF Others, LockInv
<1> QED BY <1>1 DEF LockInv, Locking, TypeInv

LEMMA LockDropped ==
    ASSUME TypeInv, LockInv, NEW t \in Threads, Others(t), Locks(t, At(t)), Unlocked(At(t)),
           th'[t].pc \notin Held
    PROVE  Locking
<1>1. ASSUME NEW u \in Threads, NEW s \in Stores, Locks(u, s)'
      PROVE  lock'[s] = u
  <2>1. u # t
    BY <1>1 DEF Locks
  <2>2. lock[s] = u
    BY <1>1, <2>1, LocksKept DEF Others, LockInv
  <2>3. s # At(t)
    BY <2>1, <2>2 DEF LockInv
  <2> QED BY <2>2, <2>3 DEF Unlocked, TypeInv
<1> QED BY <1>1 DEF LockInv, Locking, TypeInv, Unlocked

LEMMA LockKept ==
    ASSUME TypeInv, LockInv, NEW t \in Threads, Others(t), lock' = lock, NEW pc, Moved(t, pc),
           th[t].pc \in Held \/ Op(t) = "open"
    PROVE  Locking
<1>1. ASSUME NEW u \in Threads, NEW s \in Stores, Locks(u, s)'
      PROVE  lock'[s] = u
  <2>1. CASE u # t
    BY <1>1, <2>1, LocksKept DEF Others, LockInv
  <2>2. CASE u = t
    <3>1. Op(t)' = Op(t) /\ At(t)' = At(t) /\ Busy(t)' = Busy(t)
      BY SameOperation DEF Moved
    <3>2. Locks(t, s)
      BY <1>1, <2>2, <3>1 DEF Locks
    <3> QED BY <2>2, <3>2 DEF LockInv
  <2> QED BY <2>1, <2>2
<1> QED BY <1>1 DEF LockInv, Locking, TypeInv

\* The steps within an operation, one by one.
LEMMA PcStep ==
    ASSUME TypeInv, NEW t \in Threads, NEW pc, th' = [th EXCEPT ![t].pc = pc]
    PROVE  Others(t) /\ Moved(t, pc) /\ th'[t].grant = th[t].grant /\ th'[t].next = th[t].next
<1>1. DOMAIN th = Threads /\ DOMAIN th[t] = Fields
  BY DEF TypeInv, ThreadOK, Fields
<1>2. Others(t) /\ th'[t] = [th[t] EXCEPT !.pc = pc]
  BY <1>1 DEF Others
<1> QED BY <1>1, <1>2 DEF Moved, Fields

LEMMA ReadStep ==
    ASSUME TypeInv, NEW t \in Threads, Read(t)
    PROVE  /\ Others(t) /\ Moved(t, th'[t].pc) /\ th'[t].pc \in {"granted", "denied"}
           /\ th'[t].next = th[t].next
           /\ th'[t].pc = "granted" =>
                 Op(t) = "device_id" \/ Answers(Op(t), file[At(t)], Request(t), t)
           /\ th'[t].grant = IF Op(t) = "validate" /\ Answers(Op(t), file[At(t)], Request(t), t)
                             THEN file[At(t)].grants[Request(t).token] ELSE th[t].grant
<1> DEFINE yes == Answers(Op(t), file[At(t)], Request(t), t)
           pc == IF Op(t) = "device_id" \/ yes THEN "granted" ELSE "denied"
           grant == IF Op(t) = "validate" /\ yes THEN file[At(t)].grants[Request(t).token] ELSE th[t].grant
<1>1. DOMAIN th = Threads /\ DOMAIN th[t] = Fields
  BY DEF TypeInv, ThreadOK, Fields
<1>2. th' = [th EXCEPT ![t].pc = pc, ![t].grant = grant]
  BY DEF Read
<1>3. pc \in {"granted", "denied"} /\ (pc = "granted" => Op(t) = "device_id" \/ yes)
  OBVIOUS
<1> HIDE DEF pc, grant
<1>4. Others(t) /\ th'[t] = [th[t] EXCEPT !.pc = pc, !.grant = grant]
  BY <1>1, <1>2 DEF Others
<1>5. Moved(t, pc) /\ th'[t].pc = pc /\ th'[t].grant = grant /\ th'[t].next = th[t].next
  BY <1>1, <1>4 DEF Moved, Fields
<1> QED BY <1>3, <1>4, <1>5 DEF grant

LEMMA OpenStep ==
    ASSUME TypeInv, NEW t \in Threads, Open(t)
    PROVE  /\ Others(t) /\ Op(t) = "open"
           /\ \/ Went(t)
              \/ Moved(t, "temp") /\ th'[t].next = NewGrantStore /\ th'[t].grant = th[t].grant
<1>1. /\ DOMAIN th = Threads /\ DOMAIN th[t] = Fields /\ ThreadOK(t) /\ th[t].pc = "open"
  BY DEF TypeInv, ThreadOK, Fields, Open
<1>2. Busy(t) /\ Op(t) \in Ops /\ th[t].pc \in StepsOf(Op(t))
  BY <1>1, WhatIsServed
<1>3. Op(t) = "open"
  BY <1>1, <1>2 DEF StepsOf, Writing
<1>4. CASE file.grants = Absent
  <2>1. th' = [th EXCEPT ![t].pc = "temp", ![t].next = NewGrantStore]
    BY <1>4 DEF Open
  <2>2. Others(t) /\ th'[t] = [th[t] EXCEPT !.pc = "temp", !.next = NewGrantStore]
    BY <1>1, <2>1 DEF Others
  <2>3. Moved(t, "temp") /\ th'[t].next = NewGrantStore /\ th'[t].grant = th[t].grant
    BY <1>1, <2>2 DEF Moved, Fields
  <2> QED BY <1>3, <2>2, <2>3
<1>5. CASE file.grants # Absent
  BY <1>1, <1>2, <1>3, <1>5, ContinueStep DEF Open
<1> QED BY <1>4, <1>5

\* A writer has decided; what it gives again is struck out of every thread's list.
Struck(t, again) ==
    /\ DOMAIN th' = Threads
    /\ \A u \in Threads \ {t} :
          /\ DOMAIN th'[u] = Fields /\ th'[u].barred = th[u].barred \ again
          /\ th'[u].job = th[u].job /\ th'[u].k = th[u].k /\ th'[u].pc = th[u].pc
          /\ th'[u].now = th[u].now /\ th'[u].grant = th[u].grant /\ th'[u].next = th[u].next
LEMMA DecideStep ==
    ASSUME TypeInv, NEW t \in Threads, Decide(t)
    PROVE  LET w == Writes(Op(t), file[At(t)], Request(t), t)
               again == Restores(Op(t), Request(t)) IN
           /\ w.ok /\ Struck(t, again) /\ barred' = barred \ again
           /\ Moved(t, "temp") /\ th'[t].next = w.s /\ th'[t].grant = th[t].grant
           /\ Runs(t) /\ Locks(t, At(t)) /\ file[At(t)] # Absent /\ th[t].pc = "read"
           /\ Op(t) \notin Readers /\ Op(t) # "open"
           /\ \/ Op(t) \in GrantWriters /\ At(t) = "grants" /\ IsGrantStore(file["grants"])
              \/ Op(t) \in TenantWriters /\ At(t) = "tenants" /\ IsTenantStore(file["tenants"])
<1> DEFINE w == Writes(Op(t), file[At(t)], Request(t), t)
           again == Restores(Op(t), Request(t))
<1>1. /\ DOMAIN th = Threads /\ \A u \in Threads : DOMAIN th[u] = Fields
      /\ ThreadOK(t) /\ th[t].pc = "read" /\ Op(t) \notin Readers /\ file[At(t)] # Absent
  BY DEF TypeInv, ThreadOK, Fields, Decide
<1>2. /\ w.ok /\ barred' = barred \ again
      /\ th' = [u \in Threads |-> IF u = t THEN [th[t] EXCEPT !.pc = "temp", !.next = w.s]
                                  ELSE [th[u] EXCEPT !.barred = th[u].barred \ again]]
  BY DEF Decide
<1> HIDE DEF w, again
<1>3. /\ DOMAIN th' = Threads
      /\ th'[t] = [th[t] EXCEPT !.pc = "temp", !.next = w.s]
      /\ \A u \in Threads \ {t} : th'[u] = [th[u] EXCEPT !.barred = th[u].barred \ again]
  BY <1>2
<1>4. Struck(t, again)
  BY <1>1, <1>3 DEF Struck, Fields
<1>5. Moved(t, "temp") /\ th'[t].next = w.s /\ th'[t].grant = th[t].grant
  BY <1>1, <1>3 DEF Moved, Fields
<1>6. Op(t) # "open"
  BY <1>1, OpenIs
<1>7. /\ Runs(t) /\ Locks(t, At(t))
      /\ \/ Op(t) \in GrantWriters /\ At(t) = "grants"
         \/ Op(t) \in TenantWriters /\ At(t) = "tenants"
  BY <1>1, <1>6, WriterIs, HeldIs DEF Held
<1>8. At(t) = "grants" => IsGrantStore(file["grants"])
  BY <1>1 DEF TypeInv, Stores, IsStore
<1>9. At(t) = "tenants" => IsTenantStore(file["tenants"])
  BY <1>1 DEF TypeInv, Stores, IsStore
<1> QED BY <1>1, <1>2, <1>4, <1>5, <1>6, <1>7, <1>8, <1>9 DEF w, again

LEMMA ReturnStep ==
    ASSUME TypeInv, NEW t \in Threads, Return(t)
    PROVE  /\ Others(t) /\ Went(t) /\ Runs(t) /\ Locks(t, At(t)) /\ Unlocked(At(t))
           /\ Writes1(t, At(t)) /\ th[t].pc = "written" /\ Op(t) # "open"
           /\ \/ Op(t) \in GrantWriters /\ At(t) = "grants" /\ IsGrantStore(th[t].next)
              \/ Op(t) \in TenantWriters /\ At(t) = "tenants" /\ IsTenantStore(th[t].next)
<1>1. /\ DOMAIN th = Threads /\ ThreadOK(t) /\ th[t].pc = "written" /\ Op(t) # "open"
      /\ Continue(t) /\ Unlocked(At(t))
  BY DEF TypeInv, Return
<1>2. Busy(t) /\ th[t].pc \in StepsOf(Op(t))
  BY <1>1, WhatIsServed
<1>3. Op(t) \notin Readers
  BY <1>1, <1>2 DEF StepsOf, Readers, Checks, InMemory
<1>4. /\ Runs(t) /\ Locks(t, At(t))
      /\ \/ Op(t) \in GrantWriters /\ At(t) = "grants"
         \/ Op(t) \in TenantWriters /\ At(t) = "tenants"
  BY <1>1, <1>3, WriterIs, HeldIs DEF Held, Writing
<1>5. IsStore(At(t), th[t].next)
  BY <1>1, <1>2 DEF ThreadOK, Writing
<1>6. Others(t) /\ Went(t)
  BY <1>1, <1>2, ContinueStep
<1> QED BY <1>1, <1>2, <1>4, <1>5, <1>6 DEF IsStore, Writes1, Writing

LEMMA TakeCodeStep ==
    ASSUME TypeInv, NEW t \in Threads, TakeCode(t)
    PROVE  /\ Others(t) /\ Op(t) = "take_code" /\ Runs(t) /\ Kind(t) = "exchange"
           /\ th[t].k = 1 /\ th[t].pc = "memory"
           /\ \/ th'[t] = Idle
              \/ /\ DOMAIN th'[t] = Fields /\ th'[t].job = th[t].job /\ th'[t].k = 2 /\ th'[t].pc = "lock"
                 /\ th'[t].now = th[t].now /\ th'[t].next = th[t].next /\ th'[t].barred = th[t].barred
                 /\ th'[t].grant \in {c \in codes[ProcessOf[t]] :
                       /\ c.code = Request(t).code /\ c.client = Request(t).client
                       /\ c.redirect = Request(t).redirect
                       /\ VerifiesPkce(Request(t).verifier, c.challenge)}
                 /\ 2 \in 1 .. Len(Plan(th[t].job)) /\ Op(t)' = "redeem"
<1> DEFINE r == Request(t)
           found == {c \in codes[ProcessOf[t]] : c.code = r.code}
           good == {c \in found : /\ c.expires > th[t].now
                                  /\ c.client = r.client /\ c.redirect = r.redirect
                                  /\ VerifiesPkce(r.verifier, c.challenge)}
<1>1. /\ DOMAIN th = Threads /\ DOMAIN th[t] = Fields /\ ThreadOK(t) /\ th[t].pc = "memory"
      /\ Op(t) = "take_code"
  BY DEF TypeInv, ThreadOK, Fields, TakeCode
<1>2. /\ th[t].job \in Jobs /\ Kind(t) = "exchange" /\ th[t].k = 1
      /\ Len(Plan(th[t].job)) \in Nat /\ 1 < Len(Plan(th[t].job))
  <2>1. /\ th[t].job \in Jobs \cup {Boot} /\ th[t].k \in 1 .. Len(Plan(th[t].job))
        /\ Len(Plan(th[t].job)) \in Nat
        /\ Fits(th[t].job, th[t].k, Op(t), Kind(t), th[t].k = Len(Plan(th[t].job)))
    BY <1>1, WhatIsServed
  <2> QED BY <1>1, <2>1 DEF Fits
<1>3. 2 \in 1 .. Len(Plan(th[t].job)) /\ Plan(th[t].job)[2] = "redeem"
  <2>1. 2 \in 1 .. Len(Plan(th[t].job))
    BY <1>2
  <2>2. Suits(2, Plan(th[t].job)[2], Kind(t), 2 = Len(Plan(th[t].job)))
    BY <1>2, <2>1, OperationsOf DEF Kind
  <2> QED BY <1>2, <2>1, <2>2 DEF Suits
<1>4. CASE good = {}
  <2>1. Leave(t)
    BY <1>4 DEF TakeCode
  <2> QED BY <1>1, <1>2, <2>1, LeaveStep DEF Runs
<1>5. CASE good # {}
  <2> DEFINE c == CHOOSE d \in good : TRUE
  <2>1. c \in good
    BY <1>5
  <2>2. th' = [th EXCEPT ![t].k = 2, ![t].pc = "lock", ![t].grant = c]
    BY <1>5 DEF TakeCode
  <2> HIDE DEF c
  <2>3. Others(t) /\ th'[t] = [th[t] EXCEPT !.k = 2, !.pc = "lock", !.grant = c]
    BY <1>1, <2>2 DEF Others
  <2>4. /\ DOMAIN th'[t] = Fields /\ th'[t].job = th[t].job /\ th'[t].k = 2 /\ th'[t].pc = "lock"
        /\ th'[t].now = th[t].now /\ th'[t].next = th[t].next /\ th'[t].barred = th[t].barred
        /\ th'[t].grant = c
    BY <1>1, <2>3 DEF Fields
  <2>5. Op(t)' = "redeem"
    BY <1>3, <2>4 DEF Op
  <2> QED BY <1>1, <1>2, <1>3, <2>1, <2>3, <2>4, <2>5 DEF Runs
<1> QED BY <1>4, <1>5

LEMMA Starting ==
    ASSUME NEW job \in Jobs \cup {Boot}
    PROVE  1 \in 1 .. Len(Plan(job)) /\ StartOf(Plan(job)[1]) \notin Held
<1>1. 1 \in 1 .. Len(Plan(job))
  BY Places
<1>2. Plan(job)[1] \in Ops
  BY <1>1, Operations DEF Fits
<1> QED BY <1>1, <1>2, StartsOfSteps

LEMMA TypesStep ==
    ASSUME TypeInv, LockInv, Next
    PROVE  TypeInv' /\ LockInv'
<1> DEFINE Good == DOMAIN th' = Threads /\ (\A u \in Threads : ThreadOK(u)') /\ Locking
<1>0. /\ DOMAIN th = Threads /\ clock \in Nat /\ \A u \in Threads : ThreadOK(u) /\ DOMAIN th[u] = Fields
      /\ DOMAIN file = Stores /\ DOMAIN codes = Gateways /\ todo \subseteq Jobs
      /\ \A s \in Stores : file[s] # Absent => IsStore(s, file[s])
      /\ lock \in [Stores -> Threads \cup {Free, Dead}]
  BY DEF TypeInv, ThreadOK, Fields
<1>a. ASSUME NEW t \in Threads, Busy(t), Others(t), Went(t), lock' = lock, clock' = clock
      PROVE  Good
  <2>1. ThreadOK(t)' /\ th'[t].pc \notin Held
    BY <1>0, <1>a, ThreadWent, WentOff
  <2> QED BY <1>a, <2>1, TypesOfThreads, LockOff
<1>b. ASSUME NEW t \in Threads, Locks(t, At(t)), Others(t), Went(t), Unlocked(At(t)), clock' = clock
      PROVE  Good
  <2>1. ThreadOK(t)' /\ th'[t].pc \notin Held
    BY <1>0, <1>b, ThreadWent, WentOff DEF Locks
  <2> QED BY <1>b, <2>1, TypesOfThreads, LockDropped
<1>c. ASSUME NEW t \in Threads, Leave(t), clock' = clock, lock' = lock
      PROVE  Good
  <2>1. Others(t) /\ ThreadOK(t)' /\ th'[t].pc \notin Held
    BY <1>0, <1>c, LeaveStep, ThreadLeft, IdleIs DEF Held, Writing
  <2> QED BY <1>c, <2>1, TypesOfThreads, LockOff
<1>d. ASSUME NEW t \in Threads, Locks(t, At(t)), Leave(t), Unlocked(At(t)), clock' = clock
      PROVE  Good
  <2>1. Others(t) /\ ThreadOK(t)' /\ th'[t].pc \notin Held
    BY <1>0, <1>d, LeaveStep, ThreadLeft, IdleIs DEF Held, Writing
  <2> QED BY <1>d, <2>1, TypesOfThreads, LockDropped
<1>e. ASSUME NEW t \in Threads, th[t].pc # "idle", Others(t), NEW pc \in StepsOf(Op(t)), Moved(t, pc),
             pc \in Writing => IsStore(At(t), th'[t].next) /\ (Op(t) = "open" => th'[t].next = NewGrantStore),
             th[t].pc \in Held \/ Op(t) = "open", lock' = lock, clock' = clock
      PROVE  Good
  <2>1. ThreadOK(t)'
    BY <1>0, <1>e, WhatIsServed, ThreadMoved
  <2> QED BY <1>e, <2>1, TypesOfThreads, LockKept
<1>f. ASSUME Good, clock' \in Nat, DOMAIN file' = Stores, DOMAIN codes' = Gateways, todo' \subseteq todo,
             \A s \in Stores : file'[s] # Absent => IsStore(s, file'[s])
      PROVE  TypeInv' /\ LockInv'
  BY <1>0, <1>f DEF TypeInv, Locking
<1> HIDE DEF Good
<1>1. ASSUME NEW t \in Threads, NEW job \in Jobs, Begin(t, job)
      PROVE  TypeInv' /\ LockInv'
  <2>1. Others(t) /\ Entered(t, job, 1)
    BY <1>0, <1>1, EnterStep DEF Begin
  <2>2. ThreadOK(t)' /\ th'[t].pc \notin Held
    BY <1>0, <1>1, <2>1, Starting, ThreadEntered DEF Begin, Entered
  <2>3. Good
    BY <1>1, <2>1, <2>2, TypesOfThreads, LockOff DEF Good, Begin
  <2> QED BY <1>0, <1>1, <1>f, <2>3 DEF Begin
<1>2. ASSUME NEW t \in Threads, Restart(t)
      PROVE  TypeInv' /\ LockInv'
  <2>1. Others(t) /\ Entered(t, Boot, 1)
    BY <1>0, <1>2, EnterStep DEF Restart
  <2>2. ThreadOK(t)' /\ th'[t].pc \notin Held
    BY <1>0, <1>2, <2>1, Starting, ThreadEntered DEF Restart, Entered
  <2>3. Good
    BY <1>2, <2>1, <2>2, TypesOfThreads, LockOff DEF Good, Restart
  <2> QED BY <1>0, <1>2, <1>f, <2>3 DEF Restart
<1>3. ASSUME NEW t \in Threads, TakeLock(t)
      PROVE  TypeInv' /\ LockInv'
  <2>1. Others(t) /\ Moved(t, "read")
    BY <1>3, PcStep DEF TakeLock
  <2>2. /\ th[t].pc = "lock" /\ Busy(t) /\ At(t) \in Stores /\ th[t].pc \in StepsOf(Op(t))
        /\ lock[At(t)] = Free
    BY <1>0, <1>3, WhatIsServed DEF TakeLock
  <2>3. "read" \in StepsOf(Op(t)) /\ "read" \notin Writing
    BY <2>2 DEF StepsOf, Writing
  <2>4. ThreadOK(t)'
    BY <1>0, <1>3, <2>1, <2>2, <2>3, ThreadMoved DEF TakeLock
  <2>5. lock' = [lock EXCEPT ![At(t)] = t]
    BY <1>3 DEF TakeLock
  <2>6. Op(t)' = Op(t) /\ At(t)' = At(t)
    BY <2>1, SameOperation DEF Moved
  <2>7. ASSUME NEW u \in Threads, NEW s \in Stores, Locks(u, s)'
        PROVE  lock'[s] = u
    <3>1. CASE u = t
      <4>1. s = At(t)
        BY <2>6, <2>7, <3>1 DEF Locks
      <4> QED BY <1>0, <2>2, <2>5, <3>1, <4>1
    <3>2. CASE u # t
      <4>1. lock[s] = u
        BY <2>1, <2>7, <3>2, LocksKept DEF Others, LockInv
      <4>2. s # At(t)
        BY <2>2, <4>1, ConstantsAssumption
      <4> QED BY <1>0, <2>5, <4>1, <4>2
    <3> QED BY <3>1, <3>2
  <2>8. Locking
    BY <1>0, <2>5, <2>7 DEF Locking, LockInv
  <2>9. Good
    BY <1>3, <2>1, <2>4, <2>8, TypesOfThreads DEF Good, TakeLock
  <2> QED BY <1>0, <1>3, <1>f, <2>9 DEF TakeLock
<1>4. ASSUME NEW t \in Threads, GiveUp(t)
      PROVE  TypeInv' /\ LockInv'
  BY <1>0, <1>4, <1>c, <1>f DEF GiveUp
<1>5. ASSUME NEW t \in Threads, ReadAbsent(t) \/ Refuse(t)
      PROVE  TypeInv' /\ LockInv'
  <2>1. th[t].pc = "read" /\ Unlocked(At(t)) /\ Leave(t) /\ UNCHANGED <<file, codes, todo, clock>>
    BY <1>5 DEF ReadAbsent, Refuse
  <2>2. Locks(t, At(t))
    BY <1>0, <2>1, OpenIs, HeldIs DEF Held
  <2> QED BY <1>0, <1>d, <1>f, <2>1, <2>2
<1>6. ASSUME NEW t \in Threads, Read(t)
      PROVE  TypeInv' /\ LockInv'
  <2>1. /\ Others(t) /\ Moved(t, th'[t].pc) /\ th'[t].pc \in {"granted", "denied"}
    BY <1>6, ReadStep
  <2>2. th[t].pc = "read" /\ Op(t) \in Readers /\ UNCHANGED <<file, lock, codes, todo, clock>>
    BY <1>6 DEF Read
  <2>3. th'[t].pc \in StepsOf(Op(t)) /\ th'[t].pc \notin Writing
    BY <2>1, <2>2 DEF StepsOf, Readers, Checks, InMemory, Writing
  <2>4. Good
    BY <1>e, <2>1, <2>2, <2>3 DEF Held
  <2> QED BY <1>0, <1>f, <2>2, <2>4
<1>7. ASSUME NEW t \in Threads, Answer(t)
      PROVE  TypeInv' /\ LockInv'
  <2>1. /\ th[t].pc \in {"granted", "denied"} /\ Unlocked(At(t)) /\ UNCHANGED <<file, codes, todo, clock>>
        /\ Continue(t) \/ Leave(t)
    BY <1>7 DEF Answer
  <2>2. Locks(t, At(t))
    BY <1>0, <2>1, OpenIs, HeldIs DEF Held
  <2>3. Good
    BY <1>0, <1>b, <1>d, <2>1, <2>2, ContinueStep DEF Locks
  <2> QED BY <1>0, <1>f, <2>1, <2>3
<1>8. ASSUME NEW t \in Threads, Decide(t)
      PROVE  TypeInv' /\ LockInv'
  <2> DEFINE w == Writes(Op(t), file[At(t)], Request(t), t)
             again == Restores(Op(t), Request(t))
  <2>1. /\ w.ok /\ Struck(t, again)
        /\ Moved(t, "temp") /\ th'[t].next = w.s
        /\ Runs(t) /\ Locks(t, At(t)) /\ th[t].pc = "read"
        /\ Op(t) \notin Readers /\ Op(t) # "open"
        /\ \/ Op(t) \in GrantWriters /\ At(t) = "grants" /\ IsGrantStore(file["grants"])
           \/ Op(t) \in TenantWriters /\ At(t) = "tenants" /\ IsTenantStore(file["tenants"])
    BY <1>8, DecideStep
  <2>2. /\ UNCHANGED <<file, lock, codes, todo, clock>>
        /\ th[t].k \in 1 .. Len(Plan(th[t].job)) /\ th[t].pc \in StepsOf(Op(t)) /\ Busy(t)
        /\ th[t].now \in Nat
    BY <1>0, <1>8, <2>1, WhatIsServed DEF Decide, ThreadOK
  <2>3. IsStore(At(t), w.s)
    <3>1. CASE Op(t) \in GrantWriters /\ At(t) = "grants" /\ IsGrantStore(file["grants"])
      <4>1. IsGrantStore(w.s)
        BY <2>1, <2>2, <3>1, GrantsTyped DEF Runs
      <4> QED BY <3>1, <4>1 DEF IsStore
    <3>2. CASE Op(t) \in TenantWriters /\ At(t) = "tenants" /\ IsTenantStore(file["tenants"])
      <4>1. Op(t) = "record_usage" => Request(t).units \in Nat
        <5>1. RequestFits(t, Op(t), Request(t))
          BY <2>1, <2>2, RequestIs DEF Runs
        <5> QED BY <5>1 DEF RequestFits
      <4>2. IsTenantStore(w.s)
        BY <2>1, <3>2, <4>1, TenantsTyped
      <4> QED BY <3>2, <4>2 DEF IsStore
    <3> QED BY <2>1, <3>1, <3>2
  <2>4. "temp" \in StepsOf(Op(t))
    BY <2>1, <2>2 DEF StepsOf, Writing
  <2> HIDE DEF w, again
  <2>5. ThreadOK(t)'
    BY <1>0, <2>1, <2>2, <2>3, <2>4, ThreadMoved
  <2>6. ASSUME NEW u \in Threads \ {t}
        PROVE  /\ ThreadOK(u)'
               /\ \A s \in Stores : Locks(u, s)' => Locks(u, s)
    <3>1. /\ DOMAIN th'[u] = Fields /\ th'[u].job = th[u].job /\ th'[u].k = th[u].k /\ th'[u].pc = th[u].pc
          /\ th'[u].now = th[u].now /\ th'[u].next = th[u].next
      BY <2>1, <2>6 DEF Struck
    <3>2. Op(u)' = Op(u) /\ At(u)' = At(u) /\ Busy(u)' = Busy(u)
      BY <3>1, SameOperation
    <3>3. ThreadOK(u)
      BY <1>0, <2>6
    <3>4. ThreadOK(u)'
      BY <2>2, <3>1, <3>2, <3>3 DEF ThreadOK, Fields
    <3> QED BY <3>1, <3>2, <3>4 DEF Locks
  <2>7. Op(t)' = Op(t) /\ At(t)' = At(t) /\ Busy(t)' = Busy(t)
    BY <2>1, SameOperation DEF Moved
  <2>8. \A s \in Stores : Locks(t, s)' => Locks(t, s)
    BY <2>1, <2>7 DEF Locks, Held
  <2>9. Locking
    BY <1>0, <2>2, <2>6, <2>8 DEF Locking, LockInv
  <2>10. Good
    BY <2>1, <2>5, <2>6, <2>9 DEF Good, Struck
  <2> QED BY <1>0, <1>f, <2>2, <2>10
<1>9. ASSUME NEW t \in Threads, Open(t)
      PROVE  TypeInv' /\ LockInv'
  <2>1. UNCHANGED <<file, lock, codes, todo, clock>> /\ th[t].pc = "open"
    BY <1>9 DEF Open
  <2>2. /\ Others(t) /\ Op(t) = "open" /\ Busy(t) /\ At(t) = "grants"
        /\ \/ Went(t)
           \/ Moved(t, "temp") /\ th'[t].next = NewGrantStore
    BY <1>0, <1>9, <2>1, OpenStep, WhatIsServed, OpenIs
  <2>3. "temp" \in StepsOf(Op(t)) /\ IsStore(At(t), NewGrantStore)
    BY <2>2 DEF StepsOf, Writing, IsStore, NewGrantStore, IsGrantStore
  <2>4. Good
    BY <1>a, <1>e, <2>1, <2>2, <2>3
  <2> QED BY <1>0, <1>f, <2>1, <2>4
<1>10. ASSUME NEW t \in Threads, WriteTemp(t) \/ RemoveOld(t) \/ Rename(t)
       PROVE  TypeInv' /\ LockInv'
  <2>1. PICK pc \in {"remove", "rename", "written"} : th' = [th EXCEPT ![t].pc = pc]
    BY <1>10, ConstantsAssumption DEF WriteTemp, RemoveOld, Rename
  <2>2. /\ th[t].pc \in {"temp", "remove", "rename"} /\ UNCHANGED <<lock, codes, todo, clock>>
        /\ file' \in {file, [file EXCEPT ![At(t)] = Absent], [file EXCEPT ![At(t)] = th[t].next]}
    BY <1>10 DEF WriteTemp, RemoveOld, Rename
  <2>3. Others(t) /\ Moved(t, pc) /\ th'[t].next = th[t].next
    BY <2>1, PcStep
  <2>4. th[t].pc \in StepsOf(Op(t)) /\ Busy(t) /\ At(t) \in Stores
    BY <1>0, <2>2, WhatIsServed
  <2>5. pc \in StepsOf(Op(t))
    BY <2>2, <2>4 DEF StepsOf, Writing
  <2>6. IsStore(At(t), th[t].next) /\ (Op(t) = "open" => th[t].next = NewGrantStore)
    BY <1>0, <2>2, <2>4 DEF ThreadOK, Writing
  <2>7. Good
    BY <1>e, <2>2, <2>3, <2>5, <2>6 DEF Held, Writing
  <2>8. DOMAIN file' = Stores /\ \A s \in Stores : file'[s] # Absent => IsStore(s, file'[s])
    BY <1>0, <2>2, <2>4, <2>6
  <2> QED BY <1>0, <1>f, <2>2, <2>7, <2>8
<1>11. ASSUME NEW t \in Threads, Return(t)
       PROVE  TypeInv' /\ LockInv'
  <2>1. Others(t) /\ Went(t) /\ Locks(t, At(t)) /\ Unlocked(At(t)) /\ UNCHANGED <<file, codes, todo, clock>>
    BY <1>11, ReturnStep DEF Return
  <2> QED BY <1>0, <1>b, <1>f, <2>1
<1>12. ASSUME NEW t \in Threads, Opened(t) \/ CheckRequest(t)
       PROVE  TypeInv' /\ LockInv'
  <2>1. /\ th[t].pc \in {"written", "check"} /\ UNCHANGED <<file, lock, codes, todo, clock>>
        /\ Continue(t) \/ Leave(t)
    BY <1>12 DEF Opened, CheckRequest
  <2>2. Good
    BY <1>0, <1>a, <1>c, <2>1, WhatIsServed, ContinueStep
  <2> QED BY <1>0, <1>f, <2>1, <2>2
<1>13. ASSUME NEW t \in Threads, RememberCode(t)
       PROVE  TypeInv' /\ LockInv'
  <2>1. /\ th[t].pc = "memory" /\ UNCHANGED <<file, lock, todo, clock>>
        /\ Continue(t) /\ DOMAIN codes' = Gateways
    BY <1>0, <1>13 DEF RememberCode
  <2>2. Good
    BY <1>0, <1>a, <2>1, WhatIsServed, ContinueStep
  <2> QED BY <1>0, <1>f, <2>1, <2>2
<1>14. ASSUME NEW t \in Threads, TakeCode(t)
       PROVE  TypeInv' /\ LockInv'
  <2>1. UNCHANGED <<file, lock, todo, clock>> /\ DOMAIN codes' = Gateways
    BY <1>0, <1>14 DEF TakeCode
  <2>2. /\ Others(t) /\ Runs(t) /\ th[t].pc = "memory"
        /\ \/ th'[t] = Idle
           \/ /\ DOMAIN th'[t] = Fields /\ th'[t].job = th[t].job /\ th'[t].k = 2 /\ th'[t].pc = "lock"
              /\ th'[t].now = th[t].now
              /\ 2 \in 1 .. Len(Plan(th[t].job)) /\ Op(t)' = "redeem"
    BY <1>14, TakeCodeStep
  <2>3. ThreadOK(t)' /\ th'[t].pc \notin Held
    <3>1. CASE th'[t] = Idle
      BY <1>0, <2>1, <3>1, ThreadLeft, IdleIs DEF Held, Writing
    <3>2. CASE /\ DOMAIN th'[t] = Fields /\ th'[t].job = th[t].job /\ th'[t].k = 2 /\ th'[t].pc = "lock"
               /\ th'[t].now = th[t].now
               /\ 2 \in 1 .. Len(Plan(th[t].job)) /\ Op(t)' = "redeem"
      <4>1. "lock" \in StepsOf("redeem") /\ "lock" \notin Writing /\ "lock" \notin Held
        BY DEF StepsOf, Writing, Held, Checks, InMemory, Readers
      <4>2. th[t].job \in Jobs /\ th[t].job # NoJob /\ th[t].now \in Nat /\ th[t].now <= clock
        BY <1>0, <2>2, ConstantsAssumption DEF Runs, ThreadOK
      <4> QED BY <2>1, <3>2, <4>1, <4>2 DEF ThreadOK, Fields
    <3> QED BY <2>2, <3>1, <3>2
  <2>4. Good
    BY <2>1, <2>2, <2>3, TypesOfThreads, LockOff DEF Good
  <2> QED BY <1>0, <1>f, <2>1, <2>4
<1>15. ASSUME NEW t \in Threads, FailToWrite(t)
       PROVE  TypeInv' /\ LockInv'
  <2>1. /\ th[t].pc \in {"temp", "remove", "rename"} /\ Leave(t) /\ UNCHANGED <<file, codes, todo, clock>>
        /\ IF Op(t) = "open" THEN lock' = lock ELSE Unlocked(At(t))
    BY <1>15 DEF FailToWrite, Unlocked
  <2>2. Op(t) # "open" => Locks(t, At(t))
    BY <1>0, <2>1, HeldIs DEF Held, Writing
  <2> QED BY <1>0, <1>c, <1>d, <1>f, <2>1, <2>2
<1>16. ASSUME NEW p, Die(p)
       PROVE  TypeInv' /\ LockInv'
  <2>1. /\ th' = [t \in Threads |-> IF ProcessOf[t] = p THEN Idle ELSE th[t]]
        /\ lock' = [s \in Stores |->
                       IF lock[s] \in Threads /\ ProcessOf[lock[s]] = p THEN Dead ELSE lock[s]]
        /\ DOMAIN codes' = Gateways /\ UNCHANGED <<file, todo, clock>>
    BY <1>16 DEF Die
  <2>2. \A u \in Threads : ThreadOK(u)'
    BY <1>0, <2>1, ThreadLeft, ThreadKept
  <2>3. ASSUME NEW u \in Threads, NEW s \in Stores, Locks(u, s)'
        PROVE  lock'[s] = u
    <3>1. ProcessOf[u] # p
      BY <2>1, <2>3, IdleIs DEF Locks, Held, Writing
    <3>2. Locks(u, s)
      BY <2>1, <2>3, <3>1, LocksKept
    <3> QED BY <2>1, <3>1, <3>2 DEF LockInv
  <2>4. Locking
    BY <1>0, <2>1, <2>3 DEF Locking, LockInv
  <2> QED BY <1>0, <1>f, <2>1, <2>2, <2>4 DEF Good
<1>17. ASSUME Tick
       PROVE  TypeInv' /\ LockInv'
  <2>1. UNCHANGED <<file, lock, th, codes, todo>> /\ clock' = clock + 1
    BY <1>17 DEF Tick
  <2>2. \A u \in Threads : ThreadOK(u)'
    BY <1>0, <2>1, ThreadKept
  <2>3. Locking
    BY <1>0, <2>1, LocksKept DEF Locking, LockInv
  <2> QED BY <1>0, <1>f, <2>1, <2>2, <2>3 DEF Good
<1> QED BY <1>1, <1>2, <1>3, <1>4, <1>5, <1>6, <1>7, <1>8, <1>9, <1>10, <1>11, <1>12, <1>13, <1>14,
           <1>15, <1>16, <1>17 DEF Next, Serve

-----------------------------------------------------------------------------
(* Most steps move threads, and leave the files and the history alone.     *)

Begun(u) ==
    /\ th[u].job = NoJob
    /\ \E job \in todo \cup {Boot} : /\ Entered(u, job, 1) /\ job \notin todo'
                                     /\ job \in Jobs => ProcessOf[u] = Job[job].by
Advanced(u) ==
    /\ Busy(u) /\ th[u].k < Len(Plan(th[u].job)) /\ Entered(u, th[u].job, th[u].k + 1)
    /\ \/ th[u].pc = "granted"
       \/ Op(u) = "open"
       \/ Op(u) = "check_client" /\ ValidClient(Request(u))
       \/ Op(u) = "check_request"
Worked(u) ==
    /\ Busy(u) /\ Moved(u, th'[u].pc)
    /\ \/ th[u].pc = "lock" /\ th'[u].pc = "read" /\ th'[u].next = th[u].next /\ th'[u].grant = th[u].grant
       \/ /\ th[u].pc = "read" /\ Op(u) \in Readers /\ th'[u].pc \in {"granted", "denied"}
          /\ th'[u].next = th[u].next /\ file[At(u)] # Absent
          /\ th'[u].pc = "granted" =>
                Op(u) = "device_id" \/ Answers(Op(u), file[At(u)], Request(u), u)
          /\ th'[u].grant = IF Op(u) = "validate" /\ Answers(Op(u), file[At(u)], Request(u), u)
                            THEN file[At(u)].grants[Request(u).token] ELSE th[u].grant
       \/ Op(u) = "open" /\ th'[u].pc = "temp" /\ th'[u].grant = th[u].grant
       \/ /\ th[u].pc = "temp" /\ th'[u].pc \in {"remove", "rename"}
          /\ th'[u].next = th[u].next /\ th'[u].grant = th[u].grant
Turned(u) == th'[u] = Idle \/ Begun(u) \/ Advanced(u) \/ Worked(u)

QuietStep ==
    /\ UNCHANGED <<file, barred, delivered, minted, counted, consented, exchanged, reset>>
    /\ todo' \subseteq todo /\ clock \in Nat /\ clock' \in Nat /\ clock <= clock'
    /\ DOMAIN th' = Threads /\ \A p \in Gateways : codes'[p] \subseteq codes[p]
    /\ \/ \A u \in Threads : th'[u] \in {th[u], Idle}
       \/ \E t \in Threads : Others(t) /\ Turned(t)

\* The other steps, one by one.
LoudStep ==
    \E t \in Threads : \/ RemoveOld(t) \/ Rename(t) \/ Decide(t) \/ Return(t)
                       \/ RememberCode(t) \/ TakeCode(t)

LEMMA QuietOrLoud ==
    ASSUME TypeInv, LockInv, [Next]_vars
    PROVE  QuietStep \/ LoudStep
<1>0. /\ DOMAIN th = Threads /\ clock \in Nat /\ \A u \in Threads : ThreadOK(u) /\ DOMAIN th[u] = Fields
      /\ DOMAIN codes = Gateways /\ todo \subseteq Jobs
  BY DEF TypeInv, ThreadOK, Fields
<1> USE DEF history
<1>1. CASE UNCHANGED vars
  <2>1. UNCHANGED <<file, th, codes, todo, clock, history>>
    BY <1>1 DEF vars
  <2> QED BY <1>0, <2>1 DEF QuietStep
<1>2. ASSUME NEW t \in Threads, Others(t), Turned(t),
             UNCHANGED <<file, codes, clock, barred, delivered, minted, counted, consented, exchanged, reset>>,
             todo' \subseteq todo
      PROVE  QuietStep
  BY <1>0, <1>2 DEF QuietStep, Others
<1>3. ASSUME NEW t \in Threads, NEW job \in Jobs, Begin(t, job)
      PROVE  QuietStep
  <2>1. /\ Others(t) /\ Entered(t, job, 1) /\ th[t].job = NoJob /\ job \in todo /\ todo' = todo \ {job}
        /\ ProcessOf[t] = Job[job].by
    BY <1>0, <1>3, EnterStep DEF Begin, Busy
  <2>2. Turned(t)
    BY <2>1 DEF Turned, Begun
  <2> QED BY <1>2, <1>3, <2>1, <2>2 DEF Begin
<1>4. ASSUME NEW t \in Threads, Restart(t)
      PROVE  QuietStep
  <2>1. /\ Others(t) /\ Entered(t, Boot, 1) /\ th[t].job = NoJob /\ todo' = todo
    BY <1>0, <1>4, EnterStep DEF Restart, Busy
  <2>2. Turned(t)
    BY <1>0, <2>1, ConstantsAssumption DEF Turned, Begun
  <2> QED BY <1>2, <1>4, <2>1, <2>2 DEF Restart
<1>5. ASSUME NEW t \in Threads, TakeLock(t)
      PROVE  QuietStep
  <2>1. /\ th[t].pc = "lock" /\ Others(t) /\ Moved(t, "read") /\ th'[t].next = th[t].next
        /\ th'[t].grant = th[t].grant
    BY <1>5, PcStep DEF TakeLock
  <2>2. Turned(t)
    BY <1>0, <2>1, WhatIsServed DEF Turned, Worked, Moved
  <2> QED BY <1>2, <1>5, <2>1, <2>2 DEF TakeLock
<1>6. ASSUME NEW t \in Threads, GiveUp(t) \/ ReadAbsent(t) \/ Refuse(t) \/ FailToWrite(t)
      PROVE  QuietStep
  <2>1. /\ Leave(t) /\ UNCHANGED <<file, codes, todo, clock, history>>
    BY <1>6 DEF GiveUp, ReadAbsent, Refuse, FailToWrite
  <2>2. Others(t) /\ Turned(t)
    BY <1>0, <2>1, LeaveStep DEF Turned
  <2> QED BY <1>2, <2>1, <2>2
<1>7. ASSUME NEW t \in Threads, Read(t)
      PROVE  QuietStep
  <2>1. th[t].pc = "read" /\ Op(t) \in Readers /\ file[At(t)] # Absent
    BY <1>7 DEF Read
  <2>2. Others(t) /\ Turned(t)
    BY <1>0, <1>7, <2>1, ReadStep, WhatIsServed DEF Turned, Worked
  <2> QED BY <1>2, <1>7, <2>2 DEF Read
<1>8. ASSUME NEW t \in Threads, Answer(t)
      PROVE  QuietStep
  <2>1. /\ \/ th[t].pc = "granted" /\ Continue(t)
           \/ th[t].pc = "denied" /\ Leave(t)
        /\ UNCHANGED <<file, codes, todo, clock, barred, delivered, minted, counted, consented, exchanged, reset>>
    BY <1>8 DEF Answer
  <2>2. Others(t) /\ Turned(t)
    <3>1. CASE th[t].pc = "granted" /\ Continue(t)
      BY <1>0, <3>1, WhatIsServed, ContinueStep DEF Went, Turned, Advanced
    <3>2. CASE Leave(t)
      BY <1>0, <3>2, LeaveStep DEF Turned
    <3> QED BY <2>1, <3>1, <3>2
  <2> QED BY <1>2, <2>1, <2>2
<1>9. ASSUME NEW t \in Threads, Open(t)
      PROVE  QuietStep
  <2>1. /\ th[t].pc = "open" /\ UNCHANGED <<file, codes, todo, clock, history>>
    BY <1>9 DEF Open
  <2>2. /\ Others(t) /\ Op(t) = "open" /\ Busy(t)
        /\ \/ Went(t)
           \/ Moved(t, "temp") /\ th'[t].grant = th[t].grant
    BY <1>0, <1>9, <2>1, OpenStep, WhatIsServed
  <2>3. Turned(t)
    BY <2>2 DEF Turned, Went, Advanced, Worked, Moved
  <2> QED BY <1>2, <2>1, <2>2, <2>3
<1>10. ASSUME NEW t \in Threads, WriteTemp(t)
       PROVE  QuietStep
  <2>1. PICK pc \in {"remove", "rename"} : th' = [th EXCEPT ![t].pc = pc]
    BY <1>10, ConstantsAssumption DEF WriteTemp
  <2>2. /\ th[t].pc = "temp" /\ UNCHANGED <<file, codes, todo, clock, history>>
    BY <1>10 DEF WriteTemp
  <2>3. Others(t) /\ Moved(t, pc) /\ th'[t].next = th[t].next /\ th'[t].grant = th[t].grant
    BY <2>1, PcStep
  <2>4. Turned(t)
    BY <1>0, <2>1, <2>2, <2>3, WhatIsServed DEF Turned, Worked, Moved
  <2> QED BY <1>2, <2>2, <2>3, <2>4
<1>11. ASSUME NEW t \in Threads, Opened(t)
       PROVE  QuietStep
  <2>1. /\ th[t].pc = "written" /\ Op(t) = "open" /\ Continue(t)
        /\ UNCHANGED <<file, codes, todo, clock, history>>
    BY <1>11 DEF Opened
  <2>2. Others(t) /\ Turned(t)
    BY <1>0, <2>1, WhatIsServed, ContinueStep DEF Turned, Went, Advanced
  <2> QED BY <1>2, <2>1, <2>2
<1>12. ASSUME NEW t \in Threads, CheckRequest(t)
       PROVE  QuietStep
  <2>1. /\ th[t].pc = "check" /\ UNCHANGED <<file, codes, todo, clock, history>>
        /\ \/ Continue(t) /\ (Op(t) = "check_client" => ValidClient(Request(t)))
           \/ Leave(t)
    BY <1>12 DEF CheckRequest
  <2>2. Busy(t) /\ Op(t) \in Checks
    BY <1>0, <2>1, WhatIsServed DEF StepsOf, Writing
  <2>3. Others(t) /\ Turned(t)
    <3>1. CASE Continue(t) /\ (Op(t) = "check_client" => ValidClient(Request(t)))
      BY <1>0, <2>2, <3>1, ContinueStep DEF Turned, Went, Advanced, Checks
    <3>2. CASE Leave(t)
      BY <1>0, <3>2, LeaveStep DEF Turned
    <3> QED BY <2>1, <3>1, <3>2
  <2> QED BY <1>2, <2>1, <2>3
<1>13. ASSUME NEW p, Die(p)
       PROVE  QuietStep
  <2>1. /\ th' = [t \in Threads |-> IF ProcessOf[t] = p THEN Idle ELSE th[t]]
        /\ codes' = [q \in Gateways |-> IF q = p THEN {} ELSE codes[q]]
        /\ UNCHANGED <<file, todo, clock, history>>
    BY <1>13 DEF Die
  <2> QED BY <1>0, <2>1 DEF QuietStep
<1>14. ASSUME Tick
       PROVE  QuietStep
  BY <1>0, <1>14 DEF Tick, QuietStep
<1> QED BY <1>1, <1>3, <1>4, <1>5, <1>6, <1>7, <1>8, <1>9, <1>10, <1>11, <1>12, <1>13, <1>14
        DEF Next, Serve, LoudStep

LEMMA ReplaceStep ==
    ASSUME TypeInv, NEW t \in Threads, RemoveOld(t) \/ Rename(t)
    PROVE  /\ Others(t) /\ Moved(t, th'[t].pc) /\ th'[t].next = th[t].next /\ th'[t].grant = th[t].grant
           /\ th[t].pc \in Writing \ {"written"} /\ th'[t].pc \in Writing /\ Busy(t) /\ At(t) \in Stores
           /\ Op(t)' = Op(t) /\ At(t)' = At(t) /\ Request(t)' = Request(t)
           /\ Busy(t)' = Busy(t) /\ Runs(t)' = Runs(t) /\ Kind(t)' = Kind(t)
           /\ IsStore(At(t), th[t].next) /\ (Op(t) = "open" => At(t) = "grants" /\ th[t].next = NewGrantStore)
<1>1. PICK pc \in {"rename", "written"} : th' = [th EXCEPT ![t].pc = pc]
  BY DEF RemoveOld, Rename
<1>2. th[t].pc \in {"remove", "rename"} /\ ThreadOK(t)
  BY DEF RemoveOld, Rename, TypeInv
<1>3. Others(t) /\ Moved(t, pc) /\ th'[t].next = th[t].next /\ th'[t].grant = th[t].grant
  BY <1>1, PcStep
<1>4. /\ Op(t)' = Op(t) /\ At(t)' = At(t) /\ Request(t)' = Request(t)
      /\ Busy(t)' = Busy(t) /\ Runs(t)' = Runs(t) /\ Kind(t)' = Kind(t)
  BY <1>3, SameOperation DEF Moved
<1>5. Busy(t) /\ At(t) \in Stores /\ (Op(t) = "open" => At(t) = "grants")
  BY <1>2, WhatIsServed, OpenIs
<1>6. IsStore(At(t), th[t].next) /\ (Op(t) = "open" => th[t].next = NewGrantStore)
  BY <1>2, <1>5 DEF ThreadOK, Writing
<1> QED BY <1>2, <1>3, <1>4, <1>5, <1>6 DEF Moved, Writing

LEMMA RememberStep ==
    ASSUME TypeInv, NEW t \in Threads, RememberCode(t)
    PROVE  Others(t) /\ th'[t] = Idle /\ Runs(t) /\ Kind(t) = "authorize" /\ th[t].k = 5
<1>1. ThreadOK(t) /\ th[t].pc = "memory" /\ Op(t) = "remember_code" /\ Continue(t) /\ DOMAIN th = Threads
  BY DEF TypeInv, RememberCode
<1>2. /\ Busy(t) /\ th[t].job \in Jobs \cup {Boot} /\ Len(Plan(th[t].job)) \in Nat
      /\ Fits(th[t].job, th[t].k, Op(t), Kind(t), th[t].k = Len(Plan(th[t].job)))
      /\ Runs(t) => Suits(th[t].k, Op(t), Kind(t), th[t].k = Len(Plan(th[t].job)))
  BY <1>1, WhatIsServed
<1>3. Kind(t) = "authorize" /\ th[t].k = Len(Plan(th[t].job)) /\ Runs(t)
  BY <1>1, <1>2 DEF Fits, Runs
<1>4. th[t].k = 5
  BY <1>1, <1>2, <1>3 DEF Suits
<1>5. Others(t) /\ Went(t)
  BY <1>1, <1>2, ContinueStep
<1>6. ~(th[t].k < Len(Plan(th[t].job)))
  BY <1>2, <1>3
<1> QED BY <1>3, <1>4, <1>5, <1>6 DEF Went

-----------------------------------------------------------------------------
(* The states that a store may have: only a decision and an open add one.  *)

LEMMA StatesShrink ==
    ASSUME NEW s, file'[s] \in States(s) \cup {file[s], Absent},
           \A u \in Threads : Writes1(u, s)' => Writes1(u, s) /\ th'[u].next = th[u].next
    PROVE  States(s)' \subseteq States(s)
<1>1. ASSUME NEW x \in States(s)'
      PROVE  x \in States(s)
  <2>1. CASE x = file'[s] /\ x # Absent
    BY <2>1 DEF States
  <2>2. CASE \E u \in Threads : Writes1(u, s)' /\ x = th'[u].next
    BY <2>2 DEF States
  <2> QED BY <2>1, <2>2 DEF States
<1> QED BY <1>1

LEMMA NotWriting ==
    ASSUME NEW u \in Threads, NEW s, th'[u] = Idle \/ th'[u].pc \in Starts
    PROVE  ~Writes1(u, s)'
BY IdleIs DEF Writes1, Writing, Starts

\* The start of an operation, of any thread's request.
LEMMA StartIs ==
    ASSUME NEW op
    PROVE  StartOf(op) \in Starts
BY DEF StartOf, Starts

LEMMA StatesQuiet ==
    ASSUME TypeInv, QuietStep, NEW s \in Stores
    PROVE  States(s)' \subseteq States(s)
<1>1. ASSUME NEW u \in Threads, Writes1(u, s)', th'[u] = th[u]
      PROVE  Writes1(u, s) /\ th'[u].next = th[u].next
  BY <1>1, Same DEF Writes1
<1>2. ASSUME NEW u \in Threads, Writes1(u, s)', Turned(u)
      PROVE  Writes1(u, s) /\ th'[u].next = th[u].next
  <2>1. th'[u] # Idle /\ th'[u].pc \notin Starts
    BY <1>2, NotWriting
  <2>2. Worked(u)
    BY <1>2, <2>1, StartIs DEF Turned, Begun, Advanced, Entered
  <2>3. /\ Op(u)' = Op(u) /\ At(u)' = At(u) /\ Busy(u)' = Busy(u)
    BY <2>2, SameOperation DEF Worked, Moved
  <2> QED BY <1>2, <2>2, <2>3 DEF Worked, Writes1, Writing
<1>3. \A u \in Threads : Writes1(u, s)' => Writes1(u, s) /\ th'[u].next = th[u].next
  BY <1>1, <1>2, NotWriting DEF QuietStep, Others
<1> QED BY <1>3, StatesShrink DEF QuietStep

LEMMA StatesKept ==
    ASSUME TypeInv, NEW t \in Threads, NEW s \in Stores,
           \/ RemoveOld(t) \/ Return(t) \/ RememberCode(t) \/ TakeCode(t)
           \/ Rename(t) /\ Op(t) # "open"
    PROVE  States(s)' \subseteq States(s)
<1>0. DOMAIN file = Stores
  BY DEF TypeInv
<1>1. ASSUME Others(t), Writes1(t, s)' => Writes1(t, s) /\ th'[t].next = th[t].next
      PROVE  \A u \in Threads : Writes1(u, s)' => Writes1(u, s) /\ th'[u].next = th[u].next
  BY <1>1, Same DEF Writes1, Others
<1>2. CASE RemoveOld(t) \/ (Rename(t) /\ Op(t) # "open")
  <2>1. /\ Others(t) /\ th'[t].next = th[t].next /\ th[t].pc \in Writing /\ Busy(t) /\ At(t) \in Stores
        /\ Op(t)' = Op(t) /\ At(t)' = At(t) /\ Busy(t)' = Busy(t)
    BY <1>2, ReplaceStep
  <2>2. \/ file' = [file EXCEPT ![At(t)] = Absent]
        \/ Op(t) # "open" /\ file' = [file EXCEPT ![At(t)] = th[t].next]
    BY <1>2 DEF RemoveOld, Rename
  <2>3. file'[s] \in States(s) \cup {file[s], Absent}
    BY <1>0, <2>1, <2>2 DEF States, Writes1
  <2>4. Writes1(t, s)' => Writes1(t, s) /\ th'[t].next = th[t].next
    BY <2>1 DEF Writes1
  <2> QED BY <1>1, <2>1, <2>3, <2>4, StatesShrink
<1>3. CASE Return(t)
  <2>1. Others(t) /\ th'[t].pc \notin Writing /\ file' = file
    BY <1>3, ReturnStep, WentOff DEF Return, TypeInv, Locks
  <2>2. ~Writes1(t, s)'
    BY <2>1 DEF Writes1
  <2> QED BY <1>1, <2>1, <2>2, StatesShrink
<1>4. CASE RememberCode(t) \/ TakeCode(t)
  <2>1. Others(t) /\ (th'[t] = Idle \/ th'[t].pc \in Starts) /\ file' = file
    BY <1>4, RememberStep, TakeCodeStep DEF RememberCode, TakeCode, Starts
  <2> QED BY <1>1, <2>1, NotWriting, StatesShrink
<1> QED BY <1>2, <1>3, <1>4

LEMMA StatesOpened ==
    ASSUME TypeInv, NEW t \in Threads, NEW s \in Stores, Rename(t), Op(t) = "open"
    PROVE  States(s)' \subseteq States(s) \cup {NewGrantStore}
<1>1. /\ Others(t) /\ At(t) = "grants" /\ th[t].next = NewGrantStore /\ Op(t)' = "open"
  BY ReplaceStep
<1>2. file' = [file EXCEPT !["grants"] = NewGrantStore] /\ DOMAIN file = Stores
  BY <1>1 DEF Rename, TypeInv
<1>3. \A u \in Threads : Writes1(u, s)' => Writes1(u, s) /\ th'[u].next = th[u].next
  BY <1>1, Same DEF Others, Writes1
<1>4. file'[s] \in {file[s], NewGrantStore}
  BY <1>2 DEF Stores
<1> QED BY <1>3, <1>4 DEF States

LEMMA StatesDecided ==
    ASSUME TypeInv, NEW t \in Threads, NEW s \in Stores, Decide(t)
    PROVE  /\ States(s)' \subseteq States(s) \cup (IF s = At(t) THEN {th'[t].next} ELSE {})
           /\ file[At(t)] \in States(At(t))
<1>1. /\ Struck(t, Restores(Op(t), Request(t))) /\ Moved(t, "temp") /\ file[At(t)] # Absent
  BY DecideStep
<1>2. file' = file
  BY DEF Decide
<1>3. \A u \in Threads \ {t} : Writes1(u, s)' => Writes1(u, s) /\ th'[u].next = th[u].next
  <2> SUFFICES ASSUME NEW u \in Threads \ {t}, Writes1(u, s)'
               PROVE  Writes1(u, s) /\ th'[u].next = th[u].next
    OBVIOUS
  <2>1. th'[u].job = th[u].job /\ th'[u].k = th[u].k /\ th'[u].pc = th[u].pc /\ th'[u].next = th[u].next
    BY <1>1 DEF Struck
  <2>2. Op(u)' = Op(u) /\ At(u)' = At(u) /\ Busy(u)' = Busy(u)
    BY <2>1, SameOperation
  <2> QED BY <2>1, <2>2 DEF Writes1
<1>4. Writes1(t, s)' => s = At(t)
  BY <1>1, SameOperation DEF Writes1, Moved
<1>5. file[At(t)] \in States(At(t))
  BY <1>1 DEF States
<1> QED BY <1>2, <1>3, <1>4, <1>5 DEF States

\* A writer is alone with its store, but for an open.
LEMMA WritesAlone ==
    ASSUME TypeInv, LockInv, NEW t \in Threads, NEW u \in Threads, NEW s \in Stores,
           Locks(t, s), Writes1(u, s)
    PROVE  u = t
BY DEF LockInv, Writes1, Locks, Held

LEMMA StatesReturned ==
    ASSUME TypeInv, LockInv, NEW t \in Threads, Return(t), NEW s, s = At(t)
    PROVE  /\ States(s)' \subseteq {file[s]} \ {Absent} /\ th[t].next \in States(s)
           /\ s \in Stores
<1>1. Others(t) /\ Locks(t, s) /\ Writes1(t, s) /\ file' = file /\ s \in Stores
      /\ Went(t) /\ Runs(t)
  BY ReturnStep DEF Return, Stores
<1>2. th'[t].pc \notin Writing
  BY <1>1, WentOff DEF TypeInv, Locks
<1>3. ASSUME NEW u \in Threads, Writes1(u, s)'
      PROVE  FALSE
  <2>1. CASE u = t
    BY <1>2, <1>3, <2>1 DEF Writes1
  <2>2. CASE u # t
    <3>1. Writes1(u, s)
      BY <1>1, <1>3, <2>2, Same DEF Writes1, Others
    <3> QED BY <1>1, <2>2, <3>1, WritesAlone
  <2> QED BY <2>1, <2>2
<1> QED BY <1>1, <1>3 DEF States

-----------------------------------------------------------------------------
(* Each request is made once.                                              *)

\* The loud steps begin nothing.
LEMMA LoudMoves ==
    ASSUME TypeInv, LoudStep
    PROVE  /\ todo' = todo /\ clock' = clock /\ clock \in Nat /\ DOMAIN th' = Threads
           /\ \A u \in Threads : th'[u].job \in {th[u].job, NoJob}
<1>0. clock \in Nat /\ \A t \in Threads : ThreadOK(t)
  BY DEF TypeInv
<1>1. ASSUME NEW t \in Threads, Others(t), th'[t].job \in {th[t].job, NoJob}
      PROVE  DOMAIN th' = Threads /\ \A u \in Threads : th'[u].job \in {th[u].job, NoJob}
  BY <1>1 DEF Others
<1>2. ASSUME NEW t \in Threads, RemoveOld(t) \/ Rename(t)
      PROVE  /\ todo' = todo /\ clock' = clock /\ DOMAIN th' = Threads
             /\ \A u \in Threads : th'[u].job \in {th[u].job, NoJob}
  <2>1. Others(t) /\ Moved(t, th'[t].pc)
    BY <1>2, ReplaceStep
  <2>2. th'[t].job = th[t].job
    BY <2>1 DEF Moved
  <2>3. todo' = todo /\ clock' = clock
    BY <1>2 DEF RemoveOld, Rename
  <2> QED BY <1>1, <2>1, <2>2, <2>3
<1>3. ASSUME NEW t \in Threads, Decide(t)
      PROVE  /\ todo' = todo /\ clock' = clock /\ DOMAIN th' = Threads
             /\ \A u \in Threads : th'[u].job \in {th[u].job, NoJob}
  <2>1. Struck(t, Restores(Op(t), Request(t))) /\ Moved(t, "temp")
    BY <1>3, DecideStep
  <2>2. th'[t].job = th[t].job
    BY <2>1 DEF Moved
  <2> QED BY <1>3, <2>1, <2>2 DEF Struck, Decide
<1>4. ASSUME NEW t \in Threads, Return(t) \/ RememberCode(t) \/ TakeCode(t)
      PROVE  /\ todo' = todo /\ clock' = clock /\ DOMAIN th' = Threads
             /\ \A u \in Threads : th'[u].job \in {th[u].job, NoJob}
  <2>1. todo' = todo /\ clock' = clock
    BY <1>4 DEF Return, RememberCode, TakeCode
  <2>2. Others(t) /\ (Went(t) \/ th'[t] = Idle \/ th'[t].job = th[t].job)
    BY <1>4, ReturnStep, RememberStep, TakeCodeStep
  <2>3. th'[t].job \in {th[t].job, NoJob}
    BY <2>2, IdleIs DEF Went, Entered
  <2> QED BY <1>1, <2>1, <2>2, <2>3
<1> QED BY <1>0, <1>2, <1>3, <1>4 DEF LoudStep

LEMMA JobsStep ==
    ASSUME TypeInv, JobsInv, QuietStep \/ LoudStep
    PROVE  JobsInv' /\ \A job \in Jobs : Alive(job)' => Alive(job)
<1>0. /\ \A u \in Threads : th[u].job \notin todo
      /\ todo \subseteq Jobs /\ NoJob \notin Jobs /\ Boot \notin Jobs /\ NoJob # Boot
      /\ \A u, v \in Threads : Runs(u) /\ th[u].job = th[v].job => u = v
  BY ConstantsAssumption DEF TypeInv, JobsInv
<1> DEFINE Kept(u) == th'[u].job \in {th[u].job, NoJob}
           Taken(u) == th'[u].job = Boot \/ th'[u].job \in todo \ todo'
<1>1. /\ todo' \subseteq todo
      /\ \/ \A u \in Threads : Kept(u)
         \/ \E t \in Threads : Taken(t) /\ \A u \in Threads \ {t} : Kept(u)
  <2>1. CASE QuietStep
    <3>1. todo' \subseteq todo
      BY <2>1 DEF QuietStep
    <3>2. CASE \A u \in Threads : th'[u] \in {th[u], Idle}
      BY <3>1, <3>2, IdleIs
    <3>3. ASSUME NEW t \in Threads, Others(t), Turned(t)
          PROVE  \/ \A u \in Threads : Kept(u)
                 \/ Taken(t) /\ \A u \in Threads \ {t} : Kept(u)
      <4>1. \A u \in Threads \ {t} : Kept(u)
        BY <3>3 DEF Others
      <4>2. Kept(t) \/ Taken(t)
        BY <3>3, IdleIs DEF Turned, Begun, Advanced, Worked, Moved, Entered
      <4> QED BY <4>1, <4>2
    <3> QED BY <2>1, <3>1, <3>2, <3>3 DEF QuietStep
  <2>2. CASE LoudStep
    BY <2>2, LoudMoves
  <2> QED BY <2>1, <2>2
<1>2. \A u \in Threads : Kept(u) \/ Taken(u)
  BY <1>1
<1>3. ASSUME NEW job \in Jobs, Alive(job)'
      PROVE  Alive(job)
  BY <1>0, <1>1, <1>2, <1>3 DEF Alive
<1>4. ASSUME NEW u \in Threads, NEW v \in Threads, Runs(u)', th'[u].job = th'[v].job
      PROVE  u = v
  <2>1. th'[u].job \in Jobs /\ th'[u].job # NoJob /\ th'[u].job # Boot
    BY <1>0, <1>4 DEF Runs
  <2>2. CASE \A w \in Threads : Kept(w)
    <3>1. th'[u].job = th[u].job /\ th'[v].job = th[v].job
      BY <1>4, <2>1, <2>2
    <3> QED BY <1>0, <1>4, <2>1, <3>1 DEF Runs
  <2>3. CASE \E t \in Threads : Taken(t) /\ \A w \in Threads \ {t} : Kept(w)
    <3>1. PICK t \in Threads : Taken(t) /\ \A w \in Threads \ {t} : Kept(w)
      BY <2>3
    <3>2. \A w \in Threads \ {t} : th'[w].job = th'[u].job => th[w].job = th'[u].job
      BY <2>1, <3>1
    <3>3. u # t /\ v # t => u = v
      BY <1>0, <1>4, <2>1, <3>2 DEF Runs
    <3>4. (u = t \/ v = t) => th'[u].job \in todo
      BY <1>4, <2>1, <3>1
    <3> QED BY <1>0, <1>4, <3>2, <3>3, <3>4
  <2> QED BY <1>1, <2>2, <2>3
<1>5. ASSUME NEW u \in Threads
      PROVE  th'[u].job \notin todo'
  <2>1. NoJob \notin todo' /\ Boot \notin todo'
    BY <1>0, <1>1
  <2> QED BY <1>0, <1>1, <1>2, <2>1
<1> QED BY <1>3, <1>4, <1>5 DEF JobsInv

-----------------------------------------------------------------------------
(* What is barred is barred on file.                                       *)

\* What a decision comes to, in one place.
LEMMA GrantsDecided ==
    ASSUME TypeInv, NEW t \in Threads, Decide(t), At(t) = "grants",
           NEW op, op = Op(t), NEW r, r = Request(t), NEW s, s = file["grants"], NEW x, x = th'[t].next
    PROVE  /\ op \in GrantWriters /\ s \in States("grants") /\ Runs(t) /\ th[t].pc = "read"
           /\ IsGrantStore(s) /\ th[t].now \in Nat /\ th[t].now <= clock
           /\ GrantsChange(t, op, r, s, x) /\ PairingsChange(op, r, s, x) /\ ClientsChange(op, r, s, x)
           /\ Redeems(t, op, r, s, x) /\ th[t].job \in Jobs /\ Request(t) = Job[th[t].job]
           /\ op \in {"issue", "redeem"} => Mints(th[t].job)
           /\ op = "create_pairing" => Creates(th[t].job)
           /\ op \in {"expire", "remove_workspace"} => Targeted(r, t) = r
           /\ op = "revoke" => Targeted(r, t).target = r.target
           /\ Restores(op, r) = {}
<1> DEFINE w == Writes(op, s, r, t)
<1>1. /\ w.ok /\ x = w.s /\ Runs(t) /\ th[t].pc = "read" /\ op \in GrantWriters /\ IsGrantStore(s)
      /\ file["grants"] # Absent
  BY DecideStep DEF TenantWriters, GrantWriters, TenantOps
<1>2. /\ th[t].job \in Jobs /\ th[t].k \in 1 .. Len(Plan(th[t].job)) /\ th[t].now \in Nat
      /\ th[t].now <= clock
  BY <1>1, WhatIsServed DEF Runs, TypeInv, ThreadOK
<1> HIDE DEF w
<1>3. /\ GrantsChange(t, op, r, s, x) /\ PairingsChange(op, r, s, x) /\ ClientsChange(op, r, s, x)
      /\ Redeems(t, op, r, s, x)
  BY <1>1, <1>2, GrantWrites DEF w
<1>4. /\ op \in {"issue", "redeem"} => Mints(th[t].job)
      /\ op = "create_pairing" => Creates(th[t].job)
      /\ op \in {"expire", "remove_workspace"} => Targeted(r, t) = r
      /\ op = "revoke" => Targeted(r, t).target = r.target
  <2>1. RequestFits(t, op, r)
    BY <1>2, RequestIs
  <2> QED BY <2>1 DEF RequestFits
<1>5. Restores(op, r) = {}
  BY <1>1 DEF Restores, GrantWriters
<1>6. s \in States("grants")
  BY <1>1 DEF States
<1> QED BY <1>1, <1>2, <1>3, <1>4, <1>5, <1>6 DEF Request

LEMMA TenantsDecided ==
    ASSUME TypeInv, NEW t \in Threads, Decide(t), At(t) = "tenants",
           NEW op, op = Op(t), NEW r, r = Request(t), NEW s, s = file["tenants"], NEW x, x = th'[t].next
    PROVE  /\ op \in TenantWriters /\ s \in States("tenants") /\ Runs(t) /\ IsTenantStore(s)
           /\ MembersChange(op, r, s, x) /\ DevicesChange(op, r, s, x) /\ UsageChange(op, r, s, x)
           /\ op = "record_usage" => r.units \in Nat
<1> DEFINE w == Writes(op, s, r, t)
<1>1. /\ w.ok /\ x = w.s /\ Runs(t) /\ th[t].pc = "read" /\ op \in TenantWriters /\ IsTenantStore(s)
      /\ file["tenants"] # Absent
  BY DecideStep DEF TenantWriters, GrantWriters, TenantOps
<1>2. op = "record_usage" => r.units \in Nat
  <2>1. th[t].job \in Jobs /\ th[t].k \in 1 .. Len(Plan(th[t].job))
    BY <1>1, WhatIsServed DEF TypeInv, Runs
  <2>2. RequestFits(t, op, r)
    BY <2>1, RequestIs
  <2> QED BY <2>2 DEF RequestFits
<1> HIDE DEF w
<1>3. MembersChange(op, r, s, x) /\ DevicesChange(op, r, s, x) /\ UsageChange(op, r, s, x)
  BY <1>1, <1>2, TenantWrites DEF w
<1> QED BY <1>1, <1>2, <1>3 DEF States

LEMMA GrantsBarredDecided ==
    ASSUME TypeInv, BarredInv, FreshInv, NEW t \in Threads, Decide(t), At(t) = "grants",
           NEW x, x = th'[t].next
    PROVE  GrantsBarred(x)
<1> DEFINE op == Op(t)
           r == Request(t)
           s == file["grants"]
<1>1. /\ op \in GrantWriters /\ s \in States("grants") /\ th[t].pc = "read" /\ IsGrantStore(s)
      /\ GrantsChange(t, op, r, s, x) /\ th[t].job \in Jobs /\ r = Job[th[t].job]
      /\ op \in {"issue", "redeem"} => Mints(th[t].job)
      /\ op \in {"expire", "remove_workspace"} => Targeted(r, t) = r
      /\ op = "revoke" => Targeted(r, t).target = r.target
  BY GrantsDecided
<1>2. GrantsBarred(s)
  BY <1>1 DEF BarredInv
<1>3. op \in {"issue", "redeem"} => \A b \in barred : b[1] = "grant" => b[2] # r.new
  <2>1. Undecided(th[t].job)
    BY <1>1 DEF Undecided, Writing
  <2> QED BY <1>1, <2>1 DEF FreshInv
<1> HIDE DEF op, r, s
<1>4. CASE op \in {"create_pairing", "prune_expired_pairings", "register"}
  <2>1. x.grants = s.grants
    BY <1>1, <1>4 DEF GrantsChange
  <2> QED BY <1>2, <2>1 DEF GrantsBarred
<1>5. CASE op \in {"issue", "redeem"}
  <2>1. /\ DOMAIN x.grants = DOMAIN s.grants \cup {r.new}
        /\ \A g \in DOMAIN s.grants \ {r.new} : x.grants[g] = s.grants[g]
    BY <1>1, <1>5 DEF GrantsChange
  <2>2. <<"grant", r.new>> \notin barred /\ \A w : <<"grant", r.new, w>> \notin barred
    BY <1>3, <1>5
  <2> QED BY <1>2, <2>1, <2>2 DEF GrantsBarred
<1>6. CASE op \in {"revoke", "expire", "remove_workspace"}
  <2>1. /\ DOMAIN x.grants = DOMAIN s.grants
        /\ \A g \in DOMAIN s.grants : g # r.target => x.grants[g] = s.grants[g]
        /\ ~Found(s, Targeted(r, t)) => x = s
    BY <1>1, <1>6 DEF GrantsChange
  <2>2. CASE ~Found(s, Targeted(r, t))
    BY <1>2, <2>1, <2>2
  <2>3. CASE Found(s, Targeted(r, t))
    <3>1. r.target \in DOMAIN s.grants
      BY <1>1, <1>6, <2>3 DEF Found
    <3>2. /\ s.grants[r.target].revoked => x.grants[r.target].revoked
          /\ x.grants[r.target].ws \subseteq s.grants[r.target].ws
      BY <1>1, <1>6, <2>3 DEF GrantsChange
    <3> QED BY <1>2, <2>1, <3>1, <3>2 DEF GrantsBarred
  <2> QED BY <2>2, <2>3
<1>7. CASE op = "prune_expired"
  <2>1. /\ DOMAIN x.grants \subseteq DOMAIN s.grants
        /\ \A g \in DOMAIN x.grants : x.grants[g] = s.grants[g]
    BY <1>1, <1>7 DEF GrantsChange
  <2> QED BY <1>2, <2>1 DEF GrantsBarred
<1> QED BY <1>1, <1>4, <1>5, <1>6, <1>7 DEF GrantWriters

LEMMA TenantsBarredDecided ==
    ASSUME TypeInv, BarredInv, NEW t \in Threads, Decide(t), At(t) = "tenants", NEW x, x = th'[t].next
    PROVE  TenantsBarred(x)'
<1> DEFINE op == Op(t)
           r == Request(t)
           s == file["tenants"]
           again == Restores(op, r)
<1>1. /\ op \in TenantWriters /\ s \in States("tenants") /\ IsTenantStore(s)
      /\ MembersChange(op, r, s, x) /\ DevicesChange(op, r, s, x)
  BY TenantsDecided
<1>2. TenantsBarred(s) /\ barred' = barred \ again
  BY <1>1 DEF BarredInv, Decide
<1>3. /\ op = "set_membership" => again = {<<"member", r.org, r.user>>}
      /\ op = "pair_device" => /\ <<"device", r.org, r.device>> \in again
                               /\ \A w \in r.workspaces : <<"device", r.org, r.device, w>> \in again
  BY DEF Restores
<1> HIDE DEF op, r, s, again
<1>4. \A m \in DOMAIN x.members : <<"member", m[1], m[2]>> \in barred' => x.members[m].revoked
  <2> DEFINE key == <<r.org, r.user>>
  <2>0. key[1] = r.org /\ key[2] = r.user
    OBVIOUS
  <2>1. CASE op \notin {"set_membership", "revoke_membership"}
    BY <1>1, <1>2, <2>1 DEF MembersChange, TenantsBarred
  <2>2. CASE op = "set_membership"
    <3>1. /\ DOMAIN x.members = DOMAIN s.members \cup {key}
          /\ \A m \in DOMAIN s.members \ {key} : x.members[m] = s.members[m]
      BY <1>1, <2>2 DEF MembersChange
    <3> HIDE DEF key
    <3> QED BY <1>2, <1>3, <2>0, <2>2, <3>1 DEF TenantsBarred
  <2>3. CASE op = "revoke_membership"
    <3>1. /\ DOMAIN x.members = DOMAIN s.members
          /\ \A m \in DOMAIN s.members \ {key} : x.members[m] = s.members[m]
          /\ key \in DOMAIN s.members => x.members[key].revoked
      BY <1>1, <2>3 DEF MembersChange
    <3> HIDE DEF key
    <3> QED BY <1>2, <3>1 DEF TenantsBarred
  <2> QED BY <2>1, <2>2, <2>3
<1>5. \A d \in DOMAIN x.devices :
          /\ <<"device", d[1], d[2]>> \in barred' => x.devices[d].revoked
          /\ \A w \in x.devices[d].ws : <<"device", d[1], d[2], w>> \notin barred'
  <2> DEFINE key == <<r.org, r.device>>
  <2>0. key[1] = r.org /\ key[2] = r.device
    OBVIOUS
  <2>1. CASE op \notin {"pair_device", "revoke_device", "remove_device_workspace"}
    BY <1>1, <1>2, <2>1 DEF DevicesChange, TenantsBarred
  <2>2. CASE op = "pair_device"
    <3>1. /\ DOMAIN x.devices = DOMAIN s.devices \cup {key}
          /\ \A d \in DOMAIN s.devices \ {key} : x.devices[d] = s.devices[d]
          /\ x.devices[key].ws = r.workspaces
      BY <1>1, <2>2 DEF DevicesChange
    <3> HIDE DEF key
    <3> QED BY <1>2, <1>3, <2>0, <2>2, <3>1 DEF TenantsBarred
  <2>3. CASE op = "revoke_device"
    <3>1. /\ DOMAIN x.devices = DOMAIN s.devices
          /\ \A d \in DOMAIN s.devices \ {key} : x.devices[d] = s.devices[d]
          /\ key \in DOMAIN s.devices => x.devices[key].revoked /\ x.devices[key].ws = s.devices[key].ws
      BY <1>1, <2>3 DEF DevicesChange
    <3> HIDE DEF key
    <3> QED BY <1>2, <3>1 DEF TenantsBarred
  <2>4. CASE op = "remove_device_workspace"
    <3>1. /\ DOMAIN x.devices = DOMAIN s.devices
          /\ \A d \in DOMAIN s.devices \ {key} : x.devices[d] = s.devices[d]
          /\ key \in DOMAIN s.devices => /\ x.devices[key].revoked = s.devices[key].revoked
                                         /\ x.devices[key].ws \subseteq s.devices[key].ws
      BY <1>1, <2>4 DEF DevicesChange
    <3> HIDE DEF key
    <3> QED BY <1>2, <3>1 DEF TenantsBarred
  <2> QED BY <2>1, <2>2, <2>3, <2>4
<1> QED BY <1>4, <1>5 DEF TenantsBarred

\* A store begun afresh has nothing that could be barred.
LEMMA AfreshIs == /\ DOMAIN NewGrantStore.grants = {} /\ DOMAIN NewGrantStore.pairings = {}
                  /\ DOMAIN NewGrantStore.clients = {}
BY DEF NewGrantStore

LEMMA BarredKept ==
    ASSUME BarredInv, barred' \subseteq barred
    PROVE  /\ \A x \in States("grants") : GrantsBarred(x)'
           /\ \A x \in States("tenants") : TenantsBarred(x)'
BY DEF BarredInv, GrantsBarred, TenantsBarred

LEMMA BarredReturned ==
    ASSUME TypeInv, LockInv, BarredInv, MadeInv, NEW t \in Threads, Return(t),
           NEW op, op = Op(t), NEW r, r = Request(t), NEW n, n = th[t].next
    PROVE  BarredInv'
<1> DEFINE more == Bars(op, n, r, t)
<1>1. /\ Runs(t) /\ th[t].pc = "written" /\ op # "open" /\ Busy(t)
      /\ \/ op \in GrantWriters /\ At(t) = "grants" /\ IsGrantStore(n)
         \/ op \in TenantWriters /\ At(t) = "tenants" /\ IsTenantStore(n)
  BY ReturnStep DEF Writes1
<1>2. barred' = barred \cup more
  BY DEF Return
<1>3. /\ Made(t)
      /\ file[At(t)] \in {Absent, n} \/ (At(t) = "grants" /\ file["grants"] = NewGrantStore)
  BY <1>1 DEF MadeInv, Writing
<1>4. States("grants")' \subseteq States("grants") /\ States("tenants")' \subseteq States("tenants")
  BY StatesKept DEF Stores
<1>5. \A s \in Stores : s = At(t) => States(s)' \subseteq {n, file[s]} \ {Absent} /\ n \in States(s)
  BY StatesReturned
<1>6. CASE op \in GrantWriters /\ At(t) = "grants" /\ IsGrantStore(n)
  <2>1. /\ op = "revoke" /\ Found(n, Targeted(r, t)) => n.grants[r.target].revoked
        /\ op = "remove_workspace" /\ Found(n, r) => r.workspace \notin n.grants[r.target].ws
    BY <1>3 DEF Made
  <2>2. more = IF op = "revoke" /\ Found(n, Targeted(r, t)) THEN {<<"grant", r.target>>}
               ELSE IF op = "remove_workspace" /\ Found(n, r) THEN {<<"grant", r.target, r.workspace>>}
               ELSE {}
    BY <1>6 DEF Bars, GrantWriters
  <2> HIDE DEF more
  <2>3. \A x \in States("tenants")' : TenantsBarred(x)'
    BY <1>2, <1>4, <2>2 DEF BarredInv, TenantsBarred
  <2>4. GrantsBarred(n) /\ States("grants")' \subseteq {n, NewGrantStore}
    BY <1>3, <1>5, <1>6 DEF BarredInv, Stores
  <2>5. GrantsBarred(n)'
    <3>1. ASSUME NEW g \in DOMAIN n.grants
          PROVE  /\ <<"grant", g>> \in barred' => n.grants[g].revoked
                 /\ \A w \in n.grants[g].ws : <<"grant", g, w>> \notin barred'
      <4>1. /\ <<"grant", g>> \in barred => n.grants[g].revoked
            /\ \A w \in n.grants[g].ws : <<"grant", g, w>> \notin barred
        BY <2>4 DEF GrantsBarred
      <4>2. /\ <<"grant", g>> \in more => n.grants[g].revoked
            /\ \A w \in n.grants[g].ws : <<"grant", g, w>> \notin more
        BY <2>1, <2>2
      <4> QED BY <1>2, <4>1, <4>2
    <3> QED BY <3>1 DEF GrantsBarred
  <2>6. GrantsBarred(NewGrantStore)'
    BY AfreshIs DEF GrantsBarred
  <2> QED BY <2>3, <2>4, <2>5, <2>6 DEF BarredInv
<1>7. CASE op \in TenantWriters /\ At(t) = "tenants" /\ IsTenantStore(n)
  <2>1. /\ op = "revoke_membership" /\ <<r.org, r.user>> \in DOMAIN n.members =>
               n.members[<<r.org, r.user>>].revoked
        /\ op = "revoke_device" /\ <<r.org, r.device>> \in DOMAIN n.devices =>
               n.devices[<<r.org, r.device>>].revoked
        /\ op = "remove_device_workspace" /\ <<r.org, r.device>> \in DOMAIN n.devices =>
               r.workspace \notin n.devices[<<r.org, r.device>>].ws
    BY <1>3 DEF Made
  <2>2. more = IF op = "revoke_membership" THEN {<<"member", r.org, r.user>>}
               ELSE IF op = "revoke_device" THEN {<<"device", r.org, r.device>>}
               ELSE IF op = "remove_device_workspace" THEN {<<"device", r.org, r.device, r.workspace>>}
               ELSE {}
    BY <1>7 DEF Bars, TenantWriters, TenantOps, Readers
  <2> HIDE DEF more
  <2>3. \A x \in States("grants")' : GrantsBarred(x)'
    BY <1>2, <1>4, <2>2 DEF BarredInv, GrantsBarred
  <2>4. TenantsBarred(n) /\ States("tenants")' \subseteq {n}
    BY <1>3, <1>5, <1>7 DEF BarredInv, Stores
  <2>5. /\ \A m \in DOMAIN n.members : m = <<m[1], m[2]>>
        /\ \A d \in DOMAIN n.devices : d = <<d[1], d[2]>>
    BY <1>7 DEF IsTenantStore
  <2>6. \A m \in DOMAIN n.members : <<"member", m[1], m[2]>> \in barred' => n.members[m].revoked
    <3>1. ASSUME NEW m \in DOMAIN n.members, <<"member", m[1], m[2]>> \in more
          PROVE  n.members[m].revoked
      <4>1. op = "revoke_membership" /\ m[1] = r.org /\ m[2] = r.user
        BY <2>2, <3>1
      <4>2. m = <<r.org, r.user>>
        BY <2>5, <4>1
      <4> QED BY <2>1, <4>1, <4>2
    <3> QED BY <1>2, <2>4, <3>1 DEF TenantsBarred
  <2>7. ASSUME NEW d \in DOMAIN n.devices
        PROVE  /\ <<"device", d[1], d[2]>> \in barred' => n.devices[d].revoked
               /\ \A w \in n.devices[d].ws : <<"device", d[1], d[2], w>> \notin barred'
    <3>1. <<"device", d[1], d[2]>> \in more => n.devices[d].revoked
      <4>1. <<"device", d[1], d[2]>> \in more => op = "revoke_device" /\ d[1] = r.org /\ d[2] = r.device
        BY <2>2
      <4> QED BY <2>1, <2>5, <4>1
    <3>2. \A w \in n.devices[d].ws : <<"device", d[1], d[2], w>> \notin more
      <4>1. \A w : <<"device", d[1], d[2], w>> \in more =>
               op = "remove_device_workspace" /\ d[1] = r.org /\ d[2] = r.device /\ w = r.workspace
        BY <2>2
      <4> QED BY <2>1, <2>5, <4>1
    <3> QED BY <1>2, <2>4, <3>1, <3>2 DEF TenantsBarred
  <2>8. TenantsBarred(n)'
    BY <2>6, <2>7 DEF TenantsBarred
  <2> QED BY <2>3, <2>4, <2>8 DEF BarredInv
<1> QED BY <1>1, <1>6, <1>7

LEMMA BarredStep ==
    ASSUME TypeInv, LockInv, BarredInv, MadeInv, FreshInv, QuietStep \/ LoudStep
    PROVE  BarredInv'
<1>1. CASE QuietStep
  <2>1. barred' = barred
    BY <1>1 DEF QuietStep
  <2> QED BY <1>1, <2>1, StatesQuiet, BarredKept DEF Stores, BarredInv
<1>2. ASSUME NEW t \in Threads, RemoveOld(t) \/ Rename(t) \/ RememberCode(t) \/ TakeCode(t)
      PROVE  BarredInv'
  <2>1. barred' = barred
    BY <1>2 DEF RemoveOld, Rename, RememberCode, TakeCode, history
  <2>2. /\ States("grants")' \subseteq States("grants") \cup {NewGrantStore}
        /\ States("tenants")' \subseteq States("tenants")
    <3>1. CASE Rename(t) /\ Op(t) = "open"
      <4>1. /\ States("grants")' \subseteq States("grants") \cup {NewGrantStore}
        BY <3>1, StatesOpened DEF Stores
      <4>2. file' = [file EXCEPT !["grants"] = NewGrantStore] /\ Others(t) /\ At(t)' = "grants"
        BY <3>1, ReplaceStep DEF Rename
      <4>3. \A u \in Threads : Writes1(u, "tenants")' => Writes1(u, "tenants") /\ th'[u].next = th[u].next
        BY <4>2, Same DEF Others, Writes1
      <4>4. file'["tenants"] = file["tenants"]
        BY <4>2
      <4> QED BY <4>1, <4>3, <4>4, StatesShrink
    <3>2. CASE ~(Rename(t) /\ Op(t) = "open")
      BY <1>2, <3>2, StatesKept DEF Stores
    <3> QED BY <3>1, <3>2
  <2>3. GrantsBarred(NewGrantStore)'
    BY AfreshIs DEF GrantsBarred
  <2> QED BY <2>1, <2>2, <2>3, BarredKept DEF BarredInv
<1>3. ASSUME NEW t \in Threads, Decide(t)
      PROVE  BarredInv'
  <2>1. At(t) \in {"grants", "tenants"} /\ barred' \subseteq barred
    BY <1>3, DecideStep
  <2>2. /\ \A s \in Stores : States(s)' \subseteq States(s) \cup (IF s = At(t) THEN {th'[t].next} ELSE {})
    BY <1>3, StatesDecided
  <2>3. \A x : At(t) = "grants" /\ x = th'[t].next => GrantsBarred(x)'
    BY <1>3, <2>1, GrantsBarredDecided DEF GrantsBarred
  <2>4. \A x : At(t) = "tenants" /\ x = th'[t].next => TenantsBarred(x)'
    BY <1>3, TenantsBarredDecided
  <2> QED BY <2>1, <2>2, <2>3, <2>4, BarredKept DEF BarredInv, Stores
<1>4. ASSUME NEW t \in Threads, Return(t)
      PROVE  BarredInv'
  BY <1>4, BarredReturned
<1> QED BY <1>1, <1>2, <1>3, <1>4 DEF LoudStep

-----------------------------------------------------------------------------
(* What a writer has made.                                                 *)

LEMMA MadeKept ==
    ASSUME NEW u \in Threads, Made(u),
           th'[u].job = th[u].job, th'[u].k = th[u].k, th'[u].next = th[u].next, th'[u].grant = th[u].grant,
           th'[u].pc = "written" \/ (minted' = minted /\ th[u].pc # "written")
    PROVE  Made(u)'
<1>1. Op(u)' = Op(u) /\ Request(u)' = Request(u)
  BY SameOperation
<1>2. \A r : Targeted(r, u)' = Targeted(r, u)
  BY DEF Targeted
<1> QED BY <1>1, <1>2 DEF Made

LEMMA MadeDecided ==
    ASSUME TypeInv, MintedInv, NEW t \in Threads, Decide(t)
    PROVE  Made(t)'
<1>1. /\ Moved(t, "temp") /\ th'[t].grant = th[t].grant /\ minted' = minted
      /\ \/ Op(t) \in GrantWriters /\ At(t) = "grants"
         \/ Op(t) \in TenantWriters /\ At(t) = "tenants"
  BY DecideStep DEF Decide
<1>2. /\ Op(t)' = Op(t) /\ Request(t)' = Request(t) /\ th'[t].pc = "temp"
  BY <1>1, SameOperation DEF Moved
<1>3. SUFFICES ASSUME NEW op, op = Op(t), NEW r, r = Request(t), NEW x, x = th'[t].next
               PROVE  Made(t)'
  OBVIOUS
<1>4. Targeted(r, t)' = Targeted(r, t)
  BY <1>1 DEF Targeted
<1>5. CASE op \in GrantWriters /\ At(t) = "grants"
  <2> DEFINE s == file["grants"]
  <2>1. /\ s \in States("grants") /\ GrantsChange(t, op, r, s, x) /\ PairingsChange(op, r, s, x)
        /\ Redeems(t, op, r, s, x)
        /\ op \in {"expire", "remove_workspace"} => Targeted(r, t) = r
        /\ op = "revoke" => Targeted(r, t).target = r.target
    BY <1>3, <1>5, GrantsDecided
  <2> HIDE DEF s
  <2>2. op \in {"revoke", "remove_workspace"} =>
           /\ DOMAIN x.grants = DOMAIN s.grants
           /\ ~Found(s, Targeted(r, t)) => x = s
           /\ r.target \in DOMAIN s.grants => x.grants[r.target].org = s.grants[r.target].org
    BY <2>1 DEF GrantsChange
  <2>3. op \in {"revoke", "remove_workspace"} /\ Found(x, Targeted(r, t)) => Found(s, Targeted(r, t))
    BY <2>1, <2>2 DEF Found
  <2>4. op = "revoke" /\ Found(x, Targeted(r, t)) => x.grants[r.target].revoked
    BY <2>1, <2>3 DEF GrantsChange
  <2>5. op = "remove_workspace" /\ Found(x, r) => r.workspace \notin x.grants[r.target].ws
    BY <2>1, <2>3 DEF GrantsChange
  <2>6. op \in {"issue", "redeem"} => r.new \in DOMAIN x.grants /\ ~x.grants[r.new].revoked
    BY <2>1 DEF GrantsChange, MadeGrant
  <2>7. op = "redeem" => r.code \notin DOMAIN x.pairings /\ \A m \in minted : m[1] # r.code
    <3>1. op = "redeem" => r.code \in DOMAIN s.pairings
      BY <2>1 DEF Redeems
    <3>2. op = "redeem" => r.code \notin DOMAIN x.pairings
      BY <2>1 DEF PairingsChange
    <3> QED BY <2>1, <3>1, <3>2 DEF MintedInv
  <2>8. op \notin {"revoke_membership", "revoke_device", "remove_device_workspace"}
    BY <1>5 DEF GrantWriters
  <2> QED BY <1>1, <1>2, <1>3, <1>4, <2>4, <2>5, <2>6, <2>7, <2>8 DEF Made
<1>6. CASE op \in TenantWriters /\ At(t) = "tenants"
  <2> DEFINE s == file["tenants"]
  <2>1. MembersChange(op, r, s, x) /\ DevicesChange(op, r, s, x)
    BY <1>3, <1>6, TenantsDecided
  <2> HIDE DEF s
  <2>2. op = "revoke_membership" /\ <<r.org, r.user>> \in DOMAIN x.members =>
           x.members[<<r.org, r.user>>].revoked
    BY <2>1 DEF MembersChange
  <2>3. /\ op = "revoke_device" /\ <<r.org, r.device>> \in DOMAIN x.devices =>
               x.devices[<<r.org, r.device>>].revoked
        /\ op = "remove_device_workspace" /\ <<r.org, r.device>> \in DOMAIN x.devices =>
               r.workspace \notin x.devices[<<r.org, r.device>>].ws
    BY <2>1 DEF DevicesChange
  <2>4. op \notin {"revoke", "remove_workspace", "issue", "redeem"}
    BY <1>6 DEF TenantWriters, TenantOps, Readers
  <2> QED BY <1>2, <1>3, <2>2, <2>3, <2>4 DEF Made
<1> QED BY <1>1, <1>3, <1>5, <1>6

\* A thread that is in a writer's last steps was there before, but for the decision.
LEMMA StillWriting ==
    ASSUME TypeInv, LockInv, QuietStep \/ LoudStep, NEW u \in Threads, th'[u].pc \in Writing,
           Op(u)' # "open"
    PROVE  \/ Decide(u)
           \/ /\ th[u].pc \in Writing /\ th'[u].job = th[u].job /\ th'[u].k = th[u].k
              /\ th'[u].next = th[u].next /\ th'[u].grant = th[u].grant /\ Op(u) # "open"
              /\ Op(u)' = Op(u) /\ At(u)' = At(u) /\ Request(u)' = Request(u) /\ Runs(u)' = Runs(u)
              /\ Kind(u)' = Kind(u) /\ Busy(u)' = Busy(u)
              /\ \/ th'[u].pc = th[u].pc
                 \/ th[u].pc = "temp" /\ th'[u].pc \in {"remove", "rename"}
                 \/ RemoveOld(u) /\ th[u].pc = "remove" /\ th'[u].pc = "rename"
                 \/ Rename(u) /\ th[u].pc = "rename" /\ th'[u].pc = "written"
<1> DEFINE Was == /\ th[u].pc \in Writing /\ th'[u].job = th[u].job /\ th'[u].k = th[u].k
                  /\ th'[u].next = th[u].next /\ th'[u].grant = th[u].grant
           Turn == \/ th'[u].pc = th[u].pc
                   \/ th[u].pc = "temp" /\ th'[u].pc \in {"remove", "rename"}
                   \/ RemoveOld(u) /\ th[u].pc = "remove" /\ th'[u].pc = "rename"
                   \/ Rename(u) /\ th[u].pc = "rename" /\ th'[u].pc = "written"
<1>0. th'[u].pc \notin Starts /\ th'[u] # Idle /\ th'[u].pc \notin {"read", "granted", "denied"}
  BY IdleIs DEF Writing, Starts
<1>1. CASE th'[u] = th[u]
  BY <1>1, Same
<1>2. ASSUME Was, Turn
      PROVE  Was /\ Turn /\ Op(u) # "open"
              /\ Op(u)' = Op(u) /\ At(u)' = At(u) /\ Request(u)' = Request(u) /\ Runs(u)' = Runs(u)
              /\ Kind(u)' = Kind(u) /\ Busy(u)' = Busy(u)
  BY <1>2, SameOperation
<1>3. CASE Turned(u)
  <2>1. Worked(u)
    BY <1>0, <1>3, StartIs DEF Turned, Begun, Advanced, Entered
  <2>2. th'[u].job = th[u].job /\ th'[u].k = th[u].k
    BY <2>1 DEF Worked, Moved
  <2>3. Op(u)' = Op(u)
    BY <2>2, SameOperation
  <2>4. Was /\ Turn
    BY <1>0, <2>1, <2>2, <2>3 DEF Worked, Writing
  <2> QED BY <1>2, <2>4
<1>4. CASE QuietStep
  BY <1>0, <1>1, <1>3, <1>4 DEF QuietStep, Others
<1>5. ASSUME NEW t \in Threads, RemoveOld(t) \/ Rename(t)
      PROVE  th'[u] = th[u] \/ (Was /\ Turn)
  <2>1. /\ Others(t) /\ Moved(t, th'[t].pc) /\ th'[t].next = th[t].next /\ th'[t].grant = th[t].grant
        /\ th[t].pc \in Writing
    BY <1>5, ReplaceStep
  <2>2. /\ RemoveOld(t) => th[t].pc = "remove" /\ th' = [th EXCEPT ![t].pc = "rename"]
        /\ Rename(t) => th[t].pc = "rename" /\ th' = [th EXCEPT ![t].pc = "written"]
    BY DEF RemoveOld, Rename
  <2>3. /\ RemoveOld(t) => Moved(t, "rename")
        /\ Rename(t) => Moved(t, "written")
    BY <2>2, PcStep
  <2> QED BY <1>5, <2>1, <2>2, <2>3 DEF Others, Moved
<1>6. ASSUME NEW t \in Threads, Decide(t)
      PROVE  Decide(u) \/ (Was /\ Turn)
  <2>1. Struck(t, Restores(Op(t), Request(t)))
    BY <1>6, DecideStep
  <2> QED BY <1>6, <2>1 DEF Struck
<1>7. ASSUME NEW t \in Threads, Return(t) \/ RememberCode(t) \/ TakeCode(t)
      PROVE  th'[u] = th[u]
  <2>1. Others(t) /\ (th'[t] = Idle \/ th'[t].pc \notin Writing)
    BY <1>7, ReturnStep, WentOff, RememberStep, TakeCodeStep DEF TypeInv, Locks, Writing
  <2> QED BY <1>0, <2>1 DEF Others
<1> QED BY <1>1, <1>2, <1>4, <1>5, <1>6, <1>7 DEF LoudStep

LEMMA MadeStep ==
    ASSUME TypeInv, LockInv, MadeInv, MintedInv, QuietStep \/ LoudStep
    PROVE  MadeInv'
<1> SUFFICES ASSUME NEW u \in Threads, Runs(u)', th'[u].pc \in Writing, Op(u)' # "open"
             PROVE  /\ Made(u)'
                    /\ th'[u].pc = "written" =>
                          \/ file'[At(u)'] \in {Absent, th'[u].next}
                          \/ At(u)' = "grants" /\ file'["grants"] = NewGrantStore /\ "grants" \in reset'
  BY DEF MadeInv
<1>1. CASE Decide(u)
  <2>1. th'[u].pc = "temp"
    BY <1>1, DecideStep DEF Moved
  <2> QED BY <1>1, <2>1, MadeDecided
<1>2. CASE /\ th[u].pc \in Writing /\ th'[u].job = th[u].job /\ th'[u].k = th[u].k
           /\ th'[u].next = th[u].next /\ th'[u].grant = th[u].grant /\ Op(u) # "open"
           /\ Op(u)' = Op(u) /\ At(u)' = At(u) /\ Request(u)' = Request(u) /\ Runs(u)' = Runs(u)
           /\ Kind(u)' = Kind(u) /\ Busy(u)' = Busy(u)
           /\ \/ th'[u].pc = th[u].pc
              \/ th[u].pc = "temp" /\ th'[u].pc \in {"remove", "rename"}
              \/ RemoveOld(u) /\ th[u].pc = "remove" /\ th'[u].pc = "rename"
              \/ Rename(u) /\ th[u].pc = "rename" /\ th'[u].pc = "written"
  <2>1. /\ Made(u) /\ Locks(u, At(u)) /\ At(u) \in Stores
        /\ th[u].pc = "written" =>
              \/ file[At(u)] \in {Absent, th[u].next}
              \/ At(u) = "grants" /\ file["grants"] = NewGrantStore /\ "grants" \in reset
    BY <1>2, HeldIs DEF MadeInv, TypeInv, Held
  <2>2. CASE Rename(u)
    <3>1. th'[u].pc = "written" /\ file' = [file EXCEPT ![At(u)] = th[u].next] /\ DOMAIN file = Stores
      BY <1>2, <2>2 DEF Rename, Writing, TypeInv
    <3> QED BY <1>2, <2>1, <3>1, MadeKept
  <2>3. ASSUME NEW t \in Threads, t # u, Rename(t)
        PROVE  /\ minted' = minted \/ Op(u) # "redeem"
               /\ th'[u].pc = th[u].pc
               /\ th[u].pc = "written" =>
                     \/ file'[At(u)] \in {Absent, th[u].next}
                     \/ At(u) = "grants" /\ file'["grants"] = NewGrantStore /\ "grants" \in reset'
    <3>1. /\ Others(t) /\ th[t].pc = "rename" /\ At(t) \in Stores /\ ThreadOK(t)
          /\ Op(t) = "open" => At(t) = "grants" /\ th[t].next = NewGrantStore
      BY <2>3, ReplaceStep DEF Rename, TypeInv
    <3>2. /\ file' = [file EXCEPT ![At(t)] = th[t].next] /\ DOMAIN file = Stores
          /\ reset' = IF Op(t) = "open" THEN reset \cup {"grants"} ELSE reset
          /\ Op(t) # "redeem" => minted' = minted
      BY <2>3 DEF Rename, TypeInv
    <3>3. th'[u].pc = th[u].pc
      BY <2>3, <3>1 DEF Others
    <3>4. CASE Op(t) = "open"
      BY <2>1, <3>1, <3>2, <3>3, <3>4 DEF Stores
    <3>5. CASE Op(t) # "open"
      <4>1. Locks(t, At(t))
        BY <3>1, <3>5, HeldIs DEF Held, Writing
      <4>2. At(t) # At(u)
        BY <2>1, <2>3, <4>1 DEF LockInv
      <4>3. Op(u) = "redeem" => Op(t) # "redeem"
        BY <4>2 DEF At
      <4> QED BY <2>1, <3>2, <3>3, <3>5, <4>2, <4>3
    <3> QED BY <3>4, <3>5
  <2>4. ASSUME NEW t \in Threads, t # u, Rename(t)
        PROVE  Made(u)'
    <3>1. CASE th'[u].pc = "written" \/ minted' = minted
      BY <1>2, <2>1, <2>3, <2>4, <3>1, MadeKept
    <3>2. CASE Op(u) # "redeem"
      <4>1. \A r : Targeted(r, u)' = Targeted(r, u)
        BY <1>2 DEF Targeted
      <4> QED BY <1>2, <2>1, <3>2, <4>1 DEF Made
    <3> QED BY <2>3, <2>4, <3>1, <3>2
  <2>5. CASE \E t \in Threads : t # u /\ Rename(t)
    BY <1>2, <2>3, <2>4, <2>5
  <2>6. CASE \A t \in Threads : ~Rename(t)
    <3>1. /\ minted' = minted /\ reset' = reset
          /\ file' = file \/ \E t \in Threads : RemoveOld(t)
      BY <2>6 DEF QuietStep, LoudStep, Decide, Return, RememberCode, TakeCode, RemoveOld, history
    <3>2. \A s \in Stores : file'[s] \in {file[s], Absent}
      BY <3>1 DEF RemoveOld, TypeInv
    <3>3. th'[u].pc = "written" => th[u].pc = "written"
      BY <1>2, <2>6
    <3>4. Made(u)'
      BY <1>2, <2>1, <2>6, <3>1, MadeKept
    <3> QED BY <1>2, <2>1, <3>1, <3>2, <3>3, <3>4 DEF Stores
  <2> QED BY <2>2, <2>5, <2>6
<1> QED BY <1>1, <1>2, StillWriting

-----------------------------------------------------------------------------
(* Tokens and codes are unknown before their request has made them.        *)

\* A write is the last thing a request does, but for the consent to a code.
LEMMA ReturnEnds ==
    ASSUME TypeInv, NEW t \in Threads, Return(t)
    PROVE  \/ th'[t] = Idle
           \/ /\ Kind(t) = "authorize" /\ Op(t) = "create_pairing" /\ th[t].k = 4
              /\ DOMAIN th'[t] = Fields /\ th'[t].job = th[t].job /\ th'[t].k = 5 /\ th'[t].pc = "memory"
              /\ th'[t].grant = th[t].grant /\ th'[t].barred = th[t].barred
              /\ Op(t)' = "remember_code"
<1>1. /\ Went(t) /\ Runs(t) /\ th[t].pc = "written" /\ ThreadOK(t)
      /\ Op(t) \in GrantWriters \/ Op(t) \in TenantWriters
  BY ReturnStep DEF TypeInv
<1>2. /\ th[t].job \in Jobs /\ th[t].k \in 1 .. Len(Plan(th[t].job)) /\ Len(Plan(th[t].job)) \in Nat
      /\ Fits(th[t].job, th[t].k, Op(t), Kind(t), th[t].k = Len(Plan(th[t].job)))
      /\ Suits(th[t].k, Op(t), Kind(t), th[t].k = Len(Plan(th[t].job)))
  BY <1>1, WhatIsServed DEF Runs
<1>3. CASE th'[t] = Idle
  BY <1>3
<1>4. CASE th[t].k < Len(Plan(th[t].job)) /\ Entered(t, th[t].job, th[t].k + 1)
  <2>1. th[t].k # Len(Plan(th[t].job))
    BY <1>2, <1>4
  <2>2. Op(t) \in {"issue", "redeem", "create_pairing", "revoke", "register"} \cup (Mutators \ {"redeem"})
    BY <1>1 DEF GrantWriters, TenantWriters, TenantOps, Readers, Mutators
  <2>3. Op(t) = "create_pairing" /\ Kind(t) = "authorize"
    BY <1>2, <2>1, <2>2 DEF Fits
  <2>4. th[t].k = 4
    BY <1>2, <2>3 DEF Suits
  <2>5. /\ DOMAIN th'[t] = Fields /\ th'[t].job = th[t].job /\ th'[t].k = 5
        /\ th'[t].pc = StartOf(Plan(th[t].job)[5])
        /\ th'[t].grant = th[t].grant /\ th'[t].barred = th[t].barred
    BY <1>4, <2>4 DEF Entered
  <2>6. 5 \in 1 .. Len(Plan(th[t].job))
    BY <1>2, <1>4, <2>4
  <2>7. Suits(5, Plan(th[t].job)[5], Kind(t), 5 = Len(Plan(th[t].job)))
    BY <1>2, <2>6, OperationsOf DEF Kind
  <2>8. Plan(th[t].job)[5] = "remember_code"
    BY <2>3, <2>7 DEF Suits
  <2>9. StartOf("remember_code") = "memory"
    BY DEF StartOf, Checks, InMemory
  <2> QED BY <2>3, <2>4, <2>5, <2>8, <2>9 DEF Op
<1> QED BY <1>1, <1>3, <1>4 DEF Went

LEMMA KindIs ==
    ASSUME NEW t \in Threads, ThreadOK(t), th[t].pc # "idle", th[t].job \in Jobs
    PROVE  /\ Mints(th[t].job) <=> Kind(t) \in {"exchange", "redeem", "cli_grant"}
           /\ Creates(th[t].job) <=> Kind(t) \in {"authorize", "admin_pair"}
           /\ Creates(th[t].job) => Op(t) # "open" /\ Op(t) # "take_code"
<1>1. Suits(th[t].k, Op(t), Kind(t), th[t].k = Len(Plan(th[t].job)))
  BY WhatIsServed DEF Runs
<1> QED BY <1>1 DEF Mints, Creates, Kind, Suits

LEMMA UndecidedBefore ==
    ASSUME TypeInv, LockInv, QuietStep \/ LoudStep, NEW job \in Jobs, Mints(job), Undecided(job)'
    PROVE  Undecided(job)
<1>0. /\ todo' \subseteq todo /\ job # NoJob /\ job # Boot /\ \A t \in Threads : ThreadOK(t)
  BY LoudMoves, ConstantsAssumption DEF QuietStep, TypeInv
<1> SUFFICES ASSUME NEW u \in Threads, th'[u].job = job, th'[u].pc \notin Writing \/ Op(u)' = "open"
             PROVE  Undecided(job)
  BY <1>0 DEF Undecided
<1>1. CASE th'[u] = th[u]
  BY <1>1, Same DEF Undecided
<1>2. CASE Turned(u)
  <2>1. CASE th'[u] = Idle
    BY <1>0, <2>1, IdleIs
  <2>2. CASE Begun(u)
    BY <1>0, <2>2 DEF Begun, Entered, Undecided
  <2>3. CASE Advanced(u)
    <3>1. th[u].job = job /\ th[u].pc # "idle"
      BY <1>0, <2>3 DEF Advanced, Entered, Busy, ThreadOK, StepsOf, Writing
    <3>2. th[u].pc \in StepsOf(Op(u))
      BY <1>0, <3>1, WhatIsServed
    <3>3. th[u].pc \notin Writing \/ Op(u) = "open"
      BY <2>3, <3>2 DEF Advanced, StepsOf, Checks, Writing
    <3> QED BY <3>1, <3>3 DEF Undecided
  <2>4. CASE Worked(u)
    <3>1. th[u].job = job /\ th'[u].k = th[u].k
      BY <2>4 DEF Worked, Moved
    <3>2. Op(u)' = Op(u)
      BY <2>4, <3>1, SameOperation
    <3>3. th[u].pc \notin Writing \/ Op(u) = "open"
      BY <2>4, <3>2 DEF Worked, Writing
    <3> QED BY <3>1, <3>3 DEF Undecided
  <2> QED BY <1>2, <2>1, <2>2, <2>3, <2>4 DEF Turned
<1>3. CASE QuietStep
  BY <1>0, <1>1, <1>2, <1>3, IdleIs DEF QuietStep, Others
<1>4. ASSUME NEW t \in Threads, RemoveOld(t) \/ Rename(t)
      PROVE  Undecided(job)
  <2>1. Others(t) /\ Moved(t, th'[t].pc) /\ th'[t].pc \in Writing /\ Op(t)' = Op(t)
    BY <1>4, ReplaceStep
  <2> QED BY <1>1, <2>1 DEF Others, Moved, Undecided
<1>5. ASSUME NEW t \in Threads, Decide(t)
      PROVE  Undecided(job)
  <2>1. Struck(t, Restores(Op(t), Request(t))) /\ th[t].pc = "read" /\ Moved(t, "temp")
    BY <1>5, DecideStep
  <2>2. CASE u = t
    BY <2>1, <2>2 DEF Moved, Undecided, Writing
  <2>3. CASE u # t
    <3>1. th'[u].job = th[u].job /\ th'[u].k = th[u].k /\ th'[u].pc = th[u].pc
      BY <2>1, <2>3 DEF Struck
    <3> QED BY <3>1, SameOperation DEF Undecided
  <2> QED BY <2>2, <2>3
<1>6. ASSUME NEW t \in Threads, Return(t)
      PROVE  Undecided(job)
  <2>1. Others(t) /\ ThreadOK(t) /\ th[t].pc = "written"
    BY <1>0, <1>6, ReturnStep
  <2>2. CASE u = t
    <3>1. Kind(t) = "authorize" /\ th[t].job = job
      BY <1>0, <1>6, <2>2, ReturnEnds, IdleIs
    <3> QED BY <2>1, <3>1, KindIs
  <2> QED BY <1>1, <2>1, <2>2 DEF Others
<1>7. ASSUME NEW t \in Threads, RememberCode(t) \/ TakeCode(t)
      PROVE  Undecided(job)
  <2>1. /\ Others(t)
        /\ th'[t] = Idle \/ (th'[t].job = th[t].job /\ th[t].pc = "memory")
    BY <1>7, RememberStep, TakeCodeStep
  <2> QED BY <1>0, <1>1, <2>1, IdleIs DEF Others, Undecided, Writing
<1> QED BY <1>3, <1>4, <1>5, <1>6, <1>7 DEF LoudStep

LEMMA UncreatedBefore ==
    ASSUME TypeInv, LockInv, QuietStep \/ LoudStep, NEW job \in Jobs, Creates(job), Uncreated(job)'
    PROVE  Uncreated(job)
<1>0. /\ todo' \subseteq todo /\ job # NoJob /\ job # Boot /\ \A t \in Threads : ThreadOK(t)
  BY LoudMoves, ConstantsAssumption DEF QuietStep, TypeInv
<1> SUFFICES ASSUME NEW u \in Threads, th'[u].job = job, th'[u].pc \notin Writing, Op(u)' # "remember_code"
             PROVE  Uncreated(job)
  BY <1>0 DEF Uncreated
<1>1. CASE th'[u] = th[u]
  BY <1>1, Same DEF Uncreated
<1>2. CASE Turned(u)
  <2>1. CASE th'[u] = Idle
    BY <1>0, <2>1, IdleIs
  <2>2. CASE Begun(u)
    BY <1>0, <2>2 DEF Begun, Entered, Uncreated
  <2>3. CASE Advanced(u)
    <3>1. th[u].job = job /\ th[u].pc # "idle"
      BY <1>0, <2>3 DEF Advanced, Entered, Busy, ThreadOK, StepsOf, Writing
    <3>2. th[u].pc \in StepsOf(Op(u)) /\ Op(u) # "open"
      BY <1>0, <3>1, WhatIsServed, KindIs
    <3>3. th[u].pc \notin Writing /\ Op(u) # "remember_code"
      BY <2>3, <3>2 DEF Advanced, StepsOf, Checks, Writing, InMemory
    <3> QED BY <3>1, <3>3 DEF Uncreated
  <2>4. CASE Worked(u)
    <3>1. Op(u)' = Op(u) /\ th[u].job = job
      BY <2>4, SameOperation DEF Worked, Moved
    <3>2. th[u].pc \notin Writing
      BY <2>4 DEF Worked, Writing
    <3> QED BY <3>1, <3>2 DEF Uncreated
  <2> QED BY <1>2, <2>1, <2>2, <2>3, <2>4 DEF Turned
<1>3. CASE QuietStep
  BY <1>0, <1>1, <1>2, <1>3, IdleIs DEF QuietStep, Others
<1>4. ASSUME NEW t \in Threads, RemoveOld(t) \/ Rename(t)
      PROVE  Uncreated(job)
  <2>1. Others(t) /\ th'[t].pc \in Writing
    BY <1>4, ReplaceStep
  <2> QED BY <1>1, <2>1 DEF Others
<1>5. ASSUME NEW t \in Threads, Decide(t)
      PROVE  Uncreated(job)
  <2>1. Struck(t, Restores(Op(t), Request(t))) /\ Moved(t, "temp")
    BY <1>5, DecideStep
  <2>2. u # t
    BY <2>1 DEF Moved, Writing
  <2>3. th'[u].job = th[u].job /\ th'[u].k = th[u].k /\ th'[u].pc = th[u].pc
    BY <2>1, <2>2 DEF Struck
  <2> QED BY <2>3, SameOperation DEF Uncreated
<1>6. ASSUME NEW t \in Threads, Return(t)
      PROVE  Uncreated(job)
  <2>1. Others(t)
    BY <1>6, ReturnStep
  <2>2. u # t
    BY <1>0, <1>6, ReturnEnds, IdleIs
  <2> QED BY <1>1, <2>1, <2>2 DEF Others
<1>7. ASSUME NEW t \in Threads, RememberCode(t) \/ TakeCode(t)
      PROVE  Uncreated(job)
  <2>1. /\ Others(t)
        /\ th'[t] = Idle \/ (th'[t].job = th[t].job /\ th[t].pc = "memory" /\ Op(t) = "take_code")
    BY <1>7, RememberStep, TakeCodeStep
  <2>2. u # t
    BY <1>0, <2>1, IdleIs, KindIs
  <2> QED BY <1>1, <2>1, <2>2 DEF Others
<1> QED BY <1>3, <1>4, <1>5, <1>6, <1>7 DEF LoudStep

\* Opening a store afresh adds an empty one to the states of the grants.
LEMMA StatesRenamed ==
    ASSUME TypeInv, NEW t \in Threads, RemoveOld(t) \/ Rename(t) \/ RememberCode(t) \/ TakeCode(t)
    PROVE  /\ States("grants")' \subseteq States("grants") \cup {NewGrantStore}
           /\ States("tenants")' \subseteq States("tenants")
<1>1. CASE Rename(t) /\ Op(t) = "open"
  <2>1. States("grants")' \subseteq States("grants") \cup {NewGrantStore}
    BY <1>1, StatesOpened DEF Stores
  <2>2. file' = [file EXCEPT !["grants"] = NewGrantStore] /\ Others(t) /\ At(t)' = "grants"
    BY <1>1, ReplaceStep DEF Rename
  <2>3. \A u \in Threads : Writes1(u, "tenants")' => Writes1(u, "tenants") /\ th'[u].next = th[u].next
    BY <2>2, Same DEF Others, Writes1
  <2>4. file'["tenants"] = file["tenants"]
    BY <2>2
  <2> QED BY <2>1, <2>3, <2>4, StatesShrink
<1>2. CASE ~(Rename(t) /\ Op(t) = "open")
  BY <1>2, StatesKept DEF Stores
<1> QED BY <1>1, <1>2

\* The history that each step adds to.
LEMMA RedatedIs ==
    ASSUME NEW op, NEW s, NEW r, NEW t, NEW d \in Redated(op, s, r, t)
    PROVE  \E e \in delivered : e[1] = d[1]
BY DEF Redated

LEMMA FreshTokens ==
    ASSUME TypeInv, LockInv, JobsInv, FreshInv, QuietStep \/ LoudStep,
           NEW job \in Jobs, Mints(job), Undecided(job)', NEW g, g = Job[job].new
    PROVE  /\ \A x \in States("grants")' : g \notin DOMAIN x.grants
           /\ \A b \in barred' : b[1] = "grant" => b[2] # g
           /\ \A d \in delivered' : d[1] # g
<1>1. Undecided(job)
  BY UndecidedBefore
<1>2. /\ \A x \in States("grants") : g \notin DOMAIN x.grants
      /\ \A b \in barred : b[1] = "grant" => b[2] # g
      /\ \A d \in delivered : d[1] # g
  BY <1>1 DEF FreshInv
<1>3. Alive(job)
  BY <1>1 DEF Undecided, Alive
<1>4. \A t \in Threads : th[t].job \in Jobs /\ Mints(th[t].job) /\ Job[th[t].job].new = g => th[t].job = job
  BY <1>3 DEF JobsInv, Alive
<1>5. CASE QuietStep
  BY <1>2, <1>5, StatesQuiet DEF Stores, QuietStep
<1>6. ASSUME NEW t \in Threads, RemoveOld(t) \/ Rename(t) \/ RememberCode(t) \/ TakeCode(t)
      PROVE  /\ \A x \in States("grants")' : g \notin DOMAIN x.grants
             /\ \A b \in barred' : b[1] = "grant" => b[2] # g
             /\ \A d \in delivered' : d[1] # g
  <2>1. States("grants")' \subseteq States("grants") \cup {NewGrantStore}
    BY <1>6, StatesRenamed
  <2>2. barred' = barred
    BY <1>6 DEF RemoveOld, Rename, RememberCode, TakeCode, history
  <2>3. delivered' = delivered \/ delivered' = Redated(Op(t), th[t].next, Request(t), t)
    BY <1>6 DEF RemoveOld, Rename, RememberCode, TakeCode, history
  <2>4. \A d \in delivered' : d[1] # g
    BY <1>2, <2>3, RedatedIs
  <2> QED BY <1>2, <2>1, <2>2, <2>4, AfreshIs
<1>7. ASSUME NEW t \in Threads, Decide(t)
      PROVE  /\ \A x \in States("grants")' : g \notin DOMAIN x.grants
             /\ \A b \in barred' : b[1] = "grant" => b[2] # g
             /\ \A d \in delivered' : d[1] # g
  <2>1. barred' \subseteq barred /\ delivered' = delivered
    BY <1>7 DEF Decide
  <2>2. States("grants")' \subseteq States("grants") \cup (IF "grants" = At(t) THEN {th'[t].next} ELSE {})
    BY <1>7, StatesDecided DEF Stores
  <2>3. ASSUME At(t) = "grants", NEW x, x = th'[t].next, NEW op, op = Op(t), NEW r, r = Request(t),
               NEW s, s = file["grants"]
        PROVE  g \notin DOMAIN x.grants
    <3>1. /\ op \in GrantWriters /\ s \in States("grants") /\ GrantsChange(t, op, r, s, x)
          /\ th[t].job \in Jobs /\ r = Job[th[t].job]
          /\ op \in {"issue", "redeem"} => Mints(th[t].job)
      BY <1>7, <2>3, GrantsDecided
    <3>2. DOMAIN x.grants \subseteq DOMAIN s.grants \cup (IF op \in {"issue", "redeem"} THEN {r.new} ELSE {})
      <4>1. op \in {"create_pairing", "prune_expired_pairings", "register"} => x.grants = s.grants
        BY <3>1 DEF GrantsChange
      <4>2. op \in {"issue", "redeem"} => DOMAIN x.grants = DOMAIN s.grants \cup {r.new}
        BY <3>1 DEF GrantsChange
      <4>3. op \in {"revoke", "expire", "remove_workspace"} => DOMAIN x.grants = DOMAIN s.grants
        BY <3>1 DEF GrantsChange
      <4>4. op = "prune_expired" => DOMAIN x.grants \subseteq DOMAIN s.grants
        BY <3>1 DEF GrantsChange
      <4> QED BY <3>1, <4>1, <4>2, <4>3, <4>4 DEF GrantWriters
    <3>3. op \in {"issue", "redeem"} => r.new # g
      <4>1. SUFFICES ASSUME op \in {"issue", "redeem"}, r.new = g
                     PROVE  FALSE
        OBVIOUS
      <4>2. th[t].job = job
        BY <1>4, <3>1, <4>1
      <4>3. th'[t].pc \in Writing /\ Op(t)' = Op(t) /\ th'[t].job = job
        BY <1>7, <4>2, DecideStep, SameOperation DEF Moved, Writing
      <4>4. JobsInv'
        BY JobsStep
      <4>5. \A u \in Threads : th'[u].job = job => u = t
        BY <4>3, <4>4 DEF JobsInv, Runs
      <4>6. job \notin todo'
        BY <4>3, <4>4 DEF JobsInv
      <4> QED BY <2>3, <4>1, <4>3, <4>5, <4>6 DEF Undecided
    <3> QED BY <1>2, <3>1, <3>2, <3>3
  <2> QED BY <1>2, <2>1, <2>2, <2>3
<1>8. ASSUME NEW t \in Threads, Return(t), NEW op, op = Op(t), NEW r, r = Request(t), NEW n, n = th[t].next
      PROVE  /\ \A x \in States("grants")' : g \notin DOMAIN x.grants
             /\ \A b \in barred' : b[1] = "grant" => b[2] # g
             /\ \A d \in delivered' : d[1] # g
  <2>1. States("grants")' \subseteq States("grants")
    BY <1>8, StatesKept DEF Stores
  <2>2. /\ op \in GrantWriters => n \in States("grants")
        /\ op \in GrantWriters \/ op \in TenantWriters
    BY <1>8, ReturnStep, StatesReturned DEF TenantWriters, GrantWriters, TenantOps
  <2>a. /\ Runs(t) /\ th[t].pc # "idle" /\ ThreadOK(t)
    BY <1>8, ReturnStep DEF TypeInv
  <2>b. th[t].job \in Jobs /\ th[t].k \in 1 .. Len(Plan(th[t].job))
    BY <2>a, WhatIsServed DEF Runs
  <2>c. RequestFits(t, op, r)
    <3>1. op = Op(t) /\ r = Request(t)
      BY <1>8
    <3> QED BY <2>b, <3>1, RequestIs
  <2>3. \A b \in Bars(op, n, r, t) : b[1] = "grant" => b[2] # g
    <3>1. \A b \in Bars(op, n, r, t) : b[1] = "grant" =>
              /\ b[2] = r.target /\ op \in {"revoke", "remove_workspace"}
              /\ Found(n, Targeted(r, t)) \/ Found(n, r)
      BY DEF Bars
    <3>2. op = "revoke" => Targeted(r, t).target = r.target
      BY <2>c DEF RequestFits
    <3>3. op = "remove_workspace" => Targeted(r, t) = r
      BY <2>c DEF RequestFits
    <3>4. op \in {"revoke", "remove_workspace"} /\ (Found(n, Targeted(r, t)) \/ Found(n, r)) =>
              r.target \in DOMAIN n.grants
      BY <3>2, <3>3 DEF Found
    <3>5. op \in {"revoke", "remove_workspace"} => n \in States("grants")
      BY <2>2 DEF GrantWriters
    <3> QED BY <1>2, <3>1, <3>4, <3>5
  <2>4. \A b \in barred' : b[1] = "grant" => b[2] # g
    BY <1>2, <1>8, <2>3 DEF Return
  <2>5. op \in {"issue", "redeem"} => r.new # g
    <3>1. SUFFICES ASSUME op \in {"issue", "redeem"}, r.new = g
                   PROVE  FALSE
      OBVIOUS
    <3>2. Mints(th[t].job) /\ th[t].job \in Jobs /\ r = Job[th[t].job]
      <4>1. th[t].job \in Jobs /\ r = Job[th[t].job]
        BY <1>8, <2>b DEF Request
      <4> QED BY <2>c, <3>1, <4>1 DEF RequestFits
    <3>3. th[t].job = job /\ th[t].pc \in Writing /\ op # "open"
      BY <1>4, <1>8, <3>1, <3>2, ReturnStep DEF Writing
    <3>4. \A u \in Threads : th[u].job = job => u = t
      BY <3>3 DEF JobsInv, Runs
    <3>5. job \notin todo
      BY <3>3 DEF JobsInv
    <3> QED BY <1>1, <1>8, <3>3, <3>4, <3>5 DEF Undecided
  <2>6. delivered' = delivered \cup (IF op \in {"issue", "redeem"} THEN {<<r.new, n.grants[r.new].expires>>} ELSE {})
    BY <1>8 DEF Return
  <2>7. \A d \in delivered' : d[1] # g
    BY <1>2, <2>5, <2>6
  <2> QED BY <1>2, <2>1, <2>4, <2>7
<1> QED BY <1>5, <1>6, <1>7, <1>8 DEF LoudStep

LEMMA FreshCodes ==
    ASSUME TypeInv, LockInv, JobsInv, FreshInv, QuietStep \/ LoudStep,
           NEW job \in Jobs, Creates(job), Uncreated(job)', NEW c, c = Job[job].code
    PROVE  /\ \A x \in States("grants")' : c \notin DOMAIN x.pairings
           /\ \A m \in minted' : m[1] # c
           /\ \A t \in Threads : Runs(t)' /\ th'[t].pc \in Writing /\ Op(t)' = "redeem" => Request(t)'.code # c
<1>1. Uncreated(job)
  BY UncreatedBefore
<1>2. /\ \A x \in States("grants") : c \notin DOMAIN x.pairings
      /\ \A m \in minted : m[1] # c
      /\ \A t \in Threads : Runs(t) /\ th[t].pc \in Writing /\ Op(t) = "redeem" => Request(t).code # c
  BY <1>1 DEF FreshInv
<1>3. Alive(job)
  BY <1>1 DEF Uncreated, Alive
<1>4. ASSUME NEW t \in Threads, Runs(t)', th'[t].pc \in Writing, Op(t)' = "redeem"
      PROVE  Request(t)'.code # c
  <2>1. CASE Decide(t)
    <3>1. Op(t)' = Op(t) /\ Request(t)' = Request(t) /\ At(t) = "grants"
      BY <1>4, <2>1, DecideStep, SameOperation DEF Moved, At, StoreOf, TenantOps
    <3>2. /\ file["grants"] \in States("grants")
          /\ Redeems(t, Op(t), Request(t), file["grants"], th'[t].next)
      BY <2>1, <3>1, GrantsDecided
    <3> QED BY <1>2, <1>4, <3>1, <3>2 DEF Redeems
  <2>2. CASE ~Decide(t)
    <3>1. /\ th[t].pc \in Writing /\ Op(t)' = Op(t) /\ Request(t)' = Request(t) /\ Runs(t)' = Runs(t)
      BY <1>4, <2>2, StillWriting
    <3> QED BY <1>2, <1>4, <3>1
  <2> QED BY <2>1, <2>2
<1>5. CASE QuietStep
  BY <1>2, <1>4, <1>5, StatesQuiet DEF Stores, QuietStep
<1>6. ASSUME NEW t \in Threads, RemoveOld(t) \/ Rename(t) \/ RememberCode(t) \/ TakeCode(t)
      PROVE  /\ \A x \in States("grants")' : c \notin DOMAIN x.pairings
             /\ \A m \in minted' : m[1] # c
  <2>1. States("grants")' \subseteq States("grants") \cup {NewGrantStore}
    BY <1>6, StatesRenamed
  <2>2. minted' = minted \/ /\ Rename(t) /\ Op(t) = "redeem"
                            /\ minted' = minted \cup {<<Request(t).code, Request(t).new>>}
    BY <1>6 DEF RemoveOld, Rename, RememberCode, TakeCode, history
  <2>3. Rename(t) /\ Op(t) = "redeem" => Request(t).code # c
    <3>1. Rename(t) /\ Op(t) = "redeem" => th[t].pc \in Writing /\ Op(t) \notin Readers /\ Op(t) # "open"
      BY DEF Rename, Writing, Readers
    <3>2. Rename(t) /\ Op(t) = "redeem" => Runs(t)
      BY <3>1, WriterIs DEF TypeInv
    <3> QED BY <1>2, <3>1, <3>2
  <2> QED BY <1>2, <2>1, <2>2, <2>3, AfreshIs
<1>7. ASSUME NEW t \in Threads, Decide(t)
      PROVE  /\ \A x \in States("grants")' : c \notin DOMAIN x.pairings
             /\ \A m \in minted' : m[1] # c
  <2>1. minted' = minted
    BY <1>7 DEF Decide
  <2>2. States("grants")' \subseteq States("grants") \cup (IF "grants" = At(t) THEN {th'[t].next} ELSE {})
    BY <1>7, StatesDecided DEF Stores
  <2>3. ASSUME At(t) = "grants", NEW x, x = th'[t].next, NEW op, op = Op(t), NEW r, r = Request(t),
               NEW s, s = file["grants"]
        PROVE  c \notin DOMAIN x.pairings
    <3>1. /\ s \in States("grants") /\ PairingsChange(op, r, s, x)
          /\ th[t].job \in Jobs /\ r = Job[th[t].job]
          /\ op = "create_pairing" => Creates(th[t].job)
      BY <1>7, <2>3, GrantsDecided
    <3>2. DOMAIN x.pairings \subseteq DOMAIN s.pairings \cup (IF op = "create_pairing" THEN {r.code} ELSE {})
      BY <3>1 DEF PairingsChange
    <3>3. op = "create_pairing" => r.code # c
      <4>1. SUFFICES ASSUME op = "create_pairing", r.code = c
                     PROVE  FALSE
        OBVIOUS
      <4>2. th[t].job = job
        BY <1>3, <3>1, <4>1 DEF JobsInv, Alive
      <4>3. th'[t].pc \in Writing /\ th'[t].job = job
        BY <1>7, <4>2, DecideStep DEF Moved, Writing
      <4>4. JobsInv'
        BY JobsStep
      <4>5. \A u \in Threads : th'[u].job = job => u = t
        BY <4>3, <4>4 DEF JobsInv, Runs
      <4>6. job \notin todo'
        BY <4>3, <4>4 DEF JobsInv
      <4> QED BY <4>3, <4>5, <4>6 DEF Uncreated
    <3> QED BY <1>2, <3>1, <3>2, <3>3
  <2> QED BY <1>2, <2>1, <2>2, <2>3
<1>8. ASSUME NEW t \in Threads, Return(t)
      PROVE  /\ \A x \in States("grants")' : c \notin DOMAIN x.pairings
             /\ \A m \in minted' : m[1] # c
  BY <1>2, <1>8, StatesKept DEF Stores, Return
<1> QED BY <1>4, <1>5, <1>6, <1>7, <1>8 DEF LoudStep

LEMMA FreshStep ==
    ASSUME TypeInv, LockInv, JobsInv, FreshInv, QuietStep \/ LoudStep
    PROVE  FreshInv'
<1> DEFINE Tokens == \A job \in Jobs : Mints(job) /\ Undecided(job) =>
                        LET g == Job[job].new IN
                        /\ \A x \in States("grants") : g \notin DOMAIN x.grants
                        /\ \A b \in barred : b[1] = "grant" => b[2] # g
                        /\ \A d \in delivered : d[1] # g
<1>1. Tokens'
  <2> SUFFICES ASSUME NEW job \in Jobs, Mints(job), Undecided(job)'
               PROVE  /\ \A x \in States("grants")' : Job[job].new \notin DOMAIN x.grants
                      /\ \A b \in barred' : b[1] = "grant" => b[2] # Job[job].new
                      /\ \A d \in delivered' : d[1] # Job[job].new
    BY DEF Mints
  <2> QED BY FreshTokens
<1> DEFINE Codes == \A job \in Jobs : Creates(job) /\ Uncreated(job) =>
                        /\ \A x \in States("grants") : Job[job].code \notin DOMAIN x.pairings
                        /\ \A m \in minted : m[1] # Job[job].code
                        /\ \A t \in Threads : Runs(t) /\ th[t].pc \in Writing /\ Op(t) = "redeem" =>
                              Request(t).code # Job[job].code
<1>2. Codes'
  <2> SUFFICES ASSUME NEW job \in Jobs, Creates(job), Uncreated(job)'
               PROVE  /\ \A x \in States("grants")' : Job[job].code \notin DOMAIN x.pairings
                      /\ \A m \in minted' : m[1] # Job[job].code
                      /\ \A t \in Threads : Runs(t)' /\ th'[t].pc \in Writing /\ Op(t)' = "redeem" =>
                            Request(t)'.code # Job[job].code
    BY DEF Creates
  <2> QED BY FreshCodes
<1>3. FreshInv' <=> Tokens' /\ Codes'
  BY DEF FreshInv
<1> HIDE DEF Tokens, Codes
<1> QED BY <1>1, <1>2, <1>3

-----------------------------------------------------------------------------
(* Nobody acts on what was taken away before it came.                      *)

LEMMA StandsKept ==
    ASSUME NEW u \in Threads, Stands(u), th'[u].job = th[u].job, th'[u].k = th[u].k,
           th'[u].grant = th[u].grant, th'[u].barred \subseteq th[u].barred,
           th'[u].barred \subseteq barred', th'[u].pc = "granted" => th[u].pc = "granted"
    PROVE  Stands(u)'
<1>1. Request(u)' = Request(u)
  BY SameOperation
<1>2. \A k : Past(u, k)' => Past(u, k)
  BY DEF Past
<1>3. \A r, g : StandsOn(r, g)' = StandsOn(r, g)
  BY DEF StandsOn
<1> QED BY <1>1, <1>2, <1>3 DEF Stands

\* What an acting request's operations are.
LEMMA ActingIs ==
    ASSUME TypeInv, NEW t \in Threads, Runs(t), Kind(t) \in ActingKinds
    PROVE  /\ th[t].k \in {1, 2, 3} /\ Busy(t) /\ th[t].pc # "idle" /\ th[t].pc \in StepsOf(Op(t))
           /\ th[t].k = 1 => Op(t) = "validate" /\ At(t) = "grants"
           /\ th[t].k = 2 => Op(t) = "verify_gateway" /\ At(t) = "tenants"
           /\ th[t].k = 3 => /\ \/ Op(t) = "verify_tool" /\ Kind(t) \in Tools /\ At(t) = "tenants"
                                \/ Op(t) = "verify_prepared" /\ Kind(t) \in Tools /\ At(t) = "tenants"
                                \/ Op(t) = "verify_listed" /\ Kind(t) \in Status /\ At(t) = "tenants"
                                \/ Op(t) \in {"revoke", "create_pairing"} /\ Kind(t) \in Admin /\ At(t) = "grants"
           /\ th[t].k = Len(Plan(th[t].job)) <=> th[t].k = 3
           /\ th[t].job # Boot
<1>1. th[t].pc # "idle" /\ ThreadOK(t) /\ th[t].job # Boot /\ th[t].job # NoJob
  BY ConstantsAssumption DEF TypeInv, ThreadOK, Runs, Busy, StepsOf, Writing
<1>2. /\ Fits(th[t].job, th[t].k, Op(t), Kind(t), th[t].k = Len(Plan(th[t].job)))
      /\ Suits(th[t].k, Op(t), Kind(t), th[t].k = Len(Plan(th[t].job)))
      /\ th[t].pc \in StepsOf(Op(t)) /\ Busy(t)
  BY <1>1, WhatIsServed
<1>3. /\ th[t].k \in {1, 2, 3}
      /\ th[t].k = 1 => Op(t) = "validate"
      /\ th[t].k = 2 => Op(t) = "verify_gateway"
      /\ th[t].k = 3 => th[t].k = Len(Plan(th[t].job))
                        /\ Op(t) \in {"verify_tool", "verify_prepared", "verify_listed",
                                      "revoke", "create_pairing"}
  BY <1>2 DEF Suits
<1>4. /\ Op(t) \in {"validate", "verify_gateway"} => th[t].k # Len(Plan(th[t].job))
      /\ Op(t) \in {"verify_tool", "verify_prepared"} => Kind(t) \in Tools
      /\ Op(t) = "verify_listed" => Kind(t) \in Status
      /\ Op(t) = "revoke" => Kind(t) \in {"admin_revoke", "cli_revoke"}
      /\ Op(t) = "create_pairing" => Kind(t) \in {"authorize", "admin_pair"}
  BY <1>2 DEF Fits
<1>5. /\ Op(t) = "revoke" => Kind(t) \in Admin
      /\ Op(t) = "create_pairing" => Kind(t) \in Admin
  BY <1>4 DEF Admin, ActingKinds, Tools, EditTools, WriteTools, TerminalTools, Commits, Status
<1>6. /\ Op(t) \in {"validate", "revoke", "create_pairing"} => At(t) = "grants"
      /\ Op(t) \in {"verify_gateway", "verify_tool", "verify_prepared", "verify_listed"} => At(t) = "tenants"
  BY DEF At, StoreOf, TenantOps
<1> QED BY <1>1, <1>2, <1>3, <1>4, <1>5, <1>6

\* A check that is passed is passed on a store in which what is barred is barred.
LEMMA StandsRead ==
    ASSUME TypeInv, BarredInv, NEW u \in Threads, Runs(u), Kind(u) \in ActingKinds, Stands(u),
           Worked(u), th[u].pc = "read", th'[u].pc \in {"granted", "denied"}, barred' = barred
    PROVE  Stands(u)'
<1> DEFINE s == file[At(u)]
           r == Request(u)
           g == th'[u].grant
           b == th[u].barred
<1>1. /\ th'[u].job = th[u].job /\ th'[u].k = th[u].k /\ th'[u].barred = b /\ s # Absent
      /\ Op(u) \in Readers
      /\ th'[u].pc = "granted" => Op(u) = "device_id" \/ Answers(Op(u), s, r, u)
      /\ g = IF Op(u) = "validate" /\ Answers(Op(u), s, r, u) THEN s.grants[r.token] ELSE th[u].grant
  BY DEF Worked, Moved
<1>2. Request(u)' = r
  BY <1>1, SameOperation
<1>3. b \subseteq barred
  BY DEF Stands
<1>4. CASE th'[u].pc # "granted" /\ g = th[u].grant
  BY <1>1, <1>3, <1>4, StandsKept
<1>5. CASE th[u].k = 1 /\ (th'[u].pc = "granted" \/ g # th[u].grant)
  <2>1. Op(u) = "validate" /\ At(u) = "grants"
    BY <1>5, ActingIs
  <2>2. Answers("validate", s, r, u) /\ g = s.grants[r.token]
    BY <1>1, <1>5, <2>1
  <2>3. r.token \in DOMAIN s.grants /\ ~s.grants[r.token].revoked
    BY <2>2 DEF Answers, Validates, Live
  <2>4. GrantsBarred(s)
    BY <1>1, <2>1 DEF BarredInv, States
  <2> HIDE DEF s
  <2>5. <<"grant", r.token>> \notin b /\ \A w \in g.ws : <<"grant", r.token, w>> \notin b
    BY <1>3, <2>2, <2>3, <2>4 DEF GrantsBarred
  <2>6. ~Past(u, 2)' /\ ~Past(u, 3)'
    BY <1>1, <1>5 DEF Past
  <2> QED BY <1>1, <1>2, <1>3, <2>5, <2>6 DEF Stands
<1>6. CASE th[u].k = 2 /\ (th'[u].pc = "granted" \/ g # th[u].grant)
  <2>1. Op(u) = "verify_gateway" /\ At(u) = "tenants"
    BY <1>6, ActingIs
  <2>2. g = th[u].grant /\ Answers("verify_gateway", s, r, u)
    BY <1>1, <1>6, <2>1
  <2>3. Verifies(s, g, GatewayDevice, {}, RoleOf(r))
    BY <2>2 DEF Answers
  <2>4. TenantsBarred(s)
    BY <1>1, <2>1 DEF BarredInv, States
  <2> HIDE DEF s
  <2>5. <<"member", g.org, g.actor>> \notin b /\ <<"device", g.org, GatewayDevice>> \notin b
    <3>1. /\ <<g.org, g.actor>> \in DOMAIN s.members /\ ~s.members[<<g.org, g.actor>>].revoked
          /\ <<g.org, GatewayDevice>> \in DOMAIN s.devices /\ ~s.devices[<<g.org, GatewayDevice>>].revoked
      BY <2>3 DEF Verifies
    <3> QED BY <1>3, <2>4, <3>1 DEF TenantsBarred
  <2>6. ~Past(u, 3)' /\ Past(u, 1)
    BY <1>1, <1>6 DEF Past
  <2>7. <<"grant", r.token>> \notin b /\ \A w \in g.ws : <<"grant", r.token, w>> \notin b
    BY <2>2, <2>6 DEF Stands
  <2> QED BY <1>1, <1>2, <1>3, <2>5, <2>6, <2>7 DEF Stands
<1>7. CASE th[u].k = 3 /\ (th'[u].pc = "granted" \/ g # th[u].grant)
  <2>1. /\ \/ Op(u) = "verify_tool" /\ Kind(u) \in Tools
           \/ Op(u) = "verify_prepared" /\ Kind(u) \in Tools
           \/ Op(u) = "verify_listed" /\ Kind(u) \in Status
        /\ At(u) = "tenants" /\ r.kind = Kind(u)
    BY <1>1, <1>7, ActingIs DEF Readers, Request, Kind
  <2>2. g = th[u].grant /\ Answers(Op(u), s, r, u)
    BY <1>1, <1>7, <2>1
  <2>4. TenantsBarred(s)
    BY <1>1, <2>1 DEF BarredInv, States
  <2> HIDE DEF s
  <2>5. Past(u, 1) /\ Past(u, 2)
    BY <1>7 DEF Past
  <2>6. /\ <<"grant", r.token>> \notin b /\ \A w \in g.ws : <<"grant", r.token, w>> \notin b
        /\ <<"member", g.org, g.actor>> \notin b /\ <<"device", g.org, GatewayDevice>> \notin b
    BY <2>2, <2>5 DEF Stands
  <2>7. CASE Kind(u) \in Tools
    <3>1. Verifies(s, g, r.device, {r.workspace}, RoleOfTool(r.kind)) \/ Verifies(s, g, r.device, {r.workspace}, "operator")
      BY <2>1, <2>2, <2>7 DEF Answers, Tools, Status, EditTools, WriteTools, TerminalTools, Commits
    <3>2. /\ <<g.org, r.device>> \in DOMAIN s.devices /\ ~s.devices[<<g.org, r.device>>].revoked
          /\ r.workspace \in s.devices[<<g.org, r.device>>].ws /\ r.workspace \in g.ws
      BY <3>1 DEF Verifies
    <3>3. <<"device", g.org, r.device>> \notin b /\ <<"device", g.org, r.device, r.workspace>> \notin b
      BY <1>3, <2>4, <3>2 DEF TenantsBarred
    <3>4. StandsOn(r, g) = {<<"grant", r.token>>, <<"member", g.org, g.actor>>,
                            <<"device", g.org, GatewayDevice>>, <<"device", g.org, r.device>>,
                            <<"device", g.org, r.device, r.workspace>>, <<"grant", r.token, r.workspace>>}
      BY <2>1, <2>7 DEF StandsOn
    <3>5. StandsOn(r, g) \cap b = {}
      BY <2>6, <3>2, <3>3, <3>4
    <3> QED BY <1>1, <1>2, <1>3, <2>6, <3>5 DEF Stands, StandsOn
  <2>8. CASE Kind(u) \in Status
    <3>0. Kind(u) \notin Tools /\ Op(u) = "verify_listed"
      BY <2>1, <2>8 DEF Tools, Status, EditTools, WriteTools, TerminalTools, Commits
    <3>1. PICK w \in g.ws : Verifies(s, g, r.device, {w}, "viewer")
      BY <2>2, <3>0 DEF Answers, Listed
    <3>2. /\ <<g.org, r.device>> \in DOMAIN s.devices /\ ~s.devices[<<g.org, r.device>>].revoked
      BY <3>1 DEF Verifies
    <3>3. <<"device", g.org, r.device>> \notin b
      BY <1>3, <2>4, <3>2 DEF TenantsBarred
    <3>4. StandsOn(r, g) = {<<"grant", r.token>>, <<"member", g.org, g.actor>>,
                            <<"device", g.org, GatewayDevice>>, <<"device", g.org, r.device>>}
      BY <2>1, <2>8, <3>0 DEF StandsOn
    <3>5. StandsOn(r, g) \cap b = {}
      BY <2>6, <3>3, <3>4
    <3> QED BY <1>1, <1>2, <1>3, <2>6, <3>5 DEF Stands, StandsOn
  <2> QED BY <2>1, <2>7, <2>8
<1> QED BY <1>4, <1>5, <1>6, <1>7, ActingIs

LEMMA StandsStep ==
    ASSUME TypeInv, LockInv, BarredInv, StandsInv, QuietStep \/ LoudStep
    PROVE  StandsInv'
<1> SUFFICES ASSUME NEW u \in Threads, Runs(u)', Kind(u)' \in ActingKinds
             PROVE  Stands(u)'
  BY DEF StandsInv
<1>0. /\ th'[u].job \in Jobs /\ th'[u].job # NoJob /\ th'[u].job # Boot
      /\ Job[th'[u].job].kind \in ActingKinds
  BY ConstantsAssumption DEF Runs, Kind
<1>1. ASSUME th'[u].job = th[u].job
      PROVE  Runs(u) /\ Kind(u) \in ActingKinds /\ Stands(u) /\ th[u].barred \subseteq barred
  BY <1>0, <1>1 DEF StandsInv, Runs, Kind, Stands
<1>2. ASSUME th'[u] = th[u], barred \subseteq barred'
      PROVE  Stands(u)'
  BY <1>1, <1>2, StandsKept
<1>3. ASSUME Turned(u), barred' = barred
      PROVE  Stands(u)'
  <2>1. CASE th'[u] = Idle
    BY <1>0, <2>1, IdleIs
  <2>2. CASE Begun(u)
    <3>1. th'[u].k = 1 /\ th'[u].barred = barred /\ th'[u].pc # "granted"
      BY <2>2, StartIs DEF Begun, Entered, Starts
    <3>2. ~Past(u, 1)' /\ ~Past(u, 2)' /\ ~Past(u, 3)'
      BY <3>1 DEF Past
    <3> QED BY <1>3, <3>1, <3>2 DEF Stands
  <2>3. CASE Advanced(u)
    <3>1. /\ th'[u].job = th[u].job /\ th'[u].k = th[u].k + 1 /\ th'[u].pc # "granted"
          /\ th'[u].grant = th[u].grant
      BY <2>3, StartIs DEF Advanced, Entered, Starts
    <3>2. /\ Runs(u) /\ Kind(u) \in ActingKinds /\ Stands(u) /\ th[u].barred \subseteq barred
      BY <1>1, <3>1
    <3>3. th[u].k \in {1, 2, 3} /\ th[u].pc = "granted"
      BY <2>3, <3>2, ActingIs DEF Advanced
    <3>4. th'[u].barred = th[u].barred
      BY <2>3, <3>3 DEF Advanced, Entered
    <3>5. \A k \in {1, 2, 3} : Past(u, k)' => Past(u, k)
      BY <3>1, <3>3 DEF Past
    <3>6. Request(u)' = Request(u) /\ \A r, g : StandsOn(r, g)' = StandsOn(r, g)
      BY <3>1 DEF Request, StandsOn
    <3> QED BY <1>3, <3>1, <3>2, <3>4, <3>5, <3>6 DEF Stands
  <2>4. CASE Worked(u)
    <3>1. th'[u].job = th[u].job /\ th'[u].k = th[u].k /\ th'[u].barred = th[u].barred
      BY <2>4 DEF Worked, Moved
    <3>2. /\ Runs(u) /\ Kind(u) \in ActingKinds /\ Stands(u) /\ th[u].barred \subseteq barred
      BY <1>1, <3>1
    <3>3. CASE th[u].pc = "read" /\ th'[u].pc \in {"granted", "denied"}
      BY <1>3, <2>4, <3>2, <3>3, StandsRead
    <3>4. CASE ~(th[u].pc = "read" /\ th'[u].pc \in {"granted", "denied"})
      <4>1. th'[u].grant = th[u].grant /\ th'[u].pc # "granted"
        BY <2>4, <3>4 DEF Worked
      <4> QED BY <1>3, <3>1, <3>2, <4>1, StandsKept
    <3> QED BY <3>3, <3>4
  <2> QED BY <1>3, <2>1, <2>2, <2>3, <2>4 DEF Turned
<1>4. CASE QuietStep
  BY <1>0, <1>2, <1>3, <1>4, IdleIs DEF QuietStep, Others
<1>5. ASSUME NEW t \in Threads, RemoveOld(t) \/ Rename(t)
      PROVE  Stands(u)'
  <2>1. /\ Others(t) /\ Moved(t, th'[t].pc) /\ th'[t].grant = th[t].grant /\ th'[t].pc \in Writing
        /\ barred' = barred
    BY <1>5, ReplaceStep DEF RemoveOld, Rename, history
  <2>2. u = t => /\ th'[u].job = th[u].job /\ th'[u].k = th[u].k /\ th'[u].barred = th[u].barred
                 /\ th'[u].grant = th[u].grant /\ th'[u].pc # "granted"
    BY <2>1 DEF Moved, Writing
  <2> QED BY <1>1, <1>2, <2>1, <2>2, StandsKept DEF Others
<1>6. ASSUME NEW t \in Threads, Decide(t)
      PROVE  Stands(u)'
  <2> DEFINE again == Restores(Op(t), Request(t))
  <2>1. /\ Struck(t, again) /\ Moved(t, "temp") /\ th'[t].grant = th[t].grant
        /\ barred' = barred \ again
    BY <1>6, DecideStep
  <2> HIDE DEF again
  <2>2. CASE u = t
    <3>1. /\ th'[u].job = th[u].job /\ th'[u].k = th[u].k /\ th'[u].barred = th[u].barred
          /\ th'[u].grant = th[u].grant /\ th'[u].pc # "granted"
      BY <2>1, <2>2 DEF Moved
    <3>2. Op(t) \in {"revoke", "create_pairing"}
      <4>1. th[t].pc = "read" /\ Op(t) \notin Readers
        BY <1>6, DecideStep
      <4> QED BY <1>1, <2>2, <3>1, <4>1, ActingIs DEF Readers
    <3>3. again = {}
      BY <3>2 DEF Restores, again
    <3> QED BY <1>1, <2>1, <3>1, <3>3, StandsKept
  <2>3. CASE u # t
    <3>1. /\ th'[u].job = th[u].job /\ th'[u].k = th[u].k /\ th'[u].barred = th[u].barred \ again
          /\ th'[u].grant = th[u].grant /\ th'[u].pc = th[u].pc
      BY <2>1, <2>3 DEF Struck
    <3> QED BY <1>1, <2>1, <3>1, StandsKept
  <2> QED BY <2>2, <2>3
<1>7. ASSUME NEW t \in Threads, Return(t) \/ RememberCode(t) \/ TakeCode(t)
      PROVE  Stands(u)'
  <2>1. barred \subseteq barred'
    BY <1>7 DEF Return, RememberCode, TakeCode, history
  <2>2. /\ Others(t)
        /\ \/ th'[t] = Idle
           \/ Kind(t) \in {"authorize", "exchange"} /\ th'[t].job = th[t].job
    BY <1>7, ReturnStep, ReturnEnds, RememberStep, TakeCodeStep
  <2>3. u # t
    <3>1. Kind(t) \in {"authorize", "exchange"} => Kind(t) \notin ActingKinds
      BY DEF ActingKinds, Tools, EditTools, WriteTools, TerminalTools, Commits, Status, Admin
    <3> QED BY <1>0, <2>2, <3>1, IdleIs DEF Kind
  <2> QED BY <1>2, <2>1, <2>2, <2>3 DEF Others
<1> QED BY <1>4, <1>5, <1>6, <1>7 DEF LoudStep

\* The two steps in which a request acts.
LEMMA ActsRight ==
    ASSUME TypeInv, StandsInv, NEW t \in Threads, Act(t), th[t].pc = "granted" \/ Op(t) \in GrantWriters,
           th[t].pc # "idle"
    PROVE  acted' \subseteq acted
<1> DEFINE r == Request(t)
           acts == th[t].job # Boot /\ r.kind \in Tools \cup Admin \cup Status
                   /\ th[t].k = Len(Plan(th[t].job))
<1>1. acted' = IF acts THEN acted \cup (StandsOn(r, th[t].grant) \cap th[t].barred) ELSE acted
  BY DEF Act
<1>2. CASE ~acts
  BY <1>1, <1>2
<1>3. CASE acts
  <2>1. Runs(t) /\ Kind(t) \in ActingKinds /\ r.kind = Kind(t)
    BY <1>3, WhatIsServed DEF TypeInv, Runs, Kind, Request, ActingKinds
  <2>2. th[t].k = 3 /\ Stands(t)
    BY <1>3, <2>1, ActingIs DEF StandsInv
  <2>3. CASE th[t].pc = "granted"
    BY <1>1, <2>2, <2>3 DEF Stands, Past
  <2>4. CASE Op(t) \in GrantWriters
    <3>1. Kind(t) \in Admin
      BY <2>1, <2>2, <2>4, ActingIs DEF GrantWriters
    <3>2. Kind(t) \notin Tools /\ Kind(t) \notin Status
      BY <3>1 DEF Tools, Admin, Status, EditTools, WriteTools, TerminalTools, Commits
    <3>3. StandsOn(r, th[t].grant) = {<<"grant", r.token>>, <<"member", th[t].grant.org, th[t].grant.actor>>,
                                      <<"device", th[t].grant.org, GatewayDevice>>}
      BY <2>1, <3>2 DEF StandsOn
    <3> QED BY <1>1, <2>2, <3>3 DEF Stands, Past
  <2> QED BY <2>3, <2>4
<1> QED BY <1>2, <1>3

LEMMA ActedStep ==
    ASSUME TypeInv, StandsInv, [Next]_vars, acted = {}
    PROVE  acted' = {}
<1>1. ASSUME NEW t \in Threads, Answer(t)
      PROVE  acted' = {}
  <2>1. CASE th[t].pc = "granted"
    BY <1>1, <2>1, ActsRight DEF Answer
  <2>2. CASE th[t].pc # "granted"
    BY <1>1, <2>2 DEF Answer
  <2> QED BY <2>1, <2>2
<1>2. ASSUME NEW t \in Threads, Return(t)
      PROVE  acted' = {}
  <2>1. CASE Op(t) \in GrantWriters
    <3>1. th[t].pc # "idle" /\ Act(t)
      BY <1>2 DEF Return
    <3> QED BY <2>1, <3>1, ActsRight
  <2>2. CASE Op(t) \in TenantWriters
    <3>1. /\ th[t].job \in Jobs /\ ThreadOK(t) /\ th[t].pc # "idle" /\ Runs(t)
      BY <1>2, ReturnStep DEF TypeInv, Runs
    <3>2. Kind(t) \notin ActingKinds
      BY <2>2, <3>1, ActingIs DEF TenantWriters, TenantOps, Readers
    <3>3. Request(t).kind \notin Tools \cup Admin \cup Status
      BY <3>2 DEF Kind, Request, ActingKinds
    <3> QED BY <1>2, <3>3 DEF Return, Act
  <2> QED BY <1>2, <2>1, <2>2, ReturnStep
<1>3. ASSUME UNCHANGED acted
      PROVE  acted' = {}
  BY <1>3
<1> USE DEF history
<1>4. ASSUME NEW t \in Threads, TakeLock(t) \/ GiveUp(t) \/ ReadAbsent(t) \/ Read(t) \/ Refuse(t)
      PROVE  UNCHANGED acted
  BY <1>4 DEF TakeLock, GiveUp, ReadAbsent, Read, Refuse
<1>5. ASSUME NEW t \in Threads, Decide(t) \/ Open(t) \/ WriteTemp(t) \/ RemoveOld(t) \/ Rename(t)
      PROVE  UNCHANGED acted
  BY <1>5 DEF Decide, Open, WriteTemp, RemoveOld, Rename
<1>6. ASSUME NEW t \in Threads, Opened(t) \/ CheckRequest(t) \/ RememberCode(t) \/ TakeCode(t)
      PROVE  UNCHANGED acted
  BY <1>6 DEF Opened, CheckRequest, RememberCode, TakeCode
<1>7. ASSUME NEW t \in Threads, Restart(t) \/ FailToWrite(t) \/ \E job \in Jobs : Begin(t, job)
      PROVE  UNCHANGED acted
  BY <1>7 DEF Begin, Restart, FailToWrite
<1>8. ASSUME Tick \/ UNCHANGED vars \/ \E p : Die(p)
      PROVE  UNCHANGED acted
  BY <1>8 DEF Tick, vars, Die
<1>9. ASSUME NEW t \in Threads, Serve(t)
      PROVE  acted' = {}
  BY <1>1, <1>2, <1>3, <1>4, <1>5, <1>6, <1>9 DEF Serve
<1> QED BY <1>3, <1>7, <1>8, <1>9 DEF Next

-----------------------------------------------------------------------------
(* A code is exchanged once.                                               *)

\* Once a new file is in its place, it is the only state its store has.
LEMMA StatesPlaced ==
    ASSUME TypeInv, LockInv, NEW t \in Threads, Rename(t), Op(t) # "open", NEW s, s = At(t)
    PROVE  States(s)' \subseteq {th[t].next} /\ s \in Stores /\ Locks(t, s) /\ Runs(t)
<1>1. /\ Others(t) /\ th'[t].next = th[t].next /\ th[t].pc \in Writing /\ Busy(t) /\ s \in Stores
  BY ReplaceStep
<1>2. /\ file' = [file EXCEPT ![s] = th[t].next] /\ DOMAIN file = Stores
      /\ th[t].pc = "rename"
  BY DEF Rename, TypeInv
<1>3. Locks(t, s) /\ Runs(t)
  <2>1. Op(t) \notin Readers /\ ThreadOK(t)
    BY <1>1, <1>2, WhatIsServed DEF TypeInv, StepsOf, Writing, Checks, InMemory
  <2> QED BY <1>1, <1>2, <2>1, WriterIs DEF Locks, Held, Writing
<1>4. ASSUME NEW u \in Threads, Writes1(u, s)'
      PROVE  th'[u].next = th[t].next
  <2>1. CASE u = t
    BY <1>1, <2>1
  <2>2. CASE u # t
    <3>1. Writes1(u, s)
      BY <1>1, <1>4, <2>2, Same DEF Writes1, Others
    <3> QED BY <1>1, <1>3, <2>2, <3>1, WritesAlone
  <2> QED BY <2>1, <2>2
<1>5. file'[s] = th[t].next
  BY <1>1, <1>2
<1> QED BY <1>1, <1>3, <1>4, <1>5 DEF States

LEMMA MintedStep ==
    ASSUME TypeInv, LockInv, MadeInv, FreshInv, MintedInv, QuietStep \/ LoudStep
    PROVE  MintedInv'
<1>1. ASSUME minted' = minted, States("grants")' \subseteq States("grants") \cup {NewGrantStore}
      PROVE  MintedInv'
  BY <1>1, AfreshIs DEF MintedInv
<1>2. CASE QuietStep
  BY <1>1, <1>2, StatesQuiet DEF QuietStep, Stores
<1>3. ASSUME NEW t \in Threads, RemoveOld(t) \/ RememberCode(t) \/ TakeCode(t)
      PROVE  MintedInv'
  BY <1>1, <1>3, StatesRenamed DEF RemoveOld, RememberCode, TakeCode, history
<1>4. ASSUME NEW t \in Threads, Rename(t)
      PROVE  MintedInv'
  <2>1. CASE Op(t) # "redeem"
    BY <1>1, <1>4, <2>1, StatesRenamed DEF Rename
  <2>2. CASE Op(t) = "redeem"
    <3> DEFINE r == Request(t)
               n == th[t].next
    <3>1. States("grants")' \subseteq {n} /\ Runs(t) /\ n \in States("grants")
      <4>1. At(t) = "grants"
        BY <2>2 DEF At, StoreOf, TenantOps
      <4>2. States("grants")' \subseteq {n} /\ Runs(t) /\ Locks(t, "grants") /\ th[t].pc = "rename"
        BY <1>4, <2>2, <4>1, StatesPlaced DEF Rename
      <4> QED BY <4>2 DEF States, Writes1, Locks, Writing
    <3>2. r.code \notin DOMAIN n.pairings /\ \A m \in minted : m[1] # r.code
      BY <1>4, <2>2, <3>1 DEF MadeInv, Made, Rename, Writing
    <3>3. minted' = minted \cup {<<r.code, r.new>>}
      BY <1>4, <2>2 DEF Rename
    <3> HIDE DEF r, n
    <3>4. \A a, b \in minted' : a[1] = b[1] => a = b
      BY <3>2, <3>3 DEF MintedInv
    <3>5. \A m \in minted' : m[1] \notin DOMAIN n.pairings
      BY <3>1, <3>2, <3>3 DEF MintedInv
    <3> QED BY <3>1, <3>4, <3>5 DEF MintedInv
  <2> QED BY <2>1, <2>2
<1>5. ASSUME NEW t \in Threads, Decide(t)
      PROVE  MintedInv'
  <2>1. minted' = minted
    BY <1>5 DEF Decide
  <2>2. States("grants")' \subseteq States("grants") \cup (IF "grants" = At(t) THEN {th'[t].next} ELSE {})
    BY <1>5, StatesDecided DEF Stores
  <2>3. ASSUME At(t) = "grants", NEW x, x = th'[t].next, NEW op, op = Op(t), NEW r, r = Request(t),
               NEW s, s = file["grants"], NEW m \in minted
        PROVE  m[1] \notin DOMAIN x.pairings
    <3>1. /\ s \in States("grants") /\ PairingsChange(op, r, s, x) /\ th[t].pc = "read"
          /\ th[t].job \in Jobs /\ r = Job[th[t].job]
          /\ op = "create_pairing" => Creates(th[t].job)
      BY <1>5, <2>3, GrantsDecided
    <3>2. DOMAIN x.pairings \subseteq DOMAIN s.pairings \cup (IF op = "create_pairing" THEN {r.code} ELSE {})
      BY <3>1 DEF PairingsChange
    <3>3. op = "create_pairing" => Uncreated(th[t].job)
      BY <2>3, <3>1 DEF Uncreated, Writing
    <3>4. op = "create_pairing" => m[1] # r.code
      BY <3>1, <3>3 DEF FreshInv
    <3> QED BY <3>1, <3>2, <3>4 DEF MintedInv
  <2>4. \A m \in minted', x \in States("grants")' : m[1] \notin DOMAIN x.pairings
    BY <2>1, <2>2, <2>3 DEF MintedInv
  <2> QED BY <2>1, <2>4 DEF MintedInv
<1>6. ASSUME NEW t \in Threads, Return(t)
      PROVE  MintedInv'
  BY <1>1, <1>6, StatesKept DEF Stores, Return
<1> QED BY <1>2, <1>3, <1>4, <1>5, <1>6 DEF LoudStep

-----------------------------------------------------------------------------
(* What was delivered is on file.                                          *)

LEMMA DeliveredDecided ==
    ASSUME TypeInv, FreshInv, DeliveredInv, NEW t \in Threads, Decide(t), At(t) = "grants",
           "grants" \notin reset, NEW d \in delivered
    PROVE  DeliveredBy(t, d)'
<1> SUFFICES ASSUME NEW op, op = Op(t), NEW r, r = Request(t), NEW s, s = file["grants"],
                    NEW x, x = th'[t].next, NEW g, g = d[1]
             PROVE  DeliveredBy(t, d)'
  OBVIOUS
<1>1. /\ op \in GrantWriters /\ Runs(t) /\ th[t].pc = "read" /\ IsGrantStore(s)
      /\ th[t].now \in Nat /\ th[t].now <= clock
      /\ GrantsChange(t, op, r, s, x) /\ th[t].job \in Jobs /\ r = Job[th[t].job]
      /\ op \in {"issue", "redeem"} => Mints(th[t].job)
      /\ op \in {"expire", "remove_workspace"} => Targeted(r, t) = r
      /\ op = "revoke" => Targeted(r, t).target = r.target
  BY GrantsDecided
<1>2. /\ Moved(t, "temp") /\ th'[t].grant = th[t].grant /\ file[At(t)] # Absent /\ clock' = clock
      /\ clock \in Nat
  BY DecideStep DEF Decide, TypeInv
<1>3. /\ Op(t)' = op /\ Request(t)' = r /\ Runs(t)' = Runs(t) /\ Targeted(r, t)' = Targeted(r, t)
  BY <1>2, SameOperation DEF Moved, Targeted
<1>4. DeliveredIn(s, d) /\ d[2] \in Nat
  BY <1>2 DEF DeliveredInv
<1>5. Ending(t, g)' <=> op \in {"revoke", "expire"} /\ g = r.target /\ Found(x, Targeted(r, t))
  BY <1>1, <1>3 DEF Ending
<1>6. ASSUME ~Ending(t, g)'
      PROVE  DeliveredIn(x, d)
  <2>1. ASSUME g \in DOMAIN x.grants <=> g \in DOMAIN s.grants,
               g \in DOMAIN s.grants => x.grants[g].revoked = s.grants[g].revoked
                                        /\ x.grants[g].expires = s.grants[g].expires
        PROVE  DeliveredIn(x, d)
    BY <1>4, <2>1 DEF DeliveredIn
  <2>2. CASE op \in {"create_pairing", "prune_expired_pairings", "register"}
    BY <1>1, <2>1, <2>2 DEF GrantsChange
  <2>3. CASE op \in {"issue", "redeem"}
    <3>1. Undecided(th[t].job)
      BY <1>1 DEF Undecided, Writing
    <3>2. g # r.new
      BY <1>1, <2>3, <3>1 DEF FreshInv
    <3> QED BY <1>1, <2>1, <2>3, <3>2 DEF GrantsChange
  <2>4. CASE op \in {"revoke", "expire", "remove_workspace"}
    <3>1. /\ DOMAIN x.grants = DOMAIN s.grants
          /\ \A h \in DOMAIN s.grants : h # r.target => x.grants[h] = s.grants[h]
          /\ ~Found(s, Targeted(r, t)) => x = s
          /\ r.target \in DOMAIN s.grants => x.grants[r.target].org = s.grants[r.target].org
      BY <1>1, <2>4 DEF GrantsChange
    <3>2. CASE g # r.target \/ ~Found(s, Targeted(r, t))
      BY <2>1, <3>1, <3>2
    <3>3. CASE g = r.target /\ Found(s, Targeted(r, t))
      <4>1. Targeted(r, t).target = r.target
        BY <1>1, <2>4
      <4>2. Found(x, Targeted(r, t))
        BY <3>1, <3>3, <4>1 DEF Found
      <4>3. op = "remove_workspace"
        BY <1>5, <1>6, <2>4, <3>3, <4>2
      <4> QED BY <1>1, <2>1, <3>1, <3>3, <4>3 DEF GrantsChange
    <3> QED BY <3>2, <3>3
  <2>5. CASE op = "prune_expired"
    <3>1. /\ DOMAIN x.grants = {h \in DOMAIN s.grants : Live(s.grants[h], th[t].now)}
          /\ \A h \in DOMAIN x.grants : x.grants[h] = s.grants[h]
      BY <1>1, <2>5 DEF GrantsChange
    <3>2. CASE g \in DOMAIN s.grants /\ g \notin DOMAIN x.grants
      <4>1. s.grants[g].expires = d[2] /\ ~s.grants[g].revoked /\ ~Live(s.grants[g], th[t].now)
        BY <1>4, <3>1, <3>2 DEF DeliveredIn
      <4>2. d[2] <= clock
        BY <1>1, <1>2, <1>4, <4>1 DEF Live
      <4> QED BY <3>2, <4>2 DEF DeliveredIn
    <3> QED BY <2>1, <3>1, <3>2
  <2> QED BY <1>1, <2>2, <2>3, <2>4, <2>5 DEF GrantWriters
<1>7. CASE Ending(t, g)'
  <2>1. op \in {"revoke", "expire"} /\ g = r.target /\ Found(x, Targeted(r, t))
    BY <1>5, <1>7
  <2>2. /\ DOMAIN x.grants = DOMAIN s.grants
        /\ ~Found(s, Targeted(r, t)) => x = s
        /\ r.target \in DOMAIN s.grants => x.grants[r.target].org = s.grants[r.target].org
    BY <1>1, <2>1 DEF GrantsChange
  <2>3. Found(s, Targeted(r, t)) /\ g \in DOMAIN x.grants /\ g \in DOMAIN s.grants
    BY <1>1, <2>1, <2>2 DEF Found
  <2>4. op = "expire" => ~x.grants[g].revoked /\ x.grants[g].expires = r.at
    <3>1. ~s.grants[g].revoked
      BY <1>4, <2>3 DEF DeliveredIn
    <3> QED BY <1>1, <2>1, <2>3, <3>1 DEF GrantsChange
  <2> QED BY <1>3, <1>7, <2>3, <2>4 DEF DeliveredBy
<1>8. CASE ~Ending(t, g)'
  <2>1. DeliveredIn(x, d)'
    BY <1>2, <1>6, <1>8 DEF DeliveredIn
  <2> QED BY <1>8, <2>1 DEF DeliveredBy
<1> QED BY <1>7, <1>8

\* A writer that is not done yet has just decided, or was there before.
LEMMA PendingBefore ==
    ASSUME TypeInv, LockInv, QuietStep \/ LoudStep, NEW u \in Threads,
           Writes1(u, "grants")', th'[u].pc # "written"
    PROVE  \/ Decide(u) /\ At(u) = "grants"
           \/ /\ Writes1(u, "grants") /\ th[u].pc # "written" /\ th'[u].next = th[u].next
              /\ th'[u].grant = th[u].grant /\ Op(u)' = Op(u) /\ Request(u)' = Request(u) /\ Runs(u)' = Runs(u)
<1>1. th'[u].pc \in Writing /\ Op(u)' # "open" /\ At(u)' = "grants"
  BY DEF Writes1
<1>2. CASE Decide(u)
  <2>1. At(u)' = At(u)
    BY <1>2, DecideStep, SameOperation DEF Moved
  <2> QED BY <1>1, <1>2, <2>1
<1>3. CASE ~Decide(u)
  <2>1. /\ th[u].pc \in Writing /\ th'[u].next = th[u].next /\ th'[u].grant = th[u].grant /\ Op(u) # "open"
        /\ Op(u)' = Op(u) /\ At(u)' = At(u) /\ Request(u)' = Request(u) /\ Runs(u)' = Runs(u)
        /\ Busy(u)' = Busy(u)
        /\ th[u].pc = "written" => th'[u].pc = "written"
    BY <1>1, <1>3, StillWriting
  <2> QED BY <1>1, <2>1 DEF Writes1
<1> QED BY <1>2, <1>3

LEMMA DeliveredPending ==
    ASSUME TypeInv, LockInv, FreshInv, DeliveredInv, QuietStep \/ LoudStep,
           clock \in Nat, clock' \in Nat, clock <= clock',
           "grants" \notin reset, NEW d \in delivered,
           NEW u \in Threads, Writes1(u, "grants")', th'[u].pc # "written"
    PROVE  DeliveredBy(u, d)'
<1>1. CASE Decide(u) /\ At(u) = "grants"
  BY <1>1, DeliveredDecided
<1>2. CASE /\ Writes1(u, "grants") /\ th[u].pc # "written" /\ th'[u].next = th[u].next
           /\ th'[u].grant = th[u].grant /\ Op(u)' = Op(u) /\ Request(u)' = Request(u) /\ Runs(u)' = Runs(u)
  <2>1. DeliveredBy(u, d) /\ d[2] \in Nat
    BY <1>2 DEF DeliveredInv
  <2>2. Ending(u, d[1])' <=> Ending(u, d[1])
    BY <1>2 DEF Ending, Targeted
  <2>3. ~Ending(u, d[1]) => DeliveredIn(th[u].next, d)'
    <3>1. ~Ending(u, d[1]) => DeliveredIn(th'[u].next, d)
      BY <1>2, <2>1 DEF DeliveredBy
    <3> QED BY <2>1, <3>1 DEF DeliveredIn
  <2> QED BY <1>2, <2>1, <2>2, <2>3 DEF DeliveredBy
<1> QED BY <1>1, <1>2, PendingBefore

LEMMA DeliveredKept ==
    ASSUME TypeInv, LockInv, FreshInv, DeliveredInv, QuietStep \/ LoudStep,
           clock \in Nat, clock' \in Nat, clock <= clock',
           delivered' = delivered, reset' = reset, file'["grants"] \in {file["grants"], Absent}
    PROVE  DeliveredInv'
<1>1. \A d \in delivered : d[2] \in Nat
  BY DEF DeliveredInv
<1>2. ASSUME "grants" \notin reset, NEW d \in delivered, file'["grants"] # Absent
      PROVE  DeliveredIn(file["grants"], d)'
  <2>1. DeliveredIn(file'["grants"], d)
    BY <1>2 DEF DeliveredInv
  <2> QED BY <1>1, <2>1 DEF DeliveredIn
<1> QED BY <1>1, <1>2, DeliveredPending DEF DeliveredInv

\* The new file is in its place: nobody else is about to replace it.
LEMMA DeliveredRenamed ==
    ASSUME TypeInv, LockInv, FreshInv, DeliveredInv, QuietStep \/ LoudStep,
           NEW t \in Threads, Rename(t), Op(t) # "open", At(t) = "grants"
    PROVE  DeliveredInv'
<1> DEFINE op == Op(t)
           r == Request(t)
           n == th[t].next
           hit(d) == Ending(t, d[1])
<1>1. /\ Others(t) /\ th'[t].next = n /\ th[t].pc = "rename" /\ Busy(t) /\ Runs(t) /\ Locks(t, "grants")
      /\ Writes1(t, "grants")
  BY ReplaceStep, StatesPlaced DEF Rename, Writes1, Locks, Writing
<1>2. /\ file' = [file EXCEPT !["grants"] = n] /\ DOMAIN file = Stores /\ reset' = reset /\ clock' = clock
      /\ delivered' = Redated(op, n, r, t) /\ th'[t].pc = "written" /\ clock \in Nat
  BY DEF Rename, TypeInv, ThreadOK, Fields
<1>3. file'["grants"] = n
  BY <1>2 DEF Stores
<1>4. ASSUME NEW u \in Threads, Writes1(u, "grants")', th'[u].pc # "written"
      PROVE  FALSE
  <2>1. u # t
    BY <1>2, <1>4
  <2>2. Writes1(u, "grants")
    BY <1>1, <1>4, <2>1, Same DEF Writes1, Others
  <2> QED BY <1>1, <2>1, <2>2, WritesAlone DEF Stores
<1>5. \A d : hit(d) <=> op \in {"revoke", "expire"} /\ d[1] = r.target /\ Found(n, Targeted(r, t))
  BY <1>1 DEF Ending
<1>6. ASSUME NEW e \in delivered'
      PROVE  \/ e \in delivered /\ ~hit(e)
             \/ op = "expire" /\ e = <<r.target, r.at>> /\ \E d \in delivered : hit(d)
  <2>1. \A d \in delivered \ {c \in delivered : c[1] = r.target /\ Found(n, Targeted(r, t))} : ~hit(d)
    BY <1>5
  <2>2. CASE op = "revoke"
    BY <1>2, <1>6, <2>1, <2>2 DEF Redated
  <2>3. CASE op = "expire"
    BY <1>2, <1>5, <1>6, <2>1, <2>3 DEF Redated
  <2>4. CASE op \notin {"revoke", "expire"}
    BY <1>2, <1>5, <1>6, <2>4 DEF Redated
  <2> QED BY <2>2, <2>3, <2>4
<1>7. op = "expire" => r.at \in Nat
  <2>1. /\ th[t].job \in Jobs /\ th[t].k \in 1 .. Len(Plan(th[t].job))
    BY <1>1, WhatIsServed DEF TypeInv, Runs
  <2>2. RequestFits(t, op, r)
    BY <2>1, RequestIs
  <2> QED BY <2>2 DEF RequestFits
<1>8. ASSUME NEW e \in delivered'
      PROVE  e[2] \in Nat
  BY <1>6, <1>7, <1>8 DEF DeliveredInv
<1>9. ASSUME "grants" \notin reset, NEW e \in delivered'
      PROVE  DeliveredIn(n, e)
  <2>1. \A d \in delivered : DeliveredBy(t, d)
    BY <1>1, <1>9 DEF DeliveredInv
  <2>2. CASE e \in delivered /\ ~hit(e)
    BY <2>1, <2>2 DEF DeliveredBy
  <2>3. CASE op = "expire" /\ e = <<r.target, r.at>> /\ \E d \in delivered : hit(d)
    <3>1. PICK d \in delivered : hit(d)
      BY <2>3
    <3>2. d[1] = r.target /\ d[1] \in DOMAIN n.grants /\ ~n.grants[d[1]].revoked /\ n.grants[d[1]].expires = r.at
      BY <1>5, <2>1, <2>3, <3>1 DEF DeliveredBy
    <3> QED BY <2>3, <3>2 DEF DeliveredIn
  <2> QED BY <1>6, <2>2, <2>3
<1>10. \A e : DeliveredIn(n, e) => DeliveredIn(file["grants"], e)'
  BY <1>2, <1>3 DEF DeliveredIn
<1> HIDE DEF hit
<1> QED BY <1>2, <1>4, <1>8, <1>9, <1>10 DEF DeliveredInv

\* A token goes to its bearer when its grant is on file.
LEMMA DeliveredReturned ==
    ASSUME TypeInv, LockInv, MadeInv, DeliveredInv, NEW t \in Threads, Return(t), Op(t) \in {"issue", "redeem"}
    PROVE  DeliveredInv'
<1> DEFINE r == Request(t)
           n == th[t].next
           e == <<r.new, n.grants[r.new].expires>>
<1>1. /\ Others(t) /\ Locks(t, "grants") /\ Went(t) /\ Runs(t) /\ th[t].pc = "written"
      /\ ThreadOK(t) /\ At(t) = "grants" /\ Busy(t)
  BY ReturnStep DEF TypeInv, Locks, At, StoreOf, TenantOps
<1>2. file' = file /\ reset' = reset /\ clock' = clock /\ delivered' = delivered \cup {e}
  BY DEF Return
<1>3. th'[t].pc \notin Writing
  BY <1>1, WentOff
<1>4. ASSUME NEW u \in Threads, Writes1(u, "grants")'
      PROVE  FALSE
  <2>1. u # t
    BY <1>3, <1>4 DEF Writes1
  <2>2. Writes1(u, "grants")
    BY <1>1, <1>4, <2>1, Same DEF Writes1, Others
  <2> QED BY <1>1, <2>1, <2>2, WritesAlone DEF Stores
<1>5. /\ r.new \in DOMAIN n.grants /\ ~n.grants[r.new].revoked
      /\ "grants" \notin reset => file["grants"] \in {Absent, n}
  BY <1>1 DEF MadeInv, Made, Writing
<1>6. IsGrantStore(n)
  BY <1>1 DEF ThreadOK, Writing, IsStore
<1>7. e[1] = r.new /\ e[2] = n.grants[r.new].expires /\ e[2] \in Nat
  BY <1>5, <1>6 DEF IsGrantStore, IsGrant
<1>8. DeliveredIn(n, e)
  BY <1>5, <1>7 DEF DeliveredIn
<1> HIDE DEF e, n, r
<1>9. ASSUME "grants" \notin reset, NEW d \in delivered', file["grants"] # Absent
      PROVE  DeliveredIn(file["grants"], d)
  BY <1>2, <1>5, <1>8, <1>9 DEF DeliveredInv
<1>10. ASSUME NEW d, DeliveredIn(file["grants"], d)
       PROVE  DeliveredIn(file["grants"], d)'
  BY <1>2, <1>10 DEF DeliveredIn
<1>11. \A d \in delivered' : d[2] \in Nat
  BY <1>2, <1>7 DEF DeliveredInv
<1> QED BY <1>2, <1>4, <1>9, <1>10, <1>11 DEF DeliveredInv

LEMMA DeliveredStep ==
    ASSUME TypeInv, LockInv, FreshInv, MadeInv, DeliveredInv, QuietStep \/ LoudStep
    PROVE  DeliveredInv'
<1>0. clock \in Nat /\ DOMAIN file = Stores
  BY DEF TypeInv
<1>1. CASE QuietStep
  BY <1>1, DeliveredKept DEF QuietStep
<1>2. ASSUME NEW t \in Threads, RemoveOld(t) \/ RememberCode(t) \/ TakeCode(t) \/ Decide(t)
      PROVE  DeliveredInv'
  <2>1. clock' = clock /\ delivered' = delivered /\ reset' = reset
    BY <1>2 DEF RemoveOld, RememberCode, TakeCode, Decide, history
  <2>2. file'["grants"] \in {file["grants"], Absent}
    BY <1>0, <1>2 DEF RemoveOld, RememberCode, TakeCode, Decide, Stores
  <2> QED BY <1>0, <1>2, <2>1, <2>2, DeliveredKept DEF LoudStep
<1>3. ASSUME NEW t \in Threads, Rename(t)
      PROVE  DeliveredInv'
  <2>1. At(t) \in Stores /\ clock' = clock /\ th[t].pc = "rename"
    BY <1>3, ReplaceStep DEF Rename
  <2>2. CASE Op(t) = "open"
    <3>1. "grants" \in reset' /\ delivered' = delivered
      BY <1>3, <2>2 DEF Rename, Redated
    <3> QED BY <3>1 DEF DeliveredInv
  <2>3. CASE Op(t) # "open" /\ At(t) = "tenants"
    <3>1. Op(t) \notin {"revoke", "expire"}
      BY <2>3 DEF At, StoreOf, TenantOps
    <3>2. delivered' = delivered /\ reset' = reset /\ file' = [file EXCEPT !["tenants"] = th[t].next]
      BY <1>3, <2>3, <3>1 DEF Rename, Redated
    <3>3. file'["grants"] = file["grants"]
      BY <1>0, <3>2 DEF Stores
    <3> QED BY <1>0, <1>3, <2>1, <3>2, <3>3, DeliveredKept DEF LoudStep
  <2>4. CASE Op(t) # "open" /\ At(t) = "grants"
    BY <1>3, <2>4, DeliveredRenamed
  <2> QED BY <2>1, <2>2, <2>3, <2>4 DEF Stores
<1>4. ASSUME NEW t \in Threads, Return(t)
      PROVE  DeliveredInv'
  <2>1. CASE Op(t) \in {"issue", "redeem"}
    BY <1>4, <2>1, DeliveredReturned
  <2>2. CASE Op(t) \notin {"issue", "redeem"}
    <3>1. delivered' = delivered /\ reset' = reset /\ file' = file /\ clock' = clock
      BY <1>4, <2>2 DEF Return
    <3> QED BY <1>0, <1>4, <3>1, DeliveredKept DEF LoudStep
  <2> QED BY <2>1, <2>2
<1> QED BY <1>1, <1>2, <1>3, <1>4 DEF LoudStep

-----------------------------------------------------------------------------
(* Usage is counted whole.                                                 *)

\* What a key has been counted for.
Counted(key) == IF key \in DOMAIN counted THEN counted[key] ELSE 0

LEMMA CountedDecided ==
    ASSUME TypeInv, CountedInv, NEW t \in Threads, Decide(t), At(t) = "tenants",
           NEW op, op = Op(t), NEW r, r = Request(t), NEW x, x = th'[t].next
    PROVE  /\ \A key \in DOMAIN counted : CountedIn(x, key, counted[key])
           /\ op = "record_usage" => LET key == <<r.org, r.workspace>> IN CountedIn(x, key, r.units + Counted(key))
<1> SUFFICES ASSUME NEW s, s = file["tenants"], NEW mine, mine = <<r.org, r.workspace>>
             PROVE  /\ \A key \in DOMAIN counted : CountedIn(x, key, counted[key])
                    /\ op = "record_usage" => CountedIn(x, mine, r.units + Counted(mine))
  OBVIOUS
<1>1. /\ s \in States("tenants") /\ IsTenantStore(s) /\ UsageChange(op, r, s, x)
      /\ op = "record_usage" => r.units \in Nat
  BY TenantsDecided
<1>2. /\ \A key \in DOMAIN counted : CountedIn(s, key, counted[key]) /\ counted[key] \in Nat
      /\ \A key \in DOMAIN s.usage : s.usage[key] \in Nat
      /\ MaxUnits \in Nat
  BY <1>1, ConstantsAssumption DEF CountedInv, IsTenantStore
<1>3. CASE op # "record_usage"
  BY <1>1, <1>2, <1>3 DEF UsageChange, CountedIn
<1>4. CASE op = "record_usage"
  <2> DEFINE had == IF mine \in DOMAIN s.usage THEN s.usage[mine] ELSE 0
             sum == r.units + had
  <2>1. /\ DOMAIN x.usage = DOMAIN s.usage \cup {mine}
        /\ x.usage[mine] = IF sum > MaxUnits THEN MaxUnits ELSE sum
        /\ \A k \in DOMAIN s.usage \ {mine} : x.usage[k] = s.usage[k]
    BY <1>1, <1>4 DEF UsageChange
  <2>2. had \in Nat /\ sum = r.units + had /\ r.units \in Nat /\ Counted(mine) \in Nat
    BY <1>1, <1>2, <1>4 DEF Counted
  <2>3. had >= Counted(mine) \/ had = MaxUnits
    BY <1>2, <2>2 DEF CountedIn, Counted
  <2> HIDE DEF had, sum
  <2>4. x.usage[mine] >= r.units + Counted(mine) \/ x.usage[mine] = MaxUnits
    BY <1>2, <2>1, <2>2, <2>3
  <2>5. CountedIn(x, mine, r.units + Counted(mine))
    BY <2>1, <2>4 DEF CountedIn
  <2>6. x.usage[mine] >= Counted(mine) \/ x.usage[mine] = MaxUnits
    <3>1. x.usage[mine] \in Nat
      BY <1>2, <2>1, <2>2
    <3> QED BY <2>2, <2>4, <3>1
  <2>7. ASSUME NEW key \in DOMAIN counted
        PROVE  CountedIn(x, key, counted[key])
    <3>1. CASE key = mine
      BY <2>1, <2>6, <3>1 DEF CountedIn, Counted
    <3>2. CASE key # mine
      <4>1. CountedIn(s, key, counted[key])
        BY <1>2
      <4> QED BY <2>1, <3>2, <4>1 DEF CountedIn
    <3> QED BY <3>1, <3>2
  <2> QED BY <2>5, <2>7
<1> QED BY <1>3, <1>4

LEMMA CountedKept ==
    ASSUME TypeInv, LockInv, CountedInv, QuietStep \/ LoudStep, counted' = counted,
           \A x \in States("tenants")' : x \in States("tenants") \/ \E t \in Threads : Decide(t) /\ At(t) = "tenants" /\ x = th'[t].next
    PROVE  CountedInv'
<1>1. ASSUME NEW x \in States("tenants")', NEW key \in DOMAIN counted
      PROVE  CountedIn(x, key, counted[key])
  BY <1>1, CountedDecided DEF CountedInv
<1>2. ASSUME NEW u \in Threads, Runs(u)', th'[u].pc \in Writing, Op(u)' = "record_usage"
      PROVE  LET key == <<Request(u)'.org, Request(u)'.workspace>> IN
             CountedIn(th'[u].next, key, Request(u)'.units + Counted(key))
  <2>1. CASE Decide(u)
    <3>1. Op(u)' = Op(u) /\ Request(u)' = Request(u) /\ At(u) = "tenants"
      BY <1>2, <2>1, DecideStep, SameOperation DEF Moved, At, StoreOf, TenantOps
    <3> QED BY <1>2, <2>1, <3>1, CountedDecided
  <2>2. CASE ~Decide(u)
    <3>1. /\ th[u].pc \in Writing /\ Op(u)' = Op(u) /\ Request(u)' = Request(u) /\ Runs(u)' = Runs(u)
          /\ th'[u].next = th[u].next
      BY <1>2, <2>2, StillWriting
    <3> QED BY <1>2, <3>1 DEF CountedInv, Counted
  <2> QED BY <2>1, <2>2
<1>3. \A key \in DOMAIN counted : counted[key] \in Nat
  BY DEF CountedInv
<1> QED BY <1>1, <1>2, <1>3 DEF CountedInv, Counted, CountedIn

LEMMA CountedReturned ==
    ASSUME TypeInv, LockInv, MadeInv, CountedInv, QuietStep \/ LoudStep,
           NEW t \in Threads, Return(t), Op(t) = "record_usage"
    PROVE  CountedInv'
<1> DEFINE r == Request(t)
           n == th[t].next
           mine == <<r.org, r.workspace>>
           total == r.units + Counted(mine)
<1>1. /\ Others(t) /\ Locks(t, "tenants") /\ Went(t) /\ Runs(t) /\ th[t].pc = "written"
      /\ ThreadOK(t) /\ At(t) = "tenants"
  BY ReturnStep DEF TypeInv, Locks, At, StoreOf, TenantOps
<1>2. counted' = Put(counted, mine, total)
  BY DEF Return, Counted
<1>3. States("tenants")' \subseteq {n} /\ n \in States("tenants")
  <2>1. file["tenants"] \in {Absent, n}
    BY <1>1 DEF MadeInv, Writing
  <2> QED BY <1>1, <2>1, StatesReturned
<1>4. CountedIn(n, mine, total)
  BY <1>1 DEF CountedInv, Writing, Counted
<1>5. total \in Nat
  <2>1. r.units \in Nat
    <3>1. th[t].job \in Jobs /\ th[t].k \in 1 .. Len(Plan(th[t].job))
      BY <1>1, WhatIsServed DEF Runs
    <3>2. RequestFits(t, Op(t), r)
      BY <3>1, RequestIs
    <3>3. Op(t) = "record_usage"
      OBVIOUS
    <3> QED BY <3>2, <3>3 DEF RequestFits
  <2> QED BY <2>1 DEF CountedInv, Counted
<1>6. ASSUME NEW u \in Threads, th'[u].pc \in Writing, Op(u)' = "record_usage"
      PROVE  FALSE
  <2>1. u # t
    BY <1>1, <1>6, WentOff DEF Locks
  <2>2. th'[u] = th[u] /\ Op(u)' = Op(u)
    BY <1>1, <2>1, Same DEF Others
  <2>3. Locks(u, "tenants")
    BY <1>6, <2>2, HeldIs DEF TypeInv, At, StoreOf, TenantOps, Held
  <2> QED BY <1>1, <2>1, <2>3 DEF LockInv, Stores
<1> HIDE DEF mine, total, n, r
<1>7. /\ DOMAIN counted' = DOMAIN counted \cup {mine} /\ counted'[mine] = total
      /\ \A key \in DOMAIN counted \ {mine} : counted'[key] = counted[key]
  BY <1>2 DEF Put
<1>8. ASSUME NEW key \in DOMAIN counted'
      PROVE  counted'[key] \in Nat /\ CountedIn(n, key, counted'[key])
  <2>1. CASE key = mine
    BY <1>4, <1>5, <1>7, <2>1
  <2>2. CASE key # mine
    BY <1>3, <1>7, <1>8, <2>2 DEF CountedInv
  <2> QED BY <2>1, <2>2
<1>9. \A x, key, m : CountedIn(x, key, m)' = CountedIn(x, key, m)
  BY DEF CountedIn
<1> QED BY <1>3, <1>6, <1>8, <1>9 DEF CountedInv, CountedIn

LEMMA CountedStep ==
    ASSUME TypeInv, LockInv, MadeInv, CountedInv, QuietStep \/ LoudStep
    PROVE  CountedInv'
<1>1. CASE QuietStep
  BY <1>1, StatesQuiet, CountedKept DEF QuietStep, Stores
<1>2. ASSUME NEW t \in Threads, RemoveOld(t) \/ Rename(t) \/ RememberCode(t) \/ TakeCode(t)
      PROVE  CountedInv'
  <2>1. counted' = counted
    BY <1>2 DEF RemoveOld, Rename, RememberCode, TakeCode, history
  <2> QED BY <1>2, <2>1, StatesRenamed, CountedKept DEF LoudStep
<1>3. ASSUME NEW t \in Threads, Decide(t)
      PROVE  CountedInv'
  <2>1. counted' = counted
    BY <1>3 DEF Decide
  <2>2. States("tenants")' \subseteq States("tenants") \cup (IF "tenants" = At(t) THEN {th'[t].next} ELSE {})
    BY <1>3, StatesDecided DEF Stores
  <2> QED BY <1>3, <2>1, <2>2, CountedKept DEF LoudStep
<1>4. ASSUME NEW t \in Threads, Return(t)
      PROVE  CountedInv'
  <2>1. CASE Op(t) = "record_usage"
    BY <1>4, <2>1, CountedReturned DEF LoudStep
  <2>2. CASE Op(t) # "record_usage"
    <3>1. counted' = counted
      BY <1>4, <2>2 DEF Return
    <3>2. States("tenants")' \subseteq States("tenants")
      BY <1>4, StatesKept DEF Stores
    <3> QED BY <1>4, <3>1, <3>2, CountedKept DEF LoudStep
  <2> QED BY <2>1, <2>2
<1> QED BY <1>1, <1>2, <1>3, <1>4 DEF LoudStep

-----------------------------------------------------------------------------
(* A code is exchanged for what was consented to.                          *)

\* The codes of consents that a gateway's memory has lost stay lost.
Forgets ==
    \A c \in consented : (\A p \in Gateways : \A d \in codes[p] : d.code # c.code) =>
                         (\A p \in Gateways : \A d \in codes'[p] : d.code # c.code)

\* A store's state that is still possible agrees with what is consented to.
LEMMA ConsentedKept ==
    ASSUME NEW x, ConsentedIn(x), \A job \in Jobs : Alive(job)' => Alive(job),
           \A c \in consented' \ consented :
               c.code \in DOMAIN x.pairings => x.pairings[c.code].scopes = c.scopes
    PROVE  ConsentedIn(x)'
<1>1. \A c \in consented' : c.code \in DOMAIN x.pairings => x.pairings[c.code].scopes = c.scopes
  BY DEF ConsentedIn
<1>2. \A job \in Jobs :
          Job[job].kind = "authorize" /\ Alive(job)' /\ Job[job].code \in DOMAIN x.pairings =>
              x.pairings[Job[job].code].scopes = ParsedScopes(Job[job].scopes)
  BY DEF ConsentedIn
<1>3. \A client \in DOMAIN x.clients : \A uri \in x.clients[client] : ValidRedirectUri(uri, "native")
  BY DEF ConsentedIn
<1> QED BY <1>1, <1>2, <1>3 DEF ConsentedIn

LEMMA ConsentedAfresh == ConsentedIn(NewGrantStore)
BY AfreshIs DEF ConsentedIn, NewGrantStore

LEMMA ConsentedDecided ==
    ASSUME TypeInv, JobsInv, ConsentInv, NEW t \in Threads, Decide(t), At(t) = "grants",
           NEW x, x = th'[t].next
    PROVE  ConsentedIn(x)
<1> SUFFICES ASSUME NEW op, op = Op(t), NEW r, r = Request(t), NEW s, s = file["grants"]
             PROVE  ConsentedIn(x)
  OBVIOUS
<1>1. /\ op \in GrantWriters /\ Runs(t) /\ PairingsChange(op, r, s, x) /\ ClientsChange(op, r, s, x)
      /\ th[t].job \in Jobs /\ r = Job[th[t].job] /\ s \in States("grants")
      /\ op = "create_pairing" => Creates(th[t].job)
  BY GrantsDecided
<1>2. ConsentedIn(s) /\ \A c \in consented : AskedFor(c)
  BY <1>1 DEF ConsentInv
<1>3. Alive(th[t].job)
  BY DEF Alive
<1>4. ASSUME NEW code \in DOMAIN x.pairings, ~(op = "create_pairing" /\ code = r.code)
      PROVE  code \in DOMAIN s.pairings /\ x.pairings[code] = s.pairings[code]
  BY <1>1, <1>4 DEF PairingsChange
<1>5. ASSUME NEW c \in consented, c.code \in DOMAIN x.pairings
      PROVE  x.pairings[c.code].scopes = c.scopes
  <2>1. op = "create_pairing" => c.code # r.code
    BY <1>1, <1>2, <1>3 DEF AskedFor
  <2> QED BY <1>2, <1>4, <1>5, <2>1 DEF ConsentedIn
<1>6. ASSUME NEW job \in Jobs, Job[job].kind = "authorize", Alive(job), Job[job].code \in DOMAIN x.pairings
      PROVE  x.pairings[Job[job].code].scopes = ParsedScopes(Job[job].scopes)
  <2>1. CASE op = "create_pairing" /\ Job[job].code = r.code
    <3>1. Creates(job)
      BY <1>6 DEF Creates
    <3>2. job = th[t].job
      BY <1>1, <1>3, <1>6, <2>1, <3>1 DEF JobsInv
    <3>3. MadePairing(x.pairings[r.code], r)
      BY <1>1, <2>1 DEF PairingsChange
    <3> QED BY <1>1, <1>6, <2>1, <3>2, <3>3 DEF MadePairing
  <2>2. CASE ~(op = "create_pairing" /\ Job[job].code = r.code)
    <3>1. Job[job].code \in DOMAIN s.pairings /\ x.pairings[Job[job].code] = s.pairings[Job[job].code]
      BY <1>4, <1>6, <2>2
    <3> QED BY <1>2, <1>6, <3>1 DEF ConsentedIn
  <2> QED BY <2>1, <2>2
<1>7. ASSUME NEW client \in DOMAIN x.clients, NEW uri \in x.clients[client]
      PROVE  ValidRedirectUri(uri, "native")
  <2>1. CASE op = "register" /\ client = r.client
    <3>1. Kind(t) = "register" /\ th[t].k = 2
      <4>1. Fits(th[t].job, th[t].k, Op(t), Kind(t), th[t].k = Len(Plan(th[t].job)))
        BY GrantsDecided, WhatIsServed DEF TypeInv
      <4> QED BY <2>1, <4>1 DEF Fits
    <3>2. ValidClient(r)
      BY <1>1, <3>1 DEF ConsentInv, Serves
    <3>3. uri \in r.redirects
      BY <1>1, <1>7, <2>1 DEF ClientsChange
    <3> QED BY <3>2, <3>3 DEF ValidClient, ValidRedirectUri
  <2>2. CASE ~(op = "register" /\ client = r.client)
    <3>1. client \in DOMAIN s.clients /\ x.clients[client] = s.clients[client]
      BY <1>1, <1>7, <2>2 DEF ClientsChange
    <3> QED BY <1>2, <1>7, <3>1 DEF ConsentedIn
  <2> QED BY <2>1, <2>2
<1> QED BY <1>5, <1>6, <1>7 DEF ConsentedIn

\* A thread that keeps its place keeps what it was asked for.
LEMMA ServesKept ==
    ASSUME NEW u \in Threads, Serves(u), Forgets, consented \subseteq consented',
           th'[u].job = th[u].job, th'[u].k = th[u].k, th'[u].grant = th[u].grant,
           th'[u].pc = "granted" => th[u].pc = "granted",
           th'[u].pc \in Writing => th[u].pc \in Writing /\ th'[u].next = th[u].next
    PROVE  Serves(u)'
<1>1. /\ Request(u)' = Request(u) /\ Runs(u)' = Runs(u) /\ Kind(u)' = Kind(u)
  BY SameOperation
<1>2. Past(u, 2)' => Past(u, 2)
  BY DEF Past
<1>3. ASSUME Exchanging(u)'
      PROVE  Exchanges(u)'
  <2>1. Exchanging(u) /\ Exchanges(u)
    BY <1>1, <1>3 DEF Exchanging, Serves
  <2>2. \A p \in Gateways : \A d \in codes'[p] : d.code # Request(u).code
    BY <2>1 DEF Forgets, Exchanges, Unremembered
  <2> QED BY <1>1, <2>1, <2>2 DEF Exchanges, Unremembered
<1> QED BY <1>1, <1>2, <1>3 DEF Serves

\* A thread that goes on by itself.
LEMMA ServesTurned ==
    ASSUME TypeInv, ConsentInv, NEW u \in Threads, Turned(u), Forgets, consented \subseteq consented'
    PROVE  Serves(u)'
<1>0. Serves(u) /\ ThreadOK(u) /\ NoJob \notin Jobs /\ Boot \notin Jobs
  BY ConstantsAssumption DEF ConsentInv, TypeInv
<1>1. CASE ~Runs(u)'
  BY <1>1 DEF Serves, Exchanging
<1>2. CASE th'[u] = Idle
  <2>1. ~Runs(u)'
    BY <1>0, <1>2, IdleIs DEF Runs
  <2> QED BY <2>1 DEF Serves, Exchanging
<1>3. CASE Begun(u) /\ Runs(u)'
  <2>1. /\ th'[u].k = 1 /\ ProcessOf[u] = Job[th'[u].job].by /\ th'[u].job \in Jobs
    BY <1>3 DEF Begun, Entered, Runs
  <2>2. ~Past(u, 2)' /\ ~Exchanging(u)' /\ th'[u].k # 2
    BY <2>1 DEF Past, Exchanging
  <2>3. Kind(u)' = "exchange" => ProcessOf[u] \in Gateways
    BY <2>1, JobsAssumption DEF Kind
  <2> QED BY <2>2, <2>3 DEF Serves
<1>4. CASE Advanced(u) /\ Runs(u)'
  <2>1. /\ th'[u].job = th[u].job /\ th'[u].k = th[u].k + 1 /\ th'[u].pc \in Starts
        /\ th[u].job \in Jobs
    BY <1>4, StartIs DEF Advanced, Entered, Runs
  <2>2. Request(u)' = Request(u) /\ Runs(u) /\ Kind(u)' = Kind(u)
    BY <2>1 DEF Request, Runs, Kind
  <2>3. /\ th[u].pc # "idle" /\ th[u].pc \in StepsOf(Op(u)) /\ th[u].k \in Nat \ {0}
        /\ Suits(th[u].k, Op(u), Kind(u), th[u].k = Len(Plan(th[u].job)))
    <3>1. th[u].pc # "idle"
      BY <1>0, <1>4 DEF Advanced, ThreadOK, StepsOf, Writing
    <3> QED BY <1>0, <2>2, <3>1, WhatIsServed
  <2>4. Kind(u) = "register" /\ th'[u].k = 2 => ValidClient(Request(u))
    <3>1. Kind(u) = "register" /\ th'[u].k = 2 => Op(u) = "check_client" /\ th[u].pc # "granted"
      BY <2>1, <2>3 DEF Suits, StepsOf, Checks
    <3> QED BY <1>4, <3>1 DEF Advanced
  <2>5. Kind(u) = "authorize" /\ Past(u, 2)' => ValidRedirectUri(Request(u).redirect, "native")
    <3>1. Kind(u) = "authorize" /\ Past(u, 2)' => th[u].k >= 2
      BY <2>1, <2>3 DEF Past, Starts
    <3>2. Kind(u) = "authorize" /\ th[u].k = 2 => th[u].pc = "granted"
      BY <1>4, <2>3 DEF Suits, Advanced
    <3>3. Kind(u) = "authorize" /\ Past(u, 2)' => Past(u, 2)
      BY <2>3, <3>1, <3>2 DEF Past
    <3> QED BY <1>0, <2>2, <3>3 DEF Serves
  <2>6. ~Exchanging(u)'
    <3>1. Kind(u) = "exchange" => Op(u) # "take_code"
      BY <1>4, <2>3 DEF Advanced, StepsOf, Checks, InMemory
    <3>2. Kind(u) = "exchange" => th[u].k = 2
      BY <2>3, <3>1 DEF Suits
    <3> QED BY <2>1, <2>2, <3>2 DEF Exchanging
  <2> QED BY <1>0, <2>1, <2>2, <2>4, <2>5, <2>6 DEF Serves
<1>5. CASE Worked(u) /\ Runs(u)'
  <2>1. th'[u].job = th[u].job /\ th'[u].k = th[u].k
    BY <1>5 DEF Worked, Moved
  <2>2. Request(u)' = Request(u) /\ Runs(u) /\ Kind(u)' = Kind(u) /\ Op(u)' = Op(u)
    BY <1>5, <2>1, SameOperation
  <2>3. /\ th[u].pc # "idle"
        /\ Suits(th[u].k, Op(u), Kind(u), th[u].k = Len(Plan(th[u].job)))
        /\ Fits(th[u].job, th[u].k, Op(u), Kind(u), th[u].k = Len(Plan(th[u].job)))
    <3>1. th[u].pc # "idle"
      BY <1>0, <1>5 DEF Worked, ThreadOK, StepsOf, Writing
    <3> QED BY <1>0, <2>2, <3>1, WhatIsServed
  <2>4. Kind(u) = "authorize" /\ Past(u, 2)' => ValidRedirectUri(Request(u).redirect, "native")
    <3>1. CASE Past(u, 2)
      BY <1>0, <2>2, <3>1 DEF Serves
    <3>2. CASE Kind(u) = "authorize" /\ Past(u, 2)' /\ ~Past(u, 2)
      <4>1. th[u].k = 2 /\ th'[u].pc = "granted" /\ th[u].pc # "granted"
        BY <2>1, <3>2 DEF Past
      <4>2. Op(u) = "oauth_client" /\ At(u) = "grants"
        BY <2>3, <3>2, <4>1 DEF Suits, At, StoreOf, TenantOps
      <4>3. file["grants"] # Absent /\ Answers("oauth_client", file["grants"], Request(u), u)
        BY <1>5, <4>1, <4>2 DEF Worked
      <4>4. ConsentedIn(file["grants"])
        BY <4>3 DEF ConsentInv, States
      <4>5. /\ Request(u).client \in DOMAIN file["grants"].clients
            /\ Request(u).redirect \in file["grants"].clients[Request(u).client]
        BY <4>3 DEF Answers, ValidForClient
      <4> QED BY <4>4, <4>5 DEF ConsentedIn
    <3> QED BY <3>1, <3>2
  <2>5. ASSUME Exchanging(u)'
        PROVE  Exchanges(u)'
    <3>1. Exchanging(u) /\ Op(u) = "redeem"
      BY <2>1, <2>2, <2>3, <2>5 DEF Exchanging, Suits
    <3>2. /\ th'[u].grant = th[u].grant
          /\ th'[u].pc \in Writing => th[u].pc \in Writing /\ th'[u].next = th[u].next
      BY <1>5, <3>1 DEF Worked, Writing, Readers
    <3>3. \A p \in Gateways : \A d \in codes'[p] : d.code # Request(u).code
      BY <1>0, <3>1 DEF Serves, Exchanges, Forgets, Unremembered
    <3> QED BY <1>0, <2>2, <3>1, <3>2, <3>3 DEF Serves, Exchanges, Unremembered
  <2> QED BY <1>0, <2>1, <2>2, <2>4, <2>5 DEF Serves
<1> QED BY <1>1, <1>2, <1>3, <1>4, <1>5 DEF Turned

\* The steps that consent to nothing and exchange nothing.
LEMMA ConsentKept ==
    ASSUME TypeInv, ConsentInv, \A job \in Jobs : Alive(job)' => Alive(job),
           consented' = consented, exchanged' = exchanged, \A p \in Gateways : codes'[p] \subseteq codes[p],
           \A x \in States("grants")' : ConsentedIn(x), \A u \in Threads : Serves(u)'
    PROVE  ConsentInv'
<1>1. CodesInv'
  BY DEF ConsentInv, CodesInv
<1>2. \A c \in consented' : AskedFor(c)'
  BY DEF ConsentInv, AskedFor
<1>3. ASSUME NEW x \in States("grants")'
      PROVE  ConsentedIn(x)'
  BY <1>3, ConsentedKept
<1>4. ConsentBinds'
  BY DEF ConsentInv, ConsentBinds
<1> QED BY <1>1, <1>2, <1>3, <1>4 DEF ConsentInv, AskedFor, ConsentedIn

LEMMA Forgetting ==
    ASSUME \A p \in Gateways : codes'[p] \subseteq codes[p]
    PROVE  Forgets
BY DEF Forgets

LEMMA ConsentReturned ==
    ASSUME TypeInv, LockInv, JobsInv, ConsentInv, NEW t \in Threads, Return(t)
    PROVE  ConsentInv'
<1>0. /\ LoudStep /\ codes' = codes /\ consented' = consented
      /\ Others(t) /\ Runs(t) /\ th[t].pc = "written" /\ ThreadOK(t)
      /\ States("grants")' \subseteq States("grants")
  BY ReturnStep, StatesKept DEF LoudStep, Return, Stores, TypeInv
<1>1. \A job \in Jobs : Alive(job)' => Alive(job)
  BY <1>0, JobsStep
<1>2. CodesInv' /\ Forgets
  BY <1>0, Forgetting DEF ConsentInv, CodesInv
<1>3. \A c \in consented' : AskedFor(c)'
  BY <1>0, <1>1 DEF ConsentInv, AskedFor
<1>4. ASSUME NEW x \in States("grants")'
      PROVE  ConsentedIn(x)'
  BY <1>0, <1>1, <1>4, ConsentedKept DEF ConsentInv
<1>5. ASSUME NEW u \in Threads
      PROVE  Serves(u)'
  <2>1. CASE th'[u] = Idle
    <3>1. ~Runs(u)'
      BY <2>1, IdleIs, ConstantsAssumption DEF Runs
    <3> QED BY <3>1 DEF Serves, Exchanging
  <2>2. CASE th'[u] = th[u]
    BY <1>0, <1>2, <2>2, ServesKept DEF ConsentInv
  <2>3. CASE u = t /\ th'[t] # Idle
    <3>1. Kind(t) = "authorize" /\ th[t].k = 4 /\ th'[t].job = th[t].job
      BY <2>3, ReturnEnds
    <3>2. Runs(t)' /\ Kind(t)' = "authorize" /\ Request(t)' = Request(t) /\ Past(t, 2)
      BY <1>0, <3>1 DEF Runs, Kind, Request, Past
    <3>3. ValidRedirectUri(Request(t).redirect, "native")
      BY <1>0, <3>1, <3>2 DEF ConsentInv, Serves
    <3> QED BY <2>3, <3>2, <3>3 DEF Serves, Exchanging
  <2> QED BY <1>0, <2>1, <2>2, <2>3 DEF Others
<1>6. ConsentBinds'
  <2> DEFINE r == Request(t)
             x == [by |-> r, grant |-> th[t].next.grants[r.new]]
  <2>1. CASE exchanged' = exchanged
    BY <1>0, <2>1 DEF ConsentInv, ConsentBinds
  <2>2. CASE Op(t) = "redeem" /\ r.kind = "exchange" /\ exchanged' = exchanged \cup {x}
    <3>1. Exchanging(t)
      <4>1. Suits(th[t].k, Op(t), Kind(t), th[t].k = Len(Plan(th[t].job)))
        BY <1>0, WhatIsServed
      <4> QED BY <1>0, <2>2, <4>1 DEF Suits, Kind, Request, Exchanging
    <3>2. Exchanges(t)
      BY <3>1 DEF ConsentInv, Serves
    <3>3. \E c \in consented :
              /\ c.code = r.code /\ c.client = r.client /\ c.redirect = r.redirect
              /\ ValidRedirectUri(c.redirect, "native")
              /\ VerifiesPkce(r.verifier, c.challenge)
              /\ x.grant.scopes = c.scopes /\ x.grant.actor = c.actor
              /\ \A p \in Gateways : \A d \in codes[p] : d.code # c.code
      BY <1>0, <3>2 DEF Exchanges, Unremembered, Writing, ConsentInv, AskedFor
    <3>4. x.by = r
      OBVIOUS
    <3> HIDE DEF x, r
    <3> QED BY <1>0, <2>2, <3>3, <3>4 DEF ConsentInv, ConsentBinds
  <2> QED BY <2>1, <2>2 DEF Return
<1> QED BY <1>2, <1>3, <1>4, <1>5, <1>6 DEF ConsentInv, AskedFor, ConsentedIn

LEMMA ConsentTaken ==
    ASSUME TypeInv, LockInv, JobsInv, ConsentInv, NEW t \in Threads, TakeCode(t)
    PROVE  ConsentInv'
<1> DEFINE r == Request(t)
           p == ProcessOf[t]
<1>0. /\ LoudStep /\ consented' = consented /\ exchanged' = exchanged
      /\ Others(t) /\ Runs(t) /\ Kind(t) = "exchange"
      /\ States("grants")' \subseteq States("grants")
      /\ codes' = [codes EXCEPT ![p] = @ \ {c \in codes[p] : c.code = r.code}]
  BY TakeCodeStep, StatesKept DEF LoudStep, TakeCode, Stores, history
<1>1. \A job \in Jobs : Alive(job)' => Alive(job)
  BY <1>0, JobsStep
<1>2. p \in Gateways /\ DOMAIN codes = Gateways
  BY <1>0 DEF ConsentInv, Serves, TypeInv
<1>3. /\ codes'[p] = codes[p] \ {c \in codes[p] : c.code = r.code}
      /\ \A q \in Gateways \ {p} : codes'[q] = codes[q]
  BY <1>0, <1>2
<1> HIDE DEF p
<1>4. (\A q \in Gateways : codes'[q] \subseteq codes[q]) /\ Forgets
  <2>1. \A q \in Gateways : codes'[q] \subseteq codes[q]
    BY <1>2, <1>3
  <2> QED BY <2>1, Forgetting
<1>5. ASSUME NEW u \in Threads
      PROVE  Serves(u)'
  <2>1. CASE th'[u] = Idle
    <3>1. ~Runs(u)'
      BY <2>1, IdleIs, ConstantsAssumption DEF Runs
    <3> QED BY <3>1 DEF Serves, Exchanging
  <2>2. CASE th'[u] = th[u]
    BY <1>0, <1>4, <2>2, ServesKept DEF ConsentInv
  <2>3. CASE u = t /\ th'[t] # Idle
    <3> DEFINE c == th'[t].grant
    <3>1. /\ th'[t].job = th[t].job /\ th'[t].k = 2 /\ th'[t].pc = "lock"
          /\ c \in codes[p] /\ c.code = r.code /\ c.client = r.client /\ c.redirect = r.redirect
          /\ VerifiesPkce(r.verifier, c.challenge)
      BY <2>3, TakeCodeStep DEF p
    <3>2. Runs(t)' /\ Kind(t)' = "exchange" /\ Request(t)' = r
      BY <1>0, <3>1 DEF Runs, Kind, Request
    <3>3. c \in consented
      BY <1>2, <3>1 DEF ConsentInv, CodesInv
    <3>4. ASSUME NEW q \in Gateways, NEW d \in codes'[q], d.code = r.code
          PROVE  FALSE
      <4>1. d \in codes[q]
        BY <1>4, <3>4
      <4>2. p = q /\ d = c
        BY <1>2, <3>1, <3>4, <4>1 DEF ConsentInv, CodesInv
      <4> QED BY <1>3, <3>1, <3>4, <4>2
    <3> HIDE DEF r
    <3>5. Exchanges(t)'
      BY <1>0, <3>1, <3>2, <3>3, <3>4 DEF Exchanges, Unremembered, Writing
    <3> QED BY <1>2, <2>3, <3>2, <3>5 DEF Serves, p
  <2> QED BY <1>0, <2>1, <2>2, <2>3 DEF Others
<1> QED BY <1>0, <1>1, <1>4, <1>5, ConsentKept DEF ConsentInv

LEMMA ConsentRemembered ==
    ASSUME TypeInv, LockInv, JobsInv, ConsentInv, NEW t \in Threads, RememberCode(t)
    PROVE  ConsentInv'
<1> DEFINE r == Request(t)
           p == ProcessOf[t]
           record == [code |-> r.code, client |-> r.client, redirect |-> r.redirect,
                      challenge |-> r.challenge, scopes |-> ParsedScopes(r.scopes),
                      actor |-> OAuthActor(th[t].grant.actor, r.client),
                      expires |-> th[t].now + r.code_ttl]
<1>0. /\ LoudStep /\ consented' = consented \cup {record} /\ exchanged' = exchanged
      /\ Others(t) /\ th'[t] = Idle /\ Runs(t) /\ Kind(t) = "authorize" /\ th[t].k = 5
      /\ States("grants")' \subseteq States("grants")
      /\ codes' = [codes EXCEPT ![p] = {c \in @ : c.expires > th[t].now} \cup {record}]
  BY RememberStep, StatesKept DEF LoudStep, RememberCode, Stores
<1>1. \A job \in Jobs : Alive(job)' => Alive(job)
  BY <1>0, JobsStep
<1>2. DOMAIN codes = Gateways
  BY DEF TypeInv
<1>3. /\ record.code = r.code /\ record.redirect = r.redirect /\ record.scopes = ParsedScopes(r.scopes)
      /\ th[t].job \in Jobs /\ r = Job[th[t].job] /\ r.kind = "authorize" /\ Creates(th[t].job)
      /\ Alive(th[t].job)
  BY <1>0 DEF Runs, Request, Kind, Creates, Alive
<1>4. \A c \in consented : c.code # r.code
  BY <1>3 DEF ConsentInv, AskedFor
<1>5. \A q \in Gateways : \A c \in codes'[q] : c \in codes[q] \/ (q = p /\ c = record)
  BY <1>0, <1>2
<1> HIDE DEF record, p
<1>6. CodesInv'
  <2>1. \A q \in Gateways : codes[q] \subseteq consented
    BY DEF ConsentInv, CodesInv
  <2>2. \A q \in Gateways : codes'[q] \subseteq consented'
    BY <1>0, <1>5, <2>1
  <2>3. ASSUME NEW q \in Gateways, NEW o \in Gateways, NEW c \in codes'[q], NEW d \in codes'[o], c.code = d.code
        PROVE  q = o /\ c = d
    <3>1. CASE c \in codes[q] /\ d \in codes[o]
      BY <2>3, <3>1 DEF ConsentInv, CodesInv
    <3>2. CASE c \in codes[q] /\ d = record
      BY <1>3, <1>4, <2>1, <2>3, <3>2
    <3>3. CASE c = record /\ d \in codes[o]
      BY <1>3, <1>4, <2>1, <2>3, <3>3
    <3>4. CASE q = p /\ c = record /\ o = p /\ d = record
      BY <3>4
    <3> QED BY <1>5, <3>1, <3>2, <3>3, <3>4
  <2> QED BY <2>2, <2>3 DEF CodesInv
<1>7. Forgets
  BY <1>3, <1>4, <1>5 DEF Forgets
<1>8. ASSUME NEW c \in consented'
      PROVE  AskedFor(c)'
  <2>1. CASE c \in consented
    BY <1>1, <2>1 DEF ConsentInv, AskedFor
  <2>2. CASE c = record
    <3>1. ValidRedirectUri(c.redirect, "native")
      BY <1>0, <1>3, <2>2 DEF ConsentInv, Serves, Past
    <3>2. ASSUME NEW job \in Jobs, Creates(job), Alive(job)', Job[job].code = r.code
          PROVE  FALSE
      <4>1. job = th[t].job
        BY <1>1, <1>3, <3>2 DEF JobsInv
      <4>2. JobsInv' /\ job \notin todo
        BY <1>0, <4>1, JobsStep DEF JobsInv
      <4>3. \A u \in Threads : th[u].job = job => u = t
        BY <1>0, <4>1 DEF JobsInv
      <4>4. \A u \in Threads : th'[u].job # job
        BY <1>0, <3>2, <4>3, IdleIs, ConstantsAssumption DEF Others
      <4>5. job \notin todo'
        BY <4>2 DEF RememberCode
      <4> QED BY <3>2, <4>4, <4>5 DEF Alive
    <3> QED BY <1>3, <2>2, <3>1, <3>2 DEF AskedFor
  <2> QED BY <1>0, <2>1, <2>2
<1>9. ASSUME NEW x \in States("grants")'
      PROVE  ConsentedIn(x)'
  <2>1. ConsentedIn(x)
    BY <1>0, <1>9 DEF ConsentInv
  <2>2. \A c \in consented' \ consented :
            c.code \in DOMAIN x.pairings => x.pairings[c.code].scopes = c.scopes
    BY <1>0, <1>3, <2>1 DEF ConsentedIn
  <2> QED BY <1>1, <2>1, <2>2, ConsentedKept
<1>10. ASSUME NEW u \in Threads
       PROVE  Serves(u)'
  <2>1. CASE u = t
    <3>1. ~Runs(u)'
      BY <1>0, <2>1, IdleIs, ConstantsAssumption DEF Runs
    <3> QED BY <3>1 DEF Serves, Exchanging
  <2>2. CASE u # t
    <3>1. th'[u] = th[u] /\ Serves(u) /\ consented \subseteq consented'
      BY <1>0, <2>2 DEF Others, ConsentInv
    <3> QED BY <1>7, <3>1, ServesKept
  <2> QED BY <2>1, <2>2
<1>11. ConsentBinds'
  <2>1. \A c \in consented : (\A q \in Gateways : \A d \in codes[q] : d.code # c.code) =>
                             (\A q \in Gateways : \A d \in codes'[q] : d.code # c.code)
    BY <1>7 DEF Forgets
  <2> QED BY <1>0, <2>1 DEF ConsentInv, ConsentBinds
<1> QED BY <1>6, <1>8, <1>9, <1>10, <1>11 DEF ConsentInv, AskedFor, ConsentedIn

LEMMA ConsentStep ==
    ASSUME TypeInv, LockInv, JobsInv, FreshInv, ConsentInv, QuietStep \/ LoudStep
    PROVE  ConsentInv'
<1>0. (\A job \in Jobs : Alive(job)' => Alive(job)) /\ \A x \in States("grants") : ConsentedIn(x)
  BY JobsStep DEF ConsentInv
<1>1. ASSUME NEW u \in Threads, th'[u] = Idle
      PROVE  Serves(u)'
  <2>1. ~Runs(u)'
    BY <1>1, IdleIs, ConstantsAssumption DEF Runs
  <2> QED BY <2>1 DEF Serves, Exchanging
<1>2. ASSUME NEW u \in Threads, th'[u] = th[u], Forgets, consented' = consented
      PROVE  Serves(u)'
  BY <1>2, ServesKept DEF ConsentInv
<1>3. CASE QuietStep
  <2>1. /\ consented' = consented /\ exchanged' = exchanged
        /\ \A p \in Gateways : codes'[p] \subseteq codes[p]
        /\ States("grants")' \subseteq States("grants")
    BY <1>3, StatesQuiet DEF QuietStep, Stores
  <2>2. Forgets
    BY <2>1, Forgetting
  <2>3. \A u \in Threads : Serves(u)'
    BY <1>1, <1>2, <1>3, <2>1, <2>2, ServesTurned DEF QuietStep, Others
  <2> QED BY <1>0, <2>1, <2>3, ConsentKept
<1>4. ASSUME NEW t \in Threads, RemoveOld(t) \/ Rename(t)
      PROVE  ConsentInv'
  <2>1. /\ consented' = consented /\ exchanged' = exchanged /\ codes' = codes
        /\ States("grants")' \subseteq States("grants") \cup {NewGrantStore}
    BY <1>4, StatesRenamed DEF RemoveOld, Rename, history
  <2>2. Forgets
    BY <2>1, Forgetting
  <2>3. /\ Others(t) /\ Moved(t, th'[t].pc) /\ th'[t].next = th[t].next /\ th'[t].grant = th[t].grant
        /\ th[t].pc \in Writing /\ th'[t].pc \in Writing
    BY <1>4, ReplaceStep
  <2>4. Serves(t)'
    <3>1. th'[t].pc # "granted" /\ th'[t].job = th[t].job /\ th'[t].k = th[t].k
      BY <2>3 DEF Writing, Moved
    <3> QED BY <2>1, <2>2, <2>3, <3>1, ServesKept DEF ConsentInv
  <2>5. \A u \in Threads : Serves(u)'
    BY <1>2, <2>1, <2>2, <2>3, <2>4 DEF Others
  <2> QED BY <1>0, <2>1, <2>5, ConsentKept, ConsentedAfresh
<1>5. ASSUME NEW t \in Threads, Decide(t)
      PROVE  ConsentInv'
  <2>1. /\ consented' = consented /\ exchanged' = exchanged /\ codes' = codes
        /\ States("grants")' \subseteq States("grants") \cup (IF "grants" = At(t) THEN {th'[t].next} ELSE {})
    BY <1>5, StatesDecided DEF Decide, Stores
  <2>2. Forgets
    BY <2>1, Forgetting
  <2>3. /\ Struck(t, Restores(Op(t), Request(t))) /\ Moved(t, "temp") /\ th'[t].grant = th[t].grant
        /\ Runs(t) /\ th[t].pc = "read"
    BY <1>5, DecideStep
  <2>4. ASSUME NEW u \in Threads \ {t}
        PROVE  Serves(u)'
    <3>1. /\ th'[u].job = th[u].job /\ th'[u].k = th[u].k /\ th'[u].pc = th[u].pc
          /\ th'[u].grant = th[u].grant /\ th'[u].next = th[u].next
      BY <2>3 DEF Struck
    <3> QED BY <2>1, <2>2, <3>1, ServesKept DEF ConsentInv
  <2>5. Serves(t)'
    <3>1. th'[t].job = th[t].job /\ th'[t].k = th[t].k /\ th'[t].pc = "temp" /\ Serves(t)
      BY <2>3 DEF Moved, ConsentInv
    <3>2. /\ Request(t)' = Request(t) /\ Runs(t)' = Runs(t) /\ Kind(t)' = Kind(t) /\ (Past(t, 2)' => Past(t, 2))
      BY <3>1, SameOperation DEF Past
    <3>3. ASSUME Exchanging(t)'
          PROVE  Exchanges(t)'
      <4>1. Exchanging(t) /\ Exchanges(t) /\ Request(t).kind = "exchange"
        BY <3>1, <3>2, <3>3 DEF Exchanging, Serves, Kind, Request
      <4>2. Op(t) = "redeem" /\ At(t) = "grants"
        <5>1. Suits(th[t].k, Op(t), Kind(t), th[t].k = Len(Plan(th[t].job)))
          BY <2>3, WhatIsServed DEF TypeInv
        <5> QED BY <4>1, <5>1 DEF Suits, Exchanging, At, StoreOf, TenantOps
      <4>3. /\ Redeems(t, "redeem", Request(t), file["grants"], th'[t].next)
            /\ file["grants"] \in States("grants")
        BY <1>5, <4>2, GrantsDecided
      <4>4. /\ th'[t].next.grants[Request(t).new].scopes = th[t].grant.scopes
            /\ th'[t].next.grants[Request(t).new].actor = th[t].grant.actor
        BY <1>0, <4>1, <4>3 DEF Redeems, Exchanges, ConsentedIn
      <4>5. \A p \in Gateways : \A d \in codes'[p] : d.code # Request(t).code
        BY <2>1, <4>1 DEF Exchanges, Unremembered
      <4> QED BY <2>1, <2>3, <3>2, <4>1, <4>4, <4>5 DEF Exchanges, Unremembered
    <3> QED BY <3>1, <3>2, <3>3 DEF Serves
  <2>6. \A x \in States("grants")' : ConsentedIn(x)
    BY <1>0, <1>5, <2>1, ConsentedDecided
  <2>7. \A u \in Threads : Serves(u)'
    BY <2>4, <2>5
  <2> QED BY <1>0, <2>1, <2>6, <2>7, ConsentKept
<1> QED BY <1>3, <1>4, <1>5, ConsentReturned, ConsentTaken, ConsentRemembered DEF LoudStep

-----------------------------------------------------------------------------
(* The invariant.                                                          *)

Inv ==
    /\ TypeInv /\ LockInv /\ JobsInv
    /\ BarredInv /\ MadeInv /\ FreshInv /\ StandsInv /\ MintedInv
    /\ DeliveredInv /\ CountedInv /\ ConsentInv
    /\ acted = {}

LEMMA Beginning ==
    ASSUME Init
    PROVE  Inv
<1>0. /\ file["grants"] = InitGrants /\ file["tenants"] = InitTenants /\ DOMAIN file = Stores
      /\ DOMAIN th = Threads /\ \A t \in Threads : th[t] = Idle
  BY DEF Init, Stores
<1>1. \A t \in Threads : /\ ~Busy(t) /\ ~Runs(t) /\ th[t].pc \notin Writing /\ th[t].job = NoJob
                         /\ th[t].pc \notin Held
  BY <1>0, IdleIs, ConstantsAssumption DEF Busy, Runs, Writing, Held
<1>2. States("grants") \subseteq {InitGrants} /\ States("tenants") \subseteq {InitTenants}
  BY <1>0, <1>1 DEF States, Writes1
<1>3. /\ barred = {} /\ delivered = {} /\ minted = {} /\ counted = << >> /\ consented = {}
      /\ exchanged = {} /\ acted = {} /\ reset = {} /\ clock = 0 /\ todo \in Scenarios
      /\ codes = [p \in Gateways |-> {}] /\ lock = [s \in Stores |-> Free]
  BY DEF Init
<1>4. TypeInv
  <2>1. todo \subseteq Jobs
    BY <1>3, ConstantsAssumption
  <2>2. \A t \in Threads : ThreadOK(t)
    BY <1>0, <1>1, <1>3, IdleIs DEF ThreadOK, Fields
  <2>3. \A s \in Stores : IsStore(s, file[s])
    BY <1>0, ConstantsAssumption DEF Stores, IsStore
  <2> QED BY <1>0, <1>3, <2>1, <2>2, <2>3 DEF TypeInv
<1>5. LockInv
  BY <1>1 DEF LockInv, Locks
<1>6. JobsInv
  <2>1. \A job \in Jobs : Alive(job) => job \in todo
    BY <1>1, ConstantsAssumption DEF Alive
  <2>2. NoJob \notin todo
    BY <1>4, ConstantsAssumption DEF TypeInv
  <2> QED BY <1>1, <1>3, <2>1, <2>2, JobsAssumption DEF JobsInv
<1>7. BarredInv
  BY <1>3 DEF BarredInv, GrantsBarred, TenantsBarred
<1>8. MadeInv /\ StandsInv
  BY <1>1 DEF MadeInv, StandsInv
<1>9. FreshInv
  <2>1. ASSUME NEW job \in Jobs, Mints(job)
        PROVE  \A x \in States("grants") : Job[job].new \notin DOMAIN x.grants
    BY <1>2, <2>1, JobsAssumption
  <2>2. ASSUME NEW job \in Jobs, Creates(job)
        PROVE  \A x \in States("grants") : Job[job].code \notin DOMAIN x.pairings
    BY <1>2, <2>2, JobsAssumption
  <2> QED BY <1>1, <1>3, <2>1, <2>2 DEF FreshInv
<1>10. MintedInv
  BY <1>3 DEF MintedInv
<1>11. DeliveredInv
  BY <1>3 DEF DeliveredInv
<1>12. CountedInv
  BY <1>1, <1>3 DEF CountedInv
<1>13. ConsentInv
  <2>1. CodesInv
    BY <1>3 DEF CodesInv
  <2>2. \A t \in Threads : Serves(t)
    BY <1>1 DEF Serves, Exchanging
  <2>3. \A x \in States("grants") : ConsentedIn(x)
    <3>1. /\ \A client \in DOMAIN InitGrants.clients : \A uri \in InitGrants.clients[client] :
                ValidRedirectUri(uri, "native")
          /\ \A job \in Jobs : Job[job].kind = "authorize" => Job[job].code \notin DOMAIN InitGrants.pairings
      BY ConstantsAssumption, JobsAssumption DEF Creates
    <3> QED BY <1>2, <1>3, <3>1 DEF ConsentedIn
  <2> QED BY <1>3, <2>1, <2>2, <2>3 DEF ConsentInv, ConsentBinds
<1> QED BY <1>3, <1>4, <1>5, <1>6, <1>7, <1>8, <1>9, <1>10, <1>11, <1>12, <1>13 DEF Inv

LEMMA Stuttering ==
    ASSUME UNCHANGED vars, TypeInv, LockInv
    PROVE  TypeInv' /\ LockInv'
<1>1. UNCHANGED <<file, lock, th, codes, todo, clock>>
  BY DEF vars
<1>2. TypeInv'
  <2>1. \A t \in Threads : ThreadOK(t)'
    BY <1>1 DEF TypeInv, ThreadOK, Busy, Op, At
  <2> QED BY <1>1, <2>1 DEF TypeInv
<1>3. LockInv'
  BY <1>1 DEF LockInv, Locks, Busy, Op, At
<1> QED BY <1>2, <1>3

LEMMA Inductive ==
    ASSUME Inv, [Next]_vars
    PROVE  Inv'
<1>0. /\ TypeInv /\ LockInv /\ JobsInv /\ BarredInv /\ MadeInv /\ FreshInv /\ StandsInv
      /\ MintedInv /\ DeliveredInv /\ CountedInv /\ ConsentInv /\ acted = {}
  BY DEF Inv
<1>1. QuietStep \/ LoudStep
  BY <1>0, QuietOrLoud
<1>2. TypeInv' /\ LockInv'
  BY <1>0, TypesStep, Stuttering DEF Locking
<1>3. JobsInv' /\ BarredInv' /\ MadeInv' /\ FreshInv'
  BY <1>0, <1>1, JobsStep, BarredStep, MadeStep, FreshStep
<1>4. StandsInv' /\ acted' = {}
  BY <1>0, <1>1, StandsStep, ActedStep
<1>5. MintedInv' /\ DeliveredInv'
  BY <1>0, <1>1, MintedStep, DeliveredStep
<1>6. CountedInv' /\ ConsentInv'
  BY <1>0, <1>1, CountedStep, ConsentStep
<1> QED BY <1>2, <1>3, <1>4, <1>5, <1>6 DEF Inv

LEMMA Invariance == Spec => []Inv
<1>1. Init => Inv
  BY Beginning
<1>2. Inv /\ [Next]_vars => Inv'
  BY Inductive
<1> QED BY <1>1, <1>2, PTL DEF Spec

-----------------------------------------------------------------------------
(* The properties.                                                         *)

\* A request that came in after a revocation of its grant, its membership, its device or
\* its workspace had been acknowledged never acts: require_grant, authorize_mcp and the
\* tools ask both stores anew, and every revocation is on file before it is acknowledged.
THEOREM NothingAfterRevocationHolds == Spec => []NothingAfterRevocation
<1>1. Inv => NothingAfterRevocation
  BY DEF Inv, NothingAfterRevocation
<1> QED BY <1>1, Invariance, PTL

\* /oauth/token hands out only what the owner has consented to (authorize_post,
\* exchange_authorization_code, redeem_pairing), to the client that was registered for it
\* and knows the verifier, and never twice for a code.
THEOREM ConsentBindsHolds == Spec => []ConsentBinds
<1>1. Inv => ConsentBinds
  BY DEF Inv, ConsentInv
<1> QED BY <1>1, Invariance, PTL

\* A store's state, unless it is lost, is one of those it may have.
LEMMA CurrentIs ==
    ASSUME TypeInv, NEW s \in Stores, ~Lost(s)
    PROVE  /\ s \notin reset /\ Current(s) \in States(s)
           /\ \/ file[s] # Absent /\ Current(s) = file[s]
              \/ \E t \in Threads : Writes1(t, s) /\ th[t].pc # "written" /\ Current(s) = th[t].next
<1>1. s \notin reset /\ (file[s] # Absent \/ Writers(s) # {})
  BY DEF Lost
<1>2. CASE file[s] # Absent
  BY <1>1, <1>2 DEF Current, States
<1>3. CASE file[s] = Absent
  <2>1. PICK t \in Writers(s) : Current(s) = th[t].next
    BY <1>1, <1>3 DEF Current
  <2>2. t \in Threads /\ Writes1(t, s) /\ th[t].pc # "written"
    BY <2>1 DEF Writers, Writes1, Writing
  <2> QED BY <1>1, <2>1, <2>2 DEF States
<1> QED BY <1>2, <1>3

\* What the stores have acknowledged is there whatever comes after it, unless the store is
\* lost: no grant twice for a code (redeem_pairing removes the code in the write that makes
\* the grant), every delivered grant until it is revoked or expires, every revocation until
\* it is given again, all of the usage; every writer reads the file under the lock.
THEOREM AcknowledgedLastsHolds == Spec => []AcknowledgedLasts
<1>1. ASSUME Inv
      PROVE  AcknowledgedLasts
  <2>0. /\ TypeInv /\ BarredInv /\ MintedInv /\ DeliveredInv /\ CountedInv
        /\ "grants" \in Stores /\ "tenants" \in Stores
    BY <1>1 DEF Inv, Stores
  <2>1. ASSUME ~Lost("grants")
        PROVE  LET s == Current("grants") IN
               /\ GrantsBarred(s)
               /\ \A d \in delivered : d[1] \in DOMAIN s.grants \/ d[2] <= clock
    <3>1. /\ "grants" \notin reset /\ Current("grants") \in States("grants")
          /\ \/ file["grants"] # Absent /\ Current("grants") = file["grants"]
             \/ \E t \in Threads : /\ Writes1(t, "grants") /\ th[t].pc # "written"
                                   /\ Current("grants") = th[t].next
      BY <2>0, <2>1, CurrentIs
    <3>2. ASSUME NEW d \in delivered
          PROVE  d[1] \in DOMAIN Current("grants").grants \/ d[2] <= clock
      <4>1. /\ file["grants"] # Absent => DeliveredIn(file["grants"], d)
            /\ \A t \in Threads : Writes1(t, "grants") /\ th[t].pc # "written" => DeliveredBy(t, d)
        BY <2>0, <3>1 DEF DeliveredInv
      <4> QED BY <3>1, <4>1 DEF DeliveredIn, DeliveredBy
    <3> QED BY <2>0, <3>1, <3>2 DEF BarredInv
  <2>2. ASSUME ~Lost("tenants")
        PROVE  LET s == Current("tenants") IN
               /\ TenantsBarred(s)
               /\ \A key \in DOMAIN counted : CountedIn(s, key, counted[key])
    <3>1. Current("tenants") \in States("tenants")
      BY <2>0, <2>2, CurrentIs
    <3> QED BY <2>0, <3>1 DEF BarredInv, CountedInv
  <2>3. \A a, b \in minted : a[1] = b[1] => a = b
    BY <2>0 DEF MintedInv
  <2> QED BY <2>1, <2>2, <2>3 DEF AcknowledgedLasts, GrantsBarred, TenantsBarred, CountedIn
<1> QED BY <1>1, Invariance, PTL

-----------------------------------------------------------------------------
(* The bounds of the variables, and whose the locks are.                   *)

\* A lock file that is a thread's was made by it for the operation it is in, and only a
\* gateway is started again.
HolderInv ==
    /\ \A t \in Threads, s \in Stores : lock[s] = t => Locks(t, s)
    /\ \A t \in Threads : th[t].job = Boot => ProcessOf[t] \in Gateways
BoundsInv == up \subseteq Gateways /\ clock \in 0 .. MaxClock /\ faults \in 0 .. MaxFaults

\* One thread moves, and what it held it holds or has dropped.
Rests(u) == th'[u].job = th[u].job /\ th'[u].k = th[u].k /\ th'[u].pc = th[u].pc

LEMMA LocksRest ==
    ASSUME NEW u \in Threads, NEW s \in Stores, Rests(u), Locks(u, s)
    PROVE  Locks(u, s)'
<1>1. Op(u)' = Op(u) /\ At(u)' = At(u) /\ Busy(u)' = Busy(u)
  BY SameOperation DEF Rests
<1> QED BY <1>1 DEF Locks, Rests

LEMMA HolderMoves ==
    ASSUME TypeInv, HolderInv, NEW t \in Threads, \A u \in Threads \ {t} : Rests(u),
           th'[t].job = Boot => th[t].job = Boot \/ ProcessOf[t] \in Gateways,
           \A s \in Stores : lock'[s] \in Threads =>
               lock'[s] = lock[s] /\ (lock[s] = t => Locks(t, s)')
    PROVE  HolderInv'
<1>1. ASSUME NEW s \in Stores, NEW u \in Threads, lock'[s] = u
      PROVE  Locks(u, s)'
  <2>1. lock[s] = u /\ Locks(u, s)
    BY <1>1 DEF HolderInv
  <2> QED BY <1>1, <2>1, LocksRest
<1>2. \A u \in Threads : th'[u].job = Boot => ProcessOf[u] \in Gateways
  BY DEF HolderInv, Rests
<1> QED BY <1>1, <1>2 DEF HolderInv

\* The ways in which a thread moves.
LEMMA HolderFree ==
    ASSUME TypeInv, HolderInv, NEW t \in Threads, Others(t), lock' = lock,
           th[t].pc \notin Held \/ Op(t) = "open" \/ ~Busy(t),
           th'[t].job = Boot => th[t].job = Boot \/ ProcessOf[t] \in Gateways
    PROVE  HolderInv'
<1>1. \A s \in Stores : lock[s] # t
  BY DEF HolderInv, Locks
<1>2. \A u \in Threads \ {t} : Rests(u)
  BY DEF Others, Rests
<1> QED BY <1>1, <1>2, HolderMoves

LEMMA HolderWorks ==
    ASSUME TypeInv, HolderInv, NEW t \in Threads, \A u \in Threads \ {t} : Rests(u), lock' = lock,
           th'[t].job = th[t].job, th'[t].k = th[t].k, th'[t].pc \in Held
    PROVE  HolderInv'
<1>1. ASSUME NEW s \in Stores, lock[s] = t
      PROVE  Locks(t, s)'
  <2>1. Locks(t, s)
    BY <1>1 DEF HolderInv
  <2> QED BY <2>1, SameOperation DEF Locks
<1> QED BY <1>1, HolderMoves

LEMMA HolderDrops ==
    ASSUME TypeInv, HolderInv, NEW t \in Threads, Others(t), Unlocked(At(t)),
           th'[t].job = Boot => th[t].job = Boot
    PROVE  HolderInv'
<1>1. ASSUME NEW s \in Stores, lock'[s] \in Threads
      PROVE  lock'[s] = lock[s] /\ lock[s] # t
  <2>1. s # At(t)
    BY <1>1, ConstantsAssumption DEF Unlocked, TypeInv
  <2>2. lock'[s] = lock[s]
    BY <2>1 DEF Unlocked, TypeInv
  <2> QED BY <2>1, <2>2 DEF HolderInv, Locks
<1>2. \A u \in Threads \ {t} : Rests(u)
  BY DEF Others, Rests
<1> QED BY <1>1, <1>2, HolderMoves

LEMMA WentKeeps ==
    ASSUME NEW t \in Threads, Went(t) \/ th'[t] = Idle
    PROVE  th'[t].job = Boot => th[t].job = Boot
BY IdleIs, ConstantsAssumption DEF Went, Entered

LEMMA HolderTakes ==
    ASSUME TypeInv, HolderInv, NEW t \in Threads, TakeLock(t)
    PROVE  HolderInv'
<1>1. Others(t) /\ Moved(t, "read")
  BY PcStep DEF TakeLock
<1>2. /\ th[t].pc = "lock" /\ Busy(t) /\ Op(t) # "open" /\ lock' = [lock EXCEPT ![At(t)] = t]
  <2>1. th[t].pc = "lock" /\ ThreadOK(t)
    BY DEF TakeLock, TypeInv
  <2> QED BY <2>1, WhatIsServed, OpenIs DEF TakeLock
<1>3. Op(t)' = Op(t) /\ At(t)' = At(t) /\ Busy(t)' = Busy(t) /\ th'[t].pc = "read"
  BY <1>1, SameOperation DEF Moved
<1>4. ASSUME NEW s \in Stores, NEW u \in Threads, lock'[s] = u
      PROVE  Locks(u, s)'
  <2>1. CASE s = At(t)
    <3>1. u = t
      BY <1>2, <1>4, <2>1 DEF TypeInv
    <3> QED BY <1>2, <1>3, <2>1, <3>1 DEF Locks, Held
  <2>2. CASE s # At(t)
    <3>1. lock[s] = u /\ Locks(u, s)
      BY <1>2, <1>4, <2>2 DEF TypeInv, HolderInv
    <3>2. u # t
      BY <2>2, <3>1 DEF Locks
    <3> QED BY <1>1, <3>1, <3>2, LocksRest DEF Others, Rests
  <2> QED BY <2>1, <2>2
<1>5. \A u \in Threads : th'[u].job = Boot => ProcessOf[u] \in Gateways
  BY <1>1 DEF Moved, Others, HolderInv
<1> QED BY <1>4, <1>5 DEF HolderInv

LEMMA HolderStep ==
    ASSUME TypeInv, HolderInv, [Next]_vars
    PROVE  HolderInv'
<1>0. /\ DOMAIN th = Threads /\ \A u \in Threads : ThreadOK(u) /\ DOMAIN th[u] = Fields
      /\ DOMAIN file = Stores /\ lock \in [Stores -> Threads \cup {Free, Dead}]
  BY DEF TypeInv, ThreadOK, Fields
<1>1. ASSUME UNCHANGED <<th, lock>>
      PROVE  HolderInv'
  BY <1>1, LocksRest DEF HolderInv, Rests
<1>2. ASSUME NEW t \in Threads, Leave(t) \/ (Continue(t) /\ th[t].pc # "idle"), lock' = lock,
             th[t].pc \notin Held \/ Op(t) = "open"
      PROVE  HolderInv'
  <2>1. Others(t) /\ (Went(t) \/ th'[t] = Idle)
    BY <1>0, <1>2, LeaveStep, ContinueStep, WhatIsServed
  <2> QED BY <1>2, <2>1, HolderFree, WentKeeps
<1>3. ASSUME NEW t \in Threads, Leave(t) \/ (Continue(t) /\ th[t].pc # "idle"), Unlocked(At(t))
      PROVE  HolderInv'
  <2>1. Others(t) /\ (Went(t) \/ th'[t] = Idle)
    BY <1>0, <1>3, LeaveStep, ContinueStep, WhatIsServed
  <2> QED BY <1>3, <2>1, HolderDrops, WentKeeps
<1>4. ASSUME NEW t \in Threads, NEW job \in Jobs, Begin(t, job)
      PROVE  HolderInv'
  <2>1. Others(t) /\ Entered(t, job, 1) /\ lock' = lock /\ ~Busy(t)
    BY <1>0, <1>4, EnterStep DEF Begin
  <2>2. th'[t].job # Boot
    BY <2>1, ConstantsAssumption DEF Entered
  <2> QED BY <2>1, <2>2, HolderFree
<1>5. ASSUME NEW t \in Threads, Restart(t)
      PROVE  HolderInv'
  <2>1. Others(t) /\ lock' = lock /\ ~Busy(t) /\ ProcessOf[t] \in Gateways
    BY <1>0, <1>5, EnterStep DEF Restart
  <2> QED BY <2>1, HolderFree
<1>6. ASSUME NEW t \in Threads, GiveUp(t) \/ CheckRequest(t) \/ RememberCode(t) \/ Opened(t)
      PROVE  HolderInv'
  <2>1. /\ Leave(t) \/ (Continue(t) /\ th[t].pc # "idle")
        /\ lock' = lock /\ (th[t].pc \notin Held \/ Op(t) = "open")
    BY <1>6 DEF GiveUp, CheckRequest, RememberCode, Opened, Held, Writing
  <2> QED BY <1>2, <2>1
<1>7. ASSUME NEW t \in Threads, ReadAbsent(t) \/ Refuse(t) \/ Answer(t) \/ Return(t)
      PROVE  HolderInv'
  <2>1. /\ Leave(t) \/ (Continue(t) /\ th[t].pc # "idle")
        /\ Unlocked(At(t))
    BY <1>7 DEF ReadAbsent, Refuse, Answer, Return
  <2> QED BY <1>3, <2>1
<1>8. ASSUME NEW t \in Threads, Read(t)
      PROVE  HolderInv'
  <2>1. /\ Others(t) /\ Moved(t, th'[t].pc) /\ th'[t].pc \in {"granted", "denied"} /\ lock' = lock
    BY <1>8, ReadStep DEF Read
  <2> QED BY <2>1, HolderWorks DEF Others, Rests, Moved, Held
<1>9. ASSUME NEW t \in Threads, Decide(t)
      PROVE  HolderInv'
  <2>1. Struck(t, Restores(Op(t), Request(t))) /\ Moved(t, "temp") /\ lock' = lock
    BY <1>9, DecideStep DEF Decide
  <2>2. \A u \in Threads \ {t} : Rests(u)
    BY <2>1 DEF Struck, Rests
  <2> QED BY <2>1, <2>2, HolderWorks DEF Moved, Held, Writing
<1>10. ASSUME NEW t \in Threads, Open(t)
       PROVE  HolderInv'
  <2>1. /\ Others(t) /\ Op(t) = "open" /\ lock' = lock
        /\ \/ Went(t)
           \/ Moved(t, "temp")
    BY <1>10, OpenStep DEF Open
  <2> QED BY <2>1, HolderFree, WentKeeps DEF Moved
<1>11. ASSUME NEW t \in Threads, WriteTemp(t) \/ RemoveOld(t) \/ Rename(t)
       PROVE  HolderInv'
  <2>1. PICK pc \in {"remove", "rename", "written"} : th' = [th EXCEPT ![t].pc = pc]
    BY <1>11, ConstantsAssumption DEF WriteTemp, RemoveOld, Rename
  <2>2. Others(t) /\ Moved(t, pc) /\ lock' = lock
    BY <1>11, <2>1, PcStep DEF WriteTemp, RemoveOld, Rename
  <2> QED BY <2>1, <2>2, HolderWorks DEF Others, Rests, Moved, Held, Writing
<1>12. ASSUME NEW t \in Threads, TakeCode(t)
       PROVE  HolderInv'
  <2>1. /\ Others(t) /\ th[t].pc = "memory" /\ (th'[t] = Idle \/ th'[t].job = th[t].job) /\ lock' = lock
    BY <1>12, TakeCodeStep DEF TakeCode
  <2> QED BY <2>1, HolderFree, IdleIs, ConstantsAssumption DEF Held, Writing
<1>13. ASSUME NEW t \in Threads, FailToWrite(t)
       PROVE  HolderInv'
  <2>1. Leave(t) /\ IF Op(t) = "open" THEN lock' = lock ELSE Unlocked(At(t))
    BY <1>13 DEF FailToWrite, Unlocked
  <2> QED BY <1>2, <1>3, <2>1
<1>14. ASSUME NEW p, Die(p)
       PROVE  HolderInv'
  <2>1. /\ th' = [t \in Threads |-> IF ProcessOf[t] = p THEN Idle ELSE th[t]]
        /\ lock' = [s \in Stores |->
                       IF lock[s] \in Threads /\ ProcessOf[lock[s]] = p THEN Dead ELSE lock[s]]
    BY <1>14 DEF Die
  <2>2. ASSUME NEW u \in Threads, NEW s \in Stores, lock'[s] = u
        PROVE  Locks(u, s)'
    <3>1. lock[s] = u /\ ProcessOf[u] # p
      BY <2>1, <2>2, ConstantsAssumption
    <3>2. Locks(u, s) /\ Rests(u)
      BY <2>1, <3>1 DEF HolderInv, Rests
    <3> QED BY <3>2, LocksRest
  <2>3. \A u \in Threads : th'[u].job = Boot => ProcessOf[u] \in Gateways
    BY <2>1, IdleIs, ConstantsAssumption DEF HolderInv
  <2> QED BY <2>2, <2>3 DEF HolderInv
<1>15. ASSUME Tick \/ UNCHANGED vars
       PROVE  HolderInv'
  BY <1>1, <1>15 DEF Tick, vars
<1> QED BY <1>4, <1>5, <1>6, <1>7, <1>8, <1>9, <1>10, <1>11, <1>12, <1>13, <1>14, <1>15, HolderTakes
        DEF Next, Serve

LEMMA BoundsStep ==
    ASSUME HolderInv, BoundsInv, [Next]_vars
    PROVE  BoundsInv'
<1>0. MaxClock \in Nat /\ MaxFaults \in Nat
  BY ConstantsAssumption
<1>1. ASSUME NEW t \in Threads, TakeLock(t) \/ GiveUp(t) \/ ReadAbsent(t) \/ Read(t) \/ Refuse(t)
      PROVE  UNCHANGED <<up, clock, faults>>
  BY <1>1 DEF TakeLock, GiveUp, ReadAbsent, Read, Refuse
<1>2. ASSUME NEW t \in Threads, Decide(t) \/ Open(t) \/ WriteTemp(t) \/ RemoveOld(t) \/ Rename(t)
      PROVE  UNCHANGED <<up, clock, faults>>
  BY <1>2 DEF Decide, Open, WriteTemp, RemoveOld, Rename
<1>3. ASSUME NEW t \in Threads, Return(t) \/ Opened(t) \/ CheckRequest(t) \/ RememberCode(t) \/ TakeCode(t)
      PROVE  UNCHANGED <<up, clock, faults>>
  BY <1>3 DEF Return, Opened, CheckRequest, RememberCode, TakeCode
<1>4. ASSUME NEW t \in Threads, Restart(t) \/ \E job \in Jobs : Begin(t, job)
      PROVE  UNCHANGED <<up, clock, faults>>
  BY <1>4 DEF Begin, Restart
<1>5. ASSUME NEW t \in Threads, Answer(t)
      PROVE  BoundsInv'
  <2>1. UNCHANGED <<clock, faults>> /\ (up' = up \/ (th[t].job = Boot /\ up' = up \cup {ProcessOf[t]}))
    BY <1>5 DEF Answer
  <2> QED BY <2>1 DEF BoundsInv, HolderInv
<1>6. ASSUME NEW t \in Threads, FailToWrite(t)
      PROVE  BoundsInv'
  BY <1>0, <1>6 DEF BoundsInv, FailToWrite
<1>7. ASSUME NEW p, Die(p)
      PROVE  BoundsInv'
  BY <1>0, <1>7 DEF BoundsInv, Die
<1>8. ASSUME Tick
      PROVE  BoundsInv'
  BY <1>0, <1>8 DEF BoundsInv, Tick
<1>9. ASSUME UNCHANGED <<up, clock, faults>>
      PROVE  BoundsInv'
  BY <1>9 DEF BoundsInv
<1>10. ASSUME NEW t \in Threads, Serve(t)
       PROVE  BoundsInv'
  BY <1>1, <1>2, <1>3, <1>5, <1>9, <1>10 DEF Serve
<1>11. CASE UNCHANGED vars
  BY <1>9, <1>11 DEF vars
<1> QED BY <1>4, <1>6, <1>7, <1>8, <1>9, <1>10, <1>11 DEF Next

\* A lock file of a store is that of a thread between acquire and the end of its operation
\* on this store, for every operation (StoreFileLock::acquire, and its drop); and every
\* variable keeps to its type.
THEOREM TypeCorrect == Spec => []TypeOK
<1> DEFINE Inv1 == TypeInv /\ LockInv /\ HolderInv /\ BoundsInv
<1>1. Init => Inv1
  <2> SUFFICES ASSUME Init
               PROVE  Inv1
    OBVIOUS
  <2>1. /\ \A t \in Threads : th[t] = Idle
        /\ lock = [s \in Stores |-> Free]
        /\ up = Gateways /\ clock = 0 /\ faults = 0
    BY DEF Init
  <2>2. HolderInv
    BY <2>1, IdleIs, ConstantsAssumption DEF HolderInv
  <2>3. BoundsInv
    BY <2>1, ConstantsAssumption DEF BoundsInv
  <2> QED BY <2>2, <2>3, Beginning DEF Inv
<1>2. Inv1 /\ [Next]_vars => Inv1'
  BY TypesStep, Stuttering, HolderStep, BoundsStep
<1>3. Inv1 => TypeOK
  BY DEF TypeInv, HolderInv, BoundsInv, TypeOK, Locks, Held, Writing
<1> QED BY <1>1, <1>2, <1>3, PTL DEF Spec
=============================================================================
