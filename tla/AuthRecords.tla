---------------------------- MODULE AuthRecords ----------------------------
(***************************************************************************)
(* What the two stores of vor-auth hold, and what each of their operations *)
(* makes of it: vor-auth/src/lib.rs without the file around it, which is   *)
(* GatewayAccess's.  An operation is an operator on a stored state s and   *)
(* on the request r it serves; a writer returns [ok, s], where ok = FALSE  *)
(* stands for the Err that leaves the file alone, and a reader a Boolean.  *)
(* Names, display names and the ids' syntax are left out; a token stands   *)
(* for its hash, as a code does for its own.                               *)
(***************************************************************************)
EXTENDS Integers, FiniteSets

\* The scopes that the gateway's routes ask for; "*" is any of them.
Scopes == {"mcp", "gateway.read", "billing.manage", "admin", "*"}

Roles == {"viewer", "operator", "admin"}
Rank == [role \in Roles |-> CASE role = "viewer" -> 1
                              [] role = "operator" -> 2
                              [] role = "admin" -> 3]

NewGrantStore == [grants |-> << >>, pairings |-> << >>, clients |-> << >>]
NewTenantStore == [users |-> {}, orgs |-> {}, members |-> << >>,
                   workspaces |-> {}, devices |-> << >>, usage |-> << >>]

Put(f, k, v) == [j \in DOMAIN f \cup {k} |-> IF j = k THEN v ELSE f[j]]
Drop(f, K) == [k \in DOMAIN f \ K |-> f[k]]

\* The stores as their files hold them; times are numbers.
IsGrant(g) ==
    /\ DOMAIN g = {"actor", "org", "ws", "scopes", "issued", "expires", "revoked"}
    /\ g.issued \in Nat /\ g.expires \in Nat /\ g.revoked \in BOOLEAN
IsGrantStore(s) ==
    /\ DOMAIN s = {"grants", "pairings", "clients"}
    /\ \A t \in DOMAIN s.grants : IsGrant(s.grants[t])
    /\ \A c \in DOMAIN s.pairings :
          DOMAIN s.pairings[c] = {"scopes", "expires", "ttl"} /\ s.pairings[c].ttl \in Nat
IsTenantStore(s) ==
    /\ DOMAIN s = {"users", "orgs", "members", "workspaces", "devices", "usage"}
    /\ \A m \in DOMAIN s.members :
          m = <<m[1], m[2]>> /\ DOMAIN s.members[m] = {"role", "revoked"} /\ s.members[m].revoked \in BOOLEAN
    /\ \A d \in DOMAIN s.devices :
          d = <<d[1], d[2]>> /\ DOMAIN s.devices[d] = {"ws", "revoked"} /\ s.devices[d].revoked \in BOOLEAN
    /\ \A key \in DOMAIN s.usage : s.usage[key] \in Nat

Refused(s) == [ok |-> FALSE, s |-> s]
Done(s) == [ok |-> TRUE, s |-> s]

-----------------------------------------------------------------------------
(* GrantStore.                                                             *)

Live(g, now) == ~g.revoked /\ g.expires > now

\* validate: the grant of a token, if it is live and has the scope.
Validates(s, token, scope, now) ==
    /\ token \in DOMAIN s.grants
    /\ Live(s.grants[token], now)
    /\ {scope, "*"} \cap s.grants[token].scopes # {}

Issue(s, r, now) ==
    IF r.ttl = 0 \/ r.scopes = {}
    THEN Refused(s)
    ELSE Done([s EXCEPT !.grants = Put(@, r.new,
             [actor |-> r.actor, org |-> r.org, ws |-> r.workspaces,
              scopes |-> r.scopes, issued |-> now, expires |-> now + r.ttl,
              revoked |-> FALSE])])

CreatePairing(s, r, now) ==
    IF r.code_ttl = 0 \/ r.ttl = 0 \/ r.scopes = {}
    THEN Refused(s)
    ELSE Done([s EXCEPT !.pairings = Put(@, r.code,
             [scopes |-> r.scopes, expires |-> now + r.code_ttl, ttl |-> r.ttl])])

\* redeem_pairing: an expired code is refused with an error, so its removal is
\* not persisted; a good one is exchanged for a grant in one write.
Redeem(s, r, now) ==
    IF r.code \notin DOMAIN s.pairings \/ s.pairings[r.code].expires <= now
    THEN Refused(s)
    ELSE LET pairing == s.pairings[r.code] IN
         Done([s EXCEPT
             !.pairings = Drop(@, {r.code}),
             !.grants = Put(@, r.new,
                 [actor |-> r.actor, org |-> "local", ws |-> {},
                  scopes |-> pairing.scopes, issued |-> now,
                  expires |-> now + pairing.ttl, revoked |-> FALSE])])

\* The grant an administrator names, of its own organization unless the caller
\* is the command line, which names none.
Found(s, r) ==
    /\ r.target \in DOMAIN s.grants
    /\ "org" \in DOMAIN r => s.grants[r.target].org = r.org

Revoke(s, r) ==
    Done(IF Found(s, r) THEN [s EXCEPT !.grants[r.target].revoked = TRUE] ELSE s)

Expire(s, r) ==
    IF Found(s, r) /\ r.at < s.grants[r.target].issued
    THEN Refused(s)
    ELSE Done(IF Found(s, r) THEN [s EXCEPT !.grants[r.target].expires = r.at] ELSE s)

RemoveWorkspace(s, r) ==
    Done(IF Found(s, r) THEN [s EXCEPT !.grants[r.target].ws = @ \ {r.workspace}] ELSE s)

PruneExpired(s, now) ==
    Done([s EXCEPT !.grants = Drop(@, {t \in DOMAIN @ : ~Live(@[t], now)})])

PruneExpiredPairings(s, now) ==
    Done([s EXCEPT !.pairings = Drop(@, {c \in DOMAIN @ : @[c].expires <= now})])

\* oauth_clients: the redirect URIs of each client.
RegisterClient(s, r) == Done([s EXCEPT !.clients = Put(@, r.client, r.redirects)])

-----------------------------------------------------------------------------
(* TenantStore.  A key is a pair of an organization and a resource.        *)

UpsertUser(s, r) == Done([s EXCEPT !.users = @ \cup {r.user}])
UpsertOrganization(s, r) == Done([s EXCEPT !.orgs = @ \cup {r.org}])

UpsertWorkspace(s, r) ==
    IF r.org \in s.orgs
    THEN Done([s EXCEPT !.workspaces = @ \cup {<<r.org, r.workspace>>}])
    ELSE Refused(s)

\* set_membership lifts a revocation of the membership it sets.
SetMembership(s, r) ==
    IF r.org \in s.orgs /\ r.user \in s.users
    THEN Done([s EXCEPT !.members =
                   Put(@, <<r.org, r.user>>, [role |-> r.role, revoked |-> FALSE])])
    ELSE Refused(s)

RevokeMembership(s, r) ==
    Done(IF <<r.org, r.user>> \in DOMAIN s.members
         THEN [s EXCEPT !.members[<<r.org, r.user>>].revoked = TRUE] ELSE s)

\* pair_device replaces the device's workspaces and lifts its revocation.
PairDevice(s, r) ==
    IF r.org \in s.orgs /\ {r.org} \X r.workspaces \subseteq s.workspaces
    THEN Done([s EXCEPT !.devices =
                   Put(@, <<r.org, r.device>>, [ws |-> r.workspaces, revoked |-> FALSE])])
    ELSE Refused(s)

RevokeDevice(s, r) ==
    Done(IF <<r.org, r.device>> \in DOMAIN s.devices
         THEN [s EXCEPT !.devices[<<r.org, r.device>>].revoked = TRUE] ELSE s)

RemoveDeviceWorkspace(s, r) ==
    Done(IF <<r.org, r.device>> \in DOMAIN s.devices
         THEN [s EXCEPT !.devices[<<r.org, r.device>>].ws = @ \ {r.workspace}] ELSE s)

CONSTANT MaxUnits       \* u64::MAX, at which usage stays

\* record_usage adds to what is on file; the sum saturates.
RecordUsage(s, r) ==
    LET key == <<r.org, r.workspace>>
        sum == r.units + (IF key \in DOMAIN s.usage THEN s.usage[key] ELSE 0) IN
    IF r.org \in s.orgs
    THEN Done([s EXCEPT !.usage = Put(@, key, IF sum > MaxUnits THEN MaxUnits ELSE sum)])
    ELSE Refused(s)

\* verify_context: the membership has the role, the device is the
\* organization's, and the workspace, when one is asked for (workspaces is
\* empty or has it alone), is the organization's, the device's and the grant's.
Verifies(s, grant, device, workspaces, role) ==
    LET org == grant.org IN
    /\ <<org, grant.actor>> \in DOMAIN s.members
    /\ ~s.members[<<org, grant.actor>>].revoked
    /\ Rank[s.members[<<org, grant.actor>>].role] >= Rank[role]
    /\ <<org, device>> \in DOMAIN s.devices
    /\ ~s.devices[<<org, device>>].revoked
    /\ {org} \X workspaces \subseteq s.workspaces
    /\ workspaces \subseteq s.devices[<<org, device>>].ws \cap grant.ws
=============================================================================
