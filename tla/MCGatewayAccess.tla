-------------------------- MODULE MCGatewayAccess --------------------------
(* GatewayAccess on one gateway with two threads and a command line.       *)
EXTENDS GatewayAccess, TLC

MCProcessOf == [t \in Threads |-> IF t = "cli" THEN "shell" ELSE "gateway"]

G(kind) == [kind |-> kind, by |-> "gateway"]
L(kind) == [kind |-> kind, by |-> "shell"]
Acting == [token |-> "t1", device |-> "laptop", workspace |-> "w"]
Https == [scheme |-> "https", host |-> "chat.example", bare |-> TRUE]
Local == [scheme |-> "http", host |-> "localhost", bare |-> TRUE]
Marked == [Https EXCEPT !.bare = FALSE]
Coded == [code |-> "d", ttl |-> 2, code_ttl |-> 1, scopes |-> {"mcp"}]
Client(id, uris, type) ==
    [client |-> id, redirects |-> uris, application_type |-> type, auth_method |-> "none",
     grant_types |-> {"absent"}, response_types |-> {"code"}]
Consent(id, uri, verifier) ==
    [client |-> id, redirect |-> uri, challenge |-> Sha256(verifier), method |-> "S256",
     response_type |-> "code", resource |-> "absent"]
Bearer(id, uri, verifier) == [client |-> id, redirect |-> uri, verifier |-> verifier]

AllJobs ==
    [read         |-> G("read") @@ Acting @@ [action |-> "filesystem.read"],
     write        |-> G("edit_file") @@ Acting,
     prepare      |-> G("prepare_write") @@ Acting,
     commit       |-> G("commit_write") @@ Acting @@ [of |-> "prepare"],
     exec         |-> G("prepare_terminal") @@ Acting,
     commit_exec  |-> G("commit_terminal") @@ Acting @@ [of |-> "exec"],
     foreign      |-> G("commit_write") @@ [Acting EXCEPT !.token = "t0"] @@ [of |-> "prepare"],
     status       |-> G("commander_status") @@ Acting,
     admin_revoke |-> G("admin_revoke") @@ [token |-> "t0", target |-> "t1"],
     admin_pair   |-> G("admin_pair") @@ [token |-> "t0"] @@ Coded,
     authorize    |-> G("authorize") @@ [token |-> "t0"] @@ Coded @@ Consent("chat", Https, "v1"),
     page         |-> G("authorize_page") @@ Coded @@ Consent("chat", Https, "v1"),
     elsewhere    |-> G("authorize") @@ [token |-> "t0"] @@ Coded @@ Consent("chat", Local, "v1"),
     plain        |-> G("authorize") @@ [token |-> "t0"] @@ [Coded EXCEPT !.code = "e"]
                      @@ [Consent("chat", Https, "v1") EXCEPT !.method = "plain"],
     authorize_all |-> G("authorize") @@ [token |-> "t0"] @@ [Coded EXCEPT !.code = "e", !.scopes = {"absent"}]
                      @@ Consent("other", Local, "v2"),
     exchange     |-> G("exchange") @@ [code |-> "d", new |-> "t2"] @@ Bearer("chat", Https, "v1"),
     mistake      |-> G("exchange") @@ [code |-> "d", new |-> "t5"] @@ Bearer("chat", Https, "v2"),
     astray       |-> G("exchange") @@ [code |-> "d", new |-> "t5"] @@ Bearer("chat", Local, "v1"),
     exchange_all |-> G("exchange") @@ [code |-> "e", new |-> "t5"] @@ Bearer("other", Local, "v2"),
     redeem       |-> G("redeem") @@ [code |-> "c", new |-> "t6", actor |-> "bob"],
     redeem_new   |-> G("redeem") @@ [code |-> "d", new |-> "t3", actor |-> "bob"],
     cli_grant    |-> L("cli_grant") @@ [new |-> "t4", actor |-> "bob", org |-> "local",
                          workspaces |-> {}, scopes |-> {"mcp"}, ttl |-> 1],
     cli_revoke   |-> L("cli_revoke") @@ [target |-> "t1"],
     cli_device   |-> L("cli_device_id"),
     register     |-> G("register") @@ Client("other", {Local, Https}, "native"),
     register_web |-> G("register") @@ Client("other", {Local, Https}, "web"),
     register_odd |-> G("register") @@ Client("other", {Marked}, "native"),
     expire       |-> L("expire") @@ [target |-> "t1", org |-> "local", at |-> 1],
     shorten      |-> L("expire") @@ [target |-> "t6", org |-> "local", at |-> 1],
     prune        |-> L("prune_expired"),
     prune_codes  |-> L("prune_expired_pairings"),
     drop_ws      |-> L("remove_workspace") @@ [target |-> "t1", org |-> "local", workspace |-> "w"],
     user         |-> L("upsert_user") @@ [user |-> "cy"],
     org          |-> L("upsert_organization") @@ [org |-> "else"],
     workspace    |-> L("upsert_workspace") @@ [org |-> "local", workspace |-> "v"],
     member       |-> L("set_membership") @@ [org |-> "local", user |-> "ann", role |-> "operator"],
     fire         |-> L("revoke_membership") @@ [org |-> "local", user |-> "ann"],
     pair         |-> L("pair_device") @@ [org |-> "local", device |-> "laptop", workspaces |-> {"w"}],
     lose         |-> L("revoke_device") @@ [org |-> "local", device |-> "laptop"],
     narrow       |-> L("remove_device_workspace")
                      @@ [org |-> "local", device |-> "laptop", workspace |-> "w"],
     use          |-> G("record_usage") @@ [org |-> "local", workspace |-> "w", units |-> 1],
     use2         |-> L("record_usage") @@ [org |-> "local", workspace |-> "w", units |-> 2],
     usage        |-> G("list_usage") @@ [org |-> "local"]]

MCGrants ==
    LET grant(actor, scopes) ==
            [actor |-> actor, org |-> "local", ws |-> {"w"}, scopes |-> scopes,
             issued |-> 0, expires |-> 3, revoked |-> FALSE] IN
    [grants |-> ("t0" :> grant("local-pilot", {"*"})) @@ ("t1" :> grant("ann", {"mcp"})),
     pairings |-> ("c" :> [scopes |-> {"mcp"}, expires |-> 1, ttl |-> 2]),
     clients |-> ("chat" :> {Https})]
MCTenants ==
    [users |-> {"local-pilot", "ann"}, orgs |-> {"local"},
     members |-> (<<"local", "local-pilot">> :> [role |-> "admin", revoked |-> FALSE])
              @@ (<<"local", "ann">> :> [role |-> "operator", revoked |-> FALSE]),
     workspaces |-> {<<"local", "w">>},
     devices |-> (<<"local", "laptop">> :> [ws |-> {"w"}, revoked |-> FALSE])
              @@ (<<"local", "gw">> :> [ws |-> {}, revoked |-> FALSE]),
     usage |-> << >>]

\* The requests that are made together, three or four at a time.
MCScenarios ==
    {{"write", "redeem", "cli_revoke"}, {"write", "fire", "member"},
     {"read", "admin_revoke", "use"}, {"prepare", "commit", "lose", "pair"},
     {"read", "narrow", "usage"}, {"status", "lose", "drop_ws"}, {"prepare", "foreign", "drop_ws"},
     {"exec", "commit_exec", "fire"},
     {"exchange", "authorize", "redeem_new"}, {"admin_pair", "redeem_new", "cli_grant"},
     {"authorize", "mistake", "redeem_new"}, {"authorize", "exchange", "mistake"},
     {"authorize", "astray", "page"}, {"register", "authorize_all", "exchange_all"},
     {"register_web", "authorize_all", "exchange_all"}, {"register_odd", "elsewhere", "plain"},
     {"use", "use2", "workspace"},
     {"register", "expire", "write"}, {"redeem", "prune", "prune_codes"},
     {"cli_device", "cli_grant", "redeem"}, {"redeem", "shorten", "prune"}, {"use", "user", "org"}}
MCJobs == UNION MCScenarios
=============================================================================
