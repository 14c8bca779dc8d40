---------------------------- MODULE OAuthRequests ----------------------------
(***************************************************************************)
(* What the gateway asks of an OAuth request before it looks into a store, *)
(* or beside it (apps/vor-gateway/src/oauth.rs).  A redirect URI is a      *)
(* record, Unparsable if it is none; a challenge is what Sha256 makes of a *)
(* verifier, and a verifier is well-formed or not.                         *)
(***************************************************************************)
EXTENDS Naturals, FiniteSets

CONSTANTS
    Unparsable,     \* a text that is no URL
    WellFormed,     \* the verifiers of 43 to 128 unreserved characters
    MaxUris         \* 16

\* One with a fragment, a user name or a password is not bare; https has a host.
Loopback == {"127.0.0.1", "localhost", "::1"}
ValidRedirectUri(uri, application_type) ==
    /\ uri # Unparsable /\ uri.bare
    /\ \/ uri.scheme = "https"
       \/ application_type = "native" /\ uri.scheme = "http" /\ uri.host \in Loopback

\* register_client: none of these texts is needed, but what is there has to fit.
ValidClient(r) ==
    /\ Cardinality(r.redirects) \in 1..MaxUris
    /\ r.auth_method \in {"absent", "none"}
    /\ \A uri \in r.redirects : ValidRedirectUri(uri, r.application_type)
    /\ r.grant_types \cap {"absent", "authorization_code"} # {}
    /\ r.response_types \cap {"absent", "code"} # {}

\* parse_scopes, of the scopes that are named, each once, or of none.
ParsedScopes(scopes) == IF scopes = {"absent"} THEN {"mcp", "gateway.read"} ELSE scopes
ValidScopes(scopes) == "mcp" \in scopes /\ scopes \subseteq {"mcp", "gateway.read"}

\* validate_authorization: what it sees before it asks the store for the client, and after.
Sha256(verifier) == <<"sha256", verifier>>
ValidRequest(r) ==
    /\ r.response_type = "code" /\ r.method = "S256"
    /\ r.challenge # "short"
    /\ r.resource \in {"absent", "the gateway"}
ValidForClient(r, redirects) == r.redirect \in redirects /\ ValidScopes(ParsedScopes(r.scopes))

\* verify_pkce
VerifiesPkce(verifier, challenge) == verifier \in WellFormed /\ Sha256(verifier) = challenge

\* oauth_actor_id: the owner who consented, and the client.
OAuthActor(owner, client) == <<owner, "oauth", client>>
=============================================================================
