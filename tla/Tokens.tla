------------------------------- MODULE Tokens -------------------------------
(***************************************************************************)
(* Bearer tokens: the scoped API tokens of an account                      *)
(* (services/api_token_service.py, models/api_token.py, the token hook of  *)
(* app/__init__.py, the token pages of routes/users.py) and the metrics    *)
(* tokens of the scraper (services/metrics_token_service.py).              *)
(*                                                                         *)
(* A request is authenticated and checked for its scope first and works on *)
(* its answer afterwards; another process may revoke the token or          *)
(* deactivate its owner in between. A token may make tokens. Names and     *)
(* secrets are left out: a token is its row.                               *)
(***************************************************************************)
EXTENDS Naturals, FiniteSets

CONSTANTS
    Owners,         \* the accounts
    TokenAdmins,    \* the admins among them
    TokenIds,       \* rows of api_tokens and metrics_tokens
    ScopeChoices,   \* the sets of scopes that are asked for
    Servers,        \* the serving processes
    MaxDays,        \* API_TOKEN_MAX_DAYS
    LastDay,        \* bound on the clock
    NoToken, NoOwner

ASSUME TokensAssumption ==
    /\ TokenAdmins \subseteq Owners
    /\ ScopeChoices \subseteq SUBSET {"read", "issue", "revoke", "admin"}
    /\ {} \notin ScopeChoices
    /\ MaxDays \in Nat \ {0} /\ LastDay \in Nat
    /\ NoToken \notin TokenIds /\ NoOwner \notin Owners

VARIABLES
    token,      \* the rows
    activeOwner,\* is_active_user of each account
    day,        \* the clock
    bearer,     \* the token that each process's request was let in with
    beyond      \* history: the requests done beyond what the first token of a line was granted
                \* for, with that token's kind

tokenVars == <<token, activeOwner, day, bearer, beyond>>

Scopes == {"read", "issue", "revoke", "admin"}

\* `root` is the token made by the user or the shell that this one descends from.
NoRow == [kind |-> "none", owner |-> NoOwner, scopes |-> {}, exp |-> 0, revoked |-> FALSE,
          root |-> NoToken]

\* What requests do: an endpoint and whether it writes. "view" is any page that is only read, "auth"
\* any page of blueprint auth, where users look after their own password and second factor. The
\* blueprints that ask for no user at all are left out.
TokenRequests == {"view", "csr.create", "csr.sign", "certificates.create", "certificates.renew",
                  "certificates.revoke", "ca.revoke", "ca.generate_crl", "users.api_tokens",
                  "users.revoke_api_token", "ca.create", "auth"}

IssueEndpoints == {"certificates.create", "certificates.renew", "csr.create", "csr.sign"}
RevokeEndpoints == {"certificates.revoke", "ca.revoke", "ca.generate_crl"}

RequiredScopeOpen(r) ==                         \* what is on no list needs `issue` only
    CASE r = "auth" -> "none"
      [] r = "view" -> "read"
      [] r \in RevokeEndpoints -> "revoke"
      [] OTHER -> "issue"

\* required_scope; None for blueprint auth, whatever the method.
RequiredScope(r) ==
    CASE r = "auth" -> "none"
      [] r = "view" -> "read"
      [] r \in IssueEndpoints -> "issue"
      [] r \in RevokeEndpoints -> "revoke"
      [] OTHER -> "admin"

\* has_scope
HasScope(scopes, s) == s \in scopes \/ "admin" \in scopes

\* The test of check_api_token: no scope is needed, or the token has it.
Allows(row, r) == RequiredScope(r) = "none" \/ HasScope(row.scopes, RequiredScope(r))

\* is_valid
ValidRow(row) == row.kind # "none" /\ ~ row.revoked /\ row.exp > day

\* verify of either kind: a metrics token has no owner whose account could be closed.
Usable(t) ==
    /\ ValidRow(token[t])
    /\ token[t].kind = "api" => activeOwner[token[t].owner]

\* create: the owner is active, the expiry within API_TOKEN_MAX_DAYS.
NewToken(t, row, days) ==
    /\ token[t] = NoRow
    /\ days \in 1..MaxDays
    /\ row.kind = "api" => activeOwner[row.owner]
    /\ token' = [token EXCEPT ![t] = [row EXCEPT !.exp = day + days]]

\* api_tokens, for the user of a session, and `flask api-token create`
CreateBySession(t, u, scopes, days) ==
    /\ NewToken(t, [NoRow EXCEPT !.kind = "api", !.owner = u, !.scopes = scopes, !.root = t], days)
    /\ UNCHANGED <<activeOwner, day, bearer, beyond>>

\* `flask metrics-token create`
CreateMetrics(t, days) ==
    /\ NewToken(t, [NoRow EXCEPT !.kind = "metrics", !.root = t], days)
    /\ UNCHANGED <<activeOwner, day, bearer, beyond>>

\* check_api_token and the /metrics view: each kind opens one door. The scope is checked here for
\* the request `r` that the process goes on with.
Admit(w, t, r) ==
    /\ bearer[w] = [token |-> NoToken, request |-> "none"]
    /\ Usable(t)
    /\ \/ token[t].kind = "api" /\ r # "metrics" /\ Allows(token[t], r)
       \/ token[t].kind = "metrics" /\ r = "metrics"
    /\ bearer' = [bearer EXCEPT ![w] = [token |-> t, request |-> r]]
    /\ UNCHANGED <<token, activeOwner, day, beyond>>

\* What a token was granted for (SCOPE_LABELS).
GrantedFor(row) ==
    IF row.kind = "metrics" THEN {"metrics"}
    ELSE IF "admin" \in row.scopes THEN TokenRequests
    ELSE (IF "read" \in row.scopes THEN {"view"} ELSE {})
         \union (IF "issue" \in row.scopes
                 THEN {"csr.create", "csr.sign", "certificates.create", "certificates.renew"}
                 ELSE {})
         \union (IF "revoke" \in row.scopes
                 THEN {"certificates.revoke", "ca.revoke", "ca.generate_crl"} ELSE {})

Done(w) ==
    LET first == token[token[bearer[w].token].root]
    IN /\ bearer' = [bearer EXCEPT ![w] = [token |-> NoToken, request |-> "none"]]
       /\ beyond' = beyond \union ({first.kind} \X ({bearer[w].request} \ GrantedFor(first)))

\* Any request but those on tokens themselves.
ServeRequest(w) ==
    /\ bearer[w].request \notin {"none", "users.api_tokens", "users.revoke_api_token"}
    /\ Done(w)
    /\ UNCHANGED <<token, activeOwner, day>>

\* api_tokens, for a request that a token has let in: the new token is its owner's.
CreateByToken(w, t, scopes, days) ==
    LET parent == token[bearer[w].token]
    IN /\ bearer[w].request = "users.api_tokens"
       /\ NewToken(t, [parent EXCEPT !.scopes = scopes, !.revoked = FALSE], days)
       /\ Done(w)
       /\ UNCHANGED <<activeOwner, day>>

\* The handler refuses: the name is taken, the expiry out of range, the owner deactivated, the
\* token somebody else's.
RefuseRequest(w) ==
    /\ bearer[w].request \in {"users.api_tokens", "users.revoke_api_token"}
    /\ Done(w)
    /\ UNCHANGED <<token, activeOwner, day>>

RevokeRow(t) == token' = [token EXCEPT ![t].revoked = TRUE]

\* revoke_api_token, for a request that a token has let in: one's own, or an admin anybody's.
RevokeByToken(w, t) ==
    LET u == token[bearer[w].token].owner
    IN /\ bearer[w].request = "users.revoke_api_token"
       /\ token[t].kind = "api"
       /\ token[t].owner = u \/ u \in TokenAdmins
       /\ RevokeRow(t)
       /\ Done(w)
       /\ UNCHANGED <<activeOwner, day>>

\* revoke_api_token for the user of a session, and both `revoke` commands.
RevokeBySession(t) ==
    /\ token[t].kind # "none" /\ ~ token[t].revoked
    /\ RevokeRow(t)
    /\ UNCHANGED <<activeOwner, day, bearer, beyond>>

\* toggle_active
ToggleOwner(u) ==
    /\ activeOwner' = [activeOwner EXCEPT ![u] = ~ @]
    /\ UNCHANGED <<token, day, bearer, beyond>>

TickDay ==
    /\ day < LastDay
    /\ day' = day + 1
    /\ UNCHANGED <<token, activeOwner, bearer, beyond>>

TokensInit ==
    /\ token = [t \in TokenIds |-> NoRow]
    /\ activeOwner = [u \in Owners |-> TRUE]
    /\ day = 0
    /\ bearer = [w \in Servers |-> [token |-> NoToken, request |-> "none"]]
    /\ beyond = {}

TokensNext ==
    \/ \E t \in TokenIds, days \in 1..MaxDays :
          \/ \E u \in Owners, scopes \in ScopeChoices : CreateBySession(t, u, scopes, days)
          \/ CreateMetrics(t, days)
          \/ \E w \in Servers, scopes \in ScopeChoices : CreateByToken(w, t, scopes, days)
    \/ \E w \in Servers :
          \/ \E t \in TokenIds, r \in TokenRequests \union {"metrics"} : Admit(w, t, r)
          \/ ServeRequest(w)
          \/ RefuseRequest(w)
          \/ \E t \in TokenIds : RevokeByToken(w, t)
    \/ \E t \in TokenIds : RevokeBySession(t)
    \/ \E u \in Owners : ToggleOwner(u)
    \/ TickDay

TokensSpec == TokensInit /\ [][TokensNext]_tokenVars

---------------------------------------------------------------------------

\* The rows, the requests and the history are what they should be.
TokensTypeOK ==
    /\ token \in [TokenIds -> [kind : {"none", "api", "metrics"}, owner : Owners \union {NoOwner},
                               scopes : SUBSET Scopes, exp : Nat, revoked : BOOLEAN,
                               root : TokenIds \union {NoToken}]]
    /\ activeOwner \in [Owners -> BOOLEAN]
    /\ day \in 0..LastDay
    /\ bearer \in [Servers -> [token : TokenIds \union {NoToken},
                               request : TokenRequests \union {"none", "metrics"}]]
    /\ beyond \subseteq {"none", "api", "metrics"} \X (TokenRequests \union {"metrics"})

\* Whatever is done with a token, or with a token made with it, and so on, is what the user granted
\* the first of them for: there is no way to more by making tokens (required_scope, has_scope, and
\* api_tokens, which a token reaches too), and none to another account. The one exception is the
\* user's own password and second factor (blueprint auth), which any API token may attend to,
\* whatever it was granted for; a metrics token reads metrics and nothing else.
NoEscalation ==
    /\ beyond \subseteq {<<"api", "auth">>}
    /\ \A t \in TokenIds : token[t].kind = "api" =>
          token[token[t].root].kind = "api" /\ token[t].owner = token[token[t].root].owner
=============================================================================
