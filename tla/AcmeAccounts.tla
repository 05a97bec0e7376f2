---------------------------- MODULE AcmeAccounts ----------------------------
(***************************************************************************)
(* The front of the ACME server (services/acme/service.py, jws.py and      *)
(* routes/acme.py): replay nonces, accounts and their keys, and the        *)
(* external account bindings that an admin hands out, for one CA's         *)
(* directory. What an account orders is in AcmeOrders.                     *)
(*                                                                         *)
(* A request is verified and its nonce looked up (reads only), then the    *)
(* nonce is deleted in a commit of its own, which makes the session forget *)
(* the rows it has read; then the handler reads, decides and commits.      *)
(* A message is what it is signed with and what it asks; whether a         *)
(* signature or a MAC is right is a choice of the client, and messages     *)
(* with a wrong one are left out (they are refused before anything).       *)
(***************************************************************************)
EXTENDS Naturals, FiniteSets

CONSTANTS
    Servers,        \* the serving processes
    Nonces,         \* rows of acme_nonces
    Registrations,  \* rows of acme_accounts
    ClientKeys,     \* the keys that clients have
    EabKeys,        \* rows of acme_eab_keys
    NoBinding, NoClientKey, NoRegistration,
    MaxMessages     \* how many requests there are

ASSUME AcmeAccountsAssumption ==
    /\ NoBinding \notin EabKeys /\ NoClientKey \notin ClientKeys
    /\ NoRegistration \notin Registrations /\ MaxMessages \in Nat
    /\ IsFiniteSet(Servers)

VARIABLES
    nonce,          \* acme_nonces: never issued, live, live and stale, or deleted
    registration,   \* acme_accounts
    eabKey,         \* acme_eab_keys
    directory,      \* the CA's settings
    message,        \* the request that each server works on
    messages,       \* how many there have been
    accepted,       \* history: how often each nonce was accepted
    shared          \* history: what two requests had looked up at the same time

acmeAccountVars ==
    <<nonce, registration, eabKey, directory, message, messages, accepted, shared>>

Absent == [key |-> NoClientKey, status |-> "absent", binding |-> NoBinding]
NoMessage == [phase |-> "idle"]

HoldersOf(k) == {r \in Registrations : registration[r].key = k}

\* The nonces and the bindings that other servers have looked up and not yet used.
LookedUpByOthers(s) ==
    LET others == {t \in Servers \ {s} : message[t] # NoMessage}
    IN {message[t].nonce : t \in {u \in others : message[u].phase = "verified"}}
         \union {message[t].binding : t \in {u \in others : message[u].phase = "adding"}}

Leave(s) == message' = [message EXCEPT ![s] = NoMessage]
Enter(s, phase) == message' = [message EXCEPT ![s].phase = phase]

---------------------------------------------------------------------------
(* Nonces *)

\* issue_nonce: at every answer, and for new-nonce
IssueNonce ==
    /\ \E n \in Nonces : nonce[n] = "unissued"
    /\ nonce' = [nonce EXCEPT ![CHOOSE n \in Nonces : nonce[n] = "unissued"] = "live"]
    /\ UNCHANGED <<registration, eabKey, directory, message, messages, accepted, shared>>

\* ACME_NONCE_LIFETIME_MINUTES pass.
NonceAges(n) ==
    /\ nonce[n] = "live"
    /\ nonce' = [nonce EXCEPT ![n] = "stale"]
    /\ UNCHANGED <<registration, eabKey, directory, message, messages, accepted, shared>>

\* maintain, as far as nonces go
PruneNonces ==
    /\ \E n \in Nonces : nonce[n] = "stale"
    /\ nonce' = [n \in Nonces |-> IF nonce[n] = "stale" THEN "deleted" ELSE nonce[n]]
    /\ UNCHANGED <<registration, eabKey, directory, message, messages, accepted, shared>>

\* The row that db.session.get finds
Known(n) == nonce[n] \in {"live", "stale"}

\* _load_ca and the first half of _verified: an account that signs with its key must be valid
\* (account_for_kid); newAccount is signed with a key that need not have one.
Arrive(s, n, op, signer, key, binding) ==
    /\ message[s] = NoMessage /\ messages < MaxMessages
    /\ directory.enabled
    /\ signer # NoRegistration => registration[signer].status = "valid"
    /\ op = "newAccount" <=> signer = NoRegistration
    /\ Known(n)
    /\ message' = [message EXCEPT ![s] =
          [phase |-> "verified", op |-> op, nonce |-> n, signer |-> signer, key |-> key,
           binding |-> binding, fresh |-> nonce[n] = "live",
           signedWith |-> IF signer = NoRegistration THEN key ELSE registration[signer].key]]
    /\ messages' = messages + 1
    /\ shared' = shared \union ({n} \intersect LookedUpByOthers(s))
    /\ UNCHANGED <<nonce, registration, eabKey, directory, accepted>>

DropNonceIfStale(n) ==                          \* what was accepted stays
    [nonce EXCEPT ![n] = IF @ = "stale" THEN "deleted" ELSE @]

\* consume_nonce's DELETE
DropNonce(n) == [nonce EXCEPT ![n] = "deleted"]

\* The rest of consume_nonce: a second DELETE of the row matches nothing, and that is no error.
SpendNonce(s) ==
    LET n == message[s].nonce
    IN /\ message[s].phase = "verified"
       /\ nonce' = DropNonce(n)
       /\ IF message[s].fresh
          THEN accepted' = [accepted EXCEPT ![n] = @ + 1] /\ Enter(s, "accepted")
          ELSE Leave(s) /\ UNCHANGED accepted                 \* badNonce
       /\ UNCHANGED <<registration, eabKey, directory, messages, shared>>

---------------------------------------------------------------------------
(* Handlers *)

BindableAgain(e) == ~ eabKey[e].revoked         \* a used key is not refused

\* new_account's checks of the binding
Bindable(e) == eabKey[e].exists /\ ~ eabKey[e].revoked /\ ~ eabKey[e].used

\* new_account up to its INSERT: an account that exists is returned, or refused if it is not
\* valid; without a binding the directory must not require one.
NewAccount(s) ==
    LET m == message[s]
    IN /\ m.phase = "accepted" /\ m.op = "newAccount"
       /\ IF /\ HoldersOf(m.key) = {}
             /\ IF m.binding = NoBinding THEN ~ directory.requireEab ELSE Bindable(m.binding)
          THEN /\ Enter(s, "adding")
               /\ shared' = shared \union ({m.binding} \intersect LookedUpByOthers(s))
          ELSE Leave(s) /\ UNCHANGED shared
       /\ UNCHANGED <<nonce, registration, eabKey, directory, messages, accepted>>

\* The commit; ux_acme_accounts_ca_thumbprint refuses a second account of a key.
AddAccount(s) ==
    LET m == message[s]
        r == CHOOSE x \in Registrations :
                \A y \in Registrations : registration[y] = Absent => registration[x] = Absent
    IN /\ m.phase = "adding" /\ registration[r] = Absent
       /\ IF HoldersOf(m.key) = {}
          THEN /\ registration' = [registration EXCEPT ![r] =
                     [key |-> m.key, status |-> "valid", binding |-> m.binding]]
               /\ eabKey' = [e \in EabKeys |->
                     IF e = m.binding THEN [eabKey[e] EXCEPT !.used = TRUE] ELSE eabKey[e]]
          ELSE UNCHANGED <<registration, eabKey>>
       /\ Leave(s)
       /\ UNCHANGED <<nonce, directory, messages, accepted, shared>>

\* update_account, to deactivate; a change of contacts leaves nothing behind that is modelled.
\* The account is not asked again whether it is valid.
Deactivate(s) ==
    /\ message[s].phase = "accepted" /\ message[s].op = "deactivate"
    /\ registration' = [registration EXCEPT ![message[s].signer].status = "deactivated"]
    /\ Leave(s)
    /\ UNCHANGED <<nonce, eabKey, directory, messages, accepted, shared>>

\* The inner JWS names the key that is to be replaced: the one the outer JWS is signed with.
OldKeyMatches(s) == message[s].signedWith = registration[message[s].signer].key

\* change_key up to its UPDATE: the new key must not be another account's.
ChangeKey(s) ==
    LET m == message[s]
    IN /\ m.phase = "accepted" /\ m.op = "keyChange"
       /\ IF OldKeyMatches(s) /\ HoldersOf(m.key) \subseteq {m.signer}
          THEN Enter(s, "changing") ELSE Leave(s)
       /\ UNCHANGED <<nonce, registration, eabKey, directory, messages, accepted, shared>>

\* The commit, which the same constraint may refuse
SetKey(s) ==
    LET m == message[s]
    IN /\ m.phase = "changing"
       /\ registration' = IF HoldersOf(m.key) \subseteq {m.signer}
                          THEN [registration EXCEPT ![m.signer].key = m.key] ELSE registration
       /\ Leave(s)
       /\ UNCHANGED <<nonce, eabKey, directory, messages, accepted, shared>>

---------------------------------------------------------------------------
(* The administrators *)

\* create_eab_key
CreateEabKey(e) ==
    /\ ~ eabKey[e].exists
    /\ eabKey' = [eabKey EXCEPT ![e].exists = TRUE]
    /\ UNCHANGED <<nonce, registration, directory, message, messages, accepted, shared>>

\* revoke_eab_key
RevokeEabKey(e) ==
    /\ eabKey[e].exists /\ ~ eabKey[e].revoked
    /\ eabKey' = [eabKey EXCEPT ![e].revoked = TRUE]
    /\ UNCHANGED <<nonce, registration, directory, message, messages, accepted, shared>>

\* set_acme
SetAcme(enabled, requireEab) ==
    /\ directory' = [enabled |-> enabled, requireEab |-> requireEab]
    /\ directory' # directory
    /\ UNCHANGED <<nonce, registration, eabKey, message, messages, accepted, shared>>

---------------------------------------------------------------------------

AcmeAccountsInit ==
    /\ nonce = [n \in Nonces |-> "unissued"]
    /\ registration = [r \in Registrations |-> Absent]
    /\ eabKey = [e \in EabKeys |-> [exists |-> FALSE, used |-> FALSE, revoked |-> FALSE]]
    /\ directory = [enabled |-> FALSE, requireEab |-> FALSE]
    /\ message = [s \in Servers |-> NoMessage]
    /\ messages = 0
    /\ accepted = [n \in Nonces |-> 0] /\ shared = {}

\* What clients send.
Send(s, n) ==
    \/ \E k \in ClientKeys, b \in EabKeys \union {NoBinding} :
          Arrive(s, n, "newAccount", NoRegistration, k, b)
    \/ \E r \in Registrations :
          \/ Arrive(s, n, "deactivate", r, NoClientKey, NoBinding)
          \/ \E k \in ClientKeys : Arrive(s, n, "keyChange", r, k, NoBinding)

AcmeAccountsNext ==
    \/ IssueNonce
    \/ \E n \in Nonces : NonceAges(n)
    \/ PruneNonces
    \/ \E s \in Servers :
          \/ \E n \in Nonces : Send(s, n)
          \/ SpendNonce(s)
          \/ NewAccount(s) \/ AddAccount(s) \/ Deactivate(s) \/ ChangeKey(s) \/ SetKey(s)
    \/ \E e \in EabKeys : CreateEabKey(e) \/ RevokeEabKey(e)
    \/ \E enabled, requireEab \in BOOLEAN : SetAcme(enabled, requireEab)

AcmeAccountsSpec == AcmeAccountsInit /\ [][AcmeAccountsNext]_acmeAccountVars

---------------------------------------------------------------------------

\* The rows hold what their columns can hold.
AcmeAccountsTypeOK ==
    /\ nonce \in [Nonces -> {"unissued", "live", "stale", "deleted"}]
    /\ registration \in [Registrations -> [key : ClientKeys \union {NoClientKey},
                                           status : {"absent", "valid", "deactivated"},
                                           binding : EabKeys \union {NoBinding}]]
    /\ eabKey \in [EabKeys -> [exists : BOOLEAN, used : BOOLEAN, revoked : BOOLEAN]]
    /\ directory \in [enabled : BOOLEAN, requireEab : BOOLEAN]
    /\ messages \in 0..MaxMessages

\* What is for a single use is used once: a nonce lets one request through ("single-use replay
\* nonces", AcmeNonce) and a binding makes one account ("a client presents them once", AcmeEabKey)
\* unless two requests looked the row up before either committed (consume_nonce and new_account
\* read, then write). No two accounts have one key, whoever registers it or changes to it
\* (new_account, change_key).
UsedOnce ==
    /\ \A n \in Nonces : accepted[n] > 1 => n \in shared
    /\ \A e \in EabKeys :
          Cardinality({r \in Registrations : registration[r].binding = e}) > 1 => e \in shared
    /\ \A k \in ClientKeys : Cardinality(HoldersOf(k)) <= 1

\* Where two requests share a row after all, the damage ends with them (consume_nonce, new_account):
\* only who has looked the row up before it was spent can still use it, so a nonce lets no more
\* requests through, and a binding makes no more accounts, than there are servers, however often
\* a message is replayed.
SharedUseBounded ==
    /\ \A n \in Nonces : accepted[n] <= Cardinality(Servers)
    /\ \A e \in EabKeys :
          Cardinality({r \in Registrations : registration[r].binding = e}) <= Cardinality(Servers)
=============================================================================
