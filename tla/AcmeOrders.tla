----------------------------- MODULE AcmeOrders -----------------------------
(***************************************************************************)
(* The ACME state machine (services/acme/service.py, routes/acme.py):      *)
(* orders with their authorizations and challenges, answered by several    *)
(* workers for one account, and the scheduler's hourly maintenance.        *)
(*                                                                         *)
(* A request loads its rows into a database session, works on them there   *)
(* (which may include a lookup on the network that takes seconds) and      *)
(* commits at the end. What it has loaded is its view: it decides on the   *)
(* view, and its commit writes the columns that differ from the view,      *)
(* whatever has become of the rows. Requests that are refused are written  *)
(* too: the commit of the answer's fresh nonce flushes the session.        *)
(*                                                                         *)
(* A request has been authenticated when it gets here, and the contents of *)
(* identifiers and CSRs are left out: a CSR is right for its order or not. *)
(* Orders of other accounts are invisible to this one (load_order).        *)
(***************************************************************************)
EXTENDS Naturals, FiniteSets

CONSTANTS
    Workers,      \* the serving processes
    Orders,       \* rows of acme_orders
    Authzs,       \* rows of acme_authorizations
    Challenges,   \* rows of acme_challenges
    OrderOf,      \* the order of each authorization
    AuthzOf,      \* the authorization of each challenge
    Dns,          \* the dns-01 challenges; the others are http-01
    MaxAttempts,  \* ACME_DNS01_MAX_ATTEMPTS
    NoItem,       \* an idle worker's empty slot
    MayCrash      \* can a worker be killed?

ASSUME RowsAssumption ==
    /\ OrderOf \in [Authzs -> Orders]
    /\ AuthzOf \in [Challenges -> Authzs]
    /\ Dns \subseteq Challenges
    /\ NoItem \notin Orders \union Authzs \union Challenges
    /\ Orders \intersect Authzs = {} /\ Challenges \intersect (Orders \union Authzs) = {}
ASSUME AttemptsAssumption == MaxAttempts \in Nat \ {0}
ASSUME CrashAssumption == MayCrash \in BOOLEAN
ASSUME WorkersAssumption == IsFiniteSet(Workers)

VARIABLES
    account,      \* AcmeAccount.status
    order,        \* AcmeOrder.status, "absent" before the INSERT
    authz,        \* AcmeAuthorization.status
    chall,        \* AcmeChallenge.status
    attempts,     \* AcmeChallenge.attempts
    overdue,      \* the orders past their expires, which is also that of their authorizations
    certs,        \* how many certificates each order has led to
    worker,       \* the request of each worker and its view
    sweep,        \* the orders that a running maintenance has found expired
    sweeping,     \* is maintenance running?
    proven        \* history: authorizations of which a lookup has succeeded

rows == <<account, order, authz, chall, attempts, certs, proven>>
vars == <<account, order, authz, chall, attempts, overdue, certs, worker, sweep, sweeping, proven>>

OrderStatuses == {"absent", "pending", "ready", "processing", "valid", "invalid"}
AuthzStatuses == {"pending", "valid", "invalid", "expired", "deactivated"}
ChallengeStatuses == {"pending", "processing", "valid", "invalid"}

\* A request is an order poll, a finalize, an authorization poll or deactivation, a challenge
\* poll or response, a new order or the deactivation of the account; a finalize goes on through
\* signing (the order is taken) to linking (the certificate exists).
Requests == {"idle", "new_order", "order", "finalize", "authz", "deactivate",
             "challenge", "respond", "signing", "linking"}

Views == [order : OrderStatuses, authz : [Authzs -> AuthzStatuses],
          chall : [Challenges -> ChallengeStatuses], attempts : [Challenges -> Nat],
          late : BOOLEAN]

Items == Orders \union Authzs \union Challenges

\* The order that a request is about.
OrderFor(i) == IF i \in Orders THEN i ELSE IF i \in Authzs THEN OrderOf[i] ELSE OrderOf[AuthzOf[i]]

\* What a worker without loaded rows has.
NoView == [order |-> "absent", authz |-> [z \in Authzs |-> "pending"],
           chall |-> [h \in Challenges |-> "pending"],
           attempts |-> [h \in Challenges |-> 0], late |-> FALSE]

\* What a request loads before anything that takes time: an order comes with its
\* authorizations, an authorization with its challenges; only a response to a challenge needs
\* both. Rows that it does not load are left as in NoView.
View(request, i) ==
    LET o == OrderFor(i)
        whole == request \in {"order", "finalize", "respond"}
        z == IF i \in Challenges THEN AuthzOf[i] ELSE i IN
    [order |-> IF whole THEN order[o] ELSE NoView.order,
     authz |-> [y \in Authzs |-> IF y = z \/ (whole /\ OrderOf[y] = o) THEN authz[y]
                                 ELSE NoView.authz[y]],
     chall |-> [h \in Challenges |-> IF AuthzOf[h] = z THEN chall[h] ELSE "pending"],
     attempts |-> [h \in Challenges |-> IF AuthzOf[h] = z THEN attempts[h] ELSE 0],
     late |-> o \in overdue]

Idle == [at |-> "idle", item |-> NoItem, view |-> NoView]

TypeOK ==
    /\ account \in {"valid", "deactivated"}
    /\ order \in [Orders -> OrderStatuses]
    /\ authz \in [Authzs -> AuthzStatuses]
    /\ chall \in [Challenges -> ChallengeStatuses]
    /\ attempts \in [Challenges -> Nat]
    /\ overdue \in SUBSET Orders
    /\ certs \in [Orders -> Nat]
    /\ worker \in [Workers -> [at : Requests, item : Items \union {NoItem}, view : Views]]
    /\ sweep \in SUBSET Orders
    /\ sweeping \in BOOLEAN
    /\ proven \in SUBSET Authzs

Init ==
    /\ account = "valid"
    /\ order = [o \in Orders |-> "absent"]
    /\ authz = NoView.authz
    /\ chall = NoView.chall
    /\ attempts = NoView.attempts
    /\ overdue = {}
    /\ certs = [o \in Orders |-> 0]
    /\ worker = [w \in Workers |-> Idle]
    /\ sweep = {}
    /\ sweeping = FALSE
    /\ proven = {}
-----------------------------------------------------------------------------
(***************************************************************************)
(* What the service functions make of a view                               *)
(***************************************************************************)
AuthzsOf(o) == {z \in Authzs : OrderOf[z] = o}

Failed(v, o) == \E z \in AuthzsOf(o) : v.authz[z] \in {"invalid", "expired", "deactivated"}

AnyAuthorized(v, o) == \E z \in AuthzsOf(o) : v.authz[z] = "valid"     \* one name stands for all

Authorized(v, o) == AuthzsOf(o) # {} /\ \A z \in AuthzsOf(o) : v.authz[z] = "valid"

RefreshOrderLate(v, o) ==                            \* a settled order is not left alone
    IF v.late \/ Failed(v, o) THEN [v EXCEPT !.order = "invalid"]
    ELSE IF Authorized(v, o) /\ v.order = "pending" THEN [v EXCEPT !.order = "ready"]
    ELSE v

RefreshOrderRetry(v, o) ==                           \* an order in processing is ready again
    IF v.order \in {"valid", "invalid"} THEN v
    ELSE IF v.late \/ Failed(v, o) THEN [v EXCEPT !.order = "invalid"]
    ELSE IF Authorized(v, o) THEN [v EXCEPT !.order = "ready"]
    ELSE v

\* refresh_order. An order that is valid or invalid is left alone, in the view.
RefreshOrder(v, o) ==
    IF v.order \in {"valid", "invalid"} THEN v
    ELSE IF v.late \/ Failed(v, o) THEN [v EXCEPT !.order = "invalid"]
    ELSE IF Authorized(v, o) /\ v.order = "pending" THEN [v EXCEPT !.order = "ready"]
    ELSE v

\* _settle: the final state of a challenge and of its authorization.
Settle(v, h, ok) ==
    LET result == IF ok THEN "valid" ELSE "invalid" IN
    [v EXCEPT !.chall[h] = result, !.authz[AuthzOf[h]] = result]

MoreAttemptsInclusive(n) == n <= MaxAttempts          \* one lookup too many

\* Whether a dns-01 challenge that has been looked up n times is looked up again.
MoreAttempts(n) == n < MaxAttempts

\* _attempt_dns01: a miss is kept for another attempt while the budget lasts and the
\* authorization does not expire before the next one (soon).
AttemptDns01(v, h, ok, soon) ==
    LET counted == [v EXCEPT !.attempts[h] = @ + 1] IN
    IF ~ok /\ MoreAttempts(counted.attempts[h]) /\ ~soon THEN counted
    ELSE Settle(counted, h, ok)

\* A poll of an authorization or challenge reads the order, and through it the other
\* authorizations, only when it needs them, which flushes its own changes first.
WithOrder(v, z) ==
    [v EXCEPT !.order = order[OrderOf[z]],
              !.authz = [y \in Authzs |-> IF y = z THEN v.authz[z] ELSE authz[y]]]

\* _refresh_authz with attempt: a stale authorization expires; otherwise the dns-01 challenge
\* that is processing, if there is one and its next attempt is due, is looked up.
RefreshAuthz(v, z, due, ok, soon) ==
    LET retried == {h \in Dns : AuthzOf[h] = z /\ v.chall[h] = "processing"} IN
    IF v.authz[z] # "pending" THEN v
    ELSE IF v.late THEN [v EXCEPT !.authz[z] = "expired"]
    ELSE IF ~due \/ retried = {} THEN v
    ELSE RefreshOrder(WithOrder(AttemptDns01(v, CHOOSE h \in retried : TRUE, ok, soon), z),
                      OrderOf[z])

DeactivateAuthzRevoked(v, z) ==                      \* not a status of an authorization
    IF v.authz[z] # "pending" THEN v ELSE [v EXCEPT !.authz[z] = "revoked"]

\* deactivate_authz.
DeactivateAuthz(v, z) ==
    IF v.authz[z] # "pending" THEN v
    ELSE RefreshOrder(WithOrder([v EXCEPT !.authz[z] = "deactivated"], z), OrderOf[z])

\* respond_challenge: only while challenge and authorization are pending, in the view.
RespondChallenge(v, h, ok, soon) ==
    LET z == AuthzOf[h]
        started == [v EXCEPT !.chall[h] = "processing"] IN
    IF v.chall[h] # "pending" \/ v.authz[z] # "pending" THEN v
    ELSE RefreshOrder(IF h \in Dns THEN AttemptDns01(started, h, ok, soon)
                      ELSE Settle(started, h, ok), OrderOf[z])
-----------------------------------------------------------------------------
(***************************************************************************)
(* Loading and committing                                                  *)
(***************************************************************************)
Becomes(w, task) == worker' = [worker EXCEPT ![w] = task]

Finishes(w) == Becomes(w, Idle)

NoMaintenance == UNCHANGED <<sweep, sweeping>>

\* The columns of a row that changed in the session are written, the others keep what the
\* database has.
Merge(current, read, new) ==
    [x \in DOMAIN current |-> IF new[x] # read[x] THEN new[x] ELSE current[x]]

MergeOrder(o, v, status) == IF status # v.order THEN [order EXCEPT ![o] = status] ELSE order

\* The commit of a session that has turned the view v into n.
Commit(o, v, n) ==
    /\ order' = MergeOrder(o, v, n.order)
    /\ authz' = Merge(authz, v.authz, n.authz)
    /\ chall' = Merge(chall, v.chall, n.chall)
    /\ attempts' = Merge(attempts, v.attempts, n.attempts)
    /\ proven' = proven \union {z \in Authzs : v.authz[z] # "valid" /\ n.authz[z] = "valid"}

\* A signed request for an item of the account arrives: account_for_kid, then the load.
Load(w, request, i) ==
    /\ worker[w] = Idle
    /\ account = "valid"
    /\ order[OrderFor(i)] # "absent"
    /\ Becomes(w, [at |-> request, item |-> i, view |-> View(request, i)])
    /\ UNCHANGED <<rows, overdue>>
    /\ NoMaintenance

LoadOrder(w, o) == \E request \in {"order", "finalize"} : Load(w, request, o)

LoadAuthz(w, z) == \E request \in {"authz", "deactivate"} : Load(w, request, z)

LoadChallenge(w, h) == \E request \in {"challenge", "respond"} : Load(w, request, h)
-----------------------------------------------------------------------------
\* new_order: the account is found valid.
BeginNewOrder(w, o) ==
    /\ worker[w] = Idle
    /\ account = "valid"
    /\ order[o] = "absent" /\ \A x \in Workers : worker[x].item # o     \* each inserts its own row
    /\ Becomes(w, [at |-> "new_order", item |-> o, view |-> NoView])
    /\ UNCHANGED <<rows, overdue>>
    /\ NoMaintenance

\* new_order: the order is inserted with its authorizations and challenges, all pending.
NewOrder(w) ==
    /\ worker[w].at = "new_order"
    /\ order' = [order EXCEPT ![worker[w].item] = "pending"]
    /\ Finishes(w)
    /\ UNCHANGED <<account, authz, chall, attempts, certs, proven, overdue>>
    /\ NoMaintenance

\* order: an order poll stores what refresh_order derives.
PollOrder(w) ==
    /\ worker[w].at = "order"
    /\ LET o == worker[w].item
           v == worker[w].view IN
       Commit(o, v, RefreshOrder(v, o))
    /\ Finishes(w)
    /\ UNCHANGED <<account, certs, overdue>>
    /\ NoMaintenance

\* authorization: a poll, or a deactivation.
PollAuthz(w, due, ok, soon) ==
    /\ worker[w].at \in {"authz", "deactivate"}
    /\ LET z == worker[w].item
           v == worker[w].view
           polled == RefreshAuthz(v, z, due, ok, soon) IN
       Commit(OrderOf[z], v, IF worker[w].at = "authz" THEN polled ELSE DeactivateAuthz(polled, z))
    /\ Finishes(w)
    /\ UNCHANGED <<account, certs, overdue>>
    /\ NoMaintenance

\* challenge: a poll, or a response. Both may look a record up, a response after a retry twice.
PollChallenge(w, due, retry, ok, soon) ==
    /\ worker[w].at \in {"challenge", "respond"}
    /\ LET h == worker[w].item
           z == AuthzOf[h]
           v == worker[w].view
           polled == RefreshAuthz(v, z, due, retry, soon) IN
       Commit(OrderOf[z], v, IF worker[w].at = "challenge" THEN polled
                             ELSE RespondChallenge(polled, h, ok, soon))
    /\ Finishes(w)
    /\ UNCHANGED <<account, certs, overdue>>
    /\ NoMaintenance

\* update_account: the account's own UPDATE is flushed by the query for its open orders, so the
\* orders are read under the write lock and the request is one step.
DeactivateAccount(w) ==
    /\ worker[w] = Idle
    /\ account = "valid"
    /\ account' = "deactivated"
    /\ order' = [o \in Orders |-> IF order[o] \in {"pending", "ready", "processing"}
                                  THEN "invalid" ELSE order[o]]
    /\ UNCHANGED <<authz, chall, attempts, certs, proven, overdue, worker>>
    /\ NoMaintenance
-----------------------------------------------------------------------------
(***************************************************************************)
(* Finalize                                                                *)
(***************************************************************************)

\* finalize of an order that is not ready in the view, or with a CSR that does not fit it.
RefuseFinalize(w) ==
    /\ worker[w].at = "finalize"
    /\ LET o == worker[w].item
           v == worker[w].view IN
       Commit(o, v, RefreshOrder(v, o))
    /\ Finishes(w)
    /\ UNCHANGED <<account, certs, overdue>>
    /\ NoMaintenance

\* _acme_profile: the CA has no usable profile, an internal error, which rolls back.
ProfileMissing(w) ==
    /\ worker[w].at = "finalize"
    /\ RefreshOrder(worker[w].view, worker[w].item).order = "ready"
    /\ Finishes(w)
    /\ UNCHANGED <<rows, overdue>>
    /\ NoMaintenance

\* finalize: the order is ready in the view, and its row goes to processing.
TakeOrder(w) ==
    /\ worker[w].at = "finalize"
    /\ LET o == worker[w].item
           v == worker[w].view IN
       /\ RefreshOrder(v, o).order = "ready"
       /\ Commit(o, v, [v EXCEPT !.order = "processing"])
       /\ Becomes(w, [at |-> "signing", item |-> o, view |-> NoView])
    /\ UNCHANGED <<account, certs, overdue>>
    /\ NoMaintenance

\* import_csr and sign_csr: the CSR is a new row, so no other request can hold its claim.
IssueCertificate(w) ==
    /\ worker[w].at = "signing"
    /\ certs' = [certs EXCEPT ![worker[w].item] = @ + 1]
    /\ Becomes(w, [worker[w] EXCEPT !.at = "linking"])
    /\ UNCHANGED <<account, order, authz, chall, attempts, proven, overdue>>
    /\ NoMaintenance

\* sign_csr refuses (a ValueError: key, names, profile, expired CA): the order is invalid.
SignRefused(w) ==
    /\ worker[w].at = "signing"
    /\ order' = [order EXCEPT ![worker[w].item] = "invalid"]
    /\ Finishes(w)
    /\ UNCHANGED <<account, authz, chall, attempts, certs, proven, overdue>>
    /\ NoMaintenance

\* Any other error (a token that does not answer): the order is left in processing.
SignFails(w) ==
    /\ worker[w].at = "signing"
    /\ Finishes(w)
    /\ UNCHANGED <<rows, overdue>>
    /\ NoMaintenance

\* The certificate is stored in the order, which becomes valid whatever it is by now.
LinkCertificate(w) ==
    /\ worker[w].at = "linking"
    /\ order' = [order EXCEPT ![worker[w].item] = "valid"]
    /\ Finishes(w)
    /\ UNCHANGED <<account, authz, chall, attempts, certs, proven, overdue>>
    /\ NoMaintenance
-----------------------------------------------------------------------------
(***************************************************************************)
(* Maintenance, time and crashes                                           *)
(***************************************************************************)
ClosableUnlessTaken == {o \in overdue : order[o] \in {"pending", "ready"}}  \* not processing

\* The expired orders that maintain closes.
Closable == {o \in overdue : order[o] \in {"pending", "ready", "processing"}}

\* maintain: the query.
BeginMaintain ==
    /\ ~sweeping
    /\ \/ Closable # {}
       \/ \E z \in Authzs : OrderOf[z] \in overdue /\ authz[z] = "pending"
    /\ sweeping' = TRUE
    /\ sweep' = Closable
    /\ UNCHANGED <<rows, overdue, worker>>

\* maintain: the orders found are closed, whatever they are by now, and with one conditional
\* UPDATE every pending authorization past its time.
Maintain ==
    /\ sweeping
    /\ sweeping' = FALSE
    /\ sweep' = {}
    /\ order' = [o \in Orders |-> IF o \in sweep THEN "invalid" ELSE order[o]]
    /\ authz' = [z \in Authzs |-> IF OrderOf[z] \in overdue /\ authz[z] = "pending"
                                  THEN "expired" ELSE authz[z]]
    /\ UNCHANGED <<account, chall, attempts, certs, proven, overdue, worker>>

\* The clock passes an order's expires.
Expires(o) ==
    /\ order[o] # "absent" /\ o \notin overdue
    /\ overdue' = overdue \union {o}
    /\ UNCHANGED <<rows, worker>>
    /\ NoMaintenance

\* A killed worker loses its session.
Crash(w) ==
    /\ MayCrash
    /\ worker[w] # Idle
    /\ Finishes(w)
    /\ UNCHANGED <<rows, overdue>>
    /\ NoMaintenance

\* What a worker that has started a request does next.
Proceed(w) ==
    \/ NewOrder(w) \/ PollOrder(w)
    \/ \E due, ok, soon \in BOOLEAN : PollAuthz(w, due, ok, soon)
    \/ \E due, retry, ok, soon \in BOOLEAN : PollChallenge(w, due, retry, ok, soon)
    \/ RefuseFinalize(w) \/ TakeOrder(w) \/ IssueCertificate(w) \/ LinkCertificate(w)

Next ==
    \/ \E w \in Workers :
          \/ \E o \in Orders : BeginNewOrder(w, o) \/ LoadOrder(w, o)
          \/ \E z \in Authzs : LoadAuthz(w, z)
          \/ \E h \in Challenges : LoadChallenge(w, h)
          \/ DeactivateAccount(w)
          \/ Proceed(w) \/ ProfileMissing(w) \/ SignRefused(w) \/ SignFails(w) \/ Crash(w)
    \/ BeginMaintain
    \/ Maintain
    \/ \E o \in Orders : Expires(o)

Spec == Init /\ [][Next]_vars

\* Workers run, the hourly maintenance comes round for ever, and time passes.
FairSpec ==
    /\ Spec
    /\ \A w \in Workers : WF_vars(Proceed(w))
    /\ WF_vars(BeginMaintain) /\ WF_vars(Maintain)
    /\ \A o \in Orders : WF_vars(Expires(o))
-----------------------------------------------------------------------------
(***************************************************************************)
(* Properties                                                              *)
(***************************************************************************)

\* No order gets as far as ready, let alone a certificate (refresh_order, finalize), before every
\* one of its names was proven by a lookup, whatever stale sessions have written over each other.
AuthorizedBeforeIssue ==
    \A o \in Orders : order[o] \in {"ready", "processing", "valid"} \/ certs[o] > 0
                          => AuthzsOf(o) \subseteq proven

\* The counted lookups of a dns-01 challenge never exceed the budget, and a challenge that waits
\* for another lookup has some of it left (_attempt_dns01), also when a stale session has put
\* the count back or opened a settled challenge again.
BudgetKept ==
    \A h \in Challenges : /\ attempts[h] <= MaxAttempts
                          /\ chall[h] = "processing" => attempts[h] < MaxAttempts

\* finalize decides on the status that its session has loaded, so that a repeated finalize, and an
\* order that a stale poll has made ready again (refresh_order), may lead to more certificates; but
\* only sessions that were in progress can do that. However often a client asks, n workers issue
\* n certificates for the first time that the order is ready, n - 1 for the second, and so on.
CertificatesBounded ==
    LET n == Cardinality(Workers)
    IN \A o \in Orders : certs[o] <= (n * (n + 1)) \div 2

\* What a worker has begun with an order that was not settled then.
InProgress(w, o) ==
    /\ worker[w].item \in Items /\ OrderFor(worker[w].item) = o
    /\ \/ worker[w].at \in {"signing", "linking"}
       \/ worker[w].view.order \in {"pending", "ready", "processing"}

\* A valid order stays valid and an invalid one invalid (refresh_order returns an order in
\* either status as it is), unless a session or a maintenance that has found it unsettled writes late.
\* No request that comes later, and no clock, changes it.
SettledStays ==
    [][\A o \in Orders : order[o] \in {"valid", "invalid"} /\ order'[o] # order[o] =>
          o \in sweep \/ \E w \in Workers : InProgress(w, o) /\ worker'[w] # worker[w]]_vars

\* Every order ends valid or invalid and stays so (refresh_order, maintain): what a crash or a
\* failed signature leaves in processing, and what a stale session opens again, is closed by
\* maintenance.
OrdersSettle == \A o \in Orders : <>[](order[o] \in {"absent", "valid", "invalid"})

\* tests/test_acme.py: "idempotent: finalize again returns the valid order". A client that
\* repeats its finalize gets one certificate.
OneCertificatePerOrder == \A o \in Orders : certs[o] <= 1
=============================================================================
