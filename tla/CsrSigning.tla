----------------------------- MODULE CsrSigning -----------------------------
(***************************************************************************)
(* The life of a certificate signing request (routes/csr.py,               *)
(* services/cert_service.py, services/csr_service.py): it is created,      *)
(* signed or rejected by several worker processes that share one database. *)
(*                                                                         *)
(* A worker runs one request at a time and reads its CSR before it writes. *)
(* SQLite serialises writing transactions, so a transaction is one step;   *)
(* a read made outside a transaction is a step of its own, and every other *)
(* worker may run between that read and the write it leads to.             *)
(*                                                                         *)
(* What makes one signing attempt fail (a refused policy, an invalid       *)
(* proof of possession, an unreachable token) does not matter to the       *)
(* properties: only when it fails does, before the claim or after it.      *)
(***************************************************************************)
EXTENDS Naturals

CONSTANTS
    Workers,      \* the serving processes
    Csrs,         \* rows of certificate_signing_requests
    Users,        \* accounts that create CSRs
    Admins,       \* the accounts that may sign and reject
    Bootstrap,    \* the literal ADMIN_USERNAME account
    NoUser,       \* a NULL created_by (a CSR that ACME imported)
    NoCsr,        \* an idle worker's empty slot
    MayCrash      \* can a worker be killed in the middle of a request?

ASSUME UsersAssumption ==
    /\ Admins \subseteq Users
    /\ Bootstrap \in Admins
    /\ NoUser \notin Users
ASSUME CsrsAssumption == NoCsr \notin Csrs
ASSUME CrashAssumption == MayCrash \in BOOLEAN

VARIABLES
    status,       \* CertificateSigningRequest.status, "absent" before the INSERT
    creator,      \* CertificateSigningRequest.created_by
    certificates, \* Certificate rows issued from each CSR
    signedBy,     \* CertificateSigningRequest.signed_by
    dualControl,  \* dual_control_service.is_active()
    worker,       \* what each worker is doing, and to which CSR
    audited,      \* CSRs with a committed sign_csr audit row
    orphaned,     \* history: CSRs whose worker died between its claim and its audit row
    unlogged,     \* history: CSRs whose request failed after the certificate was committed
    relaxed       \* history: CSRs that have existed while dual control was not in force

vars == <<status, creator, certificates, signedBy, dualControl, worker, audited, orphaned,
          unlogged, relaxed>>

Statuses == {"absent", "pending", "signing", "approved", "rejected"}

(***************************************************************************)
(* A worker is idle; has loaded a pending CSR it will sign (may_sign) or   *)
(* reject (may_reject); holds the claim (claimed); has failed to sign and  *)
(* must give the claim back (failed); or has committed the certificate but *)
(* not yet its audit row (issued).                                         *)
(***************************************************************************)
Steps == {"idle", "may_sign", "may_reject", "claimed", "failed", "issued"}

Idle == [at |-> "idle", csr |-> NoCsr, user |-> NoUser]

TypeOK ==
    /\ status \in [Csrs -> Statuses]
    /\ creator \in [Csrs -> Users \union {NoUser}]
    /\ certificates \in [Csrs -> Nat]
    /\ signedBy \in [Csrs -> Users \union {NoUser}]
    /\ dualControl \in BOOLEAN
    /\ worker \in [Workers -> [at : Steps, csr : Csrs \union {NoCsr},
                             user : Users \union {NoUser}]]
    /\ audited \in SUBSET Csrs
    /\ orphaned \in SUBSET Csrs
    /\ unlogged \in SUBSET Csrs
    /\ relaxed \in SUBSET Csrs

Init ==
    /\ status = [c \in Csrs |-> "absent"]
    /\ creator = [c \in Csrs |-> NoUser]
    /\ certificates = [c \in Csrs |-> 0]
    /\ signedBy = [c \in Csrs |-> NoUser]
    /\ dualControl \in BOOLEAN
    /\ worker = [w \in Workers |-> Idle]
    /\ audited = {}
    /\ orphaned = {}
    /\ unlogged = {}
    /\ relaxed = {}

Holds(w, c) == worker[w].csr = c /\ worker[w].at \in {"claimed", "failed"}

Goes(w, step) == worker' = [worker EXCEPT ![w].at = step]

Finishes(w) == worker' = [worker EXCEPT ![w] = Idle]

(***************************************************************************)
(* Bugs the properties are tried against: each is a plausible wrong form   *)
(* of the definition after it that models the code.                        *)
(***************************************************************************)
ClaimableWhatever(c) == status[c] # "absent"        \* the UPDATE forgets its status condition

ReleasedWhatever(s) == "pending"                    \* the release forgets its status condition
ReleasedNever(s) == s                               \* the claim is not given back
ReleasedToQueue(s) == IF s = "signing" THEN "queued" ELSE s

SignWithoutApproval(w) ==                           \* the CSR's own row is left out of the commit
    /\ worker[w].at = "claimed"
    /\ certificates' = [certificates EXCEPT ![worker[w].csr] = @ + 1]
    /\ Goes(w, "issued")
    /\ UNCHANGED <<status, creator, signedBy, dualControl, audited, orphaned, unlogged, relaxed>>

MaySignOthersToo(c, u) ==                           \* any admin who is not the bootstrap account
    ~dualControl \/ creator[c] # u \/ u # Bootstrap

AuditForgotten(w) ==                                \* the route returns without its audit row
    /\ worker[w].at = "issued"
    /\ Finishes(w)
    /\ UNCHANGED <<status, creator, certificates, signedBy, dualControl, audited, orphaned,
                   unlogged, relaxed>>
-----------------------------------------------------------------------------
\* create_csr and import_csr: one INSERT, status defaults to pending.
CreateCsr(c, u) ==
    /\ status[c] = "absent"
    /\ status' = [status EXCEPT ![c] = "pending"]
    /\ creator' = [creator EXCEPT ![c] = u]
    /\ relaxed' = IF dualControl THEN relaxed ELSE relaxed \union {c}
    /\ UNCHANGED <<certificates, signedBy, dualControl, worker, audited, orphaned, unlogged>>

\* is_active() follows the accounts and the LDAP settings, which may change at any moment.
ToggleDualControl ==
    /\ dualControl' = ~dualControl
    /\ relaxed' = IF dualControl THEN {c \in Csrs : status[c] # "absent"} ELSE relaxed
    /\ UNCHANGED <<status, creator, certificates, signedBy, worker, audited, orphaned, unlogged>>

\* The four-eyes rule of the sign route: never the creator, the bootstrap account excepted.
MaySign(c, u) == ~dualControl \/ creator[c] # u \/ u = Bootstrap

\* sign: the CSR is loaded and found pending, and the four-eyes rule allows this admin.
BeginSign(w, c, u) ==
    /\ worker[w] = Idle
    /\ status[c] = "pending"
    /\ MaySign(c, u)
    /\ worker' = [worker EXCEPT ![w] = [at |-> "may_sign", csr |-> c, user |-> u]]
    /\ UNCHANGED <<status, creator, certificates, signedBy, dualControl, audited, orphaned,
                   unlogged, relaxed>>

\* Any refusal before the claim: the CA, the profile, the key, the names or the proof of possession.
RefuseSign(w) ==
    /\ worker[w].at = "may_sign"
    /\ Finishes(w)
    /\ UNCHANGED <<status, creator, certificates, signedBy, dualControl, audited, orphaned,
                   unlogged, relaxed>>

\* The WHERE clause of _claim_csr.
Claimable(c) == status[c] = "pending"

\* _claim_csr: one conditional UPDATE; with no row matched, CsrAlreadyProcessed.
ClaimCsr(w) ==
    /\ worker[w].at = "may_sign"
    /\ \/ /\ Claimable(worker[w].csr)
          /\ status' = [status EXCEPT ![worker[w].csr] = "signing"]
          /\ Goes(w, "claimed")
       \/ /\ ~Claimable(worker[w].csr)
          /\ Finishes(w)
          /\ UNCHANGED status
    /\ UNCHANGED <<creator, certificates, signedBy, dualControl, audited, orphaned, unlogged,
                   relaxed>>

\* _sign_claimed_csr: the certificate and the CSR's approval in one commit. The approval does
\* not look at the status it replaces.
SignClaimedCsr(w) ==
    /\ worker[w].at = "claimed"
    /\ certificates' = [certificates EXCEPT ![worker[w].csr] = @ + 1]
    /\ status' = [status EXCEPT ![worker[w].csr] = "approved"]
    /\ signedBy' = [signedBy EXCEPT ![worker[w].csr] = worker[w].user]
    /\ Goes(w, "issued")
    /\ UNCHANGED <<creator, dualControl, audited, orphaned, unlogged, relaxed>>

\* _sign_claimed_csr raises: an expired CA, a wrong passphrase, a token that does not answer.
SignFails(w) ==
    /\ worker[w].at = "claimed"
    /\ Goes(w, "failed")
    /\ UNCHANGED <<status, creator, certificates, signedBy, dualControl, audited, orphaned,
                   unlogged, relaxed>>

\* The UPDATE of _release_csr: signing back to pending, and only from signing.
Released(s) == IF s = "signing" THEN "pending" ELSE s

\* _release_csr, after a failed signature.
ReleaseCsr(w) ==
    /\ worker[w].at = "failed"
    /\ status' = [status EXCEPT ![worker[w].csr] = Released(@)]
    /\ Finishes(w)
    /\ UNCHANGED <<creator, certificates, signedBy, dualControl, audited, orphaned, unlogged,
                   relaxed>>

\* The sign route's own commit: the audit row of a certificate that already exists.
AuditSign(w) ==
    /\ worker[w].at = "issued"
    /\ audited' = audited \union {worker[w].csr}
    /\ Finishes(w)
    /\ UNCHANGED <<status, creator, certificates, signedBy, dualControl, orphaned, unlogged,
                   relaxed>>

\* Something between sign_csr's return and the commit of the audit row raises: the profile's
\* lookup, log_action, a commit that finds the database locked. The route rolls back and answers
\* with an error although the certificate exists; nobody writes its audit row later.
AuditFails(w) ==
    /\ worker[w].at = "issued"
    /\ unlogged' = unlogged \union {worker[w].csr}
    /\ Finishes(w)
    /\ UNCHANGED <<status, creator, certificates, signedBy, dualControl, audited, orphaned,
                   relaxed>>

\* reject: the CSR is loaded and found pending.
BeginReject(w, c) ==
    /\ worker[w] = Idle
    /\ status[c] = "pending"
    /\ worker' = [worker EXCEPT ![w] = [at |-> "may_reject", csr |-> c, user |-> NoUser]]
    /\ UNCHANGED <<status, creator, certificates, signedBy, dualControl, audited, orphaned,
                   unlogged, relaxed>>

\* reject: the UPDATE names the row only, not the status that was checked.
RejectCsr(w) ==
    /\ worker[w].at = "may_reject"
    /\ status' = [status EXCEPT ![worker[w].csr] = "rejected"]
    /\ Finishes(w)
    /\ UNCHANGED <<creator, certificates, signedBy, dualControl, audited, orphaned, unlogged,
                   relaxed>>

\* A killed worker loses its uncommitted work and nothing else; another process takes its
\* place. Nothing in the code looks for the claims it leaves behind.
Crash(w) ==
    /\ MayCrash
    /\ worker[w] # Idle
    /\ orphaned' = IF worker[w].at \in {"claimed", "failed", "issued"}
                   THEN orphaned \union {worker[w].csr} ELSE orphaned
    /\ Finishes(w)
    /\ UNCHANGED <<status, creator, certificates, signedBy, dualControl, audited, unlogged,
                   relaxed>>

\* Every request a worker has started runs on: refused or claimed, signed, released, audited.
Proceed(w) ==
    ClaimCsr(w) \/ SignClaimedCsr(w) \/ ReleaseCsr(w) \/ AuditSign(w) \/ RejectCsr(w)

Next ==
    \/ \E c \in Csrs, u \in Users \union {NoUser} : CreateCsr(c, u)
    \/ ToggleDualControl
    \/ \E w \in Workers :
          \/ \E c \in Csrs, u \in Admins : BeginSign(w, c, u)
          \/ \E c \in Csrs : BeginReject(w, c)
          \/ RefuseSign(w)
          \/ SignFails(w)
          \/ AuditFails(w)
          \/ Proceed(w)
          \/ Crash(w)

Spec == Init /\ [][Next]_vars

\* The process scheduler runs every worker; no request waits for another one to be made.
FairSpec == Spec /\ \A w \in Workers : WF_vars(Proceed(w))
-----------------------------------------------------------------------------
(***************************************************************************)
(* Properties                                                              *)
(***************************************************************************)

\* One CSR becomes at most one certificate, however many workers sign it at once (_claim_csr:
\* "two workers cannot both issue from one CSR").
SingleIssue == \A c \in Csrs : certificates[c] <= 1

\* Two workers never hold the claim on one CSR, and while a worker holds it no certificate has
\* been issued from it.
ExclusiveClaim ==
    \A c \in Csrs, w \in Workers :
        Holds(w, c) => /\ \A v \in Workers : Holds(v, c) => v = w
                       /\ certificates[c] = 0

\* A claim is never forgotten while its worker lives: a CSR in status signing is in the hands
\* of a worker, or was in the hands of one that died (_release_csr gives every other claim back).
ClaimsHaveHolders ==
    \A c \in Csrs : status[c] = "signing" => c \in orphaned \/ \E w \in Workers : Holds(w, c)

\* A certificate's CSR is settled: once a CSR has a certificate it is approved or rejected, so
\* no later request can find it pending and issue from it again.
IssuedIsSettled ==
    \A c \in Csrs : certificates[c] > 0 => status[c] \in {"approved", "rejected"}

\* An approved or rejected CSR is never put back in the queue, not even by the release of a
\* claim that was taken before the rejection (the WHERE clause of _release_csr).
NeverReopened ==
    [][\A c \in Csrs : status[c] \in {"approved", "rejected"}
                           => status'[c] \in {"approved", "rejected"}]_vars

\* A certificate without its sign_csr audit row is one whose worker is about to write the row,
\* died before it could, or answered the admin with an error: the certificate and the row are
\* two commits, and no request that reports success leaves out the second.
IssuanceAudited ==
    \A c \in Csrs : certificates[c] > 0 =>
        \/ c \in audited
        \/ c \in orphaned
        \/ c \in unlogged
        \/ \E w \in Workers : worker[w].at = "issued" /\ worker[w].csr = c

\* Four eyes: an admin other than the bootstrap account has signed a CSR of their own only if
\* dual control was not in force at some moment of that CSR's life (the sign route looks at the
\* mode once, when the request arrives).
FourEyes ==
    \A c \in Csrs : signedBy[c] # NoUser /\ signedBy[c] = creator[c] /\ signedBy[c] # Bootstrap
                       => c \in relaxed

\* reject's own comment: an approved CSR must not be "flipped to rejected while its issued
\* certificate stays live".
RejectedHasNoCertificate ==
    \A c \in Csrs : status[c] = "rejected" => certificates[c] = 0

\* A claimed CSR does not stay claimed unless its worker is killed: it is approved, released
\* or rejected.
ClaimsEnd ==
    \A c \in Csrs : status[c] = "signing" ~> (status[c] # "signing" \/ c \in orphaned)

\* Seen through the claims its workers hold, CSR signing is a single-flight service.
Flight == INSTANCE SingleFlight WITH
    holders <- [c \in Csrs |-> {w \in Workers : Holds(w, c)}],
    certs <- certificates

\* The refinement: every step of the workers is a step of SingleFlight or changes nothing in it.
RefinesSingleFlight == Flight!FlightSpec

=============================================================================
