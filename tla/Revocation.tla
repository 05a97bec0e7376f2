----------------------------- MODULE Revocation -----------------------------
(***************************************************************************)
(* Revocation and CRL publication (services/crl_service.py,                *)
(* ca_service.py, cert_service.py, scheduler_service.py and their routes): *)
(* a hierarchy of CAs issues certificates, certificates and whole subtrees *)
(* of CAs are revoked, and every CA caches one CRL that is regenerated     *)
(* after a revocation, by an admin, by the scheduler, by a command line    *)
(* and lazily on download.                                                 *)
(*                                                                         *)
(* Requests run on several workers over one database. A request reads and  *)
(* checks, then writes in one transaction (SQLite has a single writer, and *)
(* the first write of a transaction takes its lock), then publishes CRLs,  *)
(* each in a transaction of its own. Each of these is one step. The state  *)
(* a check has read may have changed when the write is made.               *)
(*                                                                         *)
(* Keys, names and validity dates are left out. A CRL's nextUpdate is kept *)
(* as how far away it is, a serial number as how many times the CA's       *)
(* certificate has been issued anew.                                       *)
(***************************************************************************)
EXTENDS Naturals

CONSTANTS
    CAs,          \* rows of certificate_authorities
    Parent,       \* parent_id, fixed when the row is inserted
    Keyed,        \* has_signing_key
    Certs,        \* rows of certificates
    Workers,      \* the serving processes, and command lines that run beside them
    Scheduler,    \* the scheduler thread that holds the lease
    NoCa,         \* a NULL parent_id, or a certificate that is not issued yet
    NoCert,       \* an empty slot
    Existing,     \* the CAs that exist at the start, approved and with their first CRL
    IssuedBy,     \* the issuer of the certificates that exist at the start
    Requests,     \* the kinds of request that are made
    MaxEvents,    \* how many requests are made, and how often the clock is felt
    MayFail,      \* can a signature fail (unreachable token, wrong passphrase)?
    MayCrash      \* can a worker be killed?

ASSUME HierarchyAssumption ==
    /\ Parent \in [CAs -> CAs \union {NoCa}]
    /\ NoCa \notin CAs
    /\ Keyed \subseteq CAs
    /\ Existing \subseteq CAs
ASSUME CertsAssumption ==
    /\ Certs \intersect CAs = {}
    /\ NoCert \notin Certs
    /\ IssuedBy \in [Certs -> Existing \union {NoCa}]
ASSUME WorkersAssumption == Scheduler \notin Workers
ASSUME BoundsAssumption ==
    /\ MaxEvents \in Nat
    /\ MayFail \in BOOLEAN
    /\ MayCrash \in BOOLEAN

VARIABLES
    approval,     \* CertificateAuthority.approval_status, "absent" before the INSERT
    serial,       \* CertificateAuthority.serial_number: 0, 1, 2, ... as re-issued
    reissue,      \* CAs with a re-issued certificate that awaits approval
    issuer,       \* Certificate.ca_id, NoCa before the INSERT
    revoked,      \* the CAs and certificates with is_revoked
    expired,      \* the CAs past their notAfter
    crl,          \* crl_number, and what the cached crl_pem lists and how long it is valid
    worker,       \* what each process is doing
    missed,       \* history: CAs whose CRL a failure or a crash left without a revocation
    events        \* how many more requests and clock events there will be

vars == <<approval, serial, reissue, issuer, revoked, expired, crl, worker, missed, events>>

Processes == Workers \union {Scheduler}

(***************************************************************************)
(* "fresh": valid for longer than CRL_REFRESH_BEFORE_DAYS; "due": not      *)
(* lapsed but within it; "lapsed": past nextUpdate; "final": valid until   *)
(* the CA's own notAfter.                                                  *)
(***************************************************************************)
Validities == {"none", "fresh", "due", "lapsed", "final"}

Steps == {"idle", "may_create", "may_approve", "may_reissue", "may_issue", "may_renew",
          "may_supersede", "may_revoke", "may_revoke_ca", "publish", "finals", "refresh",
          "may_generate", "scan"}

Jobs == {"request", "tick", "cli", "cli_all"}

Task(step, job, c, x, todo) ==
    [at |-> step, job |-> job, ca |-> c, cert |-> x, todo |-> todo]

Tasks == [at : Steps, job : Jobs, ca : CAs \union {NoCa}, cert : Certs \union {NoCert},
          todo : SUBSET CAs]

Idle == Task("idle", "request", NoCa, NoCert, {})

TypeOK ==
    /\ approval \in [CAs -> {"absent", "pending", "approved"}]
    /\ serial \in [CAs -> Nat]
    /\ reissue \in SUBSET CAs
    /\ issuer \in [Certs -> CAs \union {NoCa}]
    /\ revoked \in SUBSET (CAs \union Certs)
    /\ expired \in SUBSET CAs
    /\ crl \in [CAs -> [number : Nat, lists : SUBSET ((CAs \union Certs) \X Nat),
                        until : Validities]]
    /\ worker \in [Processes -> Tasks]
    /\ missed \in SUBSET CAs
    /\ events \in Nat

\* The hierarchy as create_root_ca and publish_initial_crl have left it.
Init ==
    /\ approval = [c \in CAs |-> IF c \in Existing THEN "approved" ELSE "absent"]
    /\ serial = [c \in CAs |-> 0]
    /\ reissue = {}
    /\ issuer = IssuedBy
    /\ revoked = {}
    /\ expired = {}
    /\ crl = [c \in CAs |-> IF c \in Existing \intersect Keyed
                            THEN [number |-> 1, lists |-> {}, until |-> "fresh"]
                            ELSE [number |-> 0, lists |-> {}, until |-> "none"]]
    /\ worker = [w \in Processes |-> Idle]
    /\ missed = {}
    /\ events = MaxEvents

(***************************************************************************)
(* The hierarchy and what a CRL says                                       *)
(***************************************************************************)
Exists(c) == approval[c] # "absent"

CanSignCrls(c) == c \in Keyed /\ approval[c] = "approved"

\* CertificateAuthority.signing_capable.
SigningCapable(c) == CanSignCrls(c) /\ c \notin revoked

\* The CA on whose CRL x belongs.
Authority(x) == IF x \in CAs THEN Parent[x] ELSE issuer[x]

\* c and what is reached from it through children in X.
Reach(c, X) ==
    {d \in CAs : \A S \in SUBSET CAs :
        c \in S /\ (\A e \in X : Parent[e] \in S => e \in S) => d \in S}

\* _revoked_subtree.
RevokedSubtree(c) == Reach(c, revoked \intersect CAs)

SweptShallow(c) == {c} \union {d \in CAs : Exists(d) /\ Parent[d] = c}   \* children only

\* The CAs that _revoke_ca_recursive visits: it does not descend into a revoked child.
Swept(c) == Reach(c, {d \in CAs \ revoked : Exists(d)})

\* A CRL names certificates by serial number: a CA by that of its primary certificate.
Entry(x) == <<x, IF x \in CAs THEN serial[x] ELSE 0>>

EntriesOfCerts(c) == {Entry(x) : x \in {y \in revoked \ CAs : Authority(y) = c}}  \* no sub-CAs
EntriesOfAll(c) == {Entry(x) : x \in {y \in CAs \union Certs : Authority(y) = c}}  \* no filter

\* The revoked certificates and the revoked sub-CAs that generate_crl lists.
Entries(c) == {Entry(x) : x \in {y \in revoked : Authority(y) = c}}

NewCrlSameNumber(c, until) ==                        \* the number is not incremented
    [number |-> crl[c].number, lists |-> Entries(c), until |-> until]

\* generate_crl: the number is incremented by the UPDATE that opens the transaction, and the
\* entries are read after it. Whether the CA is revoked is not looked at.
NewCrl(c, until) == [number |-> crl[c].number + 1, lists |-> Entries(c), until |-> until]

Generate(c, until) ==
    /\ crl' = [crl EXCEPT ![c] = NewCrl(c, until)]
    /\ missed' = missed \ {c}

NoCrl == UNCHANGED <<crl, missed>>

\* The CAs whose CRLs a worker still has to publish because of a revocation it has committed.
Owes(w) ==
    CASE worker[w].at = "refresh" -> {worker[w].ca}
      [] worker[w].at = "publish" ->
            RevokedSubtree(worker[w].ca) \union ({Parent[worker[w].ca]} \ {NoCa})
      [] worker[w].at = "finals" -> worker[w].todo
      [] OTHER -> {}
-----------------------------------------------------------------------------
(***************************************************************************)
(* How a worker moves on                                                   *)
(***************************************************************************)
Becomes(w, task) == worker' = [worker EXCEPT ![w] = task]

Finishes(w) == Becomes(w, Idle)

Goes(w, step, c) == Becomes(w, Task(step, "request", c, NoCert, {}))

\* A request of a kind the run makes arrives at an idle worker.
Arrives(w, kind) ==
    /\ kind \in Requests
    /\ events > 0
    /\ worker[w] = Idle
    /\ events' = events - 1
    /\ UNCHANGED <<approval, serial, reissue, issuer, revoked, expired, crl, missed>>
-----------------------------------------------------------------------------
(***************************************************************************)
(* Creating, approving and re-issuing CAs                                  *)
(***************************************************************************)

\* create_intermediate_ca: the checks on the parent.
BeginCreateCa(w, p) ==
    /\ Arrives(w, "create")
    /\ SigningCapable(p) /\ p \notin expired
    /\ Goes(w, "may_create", p)

\* create_intermediate_ca: the row is inserted, pending under dual control, and the CA's first
\* CRL follows if it is approved.
CreateCa(w, c, status) ==
    /\ worker[w].at = "may_create"
    /\ approval[c] = "absent" /\ Parent[c] = worker[w].ca /\ c \in Keyed
    /\ approval' = [approval EXCEPT ![c] = status]
    /\ IF status = "approved" THEN Goes(w, "refresh", c) ELSE Finishes(w)
    /\ UNCHANGED <<serial, reissue, issuer, revoked, expired, crl, missed, events>>

\* approve: the CA is found pending. Whether it has been revoked is not looked at.
BeginApproveCa(w, c) ==
    /\ Arrives(w, "approve")
    /\ approval[c] = "pending"
    /\ Goes(w, "may_approve", c)

\* approve: the deferred initial CRL follows.
ApproveCa(w) ==
    /\ worker[w].at = "may_approve"
    /\ approval' = [approval EXCEPT ![worker[w].ca] = "approved"]
    /\ Goes(w, "refresh", worker[w].ca)
    /\ UNCHANGED <<serial, reissue, issuer, revoked, expired, crl, missed, events>>

\* reissue_ca_certificate: the checks on the CA and on its issuer, itself if it is a root.
BeginReissue(w, c) ==
    /\ Arrives(w, "reissue")
    /\ approval[c] = "approved" /\ c \notin revoked
    /\ IF Parent[c] = NoCa THEN c \in Keyed
       ELSE SigningCapable(Parent[c]) /\ Parent[c] \notin expired
    /\ Goes(w, "may_reissue", c)

\* _promote_reissue: the new certificate becomes the primary one.
Promote(c) ==
    /\ serial' = [serial EXCEPT ![c] = @ + 1]
    /\ expired' = expired \ {c}

\* The CA's own CRL follows a promotion (_crl_refresh_warning_ca).
ReissueNow(w) ==
    /\ worker[w].at = "may_reissue"
    /\ Promote(worker[w].ca)
    /\ Goes(w, "refresh", worker[w].ca)
    /\ UNCHANGED <<approval, reissue, issuer, revoked, crl, missed, events>>

\* Under dual control the new certificate waits for another admin.
ReissueLater(w) ==
    /\ worker[w].at = "may_reissue"
    /\ reissue' = reissue \union {worker[w].ca}
    /\ Finishes(w)
    /\ UNCHANGED <<approval, serial, issuer, revoked, expired, crl, missed, events>>

\* approve_alternate: the waiting certificate is promoted, whatever has become of the CA.
ApproveReissue(w, c) ==
    /\ "reissue" \in Requests /\ events > 0 /\ worker[w] = Idle
    /\ c \in reissue
    /\ reissue' = reissue \ {c}
    /\ Promote(c)
    /\ Goes(w, "refresh", c)
    /\ events' = events - 1
    /\ UNCHANGED <<approval, issuer, revoked, crl, missed>>

\* delete_alternate, of a certificate that waits for its approval.
DeleteReissue(c) ==
    /\ "reissue" \in Requests /\ events > 0
    /\ c \in reissue
    /\ reissue' = reissue \ {c}
    /\ events' = events - 1
    /\ UNCHANGED <<approval, serial, issuer, revoked, expired, crl, worker, missed>>
-----------------------------------------------------------------------------
(***************************************************************************)
(* Issuing and renewing certificates                                       *)
(***************************************************************************)

\* create_certificate, and in the same way the signing of a CSR: the checks on the CA.
BeginIssue(w, c) ==
    /\ Arrives(w, "issue")
    /\ SigningCapable(c) /\ c \notin expired
    /\ Goes(w, "may_issue", c)

\* create_certificate: the row is inserted.
IssueCertificate(w, x) ==
    /\ worker[w].at = "may_issue"
    /\ issuer[x] = NoCa
    /\ issuer' = [issuer EXCEPT ![x] = worker[w].ca]
    /\ Finishes(w)
    /\ UNCHANGED <<approval, serial, reissue, revoked, expired, crl, missed, events>>

\* renew_certificate: the checks, with revoke_old (may_supersede) or without (may_renew). A
\* revoked certificate can be renewed with a new key, a renewed one again with force.
BeginRenew(w, x, step) ==
    /\ Arrives(w, "renew")
    /\ issuer[x] # NoCa
    /\ SigningCapable(issuer[x]) /\ issuer[x] \notin expired
    /\ step \in {"may_renew", "may_supersede"}
    /\ Becomes(w, Task(step, "request", issuer[x], x, {}))

\* renew_certificate and the route's commit: the successor is inserted and, with revoke_old,
\* the old certificate revoked in the same transaction and its CA's CRL refreshed after it.
RenewCertificate(w, y) ==
    /\ worker[w].at \in {"may_renew", "may_supersede"}
    /\ issuer[y] = NoCa
    /\ issuer' = [issuer EXCEPT ![y] = worker[w].ca]
    /\ \/ /\ worker[w].at = "may_supersede"
          /\ revoked' = revoked \union {worker[w].cert}
          /\ Goes(w, "refresh", worker[w].ca)
       \/ /\ worker[w].at = "may_renew"
          /\ Finishes(w)
          /\ UNCHANGED revoked
    /\ UNCHANGED <<approval, serial, reissue, expired, crl, missed, events>>
-----------------------------------------------------------------------------
(***************************************************************************)
(* Revoking, and publishing what was revoked                               *)
(***************************************************************************)

\* revoke_certificate: a certificate is found not to be revoked.
BeginRevoke(w, x) ==
    /\ Arrives(w, "revoke")
    /\ issuer[x] # NoCa /\ x \notin revoked
    /\ Becomes(w, Task("may_revoke", "request", NoCa, x, {}))

RevokeUnpublished(w) ==                             \* the route forgets the CRL refresh
    /\ worker[w].at = "may_revoke"
    /\ revoked' = revoked \union {worker[w].cert}
    /\ Finishes(w)
    /\ UNCHANGED <<approval, serial, reissue, issuer, expired, crl, missed, events>>

\* The revocation and its audit row are committed; the refresh of the issuer's CRL follows.
RevokeCertificate(w) ==
    /\ worker[w].at = "may_revoke"
    /\ revoked' = revoked \union {worker[w].cert}
    /\ Goes(w, "refresh", issuer[worker[w].cert])
    /\ UNCHANGED <<approval, serial, reissue, issuer, expired, crl, missed, events>>

\* revoke_ca: a CA, which may be pending, is found not to be revoked.
BeginRevokeCa(w, c) ==
    /\ Arrives(w, "revoke_ca")
    /\ Exists(c) /\ c \notin revoked
    /\ Goes(w, "may_revoke_ca", c)

\* revoke_ca: the sweep of the subtree and of all its certificates, in one transaction.
RevokeCa(w) ==
    /\ worker[w].at = "may_revoke_ca"
    /\ LET swept == Swept(worker[w].ca) IN
       revoked' = revoked \union swept \union {x \in Certs : issuer[x] \in swept}
    /\ Goes(w, "publish", worker[w].ca)
    /\ UNCHANGED <<approval, serial, reissue, issuer, expired, crl, missed, events>>

\* refresh_crl and publish_initial_crl: nothing for a CA that cannot sign, and no look at
\* is_revoked.
RefreshCrl(w) ==
    /\ worker[w].at = "refresh"
    /\ IF CanSignCrls(worker[w].ca) THEN Generate(worker[w].ca, "fresh") ELSE NoCrl
    /\ Finishes(w)
    /\ UNCHANGED <<approval, serial, reissue, issuer, revoked, expired, events>>

PublishParentToo(w) ==                              \* the parent is taken for a part of the subtree
    /\ worker[w].at = "publish"
    /\ Becomes(w, Task("finals", "request", NoCa, NoCert,
                       RevokedSubtree(worker[w].ca) \union {Parent[worker[w].ca]}))
    /\ NoCrl
    /\ UNCHANGED <<approval, serial, reissue, issuer, revoked, expired, events>>

\* publish_revocation_crls: the parent's CRL first; then the subtree to publish is collected.
PublishParent(w) ==
    /\ worker[w].at = "publish"
    /\ LET c == worker[w].ca IN
       /\ IF Parent[c] # NoCa /\ CanSignCrls(Parent[c])
          THEN Generate(Parent[c], "fresh") ELSE NoCrl
       /\ Becomes(w, Task("finals", "request", NoCa, NoCert, RevokedSubtree(c)))
    /\ UNCHANGED <<approval, serial, reissue, issuer, revoked, expired, events>>

\* publish_final_crl for the next CA of the subtree, each after its parent: nothing for a CA
\* that cannot sign or has expired.
PublishFinalCrl(w, c) ==
    /\ worker[w].at = "finals"
    /\ c \in worker[w].todo /\ Parent[c] \notin worker[w].todo
    /\ IF CanSignCrls(c) /\ c \notin expired THEN Generate(c, "final") ELSE NoCrl
    /\ Becomes(w, IF worker[w].todo = {c} THEN Idle
                  ELSE Task("finals", "request", NoCa, NoCert, worker[w].todo \ {c}))
    /\ UNCHANGED <<approval, serial, reissue, issuer, revoked, expired, events>>

\* _crl_refresh_warning: a signature fails, and the rest of the publication is given up.
PublishFails(w) ==
    /\ MayFail
    /\ worker[w].at \in {"refresh", "publish", "finals"}
    /\ missed' = missed \union Owes(w)
    /\ Finishes(w)
    /\ UNCHANGED <<approval, serial, reissue, issuer, revoked, expired, crl, events>>

\* A request ends without a write: a refused name, key or profile, or any error before the commit.
GivesUp(w) ==
    /\ worker[w].at \in {"may_create", "may_reissue", "may_issue", "may_renew", "may_supersede",
                        "may_revoke", "may_revoke_ca"}
    /\ Finishes(w)
    /\ UNCHANGED <<approval, serial, reissue, issuer, revoked, expired, crl, missed, events>>
-----------------------------------------------------------------------------
(***************************************************************************)
(* Regenerating CRLs                                                       *)
(***************************************************************************)

PastNextUpdate(c) ==
    \/ crl[c].until \in {"none", "lapsed"}
    \/ crl[c].until = "final" /\ c \in expired

StaleIfMissing(job, c) == crl[c].until = "none"     \* only a CA without any CRL gets one

\* What makes a job regenerate a CRL: crl_is_stale for the scheduler, an expired CRL for the
\* command line, nothing at all for its --all.
Stale(job, c) ==
    \/ PastNextUpdate(c)
    \/ job = "tick" /\ crl[c].until = "due"
    \/ job = "cli_all"

\* The admin route generate_crl; _current_crl does the same for a download of a lapsed CRL.
BeginGenerate(w, c) ==
    /\ \/ Arrives(w, "generate")
       \/ Arrives(w, "download") /\ crl[c].until = "lapsed"
    /\ SigningCapable(c)
    /\ Goes(w, "may_generate", c)

\* job_crl_refresh, or crl refresh on the command line: the CAs to look at are listed once.
BeginScan(w, job) ==
    /\ worker[w] = Idle
    /\ {c \in CAs : SigningCapable(c)} # {}
    /\ Becomes(w, Task("scan", job, NoCa, NoCert, {c \in CAs : SigningCapable(c)}))
    /\ UNCHANGED <<approval, serial, reissue, issuer, revoked, expired, crl, missed>>

\* The scheduler's tick.
JobCrlRefresh == BeginScan(Scheduler, "tick") /\ UNCHANGED events

CliCrlRefresh(w, job) ==
    /\ "cli" \in Requests /\ events > 0
    /\ BeginScan(w, job)
    /\ events' = events - 1

\* The loop looks at the next CA of its list. Whether it has been revoked since is not looked at.
ScanNext(w, c) ==
    /\ worker[w].at = "scan"
    /\ c \in worker[w].todo
    /\ LET job == worker[w].job
           rest == worker[w].todo \ {c} IN
       Becomes(w, IF Stale(job, c) THEN Task("may_generate", job, c, NoCert, rest)
                  ELSE IF rest = {} THEN Idle ELSE Task("scan", job, NoCa, NoCert, rest))
    /\ UNCHANGED <<approval, serial, reissue, issuer, revoked, expired, crl, missed, events>>

\* Back to the loop after one CA, or to the end of the request.
Continues(w) ==
    Becomes(w, IF worker[w].todo = {} THEN Idle
               ELSE Task("scan", worker[w].job, NoCa, NoCert, worker[w].todo))

GenerateCrl(w) ==
    /\ worker[w].at = "may_generate"
    /\ Generate(worker[w].ca, "fresh")
    /\ Continues(w)
    /\ UNCHANGED <<approval, serial, reissue, issuer, revoked, expired, events>>

\* A signature fails: the scheduler goes on with its next CA, everybody else gives up.
GenerateFails(w) ==
    /\ MayFail
    /\ worker[w].at = "may_generate"
    /\ IF worker[w].job = "tick" THEN Continues(w) ELSE Finishes(w)
    /\ UNCHANGED <<approval, serial, reissue, issuer, revoked, expired, crl, missed, events>>
-----------------------------------------------------------------------------
(***************************************************************************)
(* Time, crashes, and the specification                                    *)
(***************************************************************************)

\* The clock passes CRL_REFRESH_BEFORE_DAYS before nextUpdate, then nextUpdate.
CrlAges(c) ==
    /\ "age" \in Requests /\ events > 0
    /\ crl[c].until \in {"fresh", "due"}
    /\ crl' = [crl EXCEPT ![c].until = IF @ = "fresh" THEN "due" ELSE "lapsed"]
    /\ events' = events - 1
    /\ UNCHANGED <<approval, serial, reissue, issuer, revoked, expired, worker, missed>>

\* The clock passes the CA's notAfter.
CaExpires(c) ==
    /\ "expire" \in Requests /\ events > 0
    /\ Exists(c) /\ c \notin expired
    /\ expired' = expired \union {c}
    /\ events' = events - 1
    /\ UNCHANGED <<approval, serial, reissue, issuer, revoked, crl, worker, missed>>

\* A killed worker loses its uncommitted work and the publications it had yet to make.
Crash(w) ==
    /\ MayCrash
    /\ worker[w] # Idle
    /\ missed' = missed \union Owes(w)
    /\ Finishes(w)
    /\ UNCHANGED <<approval, serial, reissue, issuer, revoked, expired, crl, events>>

\* What a process does next on its own, whatever the others do.
Proceed(w) ==
    \/ RevokeCertificate(w) \/ RevokeCa(w)
    \/ RefreshCrl(w) \/ PublishParent(w) \/ GenerateCrl(w)
    \/ ApproveCa(w) \/ ReissueNow(w)
    \/ \E c \in CAs : PublishFinalCrl(w, c) \/ ScanNext(w, c)

Begin(w) ==
    \/ \E c \in CAs :
          \/ BeginCreateCa(w, c) \/ BeginApproveCa(w, c)
          \/ BeginReissue(w, c) \/ ApproveReissue(w, c)
          \/ BeginIssue(w, c) \/ BeginRevokeCa(w, c) \/ BeginGenerate(w, c)
    \/ \E x \in Certs :
          \/ BeginRevoke(w, x)
          \/ \E step \in {"may_renew", "may_supersede"} : BeginRenew(w, x, step)
    \/ \E job \in {"cli", "cli_all"} : CliCrlRefresh(w, job)

Next ==
    \/ \E w \in Workers : Begin(w)
    \/ JobCrlRefresh
    \/ \E w \in Processes :
          \/ Proceed(w)
          \/ \E c \in CAs, status \in {"pending", "approved"} : CreateCa(w, c, status)
          \/ \E x \in Certs : IssueCertificate(w, x) \/ RenewCertificate(w, x)
          \/ ReissueLater(w) \/ GivesUp(w)
          \/ PublishFails(w) \/ GenerateFails(w) \/ Crash(w)
    \/ \E c \in CAs : DeleteReissue(c) \/ CrlAges(c) \/ CaExpires(c)

Spec == Init /\ [][Next]_vars

\* The operating system runs every process, and the scheduler thread ticks for ever.
FairSpec == Spec /\ (\A w \in Processes : WF_vars(Proceed(w))) /\ WF_vars(JobCrlRefresh)
-----------------------------------------------------------------------------
(***************************************************************************)
(* Properties                                                              *)
(***************************************************************************)

\* A CRL never lists what is not revoked, or what another CA answers for: a revocation is
\* committed before any CRL can be signed with it, and it is never taken back.
ListedIsRevoked ==
    \A c \in CAs : \A e \in crl[c].lists :
        /\ e[1] \in revoked
        /\ Authority(e[1]) = c
        /\ e[2] <= Entry(e[1])[2]

\* x is on its authority's CRL, under the serial number of one of its certificates.
Listed(x) == \E e \in crl[Authority(x)].lists : e[1] = x

\* Every revocation is on the CRL it belongs on, or a worker is about to publish it, or a
\* failure or a crash has lost the publication (the revoke routes warn and ask for a manual
\* regeneration). CAs without a key, pending ones and expired ones publish nothing.
RevokedIsPublished ==
    \A x \in revoked :
        Authority(x) # NoCa /\ CanSignCrls(Authority(x)) /\ Authority(x) \notin expired =>
            \/ Listed(x)
            \/ Authority(x) \in missed
            \/ \E w \in Processes : Authority(x) \in Owes(w)

\* Only a revoked CA has a CRL that is never to be refreshed.
FinalIsRevoked == \A c \in CAs : crl[c].until = "final" => c \in revoked

\* revoke_ca leaves nothing alive below a CA at the moment it revokes it: not a certificate,
\* not a sub-CA, at any depth.
SweepIsComplete ==
    [][\A c \in CAs : c \in revoked' \ revoked =>
          /\ \A x \in Certs : issuer[x] = c => x \in revoked'
          /\ \A d \in CAs : Exists(d) /\ Parent[d] = c => d \in revoked']_vars

\* CRLs only grow: whoever signs a CRL, and however many workers do so at once, its number is
\* one more than the last one's, and it drops no entry of the last one except for the same
\* sub-CA under a later serial number.
CrlGrows ==
    [][\A c \in CAs :
          \/ crl'[c].number = crl[c].number /\ crl'[c].lists = crl[c].lists
          \/ /\ crl'[c].number = crl[c].number + 1
             /\ \A e \in crl[c].lists :
                   \E f \in crl'[c].lists : f[1] = e[1] /\ f[2] >= e[2]]_vars

\* While signatures succeed and nobody is killed, every revocation reaches its CRL.
RevocationReachesCrl ==
    \A x \in CAs \union Certs :
        x \in revoked ~> \/ Authority(x) = NoCa \/ ~CanSignCrls(Authority(x))
                         \/ Authority(x) \in expired
                         \/ Listed(x)

\* While signatures succeed, the scheduler refreshes a CRL that is due, unless its CA is
\* revoked ("automatic CRL refresh").
DueCrlIsRefreshed ==
    \A c \in CAs : SigningCapable(c) /\ crl[c].until \in {"none", "due", "lapsed"}
                       ~> crl[c].until = "fresh" \/ c \in revoked

\* publish_final_crl: a revoked CA's "last CRL must stay valid until the CA certificate itself
\* expires"; what regenerates CRLs skips revoked CAs.
FinalCrlStays ==
    [][\A c \in CAs : crl[c].until = "final" => crl'[c].until = "final"]_vars
=============================================================================
