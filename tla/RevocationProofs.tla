-------------------------- MODULE RevocationProofs --------------------------
(***************************************************************************)
(* For every hierarchy of CAs, every number of workers, certificates and   *)
(* requests, and whatever fails or crashes: the state is well typed, a CRL *)
(* lists only what is revoked, CRLs only grow, revoking a CA leaves        *)
(* nothing alive below it, only revoked CAs have a final CRL, and no       *)
(* revocation is forgotten on its way to its CRL.                          *)
(***************************************************************************)
EXTENDS Revocation, TLAPS

\* The steps that work on a CA, and those that work on a certificate.
CaSteps == {"may_create", "may_approve", "may_reissue", "may_issue", "may_renew",
            "may_supersede", "may_revoke_ca", "publish", "refresh", "may_generate"}
CertSteps == {"may_renew", "may_supersede", "may_revoke"}

\* A worker has a real CA or certificate in hand, and the certificate has been issued.
TasksNamed ==
    \A w \in Processes :
        /\ worker[w].at \in CaSteps => worker[w].ca \in CAs
        /\ worker[w].at \in CertSteps =>
              worker[w].cert \in Certs /\ issuer[worker[w].cert] \in CAs

Typed == TypeOK /\ TasksNamed

-----------------------------------------------------------------------------
\* A task made of well-typed parts is well typed, and its parts can be read back.
LEMMA TaskParts ==
  ASSUME NEW step \in Steps, NEW job \in Jobs, NEW c \in CAs \union {NoCa},
         NEW x \in Certs \union {NoCert}, NEW todo \in SUBSET CAs
  PROVE /\ Task(step, job, c, x, todo) \in Tasks
        /\ Task(step, job, c, x, todo).at = step
        /\ Task(step, job, c, x, todo).job = job
        /\ Task(step, job, c, x, todo).ca = c
        /\ Task(step, job, c, x, todo).cert = x
        /\ Task(step, job, c, x, todo).todo = todo
  BY DEF Task, Tasks

\* The idle task is well typed and idle.
LEMMA IdleParts == Idle \in Tasks /\ Idle.at = "idle" /\ Idle.todo = {}
  BY TaskParts DEF Idle, Steps, Jobs

\* A worker that becomes busy with a task has that task, and the others keep theirs.
LEMMA Becoming ==
  ASSUME TypeOK, NEW w \in Processes, NEW task \in Tasks, Becomes(w, task)
  PROVE /\ worker' \in [Processes -> Tasks]
        /\ worker'[w] = task
        /\ \A v \in Processes : v # w => worker'[v] = worker[v]
  BY DEF TypeOK, Becomes

\* What is reached from a CA is made of CAs.
LEMMA ReachTyped == \A c, X : Reach(c, X) \in SUBSET CAs
  BY DEF Reach

\* Entries are pairs of a revoked object and a serial number.
LEMMA EntriesTyped ==
  ASSUME TypeOK, NEW c \in CAs
  PROVE Entries(c) \in SUBSET ((CAs \union Certs) \X Nat)
  BY DEF Entries, Entry, TypeOK

\* A new CRL is well typed.
LEMMA NewCrlTyped ==
  ASSUME TypeOK, NEW c \in CAs, NEW until \in Validities
  PROVE NewCrl(c, until) \in [number : Nat, lists : SUBSET ((CAs \union Certs) \X Nat),
                              until : Validities]
  BY EntriesTyped DEF NewCrl, TypeOK

\* Signing one CA's CRL keeps the CRLs well typed.
LEMMA GenerateTyped ==
  ASSUME TypeOK, NEW c \in CAs, NEW until \in Validities, Generate(c, until)
  PROVE /\ crl' \in [CAs -> [number : Nat, lists : SUBSET ((CAs \union Certs) \X Nat),
                             until : Validities]]
        /\ missed' \in SUBSET CAs
  BY NewCrlTyped DEF Generate, TypeOK

\* The publications a worker owes are CRLs of CAs.
LEMMA OwesTyped ==
  ASSUME Typed, NEW w \in Processes
  PROVE Owes(w) \in SUBSET CAs
  BY ReachTyped, HierarchyAssumption
  DEF Owes, Typed, TypeOK, TasksNamed, RevokedSubtree, CaSteps, Tasks

\* What a worker becomes busy with must be named; the tasks of the others stay named because a
\* certificate's issuer, once set, is never changed.
LEMMA MovesTyped ==
  ASSUME Typed, NEW w \in Processes, NEW task \in Tasks, Becomes(w, task),
         \A x \in Certs : issuer[x] \in CAs => issuer'[x] = issuer[x],
         task.at \in CaSteps => task.ca \in CAs,
         task.at \in CertSteps => task.cert \in Certs /\ issuer'[task.cert] \in CAs
  PROVE worker' \in [Processes -> Tasks] /\ TasksNamed'
  <1>1. /\ worker' \in [Processes -> Tasks] /\ worker'[w] = task
        /\ \A v \in Processes : v # w => worker'[v] = worker[v]
    BY Becoming DEF Typed
  <1> QED
    BY <1>1 DEF Typed, TypeOK, TasksNamed

\* A worker that finishes is idle, and the idle task names nothing.
LEMMA FinishesTyped ==
  ASSUME Typed, NEW w \in Processes, Finishes(w),
         \A x \in Certs : issuer[x] \in CAs => issuer'[x] = issuer[x]
  PROVE worker' \in [Processes -> Tasks] /\ TasksNamed'
  BY IdleParts, MovesTyped DEF Finishes, CaSteps, CertSteps

\* A worker that goes on with a CA names that CA.
LEMMA GoesTyped ==
  ASSUME Typed, NEW w \in Processes, NEW c \in CAs, NEW step \in Steps \ CertSteps,
         Goes(w, step, c), \A x \in Certs : issuer[x] \in CAs => issuer'[x] = issuer[x]
  PROVE worker' \in [Processes -> Tasks] /\ TasksNamed'
  <1>1. /\ Task(step, "request", c, NoCert, {}) \in Tasks
        /\ Task(step, "request", c, NoCert, {}).at = step
        /\ Task(step, "request", c, NoCert, {}).ca = c
    BY TaskParts DEF Jobs
  <1> QED
    BY <1>1, MovesTyped DEF Goes

\* The loop over the CAs of a scan.
LEMMA ScanTyped ==
  ASSUME Typed, NEW w \in Processes, NEW job \in Jobs, NEW todo \in SUBSET CAs,
         Becomes(w, Task("scan", job, NoCa, NoCert, todo)), UNCHANGED issuer
  PROVE worker' \in [Processes -> Tasks] /\ TasksNamed'
  <1>1. /\ Task("scan", job, NoCa, NoCert, todo) \in Tasks
        /\ Task("scan", job, NoCa, NoCert, todo).at = "scan"
    BY TaskParts DEF Steps
  <1> QED
    BY <1>1, MovesTyped DEF CaSteps, CertSteps

\* The loop over the CAs that get a final CRL.
LEMMA FinalsTyped ==
  ASSUME Typed, NEW w \in Processes, NEW todo \in SUBSET CAs,
         Becomes(w, Task("finals", "request", NoCa, NoCert, todo)), UNCHANGED issuer
  PROVE worker' \in [Processes -> Tasks] /\ TasksNamed'
  <1>1. /\ Task("finals", "request", NoCa, NoCert, todo) \in Tasks
        /\ Task("finals", "request", NoCa, NoCert, todo).at = "finals"
    BY TaskParts DEF Steps, Jobs
  <1> QED
    BY <1>1, MovesTyped DEF CaSteps, CertSteps

\* Going back to the loop after one CRL.
LEMMA ContinuesTyped ==
  ASSUME Typed, NEW w \in Processes, Continues(w), UNCHANGED issuer
  PROVE worker' \in [Processes -> Tasks] /\ TasksNamed'
  <1>1. CASE worker[w].todo = {}
    BY <1>1, FinishesTyped DEF Continues, Finishes
  <1>2. CASE worker[w].todo # {}
    <2>1. worker[w].job \in Jobs /\ worker[w].todo \in SUBSET CAs
      BY DEF Typed, TypeOK, Tasks
    <2> QED
      BY <1>2, <2>1, ScanTyped DEF Continues
  <1> QED
    BY <1>1, <1>2
-----------------------------------------------------------------------------
\* The hierarchy that the model starts with is well typed.
LEMMA InitTyped == Init => Typed
  BY IdleParts, HierarchyAssumption, CertsAssumption, BoundsAssumption
  DEF Init, Typed, TypeOK, TasksNamed, Validities, CaSteps, CertSteps
\* The checks with which a request starts (every action that Begin is made of).
LEMMA BeginTyped ==
  ASSUME Typed, NEW w \in Workers, Begin(w)
  PROVE Typed'
  <1> USE HierarchyAssumption, CertsAssumption DEF Typed
  <1>0. w \in Processes
    BY DEF Processes
  <1>1. ASSUME NEW c \in CAs,
               \/ BeginCreateCa(w, c) \/ BeginApproveCa(w, c) \/ BeginReissue(w, c)
               \/ BeginIssue(w, c) \/ BeginRevokeCa(w, c) \/ BeginGenerate(w, c)
        PROVE Typed'
    <2>1. /\ UNCHANGED <<approval, serial, reissue, issuer, revoked, expired, crl, missed>>
          /\ events' \in Nat
      BY <1>1 DEF BeginCreateCa, BeginApproveCa, BeginReissue, BeginIssue, BeginRevokeCa,
                  BeginGenerate, Arrives, TypeOK
    <2>2. worker' \in [Processes -> Tasks] /\ TasksNamed'
      BY <1>0, <1>1, <2>1, GoesTyped
      DEF BeginCreateCa, BeginApproveCa, BeginReissue, BeginIssue, BeginRevokeCa,
          BeginGenerate, Steps, CertSteps
    <2> QED
      BY <2>1, <2>2 DEF TypeOK
  <1>2. ASSUME NEW c \in CAs, ApproveReissue(w, c) PROVE Typed'
    <2>1. worker' \in [Processes -> Tasks] /\ TasksNamed'
      BY <1>0, <1>2, GoesTyped DEF ApproveReissue, Steps, CertSteps
    <2> QED
      BY <1>2, <2>1 DEF ApproveReissue, Promote, TypeOK
  <1>3. ASSUME NEW x \in Certs, BeginRevoke(w, x) PROVE Typed'
    <2>1. /\ UNCHANGED <<approval, serial, reissue, issuer, revoked, expired, crl, missed>>
          /\ events' \in Nat /\ issuer[x] \in CAs
      BY <1>3 DEF BeginRevoke, Arrives, TypeOK
    <2>2. /\ Task("may_revoke", "request", NoCa, x, {}) \in Tasks
          /\ Task("may_revoke", "request", NoCa, x, {}).at = "may_revoke"
          /\ Task("may_revoke", "request", NoCa, x, {}).cert = x
      BY TaskParts DEF Steps, Jobs
    <2>3. worker' \in [Processes -> Tasks] /\ TasksNamed'
      BY <1>0, <1>3, <2>1, <2>2, MovesTyped DEF BeginRevoke, CaSteps, CertSteps
    <2> QED
      BY <2>1, <2>3 DEF TypeOK
  <1>4. ASSUME NEW x \in Certs, NEW step \in {"may_renew", "may_supersede"},
               BeginRenew(w, x, step)
        PROVE Typed'
    <2>1. /\ UNCHANGED <<approval, serial, reissue, issuer, revoked, expired, crl, missed>>
          /\ events' \in Nat /\ issuer[x] \in CAs
      BY <1>4 DEF BeginRenew, Arrives, TypeOK
    <2>2. PICK c \in CAs : c = issuer[x]
      BY <2>1
    <2>3. /\ Task(step, "request", c, x, {}) \in Tasks
          /\ Task(step, "request", c, x, {}).ca = c
          /\ Task(step, "request", c, x, {}).cert = x
      BY TaskParts DEF Steps, Jobs
    <2>4. worker' \in [Processes -> Tasks] /\ TasksNamed'
      BY <1>0, <1>4, <2>1, <2>2, <2>3, MovesTyped DEF BeginRenew
    <2> QED
      BY <2>1, <2>4 DEF TypeOK
  <1>5. ASSUME NEW job \in {"cli", "cli_all"}, CliCrlRefresh(w, job) PROVE Typed'
    <2>1. PICK todo \in SUBSET CAs : todo = {c \in CAs : SigningCapable(c)}
      OBVIOUS
    <2>2. worker' \in [Processes -> Tasks] /\ TasksNamed'
      BY <1>0, <1>5, <2>1, ScanTyped DEF CliCrlRefresh, BeginScan, Jobs
    <2> QED
      BY <1>5, <2>2 DEF CliCrlRefresh, BeginScan, TypeOK
  <1> QED
    BY <1>1, <1>2, <1>3, <1>4, <1>5 DEF Begin

\* The steps that write rows (CreateCa, ApproveCa, ReissueNow, ReissueLater, IssueCertificate,
\* RenewCertificate, RevokeCertificate, RevokeCa), and giving up before the write.
LEMMA WritesTyped ==
  ASSUME Typed, NEW w \in Processes,
         \/ \E c \in CAs, status \in {"pending", "approved"} : CreateCa(w, c, status)
         \/ \E x \in Certs : IssueCertificate(w, x) \/ RenewCertificate(w, x)
         \/ ApproveCa(w) \/ ReissueNow(w) \/ ReissueLater(w) \/ GivesUp(w)
         \/ RevokeCertificate(w) \/ RevokeCa(w)
  PROVE Typed'
  <1> USE HierarchyAssumption, CertsAssumption DEF Typed
  <1>1. ASSUME NEW c \in CAs, NEW status \in {"pending", "approved"}, CreateCa(w, c, status)
        PROVE Typed'
    <2>1. worker' \in [Processes -> Tasks] /\ TasksNamed'
      BY <1>1, GoesTyped, FinishesTyped DEF CreateCa, Steps, CertSteps
    <2> QED
      BY <1>1, <2>1 DEF CreateCa, TypeOK
  <1>2. ASSUME NEW x \in Certs, IssueCertificate(w, x) PROVE Typed'
    <2>1. worker[w].ca \in CAs /\ \A y \in Certs : issuer[y] \in CAs => issuer'[y] = issuer[y]
      BY <1>2 DEF IssueCertificate, TasksNamed, CaSteps, TypeOK
    <2>2. worker' \in [Processes -> Tasks] /\ TasksNamed'
      BY <1>2, <2>1, FinishesTyped DEF IssueCertificate
    <2> QED
      BY <1>2, <2>1, <2>2 DEF IssueCertificate, TypeOK
  <1>3. ASSUME NEW x \in Certs, RenewCertificate(w, x) PROVE Typed'
    <2>1. /\ worker[w].ca \in CAs /\ worker[w].cert \in Certs
          /\ \A y \in Certs : issuer[y] \in CAs => issuer'[y] = issuer[y]
      BY <1>3 DEF RenewCertificate, TasksNamed, CaSteps, CertSteps, TypeOK
    <2>2. PICK c \in CAs : c = worker[w].ca
      BY <2>1
    <2>3. worker' \in [Processes -> Tasks] /\ TasksNamed'
      BY <1>3, <2>1, <2>2, GoesTyped, FinishesTyped DEF RenewCertificate, Steps, CertSteps
    <2> QED
      BY <1>3, <2>1, <2>3 DEF RenewCertificate, TypeOK
  <1>4. ASSUME ApproveCa(w) \/ ReissueNow(w) \/ ReissueLater(w) PROVE Typed'
    <2>1. PICK c \in CAs : c = worker[w].ca
      BY <1>4 DEF ApproveCa, ReissueNow, ReissueLater, TasksNamed, CaSteps
    <2>2. worker' \in [Processes -> Tasks] /\ TasksNamed'
      BY <1>4, <2>1, GoesTyped, FinishesTyped
      DEF ApproveCa, ReissueNow, ReissueLater, Steps, CertSteps
    <2> QED
      BY <1>4, <2>1, <2>2 DEF ApproveCa, ReissueNow, ReissueLater, Promote, TypeOK
  <1>5. ASSUME GivesUp(w) PROVE Typed'
    <2>1. worker' \in [Processes -> Tasks] /\ TasksNamed'
      BY <1>5, FinishesTyped DEF GivesUp
    <2> QED
      BY <1>5, <2>1 DEF GivesUp, TypeOK
  <1>6. ASSUME RevokeCertificate(w) PROVE Typed'
    <2>1. PICK c \in CAs : c = issuer[worker[w].cert]
      BY <1>6 DEF RevokeCertificate, TasksNamed, CertSteps
    <2>2. worker' \in [Processes -> Tasks] /\ TasksNamed'
      BY <1>6, <2>1, GoesTyped DEF RevokeCertificate, Steps, CertSteps
    <2>3. worker[w].cert \in Certs
      BY <1>6 DEF RevokeCertificate, TasksNamed, CertSteps
    <2> QED
      BY <1>6, <2>2, <2>3 DEF RevokeCertificate, TypeOK
  <1>7. ASSUME RevokeCa(w) PROVE Typed'
    <2>1. PICK c \in CAs : c = worker[w].ca
      BY <1>7 DEF RevokeCa, TasksNamed, CaSteps
    <2>2. worker' \in [Processes -> Tasks] /\ TasksNamed'
      BY <1>7, <2>1, GoesTyped DEF RevokeCa, Steps, CertSteps
    <2>3. revoked' \in SUBSET (CAs \union Certs)
      BY <1>7, ReachTyped DEF RevokeCa, Swept, TypeOK
    <2> QED
      BY <1>7, <2>2, <2>3 DEF RevokeCa, TypeOK
  <1> QED
    BY <1>1, <1>2, <1>3, <1>4, <1>5, <1>6, <1>7
\* The steps that sign CRLs, and their failures.
LEMMA PublishesTyped ==
  ASSUME Typed, NEW w \in Processes,
         \/ RefreshCrl(w) \/ PublishParent(w) \/ GenerateCrl(w)
         \/ \E c \in CAs : PublishFinalCrl(w, c) \/ ScanNext(w, c)
         \/ PublishFails(w) \/ GenerateFails(w) \/ Crash(w)
  PROVE Typed'
  <1> USE HierarchyAssumption, CertsAssumption DEF Typed
  <1>1. ASSUME RefreshCrl(w) PROVE Typed'
    <2>1. PICK c \in CAs : c = worker[w].ca
      BY <1>1 DEF RefreshCrl, TasksNamed, CaSteps
    <2>2. worker' \in [Processes -> Tasks] /\ TasksNamed'
      BY <1>1, FinishesTyped DEF RefreshCrl
    <2>3. /\ crl' \in [CAs -> [number : Nat, lists : SUBSET ((CAs \union Certs) \X Nat),
                               until : Validities]]
          /\ missed' \in SUBSET CAs
      BY <1>1, <2>1, GenerateTyped DEF RefreshCrl, NoCrl, Validities, TypeOK
    <2> QED
      BY <1>1, <2>2, <2>3 DEF RefreshCrl, TypeOK
  <1>2. ASSUME PublishParent(w) PROVE Typed'
    <2>1. PICK c \in CAs : c = worker[w].ca
      BY <1>2 DEF PublishParent, TasksNamed, CaSteps
    <2>2. PICK todo \in SUBSET CAs : todo = RevokedSubtree(worker[w].ca)
      BY ReachTyped DEF RevokedSubtree
    <2>3. worker' \in [Processes -> Tasks] /\ TasksNamed'
      BY <1>2, <2>2, FinalsTyped DEF PublishParent
    <2>4. /\ crl' \in [CAs -> [number : Nat, lists : SUBSET ((CAs \union Certs) \X Nat),
                               until : Validities]]
          /\ missed' \in SUBSET CAs
      <3>1. CASE Parent[c] # NoCa /\ CanSignCrls(Parent[c])
        BY <1>2, <2>1, <3>1, GenerateTyped DEF PublishParent, Validities
      <3>2. CASE ~(Parent[c] # NoCa /\ CanSignCrls(Parent[c]))
        BY <1>2, <2>1, <3>2 DEF PublishParent, NoCrl, TypeOK
      <3> QED
        BY <3>1, <3>2
    <2> QED
      BY <1>2, <2>3, <2>4 DEF PublishParent, TypeOK
  <1>3. ASSUME GenerateCrl(w) PROVE Typed'
    <2>1. PICK c \in CAs : c = worker[w].ca
      BY <1>3 DEF GenerateCrl, TasksNamed, CaSteps
    <2>2. worker' \in [Processes -> Tasks] /\ TasksNamed'
      BY <1>3, ContinuesTyped DEF GenerateCrl
    <2>3. /\ crl' \in [CAs -> [number : Nat, lists : SUBSET ((CAs \union Certs) \X Nat),
                               until : Validities]]
          /\ missed' \in SUBSET CAs
      BY <1>3, <2>1, GenerateTyped DEF GenerateCrl, Validities
    <2> QED
      BY <1>3, <2>2, <2>3 DEF GenerateCrl, TypeOK
  <1>4. ASSUME NEW c \in CAs, PublishFinalCrl(w, c) PROVE Typed'
    <2>1. PICK todo \in SUBSET CAs : todo = worker[w].todo \ {c}
      BY DEF TypeOK, Tasks
    <2>2. worker' \in [Processes -> Tasks] /\ TasksNamed'
      BY <1>4, <2>1, FinishesTyped, FinalsTyped DEF PublishFinalCrl, Finishes
    <2>3. /\ crl' \in [CAs -> [number : Nat, lists : SUBSET ((CAs \union Certs) \X Nat),
                               until : Validities]]
          /\ missed' \in SUBSET CAs
      BY <1>4, GenerateTyped DEF PublishFinalCrl, NoCrl, Validities, TypeOK
    <2> QED
      BY <1>4, <2>2, <2>3 DEF PublishFinalCrl, TypeOK
  <1>5. ASSUME NEW c \in CAs, ScanNext(w, c) PROVE Typed'
    <2>1. PICK todo \in SUBSET CAs : todo = worker[w].todo \ {c}
      BY DEF TypeOK, Tasks
    <2>2. PICK job \in Jobs : job = worker[w].job
      BY DEF TypeOK, Tasks
    <2>3. /\ Task("may_generate", job, c, NoCert, todo) \in Tasks
          /\ Task("may_generate", job, c, NoCert, todo).at = "may_generate"
          /\ Task("may_generate", job, c, NoCert, todo).ca = c
      BY TaskParts DEF Steps
    <2>4. worker' \in [Processes -> Tasks] /\ TasksNamed'
      <3>1. CASE Stale(job, c)
        BY <1>5, <2>1, <2>2, <2>3, <3>1, MovesTyped DEF ScanNext, CertSteps
      <3>2. CASE ~Stale(job, c)
        BY <1>5, <2>1, <2>2, <3>2, FinishesTyped, ScanTyped DEF ScanNext, Finishes
      <3> QED
        BY <3>1, <3>2
    <2> QED
      BY <1>5, <2>4 DEF ScanNext, TypeOK
  <1>6. ASSUME PublishFails(w) \/ Crash(w) PROVE Typed'
    <2>1. worker' \in [Processes -> Tasks] /\ TasksNamed'
      BY <1>6, FinishesTyped DEF PublishFails, Crash
    <2> QED
      BY <1>6, <2>1, OwesTyped DEF PublishFails, Crash, TypeOK
  <1>7. ASSUME GenerateFails(w) PROVE Typed'
    <2>1. worker' \in [Processes -> Tasks] /\ TasksNamed'
      BY <1>7, FinishesTyped, ContinuesTyped DEF GenerateFails
    <2> QED
      BY <1>7, <2>1 DEF GenerateFails, TypeOK
  <1> QED
    BY <1>1, <1>2, <1>3, <1>4, <1>5, <1>6, <1>7

\* Every step of every process, and of the clock, keeps every variable in its type.
LEMMA NextTyped == Typed /\ [Next]_vars => Typed'
  <1> SUFFICES ASSUME Typed, [Next]_vars PROVE Typed'
    OBVIOUS
  <1>1. ASSUME NEW w \in Workers, Begin(w) PROVE Typed'
    BY <1>1, BeginTyped
  <1>2. CASE JobCrlRefresh
    <2>1. PICK todo \in SUBSET CAs : todo = {c \in CAs : SigningCapable(c)}
      OBVIOUS
    <2>2. worker' \in [Processes -> Tasks] /\ TasksNamed'
      BY <1>2, <2>1, ScanTyped DEF JobCrlRefresh, BeginScan, Jobs, Processes
    <2> QED
      BY <1>2, <2>2 DEF JobCrlRefresh, BeginScan, Typed, TypeOK
  <1>3. ASSUME NEW w \in Processes,
               \/ Proceed(w)
               \/ \E c \in CAs, status \in {"pending", "approved"} : CreateCa(w, c, status)
               \/ \E x \in Certs : IssueCertificate(w, x) \/ RenewCertificate(w, x)
               \/ ReissueLater(w) \/ GivesUp(w)
               \/ PublishFails(w) \/ GenerateFails(w) \/ Crash(w)
        PROVE Typed'
    BY <1>3, WritesTyped, PublishesTyped DEF Proceed
  <1>4. ASSUME NEW c \in CAs, DeleteReissue(c) \/ CrlAges(c) \/ CaExpires(c) PROVE Typed'
    BY <1>4 DEF DeleteReissue, CrlAges, CaExpires, Typed, TypeOK, TasksNamed, Validities
  <1>5. CASE UNCHANGED vars
    BY <1>5 DEF vars, Typed, TypeOK, TasksNamed
  <1> QED
    BY <1>1, <1>2, <1>3, <1>4, <1>5 DEF Next

\* Every variable of the revocation machinery keeps its type, for every hierarchy.
THEOREM TypeCorrect == Spec => []TypeOK
  <1>1. Typed => TypeOK
    BY DEF Typed
  <1> QED
    BY <1>1, InitTyped, NextTyped, PTL DEF Spec
-----------------------------------------------------------------------------
(***************************************************************************)
(* What a CRL says. ListedIsRevoked is not inductive by itself: a listed   *)
(* certificate stays under the same authority only because a revoked       *)
(* certificate has been issued, and a CRL is final only for revoked CAs    *)
(* because the list of final CRLs to publish holds nothing else.           *)
(***************************************************************************)
RevokedIssued == \A x \in revoked \intersect Certs : issuer[x] \in CAs

FinalsRevoked ==
    \A w \in Processes :
        /\ worker[w].at = "publish" => worker[w].ca \in revoked
        /\ worker[w].at = "finals" => worker[w].todo \subseteq revoked

RInv ==
    /\ Typed
    /\ RevokedIssued
    /\ ListedIsRevoked
    /\ FinalsRevoked
    /\ FinalIsRevoked

\* A CA reaches itself.
LEMMA ReachSelf ==
  ASSUME NEW c \in CAs, NEW X
  PROVE c \in Reach(c, X)
  BY DEF Reach

\* What is reached is closed under the children in X.
LEMMA ReachClosed ==
  ASSUME NEW c, NEW X, NEW e \in X \intersect CAs, Parent[e] \in Reach(c, X)
  PROVE e \in Reach(c, X)
  BY DEF Reach

\* Nothing but the CA itself and members of X is reached.
LEMMA ReachWithin ==
  ASSUME NEW c \in CAs, NEW X \in SUBSET CAs
  PROVE Reach(c, X) \subseteq {c} \union X
  <1>1. {c} \union X \in SUBSET CAs
    OBVIOUS
  <1> QED
    BY <1>1 DEF Reach

\* The effect of any step on the rows that CRLs are made from: revocations are never undone,
\* a certificate's issuer is never changed, a CA's serial number only moves forward.
RowsOnlyGrow ==
    /\ revoked \subseteq revoked'
    /\ \A x \in Certs : issuer[x] \in CAs => issuer'[x] = issuer[x]
    /\ \A c \in CAs : serial'[c] \in Nat /\ serial'[c] >= serial[c]
    /\ RevokedIssued'

\* The effect of any step on a CRL: none, ageing, or a new CRL made from the rows as they are,
\* which is final only for a revoked CA.
CrlStep(c) ==
    \/ crl'[c] = crl[c]
    \/ /\ crl'[c].number = crl[c].number /\ crl'[c].lists = crl[c].lists
       /\ crl'[c].until # "final"
    \/ /\ UNCHANGED <<revoked, issuer, serial>>
       /\ \E until \in Validities : /\ crl'[c] = NewCrl(c, until)
                                    /\ until = "final" => c \in revoked

\* The requests that begin change no row and no CRL, re-issued certificates excepted.
LEMMA BeginRows ==
  ASSUME RInv, NEW w \in Workers, Begin(w)
  PROVE RowsOnlyGrow /\ UNCHANGED crl /\ FinalsRevoked'
  <1> USE DEF RInv, Typed, TypeOK
  <1>0. w \in Processes
    BY DEF Processes
  <1>1. UNCHANGED <<revoked, issuer, crl>> /\ \A c \in CAs : serial'[c] >= serial[c]
    BY DEF Begin, BeginCreateCa, BeginApproveCa, BeginReissue, BeginIssue, BeginRevokeCa,
           BeginGenerate, ApproveReissue, Promote, BeginRevoke, BeginRenew, CliCrlRefresh,
           BeginScan, Arrives
  <1>2. Typed'
    BY BeginTyped
  <1>3. /\ worker'[w].at \notin {"publish", "finals"}
        /\ \A v \in Processes : v # w => worker'[v] = worker[v]
    BY <1>0 DEF Begin, BeginCreateCa, BeginApproveCa, BeginReissue, BeginIssue, BeginRevokeCa,
           BeginGenerate, ApproveReissue, BeginRevoke, BeginRenew, CliCrlRefresh, BeginScan,
           Goes, Becomes, Task
  <1>4. FinalsRevoked'
    BY <1>1, <1>3 DEF FinalsRevoked
  <1> QED
    BY <1>1, <1>2, <1>4 DEF RowsOnlyGrow, RevokedIssued
\* The steps that write rows keep what was revoked and issued, and touch no CRL.
LEMMA WritesRows ==
  ASSUME RInv, NEW w \in Processes,
         \/ \E c \in CAs, status \in {"pending", "approved"} : CreateCa(w, c, status)
         \/ \E x \in Certs : IssueCertificate(w, x) \/ RenewCertificate(w, x)
         \/ ApproveCa(w) \/ ReissueNow(w) \/ ReissueLater(w) \/ GivesUp(w)
         \/ RevokeCertificate(w) \/ RevokeCa(w)
  PROVE RowsOnlyGrow /\ UNCHANGED crl /\ FinalsRevoked'
  <1> USE DEF RInv, Typed
  <1>0. Typed' /\ TypeOK
    BY WritesTyped
  <1>1. ASSUME \/ \E c \in CAs, status \in {"pending", "approved"} : CreateCa(w, c, status)
               \/ ApproveCa(w) \/ ReissueNow(w) \/ ReissueLater(w) \/ GivesUp(w)
        PROVE /\ UNCHANGED <<revoked, issuer, crl>> /\ \A c \in CAs : serial'[c] >= serial[c]
              /\ worker'[w].at \notin {"publish", "finals"}
              /\ \A v \in Processes : v # w => worker'[v] = worker[v]
    BY <1>0, <1>1 DEF CreateCa, ApproveCa, ReissueNow, ReissueLater, GivesUp, Promote, Goes,
                      Finishes, Becomes, Idle, Task, TypeOK
  <1>2. ASSUME NEW x \in Certs, IssueCertificate(w, x) \/ RenewCertificate(w, x)
        PROVE /\ UNCHANGED <<serial, crl>> /\ revoked \subseteq revoked'
              /\ \A y \in Certs : issuer[y] \in CAs => issuer'[y] = issuer[y]
              /\ \A y \in (revoked' \ revoked) \intersect Certs : issuer[y] \in CAs
              /\ worker'[w].at \notin {"publish", "finals"}
              /\ \A v \in Processes : v # w => worker'[v] = worker[v]
    BY <1>0, <1>2, CertsAssumption, HierarchyAssumption
    DEF IssueCertificate, RenewCertificate, Goes, Finishes, Becomes, Idle, Task, TypeOK,
        TasksNamed, CertSteps
  <1>3. ASSUME RevokeCertificate(w)
        PROVE /\ UNCHANGED <<serial, issuer, crl>> /\ revoked \subseteq revoked'
              /\ \A y \in (revoked' \ revoked) \intersect Certs : issuer[y] \in CAs
              /\ worker'[w].at \notin {"publish", "finals"}
              /\ \A v \in Processes : v # w => worker'[v] = worker[v]
    BY <1>0, <1>3 DEF RevokeCertificate, Goes, Becomes, Task, TypeOK, TasksNamed, CertSteps
  <1>4. ASSUME RevokeCa(w)
        PROVE /\ UNCHANGED <<serial, issuer, crl>> /\ revoked \subseteq revoked'
              /\ \A y \in (revoked' \ revoked) \intersect Certs : issuer[y] \in CAs
              /\ worker'[w].at = "publish" /\ worker'[w].ca \in revoked'
              /\ \A v \in Processes : v # w => worker'[v] = worker[v]
    <2>1. PICK c \in CAs : c = worker[w].ca
      BY <1>4 DEF RevokeCa, TasksNamed, CaSteps
    <2>2. /\ Swept(c) \in SUBSET CAs /\ c \in Swept(c)
      BY ReachTyped, ReachSelf DEF Swept
    <2>3. /\ revoked' = revoked \union Swept(c) \union {x \in Certs : issuer[x] \in Swept(c)}
          /\ UNCHANGED <<serial, issuer, crl>>
          /\ worker' = [worker EXCEPT ![w] = Task("publish", "request", c, NoCert, {})]
      BY <1>4, <2>1 DEF RevokeCa, Goes, Becomes
    <2>4. /\ worker'[w].at = "publish" /\ worker'[w].ca = c
          /\ \A v \in Processes : v # w => worker'[v] = worker[v]
      BY <1>0, <2>3 DEF Task, TypeOK
    <2> QED
      BY <2>2, <2>3, <2>4, CertsAssumption
  <1>5. \A c \in CAs : serial[c] \in Nat /\ serial'[c] \in Nat
    BY <1>0 DEF TypeOK
  <1> QED
    BY <1>1, <1>2, <1>3, <1>4, <1>5 DEF RowsOnlyGrow, RevokedIssued, FinalsRevoked

\* The steps that sign CRLs, or fail to, change no row.
LEMMA PublishesRows ==
  ASSUME RInv, NEW w \in Processes,
         \/ RefreshCrl(w) \/ PublishParent(w) \/ GenerateCrl(w)
         \/ \E c \in CAs : PublishFinalCrl(w, c) \/ ScanNext(w, c)
         \/ PublishFails(w) \/ GenerateFails(w) \/ Crash(w)
  PROVE RowsOnlyGrow /\ (\A c \in CAs : CrlStep(c)) /\ FinalsRevoked'
  <1> USE DEF RInv, Typed
  <1>0. Typed' /\ TypeOK
    BY PublishesTyped
  <1>1. UNCHANGED <<revoked, issuer, serial>>
    BY DEF RefreshCrl, PublishParent, GenerateCrl, PublishFinalCrl, ScanNext, PublishFails,
           GenerateFails, Crash
  <1>2. RowsOnlyGrow
    BY <1>0, <1>1 DEF RowsOnlyGrow, RevokedIssued, TypeOK
  <1>3. ASSUME NEW d \in CAs, NEW until \in Validities, Generate(d, until),
               until = "final" => d \in revoked, NEW c \in CAs
        PROVE CrlStep(c)
    BY <1>0, <1>1, <1>3 DEF Generate, CrlStep, TypeOK
  <1>4. ASSUME UNCHANGED crl, NEW c \in CAs PROVE CrlStep(c)
    BY <1>4 DEF CrlStep
  <1>5. ASSUME RefreshCrl(w) PROVE (\A c \in CAs : CrlStep(c)) /\ FinalsRevoked'
    <2>1. PICK d \in CAs : d = worker[w].ca
      BY <1>5 DEF RefreshCrl, TasksNamed, CaSteps
    <2>2. \A c \in CAs : CrlStep(c)
      BY <1>3, <1>4, <1>5, <2>1 DEF RefreshCrl, NoCrl, Validities
    <2>3. FinalsRevoked'
      BY <1>0, <1>1, <1>5 DEF RefreshCrl, Finishes, Becomes, Idle, Task, TypeOK, FinalsRevoked
    <2> QED
      BY <2>2, <2>3
  <1>6. ASSUME PublishParent(w) PROVE (\A c \in CAs : CrlStep(c)) /\ FinalsRevoked'
    <2>1. PICK d \in CAs : d = worker[w].ca /\ d \in revoked
      BY <1>6 DEF PublishParent, TasksNamed, CaSteps, FinalsRevoked
    <2>2. \A c \in CAs : CrlStep(c)
      <3>1. CASE Parent[d] # NoCa /\ CanSignCrls(Parent[d])
        <4>1. PICK p \in CAs : p = Parent[d]
          BY <3>1, HierarchyAssumption
        <4> QED
          BY <1>3, <1>6, <2>1, <3>1, <4>1 DEF PublishParent, Validities
      <3>2. CASE ~(Parent[d] # NoCa /\ CanSignCrls(Parent[d]))
        BY <1>4, <1>6, <2>1, <3>2 DEF PublishParent, NoCrl
      <3> QED
        BY <3>1, <3>2
    <2>3. RevokedSubtree(d) \subseteq revoked
      BY <2>1, ReachWithin DEF RevokedSubtree
    <2>4. /\ worker' = [worker EXCEPT ![w] =
                             Task("finals", "request", NoCa, NoCert, RevokedSubtree(d))]
      BY <1>6, <2>1 DEF PublishParent, Becomes
    <2>5. FinalsRevoked'
      BY <1>0, <1>1, <2>3, <2>4 DEF Task, TypeOK, FinalsRevoked
    <2> QED
      BY <2>2, <2>5
  <1>7. ASSUME GenerateCrl(w) PROVE (\A c \in CAs : CrlStep(c)) /\ FinalsRevoked'
    <2>1. PICK d \in CAs : d = worker[w].ca
      BY <1>7 DEF GenerateCrl, TasksNamed, CaSteps
    <2>2. \A c \in CAs : CrlStep(c)
      BY <1>3, <1>7, <2>1 DEF GenerateCrl, Validities
    <2>3. FinalsRevoked'
      BY <1>0, <1>1, <1>7 DEF GenerateCrl, Continues, Becomes, Idle, Task, TypeOK, FinalsRevoked
    <2> QED
      BY <2>2, <2>3
  <1>8. ASSUME NEW d \in CAs, PublishFinalCrl(w, d)
        PROVE (\A c \in CAs : CrlStep(c)) /\ FinalsRevoked'
    <2>1. d \in revoked /\ worker[w].todo \subseteq revoked
      BY <1>8 DEF PublishFinalCrl, FinalsRevoked
    <2>2. \A c \in CAs : CrlStep(c)
      BY <1>3, <1>4, <1>8, <2>1 DEF PublishFinalCrl, NoCrl, Validities
    <2>3. FinalsRevoked'
      BY <1>0, <1>1, <1>8, <2>1
      DEF PublishFinalCrl, Becomes, Idle, Task, TypeOK, FinalsRevoked
    <2> QED
      BY <2>2, <2>3
  <1>9. ASSUME NEW d \in CAs, ScanNext(w, d) PROVE UNCHANGED crl /\ FinalsRevoked'
    BY <1>0, <1>1, <1>9 DEF ScanNext, Becomes, Idle, Task, TypeOK, FinalsRevoked
  <1>10. ASSUME PublishFails(w) \/ GenerateFails(w) \/ Crash(w)
         PROVE UNCHANGED crl /\ FinalsRevoked'
    BY <1>0, <1>1, <1>10
    DEF PublishFails, GenerateFails, Crash, Finishes, Continues, Becomes, Idle, Task, TypeOK,
        FinalsRevoked
  <1> QED
    BY <1>2, <1>4, <1>5, <1>6, <1>7, <1>8, <1>9, <1>10

\* What any step does to rows and CRLs.
LEMMA StepEffects ==
  ASSUME RInv, [Next]_vars
  PROVE RowsOnlyGrow /\ (\A c \in CAs : CrlStep(c)) /\ FinalsRevoked'
  <1> USE DEF RInv, Typed
  <1>0. TypeOK /\ Typed'
    BY NextTyped
  <1>1. ASSUME UNCHANGED <<revoked, issuer, serial>> PROVE RowsOnlyGrow
    BY <1>0, <1>1 DEF RowsOnlyGrow, RevokedIssued, TypeOK
  <1>2. ASSUME UNCHANGED crl, NEW c \in CAs PROVE CrlStep(c)
    BY <1>2 DEF CrlStep
  <1>3. ASSUME NEW w \in Workers, Begin(w)
        PROVE RowsOnlyGrow /\ (\A c \in CAs : CrlStep(c)) /\ FinalsRevoked'
    BY <1>2, <1>3, BeginRows
  <1>4. ASSUME JobCrlRefresh
        PROVE RowsOnlyGrow /\ (\A c \in CAs : CrlStep(c)) /\ FinalsRevoked'
    <2>1. UNCHANGED <<revoked, issuer, serial, crl>>
      BY <1>4 DEF JobCrlRefresh, BeginScan
    <2>2. FinalsRevoked'
      BY <1>0, <1>4, <2>1 DEF JobCrlRefresh, BeginScan, Becomes, Task, FinalsRevoked, TypeOK
    <2> QED
      BY <1>1, <1>2, <2>1, <2>2
  <1>5. ASSUME NEW w \in Processes,
               \/ Proceed(w)
               \/ \E c \in CAs, status \in {"pending", "approved"} : CreateCa(w, c, status)
               \/ \E x \in Certs : IssueCertificate(w, x) \/ RenewCertificate(w, x)
               \/ ReissueLater(w) \/ GivesUp(w)
               \/ PublishFails(w) \/ GenerateFails(w) \/ Crash(w)
        PROVE RowsOnlyGrow /\ (\A c \in CAs : CrlStep(c)) /\ FinalsRevoked'
    BY <1>2, <1>5, WritesRows, PublishesRows DEF Proceed
  <1>6. ASSUME NEW d \in CAs, DeleteReissue(d) \/ CaExpires(d)
        PROVE RowsOnlyGrow /\ (\A c \in CAs : CrlStep(c)) /\ FinalsRevoked'
    BY <1>1, <1>2, <1>6 DEF DeleteReissue, CaExpires, FinalsRevoked
  <1>7. ASSUME NEW d \in CAs, CrlAges(d)
        PROVE RowsOnlyGrow /\ (\A c \in CAs : CrlStep(c)) /\ FinalsRevoked'
    <2>1. RowsOnlyGrow /\ FinalsRevoked'
      BY <1>1, <1>7 DEF CrlAges, FinalsRevoked
    <2>2. ASSUME NEW c \in CAs PROVE CrlStep(c)
      BY <1>0, <1>7 DEF CrlAges, CrlStep, TypeOK
    <2> QED
      BY <2>1, <2>2
  <1>8. ASSUME UNCHANGED vars
        PROVE RowsOnlyGrow /\ (\A c \in CAs : CrlStep(c)) /\ FinalsRevoked'
    BY <1>1, <1>2, <1>8 DEF vars, FinalsRevoked
  <1> QED
    BY <1>3, <1>4, <1>5, <1>6, <1>7, <1>8 DEF Next

\* A CRL that still has its entries stays right: revocations stay, authorities stay, and serial
\* numbers only move forward.
LEMMA OldEntriesStayRight ==
  ASSUME RInv, RowsOnlyGrow, NEW c \in CAs, NEW e \in crl[c].lists
  PROVE /\ e[1] \in revoked' /\ Authority(e[1])' = c
        /\ e[2] <= Entry(e[1])'[2]
  <1>1. /\ e[1] \in revoked /\ Authority(e[1]) = c /\ e[2] <= Entry(e[1])[2]
        /\ e[2] \in Nat /\ e[1] \in CAs \union Certs
    BY DEF RInv, ListedIsRevoked, Typed, TypeOK
  <1>2. CASE e[1] \in CAs
    BY <1>1, <1>2 DEF RowsOnlyGrow, Authority, Entry, RInv, Typed, TypeOK
  <1>3. CASE e[1] \notin CAs
    BY <1>1, <1>3 DEF RowsOnlyGrow, Authority, Entry, RInv, RevokedIssued
  <1> QED
    BY <1>2, <1>3

\* A new CRL lists exactly the revoked objects of its CA.
LEMMA NewEntriesRight ==
  ASSUME RInv, NEW c \in CAs, NEW e \in Entries(c)
  PROVE e[1] \in revoked /\ Authority(e[1]) = c /\ e[2] = Entry(e[1])[2] /\ e[2] \in Nat
  BY DEF Entries, Entry, RInv, Typed, TypeOK

\* The inductive invariant is kept by every step.
LEMMA NextRInv == RInv /\ [Next]_vars => RInv'
  <1> SUFFICES ASSUME RInv, [Next]_vars PROVE RInv'
    OBVIOUS
  <1>1. RowsOnlyGrow /\ (\A c \in CAs : CrlStep(c)) /\ FinalsRevoked'
    BY StepEffects
  <1>2. Typed'
    BY NextTyped DEF RInv
  <1>3. RevokedIssued'
    BY <1>1 DEF RowsOnlyGrow
  <1>4. ASSUME NEW c \in CAs, NEW e \in crl'[c].lists
        PROVE /\ e[1] \in revoked' /\ Authority(e[1])' = c
              /\ e[2] <= Entry(e[1])'[2]
    <2>1. CASE crl'[c].lists = crl[c].lists
      BY <1>1, <1>4, <2>1, OldEntriesStayRight
    <2>2. CASE /\ UNCHANGED <<revoked, issuer, serial>>
               /\ \E until \in Validities : crl'[c] = NewCrl(c, until)
      <3>1. e \in Entries(c)
        BY <1>4, <2>2 DEF NewCrl
      <3>2. e[1] \in revoked /\ Authority(e[1]) = c /\ e[2] = Entry(e[1])[2] /\ e[2] \in Nat
        BY <3>1, NewEntriesRight
      <3> QED
        BY <2>2, <3>2 DEF Authority, Entry
    <2> QED
      BY <1>1, <2>1, <2>2 DEF CrlStep
  <1>5. ListedIsRevoked'
    BY <1>4 DEF ListedIsRevoked
  <1>6. FinalIsRevoked'
    <2> SUFFICES ASSUME NEW c \in CAs, crl'[c].until = "final" PROVE c \in revoked'
      BY DEF FinalIsRevoked
    <2>1. CrlStep(c) /\ revoked \subseteq revoked'
      BY <1>1 DEF RowsOnlyGrow
    <2>2. ASSUME NEW until \in Validities, crl'[c] = NewCrl(c, until),
                 until = "final" => c \in revoked
          PROVE c \in revoked'
      <3>1. crl'[c].until = until
        BY <2>2 DEF NewCrl
      <3> QED
        BY <2>1, <2>2, <3>1
    <2>3. ASSUME crl'[c] = crl[c] PROVE c \in revoked'
      BY <2>1, <2>3 DEF RInv, FinalIsRevoked
    <2> QED
      BY <2>1, <2>2, <2>3 DEF CrlStep
  <1> QED
    BY <1>1, <1>2, <1>3, <1>5, <1>6 DEF RInv

\* The inductive invariant holds at the start: nothing is revoked, and every CRL is empty.
LEMMA InitRInv == Init => RInv
  <1> SUFFICES ASSUME Init PROVE RInv
    OBVIOUS
  <1>1. Typed /\ RevokedIssued /\ FinalsRevoked
    BY InitTyped, IdleParts DEF Init, RevokedIssued, FinalsRevoked
  <1>2. ListedIsRevoked /\ FinalIsRevoked
    BY DEF Init, ListedIsRevoked, FinalIsRevoked
  <1> QED
    BY <1>1, <1>2 DEF RInv

\* The inductive invariant is an invariant.
LEMMA AlwaysRInv == Spec => []RInv
  BY InitRInv, NextRInv, PTL DEF Spec

\* A CRL never lists what is not revoked, or what another CA answers for, for every hierarchy,
\* every number of workers, and whatever fails or crashes.
THEOREM ListedIsRevokedHolds == Spec => []ListedIsRevoked
  <1>1. RInv => ListedIsRevoked
    BY DEF RInv
  <1> QED
    BY <1>1, AlwaysRInv, PTL

\* Only a revoked CA has a final CRL, for every hierarchy and every interleaving.
THEOREM FinalIsRevokedHolds == Spec => []FinalIsRevoked
  <1>1. RInv => FinalIsRevoked
    BY DEF RInv
  <1> QED
    BY <1>1, AlwaysRInv, PTL

\* CRLs only grow, however many processes sign them at once.
THEOREM CrlGrowsHolds == Spec => CrlGrows
  <1> DEFINE Grows == \A c \in CAs :
          \/ crl'[c].number = crl[c].number /\ crl'[c].lists = crl[c].lists
          \/ /\ crl'[c].number = crl[c].number + 1
             /\ \A e \in crl[c].lists :
                   \E f \in crl'[c].lists : f[1] = e[1] /\ f[2] >= e[2]
  <1>1. ASSUME RInv, [Next]_vars PROVE [Grows]_vars
    <2>1. SUFFICES ASSUME NEW c \in CAs
          PROVE \/ crl'[c].number = crl[c].number /\ crl'[c].lists = crl[c].lists
                \/ /\ crl'[c].number = crl[c].number + 1
                   /\ \A e \in crl[c].lists :
                         \E f \in crl'[c].lists : f[1] = e[1] /\ f[2] >= e[2]
      OBVIOUS
    <2>2. CrlStep(c)
      BY <1>1, StepEffects
    <2>3. CASE \E until \in Validities : crl'[c] = NewCrl(c, until)
      <3>1. crl'[c].number = crl[c].number + 1 /\ crl'[c].lists = Entries(c)
        BY <2>3 DEF NewCrl
      <3>2. ASSUME NEW e \in crl[c].lists
            PROVE \E f \in Entries(c) : f[1] = e[1] /\ f[2] >= e[2]
        <4>1. e[1] \in revoked /\ Authority(e[1]) = c /\ e[2] <= Entry(e[1])[2]
          BY <1>1 DEF RInv, ListedIsRevoked
        <4>2. Entry(e[1]) \in Entries(c) /\ Entry(e[1])[1] = e[1]
          BY <4>1 DEF Entries, Entry
        <4>3. e[2] \in Nat /\ Entry(e[1])[2] \in Nat
          BY <1>1, <4>2, NewEntriesRight DEF RInv, Typed, TypeOK
        <4> QED
          BY <4>1, <4>2, <4>3
      <3> QED
        BY <3>1, <3>2
    <2> QED
      BY <2>2, <2>3 DEF CrlStep
  <1> QED
    BY <1>1, AlwaysRInv, PTL DEF Spec, CrlGrows

\* The sweep of revoke_ca is complete, for every hierarchy: only RevokeCa revokes a CA, and what
\* it reaches is closed under the children that exist and are not revoked yet.
THEOREM SweepIsCompleteHolds == Spec => SweepIsComplete
  <1> DEFINE Complete == \A c \in CAs : c \in revoked' \ revoked =>
          /\ \A x \in Certs : issuer[x] = c => x \in revoked'
          /\ \A d \in CAs : Exists(d) /\ Parent[d] = c => d \in revoked'
  <1>1. ASSUME RInv, NEW w \in Processes, RevokeCa(w) PROVE Complete
    <2>1. PICK a \in CAs : a = worker[w].ca
      BY <1>1 DEF RevokeCa, RInv, Typed, TasksNamed, CaSteps
    <2>2. /\ Swept(a) \in SUBSET CAs
          /\ revoked' = revoked \union Swept(a) \union {x \in Certs : issuer[x] \in Swept(a)}
      BY <1>1, <2>1, ReachTyped DEF RevokeCa, Swept
    <2>3. SUFFICES ASSUME NEW c \in CAs, c \in revoked' \ revoked
          PROVE /\ \A x \in Certs : issuer[x] = c => x \in revoked'
                /\ \A d \in CAs : Exists(d) /\ Parent[d] = c => d \in revoked'
      OBVIOUS
    <2>4. c \in Swept(a)
      BY <2>2, <2>3, CertsAssumption
    <2>5. ASSUME NEW d \in CAs, Exists(d), Parent[d] = c, d \notin revoked
          PROVE d \in Swept(a)
      BY <2>4, <2>5, ReachClosed DEF Swept
    <2> QED
      BY <2>2, <2>4, <2>5
  <1>2. ASSUME RInv, [Next]_vars, ~(\E w \in Processes : RevokeCa(w))
        PROVE revoked' \intersect CAs = revoked \intersect CAs
    <2>1. ASSUME NEW w \in Processes, RevokeCertificate(w)
          PROVE revoked' \intersect CAs = revoked \intersect CAs
      BY <1>2, <2>1, CertsAssumption
      DEF RevokeCertificate, RInv, Typed, TasksNamed, CertSteps
    <2>2. ASSUME NEW w \in Processes, NEW x \in Certs, RenewCertificate(w, x)
          PROVE revoked' \intersect CAs = revoked \intersect CAs
      BY <1>2, <2>2, CertsAssumption
      DEF RenewCertificate, RInv, Typed, TasksNamed, CertSteps
    <2>3. ASSUME NEW w \in Processes,
                 \/ RefreshCrl(w) \/ PublishParent(w) \/ GenerateCrl(w)
                 \/ ApproveCa(w) \/ ReissueNow(w) \/ ReissueLater(w) \/ GivesUp(w)
                 \/ \E c \in CAs : PublishFinalCrl(w, c) \/ ScanNext(w, c)
                 \/ \E c \in CAs, status \in {"pending", "approved"} : CreateCa(w, c, status)
                 \/ \E x \in Certs : IssueCertificate(w, x)
                 \/ PublishFails(w) \/ GenerateFails(w) \/ Crash(w)
          PROVE UNCHANGED revoked
      BY <2>3 DEF RefreshCrl, PublishParent, GenerateCrl, ApproveCa, ReissueNow, ReissueLater,
                  GivesUp, PublishFinalCrl, ScanNext, CreateCa, IssueCertificate, PublishFails,
                  GenerateFails, Crash
    <2>4. ASSUME NEW w \in Workers, Begin(w) PROVE UNCHANGED revoked
      BY <2>4 DEF Begin, BeginCreateCa, BeginApproveCa, BeginReissue, BeginIssue,
           BeginRevokeCa, BeginGenerate, ApproveReissue, BeginRevoke, BeginRenew,
           CliCrlRefresh, BeginScan, Arrives
    <2>5. ASSUME \/ JobCrlRefresh \/ UNCHANGED vars
                 \/ \E c \in CAs : DeleteReissue(c) \/ CrlAges(c) \/ CaExpires(c)
          PROVE UNCHANGED revoked
      BY <2>5 DEF JobCrlRefresh, BeginScan, vars, DeleteReissue, CrlAges, CaExpires
    <2> QED
      BY <1>2, <2>1, <2>2, <2>3, <2>4, <2>5 DEF Next, Proceed
  <1>3. ASSUME RInv, [Next]_vars PROVE [Complete]_vars
    BY <1>1, <1>2, <1>3
  <1> QED
    BY <1>3, AlwaysRInv, PTL DEF Spec, SweepIsComplete
-----------------------------------------------------------------------------
(***************************************************************************)
(* What a CRL must say. RevokedIsPublished follows a revocation from its   *)
(* commit to its CRL: whoever commits one owes the publication (Owes), a   *)
(* process stops owing it only by signing the CRL, by leaving it in missed *)
(* or because the CA cannot sign, and a CRL that is signed lists all that  *)
(* is revoked at that moment. A CA that comes to sign (approved, or        *)
(* re-issued after it had expired) is owed a CRL from then on.             *)
(***************************************************************************)
\* A renewal has the issuer of the certificate it replaces in hand, whose CRL it will refresh.
RenewersInHand ==
    \A w \in Processes :
        worker[w].at \in {"may_renew", "may_supersede"} =>
            issuer[worker[w].cert] = worker[w].ca

PInv == RInv /\ RenewersInHand /\ RevokedIsPublished

\* A CA whose CRL is expected to be complete.
Publishes(a) == CanSignCrls(a) /\ a \notin expired

\* Its publication is owed by a process or was lost.
Covered(a) == a \in missed \/ \E w \in Processes : a \in Owes(w)

\* What has to be true of a step for a CA that publishes after it: a new CRL with all that is
\* revoked, a publication that is owed or lost, or a CA that published before, was owed nothing
\* and answers for nothing that the step revokes.
PublishStep(a) ==
    Publishes(a)' =>
        \/ crl'[a].lists = Entries(a)'
        \/ Covered(a)'
        \/ /\ Publishes(a) /\ ~Covered(a)
           /\ \A x \in revoked' \ revoked : Authority(x)' # a

\* A revoked subtree only grows with what is revoked.
LEMMA ReachGrows ==
  ASSUME NEW c \in CAs, NEW X, NEW Y, X \subseteq Y
  PROVE  Reach(c, X) \subseteq Reach(c, Y)
  BY DEF Reach

\* What is reached through X is reached through any set that holds all of it.
LEMMA ReachInto ==
  ASSUME NEW c \in CAs, NEW X \in SUBSET CAs, NEW Y, Reach(c, X) \subseteq Y
  PROVE  Reach(c, X) \subseteq Reach(c, Y)
  <1> SUFFICES ASSUME NEW d \in Reach(c, X), NEW S \in SUBSET CAs, c \in S,
                      \A e \in Y : Parent[e] \in S => e \in S
               PROVE  d \in S
    BY DEF Reach
  <1>1. PICK T \in SUBSET CAs : T = S \intersect Reach(c, X)
    OBVIOUS
  <1>2. c \in T
    BY <1>1, ReachSelf
  <1>3. ASSUME NEW e \in X, Parent[e] \in T PROVE e \in T
    BY <1>1, <1>3, ReachClosed
  <1>4. d \in T
    BY <1>2, <1>3 DEF Reach
  <1> QED
    BY <1>1, <1>4

\* A CA that is reached, other than the first, is reached through its parent.
LEMMA ReachParent ==
  ASSUME NEW c \in CAs, NEW X \in SUBSET CAs, NEW d \in Reach(c, X), d # c
  PROVE  Parent[d] \in Reach(c, X)
  <1> SUFFICES ASSUME Parent[d] \notin Reach(c, X) PROVE FALSE
    OBVIOUS
  <1>1. PICK T \in SUBSET CAs : T = Reach(c, X) \ {d}
    BY ReachTyped
  <1>2. c \in T
    BY <1>1, ReachSelf
  <1>3. ASSUME NEW e \in X, Parent[e] \in T PROVE e \in T
    BY <1>1, <1>3, ReachClosed
  <1>4. d \in T
    BY <1>2, <1>3 DEF Reach
  <1> QED
    BY <1>1, <1>4

\* The sweep of revoke_ca lies in the revoked subtree that is published after it.
LEMMA SweptIsPublished ==
  ASSUME TypeOK, NEW c \in CAs, Swept(c) \subseteq revoked', revoked' \in SUBSET (CAs \union Certs)
  PROVE  Swept(c) \subseteq RevokedSubtree(c)'
  <1>1. PICK X \in SUBSET CAs : X = {d \in CAs \ revoked : Exists(d)}
    OBVIOUS
  <1>2. PICK Y : Y = revoked' \intersect CAs
    OBVIOUS
  <1>3. Reach(c, X) \subseteq Y
    BY <1>1, <1>2, ReachTyped DEF Swept
  <1>4. Reach(c, X) \subseteq Reach(c, Y)
    BY <1>3, ReachInto
  <1> QED
    BY <1>1, <1>2, <1>4 DEF Swept, RevokedSubtree

\* A process that does not move owes what it owed.
LEMMA OthersOwe ==
  ASSUME NEW v \in Processes, worker'[v] = worker[v], revoked \subseteq revoked', RInv
  PROVE  Owes(v) \subseteq Owes(v)'
  <1>1. CASE worker[v].at = "publish"
    <2>1. PICK c \in CAs : c = worker[v].ca
      BY <1>1 DEF RInv, Typed, TasksNamed, CaSteps
    <2>2. PICK X, Y : X = revoked \intersect CAs /\ Y = revoked' \intersect CAs
      OBVIOUS
    <2>3. Reach(c, X) \subseteq Reach(c, Y)
      BY <2>2, ReachGrows
    <2>4. Owes(v) = Reach(c, X) \union ({Parent[c]} \ {NoCa})
      BY <1>1, <2>1, <2>2 DEF Owes, RevokedSubtree
    <2>5. Owes(v)' = Reach(c, Y) \union ({Parent[c]} \ {NoCa})
      BY <1>1, <2>1, <2>2 DEF Owes, RevokedSubtree
    <2> QED
      BY <2>3, <2>4, <2>5
  <1>2. CASE worker[v].at # "publish"
    BY <1>2 DEF Owes
  <1> QED
    BY <1>1, <1>2

\* A step of a process that goes on owing, or leaves in missed, what it owed covers every CA that
\* was covered.
LEMMA CoverStays ==
  ASSUME RInv, NEW w \in Processes, revoked \subseteq revoked', missed \subseteq missed',
         \A v \in Processes : v # w => worker'[v] = worker[v],
         Owes(w) \subseteq Owes(w)' \union missed', NEW a, Covered(a)
  PROVE  Covered(a)'
  <1>1. CASE a \in missed
    BY <1>1 DEF Covered
  <1>2. ASSUME NEW v \in Processes, v # w, a \in Owes(v) PROVE Covered(a)'
    BY <1>2, OthersOwe DEF Covered
  <1>3. CASE a \in Owes(w)
    BY <1>3 DEF Covered
  <1> QED
    BY <1>1, <1>2, <1>3 DEF Covered

\* A process about to refresh a CRL owes it.
LEMMA RefreshOwed ==
  ASSUME NEW w \in Processes, NEW c \in CAs, TypeOK, Goes(w, "refresh", c)
  PROVE  Covered(c)'
  <1>1. worker'[w].at = "refresh" /\ worker'[w].ca = c
    BY DEF Goes, Becomes, Task, TypeOK
  <1>2. c \in Owes(w)'
    BY <1>1 DEF Owes
  <1> QED
    BY <1>2 DEF Covered

\* The steps of processes that owe nothing and revoke nothing: the requests that begin, those
\* that are given up, the loops over CAs, and the writes that no CRL is about.
LEMMA QuietSteps ==
  ASSUME RInv, NEW w \in Processes, NEW a \in CAs,
         worker[w].at \notin {"refresh", "publish", "finals"},
         \A v \in Processes : v # w => worker'[v] = worker[v],
         UNCHANGED <<revoked, missed>>, Publishes(a)' => Publishes(a)
  PROVE  PublishStep(a)
  <1>1. Owes(w) = {}
    BY DEF Owes
  <1>2. Covered(a) => Covered(a)'
    BY <1>1, CoverStays
  <1> QED
    BY <1>2 DEF PublishStep

\* Requests begin; the approval of a waiting certificate promotes it, and its CRL is owed.
LEMMA BeginPublishes ==
  ASSUME RInv, NEW w \in Workers, Begin(w), NEW a \in CAs
  PROVE  PublishStep(a)
  <1>0. w \in Processes /\ TypeOK
    BY DEF Processes, RInv, Typed
  <1>1. /\ worker[w] = Idle /\ UNCHANGED <<revoked, missed, approval>>
        /\ \A v \in Processes : v # w => worker'[v] = worker[v]
    BY <1>0 DEF Begin, BeginCreateCa, BeginApproveCa, BeginReissue, BeginIssue, BeginRevokeCa,
           BeginGenerate, ApproveReissue, BeginRevoke, BeginRenew, CliCrlRefresh, BeginScan,
           Arrives, Goes, Becomes, TypeOK
  <1>2. worker[w].at \notin {"refresh", "publish", "finals"}
    BY <1>1, IdleParts
  <1>3. CASE UNCHANGED expired
    <2>1. Publishes(a)' => Publishes(a)
      BY <1>1, <1>3 DEF Publishes, CanSignCrls
    <2> QED
      BY <1>0, <1>1, <1>2, <2>1, QuietSteps
  <1>4. ASSUME NEW c \in CAs, ApproveReissue(w, c) PROVE PublishStep(a)
    <2>1. CASE a = c
      BY <1>0, <1>4, <2>1, RefreshOwed DEF ApproveReissue, PublishStep
    <2>2. CASE a # c
      <3>1. Publishes(a)' => Publishes(a)
        BY <1>4, <2>2 DEF ApproveReissue, Promote, Publishes, CanSignCrls
      <3> QED
        BY <1>0, <1>1, <1>2, <3>1, QuietSteps
    <2> QED
      BY <2>1, <2>2
  <1>5. UNCHANGED expired \/ \E c \in CAs : ApproveReissue(w, c)
    BY DEF Begin, BeginCreateCa, BeginApproveCa, BeginReissue, BeginIssue, BeginRevokeCa,
           BeginGenerate, BeginRevoke, BeginRenew, CliCrlRefresh, BeginScan, Arrives
  <1> QED
    BY <1>3, <1>4, <1>5

\* The writes of rows: who makes a CA publish, or revokes something, owes the CRL.
LEMMA WritesPublish ==
  ASSUME RInv, RenewersInHand, NEW w \in Processes, NEW a \in CAs,
         \/ \E c \in CAs, status \in {"pending", "approved"} : CreateCa(w, c, status)
         \/ \E x \in Certs : IssueCertificate(w, x) \/ RenewCertificate(w, x)
         \/ ApproveCa(w) \/ ReissueNow(w) \/ ReissueLater(w) \/ GivesUp(w)
         \/ RevokeCertificate(w) \/ RevokeCa(w)
  PROVE  PublishStep(a)
  <1> USE DEF RInv, Typed
  <1>0. TypeOK /\ Typed' /\ RowsOnlyGrow
    BY WritesTyped, WritesRows
  <1>1. /\ worker[w].at \notin {"refresh", "publish", "finals"} /\ UNCHANGED missed
        /\ \A v \in Processes : v # w => worker'[v] = worker[v]
    BY <1>0 DEF CreateCa, IssueCertificate, RenewCertificate, ApproveCa, ReissueNow, ReissueLater,
                GivesUp, RevokeCertificate, RevokeCa, Goes, Finishes, Becomes, TypeOK
  <1>2. ASSUME UNCHANGED <<revoked, approval, expired>> PROVE PublishStep(a)
    <2>1. Publishes(a)' => Publishes(a)
      BY <1>2 DEF Publishes, CanSignCrls
    <2> QED
      BY <1>1, <1>2, <2>1, QuietSteps
  <1>3. ASSUME NEW c \in CAs, c = a => Covered(c)',
               UNCHANGED revoked, a # c => (Publishes(a)' => Publishes(a))
        PROVE  PublishStep(a)
    <2>1. CASE a = c
      BY <1>3, <2>1 DEF PublishStep
    <2>2. CASE a # c
      BY <1>1, <1>3, <2>2, QuietSteps
    <2> QED
      BY <2>1, <2>2
  <1>4. ASSUME NEW c \in CAs, NEW status \in {"pending", "approved"}, CreateCa(w, c, status)
        PROVE  PublishStep(a)
    <2>1. /\ UNCHANGED <<revoked, expired>>
          /\ \A d \in CAs : approval'[d] = IF d = c THEN status ELSE approval[d]
          /\ status = "approved" => Goes(w, "refresh", c)
      BY <1>0, <1>4 DEF CreateCa, TypeOK
    <2>2. CASE status = "approved"
      <3>1. Covered(c)'
        BY <1>0, <2>1, <2>2, RefreshOwed
      <3>2. a # c => (Publishes(a)' => Publishes(a))
        BY <2>1 DEF Publishes, CanSignCrls
      <3> QED
        BY <1>3, <2>1, <3>1, <3>2
    <2>3. CASE status = "pending"
      <3>1. Publishes(a)' => Publishes(a)
        BY <2>1, <2>3 DEF Publishes, CanSignCrls
      <3> QED
        BY <1>1, <2>1, <3>1, QuietSteps
    <2> QED
      BY <2>2, <2>3
  <1>5. ASSUME ApproveCa(w) \/ ReissueNow(w) PROVE PublishStep(a)
    <2>1. PICK c \in CAs : c = worker[w].ca
      BY <1>5 DEF ApproveCa, ReissueNow, TasksNamed, CaSteps
    <2>2. Covered(c)'
      BY <1>0, <1>5, <2>1, RefreshOwed DEF ApproveCa, ReissueNow
    <2>3. a # c => (Publishes(a)' => Publishes(a))
      BY <1>0, <1>5, <2>1
      DEF ApproveCa, ReissueNow, Promote, Publishes, CanSignCrls, TypeOK
    <2>4. UNCHANGED revoked
      BY <1>5 DEF ApproveCa, ReissueNow
    <2> QED
      BY <1>3, <2>2, <2>3, <2>4
  <1>6. ASSUME \/ ReissueLater(w) \/ GivesUp(w) \/ \E x \in Certs : IssueCertificate(w, x)
        PROVE  PublishStep(a)
    BY <1>2, <1>6 DEF ReissueLater, GivesUp, IssueCertificate
  \* Revocations: a is covered, or it answers for nothing that has just been revoked.
  <1>7. ASSUME UNCHANGED <<approval, expired>>,
               \A x \in revoked' \ revoked : Authority(x)' = a => Covered(a)'
        PROVE  PublishStep(a)
    <2>1. Publishes(a)' => Publishes(a)
      BY <1>7 DEF Publishes, CanSignCrls
    <2>2. Owes(w) = {}
      BY <1>1 DEF Owes
    <2>3. Covered(a) => Covered(a)'
      BY <1>0, <1>1, <2>2, CoverStays DEF RowsOnlyGrow
    <2> QED
      BY <1>7, <2>1, <2>3 DEF PublishStep
  <1>8. ASSUME NEW y \in Certs, RenewCertificate(w, y) PROVE PublishStep(a)
    <2>1. CASE worker[w].at = "may_renew"
      BY <1>2, <1>8, <2>1 DEF RenewCertificate
    <2>2. CASE worker[w].at = "may_supersede"
      <3>1. PICK c \in CAs, x \in Certs : /\ c = worker[w].ca /\ x = worker[w].cert
                                          /\ issuer[x] = c
        BY <2>2 DEF TasksNamed, CaSteps, CertSteps, RenewersInHand
      <3>2. /\ revoked' = revoked \union {x} /\ Goes(w, "refresh", c)
            /\ UNCHANGED <<approval, expired>>
        BY <1>8, <2>2, <3>1 DEF RenewCertificate
      <3>3. Covered(c)'
        BY <1>0, <3>2, RefreshOwed
      <3>4. Authority(x)' = c
        BY <1>0, <3>1, CertsAssumption DEF RowsOnlyGrow, Authority
      <3> QED
        BY <1>7, <3>2, <3>3, <3>4
    <2> QED
      BY <1>8, <2>1, <2>2 DEF RenewCertificate
  <1>9. ASSUME RevokeCertificate(w) PROVE PublishStep(a)
    <2>1. PICK c \in CAs, x \in Certs : x = worker[w].cert /\ issuer[x] = c
      BY <1>9 DEF RevokeCertificate, TasksNamed, CertSteps
    <2>2. /\ revoked' = revoked \union {x} /\ Goes(w, "refresh", c)
          /\ UNCHANGED <<approval, expired>>
      BY <1>9, <2>1 DEF RevokeCertificate
    <2>3. Covered(c)'
      BY <1>0, <2>2, RefreshOwed
    <2>4. Authority(x)' = c
      BY <1>0, <2>1, CertsAssumption DEF RowsOnlyGrow, Authority
    <2> QED
      BY <1>7, <2>2, <2>3, <2>4
  <1>10. ASSUME RevokeCa(w) PROVE PublishStep(a)
    <2>1. PICK c \in CAs : c = worker[w].ca
      BY <1>10 DEF RevokeCa, TasksNamed, CaSteps
    <2>2. /\ revoked' = revoked \union Swept(c) \union {x \in Certs : issuer[x] \in Swept(c)}
          /\ Goes(w, "publish", c) /\ UNCHANGED <<approval, expired, issuer>>
      BY <1>10, <2>1 DEF RevokeCa
    <2>3. /\ Swept(c) \in SUBSET CAs /\ c \in Swept(c)
          /\ \A d \in Swept(c) : d # c => Parent[d] \in Swept(c)
      <3>1. PICK X \in SUBSET CAs : X = {d \in CAs \ revoked : Exists(d)}
        OBVIOUS
      <3>2. Swept(c) = Reach(c, X)
        BY <3>1 DEF Swept
      <3> QED
        BY <3>2, ReachTyped, ReachSelf, ReachParent
    <2>4. Swept(c) \subseteq RevokedSubtree(c)'
      <3>1. revoked' \in SUBSET (CAs \union Certs)
        BY <1>0 DEF TypeOK
      <3> QED
        BY <1>0, <2>2, <3>1, SweptIsPublished
    <2>5. worker'[w].at = "publish" /\ worker'[w].ca = c
      BY <1>0, <2>2 DEF Goes, Becomes, Task, TypeOK
    <2>6. Owes(w)' = RevokedSubtree(c)' \union ({Parent[c]} \ {NoCa})
      BY <2>5 DEF Owes, RevokedSubtree
    <2>7. ASSUME NEW x \in revoked' \ revoked, Authority(x)' = a PROVE a \in Owes(w)'
      <3>1. CASE x \in CAs
        <4>1. x \in Swept(c) /\ a = Parent[x]
          BY <2>2, <2>7, <3>1, CertsAssumption DEF Authority
        <4>2. CASE x = c
          BY <2>6, <4>1, <4>2, HierarchyAssumption
        <4>3. CASE x # c
          BY <2>3, <2>4, <2>6, <4>1, <4>3
        <4> QED
          BY <4>2, <4>3
      <3>2. CASE x \notin CAs
        <4>1. issuer[x] \in Swept(c) /\ a = issuer[x]
          BY <2>2, <2>3, <2>7, <3>2 DEF Authority
        <4> QED
          BY <2>4, <2>6, <4>1
      <3> QED
        BY <3>1, <3>2
    <2>8. \A x \in revoked' \ revoked : Authority(x)' = a => Covered(a)'
      BY <2>7 DEF Covered
    <2> QED
      BY <1>7, <2>2, <2>8
  <1> QED
    BY <1>4, <1>5, <1>6, <1>8, <1>9, <1>10

\* The steps that sign CRLs, or fail to: a CRL that was owed is made, lost, or of a CA that does
\* not publish.
LEMMA PublishesPublish ==
  ASSUME RInv, NEW w \in Processes, NEW a \in CAs,
         \/ RefreshCrl(w) \/ PublishParent(w) \/ GenerateCrl(w)
         \/ \E c \in CAs : PublishFinalCrl(w, c) \/ ScanNext(w, c)
         \/ PublishFails(w) \/ GenerateFails(w) \/ Crash(w)
  PROVE  PublishStep(a)
  <1> USE DEF RInv, Typed
  <1>0. /\ TypeOK /\ UNCHANGED <<revoked, issuer, serial, approval, expired>>
        /\ \A v \in Processes : v # w => worker'[v] = worker[v]
    BY DEF RefreshCrl, PublishParent, GenerateCrl, PublishFinalCrl, ScanNext, PublishFails,
           GenerateFails, Crash, Continues, Finishes, Becomes, TypeOK
  <1>1. Publishes(a)' <=> Publishes(a)
    BY <1>0 DEF Publishes, CanSignCrls
  \* Of the CAs that w owes, all but those in gone are owed or lost afterwards.
  <1>2. ASSUME NEW gone, missed \ gone \subseteq missed', Owes(w) \ gone \subseteq Owes(w)' \union missed',
               a \in gone => ~Publishes(a) \/ crl'[a].lists = Entries(a)'
        PROVE  PublishStep(a)
    <2>1. CASE a \in gone
      BY <1>1, <1>2, <2>1 DEF PublishStep
    <2>2. ASSUME a \notin gone, Covered(a) PROVE Covered(a)'
      <3>1. CASE a \in missed \/ a \in Owes(w)
        BY <1>2, <2>2, <3>1 DEF Covered
      <3>2. ASSUME NEW v \in Processes, v # w, a \in Owes(v) PROVE Covered(a)'
        <4>1. worker'[v] = worker[v] /\ revoked \subseteq revoked'
          BY <1>0, <3>2
        <4> QED
          BY <3>2, <4>1, OthersOwe DEF Covered
      <3> QED
        BY <2>2, <3>1, <3>2 DEF Covered
    <2> QED
      BY <1>0, <1>1, <2>1, <2>2 DEF PublishStep
  <1>3. ASSUME NEW c \in CAs, NEW until \in Validities, Generate(c, until)
        PROVE  crl'[c].lists = Entries(c)' /\ missed' = missed \ {c}
    BY <1>0, <1>3 DEF Generate, NewCrl, Entries, Entry, Authority, TypeOK
  <1>4. ASSUME RefreshCrl(w) PROVE PublishStep(a)
    <2>1. PICK c \in CAs : c = worker[w].ca
      BY <1>4 DEF RefreshCrl, TasksNamed, CaSteps
    <2>2. Owes(w) = {c}
      BY <1>4, <2>1 DEF RefreshCrl, Owes
    <2>3. CASE CanSignCrls(c)
      <3>1. Generate(c, "fresh")
        BY <1>4, <2>1, <2>3 DEF RefreshCrl
      <3> QED
        BY <1>2, <1>3, <2>2, <3>1 DEF Validities
    <2>4. CASE ~CanSignCrls(c)
      <3>1. UNCHANGED missed
        BY <1>4, <2>1, <2>4 DEF RefreshCrl, NoCrl
      <3> QED
        BY <1>2, <2>2, <2>4, <3>1 DEF Publishes
    <2> QED
      BY <2>3, <2>4
  <1>5. ASSUME PublishParent(w) PROVE PublishStep(a)
    <2>1. PICK c \in CAs : c = worker[w].ca
      BY <1>5 DEF PublishParent, TasksNamed, CaSteps
    <2>2. Owes(w) = RevokedSubtree(c) \union ({Parent[c]} \ {NoCa})
      BY <1>5, <2>1 DEF PublishParent, Owes
    <2>3. Owes(w)' = RevokedSubtree(c)
      <3>1. /\ worker'[w].at = "finals" /\ worker'[w].todo = RevokedSubtree(c)
        BY <1>0, <1>5, <2>1 DEF PublishParent, Becomes, Task, TypeOK
      <3> QED
        BY <3>1 DEF Owes
    <2>4. CASE Parent[c] # NoCa /\ CanSignCrls(Parent[c])
      <3>1. PICK p \in CAs : p = Parent[c]
        BY <2>4, HierarchyAssumption
      <3>2. Generate(p, "fresh")
        BY <1>5, <2>1, <2>4, <3>1 DEF PublishParent
      <3>3. crl'[p].lists = Entries(p)' /\ missed' = missed \ {p}
        BY <1>3, <3>2 DEF Validities
      <3>4. PICK gone : gone = {p}
        OBVIOUS
      <3>5. Owes(w) \ gone \subseteq Owes(w)'
        BY <2>2, <2>3, <3>1, <3>4
      <3> QED
        BY <1>2, <3>3, <3>4, <3>5
    <2>5. CASE ~(Parent[c] # NoCa /\ CanSignCrls(Parent[c]))
      <3>1. UNCHANGED missed
        BY <1>5, <2>1, <2>5 DEF PublishParent, NoCrl
      <3>2. PICK gone : gone = {Parent[c]} \ {NoCa}
        OBVIOUS
      <3> QED
        BY <1>2, <2>2, <2>3, <2>5, <3>1, <3>2 DEF Publishes
    <2> QED
      BY <2>4, <2>5
  <1>6. ASSUME NEW c \in CAs, PublishFinalCrl(w, c) PROVE PublishStep(a)
    <2>1. Owes(w) = worker[w].todo
      BY <1>6 DEF PublishFinalCrl, Owes
    <2>2. Owes(w) \ {c} \subseteq Owes(w)'
      <3>1. CASE worker[w].todo = {c}
        BY <2>1, <3>1
      <3>2. CASE worker[w].todo # {c}
        <4>1. worker'[w].at = "finals" /\ worker'[w].todo = worker[w].todo \ {c}
          BY <1>0, <1>6, <3>2 DEF PublishFinalCrl, Becomes, Task, TypeOK
        <4> QED
          BY <2>1, <4>1 DEF Owes
      <3> QED
        BY <3>1, <3>2
    <2>3. CASE CanSignCrls(c) /\ c \notin expired
      <3>1. Generate(c, "final")
        BY <1>6, <2>3 DEF PublishFinalCrl
      <3> QED
        BY <1>2, <1>3, <2>2, <3>1 DEF Validities
    <2>4. CASE ~(CanSignCrls(c) /\ c \notin expired)
      <3>1. UNCHANGED missed
        BY <1>6, <2>4 DEF PublishFinalCrl, NoCrl
      <3> QED
        BY <1>2, <2>2, <2>4, <3>1 DEF Publishes
    <2> QED
      BY <2>3, <2>4
  <1>7. ASSUME GenerateCrl(w) PROVE PublishStep(a)
    <2>1. PICK c \in CAs : c = worker[w].ca
      BY <1>7 DEF GenerateCrl, TasksNamed, CaSteps
    <2>2. Generate(c, "fresh") /\ Owes(w) = {}
      BY <1>7, <2>1 DEF GenerateCrl, Owes
    <2> QED
      BY <1>2, <1>3, <2>2 DEF Validities
  <1>8. ASSUME NEW c \in CAs, ScanNext(w, c) PROVE PublishStep(a)
    BY <1>0, <1>1, <1>8, QuietSteps DEF ScanNext
  <1>9. ASSUME GenerateFails(w) PROVE PublishStep(a)
    BY <1>0, <1>1, <1>9, QuietSteps DEF GenerateFails
  <1>10. ASSUME PublishFails(w) \/ Crash(w) PROVE PublishStep(a)
    <2>1. missed' = missed \union Owes(w)
      BY <1>10 DEF PublishFails, Crash
    <2>2. PICK gone : gone = {}
      OBVIOUS
    <2>3. missed \ gone \subseteq missed' /\ Owes(w) \ gone \subseteq Owes(w)' \union missed'
      BY <2>1
    <2> QED
      BY <1>2, <2>2, <2>3
  <1> QED
    BY <1>4, <1>5, <1>6, <1>7, <1>8, <1>9, <1>10

\* What any step means for the publications that are owed.
LEMMA StepPublishes ==
  ASSUME RInv, RenewersInHand, [Next]_vars, NEW a \in CAs
  PROVE  PublishStep(a)
  <1>1. ASSUME NEW w \in Workers, Begin(w) PROVE PublishStep(a)
    BY <1>1, BeginPublishes
  <1>2. ASSUME JobCrlRefresh PROVE PublishStep(a)
    <2>1. Scheduler \in Processes /\ worker[Scheduler].at \notin {"refresh", "publish", "finals"}
      BY <1>2, IdleParts DEF Processes, JobCrlRefresh, BeginScan
    <2>2. /\ \A v \in Processes : v # Scheduler => worker'[v] = worker[v]
          /\ UNCHANGED <<revoked, missed, approval, expired>>
      BY <1>2 DEF JobCrlRefresh, BeginScan, Becomes, RInv, Typed, TypeOK
    <2>3. Publishes(a)' => Publishes(a)
      BY <2>2 DEF Publishes, CanSignCrls
    <2> QED
      BY <2>1, <2>2, <2>3, QuietSteps
  <1>3. ASSUME NEW w \in Processes,
               \/ Proceed(w)
               \/ \E c \in CAs, status \in {"pending", "approved"} : CreateCa(w, c, status)
               \/ \E x \in Certs : IssueCertificate(w, x) \/ RenewCertificate(w, x)
               \/ ReissueLater(w) \/ GivesUp(w)
               \/ PublishFails(w) \/ GenerateFails(w) \/ Crash(w)
        PROVE  PublishStep(a)
    BY <1>3, WritesPublish, PublishesPublish DEF Proceed
  <1>4. ASSUME \/ \E c \in CAs : DeleteReissue(c) \/ CrlAges(c) \/ CaExpires(c)
               \/ UNCHANGED vars
        PROVE  PublishStep(a)
    <2>1. /\ UNCHANGED <<revoked, missed, approval, worker>> /\ expired \subseteq expired'
      BY <1>4 DEF DeleteReissue, CrlAges, CaExpires, vars
    <2>2. Publishes(a)' => Publishes(a)
      BY <2>1 DEF Publishes, CanSignCrls
    <2>3. ASSUME NEW v \in Processes, a \in Owes(v) PROVE Covered(a)'
      <3>1. worker'[v] = worker[v] /\ revoked \subseteq revoked'
        BY <2>1
      <3> QED
        BY <2>3, <3>1, OthersOwe DEF Covered
    <2>4. Covered(a) => Covered(a)'
      BY <2>1, <2>3 DEF Covered
    <2> QED
      BY <2>1, <2>2, <2>4 DEF PublishStep
  <1> QED
    BY <1>1, <1>2, <1>3, <1>4 DEF Next

\* A renewal that begins takes the certificate's issuer in hand, and an issuer never changes.
LEMMA NextRenewersInHand == RInv /\ RenewersInHand /\ [Next]_vars => RenewersInHand'
  <1> SUFFICES ASSUME RInv, RenewersInHand, [Next]_vars, NEW v \in Processes,
                      worker'[v].at \in {"may_renew", "may_supersede"}
               PROVE  issuer'[worker'[v].cert] = worker'[v].ca
    BY DEF RenewersInHand
  <1> USE DEF RInv, Typed
  <1>0. TypeOK /\ RowsOnlyGrow
    BY StepEffects
  <1>1. CASE worker'[v] = worker[v]
    <2>1. worker[v].cert \in Certs /\ issuer[worker[v].cert] \in CAs
      BY <1>1 DEF TasksNamed, CertSteps
    <2>2. issuer[worker[v].cert] = worker[v].ca
      BY <1>1 DEF RenewersInHand
    <2> QED
      BY <1>0, <1>1, <2>1, <2>2 DEF RowsOnlyGrow
  <1>2. ASSUME NEW x \in Certs, NEW step \in {"may_renew", "may_supersede"}, NEW w \in Workers,
               BeginRenew(w, x, step), worker'[v] # worker[v]
        PROVE  issuer'[worker'[v].cert] = worker'[v].ca
    <2>1. v = w /\ UNCHANGED issuer
      BY <1>0, <1>2 DEF BeginRenew, Arrives, Becomes, TypeOK
    <2>2. worker'[v] = Task(step, "request", issuer[x], x, {})
      BY <1>0, <1>2, <2>1 DEF BeginRenew, Becomes, TypeOK
    <2> QED
      BY <2>1, <2>2 DEF Task
  <1>3. ASSUME NEW w \in Workers, worker'[v] # worker[v], Begin(w),
               ~\E x \in Certs, step \in {"may_renew", "may_supersede"} : BeginRenew(w, x, step)
        PROVE  FALSE
    BY <1>0, <1>3 DEF Begin, BeginCreateCa, BeginApproveCa, BeginReissue, BeginIssue, BeginRevokeCa,
           BeginGenerate, ApproveReissue, BeginRevoke, CliCrlRefresh, BeginScan, Arrives, Goes,
           Becomes, Task, TypeOK
  <1>4. ASSUME NEW w \in Processes, worker'[v] # worker[v],
               \/ \E c \in CAs, status \in {"pending", "approved"} : CreateCa(w, c, status)
               \/ \E x \in Certs : IssueCertificate(w, x) \/ RenewCertificate(w, x)
               \/ ApproveCa(w) \/ ReissueNow(w) \/ ReissueLater(w) \/ GivesUp(w)
               \/ RevokeCertificate(w) \/ RevokeCa(w)
        PROVE  FALSE
    BY <1>0, <1>4 DEF CreateCa, IssueCertificate, RenewCertificate, ApproveCa, ReissueNow,
           ReissueLater, GivesUp, RevokeCertificate, RevokeCa, Goes, Finishes, Becomes, Idle, Task,
           TypeOK
  <1>5. ASSUME NEW w \in Processes, worker'[v] # worker[v],
               \/ RefreshCrl(w) \/ PublishParent(w) \/ GenerateCrl(w)
               \/ \E c \in CAs : PublishFinalCrl(w, c) \/ ScanNext(w, c)
               \/ PublishFails(w) \/ GenerateFails(w) \/ Crash(w)
        PROVE  FALSE
    BY <1>0, <1>5 DEF RefreshCrl, PublishParent, GenerateCrl, PublishFinalCrl, ScanNext,
           PublishFails, GenerateFails, Crash, Continues, Finishes, Becomes, Idle, Task, TypeOK
  <1>6. ASSUME worker'[v] # worker[v], JobCrlRefresh PROVE FALSE
    BY <1>0, <1>6 DEF JobCrlRefresh, BeginScan, Becomes, Task, TypeOK
  <1>7. ASSUME \/ \E c \in CAs : DeleteReissue(c) \/ CrlAges(c) \/ CaExpires(c)
               \/ UNCHANGED vars
        PROVE  worker'[v] = worker[v]
    BY <1>7 DEF DeleteReissue, CrlAges, CaExpires, vars
  <1> QED
    BY <1>1, <1>2, <1>3, <1>4, <1>5, <1>6, <1>7 DEF Next, Proceed, Begin

\* The step: a revocation that has to be on its CRL after it is on it, owed or lost.
LEMMA NextPInv == PInv /\ [Next]_vars => PInv'
  <1> SUFFICES ASSUME PInv, [Next]_vars PROVE PInv'
    OBVIOUS
  <1>1. RInv' /\ RenewersInHand'
    BY NextRInv, NextRenewersInHand DEF PInv
  <1>2. RowsOnlyGrow /\ \A c \in CAs : CrlStep(c)
    BY StepEffects DEF PInv
  <1>3. ASSUME NEW x \in revoked', NEW a \in CAs, Authority(x)' = a, Publishes(a)'
        PROVE  Listed(x)' \/ Covered(a)'
    <2>1. PublishStep(a)
      BY StepPublishes DEF PInv
    <2>2. CASE crl'[a].lists = Entries(a)'
      <3>1. Entry(x)' \in Entries(a)' /\ Entry(x)'[1] = x
        BY <1>3 DEF Entries, Entry, Authority
      <3> QED
        BY <1>3, <2>2, <3>1 DEF Listed
    <2>3. CASE /\ Publishes(a) /\ ~Covered(a)
               /\ \A y \in revoked' \ revoked : Authority(y)' # a
      <3>1. x \in revoked /\ Authority(x) = a
        <4>1. x \in revoked
          BY <1>3, <2>3
        <4>2. x \in Certs => issuer'[x] = issuer[x]
          BY <1>2, <4>1 DEF RowsOnlyGrow, PInv, RInv, RevokedIssued
        <4>3. x \in CAs \union Certs
          BY <4>1 DEF PInv, RInv, Typed, TypeOK
        <4> QED
          BY <1>3, <4>1, <4>2, <4>3 DEF Authority
      <3>2. Listed(x)
        BY <2>3, <3>1, HierarchyAssumption DEF PInv, RevokedIsPublished, Publishes, Covered
      <3>3. CrlStep(a)
        BY <1>2
      <3>4. CASE crl'[a].lists = crl[a].lists
        BY <1>3, <3>1, <3>2, <3>4 DEF Listed
      <3>5. ASSUME NEW until \in Validities, crl'[a] = NewCrl(a, until),
                   UNCHANGED <<revoked, issuer, serial>>
            PROVE  Listed(x)'
        <4>1. crl'[a].lists = Entries(a)
          BY <3>5 DEF NewCrl
        <4>2. Entry(x) \in Entries(a) /\ Entry(x)[1] = x
          BY <3>1 DEF Entries, Entry, Authority
        <4> QED
          BY <1>3, <4>1, <4>2 DEF Listed
      <3> QED
        BY <3>3, <3>4, <3>5 DEF CrlStep
    <2> QED
      BY <1>3, <2>1, <2>2, <2>3 DEF PublishStep
  <1>4. RevokedIsPublished'
    <2> SUFFICES ASSUME NEW x \in revoked', NEW a, a = Authority(x)',
                        a # NoCa, CanSignCrls(a)', a \notin expired'
                 PROVE  Listed(x)' \/ a \in missed' \/ \E w \in Processes : a \in Owes(w)'
      BY DEF RevokedIsPublished
    <2>1. a \in CAs
      BY <1>1, HierarchyAssumption
      DEF Authority, RInv, Typed, TypeOK
    <2>2. Listed(x)' \/ Covered(a)'
      BY <1>3, <2>1 DEF Publishes
    <2> QED
      BY <2>2 DEF Covered
  <1> QED
    BY <1>1, <1>4 DEF PInv

LEMMA InitPInv == Init => PInv
  <1>1. Init => RenewersInHand /\ RevokedIsPublished
    BY IdleParts DEF Init, RenewersInHand, RevokedIsPublished
  <1> QED
    BY <1>1, InitRInv DEF PInv

\* Every revocation is on the CRL it belongs on, or a process is about to publish it, or a failure
\* or a crash has lost the publication: for every hierarchy, whatever requests run at once.
THEOREM RevokedIsPublishedHolds == Spec => []RevokedIsPublished
  <1>1. PInv => RevokedIsPublished
    BY DEF PInv
  <1> QED
    BY <1>1, InitPInv, NextPInv, PTL DEF Spec
=============================================================================
