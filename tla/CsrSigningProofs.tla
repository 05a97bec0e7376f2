-------------------------- MODULE CsrSigningProofs --------------------------
(***************************************************************************)
(* For every number of workers, CSRs and accounts: a CSR becomes at most   *)
(* one certificate, claims are exclusive and never forgotten by a living   *)
(* worker, settled CSRs stay settled, only a killed worker or a request    *)
(* that ends in an error leaves a certificate unaudited, nobody signs      *)
(* their own CSR under dual control, and CSR signing implements            *)
(* SingleFlight.                                                           *)
(***************************************************************************)
EXTENDS CsrSigning, TLAPS

\* A worker with a request in hand works on a real CSR; a worker past its claim holds it.
WorkersHaveCsrs ==
    \A w \in Workers : worker[w].at # "idle" => worker[w].csr \in Csrs

\* While a worker holds the claim, the CSR's status is signing, or rejected if a rejection
\* that had read pending was written over the claim: never pending, so nobody else can claim.
HeldStatus ==
    \A w \in Workers, c \in Csrs : Holds(w, c) => status[c] \in {"signing", "rejected"}

\* SingleIssue is not inductive: a second SignClaimedCsr is excluded only because a claim is
\* exclusive, a claim is exclusive only because a held CSR is not pending, and a CSR with a
\* certificate is not claimed again only because it is settled.
IInv ==
    /\ TypeOK
    /\ WorkersHaveCsrs
    /\ SingleIssue
    /\ ExclusiveClaim
    /\ HeldStatus
    /\ ClaimsHaveHolders
    /\ IssuedIsSettled

\* Type correctness, with the fact every action needs about its own worker.
Typed == TypeOK /\ WorkersHaveCsrs

\* The initial state is well typed: no CSR exists and every worker is idle.
LEMMA InitTyped == Init => Typed
  BY UsersAssumption, CsrsAssumption
  DEF Init, Typed, TypeOK, WorkersHaveCsrs, Idle, Steps, Statuses

\* Every handler step of routes/csr.py and cert_service.py keeps every variable in its type.
LEMMA NextTyped == Typed /\ [Next]_vars => Typed'
  <1> SUFFICES ASSUME Typed, [Next]_vars PROVE Typed'
    OBVIOUS
  <1> USE UsersAssumption, CsrsAssumption DEF Typed, TypeOK, WorkersHaveCsrs, Idle, Steps,
                                             Statuses, Goes, Finishes
  <1>1. ASSUME NEW c \in Csrs, NEW u \in Users \union {NoUser}, CreateCsr(c, u) PROVE Typed'
    BY <1>1 DEF CreateCsr
  <1>2. CASE ToggleDualControl
    BY <1>2 DEF ToggleDualControl
  <1>3. ASSUME NEW w \in Workers, NEW c \in Csrs, NEW u \in Admins, BeginSign(w, c, u)
        PROVE Typed'
    BY <1>3 DEF BeginSign
  <1>4. ASSUME NEW w \in Workers, NEW c \in Csrs, BeginReject(w, c) PROVE Typed'
    BY <1>4 DEF BeginReject
  <1>5. ASSUME NEW w \in Workers, RefuseSign(w) PROVE Typed'
    BY <1>5 DEF RefuseSign
  <1>6. ASSUME NEW w \in Workers, SignFails(w) PROVE Typed'
    BY <1>6 DEF SignFails
  <1>7. ASSUME NEW w \in Workers, ClaimCsr(w) PROVE Typed'
    BY <1>7 DEF ClaimCsr
  <1>8. ASSUME NEW w \in Workers, SignClaimedCsr(w) PROVE Typed'
    BY <1>8 DEF SignClaimedCsr
  <1>9. ASSUME NEW w \in Workers, ReleaseCsr(w) PROVE Typed'
    BY <1>9 DEF ReleaseCsr, Released
  <1>10. ASSUME NEW w \in Workers, AuditSign(w) \/ AuditFails(w) PROVE Typed'
    BY <1>10 DEF AuditSign, AuditFails
  <1>11. ASSUME NEW w \in Workers, RejectCsr(w) PROVE Typed'
    BY <1>11 DEF RejectCsr
  <1>12. ASSUME NEW w \in Workers, Crash(w) PROVE Typed'
    BY <1>12 DEF Crash
  <1>13. CASE UNCHANGED vars
    BY <1>13 DEF vars
  <1> QED
    BY <1>1, <1>2, <1>3, <1>4, <1>5, <1>6, <1>7, <1>8, <1>9, <1>10, <1>11, <1>12, <1>13
    DEF Next, Proceed

\* Every variable of the CSR life cycle keeps its type.
THEOREM TypeCorrect == Spec => []TypeOK
  <1>1. Typed => TypeOK
    BY DEF Typed
  <1> QED
    BY <1>1, InitTyped, NextTyped, PTL DEF Spec

-----------------------------------------------------------------------------
\* Nobody holds a claim and no certificate exists in the initial state.
LEMMA InitIInv == Init => IInv
  BY InitTyped
  DEF Init, IInv, Typed, SingleIssue, ExclusiveClaim, HeldStatus, ClaimsHaveHolders,
      IssuedIsSettled, Holds, Idle

\* Every handler step keeps claims exclusive, held and settled.
LEMMA NextIInv == IInv /\ [Next]_vars => IInv'
  <1> SUFFICES ASSUME IInv, [Next]_vars PROVE IInv'
    OBVIOUS
  <1>0. TypeOK' /\ WorkersHaveCsrs'
    BY NextTyped DEF IInv, Typed
  <1> USE <1>0, UsersAssumption, CsrsAssumption
      DEF IInv, TypeOK, WorkersHaveCsrs, SingleIssue, ExclusiveClaim, HeldStatus,
          ClaimsHaveHolders, IssuedIsSettled, Holds, Idle, Steps, Statuses, Goes, Finishes
  <1>1. ASSUME NEW c \in Csrs, NEW u \in Users \union {NoUser}, CreateCsr(c, u) PROVE IInv'
    BY <1>1 DEF CreateCsr
  <1>2. CASE ToggleDualControl
    BY <1>2 DEF ToggleDualControl
  <1>3. ASSUME NEW w \in Workers, NEW c \in Csrs, NEW u \in Admins, BeginSign(w, c, u)
        PROVE IInv'
    BY <1>3 DEF BeginSign
  <1>4. ASSUME NEW w \in Workers, NEW c \in Csrs, BeginReject(w, c) PROVE IInv'
    BY <1>4 DEF BeginReject
  <1>5. ASSUME NEW w \in Workers, RefuseSign(w) PROVE IInv'
    BY <1>5 DEF RefuseSign
  <1>6. ASSUME NEW w \in Workers, SignFails(w) PROVE IInv'
    BY <1>6 DEF SignFails
  <1>7. ASSUME NEW w \in Workers, ClaimCsr(w) PROVE IInv'
    <2> DEFINE c == worker[w].csr
    <2>0. c \in Csrs
      BY <1>7 DEF ClaimCsr
    <2>1. CASE ~Claimable(c)
      <3>1. worker' = [worker EXCEPT ![w] = Idle] /\ UNCHANGED <<status, certificates, orphaned>>
        BY <1>7, <2>1 DEF ClaimCsr
      <3>2. \A v \in Workers, d \in Csrs : Holds(v, d)' <=> Holds(v, d)
        BY <1>7, <3>1 DEF ClaimCsr
      <3> HIDE DEF Holds
      <3> QED
        BY <3>1, <3>2
    <2>2. CASE Claimable(c)
      <3>1. /\ status[c] = "pending" /\ status' = [status EXCEPT ![c] = "signing"]
            /\ worker' = [worker EXCEPT ![w].at = "claimed"]
            /\ UNCHANGED <<certificates, orphaned>>
        BY <1>7, <2>2 DEF ClaimCsr, Claimable
      <3>2. certificates[c] = 0 /\ \A v \in Workers : ~Holds(v, c)
        BY <2>0, <3>1
      <3>3. /\ Holds(w, c)' /\ worker'[w].csr = c
            /\ \A v \in Workers \ {w} : worker'[v] = worker[v]
        BY <3>1
      <3> HIDE DEF c
      <3>4. ExclusiveClaim'
        BY <2>0, <3>1, <3>2, <3>3
      <3>5. HeldStatus'
        BY <2>0, <3>1, <3>2, <3>3
      <3>6. ClaimsHaveHolders'
        <4> SUFFICES ASSUME NEW d \in Csrs, status'[d] = "signing"
                     PROVE d \in orphaned' \/ \E v \in Workers : Holds(v, d)'
          OBVIOUS
        <4>1. CASE d = c
          BY <4>1, <3>3
        <4>2. CASE d # c
          <5>1. PICK v \in Workers : d \in orphaned \/ Holds(v, d)
            BY <4>2, <2>0, <3>1
          <5>2. worker[w].at \notin {"claimed", "failed"}
            BY <1>7 DEF ClaimCsr
          <5> QED
            BY <5>1, <5>2, <3>1, <3>3
        <4> QED
          BY <4>1, <4>2
      <3>7. IssuedIsSettled' /\ SingleIssue'
        BY <2>0, <3>1, <3>2
      <3> QED
        BY <3>4, <3>5, <3>6, <3>7
    <2> QED
      BY <2>1, <2>2
  <1>8. ASSUME NEW w \in Workers, SignClaimedCsr(w) PROVE IInv'
    BY <1>8 DEF SignClaimedCsr
  <1>9. ASSUME NEW w \in Workers, ReleaseCsr(w) PROVE IInv'
    BY <1>9 DEF ReleaseCsr, Released
  <1>10. ASSUME NEW w \in Workers, AuditSign(w) \/ AuditFails(w) PROVE IInv'
    <2>1. /\ worker' = [worker EXCEPT ![w] = Idle] /\ worker[w].at = "issued"
          /\ UNCHANGED <<status, certificates, orphaned>>
      BY <1>10 DEF AuditSign, AuditFails
    <2>2. \A v \in Workers, d \in Csrs : Holds(v, d)' <=> Holds(v, d)
      BY <2>1
    <2> HIDE DEF Holds
    <2> QED
      BY <2>1, <2>2
  <1>11. ASSUME NEW w \in Workers, RejectCsr(w) PROVE IInv'
    BY <1>11 DEF RejectCsr
  <1>12. ASSUME NEW w \in Workers, Crash(w) PROVE IInv'
    BY <1>12 DEF Crash
  <1>13. CASE UNCHANGED vars
    BY <1>13 DEF vars
  <1> QED
    BY <1>1, <1>2, <1>3, <1>4, <1>5, <1>6, <1>7, <1>8, <1>9, <1>10, <1>11, <1>12, <1>13
    DEF Next, Proceed

\* The inductive invariant holds throughout.
LEMMA AlwaysIInv == Spec => []IInv
  BY InitIInv, NextIInv, PTL DEF Spec

-----------------------------------------------------------------------------
\* However many workers run the sign route at once, one CSR becomes at most one certificate.
THEOREM SingleIssueHolds == Spec => []SingleIssue
  BY AlwaysIInv, PTL DEF IInv

\* The conditional UPDATE of _claim_csr makes claims exclusive, and a claimed CSR is unspent.
THEOREM ExclusiveClaimHolds == Spec => []ExclusiveClaim
  BY AlwaysIInv, PTL DEF IInv

\* A CSR left in status signing is held by a living worker or was orphaned by a dead one.
THEOREM ClaimsHaveHoldersHolds == Spec => []ClaimsHaveHolders
  BY AlwaysIInv, PTL DEF IInv

\* A CSR that has a certificate is approved or rejected, never pending or signing again.
THEOREM IssuedIsSettledHolds == Spec => []IssuedIsSettled
  BY AlwaysIInv, PTL DEF IInv

-----------------------------------------------------------------------------
\* No handler puts an approved or rejected CSR back in the queue: creation needs an absent
\* CSR, a claim a pending one, and the release of a claim leaves every status but signing.
THEOREM NeverReopenedHolds == Spec => NeverReopened
  <1> DEFINE Settled(c) == status[c] \in {"approved", "rejected"}
  <1>1. IInv /\ [Next]_vars =>
            [\A c \in Csrs : status[c] \in {"approved", "rejected"}
                               => status'[c] \in {"approved", "rejected"}]_vars
    <2> SUFFICES ASSUME IInv, Next, NEW c \in Csrs, Settled(c) PROVE Settled(c)'
      OBVIOUS
    <2> USE DEF IInv, TypeOK, WorkersHaveCsrs
    <2>1. ASSUME NEW d \in Csrs, NEW u \in Users \union {NoUser}, CreateCsr(d, u)
          PROVE Settled(c)'
      BY <2>1 DEF CreateCsr
    <2>2. CASE ToggleDualControl
      BY <2>2 DEF ToggleDualControl
    <2>3. ASSUME NEW w \in Workers, NEW d \in Csrs,
                 \/ \E u \in Admins : BeginSign(w, d, u)
                 \/ BeginReject(w, d)
          PROVE Settled(c)'
      BY <2>3 DEF BeginSign, BeginReject
    <2>4. ASSUME NEW w \in Workers,
                 \/ RefuseSign(w) \/ SignFails(w) \/ AuditSign(w) \/ AuditFails(w)
                 \/ Crash(w)
          PROVE Settled(c)'
      BY <2>4 DEF RefuseSign, SignFails, AuditSign, AuditFails, Crash
    <2>5. ASSUME NEW w \in Workers, ClaimCsr(w) PROVE Settled(c)'
      BY <2>5 DEF ClaimCsr, Claimable
    <2>6. ASSUME NEW w \in Workers, SignClaimedCsr(w) \/ RejectCsr(w) PROVE Settled(c)'
      BY <2>6 DEF SignClaimedCsr, RejectCsr
    <2>7. ASSUME NEW w \in Workers, ReleaseCsr(w) PROVE Settled(c)'
      BY <2>7 DEF ReleaseCsr, Released
    <2> QED
      BY <2>1, <2>2, <2>3, <2>4, <2>5, <2>6, <2>7 DEF Next, Proceed
  <1> QED
    BY <1>1, AlwaysIInv, PTL DEF Spec, NeverReopened

-----------------------------------------------------------------------------
(***************************************************************************)
(* The audit trail and the four-eyes rule. The rule is checked once, when  *)
(* the sign request arrives; what makes it good at the commit is that      *)
(* relaxed remembers every CSR that has existed without dual control, and  *)
(* that a CSR has its creator for life.                                    *)
(***************************************************************************)
Existing == {c \in Csrs : status[c] # "absent"}

\* The request of a worker, and the signature on a CSR, are those of a CSR that exists.
InHandExists ==
    /\ \A w \in Workers : worker[w].at # "idle" => worker[w].csr \in Existing
    /\ \A c \in Csrs : signedBy[c] # NoUser => c \in Existing

\* The CSRs that exist while dual control is not in force are relaxed, and only CSRs that exist.
RelaxedKnown ==
    /\ relaxed \subseteq Existing
    /\ ~dualControl => Existing \subseteq relaxed

\* A request to sign one's own CSR was let through by the mode, and relaxed has it.
SignersChecked ==
    \A w \in Workers :
        worker[w].at \in {"may_sign", "claimed"} /\ worker[w].user # Bootstrap
            /\ worker[w].user = creator[worker[w].csr]
                => worker[w].csr \in relaxed

EyesInv == TypeOK /\ WorkersHaveCsrs /\ InHandExists /\ RelaxedKnown /\ SignersChecked /\ FourEyes

\* At the start there is no CSR, so there is nothing to sign.
LEMMA InitEyesInv == Init => EyesInv
  BY InitTyped
  DEF Init, EyesInv, Typed, InHandExists, RelaxedKnown, SignersChecked, FourEyes, Existing, Idle

\* The invariant after a step of one worker that goes on with its request or ends it, and neither
\* hands in a CSR nor signs one.
LEMMA EyesKept ==
    ASSUME EyesInv, TypeOK', WorkersHaveCsrs', NEW w \in Workers,
           UNCHANGED <<creator, signedBy, dualControl, relaxed>>, Existing' = Existing,
           \/ worker' = [worker EXCEPT ![w] = Idle]
           \/ \E step \in Steps :
                 /\ worker' = [worker EXCEPT ![w].at = step] /\ worker[w].at # "idle"
                 /\ step \in {"may_sign", "claimed"} => worker[w].at \in {"may_sign", "claimed"}
    PROVE  EyesInv'
  <1>1. \A v \in Workers :
           \/ worker'[v] = worker[v]
           \/ worker'[v].at = "idle"
           \/ /\ worker'[v].csr = worker[v].csr /\ worker'[v].user = worker[v].user
              /\ worker[v].at # "idle"
              /\ worker'[v].at \in {"may_sign", "claimed"} =>
                     worker[v].at \in {"may_sign", "claimed"}
    BY DEF EyesInv, TypeOK, Idle
  <1>2. InHandExists'
    BY <1>1 DEF EyesInv, InHandExists
  <1>3. RelaxedKnown' /\ FourEyes'
    BY DEF EyesInv, RelaxedKnown, FourEyes
  <1>4. SignersChecked'
    BY <1>1 DEF EyesInv, SignersChecked
  <1>5. QED
    BY <1>2, <1>3, <1>4 DEF EyesInv

\* Every handler step keeps what the four-eyes rule found out when the request arrived.
LEMMA NextEyesInv == EyesInv /\ [Next]_vars => EyesInv'
  <1> SUFFICES ASSUME EyesInv, [Next]_vars PROVE EyesInv'
    OBVIOUS
  <1>0. TypeOK' /\ WorkersHaveCsrs' /\ TypeOK
    BY NextTyped DEF EyesInv, Typed
  <1> USE UsersAssumption, CsrsAssumption
  <1>a. ASSUME NEW w \in Workers, worker[w].at # "idle"
        PROVE  worker[w].csr \in Csrs /\ worker[w].csr \in Existing
    BY <1>a, <1>0 DEF EyesInv, InHandExists, Existing
  <1>1. ASSUME NEW c \in Csrs, NEW u \in Users \union {NoUser}, CreateCsr(c, u) PROVE EyesInv'
    BY <1>0, <1>1 DEF CreateCsr, EyesInv, TypeOK, WorkersHaveCsrs, InHandExists, RelaxedKnown,
                      SignersChecked, FourEyes, Existing
  <1>2. CASE ToggleDualControl
    BY <1>0, <1>2 DEF ToggleDualControl, EyesInv, TypeOK, WorkersHaveCsrs, InHandExists,
                      RelaxedKnown, SignersChecked, FourEyes, Existing
  <1>3. ASSUME NEW w \in Workers, NEW c \in Csrs, NEW u \in Admins, BeginSign(w, c, u)
        PROVE EyesInv'
    BY <1>0, <1>3 DEF BeginSign, MaySign, EyesInv, TypeOK, WorkersHaveCsrs, InHandExists,
                      RelaxedKnown, SignersChecked, FourEyes, Existing, Idle
  <1>4. ASSUME NEW w \in Workers, NEW c \in Csrs, BeginReject(w, c) PROVE EyesInv'
    BY <1>0, <1>4 DEF BeginReject, EyesInv, TypeOK, WorkersHaveCsrs, InHandExists, RelaxedKnown,
                      SignersChecked, FourEyes, Existing, Idle
  <1>5. ASSUME NEW w \in Workers, RefuseSign(w) PROVE EyesInv'
    <2>1. Existing' = Existing
      BY <1>5 DEF RefuseSign, Existing
    <2>2. QED
      BY <1>0, <1>5, <2>1, EyesKept DEF RefuseSign, Finishes
  <1>6. ASSUME NEW w \in Workers, SignFails(w) PROVE EyesInv'
    <2>1. Existing' = Existing
      BY <1>6 DEF SignFails, Existing
    <2>2. "failed" \in Steps /\ worker[w].at # "idle"
      BY <1>6 DEF SignFails, Steps
    <2>3. QED
      BY <1>0, <1>6, <2>1, <2>2, EyesKept DEF SignFails, Goes
  <1>7. ASSUME NEW w \in Workers, ClaimCsr(w) PROVE EyesInv'
    <2>1. worker[w].at = "may_sign" /\ worker[w].csr \in Csrs /\ worker[w].csr \in Existing
          /\ "claimed" \in Steps
      BY <1>7, <1>a DEF ClaimCsr, Steps
    <2>2. Existing' = Existing
      BY <1>0, <1>7, <2>1 DEF ClaimCsr, Existing, TypeOK
    <2>3. worker' = [worker EXCEPT ![w] = Idle] \/ worker' = [worker EXCEPT ![w].at = "claimed"]
      BY <1>7 DEF ClaimCsr, Goes, Finishes
    <2>4. UNCHANGED <<creator, signedBy, dualControl, relaxed>>
      BY <1>7 DEF ClaimCsr
    <2>5. QED
      BY <1>0, <2>1, <2>2, <2>3, <2>4, EyesKept
  <1>8. ASSUME NEW w \in Workers, SignClaimedCsr(w) PROVE EyesInv'
    BY <1>0, <1>8 DEF SignClaimedCsr, Goes, EyesInv, TypeOK, WorkersHaveCsrs, InHandExists,
                      RelaxedKnown, SignersChecked, FourEyes, Existing
  <1>9. ASSUME NEW w \in Workers, ReleaseCsr(w) PROVE EyesInv'
    <2>1. worker[w].csr \in Csrs /\ worker[w].csr \in Existing
      BY <1>9, <1>a DEF ReleaseCsr
    <2>2. Existing' = Existing
      BY <1>0, <1>9, <2>1 DEF ReleaseCsr, Released, Existing, TypeOK
    <2>3. QED
      BY <1>0, <1>9, <2>2, EyesKept DEF ReleaseCsr, Finishes
  <1>10. ASSUME NEW w \in Workers, AuditSign(w) \/ AuditFails(w) \/ Crash(w)
         PROVE  EyesInv'
    <2>1. Existing' = Existing
      BY <1>10 DEF AuditSign, AuditFails, Crash, Existing
    <2>2. QED
      BY <1>0, <1>10, <2>1, EyesKept DEF AuditSign, AuditFails, Crash, Finishes
  <1>11. ASSUME NEW w \in Workers, RejectCsr(w) PROVE EyesInv'
    <2>1. worker[w].csr \in Csrs /\ worker[w].csr \in Existing
      BY <1>11, <1>a DEF RejectCsr
    <2>2. Existing' = Existing
      BY <1>0, <1>11, <2>1 DEF RejectCsr, Existing, TypeOK
    <2>3. QED
      BY <1>0, <1>11, <2>2, EyesKept DEF RejectCsr, Finishes
  <1>12. CASE UNCHANGED vars
    BY <1>0, <1>12 DEF vars, EyesInv, InHandExists, RelaxedKnown, SignersChecked, FourEyes,
                       Existing
  <1> QED
    BY <1>1, <1>2, <1>3, <1>4, <1>5, <1>6, <1>7, <1>8, <1>9, <1>10, <1>11, <1>12
    DEF Next, Proceed

\* However many admins, CSRs and workers there are, an admin other than the bootstrap account
\* signs a CSR of their own only if dual control was not in force at some moment of its life.
THEOREM FourEyesHolds == Spec => []FourEyes
  <1>1. EyesInv => FourEyes
    BY DEF EyesInv
  <1> QED
    BY <1>1, InitEyesInv, NextEyesInv, PTL DEF Spec

\* Between the commit of a certificate and the commit of its audit row, its worker is the only
\* one that knows: it lives and will write the row, it failed and said so, or it was killed.
LEMMA NextAudited == TypeOK /\ IssuanceAudited /\ [Next]_vars => IssuanceAudited'
  <1> SUFFICES ASSUME TypeOK, IssuanceAudited, [Next]_vars, NEW c \in Csrs, certificates'[c] > 0
               PROVE  \/ c \in audited' \/ c \in orphaned' \/ c \in unlogged'
                      \/ \E w \in Workers : worker'[w].at = "issued" /\ worker'[w].csr = c
    BY DEF IssuanceAudited
  <1> DEFINE Known == \/ c \in audited' \/ c \in orphaned' \/ c \in unlogged'
                      \/ \E w \in Workers : worker'[w].at = "issued" /\ worker'[w].csr = c
  <1>a. audited \subseteq audited' /\ orphaned \subseteq orphaned' /\ unlogged \subseteq unlogged'
    BY DEF TypeOK, Next, Proceed, vars, CreateCsr, ToggleDualControl, BeginSign, BeginReject,
           RefuseSign, SignFails, ClaimCsr, SignClaimedCsr, ReleaseCsr, AuditSign, AuditFails,
           RejectCsr, Crash
  <1>1. CASE UNCHANGED <<certificates, worker>>
    BY <1>1, <1>a DEF IssuanceAudited
  <1>2. ASSUME NEW w \in Workers,
               \/ RefuseSign(w) \/ SignFails(w) \/ ClaimCsr(w) \/ ReleaseCsr(w) \/ RejectCsr(w)
               \/ \E d \in Csrs : BeginReject(w, d) \/ \E u \in Admins : BeginSign(w, d, u)
        PROVE  Known
    <2>1. worker[w].at # "issued" /\ UNCHANGED certificates
      BY <1>2 DEF RefuseSign, SignFails, ClaimCsr, ReleaseCsr, RejectCsr, BeginReject, BeginSign,
                  Idle
    <2>2. \A v \in Workers : v # w => worker'[v] = worker[v]
      BY <1>2 DEF RefuseSign, SignFails, ClaimCsr, ReleaseCsr, RejectCsr, BeginReject, BeginSign,
                  TypeOK, Goes, Finishes
    <2> QED
      BY <2>1, <2>2, <1>a DEF IssuanceAudited
  <1>3. ASSUME NEW w \in Workers, SignClaimedCsr(w) PROVE Known
    <2>1. CASE c = worker[w].csr
      <3>1. worker'[w].at = "issued" /\ worker'[w].csr = c
        BY <1>3, <2>1 DEF SignClaimedCsr, Goes, TypeOK
      <3> QED
        BY <3>1
    <2>2. CASE c # worker[w].csr
      <3>1. certificates[c] > 0
        BY <1>3, <2>2 DEF SignClaimedCsr, TypeOK
      <3>2. worker[w].at # "issued" /\ \A v \in Workers : v # w => worker'[v] = worker[v]
        BY <1>3 DEF SignClaimedCsr, Goes, TypeOK
      <3> QED
        BY <3>1, <3>2, <1>a DEF IssuanceAudited
    <2> QED
      BY <2>1, <2>2
  <1>4. ASSUME NEW w \in Workers, AuditSign(w) \/ AuditFails(w) \/ Crash(w) PROVE Known
    <2>1. /\ worker[w].at = "issued"
                => worker[w].csr \in audited' \union orphaned' \union unlogged'
          /\ UNCHANGED certificates
          /\ \A v \in Workers : v # w => worker'[v] = worker[v]
      BY <1>4 DEF AuditSign, AuditFails, Crash, Finishes, TypeOK
    <2> QED
      BY <2>1, <1>a DEF IssuanceAudited
  <1> QED
    BY <1>1, <1>2, <1>3, <1>4 DEF Next, Proceed, vars, CreateCsr, ToggleDualControl

\* A certificate without its sign_csr audit row is one whose worker is about to write the row,
\* was killed before it could, or rolled back and answered with an error.
THEOREM IssuanceAuditedHolds == Spec => []IssuanceAudited
  <1>1. Init => IssuanceAudited
    BY DEF Init, IssuanceAudited
  <1> QED
    BY <1>1, NextAudited, TypeCorrect, PTL DEF Spec

-----------------------------------------------------------------------------
(***************************************************************************)
(* The refinement. A claim is Take, a signature is Issue, a release or a   *)
(* crash that loses a claim is Drop, and every other step leaves the set   *)
(* of holders of every CSR, and its certificates, as they are.             *)
(***************************************************************************)
Holders(c) == {w \in Workers : Holds(w, c)}

\* A step that changes neither who holds what nor the certificates is a stutter of SingleFlight.
LEMMA SameClaims ==
  ASSUME \A v \in Workers, d \in Csrs : Holds(v, d)' <=> Holds(v, d), UNCHANGED certificates
  PROVE UNCHANGED Flight!flightVars
  BY DEF Flight!flightVars

\* A worker that comes to hold one more CSR adds itself to that CSR's holders.
LEMMA GainsClaim ==
  ASSUME NEW w \in Workers, NEW c \in Csrs, Holders(c) = {}, Holds(w, c)',
         \A v \in Workers, d \in Csrs : v # w \/ d # c => (Holds(v, d)' <=> Holds(v, d)),
         certificates[c] = 0, UNCHANGED certificates
  PROVE Flight!Take(c, w)
  BY DEF Flight!Take, Holders

\* The one holder of a CSR that stops holding it leaves the CSR with no holder.
LEMMA LosesClaim ==
  ASSUME NEW w \in Workers, NEW c \in Csrs, Holders(c) = {w}, ~Holds(w, c)',
         \A v \in Workers, d \in Csrs : v # w \/ d # c => (Holds(v, d)' <=> Holds(v, d))
  PROVE /\ UNCHANGED certificates => Flight!Drop(c, w)
        /\ certificates[c] = 0 /\ certificates' = [certificates EXCEPT ![c] = 1]
              => Flight!Issue(c, w)
  <1> DEFINE H == [d \in Csrs |-> {v \in Workers : Holds(v, d)}]
  <1>1. H[c] = {w}
    BY DEF Holders
  <1>2. \A v \in Workers : ~Holds(v, c)'
    BY DEF Holders
  <1>3. \A d \in Csrs : H'[d] = IF d = c THEN {} ELSE H[d]
    BY <1>2
  <1>4. H' = [H EXCEPT ![c] = {}]
    BY <1>3
  <1> QED
    BY <1>1, <1>4 DEF Flight!Drop, Flight!Issue

\* Every handler step is a SingleFlight step or a stutter: what _claim_csr, _sign_claimed_csr
\* and _release_csr do to the claims is all that SingleFlight allows.
LEMMA NextRefines == IInv /\ [Next]_vars => [Flight!FlightNext]_(Flight!flightVars)
  <1> SUFFICES ASSUME IInv, [Next]_vars PROVE [Flight!FlightNext]_(Flight!flightVars)
    OBVIOUS
  <1> DEFINE Same == \A v \in Workers, d \in Csrs : Holds(v, d)' <=> Holds(v, d)
             Others(w, c) == \A v \in Workers, d \in Csrs :
                                 v # w \/ d # c => (Holds(v, d)' <=> Holds(v, d))
  <1>0. ASSUME NEW w \in Workers, NEW c \in Csrs, Holds(w, c)
        PROVE Holders(c) = {w} /\ certificates[c] = 0
    BY <1>0 DEF IInv, ExclusiveClaim, Holders
  <1>1. ASSUME NEW c \in Csrs, NEW u \in Users \union {NoUser}, CreateCsr(c, u)
        PROVE UNCHANGED Flight!flightVars
    BY <1>1, SameClaims DEF CreateCsr, Holds
  <1>2. ASSUME ToggleDualControl PROVE UNCHANGED Flight!flightVars
    BY <1>2, SameClaims DEF ToggleDualControl, Holds
  <1>3. ASSUME NEW w \in Workers, NEW c \in Csrs,
               (\E u \in Admins : BeginSign(w, c, u)) \/ BeginReject(w, c)
        PROVE UNCHANGED Flight!flightVars
    <2>1. worker[w].at = "idle" /\ worker'[w].at \in {"may_sign", "may_reject"}
      <3>1. worker[w] = Idle /\ w \in DOMAIN worker
        BY <1>3 DEF BeginSign, BeginReject, IInv, TypeOK
      <3>2. ASSUME NEW u \in Admins, BeginSign(w, c, u) PROVE worker'[w].at = "may_sign"
        BY <3>1, <3>2 DEF BeginSign
      <3>3. ASSUME BeginReject(w, c) PROVE worker'[w].at = "may_reject"
        BY <3>1, <3>3 DEF BeginReject
      <3>4. worker[w].at = "idle"
        BY <3>1 DEF Idle
      <3> QED
        BY <1>3, <3>2, <3>3, <3>4
    <2>2. \A v \in Workers : v # w => worker'[v] = worker[v]
      BY <1>3 DEF BeginSign, BeginReject, IInv, TypeOK
    <2>3. Same
      BY <2>1, <2>2 DEF Holds
    <2> QED
      BY <1>3, <2>3, SameClaims DEF BeginSign, BeginReject
  <1>4. ASSUME NEW w \in Workers,
               \/ RefuseSign(w) \/ SignFails(w) \/ AuditSign(w) \/ AuditFails(w)
               \/ RejectCsr(w)
        PROVE UNCHANGED Flight!flightVars
    <2>1. Same
      BY <1>4 DEF RefuseSign, SignFails, AuditSign, AuditFails, RejectCsr, Goes,
                  Finishes, Holds, Idle, IInv, TypeOK
    <2> QED
      BY <1>4, <2>1, SameClaims DEF RefuseSign, SignFails, AuditSign, AuditFails, RejectCsr
  <1>5. ASSUME NEW w \in Workers, ClaimCsr(w) PROVE [Flight!FlightNext]_(Flight!flightVars)
    <2>1. worker[w].at = "may_sign" /\ UNCHANGED certificates
      BY <1>5 DEF ClaimCsr
    <2>2. PICK c \in Csrs : c = worker[w].csr
      BY <2>1 DEF IInv, WorkersHaveCsrs
    <2>3. CASE ~Claimable(c)
      <3>1. Same
        BY <1>5, <2>2, <2>3 DEF ClaimCsr, Finishes, Holds, Idle, IInv, TypeOK
      <3> QED
        BY <2>1, <3>1, SameClaims
    <2>4. CASE Claimable(c)
      <3>1. worker' = [worker EXCEPT ![w].at = "claimed"] /\ status[c] = "pending"
        BY <1>5, <2>2, <2>4 DEF ClaimCsr, Claimable, Goes
      <3>2. Holders(c) = {} /\ certificates[c] = 0
        BY <3>1 DEF IInv, TypeOK, HeldStatus, IssuedIsSettled, Holders
      <3>3. Holds(w, c)' /\ Others(w, c)
        BY <2>1, <2>2, <3>1 DEF Holds, IInv, TypeOK
      <3>4. Flight!Take(c, w)
        BY <2>1, <3>2, <3>3, GainsClaim
      <3> QED
        BY <3>4 DEF Flight!FlightNext
    <2> QED
      BY <2>3, <2>4
  <1>6. ASSUME NEW w \in Workers, SignClaimedCsr(w) PROVE Flight!FlightNext
    <2>1. PICK c \in Csrs : c = worker[w].csr
      BY <1>6 DEF SignClaimedCsr, IInv, WorkersHaveCsrs
    <2>2. /\ worker[w].at = "claimed" /\ worker' = [worker EXCEPT ![w].at = "issued"]
          /\ certificates' = [certificates EXCEPT ![c] = @ + 1]
      BY <1>6, <2>1 DEF SignClaimedCsr, Goes
    <2>3. Holders(c) = {w} /\ certificates[c] = 0
      BY <2>1, <2>2, <1>0 DEF Holds
    <2>4. ~Holds(w, c)' /\ Others(w, c)
      BY <2>1, <2>2 DEF Holds, IInv, TypeOK
    <2>5. certificates' = [certificates EXCEPT ![c] = 1]
      BY <2>2, <2>3 DEF IInv, TypeOK
    <2>6. Flight!Issue(c, w)
      BY <2>3, <2>4, <2>5, LosesClaim
    <2> QED
      BY <2>6 DEF Flight!FlightNext
  <1>7. ASSUME NEW w \in Workers, ReleaseCsr(w) \/ Crash(w),
               worker[w].at \in {"claimed", "failed"}
        PROVE Flight!FlightNext
    <2>1. PICK c \in Csrs : c = worker[w].csr
      BY <1>7 DEF IInv, WorkersHaveCsrs
    <2>2. worker' = [worker EXCEPT ![w] = Idle] /\ UNCHANGED certificates
      BY <1>7 DEF ReleaseCsr, Crash, Finishes
    <2>3. Holders(c) = {w}
      BY <2>1, <1>7, <1>0 DEF Holds
    <2>4. ~Holds(w, c)' /\ Others(w, c)
      BY <2>1, <2>2 DEF Holds, Idle, IInv, TypeOK
    <2>5. Flight!Drop(c, w)
      BY <2>2, <2>3, <2>4, LosesClaim
    <2> QED
      BY <2>5 DEF Flight!FlightNext
  <1>8. ASSUME NEW w \in Workers, Crash(w), worker[w].at \notin {"claimed", "failed"}
        PROVE UNCHANGED Flight!flightVars
    <2>1. Same
      BY <1>8 DEF Crash, Finishes, Holds, Idle, IInv, TypeOK
    <2> QED
      BY <1>8, <2>1, SameClaims DEF Crash
  <1>9. ASSUME UNCHANGED vars PROVE UNCHANGED Flight!flightVars
    BY <1>9, SameClaims DEF vars, Holds
  <1>10. \A w \in Workers : ReleaseCsr(w) => worker[w].at \in {"claimed", "failed"}
    BY DEF ReleaseCsr
  <1> QED
    BY <1>1, <1>2, <1>3, <1>4, <1>5, <1>6, <1>7, <1>8, <1>9, <1>10 DEF Next, Proceed

\* CSR signing implements SingleFlight, for any number of workers and CSRs.
THEOREM CsrSigningRefines == Spec => RefinesSingleFlight
  <1>1. Init => Flight!FlightInit
    BY DEF Init, Flight!FlightInit, Holds, Idle
  <1> QED
    BY <1>1, NextRefines, AlwaysIInv, PTL DEF Spec, RefinesSingleFlight, Flight!FlightSpec

=============================================================================
