-------------------------- MODULE AcmeOrdersProofs --------------------------
(***************************************************************************)
(* For any workers, orders, names, challenges and attempts: AcmeOrders     *)
(* keeps its types, no order is ready, let alone issued, before every one  *)
(* of its names was proven by a lookup, no challenge is looked up more     *)
(* often than it may be, a settled order changes only by what had begun    *)
(* before, and the certificates for an order are bounded by the workers.   *)
(*                                                                         *)
(* The second is not inductive: an order becomes ready from a view, which  *)
(* another worker's commits may have made stale. What makes it hold is     *)
(* that a view never says more than has been proven, so that even a stale  *)
(* one is right about the names it calls valid. The last needs an          *)
(* invariant that counts the workers by what each may do for an order.     *)
(***************************************************************************)
EXTENDS AcmeOrders, FiniteSetTheorems, TLAPS

USE RowsAssumption, AttemptsAssumption, CrashAssumption

Taken == {"ready", "processing", "valid"}

\* What a worker may be doing.
Tasks == [at : Requests, item : Items \union {NoItem}, view : Views]
USE DEF Tasks

\* A view says no more than P, the names proven.
ViewWithin(v, o, P) ==
    /\ \A z \in Authzs : v.authz[z] = "valid" => z \in P
    /\ v.order \in Taken => AuthzsOf(o) \subseteq P

\* What a request has made of a view: it calls an order ready only if it calls its names valid.
Sound(n, o, P) ==
    n.order \in Taken => \/ AuthzsOf(o) \subseteq P
                         \/ \A z \in AuthzsOf(o) : n.authz[z] = "valid"

\* Each kind of request has an item of its own kind.
TaskOK(t) ==
    /\ t.at \in {"new_order", "order", "finalize", "signing", "linking"} => t.item \in Orders
    /\ t.at \in {"authz", "deactivate"} => t.item \in Authzs
    /\ t.at \in {"challenge", "respond"} => t.item \in Challenges
    /\ t.at \in {"signing", "linking"} => AuthzsOf(t.item) \subseteq proven
    /\ t.item # NoItem => ViewWithin(t.view, OrderFor(t.item), proven)

RowsWithin ==
    /\ \A z \in Authzs : authz[z] = "valid" => z \in proven
    /\ \A o \in Orders : order[o] \in Taken \/ certs[o] > 0 => AuthzsOf(o) \subseteq proven

AInv ==
    /\ TypeOK
    /\ RowsWithin
    /\ \A w \in Workers : TaskOK(worker[w])

-----------------------------------------------------------------------------
(***************************************************************************)
(* What the functions on views return                                      *)
(***************************************************************************)

\* NoView is a view, and Idle a task.
LEMMA NoViewType == NoView \in Views /\ Idle \in Tasks
BY DEF NoView, Views, Idle, Requests, OrderStatuses, AuthzStatuses, ChallengeStatuses

\* refresh_order returns a view, changes only the order, and calls it ready with reason.
LEMMA RefreshOrderSound ==
    ASSUME NEW v \in Views, NEW o \in Orders, NEW P, Sound(v, o, P)
    PROVE  RefreshOrder(v, o) \in Views /\ Sound(RefreshOrder(v, o), o, P)
BY DEF RefreshOrder, Sound, Authorized, Taken, Views, OrderStatuses

\* _settle returns a view with the same order.
LEMMA SettleType ==
    ASSUME NEW v \in Views, NEW h \in Challenges, NEW ok \in BOOLEAN
    PROVE  Settle(v, h, ok) \in Views /\ Settle(v, h, ok).order = v.order
BY DEF Settle, Views, AuthzStatuses, ChallengeStatuses

\* _attempt_dns01 returns a view with the same order.
LEMMA AttemptType ==
    ASSUME NEW v \in Views, NEW h \in Challenges, NEW ok \in BOOLEAN, NEW soon \in BOOLEAN
    PROVE  AttemptDns01(v, h, ok, soon) \in Views /\ AttemptDns01(v, h, ok, soon).order = v.order
<1> DEFINE counted == [v EXCEPT !.attempts[h] = @ + 1]
<1>1. counted \in Views /\ counted.order = v.order
  BY DEF Views
<1>2. Settle(counted, h, ok) \in Views /\ Settle(counted, h, ok).order = v.order
  BY <1>1, SettleType
<1> QED
  BY <1>1, <1>2 DEF AttemptDns01

\* Reading the order late gives a view within what is proven.
LEMMA WithOrderSound ==
    ASSUME TypeOK, RowsWithin, NEW v \in Views, NEW z \in Authzs
    PROVE  WithOrder(v, z) \in Views /\ Sound(WithOrder(v, z), OrderOf[z], proven)
BY DEF WithOrder, Views, TypeOK, RowsWithin, Sound, Taken

\* _refresh_authz returns a sound view.
LEMMA RefreshAuthzSound ==
    ASSUME TypeOK, RowsWithin, NEW v \in Views, NEW z \in Authzs,
           NEW due \in BOOLEAN, NEW ok \in BOOLEAN, NEW soon \in BOOLEAN,
           ViewWithin(v, OrderOf[z], proven)
    PROVE  /\ RefreshAuthz(v, z, due, ok, soon) \in Views
           /\ Sound(RefreshAuthz(v, z, due, ok, soon), OrderOf[z], proven)
<1> DEFINE retried == {h \in Dns : AuthzOf[h] = z /\ v.chall[h] = "processing"}
           h0 == CHOOSE h \in retried : TRUE
           tried == WithOrder(AttemptDns01(v, h0, ok, soon), z)
<1>1. Sound(v, OrderOf[z], proven)
  BY DEF Sound, ViewWithin
<1>2. [v EXCEPT !.authz[z] = "expired"] \in Views
  BY DEF Views, AuthzStatuses
<1>3. Sound([v EXCEPT !.authz[z] = "expired"], OrderOf[z], proven)
  BY DEF Sound, ViewWithin, Views
<1>4. ASSUME retried # {} PROVE RefreshOrder(tried, OrderOf[z]) \in Views
                                /\ Sound(RefreshOrder(tried, OrderOf[z]), OrderOf[z], proven)
  <2>1. h0 \in Challenges
    BY <1>4
  <2>2. AttemptDns01(v, h0, ok, soon) \in Views
    BY <2>1, AttemptType
  <2>3. tried \in Views /\ Sound(tried, OrderOf[z], proven)
    BY <2>2, WithOrderSound
  <2> HIDE DEF tried
  <2> QED
    BY <2>3, RefreshOrderSound
<1> QED
  BY <1>1, <1>2, <1>3, <1>4 DEF RefreshAuthz

\* deactivate_authz returns a sound view.
LEMMA DeactivateAuthzSound ==
    ASSUME TypeOK, RowsWithin, NEW v \in Views, NEW z \in Authzs, Sound(v, OrderOf[z], proven)
    PROVE  /\ DeactivateAuthz(v, z) \in Views
           /\ Sound(DeactivateAuthz(v, z), OrderOf[z], proven)
<1> DEFINE gone == [v EXCEPT !.authz[z] = "deactivated"]
<1>1. gone \in Views
  BY DEF Views, AuthzStatuses
<1> HIDE DEF gone
<1>2. WithOrder(gone, z) \in Views /\ Sound(WithOrder(gone, z), OrderOf[z], proven)
  BY <1>1, WithOrderSound
<1>3. /\ RefreshOrder(WithOrder(gone, z), OrderOf[z]) \in Views
      /\ Sound(RefreshOrder(WithOrder(gone, z), OrderOf[z]), OrderOf[z], proven)
  BY <1>2, RefreshOrderSound
<1> QED
  BY <1>3 DEF DeactivateAuthz, gone

\* respond_challenge returns a sound view: it settles only an authorization that is pending, so
\* that what the view said of the order did not rest on that one.
LEMMA RespondChallengeSound ==
    ASSUME NEW v \in Views, NEW h \in Challenges, NEW ok \in BOOLEAN, NEW soon \in BOOLEAN, NEW P,
           Sound(v, OrderOf[AuthzOf[h]], P)
    PROVE  /\ RespondChallenge(v, h, ok, soon) \in Views
           /\ Sound(RespondChallenge(v, h, ok, soon), OrderOf[AuthzOf[h]], P)
<1> DEFINE z == AuthzOf[h]
           started == [v EXCEPT !.chall[h] = "processing"]
           done == IF h \in Dns THEN AttemptDns01(started, h, ok, soon)
                   ELSE Settle(started, h, ok)
<1>1. CASE v.chall[h] # "pending" \/ v.authz[z] # "pending"
  BY <1>1 DEF RespondChallenge
<1>2. CASE ~(v.chall[h] # "pending" \/ v.authz[z] # "pending")
  <2>1. v.order \in Taken => AuthzsOf(OrderOf[z]) \subseteq P
    BY <1>2 DEF Sound, AuthzsOf
  <2>2. started \in Views /\ started.order = v.order
    BY DEF Views, ChallengeStatuses
  <2> HIDE DEF started
  <2>3. done \in Views /\ done.order = v.order
    <3>1. AttemptDns01(started, h, ok, soon) \in Views
          /\ AttemptDns01(started, h, ok, soon).order = started.order
      BY <2>2, AttemptType
    <3>2. Settle(started, h, ok) \in Views /\ Settle(started, h, ok).order = started.order
      BY <2>2, SettleType
    <3> QED
      BY <2>2, <3>1, <3>2
  <2>4. Sound(done, OrderOf[z], P)
    BY <2>1, <2>3 DEF Sound
  <2> HIDE DEF done
  <2>5. /\ RefreshOrder(done, OrderOf[z]) \in Views
        /\ Sound(RefreshOrder(done, OrderOf[z]), OrderOf[z], P)
    BY <2>3, <2>4, RefreshOrderSound
  <2> QED
    BY <1>2, <2>5 DEF RespondChallenge, done, started
<1> QED
  BY <1>1, <1>2
-----------------------------------------------------------------------------
(***************************************************************************)
(* Loading and committing                                                  *)
(***************************************************************************)

\* The next state's part of TaskOK, for a task whose view and item do not change.
LEMMA TaskStays ==
    ASSUME NEW w \in Workers, TaskOK(worker[w]), proven \subseteq proven', worker'[w] = worker[w]
    PROVE  TaskOK(worker[w])'
BY DEF TaskOK, ViewWithin

\* An idle worker is within everything.
LEMMA IdleOK ==
    ASSUME NEW w \in Workers, worker'[w] = Idle
    PROVE  TaskOK(worker[w])'
BY DEF TaskOK, Idle

\* What a request loads is within what is proven, because the rows are.
LEMMA ViewSound ==
    ASSUME TypeOK, RowsWithin, NEW request \in Requests, NEW i \in Items
    PROVE  /\ OrderFor(i) \in Orders
           /\ View(request, i) \in Views
           /\ ViewWithin(View(request, i), OrderFor(i), proven)
<1>1. OrderFor(i) \in Orders
  BY DEF OrderFor, Items
<1> DEFINE v == View(request, i)
<1>2. v.order \in {order[OrderFor(i)], "absent"}
  BY DEF View, NoView
<1>3. \A y \in Authzs : v.authz[y] \in {authz[y], "pending"}
  BY DEF View, NoView
<1>4. v \in Views
  BY <1>1 DEF View, NoView, Views, TypeOK, OrderStatuses, AuthzStatuses, ChallengeStatuses
<1>5. ViewWithin(v, OrderFor(i), proven)
  <2> HIDE DEF v
  <2> QED
    BY <1>1, <1>2, <1>3 DEF ViewWithin, RowsWithin, Taken
<1> QED
  BY <1>1, <1>4, <1>5

\* A commit keeps the rows within what is proven, the names just proven included.
LEMMA CommitSound ==
    ASSUME TypeOK, RowsWithin, NEW o \in Orders, NEW v \in Views, NEW n \in Views,
           ViewWithin(v, o, proven), Sound(n, o, proven), Commit(o, v, n), UNCHANGED certs
    PROVE  /\ order' \in [Orders -> OrderStatuses]
           /\ authz' \in [Authzs -> AuthzStatuses]
           /\ chall' \in [Challenges -> ChallengeStatuses]
           /\ attempts' \in [Challenges -> Nat]
           /\ proven' \in SUBSET Authzs
           /\ proven \subseteq proven'
           /\ RowsWithin'
<1>1. order' \in [Orders -> OrderStatuses]
  BY DEF Commit, MergeOrder, TypeOK, Views
<1>2. authz' \in [Authzs -> AuthzStatuses]
  BY DEF Commit, Merge, TypeOK, Views
<1>3. chall' \in [Challenges -> ChallengeStatuses]
  BY DEF Commit, Merge, TypeOK, Views
<1>4. attempts' \in [Challenges -> Nat]
  BY DEF Commit, Merge, TypeOK, Views
<1>5. proven' \in SUBSET Authzs /\ proven \subseteq proven'
  BY DEF Commit, TypeOK
<1>6. \A z \in Authzs : n.authz[z] = "valid" => z \in proven'
  BY DEF Commit, ViewWithin
<1>7. \A z \in Authzs : authz'[z] = "valid" => z \in proven'
  <2> SUFFICES ASSUME NEW z \in Authzs, authz'[z] = "valid" PROVE z \in proven'
    OBVIOUS
  <2>1. authz'[z] \in {n.authz[z], authz[z]}
    BY DEF Commit, Merge, TypeOK
  <2> QED
    BY <2>1, <1>5, <1>6 DEF RowsWithin
<1>8. n.order \in Taken => AuthzsOf(o) \subseteq proven'
  BY <1>5, <1>6 DEF Sound, AuthzsOf
<1>9. ASSUME NEW q \in Orders, order'[q] \in Taken \/ certs'[q] > 0
      PROVE  AuthzsOf(q) \subseteq proven'
  <2>1. order'[q] = order[q] \/ (q = o /\ order'[q] = n.order)
    BY DEF Commit, MergeOrder, TypeOK
  <2> QED
    BY <2>1, <1>5, <1>8, <1>9 DEF RowsWithin
<1> QED
  BY <1>1, <1>2, <1>3, <1>4, <1>5, <1>7, <1>9 DEF RowsWithin, AuthzsOf

\* A request that commits a sound view and finishes keeps the invariant.
LEMMA RequestEnds ==
    ASSUME AInv, NEW w \in Workers, NEW o \in Orders, NEW v \in Views, NEW n \in Views,
           ViewWithin(v, o, proven), Sound(n, o, proven), Commit(o, v, n), Finishes(w),
           UNCHANGED <<account, certs, overdue>>, NoMaintenance
    PROVE  AInv'
<1>1. TypeOK /\ RowsWithin /\ \A x \in Workers : TaskOK(worker[x])
  BY DEF AInv
<1>2. /\ order' \in [Orders -> OrderStatuses]
      /\ authz' \in [Authzs -> AuthzStatuses]
      /\ chall' \in [Challenges -> ChallengeStatuses]
      /\ attempts' \in [Challenges -> Nat]
      /\ proven' \in SUBSET Authzs
      /\ proven \subseteq proven'
      /\ RowsWithin'
  BY <1>1, CommitSound
<1>3. worker' = [worker EXCEPT ![w] = Idle]
  BY DEF Finishes, Becomes
<1>4. TypeOK'
  BY <1>1, <1>2, <1>3, NoViewType DEF TypeOK, NoMaintenance
<1>5. ASSUME NEW x \in Workers PROVE TaskOK(worker[x])'
  <2>1. worker'[x] = IF x = w THEN Idle ELSE worker[x]
    BY <1>1, <1>3 DEF TypeOK
  <2> QED
    BY <1>1, <1>2, <2>1, TaskStays, IdleOK
<1> QED
  BY <1>2, <1>4, <1>5 DEF AInv

\* A step that gives one worker a task that is right, and takes nothing back.
LEMMA OneTask ==
    ASSUME AInv, NEW w \in Workers, NEW t \in Tasks,
           Becomes(w, t), TaskOK(t)', proven \subseteq proven'
    PROVE  /\ worker' \in [Workers -> Tasks]
           /\ \A x \in Workers : TaskOK(worker[x])'
<1>1. TypeOK /\ \A x \in Workers : TaskOK(worker[x])
  BY DEF AInv
<1>2. worker' \in [Workers -> Tasks]
  BY <1>1 DEF TypeOK, Becomes
<1>3. ASSUME NEW x \in Workers PROVE TaskOK(worker[x])'
  <2>1. CASE x = w
    <3>1. worker'[x] = t
      BY <1>1, <2>1 DEF TypeOK, Becomes
    <3> QED
      BY <3>1 DEF TaskOK
  <2>2. CASE x # w
    <3>1. worker'[x] = worker[x]
      BY <1>1, <2>2 DEF TypeOK, Becomes
    <3> QED
      BY <1>1, <3>1, TaskStays
  <2> QED
    BY <2>1, <2>2
<1> QED
  BY <1>2, <1>3

\* A step of a worker that finishes, takes nothing back and adds no order or name to what is
\* relied upon.
LEMMA WorkerEnds ==
    ASSUME AInv, NEW w \in Workers, Finishes(w), UNCHANGED <<authz, chall, attempts, proven>>,
           account' \in {"valid", "deactivated"}, order' \in [Orders -> OrderStatuses],
           certs' = certs, UNCHANGED overdue, NoMaintenance,
           \A o \in Orders : order'[o] \in Taken => AuthzsOf(o) \subseteq proven
    PROVE  AInv'
<1>1. TypeOK /\ RowsWithin
  BY DEF AInv
<1>2. TaskOK(Idle)'
  BY DEF TaskOK, Idle
<1>3. Becomes(w, Idle)
  BY DEF Finishes
<1>4. /\ worker' \in [Workers -> Tasks]
      /\ \A x \in Workers : TaskOK(worker[x])'
  BY <1>2, <1>3, OneTask, NoViewType
<1>5. TypeOK'
  BY <1>1, <1>4 DEF TypeOK, NoMaintenance
<1>6. RowsWithin'
  BY <1>1 DEF RowsWithin, AuthzsOf
<1> QED
  BY <1>4, <1>5, <1>6 DEF AInv

\* A request that arrives for an item of its kind.
LEMMA LoadKeeps ==
    ASSUME AInv, NEW w \in Workers, NEW request \in Requests, NEW i \in Items, Load(w, request, i),
           \/ request \in {"order", "finalize"} /\ i \in Orders
           \/ request \in {"authz", "deactivate"} /\ i \in Authzs
           \/ request \in {"challenge", "respond"} /\ i \in Challenges
    PROVE  AInv'
<1>1. TypeOK /\ RowsWithin
  BY DEF AInv
<1>2. View(request, i) \in Views /\ ViewWithin(View(request, i), OrderFor(i), proven)
  BY <1>1, ViewSound
<1>3. PICK v \in Views : v = View(request, i)
  BY <1>2
<1> DEFINE t == [at |-> request, item |-> i, view |-> v]
<1>4. t \in Tasks
  OBVIOUS
<1>5. proven' = proven
  BY DEF Load, rows
<1>6. TaskOK(t)'
  BY <1>2, <1>3, <1>5 DEF TaskOK, ViewWithin
<1>7. Becomes(w, t)
  BY <1>3 DEF Load
<1> HIDE DEF t
<1>8. /\ worker' \in [Workers -> Tasks]
      /\ \A x \in Workers : TaskOK(worker[x])'
  BY <1>4, <1>5, <1>6, <1>7, OneTask
<1>9. TypeOK'
  BY <1>1, <1>8 DEF TypeOK, Load, rows, NoMaintenance
<1>10. RowsWithin'
  BY <1>1 DEF RowsWithin, Load, rows
<1> QED
  BY <1>8, <1>9, <1>10 DEF AInv
-----------------------------------------------------------------------------
(***************************************************************************)
(* Every step keeps the invariant                                          *)
(***************************************************************************)

\* What a worker that is at one of its steps has in hand.
LEMMA InHand ==
    ASSUME AInv, NEW w \in Workers, worker[w].item # NoItem
    PROVE  /\ worker[w].view \in Views
           /\ worker[w].item \in Items
           /\ ViewWithin(worker[w].view, OrderFor(worker[w].item), proven)
BY DEF AInv, TypeOK, TaskOK

\* An order poll, or a refused finalize, stores what refresh_order derives.
LEMMA StoreRefreshed ==
    ASSUME AInv, NEW w \in Workers, worker[w].at \in {"order", "finalize"},
           Commit(worker[w].item, worker[w].view, RefreshOrder(worker[w].view, worker[w].item)),
           Finishes(w), UNCHANGED <<account, certs, overdue>>, NoMaintenance
    PROVE  AInv'
<1>1. worker[w].item \in Orders
  BY DEF AInv, TaskOK
<1>2. PICK o \in Orders : o = worker[w].item
  BY <1>1
<1>3. worker[w].view \in Views /\ ViewWithin(worker[w].view, o, proven)
  BY <1>2, InHand DEF OrderFor
<1>4. PICK v \in Views : v = worker[w].view
  BY <1>3
<1>5. Sound(v, o, proven) /\ ViewWithin(v, o, proven)
  BY <1>3, <1>4 DEF Sound, ViewWithin
<1>6. RefreshOrder(v, o) \in Views /\ Sound(RefreshOrder(v, o), o, proven)
  BY <1>5, RefreshOrderSound
<1>7. Commit(o, v, RefreshOrder(v, o))
  BY <1>2, <1>4
<1> QED
  BY <1>5, <1>6, <1>7, RequestEnds

\* An authorization is polled or deactivated.
LEMMA PollAuthzKeeps ==
    ASSUME AInv, NEW w \in Workers, NEW due \in BOOLEAN, NEW ok \in BOOLEAN, NEW soon \in BOOLEAN,
           PollAuthz(w, due, ok, soon)
    PROVE  AInv'
<1>1. worker[w].item \in Authzs
  BY DEF AInv, TaskOK, PollAuthz
<1>2. PICK z \in Authzs : z = worker[w].item
  BY <1>1
<1>3. PICK v \in Views : v = worker[w].view
  BY <1>1, InHand
<1>4. OrderFor(z) = OrderOf[z] /\ OrderOf[z] \in Orders
  BY DEF OrderFor
<1>5. ViewWithin(v, OrderOf[z], proven)
  BY <1>1, <1>2, <1>3, <1>4, InHand
<1>6. TypeOK /\ RowsWithin
  BY DEF AInv
<1> DEFINE polled == RefreshAuthz(v, z, due, ok, soon)
           n == IF worker[w].at = "authz" THEN polled ELSE DeactivateAuthz(polled, z)
<1>7. polled \in Views /\ Sound(polled, OrderOf[z], proven)
  BY <1>5, <1>6, RefreshAuthzSound
<1>8. Commit(OrderOf[z], v, n)
  BY <1>2, <1>3 DEF PollAuthz
<1> HIDE DEF polled
<1>9. PICK p \in Views : p = polled
  BY <1>7
<1>10. DeactivateAuthz(p, z) \in Views /\ Sound(DeactivateAuthz(p, z), OrderOf[z], proven)
  BY <1>6, <1>7, <1>9, DeactivateAuthzSound
<1>11. n \in Views /\ Sound(n, OrderOf[z], proven)
  BY <1>7, <1>9, <1>10
<1>12. PICK m \in Views : m = n
  BY <1>11
<1>13. Finishes(w) /\ UNCHANGED <<account, certs, overdue>> /\ NoMaintenance
  BY DEF PollAuthz
<1> HIDE DEF n
<1>14. PICK o \in Orders : o = OrderOf[z]
  BY <1>4
<1>15. Commit(o, v, m) /\ Sound(m, o, proven) /\ ViewWithin(v, o, proven)
  BY <1>5, <1>8, <1>11, <1>12, <1>14
<1> QED
  BY <1>13, <1>15, RequestEnds

\* A challenge is polled or answered.
LEMMA PollChallengeKeeps ==
    ASSUME AInv, NEW w \in Workers, NEW due \in BOOLEAN, NEW retry \in BOOLEAN, NEW ok \in BOOLEAN,
           NEW soon \in BOOLEAN, PollChallenge(w, due, retry, ok, soon)
    PROVE  AInv'
<1>1. worker[w].item \in Challenges
  BY DEF AInv, TaskOK, PollChallenge
<1>2. PICK h \in Challenges : h = worker[w].item
  BY <1>1
<1>3. PICK v \in Views : v = worker[w].view
  BY <1>1, InHand
<1>4. PICK z \in Authzs : z = AuthzOf[h]
  OBVIOUS
<1>5. OrderFor(h) = OrderOf[z] /\ OrderOf[z] \in Orders
  BY <1>4 DEF OrderFor
<1>6. ViewWithin(v, OrderOf[z], proven)
  BY <1>1, <1>2, <1>3, <1>5, InHand
<1>7. TypeOK /\ RowsWithin
  BY DEF AInv
<1> DEFINE polled == RefreshAuthz(v, z, due, retry, soon)
           n == IF worker[w].at = "challenge" THEN polled ELSE RespondChallenge(polled, h, ok, soon)
<1>8. polled \in Views /\ Sound(polled, OrderOf[z], proven)
  BY <1>6, <1>7, RefreshAuthzSound
<1>9. Commit(OrderOf[z], v, n)
  BY <1>2, <1>3, <1>4 DEF PollChallenge
<1> HIDE DEF polled
<1>10. PICK p \in Views : p = polled
  BY <1>8
<1>11. PICK P : P = proven
  OBVIOUS
<1>12. /\ RespondChallenge(p, h, ok, soon) \in Views
       /\ Sound(RespondChallenge(p, h, ok, soon), OrderOf[AuthzOf[h]], P)
  BY <1>4, <1>8, <1>10, <1>11, RespondChallengeSound
<1>13. n \in Views /\ Sound(n, OrderOf[z], proven)
  BY <1>4, <1>8, <1>10, <1>11, <1>12
<1>14. PICK m \in Views : m = n
  BY <1>13
<1>15. Finishes(w) /\ UNCHANGED <<account, certs, overdue>> /\ NoMaintenance
  BY DEF PollChallenge
<1> HIDE DEF n
<1>16. PICK o \in Orders : o = OrderOf[z]
  BY <1>5
<1>17. Commit(o, v, m) /\ Sound(m, o, proven) /\ ViewWithin(v, o, proven)
  BY <1>6, <1>9, <1>13, <1>14, <1>16
<1> QED
  BY <1>15, <1>17, RequestEnds

\* finalize takes an order only when its view calls every name valid, or the order ready.
LEMMA TakeOrderKeeps ==
    ASSUME AInv, NEW w \in Workers, TakeOrder(w)
    PROVE  AInv'
<1>1. worker[w].item \in Orders
  BY DEF AInv, TaskOK, TakeOrder
<1>2. PICK o \in Orders : o = worker[w].item
  BY <1>1
<1>3. PICK v \in Views : v = worker[w].view
  BY <1>1, InHand
<1>4. ViewWithin(v, o, proven)
  BY <1>1, <1>2, <1>3, InHand DEF OrderFor
<1>5. RefreshOrder(v, o).order = "ready"
  BY <1>2, <1>3 DEF TakeOrder
<1>6. v.order = "ready" \/ \A z \in AuthzsOf(o) : v.authz[z] = "valid"
  BY <1>5 DEF RefreshOrder, Authorized, Views
<1>7. AuthzsOf(o) \subseteq proven
  BY <1>4, <1>6 DEF ViewWithin, AuthzsOf, Taken
<1> DEFINE n == [v EXCEPT !.order = "processing"]
           t == [at |-> "signing", item |-> o, view |-> NoView]
<1>8. n \in Views
  BY DEF Views, OrderStatuses
<1>9. Sound(n, o, proven)
  BY <1>7 DEF Sound
<1>10. Commit(o, v, n)
  BY <1>2, <1>3 DEF TakeOrder
<1> HIDE DEF n
<1>11. TypeOK /\ RowsWithin
  BY DEF AInv
<1>12. UNCHANGED certs
  BY DEF TakeOrder
<1>13. /\ order' \in [Orders -> OrderStatuses]
       /\ authz' \in [Authzs -> AuthzStatuses]
       /\ chall' \in [Challenges -> ChallengeStatuses]
       /\ attempts' \in [Challenges -> Nat]
       /\ proven' \in SUBSET Authzs
       /\ proven \subseteq proven'
       /\ RowsWithin'
  BY <1>4, <1>8, <1>9, <1>10, <1>11, <1>12, CommitSound
<1>14. t \in Tasks
  BY NoViewType DEF Requests, Items
<1>15. TaskOK(t)'
  BY <1>7, <1>13 DEF TaskOK, ViewWithin, NoView, Taken
<1>16. Becomes(w, t)
  BY <1>2 DEF TakeOrder
<1> HIDE DEF t
<1>17. /\ worker' \in [Workers -> Tasks]
       /\ \A x \in Workers : TaskOK(worker[x])'
  BY <1>13, <1>14, <1>15, <1>16, OneTask
<1>18. TypeOK'
  BY <1>11, <1>13, <1>17 DEF TypeOK, TakeOrder, NoMaintenance
<1> QED
  BY <1>13, <1>17, <1>18 DEF AInv

\* An arriving newOrder has an order and no view.
LEMMA BeginNewOrderKeeps ==
    ASSUME AInv, NEW w \in Workers, NEW o \in Orders, BeginNewOrder(w, o)
    PROVE  AInv'
<1> DEFINE t == [at |-> "new_order", item |-> o, view |-> NoView]
<1>1. TypeOK /\ RowsWithin
  BY DEF AInv
<1>2. t \in Tasks
  BY NoViewType DEF Requests, Items
<1>3. TaskOK(t)'
  BY DEF TaskOK, ViewWithin, NoView, Taken
<1>4. Becomes(w, t) /\ proven' = proven
  BY DEF BeginNewOrder, rows
<1> HIDE DEF t
<1>5. /\ worker' \in [Workers -> Tasks]
      /\ \A x \in Workers : TaskOK(worker[x])'
  BY <1>2, <1>3, <1>4, OneTask
<1>6. TypeOK'
  BY <1>1, <1>5 DEF TypeOK, BeginNewOrder, rows, NoMaintenance
<1>7. RowsWithin'
  BY <1>1 DEF RowsWithin, BeginNewOrder, rows
<1> QED
  BY <1>5, <1>6, <1>7 DEF AInv

\* The certificate is issued for an order whose names are proven.
LEMMA IssueCertificateKeeps ==
    ASSUME AInv, NEW w \in Workers, IssueCertificate(w)
    PROVE  AInv'
<1>1. TypeOK /\ RowsWithin /\ TaskOK(worker[w])
  BY DEF AInv
<1>2. worker[w].item \in Orders /\ AuthzsOf(worker[w].item) \subseteq proven
  BY <1>1 DEF TaskOK, IssueCertificate
<1>3. worker[w] \in Tasks
  BY <1>1 DEF TypeOK
<1>4. PICK t \in Tasks : t = [worker[w] EXCEPT !.at = "linking"]
  BY <1>3 DEF Requests
<1>5. t.at = "linking" /\ t.item = worker[w].item /\ t.view = worker[w].view
  BY <1>3, <1>4
<1>6. proven' = proven /\ Becomes(w, t)
  BY <1>4 DEF IssueCertificate
<1>7. TaskOK(t)'
  BY <1>1, <1>2, <1>5, <1>6 DEF TaskOK, ViewWithin
<1>8. /\ worker' \in [Workers -> Tasks]
      /\ \A x \in Workers : TaskOK(worker[x])'
  BY <1>6, <1>7, OneTask
<1>9. TypeOK'
  BY <1>1, <1>2, <1>8 DEF TypeOK, IssueCertificate, NoMaintenance
<1>10. RowsWithin'
  BY <1>1, <1>2 DEF RowsWithin, IssueCertificate, TypeOK, AuthzsOf
<1> QED
  BY <1>8, <1>9, <1>10 DEF AInv

\* A step that leaves the workers, the names and the certificates alone and may close orders.
LEMMA Closes ==
    ASSUME AInv, UNCHANGED <<worker, chall, attempts, certs, proven>>,
           account' \in {"valid", "deactivated"}, overdue' \in SUBSET Orders,
           sweep' \in SUBSET Orders, sweeping' \in BOOLEAN,
           order' \in [Orders -> OrderStatuses], authz' \in [Authzs -> AuthzStatuses],
           \A o \in Orders : order'[o] \in {order[o], "invalid"},
           \A z \in Authzs : authz'[z] \in {authz[z], "expired"}
    PROVE  AInv'
<1>1. TypeOK /\ RowsWithin /\ \A x \in Workers : TaskOK(worker[x])
  BY DEF AInv
<1>2. TypeOK'
  BY <1>1 DEF TypeOK
<1>3. RowsWithin'
  BY <1>1 DEF RowsWithin, Taken
<1>4. \A x \in Workers : TaskOK(worker[x])'
  BY <1>1, TaskStays
<1> QED
  BY <1>2, <1>3, <1>4 DEF AInv

\* The initial state satisfies the invariant: nothing is proven and nothing relies on it.
LEMMA InitAInv == Init => AInv
<1> SUFFICES ASSUME Init PROVE AInv
  OBVIOUS
<1>1. NoView \in Views /\ Idle \in Tasks
  BY NoViewType
<1>2. TypeOK
  BY <1>1 DEF Init, TypeOK, NoView, OrderStatuses, AuthzStatuses, ChallengeStatuses
<1>3. RowsWithin
  BY DEF Init, RowsWithin, NoView, Taken
<1>4. \A w \in Workers : TaskOK(worker[w])
  BY DEF Init, TaskOK, Idle
<1> QED
  BY <1>2, <1>3, <1>4 DEF AInv

\* The actions of Next that Load and Proceed stand for.
LEMMA WorkerKeeps ==
    ASSUME AInv, NEW w \in Workers,
           \/ \E o \in Orders : BeginNewOrder(w, o) \/ LoadOrder(w, o)
           \/ \E z \in Authzs : LoadAuthz(w, z)
           \/ \E h \in Challenges : LoadChallenge(w, h)
           \/ DeactivateAccount(w)
           \/ Proceed(w) \/ ProfileMissing(w) \/ SignRefused(w) \/ SignFails(w) \/ Crash(w)
    PROVE  AInv'
<1>1. TypeOK /\ RowsWithin /\ TaskOK(worker[w])
  BY DEF AInv
<1>2. \A o \in Orders : order[o] \in Taken => AuthzsOf(o) \subseteq proven
  BY <1>1 DEF RowsWithin
<1>3. ASSUME NEW o \in Orders, BeginNewOrder(w, o) PROVE AInv'
  BY <1>3, BeginNewOrderKeeps
<1>4. ASSUME NEW o \in Orders, LoadOrder(w, o) PROVE AInv'
  <2>1. PICK request \in {"order", "finalize"} : Load(w, request, o)
    BY <1>4 DEF LoadOrder
  <2> QED
    BY <2>1, LoadKeeps DEF Requests, Items
<1>5. ASSUME NEW z \in Authzs, LoadAuthz(w, z) PROVE AInv'
  <2>1. PICK request \in {"authz", "deactivate"} : Load(w, request, z)
    BY <1>5 DEF LoadAuthz
  <2> QED
    BY <2>1, LoadKeeps DEF Requests, Items
<1>6. ASSUME NEW h \in Challenges, LoadChallenge(w, h) PROVE AInv'
  <2>1. PICK request \in {"challenge", "respond"} : Load(w, request, h)
    BY <1>6 DEF LoadChallenge
  <2> QED
    BY <2>1, LoadKeeps DEF Requests, Items
<1>7. CASE DeactivateAccount(w)
  <2>1. order' \in [Orders -> OrderStatuses]
        /\ \A o \in Orders : order'[o] \in {order[o], "invalid"}
    BY <1>1, <1>7 DEF DeactivateAccount, TypeOK, OrderStatuses
  <2>2. UNCHANGED <<worker, chall, attempts, certs, proven, authz, overdue, sweep, sweeping>>
        /\ account' = "deactivated"
    BY <1>7 DEF DeactivateAccount, NoMaintenance
  <2> QED
    BY <1>1, <2>1, <2>2, Closes DEF TypeOK
<1>8. CASE NewOrder(w)
  <2>1. order' \in [Orders -> OrderStatuses]
        /\ \A o \in Orders : order'[o] \in {order[o], "pending"}
    BY <1>1, <1>8 DEF NewOrder, TypeOK, OrderStatuses
  <2> QED
    BY <1>1, <1>2, <1>8, <2>1, WorkerEnds DEF NewOrder, TypeOK, Taken
<1>9. CASE PollOrder(w)
  BY <1>9, StoreRefreshed DEF PollOrder
<1>10. ASSUME NEW due \in BOOLEAN, NEW ok \in BOOLEAN, NEW soon \in BOOLEAN,
              PollAuthz(w, due, ok, soon)
       PROVE  AInv'
  BY <1>10, PollAuthzKeeps
<1>11. ASSUME NEW due \in BOOLEAN, NEW retry \in BOOLEAN, NEW ok \in BOOLEAN, NEW soon \in BOOLEAN,
              PollChallenge(w, due, retry, ok, soon)
       PROVE  AInv'
  BY <1>11, PollChallengeKeeps
<1>12. CASE RefuseFinalize(w)
  BY <1>12, StoreRefreshed DEF RefuseFinalize
<1>13. CASE TakeOrder(w)
  BY <1>13, TakeOrderKeeps
<1>14. CASE IssueCertificate(w)
  BY <1>14, IssueCertificateKeeps
<1>15. CASE LinkCertificate(w)
  <2>1. worker[w].item \in Orders /\ AuthzsOf(worker[w].item) \subseteq proven
    BY <1>1, <1>15 DEF TaskOK, LinkCertificate
  <2>2. order' \in [Orders -> OrderStatuses]
        /\ \A o \in Orders : order'[o] = order[o] \/ o = worker[w].item
    BY <1>1, <1>15, <2>1 DEF LinkCertificate, TypeOK, OrderStatuses
  <2> QED
    BY <1>1, <1>2, <1>15, <2>1, <2>2, WorkerEnds DEF LinkCertificate, TypeOK
<1>16. CASE ProfileMissing(w)
  BY <1>1, <1>2, <1>16, WorkerEnds DEF ProfileMissing, rows, TypeOK
<1>17. CASE SignRefused(w)
  <2>1. order' \in [Orders -> OrderStatuses]
        /\ \A o \in Orders : order'[o] \in {order[o], "invalid"}
    BY <1>1, <1>17 DEF SignRefused, TypeOK, OrderStatuses
  <2> QED
    BY <1>1, <1>2, <1>17, <2>1, WorkerEnds DEF SignRefused, TypeOK, Taken
<1>18. CASE SignFails(w)
  BY <1>1, <1>2, <1>18, WorkerEnds DEF SignFails, rows, TypeOK
<1>19. CASE Crash(w)
  BY <1>1, <1>2, <1>19, WorkerEnds DEF Crash, rows, TypeOK
<1>20. CASE Proceed(w)
  BY <1>8, <1>9, <1>10, <1>11, <1>12, <1>13, <1>14, <1>15, <1>20 DEF Proceed
<1> QED
  BY <1>3, <1>4, <1>5, <1>6, <1>7, <1>16, <1>17, <1>18, <1>19, <1>20

\* Every step keeps the invariant: the workers' steps, and those of time and maintenance, which
\* only close orders and authorizations.
LEMMA NextAInv == AInv /\ [Next]_vars => AInv'
<1> SUFFICES ASSUME AInv, [Next]_vars PROVE AInv'
  OBVIOUS
<1>1. TypeOK
  BY DEF AInv
<1>2. ASSUME NEW w \in Workers,
             \/ \E o \in Orders : BeginNewOrder(w, o) \/ LoadOrder(w, o)
             \/ \E z \in Authzs : LoadAuthz(w, z)
             \/ \E h \in Challenges : LoadChallenge(w, h)
             \/ DeactivateAccount(w)
             \/ Proceed(w) \/ ProfileMissing(w) \/ SignRefused(w) \/ SignFails(w) \/ Crash(w)
      PROVE  AInv'
  BY <1>2, WorkerKeeps
<1>3. CASE BeginMaintain
  <2>1. sweep' \in SUBSET Orders
    BY <1>1, <1>3 DEF BeginMaintain, Closable, TypeOK
  <2> QED
    BY <1>1, <1>3, <2>1, Closes DEF BeginMaintain, rows, TypeOK
<1>4. CASE Maintain
  <2>1. order' \in [Orders -> OrderStatuses]
        /\ \A o \in Orders : order'[o] \in {order[o], "invalid"}
    BY <1>1, <1>4 DEF Maintain, TypeOK, OrderStatuses
  <2>2. authz' \in [Authzs -> AuthzStatuses]
        /\ \A z \in Authzs : authz'[z] \in {authz[z], "expired"}
    BY <1>1, <1>4 DEF Maintain, TypeOK, AuthzStatuses
  <2> QED
    BY <1>1, <1>4, <2>1, <2>2, Closes DEF Maintain, TypeOK
<1>5. ASSUME NEW o \in Orders, Expires(o) PROVE AInv'
  <2>1. overdue' \in SUBSET Orders
    BY <1>1, <1>5 DEF Expires, TypeOK
  <2> QED
    BY <1>1, <1>5, <2>1, Closes DEF Expires, rows, NoMaintenance, TypeOK
<1>6. CASE UNCHANGED vars
  BY <1>1, <1>6, Closes DEF vars, TypeOK
<1> QED
  BY <1>2, <1>3, <1>4, <1>5, <1>6 DEF Next
-----------------------------------------------------------------------------
(***************************************************************************)
(* The budget of lookups. BudgetKept is not inductive: a commit writes     *)
(* count and status apart, each only if the session has changed it, so     *)
(* what a stale session knows of a challenge and what its row says by then *)
(* have to fit together.                                                   *)
(***************************************************************************)

\* Counts and statuses, of the rows or of a view, that fit together.
Counted(status, count) ==
    \A h \in Challenges : /\ count[h] <= MaxAttempts
                          /\ status[h] = "processing" => count[h] < MaxAttempts
                          /\ status[h] = "pending" => count[h] = 0

\* A view that has seen a challenge answered is right about that: no row is pending again.
Answered(v) == \A h \in Challenges : v.chall[h] = "processing" => chall[h] # "pending"

BudgetInv ==
    /\ Counted(chall, attempts)
    /\ \A w \in Workers : /\ Counted(worker[w].view.chall, worker[w].view.attempts)
                          /\ Answered(worker[w].view)

\* What a request has made of its view: a challenge is as it was, or its count has changed and
\* leaves another attempt, or it is settled now.
CountedStep(v, n) ==
    \A h \in Challenges :
        \/ n.chall[h] = v.chall[h] /\ n.attempts[h] = v.attempts[h]
        \/ /\ v.chall[h] \in {"pending", "processing"} /\ n.chall[h] = "processing"
           /\ n.attempts[h] # v.attempts[h] /\ n.attempts[h] < MaxAttempts
        \/ /\ n.chall[h] \in {"valid", "invalid"} /\ n.chall[h] # v.chall[h]
           /\ n.attempts[h] <= MaxAttempts

\* Only lookups count: what derives the order leaves the challenges alone.
LEMMA OrdersCountNothing ==
    ASSUME NEW v \in Views, NEW o \in Orders, NEW z \in Authzs
    PROVE  /\ RefreshOrder(v, o).chall = v.chall /\ RefreshOrder(v, o).attempts = v.attempts
           /\ WithOrder(v, z).chall = v.chall /\ WithOrder(v, z).attempts = v.attempts
BY DEF RefreshOrder, WithOrder, Views

\* _settle ends one challenge.
LEMMA SettleCounts ==
    ASSUME NEW v \in Views, NEW h \in Challenges, NEW ok \in BOOLEAN
    PROVE  /\ Settle(v, h, ok).chall[h] \in {"valid", "invalid"}
           /\ \A g \in Challenges : g # h => Settle(v, h, ok).chall[g] = v.chall[g]
           /\ Settle(v, h, ok).attempts = v.attempts
BY DEF Settle, Views

\* _attempt_dns01 counts one lookup, and settles the challenge when that was the last one.
LEMMA AttemptCounts ==
    ASSUME NEW v \in Views, NEW h \in Challenges, NEW ok \in BOOLEAN, NEW soon \in BOOLEAN,
           v.chall[h] = "processing", v.attempts[h] < MaxAttempts
    PROVE  LET n == AttemptDns01(v, h, ok, soon)
           IN  /\ n \in Views
               /\ n.attempts[h] = v.attempts[h] + 1
               /\ \/ n.chall[h] = "processing" /\ n.attempts[h] < MaxAttempts
                  \/ n.chall[h] \in {"valid", "invalid"}
               /\ \A g \in Challenges : g # h => /\ n.chall[g] = v.chall[g]
                                                 /\ n.attempts[g] = v.attempts[g]
<1> DEFINE counted == [v EXCEPT !.attempts[h] = @ + 1]
           n == AttemptDns01(v, h, ok, soon)
<1>1. counted \in Views /\ counted.chall = v.chall /\ counted.attempts[h] = v.attempts[h] + 1
      /\ \A g \in Challenges : g # h => counted.attempts[g] = v.attempts[g]
  BY DEF Views
<1>2. (n = counted /\ counted.attempts[h] < MaxAttempts) \/ n = Settle(counted, h, ok)
  BY DEF AttemptDns01, MoreAttempts
<1>3. n \in Views
  BY AttemptType
<1> HIDE DEF counted, n
<1>4. CASE n = counted /\ counted.attempts[h] < MaxAttempts
  BY <1>1, <1>3, <1>4 DEF n
<1>5. CASE n = Settle(counted, h, ok)
  <2>1. /\ n.chall[h] \in {"valid", "invalid"}
        /\ \A g \in Challenges : g # h => n.chall[g] = counted.chall[g]
        /\ n.attempts = counted.attempts
    BY <1>1, <1>5, SettleCounts
  <2> QED
    BY <1>1, <1>3, <2>1 DEF n
<1> QED
  BY <1>2, <1>4, <1>5

\* A poll of an authorization looks up a challenge that is processing, or none.
LEMMA RefreshAuthzCounts ==
    ASSUME NEW v \in Views, NEW z \in Authzs,
           NEW due \in BOOLEAN, NEW ok \in BOOLEAN, NEW soon \in BOOLEAN,
           TypeOK, Counted(v.chall, v.attempts)
    PROVE  CountedStep(v, RefreshAuthz(v, z, due, ok, soon))
<1> DEFINE retried == {h \in Dns : AuthzOf[h] = z /\ v.chall[h] = "processing"}
           h0 == CHOOSE h \in retried : TRUE
           tried == AttemptDns01(v, h0, ok, soon)
           n == RefreshAuthz(v, z, due, ok, soon)
<1>1. \/ n.chall = v.chall /\ n.attempts = v.attempts
      \/ retried # {} /\ n = RefreshOrder(WithOrder(tried, z), OrderOf[z])
  BY DEF RefreshAuthz, Views
<1>2. CASE n.chall = v.chall /\ n.attempts = v.attempts
  BY <1>2 DEF CountedStep
<1>3. CASE retried # {} /\ n = RefreshOrder(WithOrder(tried, z), OrderOf[z])
  <2>1. h0 \in Challenges /\ v.chall[h0] = "processing" /\ v.attempts[h0] < MaxAttempts
    BY <1>3 DEF Counted
  <2>2. PICK h \in Challenges : h = h0
    BY <2>1
  <2> HIDE DEF h0, retried
  <2>3. /\ tried \in Views
        /\ tried.attempts[h] = v.attempts[h] + 1
        /\ \/ tried.chall[h] = "processing" /\ tried.attempts[h] < MaxAttempts
           \/ tried.chall[h] \in {"valid", "invalid"}
        /\ \A g \in Challenges : g # h => /\ tried.chall[g] = v.chall[g]
                                          /\ tried.attempts[g] = v.attempts[g]
    BY <2>1, <2>2, AttemptCounts
  <2>4. PICK t \in Views : t = tried
    BY <2>3
  <2>5. WithOrder(t, z) \in Views
    BY DEF WithOrder, Views, TypeOK
  <2>6. n.chall = t.chall /\ n.attempts = t.attempts
    <3>1. WithOrder(t, z).chall = t.chall /\ WithOrder(t, z).attempts = t.attempts
      BY OrdersCountNothing
    <3>2. n = RefreshOrder(WithOrder(t, z), OrderOf[z])
      BY <1>3, <2>4
    <3> HIDE DEF n
    <3> QED
      BY <2>5, <3>1, <3>2, OrdersCountNothing
  <2> HIDE DEF n, tried
  <2>7. v.attempts[h] \in Nat /\ v.attempts[h] < MaxAttempts /\ v.chall[h] = "processing"
    BY <2>1, <2>2 DEF Views
  <2>8. CountedStep(v, n)
    BY <2>3, <2>4, <2>6, <2>7 DEF CountedStep
  <2> QED
    BY <2>8 DEF n
<1> QED
  BY <1>1, <1>2, <1>3

\* A deactivation looks nothing up.
LEMMA DeactivateAuthzCounts ==
    ASSUME TypeOK, NEW v \in Views, NEW z \in Authzs
    PROVE  /\ DeactivateAuthz(v, z).chall = v.chall
           /\ DeactivateAuthz(v, z).attempts = v.attempts
<1>1. PICK gone \in Views : gone = [v EXCEPT !.authz[z] = "deactivated"]
  BY DEF Views, AuthzStatuses
<1>2. WithOrder(gone, z) \in Views
  BY DEF WithOrder, Views, TypeOK
<1>3. /\ RefreshOrder(WithOrder(gone, z), OrderOf[z]).chall = gone.chall
      /\ RefreshOrder(WithOrder(gone, z), OrderOf[z]).attempts = gone.attempts
  BY <1>2, OrdersCountNothing
<1>4. gone.chall = v.chall /\ gone.attempts = v.attempts
  BY <1>1 DEF Views
<1> QED
  BY <1>1, <1>3, <1>4 DEF DeactivateAuthz

\* A response looks up, or settles, a challenge that is pending, whose count is 0.
LEMMA RespondChallengeCounts ==
    ASSUME NEW v \in Views, NEW p \in Views, NEW h \in Challenges,
           NEW ok \in BOOLEAN, NEW soon \in BOOLEAN,
           Counted(v.chall, v.attempts), CountedStep(v, p)
    PROVE  CountedStep(v, RespondChallenge(p, h, ok, soon))
<1> DEFINE started == [p EXCEPT !.chall[h] = "processing"]
           done == IF h \in Dns THEN AttemptDns01(started, h, ok, soon)
                   ELSE Settle(started, h, ok)
           n == RespondChallenge(p, h, ok, soon)
<1>1. n = p \/ (p.chall[h] = "pending" /\ n = RefreshOrder(done, OrderOf[AuthzOf[h]]))
  <2>1. CASE p.chall[h] # "pending" \/ p.authz[AuthzOf[h]] # "pending"
    BY <2>1, Zenon DEF RespondChallenge
  <2>2. CASE ~(p.chall[h] # "pending" \/ p.authz[AuthzOf[h]] # "pending")
    BY <2>2, Zenon DEF RespondChallenge
  <2> QED
    BY <2>1, <2>2
<1>2. CASE n = p
  BY <1>2
<1>3. CASE p.chall[h] = "pending" /\ n = RefreshOrder(done, OrderOf[AuthzOf[h]])
  <2>1. p.chall[h] = v.chall[h] /\ p.attempts[h] = v.attempts[h] /\ v.attempts[h] = 0
    BY <1>3 DEF CountedStep, Counted
  <2>2. /\ started \in Views /\ started.attempts = p.attempts /\ started.chall[h] = "processing"
        /\ \A g \in Challenges : g # h => started.chall[g] = p.chall[g]
    BY DEF Views, ChallengeStatuses
  <2> HIDE DEF started
  <2>3. /\ done \in Views
        /\ \/ /\ done.chall[h] = "processing" /\ done.attempts[h] < MaxAttempts
              /\ done.attempts[h] # v.attempts[h]
           \/ done.chall[h] \in {"valid", "invalid"} /\ done.attempts[h] <= MaxAttempts
        /\ \A g \in Challenges : g # h => /\ done.chall[g] = p.chall[g]
                                          /\ done.attempts[g] = p.attempts[g]
    <3>1. CASE h \in Dns
      <4>1. PICK d : d = AttemptDns01(started, h, ok, soon)
        OBVIOUS
      <4>2. /\ d \in Views
            /\ d.attempts[h] = started.attempts[h] + 1
            /\ \/ d.chall[h] = "processing" /\ d.attempts[h] < MaxAttempts
               \/ d.chall[h] \in {"valid", "invalid"}
            /\ \A g \in Challenges : g # h => /\ d.chall[g] = started.chall[g]
                                              /\ d.attempts[g] = started.attempts[g]
        BY <2>1, <2>2, <4>1, AttemptCounts
      <4>3. d.attempts[h] = 1 /\ d.attempts[h] <= MaxAttempts
        BY <2>1, <2>2, <4>2
      <4>4. done = d
        BY <3>1, <4>1
      <4> HIDE DEF done
      <4> QED
        BY <2>1, <2>2, <4>2, <4>3, <4>4
    <3>2. CASE h \notin Dns
      <4>1. PICK d : d = Settle(started, h, ok)
        OBVIOUS
      <4>2. d \in Views
        BY <2>2, <4>1, SettleType
      <4>3. /\ d.chall[h] \in {"valid", "invalid"}
            /\ \A g \in Challenges : g # h => d.chall[g] = started.chall[g]
            /\ d.attempts = started.attempts
        BY <2>2, <4>1, SettleCounts
      <4>4. done = d
        BY <3>2, <4>1
      <4> HIDE DEF done
      <4> QED
        BY <2>1, <2>2, <4>2, <4>3, <4>4
    <3> QED
      BY <3>1, <3>2
  <2> HIDE DEF done
  <2>4. n.chall = done.chall /\ n.attempts = done.attempts
    BY <1>3, <2>3, OrdersCountNothing
  <2> HIDE DEF n
  <2>5. CountedStep(v, n)
    BY <1>3, <2>1, <2>3, <2>4 DEF CountedStep
  <2> QED
    BY <2>5 DEF n
<1> QED
  BY <1>1, <1>2, <1>3

\* A commit leaves counts and statuses that fit together, whatever the row has become, and no
\* challenge goes back to pending.
LEMMA CommitCounts ==
    ASSUME TypeOK, NEW o \in Orders, NEW v \in Views, NEW n \in Views, Commit(o, v, n),
           Counted(chall, attempts), Counted(v.chall, v.attempts), Answered(v), CountedStep(v, n)
    PROVE  /\ Counted(chall, attempts)'
           /\ \A h \in Challenges : chall[h] # "pending" => chall'[h] # "pending"
<1>1. ASSUME NEW h \in Challenges
      PROVE  /\ chall'[h] = IF n.chall[h] # v.chall[h] THEN n.chall[h] ELSE chall[h]
             /\ attempts'[h] = IF n.attempts[h] # v.attempts[h] THEN n.attempts[h] ELSE attempts[h]
  BY DEF Commit, Merge, TypeOK
<1>2. ASSUME NEW h \in Challenges
      PROVE  /\ attempts'[h] <= MaxAttempts
             /\ chall'[h] = "processing" => attempts'[h] < MaxAttempts
             /\ chall'[h] = "pending" => attempts'[h] = 0
             /\ chall[h] # "pending" => chall'[h] # "pending"
  <2>1. /\ attempts[h] <= MaxAttempts
        /\ chall[h] = "processing" => attempts[h] < MaxAttempts
        /\ chall[h] = "pending" => attempts[h] = 0
        /\ v.chall[h] = "processing" => chall[h] # "pending"
    BY DEF Counted, Answered
  <2>2. CASE n.chall[h] = v.chall[h] /\ n.attempts[h] = v.attempts[h]
    BY <1>1, <2>1, <2>2
  <2>3. CASE /\ v.chall[h] \in {"pending", "processing"} /\ n.chall[h] = "processing"
             /\ n.attempts[h] # v.attempts[h] /\ n.attempts[h] < MaxAttempts
    BY <1>1, <2>1, <2>3 DEF Views
  <2>4. CASE /\ n.chall[h] \in {"valid", "invalid"} /\ n.chall[h] # v.chall[h]
             /\ n.attempts[h] <= MaxAttempts
    BY <1>1, <2>1, <2>4
  <2> QED
    BY <2>2, <2>3, <2>4 DEF CountedStep
<1> QED
  BY <1>2 DEF Counted

\* A step that gives one worker a view that fits, and opens no challenge again.
LEMMA OneViewCounts ==
    ASSUME AInv, BudgetInv, NEW w \in Workers, NEW t \in Tasks, Becomes(w, t),
           Counted(chall, attempts)',
           \A h \in Challenges : chall[h] # "pending" => chall'[h] # "pending",
           Counted(t.view.chall, t.view.attempts),
           \A h \in Challenges : t.view.chall[h] = "processing" => chall'[h] # "pending"
    PROVE  BudgetInv'
<1>1. \A x \in Workers : worker'[x] = IF x = w THEN t ELSE worker[x]
  BY DEF AInv, TypeOK, Becomes
<1>2. ASSUME NEW x \in Workers
      PROVE  /\ Counted(worker'[x].view.chall, worker'[x].view.attempts)
             /\ \A h \in Challenges :
                   worker'[x].view.chall[h] = "processing" => chall'[h] # "pending"
  BY <1>1 DEF BudgetInv, Answered
<1> QED
  BY <1>2 DEF BudgetInv, Answered, Counted

\* NoView has looked nothing up.
LEMMA NoViewCounted == Counted(NoView.chall, NoView.attempts)
                       /\ \A h \in Challenges : NoView.chall[h] = "pending"
BY DEF Counted, NoView

\* A request that looks nothing up and whose worker ends with a view that has seen nothing.
LEMMA CountsStay ==
    ASSUME AInv, BudgetInv, NEW w \in Workers, NEW t \in Tasks, Becomes(w, t), t.view = NoView,
           UNCHANGED <<chall, attempts>>
    PROVE  BudgetInv'
BY NoViewCounted, OneViewCounts DEF BudgetInv, Counted

\* A commit of a request that has looked something up, and its end.
LEMMA CountedEnds ==
    ASSUME AInv, BudgetInv, NEW w \in Workers, NEW o \in Orders, NEW n \in Views,
           NEW t \in Tasks, Becomes(w, t), t.view = NoView,
           Commit(o, worker[w].view, n), CountedStep(worker[w].view, n)
    PROVE  BudgetInv'
<1>1. PICK v \in Views : v = worker[w].view
  BY DEF AInv, TypeOK
<1>2. Counted(chall, attempts) /\ Counted(v.chall, v.attempts) /\ Answered(v)
  BY <1>1 DEF BudgetInv
<1>3. /\ Counted(chall, attempts)'
      /\ \A h \in Challenges : chall[h] # "pending" => chall'[h] # "pending"
  BY <1>1, <1>2, CommitCounts DEF AInv
<1> QED
  BY <1>3, NoViewCounted, OneViewCounts

\* What a request loads fits together, because the rows do.
LEMMA LoadCounts ==
    ASSUME AInv, BudgetInv, NEW w \in Workers, NEW request \in Requests, NEW i \in Items,
           Load(w, request, i)
    PROVE  BudgetInv'
<1>1. TypeOK /\ RowsWithin
  BY DEF AInv
<1>2. PICK v \in Views : v = View(request, i)
  BY <1>1, ViewSound
<1>3. \A h \in Challenges : \/ v.chall[h] = chall[h] /\ v.attempts[h] = attempts[h]
                            \/ v.chall[h] = "pending" /\ v.attempts[h] = 0
  BY <1>2 DEF View, NoView
<1>4. PICK t \in Tasks : t = [at |-> request, item |-> i, view |-> v]
  OBVIOUS
<1>5. Becomes(w, t) /\ UNCHANGED <<chall, attempts>> /\ t.view = v
  BY <1>2, <1>4 DEF Load, rows
<1>6. Counted(v.chall, v.attempts)
  BY <1>3 DEF BudgetInv, Counted
<1>7. \A h \in Challenges : v.chall[h] = "processing" => chall'[h] # "pending"
  BY <1>3, <1>5
<1>8. Counted(chall, attempts)'
  BY <1>5 DEF BudgetInv, Counted
<1> QED
  BY <1>5, <1>6, <1>7, <1>8, OneViewCounts

\* A poll or deactivation of an authorization.
LEMMA PollAuthzCounts ==
    ASSUME AInv, BudgetInv, NEW w \in Workers, NEW due \in BOOLEAN, NEW ok \in BOOLEAN,
           NEW soon \in BOOLEAN, PollAuthz(w, due, ok, soon)
    PROVE  BudgetInv'
<1>1. PICK z \in Authzs : z = worker[w].item
  BY DEF AInv, TaskOK, PollAuthz
<1>2. PICK v \in Views : v = worker[w].view
  BY DEF AInv, TypeOK
<1>3. TypeOK /\ RowsWithin /\ Counted(v.chall, v.attempts)
  BY <1>2 DEF AInv, BudgetInv
<1>4. ViewWithin(v, OrderOf[z], proven)
  BY <1>1, <1>2, InHand DEF OrderFor
<1>5. PICK p \in Views : p = RefreshAuthz(v, z, due, ok, soon)
  BY <1>3, <1>4, RefreshAuthzSound
<1>6. Sound(p, OrderOf[z], proven) /\ CountedStep(v, p)
  BY <1>3, <1>4, <1>5, RefreshAuthzSound, RefreshAuthzCounts
<1>7. PICK d \in Views : d = DeactivateAuthz(p, z)
  BY <1>3, <1>6, DeactivateAuthzSound
<1>8. d.chall = p.chall /\ d.attempts = p.attempts
  BY <1>3, <1>7, DeactivateAuthzCounts
<1>9. CountedStep(v, d)
  BY <1>6, <1>8 DEF CountedStep
<1>10. PICK n \in Views : n = IF worker[w].at = "authz" THEN p ELSE d
  OBVIOUS
<1>11. CountedStep(v, n) /\ Commit(OrderOf[z], v, n) /\ Becomes(w, Idle)
  BY <1>1, <1>2, <1>5, <1>6, <1>7, <1>9, <1>10 DEF PollAuthz, Finishes
<1>12. Idle \in Tasks /\ Idle.view = NoView /\ OrderOf[z] \in Orders
  BY NoViewType DEF Idle
<1> QED
  BY <1>2, <1>11, <1>12, CountedEnds

\* A poll of a challenge, or a response to it.
LEMMA PollChallengeCounts ==
    ASSUME AInv, BudgetInv, NEW w \in Workers, NEW due \in BOOLEAN, NEW retry \in BOOLEAN,
           NEW ok \in BOOLEAN, NEW soon \in BOOLEAN, PollChallenge(w, due, retry, ok, soon)
    PROVE  BudgetInv'
<1>1. PICK h \in Challenges : h = worker[w].item
  BY DEF AInv, TaskOK, PollChallenge
<1>2. PICK v \in Views : v = worker[w].view
  BY DEF AInv, TypeOK
<1>3. PICK z \in Authzs : z = AuthzOf[h]
  OBVIOUS
<1>4. TypeOK /\ RowsWithin /\ Counted(v.chall, v.attempts)
  BY <1>2 DEF AInv, BudgetInv
<1>5. ViewWithin(v, OrderOf[z], proven)
  BY <1>1, <1>2, <1>3, InHand DEF OrderFor
<1>6. PICK p \in Views : p = RefreshAuthz(v, z, due, retry, soon)
  BY <1>4, <1>5, RefreshAuthzSound
<1>7. Sound(p, OrderOf[AuthzOf[h]], proven) /\ CountedStep(v, p)
  BY <1>3, <1>4, <1>5, <1>6, RefreshAuthzSound, RefreshAuthzCounts
<1>8. PICK P : P = proven
  OBVIOUS
<1>9. PICK d \in Views : d = RespondChallenge(p, h, ok, soon)
  BY <1>7, <1>8, RespondChallengeSound
<1>10. CountedStep(v, d)
  BY <1>4, <1>7, <1>9, RespondChallengeCounts
<1>11. PICK n \in Views : n = IF worker[w].at = "challenge" THEN p ELSE d
  OBVIOUS
<1>12. CountedStep(v, n) /\ Commit(OrderOf[z], v, n) /\ Becomes(w, Idle)
  BY <1>1, <1>2, <1>3, <1>6, <1>7, <1>9, <1>10, <1>11 DEF PollChallenge, Finishes
<1>13. Idle \in Tasks /\ Idle.view = NoView /\ OrderOf[z] \in Orders
  BY NoViewType DEF Idle
<1> QED
  BY <1>2, <1>12, <1>13, CountedEnds

\* A request that stores what refresh_order derives, or goes on to sign.
LEMMA OrderCommitCounts ==
    ASSUME AInv, BudgetInv, NEW w \in Workers, PollOrder(w) \/ RefuseFinalize(w) \/ TakeOrder(w)
    PROVE  BudgetInv'
<1>1. PICK o \in Orders : o = worker[w].item
  BY DEF AInv, TaskOK, PollOrder, RefuseFinalize, TakeOrder
<1>2. PICK v \in Views : v = worker[w].view
  BY DEF AInv, TypeOK
<1>3. PICK n : /\ n = RefreshOrder(v, o) \/ n = [v EXCEPT !.order = "processing"]
               /\ Commit(o, v, n)
  BY <1>1, <1>2 DEF PollOrder, RefuseFinalize, TakeOrder
<1>4. n \in Views /\ n.chall = v.chall /\ n.attempts = v.attempts
  BY <1>3 DEF RefreshOrder, Views, OrderStatuses
<1>5. CountedStep(v, n)
  BY <1>4 DEF CountedStep
<1>6. PICK t \in Tasks : t.view = NoView /\ Becomes(w, t)
  <2>1. Idle \in Tasks /\ Idle.view = NoView
    BY NoViewType DEF Idle
  <2>2. [at |-> "signing", item |-> o, view |-> NoView] \in Tasks
    BY NoViewType DEF Requests, Items
  <2> QED
    BY <1>1, <2>1, <2>2 DEF PollOrder, RefuseFinalize, TakeOrder, Finishes
<1> QED
  BY <1>2, <1>3, <1>4, <1>5, <1>6, CountedEnds

\* Steps that leave the challenges and the views alone.
LEMMA CountsUnchanged ==
    ASSUME AInv, BudgetInv, UNCHANGED <<chall, attempts, worker>>
    PROVE  BudgetInv'
BY DEF BudgetInv, Counted, Answered

LEMMA InitBudgetInv == Init => BudgetInv
BY NoViewCounted DEF Init, BudgetInv, Counted, Answered, NoView, Idle

\* The signing of a certificate goes on without a view.
LEMMA IssueCounts ==
    ASSUME AInv, BudgetInv, NEW w \in Workers, IssueCertificate(w)
    PROVE  BudgetInv'
<1> DEFINE task == [worker[w] EXCEPT !.at = "linking"]
<1>1. PICK t \in Tasks : t = task
  <2>1. worker[w] \in Tasks
    BY DEF AInv, TypeOK
  <2>2. task \in Tasks
    BY <2>1 DEF Requests
  <2> QED
    BY <2>2
<1>2. t.view = worker[w].view /\ Becomes(w, t) /\ UNCHANGED <<chall, attempts>>
  BY <1>1 DEF IssueCertificate, AInv, TypeOK
<1>3. Counted(chall, attempts)'
  BY <1>2 DEF BudgetInv, Counted
<1>4. Counted(t.view.chall, t.view.attempts)
      /\ \A h \in Challenges : t.view.chall[h] = "processing" => chall'[h] # "pending"
  BY <1>2 DEF BudgetInv, Answered
<1> QED
  BY <1>2, <1>3, <1>4, OneViewCounts

\* Every step keeps counts and statuses together.
LEMMA NextBudgetInv == AInv /\ BudgetInv /\ [Next]_vars => BudgetInv'
<1> SUFFICES ASSUME AInv, BudgetInv, [Next]_vars PROVE BudgetInv'
  OBVIOUS
<1> USE DEF Requests, Items
<1>1. ASSUME NEW w \in Workers, NEW o \in Orders, BeginNewOrder(w, o) \/ LoadOrder(w, o)
      PROVE  BudgetInv'
  <2>1. CASE BeginNewOrder(w, o)
    <3>1. PICK t \in Tasks : t = [at |-> "new_order", item |-> o, view |-> NoView]
      BY NoViewType
    <3> QED
      BY <2>1, <3>1, CountsStay DEF BeginNewOrder, rows
  <2>2. CASE LoadOrder(w, o)
    BY <2>2, LoadCounts DEF LoadOrder
  <2> QED
    BY <1>1, <2>1, <2>2
<1>2. ASSUME NEW w \in Workers, NEW z \in Authzs, LoadAuthz(w, z) PROVE BudgetInv'
  BY <1>2, LoadCounts DEF LoadAuthz
<1>3. ASSUME NEW w \in Workers, NEW h \in Challenges, LoadChallenge(w, h) PROVE BudgetInv'
  BY <1>3, LoadCounts DEF LoadChallenge
<1>4. ASSUME NEW w \in Workers,
             \/ NewOrder(w) \/ LinkCertificate(w) \/ ProfileMissing(w)
             \/ SignRefused(w) \/ SignFails(w) \/ Crash(w)
      PROVE  BudgetInv'
  <2>1. Becomes(w, Idle) /\ UNCHANGED <<chall, attempts>>
    BY <1>4 DEF NewOrder, LinkCertificate, ProfileMissing, SignRefused, SignFails, Crash, Finishes,
                rows
  <2>2. Idle \in Tasks /\ Idle.view = NoView
    BY NoViewType DEF Idle
  <2> QED
    BY <2>1, <2>2, CountsStay
<1>5. ASSUME NEW w \in Workers, NEW due \in BOOLEAN, NEW ok \in BOOLEAN, NEW soon \in BOOLEAN,
             PollAuthz(w, due, ok, soon)
      PROVE  BudgetInv'
  BY <1>5, PollAuthzCounts
<1>6. ASSUME NEW w \in Workers, NEW due \in BOOLEAN, NEW retry \in BOOLEAN, NEW ok \in BOOLEAN,
             NEW soon \in BOOLEAN, PollChallenge(w, due, retry, ok, soon)
      PROVE  BudgetInv'
  BY <1>6, PollChallengeCounts
<1>7. ASSUME NEW w \in Workers, PollOrder(w) \/ RefuseFinalize(w) \/ TakeOrder(w) PROVE BudgetInv'
  BY <1>7, OrderCommitCounts
<1>8. ASSUME NEW w \in Workers, IssueCertificate(w) PROVE BudgetInv'
  BY <1>8, IssueCounts
<1>9. ASSUME NEW w \in Workers, DeactivateAccount(w) PROVE BudgetInv'
  BY <1>9, CountsUnchanged DEF DeactivateAccount
<1>10. CASE BeginMaintain \/ Maintain \/ \E o \in Orders : Expires(o)
  BY <1>10, CountsUnchanged DEF BeginMaintain, Maintain, Expires, rows
<1>11. CASE UNCHANGED vars
  BY <1>11, CountsUnchanged DEF vars
<1> QED
  BY <1>1, <1>2, <1>3, <1>4, <1>5, <1>6, <1>7, <1>8, <1>9, <1>10, <1>11 DEF Next, Proceed
-----------------------------------------------------------------------------
(***************************************************************************)
(* What becomes of an order's status, and how many certificates that may   *)
(* cost. A status is derived from the row as it is or from a session's     *)
(* view of it; only the second can undo what has happened meanwhile.       *)
(***************************************************************************)

Settled == {"valid", "invalid"}
Whole == {"order", "finalize", "respond"}        \* the requests that load the order itself

\* The requests that load rows.
Loads == Whole \union {"authz", "deactivate", "challenge"}

\* What refresh_order may make of a status.
Derives(s, t) ==
    t = s \/ (s \notin Settled /\ t = "invalid") \/ (s = "pending" /\ t = "ready")

\* Of the requests that work with an order: it is there, and some have loaded its row; a new order
\* has no row yet and is in one worker's hands. Maintenance finds orders that are there.
HandsRight ==
    /\ \A w \in Workers :
          /\ worker[w].at \in Whole <=> worker[w].view.order # "absent"
          /\ worker[w].at = "new_order" =>
                /\ order[worker[w].item] = "absent"
                /\ \A x \in Workers \ {w} :
                      ~ (worker[x].at = "new_order" /\ worker[x].item = worker[w].item)
          /\ worker[w].item # NoItem /\ worker[w].at # "new_order" =>
                order[OrderFor(worker[w].item)] # "absent"
    /\ \A o \in sweep : order[o] # "absent"

\* refresh_order leaves what is settled and calls nothing but a pending order ready.
LEMMA RefreshOrderDerives ==
    ASSUME NEW v \in Views, NEW o \in Orders
    PROVE  Derives(v.order, RefreshOrder(v, o).order)
BY DEF RefreshOrder, Derives, Settled, Views

\* A poll of an authorization leaves the order to the view, or derives it from the row.
LEMMA RefreshAuthzDerives ==
    ASSUME TypeOK, NEW v \in Views, NEW z \in Authzs,
           NEW due \in BOOLEAN, NEW ok \in BOOLEAN, NEW soon \in BOOLEAN
    PROVE  LET n == RefreshAuthz(v, z, due, ok, soon)
           IN  n.order = v.order \/ Derives(order[OrderOf[z]], n.order)
<1> DEFINE retried == {h \in Dns : AuthzOf[h] = z /\ v.chall[h] = "processing"}
           h0 == CHOOSE h \in retried : TRUE
           tried == WithOrder(AttemptDns01(v, h0, ok, soon), z)
           n == RefreshAuthz(v, z, due, ok, soon)
<1>1. n.order = v.order \/ (retried # {} /\ n = RefreshOrder(tried, OrderOf[z]))
  BY DEF RefreshAuthz, Views
<1>2. ASSUME retried # {} PROVE Derives(order[OrderOf[z]], RefreshOrder(tried, OrderOf[z]).order)
  <2>1. h0 \in Challenges
    BY <1>2
  <2>2. PICK a \in Views : a = AttemptDns01(v, h0, ok, soon)
    BY <2>1, AttemptType
  <2>3. WithOrder(a, z) \in Views /\ WithOrder(a, z).order = order[OrderOf[z]]
    BY DEF WithOrder, Views, TypeOK
  <2> QED
    BY <2>2, <2>3, RefreshOrderDerives
<1> QED
  BY <1>1, <1>2

\* So does a deactivation.
LEMMA DeactivateAuthzDerives ==
    ASSUME TypeOK, NEW v \in Views, NEW z \in Authzs
    PROVE  LET n == DeactivateAuthz(v, z)
           IN  n.order = v.order \/ Derives(order[OrderOf[z]], n.order)
<1> DEFINE gone == [v EXCEPT !.authz[z] = "deactivated"]
<1>1. gone \in Views
  BY DEF Views, AuthzStatuses
<1> HIDE DEF gone
<1>2. WithOrder(gone, z) \in Views /\ WithOrder(gone, z).order = order[OrderOf[z]]
  BY <1>1 DEF WithOrder, Views, TypeOK
<1>3. Derives(order[OrderOf[z]], RefreshOrder(WithOrder(gone, z), OrderOf[z]).order)
  BY <1>2, RefreshOrderDerives
<1> QED
  BY <1>3 DEF DeactivateAuthz, gone

\* A response derives the order from the view.
LEMMA RespondChallengeDerives ==
    ASSUME NEW v \in Views, NEW h \in Challenges, NEW ok \in BOOLEAN, NEW soon \in BOOLEAN
    PROVE  Derives(v.order, RespondChallenge(v, h, ok, soon).order)
<1> DEFINE started == [v EXCEPT !.chall[h] = "processing"]
           tried == IF h \in Dns THEN AttemptDns01(started, h, ok, soon)
                    ELSE Settle(started, h, ok)
<1>1. started \in Views /\ started.order = v.order
  BY DEF Views, ChallengeStatuses
<1>2. PICK s \in Views : s = started /\ s.order = v.order
  BY <1>1
<1> HIDE DEF started
<1>3. AttemptDns01(s, h, ok, soon) \in Views /\ AttemptDns01(s, h, ok, soon).order = v.order
  BY <1>2, AttemptType
<1>4. Settle(s, h, ok) \in Views /\ Settle(s, h, ok).order = v.order
  BY <1>2, SettleType
<1>5. tried \in Views /\ tried.order = v.order
  BY <1>2, <1>3, <1>4
<1> HIDE DEF tried
<1>6. Derives(v.order, RefreshOrder(tried, OrderOf[AuthzOf[h]]).order)
  BY <1>5, RefreshOrderDerives
<1> QED
  BY <1>6 DEF RespondChallenge, started, tried, Derives

\* A view of the requests on one order is of a status that the next one derives from, too.
LEMMA DerivesOn ==
    ASSUME NEW r, NEW s, NEW t, Derives(r, s), Derives(s, t) PROVE Derives(r, t)
BY DEF Derives, Settled
\* An item belongs to an order.
LEMMA OrderForType == ASSUME NEW i \in Items PROVE OrderFor(i) \in Orders
BY DEF OrderFor, Items

\* What an action of a worker may make of an order: it derives a new status from the row, or from
\* its own view of an order that it found unsettled.
RowMoves(w, o) ==
    \/ order'[o] = order[o]
    \/ /\ order[o] = "absent" /\ order'[o] = "pending"
       /\ worker[w].at = "new_order" /\ worker[w].item = o
    \/ order[o] \notin Settled \union {"absent"} /\ order'[o] = "invalid"
    \/ order[o] = "pending" /\ order'[o] = "ready"
    \/ InProgress(w, o) /\ order'[o] \in Settled
    \/ /\ worker[w].at \in Whole /\ worker[w].item \in Items /\ OrderFor(worker[w].item) = o
       /\ worker[w].view.order = "pending"
       /\ order'[o] = "ready"

\* A commit moves no other order, and its own as derived.
LEMMA CommitMoves ==
    ASSUME AInv, HandsRight, NEW w \in Workers, NEW o \in Orders, NEW v \in Views, NEW n \in Views,
           v = worker[w].view, Commit(o, v, n), worker[w].at # "new_order",
           worker[w].item \in Items, OrderFor(worker[w].item) = o,
           \/ n.order = v.order \/ Derives(order[o], n.order)
           \/ worker[w].at \in Whole /\ Derives(v.order, n.order)
    PROVE  \A x \in Orders : RowMoves(w, x)
<1>1. order \in [Orders -> OrderStatuses] /\ v.order \in OrderStatuses
  BY DEF AInv, TypeOK, Views
<1>2. order[o] # "absent" /\ (worker[w].at \in Whole => v.order # "absent")
  BY DEF HandsRight, Items
<1>3. order' = IF n.order # v.order THEN [order EXCEPT ![o] = n.order] ELSE order
  BY DEF Commit, MergeOrder
<1>4. \A x \in Orders : x # o => RowMoves(w, x)
  BY <1>1, <1>3 DEF RowMoves
<1>5. CASE n.order = v.order
  BY <1>3, <1>5 DEF RowMoves
<1>6. CASE n.order # v.order
  <2>1. order'[o] = n.order
    BY <1>1, <1>3, <1>6
  <2>2. CASE Derives(order[o], n.order)
    <3>1. \/ order'[o] = order[o]
          \/ order[o] \notin Settled \union {"absent"} /\ order'[o] = "invalid"
          \/ order[o] = "pending" /\ order'[o] = "ready"
      BY <1>2, <2>1, <2>2 DEF Derives
    <3> QED
      BY <1>4, <3>1 DEF RowMoves
  <2>3. CASE worker[w].at \in Whole /\ Derives(v.order, n.order)
    <3>1. v.order \in {"pending", "ready", "processing"}
      BY <1>1, <1>2, <1>6, <2>3 DEF Derives, Settled, OrderStatuses
    <3>2. InProgress(w, o)
      BY <3>1 DEF InProgress
    <3>3. order'[o] \in Settled \/ (v.order = "pending" /\ order'[o] = "ready")
      BY <1>6, <2>1, <2>3, <3>1 DEF Derives, Settled
    <3> QED
      BY <1>4, <2>3, <3>2, <3>3 DEF RowMoves
  <2> QED
    BY <1>5, <1>6, <2>2, <2>3, <1>4
<1> QED
  BY <1>4, <1>5, <1>6

\* An order poll, or a refused finalize, derives the order from its view.
LEMMA RefreshedMoves ==
    ASSUME AInv, HandsRight, NEW w \in Workers, PollOrder(w) \/ RefuseFinalize(w)
    PROVE  \A x \in Orders : RowMoves(w, x)
<1>1. PICK o \in Orders : o = worker[w].item
  BY DEF AInv, TaskOK, PollOrder, RefuseFinalize
<1>2. PICK v \in Views : v = worker[w].view
  BY DEF AInv, TypeOK
<1>3. PICK n \in Views : n = RefreshOrder(v, o)
  BY DEF RefreshOrder, Views, OrderStatuses
<1>4. worker[w].at \in {"order", "finalize"} /\ Commit(o, v, n)
  BY <1>1, <1>2, <1>3 DEF PollOrder, RefuseFinalize
<1>5. Derives(v.order, n.order)
  BY <1>3, RefreshOrderDerives
<1>6. worker[w].item \in Items /\ OrderFor(worker[w].item) = o
  BY <1>1 DEF Items, OrderFor
<1> QED
  BY <1>2, <1>4, <1>5, <1>6, CommitMoves DEF Whole

\* A poll or deactivation of an authorization derives it from the row, if it reads it.
LEMMA PollAuthzMoves ==
    ASSUME AInv, HandsRight, NEW w \in Workers, NEW due \in BOOLEAN, NEW ok \in BOOLEAN,
           NEW soon \in BOOLEAN, PollAuthz(w, due, ok, soon)
    PROVE  \A x \in Orders : RowMoves(w, x)
<1>1. PICK z \in Authzs : z = worker[w].item
  BY DEF AInv, TaskOK, PollAuthz
<1>2. PICK v \in Views : v = worker[w].view
  BY DEF AInv, TypeOK
<1>3. TypeOK /\ RowsWithin /\ ViewWithin(v, OrderOf[z], proven)
  BY <1>1, <1>2, InHand DEF OrderFor, AInv
<1>4. PICK p \in Views : p = RefreshAuthz(v, z, due, ok, soon)
  BY <1>3, RefreshAuthzSound
<1>5. Sound(p, OrderOf[z], proven)
  BY <1>3, <1>4, RefreshAuthzSound
<1>6. PICK d \in Views : d = DeactivateAuthz(p, z)
  BY <1>3, <1>5, DeactivateAuthzSound
<1>7. PICK o \in Orders : o = OrderOf[z]
  OBVIOUS
<1>8. p.order = v.order \/ Derives(order[o], p.order)
  BY <1>3, <1>4, <1>7, RefreshAuthzDerives
<1>9. d.order = p.order \/ Derives(order[o], d.order)
  BY <1>3, <1>6, <1>7, DeactivateAuthzDerives
<1>10. PICK n \in Views : n = IF worker[w].at = "authz" THEN p ELSE d
  OBVIOUS
<1>11. n.order = v.order \/ Derives(order[o], n.order)
  BY <1>8, <1>9, <1>10
<1>12. Commit(o, v, n) /\ worker[w].at # "new_order"
  BY <1>1, <1>2, <1>4, <1>6, <1>7, <1>10 DEF PollAuthz
<1>13. worker[w].item \in Items /\ OrderFor(worker[w].item) = o
  BY <1>1, <1>7 DEF Items, OrderFor
<1> QED
  BY <1>2, <1>11, <1>12, <1>13, CommitMoves

\* A poll of a challenge does the same, a response derives it from its view as well.
LEMMA PollChallengeMoves ==
    ASSUME AInv, HandsRight, NEW w \in Workers, NEW due \in BOOLEAN, NEW retry \in BOOLEAN,
           NEW ok \in BOOLEAN, NEW soon \in BOOLEAN, PollChallenge(w, due, retry, ok, soon)
    PROVE  \A x \in Orders : RowMoves(w, x)
<1>1. PICK h \in Challenges : h = worker[w].item
  BY DEF AInv, TaskOK, PollChallenge
<1>2. PICK v \in Views : v = worker[w].view
  BY DEF AInv, TypeOK
<1>3. PICK z \in Authzs : z = AuthzOf[h]
  OBVIOUS
<1>4. TypeOK /\ RowsWithin /\ ViewWithin(v, OrderOf[z], proven)
  BY <1>1, <1>2, <1>3, InHand DEF OrderFor, AInv
<1>5. PICK p \in Views : p = RefreshAuthz(v, z, due, retry, soon)
  BY <1>4, RefreshAuthzSound
<1>6. Sound(p, OrderOf[AuthzOf[h]], proven)
  BY <1>3, <1>4, <1>5, RefreshAuthzSound
<1>7. PICK P : P = proven
  OBVIOUS
<1>8. PICK d \in Views : d = RespondChallenge(p, h, ok, soon)
  BY <1>6, <1>7, RespondChallengeSound
<1>9. PICK o \in Orders : o = OrderOf[z]
  OBVIOUS
<1>10. p.order = v.order \/ Derives(order[o], p.order)
  BY <1>4, <1>5, <1>9, RefreshAuthzDerives
<1>11. Derives(p.order, d.order)
  BY <1>8, RespondChallengeDerives
<1>12. Derives(v.order, d.order) \/ Derives(order[o], d.order)
  BY <1>10, <1>11, DerivesOn
<1>13. PICK n \in Views : n = IF worker[w].at = "challenge" THEN p ELSE d
  OBVIOUS
<1>14. Commit(o, v, n) /\ worker[w].at \in {"challenge", "respond"}
  BY <1>1, <1>2, <1>3, <1>5, <1>8, <1>9, <1>13 DEF PollChallenge
<1>15. \/ n.order = v.order \/ Derives(order[o], n.order)
       \/ worker[w].at \in Whole /\ Derives(v.order, n.order)
  BY <1>10, <1>12, <1>13, <1>14 DEF Whole
<1>16. worker[w].item \in Items /\ OrderFor(worker[w].item) = o
  BY <1>1, <1>3, <1>9 DEF Items, OrderFor
<1> QED
  BY <1>2, <1>14, <1>15, <1>16, CommitMoves

\* The steps with which a worker ends its request, and what they have in common.
Ends(w) ==
    \/ NewOrder(w) \/ PollOrder(w)
    \/ \E due, ok, soon \in BOOLEAN : PollAuthz(w, due, ok, soon)
    \/ \E due, retry, ok, soon \in BOOLEAN : PollChallenge(w, due, retry, ok, soon)
    \/ RefuseFinalize(w) \/ LinkCertificate(w)
    \/ ProfileMissing(w) \/ SignRefused(w) \/ SignFails(w) \/ Crash(w)

LEMMA EndsMove ==
    ASSUME AInv, HandsRight, NEW w \in Workers, Ends(w)
    PROVE  /\ Becomes(w, Idle)
           /\ certs' = certs
           /\ sweep' = sweep
           /\ worker[w] # Idle
           /\ \A x \in Orders : RowMoves(w, x)
<1>1. Becomes(w, Idle) /\ certs' = certs /\ sweep' = sweep
  BY DEF Ends, NewOrder, PollOrder, PollAuthz, PollChallenge, RefuseFinalize, LinkCertificate,
         ProfileMissing, SignRefused, SignFails, Crash, Finishes, rows, NoMaintenance
<1>2. worker[w] # Idle
  BY DEF Ends, NewOrder, PollOrder, PollAuthz, PollChallenge, RefuseFinalize, LinkCertificate,
         ProfileMissing, SignRefused, SignFails, Crash, Idle
<1>3. order \in [Orders -> OrderStatuses]
  BY DEF AInv, TypeOK
<1>4. CASE NewOrder(w)
  <2>1. worker[w].item \in Orders /\ order[worker[w].item] = "absent"
    BY <1>4 DEF AInv, TaskOK, HandsRight, NewOrder
  <2> QED
    BY <1>1, <1>2, <1>3, <1>4, <2>1 DEF NewOrder, RowMoves
<1>5. CASE LinkCertificate(w) \/ SignRefused(w)
  <2>1. worker[w].item \in Orders /\ worker[w].at \in {"signing", "linking"}
    BY <1>5 DEF AInv, TaskOK, LinkCertificate, SignRefused
  <2>2. InProgress(w, worker[w].item)
    BY <2>1 DEF InProgress, Items, OrderFor
  <2> QED
    BY <1>1, <1>2, <1>3, <1>5, <2>1, <2>2 DEF LinkCertificate, SignRefused, RowMoves, Settled
<1>6. CASE ProfileMissing(w) \/ SignFails(w) \/ Crash(w)
  BY <1>1, <1>2, <1>6 DEF ProfileMissing, SignFails, Crash, rows, RowMoves
<1> QED
  BY <1>1, <1>2, <1>4, <1>5, <1>6, RefreshedMoves, PollAuthzMoves, PollChallengeMoves DEF Ends

\* finalize takes an order that its view calls pending or ready.
LEMMA TakeOrderMoves ==
    ASSUME AInv, NEW w \in Workers, TakeOrder(w)
    PROVE  /\ worker[w].item \in Orders /\ worker[w].at = "finalize"
           /\ worker[w].view.order \in {"pending", "ready"}
           /\ order' = [order EXCEPT ![worker[w].item] = "processing"]
           /\ Becomes(w, [at |-> "signing", item |-> worker[w].item, view |-> NoView])
           /\ certs' = certs
           /\ sweep' = sweep
<1>1. PICK o \in Orders : o = worker[w].item
  BY DEF AInv, TaskOK, TakeOrder
<1>2. PICK v \in Views : v = worker[w].view
  BY DEF AInv, TypeOK
<1>3. RefreshOrder(v, o).order = "ready"
  BY <1>1, <1>2 DEF TakeOrder
<1>4. v.order \in {"pending", "ready"}
  BY <1>3 DEF RefreshOrder, Views
<1>5. PICK n \in Views : n = [v EXCEPT !.order = "processing"]
  BY DEF Views, OrderStatuses
<1>6. n.order = "processing" /\ Commit(o, v, n)
  BY <1>1, <1>2, <1>5 DEF TakeOrder, Views
<1>7. order' = [order EXCEPT ![o] = "processing"]
  BY <1>4, <1>6 DEF Commit, MergeOrder
<1> QED
  BY <1>1, <1>2, <1>4, <1>7 DEF TakeOrder, NoMaintenance

\* A worker that goes on from one task to another leaves the hands right, if what it moves is.
LEMMA HandsStep ==
    ASSUME AInv, HandsRight, NEW w \in Workers, NEW t \in Tasks, Becomes(w, t),
           sweep' \subseteq sweep,
           \A o \in Orders : order[o] # "absent" => order'[o] # "absent",
           \A o \in Orders : order[o] = "absent" /\ order'[o] # "absent" =>
                                worker[w].at = "new_order" /\ worker[w].item = o,
           t.at \in Whole <=> t.view.order # "absent",
           t.at = "new_order" =>
               /\ t.item \in Orders /\ order'[t.item] = "absent"
               /\ \A x \in Workers : worker[x].item # t.item,
           t.item # NoItem /\ t.at # "new_order" => order[OrderFor(t.item)] # "absent"
    PROVE  HandsRight'
<1>1. \A x \in Workers : worker'[x] = IF x = w THEN t ELSE worker[x]
  BY DEF AInv, TypeOK, Becomes
<1>2. \A x \in Workers : worker[x] \in Tasks
  BY DEF AInv, TypeOK
<1>3. \A x \in Workers : worker[x].item # NoItem => OrderFor(worker[x].item) \in Orders
  BY <1>2, OrderForType
<1>4. t.item # NoItem => OrderFor(t.item) \in Orders
  BY OrderForType
<1>5. ASSUME NEW x \in Workers PROVE worker'[x].at \in Whole <=> worker'[x].view.order # "absent"
  BY <1>1 DEF HandsRight
<1>6. ASSUME NEW x \in Workers, worker'[x].at = "new_order"
      PROVE  order'[worker'[x].item] = "absent"
  <2>1. CASE x = w
    BY <1>1, <1>6, <2>1
  <2>2. CASE x # w
    <3>1. worker[x].at = "new_order" /\ worker[x].item \in Orders /\ worker'[x] = worker[x]
      BY <1>1, <1>6, <2>2 DEF AInv, TaskOK
    <3>2. order[worker[x].item] = "absent"
      BY <3>1 DEF HandsRight
    <3>3. ~ (worker[w].at = "new_order" /\ worker[w].item = worker[x].item)
      BY <2>2, <3>1 DEF HandsRight
    <3> QED
      BY <3>1, <3>2, <3>3
  <2> QED
    BY <2>1, <2>2
<1>7. ASSUME NEW x \in Workers, NEW y \in Workers \ {x},
             worker'[x].at = "new_order", worker'[y].at = "new_order"
      PROVE  worker'[y].item # worker'[x].item
  BY <1>1, <1>7 DEF HandsRight
<1>8. ASSUME NEW x \in Workers, worker'[x].item # NoItem, worker'[x].at # "new_order"
      PROVE  order'[OrderFor(worker'[x].item)] # "absent"
  <2>1. CASE x = w
    BY <1>1, <1>4, <1>8, <2>1
  <2>2. CASE x # w
    BY <1>1, <1>3, <1>8, <2>2 DEF HandsRight
  <2> QED
    BY <2>1, <2>2
<1>9. \A o \in sweep' : order'[o] # "absent"
  BY DEF HandsRight, AInv, TypeOK
<1>10. \A i : OrderFor(i)' = OrderFor(i)
  BY DEF OrderFor
<1> QED
  BY <1>5, <1>6, <1>7, <1>8, <1>9, <1>10 DEF HandsRight

\* A step that leaves the workers alone and closes only orders that are there.
LEMMA HandsClose ==
    ASSUME AInv, HandsRight, UNCHANGED worker,
           \A o \in Orders : \/ order'[o] = order[o]
                             \/ order[o] # "absent" /\ order'[o] = "invalid",
           \A o \in sweep' : o \in Orders /\ order'[o] # "absent"
    PROVE  HandsRight'
<1>1. \A x \in Workers : worker[x] \in Tasks /\ TaskOK(worker[x])
  BY DEF AInv, TypeOK
<1>2. \A x \in Workers : worker[x].item # NoItem => OrderFor(worker[x].item) \in Orders
  BY <1>1, OrderForType
<1>3. \A x \in Workers : worker[x].at = "new_order" => worker[x].item \in Orders
  BY <1>1 DEF TaskOK
<1> QED
  BY <1>2, <1>3 DEF HandsRight, OrderFor

\* The step of a worker that ends its request.
LEMMA EndsHands ==
    ASSUME AInv, HandsRight, NEW w \in Workers, Ends(w)
    PROVE  HandsRight'
<1>1. /\ Becomes(w, Idle) /\ sweep' \subseteq sweep
      /\ \A x \in Orders : RowMoves(w, x)
  BY EndsMove
<1>2. ASSUME NEW x \in Orders,
             \/ InProgress(w, x)
             \/ worker[w].at \in Whole /\ worker[w].item \in Items /\ OrderFor(worker[w].item) = x
      PROVE  order[x] # "absent"
  <2>1. worker[w].at # "new_order" /\ worker[w].item \in Items /\ OrderFor(worker[w].item) = x
    BY <1>2 DEF InProgress, HandsRight, Whole
  <2> QED
    BY <2>1 DEF HandsRight, Items
<1>3. \A x \in Orders : order[x] # "absent" => order'[x] # "absent"
  BY <1>1 DEF RowMoves, Settled
<1>4. \A x \in Orders : order[x] = "absent" /\ order'[x] # "absent" =>
                           worker[w].at = "new_order" /\ worker[w].item = x
  BY <1>1, <1>2 DEF RowMoves, Settled
<1>5. PICK t \in Tasks : t = Idle
  BY NoViewType
<1>6. t.at = "idle" /\ t.item = NoItem /\ t.view.order = "absent" /\ Becomes(w, t)
  BY <1>1, <1>5 DEF Idle, NoView
<1>7. t.at \notin Whole
  BY <1>6 DEF Whole
<1> QED
  BY <1>1, <1>3, <1>4, <1>6, <1>7, HandsStep

\* What a request that arrives has loaded.
LEMMA LoadHands ==
    ASSUME AInv, HandsRight, NEW w \in Workers, NEW request \in Loads, NEW i \in Items,
           Load(w, request, i)
    PROVE  HandsRight'
<1>0. request \in Requests \ {"new_order"}
  BY DEF Loads, Whole, Requests
<1>1. PICK o \in Orders : o = OrderFor(i)
  BY OrderForType
<1>2. order[o] # "absent"
  BY <1>1 DEF Load
<1>3. PICK v \in Views : v = View(request, i)
  BY <1>0, ViewSound DEF AInv
<1>4. request \in Whole <=> v.order # "absent"
  BY <1>1, <1>2, <1>3 DEF View, NoView, Whole
<1>5. PICK t \in Tasks : t = [at |-> request, item |-> i, view |-> v]
  BY <1>0
<1>6. Becomes(w, t) /\ order' = order /\ sweep' = sweep
  BY <1>3, <1>5 DEF Load, rows, NoMaintenance
<1>7. t.at = request /\ t.item = i /\ t.view = v
  BY <1>5
<1> QED
  BY <1>0, <1>1, <1>2, <1>4, <1>6, <1>7, HandsStep

\* A new order has a name that no other worker has in hand.
LEMMA BeginNewOrderHands ==
    ASSUME AInv, HandsRight, NEW w \in Workers, NEW o \in Orders, BeginNewOrder(w, o)
    PROVE  HandsRight'
<1>1. PICK t \in Tasks : t = [at |-> "new_order", item |-> o, view |-> NoView]
  BY NoViewType DEF Requests, Items
<1>2. t.at = "new_order" /\ t.item = o /\ t.view.order = "absent"
  BY <1>1 DEF NoView
<1>3. /\ Becomes(w, t) /\ order' = order /\ sweep' = sweep
      /\ order[o] = "absent" /\ \A x \in Workers : worker[x].item # o
  BY <1>1 DEF BeginNewOrder, rows, NoMaintenance
<1>4. t.at \notin Whole
  BY <1>2 DEF Whole
<1> QED
  BY <1>2, <1>3, <1>4, HandsStep

\* Taking an order and signing its certificate.
LEMMA SigningHands ==
    ASSUME AInv, HandsRight, NEW w \in Workers, TakeOrder(w) \/ IssueCertificate(w)
    PROVE  HandsRight'
<1>1. worker[w] \in Tasks /\ order \in [Orders -> OrderStatuses]
  BY DEF AInv, TypeOK
<1>2. worker[w].item \in Orders /\ order[worker[w].item] # "absent"
  BY DEF AInv, TaskOK, TakeOrder, IssueCertificate, HandsRight, OrderFor, Items
<1>3. CASE TakeOrder(w)
  <2>1. PICK t \in Tasks : t = [at |-> "signing", item |-> worker[w].item, view |-> NoView]
    BY <1>2, NoViewType DEF Requests, Items
  <2>2. t.at = "signing" /\ t.item = worker[w].item /\ t.view.order = "absent"
    BY <2>1 DEF NoView
  <2>3. /\ Becomes(w, t) /\ sweep' = sweep
        /\ order' = [order EXCEPT ![worker[w].item] = "processing"]
    BY <1>3, <2>1, TakeOrderMoves
  <2>4. t.at \notin Whole /\ OrderFor(t.item) = t.item
    BY <1>2, <2>2 DEF Whole, OrderFor
  <2>5. \A o \in Orders : order'[o] = order[o] \/ (order[o] # "absent" /\ order'[o] # "absent")
    BY <1>1, <1>2, <2>3
  <2> QED
    BY <1>2, <2>2, <2>3, <2>4, <2>5, HandsStep
<1>4. CASE IssueCertificate(w)
  <2>1. worker[w].at = "signing" /\ order' = order /\ sweep' = sweep
    BY <1>4 DEF IssueCertificate, NoMaintenance
  <2>2. PICK t \in Tasks : t = [worker[w] EXCEPT !.at = "linking"]
    BY <1>1 DEF Requests
  <2>3. Becomes(w, t) /\ t.at = "linking" /\ t.item = worker[w].item /\ t.view = worker[w].view
    BY <1>1, <1>4, <2>2 DEF IssueCertificate
  <2>4. t.view.order = "absent" /\ t.at \notin Whole /\ OrderFor(t.item) = t.item
    BY <1>2, <2>1, <2>3 DEF HandsRight, Whole, OrderFor
  <2> QED
    BY <1>2, <2>1, <2>3, <2>4, HandsStep
<1> QED
  BY <1>3, <1>4

\* Deactivation of the account, maintenance and time: orders that are there may close.
Outside ==
    \/ \E w \in Workers : DeactivateAccount(w)
    \/ BeginMaintain \/ Maintain
    \/ \E o \in Orders : Expires(o)
    \/ UNCHANGED vars

LEMMA OutsideCloses ==
    ASSUME AInv, HandsRight, Outside
    PROVE  /\ UNCHANGED <<worker, certs>>
           /\ sweep' \subseteq sweep \union Closable
           /\ \A o \in Orders : \/ order'[o] = order[o]
                                \/ /\ order[o] # "absent" /\ order'[o] = "invalid"
                                   /\ order[o] \in Settled => o \in sweep
<1>1. order \in [Orders -> OrderStatuses] /\ sweep \in SUBSET Orders
  BY DEF AInv, TypeOK
<1>2. CASE \E w \in Workers : DeactivateAccount(w)
  BY <1>1, <1>2 DEF DeactivateAccount, NoMaintenance, Settled
<1>3. CASE BeginMaintain
  BY <1>1, <1>3 DEF BeginMaintain, rows
<1>4. CASE Maintain
  BY <1>1, <1>4 DEF Maintain, HandsRight
<1>5. CASE \E o \in Orders : Expires(o)
  BY <1>1, <1>5 DEF Expires, rows, NoMaintenance
<1>6. CASE UNCHANGED vars
  BY <1>1, <1>6 DEF vars
<1> QED
  BY <1>2, <1>3, <1>4, <1>5, <1>6 DEF Outside

LEMMA OutsideHands ==
    ASSUME AInv, HandsRight, Outside
    PROVE  HandsRight'
<1>1. \A o \in Orders : order'[o] = order[o] \/ (order[o] # "absent" /\ order'[o] = "invalid")
  BY OutsideCloses
<1>2. \A o \in sweep' : o \in Orders /\ order[o] # "absent"
  BY OutsideCloses DEF Closable, HandsRight, AInv, TypeOK
<1> QED
  BY <1>1, <1>2, OutsideCloses, HandsClose

\* The kinds of steps.
LEMMA Kinds ==
    ASSUME Next \/ UNCHANGED vars
    PROVE  \/ \E w \in Workers, o \in Orders : BeginNewOrder(w, o)
           \/ \E w \in Workers, request \in Loads, i \in Items : Load(w, request, i)
           \/ \E w \in Workers : Ends(w) \/ TakeOrder(w) \/ IssueCertificate(w)
           \/ Outside
<1>1. ASSUME NEW w \in Workers, Proceed(w) PROVE Ends(w) \/ TakeOrder(w) \/ IssueCertificate(w)
  BY <1>1 DEF Proceed, Ends
<1>2. ASSUME NEW w \in Workers,
             ProfileMissing(w) \/ SignRefused(w) \/ SignFails(w) \/ Crash(w)
      PROVE  Ends(w)
  BY <1>2 DEF Ends
<1>3. ASSUME NEW w \in Workers,
             \/ \E o \in Orders : LoadOrder(w, o)
             \/ \E z \in Authzs : LoadAuthz(w, z)
             \/ \E h \in Challenges : LoadChallenge(w, h)
      PROVE  \E request \in Loads, i \in Items : Load(w, request, i)
  BY <1>3 DEF LoadOrder, LoadAuthz, LoadChallenge, Loads, Whole, Items
<1> QED
  BY <1>1, <1>2, <1>3 DEF Next, Outside

LEMMA InitHands == Init => HandsRight
BY DEF Init, HandsRight, Idle, NoView, Whole

LEMMA NextHands == AInv /\ HandsRight /\ [Next]_vars => HandsRight'
BY Kinds, LoadHands, BeginNewOrderHands, SigningHands, EndsHands, OutsideHands

\* A settled order that changes was found unsettled by somebody.
LEMMA NextSettled ==
    ASSUME AInv, HandsRight, [Next]_vars, NEW o \in Orders, order[o] \in {"valid", "invalid"},
           order'[o] # order[o]
    PROVE  o \in sweep \/ \E w \in Workers : InProgress(w, o) /\ worker'[w] # worker[w]
<1>1. worker \in [Workers -> Tasks] /\ order \in [Orders -> OrderStatuses]
  BY DEF AInv, TypeOK
<1>2. ASSUME NEW w \in Workers, NEW x \in Orders, BeginNewOrder(w, x) PROVE FALSE
  BY <1>2 DEF BeginNewOrder, rows
<1>3. ASSUME NEW w \in Workers, NEW request, NEW i, Load(w, request, i) PROVE FALSE
  BY <1>3 DEF Load, rows
<1>4. ASSUME NEW w \in Workers, Ends(w) PROVE InProgress(w, o) /\ worker'[w] # worker[w]
  <2>1. RowMoves(w, o) /\ Becomes(w, Idle) /\ worker[w] # Idle
    BY <1>4, EndsMove
  <2>2. worker'[w] # worker[w]
    BY <1>1, <2>1 DEF Becomes
  <2>3. InProgress(w, o)
    BY <2>1 DEF RowMoves, Settled, InProgress
  <2> QED
    BY <2>2, <2>3
<1>5. ASSUME NEW w \in Workers, TakeOrder(w) PROVE InProgress(w, o) /\ worker'[w] # worker[w]
  <2>1. o = worker[w].item
    BY <1>1, <1>5, TakeOrderMoves
  <2>2. InProgress(w, o)
    BY <1>5, <2>1, TakeOrderMoves DEF InProgress, OrderFor, Items
  <2>3. worker'[w].at = "signing" /\ worker[w].at = "finalize"
    BY <1>1, <1>5, TakeOrderMoves DEF Becomes
  <2> QED
    BY <2>2, <2>3
<1>6. ASSUME NEW w \in Workers, IssueCertificate(w) PROVE FALSE
  BY <1>6 DEF IssueCertificate
<1>7. ASSUME Outside PROVE o \in sweep
  BY <1>7, OutsideCloses DEF Settled
<1> QED
  BY <1>2, <1>3, <1>4, <1>5, <1>6, <1>7, Kinds
-----------------------------------------------------------------------------
(***************************************************************************)
(* How many certificates that may cost. A session whose view still calls   *)
(* the order pending can make it ready once more, and with every such      *)
(* session that ends there is one less; of the others, each may hold a     *)
(* view that is ready, or be signing, only once while the order is ready.  *)
(***************************************************************************)

\* A task that can make order o ready again, one that is signing for it, and one that holds a
\* view of it with which it may take it.
Waits(t, o) == t.at \in Whole /\ OrderFor(t.item) = o /\ t.view.order = "pending"
Signs(t, o) == t.at = "signing" /\ t.item = o
Holds(t, o) == t.at = "finalize" /\ t.item = o /\ t.view.order = "ready"

Signing(o) == {w \in Workers : Signs(worker[w], o)}
Holding(o) == {w \in Workers : Holds(worker[w], o)}
Spent(o) == {w \in Workers : ~Waits(worker[w], o)}

\* An order in status s with c certificates, g workers that sign, h that hold a ready view and q
\* that wait no more. While the order is ready, those that will read it as ready are not counted
\* yet, but there are no more of them than q.
Fits(s, c, g, h, q) ==
    /\ s \in {"absent", "pending"} => c + g + h = 0
    /\ s = "ready" => 2 * (c + g) + q <= q * q
    /\ s \in {"processing", "valid", "invalid"} => 2 * (c + g + h) <= q * q + q

CountInv ==
    \A o \in Orders :
        Fits(order[o], certs[o], Cardinality(Signing(o)), Cardinality(Holding(o)),
             Cardinality(Spent(o)))

\* The arithmetic of a request that ends: it may have been one that waits, signs or holds.
LEMMA FitsEnds ==
    ASSUME NEW s \in OrderStatuses, NEW r \in OrderStatuses, NEW c \in Nat,
           NEW g \in Nat, NEW h \in Nat, NEW q \in Nat,
           NEW g1 \in Nat, NEW h1 \in Nat, NEW q1 \in Nat,
           Fits(s, c, g, h, q), g + h <= q, g1 = g \/ g = g1 + 1, h1 = h \/ h = h1 + 1,
           q1 = q \/ q1 = q + 1,
           \/ r = s \/ r \in Settled
           \/ s = "absent" /\ r = "pending"
           \/ r = "ready" /\ (s = "pending" \/ q1 = q + 1)
    PROVE  Fits(r, c, g1, h1, q1)
<1>1. (q + 1) * (q + 1) = q * q + 2 * q + 1 /\ q * q \in Nat /\ q1 * q1 \in Nat
  OBVIOUS
<1>2. \/ q1 * q1 = q * q /\ q1 = q
      \/ q1 * q1 = q * q + 2 * q + 1 /\ q1 = q + 1
  BY <1>1
<1>3. q <= q * q
  OBVIOUS
<1>4. PICK k \in Nat : k = q * q
  BY <1>1
<1>5. PICK k1 \in Nat : k1 = q1 * q1
  BY <1>1
<1>6. /\ q <= k
      /\ \/ k1 = k /\ q1 = q
         \/ k1 = k + 2 * q + 1 /\ q1 = q + 1
  BY <1>2, <1>3, <1>4, <1>5
<1>7. /\ s \in {"absent", "pending"} => c + g + h = 0
      /\ s = "ready" => 2 * (c + g) + q <= k
      /\ s \in {"processing", "valid", "invalid"} => 2 * (c + g + h) <= k + q
  BY <1>4 DEF Fits
<1>8. r \in {"absent", "pending"} => c + g1 + h1 = 0
  BY <1>7 DEF Settled
<1>9. r = "ready" => 2 * (c + g1) + q1 <= k1
  BY <1>6, <1>7 DEF Settled, OrderStatuses
<1>10. r \in {"processing", "valid", "invalid"} => 2 * (c + g1 + h1) <= k1 + q1
  BY <1>6, <1>7 DEF Settled, OrderStatuses
<1> QED
  BY <1>5, <1>8, <1>9, <1>10 DEF Fits

\* The arithmetic of a finalize that takes the order, from either kind of view.
LEMMA FitsTakes ==
    ASSUME NEW s \in OrderStatuses, NEW c \in Nat, NEW g \in Nat, NEW h \in Nat, NEW q \in Nat,
           NEW g1 \in Nat, NEW h1 \in Nat, NEW q1 \in Nat,
           Fits(s, c, g, h, q), g + h <= q, g1 = g + 1,
           \/ q1 = q + 1 /\ h1 = h
           \/ q1 = q /\ h = h1 + 1
    PROVE  Fits("processing", c, g1, h1, q1)
<1>1. (q + 1) * (q + 1) = q * q + 2 * q + 1 /\ q * q \in Nat /\ q1 * q1 \in Nat
  OBVIOUS
<1>2. \/ q1 * q1 = q * q /\ q1 = q
      \/ q1 * q1 = q * q + 2 * q + 1 /\ q1 = q + 1
  BY <1>1
<1>3. PICK k \in Nat : k = q * q
  BY <1>1
<1>4. PICK k1 \in Nat : k1 = q1 * q1
  BY <1>1
<1>5. \/ k1 = k /\ q1 = q /\ h = h1 + 1
      \/ k1 = k + 2 * q + 1 /\ q1 = q + 1 /\ h1 = h
  BY <1>2, <1>3, <1>4
<1>6. /\ s \in {"absent", "pending"} => c + g + h = 0
      /\ s = "ready" => 2 * (c + g) + q <= k
      /\ s \in {"processing", "valid", "invalid"} => 2 * (c + g + h) <= k + q
  BY <1>3 DEF Fits
<1>7. 2 * (c + g1 + h1) <= k1 + q1
  BY <1>5, <1>6 DEF OrderStatuses
<1> QED
  BY <1>4, <1>7 DEF Fits

\* The arithmetic of a certificate: a worker that was signing for the order is no longer.
LEMMA FitsIssues ==
    ASSUME NEW s \in OrderStatuses, NEW c \in Nat, NEW g \in Nat, NEW h \in Nat, NEW q \in Nat,
           NEW g1 \in Nat, Fits(s, c, g, h, q), g = g1 + 1
    PROVE  Fits(s, c + 1, g1, h, q)
<1>1. PICK k \in Int : k = q * q
  OBVIOUS
<1> QED
  BY <1>1 DEF Fits, OrderStatuses

\* The arithmetic of a load: one more that holds while the order is ready, one less that waits no
\* more while it is pending.
LEMMA FitsLoads ==
    ASSUME NEW s \in OrderStatuses, NEW c \in Nat, NEW g \in Nat, NEW h \in Nat, NEW q \in Nat,
           NEW h1 \in Nat, NEW q1 \in Nat, Fits(s, c, g, h, q),
           h1 = h \/ s = "ready", q1 = q \/ s = "pending"
    PROVE  Fits(s, c, g, h1, q1)
<1>1. PICK k \in Int : k = q * q
  OBVIOUS
<1>2. PICK k1 \in Int : k1 = q1 * q1
  OBVIOUS
<1>3. q1 = q => k1 = k
  BY <1>1, <1>2
<1> QED
  BY <1>1, <1>2, <1>3 DEF Fits, OrderStatuses

\* A set of workers that one worker leaves or joins.
LEMMA OneInOut ==
    ASSUME NEW A \in SUBSET Workers, NEW B \in SUBSET Workers, NEW w \in Workers,
           \A x \in Workers \ {w} : x \in A <=> x \in B
    PROVE  /\ Cardinality(A) \in Nat /\ Cardinality(B) \in Nat
           /\ (w \in A <=> w \in B) => Cardinality(B) = Cardinality(A)
           /\ w \in A /\ w \notin B => Cardinality(A) = Cardinality(B) + 1
           /\ w \notin A /\ w \in B => Cardinality(B) = Cardinality(A) + 1
<1>1. IsFiniteSet(A) /\ IsFiniteSet(B)
  BY WorkersAssumption, FS_Subset
<1>2. Cardinality(A) \in Nat /\ Cardinality(B) \in Nat
  BY <1>1, FS_CardinalityType
<1>3. ASSUME w \in A <=> w \in B PROVE Cardinality(B) = Cardinality(A)
  <2>1. A = B
    BY <1>3
  <2> QED
    BY <2>1
<1>4. ASSUME w \in A, w \notin B PROVE Cardinality(A) = Cardinality(B) + 1
  <2>1. A = B \union {w}
    BY <1>4
  <2> QED
    BY <1>1, <1>4, <2>1, FS_AddElement
<1>5. ASSUME w \notin A, w \in B PROVE Cardinality(B) = Cardinality(A) + 1
  <2>1. B = A \union {w}
    BY <1>5
  <2> QED
    BY <1>1, <1>5, <2>1, FS_AddElement
<1> QED
  BY <1>2, <1>3, <1>4, <1>5

\* Nobody that signs or holds waits.
LEMMA SpentEnough ==
    ASSUME NEW o \in Orders
    PROVE  /\ Cardinality(Signing(o)) \in Nat /\ Cardinality(Holding(o)) \in Nat
           /\ Cardinality(Spent(o)) \in Nat
           /\ Cardinality(Signing(o)) + Cardinality(Holding(o)) <= Cardinality(Spent(o))
           /\ Cardinality(Spent(o)) <= Cardinality(Workers)
<1>1. Signing(o) \in SUBSET Workers /\ Holding(o) \in SUBSET Workers /\ Spent(o) \in SUBSET Workers
  BY DEF Signing, Holding, Spent
<1>2. /\ IsFiniteSet(Signing(o)) /\ IsFiniteSet(Holding(o)) /\ IsFiniteSet(Spent(o))
      /\ IsFiniteSet(Workers) /\ Cardinality(Spent(o)) <= Cardinality(Workers)
  BY <1>1, WorkersAssumption, FS_Subset
<1>3. /\ Cardinality(Signing(o)) \in Nat /\ Cardinality(Holding(o)) \in Nat
      /\ Cardinality(Spent(o)) \in Nat
  BY <1>2, FS_CardinalityType
<1>4. Signing(o) \intersect Holding(o) = {}
  BY DEF Signing, Holding, Signs, Holds
<1>5. Cardinality(Signing(o) \union Holding(o)) = Cardinality(Signing(o)) + Cardinality(Holding(o))
  <2>1. Cardinality(Signing(o) \intersect Holding(o)) = 0
    BY <1>4, FS_EmptySet
  <2> HIDE DEF Signing, Holding
  <2>2. Cardinality(Signing(o) \union Holding(o)) =
          Cardinality(Signing(o)) + Cardinality(Holding(o))
          - Cardinality(Signing(o) \intersect Holding(o))
    BY <1>2, FS_Union
  <2> QED
    BY <1>3, <2>1, <2>2
<1>6. Signing(o) \union Holding(o) \subseteq Spent(o)
  BY DEF Signing, Holding, Spent, Signs, Holds, Waits, Whole
<1>7. Cardinality(Signing(o) \union Holding(o)) <= Cardinality(Spent(o))
  BY <1>2, <1>6, FS_Subset
<1> QED
  BY <1>2, <1>3, <1>5, <1>7

\* What a worker that goes from one task to another does to the counts of an order.
LEMMA CountsMove ==
    ASSUME AInv, NEW w \in Workers, NEW t \in Tasks, Becomes(w, t), NEW o \in Orders,
           NEW u \in Tasks, u = worker[w]
    PROVE  /\ /\ Cardinality(Signing(o))' \in Nat
              /\ Cardinality(Holding(o))' \in Nat
              /\ Cardinality(Spent(o))' \in Nat
           /\ /\ (Signs(u, o) <=> Signs(t, o)) => Cardinality(Signing(o))' = Cardinality(Signing(o))
              /\ Signs(u, o) /\ ~Signs(t, o) =>
                    Cardinality(Signing(o)) = Cardinality(Signing(o))' + 1
              /\ ~Signs(u, o) /\ Signs(t, o) =>
                    Cardinality(Signing(o))' = Cardinality(Signing(o)) + 1
           /\ /\ (Holds(u, o) <=> Holds(t, o)) => Cardinality(Holding(o))' = Cardinality(Holding(o))
              /\ Holds(u, o) /\ ~Holds(t, o) =>
                    Cardinality(Holding(o)) = Cardinality(Holding(o))' + 1
              /\ ~Holds(u, o) /\ Holds(t, o) =>
                    Cardinality(Holding(o))' = Cardinality(Holding(o)) + 1
           /\ /\ (Waits(u, o) <=> Waits(t, o)) => Cardinality(Spent(o))' = Cardinality(Spent(o))
              /\ Waits(u, o) /\ ~Waits(t, o) => Cardinality(Spent(o))' = Cardinality(Spent(o)) + 1
<1>1. \A x \in Workers : worker'[x] = IF x = w THEN t ELSE worker[x]
  BY DEF AInv, TypeOK, Becomes
<1>2. PICK A \in SUBSET Workers : A = Signing(o)
  BY DEF Signing
<1>3. PICK B \in SUBSET Workers : B = Signing(o)'
  BY DEF Signing
<1>4. /\ \A x \in Workers \ {w} : x \in A <=> x \in B
      /\ (w \in A <=> Signs(u, o)) /\ (w \in B <=> Signs(t, o))
  BY <1>1, <1>2, <1>3 DEF Signing, Signs
<1>5. PICK C \in SUBSET Workers : C = Holding(o)
  BY DEF Holding
<1>6. PICK D \in SUBSET Workers : D = Holding(o)'
  BY DEF Holding
<1>7. /\ \A x \in Workers \ {w} : x \in C <=> x \in D
      /\ (w \in C <=> Holds(u, o)) /\ (w \in D <=> Holds(t, o))
  BY <1>1, <1>5, <1>6 DEF Holding, Holds
<1>8. PICK E \in SUBSET Workers : E = Spent(o)
  BY DEF Spent
<1>9. PICK F \in SUBSET Workers : F = Spent(o)'
  BY DEF Spent
<1>10. /\ \A x \in Workers \ {w} : x \in E <=> x \in F
       /\ (w \in E <=> ~Waits(u, o)) /\ (w \in F <=> ~Waits(t, o))
  BY <1>1, <1>8, <1>9 DEF Spent, Waits, OrderFor
<1>11. Cardinality(Signing(o))' = Cardinality(B)
  BY <1>3
<1>12. Cardinality(Holding(o))' = Cardinality(D) /\ Cardinality(Spent(o))' = Cardinality(F)
  BY <1>6, <1>9
<1>13. /\ Cardinality(B) \in Nat
       /\ (w \in A <=> w \in B) => Cardinality(B) = Cardinality(A)
       /\ w \in A /\ w \notin B => Cardinality(A) = Cardinality(B) + 1
       /\ w \notin A /\ w \in B => Cardinality(B) = Cardinality(A) + 1
  BY <1>4, OneInOut
<1>14. /\ Cardinality(D) \in Nat
       /\ (w \in C <=> w \in D) => Cardinality(D) = Cardinality(C)
       /\ w \in C /\ w \notin D => Cardinality(C) = Cardinality(D) + 1
       /\ w \notin C /\ w \in D => Cardinality(D) = Cardinality(C) + 1
  BY <1>7, OneInOut
<1>15. /\ Cardinality(F) \in Nat
       /\ (w \in E <=> w \in F) => Cardinality(F) = Cardinality(E)
       /\ w \notin E /\ w \in F => Cardinality(F) = Cardinality(E) + 1
  BY <1>10, OneInOut
<1>16. /\ Cardinality(Signing(o)) = Cardinality(A)
       /\ Cardinality(Holding(o)) = Cardinality(C)
       /\ Cardinality(Spent(o)) = Cardinality(E)
  BY <1>2, <1>5, <1>8
<1> HIDE DEF Signing, Holding, Spent
<1> QED
  BY <1>4, <1>7, <1>10, <1>11, <1>12, <1>13, <1>14, <1>15, <1>16

\* An idle worker does nothing for any order.
LEMMA IdleCountsNothing ==
    ASSUME NEW o \in Orders
    PROVE  ~Signs(Idle, o) /\ ~Holds(Idle, o) /\ ~Waits(Idle, o)
BY DEF Signs, Holds, Waits, Idle, Whole

\* A request that ends.
LEMMA EndsCount ==
    ASSUME AInv, HandsRight, CountInv, NEW w \in Workers, Ends(w)
    PROVE  CountInv'
<1>1. /\ Becomes(w, Idle) /\ certs' = certs
      /\ \A x \in Orders : RowMoves(w, x)
  BY EndsMove
<1>2. PICK u \in Tasks : u = worker[w]
  BY DEF AInv, TypeOK
<1>3. PICK t \in Tasks : t = Idle
  BY NoViewType
<1>4. ASSUME NEW o \in Orders
      PROVE  Fits(order'[o], certs'[o], Cardinality(Signing(o))', Cardinality(Holding(o))',
                  Cardinality(Spent(o))')
  <2>1. ~Signs(t, o) /\ ~Holds(t, o) /\ ~Waits(t, o)
    BY <1>3, IdleCountsNothing
  <2> DEFINE g == Cardinality(Signing(o))
             h == Cardinality(Holding(o))
             q == Cardinality(Spent(o))
  <2>2. Becomes(w, t)
    BY <1>1, <1>3
  <2>3. /\ g' \in Nat /\ h' \in Nat /\ q' \in Nat
        /\ g' = g \/ g = g' + 1
        /\ h' = h \/ h = h' + 1
        /\ q' = q \/ q' = q + 1
        /\ Waits(u, o) => q' = q + 1
    BY <1>2, <2>1, <2>2, CountsMove
  <2>4. g \in Nat /\ h \in Nat /\ q \in Nat /\ g + h <= q
    BY SpentEnough
  <2>5. Fits(order[o], certs[o], g, h, q)
    BY DEF CountInv
  <2>6. order[o] \in OrderStatuses /\ certs[o] \in Nat /\ order'[o] \in OrderStatuses
    <3>1. TypeOK
      BY DEF AInv
    <3>2. RowMoves(w, o)
      BY <1>1
    <3> QED
      BY <3>1, <3>2 DEF TypeOK, RowMoves, OrderStatuses, Settled
  <2> HIDE DEF g, h, q
  <2>7. \/ order'[o] = order[o] \/ order'[o] \in Settled
        \/ order[o] = "absent" /\ order'[o] = "pending"
        \/ order'[o] = "ready" /\ (order[o] = "pending" \/ Waits(u, o))
    BY <1>1, <1>2 DEF RowMoves, Settled, Waits
  <2>8. \/ order'[o] = order[o] \/ order'[o] \in Settled
        \/ order[o] = "absent" /\ order'[o] = "pending"
        \/ order'[o] = "ready" /\ (order[o] = "pending" \/ q' = q + 1)
    BY <2>3, <2>7
  <2>9. Fits(order'[o], certs[o], g', h', q')
    BY <2>3, <2>4, <2>5, <2>6, <2>8, FitsEnds
  <2> QED
    BY <1>1, <2>9 DEF g, h, q
<1> QED
  BY <1>4 DEF CountInv, Fits

\* A finalize that takes its order.
LEMMA TakeOrderCount ==
    ASSUME AInv, HandsRight, CountInv, NEW w \in Workers, TakeOrder(w)
    PROVE  CountInv'
<1>1. PICK u \in Tasks : u = worker[w]
  BY DEF AInv, TypeOK
<1>2. PICK y \in Orders : y = u.item
  BY <1>1, TakeOrderMoves
<1>3. PICK t \in Tasks : t = [at |-> "signing", item |-> y, view |-> NoView]
  BY NoViewType DEF Requests, Items
<1>4. /\ u.at = "finalize" /\ u.view.order \in {"pending", "ready"}
      /\ order' = [order EXCEPT ![y] = "processing"]
      /\ Becomes(w, t) /\ certs' = certs
  BY <1>1, <1>2, <1>3, TakeOrderMoves
<1>5. ASSUME NEW o \in Orders
      PROVE  Fits(order'[o], certs'[o], Cardinality(Signing(o))', Cardinality(Holding(o))',
                  Cardinality(Spent(o))')
  <2> DEFINE g == Cardinality(Signing(o))
             h == Cardinality(Holding(o))
             q == Cardinality(Spent(o))
  <2>1. g \in Nat /\ h \in Nat /\ q \in Nat /\ g + h <= q
    BY SpentEnough
  <2>2. Fits(order[o], certs[o], g, h, q)
    BY DEF CountInv
  <2>3. order \in [Orders -> OrderStatuses] /\ certs[o] \in Nat
    BY DEF AInv, TypeOK
  <2>4. g' \in Nat /\ h' \in Nat /\ q' \in Nat
    BY <1>1, <1>4, CountsMove
  <2>5. ~Holds(t, o) /\ ~Waits(t, o) /\ ~Signs(u, o) /\ OrderFor(y) = y
    BY <1>3, <1>4 DEF Holds, Waits, Whole, Signs, OrderFor
  <2>6. CASE o = y
    <3>1. Signs(t, o)
      BY <1>3, <2>6 DEF Signs
    <3>2. \/ u.view.order = "pending" /\ Waits(u, o) /\ ~Holds(u, o)
          \/ u.view.order = "ready" /\ Holds(u, o) /\ ~Waits(u, o)
      BY <1>2, <1>4, <2>5, <2>6 DEF Holds, Waits, Whole
    <3>3. g' = g + 1
      BY <1>1, <1>4, <2>5, <3>1, CountsMove
    <3>4. \/ q' = q + 1 /\ h' = h
          \/ q' = q /\ h = h' + 1
      BY <1>1, <1>4, <2>5, <3>2, CountsMove
    <3> HIDE DEF g, h, q
    <3>5. Fits("processing", certs[o], g', h', q')
      BY <2>1, <2>2, <2>3, <2>4, <3>3, <3>4, FitsTakes
    <3> QED
      BY <1>4, <2>3, <2>6, <3>5 DEF g, h, q
  <2>7. CASE o # y
    <3>1. ~Signs(t, o) /\ ~Holds(u, o) /\ ~Waits(u, o)
      BY <1>2, <1>3, <1>4, <2>5, <2>7 DEF Signs, Holds, Waits
    <3>2. g' = g /\ h' = h /\ q' = q
      BY <1>1, <1>4, <2>5, <3>1, CountsMove
    <3>3. order'[o] = order[o] /\ certs'[o] = certs[o]
      BY <1>4, <2>3, <2>7
    <3> QED
      BY <2>2, <3>2, <3>3
  <2> QED
    BY <2>6, <2>7
<1> QED
  BY <1>5 DEF CountInv, Fits

\* A certificate is issued.
LEMMA IssueCount ==
    ASSUME AInv, HandsRight, CountInv, NEW w \in Workers, IssueCertificate(w)
    PROVE  CountInv'
<1>1. PICK u \in Tasks : u = worker[w]
  BY DEF AInv, TypeOK
<1>2. PICK t \in Tasks : t = [u EXCEPT !.at = "linking"]
  BY DEF Requests
<1>3. PICK y \in Orders : y = u.item
  BY <1>1 DEF AInv, TaskOK, IssueCertificate
<1>4. /\ u.at = "signing" /\ order' = order /\ certs' = [certs EXCEPT ![y] = @ + 1]
      /\ Becomes(w, t) /\ t.at = "linking"
  BY <1>1, <1>2, <1>3 DEF IssueCertificate
<1>5. ASSUME NEW o \in Orders
      PROVE  Fits(order'[o], certs'[o], Cardinality(Signing(o))', Cardinality(Holding(o))',
                  Cardinality(Spent(o))')
  <2> DEFINE g == Cardinality(Signing(o))
             h == Cardinality(Holding(o))
             q == Cardinality(Spent(o))
  <2>1. g \in Nat /\ h \in Nat /\ q \in Nat
    BY SpentEnough
  <2>2. Fits(order[o], certs[o], g, h, q)
    BY DEF CountInv
  <2>3. order[o] \in OrderStatuses /\ certs \in [Orders -> Nat]
    BY DEF AInv, TypeOK
  <2>4. /\ ~Holds(t, o) /\ ~Waits(t, o) /\ ~Signs(t, o)
        /\ ~Holds(u, o) /\ ~Waits(u, o) /\ (Signs(u, o) <=> o = y)
    BY <1>3, <1>4 DEF Holds, Waits, Whole, Signs
  <2>5. g' \in Nat /\ h' = h /\ q' = q
    BY <1>1, <1>4, <2>4, CountsMove
  <2>6. CASE o = y
    <3>1. g = g' + 1
      BY <1>1, <1>4, <2>4, <2>6, CountsMove
    <3> HIDE DEF g, h, q
    <3>2. Fits(order[o], certs[o] + 1, g', h, q)
      BY <2>1, <2>2, <2>3, <2>5, <3>1, FitsIssues
    <3>3. order'[o] = order[o] /\ certs'[o] = certs[o] + 1
      BY <1>4, <2>3, <2>6
    <3> QED
      BY <2>5, <3>2, <3>3 DEF g, h, q
  <2>7. CASE o # y
    <3>1. g' = g
      BY <1>1, <1>4, <2>4, <2>7, CountsMove
    <3>2. order'[o] = order[o] /\ certs'[o] = certs[o]
      BY <1>4, <2>3, <2>7
    <3> QED
      BY <2>2, <2>5, <3>1, <3>2
  <2> QED
    BY <2>6, <2>7
<1> QED
  BY <1>5 DEF CountInv, Fits

\* A request that loads its rows, or a new order, which has none.
LEMMA LoadCount ==
    ASSUME AInv, CountInv, NEW w \in Workers, NEW t \in Tasks, worker[w] = Idle, Becomes(w, t),
           order' = order, certs' = certs,
           \A o \in Orders : /\ ~Signs(t, o)
                             /\ Waits(t, o) => order[o] = "pending"
                             /\ Holds(t, o) => order[o] = "ready"
    PROVE  CountInv'
<1>1. PICK u \in Tasks : u = worker[w]
  BY DEF AInv, TypeOK
<1>2. ASSUME NEW o \in Orders
      PROVE  Fits(order'[o], certs'[o], Cardinality(Signing(o))', Cardinality(Holding(o))',
                  Cardinality(Spent(o))')
  <2> DEFINE g == Cardinality(Signing(o))
             h == Cardinality(Holding(o))
             q == Cardinality(Spent(o))
  <2>1. g \in Nat /\ h \in Nat /\ q \in Nat
    BY SpentEnough
  <2>2. Fits(order[o], certs[o], g, h, q)
    BY DEF CountInv
  <2>3. order[o] \in OrderStatuses /\ certs[o] \in Nat
    BY DEF AInv, TypeOK
  <2>4. ~Signs(u, o) /\ ~Holds(u, o) /\ ~Waits(u, o)
    BY <1>1, IdleCountsNothing
  <2>5. /\ g' = g /\ h' \in Nat /\ q' \in Nat
        /\ h' = h \/ order[o] = "ready"
        /\ q' = q \/ order[o] = "pending"
    BY <1>1, <2>4, CountsMove
  <2> HIDE DEF g, h, q
  <2>6. Fits(order[o], certs[o], g, h', q')
    BY <2>1, <2>2, <2>3, <2>5, FitsLoads
  <2> QED
    BY <2>5, <2>6 DEF g, h, q
<1> QED
  BY <1>2 DEF CountInv, Fits

\* What arrives is counted by what it has loaded.
LEMMA ArrivalsCount ==
    ASSUME AInv, CountInv, NEW w \in Workers,
           \/ \E o \in Orders : BeginNewOrder(w, o)
           \/ \E request \in Loads, i \in Items : Load(w, request, i)
    PROVE  CountInv'
<1>1. ASSUME NEW y \in Orders, BeginNewOrder(w, y) PROVE CountInv'
  <2>1. PICK t \in Tasks : t = [at |-> "new_order", item |-> y, view |-> NoView]
    BY NoViewType DEF Requests, Items
  <2>2. /\ worker[w] = Idle /\ Becomes(w, t) /\ order' = order /\ certs' = certs
    BY <1>1, <2>1 DEF BeginNewOrder, rows
  <2>3. \A o \in Orders : ~Signs(t, o) /\ ~Waits(t, o) /\ ~Holds(t, o)
    BY <2>1 DEF Signs, Waits, Holds, Whole
  <2> QED
    BY <2>2, <2>3, LoadCount
<1>2. ASSUME NEW request \in Loads, NEW i \in Items, Load(w, request, i) PROVE CountInv'
  <2>1. request \in Requests
    BY DEF Loads, Whole, Requests
  <2>2. PICK v \in Views : v = View(request, i)
    BY <2>1, ViewSound DEF AInv
  <2>3. PICK t \in Tasks : t = [at |-> request, item |-> i, view |-> v]
    BY <2>1
  <2>4. worker[w] = Idle /\ Becomes(w, t) /\ order' = order /\ certs' = certs
    BY <1>2, <2>2, <2>3 DEF Load, rows
  <2>5. v.order \in {order[OrderFor(i)], "absent"}
    BY <2>2 DEF View, NoView
  <2>6. ASSUME NEW o \in Orders
        PROVE  /\ ~Signs(t, o)
               /\ Waits(t, o) => order[o] = "pending"
               /\ Holds(t, o) => order[o] = "ready"
    BY <2>3, <2>5 DEF Signs, Waits, Holds, Loads, Whole, OrderFor
  <2> QED
    BY <2>4, <2>6, LoadCount
<1> QED
  BY <1>1, <1>2

\* What closes from outside leaves every count as it is.
LEMMA OutsideCount ==
    ASSUME AInv, HandsRight, CountInv, Outside
    PROVE  CountInv'
<1>1. UNCHANGED <<worker, certs>> /\ \A o \in Orders : order'[o] \in {order[o], "invalid"}
  BY OutsideCloses
<1>2. ASSUME NEW o \in Orders
      PROVE  Fits(order'[o], certs'[o], Cardinality(Signing(o))', Cardinality(Holding(o))',
                  Cardinality(Spent(o))')
  <2>1. /\ Signing(o)' = Signing(o) /\ Holding(o)' = Holding(o) /\ Spent(o)' = Spent(o)
    BY <1>1 DEF Signing, Holding, Spent, Signs, Holds, Waits, OrderFor
  <2> DEFINE g == Cardinality(Signing(o))
             h == Cardinality(Holding(o))
             q == Cardinality(Spent(o))
  <2>2. g \in Nat /\ h \in Nat /\ q \in Nat /\ g + h <= q
    BY SpentEnough
  <2>3. Fits(order[o], certs[o], g, h, q)
    BY DEF CountInv
  <2>4. order[o] \in OrderStatuses /\ certs[o] \in Nat
    BY DEF AInv, TypeOK
  <2>5. order'[o] \in OrderStatuses /\ (order'[o] = order[o] \/ order'[o] \in Settled)
    BY <1>1, <2>4 DEF Settled, OrderStatuses
  <2> HIDE DEF g, h, q
  <2>6. Fits(order'[o], certs[o], g, h, q)
    BY <2>2, <2>3, <2>4, <2>5, FitsEnds
  <2> QED
    BY <1>1, <2>1, <2>6 DEF g, h, q
<1> QED
  BY <1>2 DEF CountInv, Fits

LEMMA InitCount == Init => CountInv
<1> SUFFICES ASSUME Init, NEW o \in Orders
             PROVE  Fits(order[o], certs[o], Cardinality(Signing(o)), Cardinality(Holding(o)),
                         Cardinality(Spent(o)))
  BY DEF CountInv
<1>1. Signing(o) = {} /\ Holding(o) = {}
  BY IdleCountsNothing DEF Init, Signing, Holding
<1>2. Cardinality(Signing(o)) = 0 /\ Cardinality(Holding(o)) = 0
  BY <1>1, FS_EmptySet
<1> QED
  BY <1>2 DEF Init, Fits

LEMMA NextCount == AInv /\ HandsRight /\ CountInv /\ [Next]_vars => CountInv'
BY Kinds, ArrivalsCount, EndsCount, TakeOrderCount, IssueCount, OutsideCount

\* The counts bound the certificates: no more workers have ended their waiting than there are.
LEMMA CountBounds == AInv /\ CountInv => CertificatesBounded
<1> SUFFICES ASSUME AInv, CountInv, NEW o \in Orders
             PROVE  certs[o] <= (Cardinality(Workers) * (Cardinality(Workers) + 1)) \div 2
  BY DEF CertificatesBounded
<1>1. PICK n \in Nat : n = Cardinality(Workers)
  BY WorkersAssumption, FS_CardinalityType
<1>2. PICK q \in Nat : q = Cardinality(Spent(o)) /\ q <= n
  BY <1>1, SpentEnough
<1>3. PICK g \in Nat : g = Cardinality(Signing(o))
  BY SpentEnough
<1>4. PICK h \in Nat : h = Cardinality(Holding(o))
  BY SpentEnough
<1>5. Fits(order[o], certs[o], g, h, q)
  BY <1>2, <1>3, <1>4 DEF CountInv
<1>6. order[o] \in OrderStatuses
  BY DEF AInv, TypeOK
<1>7. PICK c \in Nat : c = certs[o]
  BY DEF AInv, TypeOK
<1>8. q * q <= n * n /\ q * q \in Nat /\ n * n \in Nat
  BY <1>2
<1>9. 2 * c <= q * q + q
  BY <1>5, <1>6, <1>7, <1>8 DEF Fits, OrderStatuses
<1>10. 2 * c <= n * n + n
  BY <1>2, <1>8, <1>9
<1>11. n * (n + 1) = n * n + n
  OBVIOUS
<1>12. PICK m \in Nat : m = n * (n + 1)
  BY <1>8, <1>11
<1>13. 2 * c <= m
  BY <1>8, <1>10, <1>11, <1>12
<1>14. c <= m \div 2
  BY <1>13
<1> QED
  BY <1>1, <1>7, <1>12, <1>14
-----------------------------------------------------------------------------
(***************************************************************************)
(* The theorems                                                            *)
(***************************************************************************)

\* The rows and the sessions that hold them never say more than lookups have proven.
THEOREM Invariance == Spec => []AInv
<1> QED
  BY InitAInv, NextAInv, PTL DEF Spec

\* Every variable of the ACME server keeps its type (models/acme.py).
THEOREM TypeCorrect == Spec => []TypeOK
<1>1. AInv => TypeOK
  BY DEF AInv
<1> QED
  BY <1>1, Invariance, PTL

\* No order is ready, in processing or valid, and none has led to a certificate, unless every one
\* of its names was proven by a lookup (refresh_order, respond_challenge, finalize).
THEOREM AuthorizedBeforeIssueHolds == Spec => []AuthorizedBeforeIssue
<1>1. AInv => AuthorizedBeforeIssue
  BY DEF AInv, RowsWithin, AuthorizedBeforeIssue, Taken
<1> QED
  BY <1>1, Invariance, PTL

\* No dns-01 challenge is looked up more often than ACME_DNS01_MAX_ATTEMPTS, and none that waits for
\* another lookup has used them up, whatever stale sessions write (_attempt_dns01).
THEOREM BudgetKeptHolds == Spec => []BudgetKept
<1>1. BudgetInv => BudgetKept
  BY DEF BudgetInv, Counted, BudgetKept
<1> QED
  BY <1>1, InitAInv, NextAInv, InitBudgetInv, NextBudgetInv, PTL DEF Spec

\* A settled order is settled for good, unless a session or a maintenance that has found it
\* unsettled writes late (refresh_order, finalize, maintain).
THEOREM SettledStaysHolds == Spec => SettledStays
<1>1. AInv /\ HandsRight /\ [Next]_vars =>
        [\A o \in Orders : order[o] \in {"valid", "invalid"} /\ order'[o] # order[o] =>
            o \in sweep \/ \E w \in Workers : InProgress(w, o) /\ worker'[w] # worker[w]]_vars
  BY NextSettled
<1> QED
  BY <1>1, InitAInv, NextAInv, InitHands, NextHands, PTL DEF Spec, SettledStays

\* Whatever clients repeat, n workers issue at most n (n + 1) / 2 certificates for an order: all of
\* them for the first time that it is ready, one less every time that a stale session has made it
\* ready again (finalize, refresh_order).
THEOREM CertificatesBoundedHolds == Spec => []CertificatesBounded
<1> QED
  BY InitAInv, NextAInv, InitHands, NextHands, InitCount, NextCount, CountBounds, PTL DEF Spec
=============================================================================
