--------------------------- MODULE SchedulerProofs ---------------------------
(***************************************************************************)
(* For every number of workers, every lease time and every length of a     *)
(* tick: the conditional UPDATE of acquire_lease hands out no lease that   *)
(* is held, and a notice goes out once per object and stage.               *)
(***************************************************************************)
EXTENDS Scheduler, TLAPS

LeaseTypeOK ==
    /\ instant \in Nat
    /\ lease \in [holder : Runners \union {Never}, expires : Nat \union {Never}]
    /\ tick \in [Runners -> [phase : {"idle", "jobs", "certs", "cas"}, at : Nat, force : BOOLEAN,
                             todo : SUBSET Watched]]

\* A tick that runs on a lease it has taken.
OnLease(r) == Busy(r) /\ ~ tick[r].force

\* The lease was taken at some time before now.
LeaseTaken == lease.expires # Never => lease.expires <= instant + LeaseTtl

\* A tick is no younger than the lease in the row, and when that is another's, it was taken after
\* the tick's own had expired.
LeaseOrder ==
    \A r \in Runners : OnLease(r) =>
        /\ lease.expires # Never
        /\ tick[r].at + LeaseTtl <= lease.expires
        /\ lease.holder # r => tick[r].at + LeaseTtl + LeaseTtl < lease.expires

\* OneHolderAtATime speaks of two ticks; it is inductive only with what relates each to the row,
\* which is all that acquire_lease looks at.
LeaseInv ==
    /\ LeaseTypeOK
    /\ LeaseTaken
    /\ LeaseOrder
    /\ OneHolderAtATime

LEMMA LeaseInitInv == SchedulerInit => LeaseInv
  BY SchedulerAssumption
  DEF SchedulerInit, LeaseInv, LeaseTypeOK, LeaseTaken, LeaseOrder, OneHolderAtATime, OnLease, Busy,
      NoTick

\* What a runner does within its tick, and what ends it, gives nobody a younger tick or another's
\* lease.
LEMMA SameTicks ==
    ASSUME LeaseInv, LeaseTypeOK', instant <= instant', lease'.expires = lease.expires,
           \A r \in Runners : OnLease(r)' => /\ OnLease(r)
                                             /\ tick'[r].at = tick[r].at
                                             /\ lease.holder = r => lease'.holder = r
    PROVE  LeaseInv'
  <1>1. LeaseTaken'
    BY SchedulerAssumption DEF LeaseInv, LeaseTypeOK, LeaseTaken
  <1>2. LeaseOrder'
    BY DEF LeaseInv, LeaseOrder
  <1>3. OneHolderAtATime'
    BY DEF LeaseInv, OneHolderAtATime, OnLease
  <1>4. QED
    BY <1>1, <1>2, <1>3 DEF LeaseInv

\* The tick of one runner goes on, or ends.
LEMMA OwnTick ==
    ASSUME LeaseInv, NEW r \in Runners, NEW new \in [phase : {"idle", "jobs", "certs", "cas"},
                                                     at : Nat, force : BOOLEAN,
                                                     todo : SUBSET Watched],
           tick' = [tick EXCEPT ![r] = new], UNCHANGED <<instant, lease>>,
           new.phase # "idle" => /\ Busy(r) /\ new.at = tick[r].at /\ new.force = tick[r].force
    PROVE  LeaseInv'
  <1>1. \A s \in Runners : tick'[s] = IF s = r THEN new ELSE tick[s]
    BY DEF LeaseInv, LeaseTypeOK
  <1>2. LeaseTypeOK'
    BY DEF LeaseInv, LeaseTypeOK
  <1>3. ASSUME NEW s \in Runners, OnLease(s)'
        PROVE  /\ OnLease(s)
               /\ tick'[s].at = tick[s].at
               /\ lease.holder = s => lease'.holder = s
    BY <1>1, <1>3 DEF OnLease, Busy
  <1>4. QED
    BY <1>2, <1>3, SameTicks, SchedulerAssumption DEF LeaseInv, LeaseTypeOK

\* acquire_lease: every tick on a lease was begun, and its lease has expired, before now.
LEMMA AcquireKeeps ==
    ASSUME LeaseInv, NEW r \in Runners, AcquireLease(r)
    PROVE  LeaseInv'
  <1> DEFINE new == [phase |-> "jobs", at |-> instant, force |-> FALSE, todo |-> {}]
  <1>1. /\ lease' = [holder |-> r, expires |-> instant + LeaseTtl]
        /\ tick' = [tick EXCEPT ![r] = new]
        /\ instant' = instant
        /\ lease.expires # Never => lease.expires < instant \/ lease.holder = r
        /\ ~ OnLease(r)
    BY DEF AcquireLease, StartJobs, LeaseFree, OnLease, Busy
  <1>2. /\ instant \in Nat /\ LeaseTtl \in Nat /\ Never \notin Nat
        /\ lease.expires # Never => lease.expires \in Nat
        /\ \A s \in Runners : tick[s].at \in Nat
    BY SchedulerAssumption DEF LeaseInv, LeaseTypeOK
  <1>3. /\ LeaseTypeOK'
        /\ tick'[r].at = instant
        /\ \A s \in Runners : s # r => tick'[s] = tick[s]
    BY <1>1, <1>2 DEF LeaseInv, LeaseTypeOK
  <1>4. \A s \in Runners : s # r /\ OnLease(s)' => OnLease(s)
    BY <1>3 DEF OnLease, Busy
  <1> HIDE DEF new
  <1>5. lease'.expires = instant + LeaseTtl /\ lease'.holder = r
    BY <1>1
  <1>6. ASSUME NEW s \in Runners, s # r, OnLease(s)
        PROVE  tick[s].at + LeaseTtl < instant
    <2>1. /\ lease.expires # Never
          /\ tick[s].at + LeaseTtl <= lease.expires
          /\ lease.holder # s => tick[s].at + LeaseTtl + LeaseTtl < lease.expires
          /\ lease.expires <= instant + LeaseTtl
      BY <1>6 DEF LeaseInv, LeaseOrder, LeaseTaken
    <2>2. CASE lease.expires < instant
      BY <1>2, <2>1, <2>2
    <2>3. CASE lease.holder = r
      BY <1>2, <1>6, <2>1, <2>3
    <2>4. QED
      BY <1>1, <2>1, <2>2, <2>3
  <1>7. LeaseTaken'
    BY <1>1, <1>2, <1>5 DEF LeaseTaken
  <1>8. LeaseOrder'
    <2> SUFFICES ASSUME NEW s \in Runners, OnLease(s)'
                 PROVE  /\ lease'.expires # Never
                        /\ tick'[s].at + LeaseTtl <= lease'.expires
                        /\ lease'.holder # s => tick'[s].at + LeaseTtl + LeaseTtl < lease'.expires
      BY DEF LeaseOrder
    <2>1. CASE s = r
      BY <1>2, <1>3, <1>5, <2>1
    <2>2. CASE s # r
      <3>1. tick[s].at + LeaseTtl < instant /\ tick'[s] = tick[s]
        BY <1>3, <1>4, <1>6, <2>2
      <3>2. QED
        BY <1>2, <1>5, <3>1
    <2>3. QED
      BY <2>1, <2>2
  <1>9. OneHolderAtATime'
    <2> SUFFICES ASSUME NEW h \in Runners, NEW k \in Runners, h # k, OnLease(h)', OnLease(k)'
                 PROVE  \/ tick'[h].at + LeaseTtl < tick'[k].at
                        \/ tick'[k].at + LeaseTtl < tick'[h].at
      BY DEF OneHolderAtATime, OnLease
    <2>1. CASE h = r
      BY <1>3, <1>4, <1>6, <2>1
    <2>2. CASE k = r
      BY <1>3, <1>4, <1>6, <2>2
    <2>3. CASE h # r /\ k # r
      BY <1>3, <1>4, <2>3 DEF LeaseInv, OneHolderAtATime, OnLease
    <2>4. QED
      BY <2>1, <2>2, <2>3
  <1>10. QED
    BY <1>3, <1>7, <1>8, <1>9 DEF LeaseInv

\* Every step of a runner, of the requests around it and of the clock.
LEMMA LeaseNextInv == LeaseInv /\ [SchedulerNext]_schedulerVars => LeaseInv'
  <1> SUFFICES ASSUME LeaseInv, [SchedulerNext]_schedulerVars PROVE LeaseInv'
    OBVIOUS
  <1> DEFINE Ticks == [phase : {"idle", "jobs", "certs", "cas"}, at : Nat, force : BOOLEAN,
                       todo : SUBSET Watched]
  <1>a. NoTick \in Ticks /\ NoTick.phase = "idle"
    BY DEF NoTick
  <1>b. ASSUME NEW r \in Runners PROVE tick[r] \in Ticks
    BY DEF LeaseInv, LeaseTypeOK
  <1>1. ASSUME NEW r \in Runners, AcquireLease(r) PROVE LeaseInv'
    BY <1>1, AcquireKeeps
  <1>2. ASSUME NEW r \in Runners, ForceTick(r) PROVE LeaseInv'
    <2> DEFINE new == [phase |-> "jobs", at |-> instant, force |-> TRUE, todo |-> {}]
    <2>1. tick' = [tick EXCEPT ![r] = new] /\ UNCHANGED <<instant, lease>>
      BY <1>2 DEF ForceTick, StartJobs
    <2>2. /\ LeaseTypeOK'
          /\ \A s \in Runners : s # r => tick'[s] = tick[s]
          /\ tick'[r].force
      BY <2>1 DEF LeaseInv, LeaseTypeOK
    <2>3. ASSUME NEW s \in Runners, OnLease(s)'
          PROVE  /\ OnLease(s) /\ tick'[s].at = tick[s].at
                 /\ lease.holder = s => lease'.holder = s
      BY <2>1, <2>2, <2>3 DEF OnLease, Busy
    <2>4. QED
      BY <2>1, <2>2, <2>3, SameTicks DEF LeaseInv, LeaseTypeOK
  <1>3. ASSUME NEW r \in Runners, SkipJob(r) \/ JobRaises(r) \/ EndExpiry(r) PROVE LeaseInv'
    <2>1. tick' = [tick EXCEPT ![r] = NoTick] /\ UNCHANGED <<instant, lease>>
      BY <1>3 DEF SkipJob, JobRaises, EndExpiry, EndTick
    <2>2. QED
      BY <1>a, <2>1, OwnTick
  <1>4. ASSUME NEW r \in Runners, BeginExpiry(r) PROVE LeaseInv'
    <2> DEFINE new == [tick[r] EXCEPT !.phase = "certs",
                                      !.todo = DueForExpiryEvent(WatchedCerts, tick[r].at)]
    <2>1. tick' = [tick EXCEPT ![r] = new] /\ UNCHANGED <<instant, lease>> /\ Busy(r)
      BY <1>4 DEF BeginExpiry, Busy, LeaseInv, LeaseTypeOK
    <2>2. new \in Ticks /\ new.at = tick[r].at /\ new.force = tick[r].force
      BY <1>b DEF DueForExpiryEvent, Watched
    <2> HIDE DEF new
    <2>3. QED
      BY <2>1, <2>2, OwnTick
  <1>5. ASSUME NEW r \in Runners, NextKind(r) PROVE LeaseInv'
    <2> DEFINE new == [tick[r] EXCEPT !.phase = "cas",
                                      !.todo = DueForExpiryEvent(WatchedCas, tick[r].at)]
    <2>1. tick' = [tick EXCEPT ![r] = new] /\ UNCHANGED <<instant, lease>> /\ Busy(r)
      BY <1>5 DEF NextKind, Busy, LeaseInv, LeaseTypeOK
    <2>2. new \in Ticks /\ new.at = tick[r].at /\ new.force = tick[r].force
      BY <1>b DEF DueForExpiryEvent, Watched
    <2> HIDE DEF new
    <2>3. QED
      BY <2>1, <2>2, OwnTick
  <1>6. ASSUME NEW r \in Runners, NEW o \in Watched, NEW ok \in BOOLEAN, Notice(r, o, ok)
        PROVE  LeaseInv'
    <2> DEFINE new == [tick[r] EXCEPT !.todo = @ \ {o}]
    <2>1. tick' = [tick EXCEPT ![r] = new] /\ UNCHANGED <<instant, lease>> /\ Busy(r)
      BY <1>6 DEF Notice, ExpiryBusy, Busy, LeaseInv, LeaseTypeOK
    <2>2. new \in Ticks /\ new.at = tick[r].at /\ new.force = tick[r].force
      BY <1>b
    <2> HIDE DEF new
    <2>3. QED
      BY <2>1, <2>2, OwnTick
  <1>7. ASSUME NEW r \in Runners, CrashTick(r) PROVE LeaseInv'
    <2>1. /\ tick' = [tick EXCEPT ![r] = NoTick] /\ instant' = instant
          /\ lease' = IF lease.holder = r THEN [lease EXCEPT !.holder = Never] ELSE lease
      BY <1>7 DEF CrashTick, EndTick
    <2>2. LeaseTypeOK'
      BY <1>a, <2>1 DEF LeaseInv, LeaseTypeOK
    <2>3. lease'.expires = lease.expires
      BY <2>1 DEF LeaseInv, LeaseTypeOK
    <2>4. \A s \in Runners : tick'[s] = IF s = r THEN NoTick ELSE tick[s]
      BY <2>1 DEF LeaseInv, LeaseTypeOK
    <2>5. ASSUME NEW s \in Runners, OnLease(s)'
          PROVE  /\ OnLease(s) /\ tick'[s].at = tick[s].at
                 /\ lease.holder = s => lease'.holder = s
      <3>1. s # r
        BY <1>a, <2>4, <2>5 DEF OnLease, Busy
      <3>2. QED
        BY <2>1, <2>4, <2>5, <3>1 DEF OnLease, Busy
    <2>6. QED
      BY <2>1, <2>2, <2>3, <2>5, SameTicks DEF LeaseInv, LeaseTypeOK
  <1>8. ASSUME NEW o \in Watched, DropWatched(o) \/ RenewWatchedCa(o) PROVE LeaseInv'
    BY <1>8, SameTicks DEF DropWatched, RenewWatchedCa, LeaseInv, LeaseTypeOK, OnLease, Busy
  <1>9. CASE PassTime
    BY <1>9, SameTicks DEF PassTime, LeaseInv, LeaseTypeOK, OnLease, Busy
  <1>10. CASE UNCHANGED schedulerVars
    BY <1>10, SameTicks DEF schedulerVars, LeaseInv, LeaseTypeOK, OnLease, Busy
  <1> HIDE DEF Ticks
  <1>11. QED
    BY <1>1, <1>2, <1>3, <1>4, <1>5, <1>6, <1>7, <1>8, <1>9, <1>10 DEF SchedulerNext, RunnerStep

\* Two workers run jobs at once only when the tick of one has outlived the lease that it took
\* (acquire_lease, tick).
THEOREM OneHolderHolds == SchedulerSpec => []OneHolderAtATime
  <1>1. LeaseInv => OneHolderAtATime
    BY DEF LeaseInv
  <1>2. QED
    BY <1>1, LeaseInitInv, LeaseNextInv, PTL DEF SchedulerSpec
-----------------------------------------------------------------------------
(***************************************************************************)
(* The expiry notices. The mark of an object (expiry_notified_at) is one   *)
(* column for two stages, and the list of a job is made long before its    *)
(* last entry is notified; what connects the two is that a mark is left    *)
(* with every notice, and that nobody else notifies while a list is worked *)
(* off.                                                                    *)
(***************************************************************************)

\* A mark tells which notices have gone out.
Marked ==
    \A o \in Watched :
        /\ notices[o].expiring \in {0, 1} /\ notices[o].expired \in {0, 1}
        /\ notices[o].expiring = 1 => item[o].notified # Never
        /\ notices[o].expired = 1 => /\ item[o].notified # Never
                                     /\ item[o].notified >= item[o].notAfter

\* What is on the list of a job has not gone out: at all, or for an expired object not as expired.
ListIsNews ==
    \A r \in Runners : ExpiryBusy(r) => \A o \in tick[r].todo :
        /\ notices[o].expired = 0
        /\ item[o].notAfter > tick[r].at => notices[o].expiring = 0

OneExpiryJob == \A r, s \in Runners : ExpiryBusy(r) /\ ExpiryBusy(s) => r = s

NoticeInv ==
    /\ SchedulerTypeOK
    /\ ~ overlapped => OneExpiryJob /\ Marked /\ ListIsNews

LEMMA NoTickTyped ==
    NoTick \in [phase : {"idle", "jobs", "certs", "cas"}, at : 0..LastInstant, force : BOOLEAN,
                todo : SUBSET Watched]
  BY SchedulerAssumption DEF NoTick

LEMMA SchedulerInitType == SchedulerInit => SchedulerTypeOK
  <1> SUFFICES ASSUME SchedulerInit PROVE SchedulerTypeOK
    OBVIOUS
  <1> USE SchedulerAssumption DEF SchedulerInit
  <1>1. tick \in [Runners -> [phase : {"idle", "jobs", "certs", "cas"}, at : 0..LastInstant,
                              force : BOOLEAN, todo : SUBSET Watched]]
    BY NoTickTyped
  <1>2. item \in [Watched -> [notAfter : Nat, notified : 0..LastInstant \union {Never},
                              superseded : BOOLEAN]]
    BY DEF Watched
  <1>3. notices \in [Watched -> [expiring : Nat, expired : Nat]]
    OBVIOUS
  <1>4. lease \in [holder : Runners \union {Never}, expires : Instants \union {Never}]
    OBVIOUS
  <1>5. instant \in 0..LastInstant /\ ticks \in 0..MaxTicks
    OBVIOUS
  <1>6. QED
    BY <1>1, <1>2, <1>3, <1>4, <1>5 DEF SchedulerTypeOK

\* Every step keeps the rows, the ticks and the counts within their types.
LEMMA SchedulerNextType == SchedulerTypeOK /\ [SchedulerNext]_schedulerVars => SchedulerTypeOK'
  <1> SUFFICES ASSUME SchedulerTypeOK, [SchedulerNext]_schedulerVars PROVE SchedulerTypeOK'
    OBVIOUS
  <1> DEFINE Tick == [phase : {"idle", "jobs", "certs", "cas"}, at : 0..LastInstant,
                      force : BOOLEAN, todo : SUBSET Watched]
  <1> USE SchedulerAssumption DEF SchedulerTypeOK
  <1>1. ASSUME NEW r \in Runners, NEW force \in BOOLEAN, StartJobs(r, force)
        PROVE  tick' \in [Runners -> Tick] /\ ticks' \in 0..MaxTicks
    BY <1>1 DEF StartJobs
  <1>2. ASSUME NEW r \in Runners, EndTick(r) PROVE tick' \in [Runners -> Tick]
    <2>1. NoTick \in Tick
      BY NoTickTyped
    <2>2. QED
      BY <1>2, <2>1 DEF EndTick
  <1>3. ASSUME NEW r \in Runners, AcquireLease(r) PROVE SchedulerTypeOK'
    <2>1. lease' \in [holder : Runners \union {Never}, expires : Instants \union {Never}]
      <3>1. instant + LeaseTtl \in Instants
        BY DEF Instants
      <3>2. QED
        BY <1>3, <3>1 DEF AcquireLease
    <2>2. StartJobs(r, FALSE) /\ UNCHANGED <<instant, lastRun, item, notices, overlapped>>
      BY <1>3 DEF AcquireLease
    <2>3. tick' \in [Runners -> Tick] /\ ticks' \in 0..MaxTicks
      BY <1>1, <2>2
    <2>4. QED
      BY <2>1, <2>2, <2>3
  <1>4. ASSUME NEW r \in Runners, ForceTick(r) PROVE SchedulerTypeOK'
    <2>1. StartJobs(r, TRUE) /\ UNCHANGED <<instant, lease, lastRun, item, notices, overlapped>>
      BY <1>4 DEF ForceTick
    <2>2. tick' \in [Runners -> Tick] /\ ticks' \in 0..MaxTicks
      BY <1>1, <2>1
    <2>3. QED
      BY <2>1, <2>2
  <1>5. ASSUME NEW r \in Runners, SkipJob(r) \/ JobRaises(r) \/ EndExpiry(r) PROVE SchedulerTypeOK'
    <2>1. EndTick(r) /\ UNCHANGED <<instant, lease, item, ticks, notices, overlapped>>
      BY <1>5 DEF SkipJob, JobRaises, EndExpiry
    <2>2. lastRun' \in 0..LastInstant \union {Never}
      BY <1>5 DEF SkipJob, JobRaises, EndExpiry
    <2>3. tick' \in [Runners -> Tick]
      BY <1>2, <2>1
    <2>4. QED
      BY <2>1, <2>2, <2>3
  <1>6. ASSUME NEW r \in Runners, BeginExpiry(r) \/ NextKind(r) PROVE SchedulerTypeOK'
    <2>1. UNCHANGED <<instant, lease, lastRun, item, ticks, notices>> /\ overlapped' \in BOOLEAN
      BY <1>6 DEF BeginExpiry, NextKind
    <2>2. tick' \in [Runners -> Tick]
      BY <1>6 DEF BeginExpiry, NextKind, DueForExpiryEvent, Watched
    <2>3. QED
      BY <2>1, <2>2
  <1>7. ASSUME NEW r \in Runners, NEW o \in Watched, NEW ok \in BOOLEAN, Notice(r, o, ok)
        PROVE  SchedulerTypeOK'
    <2>1. /\ tick' = [tick EXCEPT ![r].todo = @ \ {o}]
          /\ UNCHANGED <<instant, lease, lastRun, ticks, overlapped>>
      BY <1>7 DEF Notice
    <2>2. tick' \in [Runners -> Tick]
      <3>1. tick[r] \in Tick /\ tick[r].todo \ {o} \in SUBSET Watched
        OBVIOUS
      <3>2. [tick[r] EXCEPT !.todo = @ \ {o}] \in Tick
        BY <3>1
      <3>3. tick' = [tick EXCEPT ![r] = [tick[r] EXCEPT !.todo = @ \ {o}]]
        BY <2>1
      <3>4. QED
        BY <3>2, <3>3
    <2>3. item' \in [Watched -> [notAfter : Nat, notified : 0..LastInstant \union {Never},
                                 superseded : BOOLEAN]]
      BY SMTT(20), <1>7 DEF Notice
    <2>4. notices' \in [Watched -> [expiring : Nat, expired : Nat]]
      <3>1. CASE notices' = notices
        BY <3>1
      <3>2. CASE notices' = [notices EXCEPT ![o]["expired"] = @ + 1]
        BY <3>2
      <3>3. CASE notices' = [notices EXCEPT ![o]["expiring"] = @ + 1]
        BY <3>3
      <3>4. QED
        BY <1>7, <3>1, <3>2, <3>3 DEF Notice
    <2>5. QED
      BY <2>1, <2>2, <2>3, <2>4
  <1>8. ASSUME NEW r \in Runners, CrashTick(r) PROVE SchedulerTypeOK'
    <2>1. EndTick(r) /\ UNCHANGED <<instant, lastRun, item, ticks, notices, overlapped>>
      BY <1>8 DEF CrashTick
    <2>2. lease' \in [holder : Runners \union {Never}, expires : Instants \union {Never}]
      BY <1>8 DEF CrashTick
    <2>3. tick' \in [Runners -> Tick]
      BY <1>2, <2>1
    <2>4. QED
      BY <2>1, <2>2, <2>3
  <1>9. ASSUME NEW o \in Watched, DropWatched(o) PROVE SchedulerTypeOK'
    BY ZenonT(40), <1>9 DEF DropWatched
  <1>10. ASSUME NEW o \in Watched, RenewWatchedCa(o) PROVE SchedulerTypeOK'
    <2>1. UNCHANGED <<instant, lease, lastRun, tick, ticks, overlapped>>
      BY <1>10 DEF RenewWatchedCa
    <2>2. instant + FirstNotAfter[o] \in Nat
      OBVIOUS
    <2> DEFINE Item == [notAfter : Nat, notified : 0..LastInstant \union {Never},
                        superseded : BOOLEAN]
               new == [item[o] EXCEPT !.notAfter = instant + FirstNotAfter[o], !.notified = Never]
    <2>3. item' \in [Watched -> Item]
      <3>1. new \in Item
        <4>1. item[o] \in Item /\ Never \in 0..LastInstant \union {Never}
          OBVIOUS
        <4>2. [item[o] EXCEPT !.notAfter = instant + FirstNotAfter[o]] \in Item
          BY <2>2, <4>1
        <4>3. QED
          BY <4>1, <4>2
      <3>2. /\ DOMAIN item' = Watched /\ item' = [x \in Watched |-> item'[x]]
            /\ \A x \in Watched : x # o => item'[x] = item[x]
        BY <1>10 DEF RenewWatchedCa
      <3>3. item'[o] = new
        BY <1>10 DEF RenewWatchedCa
      <3>4. \A x \in Watched : item'[x] \in Item
        BY ZenonT(40), <3>1, <3>2, <3>3
      <3>5. QED
        BY <3>2, <3>4
    <2>4. notices' \in [Watched -> [expiring : Nat, expired : Nat]]
      BY <1>10 DEF RenewWatchedCa
    <2>5. QED
      BY <2>1, <2>3, <2>4
  <1>11. CASE PassTime
    BY <1>11 DEF PassTime
  <1>12. CASE UNCHANGED schedulerVars
    BY <1>12 DEF schedulerVars
  <1>13. QED
    BY <1>3, <1>4, <1>5, <1>6, <1>7, <1>8, <1>9, <1>10, <1>11, <1>12 DEF SchedulerNext, RunnerStep

\* Every variable of the scheduler keeps its type (models/scheduler_lease.py, scheduler_job.py).
THEOREM SchedulerTypeCorrect == SchedulerSpec => []SchedulerTypeOK
  BY SchedulerInitType, SchedulerNextType, PTL DEF SchedulerSpec

\* Steps that leave marks and notices alone, and put nothing on a list.
LEMMA ListsShrink ==
    ASSUME NoticeInv, SchedulerTypeOK', UNCHANGED <<notices, overlapped>>,
           \A o \in Watched : /\ item'[o].notAfter = item[o].notAfter
                              /\ item'[o].notified = item[o].notified,
           \A r \in Runners : ExpiryBusy(r)' => /\ ExpiryBusy(r)
                                                /\ tick'[r].todo \subseteq tick[r].todo
                                                /\ tick'[r].at = tick[r].at
    PROVE  NoticeInv'
  <1> SUFFICES ASSUME ~ overlapped PROVE OneExpiryJob' /\ Marked' /\ ListIsNews'
    BY DEF NoticeInv
  <1>1. OneExpiryJob /\ Marked /\ ListIsNews
    BY DEF NoticeInv
  <1>2. OneExpiryJob'
    BY <1>1 DEF OneExpiryJob
  <1>3. Marked'
    BY <1>1 DEF Marked
  <1>4. ListIsNews'
    <2> SUFFICES ASSUME NEW r \in Runners, ExpiryBusy(r)', NEW o \in tick'[r].todo
                 PROVE  /\ notices'[o].expired = 0
                        /\ item'[o].notAfter > tick'[r].at => notices'[o].expiring = 0
      BY DEF ListIsNews
    <2>1. ExpiryBusy(r) /\ o \in tick[r].todo /\ tick'[r].at = tick[r].at
      OBVIOUS
    <2>2. o \in Watched
      BY <2>1 DEF NoticeInv, SchedulerTypeOK
    <2> QED
      BY <1>1, <2>1, <2>2 DEF ListIsNews
  <1> QED
    BY <1>2, <1>3, <1>4

\* A list that is read now holds nothing whose notice has gone out.
LEMMA DueIsNews ==
    ASSUME SchedulerTypeOK, Marked, NEW objs \in SUBSET Watched, NEW at \in Nat,
           NEW o \in DueForExpiryEvent(objs, at)
    PROVE  /\ notices[o].expired = 0
           /\ item[o].notAfter > at => notices[o].expiring = 0
  <1>1. /\ o \in Watched /\ item[o].notAfter \in Nat
        /\ item[o].notified \in Nat \/ item[o].notified = Never
    BY DEF DueForExpiryEvent, SchedulerTypeOK
  <1> QED
    BY <1>1, SchedulerAssumption DEF DueForExpiryEvent, Marked

\* A job reads its list: of the certificates at its start, of the authorities half-way.
LEMMA ListKeeps ==
    ASSUME NoticeInv, NEW r \in Runners, BeginExpiry(r) \/ NextKind(r), SchedulerTypeOK'
    PROVE  NoticeInv'
  <1> SUFFICES ASSUME ~ overlapped' PROVE OneExpiryJob' /\ Marked' /\ ListIsNews'
    BY DEF NoticeInv
  <1>1. /\ ~ overlapped /\ UNCHANGED <<item, notices>>
        /\ \A s \in Runners \ {r} : ~ ExpiryBusy(s) /\ tick'[s] = tick[s]
    <2>1. CASE BeginExpiry(r)
      BY <2>1 DEF BeginExpiry, NoticeInv, SchedulerTypeOK
    <2>2. CASE NextKind(r)
      BY <2>2 DEF NextKind, NoticeInv, SchedulerTypeOK, OneExpiryJob, ExpiryBusy
    <2> QED
      BY <2>1, <2>2
  <1>2. PICK objs \in SUBSET Watched : /\ tick'[r].todo = DueForExpiryEvent(objs, tick[r].at)
                                       /\ tick'[r].at = tick[r].at
    BY DEF BeginExpiry, NextKind, NoticeInv, SchedulerTypeOK, Watched
  <1>3. OneExpiryJob'
    BY <1>1 DEF OneExpiryJob, ExpiryBusy
  <1>4. Marked'
    BY <1>1 DEF NoticeInv, Marked
  <1>5. ListIsNews'
    <2> SUFFICES ASSUME NEW s \in Runners, ExpiryBusy(s)', NEW o \in tick'[s].todo
                 PROVE  /\ notices'[o].expired = 0
                        /\ item'[o].notAfter > tick'[s].at => notices'[o].expiring = 0
      BY DEF ListIsNews
    <2>1. s = r
      BY <1>1 DEF ExpiryBusy
    <2>2. tick[r].at \in Nat
      BY DEF NoticeInv, SchedulerTypeOK
    <2> QED
      BY <1>1, <1>2, <2>1, <2>2, DueIsNews DEF NoticeInv
  <1> QED
    BY <1>3, <1>4, <1>5

\* The notice of an object on the list goes out, with its mark, or the commit fails.
LEMMA NoticeKeeps ==
    ASSUME NoticeInv, NEW r \in Runners, NEW o \in Watched, NEW ok \in BOOLEAN, Notice(r, o, ok),
           SchedulerTypeOK'
    PROVE  NoticeInv'
  <1>1. /\ ExpiryBusy(r) /\ o \in tick[r].todo /\ overlapped' = overlapped
        /\ \A s \in Runners : s # r => tick'[s] = tick[s]
        /\ tick'[r].phase = tick[r].phase /\ tick'[r].at = tick[r].at
        /\ tick'[r].todo = tick[r].todo \ {o}
    BY DEF Notice, NoticeInv, SchedulerTypeOK
  <1>2. CASE ~ ok
    <2>1. UNCHANGED <<item, notices>>
      BY <1>2 DEF Notice
    <2> QED
      BY <1>1, <2>1, ListsShrink DEF ExpiryBusy
  <1>3. CASE ok
    <2> SUFFICES ASSUME ~ overlapped PROVE OneExpiryJob' /\ Marked' /\ ListIsNews'
      BY <1>1 DEF NoticeInv
    <2>a. OneExpiryJob /\ Marked /\ ListIsNews
      BY DEF NoticeInv
    <2>1. /\ item[o].notAfter \in Nat /\ tick[r].at \in Nat /\ Never \notin Nat
          /\ notices[o].expired = 0 /\ notices[o].expiring \in {0, 1}
          /\ item[o].notAfter > tick[r].at => notices[o].expiring = 0
      BY <1>1, <2>a, SchedulerAssumption DEF NoticeInv, SchedulerTypeOK, ListIsNews, Marked
    <2>2. /\ item'[o].notified = tick[r].at /\ item'[o].notAfter = item[o].notAfter
          /\ \A p \in Watched : p # o => item'[p] = item[p]
      BY <1>3 DEF Notice, NoticeInv, SchedulerTypeOK
    <2>3. /\ \A p \in Watched : p # o => notices'[p] = notices[p]
          /\ IF item[o].notAfter <= tick[r].at
             THEN notices'[o].expired = 1 /\ notices'[o].expiring = notices[o].expiring
             ELSE notices'[o].expired = 0 /\ notices'[o].expiring = 1
      <3>1. CASE item[o].notAfter <= tick[r].at
        <4>1. notices' = [notices EXCEPT ![o]["expired"] = @ + 1]
          BY <1>3, <3>1 DEF Notice
        <4> QED
          BY <2>1, <3>1, <4>1 DEF NoticeInv, SchedulerTypeOK
      <3>2. CASE ~(item[o].notAfter <= tick[r].at)
        <4>1. notices' = [notices EXCEPT ![o]["expiring"] = @ + 1]
          BY <1>3, <3>2 DEF Notice
        <4> QED
          BY <2>1, <3>2, <4>1 DEF NoticeInv, SchedulerTypeOK
      <3> QED
        BY <3>1, <3>2
    <2>4. OneExpiryJob'
      BY <1>1, <2>a DEF OneExpiryJob, ExpiryBusy
    <2>5. Marked'
      <3> SUFFICES ASSUME NEW p \in Watched
                   PROVE  /\ notices'[p].expiring \in {0, 1} /\ notices'[p].expired \in {0, 1}
                          /\ notices'[p].expiring = 1 => item'[p].notified # Never
                          /\ notices'[p].expired = 1 => /\ item'[p].notified # Never
                                                        /\ item'[p].notified >= item'[p].notAfter
        BY DEF Marked
      <3>1. CASE p = o
        BY <2>1, <2>2, <2>3, <3>1
      <3>2. CASE p # o
        BY <2>a, <2>2, <2>3, <3>2 DEF Marked
      <3> QED
        BY <3>1, <3>2
    <2>6. ListIsNews'
      <3> SUFFICES ASSUME NEW s \in Runners, ExpiryBusy(s)', NEW p \in tick'[s].todo
                   PROVE  /\ notices'[p].expired = 0
                          /\ item'[p].notAfter > tick'[s].at => notices'[p].expiring = 0
        BY DEF ListIsNews
      <3>1. s = r /\ p # o /\ p \in tick[r].todo
        BY <1>1, <2>a DEF OneExpiryJob, ExpiryBusy
      <3>2. p \in Watched
        BY <3>1 DEF NoticeInv, SchedulerTypeOK
      <3> QED
        BY <1>1, <2>a, <2>2, <2>3, <3>1, <3>2 DEF ListIsNews
    <2> QED
      BY <2>4, <2>5, <2>6
  <1> QED
    BY <1>2, <1>3

\* A renewal of an authority forgets mark and notices together.
LEMMA RenewalKeeps ==
    ASSUME NoticeInv, NEW a \in Watched, RenewWatchedCa(a), SchedulerTypeOK'
    PROVE  NoticeInv'
  <1> SUFFICES ASSUME ~ overlapped PROVE OneExpiryJob' /\ Marked' /\ ListIsNews'
    BY DEF RenewWatchedCa, NoticeInv
  <1>a. OneExpiryJob /\ Marked /\ ListIsNews
    BY DEF NoticeInv
  <1>1. /\ UNCHANGED tick
        /\ notices'[a].expiring = 0 /\ notices'[a].expired = 0
        /\ \A o \in Watched : o # a => item'[o] = item[o] /\ notices'[o] = notices[o]
    BY DEF RenewWatchedCa, NoticeInv, SchedulerTypeOK
  <1>2. OneExpiryJob'
    BY <1>a, <1>1 DEF OneExpiryJob, ExpiryBusy
  <1>3. Marked'
    BY <1>a, <1>1 DEF Marked
  <1>4. ListIsNews'
    <2> SUFFICES ASSUME NEW s \in Runners, ExpiryBusy(s)', NEW p \in tick'[s].todo
                 PROVE  /\ notices'[p].expired = 0
                        /\ item'[p].notAfter > tick'[s].at => notices'[p].expiring = 0
      BY DEF ListIsNews
    <2>1. ExpiryBusy(s) /\ p \in tick[s].todo /\ p \in Watched
      BY <1>1 DEF ExpiryBusy, NoticeInv, SchedulerTypeOK
    <2> QED
      BY <1>a, <1>1, <2>1 DEF ListIsNews
  <1> QED
    BY <1>2, <1>3, <1>4

LEMMA NoticeInitInv == SchedulerInit => NoticeInv
  BY SchedulerInitType
  DEF SchedulerInit, NoticeInv, OneExpiryJob, Marked, ListIsNews, ExpiryBusy, NoTick

LEMMA NoticeNextInv == NoticeInv /\ [SchedulerNext]_schedulerVars => NoticeInv'
  <1> SUFFICES ASSUME NoticeInv, [SchedulerNext]_schedulerVars PROVE NoticeInv'
    OBVIOUS
  <1>a. SchedulerTypeOK /\ SchedulerTypeOK'
    BY SchedulerNextType DEF NoticeInv
  <1>1. ASSUME NEW r \in Runners, AcquireLease(r) \/ ForceTick(r) PROVE NoticeInv'
    BY <1>a, <1>1, ListsShrink
    DEF AcquireLease, ForceTick, StartJobs, ExpiryBusy, SchedulerTypeOK
  <1>2. ASSUME NEW r \in Runners, SkipJob(r) \/ JobRaises(r) \/ EndExpiry(r) \/ CrashTick(r)
        PROVE  NoticeInv'
    BY <1>a, <1>2, ListsShrink
    DEF SkipJob, JobRaises, EndExpiry, CrashTick, EndTick, NoTick, ExpiryBusy, SchedulerTypeOK
  <1>3. ASSUME NEW r \in Runners, BeginExpiry(r) \/ NextKind(r) PROVE NoticeInv'
    BY <1>a, <1>3, ListKeeps
  <1>4. ASSUME NEW r \in Runners, NEW o \in Watched, NEW ok \in BOOLEAN, Notice(r, o, ok)
        PROVE  NoticeInv'
    BY <1>a, <1>4, NoticeKeeps
  <1>5. ASSUME NEW o \in Watched, DropWatched(o) PROVE NoticeInv'
    BY <1>a, <1>5, ListsShrink DEF DropWatched, ExpiryBusy, SchedulerTypeOK
  <1>6. ASSUME NEW o \in Watched, RenewWatchedCa(o) PROVE NoticeInv'
    BY <1>a, <1>6, RenewalKeeps
  <1>7. CASE PassTime \/ UNCHANGED schedulerVars
    BY <1>a, <1>7, ListsShrink DEF PassTime, schedulerVars, ExpiryBusy
  <1> QED
    BY <1>1, <1>2, <1>3, <1>4, <1>5, <1>6, <1>7 DEF SchedulerNext, RunnerStep

\* However ticks repeat, fail, crash and change hands, a notice goes out once per object and stage,
\* unless two ticks ran the job at once (job_expiry_events, _due_for_expiry_event).
THEOREM NoticedOnceHolds == SchedulerSpec => []NoticedOnce
  <1>1. NoticeInv => NoticedOnce
    BY DEF NoticeInv, Marked, NoticedOnce
  <1> QED
    BY <1>1, NoticeInitInv, NoticeNextInv, PTL DEF SchedulerSpec
=============================================================================
