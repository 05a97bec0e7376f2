------------------------------ MODULE Scheduler ------------------------------
(***************************************************************************)
(* The in-app scheduler (services/scheduler_service.py,                    *)
(* models/scheduler_lease.py, `flask scheduler tick`): one thread per      *)
(* worker, a lease row taken by a conditional UPDATE, jobs with a minimum  *)
(* interval, and the job that sends the expiry notices.                    *)
(*                                                                         *)
(* A tick fixes its `now` at its start and may last longer than its lease. *)
(* Of the JOBS, the daily expiry_events is the one modelled here; the      *)
(* others (in Revocation, Ocsp, AcmeOrders and AuditChain) are only the    *)
(* time that a tick takes.                                                 *)
(***************************************************************************)
EXTENDS Naturals, FiniteSets

CONSTANTS
    Runners,        \* the workers' scheduler threads and runs of `flask scheduler tick`
    WatchedCerts,   \* certificates
    WatchedCas,     \* certificate authorities
    FirstNotAfter,  \* their notAfter
    LeaseTtl,       \* three ticks
    DailyInterval,  \* the interval of the daily jobs
    WarningTime,    \* CERT_EXPIRY_WARNING_DAYS
    LastInstant,    \* bound on the clock
    MaxTicks,       \* bound on the ticks
    Never           \* a NULL timestamp

Watched == WatchedCerts \union WatchedCas

ASSUME SchedulerAssumption ==
    /\ Never \notin Runners /\ WatchedCerts \intersect WatchedCas = {}
    /\ FirstNotAfter \in [Watched -> Nat]
    /\ LeaseTtl \in Nat /\ DailyInterval \in Nat /\ WarningTime \in Nat /\ LastInstant \in Nat
    /\ MaxTicks \in Nat
    /\ Never \notin Nat

VARIABLES
    instant,    \* the wall clock
    lease,      \* the row of scheduler_leases
    lastRun,    \* last_run_at of the job's row of scheduler_jobs
    item,       \* the watched certificates and authorities
    tick,       \* the tick that each runner is in
    ticks,      \* how many ticks have begun
    notices,    \* history: how often each notice went out, until two ticks overlap
    overlapped  \* history: two ticks have run the expiry job at once

schedulerVars == <<instant, lease, lastRun, item, tick, ticks, notices, overlapped>>

NoTick == [phase |-> "idle", at |-> 0, force |-> FALSE, todo |-> {}]

---------------------------------------------------------------------------
(* The lease *)

LeaseFreeEarly(h) ==                            \* a lease is given away as it expires
    lease.expires # Never => lease.expires <= instant \/ lease.holder = h

\* The WHERE of acquire_lease
LeaseFree(h) ==
    lease.expires # Never => lease.expires < instant \/ lease.holder = h

StartJobs(r, force) ==
    /\ ticks < MaxTicks
    /\ ticks' = ticks + 1
    /\ tick' = [tick EXCEPT ![r] = [phase |-> "jobs", at |-> instant, force |-> force, todo |-> {}]]

EndTick(r) == tick' = [tick EXCEPT ![r] = NoTick]

\* tick: acquire_lease succeeds. When it does not, nothing changes.
AcquireLease(r) ==
    /\ tick[r].phase = "idle"
    /\ LeaseFree(r)
    /\ lease' = [holder |-> r, expires |-> instant + LeaseTtl]
    /\ StartJobs(r, FALSE)
    /\ UNCHANGED <<instant, lastRun, item, notices, overlapped>>

\* tick(force=True): neither the lease nor the intervals count.
ForceTick(r) ==
    /\ tick[r].phase = "idle"
    /\ StartJobs(r, TRUE)
    /\ UNCHANGED <<instant, lease, lastRun, item, notices, overlapped>>

---------------------------------------------------------------------------
(* The jobs of a tick *)

\* job_is_due, or a forced pass
Due(r) == ~ tick[r].force /\ lastRun # Never => tick[r].at >= lastRun + DailyInterval

SkipJob(r) ==
    /\ tick[r].phase = "jobs" /\ ~ Due(r)
    /\ EndTick(r)
    /\ UNCHANGED <<instant, lease, lastRun, item, ticks, notices, overlapped>>

\* The job raises, before its loop or between the two lists: last_run_at stays, and the job is
\* due again at the next tick.
JobRaises(r) ==
    /\ tick[r].phase \in {"jobs", "certs"} /\ Due(r) /\ tick[r].todo = {}
    /\ EndTick(r)
    /\ UNCHANGED <<instant, lease, lastRun, item, ticks, notices, overlapped>>

---------------------------------------------------------------------------
(* job_expiry_events *)

DueWheneverExpired(objs, at) ==                 \* an expired one is due again and again
    {o \in objs :
        /\ ~ item[o].superseded
        /\ \/ item[o].notAfter <= at
           \/ item[o].notAfter <= at + WarningTime /\ item[o].notified = Never}

\* _due_for_expiry_event: one column tells both stages.
DueForExpiryEvent(objs, at) ==
    {o \in objs :
        /\ ~ item[o].superseded
        /\ \/ /\ item[o].notAfter <= at
              /\ item[o].notified = Never \/ item[o].notified < item[o].notAfter
           \/ /\ item[o].notAfter > at /\ item[o].notAfter <= at + WarningTime
              /\ item[o].notified = Never}

ExpiryBusy(r) == tick[r].phase \in {"certs", "cas"}

BeginExpiry(r) ==
    /\ tick[r].phase = "jobs" /\ Due(r)
    /\ tick' = [tick EXCEPT ![r].phase = "certs",
                            ![r].todo = DueForExpiryEvent(WatchedCerts, tick[r].at)]
    /\ overlapped' = (overlapped \/ \E s \in Runners \ {r} : ExpiryBusy(s))
    /\ UNCHANGED <<instant, lease, lastRun, item, ticks, notices>>

\* The audit row, which is the notice, and the mark are one commit; neither the revocation nor
\* the mark is looked at again. A failure rolls both back and the loop goes on.
Notice(r, o, ok) ==
    LET stage == IF item[o].notAfter <= tick[r].at THEN "expired" ELSE "expiring"
    IN /\ ExpiryBusy(r) /\ o \in tick[r].todo
       /\ tick' = [tick EXCEPT ![r].todo = @ \ {o}]
       /\ IF ok
          THEN /\ item' = [item EXCEPT ![o].notified = tick[r].at]
               /\ notices' = IF overlapped THEN notices ELSE [notices EXCEPT ![o][stage] = @ + 1]
          ELSE UNCHANGED <<item, notices>>
       /\ UNCHANGED <<instant, lease, lastRun, ticks, overlapped>>

\* The list of the authorities is read when the certificates are through.
NextKind(r) ==
    /\ tick[r].phase = "certs" /\ tick[r].todo = {}
    /\ tick' = [tick EXCEPT ![r].phase = "cas", ![r].todo = DueForExpiryEvent(WatchedCas, tick[r].at)]
    /\ UNCHANGED <<instant, lease, lastRun, item, ticks, notices, overlapped>>

EndExpiry(r) ==
    /\ tick[r].phase = "cas" /\ tick[r].todo = {}
    /\ lastRun' = tick[r].at
    /\ EndTick(r)
    /\ UNCHANGED <<instant, lease, item, ticks, notices, overlapped>>

---------------------------------------------------------------------------
(* Around the ticks *)

\* The process goes down in the middle of a tick; its successor has another holder id.
CrashTick(r) ==
    /\ tick[r].phase # "idle"
    /\ EndTick(r)
    /\ lease' = IF lease.holder = r THEN [lease EXCEPT !.holder = Never] ELSE lease
    /\ UNCHANGED <<instant, lastRun, item, ticks, notices, overlapped>>

\* revoke_certificate, the revocation of an authority, and renew_certificate, after which the
\* reminder belongs to the successor.
DropWatched(o) ==
    /\ ~ item[o].superseded
    /\ item' = [item EXCEPT ![o].superseded = TRUE]
    /\ UNCHANGED <<instant, lease, lastRun, tick, ticks, notices, overlapped>>

\* _supersede: an authority's new certificate restarts the expiry clock.
RenewWatchedCa(a) ==
    /\ a \in WatchedCas /\ ~ item[a].superseded /\ item[a].notAfter = FirstNotAfter[a]
    /\ item' = [item EXCEPT ![a].notAfter = instant + FirstNotAfter[a], ![a].notified = Never]
    /\ notices' = [notices EXCEPT ![a] = [expiring |-> 0, expired |-> 0]]
    /\ UNCHANGED <<instant, lease, lastRun, tick, ticks, overlapped>>

PassTime ==
    /\ instant < LastInstant
    /\ instant' = instant + 1
    /\ UNCHANGED <<lease, lastRun, item, tick, ticks, notices, overlapped>>

---------------------------------------------------------------------------

SchedulerInit ==
    /\ instant = 0
    /\ lease = [holder |-> Never, expires |-> Never]
    /\ lastRun = Never
    /\ item = [o \in Watched |-> [notAfter |-> FirstNotAfter[o], notified |-> Never,
                                  superseded |-> FALSE]]
    /\ tick = [r \in Runners |-> NoTick]
    /\ ticks = 0
    /\ notices = [o \in Watched |-> [expiring |-> 0, expired |-> 0]]
    /\ overlapped = FALSE

RunnerStep(r) ==
    \/ SkipJob(r)
    \/ JobRaises(r)
    \/ \E ok \in BOOLEAN, o \in Watched : Notice(r, o, ok)
    \/ BeginExpiry(r)
    \/ NextKind(r)
    \/ EndExpiry(r)

SchedulerNext ==
    \/ \E r \in Runners : AcquireLease(r) \/ ForceTick(r) \/ RunnerStep(r) \/ CrashTick(r)
    \/ \E o \in Watched : DropWatched(o) \/ RenewWatchedCa(o)
    \/ PassTime

SchedulerSpec == SchedulerInit /\ [][SchedulerNext]_schedulerVars

---------------------------------------------------------------------------

Instants == 0..(LastInstant + LeaseTtl)

\* The rows, the ticks and the counts are what they should be.
SchedulerTypeOK ==
    /\ instant \in 0..LastInstant
    /\ lease \in [holder : Runners \union {Never}, expires : Instants \union {Never}]
    /\ lastRun \in 0..LastInstant \union {Never}
    /\ item \in [Watched -> [notAfter : Nat, notified : 0..LastInstant \union {Never},
                             superseded : BOOLEAN]]
    /\ tick \in [Runners -> [phase : {"idle", "jobs", "certs", "cas"}, at : 0..LastInstant,
                             force : BOOLEAN, todo : SUBSET Watched]]
    /\ ticks \in 0..MaxTicks
    /\ notices \in [Watched -> [expiring : Nat, expired : Nat]]
    /\ overlapped \in BOOLEAN

Busy(r) == tick[r].phase \in {"jobs", "certs", "cas"}

\* Two workers run jobs at once only when the tick of one of them has outlived the lease that it
\* took: the conditional UPDATE never hands out a lease that is held (acquire_lease).
OneHolderAtATime ==
    \A h, k \in Runners :
        h # k /\ Busy(h) /\ Busy(k) /\ ~ tick[h].force /\ ~ tick[k].force =>
            \/ tick[h].at + LeaseTtl < tick[k].at
            \/ tick[k].at + LeaseTtl < tick[h].at

\* However ticks repeat, fail, crash and change hands, a notice goes out once per object and stage,
\* unless two ticks ran the job at once (job_expiry_events, _due_for_expiry_event).
NoticedOnce ==
    ~ overlapped => \A o \in Watched : notices[o].expiring <= 1 /\ notices[o].expired <= 1
=============================================================================
