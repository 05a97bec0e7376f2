# Verification of Chancery

Chancery is a certificate authority with a web interface, a JSON API and an ACME server: a Flask
application that several worker processes serve over one SQL database (SQLite by default), with
a scheduler thread in the process that holds a lease, and command lines that run beside them.
This project models the parts of it that are hard to test, checks them with TLC on small
instances and proves the most important properties with TLAPS for every size.

## 1. The system

| component | state | operations | talks to |
|---|---|---|---|
| CSR signing (`csr_service`, `cert_service`, `routes/csr`) | a CSR's status `pending / signing / approved / rejected`, its creator and signer | create, import, claim, sign, release, reject | certificates, dual control, audit log |
| Certificates (`cert_service`, `routes/certificates`) | certificate rows, `is_revoked`, the successor of a renewed one | issue, renew, supersede, revoke | CRL publication |
| CA hierarchy (`ca_service`, `routes/ca`) | CA rows: parent, approval, revocation, serial, alternates that wait for approval | create, import, approve, re-issue, cross-sign, revoke | CRL publication, key backends, dual control |
| CRL publication (`crl_service`, `routes/public`) | `crl_number`, `crl_pem` per CA | generate, refresh, publish final CRLs, serve, regenerate lazily | every revocation, scheduler, command line |
| Scheduler (`scheduler_service`) | one lease row, `expiry_notified_at` | acquire the lease, tick, run jobs: CRL refresh, expiry notices, audit seal, ACME maintenance | all of these |
| ACME (`services/acme`, `routes/acme`) | nonces, accounts, EAB keys, orders, authorizations, challenges | the RFC 8555 requests, validation, maintenance | CSR signing, revocation |
| Audit log (`audit_service`, `audit_chain`) | rows, sealed hashes, checkpoints | log, seal, verify, anchor, prune | every operation |
| Accounts (`dual_control_service`, `routes/users`, `auth_service`, `totp_service`) | users, roles, lockout counters, session versions, TOTP steps, a credential cache per process | authenticate, lock, change roles, approve | CSR signing, CA approval |
| OCSP (`ocsp_service`) | delegated responder certificates, cached answers | answer | certificates, CAs |
| Keys (`passphrase_service`, `keybackend`, `cli`) | wrapped keys, token objects | sign, rotate the passphrase, migrate keys | whatever signs |
| Profiles and policy (`profile_service`, `policy`, `name_constraints`) | profile rows | resolve, enforce | issuance |
| Webhooks, LDAP, metrics, OpenAPI, templates | settings | notify, bind, render | - |

What is hard about it is concurrency over one database. A request reads and checks, then writes.
SQLite has a single writer whose lock a transaction takes with its first write, so a *writing
transaction* is atomic, but the check that led to it was usually made earlier, outside it. Where
the code matters most it repeats the check in the `UPDATE` (the claim on a CSR), or takes the
lock first (the CRL number); elsewhere it does not. On top of that, the operations that touch
several rows or sign several times commit in between (revoke, then publish), so a failure or a
kill can separate them.

Properties that make each part correct:

- CSR signing: one certificate per CSR; no claim lost; a settled CSR stays settled; every
  issuance that is reported as done is audited; four eyes.
- Revocation and CRLs: CRLs list only what is revoked, never lose an entry, never repeat a
  number; every revocation is published or its loss is reported; a revoked CA takes its whole
  subtree with it and leaves a CRL that outlives it.
- Issuance: what is issued validates along its whole chain; one renewal per certificate.
- Scheduler: due CRLs get refreshed; one tick per lease; each notice once.
- ACME: one certificate per order, one use per nonce and EAB key, no order stuck.
- Audit: a seal skips nothing and breaks nothing; what is pruned is vouched for by a checkpoint.
- Accounts: there is always an active admin; nobody makes an admin alone.
- Logging in: the lockout bites, a code works once, the second factor is not skipped, a replaced
  password is dead.
- Tokens: no token, and none made by it, does more than was granted, its owner's own credentials
  aside.
- OCSP: no "good" after a revocation; every answer is signed by the responder that it names.
- Keys: after a rotation or a migration, interrupted or not, every key opens.

`PROJECT.json` lists every component with what is modelled of it, and every hazard with its line.

## 2. Modules

| module | what it is |
|---|---|
| `SingleFlight` | abstract specification: a request is held by at most one worker and becomes at most one certificate |
| `CsrSigning` | the life of a CSR over concurrent workers; implements `SingleFlight` |
| `Revocation` | CA hierarchy, revocation, CRL publication and regeneration |
| `Issuance` | authorities, cross-certificates, certificates, profiles and renewals: what may be issued |
| `AcmeOrders` | ACME orders, authorizations and challenges over requests with stale sessions |
| `AcmeAccounts` | ACME nonces, accounts, their keys and external account bindings |
| `Scheduler` | lease, ticks, expiry notices |
| `AuditChain` | the hash chain over the audit log: sealing, anchors, pruning, verification |
| `Ocsp` | OCSP answers, their caches, and the replacement of responders |
| `KeyStore` | CA keys in rows and in the token, migration, passphrase rotation |
| `Accounts` | accounts and roles under dual control |
| `Login` | passwords, lockout, second factor, sessions, the credential cache |
| `Tokens` | API and metrics tokens and their scopes |
| `CsrSigningProofs`, `RevocationProofs`, `AcmeOrdersProofs`, `SchedulerProofs` | theorems about the modules that they are named for |
| `IdentityProofs` | theorems about `Accounts`, `Login` and `Tokens` |
| `ServicesProofs` | theorems about `Ocsp`, `AcmeAccounts`, `Issuance`, `AuditChain` and `KeyStore` |
| `MCIdentityProofs`, `MCServicesProofs` | the two composed instances behave as their components do, each by itself |
| `MCCsrSigning` | instance for `CsrSigning.cfg`, `CsrRejectRace.cfg` |
| `MCRevocation` | instance for `Revocation.cfg`, `RevocationLive.cfg`, `FinalCrl.cfg` |
| `MCAcmeOrders` | instance for `AcmeOrders.cfg`, `AcmeOrdersLive.cfg`, `AcmeFinalizeRace.cfg` |
| `MCIdentity` | `Accounts`, `Login` and `Tokens` side by side: `Identity.cfg`, `ApprovedByAnother.cfg`, `OldPasswords.cfg` |
| `MCServices` | `Scheduler`, `AuditChain`, `Ocsp`, `KeyStore`, `Issuance` and `AcmeAccounts` side by side: `Services.cfg` |

`MCIdentity` and `MCServices` are not compositions of interacting parts. The components in them
share no modelled state; where one of them depends on another (is the owner of a token active?
is the CA revoked?), its module has an action of its own for what the other may do. A behaviour
therefore stays in one component, chosen by `focus` at the start, and the state
spaces add up instead of multiplying. Components that do share state are in one module: approval,
revocation and publication in `Revocation`, the claim and its certificate in `CsrSigning`.

In every module a definition next to its wrong form (`ClaimableWhatever`, `SweptShallow`,
`LeaseFreeEarly`, ...) is a bug that the properties are tried against; `PROJECT.json` pairs them.

The modules share one view of a request, which follows from how the code uses SQLAlchemy and
SQLite: it reads rows, decides, and later commits the columns that it has changed. What is in
between is open to every other process. Reads and commit are one action only where nothing that the
decision rests on can change in between, and two reads are one only where no request goes by both;
the module's comments say so.

### CsrSigning

| state | code |
|---|---|
| `status`, `creator`, `signedBy` | the columns of `certificate_signing_requests`; `absent` is a row not inserted yet |
| `certificates` | how many `Certificate` rows were issued from the CSR |
| `dualControl` | what `dual_control_service.is_active()` answers; it follows accounts and settings and may change at any time |
| `worker` | which request a process is in the middle of, and how far |
| `audited` | CSRs with a committed `sign_csr` audit row |
| `orphaned`, `unlogged`, `relaxed` | history: CSRs whose worker died with the claim or before the audit row; CSRs whose request failed after the certificate was committed; CSRs that lived while dual control was off |

The sign route is five steps, because it is five separate moments for the other workers: it loads
the CSR and checks it (`BeginSign`, with every later refusal as `RefuseSign`), claims it with a
conditional `UPDATE` and a commit (`ClaimCsr`), signs and commits certificate and approval
(`SignClaimedCsr`) or fails (`SignFails`) and gives the claim back (`ReleaseCsr`), and commits the
audit row (`AuditSign`) or fails to: the route's `except Exception` then rolls back and answers with
an error, although the certificate is there (`AuditFails`). Rejection is two: check (`BeginReject`),
then an update by primary key (`RejectCsr`). `Crash` ends a request anywhere.

### Revocation

| state | code |
|---|---|
| `approval`, `serial`, `expired`, `revoked`, `issuer` | columns of `certificate_authorities` and `certificates`; a serial number is kept as how often the certificate was issued anew |
| `reissue` | `ca_certificates` rows of kind `reissue` that wait for approval |
| `crl` | `crl_number`, and of `crl_pem` the entries and how far nextUpdate is: `fresh`, `due` (the scheduler would refresh it), `lapsed`, `final` (the CA's own notAfter) |
| `worker` | the request or job a process is in the middle of; `todo` is the rest of a loop |
| `missed` | history: CAs whose CRL lacks a revocation because a signature failed or a process died |
| `events` | how many more requests and clock events the run has |

Every request is a check (`Begin...`), one writing transaction, and the publications that follow
it, each a transaction of its own: `RefreshCrl` after a certificate, an approval or a re-issue;
`PublishParent` and one `PublishFinalCrl` per CA of the subtree after a CA is revoked. The
scheduler (`JobCrlRefresh`) and the command line (`CliCrlRefresh`) list the CAs once and then
look at (`ScanNext`) and sign (`GenerateCrl`) each. `Generate` is `generate_crl`: the increment of
the number opens the transaction, so number, entries and the stored CRL are one step.

`Reach` stands for the recursive walks over children (`_revoke_ca_recursive`, `_revoked_subtree`):
what is reached from a CA through children in a set, as the intersection of all closed sets, so
that it can be reasoned about without recursion.

### AcmeOrders

| state | code |
|---|---|
| `account`, `order`, `authz`, `chall`, `attempts` | the `status` columns of the four tables and `AcmeChallenge.attempts`; an order's rows exist from `NewOrder` on |
| `overdue` | the orders whose `expires`, shared with their authorizations, has passed |
| `worker` | the request of each worker, and its view: the rows as its session loaded them |
| `sweep`, `sweeping` | the rows that a running `maintain` has found |
| `certs`, `proven` | history: certificates per order, and names of which a lookup has succeeded |

A request loads (`LoadOrder`, `LoadAuthz`, `LoadChallenge`), computes on its view
(`RefreshOrder`, `RefreshAuthz`, `AttemptDns01`, `RespondChallenge`, `DeactivateAuthz` are
functions from view to view) and commits: `Commit` writes the columns that differ from the view
over whatever the database has by then, which is what a SQLAlchemy session does. Between the two
a network lookup may take seconds; it is an outcome chosen at the commit. A poll reads the order
only after its lookup (`WithOrder`), under the write lock of its own flush. Refused requests
commit too, with the fresh nonce of their answer; internal errors roll back (`ProfileMissing`,
`SignFails`). Finalize is three transactions: `TakeOrder`, `IssueCertificate`, `LinkCertificate`.

### Issuance

| state | code |
|---|---|
| `authority` | rows of `certificate_authorities`: parent, path length, notAfter, name constraints, the names in the subject, whether the key is here, imported or made, `allowed_profiles` |
| `leaf`, `crosses` | rows of `certificates` with `renewed_from_id`; cross-certificates among `ca_certificates` |
| `profile` | `certificate_profiles`: there, enabled, kinds of names and longest validity |
| `desk` | what a request has signed and not yet committed, with what it relied on (`basis`) |
| `overtaken` | history: another request has changed what a commit relied on |

`CreateRoot`, `CreateIntermediate` and `ImportCa` are at once; `Reissue`, `CrossSign`, `Issue`,
`Renew` and `DeleteProfile` decide and put their row on the desk, and `CommitReissue`,
`CommitCross`, `CommitLeaf`, `CommitDrop` or `Abandon` follow. Names are abstract: a subtree of a
name constraint is a kind and the set of names that it covers, which is what `_WITHIN` computes
from the syntax. The clock counts half days because a re-issue counts whole ones.

### Scheduler

`lease` and `lastRun` are the rows of `scheduler_leases` and `scheduler_jobs`; `item` is notAfter,
`expiry_notified_at` and superseded or revoked of each certificate and authority; `tick` is what
each scheduler thread or `flask scheduler tick` is doing, with the `now` that it fixed at its
start. `AcquireLease` is the conditional `UPDATE`; `ForceTick` skips it. The expiry job is
`BeginExpiry`, one `Notice` per object (a commit of its own, which may fail), `NextKind`,
`EndExpiry`; `JobRaises` and `CrashTick` end a tick anywhere. `overlapped` is history: two ticks
have been in the job at once, which the lease does not exclude for ticks that outlive it or are
forced.

### AuditChain

`log` is the table by id; a row's `hash` is the sequence of the rows that it vouches for, so that
two hashes agree exactly when the rows behind them do. Requests append unsealed rows
(`LogAction`); a sealer reads the head and the pending rows (`ReadPending`) and writes what it has
computed (`WriteSeals`), whatever another one has done meanwhile; `Anchor` tells the receiver of
the webhook stream the head; `Prune` archives, deletes and leaves a checkpoint, `PruneFails` has
written the file only. `Verify` is the walk of `verify`. `headPruned` is history: a pruning has
taken the last sealed row there was.

### Ocsp

`responder` is the responder certificate of the CA's row, `replies` and `keyCache` the two caches
of each process, `query` the request in it. A query reads (`BeginQuery`), finds out who signs
(`DirectPath`, `UseResponder`, `LazyRotate`, `RotationFails`) and answers (`Answer`), from the
cache if the key of the cache matches. Responders are replaced by a query, the job, an admin and
the shell (`RotateResponder` is what they share), and processes restart.

### KeyStore

`keyRow` is `key_backend`, `private_key_enc` and `key_label` of each CA, with the ciphertext told
by the generation of its passphrase; `objects` is the token; `secretFile` and `config` are the
passphrase in the file and the one that each worker read when it started; `shell` is the command
that each command line is in. Migration is `BeginMigrate`, `ImportKey`, and `CommitMigrate` or
`FailMigrate` (rollback and destruction of the object); rotation is `BeginRotate`, `CommitRotate`
and the operator's `SwapSecret`; `EndCommand` interrupts any of them. `strayed` is history: a
worker wrote a ciphertext during a rotation, or before it was restarted after one.

### AcmeAccounts

`nonce`, `registration`, `eabKey` are the rows of `acme_nonces`, `acme_accounts` and
`acme_eab_keys`; `message` is the request that each server is in: verified, past its nonce, about
to add an account or to set a key. A nonce is looked up with the verification (`Arrive`) and
deleted in a commit of its own (`SpendNonce`); accounts are added and keys changed in two steps
each (`NewAccount`, `AddAccount`; `ChangeKey`, `SetKey`), of which the second may meet the unique
constraint. `shared` is history: the nonces and bindings that two requests had looked up before
either committed.

### Accounts

`acct` is the users table; `proc` is the request of each process, with the rows that it has read,
then the columns that it will write, and whether others have committed meanwhile (`stale`);
`hands` and `setters` are history: who has changed an account since it was created, and who has
caused what awaits approval of it.

A request is four steps, as its reads are `SELECT`s at different times: `Arrive` (`load_user`: the
admin's own row, which stays in the session), `Load` (the row of the account that it is about),
`Handle`, and `Commit`; it may end anywhere (`Abandon`). `Handle` is the handler: `CreateUser`,
`EditUser`, `ToggleActive`, `ResetPassword`, `ApproveUser`. It goes by the two rows as they were
read, but counts the active admins, or asks `is_active()`, when it is there. For `create_user` that
is after a password was hashed. Count and mode are one step because no request goes by both: the
count is asked when an admin is demoted or deactivated, the mode when somebody is created, promoted,
reset or approved. `flask users approve` and a login through the directory (`LdapLogin`) have no
admin and start with `LoadAlone`. `SwitchLdap` turns the directory on and off, which is part of
whether dual control is in force.

An admin who is active is somebody who could approve, so `is_active()` is true of them when they
arrive. It need not be when it is asked: if they are deactivated meanwhile and were the last
ordinary account, their request goes on ungated. `Outlived` is that case, `lapsed` marks the
request, and its commit leaves `Deactivated` among the `hands` of the account that it changes.

### Login

`rec` is the row of one local account; `sessions` and `pre` are every session cookie and every
cookie of a login that waits for its second factor that were ever set, since a client may present
any of them; `cache` is the `CredentialCache` of each worker; `req` is the request of each process.
Passwords and recovery codes are numbered; a TOTP code is the step it is for. `Authenticate` is
shared by the form and by Basic Auth, as in the code, and goes on to `Enter`. `overlapped` is
history: a request has committed on a row that had changed under it.

### Tokens

`token` is the rows of both kinds, `bearer` the request that each process has let in and not yet
answered. `root` in a row is the token, made by a user, that it descends from: it is history, and
what `NoEscalation` measures against. `Admit` is the hook that checks token, owner and scope; the
handlers `ServeRequest`, `CreateByToken`, `RevokeByToken` run afterwards, whatever has become of
the token. `RequiredScope` is the table of the code, `Allows` its use by the hook, `GrantedFor` what
the labels of the scopes tell the user: the property compares the two. A request is told by its
endpoint as far as the table tells endpoints apart. `"auth"` is every page of blueprint auth, for
which the table returns `None` and the hook asks for no scope; so do the blueprints that are left
out (public, health, metrics), which ask for no user either.

## 3. Runs

| run | result | what it shows |
|---|---|---|
| `csr_signing` | passes, 213 thousand states | two workers, two CSRs, an ordinary admin and the bootstrap account, dual control switched at any time, crashes, failing signatures and audit rows |
| `csr_reject_race` | **violated** | a rejection decided before a concurrent signature is written after it: the CSR is `rejected` and its certificate is live |
| `revocation` | passes, 496 thousand states | two workers and the scheduler, a root, an intermediate, a sub-CA that may be created, a leaf and room for another; any three requests or clock events of all kinds, failing signatures, crashes |
| `revocation_live` | passes, 18 thousand states | the two liveness properties, without faults |
| `final_crl` | **violated** | revoke a CA while its re-issue waits, then approve the re-issue: the final CRL is replaced by a short-lived one that nothing refreshes |
| `acme_orders` | passes, 736 thousand states | one order of two names (http-01, dns-01), two workers, every request, expiry, maintenance, account deactivation, crashes |
| `acme_orders_live` | passes, 142 thousand states | one order of one name (dns-01), fair workers, clock and maintenance |
| `acme_finalize_race` | **violated** | a finalize repeated while the first is in progress issues a second certificate for the order |
| `identity` | passes, 783 thousand states | accounts under dual control, logins to one account, tokens: two processes each (tokens: one), overlapping requests |
| `approved_by_another` | **violated** | a second request on a waiting account replaces `pending_by`, and the admin who created the account approves it |
| `old_passwords` | **violated** | a replaced password still opens the credential cache of the other worker, or a login that waits for its second factor |
| `services` | passes, 939 thousand states | the six components of `MCServices`, two processes each |

Properties of `csr_signing`: `RefinesSingleFlight` (a CSR is held by one worker at most, and only
its holder makes it one certificate), `ClaimsHaveHolders` (a claim without a living holder is one
whose holder died), `IssuanceAudited` (a certificate has its audit row, or the request that made it
is still running, was killed, or was answered with an error), `FourEyes` (own CSR signed only if
dual control was off at some moment of its life), `NeverReopened`, `ClaimsEnd`, and the type
invariant. `SingleIssue` and `ExclusiveClaim`, which the refinement contains, and `IssuedIsSettled`,
on which they rest, are theorems without a place in the run.

Properties of the revocation runs: `ListedIsRevoked`, `RevokedIsPublished` (every revocation is
listed, or a process is about to list it, or its loss is in `missed`), `SweepIsComplete`,
`CrlGrows`, `RevocationReachesCrl`, `DueCrlIsRefreshed`.

Properties of the ACME runs: `AuthorizedBeforeIssue` (an order that is ready or further has had
every name proven, whatever stale sessions wrote), `BudgetKept` (a dns-01 challenge that waits for
another lookup has attempts left), `OrdersSettle` (every order ends valid or invalid),
`SettledStays` (a settled order changes only by a session or a maintenance that had found it
unsettled; that a valid order stays valid whatever happens is not so, since a poll or a finalize
that loaded the order earlier, or the maintenance, may write `invalid` over it) and
`CertificatesBounded` (what the race of finding 3 can cost: `n (n + 1) / 2` certificates for one
order with `n` workers, three in the run, however often a client asks).

Properties of `identity`:

- `NoLoneGrant`: under dual control nobody gains an active account or the admin role by the
  doing of one ordinary admin, whatever requests overlap and whatever commits between the reads of
  one, except by a request that has outlived its admin's own account (`lapsed`).
- `LastAdminKept`: no request that commits on fresh rows leaves the system without an active
  admin. Two that overlap can take the last two away, since the check is a count before the commit.
- `LockoutBites`: how many wrong guesses fit before the account locks, when concurrent workers
  lose increments of the counter.
- `CodeWorksOnce`: no TOTP step and no recovery code is accepted twice, unless requests overlapped.
- `SecondFactorKept`: every session that an enrolled account honours was opened with the factor.
- `NoEscalation`: what is done with a token is within what the first token of its line was granted,
  or is its owner's own password and second factor; and a line of tokens is one owner's.

Properties of `services`:

- `OneHolderAtATime`: two ticks on the lease run at once only if one has outlived its lease.
- `NoticedOnce`: each stage of each object is announced once, however ticks fail and change hands,
  unless two ticks were in the job at once.
- `ChainHolds`, `SealsAgree`: whatever sealers, anchors and prunings do, verification finds
  nothing, anchors stay true, and a sealed row keeps its hash, unless the head itself was pruned.
- `NoGoodAfterRevocation`, `SignedByItsResponder`: neither cache answers for a status or with a key
  of the past.
- `NoKeyLost`, `OnePassphrase`: a migration or rotation, interrupted anywhere, loses no key and
  leaves the database under one passphrase, unless a worker strayed.
- `ChainsVerify`: path lengths, name constraints and validity fit along the whole chain although
  the code looks at the parent's path length only. Authorities imported below another one are
  excepted, and a re-issue on the last day of its issuer.
- `LeavesStayLinked`: one renewal per certificate unless forced, and profiles that are referred
  to exist, unless a request was overtaken.
- `UsedOnce`: one use of a nonce and of a binding, unless two requests had looked it up before
  either committed, and one account per key.
- `SharedUseBounded`: where two requests have looked it up, a nonce and a binding are still used
  no more often than there are servers, however many messages come.

**Hypotheses from history.** `overlapped`, `overtaken`, `stale`, `lapsed`, `shared`, `strayed`,
`unlogged` and `headPruned` mark behaviours in which the code, by its read-then-write design, makes
no promise. They are as narrow as the code allows (`overtaken` is set only if what the request
relied on has really changed, `lapsed` only if nobody but the bootstrap account is left to log in
and the request's own admin is among those who no longer can), and each property still speaks of
every other interleaving. What happens when they are set is listed in section 5.

**Bounds.** Two processes are enough for every race in these components: each property relates a
check and a write of one process to a commit of another. Two CSRs let a worker move on to another
one. Three CAs are a chain, the shortest hierarchy in which a sweep has to recurse and in which a
CA is both child and parent; in `Issuance` they are the shortest in which a path length or a name
constraint binds two levels down. `MaxEvents = 3` allows the create-revoke-approve sequences with
every interleaving of their steps; steps of requests that have arrived, CRL jobs of the scheduler,
failures and crashes are not counted. Two names are the fewest with which an order can be half
proven, and `MaxAttempts = 2` gives a first miss, a retry and an exhausted budget; the liveness
instance has one name, since what it asks is of the order as a whole.

In `identity`, three admins of whom one is the bootstrap account and one more user are the fewest
with a setter, a different approver and somebody to be promoted, and three requests a set-up, a
second one on top and an approval. Lockout after two, five requests and three clock values give a
lock, its end and another guess; the second factor's window spans all three. Two tokens are a
parent and its child; what holds along longer lines is proved.

In `services`, `LeaseTtl = 1` with four instants lets a lease expire under a tick and be taken by
the other of `MaxTicks = 2`; four audit rows over three instants allow two sealed runs, an anchor or
a pruning and what follows (every log and clock is in the proofs); two responders and four queries a
replacement under cached answers and keys; two CAs, two labels and three passphrases a migration
beside a rotation and a second rotation; two nonces, one binding and three messages a replay, a race
for a key and a key change back and forth; three accounts and three keys, one more than the servers,
would let a binding make more accounts than `SharedUseBounded` allows. Days and lifetimes are the
smallest at which expiry falls inside the run.

Processes that are interchangeable form the symmetry sets, and in `services` the nonces do, of which
those not yet issued are all alike; in safety runs only.

**Deadlock** is checked in `csr_signing`. The other runs stop when the bounded requests and clocks
have run out (ACME: when the account is deactivated and its orders are closed), so they say
`CHECK_DEADLOCK FALSE`.

**Fairness.** Weak fairness of what a process does next on its own (`Proceed`): the operating
system runs every process, and no step waits for another request. `SignFails`, `RefuseSign`,
`GivesUp`, faults and new requests are never forced. The scheduler's tick is weakly fair because
its thread loops for ever and, while it holds the lease, starts a job each time. `ClaimsEnd`
holds with crashes because a killed worker's claim is excepted; the two revocation properties are
checked without faults, since a failed signature is not retried (the user is told to).
`OrdersSettle` holds with crashes: it rests on the clock and the scheduler's hourly maintenance
alone, and on started requests coming to an end.

## 4. Proofs

Everything below is proved for any sets of workers, CSRs, users, CAs, certificates, orders, names,
challenges, labels and tokens, any parent relation, any lease time and any number of requests. The
assumptions are the named `ASSUME`s of the modules: the special values (`NoCsr`, `NoCa`, `Never`,
...) are not members of the sets they stand beside, certificates are not CAs, orders,
authorizations and challenges are different things, a parent is a CA or none, the rows of
authorities, the workers that answer ACME orders and the servers that answer ACME accounts are
finitely many (`entrypoint-app.sh` starts a fixed number of processes; a bound that counts them
needs their number), a lockout takes at least one failure, and bounds are numbers.
In `Revocation` nothing is assumed of the shape of the hierarchy, not even that it has no cycle; in
`Issuance` a hierarchy is what the program builds. One theorem has a hypothesis of its own, the
threshold of `LockoutBites` below.

Every safety and action property of the passing runs is a theorem, and so is every type invariant.
Each property is proved of its component's own specification (`Spec`, `LoginSpec`, `ChainSpec`,
...). The runs of `MCIdentity` and `MCServices` check instances in which several components stand
side by side; `IdentityProjects` and `ServicesProject` prove that a behaviour of the instance is one
of each component, so that the theorems of the components are theorems of what the runs check, and
`IdentityTypeCorrect` and `ServicesTypeCorrect` are the first ones carried over.

**`CsrSigningProofs`**: `TypeCorrect`, `SingleIssueHolds`, `ExclusiveClaimHolds`,
`ClaimsHaveHoldersHolds`, `IssuedIsSettledHolds`, `NeverReopenedHolds`, `IssuanceAuditedHolds`,
`FourEyesHolds`, `CsrSigningRefines`.
`SingleIssue` is not inductive: nothing in it forbids a second claim on a CSR that has a
certificate. The inductive invariant `IInv` adds that a CSR with a certificate is settled, that a
held CSR has none, is held once and is not pending (it may have become rejected under its
holder), and that a CSR in `signing` has a holder or an orphan mark. Every action keeps it because
the claim is the one conditional write and the release is conditional on `signing`. The refinement
follows step by step: `ClaimCsr` is `Take`, `SignClaimedCsr` is `Issue`, `ReleaseCsr` and `Crash`
are `Drop`, the others change neither holders nor certificates. `FourEyes` is checked when the
request arrives and has to hold when it signs, much later, while dual control is switched on and
off: `EyesInv` says that a request on its own user's CSR has been let in by the mode and that
`relaxed` remembers the CSR.

**`RevocationProofs`**: `TypeCorrect`, `ListedIsRevokedHolds`, `FinalIsRevokedHolds`,
`CrlGrowsHolds`, `SweepIsCompleteHolds`, `RevokedIsPublishedHolds`. Types need `TasksNamed`: a
process in a step that works on a CA or on a certificate has one in hand. The invariant `RInv` adds
that a revoked certificate was issued (so that its authority can no longer change) and that the CAs
still to get a final CRL are revoked. Each step is then shown to have one of few effects: on the
rows, `RowsOnlyGrow` (revocations stay, issuers stay, serial numbers rise); on a CRL, `CrlStep`
(nothing, ageing, or a new CRL made from the rows as they are, in a step that changes no row). Four
properties follow from these two facts; `SweepIsComplete` also from the closure of `Reach` under
children. `RevokedIsPublished` needs a third effect, `PublishStep`: after a step, a CA that
publishes has all of its entries on its CRL, or is owed a publication or has lost one, or had been
complete and the step revokes nothing of its own. A process that drops its task drops only what it
has published or records the loss; a sweep owes a CRL to all that it has revoked, because what it
reaches lies in the revoked subtree afterwards (`ReachGrows`, `ReachInto`); and a renewal that
supersedes has the old certificate's own CA in hand (`RenewersInHand`).

**`AcmeOrdersProofs`**: `TypeCorrect`, `AuthorizedBeforeIssueHolds`, `BudgetKeptHolds`,
`SettledStaysHolds`, `CertificatesBoundedHolds`. `AuthorizedBeforeIssue` is not inductive: an order
becomes ready from a view that may be stale. `AInv` adds that no row and no view calls an
authorization valid that is not proven, or an order ready whose names are not all proven. The
functions on views return views that are `Sound`: they call an order ready only if its names are
proven or are valid in the same view, and `CommitSound` turns that into the invariant, because a
commit adds to `proven` what its session has just validated. `RespondChallengeSound` is where a
guard of the code is needed: only a pending authorization is settled, so no readiness that the view
has derived rests on the one that changes. `BudgetKept` relates two columns, and a commit writes
each only if its session has changed it, over rows of another time. `BudgetInv` says that status and
count fit together in the rows and in every view, and that no row is pending again once a view has
seen it answered; a session that uses up the last attempt settles the challenge in the same view, so
the two columns travel together. `SettledStays` needs `HandsRight`: a request that works on an order
has found its row, a new order is in one worker's hands, and maintenance has found what it closes.
`refresh_order` returns a settled order as it is (`RefreshOrderDerives`), so a commit that changes
one was derived from a view of an unsettled one, whichever request made it. `CertificatesBounded` is
a count of workers, not of requests. For each order, let `c` be its certificates, `g` the workers
that sign for it, `h` those that hold a view with which they may take it, and `q` those that wait no
more: they hold no view from which the order could become ready again. A worker that makes a taken
or closed order ready again had loaded it while it was pending, and an order never becomes pending
again, so that each return costs one worker that could cause another; from each of them at most as
many certificates follow as there are workers to read it as ready. `CountInv` says this with `Fits`:
while the order is ready, `2 (c + g) + q <= q * q`; once it was taken or closed, `2 (c + g + h) <= q
* q + q`; and `q` is never more than the workers there are. `CountsMove` relates the cardinalities
before and after a step, and the arithmetic of each kind of step is a lemma of its own (`FitsEnds`
and those that follow it).

**`SchedulerProofs`**: `SchedulerTypeCorrect`, `OneHolderHolds`, `NoticedOnceHolds`.
`OneHolderAtATime` speaks of two ticks, the `UPDATE` of the row alone. `LeaseInv` relates them: a
tick on a lease is no younger than the lease in the row, and if that is another's, it was taken
after the tick's own had expired; and no lease was taken in the future. Every step but
`AcquireLease` leaves this alone (`SameTicks`). `NoticedOnce` counts notices, of which the code
keeps nothing but one mark for two stages; `NoticeInv` says what the mark tells (`Marked`) and that
what is on the list of a job, made before its first notice, is still news at the last
(`ListIsNews`), as long as one job runs.

**`IdentityProofs`**, accounts: `AccountsTypeCorrect`, `NoLoneGrantHolds`, `LastAdminKeptHolds`. A
request commits columns that it decided on rows of another time, and `hands` remembers who has
touched an account. `GrantInv` adds to the rows what is pending and in whose name (`RowsBacked`); to
every request that its commit, over whatever row there is by then, gives power only with
enough hands on it or in the name of one (`RequestsBacked`); and to a request that still decides
that the row it has read, whatever has become of it since, had hands for what it says
(`ReadsBacked`), hands that only grow, and that it acts for an admin that was there when it arrived
(`RequestsKnown`). The decision itself turns on `AdminIsGated`: when the mode is asked, an admin is
gated, or is the bootstrap account, or has been outlived by their request. `AdminInv`, for
`LastAdminKept`, says that a request that nobody has overtaken has read the rows as they are
(`FreshReads`) and leaves an admin if it commits now (`FreshLeaveAnAdmin`).

Logins: `LoginTypeCorrect`, `CodeWorksOnceHolds`, `SecondFactorKeptHolds`, `LockoutBitesAlone`,
`LockoutBitesHolds`. `LoginInv` is one invariant for all of them. Until its row is changed by
another one, a request knows the row (`InForce`): the factor it shows is unused and its commit uses
it up, and what it opens carries the new session version; where it has committed and has still to
open a session, the row that it read is `Former`. `SessionsStamped` and `Spent` say the same of the
cookies and the codes that exist. `LockoutBites` holds of requests that do overlap, since lost
updates only have so much to lose: a request writes one more than the counter that it read. With one
other worker, each step of the counter from `f` to `f + 1` can hide at most the guesses from `f` to
the threshold, hence the sum of `1..Threshold`; `GuessInv` is that count, with what each worker
still has to write. The theorem is about **two** workers: with `n` of them a counter that is read
once can hide as many guesses as the others have time for. Without an overlap,
`LockoutBitesAlone` proves the plain bound for any number of workers. Both assume `Threshold > 1`
(the default is 5). The property counts guesses since the counter was last cleared, or the account
locked; the last active admin is never locked (`auth_service.py:128-133`, on purpose), only
cleared, and with a threshold of 1 the counter is at 0 already, so no clearing would be seen.

Tokens: `TokensTypeCorrect`, `NoEscalationHolds`. What a request does is measured when it is
answered, long after it was let in. `TokensInv` adds that a request in progress is one that its own
token reaches (`Reach`: what it is granted for, and blueprint auth if it is an API token), and that
a token reaches no more than the first of its line, whose row is never deleted and whose owner is
its own (`RootsGrant`). `ScopesGrant` is where the two tables of the code meet: whoever passes the
test of `check_api_token` was granted the request, or the request is one that no scope is asked for.
A token that makes tokens has `admin`, since `users.api_tokens` is on no list, hence its line can be
granted anything.

**`ServicesProofs`**. OCSP: `OcspTypeCorrect`, `NoGoodAfterRevocationHolds`,
`SignedByItsResponderHolds`. What a query found is compared with the world when it is answered.
`OcspInv` says that a query that began after the revocation has found the certificate revoked;
that the key in a query or a cache is that of the responder beside it; and that a
cached reply is what its own cache key says, so an old reply is never found under the key of a new
state.

ACME accounts: `AcmeAccountsTypeCorrect`, `UsedOnceHolds`, `SharedUseBoundedHolds`. `AcmeInv` says
of what is not `shared` that one message at most has it in hand, and none once it was used.
`ShareInv` counts what is shared: the uses that were made of a nonce and the servers that can still
make one are no more than the servers, and likewise for a binding and the accounts made with it. A
row can be looked up only until its first use, at which the count of uses is zero and every server
at most has it in hand; afterwards each use takes one server out of those that have.

Issuance: `IssuanceTypeCorrect`, `ChainsVerifyHolds`, `LeavesStayLinkedHolds`. The code looks at one
level; the property is about all of them. `IssuedInv` says of each authority what its creation saw
to (`CaRight`: a path length below its parent's, the constraints of everything above it, the end of
its parent), and that no row of a chain changes in a way that matters to those below. A chain has as
many links as it has and `Above` is a recursive function, so what holds along it is proved by
induction on its length: the least counterexample (`LeastOf`, from the well-foundedness of the
naturals) gives `SetInduction`, a form of induction whose predicate is a set. The recursion goes as
many levels up as there are authorities, which is why `CaIds` has to be finite. `LinkInv` adds that
the search for a renewal or a user of the profile that a request on the desk made is still true,
unless another one has overtaken it.

Audit chain: `ChainTypeCorrect`, `ChainHoldsHolds`, `SealsAgreeHolds`. `AuditInv` gives the table a
shape: as long as no pruning took the head, an id is a serial, the rows are `lo..serials`, those up
to `head` are sealed with the hash of everything from the first row ever written, the others are
not; a checkpoint says what was before `lo`; and what a sealer has computed from an older head goes
on where the head is or repeats what was sealed since (`WorkRight`). That is why seals computed by
two processes agree whichever is written last, and why a seal whose rows were pruned meanwhile has
to fail. `Verify` is then shown to find nothing (`ShapeVerifies`), with `Max` and `Min` of the
community modules characterised by `MaxIs`, `MinIs` and `GreatestOf`.

Key store: `KeyTypeCorrect`, `NoKeyLostHolds`, `OnePassphraseHolds`. A failed migration
destroys an object in the token; that it is no CA's follows only from `LabelsApart`: the label of an
object that is being proved is in no row and in no other command's hands. `OnePassphrase` rests on
`RotationSeesAll`: unless a worker strayed, a rotation has read every ciphertext there is, and there
is one rotation at a time.

**Left to TLC**: the liveness properties (`ClaimsEnd`, `RevocationReachesCrl`, `DueCrlIsRefreshed`,
`OrdersSettle`), since fairness and `ENABLED` are outside this prover. The properties of the runs
that end in a violation are false, so there is nothing to prove of them. Nothing claims
`LockoutBites` with more than two workers or with `Threshold = 1`.

## 5. What the code does against what it says

1. `routes/csr.py:369` writes a rejection without repeating the check of line 363; the comment at
   line 360 says the check keeps an approved CSR from being rejected (`csr_reject_race`).
2. `approve_alternate` (`routes/ca.py:853`, `ca_service.py:482`) does not look at `is_revoked`. The
   refresh that follows replaces the final CRL that `README.md:213` promises (`final_crl`).
3. `finalize` (`services/acme/service.py:504`) writes `processing` without repeating its check, so
   a repeated finalize is not "idempotent", as `tests/test_acme.py:411` has it, while the first is
   in progress (`acme_finalize_race`). The damage is limited: with the two workers of
   `entrypoint-app.sh` an order leads to three certificates at most (`CertificatesBounded`).
4. An account has one `pending_by` for everything that awaits approval of it. A second request on
   it overwrites the first, and whoever made that one may approve the account that they set up,
   against `models/user.py:42-46` (`approved_by_another`).
5. `bump_session_version` (`auth_service.py:171`) drops the cached credentials of its own process
   only, and a login that waits for its second factor is tied to no version: a replaced password
   is worth something for a while (`old_passwords`).

Other things the models show, which contradict no line or were not worth a run of their own:

- The promotion of finding 2 also changes the serial number under which the parent's CRL lists a
  revoked intermediate. The former serial of a re-issued sub-CA is answered "unauthorized" by OCSP.
- `scheduler_service.py:4-7` says exactly one worker runs the jobs, and 237-242 that an expiry is
  announced once per object; both hold while ticks are shorter than their lease and nobody uses
  `--force`. An authority that is renewed between the job's list and its notice gets the mark of
  the old certificate.
- If the audit row of a signature cannot be written (`routes/csr.py:323-331`; the database may be
  locked), the admin is told that the request failed and the certificate is issued all the same,
  with no audit row, then or later.
- `dual_control_service.is_active()` is asked late in a request. If the last ordinary account is
  deactivated while that admin's own request is on its way, the request is not gated: alone, that
  admin creates an active account or approves a promotion that they themselves have asked for.
- `required_scope` asks for no scope at blueprint auth, which its docstring counts among the endpoints
  outside "the app's authenticated surface" (`api_token_service.py:138`). Four of its pages are for users
  who are logged in and change what they know or hold (`routes/auth.py:106`, `219`, `262`, `288`),
  and any API token is: a token with the scope `read` may set up a second factor on its owner's
  account; the other three pages ask for the password or a code.
- Pruning a fully sealed log down to its head leaves no head: the chain starts again.
- An intermediate below an imported sub-CA may exceed the path length of the level above. A
  re-issue or cross-certificate made on its issuer's last day outlives it by less than a day, and
  a shorter re-issue of the parent leaves children that outlive it.
- Two concurrent renewals of one certificate both issue. Deleting a profile looks neither at the
  allow-lists of CAs nor at `acme_profile_id`.
- Once a CA is within the renewal margin of its own end, every OCSP request issues a new responder.
- A worker that still has the old passphrase writes ciphertexts after a rotation that nothing
  but the old passphrase opens; a rotation beside a migration can bring back the software copy
  that the migration removed.
- A nonce or an EAB key that two requests have read is accepted twice, or as often as there are
  servers (`SharedUseBounded`). A lost update can leave
  `pending_role` without `pending_by`. Two overlapping requests can take the last two admins away.

## 6. Not modelled

What certificates contain beyond names, constraints, path lengths and validity (keys, algorithms,
key usages, encodings): those checks look at one request against one row, and unit tests reach them.
What a token does to its owner's password or second factor: `Tokens` lets it in and goes no further,
`Login` has the same changes made by users. That a token whose owner has to change the password
first is turned away (`app/__init__.py:300`): it only admits fewer. ACME's own revocation request,
which has the shape of the certificate route. The import of an alternate certificate for a CA that
exists, and settings that are one write of one column. Signing calls and the PKCS#11 session pool. A
database other than SQLite, whose isolation would split the writing transactions.

Webhooks are one detached thread per event whose failure is swallowed: no queue, no retry, nothing
to go wrong in an order. LDAP is a client of a server that decides. OpenAPI, serialisation,
templates, listings, metrics, the dashboard and the update check read state and keep none. Set-up
and migrations run once, before anything is served.

Worth doing next: the steps behind the liveness properties as safety facts (each `Proceed` brings a
request nearer to its end), and the effect of an overlap on `CodeWorksOnce`, as it is known for
`LockoutBites`, for nonces and for certificates.
