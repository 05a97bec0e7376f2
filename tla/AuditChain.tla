----------------------------- MODULE AuditChain -----------------------------
(***************************************************************************)
(* The hash chain over the audit log (services/audit_chain.py, log_action  *)
(* of services/audit_service.py, `flask audit`): rows are appended unsealed *)
(* by every request, sealed in id order by the scheduler and the shell,    *)
(* anchored, and archived and deleted when they are old.                   *)
(*                                                                         *)
(* A row is told by its serial, which stands for its contents; its hash is *)
(* the sequence of the serials that it vouches for, so two hashes agree    *)
(* exactly when the rows behind them do. SQLite gives a row the id after   *)
(* the largest in the table, inside the one write transaction there is. A  *)
(* sealer reads the head and the unsealed rows first and writes            *)
(* afterwards.                                                             *)
(***************************************************************************)
EXTENDS Integers, Sequences, FiniteSets, FiniteSetsExt

CONSTANTS
    Sealers,        \* the scheduler's jobs and the shell
    Grace,          \* AUDIT_SEAL_GRACE_SECONDS
    Retention,      \* AUDIT_RETENTION_DAYS, in the same unit; 0 keeps everything
    MaxSerial,      \* bound on the rows ever written
    LastStamp       \* bound on the clock

ASSUME AuditChainAssumption ==
    Grace \in Nat /\ Retention \in Nat /\ MaxSerial \in Nat /\ LastStamp \in Nat

VARIABLES
    log,        \* the rows of audit_logs, by id
    serials,    \* how many rows have ever been written
    stamp,      \* the clock
    sealing,    \* the hashes that each sealer has computed and not yet written
    archive,    \* the serials in the archive files
    anchors,    \* what the receiver of the webhook stream was told: ids and their hashes
    headPruned  \* history: a pruning took the head of the chain

chainVars == <<log, serials, stamp, sealing, archive, anchors, headPruned>>

Genesis == <<>>
Unsealed == <<0>>      \* entry_hash and prev_hash are NULL

Ids == DOMAIN log
Sealed(i) == log[i].hash # Unsealed
NoWork == [rows |-> <<>>, active |-> FALSE]

---------------------------------------------------------------------------
(* Rows *)

\* log_action and the caller's commit; `about` is the details of an anchor or a checkpoint.
RowOf(action, about) ==
    [serial |-> serials + 1, time |-> stamp, action |-> action, about |-> about,
     prev |-> Unsealed, hash |-> Unsealed]

NoDetails == [id |-> 0, hash |-> Genesis]

\* The table `rows` with one more row.
WithRow(rows, row) ==
    LET id == Max(DOMAIN rows \union {0}) + 1
    IN [i \in DOMAIN rows \union {id} |-> IF i = id THEN row ELSE rows[i]]

LogAction ==
    /\ serials < MaxSerial
    /\ log' = WithRow(log, RowOf("event", NoDetails))
    /\ serials' = serials + 1
    /\ UNCHANGED <<stamp, sealing, archive, anchors, headPruned>>

---------------------------------------------------------------------------
(* Sealing *)

\* head: the last sealed row; id 0 stands for None
HeadId == Max({i \in Ids : Sealed(i)} \union {0})
HeadHash == IF HeadId = 0 THEN Genesis ELSE log[HeadId].hash

SealableAgain == {i \in Ids : log[i].time <= stamp - Grace}     \* sealed rows among them

\* The rows that seal goes through: those after the head, in order, up to a gap or to a row that is
\* too young. With no head, any id may be the first.
Sealable ==
    LET pending == {i \in Ids : ~ Sealed(i) /\ i > HeadId}
        first == IF pending = {} THEN 0 ELSE Min(pending)
        good(i) == i \in pending /\ log[i].time <= stamp - Grace
    IN {i \in pending : /\ HeadId # 0 => first = HeadId + 1
                        /\ \A j \in first..i : good(j)}

ComputeHashAlone(i) == <<log[i].serial>>                       \* not over the row before

\* The hashes of the sealable rows, each over the one before.
ComputeHash(i) ==
    HeadHash \o [k \in 1..(i - Min(Sealable) + 1) |-> log[Min(Sealable) + k - 1].serial]

ReadPending(s) ==
    /\ ~ sealing[s].active /\ Sealable # {}
    /\ sealing' = [sealing EXCEPT ![s] = [rows |-> [i \in Sealable |-> ComputeHash(i)],
                                          active |-> TRUE]]
    /\ UNCHANGED <<log, serials, stamp, archive, anchors, headPruned>>

\* The commit of seal. A row that is gone makes the UPDATE count wrong and the flush raise:
\* everything is rolled back.
WriteSeals(s) ==
    /\ sealing[s].active
    /\ log' = IF DOMAIN sealing[s].rows \subseteq Ids
              THEN [i \in Ids |->
                      IF i \notin DOMAIN sealing[s].rows THEN log[i]
                      ELSE LET hash == sealing[s].rows[i]
                           IN [log[i] EXCEPT !.hash = hash, !.prev = SubSeq(hash, 1, Len(hash) - 1)]]
              ELSE log
    /\ sealing' = [sealing EXCEPT ![s] = NoWork]
    /\ UNCHANGED <<serials, stamp, archive, anchors, headPruned>>

---------------------------------------------------------------------------
(* Anchors and retention *)

\* anchor: the head goes into a row, and to the receiver before the row is committed.
Anchor ==
    /\ serials < MaxSerial
    /\ log' = WithRow(log, RowOf("audit_anchor", [id |-> HeadId, hash |-> HeadHash]))
    /\ serials' = serials + 1
    /\ anchors' = IF HeadId = 0 THEN anchors ELSE anchors \union {[id |-> HeadId, hash |-> HeadHash]}
    /\ UNCHANGED <<stamp, sealing, archive, headPruned>>

\* The rows that prune takes: sealed, old, and a contiguous prefix of the table.
Prunable ==
    LET old(i) == i \in Ids /\ Sealed(i) /\ log[i].time < stamp - Retention
    IN {i \in Ids : \A j \in Min(Ids)..i : old(j)}

\* The archive file, the deletion and the checkpoint. The checkpoint's id follows the rows that are
\* left.
Prune ==
    LET through == Max(Prunable)
        kept == [i \in Ids \ Prunable |-> log[i]]
    IN /\ Retention > 0 /\ serials < MaxSerial /\ Prunable # {}
       /\ archive' = archive \union {log[i].serial : i \in Prunable}
       /\ log' = WithRow(kept, RowOf("audit_checkpoint", [id |-> through, hash |-> log[through].hash]))
       /\ serials' = serials + 1
       /\ headPruned' = (headPruned \/ through = HeadId)
       /\ UNCHANGED <<stamp, sealing, anchors>>

\* prune fails after the file is written: the rows stay.
PruneFails ==
    /\ Retention > 0 /\ Prunable # {}
    /\ archive' = archive \union {log[i].serial : i \in Prunable}
    /\ UNCHANGED <<log, serials, stamp, sealing, anchors, headPruned>>

\* The unit of the clock is long against a call of seal.
PassStamp ==
    /\ stamp < LastStamp
    /\ \A s \in Sealers : ~ sealing[s].active
    /\ stamp' = stamp + 1
    /\ UNCHANGED <<log, serials, sealing, archive, anchors, headPruned>>

---------------------------------------------------------------------------
(* verify *)

\* _checkpoint_for: the newest checkpoint that says what was before `first`
Vouched(first) ==
    LET cps == {i \in Ids : log[i].action = "audit_checkpoint" /\ log[i].about.id = first - 1}
    IN cps # {} /\ log[Max(cps)].about.hash = log[first].prev

\* What the walk finds at a row of the table: nothing, or a reason to refuse the chain.
RowGood(i, first) ==
    IF ~ Sealed(i)
    THEN \A j \in Ids : j > i => ~ Sealed(j)
    ELSE /\ i = first \/ (i - 1) \in Ids
         /\ log[i].prev = IF i = first THEN log[first].prev ELSE log[i - 1].hash
         /\ log[i].hash = Append(log[i].prev, log[i].serial)

Verify ==
    LET first == Min(Ids)
    IN Ids # {} /\ Sealed(first) =>
          /\ log[first].prev # Genesis => Vouched(first)
          /\ \A i \in Ids : RowGood(i, first)

---------------------------------------------------------------------------

ChainInit ==
    /\ log = <<>>
    /\ serials = 0 /\ stamp = 0
    /\ sealing = [s \in Sealers |-> NoWork]
    /\ archive = {} /\ anchors = {} /\ headPruned = FALSE

ChainNext ==
    \/ LogAction
    \/ \E s \in Sealers : ReadPending(s) \/ WriteSeals(s)
    \/ Anchor
    \/ Prune
    \/ PruneFails
    \/ PassStamp

ChainSpec == ChainInit /\ [][ChainNext]_chainVars

---------------------------------------------------------------------------

Stamps == 0..LastStamp
Hashes == Seq(0..MaxSerial)

\* The rows, the sealers' work and the history are what they should be.
ChainTypeOK ==
    /\ \A i \in Ids : /\ i \in 1..MaxSerial
                       /\ log[i] \in [serial : 1..MaxSerial, time : Stamps,
                                      action : {"event", "audit_anchor", "audit_checkpoint"},
                                      about : [id : 0..MaxSerial, hash : Hashes],
                                      prev : Hashes, hash : Hashes]
    /\ serials \in 0..MaxSerial /\ stamp \in Stamps
    /\ \A s \in Sealers : sealing[s].active \in BOOLEAN
    /\ anchors \subseteq [id : 1..MaxSerial, hash : Hashes]
    /\ headPruned \in BOOLEAN

\* Whatever requests, sealers, anchors and prunings do, in whatever order, verify finds nothing to
\* report, what the receiver of the anchors was told of a row stays true, and only the first row
\* of all links to nothing - as long as no pruning takes the very head of the chain, after which
\* head() is None and the chain starts again (seal, prune, verify, anchor).
ChainHolds ==
    ~ headPruned =>
        /\ Verify
        /\ \A a \in anchors : a.id \in Ids => log[a.id].hash = a.hash
        /\ \A i \in Ids : Sealed(i) /\ log[i].prev = Genesis => log[i].serial = 1

\* Two sealers cannot disagree: a sealed row keeps its hash until it is pruned (seal is
\* deterministic, says the module).
SealsAgree ==
    [][~ headPruned' => \A i \in Ids :
          Sealed(i) /\ i \in DOMAIN log' => log'[i] = log[i]]_chainVars
=============================================================================
