--------------------------- MODULE ServicesProofs ---------------------------
(***************************************************************************)
(* The services around the authorities, for every set of processes and     *)
(* rows: what an OCSP responder may answer, what the front of the ACME     *)
(* server accepts once, what is issued, what the hash chain over the audit *)
(* log vouches for, and that every key opens.                              *)
(***************************************************************************)
EXTENDS Ocsp, AcmeAccounts, Issuance, AuditChain, KeyStore, FiniteSetTheorems,
        WellFoundedInduction, TLAPS

-----------------------------------------------------------------------------
(***************************************************************************)
(* The OCSP responder. A reply says what its cache key says, an answer     *)
(* that is on its way is at least as severe as the revocations at the time *)
(* of its request, and a key is cached under the responder it belongs to.  *)
(***************************************************************************)

Responders == [n : 0..MaxResponders, until : Nat]
Queries == [at : {"idle", "delegate", "answer"}, subject : Subjects \union {NoSubject},
            revoked : BOOLEAN, late : BOOLEAN, ca : Responders, noIssue : BOOLEAN,
            signer : 0..MaxResponders, key : 0..MaxResponders]
Replies == [for : CacheKeys, revoked : BOOLEAN, signer : 0..MaxResponders,
            key : 0..MaxResponders, exp : Nat]

OwnKey(signer, key) == signer # CaKey => key = signer

\* Of one request, one reply and one entry of a key cache.
QueryRight(q) ==
    /\ q.at # "idle" => q.subject \in Subjects
    /\ q.late => q.revoked /\ q.subject \in gone
    /\ OwnKey(q.signer, q.key)
ReplyRight(r) == r.revoked = r.for.revoked /\ OwnKey(r.signer, r.key)
KeyRight(e) == OwnKey(e.n, e.key)

OcspInv ==
    /\ OcspTypeOK
    /\ \A w \in OcspWorkers : QueryRight(query[w]) /\ KeyRight(keyCache[w])
    /\ \A w \in OcspWorkers : \A r \in replies[w] : ReplyRight(r)
    /\ DOMAIN replies = OcspWorkers
    /\ lies = {} /\ misfits = {}

LEMMA OcspConstants ==
    /\ ResponderTime \in Nat /\ RenewBefore \in Nat /\ ReplyTtl \in Nat /\ KeyTtl \in Nat
    /\ CaEnd \in Nat /\ LastMoment \in Nat /\ MaxResponders \in Nat /\ MaxQueries \in Nat
    /\ NoSubject \notin Subjects
  BY OcspAssumption

LEMMA OcspTyped ==
    ASSUME OcspInv
    PROVE  /\ moment \in 0..LastMoment /\ moment \in Nat /\ issued \in 0..MaxResponders
           /\ responder \in Responders /\ query \in [OcspWorkers -> Queries]
           /\ keyCache \in [OcspWorkers -> [n : 0..MaxResponders, key : 0..MaxResponders,
                                            exp : Nat]]
           /\ \A w \in OcspWorkers : \A r \in replies[w] : r \in Replies
           /\ caRevoked \in BOOLEAN /\ gone \subseteq Subjects /\ queries \in 0..MaxQueries
  BY OcspConstants DEF OcspInv, OcspTypeOK, Responders, Queries, Replies

LEMMA EmptyTyped ==
    /\ NoQuery \in Queries /\ NoResponder \in Responders
    /\ NoKey \in [n : 0..MaxResponders, key : 0..MaxResponders, exp : Nat]
    /\ QueryRight(NoQuery) /\ KeyRight(NoKey)
  <1>1. NoResponder \in Responders
    BY OcspConstants DEF NoResponder, Responders
  <1>2. NoQuery \in Queries
    BY <1>1, OcspConstants DEF NoQuery, Queries, CaKey
  <1>3. NoKey \in [n : 0..MaxResponders, key : 0..MaxResponders, exp : Nat]
    BY OcspConstants DEF NoKey
  <1>4. QueryRight(NoQuery) /\ KeyRight(NoKey)
    BY DEF NoQuery, NoKey, QueryRight, KeyRight, OwnKey, CaKey
  <1>5. QED
    BY <1>1, <1>2, <1>3, <1>4

QueryFields == {"at", "subject", "revoked", "late", "ca", "noIssue", "signer", "key"}

LEMMA QueryTyped ==
    ASSUME NEW q, q = [x \in QueryFields |-> q[x]], q.at \in {"idle", "delegate", "answer"},
           q.subject \in Subjects \union {NoSubject}, q.revoked \in BOOLEAN, q.late \in BOOLEAN,
           q.ca \in Responders, q.noIssue \in BOOLEAN, q.signer \in 0..MaxResponders,
           q.key \in 0..MaxResponders
    PROVE  q \in Queries
  BY DEF Queries, QueryFields

LEMMA QueryIs ==
    ASSUME NEW q \in Queries
    PROVE  /\ q = [x \in QueryFields |-> q[x]] /\ q.at \in {"idle", "delegate", "answer"}
           /\ q.subject \in Subjects \union {NoSubject} /\ q.revoked \in BOOLEAN
           /\ q.late \in BOOLEAN /\ q.ca \in Responders /\ q.noIssue \in BOOLEAN
           /\ q.signer \in 0..MaxResponders /\ q.key \in 0..MaxResponders
  BY DEF Queries, QueryFields

\* The invariant after a step, told of what the step changes.
LEMMA OcspKept ==
    ASSUME OcspInv, moment' \in 0..LastMoment, issued' \in 0..MaxResponders,
           queries' \in 0..MaxQueries, responder' \in Responders, caRevoked' \in BOOLEAN,
           gone \subseteq gone', gone' \subseteq Subjects,
           query' \in [OcspWorkers -> Queries],
           keyCache' \in [OcspWorkers -> [n : 0..MaxResponders, key : 0..MaxResponders,
                                          exp : Nat]],
           \A w \in OcspWorkers : query'[w] = query[w] \/ QueryRight(query[w])',
           \A w \in OcspWorkers : keyCache'[w] = keyCache[w] \/ KeyRight(keyCache'[w]),
           DOMAIN replies' = OcspWorkers,
           \A w \in OcspWorkers : \A r \in replies'[w] :
               r \in replies[w] \/ (r \in Replies /\ ReplyRight(r)),
           lies' = lies, misfits' = misfits
    PROVE  OcspInv'
  <1>1. OcspTypeOK'
    <2>1. \A w \in OcspWorkers : \A r \in replies'[w] : r \in Replies
      BY OcspTyped
    <2>2. lies' \subseteq Subjects /\ misfits' \subseteq 0..MaxResponders
      BY DEF OcspInv
    <2>3. QED
      BY <2>1, <2>2 DEF OcspTypeOK, Responders, Queries, Replies
  <1>2. ASSUME NEW w \in OcspWorkers PROVE QueryRight(query[w])'
    BY DEF OcspInv, QueryRight
  <1>3. \A w \in OcspWorkers : KeyRight(keyCache[w])'
    BY DEF OcspInv, KeyRight
  <1>4. \A w \in OcspWorkers : \A r \in replies'[w] : ReplyRight(r)
    BY DEF OcspInv
  <1>5. QED
    BY <1>1, <1>2, <1>3, <1>4 DEF OcspInv, ReplyRight

\* Of a new query of one process: the fields it takes over and those it sets.
LEMMA QuerySet ==
    ASSUME OcspInv, NEW w \in OcspWorkers, NEW q, q = [x \in QueryFields |-> q[x]],
           q.at \in {"idle", "delegate", "answer"}, q.subject = query[w].subject,
           q.revoked \in BOOLEAN, q.late = query[w].late, q.ca = query[w].ca,
           q.noIssue = query[w].noIssue, q.signer \in 0..MaxResponders,
           q.key \in 0..MaxResponders, query[w].at # "idle", OwnKey(q.signer, q.key),
           q.revoked = query[w].revoked \/ q.revoked = (query[w].subject \in gone),
           query' = [query EXCEPT ![w] = q], gone' = gone
    PROVE  /\ query' \in [OcspWorkers -> Queries]
           /\ \A v \in OcspWorkers : query'[v] = query[v] \/ QueryRight(query[v])'
  <1>1. query[w] \in Queries /\ QueryRight(query[w])
    BY OcspTyped DEF OcspInv
  <1>2. q \in Queries
    <2>1. q.subject \in Subjects \union {NoSubject} /\ q.late \in BOOLEAN /\ q.ca \in Responders
      BY <1>1, QueryIs
    <2>2. q.noIssue \in BOOLEAN
      BY <1>1, QueryIs
    <2>3. QED
      BY <2>1, <2>2, QueryTyped
  <1>3. query'[w] = q /\ \A v \in OcspWorkers \ {w} : query'[v] = query[v]
    BY OcspTyped
  <1>4. query' \in [OcspWorkers -> Queries]
    BY <1>2, OcspTyped
  <1>5. q.late => q.revoked /\ q.subject \in gone
    BY <1>1 DEF QueryRight
  <1>6. q.at # "idle" => q.subject \in Subjects
    BY <1>1 DEF QueryRight
  <1>7. QueryRight(query[w])'
    BY <1>3, <1>5, <1>6 DEF QueryRight
  <1>8. QED
    BY <1>3, <1>4, <1>7

LEMMA BoundedTyped ==
    ASSUME OcspInv, NEW t \in Nat
    PROVE  Bounded(t) \in Nat
  BY OcspConstants DEF Bounded

LEMMA IssueTyped ==
    ASSUME OcspInv, IssueResponder
    PROVE  /\ issued' \in 0..MaxResponders /\ issued' = issued + 1 /\ issued' # 0
           /\ responder' \in Responders
  <1>1. issued + 1 \in 0..MaxResponders /\ issued + 1 # 0
    BY OcspTyped, OcspConstants DEF IssueResponder
  <1>2. Bounded(moment + ResponderTime) \in Nat
    BY OcspTyped, OcspConstants, BoundedTyped
  <1>3. QED
    BY <1>1, <1>2 DEF IssueResponder, Responders

LEMMA KeepsRotateResponder ==
    ASSUME OcspInv, NEW p, NEW force, RotateResponder(p, force)
    PROVE  OcspInv'
  <1>1. issued' \in 0..MaxResponders /\ responder' \in Responders
    BY IssueTyped DEF RotateResponder
  <1>2. UNCHANGED <<moment, caRevoked, gone, query, queries, lies, misfits>>
    BY DEF RotateResponder
  <1>3. keyCache' \in [OcspWorkers -> [n : 0..MaxResponders, key : 0..MaxResponders, exp : Nat]]
    BY OcspTyped, EmptyTyped DEF RotateResponder
  <1>4. \A w \in OcspWorkers : keyCache'[w] = keyCache[w] \/ KeyRight(keyCache'[w])
    BY EmptyTyped DEF RotateResponder
  <1>5. DOMAIN replies' = OcspWorkers
        /\ \A w \in OcspWorkers : \A r \in replies'[w] : r \in replies[w]
    BY DEF RotateResponder
  <1>6. QED
    BY <1>1, <1>2, <1>3, <1>4, <1>5, OcspTyped, OcspKept

LEMMA KeepsBeginQuery ==
    ASSUME OcspInv, NEW w \in OcspWorkers, NEW s \in Subjects, BeginQuery(w, s)
    PROVE  OcspInv'
  <1> DEFINE q == [at |-> "delegate", subject |-> s, revoked |-> s \in gone, late |-> s \in gone,
                   ca |-> responder, noIssue |-> caRevoked, signer |-> CaKey, key |-> 0]
  <1>1. query' = [query EXCEPT ![w] = q] /\ queries' = queries + 1 /\ queries < MaxQueries
        /\ UNCHANGED <<moment, responder, caRevoked, gone, replies, keyCache, issued, lies,
                       misfits>>
    BY DEF BeginQuery
  <1>2. q \in Queries
    BY OcspTyped, OcspConstants DEF Queries, CaKey
  <1>3. QueryRight(q)
    BY DEF QueryRight, OwnKey, CaKey
  <1> HIDE DEF q
  <1>4. query' \in [OcspWorkers -> Queries]
    BY <1>1, <1>2, OcspTyped
  <1>5. \A v \in OcspWorkers : query'[v] = query[v] \/ QueryRight(query[v])'
    BY <1>1, <1>3, OcspTyped DEF QueryRight
  <1>6. queries' \in 0..MaxQueries
    BY <1>1, OcspTyped, OcspConstants
  <1>7. DOMAIN replies' = OcspWorkers
    BY <1>1 DEF OcspInv
  <1>8. QED
    BY <1>1, <1>4, <1>5, <1>6, <1>7, OcspTyped, OcspKept

LEMMA KeepsDirectPath ==
    ASSUME OcspInv, NEW w \in OcspWorkers, DirectPath(w)
    PROVE  OcspInv'
  <1> DEFINE q == [query[w] EXCEPT !.at = "answer"]
  <1>1. query' = [query EXCEPT ![w] = q] /\ query[w].at = "delegate"
        /\ UNCHANGED <<moment, responder, caRevoked, gone, replies, keyCache, issued, queries,
                       lies, misfits>>
    BY DEF DirectPath
  <1>2. query[w] \in Queries /\ QueryRight(query[w])
    BY OcspTyped DEF OcspInv
  <1>3. q \in Queries /\ q.at = "answer"
    BY <1>2 DEF Queries
  <1>4. /\ q.subject = query[w].subject /\ q.revoked = query[w].revoked
        /\ q.late = query[w].late /\ q.ca = query[w].ca /\ q.noIssue = query[w].noIssue
        /\ q.signer = query[w].signer /\ q.key = query[w].key
    BY <1>2 DEF Queries
  <1> HIDE DEF q
  <1>5. /\ query' \in [OcspWorkers -> Queries]
        /\ \A v \in OcspWorkers : query'[v] = query[v] \/ QueryRight(query[v])'
    BY <1>1, <1>2, <1>3, <1>4, QueryIs, QuerySet DEF QueryRight
  <1>6. DOMAIN replies' = OcspWorkers
    BY <1>1 DEF OcspInv
  <1>7. QED
    BY <1>1, <1>5, <1>6, OcspTyped, OcspKept

LEMMA KeyCachedRight ==
    ASSUME OcspInv, NEW w \in OcspWorkers, NEW r \in Responders, r.n # 0
    PROVE  /\ ResponderKey(w, r) = r.n
           /\ KeyCached(w, r) \in [n : 0..MaxResponders, key : 0..MaxResponders, exp : Nat]
           /\ KeyRight(KeyCached(w, r))
  <1>1. KeyRight(keyCache[w]) /\ r.n \in 0..MaxResponders
        /\ keyCache[w] \in [n : 0..MaxResponders, key : 0..MaxResponders, exp : Nat]
    BY OcspTyped DEF OcspInv, Responders
  <1>2. ResponderKey(w, r) = r.n
    BY <1>1 DEF ResponderKey, KeyRight, OwnKey, CaKey
  <1>3. moment + KeyTtl \in Nat
    BY OcspTyped, OcspConstants
  <1>4. KeyCached(w, r) \in [n : 0..MaxResponders, key : 0..MaxResponders, exp : Nat]
    BY <1>1, <1>3 DEF KeyCached
  <1>5. KeyRight(KeyCached(w, r))
    BY <1>1 DEF KeyCached, KeyRight, OwnKey
  <1>6. QED
    BY <1>2, <1>4, <1>5

LEMMA KeepsUseResponder ==
    ASSUME OcspInv, NEW w \in OcspWorkers, UseResponder(w)
    PROVE  OcspInv'
  <1> DEFINE q == query'[w]
  <1>1. query[w].at = "delegate" /\ ~ NeedsRotation(query[w].ca)
        /\ UNCHANGED <<moment, responder, caRevoked, gone, replies, issued, queries, lies,
                       misfits>>
    BY DEF UseResponder
  <1>2. query[w] \in Queries /\ query[w].ca \in Responders /\ query[w].ca.n # 0
    BY <1>1, OcspTyped, QueryIs DEF NeedsRotation
  <1>3. query[w] = [x \in QueryFields |-> query[w][x]]
    BY <1>2, QueryIs
  <1>4. /\ query' = [query EXCEPT ![w] = q] /\ q = [x \in QueryFields |-> q[x]]
        /\ q.at = "answer" /\ q.signer = query[w].ca.n /\ q.key = ResponderKey(w, query[w].ca)
        /\ q.subject = query[w].subject /\ q.revoked = query[w].revoked
        /\ q.late = query[w].late /\ q.ca = query[w].ca /\ q.noIssue = query[w].noIssue
    BY <1>3, OcspTyped DEF UseResponder, QueryFields
  <1>5. q.key = q.signer /\ q.signer \in 0..MaxResponders
    BY <1>2, <1>4, KeyCachedRight DEF Responders
  <1>6. q.revoked \in BOOLEAN
    BY <1>2, <1>4, QueryIs
  <1> HIDE DEF q
  <1>7. /\ query' \in [OcspWorkers -> Queries]
        /\ \A v \in OcspWorkers : query'[v] = query[v] \/ QueryRight(query[v])'
    BY <1>1, <1>4, <1>5, <1>6, QuerySet DEF OwnKey
  <1>8. keyCache' = [keyCache EXCEPT ![w] = KeyCached(w, query[w].ca)]
    BY DEF UseResponder
  <1>9. /\ keyCache' \in [OcspWorkers -> [n : 0..MaxResponders, key : 0..MaxResponders,
                                          exp : Nat]]
        /\ \A v \in OcspWorkers : keyCache'[v] = keyCache[v] \/ KeyRight(keyCache'[v])
    BY <1>2, <1>8, OcspTyped, KeyCachedRight
  <1>10. DOMAIN replies' = OcspWorkers
    BY <1>1 DEF OcspInv
  <1>11. QED
    BY <1>1, <1>7, <1>9, <1>10, OcspTyped, OcspKept

LEMMA KeepsLazyRotate ==
    ASSUME OcspInv, NEW w \in OcspWorkers, LazyRotate(w)
    PROVE  OcspInv'
  <1> DEFINE q == query'[w]
             k == [n |-> issued + 1, key |-> issued + 1, exp |-> moment + KeyTtl]
  <1>1. query[w].at = "delegate"
        /\ UNCHANGED <<moment, caRevoked, gone, queries, lies, misfits>>
    BY DEF LazyRotate
  <1>2. /\ issued' \in 0..MaxResponders /\ issued' = issued + 1 /\ issued' # 0
        /\ responder' \in Responders
    BY IssueTyped DEF LazyRotate
  <1>3. query[w] = [x \in QueryFields |-> query[w][x]]
    BY OcspTyped, QueryIs
  <1>4. /\ query' = [query EXCEPT ![w] = q] /\ q = [x \in QueryFields |-> q[x]]
        /\ q.at = "answer" /\ q.signer = issued + 1 /\ q.key = issued + 1
        /\ q.subject = query[w].subject
        /\ q.late = query[w].late /\ q.ca = query[w].ca /\ q.noIssue = query[w].noIssue
    BY <1>3, OcspTyped DEF LazyRotate, QueryFields
  <1>5. q.revoked = (query[w].subject \in gone)
    BY <1>3, OcspTyped DEF LazyRotate, QueryFields
  <1>6. q.revoked \in BOOLEAN
    BY <1>5
  <1> HIDE DEF q
  <1>7. /\ query' \in [OcspWorkers -> Queries]
        /\ \A v \in OcspWorkers : query'[v] = query[v] \/ QueryRight(query[v])'
    BY <1>1, <1>2, <1>4, <1>5, <1>6, QuerySet DEF OwnKey
  <1>8. k \in [n : 0..MaxResponders, key : 0..MaxResponders, exp : Nat] /\ KeyRight(k)
    <2>1. moment + KeyTtl \in Nat
      BY OcspTyped, OcspConstants
    <2>2. QED
      BY <1>2, <2>1 DEF KeyRight, OwnKey
  <1>9. keyCache' = [keyCache EXCEPT ![w] = IF KeyTtl = 0 THEN NoKey ELSE k]
    BY DEF LazyRotate
  <1> HIDE DEF k
  <1>10. /\ keyCache' \in [OcspWorkers -> [n : 0..MaxResponders, key : 0..MaxResponders,
                                          exp : Nat]]
         /\ \A v \in OcspWorkers : keyCache'[v] = keyCache[v] \/ KeyRight(keyCache'[v])
    BY <1>8, <1>9, OcspTyped, EmptyTyped
  <1>11. DOMAIN replies' = OcspWorkers
         /\ \A v \in OcspWorkers : \A r \in replies'[v] : r \in replies[v]
    BY DEF LazyRotate, OcspInv
  <1>12. QED
    BY <1>1, <1>2, <1>7, <1>10, <1>11, OcspTyped, OcspKept

LEMMA KeepsRotationFails ==
    ASSUME OcspInv, NEW w \in OcspWorkers, RotationFails(w)
    PROVE  OcspInv'
  <1> DEFINE q == query'[w]
  <1>1. query[w].at = "delegate"
        /\ UNCHANGED <<moment, responder, caRevoked, gone, replies, keyCache, issued, queries,
                       lies, misfits>>
    BY DEF RotationFails
  <1>2. query[w] = [x \in QueryFields |-> query[w][x]] /\ QueryRight(query[w])
        /\ query[w].signer \in 0..MaxResponders /\ query[w].key \in 0..MaxResponders
    BY OcspTyped, QueryIs DEF OcspInv
  <1>3. /\ query' = [query EXCEPT ![w] = q] /\ q = [x \in QueryFields |-> q[x]]
        /\ q.at = "answer" /\ q.signer = query[w].signer /\ q.key = query[w].key
        /\ q.subject = query[w].subject
        /\ q.late = query[w].late /\ q.ca = query[w].ca /\ q.noIssue = query[w].noIssue
    BY <1>2, OcspTyped DEF RotationFails, QueryFields
  <1>4. q.revoked = (query[w].subject \in gone)
    BY <1>2, OcspTyped DEF RotationFails, QueryFields
  <1>5. q.revoked \in BOOLEAN
    BY <1>4
  <1> HIDE DEF q
  <1>6. /\ query' \in [OcspWorkers -> Queries]
        /\ \A v \in OcspWorkers : query'[v] = query[v] \/ QueryRight(query[v])'
    BY <1>1, <1>2, <1>3, <1>4, <1>5, QuerySet DEF QueryRight
  <1>7. DOMAIN replies' = OcspWorkers
    BY <1>1 DEF OcspInv
  <1>8. QED
    BY <1>1, <1>6, <1>7, OcspTyped, OcspKept

\* What goes out is what the request asked about, and signed by whom it says.
LEMMA KeepsAnswer ==
    ASSUME OcspInv, NEW w \in OcspWorkers, Answer(w)
    PROVE  OcspInv'
  <1> DEFINE q == query[w]
             cached == {r \in replies[w] : r.for = CacheKey(q) /\ r.exp > moment}
             out == IF cached # {} THEN CHOOSE r \in cached : TRUE ELSE Reply(q)
  <1>1. /\ q.at = "answer"
        /\ replies' = IF cached # {} \/ ReplyTtl = 0 THEN replies
                      ELSE [replies EXCEPT ![w] = {r \in @ : r.for # CacheKey(q)} \union {out}]
        /\ lies' = IF q.late /\ ~ out.revoked THEN lies \union {q.subject} ELSE lies
        /\ misfits' = IF out.signer # CaKey /\ out.key # out.signer
                      THEN misfits \union {out.signer} ELSE misfits
        /\ query' = [query EXCEPT ![w] = NoQuery]
        /\ UNCHANGED <<moment, responder, caRevoked, gone, keyCache, issued, queries>>
    BY DEF Answer, Answered
  <1>2. q \in Queries /\ QueryRight(q) /\ q.subject \in Subjects
    BY <1>1, OcspTyped DEF OcspInv, QueryRight
  <1>3. CacheKey(q) \in CacheKeys
    BY <1>2, QueryIs DEF CacheKey, CacheKeys
  <1>4. Reply(q) \in Replies /\ Reply(q).for = CacheKey(q) /\ ReplyRight(Reply(q))
    <2>1. moment + ReplyTtl \in Nat
      BY OcspTyped, OcspConstants
    <2>2. Reply(q) \in Replies /\ Reply(q).for = CacheKey(q)
      BY <1>2, <1>3, <2>1, QueryIs DEF Reply, Replies
    <2>3. ReplyRight(Reply(q))
      BY <1>2 DEF ReplyRight, Reply, CacheKey, QueryRight
    <2>4. QED
      BY <2>2, <2>3
  <1>5. out \in Replies /\ out.for = CacheKey(q) /\ ReplyRight(out)
    <2>1. CASE cached # {}
      <3>1. out \in cached
        BY <2>1
      <3>2. QED
        BY <3>1, OcspTyped DEF OcspInv
    <2>2. CASE cached = {}
      BY <1>4, <2>2
    <2>3. QED
      BY <2>1, <2>2
  <1>6. cached = {} => out = Reply(q)
    OBVIOUS
  <1> HIDE DEF cached, out
  <1>7. out.revoked = q.revoked
    BY <1>5 DEF ReplyRight, CacheKey
  <1>8. q.late => out.revoked
    BY <1>2, <1>7 DEF QueryRight
  <1>9. lies' = lies
    BY <1>1, <1>8
  <1>10. misfits' = misfits
    BY <1>1, <1>5 DEF ReplyRight, OwnKey
  <1>11. DOMAIN replies' = OcspWorkers
    BY <1>1 DEF OcspInv
  <1>12. \A v \in OcspWorkers : \A r \in replies'[v] :
             r \in replies[v] \/ (r \in Replies /\ ReplyRight(r))
    <2>1. CASE cached # {} \/ ReplyTtl = 0
      BY <1>1, <2>1
    <2>2. CASE ~ (cached # {} \/ ReplyTtl = 0)
      <3>1. replies' = [replies EXCEPT ![w] = {r \in @ : r.for # CacheKey(q)} \union {out}]
        BY <1>1, <2>2
      <3>2. QED
        BY <1>5, <3>1 DEF OcspInv
    <2>3. QED
      BY <2>1, <2>2
  <1>13. /\ query' \in [OcspWorkers -> Queries]
         /\ \A v \in OcspWorkers : query'[v] = query[v] \/ QueryRight(query[v])'
    <2>1. query'[w] = NoQuery /\ \A v \in OcspWorkers \ {w} : query'[v] = query[v]
      BY <1>1, OcspTyped
    <2>2. QueryRight(query[w])'
      BY <2>1 DEF QueryRight, NoQuery, OwnKey, CaKey
    <2>3. QED
      BY <1>1, <2>1, <2>2, OcspTyped, EmptyTyped
  <1>14. QED
    BY <1>1, <1>9, <1>10, <1>11, <1>12, <1>13, OcspTyped, OcspKept

LEMMA KeepsRestartOcsp ==
    ASSUME OcspInv, NEW w \in OcspWorkers, RestartOcsp(w)
    PROVE  OcspInv'
  <1>1. /\ replies' = [replies EXCEPT ![w] = {}] /\ keyCache' = [keyCache EXCEPT ![w] = NoKey]
        /\ query' = [query EXCEPT ![w] = NoQuery]
        /\ UNCHANGED <<moment, responder, caRevoked, gone, issued, queries, lies, misfits>>
    BY DEF RestartOcsp, Answered
  <1>2. query'[w] = NoQuery /\ \A v \in OcspWorkers \ {w} : query'[v] = query[v]
    BY <1>1, OcspTyped
  <1>3. QueryRight(query[w])'
    BY <1>2 DEF QueryRight, NoQuery, OwnKey, CaKey
  <1>4. query' \in [OcspWorkers -> Queries]
    BY <1>1, OcspTyped, EmptyTyped
  <1>5. keyCache' \in [OcspWorkers -> [n : 0..MaxResponders, key : 0..MaxResponders, exp : Nat]]
        /\ \A v \in OcspWorkers : keyCache'[v] = keyCache[v] \/ KeyRight(keyCache'[v])
    BY <1>1, OcspTyped, EmptyTyped
  <1>6. DOMAIN replies' = OcspWorkers
        /\ \A v \in OcspWorkers : \A r \in replies'[v] : r \in replies[v]
    BY <1>1 DEF OcspInv
  <1>7. QED
    BY <1>1, <1>2, <1>3, <1>4, <1>5, <1>6, OcspTyped, OcspKept

LEMMA KeepsRevokeSubject ==
    ASSUME OcspInv, NEW s \in Subjects, RevokeSubject(s)
    PROVE  OcspInv'
  <1>1. /\ gone \subseteq gone' /\ gone' \subseteq Subjects /\ caRevoked' \in BOOLEAN
        /\ UNCHANGED <<moment, responder, query, replies, keyCache, issued, queries, lies,
                       misfits>>
    BY OcspTyped DEF RevokeSubject
  <1>2. DOMAIN replies' = OcspWorkers
    BY <1>1 DEF OcspInv
  <1>3. QED
    BY <1>1, <1>2, OcspTyped, OcspKept

LEMMA KeepsRevokeResponderCa ==
    ASSUME OcspInv, RevokeResponderCa
    PROVE  OcspInv'
  <1>1. /\ gone \subseteq gone' /\ gone' \subseteq Subjects /\ caRevoked' \in BOOLEAN
        /\ UNCHANGED <<moment, responder, query, replies, keyCache, issued, queries, lies,
                       misfits>>
    BY OcspTyped DEF RevokeResponderCa
  <1>2. DOMAIN replies' = OcspWorkers
    BY <1>1 DEF OcspInv
  <1>3. QED
    BY <1>1, <1>2, OcspTyped, OcspKept

LEMMA KeepsPassMoment ==
    ASSUME OcspInv, PassMoment
    PROVE  OcspInv'
  <1>1. moment' \in 0..LastMoment
        /\ UNCHANGED <<responder, caRevoked, gone, query, issued, queries, lies, misfits>>
    BY OcspTyped, OcspConstants DEF PassMoment
  <1>2. keyCache' \in [OcspWorkers -> [n : 0..MaxResponders, key : 0..MaxResponders, exp : Nat]]
        /\ \A v \in OcspWorkers : keyCache'[v] = keyCache[v] \/ KeyRight(keyCache'[v])
    BY OcspTyped, EmptyTyped DEF PassMoment
  <1>3. DOMAIN replies' = OcspWorkers
        /\ \A v \in OcspWorkers : \A r \in replies'[v] : r \in replies[v]
    BY DEF PassMoment
  <1>4. QED
    BY <1>1, <1>2, <1>3, OcspTyped, OcspKept

LEMMA OcspInvInit == OcspInit => OcspInv
  <1> SUFFICES ASSUME OcspInit PROVE OcspInv
    OBVIOUS
  <1>1. query \in [OcspWorkers -> Queries]
        /\ keyCache \in [OcspWorkers -> [n : 0..MaxResponders, key : 0..MaxResponders,
                                         exp : Nat]]
    BY EmptyTyped DEF OcspInit
  <1>2. OcspTypeOK
    <2>1. moment \in 0..LastMoment /\ issued \in 0..MaxResponders /\ queries \in 0..MaxQueries
      BY OcspConstants DEF OcspInit
    <2>2. responder \in Responders /\ caRevoked \in BOOLEAN /\ gone \subseteq Subjects
      BY EmptyTyped DEF OcspInit
    <2>3. \A w \in OcspWorkers : replies[w] = {}
      BY DEF OcspInit
    <2>4. lies = {} /\ misfits = {}
      BY DEF OcspInit
    <2>5. QED
      BY <1>1, <2>1, <2>2, <2>3, <2>4 DEF OcspTypeOK, Queries, Responders
  <1>3. \A w \in OcspWorkers : QueryRight(query[w]) /\ KeyRight(keyCache[w])
    BY EmptyTyped DEF OcspInit
  <1>4. QED
    BY <1>2, <1>3 DEF OcspInv, OcspInit

LEMMA OcspInvStep == OcspInv /\ [OcspNext]_ocspVars => OcspInv'
  <1> SUFFICES ASSUME OcspInv, [OcspNext]_ocspVars PROVE OcspInv'
    OBVIOUS
  <1>1. CASE UNCHANGED ocspVars
    BY <1>1 DEF ocspVars, OcspInv, OcspTypeOK, QueryRight, KeyRight, ReplyRight
  <1>2. CASE \E force \in BOOLEAN : CliRotateResponders(force)
    BY <1>2, KeepsRotateResponder DEF CliRotateResponders
  <1>3. CASE \E w \in OcspWorkers : RotateOcspResponder(w) \/ JobOcspResponders(w)
    BY <1>3, KeepsRotateResponder DEF RotateOcspResponder, JobOcspResponders
  <1>4. CASE \E w \in OcspWorkers : \E s \in Subjects : BeginQuery(w, s)
    BY <1>4, KeepsBeginQuery
  <1>5. CASE \E w \in OcspWorkers : DirectPath(w) \/ UseResponder(w)
    BY <1>5, KeepsDirectPath, KeepsUseResponder
  <1>6. CASE \E w \in OcspWorkers : LazyRotate(w) \/ RotationFails(w)
    BY <1>6, KeepsLazyRotate, KeepsRotationFails
  <1>7. CASE \E w \in OcspWorkers : Answer(w) \/ RestartOcsp(w)
    BY <1>7, KeepsAnswer, KeepsRestartOcsp
  <1>8. CASE \E s \in Subjects : RevokeSubject(s)
    BY <1>8, KeepsRevokeSubject
  <1>9. CASE RevokeResponderCa
    BY <1>9, KeepsRevokeResponderCa
  <1>10. CASE PassMoment
    BY <1>10, KeepsPassMoment
  <1>11. QED
    BY <1>1, <1>2, <1>3, <1>4, <1>5, <1>6, <1>7, <1>8, <1>9, <1>10 DEF OcspNext

\* The rows, the requests and the caches hold what they can hold, with any number of processes.
THEOREM OcspTypeCorrect == OcspSpec => []OcspTypeOK
  <1>1. OcspInv => OcspTypeOK
    BY DEF OcspInv
  <1>2. QED
    BY <1>1, OcspInvInit, OcspInvStep, PTL DEF OcspSpec

\* No request that is made after a revocation is answered "good" (build_ocsp_response): the key of
\* _OcspResponseCache has the status in it, and a request that re-reads its rows sees at least
\* what was revoked when it came.
THEOREM NoGoodAfterRevocationHolds == OcspSpec => []NoGoodAfterRevocation
  <1>1. OcspInv => NoGoodAfterRevocation
    BY DEF OcspInv, NoGoodAfterRevocation
  <1>2. QED
    BY <1>1, OcspInvInit, OcspInvStep, PTL DEF OcspSpec

\* An answer in the name of a responder certificate is signed with that certificate's key
\* (_responder_key, _delegated_responder), whoever rotates it meanwhile.
THEOREM SignedByItsResponderHolds == OcspSpec => []SignedByItsResponder
  <1>1. OcspInv => SignedByItsResponder
    BY DEF OcspInv, SignedByItsResponder
  <1>2. QED
    BY <1>1, OcspInvInit, OcspInvStep, PTL DEF OcspSpec

-----------------------------------------------------------------------------
(***************************************************************************)
(* The front of the ACME server. While what a request has looked up is not *)
(* shared, nobody else has it in hand and it has not been used.            *)
(***************************************************************************)

Messages ==
    [phase : {"verified", "accepted", "adding", "changing"},
     op : {"newAccount", "deactivate", "keyChange"}, nonce : Nonces,
     signer : Registrations \union {NoRegistration}, key : ClientKeys \union {NoClientKey},
     binding : EabKeys \union {NoBinding}, fresh : BOOLEAN,
     signedWith : ClientKeys \union {NoClientKey}]

RegistrationRows ==
    [key : ClientKeys \union {NoClientKey}, status : {"absent", "valid", "deactivated"},
     binding : EabKeys \union {NoBinding}]

EabRows == [exists : BOOLEAN, used : BOOLEAN, revoked : BOOLEAN]

Verifying(s, n) == message[s].phase = "verified" /\ message[s].nonce = n
Adding(s, e) == message[s].phase = "adding" /\ message[s].binding = e

MessagesOK ==
    /\ message \in [Servers -> Messages \union {NoMessage}]
    /\ accepted \in [Nonces -> Nat]

NonceOnce ==
    \A n \in Nonces :
        /\ accepted[n] > 0 => nonce[n] = "deleted"
        /\ n \notin shared =>
              /\ accepted[n] <= 1
              /\ \A s \in Servers : Verifying(s, n) =>
                    accepted[n] = 0 /\ \A t \in Servers : Verifying(t, n) => t = s

BindingOnce ==
    \A e \in EabKeys :
        /\ \A r \in Registrations : registration[r].binding = e => eabKey[e].used
        /\ e \notin shared =>
              /\ \A r, q \in Registrations :
                    registration[r].binding = e /\ registration[q].binding = e => r = q
              /\ \A s \in Servers : Adding(s, e) =>
                    /\ \A r \in Registrations : registration[r].binding # e
                    /\ \A t \in Servers : Adding(t, e) => t = s

KeyOnce ==
    \A k \in ClientKeys : \A r, q \in Registrations :
        registration[r].key = k /\ registration[q].key = k => r = q

AcmeInv == AcmeAccountsTypeOK /\ MessagesOK /\ NonceOnce /\ BindingOnce /\ KeyOnce

LEMMA AcmeTyped ==
    ASSUME AcmeInv
    PROVE  /\ nonce \in [Nonces -> {"unissued", "live", "stale", "deleted"}]
           /\ registration \in [Registrations -> RegistrationRows]
           /\ eabKey \in [EabKeys -> EabRows]
           /\ directory \in [enabled : BOOLEAN, requireEab : BOOLEAN]
           /\ messages \in 0..MaxMessages /\ MaxMessages \in Nat
           /\ message \in [Servers -> Messages \union {NoMessage}]
           /\ accepted \in [Nonces -> Nat]
  BY AcmeAccountsAssumption
     DEF AcmeInv, AcmeAccountsTypeOK, MessagesOK, RegistrationRows, EabRows

LEMMA AcmeTypedNext ==
    ASSUME nonce' \in [Nonces -> {"unissued", "live", "stale", "deleted"}],
           registration' \in [Registrations -> RegistrationRows],
           eabKey' \in [EabKeys -> EabRows],
           directory' \in [enabled : BOOLEAN, requireEab : BOOLEAN],
           messages' \in 0..MaxMessages,
           message' \in [Servers -> Messages \union {NoMessage}],
           accepted' \in [Nonces -> Nat]
    PROVE  AcmeAccountsTypeOK' /\ MessagesOK'
  BY DEF AcmeAccountsTypeOK, MessagesOK, RegistrationRows, EabRows

LEMMA AbsentTyped == Absent \in RegistrationRows
  BY DEF Absent, RegistrationRows

\* What a step leaves of each part of the invariant that it does not aim at.
LEMMA NonceKept ==
    ASSUME AcmeInv, accepted' = accepted, shared \subseteq shared',
           \A n \in Nonces : nonce[n] = "deleted" => nonce'[n] = "deleted",
           \A s \in Servers, n \in Nonces : Verifying(s, n)' => Verifying(s, n)
    PROVE  NonceOnce'
  BY DEF AcmeInv, NonceOnce, Verifying

LEMMA BindingKept ==
    ASSUME AcmeInv, shared \subseteq shared',
           \A r \in Registrations : registration'[r].binding = registration[r].binding,
           \A e \in EabKeys : eabKey[e].used => eabKey'[e].used,
           \A s \in Servers, e \in EabKeys : Adding(s, e)' => Adding(s, e)
    PROVE  BindingOnce'
  BY DEF AcmeInv, BindingOnce, Adding

LEMMA KeyKept ==
    ASSUME AcmeInv, \A r \in Registrations : registration'[r].key = registration[r].key
    PROVE  KeyOnce'
  BY DEF AcmeInv, KeyOnce

LEMMA EnterTyped ==
    ASSUME AcmeInv, NEW s \in Servers, message[s].phase # "idle",
           NEW phase \in {"verified", "accepted", "adding", "changing"}, Enter(s, phase)
    PROVE  /\ message' \in [Servers -> Messages \union {NoMessage}]
           /\ message[s] \in Messages
           /\ message'[s] = [message[s] EXCEPT !.phase = phase]
           /\ message'[s].phase = phase /\ message'[s].binding = message[s].binding
           /\ \A t \in Servers \ {s} : message'[t] = message[t]
  <1>1. message[s] \in Messages
    BY AcmeTyped DEF NoMessage
  <1>2. [message[s] EXCEPT !.phase = phase] \in Messages
    BY <1>1 DEF Messages
  <1>3. message'[s] = [message[s] EXCEPT !.phase = phase]
        /\ \A t \in Servers \ {s} : message'[t] = message[t]
    BY AcmeTyped DEF Enter
  <1>4. message' \in [Servers -> Messages \union {NoMessage}]
    BY <1>2, AcmeTyped DEF Enter
  <1>5. message'[s].phase = phase /\ message'[s].binding = message[s].binding
    BY <1>1, <1>3 DEF Messages
  <1>6. QED
    BY <1>1, <1>3, <1>4, <1>5

LEMMA LeaveTyped ==
    ASSUME AcmeInv, NEW s \in Servers, Leave(s)
    PROVE  /\ message' \in [Servers -> Messages \union {NoMessage}]
           /\ message'[s].phase = "idle"
           /\ \A t \in Servers \ {s} : message'[t] = message[t]
  BY AcmeTyped DEF Leave, NoMessage

\* Neither looks anything up.
LEMMA NothingTaken ==
    ASSUME AcmeInv, NEW s \in Servers, message[s].phase # "idle",
           Leave(s) \/ Enter(s, "accepted") \/ Enter(s, "changing")
    PROVE  /\ message' \in [Servers -> Messages \union {NoMessage}]
           /\ \A t \in Servers, n \in Nonces : Verifying(t, n)' => Verifying(t, n)
           /\ \A n \in Nonces : ~ Verifying(s, n)'
           /\ \A t \in Servers, e \in EabKeys : Adding(t, e)' => Adding(t, e)
           /\ \A e \in EabKeys : ~ Adding(s, e)'
  <1>1. message' \in [Servers -> Messages \union {NoMessage}]
        /\ message'[s].phase \in {"idle", "accepted", "changing"}
        /\ \A t \in Servers \ {s} : message'[t] = message[t]
    BY LeaveTyped, EnterTyped
  <1>2. QED
    BY <1>1 DEF Verifying, Adding

-----------------------------------------------------------------------------

LEMMA KeepsNonceTable ==
    ASSUME AcmeInv, IssueNonce \/ PruneNonces \/ \E n \in Nonces : NonceAges(n)
    PROVE  AcmeInv'
  <1>1. UNCHANGED <<registration, eabKey, directory, message, messages, accepted, shared>>
    BY DEF IssueNonce, PruneNonces, NonceAges
  <1>2. nonce' \in [Nonces -> {"unissued", "live", "stale", "deleted"}]
        /\ \A n \in Nonces : nonce[n] = "deleted" => nonce'[n] = "deleted"
    <2>1. CASE IssueNonce
      <3> DEFINE n == CHOOSE x \in Nonces : nonce[x] = "unissued"
      <3>1. n \in Nonces /\ nonce[n] = "unissued" /\ nonce' = [nonce EXCEPT ![n] = "live"]
        BY <2>1 DEF IssueNonce
      <3> HIDE DEF n
      <3>2. QED
        BY <3>1, AcmeTyped
    <2>2. CASE PruneNonces
      BY <2>2, AcmeTyped DEF PruneNonces
    <2>3. CASE \E n \in Nonces : NonceAges(n)
      BY <2>3, AcmeTyped DEF NonceAges
    <2>4. QED
      BY <2>1, <2>2, <2>3
  <1>3. AcmeAccountsTypeOK' /\ MessagesOK'
    BY <1>1, <1>2, AcmeTyped, AcmeTypedNext
  <1>4. NonceOnce'
    BY <1>1, <1>2, NonceKept DEF Verifying
  <1>5. BindingOnce' /\ KeyOnce'
    BY <1>1, BindingKept, KeyKept DEF Adding
  <1>6. QED
    BY <1>3, <1>4, <1>5 DEF AcmeInv

LEMMA KeepsArrive ==
    ASSUME AcmeInv, NEW s \in Servers, NEW n \in Nonces,
           NEW op \in {"newAccount", "deactivate", "keyChange"},
           NEW signer \in Registrations \union {NoRegistration},
           NEW key \in ClientKeys \union {NoClientKey},
           NEW binding \in EabKeys \union {NoBinding}, Arrive(s, n, op, signer, key, binding)
    PROVE  AcmeInv'
  <1> DEFINE m == [phase |-> "verified", op |-> op, nonce |-> n, signer |-> signer, key |-> key,
                   binding |-> binding, fresh |-> nonce[n] = "live",
                   signedWith |-> IF signer = NoRegistration THEN key
                                  ELSE registration[signer].key]
  <1>1. /\ message[s] = NoMessage /\ messages < MaxMessages /\ Known(n)
        /\ message' = [message EXCEPT ![s] = m] /\ messages' = messages + 1
        /\ shared' = shared \union ({n} \intersect LookedUpByOthers(s))
        /\ UNCHANGED <<nonce, registration, eabKey, directory, accepted>>
    BY DEF Arrive
  <1>2. m \in Messages
    <2>1. signer # NoRegistration => registration[signer].key \in ClientKeys \union {NoClientKey}
      BY AcmeTyped DEF RegistrationRows
    <2>2. QED
      BY <2>1 DEF Messages
  <1>3. m.phase = "verified" /\ m.nonce = n
    OBVIOUS
  <1> HIDE DEF m
  <1>4. message'[s] = m /\ \A t \in Servers \ {s} : message'[t] = message[t]
    BY <1>1, AcmeTyped
  <1>5. AcmeAccountsTypeOK' /\ MessagesOK'
    <2>1. message' \in [Servers -> Messages \union {NoMessage}]
      BY <1>1, <1>2, AcmeTyped
    <2>2. messages' \in 0..MaxMessages
      BY <1>1, AcmeTyped
    <2>3. QED
      BY <1>1, <2>1, <2>2, AcmeTyped, AcmeTypedNext
  <1>6. \A t \in Servers \ {s} : Verifying(t, n) => n \in shared'
    BY <1>1 DEF Verifying, LookedUpByOthers, NoMessage
  <1>7. accepted[n] = 0
    BY <1>1, AcmeTyped DEF Known, AcmeInv, NonceOnce
  <1>8. NonceOnce'
    <2> SUFFICES ASSUME NEW x \in Nonces
                 PROVE  /\ accepted'[x] > 0 => nonce'[x] = "deleted"
                        /\ x \notin shared' =>
                              /\ accepted'[x] <= 1
                              /\ \A t \in Servers : Verifying(t, x)' =>
                                    /\ accepted'[x] = 0
                                    /\ \A u \in Servers : Verifying(u, x)' => u = t
      BY DEF NonceOnce, Verifying
    <2>1. CASE x = n
      <3>1. \A t \in Servers \ {s} : Verifying(t, n)' => n \in shared'
        BY <1>4, <1>6 DEF Verifying
      <3>2. QED
        BY <1>1, <1>7, <2>1, <3>1
    <2>2. CASE x # n
      <3>1. \A t \in Servers : Verifying(t, x)' => Verifying(t, x)
        BY <1>3, <1>4, <2>2 DEF Verifying
      <3>2. x \notin shared' => x \notin shared
        BY <1>1
      <3>3. QED
        BY <1>1, <3>1, <3>2 DEF AcmeInv, NonceOnce
    <2>3. QED
      BY <2>1, <2>2
  <1>9. BindingOnce'
    <2>1. \A t \in Servers, e \in EabKeys : Adding(t, e)' => Adding(t, e)
      BY <1>3, <1>4 DEF Adding
    <2>2. QED
      BY <1>1, <2>1, BindingKept
  <1>10. KeyOnce'
    BY <1>1, KeyKept
  <1>11. QED
    BY <1>5, <1>8, <1>9, <1>10 DEF AcmeInv

LEMMA KeepsSpendNonce ==
    ASSUME AcmeInv, NEW s \in Servers, SpendNonce(s)
    PROVE  AcmeInv'
  <1>0. PICK n : n = message[s].nonce
    OBVIOUS
  <1>1. /\ message[s].phase = "verified" /\ nonce' = [nonce EXCEPT ![n] = "deleted"]
        /\ \/ accepted' = [accepted EXCEPT ![n] = @ + 1] /\ Enter(s, "accepted")
           \/ Leave(s) /\ UNCHANGED accepted
        /\ UNCHANGED <<registration, eabKey, directory, messages, shared>>
    BY <1>0 DEF SpendNonce, DropNonce
  <1>2. message[s] \in Messages /\ n \in Nonces
    BY <1>0, <1>1, AcmeTyped DEF NoMessage, Messages
  <1>3. /\ message' \in [Servers -> Messages \union {NoMessage}]
        /\ \A t \in Servers, x \in Nonces : Verifying(t, x)' => Verifying(t, x)
        /\ \A x \in Nonces : ~ Verifying(s, x)'
        /\ \A t \in Servers, e \in EabKeys : Adding(t, e)' => Adding(t, e)
    BY <1>1, NothingTaken
  <1>4. nonce' \in [Nonces -> {"unissued", "live", "stale", "deleted"}]
        /\ nonce'[n] = "deleted" /\ \A x \in Nonces \ {n} : nonce'[x] = nonce[x]
    BY <1>1, <1>2, AcmeTyped
  <1>5. Verifying(s, n)
    BY <1>0, <1>1 DEF Verifying
  <1>6. /\ accepted' \in [Nonces -> Nat] /\ accepted'[n] \in {accepted[n], accepted[n] + 1}
        /\ \A x \in Nonces \ {n} : accepted'[x] = accepted[x]
    BY <1>1, <1>2, AcmeTyped
  <1>7. AcmeAccountsTypeOK' /\ MessagesOK'
    BY <1>1, <1>3, <1>4, <1>6, AcmeTyped, AcmeTypedNext
  <1>8. NonceOnce'
    <2> SUFFICES ASSUME NEW x \in Nonces
                 PROVE  /\ accepted'[x] > 0 => nonce'[x] = "deleted"
                        /\ x \notin shared' =>
                              /\ accepted'[x] <= 1
                              /\ \A t \in Servers : Verifying(t, x)' =>
                                    /\ accepted'[x] = 0
                                    /\ \A u \in Servers : Verifying(u, x)' => u = t
      BY DEF NonceOnce, Verifying
    <2>1. CASE x = n
      <3>1. n \notin shared => accepted[n] = 0 /\ \A t \in Servers : Verifying(t, n) => t = s
        BY <1>2, <1>5 DEF AcmeInv, NonceOnce
      <3>2. n \notin shared => \A t \in Servers : ~ Verifying(t, n)'
        BY <1>2, <1>3, <3>1
      <3>3. n \notin shared => accepted'[n] <= 1
        BY <1>6, <3>1
      <3>4. QED
        BY <1>1, <1>4, <2>1, <3>2, <3>3
    <2>2. CASE x # n
      BY <1>1, <1>3, <1>4, <1>6, <2>2 DEF AcmeInv, NonceOnce
    <2>3. QED
      BY <2>1, <2>2
  <1>9. BindingOnce' /\ KeyOnce'
    BY <1>1, <1>3, BindingKept, KeyKept
  <1>10. QED
    BY <1>7, <1>8, <1>9 DEF AcmeInv

LEMMA KeepsNewAccount ==
    ASSUME AcmeInv, NEW s \in Servers, NewAccount(s)
    PROVE  AcmeInv'
  <1>0. PICK e : e = message[s].binding
    OBVIOUS
  <1>1. /\ message[s].phase = "accepted"
        /\ UNCHANGED <<nonce, registration, eabKey, directory, messages, accepted>>
    BY DEF NewAccount
  <1>2. CASE Leave(s) /\ UNCHANGED shared
    <2>1. /\ message' \in [Servers -> Messages \union {NoMessage}]
          /\ \A t \in Servers, x \in Nonces : Verifying(t, x)' => Verifying(t, x)
          /\ \A t \in Servers, x \in EabKeys : Adding(t, x)' => Adding(t, x)
      BY <1>1, <1>2, NothingTaken
    <2>2. AcmeAccountsTypeOK' /\ MessagesOK'
      BY <1>1, <2>1, AcmeTyped, AcmeTypedNext
    <2>3. NonceOnce' /\ BindingOnce' /\ KeyOnce'
      BY <1>1, <1>2, <2>1, NonceKept, BindingKept, KeyKept
    <2>4. QED
      BY <2>2, <2>3 DEF AcmeInv
  <1>3. CASE /\ Enter(s, "adding") /\ (e # NoBinding => Bindable(e))
             /\ shared' = shared \union ({e} \intersect LookedUpByOthers(s))
    <2>1. /\ message' \in [Servers -> Messages \union {NoMessage}]
          /\ message'[s].phase = "adding" /\ message'[s].binding = e
          /\ \A t \in Servers \ {s} : message'[t] = message[t]
      BY <1>0, <1>1, <1>3, EnterTyped
    <2>2. \A t \in Servers, x \in Nonces : Verifying(t, x)' => Verifying(t, x)
      BY <2>1 DEF Verifying
    <2>3. AcmeAccountsTypeOK' /\ MessagesOK'
      BY <1>1, <2>1, AcmeTyped, AcmeTypedNext
    <2>4. NonceOnce' /\ KeyOnce'
      BY <1>1, <1>3, <2>2, NonceKept, KeyKept
    <2>5. \A t \in Servers \ {s} : Adding(t, e) => e \in shared'
      BY <1>3 DEF Adding, LookedUpByOthers, NoMessage
    <2>6. BindingOnce'
      <3> SUFFICES ASSUME NEW x \in EabKeys
                   PROVE  /\ \A r \in Registrations :
                                 registration'[r].binding = x => eabKey'[x].used
                          /\ x \notin shared' =>
                               /\ \A r, q \in Registrations :
                                    (registration'[r].binding = x /\ registration'[q].binding = x)
                                        => r = q
                               /\ \A t \in Servers : Adding(t, x)' =>
                                    /\ \A r \in Registrations : registration'[r].binding # x
                                    /\ \A u \in Servers : Adding(u, x)' => u = t
        BY DEF BindingOnce, Adding
      <3>1. x \notin shared' => x \notin shared
        BY <1>3
      <3>2. CASE x = e
        <4>1. \A t \in Servers \ {s} : Adding(t, e)' => e \in shared'
          BY <2>1, <2>5 DEF Adding
        <4>2. ~ eabKey[e].used
          BY <1>3, <3>2, AcmeAccountsAssumption DEF Bindable
        <4>3. \A r \in Registrations : registration[r].binding # e
          BY <3>2, <4>2 DEF AcmeInv, BindingOnce
        <4>4. QED
          BY <1>1, <3>2, <4>1, <4>3
      <3>3. CASE x # e
        <4>1. \A t \in Servers : Adding(t, x)' => Adding(t, x)
          BY <2>1, <3>3 DEF Adding
        <4>2. QED
          BY <1>1, <3>1, <4>1 DEF AcmeInv, BindingOnce
      <3>4. QED
        BY <3>2, <3>3
    <2>7. QED
      BY <2>3, <2>4, <2>6 DEF AcmeInv
  <1>4. QED
    BY <1>0, <1>2, <1>3 DEF NewAccount

\* The commit of a new account: nobody else has the binding in hand, or it is shared.
LEMMA KeepsAddAccount ==
    ASSUME AcmeInv, NEW s \in Servers, AddAccount(s)
    PROVE  AcmeInv'
  <1>0. PICK e, k, r : /\ e = message[s].binding /\ k = message[s].key
                       /\ r = CHOOSE x \in Registrations :
                                 \A y \in Registrations :
                                     registration[y] = Absent => registration[x] = Absent
    OBVIOUS
  <1>1. /\ message[s].phase = "adding" /\ registration[r] = Absent /\ Leave(s)
        /\ UNCHANGED <<nonce, directory, messages, accepted, shared>>
        /\ \/ /\ HoldersOf(k) = {}
              /\ registration' = [registration EXCEPT ![r] =
                                    [key |-> k, status |-> "valid", binding |-> e]]
              /\ eabKey' = [x \in EabKeys |-> IF x = e THEN [eabKey[x] EXCEPT !.used = TRUE]
                                              ELSE eabKey[x]]
           \/ UNCHANGED <<registration, eabKey>>
    BY <1>0 DEF AddAccount
  <1>2. message[s] \in Messages /\ Adding(s, e)
        /\ e \in EabKeys \union {NoBinding} /\ k \in ClientKeys \union {NoClientKey}
    BY <1>0, <1>1, AcmeTyped DEF NoMessage, Messages, Adding
  <1>3. /\ message' \in [Servers -> Messages \union {NoMessage}]
        /\ \A t \in Servers, x \in Nonces : Verifying(t, x)' => Verifying(t, x)
        /\ \A t \in Servers, x \in EabKeys : Adding(t, x)' => Adding(t, x)
        /\ \A x \in EabKeys : ~ Adding(s, x)'
    BY <1>1, NothingTaken
  <1>4. NonceOnce'
    BY <1>1, <1>3, NonceKept
  <1>5. CASE UNCHANGED <<registration, eabKey>>
    <2>1. AcmeAccountsTypeOK' /\ MessagesOK'
      BY <1>1, <1>3, <1>5, AcmeTyped, AcmeTypedNext
    <2>2. BindingOnce' /\ KeyOnce'
      BY <1>1, <1>3, <1>5, BindingKept, KeyKept
    <2>3. QED
      BY <1>4, <2>1, <2>2 DEF AcmeInv
  <1>6. CASE /\ HoldersOf(k) = {}
             /\ registration' = [registration EXCEPT ![r] =
                                   [key |-> k, status |-> "valid", binding |-> e]]
             /\ eabKey' = [x \in EabKeys |-> IF x = e THEN [eabKey[x] EXCEPT !.used = TRUE]
                                             ELSE eabKey[x]]
    <2> DEFINE row == [key |-> k, status |-> "valid", binding |-> e]
    <2>1. row \in RegistrationRows /\ row.key = k /\ row.binding = e
      BY <1>2 DEF RegistrationRows
    <2>2. registration' = [registration EXCEPT ![r] = row]
      BY <1>6
    <2> HIDE DEF row
    <2>3. registration' \in [Registrations -> RegistrationRows]
      BY <2>1, <2>2, AcmeTyped
    <2>4. \A q \in Registrations : registration'[q] = IF q = r THEN row ELSE registration[q]
      BY <2>2, AcmeTyped
    <2>5. eabKey' \in [EabKeys -> EabRows]
          /\ \A x \in EabKeys : (eabKey[x].used \/ x = e) => eabKey'[x].used
      <3>1. ASSUME NEW x \in EabKeys
            PROVE  [eabKey[x] EXCEPT !.used = TRUE] \in EabRows
                   /\ [eabKey[x] EXCEPT !.used = TRUE].used
        BY AcmeTyped DEF EabRows
      <3>2. QED
        BY <1>6, <3>1, AcmeTyped
    <2>6. AcmeAccountsTypeOK' /\ MessagesOK'
      BY <1>1, <1>3, <2>3, <2>5, AcmeTyped, AcmeTypedNext
    <2>7. \A q \in Registrations : registration[q].key # k
      BY <1>6 DEF HoldersOf
    <2>8. KeyOnce'
      BY <2>1, <2>4, <2>7 DEF AcmeInv, KeyOnce
    <2>9. BindingOnce'
      <3> SUFFICES ASSUME NEW x \in EabKeys
                   PROVE  /\ \A q \in Registrations :
                                 registration'[q].binding = x => eabKey'[x].used
                          /\ x \notin shared' =>
                               /\ \A p, q \in Registrations :
                                    (registration'[p].binding = x /\ registration'[q].binding = x)
                                        => p = q
                               /\ \A t \in Servers : Adding(t, x)' =>
                                    /\ \A q \in Registrations : registration'[q].binding # x
                                    /\ \A u \in Servers : Adding(u, x)' => u = t
        BY DEF BindingOnce, Adding
      <3>1. \A q \in Registrations : registration'[q].binding = x => eabKey'[x].used
        BY <2>1, <2>4, <2>5 DEF AcmeInv, BindingOnce
      <3>2. CASE x = e
        <4>1. x \notin shared => /\ \A q \in Registrations : registration[q].binding # x
                                 /\ \A t \in Servers : Adding(t, x) => t = s
          BY <1>2, <3>2 DEF AcmeInv, BindingOnce
        <4>2. x \notin shared => \A t \in Servers : ~ Adding(t, x)'
          BY <1>3, <4>1
        <4>3. x \notin shared => \A q \in Registrations : registration'[q].binding = x => q = r
          BY <2>4, <4>1
        <4>4. QED
          BY <1>1, <3>1, <4>2, <4>3
      <3>3. CASE x # e
        <4>1. \A q \in Registrations : registration'[q].binding = x =>
                 registration[q].binding = x
          BY <2>1, <2>4, <3>3
        <4>2. QED
          BY <1>1, <1>3, <3>1, <4>1 DEF AcmeInv, BindingOnce
      <3>4. QED
        BY <3>2, <3>3
    <2>10. QED
      BY <1>4, <2>6, <2>8, <2>9 DEF AcmeInv
  <1>7. QED
    BY <1>1, <1>5, <1>6

LEMMA KeepsDeactivate ==
    ASSUME AcmeInv, NEW s \in Servers, Deactivate(s)
    PROVE  AcmeInv'
  <1>1. /\ message[s].phase = "accepted" /\ Leave(s)
        /\ registration' = [registration EXCEPT ![message[s].signer] =
                              [registration[message[s].signer] EXCEPT !.status = "deactivated"]]
        /\ UNCHANGED <<nonce, eabKey, directory, messages, accepted, shared>>
    BY DEF Deactivate
  <1>2. \A r \in Registrations :
           /\ [registration[r] EXCEPT !.status = "deactivated"] \in RegistrationRows
           /\ [registration[r] EXCEPT !.status = "deactivated"].key = registration[r].key
           /\ [registration[r] EXCEPT !.status = "deactivated"].binding = registration[r].binding
    BY AcmeTyped DEF RegistrationRows
  <1>3. /\ registration' \in [Registrations -> RegistrationRows]
        /\ \A r \in Registrations : /\ registration'[r].key = registration[r].key
                                    /\ registration'[r].binding = registration[r].binding
    BY <1>1, <1>2, AcmeTyped
  <1>4. /\ message' \in [Servers -> Messages \union {NoMessage}]
        /\ \A t \in Servers, x \in Nonces : Verifying(t, x)' => Verifying(t, x)
        /\ \A t \in Servers, x \in EabKeys : Adding(t, x)' => Adding(t, x)
    BY <1>1, NothingTaken
  <1>5. AcmeAccountsTypeOK' /\ MessagesOK'
    BY <1>1, <1>3, <1>4, AcmeTyped, AcmeTypedNext
  <1>6. NonceOnce' /\ BindingOnce' /\ KeyOnce'
    BY <1>1, <1>3, <1>4, NonceKept, BindingKept, KeyKept
  <1>7. QED
    BY <1>5, <1>6 DEF AcmeInv

LEMMA KeepsChangeKey ==
    ASSUME AcmeInv, NEW s \in Servers, ChangeKey(s)
    PROVE  AcmeInv'
  <1>1. /\ message[s].phase = "accepted" /\ (Leave(s) \/ Enter(s, "changing"))
        /\ UNCHANGED <<nonce, registration, eabKey, directory, messages, accepted, shared>>
    BY DEF ChangeKey
  <1>2. /\ message' \in [Servers -> Messages \union {NoMessage}]
        /\ \A t \in Servers, x \in Nonces : Verifying(t, x)' => Verifying(t, x)
        /\ \A t \in Servers, x \in EabKeys : Adding(t, x)' => Adding(t, x)
    BY <1>1, NothingTaken
  <1>3. AcmeAccountsTypeOK' /\ MessagesOK'
    BY <1>1, <1>2, AcmeTyped, AcmeTypedNext
  <1>4. NonceOnce' /\ BindingOnce' /\ KeyOnce'
    BY <1>1, <1>2, NonceKept, BindingKept, KeyKept
  <1>5. QED
    BY <1>3, <1>4 DEF AcmeInv

LEMMA KeepsSetKey ==
    ASSUME AcmeInv, NEW s \in Servers, SetKey(s)
    PROVE  AcmeInv'
  <1>0. PICK k, r : k = message[s].key /\ r = message[s].signer
    OBVIOUS
  <1>1. /\ message[s].phase = "changing" /\ Leave(s)
        /\ registration' = IF HoldersOf(k) \subseteq {r}
                           THEN [registration EXCEPT ![r] = [registration[r] EXCEPT !.key = k]]
                           ELSE registration
        /\ UNCHANGED <<nonce, eabKey, directory, messages, accepted, shared>>
    BY <1>0 DEF SetKey
  <1>2. message[s] \in Messages /\ k \in ClientKeys \union {NoClientKey}
    BY <1>0, <1>1, AcmeTyped DEF NoMessage, Messages
  <1>3. \A q \in Registrations :
           /\ [registration[q] EXCEPT !.key = k] \in RegistrationRows
           /\ [registration[q] EXCEPT !.key = k].key = k
           /\ [registration[q] EXCEPT !.key = k].binding = registration[q].binding
    BY <1>2, AcmeTyped DEF RegistrationRows
  <1>4. /\ registration' \in [Registrations -> RegistrationRows]
        /\ \A q \in Registrations :
              /\ registration'[q].binding = registration[q].binding
              /\ \/ registration'[q].key = registration[q].key
                 \/ q = r /\ registration'[q].key = k /\ HoldersOf(k) \subseteq {r}
    BY <1>1, <1>3, AcmeTyped
  <1>5. /\ message' \in [Servers -> Messages \union {NoMessage}]
        /\ \A t \in Servers, x \in Nonces : Verifying(t, x)' => Verifying(t, x)
        /\ \A t \in Servers, x \in EabKeys : Adding(t, x)' => Adding(t, x)
    BY <1>1, NothingTaken
  <1>6. AcmeAccountsTypeOK' /\ MessagesOK'
    BY <1>1, <1>4, <1>5, AcmeTyped, AcmeTypedNext
  <1>7. NonceOnce' /\ BindingOnce'
    BY <1>1, <1>4, <1>5, NonceKept, BindingKept
  <1>8. KeyOnce'
    BY <1>4 DEF AcmeInv, KeyOnce, HoldersOf
  <1>9. QED
    BY <1>6, <1>7, <1>8 DEF AcmeInv

LEMMA KeepsAdministration ==
    ASSUME AcmeInv, \/ \E e \in EabKeys : CreateEabKey(e) \/ RevokeEabKey(e)
                    \/ \E enabled, requireEab \in BOOLEAN : SetAcme(enabled, requireEab)
    PROVE  AcmeInv'
  <1>1. UNCHANGED <<nonce, registration, message, messages, accepted, shared>>
    BY DEF CreateEabKey, RevokeEabKey, SetAcme
  <1>2. eabKey' \in [EabKeys -> EabRows] /\ \A e \in EabKeys : eabKey[e].used => eabKey'[e].used
    <2>1. CASE \E e \in EabKeys : CreateEabKey(e)
      <3>1. PICK e \in EabKeys : eabKey' = [eabKey EXCEPT ![e] = [eabKey[e] EXCEPT !.exists = TRUE]]
        BY <2>1 DEF CreateEabKey
      <3>2. PICK row : row = [eabKey[e] EXCEPT !.exists = TRUE]
        OBVIOUS
      <3>3. eabKey \in [EabKeys -> EabRows]
        BY AcmeTyped
      <3>4. row \in EabRows /\ row.used = eabKey[e].used
        BY <3>2, <3>3 DEF EabRows
      <3>5. eabKey' = [eabKey EXCEPT ![e] = row]
        BY <3>1, <3>2
      <3>6. QED
        BY <3>3, <3>4, <3>5
    <2>2. CASE \E e \in EabKeys : RevokeEabKey(e)
      <3>1. PICK e \in EabKeys :
                eabKey' = [eabKey EXCEPT ![e] = [eabKey[e] EXCEPT !.revoked = TRUE]]
        BY <2>2 DEF RevokeEabKey
      <3>2. PICK row : row = [eabKey[e] EXCEPT !.revoked = TRUE]
        OBVIOUS
      <3>3. eabKey \in [EabKeys -> EabRows]
        BY AcmeTyped
      <3>4. row \in EabRows /\ row.used = eabKey[e].used
        BY <3>2, <3>3 DEF EabRows
      <3>5. eabKey' = [eabKey EXCEPT ![e] = row]
        BY <3>1, <3>2
      <3>6. QED
        BY <3>3, <3>4, <3>5
    <2>3. CASE \E enabled, requireEab \in BOOLEAN : SetAcme(enabled, requireEab)
      BY <2>3, AcmeTyped DEF SetAcme
    <2>4. QED
      BY <2>1, <2>2, <2>3
  <1>3. directory' \in [enabled : BOOLEAN, requireEab : BOOLEAN]
    BY AcmeTyped DEF CreateEabKey, RevokeEabKey, SetAcme
  <1>4. AcmeAccountsTypeOK' /\ MessagesOK'
    BY <1>1, <1>2, <1>3, AcmeTyped, AcmeTypedNext
  <1>5. NonceOnce' /\ BindingOnce' /\ KeyOnce'
    BY <1>1, <1>2, NonceKept, BindingKept, KeyKept DEF Verifying, Adding
  <1>6. QED
    BY <1>4, <1>5 DEF AcmeInv

LEMMA AcmeInvInit == AcmeAccountsInit => AcmeInv
  <1> SUFFICES ASSUME AcmeAccountsInit PROVE AcmeInv
    OBVIOUS
  <1>1. nonce \in [Nonces -> {"unissued", "live", "stale", "deleted"}]
        /\ message \in [Servers -> Messages \union {NoMessage}] /\ accepted \in [Nonces -> Nat]
    BY DEF AcmeAccountsInit
  <1>2. registration \in [Registrations -> RegistrationRows]
    BY AbsentTyped DEF AcmeAccountsInit
  <1>3. eabKey \in [EabKeys -> EabRows]
    BY DEF AcmeAccountsInit, EabRows
  <1>4. directory \in [enabled : BOOLEAN, requireEab : BOOLEAN] /\ messages \in 0..MaxMessages
    BY AcmeAccountsAssumption DEF AcmeAccountsInit
  <1>5. AcmeAccountsTypeOK /\ MessagesOK
    BY <1>1, <1>2, <1>3, <1>4 DEF AcmeAccountsTypeOK, MessagesOK, RegistrationRows, EabRows
  <1>6. NonceOnce
    BY DEF AcmeAccountsInit, NonceOnce, Verifying, NoMessage
  <1>7. \A r \in Registrations : registration[r].binding = NoBinding
                                 /\ registration[r].key = NoClientKey
    BY DEF AcmeAccountsInit, Absent
  <1>8. BindingOnce
    <2>1. \A s \in Servers, e \in EabKeys : ~ Adding(s, e)
      BY DEF AcmeAccountsInit, Adding, NoMessage
    <2>2. \A e \in EabKeys, r \in Registrations : registration[r].binding # e
      BY <1>7, AcmeAccountsAssumption
    <2>3. QED
      BY <2>1, <2>2 DEF BindingOnce
  <1>9. KeyOnce
    BY <1>7, AcmeAccountsAssumption DEF KeyOnce
  <1>10. QED
    BY <1>5, <1>6, <1>8, <1>9 DEF AcmeInv

LEMMA AcmeInvStep == AcmeInv /\ [AcmeAccountsNext]_acmeAccountVars => AcmeInv'
  <1> SUFFICES ASSUME AcmeInv, [AcmeAccountsNext]_acmeAccountVars PROVE AcmeInv'
    OBVIOUS
  <1>1. CASE UNCHANGED acmeAccountVars
    BY <1>1 DEF acmeAccountVars, AcmeInv, AcmeAccountsTypeOK, MessagesOK, NonceOnce, BindingOnce,
                KeyOnce, Verifying, Adding
  <1>2. CASE IssueNonce \/ PruneNonces \/ \E n \in Nonces : NonceAges(n)
    BY <1>2, KeepsNonceTable
  <1>3. CASE \E s \in Servers : \E n \in Nonces : Send(s, n)
    BY <1>3, KeepsArrive DEF Send
  <1>4. CASE \E s \in Servers : SpendNonce(s) \/ NewAccount(s) \/ AddAccount(s)
    BY <1>4, KeepsSpendNonce, KeepsNewAccount, KeepsAddAccount
  <1>5. CASE \E s \in Servers : Deactivate(s) \/ ChangeKey(s) \/ SetKey(s)
    BY <1>5, KeepsDeactivate, KeepsChangeKey, KeepsSetKey
  <1>6. CASE \/ \E e \in EabKeys : CreateEabKey(e) \/ RevokeEabKey(e)
             \/ \E enabled, requireEab \in BOOLEAN : SetAcme(enabled, requireEab)
    BY <1>6, KeepsAdministration
  <1>7. QED
    BY <1>1, <1>2, <1>3, <1>4, <1>5, <1>6 DEF AcmeAccountsNext

LEMMA AtMostOne ==
    ASSUME NEW S, \A x, y \in S : x = y
    PROVE  Cardinality(S) \in Nat /\ Cardinality(S) <= 1
  <1>1. CASE S = {}
    BY <1>1, FS_EmptySet
  <1>2. CASE S # {}
    <2>1. PICK x : S = {x}
      BY <1>2
    <2>2. QED
      BY <2>1, FS_Singleton
  <1>3. QED
    BY <1>1, <1>2

\* The tables of the ACME front hold what their columns can hold, with any number of servers.
THEOREM AcmeAccountsTypeCorrect == AcmeAccountsSpec => []AcmeAccountsTypeOK
  <1>1. AcmeInv => AcmeAccountsTypeOK
    BY DEF AcmeInv
  <1>2. QED
    BY <1>1, AcmeInvInit, AcmeInvStep, PTL DEF AcmeAccountsSpec

\* A nonce lets one request through (consume_nonce) and a binding makes one account (new_account),
\* unless two requests had looked the row up before either committed; and no two accounts have one
\* key, whatever new_account and change_key do at the same time.
THEOREM UsedOnceHolds == AcmeAccountsSpec => []UsedOnce
  <1>1. ASSUME AcmeInv PROVE UsedOnce
    <2>1. \A n \in Nonces : accepted[n] > 1 => n \in shared
      BY <1>1, AcmeTyped DEF AcmeInv, NonceOnce
    <2>2. ASSUME NEW e \in EabKeys,
                 Cardinality({r \in Registrations : registration[r].binding = e}) > 1
          PROVE  e \in shared
      <3>1. SUFFICES ASSUME e \notin shared PROVE FALSE
        OBVIOUS
      <3> DEFINE S == {r \in Registrations : registration[r].binding = e}
      <3>2. \A x, y \in S : x = y
        BY <1>1, <3>1 DEF AcmeInv, BindingOnce
      <3>3. Cardinality(S) > 1
        BY <2>2
      <3> HIDE DEF S
      <3>4. QED
        BY <3>2, <3>3, AtMostOne
    <2>3. ASSUME NEW k \in ClientKeys PROVE Cardinality(HoldersOf(k)) <= 1
      <3>1. \A x, y \in HoldersOf(k) : x = y
        BY <1>1 DEF AcmeInv, KeyOnce, HoldersOf
      <3>2. QED
        BY <3>1, AtMostOne
    <2>4. QED
      BY <2>1, <2>2, <2>3 DEF UsedOnce
  <1>2. QED
    BY <1>1, AcmeInvInit, AcmeInvStep, PTL DEF AcmeAccountsSpec

-----------------------------------------------------------------------------
(***************************************************************************)
(* What sharing can cost. A row that has been used is no longer found, so  *)
(* that only the servers that have it in hand can use it once more.        *)
(***************************************************************************)

\* Who has looked a nonce or a binding up and not yet used it, and what a binding has made.
VerifyingServers(n) == {s \in Servers : Verifying(s, n)}
AddingServers(e) == {s \in Servers : Adding(s, e)}
MadeWith(e) == {r \in Registrations : registration[r].binding = e}

\* What has been made of a row, and what may still be made of it, fits the servers. Nothing has
\* been made of it while it can be looked up.
ShareInv ==
    /\ \A n \in Nonces :
          accepted[n] + Cardinality(VerifyingServers(n)) <= Cardinality(Servers)
    /\ \A e \in EabKeys :
          /\ IsFiniteSet(MadeWith(e))
          /\ Cardinality(MadeWith(e)) + Cardinality(AddingServers(e)) <= Cardinality(Servers)

LEMMA ServerSets ==
    ASSUME NEW S \in SUBSET Servers
    PROVE  /\ IsFiniteSet(S) /\ Cardinality(S) \in Nat /\ Cardinality(Servers) \in Nat
           /\ Cardinality(S) <= Cardinality(Servers)
           /\ \A T \in SUBSET S : Cardinality(T) \in Nat /\ Cardinality(T) <= Cardinality(S)
           /\ \A s \in S, T \in SUBSET S : s \notin T => Cardinality(T) + 1 <= Cardinality(S)
  <1>1. IsFiniteSet(Servers)
    BY AcmeAccountsAssumption
  <1>2. IsFiniteSet(S) /\ Cardinality(S) <= Cardinality(Servers)
    BY <1>1, FS_Subset
  <1>3. Cardinality(S) \in Nat /\ Cardinality(Servers) \in Nat
    BY <1>1, <1>2, FS_CardinalityType
  <1>4. ASSUME NEW T \in SUBSET S
        PROVE  IsFiniteSet(T) /\ Cardinality(T) \in Nat /\ Cardinality(T) <= Cardinality(S)
    <2>1. IsFiniteSet(T) /\ Cardinality(T) <= Cardinality(S)
      BY <1>2, FS_Subset
    <2>2. QED
      BY <2>1, FS_CardinalityType
  <1>5. ASSUME NEW T \in SUBSET S, NEW s \in S, s \notin T
        PROVE  Cardinality(T) + 1 <= Cardinality(S)
    <2>1. Cardinality(T \union {s}) = Cardinality(T) + 1
      BY <1>4, <1>5, FS_AddElement
    <2>2. T \union {s} \in SUBSET S
      OBVIOUS
    <2>3. Cardinality(T \union {s}) <= Cardinality(S)
      BY <1>4, <2>2
    <2>4. QED
      BY <2>1, <2>3
  <1>6. QED
    BY <1>2, <1>3, <1>4, <1>5

\* A step that looks nothing up, spends nothing and makes nothing.
LEMMA NonceShareKept ==
    ASSUME AcmeInv, ShareInv, NEW n \in Nonces, accepted'[n] = accepted[n],
           \A t \in Servers : Verifying(t, n)' => Verifying(t, n)
    PROVE  accepted'[n] + Cardinality(VerifyingServers(n)') <= Cardinality(Servers)
  <1>1. PICK V \in SUBSET Servers : V = VerifyingServers(n)
    BY DEF VerifyingServers
  <1>2. PICK W \in SUBSET Servers : W = VerifyingServers(n)'
    BY DEF VerifyingServers
  <1>3. W \in SUBSET V
    BY <1>1, <1>2 DEF VerifyingServers
  <1>4. /\ Cardinality(V) \in Nat /\ Cardinality(W) \in Nat /\ Cardinality(Servers) \in Nat
        /\ Cardinality(W) <= Cardinality(V)
    BY <1>3, ServerSets
  <1>5. accepted[n] \in Nat /\ accepted[n] + Cardinality(V) <= Cardinality(Servers)
    BY <1>1, AcmeTyped DEF ShareInv
  <1>6. QED
    BY <1>2, <1>4, <1>5

LEMMA BindingShareKept ==
    ASSUME AcmeInv, ShareInv, NEW e \in EabKeys,
           \A r \in Registrations : registration'[r].binding = registration[r].binding,
           \A t \in Servers : Adding(t, e)' => Adding(t, e)
    PROVE  /\ IsFiniteSet(MadeWith(e)')
           /\ Cardinality(MadeWith(e)') + Cardinality(AddingServers(e)') <= Cardinality(Servers)
  <1>1. PICK A \in SUBSET Servers : A = AddingServers(e)
    BY DEF AddingServers
  <1>2. PICK B \in SUBSET Servers : B = AddingServers(e)'
    BY DEF AddingServers
  <1>3. B \in SUBSET A
    BY <1>1, <1>2 DEF AddingServers
  <1>4. /\ Cardinality(A) \in Nat /\ Cardinality(B) \in Nat /\ Cardinality(Servers) \in Nat
        /\ Cardinality(B) <= Cardinality(A)
    BY <1>3, ServerSets
  <1>5. PICK M : M = MadeWith(e)
    OBVIOUS
  <1>6. MadeWith(e)' = M
    BY <1>5 DEF MadeWith
  <1>7. IsFiniteSet(M) /\ Cardinality(M) + Cardinality(A) <= Cardinality(Servers)
    BY <1>1, <1>5 DEF ShareInv
  <1>8. Cardinality(M) \in Nat
    BY <1>7, FS_CardinalityType
  <1>9. QED
    BY <1>2, <1>4, <1>6, <1>7, <1>8

LEMMA SharesKept ==
    ASSUME AcmeInv, ShareInv, accepted' = accepted,
           \A r \in Registrations : registration'[r].binding = registration[r].binding,
           \A t \in Servers, n \in Nonces : Verifying(t, n)' => Verifying(t, n),
           \A t \in Servers, e \in EabKeys : Adding(t, e)' => Adding(t, e)
    PROVE  ShareInv'
  BY NonceShareKept, BindingShareKept DEF ShareInv

\* A nonce that is looked up has let nothing through yet.
LEMMA ArriveShares ==
    ASSUME AcmeInv, ShareInv, NEW s \in Servers, NEW n \in Nonces, NEW op, NEW signer, NEW key,
           NEW binding, Arrive(s, n, op, signer, key, binding)
    PROVE  ShareInv'
  <1>1. /\ message[s] = NoMessage /\ Known(n)
        /\ message'[s].phase = "verified" /\ message'[s].nonce = n
        /\ \A t \in Servers \ {s} : message'[t] = message[t]
        /\ UNCHANGED <<registration, accepted>>
    BY AcmeTyped DEF Arrive
  <1>2. accepted[n] = 0
    BY <1>1, AcmeTyped DEF Known, AcmeInv, NonceOnce
  <1>3. ASSUME NEW x \in Nonces
        PROVE  accepted'[x] + Cardinality(VerifyingServers(x)') <= Cardinality(Servers)
    <2>1. CASE x = n
      <3>1. VerifyingServers(n)' \in SUBSET Servers
        BY DEF VerifyingServers
      <3>2. /\ Cardinality(VerifyingServers(n)') \in Nat /\ Cardinality(Servers) \in Nat
            /\ Cardinality(VerifyingServers(n)') <= Cardinality(Servers)
        BY <3>1, ServerSets
      <3>3. QED
        BY <1>1, <1>2, <2>1, <3>2
    <2>2. CASE x # n
      <3>1. \A t \in Servers : Verifying(t, x)' => Verifying(t, x)
        BY <1>1, <2>2 DEF Verifying
      <3>2. QED
        BY <1>1, <3>1, NonceShareKept
    <2>3. QED
      BY <2>1, <2>2
  <1>4. \A t \in Servers, e \in EabKeys : Adding(t, e)' => Adding(t, e)
    BY <1>1 DEF Adding
  <1>5. QED
    BY <1>1, <1>3, <1>4, BindingShareKept DEF ShareInv

\* One that is spent was in the hands of the server that spends it.
LEMMA SpendNonceShares ==
    ASSUME AcmeInv, ShareInv, NEW s \in Servers, SpendNonce(s)
    PROVE  ShareInv'
  <1>0. PICK n : n = message[s].nonce
    OBVIOUS
  <1>1. /\ message[s].phase = "verified"
        /\ \/ accepted' = [accepted EXCEPT ![n] = @ + 1] /\ Enter(s, "accepted")
           \/ Leave(s) /\ UNCHANGED accepted
        /\ UNCHANGED <<registration, eabKey>>
    BY <1>0 DEF SpendNonce
  <1>2. n \in Nonces /\ Verifying(s, n)
    BY <1>0, <1>1, AcmeTyped DEF NoMessage, Messages, Verifying
  <1>3. /\ \A t \in Servers, x \in Nonces : Verifying(t, x)' => Verifying(t, x)
        /\ \A x \in Nonces : ~ Verifying(s, x)'
        /\ \A t \in Servers, e \in EabKeys : Adding(t, e)' => Adding(t, e)
    BY <1>1, NothingTaken
  <1>4. /\ accepted[n] \in Nat /\ accepted'[n] \in {accepted[n], accepted[n] + 1}
        /\ \A x \in Nonces \ {n} : accepted'[x] = accepted[x]
    BY <1>1, <1>2, AcmeTyped
  <1>5. accepted'[n] + Cardinality(VerifyingServers(n)') <= Cardinality(Servers)
    <2>1. PICK V \in SUBSET Servers : V = VerifyingServers(n)
      BY DEF VerifyingServers
    <2>2. PICK W \in SUBSET Servers : W = VerifyingServers(n)'
      BY DEF VerifyingServers
    <2>3. W \in SUBSET V /\ s \in V /\ s \notin W
      BY <1>2, <1>3, <2>1, <2>2 DEF VerifyingServers
    <2>4. /\ Cardinality(V) \in Nat /\ Cardinality(W) \in Nat /\ Cardinality(Servers) \in Nat
          /\ Cardinality(W) + 1 <= Cardinality(V)
      BY <2>3, ServerSets
    <2>5. accepted[n] + Cardinality(V) <= Cardinality(Servers)
      BY <1>2, <2>1 DEF ShareInv
    <2>6. QED
      BY <1>4, <2>2, <2>4, <2>5
  <1>6. \A x \in Nonces : accepted'[x] + Cardinality(VerifyingServers(x)') <= Cardinality(Servers)
    BY <1>3, <1>4, <1>5, NonceShareKept
  <1>7. QED
    BY <1>1, <1>3, <1>6, BindingShareKept DEF ShareInv

\* A binding that is looked up has made no account yet.
LEMMA NewAccountShares ==
    ASSUME AcmeInv, ShareInv, NEW s \in Servers, NewAccount(s)
    PROVE  ShareInv'
  <1>0. PICK e : e = message[s].binding
    OBVIOUS
  <1>1. message[s].phase = "accepted" /\ UNCHANGED <<registration, eabKey, accepted>>
    BY DEF NewAccount
  <1>2. CASE Leave(s)
    BY <1>1, <1>2, NothingTaken, SharesKept
  <1>3. CASE Enter(s, "adding") /\ (e # NoBinding => Bindable(e))
    <2>1. /\ message'[s].phase = "adding" /\ message'[s].binding = e
          /\ \A t \in Servers \ {s} : message'[t] = message[t]
      BY <1>0, <1>1, <1>3, EnterTyped
    <2>2. \A t \in Servers, n \in Nonces : Verifying(t, n)' => Verifying(t, n)
      BY <2>1 DEF Verifying
    <2>3. ASSUME NEW x \in EabKeys
          PROVE  /\ IsFiniteSet(MadeWith(x)')
                 /\ Cardinality(MadeWith(x)') + Cardinality(AddingServers(x)')
                      <= Cardinality(Servers)
      <3>1. CASE x = e
        <4>1. ~ eabKey[e].used
          BY <1>3, <3>1, AcmeAccountsAssumption DEF Bindable
        <4>2. MadeWith(x)' = {}
          BY <1>1, <3>1, <4>1 DEF AcmeInv, BindingOnce, MadeWith
        <4>3. IsFiniteSet(MadeWith(x)') /\ Cardinality(MadeWith(x)') = 0
          BY <4>2, FS_EmptySet
        <4>4. AddingServers(x)' \in SUBSET Servers
          BY DEF AddingServers
        <4>5. /\ Cardinality(AddingServers(x)') \in Nat /\ Cardinality(Servers) \in Nat
              /\ Cardinality(AddingServers(x)') <= Cardinality(Servers)
          BY <4>4, ServerSets
        <4>6. QED
          BY <4>3, <4>5
      <3>2. CASE x # e
        <4>1. \A t \in Servers : Adding(t, x)' => Adding(t, x)
          BY <2>1, <3>2 DEF Adding
        <4>2. QED
          BY <1>1, <4>1, BindingShareKept
      <3>3. QED
        BY <3>1, <3>2
    <2>4. QED
      BY <1>1, <2>2, <2>3, NonceShareKept DEF ShareInv
  <1>4. QED
    BY <1>0, <1>2, <1>3 DEF NewAccount

\* An account that is added was in the hands of the server that adds it.
LEMMA AddAccountShares ==
    ASSUME AcmeInv, ShareInv, NEW s \in Servers, AddAccount(s)
    PROVE  ShareInv'
  <1>0. PICK e, k, r : /\ e = message[s].binding /\ k = message[s].key
                       /\ r = CHOOSE x \in Registrations :
                                 \A y \in Registrations :
                                     registration[y] = Absent => registration[x] = Absent
    OBVIOUS
  <1>1. /\ message[s].phase = "adding" /\ Leave(s) /\ UNCHANGED accepted
        /\ \/ registration' = [registration EXCEPT ![r] =
                                  [key |-> k, status |-> "valid", binding |-> e]]
           \/ UNCHANGED registration
    BY <1>0 DEF AddAccount
  <1>2. Adding(s, e)
    BY <1>0, <1>1 DEF Adding
  <1>3. /\ \A t \in Servers, n \in Nonces : Verifying(t, n)' => Verifying(t, n)
        /\ \A t \in Servers, x \in EabKeys : Adding(t, x)' => Adding(t, x)
        /\ \A x \in EabKeys : ~ Adding(s, x)'
    BY <1>1, NothingTaken
  <1>4. PICK row : row = [key |-> k, status |-> "valid", binding |-> e]
    OBVIOUS
  <1>5. ASSUME NEW q \in Registrations
        PROVE  \/ registration'[q].binding = registration[q].binding
               \/ q = r /\ registration'[q].binding = e
    <2>1. registration \in [Registrations -> RegistrationRows]
      BY AcmeTyped
    <2>2. registration' = [registration EXCEPT ![r] = row] \/ registration' = registration
      BY <1>1, <1>4
    <2>3. registration'[q] = registration[q] \/ (q = r /\ registration'[q] = row)
      BY <2>1, <2>2
    <2>4. QED
      BY <1>4, <2>3
  <1>6. ASSUME NEW x \in EabKeys
        PROVE  /\ IsFiniteSet(MadeWith(x)')
               /\ Cardinality(MadeWith(x)') + Cardinality(AddingServers(x)') <= Cardinality(Servers)
    <2>1. PICK A \in SUBSET Servers : A = AddingServers(x)
      BY DEF AddingServers
    <2>2. PICK B \in SUBSET Servers : B = AddingServers(x)'
      BY DEF AddingServers
    <2>3. PICK M : M = MadeWith(x)
      OBVIOUS
    <2>4. PICK N : N = MadeWith(x)'
      OBVIOUS
    <2>5. IsFiniteSet(M) /\ Cardinality(M) + Cardinality(A) <= Cardinality(Servers)
      BY <2>1, <2>3 DEF ShareInv
    <2>6. Cardinality(M) \in Nat
      BY <2>5, FS_CardinalityType
    <2>7. B \in SUBSET A /\ s \notin B
      BY <1>3, <2>1, <2>2 DEF AddingServers
    <2>8. /\ Cardinality(A) \in Nat /\ Cardinality(B) \in Nat /\ Cardinality(Servers) \in Nat
          /\ Cardinality(B) <= Cardinality(A)
          /\ s \in A => Cardinality(B) + 1 <= Cardinality(A)
      BY <2>7, ServerSets
    <2>9. CASE N \subseteq M
      <3>1. IsFiniteSet(N) /\ Cardinality(N) <= Cardinality(M)
        BY <2>5, <2>9, FS_Subset
      <3>2. Cardinality(N) \in Nat
        BY <3>1, FS_CardinalityType
      <3>3. QED
        BY <2>2, <2>4, <2>5, <2>6, <2>8, <3>1, <3>2
    <2>10. CASE ~ (N \subseteq M)
      <3>1. N \subseteq M \union {r} /\ x = e
        BY <1>5, <2>3, <2>4, <2>10 DEF MadeWith
      <3>2. s \in A
        BY <1>2, <2>1, <3>1 DEF AddingServers
      <3>3. IsFiniteSet(M \union {r}) /\ Cardinality(M \union {r}) <= Cardinality(M) + 1
        BY <2>5, <2>6, FS_AddElement
      <3>4. IsFiniteSet(N) /\ Cardinality(N) <= Cardinality(M \union {r})
        BY <3>1, <3>3, FS_Subset
      <3>5. Cardinality(N) \in Nat /\ Cardinality(M \union {r}) \in Nat
        BY <3>3, <3>4, FS_CardinalityType
      <3>6. QED
        BY <2>2, <2>4, <2>5, <2>6, <2>8, <3>2, <3>3, <3>4, <3>5
    <2>11. QED
      BY <2>9, <2>10
  <1>7. QED
    BY <1>1, <1>3, <1>6, NonceShareKept DEF ShareInv

LEMMA ShareInvInit == AcmeAccountsInit => ShareInv
  <1> SUFFICES ASSUME AcmeAccountsInit PROVE ShareInv
    OBVIOUS
  <1>1. \A n \in Nonces : VerifyingServers(n) = {} /\ accepted[n] = 0
    BY DEF AcmeAccountsInit, VerifyingServers, Verifying, NoMessage
  <1>2. \A e \in EabKeys : AddingServers(e) = {} /\ MadeWith(e) = {}
    BY AcmeAccountsAssumption
    DEF AcmeAccountsInit, AddingServers, Adding, NoMessage, MadeWith, Absent
  <1>3. Cardinality(Servers) \in Nat
    BY AcmeAccountsAssumption, FS_CardinalityType
  <1>4. IsFiniteSet({}) /\ Cardinality({}) = 0
    BY FS_EmptySet
  <1>5. ASSUME NEW n \in Nonces
        PROVE  accepted[n] + Cardinality(VerifyingServers(n)) <= Cardinality(Servers)
    <2>1. accepted[n] = 0 /\ Cardinality(VerifyingServers(n)) = 0
      BY <1>1, <1>4
    <2>2. QED
      BY <1>3, <2>1
  <1>6. ASSUME NEW e \in EabKeys
        PROVE  /\ IsFiniteSet(MadeWith(e))
               /\ Cardinality(MadeWith(e)) + Cardinality(AddingServers(e)) <= Cardinality(Servers)
    <2>1. /\ IsFiniteSet(MadeWith(e)) /\ Cardinality(MadeWith(e)) = 0
          /\ Cardinality(AddingServers(e)) = 0
      BY <1>2, <1>4
    <2>2. QED
      BY <1>3, <2>1
  <1>7. QED
    BY <1>5, <1>6 DEF ShareInv

LEMMA ShareInvStep == AcmeInv /\ ShareInv /\ [AcmeAccountsNext]_acmeAccountVars => ShareInv'
  <1> SUFFICES ASSUME AcmeInv, ShareInv, [AcmeAccountsNext]_acmeAccountVars PROVE ShareInv'
    OBVIOUS
  <1>1. CASE \/ UNCHANGED acmeAccountVars
             \/ IssueNonce \/ PruneNonces \/ \E n \in Nonces : NonceAges(n)
             \/ \E e \in EabKeys : CreateEabKey(e) \/ RevokeEabKey(e)
             \/ \E enabled, requireEab \in BOOLEAN : SetAcme(enabled, requireEab)
    <2>1. UNCHANGED <<registration, message, accepted>>
      BY <1>1 DEF acmeAccountVars, IssueNonce, PruneNonces, NonceAges, CreateEabKey, RevokeEabKey,
                  SetAcme
    <2>2. QED
      BY <2>1, SharesKept DEF Verifying, Adding
  <1>2. CASE \E s \in Servers : \E n \in Nonces : Send(s, n)
    BY <1>2, ArriveShares DEF Send
  <1>3. CASE \E s \in Servers : SpendNonce(s) \/ NewAccount(s) \/ AddAccount(s)
    BY <1>3, SpendNonceShares, NewAccountShares, AddAccountShares
  <1>4. ASSUME NEW s \in Servers, Deactivate(s) \/ ChangeKey(s) \/ SetKey(s) PROVE ShareInv'
    <2>1. /\ message[s].phase # "idle" /\ UNCHANGED accepted
          /\ Leave(s) \/ Enter(s, "changing")
      BY <1>4 DEF Deactivate, ChangeKey, SetKey
    <2>2. /\ \A t \in Servers, n \in Nonces : Verifying(t, n)' => Verifying(t, n)
          /\ \A t \in Servers, e \in EabKeys : Adding(t, e)' => Adding(t, e)
      BY <2>1, NothingTaken
    <2>3. \A r \in Registrations : registration'[r].binding = registration[r].binding
      BY <1>4, AcmeTyped DEF Deactivate, ChangeKey, SetKey, RegistrationRows
    <2>4. QED
      BY <2>1, <2>2, <2>3, SharesKept
  <1>5. QED
    BY <1>1, <1>2, <1>3, <1>4 DEF AcmeAccountsNext

\* Where requests share a nonce or a binding after all (consume_nonce and new_account read, then
\* write), it lets no more of them through, and makes no more accounts, than there are servers,
\* however often it is replayed.
THEOREM SharedUseBoundedHolds == AcmeAccountsSpec => []SharedUseBounded
  <1>1. ASSUME AcmeInv, ShareInv PROVE SharedUseBounded
    <2>1. ASSUME NEW n \in Nonces PROVE accepted[n] <= Cardinality(Servers)
      <3>1. VerifyingServers(n) \in SUBSET Servers
        BY DEF VerifyingServers
      <3>2. Cardinality(VerifyingServers(n)) \in Nat /\ Cardinality(Servers) \in Nat
        BY <3>1, ServerSets
      <3>3. accepted[n] \in Nat
        BY <1>1, AcmeTyped
      <3>4. QED
        BY <1>1, <3>2, <3>3 DEF ShareInv
    <2>2. ASSUME NEW e \in EabKeys PROVE Cardinality(MadeWith(e)) <= Cardinality(Servers)
      <3>1. AddingServers(e) \in SUBSET Servers
        BY DEF AddingServers
      <3>2. Cardinality(AddingServers(e)) \in Nat /\ Cardinality(Servers) \in Nat
        BY <3>1, ServerSets
      <3>3. /\ IsFiniteSet(MadeWith(e))
            /\ Cardinality(MadeWith(e)) + Cardinality(AddingServers(e)) <= Cardinality(Servers)
        BY <1>1 DEF ShareInv
      <3>4. Cardinality(MadeWith(e)) \in Nat
        BY <3>3, FS_CardinalityType
      <3>5. QED
        BY <3>2, <3>3, <3>4
    <2>3. QED
      BY <2>1, <2>2 DEF SharedUseBounded, MadeWith
  <1>2. QED
    BY <1>1, AcmeInvInit, AcmeInvStep, ShareInvInit, ShareInvStep, PTL DEF AcmeAccountsSpec

-----------------------------------------------------------------------------
(***************************************************************************)
(* Least elements, and with them induction over a set of numbers and the   *)
(* chain of authorities above one, which Above defines by recursion.       *)
(***************************************************************************)

LEMMA LeastOf ==
    ASSUME NEW T, T \subseteq Nat, T # {}
    PROVE  \E x \in T : \A y \in T : x <= y
  <1>1. IsWellFoundedOn(OpToRel(<, Nat), Nat)
    BY NatLessThanWellFounded
  <1>2. PICK x \in T : \A y \in T : ~ (<<y, x>> \in OpToRel(<, Nat))
    BY <1>1, WFMin
  <1>3. ASSUME NEW y \in T PROVE x <= y
    <2>1. x \in Nat /\ y \in Nat
      OBVIOUS
    <2>2. <<y, x>> \in OpToRel(<, Nat) <=> y < x
      BY <2>1 DEF OpToRel
    <2>3. ~ (y < x)
      BY <1>2, <2>2
    <2>4. QED
      BY <2>1, <2>3
  <1>4. QED
    BY <1>3

LEMMA SetInduction ==
    ASSUME NEW S, 0 \in S, \A n \in Nat : n \in S => n + 1 \in S
    PROVE  Nat \subseteq S
  <1> SUFFICES ASSUME Nat \ S # {} PROVE FALSE
    OBVIOUS
  <1>1. PICK x \in Nat \ S : \A y \in Nat \ S : x <= y
    BY LeastOf
  <1>2. x # 0 /\ x - 1 \in Nat /\ ~ (x <= x - 1)
    OBVIOUS
  <1>3. x - 1 \in S
    BY <1>1, <1>2
  <1>4. (x - 1) + 1 \in S
    BY <1>2, <1>3
  <1>5. QED
    BY <1>1, <1>4

\* f tells of each number up to n which authority is that far above c.
IsChain(auth, c, n, f) ==
    f = [k \in 0..n |-> IF k = 0 THEN c
                        ELSE IF f[k - 1] = NoAuthority THEN NoAuthority
                        ELSE auth[f[k - 1]].parent]

\* The function of Above
ChainOf(auth, c) ==
    LET up[k \in 0..Cardinality(CaIds)] ==
            IF k = 0 THEN c
            ELSE IF up[k - 1] = NoAuthority THEN NoAuthority ELSE auth[up[k - 1]].parent
    IN up

LEMMA ChainExists ==
    ASSUME NEW auth, NEW c, NEW n \in Nat
    PROVE  \E f : IsChain(auth, c, n, f)
  <1> DEFINE S == {i \in Nat : \E f : IsChain(auth, c, i, f)}
  <1>1. 0 \in S
    <2> DEFINE f == [k \in 0..0 |-> c]
    <2>1. IsChain(auth, c, 0, f)
      BY DEF IsChain
    <2>2. QED
      BY <2>1
  <1>2. ASSUME NEW i \in Nat, i \in S PROVE i + 1 \in S
    <2>1. PICK f : IsChain(auth, c, i, f)
      BY <1>2
    <2> DEFINE g == [k \in 0..(i + 1) |->
                        IF k <= i THEN f[k]
                        ELSE IF f[i] = NoAuthority THEN NoAuthority ELSE auth[f[i]].parent]
    <2>2. \A k \in 0..i : f[k] = IF k = 0 THEN c
                                 ELSE IF f[k - 1] = NoAuthority THEN NoAuthority
                                 ELSE auth[f[k - 1]].parent
      BY <2>1 DEF IsChain
    <2>3. \A k \in 0..i : g[k] = f[k]
      OBVIOUS
    <2>4. g[i + 1] = IF f[i] = NoAuthority THEN NoAuthority ELSE auth[f[i]].parent
      OBVIOUS
    <2>5. DOMAIN g = 0..(i + 1) /\ g = [k \in 0..(i + 1) |-> g[k]]
      OBVIOUS
    <2> HIDE DEF g
    <2>6. ASSUME NEW k \in 0..(i + 1)
          PROVE  g[k] = IF k = 0 THEN c
                        ELSE IF g[k - 1] = NoAuthority THEN NoAuthority
                        ELSE auth[g[k - 1]].parent
      <3>1. CASE k = i + 1
        <4>1. k - 1 = i /\ k # 0 /\ g[i] = f[i]
          BY <2>3, <3>1
        <4>2. QED
          BY <2>4, <3>1, <4>1
      <3>2. CASE k = 0
        BY <2>2, <2>3, <3>2
      <3>3. CASE k # i + 1 /\ k # 0
        <4>1. k \in 0..i /\ k - 1 \in 0..i
          BY <3>3
        <4>2. g[k] = f[k] /\ g[k - 1] = f[k - 1]
          BY <2>3, <4>1
        <4>3. QED
          BY <2>2, <3>3, <4>1, <4>2
      <3>4. QED
        BY <3>1, <3>2, <3>3
    <2>7. IsChain(auth, c, i + 1, g)
      BY <2>5, <2>6 DEF IsChain
    <2>8. QED
      BY <2>7
  <1> HIDE DEF S
  <1>3. n \in S
    BY <1>1, <1>2, SetInduction
  <1>4. QED
    BY <1>3 DEF S

LEMMA HeightNat == Cardinality(CaIds) \in Nat
  BY IssuanceAssumption, FS_CardinalityType

LEMMA ChainIs ==
    ASSUME NEW auth, NEW c
    PROVE  IsChain(auth, c, Cardinality(CaIds), ChainOf(auth, c))
  <1>1. PICK f : IsChain(auth, c, Cardinality(CaIds), f)
    BY HeightNat, ChainExists
  <1>2. QED
    BY <1>1 DEF IsChain, ChainOf

LEMMA ChainAt ==
    ASSUME NEW auth, NEW c, NEW n, NEW f, IsChain(auth, c, n, f)
    PROVE  \A k \in 0..n : f[k] = IF k = 0 THEN c
                                 ELSE IF f[k - 1] = NoAuthority THEN NoAuthority
                                 ELSE auth[f[k - 1]].parent
  BY DEF IsChain

\* Step by step up the chain
LEMMA ChainSteps ==
    ASSUME NEW auth, NEW c
    PROVE  /\ ChainOf(auth, c)[0] = c
           /\ \A k \in 0..Cardinality(CaIds) : k + 1 \in 0..Cardinality(CaIds) =>
                 ChainOf(auth, c)[k + 1] =
                    IF ChainOf(auth, c)[k] = NoAuthority THEN NoAuthority
                    ELSE auth[ChainOf(auth, c)[k]].parent
  <1>0. PICK f : f = ChainOf(auth, c)
    OBVIOUS
  <1>1. \A k \in 0..Cardinality(CaIds) :
            f[k] = IF k = 0 THEN c ELSE IF f[k - 1] = NoAuthority THEN NoAuthority
                   ELSE auth[f[k - 1]].parent
    BY <1>0, ChainIs, ChainAt
  <1>2. f[0] = c
    BY <1>1, HeightNat
  <1>3. ASSUME NEW k \in 0..Cardinality(CaIds), k + 1 \in 0..Cardinality(CaIds)
        PROVE  f[k + 1] = IF f[k] = NoAuthority THEN NoAuthority ELSE auth[f[k]].parent
    <2>1. k + 1 # 0 /\ (k + 1) - 1 = k
      BY HeightNat
    <2>2. f[k + 1] = IF k + 1 = 0 THEN c
                     ELSE IF f[(k + 1) - 1] = NoAuthority THEN NoAuthority
                     ELSE auth[f[(k + 1) - 1]].parent
      BY <1>1, <1>3
    <2>3. QED
      BY <2>1, <2>2
  <1>4. QED
    BY <1>0, <1>2, <1>3

AboveIn(auth, c) ==
    {[ca |-> ChainOf(auth, c)[k], height |-> k] :
        k \in {j \in 0..Cardinality(CaIds) : ChainOf(auth, c)[j] # NoAuthority}}

LEMMA AboveIs ==
    ASSUME NEW c
    PROVE  Above(c) = AboveIn(authority, c) /\ Above(c)' = AboveIn(authority', c)
  <1> DEFINE up == ChainOf(authority, c)
             next == ChainOf(authority', c)
  <1>1. DOMAIN up = 0..Cardinality(CaIds) /\ DOMAIN next = 0..Cardinality(CaIds)
    BY ChainIs DEF IsChain
  <1>2. Above(c) = {[ca |-> up[k], height |-> k] : k \in {j \in DOMAIN up : up[j] # NoAuthority}}
    BY DEF Above, ChainOf
  <1>3. Above(c)' = {[ca |-> next[k], height |-> k] :
                        k \in {j \in DOMAIN next : next[j] # NoAuthority}}
    BY DEF Above, ChainOf
  <1>4. QED
    BY <1>1, <1>2, <1>3 DEF AboveIn

\* What never changes of an authority once it is there.
Lasting(auth, next) ==
    \A c \in CaIds : auth[c].exists =>
        /\ next[c].exists /\ next[c].parent = auth[c].parent /\ next[c].path = auth[c].path
        /\ next[c].limits = auth[c].limits /\ next[c].names = auth[c].names
        /\ next[c].imported = auth[c].imported

Rooted(auth) ==
    \A c \in CaIds : auth[c].exists =>
        \/ auth[c].parent = NoAuthority
        \/ auth[c].parent \in CaIds /\ auth[auth[c].parent].exists

LEMMA ChainLasts ==
    ASSUME NEW auth, NEW next, Rooted(auth), Lasting(auth, next), NEW c \in CaIds, auth[c].exists,
           NEW k \in 0..Cardinality(CaIds)
    PROVE  /\ ChainOf(next, c)[k] = ChainOf(auth, c)[k]
           /\ ChainOf(auth, c)[k] # NoAuthority =>
                 ChainOf(auth, c)[k] \in CaIds /\ auth[ChainOf(auth, c)[k]].exists
  <1> DEFINE Good(i) ==
                /\ ChainOf(next, c)[i] = ChainOf(auth, c)[i]
                /\ ChainOf(auth, c)[i] # NoAuthority =>
                      ChainOf(auth, c)[i] \in CaIds /\ auth[ChainOf(auth, c)[i]].exists
             S == {i \in Nat : i \in 0..Cardinality(CaIds) => Good(i)}
  <1>1. 0 \in S
    BY ChainSteps
  <1>2. ASSUME NEW i \in Nat, i \in S PROVE i + 1 \in S
    <2> SUFFICES ASSUME i + 1 \in 0..Cardinality(CaIds) PROVE Good(i + 1)
      OBVIOUS
    <2>1. i \in 0..Cardinality(CaIds)
      BY HeightNat
    <2>2. Good(i)
      BY <1>2, <2>1
    <2> DEFINE d == ChainOf(auth, c)[i]
    <2>3. ChainOf(auth, c)[i + 1] = IF d = NoAuthority THEN NoAuthority ELSE auth[d].parent
      BY <2>1, ChainSteps
    <2>4. ChainOf(next, c)[i + 1] = IF d = NoAuthority THEN NoAuthority ELSE next[d].parent
      BY <2>1, <2>2, ChainSteps
    <2>5. CASE d = NoAuthority
      BY <2>3, <2>4, <2>5
    <2>6. CASE d # NoAuthority
      <3>1. d \in CaIds /\ auth[d].exists
        BY <2>2, <2>6
      <3>2. next[d].parent = auth[d].parent
        BY <3>1 DEF Lasting
      <3>3. auth[d].parent # NoAuthority => auth[d].parent \in CaIds /\ auth[auth[d].parent].exists
        BY <3>1 DEF Rooted
      <3>4. QED
        BY <2>3, <2>4, <2>6, <3>2, <3>3
    <2>7. QED
      BY <2>5, <2>6
  <1> HIDE DEF S
  <1>3. k \in S
    BY <1>1, <1>2, SetInduction, HeightNat
  <1>4. QED
    BY <1>3 DEF S

LEMMA AboveLasts ==
    ASSUME NEW auth, NEW next, Rooted(auth), Lasting(auth, next), NEW c \in CaIds, auth[c].exists
    PROVE  /\ AboveIn(next, c) = AboveIn(auth, c)
           /\ \A a \in AboveIn(auth, c) :
                 a.ca \in CaIds /\ auth[a.ca].exists /\ a.height \in 0..Cardinality(CaIds)
  BY ChainLasts DEF AboveIn

\* The path length of an authority is below that of the one it was made by.
Budget(auth, c) ==
    auth[auth[c].parent].path # Unlimited =>
        auth[c].path # Unlimited /\ auth[c].path < auth[auth[c].parent].path

MadeHere(auth, c) == auth[c].imported => auth[c].parent = NoAuthority

\* Up a chain of authorities that were made here, path lengths grow by at least the distance.
LEMMA PathsGrow ==
    ASSUME NEW auth, Rooted(auth), NEW c \in CaIds, auth[c].exists,
           \A d \in CaIds : auth[d].path \in Paths,
           \A d \in CaIds : auth[d].exists /\ auth[d].parent # NoAuthority /\ ~ auth[d].imported =>
               Budget(auth, d),
           NEW n \in 0..Cardinality(CaIds),
           \A j \in 0..Cardinality(CaIds) : j < n /\ ChainOf(auth, c)[j] # NoAuthority =>
               MadeHere(auth, ChainOf(auth, c)[j]),
           NEW k \in 0..n, ChainOf(auth, c)[k] # NoAuthority,
           auth[ChainOf(auth, c)[k]].path # Unlimited
    PROVE  auth[c].path # Unlimited /\ auth[c].path + k <= auth[ChainOf(auth, c)[k]].path
  <1> DEFINE Limited(i) == ChainOf(auth, c)[i] # NoAuthority
                           /\ auth[ChainOf(auth, c)[i]].path # Unlimited
             Room(i) == auth[c].path # Unlimited
                        /\ auth[c].path + i <= auth[ChainOf(auth, c)[i]].path
             S == {i \in Nat : i \in 0..n /\ Limited(i) => Room(i)}
  <1>1. 0 \in S
    <2>1. ChainOf(auth, c)[0] = c
      BY ChainSteps
    <2>2. auth[c].path # Unlimited => auth[c].path \in Nat
      BY DEF Paths
    <2>3. Limited(0) => Room(0)
      BY <2>1, <2>2
    <2>4. QED
      BY <2>3
  <1>2. ASSUME NEW i \in Nat, i \in S PROVE i + 1 \in S
    <2> SUFFICES ASSUME i + 1 \in 0..n, Limited(i + 1) PROVE Room(i + 1)
      OBVIOUS
    <2>1. i \in 0..n /\ i < n /\ i \in 0..Cardinality(CaIds)
          /\ i + 1 \in 0..Cardinality(CaIds)
      BY HeightNat
    <2>2. PICK d : d = ChainOf(auth, c)[i]
      OBVIOUS
    <2>3. PICK p : p = ChainOf(auth, c)[i + 1]
      OBVIOUS
    <2>4. d # NoAuthority /\ p = auth[d].parent /\ p # NoAuthority
      BY <2>1, <2>2, <2>3, ChainSteps
    <2>5. Lasting(auth, auth)
      BY DEF Lasting
    <2>6. d \in CaIds /\ auth[d].exists /\ p \in CaIds
      <3>1. d \in CaIds /\ auth[d].exists
        BY <2>1, <2>2, <2>4, <2>5, ChainLasts
      <3>2. QED
        BY <2>4, <3>1 DEF Rooted
    <2>7. ~ auth[d].imported
      BY <2>1, <2>2, <2>4 DEF MadeHere
    <2>8. Budget(auth, d) /\ auth[p].path # Unlimited
      BY <2>3, <2>4, <2>6, <2>7
    <2>9. auth[d].path # Unlimited /\ auth[d].path < auth[p].path
      BY <2>4, <2>8 DEF Budget
    <2>10. auth[c].path # Unlimited /\ auth[c].path + i <= auth[d].path
      BY <1>2, <2>1, <2>2, <2>4, <2>9
    <2>11. auth[c].path \in Nat /\ auth[d].path \in Nat /\ auth[p].path \in Nat
      BY <2>6, <2>8, <2>9, <2>10 DEF Paths
    <2>12. auth[c].path + (i + 1) <= auth[p].path
      BY <2>9, <2>10, <2>11
    <2>13. QED
      BY <2>3, <2>10, <2>12
  <1> HIDE DEF S, Limited, Room
  <1>3. k \in S
    BY <1>1, <1>2, SetInduction, HeightNat
  <1>4. Limited(k)
    BY DEF Limited
  <1>5. QED
    BY <1>3, <1>4 DEF S, Room

LEMMA ChainShifts ==
    ASSUME NEW auth, NEW c, c # NoAuthority, NEW k \in 0..Cardinality(CaIds),
           k + 1 \in 0..Cardinality(CaIds)
    PROVE  ChainOf(auth, c)[k + 1] = ChainOf(auth, auth[c].parent)[k]
  <1> DEFINE Same(i) == ChainOf(auth, c)[i + 1] = ChainOf(auth, auth[c].parent)[i]
             S == {i \in Nat : i + 1 \in 0..Cardinality(CaIds) => Same(i)}
  <1>1. 0 \in S
    <2>1. ChainOf(auth, c)[0] = c /\ ChainOf(auth, auth[c].parent)[0] = auth[c].parent
      BY ChainSteps
    <2>2. 0 + 1 \in 0..Cardinality(CaIds) => ChainOf(auth, c)[0 + 1] = auth[c].parent
      <3>1. 0 \in 0..Cardinality(CaIds)
        BY HeightNat
      <3>2. QED
        BY <2>1, <3>1, ChainSteps
    <2>3. QED
      BY <2>1, <2>2
  <1>2. ASSUME NEW i \in Nat, i \in S PROVE i + 1 \in S
    <2> SUFFICES ASSUME (i + 1) + 1 \in 0..Cardinality(CaIds) PROVE Same(i + 1)
      OBVIOUS
    <2>1. i \in 0..Cardinality(CaIds) /\ i + 1 \in 0..Cardinality(CaIds)
      BY HeightNat
    <2>0. ChainOf(auth, c)[i + 1] = ChainOf(auth, auth[c].parent)[i]
      BY <1>2, <2>1
    <2>2. PICK d : d = ChainOf(auth, c)[i + 1]
      OBVIOUS
    <2>3. ChainOf(auth, c)[(i + 1) + 1] = IF d = NoAuthority THEN NoAuthority ELSE auth[d].parent
      BY <2>1, <2>2, ChainSteps
    <2>4. ChainOf(auth, auth[c].parent)[i + 1] =
             IF d = NoAuthority THEN NoAuthority ELSE auth[d].parent
      BY <2>0, <2>1, <2>2, ChainSteps
    <2>5. QED
      BY <2>3, <2>4
  <1> HIDE DEF S
  <1>3. k \in S
    BY <1>1, <1>2, SetInduction, HeightNat
  <1>4. QED
    BY <1>3 DEF S

EnforcedIn(auth, c, names) ==
    \A a \in AboveIn(auth, c), n \in names : Accepts(auth[a.ca].limits, n)

RoomIn(auth, c) == auth[c].path # Unlimited => auth[c].path > 0

\* What issuance sees to: of an authority, a certificate, a cross-certificate, a request in hand.
CaRight(auth, c) ==
    /\ auth[c].until < auth[c].cap + Day
    /\ auth[c].parent # NoAuthority /\ ~ auth[c].imported =>
          Budget(auth, c) /\ EnforcedIn(auth, auth[c].parent, auth[c].names)

LeafRight(auth, row) ==
    /\ row.ca \in CaIds /\ auth[row.ca].exists /\ EnforcedIn(auth, row.ca, row.names)
    /\ row.until \in Nat /\ row.cap \in Nat /\ row.until <= row.cap
    /\ row.from \in LeafIds \union {NoLeaf} /\ row.profile \in Profiles

CrossRight(auth, x) ==
    /\ x.ca \in CaIds /\ auth[x.ca].exists /\ x.issuer \in CaIds /\ auth[x.issuer].exists
    /\ RoomIn(auth, x.issuer) /\ EnforcedIn(auth, x.issuer, auth[x.ca].names)
    /\ x.path \in Paths /\ x.until \in Nat /\ x.cap \in Nat /\ x.until < x.cap + Day

ReissueRight(auth, d) ==
    /\ d.ca \in CaIds /\ auth[d.ca].exists
    /\ d.until \in Nat /\ d.cap \in Nat /\ d.until < d.cap + Day

DeskRight(auth, d) ==
    /\ d.op = "leaf" => LeafRight(auth, d.row)
    /\ d.op = "reissue" => ReissueRight(auth, d)
    /\ d.op = "cross" => CrossRight(auth, d.row)

CaFields == {"exists", "root", "parent", "path", "until", "limits", "names", "keyed", "imported",
             "allowed", "cap"}

AuthoritiesRight(auth) ==
    /\ Rooted(auth)
    /\ \A c \in CaIds : DOMAIN auth[c] = CaFields
    /\ \A c \in CaIds : auth[c].path \in Paths /\ auth[c].cap \in Nat
    /\ \A c \in CaIds : auth[c].exists => CaRight(auth, c)

IssuedInv ==
    /\ IssuanceTypeOK
    /\ DOMAIN authority = CaIds /\ DOMAIN leaf = LeafIds /\ DOMAIN desk = Clerks
    /\ AuthoritiesRight(authority)
    /\ \A l \in LeafIds : leaf[l] # NoCert => LeafRight(authority, leaf[l])
    /\ \A x \in crosses : CrossRight(authority, x)
    /\ \A w \in Clerks : DeskRight(authority, desk[w])

LEMMA ValidIn ==
    ASSUME NEW auth, AuthoritiesRight(auth), NEW c \in CaIds, auth[c].exists, NEW names,
           \A j \in 0..Cardinality(CaIds) :
               j < Cardinality(CaIds) /\ ChainOf(auth, c)[j] # NoAuthority =>
                   MadeHere(auth, ChainOf(auth, c)[j]),
           NEW depth \in {0, 1}, depth = 1 => RoomIn(auth, c), EnforcedIn(auth, c, names),
           NEW a \in AboveIn(auth, c)
    PROVE  /\ auth[a.ca].path # Unlimited => a.height + depth <= auth[a.ca].path
           /\ \A n \in names : Accepts(auth[a.ca].limits, n)
  <1>1. \A n \in names : Accepts(auth[a.ca].limits, n)
    BY DEF EnforcedIn
  <1>2. PICK k \in 0..Cardinality(CaIds) :
            /\ ChainOf(auth, c)[k] # NoAuthority
            /\ a.ca = ChainOf(auth, c)[k] /\ a.height = k
    BY DEF AboveIn
  <1>3. ASSUME auth[a.ca].path # Unlimited PROVE a.height + depth <= auth[a.ca].path
    <2>1. auth[c].path # Unlimited /\ auth[c].path + k <= auth[a.ca].path
      <3>1. \A d \in CaIds : auth[d].exists /\ auth[d].parent # NoAuthority /\ ~ auth[d].imported =>
               Budget(auth, d)
        BY DEF AuthoritiesRight, CaRight
      <3>2. Rooted(auth) /\ \A d \in CaIds : auth[d].path \in Paths
        BY DEF AuthoritiesRight
      <3>3. Cardinality(CaIds) \in 0..Cardinality(CaIds)
        BY HeightNat
      <3>4. auth[ChainOf(auth, c)[k]].path # Unlimited
        BY <1>2, <1>3
      <3>5. auth[c].path # Unlimited /\ auth[c].path + k <= auth[ChainOf(auth, c)[k]].path
        BY <1>2, <3>1, <3>2, <3>3, <3>4, PathsGrow
      <3>6. QED
        BY <1>2, <3>5
    <2>2. a.ca \in CaIds
      <3>1. Lasting(auth, auth) /\ Rooted(auth)
        BY DEF Lasting, AuthoritiesRight
      <3>2. QED
        BY <3>1, AboveLasts
    <2>3. auth[c].path \in Nat /\ auth[a.ca].path \in Nat
      BY <1>3, <2>1, <2>2 DEF AuthoritiesRight, Paths
    <2>4. auth[c].path >= depth
      BY <2>1, <2>3 DEF RoomIn
    <2>5. k \in Nat /\ depth \in Nat
      BY HeightNat
    <2>6. QED
      BY <1>2, <2>1, <2>3, <2>4, <2>5
  <1>4. QED
    BY <1>1, <1>3

LEMMA BuiltAbove ==
    ASSUME NEW c, BuiltHere(c)
    PROVE  \A j \in 0..Cardinality(CaIds) : ChainOf(authority, c)[j] # NoAuthority =>
               MadeHere(authority, ChainOf(authority, c)[j])
  <1>1. \A a \in AboveIn(authority, c) : MadeHere(authority, a.ca)
    BY AboveIs DEF BuiltHere, MadeHere
  <1>2. ASSUME NEW j \in 0..Cardinality(CaIds), ChainOf(authority, c)[j] # NoAuthority
        PROVE  MadeHere(authority, ChainOf(authority, c)[j])
    <2>1. [ca |-> ChainOf(authority, c)[j], height |-> j] \in AboveIn(authority, c)
      BY <1>2 DEF AboveIn
    <2>2. QED
      BY <1>1, <2>1
  <1>3. QED
    BY <1>2

LEMMA IssuedInvVerifies == IssuedInv => ChainsVerify
  <1> SUFFICES ASSUME IssuedInv PROVE ChainsVerify
    OBVIOUS
  <1>0. AuthoritiesRight(authority) /\ Rooted(authority)
    BY DEF IssuedInv, AuthoritiesRight
  <1>1. ASSUME NEW c \in CaIds, authority[c].exists, BuiltHere(c),
               authority[c].parent # NoAuthority
        PROVE  Validates(authority[c].parent, 1, authority[c].names)
    <2>1. PICK p : p = authority[c].parent
      OBVIOUS
    <2>2. p \in CaIds /\ authority[p].exists
      BY <1>0, <1>1, <2>1 DEF Rooted
    <2>3. MadeHere(authority, c)
      <3>1. ChainOf(authority, c)[0] = c /\ 0 \in 0..Cardinality(CaIds) /\ c # NoAuthority
        BY ChainSteps, HeightNat, IssuanceAssumption
      <3>2. QED
        BY <1>1, <3>1, BuiltAbove
    <2>4. Budget(authority, c) /\ EnforcedIn(authority, p, authority[c].names)
      BY <1>0, <1>1, <2>1, <2>3 DEF AuthoritiesRight, CaRight, MadeHere
    <2>5. RoomIn(authority, p)
      BY <1>0, <2>1, <2>2, <2>4 DEF AuthoritiesRight, Budget, RoomIn, Paths
    <2>6. ASSUME NEW j \in 0..Cardinality(CaIds), j < Cardinality(CaIds),
                 ChainOf(authority, p)[j] # NoAuthority
          PROVE  MadeHere(authority, ChainOf(authority, p)[j])
      <3>1. j + 1 \in 0..Cardinality(CaIds) /\ c # NoAuthority
        BY <2>6, HeightNat, IssuanceAssumption
      <3>2. ChainOf(authority, c)[j + 1] = ChainOf(authority, p)[j]
        BY <2>1, <3>1, ChainShifts
      <3>3. QED
        BY <1>1, <2>6, <3>1, <3>2, BuiltAbove
    <2>7. \A a \in AboveIn(authority, p) :
             /\ authority[a.ca].path # Unlimited => a.height + 1 <= authority[a.ca].path
             /\ \A n \in authority[c].names : Accepts(authority[a.ca].limits, n)
      BY <1>0, <2>2, <2>4, <2>5, <2>6, ValidIn
    <2>8. QED
      BY <2>1, <2>7, AboveIs DEF Validates
  <1>2. ASSUME NEW c \in CaIds, authority[c].exists
        PROVE  authority[c].until < authority[c].cap + Day
    BY <1>0, <1>2 DEF AuthoritiesRight, CaRight
  <1>3. ASSUME NEW c \in CaIds, authority[c].exists, BuiltHere(c), NEW depth \in {0, 1},
               depth = 1 => RoomIn(authority, c), NEW names, EnforcedIn(authority, c, names)
        PROVE  Validates(c, depth, names)
    <2>1. \A a \in AboveIn(authority, c) :
             /\ authority[a.ca].path # Unlimited => a.height + depth <= authority[a.ca].path
             /\ \A n \in names : Accepts(authority[a.ca].limits, n)
      BY <1>0, <1>3, BuiltAbove, ValidIn
    <2>2. QED
      BY <2>1, AboveIs DEF Validates
  <1>4. ASSUME NEW l \in LeafIds, leaf[l] # NoCert
        PROVE  /\ BuiltHere(leaf[l].ca) => Validates(leaf[l].ca, 0, leaf[l].names)
               /\ leaf[l].until <= leaf[l].cap
    <2>1. LeafRight(authority, leaf[l])
      BY <1>4 DEF IssuedInv
    <2>2. QED
      BY <1>3, <2>1 DEF LeafRight
  <1>5. ASSUME NEW x \in crosses
        PROVE  /\ BuiltHere(x.issuer) => Validates(x.issuer, 1, authority[x.ca].names)
               /\ x.until < x.cap + Day
    <2>1. CrossRight(authority, x)
      BY <1>5 DEF IssuedInv
    <2>2. QED
      BY <1>3, <2>1 DEF CrossRight
  <1>6. QED
    BY <1>1, <1>2, <1>4, <1>5 DEF ChainsVerify

-----------------------------------------------------------------------------
(* What the arithmetic of issuance returns *)

LEMMA IssuanceConstants ==
    /\ Day = 2 /\ DayChoices \subseteq Nat \ {0} /\ NameChoices \subseteq SUBSET Names
    /\ MaxOrders \in Nat /\ LastHalfDay \in Nat /\ NoAuthority \notin CaIds
    /\ \A ask \in CaRequests \union CaImports : ask.path \in Paths
    /\ \A ask \in CaRequests : ask.names \subseteq Names
  BY IssuanceAssumption DEF Day, Paths

LEMMA ClampPathBelow ==
    ASSUME NEW wanted \in Paths, NEW parent \in Paths, parent # Unlimited => parent > 0
    PROVE  /\ ClampPath(wanted, parent) \in Paths
           /\ parent # Unlimited => /\ ClampPath(wanted, parent) # Unlimited
                                    /\ ClampPath(wanted, parent) < parent
  <1>1. CASE parent = Unlimited
    BY <1>1 DEF ClampPath
  <1>2. CASE parent # Unlimited
    <2>1. parent \in Nat /\ parent - 1 \in Nat /\ parent - 1 < parent
      BY <1>2 DEF Paths
    <2>2. \A x \in Nat : x # Unlimited
      BY IssuanceAssumption
    <2>3. ClampPath(wanted, parent) \in Nat /\ ClampPath(wanted, parent) < parent
      <3>1. CASE wanted = Unlimited
        BY <1>2, <2>1, <3>1 DEF ClampPath
      <3>2. CASE wanted # Unlimited
        BY <1>2, <2>1, <3>2 DEF ClampPath, Paths
      <3>3. QED
        BY <3>1, <3>2
    <2>4. QED
      BY <1>2, <2>2, <2>3 DEF Paths
  <1>3. QED
    BY <1>1, <1>2

LEMMA BoundedBelow ==
    ASSUME today \in Nat, NEW days \in Nat, NEW cap \in Nat
    PROVE  BoundedNotAfter(days, cap) \in Nat /\ BoundedNotAfter(days, cap) <= cap
  BY DEF BoundedNotAfter, Day

\* By less than a day past the cap
LEMMA ClampedBelow ==
    ASSUME today \in Nat, NEW days \in Nat, NEW cap \in Nat, today < cap
    PROVE  /\ today + Day * ClampedDays(days, cap) \in Nat
           /\ today + Day * ClampedDays(days, cap) < cap + Day
  <1> DEFINE left == (cap - today) \div Day
             most == IF left > 1 THEN left ELSE 1
  <1>1. cap - today \in Nat
    OBVIOUS
  <1>2. left \in Int /\ 2 * left <= cap - today
    BY <1>1 DEF Day
  <1>3. ClampedDays(days, cap) = IF days < most THEN days ELSE most
    BY DEF ClampedDays
  <1> HIDE DEF left
  <1>4. most \in Nat /\ 2 * most < (cap - today) + 2
    BY <1>1, <1>2
  <1> HIDE DEF most
  <1>5. ClampedDays(days, cap) \in Nat /\ ClampedDays(days, cap) <= most
    BY <1>3, <1>4
  <1>6. QED
    BY <1>4, <1>5 DEF Day

LEMMA EnforceIs ==
    ASSUME NEW c, NEW names
    PROVE  Enforce(c, names) <=> EnforcedIn(authority, c, names)
  BY AboveIs DEF Enforce, EnforcedIn

-----------------------------------------------------------------------------
(* What is right stays right while authorities last. *)

LEMMA RightLasts ==
    ASSUME NEW auth, NEW next, Rooted(auth), Lasting(auth, next)
    PROVE  /\ \A row : LeafRight(auth, row) => LeafRight(next, row)
           /\ \A x : CrossRight(auth, x) => CrossRight(next, x)
           /\ \A d : ReissueRight(auth, d) => ReissueRight(next, d)
           /\ \A d : DeskRight(auth, d) => DeskRight(next, d)
  <1>1. ASSUME NEW c \in CaIds, auth[c].exists, NEW names, EnforcedIn(auth, c, names)
        PROVE  EnforcedIn(next, c, names)
    BY <1>1, AboveLasts DEF EnforcedIn, Lasting
  <1>2. ASSUME NEW row, LeafRight(auth, row) PROVE LeafRight(next, row)
    <2>1. row.ca \in CaIds /\ auth[row.ca].exists /\ EnforcedIn(auth, row.ca, row.names)
      BY <1>2 DEF LeafRight
    <2>2. next[row.ca].exists /\ EnforcedIn(next, row.ca, row.names)
      BY <1>1, <2>1 DEF Lasting
    <2>3. QED
      BY <1>2, <2>2 DEF LeafRight
  <1>3. ASSUME NEW x, CrossRight(auth, x) PROVE CrossRight(next, x)
    <2>1. /\ x.ca \in CaIds /\ auth[x.ca].exists /\ x.issuer \in CaIds /\ auth[x.issuer].exists
          /\ RoomIn(auth, x.issuer) /\ EnforcedIn(auth, x.issuer, auth[x.ca].names)
      BY <1>3 DEF CrossRight
    <2>2. next[x.ca].exists /\ next[x.issuer].exists /\ next[x.ca].names = auth[x.ca].names
          /\ RoomIn(next, x.issuer)
      BY <2>1 DEF Lasting, RoomIn
    <2>3. EnforcedIn(next, x.issuer, next[x.ca].names)
      BY <1>1, <2>1, <2>2
    <2>4. QED
      BY <1>3, <2>2, <2>3 DEF CrossRight
  <1>4. ASSUME NEW d, ReissueRight(auth, d) PROVE ReissueRight(next, d)
    BY <1>4 DEF ReissueRight, Lasting
  <1>5. ASSUME NEW d, DeskRight(auth, d) PROVE DeskRight(next, d)
    BY <1>2, <1>3, <1>4, <1>5 DEF DeskRight
  <1>6. QED
    BY <1>2, <1>3, <1>4, <1>5

\* A step that changes nothing of an authority but its dates and what it may issue under.
LEMMA DatesChange ==
    ASSUME NEW auth, NEW next, AuthoritiesRight(auth),
           \A c \in CaIds :
              /\ DOMAIN next[c] = CaFields
              /\ next[c].exists = auth[c].exists /\ next[c].parent = auth[c].parent
              /\ next[c].path = auth[c].path /\ next[c].limits = auth[c].limits
              /\ next[c].names = auth[c].names /\ next[c].imported = auth[c].imported
              /\ next[c].cap \in Nat
              /\ next[c].exists => next[c].until < next[c].cap + Day
    PROVE  AuthoritiesRight(next) /\ Lasting(auth, next)
  <1>1. Lasting(auth, next) /\ Rooted(auth)
    BY DEF Lasting, AuthoritiesRight
  <1>2. Rooted(next)
    BY <1>1 DEF Rooted
  <1>3. \A c \in CaIds : /\ DOMAIN next[c] = CaFields
                         /\ next[c].path \in Paths /\ next[c].cap \in Nat
    BY DEF AuthoritiesRight
  <1>4. ASSUME NEW c \in CaIds, next[c].exists PROVE CaRight(next, c)
    <2>1. CaRight(auth, c)
      BY <1>4 DEF AuthoritiesRight
    <2>2. ASSUME next[c].parent # NoAuthority, ~ next[c].imported
          PROVE  Budget(next, c) /\ EnforcedIn(next, next[c].parent, next[c].names)
      <3>1. PICK p : p = auth[c].parent
        OBVIOUS
      <3>2. p \in CaIds /\ auth[p].exists
        BY <1>1, <1>4, <2>2, <3>1 DEF Rooted
      <3>3. Budget(auth, c) /\ EnforcedIn(auth, p, auth[c].names)
        BY <2>1, <2>2, <3>1 DEF CaRight
      <3>4. Budget(next, c)
        BY <3>1, <3>2, <3>3 DEF Budget
      <3>5. EnforcedIn(next, p, auth[c].names)
        BY <1>1, <3>2, <3>3, AboveLasts DEF EnforcedIn, Lasting
      <3>6. QED
        BY <3>1, <3>4, <3>5
    <2>3. QED
      BY <1>4, <2>2 DEF CaRight
  <1>5. QED
    BY <1>1, <1>2, <1>3, <1>4 DEF AuthoritiesRight

\* Of the row of a new authority
NewRight(auth, row) ==
    /\ DOMAIN row = CaFields
    /\ row.exists /\ (row.parent = NoAuthority \/ (row.parent \in CaIds /\ auth[row.parent].exists))
    /\ row.path \in Paths /\ row.cap \in Nat /\ row.until < row.cap + Day
    /\ row.parent # NoAuthority /\ ~ row.imported =>
          /\ auth[row.parent].path # Unlimited =>
                row.path # Unlimited /\ row.path < auth[row.parent].path
          /\ EnforcedIn(auth, row.parent, row.names)

LEMMA AuthorityAdded ==
    ASSUME NEW auth, NEW next, AuthoritiesRight(auth), NEW new \in CaIds, ~ auth[new].exists,
           NewRight(auth, next[new]), \A c \in CaIds \ {new} : next[c] = auth[c]
    PROVE  AuthoritiesRight(next) /\ Lasting(auth, next)
  <1>1. Lasting(auth, next) /\ Rooted(auth)
    BY DEF Lasting, AuthoritiesRight
  <1>2. Rooted(next)
    BY <1>1 DEF Rooted, NewRight, Lasting
  <1>3. \A c \in CaIds : /\ DOMAIN next[c] = CaFields
                         /\ next[c].path \in Paths /\ next[c].cap \in Nat
    BY DEF AuthoritiesRight, NewRight
  <1>4. ASSUME NEW c \in CaIds, next[c].exists PROVE CaRight(next, c)
    <2>1. next[c].until < next[c].cap + Day
      BY <1>4 DEF AuthoritiesRight, CaRight, NewRight
    <2>2. ASSUME next[c].parent # NoAuthority, ~ next[c].imported
          PROVE  Budget(next, c) /\ EnforcedIn(next, next[c].parent, next[c].names)
      <3>1. PICK p : p = next[c].parent
        OBVIOUS
      <3>2. p \in CaIds /\ auth[p].exists /\ p # new
        BY <1>1, <1>4, <2>2, <3>1 DEF Rooted, NewRight
      <3>3. /\ auth[p].path # Unlimited => next[c].path # Unlimited /\ next[c].path < auth[p].path
            /\ EnforcedIn(auth, p, next[c].names)
        <4>1. CASE c = new
          BY <2>2, <3>1, <4>1 DEF NewRight
        <4>2. CASE c # new
          <5>1. next[c] = auth[c] /\ CaRight(auth, c)
            BY <1>4, <4>2 DEF AuthoritiesRight
          <5>2. QED
            BY <2>2, <3>1, <5>1 DEF CaRight, Budget
        <4>3. QED
          BY <4>1, <4>2
      <3>4. Budget(next, c)
        BY <3>1, <3>2, <3>3 DEF Budget
      <3>5. EnforcedIn(next, p, next[c].names)
        BY <1>1, <3>2, <3>3, AboveLasts DEF EnforcedIn, Lasting
      <3>6. QED
        BY <3>1, <3>4, <3>5
    <2>3. QED
      BY <2>1, <2>2 DEF CaRight
  <1>5. QED
    BY <1>1, <1>2, <1>3, <1>4 DEF AuthoritiesRight

\* The invariant after a step, told of what the step changes.
LEMMA IssuedKept ==
    ASSUME IssuedInv, DOMAIN authority' = CaIds, DOMAIN leaf' = LeafIds, DOMAIN desk' = Clerks,
           AuthoritiesRight(authority'), Lasting(authority, authority'),
           \A c \in CaIds : /\ authority'[c].parent \in CaIds \union {NoAuthority}
                            /\ authority'[c].until \in Nat /\ authority'[c].names \subseteq Names
                            /\ authority'[c].allowed \subseteq Profiles,
           \A l \in LeafIds : leaf'[l] = leaf[l] \/ LeafRight(authority, leaf'[l]),
           \A x \in crosses' : x \in crosses \/ CrossRight(authority, x),
           \A w \in Clerks : desk'[w] = desk[w] \/ DeskRight(authority, desk'[w]),
           today' \in 0..LastHalfDay, orders' \in 0..MaxOrders, overtaken' \in BOOLEAN
    PROVE  IssuedInv'
  <1>1. Rooted(authority)
    BY DEF IssuedInv, AuthoritiesRight
  <1>2. ASSUME NEW l \in LeafIds PROVE leaf'[l] # NoCert => LeafRight(authority', leaf'[l])
    BY <1>1, RightLasts DEF IssuedInv
  <1>3. ASSUME NEW x \in crosses' PROVE CrossRight(authority', x)
    BY <1>1, RightLasts DEF IssuedInv
  <1>4. ASSUME NEW w \in Clerks PROVE DeskRight(authority', desk'[w])
    BY <1>1, RightLasts DEF IssuedInv
  <1>5. IssuanceTypeOK'
    <2>1. \A c \in CaIds : authority'[c].path \in Paths
      BY DEF AuthoritiesRight
    <2>2. \A l \in LeafIds : /\ leaf'[l].ca \in CaIds \union {NoAuthority}
                             /\ leaf'[l].from \in LeafIds \union {NoLeaf}
                             /\ leaf'[l].until \in Nat
      BY DEF IssuedInv, IssuanceTypeOK, LeafRight
    <2>3. \A x \in crosses' : x.ca \in CaIds /\ x.issuer \in CaIds /\ x.path \in Paths
      BY <1>3 DEF CrossRight
    <2>4. QED
      BY <2>1, <2>2, <2>3 DEF IssuanceTypeOK
  <1>6. QED
    BY <1>2, <1>3, <1>4, <1>5 DEF IssuedInv

LEMMA IssuanceTyped ==
    ASSUME IssuedInv
    PROVE  /\ today \in Nat /\ today \in 0..LastHalfDay /\ orders \in 0..MaxOrders
           /\ overtaken \in BOOLEAN /\ Rooted(authority) /\ AuthoritiesRight(authority)
           /\ DOMAIN authority = CaIds /\ DOMAIN leaf = LeafIds /\ DOMAIN desk = Clerks
           /\ \A c \in CaIds : /\ authority[c].parent \in CaIds \union {NoAuthority}
                               /\ authority[c].path \in Paths /\ authority[c].until \in Nat
                               /\ authority[c].names \subseteq Names
                               /\ authority[c].allowed \subseteq Profiles
  BY IssuanceConstants DEF IssuedInv, IssuanceTypeOK, AuthoritiesRight

LEMMA NothingChanged ==
    ASSUME IssuedInv
    PROVE  Lasting(authority, authority)
  BY DEF Lasting

\* A request that is taken in hand
LEMMA KeepsTake ==
    ASSUME IssuedInv, orders < MaxOrders, NEW w, w \in Clerks, NEW work, Take(w, work),
           DeskRight(authority, work)
    PROVE  IssuedInv'
  <1>1. /\ orders' = orders + 1 /\ desk' = [desk EXCEPT ![w] = work]
        /\ UNCHANGED <<authority, leaf, crosses, profile, today, overtaken>>
    BY DEF Take, Decision
  <1>2. orders' \in 0..MaxOrders
    BY <1>1, IssuanceTyped, IssuanceConstants
  <1>3. DOMAIN desk' = Clerks
        /\ \A v \in Clerks : desk'[v] = desk[v] \/ DeskRight(authority, desk'[v])
    BY <1>1, IssuanceTyped
  <1>4. AuthoritiesRight(authority') /\ Lasting(authority, authority')
    BY <1>1, IssuanceTyped, NothingChanged
  <1>5. QED
    BY <1>1, <1>2, <1>3, <1>4, IssuanceTyped, IssuedKept

LEMMA KeepsAddCa ==
    ASSUME IssuedInv, orders < MaxOrders, NEW row, AddCa(row), NewRight(authority, row),
           row.until \in Nat, row.names \subseteq Names, row.allowed \subseteq Profiles
    PROVE  IssuedInv'
  <1>0. PICK new \in CaIds : /\ ~ authority[new].exists
                             /\ authority' = [authority EXCEPT ![new] = row]
    BY DEF AddCa
  <1>1. orders' = orders + 1 /\ UNCHANGED <<leaf, crosses, profile, today, desk, overtaken>>
    BY DEF AddCa, Decision
  <1>2. orders' \in 0..MaxOrders
    BY <1>1, IssuanceTyped, IssuanceConstants
  <1>3. DOMAIN authority' = CaIds /\ authority'[new] = row
        /\ \A c \in CaIds \ {new} : authority'[c] = authority[c]
    BY <1>0, IssuanceTyped
  <1>4. AuthoritiesRight(authority') /\ Lasting(authority, authority')
    BY <1>0, <1>3, IssuanceTyped, AuthorityAdded
  <1>5. \A c \in CaIds : /\ authority'[c].parent \in CaIds \union {NoAuthority}
                         /\ authority'[c].until \in Nat /\ authority'[c].names \subseteq Names
                         /\ authority'[c].allowed \subseteq Profiles
    BY <1>3, IssuanceTyped DEF NewRight
  <1>6. QED
    BY <1>1, <1>2, <1>3, <1>4, <1>5, IssuanceTyped, IssuedKept

LEMMA KeepsCreateRoot ==
    ASSUME IssuedInv, orders < MaxOrders, NEW ask \in CaRequests, NEW days \in DayChoices,
           CreateRoot(ask, days)
    PROVE  IssuedInv'
  <1> DEFINE row == [NoCa EXCEPT !.exists = TRUE, !.root = TRUE, !.path = ask.path,
                          !.limits = ask.limits, !.names = ask.names, !.keyed = TRUE,
                          !.until = today + days * Day, !.cap = today + days * Day]
  <1>1. AddCa(row)
    BY DEF CreateRoot
  <1>2. /\ DOMAIN row = CaFields
        /\ row.exists /\ row.parent = NoAuthority /\ row.path = ask.path /\ row.names = ask.names
        /\ row.until = today + days * Day /\ row.cap = today + days * Day
        /\ row.allowed = Profiles /\ row.imported = FALSE
    BY DEF NoCa, CaFields
  <1> HIDE DEF row
  <1>3. row.until \in Nat /\ row.cap \in Nat /\ row.until < row.cap + Day
    BY <1>2, IssuanceTyped, IssuanceConstants
  <1>4. NewRight(authority, row)
    BY <1>2, <1>3, IssuanceConstants DEF NewRight
  <1>5. QED
    BY <1>1, <1>2, <1>3, <1>4, IssuanceConstants, KeepsAddCa

LEMMA RoomBelow ==
    ASSUME IssuedInv, NEW c \in CaIds, HasRoom(c)
    PROVE  RoomIn(authority, c)
  BY DEF HasRoom, RoomIn

LEMMA KeepsCreateIntermediate ==
    ASSUME IssuedInv, orders < MaxOrders, NEW p \in CaIds, NEW ask \in CaRequests,
           NEW days \in DayChoices, CreateIntermediate(p, ask, days)
    PROVE  IssuedInv'
  <1> DEFINE row == [NoCa EXCEPT !.exists = TRUE, !.parent = p, !.limits = ask.limits,
                          !.path = ClampPath(ask.path, authority[p].path),
                          !.names = ask.names, !.keyed = TRUE,
                          !.until = BoundedNotAfter(days, authority[p].until),
                          !.cap = authority[p].until]
  <1>1. AddCa(row) /\ CanSign(p) /\ HasRoom(p) /\ Enforce(p, ask.names)
    BY DEF CreateIntermediate
  <1>2. /\ DOMAIN row = CaFields
        /\ row.exists /\ row.parent = p /\ row.path = ClampPath(ask.path, authority[p].path)
        /\ row.names = ask.names /\ row.until = BoundedNotAfter(days, authority[p].until)
        /\ row.cap = authority[p].until /\ row.allowed = Profiles
    BY DEF NoCa, CaFields
  <1> HIDE DEF row
  <1>3. row.until \in Nat /\ row.cap \in Nat /\ row.until <= row.cap
    <2>1. days \in Nat /\ authority[p].until \in Nat /\ today \in Nat
      BY IssuanceTyped, IssuanceConstants
    <2>2. QED
      BY <1>2, <2>1, BoundedBelow
  <1>4. row.path \in Paths /\ (authority[p].path # Unlimited =>
                                  row.path # Unlimited /\ row.path < authority[p].path)
    BY <1>1, <1>2, IssuanceTyped, IssuanceConstants, ClampPathBelow DEF HasRoom
  <1>5. EnforcedIn(authority, p, row.names)
    BY <1>1, <1>2, EnforceIs
  <1>6. NewRight(authority, row)
    <2>1. row.until < row.cap + Day
      BY <1>3, IssuanceConstants
    <2>2. authority[p].exists
      BY <1>1 DEF CanSign
    <2>3. QED
      BY <1>2, <1>3, <1>4, <1>5, <2>1, <2>2 DEF NewRight
  <1>7. QED
    BY <1>1, <1>2, <1>3, <1>6, IssuanceConstants, KeepsAddCa

LEMMA KeepsImportCa ==
    ASSUME IssuedInv, orders < MaxOrders, NEW p \in CaIds \union {NoAuthority},
           NEW root \in BOOLEAN, NEW ask \in CaImports, NEW days \in DayChoices,
           ImportCa(p, root, ask, days)
    PROVE  IssuedInv'
  <1> DEFINE row == [NoCa EXCEPT !.exists = TRUE, !.root = root, !.parent = p,
                          !.path = ask.path, !.limits = ask.limits, !.keyed = ask.keyed,
                          !.imported = TRUE, !.until = today + days * Day,
                          !.cap = today + days * Day]
  <1>1. AddCa(row) /\ (p # NoAuthority => authority[p].exists)
    BY DEF ImportCa
  <1>2. /\ DOMAIN row = CaFields
        /\ row.exists /\ row.parent = p /\ row.path = ask.path /\ row.names = {}
        /\ row.until = today + days * Day /\ row.cap = today + days * Day
        /\ row.allowed = Profiles /\ row.imported
    BY DEF NoCa, CaFields
  <1> HIDE DEF row
  <1>3. row.until \in Nat /\ row.cap \in Nat /\ row.until < row.cap + Day
    BY <1>2, IssuanceTyped, IssuanceConstants
  <1>4. NewRight(authority, row)
    BY <1>1, <1>2, <1>3, IssuanceConstants DEF NewRight
  <1>5. QED
    BY <1>1, <1>2, <1>3, <1>4, KeepsAddCa

LEMMA KeepsReissue ==
    ASSUME IssuedInv, orders < MaxOrders, NEW w \in Clerks, NEW c \in CaIds,
           NEW days \in DayChoices, Reissue(w, c, days)
    PROVE  IssuedInv'
  <1>1. PICK p, cap, until :
           /\ p = authority[c].parent
           /\ cap = IF p = NoAuthority THEN today + days * Day ELSE authority[p].until
           /\ until = today + Day * IF p = NoAuthority THEN days ELSE ClampedDays(days, cap)
    OBVIOUS
  <1>2. /\ authority[c].exists /\ (p # NoAuthority => CanSign(p))
        /\ Take(w, [op |-> "reissue", ca |-> c, cap |-> cap, until |-> until])
    BY <1>1 DEF Reissue
  <1>3. until \in Nat /\ cap \in Nat /\ until < cap + Day
    <2>1. CASE p = NoAuthority
      BY <1>1, <2>1, IssuanceTyped, IssuanceConstants
    <2>2. CASE p # NoAuthority
      <3>1. p \in CaIds /\ cap = authority[p].until /\ cap \in Nat /\ today < cap
        BY <1>1, <1>2, <2>2, IssuanceTyped DEF CanSign
      <3>2. until = today + Day * ClampedDays(days, cap)
        BY <1>1, <2>2
      <3>3. QED
        BY <3>1, <3>2, IssuanceTyped, IssuanceConstants, ClampedBelow
    <2>3. QED
      BY <2>1, <2>2
  <1>4. DeskRight(authority, [op |-> "reissue", ca |-> c, cap |-> cap, until |-> until])
    BY <1>2, <1>3 DEF DeskRight, ReissueRight
  <1>5. QED
    BY <1>2, <1>4, KeepsTake

LEMMA KeepsCrossSign ==
    ASSUME IssuedInv, orders < MaxOrders, NEW w \in Clerks, NEW c \in CaIds, NEW p \in CaIds,
           NEW days \in DayChoices, CrossSign(w, c, p, days)
    PROVE  IssuedInv'
  <1> DEFINE row == [ca |-> c, issuer |-> p,
                     path |-> ClampPath(authority[c].path, authority[p].path),
                     until |-> today + Day * ClampedDays(days, authority[p].until),
                     cap |-> authority[p].until]
  <1>1. /\ authority[c].exists /\ CanSign(p) /\ HasRoom(p) /\ Enforce(p, authority[c].names)
        /\ Take(w, [op |-> "cross", row |-> row])
    BY DEF CrossSign
  <1>2. /\ row.ca = c /\ row.issuer = p /\ row.cap = authority[p].until
        /\ row.path = ClampPath(authority[c].path, authority[p].path)
        /\ row.until = today + Day * ClampedDays(days, authority[p].until)
    OBVIOUS
  <1> HIDE DEF row
  <1>3. row.until \in Nat /\ row.cap \in Nat /\ row.until < row.cap + Day
    <2>1. authority[p].until \in Nat /\ today < authority[p].until /\ days \in Nat
      BY <1>1, IssuanceTyped, IssuanceConstants DEF CanSign
    <2>2. QED
      BY <1>2, <2>1, IssuanceTyped, ClampedBelow
  <1>4. row.path \in Paths
    BY <1>1, <1>2, IssuanceTyped, ClampPathBelow DEF HasRoom
  <1>5. CrossRight(authority, row)
    BY <1>1, <1>2, <1>3, <1>4, RoomBelow, EnforceIs DEF CrossRight, CanSign
  <1>6. DeskRight(authority, [op |-> "cross", row |-> row])
    BY <1>5 DEF DeskRight
  <1>7. QED
    BY <1>1, <1>6, KeepsTake

\* The row of a certificate: what IssuedRow gives and what is added to it
LEMMA IssuedRight ==
    ASSUME IssuedInv, NEW c \in CaIds, CanSign(c), NEW names, Enforce(c, names),
           NEW days \in DayChoices, NEW row, row.ca = c, row.names = names,
           row.until = IssuedRow(c, names, days).until, row.cap = authority[c].until,
           row.from \in LeafIds \union {NoLeaf}, row.profile \in Profiles, NEW basis
    PROVE  DeskRight(authority, [op |-> "leaf", row |-> row, basis |-> basis])
  <1>1. row.until = BoundedNotAfter(days, authority[c].until)
    BY DEF IssuedRow, NoCert
  <1>2. row.until \in Nat /\ row.cap \in Nat /\ row.until <= row.cap
    <2>1. days \in Nat /\ authority[c].until \in Nat /\ today \in Nat
      BY IssuanceTyped, IssuanceConstants
    <2>2. QED
      BY <1>1, <2>1, BoundedBelow
  <1>3. LeafRight(authority, row)
    BY <1>2, EnforceIs DEF LeafRight, CanSign
  <1>4. QED
    BY <1>3 DEF DeskRight

LEMMA KeepsIssue ==
    ASSUME IssuedInv, orders < MaxOrders, NEW w \in Clerks, NEW c \in CaIds,
           NEW names \in NameChoices, NEW days \in DayChoices, NEW p \in Profiles,
           Issue(w, c, names, days, p)
    PROVE  IssuedInv'
  <1> DEFINE row == [IssuedRow(c, names, days) EXCEPT !.profile = p]
  <1>1. CanSign(c) /\ Enforce(c, names)
        /\ Take(w, [op |-> "leaf", row |-> row, basis |-> Basis(row)])
    BY DEF Issue
  <1>2. /\ row.ca = c /\ row.names = names /\ row.until = IssuedRow(c, names, days).until
        /\ row.cap = authority[c].until /\ row.from = NoLeaf /\ row.profile = p
    BY DEF IssuedRow, NoCert
  <1> HIDE DEF row
  <1>3. DeskRight(authority, [op |-> "leaf", row |-> row, basis |-> Basis(row)])
    BY <1>1, <1>2, IssuedRight
  <1>4. QED
    BY <1>1, <1>3, KeepsTake

LEMMA KeepsRenew ==
    ASSUME IssuedInv, orders < MaxOrders, NEW w \in Clerks, NEW l \in LeafIds,
           NEW days \in DayChoices, NEW force \in BOOLEAN, Renew(w, l, days, force)
    PROVE  IssuedInv'
  <1>0. PICK old : old = leaf[l]
    OBVIOUS
  <1> DEFINE row == [IssuedRow(old.ca, old.names, days) EXCEPT !.profile = old.profile,
                                                            !.from = l, !.forced = force]
  <1>1. old # NoCert /\ CanSign(old.ca) /\ Enforce(old.ca, old.names)
        /\ Take(w, [op |-> "leaf", row |-> row, basis |-> Basis(row)])
    BY <1>0 DEF Renew
  <1>2. /\ row.ca = old.ca /\ row.names = old.names
        /\ row.until = IssuedRow(old.ca, old.names, days).until
        /\ row.cap = authority[old.ca].until /\ row.from = l /\ row.profile = old.profile
    BY DEF IssuedRow, NoCert
  <1> HIDE DEF row
  <1>3. old.ca \in CaIds /\ old.profile \in Profiles
    BY <1>0, <1>1 DEF IssuedInv, LeafRight
  <1>4. DeskRight(authority, [op |-> "leaf", row |-> row, basis |-> Basis(row)])
    BY <1>1, <1>2, <1>3, IssuedRight
  <1>5. QED
    BY <1>1, <1>4, KeepsTake

LEMMA KeepsDeleteProfile ==
    ASSUME IssuedInv, orders < MaxOrders, NEW w \in Clerks, NEW p \in Profiles,
           DeleteProfile(w, p)
    PROVE  IssuedInv'
  <1>1. DeskRight(authority, [op |-> "drop", profile |-> p, users |-> CertifiedUnder(p)])
    BY DEF DeskRight
  <1>2. QED
    BY <1>1, KeepsTake DEF DeleteProfile

\* A request whose commit or failure leaves the authorities alone
LEMMA KeepsFinish ==
    ASSUME IssuedInv, NEW w \in Clerks, Finish(w), authority' = authority, DOMAIN leaf' = LeafIds,
           \A l \in LeafIds : leaf'[l] = leaf[l] \/ LeafRight(authority, leaf'[l]),
           \A x \in crosses' : x \in crosses \/ CrossRight(authority, x),
           overtaken' \in BOOLEAN
    PROVE  IssuedInv'
  <1>1. desk' = [desk EXCEPT ![w] = Nothing] /\ UNCHANGED <<today, orders>>
    BY DEF Finish
  <1>2. DeskRight(authority, Nothing)
    BY DEF DeskRight, Nothing
  <1>3. DOMAIN desk' = Clerks
        /\ \A v \in Clerks : desk'[v] = desk[v] \/ DeskRight(authority, desk'[v])
    BY <1>1, <1>2, IssuanceTyped
  <1>4. AuthoritiesRight(authority') /\ Lasting(authority, authority')
    BY IssuanceTyped, NothingChanged
  <1>5. QED
    BY <1>1, <1>3, <1>4, IssuanceTyped, IssuedKept

LEMMA KeepsCommitLeaf ==
    ASSUME IssuedInv, NEW w \in Clerks, NEW l \in LeafIds, CommitLeaf(w, l)
    PROVE  IssuedInv'
  <1>1. /\ desk[w].op = "leaf" /\ leaf' = [leaf EXCEPT ![l] = desk[w].row] /\ Finish(w)
        /\ authority' = authority /\ crosses' = crosses
        /\ overtaken' = (overtaken \/ desk[w].basis # Basis(desk[w].row))
    BY DEF CommitLeaf
  <1>2. LeafRight(authority, desk[w].row)
    BY <1>1 DEF IssuedInv, DeskRight
  <1>3. DOMAIN leaf' = LeafIds
        /\ \A m \in LeafIds : leaf'[m] = leaf[m] \/ LeafRight(authority, leaf'[m])
    BY <1>1, <1>2, IssuanceTyped
  <1>4. overtaken' \in BOOLEAN
    BY <1>1
  <1>5. QED
    BY <1>1, <1>3, <1>4, KeepsFinish

LEMMA KeepsCommitReissue ==
    ASSUME IssuedInv, NEW w \in Clerks, CommitReissue(w)
    PROVE  IssuedInv'
  <1>0. PICK d : d = desk[w]
    OBVIOUS
  <1>1. /\ d.op = "reissue" /\ Finish(w) /\ UNCHANGED <<leaf, crosses, profile, overtaken>>
        /\ authority' = [authority EXCEPT ![d.ca].until = d.until, ![d.ca].cap = d.cap]
    BY <1>0 DEF CommitReissue
  <1>2. ReissueRight(authority, d)
    BY <1>0, <1>1 DEF IssuedInv, DeskRight
  <1>3. d.ca \in CaIds /\ d.until \in Nat /\ d.cap \in Nat /\ d.until < d.cap + Day
    BY <1>2 DEF ReissueRight
  <1>4. DOMAIN authority' = CaIds /\ \A c \in CaIds \ {d.ca} : authority'[c] = authority[c]
    BY <1>1, <1>3, IssuanceTyped
  <1>5. authority'[d.ca] = [[authority[d.ca] EXCEPT !.until = d.until] EXCEPT !.cap = d.cap]
    BY <1>1, <1>3, IssuanceTyped
  <1>6. DOMAIN authority[d.ca] = CaFields
    BY <1>3, IssuanceTyped DEF AuthoritiesRight
  <1>7. /\ DOMAIN authority'[d.ca] = CaFields
        /\ authority'[d.ca].until = d.until /\ authority'[d.ca].cap = d.cap
        /\ \A x \in CaFields \ {"until", "cap"} : authority'[d.ca][x] = authority[d.ca][x]
    BY <1>5, <1>6 DEF CaFields
  <1>8. \A c \in CaIds :
           /\ DOMAIN authority'[c] = CaFields
           /\ authority'[c].exists = authority[c].exists
           /\ authority'[c].parent = authority[c].parent
           /\ authority'[c].path = authority[c].path /\ authority'[c].limits = authority[c].limits
           /\ authority'[c].names = authority[c].names
           /\ authority'[c].imported = authority[c].imported
           /\ authority'[c].allowed = authority[c].allowed
    BY <1>4, <1>7, IssuanceTyped DEF CaFields, AuthoritiesRight
  <1>9. \A c \in CaIds : /\ authority'[c].until \in Nat /\ authority'[c].cap \in Nat
                         /\ authority'[c].exists => authority'[c].until < authority'[c].cap + Day
    BY <1>3, <1>4, <1>7, IssuanceTyped DEF AuthoritiesRight, CaRight
  <1>10. AuthoritiesRight(authority') /\ Lasting(authority, authority')
    BY <1>8, <1>9, IssuanceTyped, DatesChange
  <1>11. desk' = [desk EXCEPT ![w] = Nothing] /\ UNCHANGED <<today, orders>>
    BY <1>1 DEF Finish
  <1>12. DOMAIN desk' = Clerks
         /\ \A v \in Clerks : desk'[v] = desk[v] \/ DeskRight(authority, desk'[v])
    <2>1. DeskRight(authority, Nothing)
      BY DEF DeskRight, Nothing
    <2>2. QED
      BY <1>11, <2>1, IssuanceTyped
  <1>13. QED
    <2>1. /\ DOMAIN leaf' = LeafIds /\ leaf' = leaf /\ crosses' = crosses
          /\ today' \in 0..LastHalfDay /\ orders' \in 0..MaxOrders
      BY <1>1, <1>11, IssuanceTyped
    <2>2. overtaken' \in BOOLEAN
      BY <1>1, IssuanceTyped
    <2>3. \A c \in CaIds : /\ authority'[c].parent \in CaIds \union {NoAuthority}
                           /\ authority'[c].names \subseteq Names
                           /\ authority'[c].allowed \subseteq Profiles
      BY <1>8, IssuanceTyped
    <2>4. QED
      BY <1>4, <1>9, <1>10, <1>12, <2>1, <2>2, <2>3, IssuedKept

LEMMA KeepsCommitCross ==
    ASSUME IssuedInv, NEW w \in Clerks, CommitCross(w)
    PROVE  IssuedInv'
  <1>1. /\ desk[w].op = "cross" /\ crosses' = crosses \union {desk[w].row} /\ Finish(w)
        /\ UNCHANGED <<authority, leaf, profile, overtaken>>
    BY DEF CommitCross
  <1>2. CrossRight(authority, desk[w].row)
    BY <1>1 DEF IssuedInv, DeskRight
  <1>3. QED
    BY <1>1, <1>2, IssuanceTyped, KeepsFinish

LEMMA KeepsCommitDrop ==
    ASSUME IssuedInv, NEW w \in Clerks, CommitDrop(w) \/ Abandon(w)
    PROVE  IssuedInv'
  <1>1. Finish(w) /\ UNCHANGED <<authority, leaf, crosses>> /\ overtaken' \in BOOLEAN
    BY IssuanceTyped DEF CommitDrop, Abandon
  <1>2. QED
    BY <1>1, IssuanceTyped, KeepsFinish

\* What is decided in a single step and leaves the authorities alone, and the clock
LEMMA KeepsDecision ==
    ASSUME IssuedInv, UNCHANGED <<authority, leaf, crosses, desk, overtaken>>,
           today' \in 0..LastHalfDay, orders' \in 0..MaxOrders
    PROVE  IssuedInv'
  <1>1. AuthoritiesRight(authority') /\ Lasting(authority, authority')
    BY IssuanceTyped, NothingChanged
  <1>2. QED
    BY <1>1, IssuanceTyped, IssuedKept

LEMMA KeepsSetProfiles ==
    ASSUME IssuedInv, orders < MaxOrders, NEW c \in CaIds, NEW p \in Profiles,
           SetProfiles(c, {p})
    PROVE  IssuedInv'
  <1>1. /\ orders' = orders + 1 /\ authority' = [authority EXCEPT ![c].allowed = {p}]
        /\ UNCHANGED <<leaf, crosses, profile, today, desk, overtaken>>
    BY DEF SetProfiles, Decision
  <1>2. DOMAIN authority' = CaIds /\ \A d \in CaIds \ {c} : authority'[d] = authority[d]
    BY <1>1, IssuanceTyped
  <1>3. authority'[c] = [authority[c] EXCEPT !.allowed = {p}]
    BY <1>1, IssuanceTyped
  <1>4. DOMAIN authority[c] = CaFields
    BY IssuanceTyped DEF AuthoritiesRight
  <1>5. /\ DOMAIN authority'[c] = CaFields /\ authority'[c].allowed = {p}
        /\ \A x \in CaFields \ {"allowed"} : authority'[c][x] = authority[c][x]
    BY <1>3, <1>4 DEF CaFields
  <1>6. \A d \in CaIds :
           /\ DOMAIN authority'[d] = CaFields
           /\ authority'[d].exists = authority[d].exists
           /\ authority'[d].parent = authority[d].parent
           /\ authority'[d].path = authority[d].path /\ authority'[d].limits = authority[d].limits
           /\ authority'[d].names = authority[d].names
           /\ authority'[d].imported = authority[d].imported
           /\ authority'[d].until = authority[d].until /\ authority'[d].cap = authority[d].cap
    BY <1>2, <1>5, IssuanceTyped DEF CaFields, AuthoritiesRight
  <1>7. \A d \in CaIds : /\ authority'[d].cap \in Nat
                         /\ authority'[d].exists => authority'[d].until < authority'[d].cap + Day
    BY <1>6, IssuanceTyped DEF AuthoritiesRight, CaRight
  <1>8. AuthoritiesRight(authority') /\ Lasting(authority, authority')
    BY <1>6, <1>7, IssuanceTyped, DatesChange
  <1>9. \A d \in CaIds : authority'[d].allowed \subseteq Profiles
    BY <1>2, <1>5, IssuanceTyped
  <1>10. orders' \in 0..MaxOrders
    BY <1>1, IssuanceTyped, IssuanceConstants
  <1>11. QED
    BY <1>1, <1>2, <1>6, <1>8, <1>9, <1>10, IssuanceTyped, IssuedKept

LEMMA IssuedInvInit == IssuanceInit => IssuedInv
  <1> SUFFICES ASSUME IssuanceInit PROVE IssuedInv
    OBVIOUS
  <1>1. \A c \in CaIds : authority[c] = NoCa
    BY DEF IssuanceInit
  <1>2. /\ DOMAIN NoCa = CaFields /\ NoCa.exists = FALSE /\ NoCa.parent = NoAuthority
        /\ NoCa.path = Unlimited /\ NoCa.until = 0 /\ NoCa.names = {}
        /\ NoCa.allowed = Profiles /\ NoCa.cap = 0
    BY DEF NoCa, CaFields
  <1>3. AuthoritiesRight(authority)
    BY <1>1, <1>2 DEF AuthoritiesRight, Rooted, Paths
  <1>4. \A l \in LeafIds : leaf[l] = NoCert
    BY DEF IssuanceInit
  <1>5. NoCert.ca = NoAuthority /\ NoCert.from = NoLeaf /\ NoCert.until = 0
    BY DEF NoCert
  <1>6. IssuanceTypeOK
    <2>1. \A c \in CaIds : /\ authority[c].parent \in CaIds \union {NoAuthority}
                           /\ authority[c].path \in Paths
                           /\ authority[c].until \in Nat
                           /\ authority[c].names \subseteq Names
                           /\ authority[c].allowed \subseteq Profiles
      BY <1>1, <1>2 DEF Paths
    <2>2. today \in 0..LastHalfDay /\ orders \in 0..MaxOrders
      BY IssuanceConstants DEF IssuanceInit
    <2>3. overtaken \in BOOLEAN /\ crosses = {}
      BY DEF IssuanceInit
    <2>4. QED
      BY <1>4, <1>5, <2>1, <2>2, <2>3 DEF IssuanceTypeOK
  <1>7. \A w \in Clerks : DeskRight(authority, desk[w])
    BY DEF IssuanceInit, DeskRight, Nothing
  <1>8. DOMAIN authority = CaIds /\ DOMAIN leaf = LeafIds /\ DOMAIN desk = Clerks
        /\ crosses = {}
    BY DEF IssuanceInit
  <1>9. QED
    BY <1>3, <1>4, <1>6, <1>7, <1>8 DEF IssuedInv

LEMMA IssuedInvStep == IssuedInv /\ [IssuanceNext]_issuanceVars => IssuedInv'
  <1> SUFFICES ASSUME IssuedInv, [IssuanceNext]_issuanceVars PROVE IssuedInv'
    OBVIOUS
  <1>1. CASE UNCHANGED issuanceVars
    BY <1>1, IssuanceTyped, KeepsDecision DEF issuanceVars
  <1>2. CASE orders < MaxOrders /\ NewAuthority
    BY <1>2, KeepsCreateRoot, KeepsCreateIntermediate, KeepsImportCa DEF NewAuthority
  <1>3. CASE orders < MaxOrders /\ \E c \in CaIds, p \in Profiles : SetProfiles(c, {p})
    BY <1>3, KeepsSetProfiles
  <1>4. CASE orders < MaxOrders /\
             \/ \E p \in Profiles, bounds \in BoundChoices, on \in BOOLEAN :
                   SaveProfile(p, bounds, on)
             \/ \E p \in Profiles : ToggleProfile(p)
    <2>1. UNCHANGED <<authority, leaf, crosses, desk, overtaken, today>> /\ orders' = orders + 1
      BY <1>4 DEF SaveProfile, ToggleProfile, Decision
    <2>2. orders' \in 0..MaxOrders
      BY <1>4, <2>1, IssuanceTyped, IssuanceConstants
    <2>3. QED
      BY <2>1, <2>2, IssuanceTyped, KeepsDecision
  <1>5. CASE \E w \in Clerks : orders < MaxOrders /\ Request(w)
    <2>1. PICK w \in Clerks : orders < MaxOrders /\ Request(w)
      BY <1>5
    <2>2. CASE \E c \in CaIds, days \in DayChoices :
                  Reissue(w, c, days) \/ \E p \in CaIds : CrossSign(w, c, p, days)
      BY <2>1, <2>2, KeepsReissue, KeepsCrossSign
    <2>3. CASE \E c \in CaIds, days \in DayChoices, names \in NameChoices, p \in Profiles :
                  Issue(w, c, names, days, p)
      BY <2>1, <2>3, KeepsIssue
    <2>4. CASE \E l \in LeafIds, days \in DayChoices, force \in BOOLEAN : Renew(w, l, days, force)
      BY <2>1, <2>4, KeepsRenew
    <2>5. CASE \E p \in Profiles : DeleteProfile(w, p)
      BY <2>1, <2>5, KeepsDeleteProfile
    <2>6. QED
      BY <2>1, <2>2, <2>3, <2>4, <2>5 DEF Request
  <1>6. CASE \E w \in Clerks : Commit(w)
    BY <1>6, KeepsCommitLeaf, KeepsCommitReissue, KeepsCommitCross, KeepsCommitDrop DEF Commit
  <1>7. CASE PassHalfDay
    <2>1. today' \in 0..LastHalfDay
      BY <1>7, IssuanceTyped, IssuanceConstants DEF PassHalfDay
    <2>2. QED
      BY <1>7, <2>1, IssuanceTyped, KeepsDecision DEF PassHalfDay
  <1>8. QED
    BY <1>1, <1>2, <1>3, <1>4, <1>5, <1>6, <1>7 DEF IssuanceNext, Decide

\* The rows of authorities, certificates and cross-certificates hold what they can hold, with any
\* number of them and of clerks.
THEOREM IssuanceTypeCorrect == IssuanceSpec => []IssuanceTypeOK
  <1>1. IssuedInv => IssuanceTypeOK
    BY DEF IssuedInv
  <1>2. QED
    BY <1>1, IssuedInvInit, IssuedInvStep, PTL DEF IssuanceSpec

\* What is issued, cross-certified or made an authority fits the path lengths and the name
\* constraints of the whole chain above its issuer, however long that is, and outlives its issuer
\* by less than a day (create_intermediate_ca, cross_sign_ca, reissue_ca_certificate, enforce).
THEOREM ChainsVerifyHolds == IssuanceSpec => []ChainsVerify
  <1>1. IssuedInv => ChainsVerify
    BY IssuedInvVerifies
  <1>2. QED
    BY <1>1, IssuedInvInit, IssuedInvStep, PTL DEF IssuanceSpec

-----------------------------------------------------------------------------
(***************************************************************************)
(* Renewals and profiles. Until a request commits what another one had     *)
(* overtaken, what it found when it was decided still holds.               *)
(***************************************************************************)

ProfileRows == [exists : BOOLEAN, enabled : BOOLEAN, bounds : BoundChoices]

DeskLinked(d) ==
    /\ d.op = "leaf" => d.basis.profile /\ (~ d.row.forced => d.basis.renewals = {})
    /\ d.op = "drop" => d.users = {} /\ d.profile \in Profiles

Linked ==
    /\ \A l \in LeafIds : leaf[l] # NoCert => profile[leaf[l].profile].exists
    /\ \A l, m, k \in LeafIds :
          /\ leaf[m].from = l /\ leaf[k].from = l /\ ~ leaf[m].forced /\ ~ leaf[k].forced
          => m = k
    /\ \A w \in Clerks : DeskLinked(desk[w])

LinkInv ==
    /\ IssuedInv /\ profile \in [Profiles -> ProfileRows]
    /\ ~ overtaken => Linked

LEMMA LinkKept ==
    ASSUME LinkInv, IssuedInv', leaf' = leaf, profile' \in [Profiles -> ProfileRows],
           \A p \in Profiles : profile[p].exists => profile'[p].exists,
           overtaken' = overtaken,
           ~ overtaken => \A w \in Clerks : desk'[w] = desk[w] \/ DeskLinked(desk'[w])
    PROVE  LinkInv'
  <1> SUFFICES ASSUME ~ overtaken PROVE Linked'
    BY DEF LinkInv
  <1>1. Linked
    BY DEF LinkInv
  <1>2. ASSUME NEW l \in LeafIds, leaf'[l] # NoCert PROVE profile'[leaf'[l].profile].exists
    <2>1. leaf[l].profile \in Profiles
      BY <1>2 DEF LinkInv, IssuedInv, LeafRight
    <2>2. QED
      BY <1>1, <1>2, <2>1 DEF Linked
  <1>3. \A w \in Clerks : DeskLinked(desk'[w])
    BY <1>1 DEF Linked
  <1>4. QED
    BY <1>1, <1>2, <1>3 DEF Linked, DeskLinked

LEMMA LinkTake ==
    ASSUME LinkInv, IssuedInv', NEW w \in Clerks, NEW work, Take(w, work),
           ~ overtaken => DeskLinked(work)
    PROVE  LinkInv'
  <1>1. desk' = [desk EXCEPT ![w] = work] /\ UNCHANGED <<leaf, profile, overtaken>>
    BY DEF Take
  <1>2. DOMAIN desk = Clerks
    BY DEF LinkInv, IssuedInv
  <1>3. ~ overtaken => \A v \in Clerks : desk'[v] = desk[v] \/ DeskLinked(desk'[v])
    BY <1>1, <1>2
  <1>4. profile' \in [Profiles -> ProfileRows]
    BY <1>1 DEF LinkInv
  <1>5. QED
    BY <1>1, <1>3, <1>4, LinkKept

LEMMA LinksIssue ==
    ASSUME LinkInv, IssuedInv', NEW w \in Clerks, NEW c \in CaIds, NEW names, NEW days,
           NEW p \in Profiles, Issue(w, c, names, days, p)
    PROVE  LinkInv'
  <1> DEFINE row == [IssuedRow(c, names, days) EXCEPT !.profile = p]
  <1>1. Offered(c, p) /\ Take(w, [op |-> "leaf", row |-> row, basis |-> Basis(row)])
    BY DEF Issue
  <1>2. row.profile = p /\ row.from = NoLeaf
    BY DEF IssuedRow, NoCert
  <1> HIDE DEF row
  <1>3. Basis(row).profile /\ Basis(row).renewals = {}
    BY <1>1, <1>2 DEF Basis, Offered
  <1>4. DeskLinked([op |-> "leaf", row |-> row, basis |-> Basis(row)])
    BY <1>3 DEF DeskLinked
  <1>5. QED
    BY <1>1, <1>4, LinkTake

LEMMA LinksRenew ==
    ASSUME LinkInv, IssuedInv', NEW w \in Clerks, NEW l \in LeafIds, NEW days,
           NEW force \in BOOLEAN, Renew(w, l, days, force)
    PROVE  LinkInv'
  <1>0. PICK old : old = leaf[l]
    OBVIOUS
  <1> DEFINE row == [IssuedRow(old.ca, old.names, days) EXCEPT !.profile = old.profile,
                                                            !.from = l, !.forced = force]
  <1>1. /\ old # NoCert /\ Renewable(l, force)
        /\ Take(w, [op |-> "leaf", row |-> row, basis |-> Basis(row)])
    BY <1>0 DEF Renew
  <1>2. row.profile = old.profile /\ row.from = l /\ row.forced = force
    BY DEF IssuedRow, NoCert
  <1> HIDE DEF row
  <1>3. l # NoLeaf
    BY IssuanceAssumption
  <1>4. Basis(row).profile = profile[old.profile].exists /\ Basis(row).renewals = RenewedAs(l)
    BY <1>2, <1>3 DEF Basis
  <1>5. ~ force => Basis(row).renewals = {}
    BY <1>1, <1>4 DEF Renewable
  <1>6. ~ overtaken => Basis(row).profile
    BY <1>0, <1>1, <1>4 DEF LinkInv, Linked
  <1>7. ~ overtaken => DeskLinked([op |-> "leaf", row |-> row, basis |-> Basis(row)])
    BY <1>2, <1>5, <1>6 DEF DeskLinked
  <1>8. QED
    BY <1>1, <1>7, LinkTake

LEMMA LinksDeleteProfile ==
    ASSUME LinkInv, IssuedInv', NEW w \in Clerks, NEW p \in Profiles, DeleteProfile(w, p)
    PROVE  LinkInv'
  <1>1. /\ CertifiedUnder(p) = {}
        /\ Take(w, [op |-> "drop", profile |-> p, users |-> CertifiedUnder(p)])
    BY DEF DeleteProfile
  <1>2. DeskLinked([op |-> "drop", profile |-> p, users |-> CertifiedUnder(p)])
    BY <1>1 DEF DeskLinked
  <1>3. QED
    BY <1>1, <1>2, LinkTake

LEMMA LinksOtherRequest ==
    ASSUME LinkInv, IssuedInv', NEW w \in Clerks, NEW c, NEW p, NEW days,
           Reissue(w, c, days) \/ CrossSign(w, c, p, days)
    PROVE  LinkInv'
  <1>1. CASE Reissue(w, c, days)
    <2>1. PICK cap, until : Take(w, [op |-> "reissue", ca |-> c, cap |-> cap, until |-> until])
      BY <1>1 DEF Reissue
    <2>2. DeskLinked([op |-> "reissue", ca |-> c, cap |-> cap, until |-> until])
      BY DEF DeskLinked
    <2>3. QED
      BY <2>1, <2>2, LinkTake
  <1>2. CASE CrossSign(w, c, p, days)
    <2>1. PICK row : Take(w, [op |-> "cross", row |-> row])
      BY <1>2 DEF CrossSign
    <2>2. DeskLinked([op |-> "cross", row |-> row])
      BY DEF DeskLinked
    <2>3. QED
      BY <2>1, <2>2, LinkTake
  <1>3. QED
    BY <1>1, <1>2

LEMMA LinksDecide ==
    ASSUME LinkInv, IssuedInv', Decide
    PROVE  LinkInv'
  <1>1. UNCHANGED <<leaf, desk, overtaken>>
    BY DEF Decide, NewAuthority, CreateRoot, CreateIntermediate, ImportCa, AddCa, SetProfiles,
           SaveProfile, ToggleProfile
  <1>2. /\ profile' \in [Profiles -> ProfileRows]
        /\ \A p \in Profiles : profile[p].exists => profile'[p].exists
    <2>1. CASE \E p \in Profiles, bounds \in BoundChoices, on \in BOOLEAN :
                  SaveProfile(p, bounds, on)
      <3>1. PICK p \in Profiles, bounds \in BoundChoices, on \in BOOLEAN :
               profile' = [profile EXCEPT ![p] = [exists |-> TRUE, enabled |-> on,
                                                  bounds |-> bounds]]
        BY <2>1 DEF SaveProfile
      <3>2. [exists |-> TRUE, enabled |-> on, bounds |-> bounds] \in ProfileRows
        BY DEF ProfileRows
      <3>3. QED
        BY <3>1, <3>2 DEF LinkInv
    <2>2. CASE \E p \in Profiles : ToggleProfile(p)
      <3>1. PICK p \in Profiles :
               profile' = [profile EXCEPT ![p] =
                             [profile[p] EXCEPT !.enabled = ~ profile[p].enabled]]
        BY <2>2 DEF ToggleProfile
      <3>2. PICK on \in BOOLEAN : on = ~ profile[p].enabled
        OBVIOUS
      <3>3. [profile[p] EXCEPT !.enabled = on] \in ProfileRows
            /\ [profile[p] EXCEPT !.enabled = on].exists = profile[p].exists
        BY DEF LinkInv, ProfileRows
      <3>4. QED
        BY <3>1, <3>2, <3>3 DEF LinkInv
    <2>3. CASE \/ NewAuthority
               \/ \E c \in CaIds, p \in Profiles : SetProfiles(c, {p})
      <3>1. profile' = profile
        BY <2>3 DEF NewAuthority, CreateRoot, CreateIntermediate, ImportCa, AddCa, SetProfiles
      <3>2. QED
        BY <3>1 DEF LinkInv
    <2>4. QED
      BY <2>1, <2>2, <2>3 DEF Decide
  <1>3. QED
    BY <1>1, <1>2, LinkKept

\* The commit of a certificate: what it rests on was so when it was decided, and still is.
LEMMA LinksCommitLeaf ==
    ASSUME LinkInv, IssuedInv', NEW w \in Clerks, NEW l \in LeafIds, CommitLeaf(w, l)
    PROVE  LinkInv'
  <1>0. PICK row, basis : row = desk[w].row /\ basis = desk[w].basis
    OBVIOUS
  <1>1. /\ desk[w].op = "leaf" /\ leaf[l] = NoCert /\ leaf' = [leaf EXCEPT ![l] = row]
        /\ overtaken' = (overtaken \/ basis # Basis(row))
        /\ desk' = [desk EXCEPT ![w] = Nothing] /\ profile' = profile
    BY <1>0 DEF CommitLeaf, Finish
  <1>2. DOMAIN leaf = LeafIds /\ DOMAIN desk = Clerks
    BY DEF LinkInv, IssuedInv
  <1> SUFFICES ASSUME ~ overtaken, basis = Basis(row) PROVE Linked'
    BY <1>1 DEF LinkInv
  <1>3. Linked
    BY DEF LinkInv
  <1>4. basis.profile /\ (~ row.forced => basis.renewals = {})
    BY <1>0, <1>1, <1>3 DEF Linked, DeskLinked
  <1>5. profile[row.profile].exists
    BY <1>4 DEF Basis
  <1>6. leaf'[l] = row /\ \A m \in LeafIds \ {l} : leaf'[m] = leaf[m]
    BY <1>1, <1>2
  <1>7. \A m \in LeafIds : leaf'[m] # NoCert => profile'[leaf'[m].profile].exists
    BY <1>1, <1>3, <1>5, <1>6 DEF Linked
  <1>8. ASSUME ~ row.forced, row.from \in LeafIds
        PROVE  \A m \in LeafIds : leaf[m].from # row.from
    <2>1. basis.renewals = RenewedAs(row.from)
      BY <1>8, IssuanceAssumption DEF Basis
    <2>2. QED
      BY <1>4, <1>8, <2>1 DEF RenewedAs
  <1>9. \A x, m, k \in LeafIds :
           /\ leaf'[m].from = x /\ leaf'[k].from = x /\ ~ leaf'[m].forced /\ ~ leaf'[k].forced
           => m = k
    <2> SUFFICES ASSUME NEW x \in LeafIds, NEW m \in LeafIds, NEW k \in LeafIds,
                        leaf'[m].from = x, leaf'[k].from = x,
                        ~ leaf'[m].forced, ~ leaf'[k].forced
                 PROVE  m = k
      OBVIOUS
    <2>1. CASE m # l /\ k # l
      BY <1>3, <1>6, <2>1 DEF Linked
    <2>2. CASE m = l \/ k = l
      BY <1>6, <1>8, <2>2
    <2>3. QED
      BY <2>1, <2>2
  <1>10. \A v \in Clerks : DeskLinked(desk'[v])
    <2>1. DeskLinked(Nothing)
      BY DEF DeskLinked, Nothing
    <2>2. QED
      BY <1>1, <1>2, <1>3, <2>1 DEF Linked
  <1>11. QED
    BY <1>7, <1>9, <1>10 DEF Linked, DeskLinked

LEMMA LinksCommitDrop ==
    ASSUME LinkInv, IssuedInv', NEW w \in Clerks, CommitDrop(w)
    PROVE  LinkInv'
  <1>0. PICK p, users : p = desk[w].profile /\ users = desk[w].users
    OBVIOUS
  <1>1. /\ desk[w].op = "drop"
        /\ profile' = [profile EXCEPT ![p] = [profile[p] EXCEPT !.exists = FALSE]]
        /\ overtaken' = (overtaken \/ users # CertifiedUnder(p))
        /\ desk' = [desk EXCEPT ![w] = Nothing] /\ leaf' = leaf
    BY <1>0 DEF CommitDrop, Finish
  <1>2. DOMAIN desk = Clerks
    BY DEF LinkInv, IssuedInv
  <1>3. profile' \in [Profiles -> ProfileRows]
    <2>1. \A q \in Profiles : [profile[q] EXCEPT !.exists = FALSE] \in ProfileRows
      BY DEF LinkInv, ProfileRows
    <2>2. QED
      BY <1>1, <2>1 DEF LinkInv
  <1>4. ASSUME ~ overtaken, users = CertifiedUnder(p) PROVE Linked'
    <2>1. Linked
      BY <1>4 DEF LinkInv
    <2>2. CertifiedUnder(p) = {}
      BY <1>0, <1>1, <1>4, <2>1 DEF Linked, DeskLinked
    <2>3. \A l \in LeafIds : leaf[l] # NoCert => leaf[l].profile # p
      BY <2>2 DEF CertifiedUnder
    <2>4. \A l \in LeafIds : leaf[l] # NoCert => leaf[l].profile \in Profiles
      BY DEF LinkInv, IssuedInv, LeafRight
    <2>5. \A q \in Profiles \ {p} : profile'[q] = profile[q]
      BY <1>1 DEF LinkInv
    <2>6. \A l \in LeafIds : leaf'[l] # NoCert => profile'[leaf'[l].profile].exists
      BY <1>1, <2>1, <2>3, <2>4, <2>5 DEF Linked
    <2>7. \A v \in Clerks : DeskLinked(desk'[v])
      <3>1. DeskLinked(Nothing)
        BY DEF DeskLinked, Nothing
      <3>2. QED
        BY <1>1, <1>2, <2>1, <3>1 DEF Linked
    <2>8. QED
      BY <1>1, <2>1, <2>6, <2>7 DEF Linked, DeskLinked
  <1>5. QED
    BY <1>1, <1>3, <1>4 DEF LinkInv

LEMMA LinksOtherCommit ==
    ASSUME LinkInv, IssuedInv', NEW w \in Clerks, CommitReissue(w) \/ CommitCross(w) \/ Abandon(w)
    PROVE  LinkInv'
  <1>1. desk' = [desk EXCEPT ![w] = Nothing] /\ UNCHANGED <<leaf, profile, overtaken>>
    BY DEF CommitReissue, CommitCross, Abandon, Finish
  <1>2. DOMAIN desk = Clerks /\ DeskLinked(Nothing)
    BY DEF LinkInv, IssuedInv, DeskLinked, Nothing
  <1>3. \A v \in Clerks : desk'[v] = desk[v] \/ DeskLinked(desk'[v])
    BY <1>1, <1>2
  <1>4. profile' \in [Profiles -> ProfileRows]
    BY <1>1 DEF LinkInv
  <1>5. QED
    BY <1>1, <1>3, <1>4, LinkKept

LEMMA LinkInvInit == IssuanceInit => LinkInv
  <1> SUFFICES ASSUME IssuanceInit PROVE LinkInv
    OBVIOUS
  <1>1. \A l \in LeafIds : leaf[l] = NoCert /\ leaf[l].from = NoLeaf
    BY DEF IssuanceInit, NoCert
  <1>2. \A w \in Clerks : DeskLinked(desk[w])
    BY DEF IssuanceInit, DeskLinked, Nothing
  <1>3. Linked
    BY <1>1, <1>2, IssuanceAssumption DEF Linked
  <1>4. profile \in [Profiles -> ProfileRows]
    BY DEF IssuanceInit, ProfileRows
  <1>5. QED
    BY <1>3, <1>4, IssuedInvInit DEF LinkInv

LEMMA LinkInvStep == LinkInv /\ [IssuanceNext]_issuanceVars => LinkInv'
  <1> SUFFICES ASSUME LinkInv, [IssuanceNext]_issuanceVars PROVE LinkInv'
    OBVIOUS
  <1>1. IssuedInv'
    BY IssuedInvStep DEF LinkInv
  <1>2. CASE UNCHANGED issuanceVars \/ PassHalfDay
    <2>1. UNCHANGED <<leaf, profile, desk, overtaken>>
      BY <1>2 DEF issuanceVars, PassHalfDay
    <2>2. profile' \in [Profiles -> ProfileRows]
      BY <2>1 DEF LinkInv
    <2>3. QED
      BY <1>1, <2>1, <2>2, LinkKept
  <1>3. CASE Decide
    BY <1>1, <1>3, LinksDecide
  <1>4. CASE \E w \in Clerks : Request(w)
    <2>1. PICK w \in Clerks : Request(w)
      BY <1>4
    <2>2. CASE \E c \in CaIds, days \in DayChoices :
                  Reissue(w, c, days) \/ \E p \in CaIds : CrossSign(w, c, p, days)
      BY <1>1, <2>1, <2>2, LinksOtherRequest
    <2>3. CASE \E c \in CaIds, days \in DayChoices, names \in NameChoices, p \in Profiles :
                  Issue(w, c, names, days, p)
      BY <1>1, <2>1, <2>3, LinksIssue
    <2>4. CASE \E l \in LeafIds, days \in DayChoices, force \in BOOLEAN : Renew(w, l, days, force)
      BY <1>1, <2>1, <2>4, LinksRenew
    <2>5. CASE \E p \in Profiles : DeleteProfile(w, p)
      BY <1>1, <2>1, <2>5, LinksDeleteProfile
    <2>6. QED
      BY <2>1, <2>2, <2>3, <2>4, <2>5 DEF Request
  <1>5. CASE \E w \in Clerks : Commit(w)
    BY <1>1, <1>5, LinksCommitLeaf, LinksCommitDrop, LinksOtherCommit DEF Commit
  <1>6. QED
    BY <1>2, <1>3, <1>4, <1>5 DEF IssuanceNext

\* A certificate has one renewal that was not forced, and its profile is still there, however many
\* requests renew and delete at the same time, until one commits what another had overtaken
\* (AlreadyRenewed in renew_certificate, usage_counts in profile_delete).
THEOREM LeavesStayLinkedHolds == IssuanceSpec => []LeavesStayLinked
  <1>1. ASSUME LinkInv PROVE LeavesStayLinked
    <2>1. SUFFICES ASSUME ~ overtaken, NEW l \in LeafIds, leaf[l] # NoCert
                   PROVE  /\ profile[leaf[l].profile].exists
                          /\ Cardinality({m \in RenewedAs(l) : ~ leaf[m].forced}) <= 1
      BY DEF LeavesStayLinked
    <2>2. Linked
      BY <1>1, <2>1 DEF LinkInv
    <2>3. \A m, k \in {x \in RenewedAs(l) : ~ leaf[x].forced} : m = k
      BY <2>2 DEF Linked, RenewedAs
    <2>4. Cardinality({x \in RenewedAs(l) : ~ leaf[x].forced}) <= 1
      BY <2>3, AtMostOne
    <2>5. QED
      BY <2>1, <2>2, <2>4 DEF Linked
  <1>2. QED
    BY <1>1, LinkInvInit, LinkInvStep, PTL DEF IssuanceSpec

-----------------------------------------------------------------------------
(***************************************************************************)
(* The audit chain. As long as no pruning has taken the head, an id is a   *)
(* serial, the rows that are left are lo..serials, those up to the head    *)
(* are sealed, and a hash vouches for every row from the first one on.     *)
(***************************************************************************)

Upto(n) == [k \in 1..n |-> k]

RowFields == {"serial", "time", "action", "about", "prev", "hash"}

RowRight(row, i, head) ==
    /\ DOMAIN row = RowFields /\ row = [x \in RowFields |-> row[x]] /\ row.serial = i
    /\ row.action = "audit_checkpoint" => row.about.hash = Upto(row.about.id)
    /\ i <= head => row.hash = Upto(i) /\ row.prev = Upto(i - 1)
    /\ head < i => row.hash = Unsealed /\ row.prev = Unsealed

\* What a sealer has computed goes on where the head is, or has been written meanwhile.
WorkRight(work, head) ==
    \A i \in DOMAIN work.rows :
        /\ i \in Nat \ {0} /\ work.rows[i] = Upto(i)
        /\ \A j \in Nat : head < j /\ j <= i => j \in DOMAIN work.rows

Shape(lo, head) ==
    /\ lo \in Nat \ {0} /\ head \in Nat /\ head <= serials
    /\ IF head = 0 THEN lo = 1 ELSE lo <= head
    /\ Ids = lo..serials
    /\ \A i \in Ids : RowRight(log[i], i, head)
    /\ lo > 1 => \E i \in Ids : log[i].action = "audit_checkpoint" /\ log[i].about.id = lo - 1
    /\ \A s \in Sealers : WorkRight(sealing[s], head)
    /\ \A a \in anchors : a.id \in 1..head /\ a.hash = Upto(a.id)

AuditInv ==
    /\ serials \in Nat /\ headPruned \in BOOLEAN /\ DOMAIN sealing = Sealers
    /\ ~ headPruned => \E lo, head : Shape(lo, head)

LEMMA MaxIs ==
    ASSUME NEW S, S \subseteq Int, NEW m \in S, \A x \in S : x <= m
    PROVE  Max(S) = m
  <1>1. \A x \in S : (\A y \in S : x >= y) <=> x = m
    OBVIOUS
  <1>2. QED
    BY <1>1 DEF Max

LEMMA MinIs ==
    ASSUME NEW S, S \subseteq Int, NEW m \in S, \A x \in S : m <= x
    PROVE  Min(S) = m
  <1>1. \A x \in S : (\A y \in S : x <= y) <=> x = m
    OBVIOUS
  <1>2. QED
    BY <1>1 DEF Min

LEMMA GreatestOf ==
    ASSUME NEW T, T \subseteq Nat, T # {}, NEW n \in Nat, \A x \in T : x <= n
    PROVE  Max(T) \in T /\ \A x \in T : x <= Max(T)
  <1> DEFINE B == {b \in Nat : \A x \in T : x <= b}
  <1>1. PICK m \in B : \A b \in B : m <= b
    <2>1. n \in B /\ B \subseteq Nat
      OBVIOUS
    <2> HIDE DEF B
    <2>2. QED
      BY <2>1, LeastOf
  <1>2. m \in T
    <2> SUFFICES ASSUME m \notin T PROVE FALSE
      OBVIOUS
    <2>1. \A x \in T : x <= m /\ x # m /\ x \in Nat
      BY <1>1
    <2>2. m - 1 \in Nat /\ \A x \in T : x <= m - 1
      <3>1. PICK x \in T : TRUE
        OBVIOUS
      <3>2. m \in Nat /\ m > 0
        BY <1>1, <2>1, <3>1
      <3>3. QED
        BY <2>1, <3>2
    <2>3. m - 1 \in B /\ ~ (m <= m - 1)
      BY <1>1, <2>2
    <2>4. QED
      BY <1>1, <2>3
  <1>3. Max(T) = m
    <2>1. T \subseteq Int /\ \A x \in T : x <= m
      BY <1>1
    <2> HIDE DEF B
    <2>2. QED
      BY <1>2, <2>1, MaxIs
  <1>4. QED
    BY <1>1, <1>2, <1>3

LEMMA UptoIs ==
    ASSUME NEW n \in Nat
    PROVE  /\ Upto(n) \in Seq(Nat) /\ Len(Upto(n)) = n /\ Upto(n) # Unsealed
           /\ Upto(n) = Genesis <=> n = 0
           /\ n > 0 => /\ SubSeq(Upto(n), 1, Len(Upto(n)) - 1) = Upto(n - 1)
                       /\ Append(Upto(n - 1), n) = Upto(n)
  <1>1. Upto(n) \in Seq(Nat) /\ Len(Upto(n)) = n
    BY DEF Upto
  <1>2. Upto(n) # Unsealed
    <2> SUFFICES ASSUME Upto(n) = Unsealed PROVE FALSE
      OBVIOUS
    <2>1. Len(Unsealed) = 1 /\ Unsealed[1] = 0
      BY DEF Unsealed
    <2>2. n = 1
      BY <1>1, <2>1
    <2>3. Upto(n)[1] = 1
      BY <2>2 DEF Upto
    <2>4. QED
      BY <2>1, <2>3
  <1>3. Upto(n) = Genesis <=> n = 0
    BY <1>1 DEF Upto, Genesis
  <1>4. ASSUME n > 0 PROVE SubSeq(Upto(n), 1, Len(Upto(n)) - 1) = Upto(n - 1)
    BY <1>1, <1>4 DEF Upto
  <1>5. ASSUME n > 0 PROVE Append(Upto(n - 1), n) = Upto(n)
    <2>1. n - 1 \in Nat /\ Upto(n - 1) \in Seq(Nat) /\ Len(Upto(n - 1)) = n - 1
      BY <1>5 DEF Upto
    <2>2. QED
      BY <1>5, <2>1 DEF Upto
  <1>6. QED
    BY <1>1, <1>2, <1>3, <1>4, <1>5

\* What the state functions of the module are in a chain of that shape
LEMMA ShapeTells ==
    ASSUME serials \in Nat, NEW lo, NEW head, Shape(lo, head)
    PROVE  /\ \A i \in Ids : Sealed(i) <=> i <= head
           /\ HeadId = head /\ HeadHash = Upto(head)
           /\ Ids # {} => Min(Ids) = lo
           /\ Max(Ids \union {0}) = serials
  <1>1. Ids = lo..serials /\ lo \in Nat \ {0} /\ head \in Nat /\ head <= serials
        /\ (IF head = 0 THEN lo = 1 ELSE lo <= head)
    BY DEF Shape
  <1>2. ASSUME NEW i \in Ids PROVE Sealed(i) <=> i <= head
    <2>1. i \in Nat /\ RowRight(log[i], i, head)
      BY <1>1 DEF Shape
    <2>2. Upto(i) # Unsealed
      BY <2>1, UptoIs
    <2>3. QED
      BY <1>1, <2>1, <2>2 DEF RowRight, Sealed
  <1>3. HeadId = head
    <2> DEFINE S == {i \in Ids : Sealed(i)} \union {0}
    <2>1. S \subseteq Int /\ head \in S /\ \A x \in S : x <= head
      BY <1>1, <1>2
    <2> HIDE DEF S
    <2>2. Max(S) = head
      BY <2>1, MaxIs
    <2>3. QED
      BY <2>2 DEF S, HeadId
  <1>4. HeadHash = Upto(head)
    <2>1. CASE head = 0
      BY <1>3, <2>1, UptoIs DEF HeadHash
    <2>2. CASE head # 0
      <3>1. head \in Ids /\ RowRight(log[head], head, head)
        BY <1>1, <2>2 DEF Shape
      <3>2. QED
        BY <1>1, <1>3, <2>2, <3>1 DEF HeadHash, RowRight
    <2>3. QED
      BY <2>1, <2>2
  <1>5. ASSUME Ids # {} PROVE Min(Ids) = lo
    <2>1. lo \in Ids /\ Ids \subseteq Int /\ \A x \in Ids : lo <= x
      BY <1>1, <1>5
    <2>2. QED
      BY <2>1, MinIs
  <1>6. Max(Ids \union {0}) = serials
    <2>1. serials \in Ids \union {0} /\ Ids \union {0} \subseteq Int
          /\ \A x \in Ids \union {0} : x <= serials
      BY <1>1
    <2>2. QED
      BY <2>1, MaxIs
  <1>7. QED
    BY <1>2, <1>3, <1>4, <1>5, <1>6

LEMMA IsUpto ==
    ASSUME NEW n \in Nat, NEW s \in Seq(Nat), Len(s) = n, \A k \in 1..n : s[k] = k
    PROVE  s = Upto(n)
  <1>1. s = [k \in 1..n |-> s[k]]
    OBVIOUS
  <1>2. QED
    BY <1>1 DEF Upto

LEMMA InSecond ==
    ASSUME NEW S, NEW s \in Seq(S), NEW t \in Seq(S), NEW k \in Nat,
           Len(s) < k, k <= Len(s) + Len(t)
    PROVE  (s \o t)[k] = t[k - Len(s)]
  OBVIOUS

\* The rows that may be sealed follow the head without a gap.
LEMMA SealableIs ==
    ASSUME serials \in Nat, NEW lo, NEW head, Shape(lo, head), Sealable # {}
    PROVE  /\ Min(Sealable) = head + 1
           /\ \A i \in Sealable : /\ i \in Nat \ {0} /\ head < i /\ i <= serials
                                  /\ \A j \in Nat : head < j /\ j <= i => j \in Sealable
  <1> DEFINE pending == {i \in Ids : ~ Sealed(i) /\ i > HeadId}
             good(i) == i \in pending /\ log[i].time <= stamp - Grace
             first == IF pending = {} THEN 0 ELSE Min(pending)
  <1>1. Sealable = {i \in pending : /\ HeadId # 0 => first = HeadId + 1
                                    /\ \A j \in first..i : good(j)}
    BY DEF Sealable
  <1>2. Ids = lo..serials /\ lo \in Nat \ {0} /\ head \in Nat /\ head <= serials
        /\ (IF head = 0 THEN lo = 1 ELSE lo <= head)
    BY DEF Shape
  <1>3. \A i : i \in pending <=> i \in (head + 1)..serials
    BY <1>2, ShapeTells
  <1>4. pending # {}
    BY <1>1
  <1> HIDE DEF pending
  <1>5. first = head + 1
    <2>1. head + 1 \in pending /\ pending \subseteq Int /\ \A x \in pending : head + 1 <= x
      BY <1>2, <1>3, <1>4
    <2>2. QED
      BY <1>4, <2>1, MinIs
  <1> HIDE DEF good, first
  <1>6. ASSUME NEW i \in Sealable
        PROVE  /\ i \in Nat \ {0} /\ head < i /\ i <= serials
               /\ \A j \in Nat : head < j /\ j <= i => j \in Sealable
    <2>1. i \in (head + 1)..serials /\ (\A j \in (head + 1)..i : good(j))
          /\ (HeadId # 0 => first = HeadId + 1)
      BY <1>1, <1>3, <1>5
    <2>2. i \in Nat \ {0} /\ head < i /\ i <= serials
      BY <1>2, <2>1
    <2>3. ASSUME NEW j \in Nat, head < j, j <= i PROVE j \in Sealable
      <3>1. j \in (head + 1)..serials /\ \A x \in (head + 1)..j : x \in (head + 1)..i
        BY <1>2, <2>2, <2>3
      <3>2. j \in pending /\ \A x \in first..j : good(x)
        BY <1>3, <1>5, <2>1, <3>1
      <3>3. QED
        BY <1>1, <2>1, <3>2
    <2>4. QED
      BY <2>2, <2>3
  <1>7. Min(Sealable) = head + 1
    <2>1. PICK i \in Sealable : TRUE
      OBVIOUS
    <2>2. head + 1 \in Nat /\ head < head + 1 /\ head + 1 <= i
      BY <1>2, <1>6
    <2>3. head + 1 \in Sealable
      BY <1>6, <2>2
    <2>4. Sealable \subseteq Int /\ \A x \in Sealable : head + 1 <= x
      BY <1>2, <1>6
    <2>5. QED
      BY <2>3, <2>4, MinIs
  <1>8. QED
    BY <1>6, <1>7

LEMMA HashIs ==
    ASSUME serials \in Nat, NEW lo, NEW head, Shape(lo, head), NEW i \in Sealable
    PROVE  ComputeHash(i) = Upto(i)
  <1>1. /\ Min(Sealable) = head + 1 /\ i \in Nat \ {0} /\ head < i /\ i <= serials
        /\ \A j \in Nat : head < j /\ j <= i => j \in Ids
    <2>1. Sealable \subseteq Ids
      BY DEF Sealable
    <2>2. QED
      BY <2>1, SealableIs
  <1>2. head \in Nat /\ HeadHash = Upto(head)
    BY ShapeTells DEF Shape
  <1> DEFINE tail == [k \in 1..(i - (head + 1) + 1) |-> log[(head + 1) + k - 1].serial]
  <1>3. ComputeHash(i) = Upto(head) \o tail
    BY <1>1, <1>2 DEF ComputeHash
  <1>4. i - (head + 1) + 1 = i - head /\ i - head \in Nat
    BY <1>1, <1>2
  <1>5. ASSUME NEW k \in 1..(i - head) PROVE log[(head + 1) + k - 1].serial = head + k
    <2>1. head + k \in Nat /\ head < head + k /\ head + k <= i /\ (head + 1) + k - 1 = head + k
      BY <1>1, <1>2, <1>4
    <2>2. head + k \in Ids
      BY <1>1, <2>1
    <2>3. RowRight(log[head + k], head + k, head)
      BY <2>2 DEF Shape
    <2>4. QED
      BY <2>1, <2>3 DEF RowRight
  <1>6. tail = [k \in 1..(i - head) |-> head + k]
    BY <1>4, <1>5
  <1> HIDE DEF tail
  <1>7. Upto(head) \in Seq(Nat) /\ Len(Upto(head)) = head
    BY <1>2, UptoIs
  <1>8. tail \in Seq(Nat) /\ Len(tail) = i - head
    BY <1>2, <1>4, <1>6
  <1>9. Upto(head) \o tail = Upto(i)
    <2>1. Upto(head) \o tail \in Seq(Nat) /\ Len(Upto(head) \o tail) = i
      BY <1>1, <1>2, <1>7, <1>8
    <2>2. ASSUME NEW k \in 1..i PROVE (Upto(head) \o tail)[k] = k
      <3>1. CASE k <= head
        <4>1. (Upto(head) \o tail)[k] = Upto(head)[k]
          BY <1>2, <1>7, <1>8, <3>1
        <4>2. QED
          BY <1>2, <3>1, <4>1 DEF Upto
      <3>2. CASE k > head
        <4>1. (Upto(head) \o tail)[k] = tail[k - head]
          <5>1. k \in Nat /\ Len(Upto(head)) < k /\ k <= Len(Upto(head)) + Len(tail)
            BY <1>1, <1>2, <1>7, <1>8, <3>2
          <5>2. QED
            BY <1>7, <1>8, <5>1, InSecond
        <4>2. k - head \in 1..(i - head)
          BY <1>1, <1>2, <3>2
        <4>3. tail[k - head] = head + (k - head)
          BY <1>6, <4>2
        <4>4. QED
          BY <1>2, <4>1, <4>3
      <3>3. k <= head \/ k > head
        BY <1>1, <1>2
      <3>4. QED
        BY <3>1, <3>2, <3>3
    <2>3. PICK s \in Seq(Nat) : s = Upto(head) \o tail
      BY <2>1
    <2>4. i \in Nat /\ Len(s) = i /\ \A k \in 1..i : s[k] = k
      BY <1>1, <2>1, <2>2, <2>3
    <2>5. QED
      BY <2>3, <2>4, IsUpto
  <1>10. QED
    BY <1>3, <1>9

\* A row more, under the next id
LEMMA RowAdded ==
    ASSUME NEW rows, NEW row, NEW a \in Nat \ {0}, NEW b \in Nat, DOMAIN rows = a..b,
           a <= b \/ (b = 0 /\ a = 1), NEW more, more = WithRow(rows, row)
    PROVE  /\ DOMAIN more = a..(b + 1) /\ more[b + 1] = row
           /\ \A i \in a..b : more[i] = rows[i]
  <1>1. Max(DOMAIN rows \union {0}) = b
    <2> DEFINE S == (a..b) \union {0}
    <2>1. S \subseteq Int /\ b \in S /\ \A x \in S : x <= b
      OBVIOUS
    <2> HIDE DEF S
    <2>2. Max(S) = b
      BY <2>1, MaxIs
    <2>3. QED
      BY <2>2 DEF S
  <1>2. more = [i \in (a..b) \union {b + 1} |-> IF i = b + 1 THEN row ELSE rows[i]]
    BY <1>1 DEF WithRow
  <1>3. (a..b) \union {b + 1} = a..(b + 1)
    OBVIOUS
  <1>4. QED
    BY <1>2, <1>3

LEMMA RowMade ==
    ASSUME serials \in Nat, NEW action, NEW about,
           action = "audit_checkpoint" => about.hash = Upto(about.id),
           NEW head \in Nat, head <= serials
    PROVE  RowRight(RowOf(action, about), serials + 1, head)
           /\ RowOf(action, about).action = action /\ RowOf(action, about).about = about
  <1> DEFINE row == RowOf(action, about)
  <1>1. row = [serial |-> serials + 1, time |-> stamp, action |-> action, about |-> about,
               prev |-> Unsealed, hash |-> Unsealed]
    BY DEF RowOf
  <1>2. DOMAIN row = RowFields /\ row = [x \in RowFields |-> row[x]]
    BY <1>1 DEF RowFields
  <1>3. /\ row.serial = serials + 1 /\ row.action = action /\ row.about = about
        /\ row.hash = Unsealed /\ row.prev = Unsealed
    BY <1>1
  <1> HIDE DEF row
  <1>4. ~ (serials + 1 <= head)
    OBVIOUS
  <1>5. RowRight(row, serials + 1, head)
    BY <1>2, <1>3, <1>4 DEF RowRight
  <1>6. QED
    BY <1>3, <1>5 DEF row

\* A row that does not move stays right while the head is where it is.
LEMMA AppendKeeps ==
    ASSUME serials \in Nat, NEW lo, NEW head, Shape(lo, head), NEW row,
           log' = WithRow(log, row), RowRight(row, serials + 1, head), serials' = serials + 1,
           sealing' = sealing, \A a \in anchors' : a.id \in 1..head /\ a.hash = Upto(a.id)
    PROVE  Shape(lo, head)'
  <1>1. Ids = lo..serials /\ lo \in Nat \ {0} /\ head \in Nat /\ head <= serials
        /\ (IF head = 0 THEN lo = 1 ELSE lo <= head)
        /\ (\A i \in Ids : RowRight(log[i], i, head))
        /\ (\A s \in Sealers : WorkRight(sealing[s], head))
    BY DEF Shape
  <1>2. lo <= serials \/ (serials = 0 /\ lo = 1)
    <2>1. CASE head = 0
      BY <1>1, <2>1
    <2>2. CASE head # 0
      BY <1>1, <2>2
    <2>3. QED
      BY <2>1, <2>2
  <1>3. /\ DOMAIN log' = lo..(serials + 1) /\ log'[serials + 1] = row
        /\ \A i \in lo..serials : log'[i] = log[i]
    <2>1. lo \in Nat \ {0} /\ DOMAIN log = lo..serials
      BY <1>1 DEF Ids
    <2>2. QED
      BY <1>2, <2>1, RowAdded
  <1>4. \A i \in DOMAIN log' : RowRight(log'[i], i, head)
    BY <1>1, <1>3
  <1>5. lo > 1 => \E i \in DOMAIN log' :
                     log'[i].action = "audit_checkpoint" /\ log'[i].about.id = lo - 1
    <2>1. lo > 1 => \E i \in Ids : log[i].action = "audit_checkpoint" /\ log[i].about.id = lo - 1
      BY DEF Shape
    <2>2. QED
      BY <1>1, <1>3, <2>1
  <1>6. QED
    BY <1>1, <1>3, <1>4, <1>5 DEF Shape, Ids

-----------------------------------------------------------------------------

LEMMA AuditConstants ==
    Grace \in Nat /\ Retention \in Nat /\ MaxSerial \in Nat /\ LastStamp \in Nat
  BY AuditChainAssumption

\* A sealed row that is still there is as it was.
RowsAgree == \A i \in Ids : Sealed(i) /\ i \in DOMAIN log' => log'[i] = log[i]

StillAgree == ~ headPruned' => ~ headPruned /\ RowsAgree

LEMMA AppendAgrees ==
    ASSUME serials \in Nat, NEW lo, NEW head, Shape(lo, head), NEW row, log' = WithRow(log, row)
    PROVE  RowsAgree
  <1>1. Ids = lo..serials /\ lo \in Nat \ {0} /\ head \in Nat /\ head <= serials
        /\ (IF head = 0 THEN lo = 1 ELSE lo <= head)
    BY DEF Shape
  <1>2. lo <= serials \/ (serials = 0 /\ lo = 1)
    <2>1. CASE head = 0
      BY <1>1, <2>1
    <2>2. CASE head # 0
      BY <1>1, <2>2
    <2>3. QED
      BY <2>1, <2>2
  <1>3. /\ DOMAIN log' = lo..(serials + 1) /\ log'[serials + 1] = row
        /\ \A i \in lo..serials : log'[i] = log[i]
    <2>1. lo \in Nat \ {0} /\ DOMAIN log = lo..serials
      BY <1>1 DEF Ids
    <2>2. QED
      BY <1>2, <2>1, RowAdded
  <1>4. QED
    BY <1>1, <1>3 DEF RowsAgree

LEMMA KeepsLogAction ==
    ASSUME AuditInv, LogAction
    PROVE  AuditInv' /\ StillAgree
  <1>1. /\ log' = WithRow(log, RowOf("event", NoDetails)) /\ serials' = serials + 1
        /\ UNCHANGED <<stamp, sealing, archive, anchors, headPruned>> /\ serials \in Nat
    BY DEF LogAction, AuditInv
  <1>2. ASSUME ~ headPruned PROVE (\E lo, head : Shape(lo, head)') /\ RowsAgree
    <2>1. PICK lo, head : Shape(lo, head)
      BY <1>2 DEF AuditInv
    <2>2. head \in Nat /\ head <= serials
          /\ \A a \in anchors' : a.id \in 1..head /\ a.hash = Upto(a.id)
      BY <1>1, <2>1 DEF Shape
    <2>3. RowRight(RowOf("event", NoDetails), serials + 1, head)
      BY <1>1, <2>2, RowMade
    <2>4. Shape(lo, head)'
      BY <1>1, <2>1, <2>2, <2>3, AppendKeeps
    <2>5. QED
      BY <1>1, <2>1, <2>4, AppendAgrees
  <1>3. QED
    BY <1>1, <1>2 DEF AuditInv, StillAgree

LEMMA KeepsAnchor ==
    ASSUME AuditInv, Anchor
    PROVE  AuditInv' /\ StillAgree
  <1> DEFINE row == RowOf("audit_anchor", [id |-> HeadId, hash |-> HeadHash])
  <1>1. /\ log' = WithRow(log, row) /\ serials' = serials + 1 /\ serials \in Nat
        /\ UNCHANGED <<stamp, sealing, archive, headPruned>>
        /\ anchors' = IF HeadId = 0 THEN anchors
                      ELSE anchors \union {[id |-> HeadId, hash |-> HeadHash]}
    BY DEF Anchor, AuditInv
  <1>2. ASSUME ~ headPruned PROVE (\E lo, head : Shape(lo, head)') /\ RowsAgree
    <2>1. PICK lo, head : Shape(lo, head)
      BY <1>2 DEF AuditInv
    <2>2. head \in Nat /\ head <= serials
          /\ \A a \in anchors : a.id \in 1..head /\ a.hash = Upto(a.id)
      BY <2>1 DEF Shape
    <2>3. HeadId = head /\ HeadHash = Upto(head)
      BY <1>1, <2>1, ShapeTells
    <2>4. \A a \in anchors' : a.id \in 1..head /\ a.hash = Upto(a.id)
      BY <1>1, <2>2, <2>3
    <2>5. RowRight(row, serials + 1, head)
      BY <1>1, <2>2, RowMade
    <2> HIDE DEF row
    <2>6. Shape(lo, head)'
      BY <1>1, <2>1, <2>4, <2>5, AppendKeeps
    <2>7. QED
      BY <1>1, <2>1, <2>6, AppendAgrees
  <1>3. QED
    BY <1>1, <1>2 DEF AuditInv, StillAgree

\* A step that leaves the table alone
LEMMA TableKept ==
    ASSUME AuditInv, UNCHANGED <<log, serials, anchors, headPruned>>, DOMAIN sealing' = Sealers,
           \A lo, head : Shape(lo, head) =>
               \A s \in Sealers : sealing'[s] = sealing[s] \/ WorkRight(sealing'[s], head)
    PROVE  AuditInv' /\ StillAgree
  <1>1. ASSUME NEW lo, NEW head, Shape(lo, head) PROVE Shape(lo, head)'
    <2>1. \A s \in Sealers : WorkRight(sealing'[s], head)
      BY <1>1 DEF Shape
    <2>2. QED
      BY <1>1, <2>1 DEF Shape, Ids
  <1>2. RowsAgree
    BY DEF RowsAgree
  <1>3. QED
    BY <1>1, <1>2 DEF AuditInv, StillAgree

LEMMA KeepsReadPending ==
    ASSUME AuditInv, NEW s \in Sealers, ReadPending(s)
    PROVE  AuditInv' /\ StillAgree
  <1> DEFINE work == [rows |-> [i \in Sealable |-> ComputeHash(i)], active |-> TRUE]
  <1>1. /\ Sealable # {} /\ sealing' = [sealing EXCEPT ![s] = work]
        /\ UNCHANGED <<log, serials, stamp, archive, anchors, headPruned>>
        /\ serials \in Nat /\ DOMAIN sealing = Sealers
    BY DEF ReadPending, AuditInv
  <1>2. ASSUME NEW lo, NEW head, Shape(lo, head) PROVE WorkRight(work, head)
    <2>1. work.rows = [i \in Sealable |-> ComputeHash(i)]
      OBVIOUS
    <2> HIDE DEF work
    <2>2. \A i \in Sealable :
             /\ i \in Nat \ {0}
             /\ \A j \in Nat : head < j /\ j <= i => j \in Sealable
      BY <1>1, <1>2, SealableIs
    <2>3. \A i \in Sealable : ComputeHash(i) = Upto(i)
      BY <1>1, <1>2, HashIs
    <2>4. QED
      BY <2>1, <2>2, <2>3 DEF WorkRight
  <1> HIDE DEF work
  <1>3. DOMAIN sealing' = Sealers /\ sealing'[s] = work
        /\ \A t \in Sealers \ {s} : sealing'[t] = sealing[t]
    BY <1>1
  <1>4. QED
    BY <1>1, <1>2, <1>3, TableKept

\* The same seals again, or those after them
LEMMA KeepsWriteSeals ==
    ASSUME AuditInv, NEW s \in Sealers, WriteSeals(s)
    PROVE  AuditInv' /\ StillAgree
  <1>0. PICK rows : rows = sealing[s].rows
    OBVIOUS
  <1> DEFINE S == DOMAIN rows
  <1>1. /\ log' = IF S \subseteq Ids
                  THEN [i \in Ids |->
                          IF i \notin S THEN log[i]
                          ELSE [log[i] EXCEPT !.hash = rows[i],
                                              !.prev = SubSeq(rows[i], 1, Len(rows[i]) - 1)]]
                  ELSE log
        /\ sealing' = [sealing EXCEPT ![s] = NoWork]
        /\ UNCHANGED <<serials, stamp, archive, anchors, headPruned>>
        /\ serials \in Nat /\ DOMAIN sealing = Sealers
    BY <1>0 DEF WriteSeals, AuditInv
  <1>2. DOMAIN sealing' = Sealers
        /\ \A t \in Sealers : sealing'[t] = sealing[t] \/ sealing'[t] = NoWork
    BY <1>1
  <1>3. \A head : WorkRight(NoWork, head)
    BY DEF WorkRight, NoWork
  <1>4. CASE ~ (S \subseteq Ids)
    <2>1. log' = log
      BY <1>1, <1>4
    <2>2. QED
      BY <1>1, <1>2, <1>3, <2>1, TableKept
  <1>5. CASE S \subseteq Ids
    <2>1. log' = [i \in Ids |->
                    IF i \notin S THEN log[i]
                    ELSE [log[i] EXCEPT !.hash = rows[i],
                                        !.prev = SubSeq(rows[i], 1, Len(rows[i]) - 1)]]
      BY <1>1, <1>5
    <2>2. ASSUME ~ headPruned PROVE (\E lo, head : Shape(lo, head)') /\ RowsAgree
      <3>1. PICK lo, old : Shape(lo, old)
        BY <2>2 DEF AuditInv
      <3>2. /\ lo \in Nat \ {0} /\ old \in Nat /\ old <= serials /\ Ids = lo..serials
            /\ (IF old = 0 THEN lo = 1 ELSE lo <= old)
        BY <3>1 DEF Shape
      <3>3. \A i \in S : /\ i \in Nat \ {0} /\ i <= serials /\ rows[i] = Upto(i)
                         /\ \A j \in Nat : old < j /\ j <= i => j \in S
        BY <1>0, <1>5, <3>1, <3>2 DEF Shape, WorkRight
      <3> HIDE DEF S
      <3>4. PICK head : /\ head \in S \union {old} /\ head \in Nat /\ old <= head
                        /\ head <= serials /\ \A i \in S : i <= head
        <4>1. S \union {old} \subseteq Nat /\ \A x \in S \union {old} : x <= serials
          BY <3>2, <3>3
        <4>2. Max(S \union {old}) \in S \union {old}
              /\ \A x \in S \union {old} : x <= Max(S \union {old})
          BY <1>1, <4>1, GreatestOf
        <4>3. QED
          BY <4>1, <4>2
      <3>5. \A i \in Ids : i <= head <=> i <= old \/ i \in S
        BY <3>2, <3>3, <3>4
      <3>6. ASSUME NEW i \in Ids
            PROVE  RowRight(log'[i], i, head) /\ log'[i].action = log[i].action
                   /\ log'[i].about = log[i].about /\ (i <= old => log'[i] = log[i])
        <4>1. RowRight(log[i], i, old) /\ i \in Nat /\ i > 0
          BY <3>1, <3>2 DEF Shape
        <4>2. CASE i \notin S
          <5>1. log'[i] = log[i]
            BY <2>1, <4>2
          <5>2. QED
            BY <3>2, <3>4, <3>5, <4>1, <4>2, <5>1 DEF RowRight
        <4>3. CASE i \in S
          <5>1. log'[i] = [log[i] EXCEPT !.hash = Upto(i), !.prev = Upto(i - 1)]
            BY <2>1, <3>3, <4>1, <4>3, UptoIs
          <5>2. DOMAIN log[i] = RowFields
            BY <4>1 DEF RowRight
          <5>3. /\ DOMAIN log'[i] = RowFields /\ log'[i].hash = Upto(i)
                /\ log'[i].prev = Upto(i - 1)
                /\ \A x \in RowFields \ {"hash", "prev"} : log'[i][x] = log[i][x]
            BY <5>1, <5>2 DEF RowFields
          <5>4. log'[i] = [x \in RowFields |-> log'[i][x]]
            BY <5>1, <5>2
          <5>5. RowRight(log'[i], i, head) /\ log'[i].action = log[i].action
                /\ log'[i].about = log[i].about
            <6>1. i <= head /\ ~ (head < i)
              BY <3>4, <4>1, <4>3
            <6>2. log'[i].serial = i /\ log'[i].action = log[i].action
                  /\ log'[i].about = log[i].about
              BY <4>1, <5>3 DEF RowRight, RowFields
            <6>3. log[i].action = "audit_checkpoint" => log[i].about.hash = Upto(log[i].about.id)
              BY <4>1 DEF RowRight
            <6>4. QED
              BY <5>3, <5>4, <6>1, <6>2, <6>3 DEF RowRight
          <5>6. ASSUME i <= old PROVE log'[i] = log[i]
            <6>1. log[i].hash = Upto(i) /\ log[i].prev = Upto(i - 1)
                  /\ log[i] = [x \in RowFields |-> log[i][x]]
              BY <4>1, <5>6 DEF RowRight
            <6>2. \A x \in RowFields : log'[i][x] = log[i][x]
              BY <5>3, <6>1 DEF RowFields
            <6>3. QED
              BY <5>4, <6>1, <6>2
          <5>7. QED
            BY <5>5, <5>6
        <4>4. QED
          BY <4>2, <4>3
      <3>7. DOMAIN log' = Ids
        BY <2>1
      <3>8. IF head = 0 THEN lo = 1 ELSE lo <= head
        BY <3>2, <3>4
      <3>9. lo > 1 => \E i \in DOMAIN log' :
                         log'[i].action = "audit_checkpoint" /\ log'[i].about.id = lo - 1
        BY <3>1, <3>6, <3>7 DEF Shape
      <3>10. ASSUME NEW t \in Sealers PROVE WorkRight(sealing'[t], head)
        <4>1. WorkRight(sealing[t], old)
          BY <3>1 DEF Shape
        <4>2. WorkRight(sealing[t], head)
          <5>1. \A j \in Nat : head < j => old < j
            BY <3>2, <3>4
          <5>2. QED
            BY <4>1, <5>1 DEF WorkRight
        <4>3. QED
          BY <1>2, <1>3, <4>2
      <3>11. \A a \in anchors' : a.id \in 1..head /\ a.hash = Upto(a.id)
        <4>1. \A a \in anchors : a.id \in 1..old /\ a.hash = Upto(a.id)
          BY <3>1 DEF Shape
        <4>2. \A x \in 1..old : x \in 1..head
          BY <3>2, <3>4
        <4>3. QED
          BY <1>1, <4>1, <4>2
      <3>12. Shape(lo, head)'
        BY <1>1, <3>2, <3>4, <3>6, <3>7, <3>8, <3>9, <3>10, <3>11 DEF Shape, Ids
      <3>13. RowsAgree
        <4>1. \A i \in Ids : Sealed(i) => i <= old
          BY <1>1, <3>1, ShapeTells
        <4>2. QED
          BY <3>6, <4>1 DEF RowsAgree
      <3>14. QED
        BY <3>12, <3>13
    <2>3. QED
      BY <1>1, <1>2, <2>2 DEF AuditInv, StillAgree
  <1>6. QED
    BY <1>4, <1>5

\* The rows that may be pruned are those up to the newest of them, all sealed.
LEMMA PrunableIs ==
    ASSUME serials \in Nat, NEW lo, NEW head, Shape(lo, head), Prunable # {}
    PROVE  /\ Max(Prunable) \in Nat /\ lo <= Max(Prunable) /\ Max(Prunable) <= head
           /\ Prunable = lo..Max(Prunable)
  <1> DEFINE old(i) == i \in Ids /\ Sealed(i) /\ log[i].time < stamp - Retention
  <1>1. Ids = lo..serials /\ lo \in Nat \ {0} /\ head \in Nat /\ head <= serials
    BY DEF Shape
  <1>2. Ids # {}
    BY DEF Prunable
  <1>3. Prunable = {i \in Ids : \A j \in lo..i : old(j)}
    BY <1>2, ShapeTells DEF Prunable
  <1>4. \A i : old(i) => i \in Nat /\ lo <= i /\ i <= head
    BY <1>1, ShapeTells
  <1> HIDE DEF old
  <1>5. \A i \in Prunable : i \in Nat /\ lo <= i /\ i <= head
    <2> SUFFICES ASSUME NEW i \in Prunable PROVE i \in Nat /\ lo <= i /\ i <= head
      OBVIOUS
    <2>1. i \in lo..i
      BY <1>1, <1>3
    <2>2. QED
      BY <1>3, <1>4, <2>1
  <1>6. Max(Prunable) \in Prunable /\ \A x \in Prunable : x <= Max(Prunable)
    <2>1. Prunable \subseteq Nat /\ \A x \in Prunable : x <= head
      BY <1>5
    <2>2. QED
      BY <1>1, <2>1, GreatestOf
  <1>7. PICK t : t = Max(Prunable)
    OBVIOUS
  <1>8. t \in Nat /\ lo <= t /\ t <= head
    BY <1>5, <1>6, <1>7
  <1>9. ASSUME NEW i \in lo..t PROVE i \in Prunable
    <2>1. i \in Ids /\ \A j \in lo..i : j \in lo..t
      BY <1>1, <1>8
    <2>2. \A j \in lo..t : old(j)
      BY <1>3, <1>6, <1>7
    <2>3. QED
      BY <1>3, <2>1, <2>2
  <1>10. ASSUME NEW i \in Prunable PROVE i \in lo..t
    BY <1>1, <1>5, <1>6, <1>7, <1>8
  <1>11. QED
    BY <1>7, <1>8, <1>9, <1>10

LEMMA KeepsPrune ==
    ASSUME AuditInv, Prune
    PROVE  AuditInv' /\ StillAgree
  <1>0. PICK through, kept :
            through = Max(Prunable) /\ kept = [i \in Ids \ Prunable |-> log[i]]
    OBVIOUS
  <1>1. PICK row : row = RowOf("audit_checkpoint", [id |-> through, hash |-> log[through].hash])
    OBVIOUS
  <1>2. /\ Prunable # {} /\ log' = WithRow(kept, row) /\ serials' = serials + 1
        /\ headPruned' = (headPruned \/ through = HeadId)
        /\ UNCHANGED <<stamp, sealing, anchors>>
        /\ serials \in Nat /\ headPruned \in BOOLEAN /\ DOMAIN sealing = Sealers
    BY <1>0, <1>1 DEF Prune, AuditInv
  <1>3. ASSUME ~ headPruned'
        PROVE  ~ headPruned /\ (\E lo, head : Shape(lo, head)') /\ RowsAgree
    <2>1. ~ headPruned /\ through # HeadId
      BY <1>2, <1>3
    <2>2. PICK lo, head : Shape(lo, head)
      BY <2>1 DEF AuditInv
    <2>3. /\ lo \in Nat \ {0} /\ head \in Nat /\ head <= serials /\ Ids = lo..serials
          /\ \A i \in Ids : RowRight(log[i], i, head)
          /\ \A s \in Sealers : WorkRight(sealing[s], head)
          /\ \A a \in anchors : a.id \in 1..head /\ a.hash = Upto(a.id)
      BY <2>2 DEF Shape
    <2>4. through \in Nat /\ lo <= through /\ through < head /\ Prunable = lo..through
      <3>1. HeadId = head
        BY <1>2, <2>2, ShapeTells
      <3>2. through \in Nat /\ lo <= through /\ through <= head /\ Prunable = lo..through
        BY <1>0, <1>2, <2>2, PrunableIs
      <3>3. QED
        BY <2>1, <2>3, <3>1, <3>2
    <2>5. DOMAIN kept = (through + 1)..serials
          /\ \A i \in (through + 1)..serials : kept[i] = log[i] /\ i \in Ids
      <3>1. Ids \ Prunable = (through + 1)..serials
        BY <2>3, <2>4
      <3>2. QED
        BY <1>0, <3>1
    <2>6. /\ DOMAIN log' = (through + 1)..(serials + 1) /\ log'[serials + 1] = row
          /\ \A i \in (through + 1)..serials : log'[i] = kept[i]
      <3>1. PICK a : a = through + 1
        OBVIOUS
      <3>2. a \in Nat \ {0} /\ a <= serials
        BY <1>2, <2>3, <2>4, <3>1
      <3>3. DOMAIN kept = a..serials
        BY <2>5, <3>1
      <3>4. /\ DOMAIN log' = a..(serials + 1) /\ log'[serials + 1] = row
            /\ \A i \in a..serials : log'[i] = kept[i]
        <4>1. serials \in Nat /\ log' = WithRow(kept, row)
          BY <1>2
        <4>2. a \in Nat \ {0} /\ (a <= serials \/ (serials = 0 /\ a = 1))
          BY <3>2
        <4>3. QED
          BY <3>3, <4>1, <4>2, RowAdded
      <3>5. QED
        BY <3>1, <3>4
    <2>7. RowRight(row, serials + 1, head) /\ row.action = "audit_checkpoint"
          /\ row.about.id = through
      <3>1. PICK about : about = [id |-> through, hash |-> log[through].hash]
        OBVIOUS
      <3>2. log[through].hash = Upto(through)
        <4>1. through \in Ids /\ through <= head
          BY <1>2, <2>3, <2>4
        <4>2. QED
          BY <2>3, <4>1 DEF RowRight
      <3>3. about.hash = Upto(about.id) /\ about.id = through
        BY <3>1, <3>2
      <3>4. row = RowOf("audit_checkpoint", about)
        BY <1>1, <3>1
      <3>5. QED
        BY <1>2, <2>3, <3>3, <3>4, RowMade
    <2>8. \A i \in DOMAIN log' : RowRight(log'[i], i, head)
      <3>1. \A i \in (through + 1)..(serials + 1) :
                i = serials + 1 \/ i \in (through + 1)..serials
        BY <1>2, <2>4
      <3>2. QED
        BY <2>3, <2>5, <2>6, <2>7, <3>1
    <2>9. through + 1 \in Nat \ {0} /\ head # 0 /\ through + 1 <= head /\ head <= serials + 1
          /\ serials + 1 \in (through + 1)..(serials + 1)
          /\ (through + 1) - 1 = through
      BY <1>2, <2>3, <2>4
    <2>10. \E i \in DOMAIN log' : log'[i].action = "audit_checkpoint"
                                  /\ log'[i].about.id = (through + 1) - 1
      BY <2>6, <2>7, <2>9
    <2>11. PICK new : new = through + 1
      OBVIOUS
    <2>12. Shape(new, head)'
      BY <1>2, <2>3, <2>6, <2>8, <2>9, <2>10, <2>11 DEF Shape, Ids
    <2>13. RowsAgree
      <3>1. \A i \in Ids : i \in (through + 1)..(serials + 1) => i \in (through + 1)..serials
        BY <1>2, <2>3, <2>4
      <3>2. QED
        BY <2>5, <2>6, <3>1 DEF RowsAgree
    <2>14. QED
      BY <2>1, <2>12, <2>13
  <1>4. QED
    BY <1>2, <1>3 DEF AuditInv, StillAgree

LEMMA AuditInvInit ==
    ASSUME ChainInit
    PROVE  AuditInv
  <1>1. log = <<>> /\ serials = 0 /\ sealing = [s \in Sealers |-> NoWork] /\ anchors = {}
        /\ headPruned = FALSE
    BY DEF ChainInit
  <1>2. Ids = {} /\ 1..0 = {}
    BY <1>1 DEF Ids
  <1>3. \A s \in Sealers : WorkRight(sealing[s], 0)
    BY <1>1 DEF WorkRight, NoWork
  <1>4. Shape(1, 0)
    BY <1>1, <1>2, <1>3 DEF Shape
  <1>5. QED
    BY <1>1, <1>4 DEF AuditInv

LEMMA AuditInvStep ==
    ASSUME AuditInv, [ChainNext]_chainVars
    PROVE  AuditInv' /\ (StillAgree \/ UNCHANGED chainVars)
  <1>1. CASE LogAction
    BY <1>1, KeepsLogAction
  <1>2. ASSUME NEW s \in Sealers, ReadPending(s)
        PROVE  AuditInv' /\ StillAgree
    BY <1>2, KeepsReadPending
  <1>3. ASSUME NEW s \in Sealers, WriteSeals(s)
        PROVE  AuditInv' /\ StillAgree
    BY <1>3, KeepsWriteSeals
  <1>4. CASE Anchor
    BY <1>4, KeepsAnchor
  <1>5. CASE Prune
    BY <1>5, KeepsPrune
  <1>6. CASE PruneFails \/ PassStamp
    <2>1. UNCHANGED <<log, serials, sealing, anchors, headPruned>>
      BY <1>6 DEF PruneFails, PassStamp
    <2>2. DOMAIN sealing = Sealers
      BY DEF AuditInv
    <2>3. QED
      BY <2>1, <2>2, TableKept
  <1>7. CASE UNCHANGED chainVars
    <2>1. UNCHANGED <<log, serials, sealing, anchors, headPruned>>
      BY <1>7 DEF chainVars
    <2>2. DOMAIN sealing = Sealers
      BY DEF AuditInv
    <2>3. QED
      BY <2>1, <2>2, TableKept
  <1>8. QED
    BY <1>1, <1>2, <1>3, <1>4, <1>5, <1>6, <1>7 DEF ChainNext

\* In a chain of that shape, verify finds nothing.
LEMMA ShapeVerifies ==
    ASSUME serials \in Nat, NEW lo, NEW head, Shape(lo, head)
    PROVE  Verify
  <1> SUFFICES ASSUME Ids # {}, Sealed(Min(Ids))
               PROVE  /\ log[Min(Ids)].prev # Genesis => Vouched(Min(Ids))
                      /\ \A i \in Ids : RowGood(i, Min(Ids))
    BY DEF Verify
  <1>1. /\ lo \in Nat \ {0} /\ head \in Nat /\ head <= serials /\ Ids = lo..serials
        /\ \A i \in Ids : RowRight(log[i], i, head)
        /\ lo > 1 => \E i \in Ids : log[i].action = "audit_checkpoint" /\ log[i].about.id = lo - 1
    BY DEF Shape
  <1>2. Min(Ids) = lo /\ lo \in Ids /\ \A i \in Ids : Sealed(i) <=> i <= head
    BY <1>1, ShapeTells
  <1>3. lo <= head
    BY <1>2
  <1>4. \A i \in Ids : i <= head => log[i].hash = Upto(i) /\ log[i].prev = Upto(i - 1)
                                    /\ log[i].serial = i
    BY <1>1 DEF RowRight
  <1>5. ASSUME log[lo].prev # Genesis PROVE Vouched(lo)
    <2>1. lo > 1
      <3>1. lo - 1 \in Nat /\ Upto(lo - 1) # Genesis
        BY <1>1, <1>2, <1>3, <1>4, <1>5
      <3>2. QED
        BY <1>1, <3>1, UptoIs
    <2> DEFINE cps == {i \in Ids : log[i].action = "audit_checkpoint"
                                   /\ log[i].about.id = lo - 1}
    <2>2. cps # {} /\ cps \subseteq Nat /\ \A x \in cps : x <= serials
      BY <1>1, <2>1
    <2> HIDE DEF cps
    <2>3. Max(cps) \in cps
      BY <2>2, GreatestOf
    <2>4. PICK m \in Ids : /\ m = Max(cps) /\ log[m].action = "audit_checkpoint"
                           /\ log[m].about.id = lo - 1
      BY <2>3 DEF cps
    <2>5. log[m].about.hash = Upto(lo - 1)
      BY <1>1, <2>4 DEF RowRight
    <2>6. QED
      BY <1>2, <1>3, <1>4, <2>2, <2>4, <2>5 DEF Vouched, cps
  <1>6. ASSUME NEW i \in Ids PROVE RowGood(i, lo)
    <2>1. CASE ~ (i <= head)
      <3>1. \A j \in Ids : j > i => ~ (j <= head)
        BY <1>1, <2>1
      <3>2. QED
        BY <1>2, <2>1, <3>1 DEF RowGood
    <2>2. CASE i <= head
      <3>1. i \in Nat /\ i > 0 /\ lo <= i
        BY <1>1
      <3>2. log[i].hash = Append(log[i].prev, log[i].serial)
        <4>1. Append(Upto(i - 1), i) = Upto(i)
          BY <3>1, UptoIs
        <4>2. QED
          BY <1>4, <2>2, <4>1
      <3>3. CASE i = lo
        BY <1>2, <2>2, <3>2, <3>3 DEF RowGood
      <3>4. CASE i # lo
        <4>1. i - 1 \in Ids /\ i - 1 <= head
          BY <1>1, <2>2, <3>1, <3>4
        <4>2. log[i].prev = log[i - 1].hash
          BY <1>4, <2>2, <4>1
        <4>3. QED
          BY <1>2, <2>2, <3>2, <3>4, <4>1, <4>2 DEF RowGood
      <3>5. QED
        BY <3>3, <3>4
    <2>3. QED
      BY <2>1, <2>2
  <1>7. QED
    BY <1>2, <1>5, <1>6

LEMMA AuditInvHolds ==
    ASSUME AuditInv
    PROVE  ChainHolds
  <1> SUFFICES ASSUME ~ headPruned
               PROVE  /\ Verify
                      /\ \A a \in anchors : a.id \in Ids => log[a.id].hash = a.hash
                      /\ \A i \in Ids : Sealed(i) /\ log[i].prev = Genesis => log[i].serial = 1
    BY DEF ChainHolds
  <1>1. PICK lo, head : Shape(lo, head)
    BY DEF AuditInv
  <1>2. serials \in Nat
    BY DEF AuditInv
  <1>3. /\ lo \in Nat \ {0} /\ head \in Nat /\ Ids = lo..serials
        /\ \A i \in Ids : RowRight(log[i], i, head)
        /\ \A a \in anchors : a.id \in 1..head /\ a.hash = Upto(a.id)
    BY <1>1 DEF Shape
  <1>4. Verify
    BY <1>1, <1>2, ShapeVerifies
  <1>5. ASSUME NEW a \in anchors, a.id \in Ids PROVE log[a.id].hash = a.hash
    <2>1. a.id <= head /\ a.hash = Upto(a.id)
      BY <1>3
    <2>2. QED
      BY <1>3, <1>5, <2>1 DEF RowRight
  <1>6. ASSUME NEW i \in Ids, Sealed(i), log[i].prev = Genesis PROVE log[i].serial = 1
    <2>1. i <= head /\ i \in Nat /\ i > 0 /\ i - 1 \in Nat
      BY <1>1, <1>2, <1>3, <1>6, ShapeTells
    <2>2. log[i].prev = Upto(i - 1) /\ log[i].serial = i
      BY <1>3, <2>1 DEF RowRight
    <2>3. i - 1 = 0
      BY <1>6, <2>1, <2>2, UptoIs
    <2>4. QED
      BY <2>1, <2>2, <2>3
  <1>7. QED
    BY <1>4, <1>5, <1>6

LEMMA AuditInvAlways == ChainSpec => []AuditInv
  <1>1. ChainInit => AuditInv
    BY AuditInvInit
  <1>2. AuditInv /\ [ChainNext]_chainVars => AuditInv'
    BY AuditInvStep
  <1>3. QED
    BY <1>1, <1>2, PTL DEF ChainSpec

\* As long as no pruning has taken the head, verify finds nothing to report, every row that the
\* receiver of the anchors was told of has that hash, and only the first row of all links to
\* nothing (verify, anchor and prune in services/audit_chain.py).
THEOREM ChainHoldsHolds == ChainSpec => []ChainHolds
  <1>1. AuditInv => ChainHolds
    BY AuditInvHolds
  <1>2. QED
    BY <1>1, AuditInvAlways, PTL

\* A sealed row keeps its hash until it is pruned, however many sealers read the head at once and
\* write later (seal in services/audit_chain.py).
THEOREM SealsAgreeHolds == ChainSpec => SealsAgree
  <1>1. AuditInv /\ [ChainNext]_chainVars =>
            [~ headPruned' => \A i \in Ids :
                Sealed(i) /\ i \in DOMAIN log' => log'[i] = log[i]]_chainVars
    <2>1. StillAgree => (~ headPruned' => \A i \in Ids :
                Sealed(i) /\ i \in DOMAIN log' => log'[i] = log[i])
      BY DEF StillAgree, RowsAgree
    <2>2. QED
      BY <2>1, AuditInvStep
  <1>2. QED
    BY <1>1, AuditInvAlways, PTL DEF ChainSpec, SealsAgree

-----------------------------------------------------------------------------
\* The type of the chain, whatever has been pruned

Details == [id : 0..MaxSerial, hash : Hashes]

AuditRows == [serial : 1..MaxSerial, time : Stamps,
              action : {"event", "audit_anchor", "audit_checkpoint"},
              about : Details, prev : Hashes, hash : Hashes]

ChainTypeInv ==
    /\ \A i \in Ids : i \in 1..serials /\ log[i] \in AuditRows
    /\ serials \in 0..MaxSerial /\ stamp \in Stamps
    /\ DOMAIN sealing = Sealers
    /\ \A s \in Sealers : /\ sealing[s].active \in BOOLEAN
                          /\ \A i \in DOMAIN sealing[s].rows :
                                sealing[s].rows[i] \in Hashes /\ Len(sealing[s].rows[i]) > 0
    /\ anchors \subseteq [id : 1..MaxSerial, hash : Hashes]
    /\ headPruned \in BOOLEAN

LEMMA SmallestOf ==
    ASSUME NEW T, T \subseteq Nat, T # {}
    PROVE  Min(T) \in T /\ \A x \in T : Min(T) <= x
  <1>1. PICK m \in T : \A x \in T : m <= x
    BY LeastOf
  <1>2. Min(T) = m
    <2>1. T \subseteq Int
      OBVIOUS
    <2>2. QED
      BY <1>1, <2>1, MinIs
  <1>3. QED
    BY <1>1, <1>2

LEMMA HashesAre ==
    Genesis \in Hashes /\ Unsealed \in Hashes
  BY AuditConstants DEF Genesis, Unsealed, Hashes

LEMMA SeqOf ==
    ASSUME NEW S, NEW n \in Nat, NEW f \in [1..n -> S]
    PROVE  f \in Seq(S) /\ Len(f) = n
  <1>1. f \in Seq(S)
    OBVIOUS
  <1>2. DOMAIN f = 1..n
    OBVIOUS
  <1>3. QED
    BY <1>1, <1>2

LEMMA AllButLast ==
    ASSUME NEW S, NEW h \in Seq(S), Len(h) > 0
    PROVE  SubSeq(h, 1, Len(h) - 1) \in Seq(S)
  <1>1. PICK n : n = Len(h) - 1
    OBVIOUS
  <1>2. n \in Nat /\ n <= Len(h)
    BY <1>1
  <1>3. SubSeq(h, 1, n) = [k \in 1..n |-> h[k]]
    BY <1>2
  <1>4. \A k \in 1..n : h[k] \in S
    BY <1>2
  <1>5. QED
    BY <1>1, <1>2, <1>3, <1>4

\* What is not the new row was there before.
LEMMA RowsGrow ==
    ASSUME NEW rows, NEW row, NEW n \in Nat, DOMAIN rows \subseteq 1..n,
           NEW more, more = WithRow(rows, row)
    PROVE  \A i \in DOMAIN more : /\ i \in 1..(n + 1)
                                  /\ more[i] = row \/ (i \in DOMAIN rows /\ more[i] = rows[i])
  <1>1. PICK m : m = Max(DOMAIN rows \union {0})
    OBVIOUS
  <1>2. m \in 0..n
    <2> DEFINE T == DOMAIN rows \union {0}
    <2>1. T \subseteq Nat /\ T # {} /\ \A x \in T : x <= n
      OBVIOUS
    <2> HIDE DEF T
    <2>2. Max(T) \in T
      BY <2>1, GreatestOf
    <2>3. QED
      BY <1>1, <2>1, <2>2 DEF T
  <1>3. more = [i \in DOMAIN rows \union {m + 1} |-> IF i = m + 1 THEN row ELSE rows[i]]
    BY <1>1 DEF WithRow
  <1>4. m + 1 \in 1..(n + 1) /\ \A i \in 1..n : i \in 1..(n + 1)
    BY <1>2
  <1>5. QED
    BY <1>3, <1>4

LEMMA HeadTyped ==
    ASSUME ChainTypeInv
    PROVE  HeadId \in 0..MaxSerial /\ (HeadId # 0 => HeadId \in Ids) /\ HeadHash \in Hashes
  <1>1. serials \in 0..MaxSerial /\ MaxSerial \in Nat
        /\ \A i \in Ids : i \in 1..serials /\ log[i] \in AuditRows
    BY AuditConstants DEF ChainTypeInv
  <1> DEFINE T == {i \in Ids : Sealed(i)} \union {0}
  <1>2. T \subseteq Nat /\ T # {} /\ (\A x \in T : x <= serials) /\ \A x \in T : x = 0 \/ x \in Ids
    BY <1>1
  <1> HIDE DEF T
  <1>3. Max(T) \in T
    <2>1. serials \in Nat
      BY <1>1
    <2>2. QED
      BY <1>2, <2>1, GreatestOf
  <1>4. HeadId = Max(T)
    BY DEF HeadId, T
  <1>5. HeadId \in 0..MaxSerial /\ (HeadId # 0 => HeadId \in Ids)
    <2>1. HeadId \in Nat /\ HeadId <= serials
      BY <1>2, <1>3, <1>4
    <2>2. QED
      BY <1>1, <1>2, <1>3, <1>4, <2>1
  <1>6. HeadHash \in Hashes
    <2>1. HeadId # 0 => log[HeadId].hash \in Hashes
      BY <1>1, <1>5 DEF AuditRows
    <2>2. QED
      BY <2>1, HashesAre DEF HeadHash
  <1>7. QED
    BY <1>5, <1>6

\* A hash that is computed vouches for serials, and for one at least.
LEMMA HashTyped ==
    ASSUME ChainTypeInv, NEW i \in Sealable
    PROVE  ComputeHash(i) \in Hashes /\ Len(ComputeHash(i)) > 0
  <1> DEFINE pending == {j \in Ids : ~ Sealed(j) /\ j > HeadId}
             good(j) == j \in pending /\ log[j].time <= stamp - Grace
             first == IF pending = {} THEN 0 ELSE Min(pending)
  <1>1. Sealable = {j \in pending : /\ HeadId # 0 => first = HeadId + 1
                                    /\ \A k \in first..j : good(k)}
    BY DEF Sealable
  <1>2. \A j \in Ids : j \in Nat /\ log[j].serial \in 0..MaxSerial
    BY DEF ChainTypeInv, AuditRows
  <1>3. pending # {} /\ pending \subseteq Nat /\ pending \subseteq Ids
    BY <1>1, <1>2
  <1> HIDE DEF pending
  <1>4. first \in Nat /\ \A j \in pending : first <= j
    BY <1>3, SmallestOf
  <1>5. \A j \in Sealable : j \in Nat /\ first <= j /\ \A k \in first..j : k \in Ids
    BY <1>1, <1>3, <1>4
  <1> HIDE DEF first
  <1>6. PICK m : m = Min(Sealable)
    OBVIOUS
  <1>7. m \in Nat /\ first <= m /\ m <= i
    <2>1. Sealable \subseteq Nat /\ Sealable # {}
      BY <1>5
    <2>2. m \in Sealable /\ m <= i
      BY <1>6, <2>1, SmallestOf
    <2>3. QED
      BY <1>5, <2>2
  <1>8. PICK n : n = i - m + 1
    OBVIOUS
  <1>9. n \in Nat /\ n > 0
    BY <1>5, <1>7, <1>8
  <1>10. \A k \in 1..n : log[m + k - 1].serial \in 0..MaxSerial
    <2> SUFFICES ASSUME NEW k \in 1..n PROVE log[m + k - 1].serial \in 0..MaxSerial
      OBVIOUS
    <2>1. m + k - 1 \in first..i
      BY <1>4, <1>5, <1>7, <1>8, <1>9
    <2>2. QED
      BY <1>2, <1>5, <2>1
  <1>11. PICK tail : tail = [k \in 1..n |-> log[m + k - 1].serial]
    OBVIOUS
  <1>12. tail \in Seq(0..MaxSerial) /\ Len(tail) = n
    <2>1. tail \in [1..n -> 0..MaxSerial]
      BY <1>10, <1>11
    <2>2. QED
      BY <1>9, <2>1, SeqOf
  <1>13. ComputeHash(i) = HeadHash \o tail
    BY <1>6, <1>8, <1>11 DEF ComputeHash
  <1>14. HeadHash \in Seq(0..MaxSerial)
    BY HeadTyped DEF Hashes
  <1>15. HeadHash \o tail \in Seq(0..MaxSerial) /\ Len(HeadHash \o tail) = Len(HeadHash) + n
    BY <1>12, <1>14
  <1>16. QED
    BY <1>9, <1>13, <1>14, <1>15 DEF Hashes

\* A row that is written, whatever it is about
LEMMA TypeOfAppend ==
    ASSUME ChainTypeInv, serials < MaxSerial, serials' = serials + 1,
           NEW action \in {"event", "audit_anchor", "audit_checkpoint"}, NEW about \in Details,
           NEW rows, DOMAIN rows \subseteq Ids, \A i \in DOMAIN rows : rows[i] = log[i],
           log' = WithRow(rows, RowOf(action, about))
    PROVE  /\ serials' \in 0..MaxSerial
           /\ \A i \in Ids' : i \in 1..serials' /\ log'[i] \in AuditRows
  <1>1. serials \in Nat /\ serials' \in 0..MaxSerial /\ serials + 1 \in 1..MaxSerial
        /\ stamp \in Stamps /\ \A i \in Ids : i \in 1..serials /\ log[i] \in AuditRows
    BY AuditConstants DEF ChainTypeInv
  <1>2. RowOf(action, about) \in AuditRows
    BY <1>1, HashesAre DEF RowOf, AuditRows
  <1>3. \A i \in DOMAIN log' :
           /\ i \in 1..(serials + 1)
           /\ log'[i] = RowOf(action, about) \/ (i \in DOMAIN rows /\ log'[i] = rows[i])
    <2>1. DOMAIN rows \subseteq 1..serials /\ serials \in Nat
      BY <1>1
    <2>2. PICK row, more : row = RowOf(action, about) /\ more = log'
      OBVIOUS
    <2>3. more = WithRow(rows, row)
      BY <2>2
    <2>4. QED
      BY <2>1, <2>2, <2>3, RowsGrow
  <1>4. QED
    BY <1>1, <1>2, <1>3 DEF Ids

LEMMA TypeOfWriteSeals ==
    ASSUME ChainTypeInv, NEW s \in Sealers, WriteSeals(s)
    PROVE  ChainTypeInv'
  <1>1. PICK rows : rows = sealing[s].rows
    OBVIOUS
  <1>2. /\ log' = IF DOMAIN rows \subseteq Ids
                  THEN [i \in Ids |->
                          IF i \notin DOMAIN rows THEN log[i]
                          ELSE [log[i] EXCEPT !.hash = rows[i],
                                              !.prev = SubSeq(rows[i], 1, Len(rows[i]) - 1)]]
                  ELSE log
        /\ sealing' = [sealing EXCEPT ![s] = NoWork]
        /\ UNCHANGED <<serials, stamp, archive, anchors, headPruned>>
    BY <1>1 DEF WriteSeals
  <1>3. DOMAIN log' = Ids
    BY <1>2 DEF Ids
  <1>4. ASSUME NEW i \in Ids PROVE i \in 1..serials /\ log'[i] \in AuditRows
    <2>1. i \in 1..serials /\ log[i] \in AuditRows
      BY DEF ChainTypeInv
    <2>2. log'[i] = log[i]
          \/ (i \in DOMAIN rows
              /\ log'[i] = [log[i] EXCEPT !.hash = rows[i],
                                          !.prev = SubSeq(rows[i], 1, Len(rows[i]) - 1)])
      BY <1>2
    <2>3. ASSUME i \in DOMAIN rows,
                 log'[i] = [log[i] EXCEPT !.hash = rows[i],
                                          !.prev = SubSeq(rows[i], 1, Len(rows[i]) - 1)]
          PROVE  log'[i] \in AuditRows
      <3>1. rows[i] \in Seq(0..MaxSerial) /\ Len(rows[i]) > 0
        BY <1>1, <2>3 DEF ChainTypeInv, Hashes
      <3>2. SubSeq(rows[i], 1, Len(rows[i]) - 1) \in Seq(0..MaxSerial)
        BY <3>1, AllButLast
      <3>3. QED
        BY <2>1, <2>3, <3>1, <3>2 DEF AuditRows, Hashes
    <2>4. QED
      BY <2>1, <2>2, <2>3
  <1>5. DOMAIN sealing' = Sealers /\ \A t \in Sealers :
            sealing'[t] = sealing[t] \/ sealing'[t] = NoWork
    BY <1>2 DEF ChainTypeInv
  <1>6. \A t \in Sealers : /\ sealing'[t].active \in BOOLEAN
                           /\ \A i \in DOMAIN sealing'[t].rows :
                                 sealing'[t].rows[i] \in Hashes /\ Len(sealing'[t].rows[i]) > 0
    <2>1. NoWork.active = FALSE /\ DOMAIN NoWork.rows = {}
      BY DEF NoWork
    <2>2. QED
      BY <1>5, <2>1 DEF ChainTypeInv
  <1>7. QED
    BY <1>2, <1>3, <1>4, <1>5, <1>6 DEF ChainTypeInv, Ids

LEMMA TypeOfReadPending ==
    ASSUME ChainTypeInv, NEW s \in Sealers, ReadPending(s)
    PROVE  ChainTypeInv'
  <1>1. PICK work : work = [rows |-> [i \in Sealable |-> ComputeHash(i)], active |-> TRUE]
    OBVIOUS
  <1>2. sealing' = [sealing EXCEPT ![s] = work]
        /\ UNCHANGED <<log, serials, stamp, archive, anchors, headPruned>>
    BY <1>1 DEF ReadPending
  <1>3. work.active = TRUE /\ \A i \in DOMAIN work.rows :
            work.rows[i] \in Hashes /\ Len(work.rows[i]) > 0
    BY <1>1, HashTyped
  <1>4. DOMAIN sealing' = Sealers /\ sealing'[s] = work
        /\ \A t \in Sealers \ {s} : sealing'[t] = sealing[t]
    BY <1>2 DEF ChainTypeInv
  <1>5. \A t \in Sealers : /\ sealing'[t].active \in BOOLEAN
                           /\ \A i \in DOMAIN sealing'[t].rows :
                                 sealing'[t].rows[i] \in Hashes /\ Len(sealing'[t].rows[i]) > 0
    BY <1>3, <1>4 DEF ChainTypeInv
  <1>6. QED
    BY <1>2, <1>4, <1>5 DEF ChainTypeInv, Ids

LEMMA TypeOfPrune ==
    ASSUME ChainTypeInv, Prune
    PROVE  ChainTypeInv'
  <1>1. PICK through, kept :
            through = Max(Prunable) /\ kept = [i \in Ids \ Prunable |-> log[i]]
    OBVIOUS
  <1>2. PICK about : about = [id |-> through, hash |-> log[through].hash]
    OBVIOUS
  <1>3. /\ serials < MaxSerial /\ Prunable # {}
        /\ log' = WithRow(kept, RowOf("audit_checkpoint", about)) /\ serials' = serials + 1
        /\ headPruned' = (headPruned \/ through = HeadId)
        /\ UNCHANGED <<stamp, sealing, anchors>>
    BY <1>1, <1>2 DEF Prune
  <1>4. through \in Ids
    <2>1. Prunable \subseteq Ids
      BY DEF Prunable
    <2>2. serials \in Nat /\ Ids \subseteq Nat /\ \A x \in Ids : x <= serials
      BY DEF ChainTypeInv
    <2>3. QED
      BY <1>1, <1>3, <2>1, <2>2, GreatestOf
  <1>5. about \in Details
    <2>1. through \in 0..MaxSerial
      BY <1>4, AuditConstants DEF ChainTypeInv
    <2>2. log[through].hash \in Hashes
      BY <1>4 DEF ChainTypeInv, AuditRows
    <2>3. QED
      BY <1>2, <2>1, <2>2 DEF Details
  <1>6. DOMAIN kept \subseteq Ids /\ \A i \in DOMAIN kept : kept[i] = log[i]
    BY <1>1
  <1>7. /\ serials' \in 0..MaxSerial
        /\ \A i \in Ids' : i \in 1..serials' /\ log'[i] \in AuditRows
    BY <1>3, <1>5, <1>6, TypeOfAppend
  <1>8. headPruned' \in BOOLEAN
    BY <1>3
  <1>9. QED
    BY <1>3, <1>7, <1>8 DEF ChainTypeInv

\* An event or an anchor
LEMMA TypeOfRow ==
    ASSUME ChainTypeInv, LogAction \/ Anchor
    PROVE  ChainTypeInv'
  <1>1. HeadId \in 0..MaxSerial /\ HeadHash \in Hashes
    BY HeadTyped
  <1>2. PICK action \in {"event", "audit_anchor", "audit_checkpoint"}, about \in Details :
            log' = WithRow(log, RowOf(action, about))
    <2>1. CASE LogAction
      <3>1. NoDetails \in Details
        BY AuditConstants, HashesAre DEF NoDetails, Details
      <3>2. QED
        BY <2>1, <3>1 DEF LogAction
    <2>2. CASE Anchor
      <3>1. [id |-> HeadId, hash |-> HeadHash] \in Details
        BY <1>1 DEF Details
      <3>2. QED
        BY <2>2, <3>1 DEF Anchor
    <2>3. QED
      BY <2>1, <2>2
  <1>3. serials < MaxSerial /\ serials' = serials + 1 /\ UNCHANGED <<stamp, sealing, headPruned>>
    BY DEF LogAction, Anchor
  <1>4. /\ serials' \in 0..MaxSerial
        /\ \A i \in Ids' : i \in 1..serials' /\ log'[i] \in AuditRows
    <2>1. DOMAIN log \subseteq Ids /\ \A i \in DOMAIN log : log[i] = log[i]
      BY DEF Ids
    <2>2. QED
      BY <1>2, <1>3, <2>1, TypeOfAppend
  <1>5. anchors' \subseteq [id : 1..MaxSerial, hash : Hashes]
    <2>1. anchors \subseteq [id : 1..MaxSerial, hash : Hashes]
      BY DEF ChainTypeInv
    <2>2. HeadId # 0 => [id |-> HeadId, hash |-> HeadHash] \in [id : 1..MaxSerial, hash : Hashes]
      BY <1>1, AuditConstants
    <2>3. CASE LogAction
      BY <2>1, <2>3 DEF LogAction
    <2>4. CASE Anchor
      BY <2>1, <2>2, <2>4 DEF Anchor
    <2>5. QED
      BY <2>3, <2>4
  <1>6. QED
    BY <1>3, <1>4, <1>5 DEF ChainTypeInv

\* The rows, the sealers' work and the history are what they should be, whatever is logged,
\* sealed, anchored and pruned (services/audit_chain.py, log_action of services/audit_service.py).
THEOREM ChainTypeCorrect == ChainSpec => []ChainTypeOK
  <1>1. ASSUME ChainInit PROVE ChainTypeInv
    <2>1. log = <<>> /\ serials = 0 /\ stamp = 0 /\ sealing = [s \in Sealers |-> NoWork]
          /\ anchors = {} /\ headPruned = FALSE
      BY <1>1 DEF ChainInit
    <2>2. Ids = {} /\ serials \in 0..MaxSerial /\ stamp \in Stamps
      BY <2>1, AuditConstants DEF Ids, Stamps
    <2>3. DOMAIN sealing = Sealers /\ \A s \in Sealers : sealing[s].active = FALSE
                                                         /\ DOMAIN sealing[s].rows = {}
      BY <2>1 DEF NoWork
    <2>4. QED
      BY <2>1, <2>2, <2>3 DEF ChainTypeInv
  <1>2. ASSUME ChainTypeInv, [ChainNext]_chainVars PROVE ChainTypeInv'
    <2>1. CASE LogAction \/ Anchor
      BY <1>2, <2>1, TypeOfRow
    <2>2. ASSUME NEW s \in Sealers, ReadPending(s) PROVE ChainTypeInv'
      BY <1>2, <2>2, TypeOfReadPending
    <2>3. ASSUME NEW s \in Sealers, WriteSeals(s) PROVE ChainTypeInv'
      BY <1>2, <2>3, TypeOfWriteSeals
    <2>4. CASE Prune
      BY <1>2, <2>4, TypeOfPrune
    <2>5. CASE PruneFails \/ UNCHANGED chainVars
      <3>1. UNCHANGED <<log, serials, stamp, sealing, anchors, headPruned>>
        BY <2>5 DEF PruneFails, chainVars
      <3>2. QED
        BY <1>2, <3>1 DEF ChainTypeInv, Ids
    <2>6. CASE PassStamp
      <3>1. UNCHANGED <<log, serials, sealing, anchors, headPruned>> /\ stamp' = stamp + 1
            /\ stamp < LastStamp
        BY <2>6 DEF PassStamp
      <3>2. stamp' \in Stamps
        BY <1>2, <3>1, AuditConstants DEF ChainTypeInv, Stamps
      <3>3. QED
        BY <1>2, <3>1, <3>2 DEF ChainTypeInv, Ids
    <2>7. QED
      BY <1>2, <2>1, <2>2, <2>3, <2>4, <2>5, <2>6 DEF ChainNext
  <1>3. ASSUME ChainTypeInv PROVE ChainTypeOK
    <2>1. serials \in 0..MaxSerial /\ MaxSerial \in Nat
      BY <1>3, AuditConstants DEF ChainTypeInv
    <2>2. \A i \in 1..serials : i \in 1..MaxSerial
      BY <2>1
    <2>3. QED
      BY <1>3, <2>2 DEF ChainTypeInv, ChainTypeOK, AuditRows, Details
  <1>4. QED
    BY <1>1, <1>2, <1>3, PTL DEF ChainSpec

-----------------------------------------------------------------------------
(***************************************************************************)
(* The keys. Migrations and rotations that overlap, fail or are            *)
(* interrupted lose no key, and leave the database under one passphrase.   *)
(***************************************************************************)

\* A command that has imported or will import a key works on a CA, and a label is in hand exactly
\* while the imported object is being proved.
CommandsInHand ==
    \A s \in Shells :
        /\ shell[s].at \in {"import", "verify"} => shell[s].ca \in KeyCas
        /\ shell[s].at = "verify" <=> shell[s].label # NoLabel

\* Only a CA whose key is in the token has a label.
RowLabels ==
    \A c \in KeyCas : keyRow[c].backend = "softhsm" <=> keyRow[c].label # NoLabel

\* The object that a migration is proving, and may destroy, is nobody else's.
LabelsApart ==
    /\ \A s \in Shells, c \in KeyCas : shell[s].at = "verify" => keyRow[c].label # shell[s].label
    /\ \A s, t \in Shells : shell[s].at = "verify" /\ s # t => shell[t].label # shell[s].label

\* There is one rotation at a time, and a next passphrase for it.
OneRotation ==
    /\ \A s, t \in Shells : shell[s].at = "rewrap" /\ shell[t].at = "rewrap" => s = t
    /\ \A s \in Shells : shell[s].at = "rewrap" => secretFile < MaxGenerations

\* Unless a worker has strayed, a rotation has read every ciphertext that there is.
RotationSeesAll ==
    ~ strayed => \A s \in Shells : shell[s].at = "rewrap" => Wrapped \subseteq shell[s].rows

\* NoKeyLost is not inductive: a failed migration destroys an object, which is no CA's only because
\* LabelsApart; OnePassphrase needs what the rotation has read.
KeyInv ==
    /\ KeyTypeOK
    /\ CommandsInHand
    /\ RowLabels
    /\ LabelsApart
    /\ OneRotation
    /\ NoKeyLost

\* The initial state: no CA, no command.
LEMMA KeyInitInv == KeyInit => KeyInv /\ OnePassphrase /\ RotationSeesAll
  <1> SUFFICES ASSUME KeyInit PROVE KeyInv /\ OnePassphrase /\ RotationSeesAll
    OBVIOUS
  <1> USE KeyStoreAssumption DEF KeyInit, Generations, NoKeyRow, Empty, NoCommand
  <1>1. KeyTypeOK
    <2>1. 1 \in 1..MaxGenerations
      OBVIOUS
    <2>2. keyRow \in [KeyCas -> [backend : {"none", "software", "softhsm"},
                                 blob : {0} \union Generations, label : Labels \union {NoLabel}]]
      OBVIOUS
    <2>3. objects \in [Labels -> [ca : KeyCas \union {NoKeyCa}, good : BOOLEAN]]
      OBVIOUS
    <2>4. shell \in [Shells -> [at : {"idle", "import", "verify", "rewrap"},
                                ca : KeyCas \union {NoKeyCa}, label : Labels \union {NoLabel},
                                rows : SUBSET KeyCas]]
      OBVIOUS
    <2>5. QED
      BY <2>1, <2>2, <2>3, <2>4 DEF KeyTypeOK
  <1>2. CommandsInHand /\ RowLabels /\ LabelsApart
    BY DEF CommandsInHand, RowLabels, LabelsApart
  <1>3. OneRotation /\ NoKeyLost
    BY DEF OneRotation, NoKeyLost
  <1>4. OnePassphrase /\ RotationSeesAll
    BY DEF OnePassphrase, RotationSeesAll, Wrapped
  <1>5. QED
    BY <1>1, <1>2, <1>3, <1>4 DEF KeyInv

\* Every operation of the backends and of `flask keys` keeps the invariant.
LEMMA KeyNextInv == KeyInv /\ [KeyNext]_keyVars => KeyInv'
  <1> SUFFICES ASSUME KeyInv, [KeyNext]_keyVars PROVE KeyInv'
    OBVIOUS
  <1> USE KeyStoreAssumption
      DEF KeyInv, KeyTypeOK, CommandsInHand, RowLabels, LabelsApart, OneRotation, NoKeyLost,
          Generations, NoKeyRow, Empty, NoCommand
  <1>1. ASSUME NEW w \in KeyWorkers, RestartKeyWorker(w) PROVE KeyInv'
    BY <1>1 DEF RestartKeyWorker
  <1>2. ASSUME NEW w \in KeyWorkers, NEW c \in KeyCas, CreateSoftwareKey(w, c) PROVE KeyInv'
    BY <1>2 DEF CreateSoftwareKey
  <1>3. ASSUME NEW w \in KeyWorkers, NEW c \in KeyCas, NEW l \in Labels, NEW b \in BOOLEAN,
               CreateTokenKey(w, c, l, b)
        PROVE KeyInv'
    <2>1. ASSUME NEW d \in KeyCas, keyRow[d].label = l PROVE FALSE
      <3>1. objects[l] = [ca |-> d, good |-> TRUE]
        BY <2>1
      <3>2. objects[l].good = FALSE
        BY <1>3 DEF CreateTokenKey, FreeLabel
      <3>3. QED
        BY <3>1, <3>2
    <2>2. \A s \in Shells : shell[s].label # l
      BY <1>3 DEF CreateTokenKey, FreeLabel
    <2>3. objects' = [objects EXCEPT ![l] = [ca |-> c, good |-> TRUE]]
          /\ UNCHANGED <<dbGen, secretFile, config, shell, strayed>>
      BY <1>3 DEF CreateTokenKey
    <2>4. CASE b
      <3>1. keyRow' = [keyRow EXCEPT ![c] = [backend |-> "softhsm", blob |-> 0, label |-> l]]
        BY <1>3, <2>4 DEF CreateTokenKey
      <3>2. QED
        BY <2>1, <2>2, <2>3, <3>1
    <2>5. CASE ~ b
      <3>1. keyRow' = keyRow
        BY <1>3, <2>5 DEF CreateTokenKey
      <3>2. QED
        BY <2>1, <2>3, <3>1
    <2>6. QED
      BY <2>4, <2>5
  <1>4. ASSUME NEW s \in Shells, NEW c \in KeyCas, BeginMigrate(s, c) PROVE KeyInv'
    BY <1>4 DEF BeginMigrate
  <1>5. ASSUME NEW s \in Shells, NEW l \in Labels, NEW good \in BOOLEAN, ImportKey(s, l, good)
        PROVE KeyInv'
    BY <1>5 DEF ImportKey, FreeLabel
  <1>6. ASSUME NEW s \in Shells, CommitMigrate(s) PROVE KeyInv'
    BY <1>6 DEF CommitMigrate
  <1>7. ASSUME NEW s \in Shells, FailMigrate(s) PROVE KeyInv'
    BY <1>7 DEF FailMigrate
  <1>8. ASSUME NEW s \in Shells, BeginRotate(s) PROVE KeyInv'
    BY <1>8 DEF BeginRotate, Wrapped
  <1>9. ASSUME NEW s \in Shells, CommitRotate(s) PROVE KeyInv'
    BY <1>9 DEF CommitRotate, Rewrap
  <1>10. ASSUME NEW s \in Shells, EndCommand(s) PROVE KeyInv'
    BY <1>10 DEF EndCommand
  <1>11. CASE SwapSecret
    BY <1>11 DEF SwapSecret
  <1>12. CASE UNCHANGED keyVars
    BY <1>12 DEF keyVars
  <1> HIDE DEF KeyInv
  <1>13. QED
    BY <1>1, <1>2, <1>3, <1>4, <1>5, <1>6, <1>7, <1>8, <1>9, <1>10, <1>11, <1>12 DEF KeyNext

\* No step of the key store takes the database from under its one passphrase: what a rotation has
\* not read was written by a worker that strayed.
LEMMA NextPassphrase ==
    KeyInv /\ OnePassphrase /\ RotationSeesAll /\ [KeyNext]_keyVars
        => OnePassphrase' /\ RotationSeesAll'
  <1> SUFFICES ASSUME KeyInv, OnePassphrase, RotationSeesAll, [KeyNext]_keyVars
               PROVE OnePassphrase' /\ RotationSeesAll'
    OBVIOUS
  <1> DEFINE Goal == OnePassphrase' /\ RotationSeesAll'
  <1> USE KeyStoreAssumption
      DEF KeyInv, KeyTypeOK, OnePassphrase, RotationSeesAll, Wrapped, Generations, NoKeyRow,
          NoCommand
  <1>1. ASSUME NEW w \in KeyWorkers, RestartKeyWorker(w) PROVE Goal
    BY <1>1 DEF RestartKeyWorker
  <1>2. ASSUME NEW w \in KeyWorkers, NEW c \in KeyCas, CreateSoftwareKey(w, c) PROVE Goal
    BY <1>2 DEF CreateSoftwareKey
  <1>3. ASSUME NEW w \in KeyWorkers, NEW c \in KeyCas, NEW l \in Labels, NEW b \in BOOLEAN,
               CreateTokenKey(w, c, l, b)
        PROVE Goal
    BY <1>3 DEF CreateTokenKey
  <1>4. ASSUME NEW s \in Shells, NEW c \in KeyCas, BeginMigrate(s, c) PROVE Goal
    BY <1>4 DEF BeginMigrate
  <1>5. ASSUME NEW s \in Shells, NEW l \in Labels, NEW good \in BOOLEAN, ImportKey(s, l, good)
        PROVE Goal
    BY <1>5 DEF ImportKey
  <1>6. ASSUME NEW s \in Shells, CommitMigrate(s) PROVE Goal
    BY <1>6 DEF CommitMigrate, CommandsInHand
  <1>7. ASSUME NEW s \in Shells, FailMigrate(s) PROVE Goal
    BY <1>7 DEF FailMigrate
  <1>8. ASSUME NEW s \in Shells, BeginRotate(s) PROVE Goal
    BY <1>8 DEF BeginRotate
  <1>9. ASSUME NEW s \in Shells, CommitRotate(s) PROVE Goal
    BY <1>9 DEF CommitRotate, Rewrap, OneRotation
  <1>10. ASSUME NEW s \in Shells, EndCommand(s) PROVE Goal
    BY <1>10 DEF EndCommand
  <1>11. ASSUME SwapSecret PROVE Goal
    BY <1>11 DEF SwapSecret
  <1>12. ASSUME UNCHANGED keyVars PROVE Goal
    BY <1>12 DEF keyVars
  <1> HIDE DEF Goal, KeyInv, KeyTypeOK, OnePassphrase, RotationSeesAll
  <1>13. Goal
    BY <1>1, <1>2, <1>3, <1>4, <1>5, <1>6, <1>7, <1>8, <1>9, <1>10, <1>11, <1>12 DEF KeyNext
  <1>14. QED
    BY <1>13 DEF Goal

\* The row of a CA, the token and the commands of `flask keys` keep their types.
THEOREM KeyTypeCorrect == KeySpec => []KeyTypeOK
  <1>1. KeyInv => KeyTypeOK
    BY DEF KeyInv
  <1>2. QED
    BY <1>1, KeyInitInv, KeyNextInv, PTL DEF KeySpec

\* No CA ever loses its key, however many migrations and rotations run at once, fail or are
\* interrupted (migrate_to_hsm, verify_signing_key, destroy_key, rotate).
THEOREM NoKeyLostHolds == KeySpec => []NoKeyLost
  <1>1. KeyInv => NoKeyLost
    BY DEF KeyInv
  <1>2. QED
    BY <1>1, KeyInitInv, KeyNextInv, PTL DEF KeySpec

\* The passphrase of the last rotation opens every ciphertext, unless a worker wrote one during a
\* rotation or before its own restart (rotate, rotate_passphrase).
THEOREM OnePassphraseHolds == KeySpec => []OnePassphrase
  BY KeyInitInv, KeyNextInv, NextPassphrase, PTL DEF KeySpec
=============================================================================
