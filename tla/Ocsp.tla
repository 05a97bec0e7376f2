-------------------------------- MODULE Ocsp --------------------------------
(***************************************************************************)
(* The OCSP responder of one CA (services/ocsp_service.py, routes/public,  *)
(* the responder rotation of routes/ca, cli and scheduler_service): every  *)
(* process caches signed responses and the decrypted responder key, and    *)
(* the responder certificate is replaced by a job, an admin, the shell and *)
(* lazily by a request.                                                    *)
(*                                                                         *)
(* A request reads the rows of the CA and of the subject, decides who      *)
(* signs, and answers; the rows are read again only after a commit or a    *)
(* rollback of its own. The CA has its key and is approved; when it is not *)
(* the answer is "unauthorized" and nothing changes.                       *)
(***************************************************************************)
EXTENDS Naturals

CONSTANTS
    OcspWorkers,    \* the serving processes
    OcspShell,      \* a process that serves no requests: the command line
    Subjects,       \* certificates of the CA, and its sub-CAs under their current serial
    Delegated,      \* OCSP_DELEGATED_RESPONDER
    ResponderTime,  \* OCSP_RESPONDER_VALIDITY_DAYS
    RenewBefore,    \* OCSP_RESPONDER_RENEW_BEFORE_DAYS
    ReplyTtl,       \* OCSP_RESPONSE_CACHE_TTL_SECONDS
    KeyTtl,         \* OCSP_KEY_CACHE_TTL_SECONDS
    CaEnd,          \* notAfter of the CA
    LastMoment,     \* bound on the clock
    MaxResponders,  \* bound on the responder certificates issued
    MaxQueries,     \* bound on the requests
    NoSubject

ASSUME OcspAssumption ==
    /\ OcspShell \notin OcspWorkers /\ NoSubject \notin Subjects
    /\ Delegated \in BOOLEAN
    /\ {ResponderTime, RenewBefore, ReplyTtl, KeyTtl, CaEnd, LastMoment, MaxResponders,
        MaxQueries} \subseteq Nat

VARIABLES
    moment,     \* the clock
    responder,  \* the CA's responder: its certificate, told by a number, and its notAfter
    caRevoked,  \* is_revoked of the CA
    gone,       \* the subjects that are revoked
    query,      \* the request that each process serves
    replies,    \* the response cache of each process
    keyCache,   \* the responder key cache of each process
    issued,     \* how many responder certificates have been issued
    queries,    \* how many requests have been made
    lies,       \* history: subjects answered "good" to a request made after the revocation
    misfits     \* history: responders whose answers were signed with another key

ocspVars == <<moment, responder, caRevoked, gone, query, replies, keyCache, issued, queries,
              lies, misfits>>

NoResponder == [n |-> 0, until |-> 0]
NoKey == [n |-> 0, key |-> 0, exp |-> 0]
CaKey == 0
NoQuery == [at |-> "idle", subject |-> NoSubject, revoked |-> FALSE, late |-> FALSE,
            ca |-> NoResponder, noIssue |-> FALSE, signer |-> CaKey, key |-> 0]

Answered(w) == query' = [query EXCEPT ![w] = NoQuery]

---------------------------------------------------------------------------
(* The responder certificate *)

\* ca_expired
CaExpired == CaEnd <= moment

\* responder_needs_rotation: none, no longer valid, or soon so
NeedsRotation(r) == r.n = 0 \/ r.until <= moment \/ r.until < moment + RenewBefore

\* bounded_not_after
Bounded(t) == IF t < CaEnd THEN t ELSE CaEnd

\* The new responder certificate of ensure_responder
IssueResponder ==
    /\ issued < MaxResponders
    /\ issued' = issued + 1
    /\ responder' = [n |-> issued + 1, until |-> Bounded(moment + ResponderTime)]

\* ensure_responder, when it issues, and the caller's commit. The process drops what it has cached.
RotateResponder(p, force) ==
    /\ ~ caRevoked /\ ~ CaExpired
    /\ force \/ NeedsRotation(responder)
    /\ IssueResponder
    /\ replies' = [w \in OcspWorkers |-> IF w = p THEN {} ELSE replies[w]]
    /\ keyCache' = [w \in OcspWorkers |-> IF w = p THEN NoKey ELSE keyCache[w]]
    /\ UNCHANGED <<moment, caRevoked, gone, query, queries, lies, misfits>>

\* rotate_ocsp_responder, by an admin
RotateOcspResponder(w) == RotateResponder(w, TRUE)

\* job_ocsp_responders
JobOcspResponders(w) == Delegated /\ RotateResponder(w, FALSE)

\* `flask ocsp rotate-responders`, whether or not responders are in use
CliRotateResponders(force) == RotateResponder(OcspShell, force)

\* _responder_key: by the CA, and only while the ciphertext is the same
ResponderKeyByCa(w, r) ==                       \* whatever the ciphertext is now
    IF keyCache[w].n # 0 /\ keyCache[w].exp > moment THEN keyCache[w].key ELSE r.n

ResponderKey(w, r) ==
    IF keyCache[w].n = r.n /\ keyCache[w].exp > moment THEN keyCache[w].key ELSE r.n

\* What the key cache of a process is after that
KeyCached(w, r) ==
    IF KeyTtl = 0 \/ (keyCache[w].n = r.n /\ keyCache[w].exp > moment) THEN keyCache[w]
    ELSE [n |-> r.n, key |-> r.n, exp |-> moment + KeyTtl]

---------------------------------------------------------------------------
(* build_ocsp_response *)

\* The serial is a leaf's or the current one of a sub-CA; a sub-CA's former serial is unknown, and
\* the answer "unauthorized" changes nothing.
BeginQuery(w, s) ==
    /\ query[w].at = "idle" /\ queries < MaxQueries
    /\ queries' = queries + 1
    /\ query' = [query EXCEPT ![w] =
          [at |-> "delegate", subject |-> s, revoked |-> s \in gone, late |-> s \in gone,
           ca |-> responder, noIssue |-> caRevoked, signer |-> CaKey, key |-> 0]]
    /\ UNCHANGED <<moment, responder, caRevoked, gone, replies, keyCache, issued, lies,
                   misfits>>

\* _delegated_responder: delegation is off, or the CA has expired.
DirectPath(w) ==
    /\ query[w].at = "delegate" /\ (~ Delegated \/ CaExpired)
    /\ query' = [query EXCEPT ![w].at = "answer"]
    /\ UNCHANGED <<moment, responder, caRevoked, gone, replies, keyCache, issued, queries, lies,
                   misfits>>

UseResponder(w) ==
    /\ query[w].at = "delegate" /\ Delegated /\ ~ CaExpired
    /\ ~ NeedsRotation(query[w].ca)
    /\ query' = [query EXCEPT ![w].at = "answer", ![w].signer = query[w].ca.n,
                              ![w].key = ResponderKey(w, query[w].ca)]
    /\ keyCache' = [keyCache EXCEPT ![w] = KeyCached(w, query[w].ca)]
    /\ UNCHANGED <<moment, responder, caRevoked, gone, replies, issued, queries, lies, misfits>>

\* The request renews the responder and commits; the rows are read anew after that.
LazyRotate(w) ==
    /\ query[w].at = "delegate" /\ Delegated /\ ~ CaExpired
    /\ NeedsRotation(query[w].ca) /\ ~ query[w].noIssue
    /\ IssueResponder
    /\ replies' = [replies EXCEPT ![w] = {}]
    /\ keyCache' = [keyCache EXCEPT ![w] =
          IF KeyTtl = 0 THEN NoKey
          ELSE [n |-> issued + 1, key |-> issued + 1, exp |-> moment + KeyTtl]]
    /\ query' = [query EXCEPT ![w].at = "answer", ![w].signer = issued + 1, ![w].key = issued + 1,
                              ![w].revoked = query[w].subject \in gone]
    /\ UNCHANGED <<moment, caRevoked, gone, queries, lies, misfits>>

\* The renewal is refused (a revoked CA) or fails: the rollback makes the rows be read anew, and the
\* CA's own key answers.
RotationFails(w) ==
    /\ query[w].at = "delegate" /\ Delegated /\ ~ CaExpired
    /\ NeedsRotation(query[w].ca)
    /\ query' = [query EXCEPT ![w].at = "answer", ![w].revoked = query[w].subject \in gone]
    /\ UNCHANGED <<moment, responder, caRevoked, gone, replies, keyCache, issued, queries, lies,
                   misfits>>

\* cache_key
CacheKeyOfSubject(q) == [subject |-> q.subject, revoked |-> FALSE, signer |-> q.signer]  \* no status

CacheKey(q) == [subject |-> q.subject, revoked |-> q.revoked, signer |-> q.signer]

Reply(q) == [for |-> CacheKey(q), revoked |-> q.revoked, signer |-> q.signer, key |-> q.key,
             exp |-> moment + ReplyTtl]

\* What goes out: a fresh enough reply from the cache, or a new one, which goes into it.
Answer(w) ==
    LET q == query[w]
        cached == {r \in replies[w] : r.for = CacheKey(q) /\ r.exp > moment}
        out == IF cached # {} THEN CHOOSE r \in cached : TRUE ELSE Reply(q)
    IN /\ q.at = "answer"
       /\ replies' = IF cached # {} \/ ReplyTtl = 0 THEN replies
                     ELSE [replies EXCEPT ![w] = {r \in @ : r.for # CacheKey(q)} \union {out}]
       /\ lies' = IF q.late /\ ~ out.revoked THEN lies \union {q.subject} ELSE lies
       /\ misfits' = IF out.signer # CaKey /\ out.key # out.signer
                     THEN misfits \union {out.signer} ELSE misfits
       /\ Answered(w)
       /\ UNCHANGED <<moment, responder, caRevoked, gone, keyCache, issued, queries>>

---------------------------------------------------------------------------
(* What happens around the requests *)

RevokeSubject(s) ==
    /\ s \notin gone
    /\ gone' = gone \union {s}
    /\ UNCHANGED <<moment, responder, caRevoked, query, replies, keyCache, issued, queries, lies,
                   misfits>>

\* revoke_ca: with the CA goes everything that it has issued.
RevokeResponderCa ==
    /\ ~ caRevoked
    /\ caRevoked' = TRUE /\ gone' = Subjects
    /\ UNCHANGED <<moment, responder, query, replies, keyCache, issued, queries, lies, misfits>>

\* A process starts again, with empty caches.
RestartOcsp(w) ==
    /\ replies' = [replies EXCEPT ![w] = {}]
    /\ keyCache' = [keyCache EXCEPT ![w] = NoKey]
    /\ Answered(w)
    /\ UNCHANGED <<moment, responder, caRevoked, gone, issued, queries, lies, misfits>>

\* What has expired is never matched again (get, _responder_key) and is left out of the caches.
PassMoment ==
    /\ moment < LastMoment
    /\ moment' = moment + 1
    /\ replies' = [w \in OcspWorkers |-> {r \in replies[w] : r.exp > moment + 1}]
    /\ keyCache' = [w \in OcspWorkers |->
                      IF keyCache[w].exp > moment + 1 THEN keyCache[w] ELSE NoKey]
    /\ UNCHANGED <<responder, caRevoked, gone, query, issued, queries, lies, misfits>>
---------------------------------------------------------------------------

OcspInit ==
    /\ moment = 0 /\ issued = 0 /\ queries = 0
    /\ responder = NoResponder
    /\ caRevoked = FALSE /\ gone = {}
    /\ query = [w \in OcspWorkers |-> NoQuery]
    /\ replies = [w \in OcspWorkers |-> {}]
    /\ keyCache = [w \in OcspWorkers |-> NoKey]
    /\ lies = {} /\ misfits = {}

OcspNext ==
    \/ \E force \in BOOLEAN : CliRotateResponders(force)
    \/ \E w \in OcspWorkers :
          \/ RotateOcspResponder(w)
          \/ JobOcspResponders(w)
          \/ \E s \in Subjects : BeginQuery(w, s)
          \/ DirectPath(w)
          \/ UseResponder(w)
          \/ LazyRotate(w)
          \/ RotationFails(w)
          \/ Answer(w)
          \/ RestartOcsp(w)
    \/ \E s \in Subjects : RevokeSubject(s)
    \/ RevokeResponderCa
    \/ PassMoment

OcspSpec == OcspInit /\ [][OcspNext]_ocspVars

---------------------------------------------------------------------------

CacheKeys == [subject : Subjects, revoked : BOOLEAN, signer : 0..MaxResponders]

\* The rows, the requests and the caches are what they should be.
OcspTypeOK ==
    /\ moment \in 0..LastMoment /\ issued \in 0..MaxResponders
    /\ queries \in 0..MaxQueries
    /\ responder \in [n : 0..MaxResponders, until : Nat]
    /\ caRevoked \in BOOLEAN /\ gone \subseteq Subjects
    /\ query \in [OcspWorkers -> [at : {"idle", "delegate", "answer"},
                                  subject : Subjects \union {NoSubject}, revoked : BOOLEAN,
                                  late : BOOLEAN, ca : [n : 0..MaxResponders, until : Nat],
                                  noIssue : BOOLEAN, signer : 0..MaxResponders,
                                  key : 0..MaxResponders]]
    /\ \A w \in OcspWorkers : \A r \in replies[w] :
          r \in [for : CacheKeys, revoked : BOOLEAN, signer : 0..MaxResponders,
                 key : 0..MaxResponders, exp : Nat]
    /\ keyCache \in [OcspWorkers -> [n : 0..MaxResponders, key : 0..MaxResponders, exp : Nat]]
    /\ lies \subseteq Subjects /\ misfits \subseteq 0..MaxResponders

\* A request made after a revocation is never answered "good", neither from a cache nor by a
\* process that had the answer ready (the status in the key of _OcspResponseCache).
NoGoodAfterRevocation == lies = {}

\* An answer in the name of a responder certificate is signed with that certificate's key, whoever
\* replaced the responder and in whichever process (_responder_key, the signer in the cache key).
SignedByItsResponder == misfits = {}
=============================================================================
