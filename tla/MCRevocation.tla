---------------------------- MODULE MCRevocation ----------------------------
(***************************************************************************)
(* Revocation for TLC: a root, an intermediate below it, a sub-CA below it *)
(* that may be created, a certificate and room for another, and the kinds  *)
(* of request each run makes.                                              *)
(***************************************************************************)
EXTENDS Revocation, TLC

CONSTANTS root, inter, sub, leaf, next, w1, w2, scheduler

MCCas == {root, inter, sub}
MCParent == [c \in MCCas |-> CASE c = root -> NoCa [] c = inter -> root [] c = sub -> inter]
MCExisting == {root, inter}
MCCerts == {leaf, next}
MCIssuedBy == [x \in MCCerts |-> IF x = leaf THEN inter ELSE NoCa]
MCWorkers == {w1, w2}
OneWorker == {w1}
WorkerSymmetry == Permutations(MCWorkers)

SafetyRequests == {"create", "approve", "reissue", "issue", "renew", "revoke", "revoke_ca",
                   "generate", "download", "cli", "age", "expire"}

LiveRequests == {"issue", "revoke", "revoke_ca", "generate", "age"}

ReissueRequests == {"reissue", "revoke_ca"}
=============================================================================
