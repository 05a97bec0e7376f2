---------------------------- MODULE MCCsrSigning ----------------------------
(***************************************************************************)
(* CsrSigning for TLC: two workers, two CSRs, and two admins of whom one   *)
(* is the bootstrap account. Model values name them.                       *)
(***************************************************************************)
EXTENDS CsrSigning

CONSTANTS w1, w2, c1, c2, alice, admin

MCWorkers == {w1, w2}
MCCsrs == {c1, c2}
MCUsers == {alice, admin}
=============================================================================
