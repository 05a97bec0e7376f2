---------------------------- MODULE MCAcmeOrders ----------------------------
(***************************************************************************)
(* AcmeOrders for TLC, in two instances of one order and two workers:      *)
(*   two names, the first proven by http-01, the second, as a wildcard     *)
(*   is, by dns-01;                                                        *)
(*   one name, proven by dns-01.                                           *)
(***************************************************************************)
EXTENDS AcmeOrders, TLC

CONSTANTS w1, w2, o1, z1, z2, http1, dns1, dns2

MCWorkers == {w1, w2}
MCOrders == {o1}

TwoAuthzs == {z1, z2}
TwoChallenges == {http1, dns2}
TwoOrderOf == [z \in TwoAuthzs |-> o1]
TwoAuthzOf == (http1 :> z1) @@ (dns2 :> z2)
TwoDns == {dns2}

OneAuthz == {z1}
OneChallenges == {dns1}
OneOrderOf == [z \in OneAuthz |-> o1]
OneAuthzOf == [h \in OneChallenges |-> z1]
OneDns == {dns1}

\* The workers are interchangeable (used where no liveness is checked).
WorkerSymmetry == Permutations(MCWorkers)
=============================================================================
