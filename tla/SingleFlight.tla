---------------------------- MODULE SingleFlight ----------------------------
(***************************************************************************)
(* What CSR signing promises, whatever the workers do: a request is in the *)
(* hands of at most one worker at a time, only the worker that holds it    *)
(* may turn it into a certificate, and a request that has become a         *)
(* certificate is never taken again ("two workers cannot both issue from   *)
(* one CSR", cert_service._claim_csr).                                     *)
(***************************************************************************)
EXTENDS Naturals

CONSTANTS Workers, Csrs

VARIABLES holders,   \* holders[c]: the workers that hold the claim on c
          certs      \* certs[c]: how many certificates c has become

flightVars == <<holders, certs>>

FlightInit ==
    /\ holders = [c \in Csrs |-> {}]
    /\ certs = [c \in Csrs |-> 0]

\* A free, unspent request is taken by one worker.
Take(c, w) ==
    /\ holders[c] = {}
    /\ certs[c] = 0
    /\ holders' = [holders EXCEPT ![c] = {w}]
    /\ UNCHANGED certs

\* The holder gives the request back, or dies with it.
Drop(c, w) ==
    /\ holders[c] = {w}
    /\ holders' = [holders EXCEPT ![c] = {}]
    /\ UNCHANGED certs

\* The holder turns the request into its one certificate.
Issue(c, w) ==
    /\ holders[c] = {w}
    /\ certs[c] = 0
    /\ holders' = [holders EXCEPT ![c] = {}]
    /\ certs' = [certs EXCEPT ![c] = 1]

FlightNext ==
    \E c \in Csrs, w \in Workers : Take(c, w) \/ Drop(c, w) \/ Issue(c, w)

FlightSpec == FlightInit /\ [][FlightNext]_flightVars

=============================================================================
