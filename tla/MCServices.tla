----------------------------- MODULE MCServices -----------------------------
(***************************************************************************)
(* Small instances of Scheduler, AuditChain, Ocsp, KeyStore, Issuance and  *)
(* AcmeAccounts, checked side by side: they share no modelled state, so a  *)
(* behaviour is one of one of them (`focus`), and the state spaces add up  *)
(* instead of multiplying. The processes are the same ones everywhere.     *)
(***************************************************************************)
EXTENDS Scheduler, AuditChain, Ocsp, KeyStore, Issuance, AcmeAccounts, TLC

CONSTANTS
    w1, w2, worker,             \* processes
    cert, ca, l1,               \* Scheduler, Ocsp
    ca1, ca2, b1, b2,           \* KeyStore
    a1, a2, a3, x1, x2, x3, host, ip, prof,         \* Issuance
    n1, n2, r1, r2, r3, k1, k2, k3, e1              \* AcmeAccounts

VARIABLE focus

MCProcesses == {w1, w2}

\* One certificate and one authority, which may be renewed.
MCWatchedCerts == {cert}
MCWatchedCas == {ca}
MCFirstNotAfter == cert :> 1 @@ ca :> 2

MCSubjects == {l1}

MCKeyCas == {ca1, ca2}
MCKeyWorkers == {worker}
MCLabels == {b1, b2}

\* Room for a root with two authorities below one another, and for a certificate with two renewals.
MCCaIds == {a1, a2, a3}
MCLeafIds == {x1, x2, x3}
MCNames == {host, ip}
MCKindOf == host :> "dns" @@ ip :> "ip"
MCNameChoices == {{host}, {ip}}
NoLimits == [permitted |-> {}, excluded |-> {}]
HostsOnly == [permitted |-> {[kind |-> "dns", covers |-> {host}]},
              excluded |-> {[kind |-> "ip", covers |-> {ip}]}]
MCCaRequests == {[path |-> 1, limits |-> NoLimits, names |-> {host}],
                 [path |-> Unlimited, limits |-> HostsOnly, names |-> {ip}]}
MCCaImports == {[path |-> Unlimited, limits |-> NoLimits, keyed |-> TRUE],
                [path |-> 0, limits |-> HostsOnly, keyed |-> FALSE]}
MCProfiles == {Custom, prof}
MCBoundChoices == {[kinds |-> {"dns"}, days |-> 1]}

MCNonces == {n1, n2}
\* One account and one key more than there are servers.
MCRegistrations == {r1, r2, r3}
MCClientKeys == {k1, k2, k3}
MCEabKeys == {e1}

\* Nonces that were not issued yet are all alike, so that it does not matter which one is next.
MCSymmetry == Permutations(MCProcesses) \union Permutations(MCNonces)

allVars == <<focus, schedulerVars, chainVars, ocspVars, keyVars, issuanceVars, acmeAccountVars>>

Init ==
    /\ focus \in {"scheduler", "chain", "ocsp", "keys", "issuance", "acme"}
    /\ SchedulerInit /\ ChainInit /\ OcspInit /\ KeyInit /\ IssuanceInit /\ AcmeAccountsInit

Next ==
    \/ /\ focus = "scheduler" /\ SchedulerNext
       /\ UNCHANGED <<focus, chainVars, ocspVars, keyVars, issuanceVars, acmeAccountVars>>
    \/ /\ focus = "chain" /\ ChainNext
       /\ UNCHANGED <<focus, schedulerVars, ocspVars, keyVars, issuanceVars, acmeAccountVars>>
    \/ /\ focus = "ocsp" /\ OcspNext
       /\ UNCHANGED <<focus, schedulerVars, chainVars, keyVars, issuanceVars, acmeAccountVars>>
    \/ /\ focus = "keys" /\ KeyNext
       /\ UNCHANGED <<focus, schedulerVars, chainVars, ocspVars, issuanceVars, acmeAccountVars>>
    \/ /\ focus = "issuance" /\ IssuanceNext
       /\ UNCHANGED <<focus, schedulerVars, chainVars, ocspVars, keyVars, acmeAccountVars>>
    \/ /\ focus = "acme" /\ AcmeAccountsNext
       /\ UNCHANGED <<focus, schedulerVars, chainVars, ocspVars, keyVars, issuanceVars>>

Spec == Init /\ [][Next]_allVars

\* The rows, the processes and the histories of all of them are what they should be.
ServicesTypeOK ==
    /\ focus = "scheduler" => SchedulerTypeOK
    /\ focus = "chain" => ChainTypeOK
    /\ focus = "ocsp" => OcspTypeOK
    /\ focus = "keys" => KeyTypeOK
    /\ focus = "issuance" => IssuanceTypeOK
    /\ focus = "acme" => AcmeAccountsTypeOK
=============================================================================
