-------------------------- MODULE MCServicesProofs --------------------------
(***************************************************************************)
(* What TLC checks of the services side by side, it checks of the          *)
(* behaviours that each of them has alone: the instance of the run adds    *)
(* nothing to them. So the theorems of SchedulerProofs and ServicesProofs  *)
(* are theorems about that instance.                                       *)
(***************************************************************************)
EXTENDS MCServices, SchedulerProofs, ServicesProofs

\* Side by side, each component behaves as its own specification says: none of them touches the
\* state of another one (scheduler_service.py, audit_chain.py, ocsp_service.py, cli.py,
\* cert_service.py, services/acme/service.py).
THEOREM ServicesProject ==
    Spec => /\ SchedulerSpec /\ ChainSpec /\ OcspSpec
            /\ KeySpec /\ IssuanceSpec /\ AcmeAccountsSpec
  <1>1. Init => /\ SchedulerInit /\ ChainInit /\ OcspInit
                /\ KeyInit /\ IssuanceInit /\ AcmeAccountsInit
    BY DEF Init
  <1>2. [Next]_allVars => /\ [SchedulerNext]_schedulerVars /\ [ChainNext]_chainVars
                          /\ [OcspNext]_ocspVars /\ [KeyNext]_keyVars
                          /\ [IssuanceNext]_issuanceVars /\ [AcmeAccountsNext]_acmeAccountVars
    BY DEF Next, allVars
  <1>3. QED
    BY <1>1, <1>2, PTL
       DEF Spec, SchedulerSpec, ChainSpec, OcspSpec, KeySpec, IssuanceSpec, AcmeAccountsSpec

\* The rows, the processes and the histories of all of them stay what their columns can hold,
\* whichever of them is in focus.
THEOREM ServicesTypeCorrect == Spec => []ServicesTypeOK
  <1>1. ASSUME SchedulerTypeOK, ChainTypeOK, OcspTypeOK,
               KeyTypeOK, IssuanceTypeOK, AcmeAccountsTypeOK
        PROVE  ServicesTypeOK
    BY <1>1 DEF ServicesTypeOK
  <1>2. QED
    BY <1>1, ServicesProject, SchedulerTypeCorrect, ChainTypeCorrect, OcspTypeCorrect,
       KeyTypeCorrect, IssuanceTypeCorrect, AcmeAccountsTypeCorrect, PTL
=============================================================================
