-------------------------- MODULE MCIdentityProofs --------------------------
(***************************************************************************)
(* What TLC checks of Accounts, Login and Tokens side by side, it checks   *)
(* of the behaviours that each of them has alone: the instance that the    *)
(* runs share adds nothing to them. So the theorems of IdentityProofs are  *)
(* theorems about that instance.                                           *)
(***************************************************************************)
EXTENDS MCIdentity, IdentityProofs

\* Side by side, each component behaves as its own specification says: no account, login or token
\* is touched by a step of another one (routes/users.py, auth_service.py, api_token_service.py).
THEOREM IdentityProjects == Spec => AccountsSpec /\ LoginSpec /\ TokensSpec
  <1>1. Init => AccountsInit /\ LoginInit /\ TokensInit
    BY DEF Init
  <1>2. [Next]_allVars => /\ [AccountsNext]_accountVars
                          /\ [LoginNext]_loginVars
                          /\ [TokensNext]_tokenVars
    BY DEF Next, allVars
  <1>3. QED
    BY <1>1, <1>2, PTL DEF Spec, AccountsSpec, LoginSpec, TokensSpec

\* The rows, the requests and the histories of all three stay what their columns can hold,
\* whichever of them is in focus.
THEOREM IdentityTypeCorrect == Spec => []IdentityTypeOK
  <1>1. AccountsTypeOK /\ LoginTypeOK /\ TokensTypeOK => IdentityTypeOK
    BY DEF IdentityTypeOK
  <1>2. QED
    BY <1>1, IdentityProjects, AccountsTypeCorrect, LoginTypeCorrect, TokensTypeCorrect, PTL
=============================================================================
