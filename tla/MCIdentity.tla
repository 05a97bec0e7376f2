----------------------------- MODULE MCIdentity -----------------------------
(***************************************************************************)
(* Small instances of Accounts, Login and Tokens, checked side by side:    *)
(* the three share no modelled state, so a behaviour is one of one of them *)
(* (`focus`), and the state spaces add up instead of multiplying. The      *)
(* serving processes of all three are the same gunicorn workers.           *)
(***************************************************************************)
EXTENDS Accounts, Login, Tokens, TLC

CONSTANTS w1, w2, boot, adm1, adm2, usr, t1, t2, srv

VARIABLE focus

MCWorkers == {w1, w2}
MCUsers == {boot, adm1, adm2, usr}
MCFirstAdmins == {boot, adm1, adm2}
MCTokenIds == {t1, t2}
MCOwners == {boot, usr}
MCTokenAdmins == {boot}
MCServers == {srv}
MCScopeChoices == {{"read"}, {"issue", "read"}, {"revoke"}, {"admin"}}


MCSymmetry == Permutations(MCWorkers) \union Permutations({adm1, adm2})

allVars == <<focus, accountVars, loginVars, tokenVars>>

Init ==
    /\ focus \in {"accounts", "login", "tokens"}
    /\ AccountsInit /\ LoginInit /\ TokensInit

Next ==
    \/ focus = "accounts" /\ AccountsNext /\ UNCHANGED <<focus, loginVars, tokenVars>>
    \/ focus = "login" /\ LoginNext /\ UNCHANGED <<focus, accountVars, tokenVars>>
    \/ focus = "tokens" /\ TokensNext /\ UNCHANGED <<focus, accountVars, loginVars>>

Spec == Init /\ [][Next]_allVars

\* The rows and the histories of all three are what they should be.
IdentityTypeOK ==
    /\ focus = "accounts" => AccountsTypeOK
    /\ focus = "login" => LoginTypeOK
    /\ focus = "tokens" => TokensTypeOK
=============================================================================
