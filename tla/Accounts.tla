------------------------------ MODULE Accounts ------------------------------
(***************************************************************************)
(* User accounts under dual control (routes/users.py,                      *)
(* services/dual_control_service.py, the provisioning half of              *)
(* services/auth_service.py, `flask users approve`): who exists, who is an *)
(* admin, who is active, and what waits for a second admin.                *)
(*                                                                         *)
(* A request is served in up to four steps. The row of its admin is read   *)
(* first (load_user) and stays in the session; then the row it is about;   *)
(* then, after a password has been hashed or a directory asked, the number *)
(* of admins and whether dual control is in force; and the columns it has  *)
(* changed are committed last. Each read is a SELECT of its own outside a  *)
(* transaction: the requests of the other gunicorn workers and of the      *)
(* shell may commit between any two steps. Count and mode are read in one  *)
(* step, as no request goes by both. Passwords, lockout and sessions are   *)
(* in Login.                                                               *)
(***************************************************************************)
EXTENDS Naturals, FiniteSets

CONSTANTS
    Users,              \* the accounts that may ever exist
    Bootstrap,          \* ADMIN_USERNAME, the break-glass account
    FirstAdmins,        \* the admins there are at the start, Bootstrap among them
    FirstRequesters,    \* the csr_requesters there are at the start
    Processes,          \* the processes that serve requests
    DualControl,        \* DUAL_CONTROL_ENABLED
    MaxRequests,        \* bound on the requests of a behaviour
    NoUser,             \* a NULL users.id
    Shell,              \* the actor of the command line
    Directory,          \* the actor of an LDAP login
    Deactivated         \* a mark in `hands`, no actor

ASSUME AccountsAssumption ==
    /\ Bootstrap \in FirstAdmins
    /\ FirstAdmins \subseteq Users
    /\ FirstRequesters \subseteq Users \ FirstAdmins
    /\ DualControl \in BOOLEAN
    /\ MaxRequests \in Nat
    /\ {NoUser, Shell, Directory, Deactivated} \intersect Users = {}
    /\ NoUser \notin {Shell, Directory} /\ Shell # Directory

VARIABLES
    acct,           \* the users table
    ldapOn,         \* LDAP_ENABLED in the configuration in effect
    proc,           \* the request of each process, from its first read to its commit
    requests,       \* how many requests there have been
    hands,          \* history: who has changed each account since it was created, and
                    \* Deactivated if a request did that had outlived its admin's account
    setters         \* history: who has caused what awaits approval of each account

accountVars == <<acct, ldapOn, proc, requests, hands, setters>>

Roles == {"admin", "csr_requester"}

\* `created` and `reset` say that created_at and password_reset_at are younger than
\* DUAL_CONTROL_COOLDOWN_HOURS.
Rows == [exists : BOOLEAN, role : Roles, active : BOOLEAN, source : {"local", "ldap"},
         approval : {"approved", "pending"}, pendingRole : BOOLEAN,
         pendingBy : Users \union {NoUser}, createdBy : Users \union {NoUser},
         resetBy : Users \union {NoUser}, created : BOOLEAN, reset : BOOLEAN]

Columns == {"exists", "role", "active", "source", "approval", "pendingRole", "pendingBy",
            "createdBy", "resetBy", "created", "reset"}

Absent == [exists |-> FALSE, role |-> "csr_requester", active |-> FALSE, source |-> "local",
           approval |-> "approved", pendingRole |-> FALSE, pendingBy |-> NoUser,
           createdBy |-> NoUser, resetBy |-> NoUser, created |-> FALSE, reset |-> FALSE]

Seeded(role) == [Absent EXCEPT !.exists = TRUE, !.active = TRUE, !.role = role]

\* What a request does, once it has decided, and how far it has come before.
Changes == {"create", "edit", "toggle", "reset", "approve", "login"}
Operations == Changes \union {"idle", "arrived", "loaded"}

\* `self` is the row of the admin it runs for and `row` that of the account it is about, as they
\* were read; then the columns `changed` of `new` are to be written. `stale` says that another
\* request has committed since the first read, `lapsed` that the request was let through because
\* its own admin, the last ordinary account that was active, no longer is.
Idle == [op |-> "idle", by |-> NoUser, self |-> Absent, user |-> NoUser, row |-> Absent,
         new |-> Absent, changed |-> {}, stale |-> FALSE, lapsed |-> FALSE]

---------------------------------------------------------------------------

ActiveAdmins == {u \in Users : acct[u].exists /\ acct[u].role = "admin" /\ acct[u].active}

AnAdminIsThere == Cardinality(ActiveAdmins) >= 1   \* off by one

\* The check of edit_user and toggle_active
AdminsRemain == Cardinality(ActiveAdmins) > 1

\* is_active: with the flag on, somebody besides the bootstrap account can log in.
DualActive ==
    /\ DualControl
    /\ \/ ldapOn
       \/ \E u \in Users \ {Bootstrap} : acct[u].exists /\ acct[u].active

Gated(a) == DualActive /\ a # Bootstrap

CanApproveOwn(a, self, setter) ==           \* the setter is not compared with the approver
    \/ a = Bootstrap
    \/ setter = NoUser
    \/ ~ (self.createdBy = setter /\ self.created)

\* can_approve, for the admin `a` whose row is `self`: not what one has set up, nor with an account
\* its setter has just made or reset.
CanApprove(a, self, setter) ==
    \/ a = Bootstrap
    \/ setter = NoUser
    \/ /\ a # setter
       /\ ~ (self.createdBy = setter /\ self.created)
       /\ ~ (self.resetBy = setter /\ self.reset)

IsPending(row) == row.approval = "pending"
AwaitsApproval(row) == IsPending(row) \/ row.pendingRole

\* load_user and admin_required: the row of an active admin is loaded.
Arrive(p, a) ==
    /\ proc[p] = Idle
    /\ requests < MaxRequests
    /\ a \in ActiveAdmins
    /\ proc' = [proc EXCEPT ![p] = [Idle EXCEPT !.op = "arrived", !.by = a, !.self = acct[a]]]
    /\ requests' = requests + 1
    /\ UNCHANGED <<acct, ldapOn, hands, setters>>

\* The row of the account that the request is about; the admin's own is in the session already.
Load(p, u) ==
    /\ proc[p].op = "arrived"
    /\ proc' = [proc EXCEPT ![p].op = "loaded", ![p].user = u,
                            ![p].row = IF u = proc[p].by THEN proc[p].self ELSE acct[u]]
    /\ UNCHANGED <<acct, ldapOn, requests, hands, setters>>

\* `flask users approve`, and authenticate for a name that is not a local account's: no admin's row
\* is read, the account's is the first.
LoadAlone(p, by, u) ==
    /\ proc[p] = Idle
    /\ requests < MaxRequests
    /\ \/ by = Shell /\ AwaitsApproval(acct[u])
       \/ by = Directory /\ (~ acct[u].exists \/ acct[u].source = "ldap")
    /\ proc' = [proc EXCEPT ![p] = [Idle EXCEPT !.op = "loaded", !.by = by, !.user = u,
                                                !.row = acct[u]]]
    /\ requests' = requests + 1
    /\ UNCHANGED <<acct, ldapOn, hands, setters>>

\* The request would be gated but for its own admin's account having been deactivated.
Outlived(p) ==
    LET a == proc[p].by
    IN a \in Users \ {Bootstrap} /\ ~ acct[a].active /\ ~ DualActive

\* The end of a handler: the columns that differ from what was read will be written, a timestamp
\* always.
Decide(p, op, new) ==
    LET r == proc[p]
        changed == {c \in Columns : new[c] # r.row[c]}
                       \union (IF op = "reset" THEN {"reset"} ELSE {})
    IN /\ r.op = "loaded"
       /\ changed # {}
       /\ proc' = [proc EXCEPT ![p] =
              [op |-> op, by |-> r.by, self |-> Absent, user |-> r.user, row |-> Absent,
               new |-> new, changed |-> changed, stale |-> r.stale,
               lapsed |-> op \in {"create", "edit", "approve"} /\ Outlived(p)]]
       /\ UNCHANGED <<acct, ldapOn, requests, hands, setters>>

\* create_user: under dual control a new account starts inactive and pending.
CreateUser(p, role) ==
    LET a == proc[p].by
    IN /\ a \in Users
       /\ ~ proc[p].row.exists
       /\ Decide(p, "create",
                 [Absent EXCEPT !.exists = TRUE, !.role = role, !.active = ~ Gated(a),
                                !.approval = IF Gated(a) THEN "pending" ELSE "approved",
                                !.pendingBy = IF Gated(a) THEN a ELSE NoUser,
                                !.createdBy = a, !.created = TRUE])

\* edit_user: the last active admin keeps the role; a promotion may need a second admin.
EditUser(p, role) ==
    LET a == proc[p].by
        row == proc[p].row
        promotes == role = "admin" /\ row.role # "admin"
    IN /\ a \in Users
       /\ row.exists
       /\ row.role = "admin" /\ role # "admin" => AdminsRemain
       /\ Decide(p, "edit",
                 IF promotes /\ Gated(a)
                 THEN [row EXCEPT !.pendingRole = TRUE, !.pendingBy = a]
                 ELSE [row EXCEPT !.role = role,
                                  !.pendingRole = row.pendingRole /\ role = "admin"])

\* toggle_active: not oneself, not a pending account, not the last active admin.
ToggleActive(p) ==
    LET row == proc[p].row
    IN /\ proc[p].by \in Users \ {proc[p].user}
       /\ row.exists
       /\ row.active \/ ~ IsPending(row)
       /\ row.active /\ row.role = "admin" => AdminsRemain
       /\ Decide(p, "toggle", [row EXCEPT !.active = ~ row.active])

\* reset_password: another admin's account is deactivated until a third one approves it; the
\* bootstrap account is not reset here at all.
ResetPassword(p) ==
    LET a == proc[p].by
        u == proc[p].user
        row == proc[p].row
        gated == Gated(a) /\ row.role = "admin" /\ u # a
        reset == [row EXCEPT !.resetBy = a, !.reset = TRUE]
    IN /\ a \in Users
       /\ row.exists
       /\ row.source = "local"
       /\ ~ (gated /\ u = Bootstrap)
       /\ Decide(p, "reset",
                 IF gated THEN [reset EXCEPT !.active = FALSE, !.approval = "pending",
                                             !.pendingBy = a]
                          ELSE reset)

\* What an approval makes of a row.
Approved(row) ==
    [row EXCEPT !.role = IF row.pendingRole THEN "admin" ELSE row.role,
                !.pendingRole = FALSE,
                !.approval = "approved",
                !.active = row.active \/ IsPending(row),
                !.pendingBy = NoUser]

\* approve_user; from the shell, the break-glass approval asks for no second admin.
ApproveUser(p) ==
    LET a == proc[p].by
        row == proc[p].row
    IN /\ a \in Users \union {Shell}
       /\ row.exists
       /\ AwaitsApproval(row)
       /\ a \in Users /\ DualActive => CanApprove(a, proc[p].self, row.pendingBy)
       /\ Decide(p, "approve", Approved(row))

\* authenticate, for an account of the directory: the first login provisions it, a later one takes
\* over the role that its groups map to, whether or not the account is active here.
LdapLogin(p, role) ==
    /\ proc[p].by = Directory
    /\ ldapOn
    /\ \/ /\ ~ proc[p].row.exists
          /\ Decide(p, "create",
                    [Absent EXCEPT !.exists = TRUE, !.role = role, !.active = TRUE,
                                   !.source = "ldap", !.created = TRUE])
       \/ /\ proc[p].row.exists
          /\ Decide(p, "login", [proc[p].row EXCEPT !.role = role])

\* The request puts the account, or its promotion, up for approval.
SetsUp(p) ==
    \/ proc[p].op \in {"create", "reset"} /\ IsPending(proc[p].new)
    \/ /\ proc[p].op = "edit" /\ proc[p].new.pendingRole
       /\ proc[p].changed \intersect {"pendingRole", "pendingBy"} # {}

Hands(p) == {proc[p].by} \union (IF proc[p].lapsed THEN {Deactivated} ELSE {})

\* The commit. A second INSERT of one username is refused by the unique constraint.
Commit(p) ==
    LET u == proc[p].user
        refused == proc[p].op = "create" /\ acct[u].exists
    IN /\ proc[p].op \in Changes
       /\ proc' = [q \in Processes |->
                      IF q = p THEN Idle
                      ELSE IF proc[q] = Idle \/ refused THEN proc[q]
                      ELSE [proc[q] EXCEPT !.stale = TRUE]]
       /\ IF refused
          THEN UNCHANGED <<acct, hands, setters>>
          ELSE /\ acct' = [acct EXCEPT ![u] =
                      [c \in Columns |-> IF c \in proc[p].changed THEN proc[p].new[c]
                                                                 ELSE acct[u][c]]]
               /\ hands' = [hands EXCEPT ![u] = @ \union Hands(p)]
               /\ setters' = [setters EXCEPT ![u] =
                      IF AwaitsApproval(acct'[u])
                      THEN IF SetsUp(p) THEN @ \union {proc[p].by} ELSE @
                      ELSE {}]
       /\ UNCHANGED <<ldapOn, requests>>

\* A request ends without a commit: it has asked for a page, it is refused, it fails.
Abandon(p) ==
    /\ proc[p] # Idle
    /\ proc' = [proc EXCEPT ![p] = Idle]
    /\ UNCHANGED <<acct, ldapOn, requests, hands, setters>>

\* ldap_settings, ldap_settings_reset, or a restart: another directory configuration takes effect.
SwitchLdap ==
    /\ requests < MaxRequests
    /\ ldapOn' = ~ ldapOn
    /\ requests' = requests + 1
    /\ UNCHANGED <<acct, proc, hands, setters>>

Cooled(row) == [row EXCEPT !.created = FALSE, !.reset = FALSE]

\* DUAL_CONTROL_COOLDOWN_HOURS pass; what a request has read are dates.
CooldownEnds ==
    /\ \E u \in Users : acct[u].created \/ acct[u].reset
    /\ acct' = [u \in Users |-> Cooled(acct[u])]
    /\ proc' = [p \in Processes |-> [proc[p] EXCEPT !.self = Cooled(@), !.row = Cooled(@)]]
    /\ UNCHANGED <<ldapOn, requests, hands, setters>>

AccountsInit ==
    /\ acct = [u \in Users |-> CASE u \in FirstAdmins -> Seeded("admin")
                                 [] u \in FirstRequesters -> Seeded("csr_requester")
                                 [] OTHER -> Absent]
    /\ ldapOn = FALSE
    /\ proc = [p \in Processes |-> Idle]
    /\ requests = 0
    /\ hands = [u \in Users |-> {}]
    /\ setters = [u \in Users |-> {}]

\* What the handler of a request that has its row comes to.
Handle(p) ==
    \/ \E role \in Roles : CreateUser(p, role) \/ EditUser(p, role) \/ LdapLogin(p, role)
    \/ ToggleActive(p)
    \/ ResetPassword(p)
    \/ ApproveUser(p)

AccountsNext ==
    \/ \E p \in Processes :
          \/ \E a \in Users : Arrive(p, a)
          \/ \E u \in Users : Load(p, u) \/ \E by \in {Shell, Directory} : LoadAlone(p, by, u)
          \/ Handle(p)
          \/ Commit(p)
          \/ Abandon(p)
    \/ SwitchLdap
    \/ CooldownEnds

AccountsSpec == AccountsInit /\ [][AccountsNext]_accountVars

---------------------------------------------------------------------------

\* The rows, the requests and the histories are what they should be (models/user.py).
AccountsTypeOK ==
    /\ acct \in [Users -> Rows]
    /\ ldapOn \in BOOLEAN
    /\ proc \in [Processes -> [op : Operations,
                               by : Users \union {NoUser, Shell, Directory}, self : Rows,
                               user : Users \union {NoUser}, row : Rows, new : Rows,
                               changed : SUBSET Columns, stale : BOOLEAN, lapsed : BOOLEAN]]
    /\ requests \in 0..MaxRequests
    /\ hands \in [Users -> SUBSET (Users \union {Shell, Directory, Deactivated})]
    /\ setters \in [Users -> SUBSET (Users \union {Shell, Directory})]

\* Power that nobody had at the start.
NewPower(u) ==
    \/ u \notin FirstAdmins \union FirstRequesters /\ acct[u].exists /\ acct[u].active
    \/ u \notin FirstAdmins /\ acct[u].role = "admin" /\ acct[u].active

\* No single admin makes an account that can log in, or an admin, alone, whatever requests overlap
\* (create_user, edit_user and approve_user under DUAL_CONTROL_ENABLED): two of them have had a hand
\* in it, or the bootstrap account, the shell or the directory has, or a request did it whose own
\* admin had been deactivated after it arrived, with no ordinary account left to approve anything:
\* is_active is asked late and then says no.
NoLoneGrant ==
    DualControl =>
        \A u \in Users : NewPower(u) =>
            \/ hands[u] \intersect {Bootstrap, Shell, Directory, Deactivated} # {}
            \/ \E a, b \in hands[u] : a # b

\* A request of process p commits in this step on rows that nobody has changed since its first read.
CommitsFresh(p) == Commit(p) /\ ~ proc[p].stale

\* "Cannot change role: this is the last active admin" (edit_user, toggle_active), and a gated
\* password reset deactivates its account unchecked: no request leaves the system without an active
\* admin, unless it overlaps another one or the directory takes the role away.
LastAdminKept ==
    [][\A p \in Processes :
          CommitsFresh(p) /\ proc[p].by # Directory /\ ActiveAdmins # {} => ActiveAdmins' # {}
      ]_accountVars

\* "A *different* admin approves it (pending_by = who caused the pending state; the approver may
\* not be that admin" (models/user.py): nobody approves what they themselves have set up.
ApprovedByAnother ==
    [][\A p \in Processes :
          /\ Commit(p) /\ proc[p].op = "approve" /\ ~ proc[p].lapsed
          /\ proc[p].by \notin {Bootstrap, Shell}
          => proc[p].by \notin setters[proc[p].user]]_accountVars
=============================================================================
