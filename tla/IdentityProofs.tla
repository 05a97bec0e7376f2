--------------------------- MODULE IdentityProofs ---------------------------
(***************************************************************************)
(* Accounts and logins, for every set of users, processes and workers: who *)
(* may come to power under dual control, and what a request that overlaps  *)
(* no other keeps: an active admin, single-use codes, and the second       *)
(* factor of every session; how far two workers that do overlap can push   *)
(* the lockout out; and what a token can never do.                         *)
(***************************************************************************)
EXTENDS Accounts, Login, Tokens, FiniteSetTheorems, TLAPS

(***************************************************************************)
(* Dual control. NoLoneGrant is about what is committed; what makes it     *)
(* inductive is what holds of a row however long ago it was read, what a   *)
(* request had established when it decided, and that the hands an account  *)
(* has passed through only become more.                                    *)
(***************************************************************************)

\* Two have had a hand in it, or one that needs no second.
Backed(h) ==
    \/ h \intersect {Bootstrap, Shell, Directory, Deactivated} # {}
    \/ \E a, b \in h : a # b

\* An account that was not there at the start.
Incomer(u) == u \notin FirstAdmins \union FirstRequesters

\* What a row of the account `u` says of the hands `h` it has passed through: what is in force is
\* backed, and what is pending names somebody who had a hand in it.
RowBacked(u, row, h) ==
    /\ Incomer(u) /\ row.exists /\ (row.active \/ ~ IsPending(row)) => Backed(h)
    /\ u \in FirstRequesters /\ row.role = "admin" => Backed(h)
    /\ AwaitsApproval(row) => Backed(h) \/ row.pendingBy # NoUser
    /\ row.pendingBy # NoUser => row.pendingBy \in h
    /\ ~ row.exists => Incomer(u) /\ ~ row.active /\ ~ IsPending(row)

RowsBacked == \A u \in Users : RowBacked(u, acct[u], hands[u])

\* The same of a row that was read some time ago, where `now` is what has become of it.
ReadBacked(u, row, now, h) ==
    /\ RowBacked(u, row, h)
    /\ row.pendingBy # NoUser => now.pendingBy # NoUser \/ Backed(h)

ReadsBacked ==
    \A p \in Processes :
        LET r == proc[p]
        IN /\ r.op \in {"arrived", "loaded"} /\ r.by \in Users =>
                  ReadBacked(r.by, r.self, acct[r.by], hands[r.by])
           /\ r.op = "loaded" => ReadBacked(r.user, r.row, acct[r.user], hands[r.user])

\* A request is somebody's, and about an account once it has read one. Only a creation is about an
\* account that is not there.
Known(r) ==
    /\ r.op # "idle" => /\ r.by \in Users \union {Shell, Directory}
                        /\ r.by \in Users => acct[r.by].exists
    /\ r.op = "arrived" => r.by \in Users
    /\ r.op \in Changes \union {"loaded"} => r.user \in Users
    /\ r.op = "loaded" /\ r.row.exists => acct[r.user].exists
    /\ r.op \in Changes => /\ r.new.exists
                           /\ r.op # "create" => acct[r.user].exists
                           /\ acct[r.user].exists \/ "exists" \in r.changed

RequestsKnown == \A p \in Processes : Known(proc[p])

\* The hands that a request adds.
HandsOf(r) == {r.by} \union (IF r.lapsed THEN {Deactivated} ELSE {})

\* The request puts something up for approval, in the name of whom it is pending or will be.
Suspends(r) ==
    \/ "approval" \in r.changed /\ IsPending(r.new)
    \/ "pendingRole" \in r.changed /\ r.new.pendingRole

\* What a request will commit on the row `now`, which has passed through the hands `h`, is backed
\* with the hands of its own, or is pending in its name.
RequestBacked(r, now, h) ==
    LET u == r.user
        new == r.new
        changed == r.changed
        after == h \union HandsOf(r)
    IN /\ Incomer(u) /\ (("active" \in changed /\ new.active)
                         \/ ("approval" \in changed /\ ~ IsPending(new))) => Backed(after)
       /\ u \in FirstRequesters /\ "role" \in changed /\ new.role = "admin" => Backed(after)
       /\ "pendingBy" \in changed =>
              IF new.pendingBy = NoUser THEN Backed(after) ELSE new.pendingBy = r.by
       /\ Suspends(r) =>
              \/ "pendingBy" \in changed /\ new.pendingBy # NoUser
              \/ now.pendingBy # NoUser
              \/ Backed(h)
       /\ r.op = "create" =>
              \/ Backed(after)
              \/ "approval" \in changed /\ IsPending(new) /\ ~ new.active

RequestsBacked ==
    \A p \in Processes :
        LET r == proc[p]
        IN r.op \in Changes => RequestBacked(r, acct[r.user], hands[r.user])

GrantInv ==
    /\ AccountsTypeOK
    /\ RequestsKnown
    /\ DualControl => RowsBacked /\ ReadsBacked /\ RequestsBacked

\* The row of the request's account once it has committed.
Written(p) ==
    LET u == proc[p].user
    IN [c \in Columns |-> IF c \in proc[p].changed THEN proc[p].new[c] ELSE acct[u][c]]

\* Some active admin stays one when the request commits.
LeavesAnAdmin(p) ==
    LET u == proc[p].user
        new == proc[p].new
        role == IF "role" \in proc[p].changed THEN new.role ELSE acct[u].role
        active == IF "active" \in proc[p].changed THEN new.active ELSE acct[u].active
    IN \E v \in ActiveAdmins : v = u => role = "admin" /\ active

\* A request whose reads still hold does not take away the last admin.
FreshLeaveAnAdmin ==
    \A p \in Processes :
        /\ proc[p].op \in Changes /\ ~ proc[p].stale /\ proc[p].by # Directory
        /\ ActiveAdmins # {}
        => LeavesAnAdmin(p)

\* Two rows that differ in no column but those of the cooldown.
Same(row, other) ==
    /\ row.exists = other.exists /\ row.role = other.role
    /\ row.active = other.active /\ row.approval = other.approval
    /\ row.pendingRole = other.pendingRole /\ row.pendingBy = other.pendingBy

\* What a request has read stays true until another one commits.
FreshReads ==
    \A p \in Processes :
        LET r == proc[p]
        IN /\ r.op \in {"arrived", "loaded"} /\ ~ r.stale /\ r.by \in Users =>
                  r.by \in ActiveAdmins /\ Same(r.self, acct[r.by])
           /\ r.op = "loaded" /\ ~ r.stale => Same(r.row, acct[r.user])

-----------------------------------------------------------------------------
(* What the columns can hold *)

Works == [op : Operations, by : Users \union {NoUser, Shell, Directory}, self : Rows,
          user : Users \union {NoUser}, row : Rows, new : Rows, changed : SUBSET Columns,
          stale : BOOLEAN, lapsed : BOOLEAN]

LEMMA RowTyped ==
    /\ Absent \in Rows
    /\ \A role \in Roles : Seeded(role) \in Rows
    /\ Idle \in Works /\ Idle.op = "idle"
  <1>1. Absent \in Rows /\ \A role \in Roles : Seeded(role) \in Rows
    BY DEF Absent, Seeded, Rows, Roles
  <1>2. QED
    BY <1>1 DEF Idle, Works, Operations

\* The row that a commit writes, column by column.
LEMMA WrittenColumns ==
    ASSUME AccountsTypeOK, NEW p \in Processes, proc[p].user \in Users
    PROVE  /\ Written(p) \in Rows
           /\ \A c \in Columns : Written(p)[c] = IF c \in proc[p].changed THEN proc[p].new[c]
                                                ELSE acct[proc[p].user][c]
  <1>1. acct[proc[p].user] \in Rows /\ proc[p].new \in Rows
    BY DEF AccountsTypeOK
  <1>2. QED
    BY <1>1 DEF Written, Columns, Rows

LEMMA AccountsInitType == AccountsInit => AccountsTypeOK
  <1> SUFFICES ASSUME AccountsInit PROVE AccountsTypeOK
    OBVIOUS
  <1>1. acct \in [Users -> Rows]
    BY RowTyped DEF AccountsInit, Roles
  <1>2. requests \in 0..MaxRequests
    BY AccountsAssumption DEF AccountsInit
  <1>3. proc \in [Processes -> Works]
    BY RowTyped DEF AccountsInit
  <1>4. QED
    BY <1>1, <1>2, <1>3 DEF AccountsInit, AccountsTypeOK, Works

\* A request decides what the row it has read is to be; only a creation is about an account that was
\* not there.
Taken(p, op, new) ==
    /\ Decide(p, op, new)
    /\ op \in Changes /\ new \in Rows /\ new.exists
    /\ op # "create" <=> proc[p].row.exists

LEMMA CreateTaken ==
    ASSUME AccountsTypeOK, NEW p \in Processes, NEW role \in Roles, CreateUser(p, role)
    PROVE  \E new \in Rows :
              /\ Taken(p, "create", new)
              /\ ~ proc[p].row.exists /\ proc[p].by \in Users
              /\ new.active = ~ Gated(proc[p].by) /\ new.pendingRole = FALSE
              /\ IF Gated(proc[p].by) THEN IsPending(new) /\ new.pendingBy = proc[p].by
                                      ELSE ~ IsPending(new) /\ new.pendingBy = NoUser
  <1> DEFINE a == proc[p].by
             new == [Absent EXCEPT !.exists = TRUE, !.role = role, !.active = ~ Gated(a),
                             !.approval = IF Gated(a) THEN "pending" ELSE "approved",
                             !.pendingBy = IF Gated(a) THEN a ELSE NoUser,
                             !.createdBy = a, !.created = TRUE]
  <1>1. Gated(a) \in BOOLEAN
    BY DEF Gated, DualActive
  <1>4. Decide(p, "create", new) /\ ~ proc[p].row.exists /\ a \in Users
    BY DEF CreateUser
  <1>2. new \in Rows
    BY <1>1, <1>4 DEF Absent, Rows
  <1>3. /\ new.active = ~ Gated(a) /\ new.pendingRole = FALSE /\ new.exists
        /\ IF Gated(a) THEN IsPending(new) /\ new.pendingBy = a
                       ELSE ~ IsPending(new) /\ new.pendingBy = NoUser
    BY DEF Absent, IsPending
  <1> HIDE DEF new
  <1>5. QED
    BY <1>2, <1>3, <1>4 DEF Taken, Changes

LEMMA EditTaken ==
    ASSUME AccountsTypeOK, NEW p \in Processes, NEW role \in Roles, EditUser(p, role)
    PROVE  \E new \in Rows :
              /\ Taken(p, "edit", new)
              /\ proc[p].row.exists /\ proc[p].by \in Users
              /\ new.active = proc[p].row.active /\ new.approval = proc[p].row.approval
              /\ proc[p].row.role = "admin" /\ role # "admin" => AdminsRemain
              /\ IF role = "admin" /\ proc[p].row.role # "admin" /\ Gated(proc[p].by)
                 THEN /\ new.role = proc[p].row.role /\ new.pendingRole
                      /\ new.pendingBy = proc[p].by
                 ELSE /\ new.role = role /\ new.pendingBy = proc[p].row.pendingBy
                      /\ new.pendingRole => proc[p].row.pendingRole
  <1> DEFINE row == proc[p].row
             a == proc[p].by
             asks == role = "admin" /\ row.role # "admin" /\ Gated(a)
             new == IF asks
                    THEN [row EXCEPT !.pendingRole = TRUE, !.pendingBy = a]
                    ELSE [row EXCEPT !.role = role,
                                     !.pendingRole = row.pendingRole /\ role = "admin"]
  <1>1. row \in Rows
    BY DEF AccountsTypeOK
  <1>4. /\ Decide(p, "edit", new) /\ row.exists /\ a \in Users
        /\ row.role = "admin" /\ role # "admin" => AdminsRemain
    BY DEF EditUser
  <1>2. new \in Rows
    <2>1. [row EXCEPT !.pendingRole = TRUE, !.pendingBy = a] \in Rows
      BY <1>1, <1>4 DEF Rows
    <2>2. [row EXCEPT !.role = role, !.pendingRole = row.pendingRole /\ role = "admin"] \in Rows
      BY <1>1 DEF Rows
    <2>3. QED
      BY <2>1, <2>2
  <1>3. /\ new.active = row.active /\ new.approval = row.approval /\ new.exists = row.exists
        /\ IF asks THEN new.role = row.role /\ new.pendingRole /\ new.pendingBy = a
           ELSE /\ new.role = role /\ new.pendingBy = row.pendingBy
                /\ new.pendingRole => row.pendingRole
    BY <1>1 DEF Rows
  <1> HIDE DEF new
  <1>5. QED
    BY <1>2, <1>3, <1>4 DEF Taken, Changes

LEMMA ToggleTaken ==
    ASSUME AccountsTypeOK, NEW p \in Processes, ToggleActive(p)
    PROVE  \E new \in Rows :
              /\ Taken(p, "toggle", new)
              /\ proc[p].by \in Users \ {proc[p].user} /\ proc[p].row.exists
              /\ proc[p].row.active \/ ~ IsPending(proc[p].row)
              /\ new.role = proc[p].row.role /\ new.approval = proc[p].row.approval
              /\ new.pendingBy = proc[p].row.pendingBy
              /\ new.pendingRole = proc[p].row.pendingRole
              /\ new.active => ~ proc[p].row.active
  <1> DEFINE row == proc[p].row
             new == [row EXCEPT !.active = ~ row.active]
  <1>1. row \in Rows
    BY DEF AccountsTypeOK
  <1>2. new \in Rows
    BY <1>1 DEF Rows
  <1>3. /\ new.role = row.role /\ new.approval = row.approval
        /\ new.pendingBy = row.pendingBy /\ new.pendingRole = row.pendingRole
        /\ new.exists = row.exists
    BY <1>1 DEF Rows
  <1>4. new.active = ~ row.active
    BY <1>1 DEF Rows
  <1>5. /\ Decide(p, "toggle", new) /\ row.exists /\ proc[p].by \in Users \ {proc[p].user}
        /\ row.active \/ ~ IsPending(row)
    BY DEF ToggleActive
  <1> HIDE DEF new
  <1>6. QED
    BY <1>2, <1>3, <1>4, <1>5 DEF Taken, Changes

LEMMA ResetTaken ==
    ASSUME AccountsTypeOK, NEW p \in Processes, ResetPassword(p)
    PROVE  \E new \in Rows :
              /\ Taken(p, "reset", new) /\ proc[p].by \in Users
              /\ new.role = proc[p].row.role /\ new.pendingRole = proc[p].row.pendingRole
              /\ \/ /\ new.active = proc[p].row.active /\ new.approval = proc[p].row.approval
                    /\ new.pendingBy = proc[p].row.pendingBy
                 \/ /\ proc[p].user # proc[p].by
                    /\ ~ new.active /\ IsPending(new) /\ new.pendingBy = proc[p].by
  <1> DEFINE row == proc[p].row
             a == proc[p].by
             u == proc[p].user
             gated == Gated(a) /\ row.role = "admin" /\ u # a
             reset == [row EXCEPT !.resetBy = a, !.reset = TRUE]
             new == IF gated THEN [reset EXCEPT !.active = FALSE, !.approval = "pending",
                                                !.pendingBy = a]
                             ELSE reset
  <1>1. row \in Rows
    BY DEF AccountsTypeOK
  <1>6. Decide(p, "reset", new) /\ row.exists /\ a \in Users
    BY DEF ResetPassword
  <1>2. reset \in Rows
    BY <1>1, <1>6 DEF Rows
  <1>3. new \in Rows
    <2>1. [reset EXCEPT !.active = FALSE, !.approval = "pending", !.pendingBy = a] \in Rows
      <3> HIDE DEF reset
      <3>1. QED
        BY <1>2, <1>6 DEF Rows
    <2>2. QED
      BY <1>2, <2>1
  <1>4. /\ reset.role = row.role /\ reset.pendingRole = row.pendingRole
        /\ reset.active = row.active /\ reset.approval = row.approval
        /\ reset.pendingBy = row.pendingBy /\ reset.exists = row.exists
    BY <1>1 DEF Rows
  <1>5. /\ new.role = row.role /\ new.pendingRole = row.pendingRole /\ new.exists = row.exists
        /\ \/ /\ new.active = row.active /\ new.approval = row.approval
              /\ new.pendingBy = row.pendingBy
           \/ u # a /\ ~ new.active /\ IsPending(new) /\ new.pendingBy = a
    <2> HIDE DEF reset
    <2>1. QED
      BY <1>2, <1>4 DEF Rows, IsPending
  <1> HIDE DEF new
  <1>7. QED
    BY <1>3, <1>5, <1>6 DEF Taken, Changes

LEMMA ApprovalIsARow ==
    ASSUME NEW row \in Rows
    PROVE  /\ Approved(row) \in Rows
           /\ Approved(row).exists = row.exists
           /\ Approved(row).pendingRole = FALSE /\ Approved(row).pendingBy = NoUser
           /\ ~ IsPending(Approved(row))
           /\ row.active => Approved(row).active
           /\ row.role = "admin" => Approved(row).role = "admin"
  <1> DEFINE role == IF row.pendingRole THEN "admin" ELSE row.role
             active == row.active \/ IsPending(row)
  <1>2. /\ role \in Roles /\ active \in BOOLEAN
        /\ row.active => active
        /\ row.role = "admin" => role = "admin"
    BY DEF Rows, Roles, IsPending
  <1>3. Approved(row) = [row EXCEPT !.role = role, !.pendingRole = FALSE, !.approval = "approved",
                                    !.active = active, !.pendingBy = NoUser]
    BY DEF Approved
  <1> HIDE DEF role, active
  <1>4. Approved(row) \in Rows
    BY <1>2, <1>3 DEF Rows
  <1>5. /\ Approved(row).exists = row.exists
        /\ Approved(row).pendingRole = FALSE /\ Approved(row).pendingBy = NoUser
        /\ Approved(row).approval = "approved"
        /\ Approved(row).active = active /\ Approved(row).role = role
    BY <1>3 DEF Rows
  <1>6. ~ IsPending(Approved(row))
    BY <1>5 DEF IsPending
  <1>7. QED
    BY <1>2, <1>4, <1>5, <1>6

LEMMA ApproveTaken ==
    ASSUME AccountsTypeOK, NEW p \in Processes, ApproveUser(p)
    PROVE  /\ Taken(p, "approve", Approved(proc[p].row))
           /\ AwaitsApproval(proc[p].row) /\ proc[p].row.exists
           /\ \/ proc[p].by = Shell
              \/ /\ proc[p].by \in Users
                 /\ DualActive => CanApprove(proc[p].by, proc[p].self, proc[p].row.pendingBy)
  <1>1. proc[p].row \in Rows
    BY DEF AccountsTypeOK
  <1>2. QED
    BY <1>1, ApprovalIsARow DEF ApproveUser, Taken, Changes

LEMMA LdapTaken ==
    ASSUME AccountsTypeOK, NEW p \in Processes, NEW role \in Roles, LdapLogin(p, role)
    PROVE  \E new \in Rows, op \in {"create", "login"} :
              /\ Taken(p, op, new) /\ proc[p].by = Directory
              /\ op = "create" => /\ new.pendingBy = NoUser /\ ~ new.pendingRole
                                  /\ ~ IsPending(new) /\ ~ proc[p].row.exists
              /\ op = "login" => /\ new.pendingBy = proc[p].row.pendingBy
                                 /\ new.pendingRole = proc[p].row.pendingRole
                                 /\ new.approval = proc[p].row.approval
  <1> DEFINE row == proc[p].row
             added == [Absent EXCEPT !.exists = TRUE, !.role = role, !.active = TRUE,
                                     !.source = "ldap", !.created = TRUE]
             kept == [row EXCEPT !.role = role]
  <1>1. row \in Rows
    BY DEF AccountsTypeOK
  <1>2. /\ added \in Rows /\ added.exists
        /\ added.pendingBy = NoUser /\ ~ added.pendingRole /\ ~ IsPending(added)
    BY DEF Absent, Rows, IsPending
  <1>3. /\ kept \in Rows /\ kept.exists = row.exists
        /\ kept.pendingBy = row.pendingBy /\ kept.pendingRole = row.pendingRole
        /\ kept.approval = row.approval
    BY <1>1 DEF Rows
  <1>4. /\ proc[p].by = Directory
        /\ \/ ~ row.exists /\ Decide(p, "create", added)
           \/ row.exists /\ Decide(p, "login", kept)
    BY DEF LdapLogin
  <1> HIDE DEF added, kept
  <1>5. QED
    BY <1>2, <1>3, <1>4 DEF Taken, Changes

LEMMA RequestTaken ==
    ASSUME AccountsTypeOK, NEW p \in Processes, Handle(p)
    PROVE  \E op, new : Taken(p, op, new)
  <1> DEFINE Goal == \E op, new : Taken(p, op, new)
  <1>1. \/ \E role \in Roles : CreateUser(p, role) \/ EditUser(p, role) \/ LdapLogin(p, role)
        \/ ToggleActive(p) \/ ResetPassword(p) \/ ApproveUser(p)
    BY DEF Handle
  <1>2. ASSUME NEW role \in Roles, CreateUser(p, role) PROVE Goal
    BY <1>2, CreateTaken
  <1>3. ASSUME NEW role \in Roles, EditUser(p, role) PROVE Goal
    BY <1>3, EditTaken
  <1>4. ASSUME ToggleActive(p) PROVE Goal
    BY <1>4, ToggleTaken
  <1>5. ASSUME ResetPassword(p) PROVE Goal
    BY <1>5, ResetTaken
  <1>6. ASSUME ApproveUser(p) PROVE Goal
    BY <1>6, ApproveTaken
  <1>7. ASSUME NEW role \in Roles, LdapLogin(p, role) PROVE Goal
    BY <1>7, LdapTaken
  <1> HIDE DEF Goal
  <1>8. Goal
    BY <1>1, <1>2, <1>3, <1>4, <1>5, <1>6, <1>7
  <1>9. QED
    BY <1>8 DEF Goal

\* A request that has decided, as it is in hand.
LEMMA TakenInHand ==
    ASSUME AccountsTypeOK, NEW p \in Processes, NEW op, NEW new, Taken(p, op, new)
    PROVE  /\ proc[p].op = "loaded"
           /\ proc' = [proc EXCEPT ![p] = proc'[p]]
           /\ proc'[p].op = op /\ proc'[p].new = new
           /\ proc'[p].by = proc[p].by /\ proc'[p].user = proc[p].user
           /\ \A c \in Columns \ {"reset"} : c \in proc'[p].changed <=> new[c] # proc[p].row[c]
           /\ proc'[p].stale = proc[p].stale
           /\ proc'[p].lapsed = (op \in {"create", "edit", "approve"} /\ Outlived(p))
           /\ UNCHANGED <<acct, ldapOn, hands, setters, requests>>
  <1>1. /\ proc[p].op = "loaded"
        /\ UNCHANGED <<acct, ldapOn, hands, setters, requests>>
    BY DEF Taken, Decide
  <1> DEFINE lapsed == op \in {"create", "edit", "approve"} /\ Outlived(p)
             changed == {c \in Columns : new[c] # proc[p].row[c]}
                            \union (IF op = "reset" THEN {"reset"} ELSE {})
             r == [op |-> op, by |-> proc[p].by, self |-> Absent, user |-> proc[p].user,
                   row |-> Absent, new |-> new, changed |-> changed, stale |-> proc[p].stale,
                   lapsed |-> lapsed]
  <1>2. proc' = [proc EXCEPT ![p] = r]
    BY ZenonT(40) DEF Taken, Decide
  <1>3. /\ r.op = op /\ r.new = new /\ r.by = proc[p].by /\ r.user = proc[p].user
        /\ r.stale = proc[p].stale /\ r.changed = changed /\ r.lapsed = lapsed
    BY ZenonT(40)
  <1> HIDE DEF r
  <1>4. proc'[p] = r /\ proc' = [proc EXCEPT ![p] = proc'[p]]
    BY <1>2 DEF AccountsTypeOK
  <1>5. \A c \in Columns \ {"reset"} : c \in changed <=> new[c] # proc[p].row[c]
    OBVIOUS
  <1> HIDE DEF changed, lapsed
  <1>6. \A c \in Columns \ {"reset"} : c \in proc'[p].changed <=> new[c] # proc[p].row[c]
    BY <1>3, <1>4, <1>5
  <1>7. proc'[p].lapsed = (op \in {"create", "edit", "approve"} /\ Outlived(p))
    BY <1>3, <1>4, Zenon DEF lapsed
  <1>8. QED
    BY <1>1, <1>3, <1>4, <1>6, <1>7

LEMMA TakenTyped ==
    ASSUME AccountsTypeOK, NEW p \in Processes, NEW op, NEW new, Taken(p, op, new)
    PROVE  AccountsTypeOK'
  <1>1. PICK changed \in SUBSET Columns, lapsed \in BOOLEAN :
               proc' = [proc EXCEPT ![p] =
                  [op |-> op, by |-> proc[p].by, self |-> Absent, user |-> proc[p].user,
                   row |-> Absent, new |-> new, changed |-> changed, stale |-> proc[p].stale,
                   lapsed |-> lapsed]]
    <2>1. (op \in {"create", "edit", "approve"} /\ Outlived(p)) \in BOOLEAN
      OBVIOUS
    <2>2. QED
      BY <2>1 DEF Taken, Decide, Columns
  <1>2. proc[p] \in Works
    BY DEF AccountsTypeOK, Works
  <1>3. [op |-> op, by |-> proc[p].by, self |-> Absent, user |-> proc[p].user,
         row |-> Absent, new |-> new, changed |-> changed, stale |-> proc[p].stale,
         lapsed |-> lapsed] \in Works
    <2>1. op \in Operations /\ new \in Rows
      BY DEF Taken, Operations
    <2>2. QED
      BY <1>2, <2>1, RowTyped DEF Works
  <1>4. proc' \in [Processes -> Works]
    BY <1>1, <1>3 DEF AccountsTypeOK, Works
  <1>5. UNCHANGED <<acct, ldapOn, hands, setters, requests>>
    BY DEF Taken, Decide
  <1>6. QED
    BY <1>4, <1>5 DEF AccountsTypeOK, Works

LEMMA CommitTyped ==
    ASSUME AccountsTypeOK, NEW p \in Processes, Commit(p), proc[p].user \in Users,
           proc[p].by \in Users \union {Shell, Directory}
    PROVE  AccountsTypeOK'
  <1> DEFINE u == proc[p].user
  <1>1. \A q \in Processes : proc[q] \in Works
    BY DEF AccountsTypeOK, Works
  <1>2. \A r \in Works : [r EXCEPT !.stale = TRUE] \in Works
    BY ZenonT(40) DEF Works
  <1>3. proc' \in [Processes -> Works]
    BY <1>1, <1>2, RowTyped DEF Commit
  <1>4. acct' \in [Users -> Rows]
    <2>1. acct' = acct \/ acct' = [acct EXCEPT ![u] = Written(p)]
      BY DEF Commit, Written
    <2>2. QED
      BY <2>1, WrittenColumns DEF AccountsTypeOK
  <1>5. /\ hands' \in [Users -> SUBSET (Users \union {Shell, Directory, Deactivated})]
        /\ setters' \in [Users -> SUBSET (Users \union {Shell, Directory})]
    BY DEF Commit, AccountsTypeOK, Hands
  <1>6. ldapOn' \in BOOLEAN /\ requests' \in 0..MaxRequests
    BY DEF Commit, AccountsTypeOK
  <1>7. QED
    BY <1>3, <1>4, <1>5, <1>6 DEF AccountsTypeOK, Works

\* What a commit does to the rows, to the histories and to the other requests.
LEMMA CommitEffects ==
    ASSUME AccountsTypeOK, RequestsKnown, NEW p \in Processes, Commit(p)
    PROVE  /\ proc[p].op \in Changes /\ proc'[p] = Idle
           /\ \A q \in Processes \ {p} :
                 /\ proc'[q].op = proc[q].op /\ proc'[q].by = proc[q].by
                 /\ proc'[q].self = proc[q].self /\ proc'[q].row = proc[q].row
                 /\ proc'[q].user = proc[q].user /\ proc'[q].new = proc[q].new
                 /\ proc'[q].changed = proc[q].changed /\ proc'[q].lapsed = proc[q].lapsed
           /\ \/ /\ UNCHANGED <<acct, hands, setters>>
                 /\ \A q \in Processes \ {p} : proc'[q] = proc[q]
              \/ /\ proc[p].op = "create" => ~ acct[proc[p].user].exists
                 /\ acct' = [acct EXCEPT ![proc[p].user] = Written(p)]
                 /\ hands' = [hands EXCEPT ![proc[p].user] = @ \union HandsOf(proc[p])]
                 /\ \A q \in Processes \ {p} : proc'[q].op # "idle" => proc'[q].stale
  <1> DEFINE u == proc[p].user
             refused == proc[p].op = "create" /\ acct[u].exists
  <1>1. /\ proc[p].op \in Changes
        /\ proc' = [q \in Processes |->
                      IF q = p THEN Idle
                      ELSE IF proc[q] = Idle \/ refused THEN proc[q]
                      ELSE [proc[q] EXCEPT !.stale = TRUE]]
        /\ IF refused THEN UNCHANGED <<acct, hands, setters>>
           ELSE /\ acct' = [acct EXCEPT ![u] = Written(p)]
                /\ hands' = [hands EXCEPT ![u] = @ \union HandsOf(proc[p])]
    BY DEF Commit, Written, Hands, HandsOf
  <1>2. \A r \in Works :
           LET s == [r EXCEPT !.stale = TRUE]
           IN /\ s.op = r.op /\ s.by = r.by /\ s.self = r.self /\ s.row = r.row
              /\ s.user = r.user /\ s.new = r.new /\ s.changed = r.changed
              /\ s.lapsed = r.lapsed /\ s.stale = TRUE
    BY DEF Works
  <1>3. \A q \in Processes : proc[q] \in Works
    BY DEF AccountsTypeOK, Works
  <1>4. ASSUME NEW q \in Processes \ {p}
        PROVE  /\ proc'[q].op = proc[q].op /\ proc'[q].by = proc[q].by
               /\ proc'[q].self = proc[q].self /\ proc'[q].row = proc[q].row
               /\ proc'[q].user = proc[q].user /\ proc'[q].new = proc[q].new
               /\ proc'[q].changed = proc[q].changed /\ proc'[q].lapsed = proc[q].lapsed
               /\ IF refused THEN proc'[q] = proc[q] ELSE proc'[q].op # "idle" => proc'[q].stale
    <2>1. proc'[q] = IF proc[q] = Idle \/ refused THEN proc[q] ELSE [proc[q] EXCEPT !.stale = TRUE]
      BY <1>1
    <2>2. QED
      BY <1>2, <1>3, <2>1, RowTyped
  <1>5. QED
    BY <1>1, <1>4

\* A step of a request that has not decided: it is given up, its admin's row is read, or the row it
\* is about.
Reads(p) ==
    /\ UNCHANGED <<acct, ldapOn, hands, setters>>
    /\ requests' \in 0..MaxRequests
    /\ proc' = [proc EXCEPT ![p] = proc'[p]]
    /\ proc'[p] \in Works
    /\ \/ proc'[p] = Idle
       \/ /\ proc'[p].op = "arrived"
          /\ proc'[p].by \in ActiveAdmins /\ proc'[p].self = acct[proc'[p].by]
       \/ /\ proc'[p].op = "loaded" /\ proc'[p].user \in Users
          /\ \/ /\ proc[p].op = "arrived"
                /\ proc'[p].by = proc[p].by /\ proc'[p].self = proc[p].self
                /\ proc'[p].stale = proc[p].stale
                /\ proc'[p].row = IF proc'[p].user = proc[p].by THEN proc[p].self
                                                                 ELSE acct[proc'[p].user]
             \/ proc'[p].by \in {Shell, Directory} /\ proc'[p].row = acct[proc'[p].user]

\* Steps of AccountsNext in which neither rows nor requests change but for the cooldown.
AccountsOther ==
    /\ UNCHANGED <<hands, setters>>
    /\ ldapOn' \in BOOLEAN
    /\ requests' \in 0..MaxRequests
    /\ \/ UNCHANGED <<acct, proc>>
       \/ /\ acct' = [u \in Users |-> Cooled(acct[u])]
          /\ proc' = [p \in Processes |-> [proc[p] EXCEPT !.self = Cooled(@), !.row = Cooled(@)]]

LEMMA RequestCounted ==
    ASSUME AccountsTypeOK
    PROVE  requests < MaxRequests => requests + 1 \in 0..MaxRequests
  BY AccountsAssumption DEF AccountsTypeOK

LEMMA ReadSteps ==
    ASSUME AccountsTypeOK, NEW p \in Processes,
           \/ \E a \in Users : Arrive(p, a)
           \/ \E u \in Users : Load(p, u) \/ \E by \in {Shell, Directory} : LoadAlone(p, by, u)
           \/ Abandon(p)
    PROVE  Reads(p)
  <1>1. proc[p] \in Works /\ \A u \in Users : acct[u] \in Rows
    BY DEF AccountsTypeOK, Works
  <1>2. ASSUME NEW r \in Works, proc' = [proc EXCEPT ![p] = r]
        PROVE  proc' = [proc EXCEPT ![p] = proc'[p]] /\ proc'[p] = r
    BY <1>2 DEF AccountsTypeOK
  <1>3. ASSUME NEW a \in Users, Arrive(p, a) PROVE Reads(p)
    <2> DEFINE r == [Idle EXCEPT !.op = "arrived", !.by = a, !.self = acct[a]]
    <2>1. r \in Works /\ r.op = "arrived" /\ r.by = a /\ r.self = acct[a]
      BY <1>1, RowTyped DEF Works, Operations
    <2>2. proc' = [proc EXCEPT ![p] = r] /\ a \in ActiveAdmins
      BY <1>3 DEF Arrive
    <2> HIDE DEF r
    <2>3. UNCHANGED <<acct, ldapOn, hands, setters>> /\ requests' \in 0..MaxRequests
      BY <1>3, RequestCounted DEF Arrive
    <2>4. QED
      BY <1>2, <2>1, <2>2, <2>3 DEF Reads
  <1>4. ASSUME NEW u \in Users, Load(p, u) PROVE Reads(p)
    <2> DEFINE row == IF u = proc[p].by THEN proc[p].self ELSE acct[u]
               r == [proc[p] EXCEPT !.op = "loaded", !.user = u, !.row = row]
    <2>1. row \in Rows
      BY <1>1 DEF Works
    <2>2. proc' = [proc EXCEPT ![p] = r] /\ proc[p].op = "arrived"
      BY <1>4 DEF Load, AccountsTypeOK
    <2> HIDE DEF row
    <2>3. /\ r \in Works /\ r.op = "loaded" /\ r.user = u /\ r.row = row
          /\ r.by = proc[p].by /\ r.self = proc[p].self /\ r.stale = proc[p].stale
      <3>1. /\ r \in Works /\ r.op = "loaded" /\ r.user = u /\ r.row = row
            /\ r.by = proc[p].by /\ r.self = proc[p].self
        BY <1>1, <2>1 DEF Works, Operations
      <3>2. r.stale = proc[p].stale
        BY ZenonT(40), <1>1 DEF Works
      <3>3. QED
        BY <3>1, <3>2
    <2> HIDE DEF r
    <2>4. UNCHANGED <<acct, ldapOn, hands, setters>> /\ requests' \in 0..MaxRequests
      BY <1>4 DEF Load, AccountsTypeOK
    <2>5. QED
      BY <1>2, <2>2, <2>3, <2>4 DEF Reads, row
  <1>5. ASSUME NEW u \in Users, NEW by \in {Shell, Directory}, LoadAlone(p, by, u) PROVE Reads(p)
    <2> DEFINE r == [Idle EXCEPT !.op = "loaded", !.by = by, !.user = u, !.row = acct[u]]
    <2>1. r \in Works /\ r.op = "loaded" /\ r.by = by /\ r.user = u /\ r.row = acct[u]
      BY <1>1, RowTyped DEF Works, Operations
    <2>2. proc' = [proc EXCEPT ![p] = r]
      BY <1>5 DEF LoadAlone
    <2> HIDE DEF r
    <2>3. UNCHANGED <<acct, ldapOn, hands, setters>> /\ requests' \in 0..MaxRequests
      BY <1>5, RequestCounted DEF LoadAlone
    <2>4. QED
      BY <1>2, <2>1, <2>2, <2>3 DEF Reads
  <1>6. ASSUME Abandon(p) PROVE Reads(p)
    <2>1. /\ proc' = [proc EXCEPT ![p] = Idle]
          /\ UNCHANGED <<acct, ldapOn, hands, setters>> /\ requests' \in 0..MaxRequests
      BY <1>6 DEF Abandon, AccountsTypeOK
    <2>2. QED
      BY <1>2, <2>1, RowTyped DEF Reads
  <1>7. QED
    BY <1>3, <1>4, <1>5, <1>6

LEMMA AccountsSteps ==
    ASSUME AccountsTypeOK, [AccountsNext]_accountVars
    PROVE  \/ \E p \in Processes : Reads(p) /\ ~ Commit(p)
           \/ \E p \in Processes : Handle(p)
           \/ \E p \in Processes : Commit(p)
           \/ AccountsOther
  <1>1. SwitchLdap => AccountsOther
    <2>1. (~ ldapOn) \in BOOLEAN
      OBVIOUS
    <2>2. QED
      BY <2>1, RequestCounted DEF SwitchLdap, AccountsOther
  <1>2. CooldownEnds \/ UNCHANGED accountVars => AccountsOther
    BY DEF CooldownEnds, accountVars, AccountsOther, AccountsTypeOK
  <1>3. QED
    BY <1>1, <1>2, ReadSteps DEF AccountsNext

LEMMA CooledSame ==
    ASSUME NEW row \in Rows
    PROVE  Cooled(row) \in Rows /\ Same(Cooled(row), row)
  BY ZenonT(40) DEF Rows, Cooled, Same

\* The cooldown is no part of what follows.
SameRequest(p) ==
    /\ proc'[p].op = proc[p].op /\ proc'[p].by = proc[p].by /\ proc'[p].user = proc[p].user
    /\ proc'[p].new = proc[p].new /\ proc'[p].changed = proc[p].changed
    /\ proc'[p].stale = proc[p].stale /\ proc'[p].lapsed = proc[p].lapsed
    /\ Same(proc'[p].self, proc[p].self) /\ Same(proc'[p].row, proc[p].row)

LEMMA OtherTyped ==
    ASSUME AccountsTypeOK, AccountsOther
    PROVE  /\ AccountsTypeOK'
           /\ \A u \in Users : Same(acct'[u], acct[u])
           /\ \A p \in Processes : SameRequest(p)
  <1>1. /\ hands' = hands /\ setters' = setters /\ ldapOn' \in BOOLEAN
        /\ requests' \in 0..MaxRequests
    BY DEF AccountsOther
  <1>2. CASE UNCHANGED <<acct, proc>>
    BY <1>1, <1>2 DEF AccountsTypeOK, Same, SameRequest
  <1>3. CASE /\ acct' = [u \in Users |-> Cooled(acct[u])]
             /\ proc' = [p \in Processes |->
                            [proc[p] EXCEPT !.self = Cooled(@), !.row = Cooled(@)]]
    <2>1. ASSUME NEW u \in Users PROVE acct'[u] \in Rows /\ Same(acct'[u], acct[u])
      <3>1. acct'[u] = Cooled(acct[u]) /\ acct[u] \in Rows
        BY <1>3 DEF AccountsTypeOK
      <3>2. QED
        BY <3>1, CooledSame
    <2>2. ASSUME NEW p \in Processes PROVE proc'[p] \in Works /\ SameRequest(p)
      <3>1. proc[p] \in Works
        BY DEF AccountsTypeOK, Works
      <3> DEFINE self == Cooled(proc[p].self)
                 row == Cooled(proc[p].row)
      <3>2. proc'[p] = [proc[p] EXCEPT !.self = self, !.row = row]
        BY <1>3, <3>1 DEF Works
      <3>3. self \in Rows /\ row \in Rows /\ Same(self, proc[p].self) /\ Same(row, proc[p].row)
        BY <3>1, CooledSame DEF Works
      <3> HIDE DEF self, row
      <3>4. proc'[p] \in Works /\ proc'[p].self = self /\ proc'[p].row = row
        BY <3>1, <3>2, <3>3 DEF Works
      <3>5. /\ proc'[p].op = proc[p].op /\ proc'[p].by = proc[p].by
            /\ proc'[p].user = proc[p].user /\ proc'[p].new = proc[p].new
            /\ proc'[p].changed = proc[p].changed
        BY <3>1, <3>2 DEF Works
      <3>6. proc'[p].stale = proc[p].stale /\ proc'[p].lapsed = proc[p].lapsed
        BY ZenonT(40), <3>1, <3>2 DEF Works
      <3>7. QED
        BY <3>3, <3>4, <3>5, <3>6 DEF SameRequest
    <2>3. acct' \in [Users -> Rows] /\ proc' \in [Processes -> Works]
      BY <1>3, <2>1, <2>2
    <2>4. QED
      BY <1>1, <2>1, <2>2, <2>3 DEF AccountsTypeOK, Works
  <1>4. QED
    BY <1>2, <1>3 DEF AccountsOther

\* Requests stay known: nobody takes an account away.
LEMMA KnownKept ==
    ASSUME AccountsTypeOK, RequestsKnown, [AccountsNext]_accountVars
    PROVE  AccountsTypeOK' /\ RequestsKnown'
  <1>1. ASSUME NEW p \in Processes, Handle(p) PROVE AccountsTypeOK' /\ RequestsKnown'
    <2>1. PICK op, new : Taken(p, op, new)
      BY <1>1, RequestTaken
    <2>2. AccountsTypeOK'
      BY <2>1, TakenTyped
    <2> DEFINE r == proc'[p]
    <2>3. /\ proc' = [proc EXCEPT ![p] = r] /\ acct' = acct /\ proc[p].op = "loaded"
          /\ r.op = op /\ r.by = proc[p].by /\ r.user = proc[p].user /\ r.new = new
          /\ \A c \in Columns \ {"reset"} : c \in r.changed <=> new[c] # proc[p].row[c]
      BY <2>1, TakenInHand
    <2>4. op \in Changes /\ new.exists /\ (op # "create" <=> proc[p].row.exists)
      BY <2>1 DEF Taken
    <2>5. Known(proc[p])
      BY DEF RequestsKnown
    <2>6. /\ r.by \in Users \union {Shell, Directory}
          /\ r.by \in Users => acct[r.by].exists
          /\ r.user \in Users
          /\ proc[p].row.exists => acct[r.user].exists
      BY <2>3, <2>5 DEF Known
    <2>7. acct[r.user].exists \/ "exists" \in r.changed
      BY <2>3, <2>4, <2>6 DEF Columns
    <2>8. Known(proc[p])'
      <3> HIDE DEF r
      <3>1. /\ r.op \in Changes /\ r.user \in Users
            /\ r.by \in Users \union {Shell, Directory}
            /\ r.by \in Users => acct'[r.by].exists
            /\ r.new.exists /\ (r.op # "create" => acct'[r.user].exists)
            /\ acct'[r.user].exists \/ "exists" \in r.changed
        BY <2>3, <2>4, <2>6, <2>7
      <3>2. QED
        BY <3>1 DEF Known, Changes, r
    <2>9. ASSUME NEW q \in Processes PROVE Known(proc[q])'
      <3>1. CASE q = p
        BY <2>8, <3>1
      <3>2. CASE q # p
        <4>1. proc'[q] = proc[q] /\ acct' = acct
          BY <2>3, <3>2 DEF AccountsTypeOK
        <4>2. QED
          BY <4>1 DEF RequestsKnown, Known
      <3>3. QED
        BY <3>1, <3>2
    <2>10. QED
      BY <2>2, <2>9 DEF RequestsKnown
  <1>2. ASSUME NEW p \in Processes, Commit(p) PROVE AccountsTypeOK' /\ RequestsKnown'
    <2>1. /\ proc[p].user \in Users /\ proc[p].by \in Users \union {Shell, Directory}
          /\ proc[p].new.exists /\ (acct[proc[p].user].exists \/ "exists" \in proc[p].changed)
      BY <1>2, CommitEffects DEF RequestsKnown, Known, Changes
    <2>2. AccountsTypeOK'
      BY <1>2, <2>1, CommitTyped
    <2>3. Written(p).exists
      <3>1. Written(p).exists = IF "exists" \in proc[p].changed THEN proc[p].new.exists
                                ELSE acct[proc[p].user].exists
        BY <2>1, WrittenColumns DEF Columns
      <3>2. QED
        BY <2>1, <3>1
    <2>4. \A u \in Users : acct[u].exists => acct'[u].exists
      <3>1. acct' = acct \/ acct' = [acct EXCEPT ![proc[p].user] = Written(p)]
        BY <1>2, CommitEffects
      <3>2. DOMAIN acct = Users
        BY DEF AccountsTypeOK
      <3>3. QED
        BY <2>1, <2>3, <3>1, <3>2
    <2>5. ASSUME NEW q \in Processes PROVE Known(proc[q])'
      <3>1. CASE q = p
        BY <1>2, <3>1, CommitEffects, RowTyped DEF Known, Changes
      <3>2. CASE q # p
        <4>1. /\ proc'[q].op = proc[q].op /\ proc'[q].by = proc[q].by
              /\ proc'[q].row = proc[q].row /\ proc'[q].user = proc[q].user
              /\ proc'[q].new = proc[q].new /\ proc'[q].changed = proc[q].changed
          BY <1>2, <3>2, CommitEffects
        <4>2. Known(proc[q])
          BY DEF RequestsKnown
        <4>3. QED
          BY <2>4, <4>1, <4>2 DEF Known
      <3>3. QED
        BY <3>1, <3>2
    <2>6. QED
      BY <2>2, <2>5 DEF RequestsKnown
  <1>3. ASSUME AccountsOther PROVE AccountsTypeOK' /\ RequestsKnown'
    <2>1. AccountsTypeOK'
      BY <1>3, OtherTyped
    <2>2. ASSUME NEW q \in Processes PROVE Known(proc[q])'
      <3>1. SameRequest(q) /\ Known(proc[q]) /\ \A u \in Users : acct'[u].exists = acct[u].exists
        BY <1>3, OtherTyped DEF RequestsKnown, Same
      <3>2. QED
        BY <3>1 DEF Known, SameRequest, Same
    <2>3. QED
      BY <2>1, <2>2 DEF RequestsKnown
  <1>4. ASSUME NEW p \in Processes, Reads(p) PROVE AccountsTypeOK' /\ RequestsKnown'
    <2>1. /\ UNCHANGED <<acct, ldapOn, hands, setters>> /\ requests' \in 0..MaxRequests
          /\ proc' = [proc EXCEPT ![p] = proc'[p]] /\ proc'[p] \in Works
      BY <1>4 DEF Reads
    <2>2. AccountsTypeOK'
      BY <2>1 DEF AccountsTypeOK, Works
    <2>3. Known(proc[p])
      BY DEF RequestsKnown
    <2>4. Known(proc[p])'
      <3>1. CASE proc'[p] = Idle
        BY <3>1, RowTyped DEF Known, Changes
      <3>2. CASE proc'[p].op = "arrived" /\ proc'[p].by \in ActiveAdmins
        BY <2>1, <3>2 DEF Known, ActiveAdmins, Changes
      <3>3. CASE /\ proc'[p].op = "loaded" /\ proc'[p].user \in Users
                 /\ proc[p].op = "arrived" /\ proc'[p].by = proc[p].by
                 /\ proc'[p].row = IF proc'[p].user = proc[p].by THEN proc[p].self
                                                                  ELSE acct[proc'[p].user]
        BY <2>1, <2>3, <3>3 DEF Known, Changes
      <3>4. CASE /\ proc'[p].op = "loaded" /\ proc'[p].user \in Users
                 /\ proc'[p].by \in {Shell, Directory} /\ proc'[p].row = acct[proc'[p].user]
        BY <2>1, <3>4, AccountsAssumption DEF Known, Changes
      <3>5. QED
        BY <1>4, <3>1, <3>2, <3>3, <3>4 DEF Reads
    <2>5. ASSUME NEW q \in Processes PROVE Known(proc[q])'
      <3>1. CASE q = p
        BY <2>4, <3>1
      <3>2. CASE q # p
        <4>1. proc'[q] = proc[q] /\ acct' = acct
          BY <2>1, <3>2 DEF AccountsTypeOK
        <4>2. QED
          BY <4>1 DEF RequestsKnown, Known
      <3>3. QED
        BY <3>1, <3>2
    <2>6. QED
      BY <2>2, <2>5 DEF RequestsKnown
  <1>5. QED
    BY <1>1, <1>2, <1>3, <1>4, AccountsSteps

LEMMA KnownInit == AccountsInit => RequestsKnown
  BY RowTyped DEF AccountsInit, RequestsKnown, Known, Changes

\* The rows of the users table, the requests and the histories keep their types (models/user.py).
THEOREM AccountsTypeCorrect == AccountsSpec => []AccountsTypeOK
  BY AccountsInitType, KnownInit, KnownKept, PTL DEF AccountsSpec
-----------------------------------------------------------------------------
(* Nobody grants alone *)

\* Hands are never taken back.
LEMMA BackedStays ==
    ASSUME NEW h, NEW k, h \subseteq k, Backed(h)
    PROVE  Backed(k)
  BY DEF Backed

LEMMA SameBacked ==
    ASSUME NEW u, NEW row, NEW other, NEW h, Same(other, row), RowBacked(u, row, h)
    PROVE  RowBacked(u, other, h)
  BY DEF Same, RowBacked, AwaitsApproval, IsPending

\* What was read stays true of the hands, whatever becomes of the row.
LEMMA ReadStays ==
    ASSUME NEW u, NEW row, NEW now, NEW then, NEW h, NEW k, h \subseteq k,
           now.pendingBy # NoUser => then.pendingBy # NoUser \/ Backed(k),
           ReadBacked(u, row, now, h)
    PROVE  ReadBacked(u, row, then, k)
  <1>1. Backed(h) => Backed(k)
    BY BackedStays
  <1>2. QED
    BY <1>1 DEF ReadBacked, RowBacked

\* So does what a request that has decided is backed with.
LEMMA RequestStays ==
    ASSUME NEW r, NEW now, NEW then, NEW h, NEW k, h \subseteq k,
           now.pendingBy # NoUser => then.pendingBy # NoUser \/ Backed(k),
           RequestBacked(r, now, h)
    PROVE  RequestBacked(r, then, k)
  <1>1. Backed(h) => Backed(k)
    BY BackedStays
  <1>2. Backed(h \union HandsOf(r)) => Backed(k \union HandsOf(r))
    <2>1. h \union HandsOf(r) \subseteq k \union HandsOf(r)
      OBVIOUS
    <2>2. QED
      BY <2>1, BackedStays
  <1>3. QED
    BY <1>1, <1>2 DEF RequestBacked

\* The hands that a request adds if it decides now.
HandsNow(p, op) ==
    {proc[p].by} \union (IF op \in {"create", "edit", "approve"} /\ Outlived(p) THEN {Deactivated}
                                                                            ELSE {})

\* Under dual control an admin's own decision is gated, but for the bootstrap account's and that of
\* an admin who has been deactivated meanwhile.
LEMMA AdminIsGated ==
    ASSUME DualControl, NEW p \in Processes, NEW op \in {"create", "edit", "approve"},
           proc[p].by \in Users, acct[proc[p].by].exists, NEW h
    PROVE  (DualActive /\ Gated(proc[p].by)) \/ Backed(h \union HandsNow(p, op))
  <1>1. CASE proc[p].by = Bootstrap
    BY <1>1 DEF Backed, HandsNow
  <1>2. CASE proc[p].by # Bootstrap /\ DualActive
    BY <1>2 DEF Gated
  <1>3. CASE proc[p].by # Bootstrap /\ ~ DualActive
    <2>1. Outlived(p)
      BY <1>3 DEF DualActive, Outlived
    <2>2. QED
      BY <2>1 DEF Backed, HandsNow
  <1>4. QED
    BY <1>1, <1>2, <1>3

\* What a decision makes of the row that it has read: RequestBacked, before it is known which
\* columns have changed.
Vouched(p, op, new) ==
    LET row == proc[p].row
        u == proc[p].user
        after == hands[u] \union HandsNow(p, op)
    IN /\ Incomer(u) /\ ((new.active /\ ~ row.active) \/ (~ IsPending(new) /\ IsPending(row))) =>
              Backed(after)
       /\ u \in FirstRequesters /\ new.role = "admin" /\ row.role # "admin" => Backed(after)
       /\ new.pendingBy # row.pendingBy =>
              IF new.pendingBy = NoUser THEN Backed(after) ELSE new.pendingBy = proc[p].by
       /\ (IsPending(new) /\ ~ IsPending(row)) \/ (new.pendingRole /\ ~ row.pendingRole) =>
              new.pendingBy # NoUser \/ Backed(hands[u])
       /\ op = "create" => Backed(after) \/ (IsPending(new) /\ ~ new.active)

LEMMA ChangesVouched ==
    ASSUME AccountsTypeOK, RequestsKnown, DualControl, ReadsBacked, NEW p \in Processes, Handle(p)
    PROVE  \E op, new : Taken(p, op, new) /\ Vouched(p, op, new)
  <1> DEFINE Goal == \E op, new : Taken(p, op, new) /\ Vouched(p, op, new)
             a == proc[p].by
             u == proc[p].user
             row == proc[p].row
  <1>1. \/ \E role \in Roles : CreateUser(p, role) \/ EditUser(p, role) \/ LdapLogin(p, role)
        \/ ToggleActive(p) \/ ResetPassword(p) \/ ApproveUser(p)
    BY DEF Handle
  <1>2. proc[p].op = "loaded"
    <2>1. PICK op, new : Taken(p, op, new)
      BY RequestTaken
    <2>2. QED
      BY <2>1 DEF Taken, Decide
  <1>3. /\ ReadBacked(u, row, acct[u], hands[u])
        /\ a \in Users => acct[a].exists
    BY <1>2 DEF ReadsBacked, RequestsKnown, Known
  <1>4. RowBacked(u, row, hands[u])
    BY <1>3 DEF ReadBacked
  <1>5. \A x \in Users : x # NoUser
    BY AccountsAssumption
  <1> HIDE DEF row, u
  <1>6. ASSUME NEW role \in Roles, CreateUser(p, role) PROVE Goal
    <2>1. PICK new \in Rows :
              /\ Taken(p, "create", new)
              /\ ~ row.exists /\ a \in Users
              /\ new.active = ~ Gated(a) /\ new.pendingRole = FALSE
              /\ IF Gated(a) THEN IsPending(new) /\ new.pendingBy = a
                             ELSE ~ IsPending(new) /\ new.pendingBy = NoUser
      BY <1>6, CreateTaken DEF row
    <2>2. ~ Gated(a) => Backed(hands[u] \union HandsNow(p, "create"))
      BY <1>3, <2>1, AdminIsGated
    <2>3. u \notin FirstRequesters /\ ~ row.active /\ ~ IsPending(row)
      BY <1>4, <2>1 DEF RowBacked, Incomer
    <2>4. Vouched(p, "create", new)
      BY <1>5, <2>1, <2>2, <2>3 DEF Vouched, row, u
    <2>5. QED
      BY <2>1, <2>4
  <1>7. ASSUME NEW role \in Roles, EditUser(p, role) PROVE Goal
    <2>1. PICK new \in Rows :
              /\ Taken(p, "edit", new)
              /\ row.exists /\ a \in Users
              /\ new.active = row.active /\ new.approval = row.approval
              /\ IF role = "admin" /\ row.role # "admin" /\ Gated(a)
                 THEN new.role = row.role /\ new.pendingRole /\ new.pendingBy = a
                 ELSE /\ new.role = role /\ new.pendingBy = row.pendingBy
                      /\ new.pendingRole => row.pendingRole
      BY <1>7, EditTaken DEF row
    <2>2. ~ Gated(a) => Backed(hands[u] \union HandsNow(p, "edit"))
      BY <1>3, <2>1, AdminIsGated
    <2>3. Vouched(p, "edit", new)
      BY <1>5, <2>1, <2>2 DEF Vouched, IsPending, row, u
    <2>4. QED
      BY <2>1, <2>3
  <1>8. ASSUME ToggleActive(p) PROVE Goal
    <2>1. PICK new \in Rows :
              /\ Taken(p, "toggle", new) /\ row.exists
              /\ row.active \/ ~ IsPending(row)
              /\ new.role = row.role /\ new.approval = row.approval
              /\ new.pendingBy = row.pendingBy /\ new.pendingRole = row.pendingRole
              /\ new.active => ~ row.active
      BY <1>8, ToggleTaken DEF row
    <2>2. Incomer(u) /\ new.active => Backed(hands[u])
      BY <1>4, <2>1 DEF RowBacked
    <2>3. Backed(hands[u]) => Backed(hands[u] \union HandsNow(p, "toggle"))
      BY BackedStays
    <2>4. Vouched(p, "toggle", new)
      BY <2>1, <2>2, <2>3 DEF Vouched, IsPending, row, u
    <2>5. QED
      BY <2>1, <2>4
  <1>9. ASSUME ResetPassword(p) PROVE Goal
    <2>1. PICK new \in Rows :
              /\ Taken(p, "reset", new) /\ a \in Users
              /\ new.role = row.role /\ new.pendingRole = row.pendingRole
              /\ \/ /\ new.active = row.active /\ new.approval = row.approval
                    /\ new.pendingBy = row.pendingBy
                 \/ ~ new.active /\ IsPending(new) /\ new.pendingBy = a
      BY <1>9, ResetTaken DEF row
    <2>2. Vouched(p, "reset", new)
      BY <1>5, <2>1 DEF Vouched, IsPending, row, u
    <2>3. QED
      BY <2>1, <2>2
  <1>10. ASSUME ApproveUser(p) PROVE Goal
    <2>1. /\ Taken(p, "approve", Approved(row)) /\ AwaitsApproval(row)
          /\ \/ a = Shell
             \/ a \in Users /\ (DualActive => CanApprove(a, proc[p].self, row.pendingBy))
      BY <1>10, ApproveTaken DEF row
    <2> DEFINE after == hands[u] \union HandsNow(p, "approve")
    <2>2. a \in HandsNow(p, "approve")
      BY DEF HandsNow
    <2>3. Backed(after)
      <3>1. CASE a \in {Shell, Bootstrap}
        BY <2>2, <3>1 DEF Backed
      <3>2. CASE a \notin {Shell, Bootstrap} /\ ~ DualActive
        BY <1>3, <2>1, <3>2, AdminIsGated
      <3>3. CASE a \notin {Shell, Bootstrap} /\ DualActive
        <4>1. CanApprove(a, proc[p].self, row.pendingBy)
          BY <2>1, <3>3
        <4>2. CASE Backed(hands[u])
          BY <4>2, BackedStays
        <4>3. CASE row.pendingBy # NoUser /\ row.pendingBy \in hands[u]
          <5>1. a # row.pendingBy
            BY <3>3, <4>1, <4>3 DEF CanApprove
          <5>2. QED
            BY <2>2, <4>3, <5>1 DEF Backed
        <4>4. QED
          BY <1>4, <2>1, <4>2, <4>3 DEF RowBacked
      <3>4. QED
        BY <3>1, <3>2, <3>3
    <2>4. Vouched(p, "approve", Approved(row))
      <3>1. row \in Rows
        BY DEF AccountsTypeOK, row
      <3>2. /\ Approved(row).pendingRole = FALSE /\ Approved(row).pendingBy = NoUser
            /\ ~ IsPending(Approved(row))
        BY <3>1, ApprovalIsARow
      <3>3. QED
        BY <2>3, <3>2 DEF Vouched, row, u
    <2>5. QED
      BY <2>1, <2>4
  <1>11. ASSUME NEW role \in Roles, LdapLogin(p, role) PROVE Goal
    <2>1. PICK new \in Rows, op \in {"create", "login"} :
              /\ Taken(p, op, new) /\ a = Directory
              /\ op = "create" => new.pendingBy = NoUser /\ ~ new.pendingRole /\ ~ IsPending(new)
              /\ op = "login" => /\ new.pendingBy = row.pendingBy
                                 /\ new.pendingRole = row.pendingRole
                                 /\ new.approval = row.approval
      BY <1>11, LdapTaken DEF row
    <2>2. Backed(hands[u] \union HandsNow(p, op))
      BY <2>1 DEF Backed, HandsNow
    <2>3. Vouched(p, op, new)
      BY <2>1, <2>2 DEF Vouched, IsPending, row, u
    <2>4. QED
      BY <2>1, <2>3
  <1> HIDE DEF Goal
  <1>12. Goal
    BY <1>1, <1>6, <1>7, <1>8, <1>9, <1>10, <1>11
  <1>13. QED
    BY <1>12 DEF Goal

\* The other requests are where they were, and so are the rows.
LEMMA BackingElsewhere ==
    ASSUME AccountsTypeOK, RowsBacked, ReadsBacked, RequestsBacked, NEW p \in Processes,
           proc' = [proc EXCEPT ![p] = proc'[p]], acct' = acct, hands' = hands
    PROVE  /\ RowsBacked'
           /\ \A q \in Processes \ {p} :
                 /\ proc'[q].op \in {"arrived", "loaded"} /\ proc'[q].by \in Users =>
                        ReadBacked(proc'[q].by, proc'[q].self, acct'[proc'[q].by],
                                   hands'[proc'[q].by])
                 /\ proc'[q].op = "loaded" =>
                        ReadBacked(proc'[q].user, proc'[q].row, acct'[proc'[q].user],
                                   hands'[proc'[q].user])
                 /\ proc'[q].op \in Changes =>
                        RequestBacked(proc'[q], acct'[proc'[q].user], hands'[proc'[q].user])
  <1>1. RowsBacked'
    BY DEF RowsBacked
  <1>2. \A q \in Processes \ {p} : proc'[q] = proc[q]
    BY DEF AccountsTypeOK
  <1>3. QED
    BY <1>1, <1>2 DEF ReadsBacked, RequestsBacked

LEMMA BackingTaken ==
    ASSUME AccountsTypeOK, RequestsKnown, RowsBacked, ReadsBacked, RequestsBacked, DualControl,
           NEW p \in Processes, Handle(p)
    PROVE  RowsBacked' /\ ReadsBacked' /\ RequestsBacked'
  <1>1. PICK op, new : Taken(p, op, new) /\ Vouched(p, op, new)
    BY ChangesVouched
  <1> DEFINE r == proc'[p]
             row == proc[p].row
             u == proc[p].user
             after == hands[u] \union HandsNow(p, op)
  <1>2. /\ proc' = [proc EXCEPT ![p] = r] /\ proc[p].op = "loaded"
        /\ r.op = op /\ r.by = proc[p].by /\ r.user = u /\ r.new = new
        /\ \A c \in Columns \ {"reset"} : c \in r.changed <=> new[c] # row[c]
        /\ r.lapsed = (op \in {"create", "edit", "approve"} /\ Outlived(p))
        /\ acct' = acct /\ hands' = hands
    BY <1>1, TakenInHand
  <1>3. /\ op \in Changes /\ new \in Rows /\ row \in Rows
        /\ op # "create" <=> row.exists
    BY <1>1 DEF Taken, AccountsTypeOK
  <1>4. ReadBacked(u, row, acct[u], hands[u])
    BY <1>2 DEF ReadsBacked
  <1>5. /\ "active" \in r.changed <=> new.active # row.active
        /\ "approval" \in r.changed <=> new.approval # row.approval
        /\ "role" \in r.changed <=> new.role # row.role
        /\ "pendingBy" \in r.changed <=> new.pendingBy # row.pendingBy
        /\ "pendingRole" \in r.changed <=> new.pendingRole # row.pendingRole
    BY <1>2 DEF Columns
  <1>6. hands[u] \union HandsOf(r) = after
    BY <1>2 DEF HandsOf, HandsNow
  <1>7. RequestBacked(r, acct[u], hands[u])
    <2>1. Vouched(p, op, new)
      BY <1>1
    <2>2. /\ new.active \in BOOLEAN /\ row.active \in BOOLEAN
          /\ new.pendingRole \in BOOLEAN /\ row.pendingRole \in BOOLEAN
          /\ new.approval \in {"approved", "pending"} /\ row.approval \in {"approved", "pending"}
      BY <1>3 DEF Rows
    <2>3. op = "create" => ~ row.active /\ ~ IsPending(row)
      BY <1>3, <1>4 DEF ReadBacked, RowBacked
    <2>4. new.pendingBy = row.pendingBy => (row.pendingBy # NoUser =>
              acct[u].pendingBy # NoUser \/ Backed(hands[u]))
      BY <1>4 DEF ReadBacked
    <2> HIDE DEF r, row, u, after
    <2>5. /\ Incomer(u) /\ (("active" \in r.changed /\ new.active)
                            \/ ("approval" \in r.changed /\ ~ IsPending(new))) => Backed(after)
          /\ u \in FirstRequesters /\ "role" \in r.changed /\ new.role = "admin" => Backed(after)
      BY <1>5, <2>1, <2>2 DEF Vouched, IsPending, r, row, u, after
    <2>6. "pendingBy" \in r.changed =>
             IF new.pendingBy = NoUser THEN Backed(after) ELSE new.pendingBy = proc[p].by
      BY <1>5, <2>1 DEF Vouched, row, u, after
    <2>7. Suspends(r) =>
              \/ "pendingBy" \in r.changed /\ new.pendingBy # NoUser
              \/ acct[u].pendingBy # NoUser
              \/ Backed(hands[u])
      <3>1. ASSUME Suspends(r)
            PROVE  (IsPending(new) /\ ~ IsPending(row)) \/ (new.pendingRole /\ ~ row.pendingRole)
        BY <1>2, <1>5, <2>2, <3>1 DEF Suspends, IsPending
      <3>2. (IsPending(new) /\ ~ IsPending(row)) \/ (new.pendingRole /\ ~ row.pendingRole) =>
                new.pendingBy # NoUser \/ Backed(hands[u])
        BY <2>1 DEF Vouched, row, u
      <3>3. QED
        BY <1>5, <2>4, <3>1, <3>2
    <2>8. op = "create" =>
              Backed(after) \/ ("approval" \in r.changed /\ IsPending(new) /\ ~ new.active)
      BY <1>5, <2>1, <2>2, <2>3 DEF Vouched, IsPending, u, after
    <2>9. r.op = op /\ r.by = proc[p].by /\ r.user = u /\ r.new = new
      BY <1>2 DEF u
    <2>10. hands[u] \union HandsOf(r) = after
      BY <1>6 DEF after
    <2>11. QED
      BY <2>5, <2>6, <2>7, <2>8, <2>9, <2>10 DEF RequestBacked
  <1> HIDE DEF r, u
  <1>8. /\ RowsBacked'
        /\ \A q \in Processes \ {p} :
              /\ proc'[q].op \in {"arrived", "loaded"} /\ proc'[q].by \in Users =>
                     ReadBacked(proc'[q].by, proc'[q].self, acct'[proc'[q].by], hands'[proc'[q].by])
              /\ proc'[q].op = "loaded" =>
                     ReadBacked(proc'[q].user, proc'[q].row, acct'[proc'[q].user],
                                hands'[proc'[q].user])
              /\ proc'[q].op \in Changes =>
                     RequestBacked(proc'[q], acct'[proc'[q].user], hands'[proc'[q].user])
    BY <1>2, BackingElsewhere DEF r
  <1>9. proc'[p].op \notin {"arrived", "loaded"}
    BY <1>2, <1>3 DEF Changes, r
  <1>10. RequestBacked(proc'[p], acct'[proc'[p].user], hands'[proc'[p].user])
    BY <1>2, <1>7 DEF r
  <1>11. ReadsBacked'
    BY <1>8, <1>9 DEF ReadsBacked, ReadBacked
  <1>12. ASSUME NEW q \in Processes, proc'[q].op \in Changes
         PROVE  RequestBacked(proc'[q], acct'[proc'[q].user], hands'[proc'[q].user])
    <2>1. CASE q = p
      BY <1>10, <2>1
    <2>2. CASE q # p
      BY <1>8, <1>12, <2>2
    <2>3. QED
      BY <2>1, <2>2
  <1>13. RequestsBacked'
    BY <1>12 DEF RequestsBacked, RequestBacked
  <1>14. QED
    BY <1>8, <1>11, <1>13

LEMMA BackingRead ==
    ASSUME AccountsTypeOK, RequestsKnown, RowsBacked, ReadsBacked, RequestsBacked,
           NEW p \in Processes, Reads(p)
    PROVE  RowsBacked' /\ ReadsBacked' /\ RequestsBacked'
  <1>1. /\ proc' = [proc EXCEPT ![p] = proc'[p]] /\ acct' = acct /\ hands' = hands
    BY DEF Reads
  <1>2. /\ RowsBacked'
        /\ \A q \in Processes \ {p} :
              /\ proc'[q].op \in {"arrived", "loaded"} /\ proc'[q].by \in Users =>
                     ReadBacked(proc'[q].by, proc'[q].self, acct'[proc'[q].by], hands'[proc'[q].by])
              /\ proc'[q].op = "loaded" =>
                     ReadBacked(proc'[q].user, proc'[q].row, acct'[proc'[q].user],
                                hands'[proc'[q].user])
              /\ proc'[q].op \in Changes =>
                     RequestBacked(proc'[q], acct'[proc'[q].user], hands'[proc'[q].user])
    BY <1>1, BackingElsewhere
  <1>3. \A u \in Users : ReadBacked(u, acct[u], acct[u], hands[u])
    BY DEF RowsBacked, ReadBacked
  <1>4. /\ proc'[p].op \in {"arrived", "loaded"} /\ proc'[p].by \in Users =>
               ReadBacked(proc'[p].by, proc'[p].self, acct[proc'[p].by], hands[proc'[p].by])
        /\ proc'[p].op = "loaded" =>
               ReadBacked(proc'[p].user, proc'[p].row, acct[proc'[p].user], hands[proc'[p].user])
        /\ proc'[p].op \notin Changes
    <2>1. CASE proc'[p] = Idle
      BY <2>1, RowTyped DEF Changes
    <2>2. CASE /\ proc'[p].op = "arrived"
               /\ proc'[p].by \in ActiveAdmins /\ proc'[p].self = acct[proc'[p].by]
      BY <1>3, <2>2 DEF ActiveAdmins, Changes
    <2>3. CASE /\ proc'[p].op = "loaded" /\ proc'[p].user \in Users
               /\ proc[p].op = "arrived"
               /\ proc'[p].by = proc[p].by /\ proc'[p].self = proc[p].self
               /\ proc'[p].row = IF proc'[p].user = proc[p].by THEN proc[p].self
                                                               ELSE acct[proc'[p].user]
      <3>1. ReadBacked(proc[p].by, proc[p].self, acct[proc[p].by], hands[proc[p].by])
        BY <2>3 DEF ReadsBacked, RequestsKnown, Known
      <3>2. QED
        BY <1>3, <2>3, <3>1 DEF Changes
    <2>4. CASE /\ proc'[p].op = "loaded" /\ proc'[p].user \in Users
               /\ proc'[p].by \in {Shell, Directory} /\ proc'[p].row = acct[proc'[p].user]
      <3>1. proc'[p].by \notin Users
        BY <2>4, AccountsAssumption
      <3>2. QED
        BY <1>3, <2>4, <3>1 DEF Changes
    <2>5. QED
      BY <2>1, <2>2, <2>3, <2>4 DEF Reads
  <1>5. QED
    BY <1>1, <1>2, <1>4 DEF ReadsBacked, RequestsBacked, ReadBacked, RequestBacked

\* What a commit leaves of a row is backed with the hands it leaves it.
LEMMA WrittenBacked ==
    ASSUME AccountsTypeOK, RequestsKnown, RowsBacked, RequestsBacked,
           NEW p \in Processes, proc[p].op \in Changes,
           proc[p].op = "create" => ~ acct[proc[p].user].exists
    PROVE  LET u == proc[p].user
               after == hands[u] \union HandsOf(proc[p])
           IN /\ RowBacked(u, Written(p), after)
              /\ acct[u].pendingBy # NoUser => Written(p).pendingBy # NoUser \/ Backed(after)
  <1> DEFINE u == proc[p].user
             w == Written(p)
             r == proc[p]
             new == r.new
             after == hands[u] \union HandsOf(r)
  <1>1. /\ u \in Users /\ new.exists
        /\ r.op # "create" => acct[u].exists
        /\ acct[u].exists \/ "exists" \in r.changed
    BY DEF RequestsKnown, Known
  <1>2. hands[u] \subseteq after /\ r.by \in after
    BY DEF HandsOf
  <1>3. /\ w.active = IF "active" \in r.changed THEN new.active ELSE acct[u].active
        /\ w.approval = IF "approval" \in r.changed THEN new.approval ELSE acct[u].approval
        /\ w.role = IF "role" \in r.changed THEN new.role ELSE acct[u].role
        /\ w.pendingBy = IF "pendingBy" \in r.changed THEN new.pendingBy ELSE acct[u].pendingBy
        /\ w.pendingRole = IF "pendingRole" \in r.changed THEN new.pendingRole
                           ELSE acct[u].pendingRole
        /\ w.exists = IF "exists" \in r.changed THEN new.exists ELSE acct[u].exists
    BY <1>1, WrittenColumns DEF Columns
  <1>4. w.exists /\ (acct[u].exists <=> r.op # "create")
    BY <1>1, <1>3
  <1>5. RequestBacked(r, acct[u], hands[u]) /\ RowBacked(u, acct[u], hands[u])
    BY <1>1 DEF RequestsBacked, RowsBacked
  <1>6. Backed(hands[u]) => Backed(after)
    BY <1>2, BackedStays
  <1> HIDE DEF w, after
  <1>7. /\ Incomer(u) /\ (("active" \in r.changed /\ new.active)
                          \/ ("approval" \in r.changed /\ ~ IsPending(new))) => Backed(after)
        /\ u \in FirstRequesters /\ "role" \in r.changed /\ new.role = "admin" => Backed(after)
        /\ "pendingBy" \in r.changed =>
               IF new.pendingBy = NoUser THEN Backed(after) ELSE new.pendingBy = r.by
        /\ Suspends(r) =>
               \/ "pendingBy" \in r.changed /\ new.pendingBy # NoUser
               \/ acct[u].pendingBy # NoUser
               \/ Backed(hands[u])
        /\ r.op = "create" =>
               Backed(after) \/ ("approval" \in r.changed /\ IsPending(new) /\ ~ new.active)
    BY <1>5 DEF RequestBacked, after
  <1>8. /\ Incomer(u) /\ (w.active \/ ~ IsPending(w)) => Backed(after)
        /\ u \in FirstRequesters /\ w.role = "admin" => Backed(after)
    <2>1. CASE acct[u].exists
      BY <1>3, <1>5, <1>6, <1>7, <2>1 DEF RowBacked, IsPending
    <2>2. CASE ~ acct[u].exists
      <3>1. r.op = "create" /\ Incomer(u) /\ ~ acct[u].active
        BY <1>4, <1>5, <2>2 DEF RowBacked
      <3>2. QED
        BY <1>3, <1>7, <3>1 DEF IsPending, Incomer
    <2>3. QED
      BY <2>1, <2>2
  <1>9. /\ acct[u].pendingBy # NoUser => w.pendingBy # NoUser \/ Backed(after)
        /\ w.pendingBy # NoUser => w.pendingBy \in after
    BY <1>2, <1>3, <1>5, <1>7 DEF RowBacked
  <1>10. AwaitsApproval(w) => Backed(after) \/ w.pendingBy # NoUser
    <2>1. CASE AwaitsApproval(acct[u])
      BY <1>5, <1>6, <1>9, <2>1 DEF RowBacked
    <2>2. CASE Suspends(r)
      BY <1>3, <1>6, <1>7, <1>9, <2>2
    <2>3. AwaitsApproval(w) => AwaitsApproval(acct[u]) \/ Suspends(r)
      BY <1>3 DEF AwaitsApproval, IsPending, Suspends
    <2>4. QED
      BY <2>1, <2>2, <2>3
  <1>11. RowBacked(u, w, after)
    BY <1>4, <1>8, <1>9, <1>10 DEF RowBacked
  <1>12. QED
    BY <1>9, <1>11 DEF w, after

LEMMA BackingCommitted ==
    ASSUME AccountsTypeOK, RequestsKnown, RowsBacked, ReadsBacked, RequestsBacked,
           NEW p \in Processes, Commit(p)
    PROVE  RowsBacked' /\ ReadsBacked' /\ RequestsBacked'
  <1> DEFINE u == proc[p].user
             after == hands[u] \union HandsOf(proc[p])
  <1>1. /\ proc[p].op \in Changes /\ proc'[p] = Idle /\ u \in Users
        /\ \A q \in Processes \ {p} :
              /\ proc'[q].op = proc[q].op /\ proc'[q].by = proc[q].by
              /\ proc'[q].self = proc[q].self /\ proc'[q].row = proc[q].row
              /\ proc'[q].user = proc[q].user /\ proc'[q].new = proc[q].new
              /\ proc'[q].changed = proc[q].changed /\ proc'[q].lapsed = proc[q].lapsed
    BY CommitEffects DEF RequestsKnown, Known
  <1>2. \A v \in Users :
           /\ RowBacked(v, acct'[v], hands'[v])
           /\ hands[v] \subseteq hands'[v]
           /\ acct[v].pendingBy # NoUser => acct'[v].pendingBy # NoUser \/ Backed(hands'[v])
    <2>1. CASE acct' = acct /\ hands' = hands
      BY <2>1 DEF RowsBacked
    <2>2. CASE /\ proc[p].op = "create" => ~ acct[u].exists
               /\ acct' = [acct EXCEPT ![u] = Written(p)]
               /\ hands' = [hands EXCEPT ![u] = @ \union HandsOf(proc[p])]
      <3>1. /\ acct'[u] = Written(p) /\ hands'[u] = after
            /\ \A v \in Users \ {u} : acct'[v] = acct[v] /\ hands'[v] = hands[v]
        BY <1>1, <2>2 DEF AccountsTypeOK
      <3>2. /\ RowBacked(u, Written(p), after)
            /\ acct[u].pendingBy # NoUser => Written(p).pendingBy # NoUser \/ Backed(after)
        BY <1>1, <2>2, WrittenBacked
      <3>3. QED
        BY <3>1, <3>2 DEF RowsBacked
    <2>3. QED
      BY <2>1, <2>2, CommitEffects
  <1>3. RowsBacked'
    BY <1>2 DEF RowsBacked, RowBacked, IsPending, AwaitsApproval
  <1>4. Idle.op \notin Changes \union {"arrived", "loaded"}
    BY RowTyped DEF Changes
  <1>5. ASSUME NEW q \in Processes
        PROVE  /\ proc'[q].op \in {"arrived", "loaded"} /\ proc'[q].by \in Users =>
                      ReadBacked(proc'[q].by, proc'[q].self, acct'[proc'[q].by],
                                 hands'[proc'[q].by])
               /\ proc'[q].op = "loaded" =>
                      ReadBacked(proc'[q].user, proc'[q].row, acct'[proc'[q].user],
                                 hands'[proc'[q].user])
    <2>1. CASE q = p
      BY <1>1, <1>4, <2>1
    <2>2. CASE q # p
      <3>1. /\ proc'[q].op = proc[q].op /\ proc'[q].by = proc[q].by
            /\ proc'[q].self = proc[q].self /\ proc'[q].row = proc[q].row
            /\ proc'[q].user = proc[q].user
        BY <1>1, <2>2
      <3>2. /\ proc[q].op \in {"arrived", "loaded"} /\ proc[q].by \in Users =>
                   ReadBacked(proc[q].by, proc[q].self, acct[proc[q].by], hands[proc[q].by])
            /\ proc[q].op = "loaded" =>
                   ReadBacked(proc[q].user, proc[q].row, acct[proc[q].user], hands[proc[q].user])
            /\ proc[q].op = "loaded" => proc[q].user \in Users
        BY DEF ReadsBacked, RequestsKnown, Known
      <3>3. QED
        BY <1>2, <3>1, <3>2, ReadStays
    <2>3. QED
      BY <2>1, <2>2
  <1>6. ASSUME NEW q \in Processes, proc'[q].op \in Changes
        PROVE  RequestBacked(proc'[q], acct'[proc'[q].user], hands'[proc'[q].user])
    <2>1. q # p
      BY <1>1, <1>4, <1>6
    <2>2. /\ proc'[q].op = proc[q].op /\ proc'[q].by = proc[q].by
          /\ proc'[q].user = proc[q].user /\ proc'[q].new = proc[q].new
          /\ proc'[q].changed = proc[q].changed /\ proc'[q].lapsed = proc[q].lapsed
      BY <1>1, <2>1
    <2> DEFINE v == proc[q].user
    <2>3. v \in Users /\ RequestBacked(proc[q], acct[v], hands[v])
      BY <1>6, <2>2 DEF RequestsBacked, RequestsKnown, Known
    <2>4. RequestBacked(proc[q], acct'[v], hands'[v])
      BY <1>2, <2>3, RequestStays
    <2>5. QED
      BY <2>2, <2>4 DEF RequestBacked, Suspends, HandsOf
  <1>7. QED
    BY <1>3, <1>5, <1>6 DEF ReadsBacked, RequestsBacked, ReadBacked, RequestBacked

LEMMA BackingOther ==
    ASSUME AccountsTypeOK, RequestsKnown, RowsBacked, ReadsBacked, RequestsBacked, AccountsOther
    PROVE  RowsBacked' /\ ReadsBacked' /\ RequestsBacked'
  <1>1. /\ \A u \in Users : Same(acct'[u], acct[u])
        /\ \A q \in Processes : SameRequest(q)
        /\ hands' = hands
    BY OtherTyped DEF AccountsOther
  <1>2. \A u \in Users : RowBacked(u, acct'[u], hands'[u])
    BY <1>1, SameBacked DEF RowsBacked
  <1>3. ASSUME NEW q \in Processes
        PROVE  /\ proc'[q].op \in {"arrived", "loaded"} /\ proc'[q].by \in Users =>
                      ReadBacked(proc'[q].by, proc'[q].self, acct'[proc'[q].by],
                                 hands'[proc'[q].by])
               /\ proc'[q].op = "loaded" =>
                      ReadBacked(proc'[q].user, proc'[q].row, acct'[proc'[q].user],
                                 hands'[proc'[q].user])
    <2>1. /\ proc'[q].op = proc[q].op /\ proc'[q].by = proc[q].by
          /\ proc'[q].user = proc[q].user
          /\ Same(proc'[q].self, proc[q].self) /\ Same(proc'[q].row, proc[q].row)
      BY <1>1 DEF SameRequest
    <2>2. /\ proc[q].op \in {"arrived", "loaded"} /\ proc[q].by \in Users =>
                 ReadBacked(proc[q].by, proc[q].self, acct[proc[q].by], hands[proc[q].by])
          /\ proc[q].op = "loaded" =>
                 ReadBacked(proc[q].user, proc[q].row, acct[proc[q].user], hands[proc[q].user])
          /\ proc[q].op = "loaded" => proc[q].user \in Users
      BY DEF ReadsBacked, RequestsKnown, Known
    <2>3. ASSUME NEW u \in Users, NEW row, NEW other, Same(other, row),
                 ReadBacked(u, row, acct[u], hands[u])
          PROVE  ReadBacked(u, other, acct'[u], hands'[u])
      <3>1. RowBacked(u, other, hands[u])
        BY <2>3, SameBacked DEF ReadBacked
      <3>2. acct'[u].pendingBy = acct[u].pendingBy /\ other.pendingBy = row.pendingBy
        BY <1>1, <2>3 DEF Same
      <3>3. QED
        BY <1>1, <2>3, <3>1, <3>2 DEF ReadBacked
    <2>4. QED
      BY <2>1, <2>2, <2>3
  <1>4. ASSUME NEW q \in Processes, proc'[q].op \in Changes
        PROVE  RequestBacked(proc'[q], acct'[proc'[q].user], hands'[proc'[q].user])
    <2>1. /\ proc'[q].op = proc[q].op /\ proc'[q].by = proc[q].by
          /\ proc'[q].user = proc[q].user /\ proc'[q].new = proc[q].new
          /\ proc'[q].changed = proc[q].changed /\ proc'[q].lapsed = proc[q].lapsed
      BY <1>1 DEF SameRequest
    <2> DEFINE v == proc[q].user
    <2>2. v \in Users /\ RequestBacked(proc[q], acct[v], hands[v])
      BY <1>4, <2>1 DEF RequestsBacked, RequestsKnown, Known
    <2>3. acct'[v].pendingBy = acct[v].pendingBy /\ hands'[v] = hands[v]
      BY <1>1, <2>2 DEF Same
    <2>4. QED
      BY <2>1, <2>2, <2>3 DEF RequestBacked, Suspends, HandsOf
  <1>5. QED
    BY <1>2, <1>3, <1>4 DEF RowsBacked, ReadsBacked, RequestsBacked, RowBacked, ReadBacked,
                           RequestBacked, IsPending, AwaitsApproval

LEMMA GrantInitInv == AccountsInit => GrantInv
  <1> SUFFICES ASSUME AccountsInit PROVE GrantInv
    OBVIOUS
  <1>1. AccountsTypeOK /\ RequestsKnown
    BY AccountsInitType, KnownInit
  <1>2. RowsBacked
    BY AccountsAssumption
    DEF AccountsInit, RowsBacked, RowBacked, Seeded, Absent, Incomer, AwaitsApproval, IsPending,
        Roles
  <1>3. ReadsBacked /\ RequestsBacked
    BY RowTyped DEF AccountsInit, ReadsBacked, RequestsBacked, Changes
  <1>4. QED
    BY <1>1, <1>2, <1>3 DEF GrantInv

LEMMA GrantNextInv == GrantInv /\ [AccountsNext]_accountVars => GrantInv'
  <1> SUFFICES ASSUME GrantInv, [AccountsNext]_accountVars PROVE GrantInv'
    OBVIOUS
  <1>1. AccountsTypeOK /\ RequestsKnown /\ AccountsTypeOK' /\ RequestsKnown'
    BY KnownKept DEF GrantInv
  <1>2. ASSUME DualControl PROVE RowsBacked' /\ ReadsBacked' /\ RequestsBacked'
    <2>1. RowsBacked /\ ReadsBacked /\ RequestsBacked
      BY <1>2 DEF GrantInv
    <2>2. QED
      BY <1>1, <1>2, <2>1, AccountsSteps, BackingTaken, BackingRead, BackingCommitted, BackingOther
  <1>3. QED
    BY <1>1, <1>2 DEF GrantInv

\* Under dual control no single admin makes an account that can log in, or an admin, alone
\* (create_user, edit_user, approve_user), whatever requests overlap, unless that admin's own
\* account, the last ordinary one, was deactivated while the request was on its way.
THEOREM NoLoneGrantHolds == AccountsSpec => []NoLoneGrant
  <1>1. GrantInv => NoLoneGrant
    <2> SUFFICES ASSUME GrantInv, DualControl, NEW u \in Users, NewPower(u)
                 PROVE  \/ hands[u] \intersect {Bootstrap, Shell, Directory, Deactivated} # {}
                        \/ \E a, b \in hands[u] : a # b
      BY DEF NoLoneGrant
    <2>1. RowsBacked
      BY DEF GrantInv
    <2>2. Backed(hands[u])
      BY <2>1, AccountsAssumption DEF RowsBacked, RowBacked, NewPower, Incomer
    <2>3. QED
      BY <2>2 DEF Backed
  <1>2. QED
    BY <1>1, GrantInitInv, GrantNextInv, PTL DEF AccountsSpec
-----------------------------------------------------------------------------
(* The last admin *)

\* Some active admin is one in the row that has been decided on too.
Keeps(u, new) ==
    \E v \in ActiveAdmins : v = u => new.role = "admin" /\ new.active

\* More than one admin means somebody besides u.
LEMMA AnotherAdmin ==
    ASSUME AdminsRemain, NEW u
    PROVE  \E v \in ActiveAdmins : v # u
  <1>1. CASE ActiveAdmins \subseteq {u}
    <2>1. ActiveAdmins = {} \/ ActiveAdmins = {u}
      BY <1>1
    <2>2. Cardinality(ActiveAdmins) \in {0, 1}
      BY <2>1, FS_EmptySet, FS_Singleton
    <2>3. QED
      BY <2>2 DEF AdminsRemain
  <1>2. QED
    BY <1>1

LEMMA DecisionKeeps ==
    ASSUME AccountsTypeOK, FreshReads, NEW p \in Processes, Handle(p), ~ proc[p].stale,
           ActiveAdmins # {}
    PROVE  \E op, new : Taken(p, op, new) /\ (proc[p].by = Directory \/ Keeps(proc[p].user, new))
  <1> DEFINE u == proc[p].user
             a == proc[p].by
             row == proc[p].row
             Goal == \E op, new : Taken(p, op, new) /\ (a = Directory \/ Keeps(u, new))
  <1>1. \/ \E role \in Roles : CreateUser(p, role) \/ EditUser(p, role) \/ LdapLogin(p, role)
        \/ ToggleActive(p) \/ ResetPassword(p) \/ ApproveUser(p)
    BY DEF Handle
  <1>2. proc[p].op = "loaded"
    <2>1. PICK op, new : Taken(p, op, new)
      BY RequestTaken
    <2>2. QED
      BY <2>1 DEF Taken, Decide
  <1>3. Same(row, acct[u]) /\ (a \in Users => a \in ActiveAdmins) /\ row \in Rows
    BY <1>2 DEF FreshReads, AccountsTypeOK
  <1>4. u \in ActiveAdmins => row.exists /\ row.role = "admin" /\ row.active
    BY <1>3 DEF ActiveAdmins, Same
  <1>5. PICK some : some \in ActiveAdmins
    OBVIOUS
  <1> HIDE DEF row
  <1>6. ASSUME NEW role \in Roles, CreateUser(p, role) PROVE Goal
    <2>1. PICK new \in Rows : Taken(p, "create", new) /\ ~ row.exists
      BY <1>6, CreateTaken DEF row
    <2>2. Keeps(u, new)
      BY <1>4, <1>5, <2>1 DEF Keeps
    <2>3. QED
      BY <2>1, <2>2
  <1>7. ASSUME NEW role \in Roles, EditUser(p, role) PROVE Goal
    <2>1. PICK new \in Rows :
              /\ Taken(p, "edit", new)
              /\ new.active = row.active
              /\ row.role = "admin" /\ role # "admin" => AdminsRemain
              /\ IF role = "admin" /\ row.role # "admin" /\ Gated(a)
                 THEN new.role = row.role
                 ELSE new.role = role
      BY <1>7, EditTaken DEF row
    <2>2. CASE row.role = "admin" /\ role # "admin"
      <3>1. Keeps(u, new)
        BY <2>1, <2>2, AnotherAdmin DEF Keeps
      <3>2. QED
        BY <2>1, <3>1
    <2>3. CASE ~ (row.role = "admin" /\ role # "admin")
      <3>1. Keeps(u, new)
        BY <1>4, <1>5, <2>1, <2>3 DEF Keeps
      <3>2. QED
        BY <2>1, <3>1
    <2>4. QED
      BY <2>2, <2>3
  <1>8. ASSUME ToggleActive(p) PROVE Goal
    <2>1. PICK new \in Rows : Taken(p, "toggle", new) /\ a \in Users \ {u}
      BY <1>8, ToggleTaken
    <2>2. Keeps(u, new)
      BY <1>3, <2>1 DEF Keeps
    <2>3. QED
      BY <2>1, <2>2
  <1>9. ASSUME ResetPassword(p) PROVE Goal
    <2>1. PICK new \in Rows :
              /\ Taken(p, "reset", new) /\ a \in Users
              /\ new.role = row.role
              /\ new.active = row.active \/ u # a
      BY <1>9, ResetTaken DEF row
    <2>2. Keeps(u, new)
      BY <1>3, <1>4, <2>1 DEF Keeps
    <2>3. QED
      BY <2>1, <2>2
  <1>10. ASSUME ApproveUser(p) PROVE Goal
    <2>1. Taken(p, "approve", Approved(row))
      BY <1>10, ApproveTaken DEF row
    <2>2. Keeps(u, Approved(row))
      BY <1>3, <1>4, <1>5, ApprovalIsARow DEF Keeps
    <2>3. QED
      BY <2>1, <2>2
  <1>11. ASSUME NEW role \in Roles, LdapLogin(p, role) PROVE Goal
    <2>1. PICK new \in Rows, op \in {"create", "login"} : Taken(p, op, new) /\ a = Directory
      BY <1>11, LdapTaken
    <2>2. QED
      BY <2>1
  <1> HIDE DEF Goal
  <1>12. Goal
    BY <1>1, <1>6, <1>7, <1>8, <1>9, <1>10, <1>11
  <1>13. QED
    BY <1>12 DEF Goal

AdminInv == AccountsTypeOK /\ RequestsKnown /\ FreshReads /\ FreshLeaveAnAdmin

\* A commit makes all that the others have read stale; nothing else touches a row.
LEMMA FreshReadsKept ==
    ASSUME AccountsTypeOK, RequestsKnown, FreshReads, [AccountsNext]_accountVars
    PROVE  FreshReads'
  <1> DEFINE Fresh(q) ==
               /\ proc'[q].op \in {"arrived", "loaded"} /\ proc'[q].by \in Users =>
                      /\ proc'[q].by \in ActiveAdmins'
                      /\ Same(proc'[q].self, acct'[proc'[q].by])
               /\ proc'[q].op = "loaded" => Same(proc'[q].row, acct'[proc'[q].user])
  <1> SUFFICES ASSUME NEW q \in Processes, ~ proc'[q].stale
               PROVE  Fresh(q)
    BY DEF FreshReads, Same, ActiveAdmins
  <1>1. ASSUME acct' = acct, proc'[q] = proc[q]
        PROVE  Fresh(q)
    <2>1. ActiveAdmins' = ActiveAdmins
      BY <1>1 DEF ActiveAdmins
    <2>2. QED
      BY <1>1, <2>1 DEF FreshReads
  <1>2. CASE proc'[q].op \notin {"arrived", "loaded"}
    BY <1>2
  <1>3. ASSUME NEW p \in Processes, Handle(p)
        PROVE  Fresh(q)
    <2>1. PICK op, new : Taken(p, op, new)
      BY <1>3, RequestTaken
    <2>2. proc' = [proc EXCEPT ![p] = proc'[p]] /\ proc'[p].op = op /\ acct' = acct
      BY <2>1, TakenInHand
    <2>3. CASE q = p
      BY <1>2, <2>1, <2>2, <2>3 DEF Taken, Changes
    <2>4. CASE q # p
      BY <1>1, <2>2, <2>4 DEF AccountsTypeOK
    <2>5. QED
      BY <2>3, <2>4
  <1>4. ASSUME NEW p \in Processes, Commit(p)
        PROVE  Fresh(q)
    <2>1. CASE q = p
      BY <1>2, <1>4, <2>1, CommitEffects, RowTyped
    <2>2. CASE q # p
      BY <1>1, <1>2, <1>4, <2>2, CommitEffects
    <2>3. QED
      BY <2>1, <2>2
  <1>5. ASSUME NEW p \in Processes, Reads(p)
        PROVE  Fresh(q)
    <2>1. proc' = [proc EXCEPT ![p] = proc'[p]] /\ acct' = acct
      BY <1>5 DEF Reads
    <2>2. ActiveAdmins' = ActiveAdmins
      BY <2>1 DEF ActiveAdmins
    <2>3. CASE q # p
      BY <1>1, <2>1, <2>3 DEF AccountsTypeOK
    <2>4. CASE q = p
      <3>1. CASE proc'[p] = Idle
        BY <1>2, <2>4, <3>1, RowTyped
      <3>2. CASE /\ proc'[p].op = "arrived"
                 /\ proc'[p].by \in ActiveAdmins /\ proc'[p].self = acct[proc'[p].by]
        BY <2>1, <2>2, <2>4, <3>2 DEF Same
      <3>3. CASE /\ proc'[p].op = "loaded" /\ proc[p].op = "arrived"
                 /\ proc'[p].by = proc[p].by /\ proc'[p].self = proc[p].self
                 /\ proc'[p].stale = proc[p].stale
                 /\ proc'[p].row = IF proc'[p].user = proc[p].by THEN proc[p].self
                                                                 ELSE acct[proc'[p].user]
        <4>1. proc[p].by \in ActiveAdmins /\ Same(proc[p].self, acct[proc[p].by])
          BY <2>4, <3>3 DEF FreshReads, RequestsKnown, Known
        <4>2. QED
          BY <2>1, <2>2, <2>4, <3>3, <4>1 DEF Same
      <3>4. CASE /\ proc'[p].op = "loaded"
                 /\ proc'[p].by \in {Shell, Directory} /\ proc'[p].row = acct[proc'[p].user]
        <4>1. proc'[p].by \notin Users
          BY <3>4, AccountsAssumption
        <4>2. QED
          BY <2>1, <2>4, <3>4, <4>1 DEF Same
      <3>5. QED
        BY <1>5, <3>1, <3>2, <3>3, <3>4 DEF Reads
    <2>5. QED
      BY <2>3, <2>4
  <1>6. ASSUME AccountsOther
        PROVE  Fresh(q)
    <2>1. SameRequest(q) /\ \A u \in Users : Same(acct'[u], acct[u])
      BY <1>6, OtherTyped
    <2>2. ActiveAdmins' = ActiveAdmins
      BY <2>1 DEF ActiveAdmins, Same
    <2>3. /\ proc[q].op \in {"arrived", "loaded"} /\ proc[q].by \in Users =>
                 proc[q].by \in ActiveAdmins /\ Same(proc[q].self, acct[proc[q].by])
          /\ proc[q].op = "loaded" =>
                 Same(proc[q].row, acct[proc[q].user]) /\ proc[q].user \in Users
      BY <2>1 DEF FreshReads, SameRequest, RequestsKnown, Known
    <2>4. QED
      BY <2>1, <2>2, <2>3 DEF SameRequest, Same
  <1>7. QED
    BY <1>3, <1>4, <1>5, <1>6, AccountsSteps

LEMMA AdminNextInv == AdminInv /\ [AccountsNext]_accountVars => AdminInv'
  <1> SUFFICES ASSUME AdminInv, [AccountsNext]_accountVars PROVE AdminInv'
    OBVIOUS
  <1>1. /\ AccountsTypeOK /\ RequestsKnown /\ FreshReads /\ FreshLeaveAnAdmin
        /\ AccountsTypeOK' /\ RequestsKnown' /\ FreshReads'
    BY KnownKept, FreshReadsKept DEF AdminInv
  <1>2. SUFFICES ASSUME NEW q \in Processes, proc'[q].op \in Changes, ~ proc'[q].stale,
                        proc'[q].by # Directory, ActiveAdmins' # {}
                 PROVE  LeavesAnAdmin(q)'
    BY <1>1 DEF FreshLeaveAnAdmin, AdminInv
  <1>3. ASSUME UNCHANGED acct, proc'[q] = proc[q] PROVE LeavesAnAdmin(q)'
    <2>1. ActiveAdmins' = ActiveAdmins
      BY <1>3 DEF ActiveAdmins
    <2>2. LeavesAnAdmin(q)
      BY <1>1, <1>2, <1>3, <2>1 DEF FreshLeaveAnAdmin
    <2>3. QED
      BY <1>3, <2>1, <2>2 DEF LeavesAnAdmin
  <1>4. ASSUME NEW p \in Processes, Handle(p) PROVE LeavesAnAdmin(q)'
    <2>1. UNCHANGED acct /\ \A x \in Processes \ {p} : proc'[x] = proc[x]
      <3>1. PICK op, new : Taken(p, op, new)
        BY <1>1, <1>4, RequestTaken
      <3>2. proc' = [proc EXCEPT ![p] = proc'[p]] /\ UNCHANGED acct
        BY <1>1, <3>1, TakenInHand
      <3>3. QED
        BY <1>1, <3>2 DEF AccountsTypeOK
    <2>2. ActiveAdmins' = ActiveAdmins
      BY <2>1 DEF ActiveAdmins
    <2>3. CASE q # p
      BY <1>3, <2>1, <2>3
    <2>4. CASE q = p
      <3> DEFINE r == proc'[p]
                 u == proc[p].user
                 row == proc[p].row
      <3>1. ~ proc[p].stale /\ proc[p].op = "loaded"
        <4>1. PICK op, new : Taken(p, op, new)
          BY <1>1, <1>4, RequestTaken
        <4>2. proc[p].op = "loaded" /\ proc'[p].stale = proc[p].stale
          BY <1>1, <4>1, TakenInHand
        <4>3. QED
          BY <1>2, <2>4, <4>2
      <3>2. PICK op, new : Taken(p, op, new) /\ (proc[p].by = Directory \/ Keeps(u, new))
        BY <1>1, <1>2, <1>4, <2>2, <3>1, DecisionKeeps
      <3>3. /\ r.by = proc[p].by /\ r.user = u /\ r.new = new
            /\ \A c \in Columns \ {"reset"} : c \in r.changed <=> new[c] # row[c]
        BY <1>1, <3>2, TakenInHand
      <3>4. Same(row, acct[u])
        BY <1>1, <3>1 DEF FreshReads
      <3>5. Keeps(u, new)
        BY <1>2, <2>4, <3>2, <3>3
      <3>6. /\ new.role = IF "role" \in r.changed THEN new.role ELSE acct[u].role
            /\ new.active = IF "active" \in r.changed THEN new.active ELSE acct[u].active
        BY <3>3, <3>4 DEF Columns, Same
      <3>7. QED
        BY <2>1, <2>2, <2>4, <3>3, <3>5, <3>6 DEF Keeps, LeavesAnAdmin
    <2>5. QED
      BY <2>3, <2>4
  <1>5. ASSUME NEW p \in Processes, Commit(p) PROVE LeavesAnAdmin(q)'
    <2>1. proc[p].op \in Changes /\ q # p
      BY <1>1, <1>2, <1>5, CommitEffects, RowTyped DEF Changes
    <2>2. UNCHANGED acct /\ proc'[q] = proc[q]
      BY <1>1, <1>2, <1>5, <2>1, CommitEffects DEF Changes
    <2>3. QED
      BY <1>3, <2>2
  <1>6. ASSUME AccountsOther PROVE LeavesAnAdmin(q)'
    <2>1. SameRequest(q) /\ \A u \in Users : Same(acct'[u], acct[u])
      BY <1>1, <1>6, OtherTyped
    <2>2. ActiveAdmins' = ActiveAdmins
      BY <2>1 DEF ActiveAdmins, Same
    <2>3. LeavesAnAdmin(q) /\ proc[q].user \in Users
      BY <1>1, <1>2, <2>1, <2>2 DEF FreshLeaveAnAdmin, RequestsKnown, Known, SameRequest
    <2>4. QED
      BY <2>1, <2>2, <2>3 DEF LeavesAnAdmin, Same, SameRequest
  <1>7. ASSUME NEW p \in Processes, Reads(p) PROVE LeavesAnAdmin(q)'
    <2>1. proc' = [proc EXCEPT ![p] = proc'[p]] /\ UNCHANGED acct
      BY <1>7 DEF Reads
    <2>2. proc'[p].op \notin Changes
      BY <1>7, RowTyped DEF Reads, Changes
    <2>3. proc'[q] = proc[q]
      BY <1>1, <1>2, <2>1, <2>2 DEF AccountsTypeOK
    <2>4. QED
      BY <1>3, <2>1, <2>3
  <1>8. QED
    BY <1>1, <1>4, <1>5, <1>6, <1>7, AccountsSteps

\* What a commit that nothing has overtaken does to the admins.
LEMMA AdminKeptStep ==
    ASSUME AdminInv, NEW p \in Processes,
           CommitsFresh(p), proc[p].by # Directory, ActiveAdmins # {}
    PROVE  ActiveAdmins' # {}
  <1>1. AccountsTypeOK /\ RequestsKnown /\ FreshLeaveAnAdmin
    BY DEF AdminInv
  <1>2. Commit(p) /\ proc[p].op \in Changes /\ ~ proc[p].stale
    BY DEF CommitsFresh, Commit
  <1>3. LeavesAnAdmin(p)
    BY <1>1, <1>2 DEF FreshLeaveAnAdmin
  <1>4. CASE acct' = acct
    BY <1>4 DEF ActiveAdmins
  <1>5. CASE acct' = [acct EXCEPT ![proc[p].user] = Written(p)]
    <2> DEFINE u == proc[p].user
               w == Written(p)
    <2>1. u \in Users
      BY <1>1, <1>2 DEF RequestsKnown, Known
    <2>2. /\ proc[p].new.exists
          /\ acct[u].exists \/ "exists" \in proc[p].changed
      BY <1>1, <1>2 DEF RequestsKnown, Known
    <2>3. /\ w.role = IF "role" \in proc[p].changed THEN proc[p].new.role ELSE acct[u].role
          /\ w.active = IF "active" \in proc[p].changed THEN proc[p].new.active ELSE acct[u].active
          /\ w.exists = IF "exists" \in proc[p].changed THEN proc[p].new.exists ELSE acct[u].exists
      BY <1>1, <2>1, WrittenColumns DEF Columns
    <2> HIDE DEF w
    <2>4. PICK v \in ActiveAdmins : v = u => w.role = "admin" /\ w.active
      BY <1>3, <2>3 DEF LeavesAnAdmin
    <2>5. acct'[v] = IF v = u THEN w ELSE acct[v]
      BY <1>1, <1>5, <2>4 DEF AccountsTypeOK, ActiveAdmins, w
    <2>6. v \in ActiveAdmins'
      BY <2>2, <2>3, <2>4, <2>5 DEF ActiveAdmins
    <2>7. QED
      BY <2>6
  <1>6. QED
    BY <1>1, <1>2, <1>4, <1>5, CommitEffects

\* "Cannot change role: this is the last active admin" (edit_user, toggle_active): a request that
\* overlaps no other leaves an active admin.
THEOREM LastAdminKeptHolds == AccountsSpec => LastAdminKept
  <1>1. AccountsInit => AdminInv
    BY AccountsInitType, KnownInit, RowTyped
    DEF AdminInv, FreshReads, FreshLeaveAnAdmin, AccountsInit, Changes
  <1>2. AdminInv /\ [AccountsNext]_accountVars =>
          [\A p \in Processes :
              CommitsFresh(p) /\ proc[p].by # Directory /\ ActiveAdmins # {} => ActiveAdmins' # {}
          ]_accountVars
    BY AdminKeptStep
  <1>3. QED
    BY <1>1, <1>2, AdminNextInv, PTL DEF AccountsSpec, LastAdminKept
-----------------------------------------------------------------------------
(***************************************************************************)
(* Logging in. Without an overlap a commit writes over the row that its    *)
(* request has read, so what the request found out about that row still    *)
(* holds; with one, only what the counter can lose is bounded.             *)
(***************************************************************************)

LoginProcesses == Workers \union {CommandLine}
Shown == {"totp", "recovery"} \X Nat
LoginRequests == [stage : Stages, kind : Kinds, seen : LoginRows, new : LoginRows,
                  cookie : SessionCookies, factor : SUBSET Shown,
                  wrong : BOOLEAN, reread : BOOLEAN, stale : BOOLEAN]

\* Passwords and recovery codes are numbered by the requests that made them, and the counter stays
\* below the threshold, in the row and in what requests will write.
Counted ==
    /\ lastPw <= logins /\ lastCode <= logins
    /\ rec.fails < Threshold
    /\ \A p \in LoginProcesses : req[p].new.fails < Threshold /\ req[p].seen.fails < Threshold

\* What a request that has decided does to the counter of failures.
CountsFailures(r) ==
    /\ r.wrong =>
          /\ r.stage = "write"
          /\ IF r.seen.fails + 1 < Threshold
             THEN r.new.fails = r.seen.fails + 1 /\ r.new.lockedUntil = r.seen.lockedUntil
             ELSE r.new.fails = 0
    /\ ~ r.wrong =>
          \/ r.new.fails = r.seen.fails /\ r.new.lockedUntil = r.seen.lockedUntil
          \/ r.new.fails = 0 /\ r.new.lockedUntil = 0

\* The factors of U are worth nothing for `row` any more.
Spent(row, U) ==
    /\ \A s \in Nat : <<"totp", s>> \in U /\ row.totp => s <= row.lastStep
    /\ \A c \in Nat : <<"recovery", c>> \in U => c \notin row.codes

\* The factors that count as used once the request has committed; another enrolment starts anew.
UsedAfter(r) == IF r.new.totp # r.seen.totp THEN r.factor ELSE used \union r.factor

\* A request shows a factor that has not been used, uses it up, and a new code is really new.
ShowsFresh(r) ==
    /\ ~ (r.new.totp /\ ~ r.seen.totp) => used \intersect r.factor = {}
    /\ Spent(r.new, UsedAfter(r))
    /\ r.factor # {} => \/ r.new.totp # r.seen.totp \/ r.new.lastStep # r.seen.lastStep
                        \/ r.new.codes # r.seen.codes

\* An enrolment bumps the session version, and what is opened is stamped with it and, behind a
\* second factor, marked.
StampsSession(r) ==
    /\ r.new.sv \in {r.seen.sv, r.seen.sv + 1}
    /\ r.new.totp /\ ~ r.seen.totp => r.new.sv = r.seen.sv + 1
    /\ r.stage = "mint" => r.cookie.sv = r.new.sv /\ (r.new.totp => r.cookie.second)

\* `row` was the account's: no enrolment since then without a bump.
Former(row) == row.sv <= rec.sv /\ (row.sv = rec.sv /\ rec.totp => row.totp)

\* What is known of a request until its row is changed by another one.
InForce ==
    \A p \in LoginProcesses :
        /\ req[p].stage \in {"write", "clear", "mint"} /\ ~ req[p].stale =>
               req[p].seen = rec /\ ShowsFresh(req[p]) /\ StampsSession(req[p])
        /\ req[p].stage \in {"clear", "enter"} => Former(req[p].seen)

SessionsStamped ==
    \A s \in sessions : s.sv <= rec.sv /\ (s.sv = rec.sv /\ rec.totp => s.second)

\* Codes that are used or valid have been issued.
CodesIssued ==
    /\ rec.codes \subseteq 1..lastCode
    /\ \A c \in Nat : <<"recovery", c>> \in used => c <= lastCode
    /\ \A p \in LoginProcesses :
          /\ req[p].seen.codes \union req[p].new.codes \subseteq 1..lastCode
          /\ \A c \in Nat : <<"recovery", c>> \in req[p].factor => c <= lastCode

FailuresCounted ==
    \A p \in LoginProcesses : req[p].stage # "none" => CountsFailures(req[p])

LoginInv ==
    /\ LoginTypeOK /\ Counted
    /\ FailuresCounted
    /\ CodesIssued
    /\ ~ overlapped =>
          /\ InForce
          /\ SessionsStamped
          /\ Spent(rec, used) /\ ~ replayed
          /\ Threshold > 1 => guesses <= rec.fails

\* Twice the wrong guesses that may have been made when the counter says f: while one worker takes
\* a guess from f to f + 1, the other may make all the guesses that are left up to the threshold,
\* and they are forgotten.
Twice(f) == f * (2 * Threshold + 1 - f)

Guessing(p) == req[p].stage # "none" /\ req[p].wrong

\* What a guess that is under way has seen bounds the guesses, in relation to the row and to the
\* guess of the other worker.
GuessesBounded ==
    LET f == rec.fails IN
    /\ 2 * guesses <= Twice(f)
    /\ \A p \in LoginProcesses : Guessing(p) /\ req[p].seen.fails <= f =>
          2 * guesses <= Twice(req[p].seen.fails) + 2 * (f - req[p].seen.fails)
    /\ \A p, q \in LoginProcesses :
          p # q /\ Guessing(p) /\ Guessing(q) /\ req[p].seen.fails <= req[q].seen.fails =>
              2 * guesses <= Twice(req[p].seen.fails)
                             + 2 * (req[q].seen.fails - req[p].seen.fails)

OnlyWorkersGuess == ~ Guessing(CommandLine)

(* The row *)

SameCounter(a, b) == a.fails = b.fails /\ a.lockedUntil = b.lockedUntil
SameFactors(a, b) == a.totp = b.totp /\ a.lastStep = b.lastStep /\ a.codes = b.codes

LEMMA LoginConstants ==
    /\ {Threshold, LockTime, CookieTime, CacheTime, MaxLogins, MaxClock} \subseteq Nat
    /\ Threshold \in Nat /\ LockTime \in Nat /\ CookieTime \in Nat /\ CacheTime \in Nat
    /\ MaxLogins \in Nat /\ MaxClock \in Nat /\ Threshold > 0 /\ MaxClock > 0
    /\ CommandLine \notin Workers
  BY LoginAssumption

LEMMA FreshTyped == FreshRow \in LoginRows /\ NoRequest \in LoginRequests
  <1>1. FreshRow \in LoginRows
    BY LoginConstants DEF FreshRow, LoginRows, Passwords
  <1>2. [sv |-> 0, pw |-> 0, second |-> FALSE] \in SessionCookies
    BY LoginConstants DEF SessionCookies, Passwords
  <1>3. QED
    BY <1>1, <1>2 DEF NoRequest, LoginRequests, Stages, Kinds

\* What the helpers make of a row.
LEMMA ClearedRow ==
    ASSUME NEW row \in LoginRows
    PROVE  /\ Cleared(row) \in LoginRows
           /\ Cleared(row).fails = 0 /\ Cleared(row).lockedUntil = 0
           /\ SameFactors(Cleared(row), row) /\ Cleared(row).sv = row.sv
  BY DEF Cleared, LoginRows, SameFactors

LEMMA FailedRow ==
    ASSUME NEW row \in LoginRows, NEW sole \in BOOLEAN, clock \in Nat, row.fails < Threshold
    PROVE  /\ Failed(row, sole) \in LoginRows
           /\ Failed(row, sole).fails < Threshold
           /\ SameFactors(Failed(row, sole), row) /\ Failed(row, sole).sv = row.sv
           /\ IF row.fails + 1 < Threshold
              THEN /\ Failed(row, sole).fails = row.fails + 1
                   /\ Failed(row, sole).lockedUntil = row.lockedUntil
              ELSE Failed(row, sole).fails = 0
  <1>1. CASE row.fails + 1 < Threshold
    <2>1. Failed(row, sole) = [row EXCEPT !.fails = @ + 1]
      BY <1>1 DEF Failed
    <2>2. QED
      BY <1>1, <2>1 DEF LoginRows, SameFactors
  <1>2. CASE ~ (row.fails + 1 < Threshold)
    <2>1. PICK until \in Nat : Failed(row, sole) = [row EXCEPT !.fails = 0, !.lockedUntil = until]
      <3>1. clock + LockTime \in Nat /\ row.lockedUntil \in Nat
        BY LoginConstants DEF LoginRows
      <3>2. Failed(row, sole) = [row EXCEPT !.fails = 0, !.lockedUntil =
                                    IF sole THEN row.lockedUntil ELSE clock + LockTime]
        BY <1>2 DEF Failed
      <3>3. QED
        BY <3>1, <3>2
    <2>2. Failed(row, sole) \in LoginRows
      <3>1. [row EXCEPT !.fails = 0] \in LoginRows
        BY DEF LoginRows
      <3>2. [[row EXCEPT !.fails = 0] EXCEPT !.lockedUntil = until] \in LoginRows
        BY <3>1 DEF LoginRows
      <3>3. QED
        BY <2>1, <3>2
    <2>3. Failed(row, sole).fails = 0
      BY <2>1 DEF LoginRows
    <2>4. SameFactors(Failed(row, sole), row) /\ Failed(row, sole).sv = row.sv
      BY <2>1 DEF LoginRows, SameFactors
    <2>5. QED
      BY <1>2, <2>2, <2>3, <2>4, LoginConstants
  <1>3. QED
    BY <1>1, <1>2

LEMMA BumpedRow ==
    ASSUME NEW row \in LoginRows
    PROVE  /\ Bumped(row) \in LoginRows
           /\ Bumped(row).sv = row.sv + 1
           /\ SameCounter(Bumped(row), row) /\ SameFactors(Bumped(row), row)
  BY DEF Bumped, LoginRows, SameCounter, SameFactors

LEMMA WithoutTotpRow ==
    ASSUME NEW row \in LoginRows
    PROVE  /\ WithoutTotp(row) \in LoginRows
           /\ WithoutTotp(row).totp = FALSE /\ WithoutTotp(row).codes = {}
           /\ WithoutTotp(row).sv = row.sv /\ SameCounter(WithoutTotp(row), row)
  <1>1. 0 \in 0..(MaxClock + 1) /\ {} \in SUBSET RecoveryCodes
    BY LoginConstants
  <1>2. WithoutTotp(row) = [row EXCEPT !.totp = FALSE, !.lastStep = 0, !.codes = {}]
    BY DEF WithoutTotp
  <1>3. WithoutTotp(row) \in LoginRows
    BY <1>1, <1>2 DEF LoginRows
  <1>4. WithoutTotp(row).totp = FALSE /\ WithoutTotp(row).codes = {}
    BY <1>2 DEF LoginRows
  <1>5. WithoutTotp(row).sv = row.sv /\ SameCounter(WithoutTotp(row), row)
    BY <1>2 DEF LoginRows, SameCounter
  <1>6. QED
    BY <1>3, <1>4, <1>5

\* An accepted factor: which one it is, and the row that it leaves behind.
LEMMA FactorShown ==
    ASSUME rec \in LoginRows, clock \in 1..MaxClock, NEW x \in Factors(rec)
    PROVE  /\ x.row \in LoginRows
           /\ SameCounter(x.row, rec) /\ x.row.sv = rec.sv /\ x.row.totp = rec.totp
           /\ x.row.pw = rec.pw
           /\ \/ \E s \in Nat : /\ x.f = {<<"totp", s>>} /\ s > rec.lastStep
                                /\ x.row.lastStep = s /\ x.row.codes = rec.codes
              \/ \E c \in rec.codes : /\ x.f = {<<"recovery", c>>}
                                      /\ x.row.codes = rec.codes \ {c}
                                      /\ x.row.lastStep = rec.lastStep
  <1>1. CASE \E s \in AcceptedSteps(rec) : x = [f |-> {<<"totp", s>>}, row |-> WithStep(rec, s)]
    <2>1. PICK s \in AcceptedSteps(rec) : x = [f |-> {<<"totp", s>>}, row |-> WithStep(rec, s)]
      BY <1>1
    <2>2. s \in 0..(MaxClock + 1) /\ s > rec.lastStep /\ s \in Nat
      BY LoginConstants DEF AcceptedSteps, Steps
    <2>3. x.f = {<<"totp", s>>} /\ x.row = [rec EXCEPT !.lastStep = s]
      BY <2>1 DEF WithStep
    <2>4. /\ x.row \in LoginRows
          /\ SameCounter(x.row, rec) /\ x.row.sv = rec.sv /\ x.row.totp = rec.totp
          /\ x.row.pw = rec.pw /\ x.row.lastStep = s /\ x.row.codes = rec.codes
      BY <2>2, <2>3 DEF LoginRows, SameCounter
    <2>5. QED
      BY <2>2, <2>3, <2>4
  <1>2. CASE \E c \in rec.codes : x = [f |-> {<<"recovery", c>>}, row |-> WithoutCode(rec, c)]
    <2>1. PICK c \in rec.codes : x = [f |-> {<<"recovery", c>>}, row |-> WithoutCode(rec, c)]
      BY <1>2
    <2>2. rec.codes \ {c} \in SUBSET RecoveryCodes
      BY DEF LoginRows
    <2>3. x.f = {<<"recovery", c>>} /\ x.row = [rec EXCEPT !.codes = rec.codes \ {c}]
      BY <2>1 DEF WithoutCode
    <2>4. /\ x.row \in LoginRows
          /\ SameCounter(x.row, rec) /\ x.row.sv = rec.sv /\ x.row.totp = rec.totp
          /\ x.row.pw = rec.pw /\ x.row.lastStep = rec.lastStep /\ x.row.codes = rec.codes \ {c}
      BY <2>2, <2>3 DEF LoginRows, SameCounter
    <2>5. QED
      BY <2>1, <2>3, <2>4
  <1>3. QED
    BY <1>1, <1>2 DEF Factors

(* What a request takes with it *)

RequestFields ==
    {"stage", "kind", "seen", "new", "cookie", "factor", "wrong", "reread", "stale"}

\* A request that is taken up.
TakenWell(r) ==
    /\ r \in LoginRequests /\ r.seen = rec
    /\ ~ r.reread /\ ~ r.stale /\ r.stage # "none"
    /\ r.new.fails < Threshold
    /\ CountsFailures(r)
    /\ \A c \in Nat : <<"recovery", c>> \in r.factor => c <= lastCode
    /\ ~ overlapped => ShowsFresh(r) /\ StampsSession(r)

\* The step of p that takes it up.
TakesUp(p) ==
    \E r \in LoginRequests :
        /\ TakenWell(r)
        /\ r.new.codes \subseteq 1..lastCode'
        /\ r.wrong => p # CommandLine
        /\ req' = [req EXCEPT ![p] = r]
        /\ logins < MaxLogins /\ logins' = logins + 1
        /\ lastPw' \in {lastPw, lastPw + 1} /\ lastCode' \in {lastCode, lastCode + 1}
        /\ cache' \in [Workers -> [pw : Passwords, exp : Nat]]
        /\ UNCHANGED <<rec, clock, sessions, pre, used, replayed, guesses, overlapped>>

LEMMA RequestTyped ==
    ASSUME NEW r, r = [x \in RequestFields |-> r[x]], r.stage \in Stages, r.kind \in Kinds,
           r.seen \in LoginRows, r.new \in LoginRows, r.cookie \in SessionCookies,
           r.factor \in SUBSET Shown, r.wrong \in BOOLEAN, r.reread \in BOOLEAN,
           r.stale \in BOOLEAN
    PROVE  r \in LoginRequests
  BY DEF LoginRequests, RequestFields

\* Without a factor nothing is used up.
LEMMA FreshWithout ==
    ASSUME LoginTypeOK, NEW r \in LoginRequests, r.seen = rec, Spent(rec, used),
           r.factor = {},
           SameFactors(r.new, rec) \/ (~ r.new.totp /\ r.new.codes = {})
    PROVE  ShowsFresh(r)
  <1>1. r.new \in LoginRows /\ rec \in LoginRows
    BY DEF LoginRequests, LoginTypeOK
  <1>2. UsedAfter(r) = {} \/ (UsedAfter(r) = used /\ r.new.totp = rec.totp)
    BY DEF UsedAfter
  <1>3. Spent(r.new, UsedAfter(r))
    BY <1>2 DEF Spent, SameFactors
  <1>4. QED
    BY <1>3 DEF ShowsFresh

\* A factor that _check_second_factor accepts has not been used.
LEMMA FreshWith ==
    ASSUME LoginTypeOK, NEW r \in LoginRequests, r.seen = rec, Spent(rec, used), CodesIssued,
           rec.totp, NEW x \in Factors(rec), r.factor = x.f,
           \/ ~ r.new.totp /\ r.new.codes = {}
           \/ /\ r.new.totp /\ r.new.lastStep = x.row.lastStep
              /\ r.new.codes = x.row.codes \/ r.new.codes = {lastCode + 1}
    PROVE  ShowsFresh(r)
  <1>0. rec \in LoginRows /\ clock \in 1..MaxClock /\ lastCode \in Nat
    BY LoginConstants DEF LoginTypeOK
  <1>1. /\ rec \in LoginRows /\ r.new \in LoginRows /\ x.row \in LoginRows
        /\ clock \in 1..MaxClock /\ lastCode \in Nat
    <2>1. r.new \in LoginRows
      BY DEF LoginRequests
    <2>2. x.row \in LoginRows
      BY <1>0, FactorShown
    <2>3. QED
      BY <1>0, <2>1, <2>2
  <1>2. rec.codes \subseteq 1..lastCode /\ rec.lastStep \in Nat
    BY <1>1, LoginConstants DEF CodesIssued, LoginRows
  <1>3. \A c \in Nat : <<"recovery", c>> \in used => c <= lastCode
    BY DEF CodesIssued
  <1>4. CASE \E s \in Nat : /\ x.f = {<<"totp", s>>} /\ s > rec.lastStep
                            /\ x.row.lastStep = s /\ x.row.codes = rec.codes
    <2>1. PICK s \in Nat : /\ x.f = {<<"totp", s>>} /\ s > rec.lastStep
                           /\ x.row.lastStep = s /\ x.row.codes = rec.codes
      BY <1>4
    <2>2. used \intersect r.factor = {}
      BY <2>1, <1>2 DEF Spent
    <2>3. CASE r.new.totp
      <3>1. UsedAfter(r) = used \union {<<"totp", s>>}
        BY <2>1, <2>3, <1>1 DEF UsedAfter, LoginRows
      <3>2. ASSUME NEW t \in Nat, <<"totp", t>> \in UsedAfter(r)
            PROVE  t <= r.new.lastStep
        BY <3>1, <3>2, <2>1, <2>3, <1>2 DEF Spent
      <3>3. ASSUME NEW c \in Nat, <<"recovery", c>> \in UsedAfter(r)
            PROVE  c \notin r.new.codes
        BY <3>1, <3>3, <2>1, <2>3, <1>1, <1>2, <1>3 DEF Spent
      <3>4. r.new.lastStep # rec.lastStep
        BY <2>1, <2>3, <1>2
      <3>5. QED
        BY <3>2, <3>3, <3>4, <2>2 DEF ShowsFresh, Spent
    <2>4. CASE ~ r.new.totp
      <3>1. r.new.codes = {} /\ r.new.totp # r.seen.totp
        BY <2>4
      <3>2. QED
        BY <3>1, <2>2, <2>4 DEF ShowsFresh, Spent
    <2>5. QED
      BY <2>3, <2>4
  <1>5. CASE \E c \in rec.codes : /\ x.f = {<<"recovery", c>>}
                                  /\ x.row.codes = rec.codes \ {c}
                                  /\ x.row.lastStep = rec.lastStep
    <2>1. PICK c \in rec.codes : /\ x.f = {<<"recovery", c>>}
                                 /\ x.row.codes = rec.codes \ {c}
                                 /\ x.row.lastStep = rec.lastStep
      BY <1>5
    <2>2. c \in Nat /\ c <= lastCode
      BY <1>1, <1>2, <2>1
    <2>3. used \intersect r.factor = {}
      BY <2>1, <2>2 DEF Spent
    <2>4. CASE r.new.totp
      <3>1. UsedAfter(r) = used \union {<<"recovery", c>>}
        BY <2>1, <2>4, <1>1 DEF UsedAfter, LoginRows
      <3>2. ASSUME NEW t \in Nat, <<"totp", t>> \in UsedAfter(r)
            PROVE  t <= r.new.lastStep
        BY <3>1, <3>2, <2>1, <2>4, <1>2 DEF Spent
      <3>3. ASSUME NEW d \in Nat, <<"recovery", d>> \in UsedAfter(r)
            PROVE  d \notin r.new.codes
        <4>1. d = c \/ <<"recovery", d>> \in used
          BY <3>1, <3>3
        <4>2. d \notin rec.codes \ {c} /\ d # lastCode + 1
          BY <4>1, <2>2, <1>1, <1>3 DEF Spent
        <4>3. QED
          BY <4>2, <2>1, <2>4
      <3>4. r.new.codes # rec.codes
        <4>1. c \in rec.codes /\ lastCode + 1 \notin rec.codes
          BY <2>1, <1>1, <1>2
        <4>2. QED
          BY <4>1, <2>1, <2>4
      <3>5. QED
        BY <3>2, <3>3, <3>4, <2>3 DEF ShowsFresh, Spent
    <2>5. CASE ~ r.new.totp
      <3>1. r.new.codes = {} /\ r.new.totp # r.seen.totp
        BY <2>5
      <3>2. QED
        BY <3>1, <2>3, <2>5 DEF ShowsFresh, Spent
    <2>6. QED
      BY <2>4, <2>5
  <1>6. QED
    BY <1>1, <1>4, <1>5, FactorShown

\* The code that enrols is the first one of its enrolment.
LEMMA FreshEnrolled ==
    ASSUME NEW r, r.seen = rec, ~ rec.totp, r.new.totp, NEW s \in Nat,
           r.factor = {<<"totp", s>>}, r.new.lastStep = s
    PROVE  ShowsFresh(r)
  <1>1. UsedAfter(r) = {<<"totp", s>>}
    BY DEF UsedAfter
  <1>2. Spent(r.new, UsedAfter(r))
    BY <1>1 DEF Spent
  <1>3. QED
    BY <1>2 DEF ShowsFresh

(* What each request takes up *)

LEMMA InvTyped ==
    ASSUME LoginInv
    PROVE  /\ rec \in LoginRows /\ rec.fails \in Nat /\ rec.fails < Threshold /\ rec.sv \in Nat
           /\ rec.totp \in BOOLEAN /\ rec.codes \subseteq 1..lastCode
           /\ clock \in 1..MaxClock /\ clock \in Nat
           /\ lastPw \in Nat /\ lastCode \in Nat /\ logins \in Nat
           /\ lastPw <= logins /\ lastCode <= logins
           /\ cache \in [Workers -> [pw : Passwords, exp : Nat]]
           /\ req \in [LoginProcesses -> LoginRequests]
  <1>1. LoginTypeOK /\ Counted /\ CodesIssued
    BY DEF LoginInv
  <1>2. rec \in LoginRows /\ clock \in 1..MaxClock
    BY <1>1 DEF LoginTypeOK
  <1>3. /\ cache \in [Workers -> [pw : Passwords, exp : Nat]]
        /\ req \in [LoginProcesses -> LoginRequests]
    BY <1>1 DEF LoginTypeOK, LoginProcesses, LoginRequests, Shown
  <1>4. logins \in 0..MaxLogins /\ lastPw \in 0..MaxLogins /\ lastCode \in 0..MaxLogins
    BY <1>1 DEF LoginTypeOK, Passwords
  <1>5. rec.fails \in Nat /\ rec.sv \in Nat /\ rec.totp \in BOOLEAN
    BY <1>2 DEF LoginRows
  <1>6. /\ lastPw <= logins /\ lastCode <= logins /\ rec.fails < Threshold
        /\ rec.codes \subseteq 1..lastCode
    BY <1>1 DEF Counted, CodesIssued
  <1>7. QED
    BY <1>2, <1>3, <1>4, <1>5, <1>6, LoginConstants

LEMMA NewNumbers ==
    ASSUME LoginInv, logins < MaxLogins
    PROVE  /\ lastPw + 1 \in Passwords /\ lastCode + 1 \in RecoveryCodes
           /\ {lastCode + 1} \in SUBSET RecoveryCodes
  BY InvTyped, LoginConstants DEF Passwords, RecoveryCodes

\* What a process takes up, put together.
LEMMA TookUp ==
    ASSUME LoginInv, NEW p \in LoginProcesses, AtLeisure(p),
           NEW r0, NEW r, r = [r0 EXCEPT !.seen = rec], Begin(p, r0),
           r = [x \in RequestFields |-> r[x]], r.stage \in Stages \ {"none"}, r.kind \in Kinds,
           r.seen = rec, r.new \in LoginRows, r.cookie \in SessionCookies,
           r.factor \in SUBSET Shown, r.wrong \in BOOLEAN, r.reread = FALSE, r.stale = FALSE,
           r.new.fails < Threshold, CountsFailures(r),
           \A c \in Nat : <<"recovery", c>> \in r.factor => c <= lastCode,
           ~ overlapped => ShowsFresh(r) /\ StampsSession(r),
           r.new.codes \subseteq 1..lastCode',
           r.wrong => p # CommandLine,
           lastPw' \in {lastPw, lastPw + 1}, lastCode' \in {lastCode, lastCode + 1},
           cache' \in [Workers -> [pw : Passwords, exp : Nat]]
    PROVE  TakesUp(p)
  <1>1. r \in LoginRequests
    BY InvTyped, RequestTyped
  <1>2. /\ req' = [req EXCEPT ![p] = r] /\ logins' = logins + 1
        /\ UNCHANGED <<rec, clock, sessions, pre, used, replayed, guesses, overlapped>>
    BY DEF Begin
  <1>3. TakenWell(r)
    BY <1>1 DEF TakenWell
  <1>4. QED
    BY <1>1, <1>2, <1>3 DEF TakesUp, AtLeisure

LEMMA DroppedTyped ==
    ASSUME LoginInv, NEW p, DropUser(p)
    PROVE  cache' \in [Workers -> [pw : Passwords, exp : Nat]]
  BY InvTyped, LoginConstants DEF DropUser, NoEntry, Passwords

\* Without a second factor involved.
LEMMA Stamped ==
    ASSUME LoginInv, NEW r \in LoginRequests, r.seen = rec,
           r.new.sv \in {rec.sv, rec.sv + 1},
           r.new.totp => rec.totp \/ r.new.sv = rec.sv + 1,
           r.stage # "mint"
    PROVE  StampsSession(r)
  BY InvTyped DEF StampsSession

LEMMA FactorTyped ==
    ASSUME LoginInv, NEW x \in Factors(rec)
    PROVE  /\ x.row \in LoginRows /\ x.f \in SUBSET Shown
           /\ SameCounter(x.row, rec) /\ x.row.sv = rec.sv /\ x.row.totp = rec.totp
           /\ x.row.codes \subseteq 1..lastCode
           /\ \A c \in Nat : <<"recovery", c>> \in x.f => c <= lastCode
  <1>1. /\ x.row \in LoginRows
        /\ SameCounter(x.row, rec) /\ x.row.sv = rec.sv /\ x.row.totp = rec.totp
        /\ x.row.pw = rec.pw
        /\ \/ \E s \in Nat : /\ x.f = {<<"totp", s>>} /\ s > rec.lastStep
                             /\ x.row.lastStep = s /\ x.row.codes = rec.codes
           \/ \E c \in rec.codes : /\ x.f = {<<"recovery", c>>}
                                   /\ x.row.codes = rec.codes \ {c}
                                   /\ x.row.lastStep = rec.lastStep
    BY InvTyped, FactorShown
  <1>2. rec.codes \subseteq 1..lastCode /\ lastCode \in Nat
    BY InvTyped
  <1>3. CASE \E s \in Nat : x.f = {<<"totp", s>>} /\ x.row.codes = rec.codes
    BY <1>1, <1>2, <1>3 DEF Shown
  <1>4. CASE \E c \in rec.codes : x.f = {<<"recovery", c>>} /\ x.row.codes = rec.codes \ {c}
    BY <1>1, <1>2, <1>4 DEF Shown
  <1>5. QED
    BY <1>1, <1>3, <1>4

\* authenticate, and the wrong code of two_factor: the counter of the row is one up.
LEMMA GuessTakesUp ==
    ASSUME LoginInv, NEW w \in Workers, AtLeisure(w), NEW sole \in BOOLEAN,
           Begin(w, [Writes(Failed(rec, sole)) EXCEPT !.wrong = TRUE]),
           UNCHANGED <<cache, lastPw, lastCode>>
    PROVE  TakesUp(w)
  <1> DEFINE new == Failed(rec, sole)
             r0 == [Writes(new) EXCEPT !.wrong = TRUE]
             r == [r0 EXCEPT !.seen = rec]
  <1>1. /\ new \in LoginRows /\ new.fails < Threshold
        /\ SameFactors(new, rec) /\ new.sv = rec.sv
        /\ IF rec.fails + 1 < Threshold
           THEN new.fails = rec.fails + 1 /\ new.lockedUntil = rec.lockedUntil
           ELSE new.fails = 0
    BY InvTyped, FailedRow
  <1>2. Begin(w, r0)
    OBVIOUS
  <1> HIDE DEF new
  <1>3. r = [x \in RequestFields |-> r[x]]
    BY DEF Writes, NoRequest, RequestFields
  <1>4. /\ r.stage = "write" /\ r.kind = "form" /\ r.seen = rec /\ r.new = new
        /\ r.cookie = [sv |-> 0, pw |-> 0, second |-> FALSE] /\ r.factor = {}
    BY DEF Writes, NoRequest
  <1>5. r.wrong = TRUE /\ r.reread = FALSE /\ r.stale = FALSE
    BY DEF Writes, NoRequest
  <1>6. r = [r0 EXCEPT !.seen = rec]
    OBVIOUS
  <1> HIDE DEF r, r0
  <1>7. /\ r.cookie \in SessionCookies /\ r.factor \in SUBSET Shown /\ r.kind \in Kinds
        /\ r.stage \in Stages \ {"none"} /\ r.new \in LoginRows
    BY <1>1, <1>4, LoginConstants DEF SessionCookies, Passwords, Kinds, Stages
  <1>8. CountsFailures(r)
    BY <1>1, <1>4, <1>5 DEF CountsFailures
  <1>9. r \in LoginRequests
    BY <1>3, <1>4, <1>5, <1>7, InvTyped, RequestTyped
  <1>10. ~ overlapped => ShowsFresh(r) /\ StampsSession(r)
    <2>1. SUFFICES ASSUME ~ overlapped PROVE ShowsFresh(r) /\ StampsSession(r)
      OBVIOUS
    <2>2. LoginTypeOK /\ Spent(rec, used)
      BY <2>1 DEF LoginInv
    <2>3. ShowsFresh(r)
      BY <1>1, <1>4, <1>9, <2>2, FreshWithout
    <2>4. StampsSession(r)
      BY <1>1, <1>4, <1>9, InvTyped, Stamped DEF SameFactors
    <2>5. QED
      BY <2>3, <2>4
  <1>11. r.new.codes \subseteq 1..lastCode'
    BY <1>1, <1>4, InvTyped DEF SameFactors
  <1>12. /\ w \in LoginProcesses /\ w # CommandLine
         /\ cache' \in [Workers -> [pw : Passwords, exp : Nat]]
         /\ lastPw' \in {lastPw, lastPw + 1} /\ lastCode' \in {lastCode, lastCode + 1}
    BY LoginConstants, InvTyped DEF LoginProcesses
  <1>13. \A c \in Nat : <<"recovery", c>> \in r.factor => c <= lastCode
    BY <1>4
  <1>14. QED
    BY <1>1, <1>2, <1>3, <1>4, <1>5, <1>6, <1>7, <1>8, <1>10, <1>11, <1>12, <1>13, TookUp

\* A request that shows no second factor.
LEMMA PlainTakesUp ==
    ASSUME LoginInv, NEW p \in LoginProcesses, AtLeisure(p),
           NEW r0, NEW r, r = [r0 EXCEPT !.seen = rec], Begin(p, r0),
           r = [x \in RequestFields |-> r[x]], r.stage \in Stages \ {"none"}, r.kind \in Kinds,
           r.seen = rec, r.new \in LoginRows, r.cookie \in SessionCookies,
           r.factor = {}, r.wrong = FALSE, r.reread = FALSE, r.stale = FALSE,
           SameCounter(r.new, rec) \/ (r.new.fails = 0 /\ r.new.lockedUntil = 0),
           SameFactors(r.new, rec) \/ (~ r.new.totp /\ r.new.codes = {}),
           r.new.sv \in {rec.sv, rec.sv + 1},
           r.stage = "mint" /\ ~ overlapped =>
               r.cookie.sv = r.new.sv /\ (r.new.totp => r.cookie.second),
           lastPw' \in {lastPw, lastPw + 1}, lastCode' = lastCode,
           cache' \in [Workers -> [pw : Passwords, exp : Nat]]
    PROVE  TakesUp(p)
  <1>1. r \in LoginRequests
    BY InvTyped, RequestTyped
  <1>2. r.new.fails < Threshold
    BY InvTyped, LoginConstants DEF SameCounter
  <1>3. CountsFailures(r)
    BY DEF CountsFailures, SameCounter
  <1>4. r.new.totp => rec.totp
    BY DEF SameFactors
  <1>5. ~ overlapped => ShowsFresh(r) /\ StampsSession(r)
    <2>1. SUFFICES ASSUME ~ overlapped PROVE ShowsFresh(r) /\ StampsSession(r)
      OBVIOUS
    <2>2. LoginTypeOK /\ Spent(rec, used)
      BY <2>1 DEF LoginInv
    <2>3. ShowsFresh(r)
      BY <1>1, <2>2, FreshWithout
    <2>4. StampsSession(r)
      BY <1>4, <2>1 DEF StampsSession
    <2>5. QED
      BY <2>3, <2>4
  <1>6. r.new.codes \subseteq 1..lastCode'
    BY InvTyped DEF SameFactors
  <1>7. /\ r.factor \in SUBSET Shown /\ r.wrong \in BOOLEAN
        /\ \A c \in Nat : <<"recovery", c>> \in r.factor => c <= lastCode
        /\ r.wrong => p # CommandLine
        /\ lastCode' \in {lastCode, lastCode + 1}
    OBVIOUS
  <1>8. QED
    BY <1>2, <1>3, <1>5, <1>6, <1>7, TookUp

\* A request that shows a second factor which is accepted.
LEMMA FactorTakesUp ==
    ASSUME LoginInv, NEW p \in LoginProcesses, AtLeisure(p),
           NEW r0, NEW r, r = [r0 EXCEPT !.seen = rec], Begin(p, r0),
           r = [x \in RequestFields |-> r[x]], r.stage \in Stages \ {"none"}, r.kind \in Kinds,
           r.seen = rec, r.new \in LoginRows, r.cookie \in SessionCookies,
           r.wrong = FALSE, r.reread = FALSE, r.stale = FALSE,
           SameCounter(r.new, rec) \/ (r.new.fails = 0 /\ r.new.lockedUntil = 0),
           rec.totp, NEW x \in Factors(rec), r.factor = x.f,
           \/ ~ r.new.totp /\ r.new.codes = {}
           \/ /\ r.new.totp /\ r.new.lastStep = x.row.lastStep
              /\ r.new.codes = x.row.codes \/ r.new.codes = {lastCode + 1},
           r.new.codes \subseteq 1..lastCode',
           r.new.sv \in {rec.sv, rec.sv + 1},
           r.stage = "mint" => r.cookie.sv = r.new.sv /\ (r.new.totp => r.cookie.second),
           lastPw' \in {lastPw, lastPw + 1}, lastCode' \in {lastCode, lastCode + 1},
           cache' \in [Workers -> [pw : Passwords, exp : Nat]]
    PROVE  TakesUp(p)
  <1>1. x.f \in SUBSET Shown /\ \A c \in Nat : <<"recovery", c>> \in x.f => c <= lastCode
    BY FactorTyped
  <1>2. r \in LoginRequests
    BY <1>1, InvTyped, RequestTyped
  <1>3. r.new.fails < Threshold
    BY InvTyped, LoginConstants DEF SameCounter
  <1>4. CountsFailures(r)
    BY DEF CountsFailures, SameCounter
  <1>5. ~ overlapped => ShowsFresh(r) /\ StampsSession(r)
    <2>1. SUFFICES ASSUME ~ overlapped PROVE ShowsFresh(r) /\ StampsSession(r)
      OBVIOUS
    <2>2. LoginTypeOK /\ CodesIssued /\ Spent(rec, used)
      BY <2>1 DEF LoginInv
    <2>3. ShowsFresh(r)
      BY <1>2, <2>2, FreshWith
    <2>4. StampsSession(r)
      BY DEF StampsSession
    <2>5. QED
      BY <2>3, <2>4
  <1>6. /\ r.factor \in SUBSET Shown /\ r.wrong \in BOOLEAN
        /\ \A c \in Nat : <<"recovery", c>> \in r.factor => c <= lastCode
        /\ r.wrong => p # CommandLine
    BY <1>1
  <1>7. QED
    BY <1>3, <1>4, <1>5, <1>6, TookUp

LEMMA CookieTyped ==
    ASSUME NEW c, c = [x \in {"sv", "pw", "second"} |-> c[x]],
           c.sv \in Nat, c.pw \in Passwords, c.second \in BOOLEAN
    PROVE  c \in SessionCookies
  BY DEF SessionCookies

\* authenticate with the right password.
LEMMA RightTakesUp ==
    ASSUME LoginInv, NEW w \in Workers, AtLeisure(w), NEW kind \in Kinds, rec.pw \in Passwords,
           Begin(w, [NoRequest EXCEPT
                        !.stage = IF Cleared(rec) = rec THEN "enter" ELSE "clear",
                        !.kind = kind, !.new = Cleared(rec), !.cookie.pw = rec.pw]),
           UNCHANGED <<cache, lastPw, lastCode>>
    PROVE  TakesUp(w)
  <1> DEFINE new == Cleared(rec)
             stage == IF Cleared(rec) = rec THEN "enter" ELSE "clear"
             r0 == [NoRequest EXCEPT !.stage = stage, !.kind = kind, !.new = new,
                                     !.cookie.pw = rec.pw]
             r == [r0 EXCEPT !.seen = rec]
  <1>1. /\ new \in LoginRows /\ new.fails = 0 /\ new.lockedUntil = 0
        /\ SameFactors(new, rec) /\ new.sv = rec.sv
    BY InvTyped, ClearedRow
  <1>2. Begin(w, r0) /\ stage \in {"enter", "clear"}
    OBVIOUS
  <1> HIDE DEF new, stage
  <1>3. r = [x \in RequestFields |-> r[x]]
    BY DEF NoRequest, RequestFields
  <1>4. /\ r.stage = stage /\ r.kind = kind /\ r.seen = rec /\ r.new = new /\ r.factor = {}
        /\ r.wrong = FALSE /\ r.reread = FALSE /\ r.stale = FALSE
    BY DEF NoRequest
  <1>5. r.cookie = [[sv |-> 0, pw |-> 0, second |-> FALSE] EXCEPT !.pw = rec.pw]
    BY DEF NoRequest
  <1>6. r = [r0 EXCEPT !.seen = rec]
    OBVIOUS
  <1> HIDE DEF r, r0
  <1>7. r.cookie \in SessionCookies
    <2>1. /\ r.cookie = [x \in {"sv", "pw", "second"} |-> r.cookie[x]]
          /\ r.cookie.sv = 0 /\ r.cookie.pw = rec.pw /\ r.cookie.second = FALSE
      BY <1>5
    <2>2. r.cookie.sv \in Nat
      BY <2>1
    <2>3. r.cookie.pw \in Passwords
      BY <2>1
    <2>4. r.cookie.second \in BOOLEAN
      BY <2>1
    <2>5. QED
      BY <2>1, <2>2, <2>3, <2>4, CookieTyped
  <1>8. r.stage \in Stages \ {"none"} /\ r.stage # "mint"
    BY <1>2, <1>4 DEF Stages
  <1>9. /\ w \in LoginProcesses
        /\ cache' \in [Workers -> [pw : Passwords, exp : Nat]]
        /\ lastPw' \in {lastPw, lastPw + 1} /\ lastCode' = lastCode
    BY InvTyped DEF LoginProcesses
  <1>10. QED
    BY <1>1, <1>2, <1>3, <1>4, <1>6, <1>7, <1>8, <1>9, PlainTakesUp

\* A request that only writes a row.
LEMMA WriteTakesUp ==
    ASSUME LoginInv, NEW p \in LoginProcesses, AtLeisure(p), NEW new \in LoginRows,
           Begin(p, Writes(new)),
           SameCounter(new, rec) \/ (new.fails = 0 /\ new.lockedUntil = 0),
           SameFactors(new, rec) \/ (~ new.totp /\ new.codes = {}),
           new.sv \in {rec.sv, rec.sv + 1},
           lastPw' \in {lastPw, lastPw + 1}, lastCode' = lastCode,
           cache' \in [Workers -> [pw : Passwords, exp : Nat]]
    PROVE  TakesUp(p)
  <1> DEFINE r == [Writes(new) EXCEPT !.seen = rec]
  <1>1. r = [x \in RequestFields |-> r[x]]
    BY DEF Writes, NoRequest, RequestFields
  <1>2. /\ r.stage = "write" /\ r.kind = "form" /\ r.seen = rec /\ r.new = new
        /\ r.cookie = [sv |-> 0, pw |-> 0, second |-> FALSE] /\ r.factor = {}
        /\ r.wrong = FALSE /\ r.reread = FALSE /\ r.stale = FALSE
    BY DEF Writes, NoRequest
  <1>3. r = [Writes(new) EXCEPT !.seen = rec]
    OBVIOUS
  <1> HIDE DEF r
  <1>4. /\ r.cookie \in SessionCookies /\ r.kind \in Kinds
        /\ r.stage \in Stages \ {"none"} /\ r.stage # "mint"
    BY <1>2, LoginConstants DEF SessionCookies, Passwords, Kinds, Stages
  <1>5. QED
    BY <1>1, <1>2, <1>3, <1>4, PlainTakesUp

LEMMA AuthenticateTakesUp ==
    ASSUME LoginInv, NEW w \in Workers, AtLeisure(w), NEW kind \in Kinds, NEW pw,
           Authenticate(w, kind, pw)
    PROVE  TakesUp(w)
  <1>1. UNCHANGED <<cache, lastPw, lastCode>>
    BY DEF Authenticate
  <1>2. CASE \E sole \in BOOLEAN : Begin(w, [Writes(Failed(rec, sole)) EXCEPT !.wrong = TRUE])
    BY <1>1, <1>2, GuessTakesUp
  <1>3. CASE /\ pw = rec.pw
             /\ Begin(w, [NoRequest EXCEPT
                             !.stage = IF Cleared(rec) = rec THEN "enter" ELSE "clear",
                             !.kind = kind, !.new = Cleared(rec), !.cookie.pw = pw])
    <2>1. rec.pw \in Passwords
      BY InvTyped DEF LoginRows
    <2>2. QED
      BY <1>1, <1>3, <2>1, RightTakesUp
  <1>4. QED
    BY <1>2, <1>3 DEF Authenticate

LEMMA ChangePasswordTakesUp ==
    ASSUME LoginInv, NEW w \in Workers, AtLeisure(w), NEW s \in sessions, ChangePassword(w, s)
    PROVE  TakesUp(w)
  <1> DEFINE row == [rec EXCEPT !.pw = lastPw + 1, !.mustChange = FALSE]
             cookie == [s EXCEPT !.sv = rec.sv + 1, !.pw = lastPw + 1]
             r0 == [NoRequest EXCEPT !.stage = "mint", !.new = Bumped(row), !.cookie = cookie]
             r == [r0 EXCEPT !.seen = rec]
  <1>1. lastPw + 1 \in Passwords
    BY NewNumbers DEF AtLeisure
  <1>2. row \in LoginRows /\ SameCounter(row, rec) /\ SameFactors(row, rec) /\ row.sv = rec.sv
    <2>1. [rec EXCEPT !.pw = lastPw + 1] \in LoginRows
      BY <1>1, InvTyped DEF LoginRows
    <2>2. [[rec EXCEPT !.pw = lastPw + 1] EXCEPT !.mustChange = FALSE] \in LoginRows
      BY <2>1 DEF LoginRows
    <2>3. row = [[rec EXCEPT !.pw = lastPw + 1] EXCEPT !.mustChange = FALSE]
      BY InvTyped DEF LoginRows
    <2>4. QED
      BY <2>2, <2>3, InvTyped DEF LoginRows, SameCounter, SameFactors
  <1>3. s \in SessionCookies
    BY DEF LoginInv, LoginTypeOK
  <1>4. cookie \in SessionCookies /\ cookie.sv = rec.sv + 1 /\ cookie.second = s.second
    <2>1. /\ cookie = [x \in {"sv", "pw", "second"} |-> cookie[x]]
          /\ cookie.sv = rec.sv + 1 /\ cookie.pw = lastPw + 1 /\ cookie.second = s.second
          /\ s.second \in BOOLEAN
      BY <1>3 DEF SessionCookies
    <2>2. rec.sv + 1 \in Nat
      BY InvTyped
    <2> HIDE DEF cookie
    <2>3. QED
      BY <1>1, <2>1, <2>2, CookieTyped
  <1>5. Begin(w, r0) /\ s.sv = rec.sv /\ lastPw' = lastPw + 1 /\ lastCode' = lastCode
    BY DEF ChangePassword, Honoured
  <1>6. cache' \in [Workers -> [pw : Passwords, exp : Nat]]
    BY DroppedTyped DEF ChangePassword
  <1> DEFINE new == Bumped(row)
  <1>7. /\ new \in LoginRows /\ new.sv = rec.sv + 1
        /\ SameCounter(new, rec) /\ SameFactors(new, rec)
    BY <1>2, BumpedRow DEF SameCounter, SameFactors
  <1> HIDE DEF new, cookie
  <1>8. r0 = [NoRequest EXCEPT !.stage = "mint", !.new = new, !.cookie = cookie]
    BY DEF new
  <1>9. r = [x \in RequestFields |-> r[x]]
    BY <1>8 DEF NoRequest, RequestFields
  <1>10. /\ r.stage = "mint" /\ r.kind = "form" /\ r.seen = rec /\ r.new = new
         /\ r.cookie = cookie /\ r.factor = {}
         /\ r.wrong = FALSE /\ r.reread = FALSE /\ r.stale = FALSE
    BY <1>8 DEF NoRequest
  <1>11. r = [r0 EXCEPT !.seen = rec]
    OBVIOUS
  <1> HIDE DEF r, r0
  <1>12. ~ overlapped => (new.totp => cookie.second)
    BY <1>4, <1>5, <1>7 DEF LoginInv, SessionsStamped, SameFactors
  <1>13. /\ w \in LoginProcesses /\ r.stage \in Stages \ {"none"} /\ r.kind \in Kinds
         /\ lastPw' \in {lastPw, lastPw + 1}
    BY <1>5, <1>10 DEF LoginProcesses, Stages, Kinds
  <1>14. /\ r.stage = "mint" /\ ~ overlapped =>
               r.cookie.sv = r.new.sv /\ (r.new.totp => r.cookie.second)
    BY <1>4, <1>7, <1>10, <1>12
  <1>15. r.new \in LoginRows /\ r.cookie \in SessionCookies
    BY <1>4, <1>7, <1>10
  <1>16. /\ SameCounter(r.new, rec) \/ (r.new.fails = 0 /\ r.new.lockedUntil = 0)
         /\ SameFactors(r.new, rec) \/ (~ r.new.totp /\ r.new.codes = {})
         /\ r.new.sv \in {rec.sv, rec.sv + 1}
    BY <1>7, <1>10
  <1>17. QED
    BY <1>5, <1>6, <1>9, <1>10, <1>11, <1>13, <1>14, <1>15, <1>16, PlainTakesUp

LEMMA ResetPasswordTakesUp ==
    ASSUME LoginInv, NEW p \in LoginProcesses, AtLeisure(p), NEW gated \in BOOLEAN,
           ResetPasswordTo(p, gated)
    PROVE  TakesUp(p)
  <1> DEFINE row == [rec EXCEPT !.pw = lastPw + 1, !.mustChange = TRUE,
                                !.active = @ /\ ~ gated]
  <1>1. lastPw + 1 \in Passwords
    BY NewNumbers DEF AtLeisure
  <1>2. row \in LoginRows /\ SameFactors(row, rec) /\ row.sv = rec.sv
    <2>1. PICK active \in BOOLEAN :
              row = [rec EXCEPT !.pw = lastPw + 1, !.mustChange = TRUE, !.active = active]
      BY InvTyped DEF LoginRows
    <2>2. [rec EXCEPT !.pw = lastPw + 1] \in LoginRows
      BY <1>1, InvTyped DEF LoginRows
    <2>3. [[rec EXCEPT !.pw = lastPw + 1] EXCEPT !.mustChange = TRUE] \in LoginRows
      BY <2>2 DEF LoginRows
    <2>4. [[[rec EXCEPT !.pw = lastPw + 1] EXCEPT !.mustChange = TRUE] EXCEPT !.active = active]
              \in LoginRows
      BY <2>3 DEF LoginRows
    <2>5. row \in LoginRows
      BY <2>1, <2>4
    <2>6. row.totp = rec.totp /\ row.lastStep = rec.lastStep /\ row.codes = rec.codes
          /\ row.sv = rec.sv
      BY InvTyped DEF LoginRows
    <2>7. QED
      BY <2>5, <2>6 DEF SameFactors
  <1> DEFINE new == Bumped(Cleared(row))
  <1>3. /\ Cleared(row) \in LoginRows /\ Cleared(row).fails = 0 /\ Cleared(row).lockedUntil = 0
        /\ SameFactors(Cleared(row), row) /\ Cleared(row).sv = row.sv
    BY <1>2, ClearedRow
  <1>4. /\ new \in LoginRows /\ new.sv = rec.sv + 1 /\ new.fails = 0 /\ new.lockedUntil = 0
        /\ SameFactors(new, rec)
    BY <1>2, <1>3, BumpedRow DEF SameCounter, SameFactors
  <1>5. Begin(p, Writes(new)) /\ lastPw' = lastPw + 1 /\ lastCode' = lastCode
    BY DEF ResetPasswordTo
  <1>6. cache' \in [Workers -> [pw : Passwords, exp : Nat]]
    BY DroppedTyped DEF ResetPasswordTo
  <1> HIDE DEF new
  <1>7. QED
    BY <1>4, <1>5, <1>6, WriteTakesUp

LEMMA SwitchActiveTakesUp ==
    ASSUME LoginInv, NEW p \in LoginProcesses, AtLeisure(p), SwitchActive(p)
    PROVE  TakesUp(p)
  <1>1. /\ cache' \in [Workers -> [pw : Passwords, exp : Nat]]
        /\ lastPw' \in {lastPw, lastPw + 1} /\ lastCode' = lastCode
    BY InvTyped DEF SwitchActive
  <1>2. CASE rec.active
    <2> DEFINE new == [rec EXCEPT !.active = FALSE]
    <2>1. /\ new \in LoginRows /\ new.sv = rec.sv
          /\ SameCounter(new, rec) /\ SameFactors(new, rec)
      BY InvTyped DEF LoginRows, SameCounter, SameFactors
    <2>2. Begin(p, Writes(new))
      BY <1>2 DEF SwitchActive
    <2> HIDE DEF new
    <2>3. QED
      BY <1>1, <2>1, <2>2, WriteTakesUp
  <1>3. CASE ~ rec.active
    <2> DEFINE row == [rec EXCEPT !.active = TRUE]
               new == Cleared(row)
    <2>1. row \in LoginRows /\ row.sv = rec.sv /\ SameFactors(row, rec)
      BY InvTyped DEF LoginRows, SameFactors
    <2>2. /\ new \in LoginRows /\ new.sv = rec.sv /\ new.fails = 0 /\ new.lockedUntil = 0
          /\ SameFactors(new, rec)
      BY <2>1, ClearedRow DEF SameFactors
    <2>3. Begin(p, Writes(new))
      BY <1>3 DEF SwitchActive
    <2> HIDE DEF new
    <2>4. QED
      BY <1>1, <2>2, <2>3, WriteTakesUp
  <1>4. QED
    BY <1>2, <1>3

LEMMA UnlockTakesUp ==
    ASSUME LoginInv, AtLeisure(CommandLine), Unlock
    PROVE  TakesUp(CommandLine)
  <1> DEFINE new == Cleared(rec)
  <1>1. /\ new \in LoginRows /\ new.sv = rec.sv /\ new.fails = 0 /\ new.lockedUntil = 0
        /\ SameFactors(new, rec)
    BY InvTyped, ClearedRow
  <1>2. Begin(CommandLine, Writes(new)) /\ CommandLine \in LoginProcesses
    BY DEF Unlock, LoginProcesses
  <1>3. /\ cache' \in [Workers -> [pw : Passwords, exp : Nat]]
        /\ lastPw' \in {lastPw, lastPw + 1} /\ lastCode' = lastCode
    BY InvTyped DEF Unlock
  <1> HIDE DEF new
  <1>4. QED
    BY <1>1, <1>2, <1>3, WriteTakesUp

LEMMA ResetTotpTakesUp ==
    ASSUME LoginInv, NEW p \in LoginProcesses, AtLeisure(p), ResetTotp(p)
    PROVE  TakesUp(p)
  <1> DEFINE row == WithoutTotp(rec)
             new == Bumped(row)
  <1>1. /\ row \in LoginRows /\ row.totp = FALSE /\ row.codes = {}
        /\ row.sv = rec.sv /\ SameCounter(row, rec)
    BY InvTyped, WithoutTotpRow
  <1>2. /\ new \in LoginRows /\ new.sv = rec.sv + 1 /\ SameCounter(new, rec)
        /\ ~ new.totp /\ new.codes = {}
    BY <1>1, BumpedRow DEF SameCounter, SameFactors
  <1>3. Begin(p, Writes(new))
    BY DEF ResetTotp
  <1>4. /\ cache' \in [Workers -> [pw : Passwords, exp : Nat]]
        /\ lastPw' \in {lastPw, lastPw + 1} /\ lastCode' = lastCode
    BY InvTyped, DroppedTyped DEF ResetTotp
  <1> HIDE DEF new
  <1>5. QED
    BY <1>2, <1>3, <1>4, WriteTakesUp

LEMMA SecondFactorTakesUp ==
    ASSUME LoginInv, NEW w \in Workers, AtLeisure(w), NEW k \in pre, SecondFactor(w, k)
    PROVE  TakesUp(w)
  <1>1. UNCHANGED <<cache, lastPw, lastCode>> /\ rec.totp
    BY DEF SecondFactor
  <1>2. CASE \E sole \in BOOLEAN : Begin(w, [Writes(Failed(rec, sole)) EXCEPT !.wrong = TRUE])
    BY <1>1, <1>2, GuessTakesUp
  <1>3. ASSUME NEW x \in Factors(rec),
               Begin(w, [NoRequest EXCEPT
                            !.stage = "mint", !.new = Cleared(x.row), !.factor = x.f,
                            !.cookie = [sv |-> rec.sv, pw |-> k.pw, second |-> TRUE]])
        PROVE  TakesUp(w)
    <2> DEFINE cookie == [sv |-> rec.sv, pw |-> k.pw, second |-> TRUE]
               new == Cleared(x.row)
               r0 == [NoRequest EXCEPT !.stage = "mint", !.new = new, !.factor = x.f,
                                       !.cookie = cookie]
               r == [r0 EXCEPT !.seen = rec]
    <2>1. /\ x.row \in LoginRows /\ x.f \in SUBSET Shown
          /\ SameCounter(x.row, rec) /\ x.row.sv = rec.sv /\ x.row.totp = rec.totp
          /\ x.row.codes \subseteq 1..lastCode
          /\ \A c \in Nat : <<"recovery", c>> \in x.f => c <= lastCode
      BY FactorTyped
    <2>2. /\ new \in LoginRows /\ new.fails = 0 /\ new.lockedUntil = 0
          /\ SameFactors(new, x.row) /\ new.sv = x.row.sv
      BY <2>1, ClearedRow
    <2>3. k.pw \in Passwords
      BY DEF LoginInv, LoginTypeOK, PreCookies
    <2>4. cookie \in SessionCookies /\ cookie.sv = rec.sv /\ cookie.second = TRUE
      BY <2>3, InvTyped DEF SessionCookies
    <2>5. Begin(w, r0)
      BY <1>3
    <2> HIDE DEF new, cookie
    <2>6. r = [y \in RequestFields |-> r[y]]
      BY DEF NoRequest, RequestFields
    <2>7. /\ r.stage = "mint" /\ r.kind = "form" /\ r.seen = rec /\ r.new = new
          /\ r.cookie = cookie /\ r.factor = x.f
          /\ r.wrong = FALSE /\ r.reread = FALSE /\ r.stale = FALSE
      BY DEF NoRequest
    <2>8. r = [r0 EXCEPT !.seen = rec]
      OBVIOUS
    <2> HIDE DEF r, r0
    <2>9. /\ w \in LoginProcesses /\ r.stage \in Stages \ {"none"} /\ r.kind \in Kinds
          /\ r.new \in LoginRows /\ r.cookie \in SessionCookies
          /\ lastPw' \in {lastPw, lastPw + 1} /\ lastCode' \in {lastCode, lastCode + 1}
          /\ cache' \in [Workers -> [pw : Passwords, exp : Nat]]
      BY <1>1, <2>2, <2>4, <2>7, InvTyped DEF LoginProcesses, Stages, Kinds
    <2>10. \/ ~ r.new.totp /\ r.new.codes = {}
           \/ /\ r.new.totp /\ r.new.lastStep = x.row.lastStep
              /\ r.new.codes = x.row.codes \/ r.new.codes = {lastCode + 1}
      BY <1>1, <2>1, <2>2, <2>7 DEF SameFactors
    <2>11. /\ SameCounter(r.new, rec) \/ (r.new.fails = 0 /\ r.new.lockedUntil = 0)
           /\ r.new.sv \in {rec.sv, rec.sv + 1}
           /\ r.new.codes \subseteq 1..lastCode'
           /\ r.stage = "mint" => r.cookie.sv = r.new.sv /\ (r.new.totp => r.cookie.second)
      BY <1>1, <2>1, <2>2, <2>4, <2>7 DEF SameFactors
    <2>12. QED
      BY <1>1, <2>5, <2>6, <2>7, <2>8, <2>9, <2>10, <2>11, FactorTakesUp
  <1>4. QED
    BY <1>2, <1>3 DEF SecondFactor

LEMMA EnrolTakesUp ==
    ASSUME LoginInv, NEW w \in Workers, AtLeisure(w), NEW s \in sessions, Enrol(w, s)
    PROVE  TakesUp(w)
  <1>1. PICK x \in AcceptedSteps([rec EXCEPT !.lastStep = 0]) :
            Begin(w, [NoRequest EXCEPT !.stage = "mint", !.factor = {<<"totp", x>>},
                         !.new = Bumped([rec EXCEPT !.totp = TRUE, !.lastStep = x,
                                                    !.codes = {lastCode + 1}]),
                         !.cookie = [s EXCEPT !.sv = rec.sv + 1, !.second = TRUE]])
    BY DEF Enrol
  <1>2. x \in 0..(MaxClock + 1) /\ x \in Nat
    BY LoginConstants DEF AcceptedSteps, Steps
  <1>3. ~ rec.totp /\ lastPw' = lastPw /\ lastCode' = lastCode + 1
    BY DEF Enrol
  <1>4. cache' \in [Workers -> [pw : Passwords, exp : Nat]]
    BY DroppedTyped DEF Enrol
  <1> DEFINE row == [rec EXCEPT !.totp = TRUE, !.lastStep = x, !.codes = {lastCode + 1}]
             cookie == [s EXCEPT !.sv = rec.sv + 1, !.second = TRUE]
             new == Bumped(row)
             factor == {<<"totp", x>>}
             r0 == [NoRequest EXCEPT !.stage = "mint", !.factor = factor, !.new = new,
                                     !.cookie = cookie]
             r == [r0 EXCEPT !.seen = rec]
  <1>5. /\ row \in LoginRows /\ row.totp = TRUE /\ row.lastStep = x /\ row.codes = {lastCode + 1}
        /\ row.sv = rec.sv /\ SameCounter(row, rec)
    <2>1. {lastCode + 1} \in SUBSET RecoveryCodes
      BY NewNumbers DEF AtLeisure
    <2>2. [rec EXCEPT !.totp = TRUE] \in LoginRows
      BY InvTyped DEF LoginRows
    <2>3. [[rec EXCEPT !.totp = TRUE] EXCEPT !.lastStep = x] \in LoginRows
      BY <1>2, <2>2 DEF LoginRows
    <2>4. [[[rec EXCEPT !.totp = TRUE] EXCEPT !.lastStep = x] EXCEPT !.codes = {lastCode + 1}]
              \in LoginRows
      BY <2>1, <2>3 DEF LoginRows
    <2>5. row = [[[rec EXCEPT !.totp = TRUE] EXCEPT !.lastStep = x] EXCEPT
                    !.codes = {lastCode + 1}]
      BY InvTyped DEF LoginRows
    <2>6. row \in LoginRows
      BY <2>4, <2>5
    <2>7. row.totp = TRUE /\ row.lastStep = x /\ row.codes = {lastCode + 1} /\ row.sv = rec.sv
      BY InvTyped DEF LoginRows
    <2>8. SameCounter(row, rec)
      BY InvTyped DEF LoginRows, SameCounter
    <2>9. QED
      BY <2>6, <2>7, <2>8
  <1>6. cookie \in SessionCookies /\ cookie.sv = rec.sv + 1 /\ cookie.second
    <2>1. s \in SessionCookies
      BY DEF LoginInv, LoginTypeOK
    <2>2. /\ cookie = [y \in {"sv", "pw", "second"} |-> cookie[y]]
          /\ cookie.sv = rec.sv + 1 /\ cookie.pw = s.pw /\ cookie.second = TRUE
          /\ s.pw \in Passwords
      BY <2>1 DEF SessionCookies
    <2>3. rec.sv + 1 \in Nat
      BY InvTyped
    <2> HIDE DEF cookie
    <2>4. cookie.sv \in Nat /\ cookie.pw \in Passwords /\ cookie.second \in BOOLEAN
      BY <2>2, <2>3
    <2>5. cookie \in SessionCookies
      BY <2>2, <2>4, CookieTyped
    <2>6. QED
      BY <2>2, <2>5
  <1>7. /\ new \in LoginRows /\ new.sv = rec.sv + 1 /\ SameCounter(new, rec)
        /\ new.totp /\ new.lastStep = x /\ new.codes = {lastCode + 1}
    BY <1>5, BumpedRow DEF SameCounter, SameFactors
  <1>8. factor \in SUBSET Shown
    BY <1>2 DEF Shown
  <1>9. Begin(w, r0)
    BY <1>1
  <1> HIDE DEF new, cookie, factor
  <1>10. r = [y \in RequestFields |-> r[y]]
    BY DEF NoRequest, RequestFields
  <1>11. /\ r.stage = "mint" /\ r.kind = "form" /\ r.seen = rec /\ r.new = new
         /\ r.cookie = cookie /\ r.factor = factor
         /\ r.wrong = FALSE /\ r.reread = FALSE /\ r.stale = FALSE
    BY DEF NoRequest
  <1>12. r = [r0 EXCEPT !.seen = rec]
    OBVIOUS
  <1> HIDE DEF r, r0
  <1>13. ShowsFresh(r)
    BY <1>2, <1>3, <1>7, <1>11, FreshEnrolled DEF factor
  <1>14. StampsSession(r)
    BY <1>6, <1>7, <1>11 DEF StampsSession
  <1>15. CountsFailures(r) /\ r.new.fails < Threshold
    BY <1>7, <1>11, InvTyped DEF CountsFailures, SameCounter
  <1>16. /\ w \in LoginProcesses /\ r.stage \in Stages \ {"none"} /\ r.kind \in Kinds
         /\ r.new \in LoginRows /\ r.cookie \in SessionCookies /\ r.factor \in SUBSET Shown
    BY <1>6, <1>7, <1>8, <1>11 DEF LoginProcesses, Stages, Kinds
  <1>17. /\ r.new.codes \subseteq 1..lastCode'
         /\ \A c \in Nat : <<"recovery", c>> \in r.factor => c <= lastCode
         /\ lastPw' \in {lastPw, lastPw + 1} /\ lastCode' \in {lastCode, lastCode + 1}
    BY <1>3, <1>7, <1>11, InvTyped DEF factor
  <1>18. (r.wrong => w # CommandLine) /\ r.wrong \in BOOLEAN
    BY <1>11
  <1>19. ~ overlapped => ShowsFresh(r) /\ StampsSession(r)
    BY <1>13, <1>14
  <1>20. QED
    BY <1>4, <1>9, <1>10, <1>11, <1>12, <1>15, <1>16, <1>17, <1>18, <1>19, TookUp

LEMMA DisableTotpTakesUp ==
    ASSUME LoginInv, NEW w \in Workers, AtLeisure(w), NEW s \in sessions, DisableTotp(w, s)
    PROVE  TakesUp(w)
  <1>1. PICK x \in Factors(rec) :
            Begin(w, [NoRequest EXCEPT !.stage = "mint", !.factor = x.f,
                         !.new = Bumped(WithoutTotp(x.row)),
                         !.cookie = [s EXCEPT !.sv = rec.sv + 1]])
    BY DEF DisableTotp
  <1>2. /\ rec.totp
        /\ lastPw' \in {lastPw, lastPw + 1} /\ lastCode' \in {lastCode, lastCode + 1}
    BY DEF DisableTotp
  <1>3. cache' \in [Workers -> [pw : Passwords, exp : Nat]]
    BY DroppedTyped DEF DisableTotp
  <1> DEFINE row == WithoutTotp(x.row)
             cookie == [s EXCEPT !.sv = rec.sv + 1]
             new == Bumped(row)
             r0 == [NoRequest EXCEPT !.stage = "mint", !.factor = x.f, !.new = new,
                                     !.cookie = cookie]
             r == [r0 EXCEPT !.seen = rec]
  <1>4. /\ x.row \in LoginRows /\ SameCounter(x.row, rec) /\ x.row.sv = rec.sv
    BY FactorTyped
  <1>5. /\ row \in LoginRows /\ row.totp = FALSE /\ row.codes = {}
        /\ row.sv = x.row.sv /\ SameCounter(row, x.row)
    BY <1>4, WithoutTotpRow
  <1>6. /\ new \in LoginRows /\ new.sv = rec.sv + 1 /\ SameCounter(new, rec)
        /\ ~ new.totp /\ new.codes = {}
    BY <1>4, <1>5, BumpedRow DEF SameCounter, SameFactors
  <1>7. cookie \in SessionCookies /\ cookie.sv = rec.sv + 1
    <2>1. s \in SessionCookies
      BY DEF LoginInv, LoginTypeOK
    <2>2. rec.sv + 1 \in Nat
      BY InvTyped
    <2>3. QED
      BY <2>1, <2>2 DEF SessionCookies
  <1>8. Begin(w, r0)
    BY <1>1
  <1> HIDE DEF new, cookie
  <1>9. r = [y \in RequestFields |-> r[y]]
    BY DEF NoRequest, RequestFields
  <1>10. /\ r.stage = "mint" /\ r.kind = "form" /\ r.seen = rec /\ r.new = new
         /\ r.cookie = cookie /\ r.factor = x.f
         /\ r.wrong = FALSE /\ r.reread = FALSE /\ r.stale = FALSE
    BY DEF NoRequest
  <1>11. r = [r0 EXCEPT !.seen = rec]
    OBVIOUS
  <1> HIDE DEF r, r0
  <1>12. /\ w \in LoginProcesses /\ r.stage \in Stages \ {"none"} /\ r.kind \in Kinds
         /\ r.new \in LoginRows /\ r.cookie \in SessionCookies
    BY <1>6, <1>7, <1>10 DEF LoginProcesses, Stages, Kinds
  <1>13. \/ ~ r.new.totp /\ r.new.codes = {}
         \/ /\ r.new.totp /\ r.new.lastStep = x.row.lastStep
            /\ r.new.codes = x.row.codes \/ r.new.codes = {lastCode + 1}
    BY <1>6, <1>10
  <1>14. /\ SameCounter(r.new, rec) \/ (r.new.fails = 0 /\ r.new.lockedUntil = 0)
         /\ r.new.sv \in {rec.sv, rec.sv + 1}
         /\ r.new.codes \subseteq 1..lastCode'
         /\ r.stage = "mint" => r.cookie.sv = r.new.sv /\ (r.new.totp => r.cookie.second)
    BY <1>6, <1>7, <1>10
  <1>15. QED
    BY <1>2, <1>3, <1>8, <1>9, <1>10, <1>11, <1>12, <1>13, <1>14, FactorTakesUp

LEMMA RegenerateTakesUp ==
    ASSUME LoginInv, NEW w \in Workers, AtLeisure(w), NEW s \in sessions, RegenerateCodes(w, s)
    PROVE  TakesUp(w)
  <1>1. PICK x \in Factors(rec) :
            Begin(w, [Writes([x.row EXCEPT !.codes = {lastCode + 1}]) EXCEPT !.factor = x.f])
    BY DEF RegenerateCodes
  <1>2. rec.totp /\ lastPw' = lastPw /\ lastCode' = lastCode + 1 /\ cache' = cache
    BY DEF RegenerateCodes
  <1> DEFINE new == [x.row EXCEPT !.codes = {lastCode + 1}]
             r0 == [Writes(new) EXCEPT !.factor = x.f]
             r == [r0 EXCEPT !.seen = rec]
  <1>3. /\ x.row \in LoginRows /\ SameCounter(x.row, rec) /\ x.row.sv = rec.sv
        /\ x.row.totp = rec.totp
    BY FactorTyped
  <1>4. {lastCode + 1} \in SUBSET RecoveryCodes
    BY NewNumbers DEF AtLeisure
  <1>5. /\ new \in LoginRows /\ new.codes = {lastCode + 1} /\ new.totp = x.row.totp
        /\ new.lastStep = x.row.lastStep /\ new.sv = x.row.sv
        /\ new.fails = x.row.fails /\ new.lockedUntil = x.row.lockedUntil
    BY <1>3, <1>4 DEF LoginRows
  <1>6. Begin(w, r0)
    BY <1>1
  <1> HIDE DEF new
  <1>7. r = [y \in RequestFields |-> r[y]]
    BY DEF Writes, NoRequest, RequestFields
  <1>8. /\ r.stage = "write" /\ r.kind = "form" /\ r.seen = rec /\ r.new = new
        /\ r.cookie = [sv |-> 0, pw |-> 0, second |-> FALSE] /\ r.factor = x.f
        /\ r.wrong = FALSE /\ r.reread = FALSE /\ r.stale = FALSE
    BY DEF Writes, NoRequest
  <1>9. r = [r0 EXCEPT !.seen = rec]
    OBVIOUS
  <1> HIDE DEF r, r0
  <1>10. /\ w \in LoginProcesses /\ r.stage \in Stages \ {"none"} /\ r.kind \in Kinds
         /\ r.new \in LoginRows /\ r.cookie \in SessionCookies
    BY <1>5, <1>8, LoginConstants
    DEF LoginProcesses, Stages, Kinds, SessionCookies, Passwords
  <1>11. \/ ~ r.new.totp /\ r.new.codes = {}
         \/ /\ r.new.totp /\ r.new.lastStep = x.row.lastStep
            /\ r.new.codes = x.row.codes \/ r.new.codes = {lastCode + 1}
    BY <1>2, <1>3, <1>5, <1>8
  <1>12. /\ SameCounter(r.new, rec) \/ (r.new.fails = 0 /\ r.new.lockedUntil = 0)
         /\ r.new.sv \in {rec.sv, rec.sv + 1}
         /\ r.new.codes \subseteq 1..lastCode'
         /\ r.stage = "mint" => r.cookie.sv = r.new.sv /\ (r.new.totp => r.cookie.second)
    BY <1>2, <1>3, <1>5, <1>8, InvTyped DEF SameCounter
  <1>13. /\ cache' \in [Workers -> [pw : Passwords, exp : Nat]]
         /\ lastPw' \in {lastPw, lastPw + 1} /\ lastCode' \in {lastCode, lastCode + 1}
    BY <1>2, InvTyped
  <1>14. QED
    BY <1>2, <1>6, <1>7, <1>8, <1>9, <1>10, <1>11, <1>12, <1>13, FactorTakesUp

\* A request of LoginNext is one that is taken up.
LEMMA WebRequestTakesUp ==
    ASSUME LoginInv, NEW w \in Workers, AtLeisure(w), WebRequest(w)
    PROVE  TakesUp(w)
  <1>1. w \in LoginProcesses
    BY DEF LoginProcesses
  <1>2. ASSUME NEW pw, FormLogin(w, pw) \/ BasicLogin(w, pw)
        PROVE  TakesUp(w)
    BY <1>2, AuthenticateTakesUp DEF FormLogin, BasicLogin, Kinds
  <1>3. ASSUME NEW k \in pre, SecondFactor(w, k)
        PROVE  TakesUp(w)
    BY <1>3, SecondFactorTakesUp
  <1>4. ASSUME NEW s \in sessions,
               ChangePassword(w, s) \/ Enrol(w, s) \/ DisableTotp(w, s) \/ RegenerateCodes(w, s)
        PROVE  TakesUp(w)
    BY <1>4, ChangePasswordTakesUp, EnrolTakesUp, DisableTotpTakesUp, RegenerateTakesUp
  <1>5. ASSUME SwitchActive(w) PROVE TakesUp(w)
    BY <1>1, <1>5, SwitchActiveTakesUp
  <1>6. ASSUME NEW gated \in BOOLEAN, ResetPasswordTo(w, gated) PROVE TakesUp(w)
    BY <1>1, <1>6, ResetPasswordTakesUp
  <1>7. ASSUME ResetTotp(w) PROVE TakesUp(w)
    BY <1>1, <1>7, ResetTotpTakesUp
  <1>8. QED
    BY <1>2, <1>3, <1>4, <1>5, <1>6, <1>7 DEF WebRequest

LEMMA CommandTakesUp ==
    ASSUME LoginInv, AtLeisure(CommandLine), Command
    PROVE  TakesUp(CommandLine)
  <1>1. CommandLine \in LoginProcesses /\ FALSE \in BOOLEAN
    BY DEF LoginProcesses
  <1>2. CASE Unlock
    BY <1>2, UnlockTakesUp
  <1>3. CASE ShellResetPassword
    BY <1>1, <1>3, ResetPasswordTakesUp DEF ShellResetPassword
  <1>4. CASE ShellResetTotp
    BY <1>1, <1>4, ResetTotpTakesUp DEF ShellResetTotp
  <1>5. QED
    BY <1>2, <1>3, <1>4 DEF Command

(* The steps *)

\* What InForce says of one request.
Current(q) ==
    /\ req[q].stage \in {"write", "clear", "mint"} /\ ~ req[q].stale =>
           req[q].seen = rec /\ ShowsFresh(req[q]) /\ StampsSession(req[q])
    /\ req[q].stage \in {"clear", "enter"} => Former(req[q].seen)

LEMMA InForceIs == InForce <=> \A q \in LoginProcesses : Current(q)
  BY DEF InForce, Current

LEMMA TypedBy ==
    ASSUME LoginInv, rec' \in LoginRows, clock' \in 1..MaxClock, sessions' \subseteq SessionCookies,
           pre' \subseteq PreCookies, cache' \in [Workers -> [pw : Passwords, exp : Nat]],
           req' \in [LoginProcesses -> LoginRequests], logins' \in 0..MaxLogins,
           lastPw' \in 0..MaxLogins, lastCode' \in 0..MaxLogins, used' \subseteq Shown,
           replayed' \in BOOLEAN, guesses' \in Nat, overlapped' \in BOOLEAN
    PROVE  LoginTypeOK'
  <1>1. /\ req' \in [Workers \union {CommandLine} ->
                   [stage : Stages, kind : Kinds, seen : LoginRows, new : LoginRows,
                    cookie : SessionCookies, factor : SUBSET ({"totp", "recovery"} \X Nat),
                    wrong : BOOLEAN, reread : BOOLEAN, stale : BOOLEAN]]
    BY DEF LoginProcesses, LoginRequests, Shown
  <1>2. used' \subseteq {"totp", "recovery"} \X Nat /\ lastPw' \in Passwords
    BY DEF Shown, Passwords
  <1>3. QED
    BY <1>1, <1>2 DEF LoginTypeOK

LEMMA TakesUpKeepsLogin ==
    ASSUME LoginInv, NEW p \in LoginProcesses, TakesUp(p)
    PROVE  LoginInv'
  <1>1. PICK r \in LoginRequests :
            /\ TakenWell(r)
            /\ r.new.codes \subseteq 1..lastCode'
            /\ req' = [req EXCEPT ![p] = r]
            /\ logins < MaxLogins /\ logins' = logins + 1
            /\ lastPw' \in {lastPw, lastPw + 1} /\ lastCode' \in {lastCode, lastCode + 1}
            /\ cache' \in [Workers -> [pw : Passwords, exp : Nat]]
            /\ UNCHANGED <<rec, clock, sessions, pre, used, replayed, guesses, overlapped>>
    BY DEF TakesUp
  <1>2. req' \in [LoginProcesses -> LoginRequests]
    BY <1>1, InvTyped
  <1>3. \A q \in LoginProcesses : req'[q] = IF q = p THEN r ELSE req[q]
    BY <1>1, InvTyped
  <1>4. /\ r.seen = rec /\ ~ r.reread /\ ~ r.stale /\ r.stage # "none"
        /\ r.new.fails < Threshold
        /\ CountsFailures(r)
        /\ \A c \in Nat : <<"recovery", c>> \in r.factor => c <= lastCode
        /\ ~ overlapped => ShowsFresh(r) /\ StampsSession(r)
    BY <1>1 DEF TakenWell
  <1>5. /\ lastCode \in Nat /\ lastCode <= lastCode' /\ lastCode' \in Nat /\ lastCode' <= logins'
        /\ lastPw' \in Nat /\ lastPw' <= logins' /\ logins' \in 0..MaxLogins
    BY <1>1, InvTyped, LoginConstants
  <1>6. LoginTypeOK'
    <2>1. /\ sessions \subseteq SessionCookies /\ pre \subseteq PreCookies /\ used \subseteq Shown
          /\ replayed \in BOOLEAN /\ guesses \in Nat /\ overlapped \in BOOLEAN
      BY DEF LoginInv, LoginTypeOK, Shown
    <2>2. lastPw' \in 0..MaxLogins /\ lastCode' \in 0..MaxLogins
      BY <1>5, LoginConstants
    <2>3. QED
      BY <1>1, <1>2, <1>5, <2>1, <2>2, InvTyped, TypedBy
  <1>7. Counted'
    <2>1. \A q \in LoginProcesses : req[q].new.fails < Threshold /\ req[q].seen.fails < Threshold
      BY DEF LoginInv, Counted
    <2>2. QED
      BY <1>1, <1>3, <1>4, <1>5, <2>1, InvTyped DEF Counted
  <1>8. FailuresCounted'
    <2>1. \A q \in LoginProcesses : req[q].stage # "none" => CountsFailures(req[q])
      BY DEF LoginInv, FailuresCounted
    <2>2. SUFFICES ASSUME NEW q \in LoginProcesses, req'[q].stage # "none"
                   PROVE  CountsFailures(req'[q])
      BY DEF FailuresCounted, CountsFailures
    <2>3. QED
      BY <1>3, <1>4, <2>1, <2>2
  <1>9. CodesIssued'
    <2>1. CodesIssued /\ \A c \in Nat : c <= lastCode => c <= lastCode'
      BY <1>5 DEF LoginInv
    <2>2. ASSUME NEW S, S \subseteq 1..lastCode PROVE S \subseteq 1..lastCode'
      BY <1>5, <2>2
    <2>3. rec'.codes \subseteq 1..lastCode'
      BY <1>1, <2>1, <2>2 DEF CodesIssued
    <2>4. \A c \in Nat : <<"recovery", c>> \in used' => c <= lastCode'
      BY <1>1, <2>1 DEF CodesIssued
    <2>5. ASSUME NEW q \in LoginProcesses
          PROVE  /\ req'[q].seen.codes \union req'[q].new.codes \subseteq 1..lastCode'
                 /\ \A c \in Nat : <<"recovery", c>> \in req'[q].factor => c <= lastCode'
      <3>1. CASE q = p
        <4>1. req'[q] = r /\ r.seen.codes \subseteq 1..lastCode'
          BY <3>1, <1>1, <1>3, <1>4, <2>3
        <4>2. QED
          BY <4>1, <1>1, <1>4, <2>1
      <3>2. CASE q # p
        <4>1. /\ req'[q] = req[q]
              /\ req[q].seen.codes \union req[q].new.codes \subseteq 1..lastCode
              /\ \A c \in Nat : <<"recovery", c>> \in req[q].factor => c <= lastCode
          BY <3>2, <1>3, <2>1 DEF CodesIssued
        <4>2. QED
          BY <4>1, <2>1, <2>2
      <3>3. QED
        BY <3>1, <3>2
    <2>6. QED
      BY <2>3, <2>4, <2>5 DEF CodesIssued
  <1>10. ASSUME ~ overlapped' PROVE InForce' /\ SessionsStamped'
    <2>1. InForce /\ SessionsStamped /\ ~ overlapped
      BY <1>1, <1>10 DEF LoginInv
    <2>2. ASSUME NEW q \in LoginProcesses PROVE Current(q)'
      <3>1. CASE q = p
        <4>1. req'[q] = r /\ ShowsFresh(r) /\ StampsSession(r)
          BY <3>1, <1>3, <1>4, <2>1
        <4>2. Former(rec)
          BY InvTyped DEF Former
        <4>3. QED
          BY <1>1, <1>4, <4>1, <4>2
          DEF Current, ShowsFresh, UsedAfter, StampsSession, Former
      <3>2. CASE q # p
        <4>1. req'[q] = req[q] /\ Current(q)
          BY <3>2, <1>3, <2>1, InForceIs
        <4>2. QED
          BY <1>1, <4>1 DEF Current, ShowsFresh, UsedAfter, StampsSession, Former
      <3>3. QED
        BY <3>1, <3>2
    <2>3. InForce'
      BY <2>2 DEF InForce, Current
    <2>4. SessionsStamped'
      BY <1>1, <2>1 DEF SessionsStamped
    <2>5. QED
      BY <2>3, <2>4
  <1>11. ASSUME ~ overlapped'
         PROVE  Spent(rec', used') /\ ~ replayed' /\ (Threshold > 1 => guesses' <= rec'.fails)
    BY <1>1, <1>11 DEF LoginInv
  <1>12. (~ overlapped =>
             /\ InForce /\ SessionsStamped
             /\ Spent(rec, used) /\ ~ replayed
             /\ Threshold > 1 => guesses <= rec.fails)'
    <2>1. Spent(rec, used)' <=> Spent(rec', used')
      BY DEF Spent
    <2>2. QED
      BY <1>10, <1>11, <2>1
  <1>13. QED
    BY <1>6, <1>7, <1>8, <1>9, <1>12 DEF LoginInv

LEMMA UnchangedKeepsLogin ==
    ASSUME LoginInv, clock' \in 1..MaxClock,
           UNCHANGED <<rec, sessions, pre, cache, req, logins, lastPw, lastCode, used, replayed,
                       guesses, overlapped>>
    PROVE  LoginInv'
  <1>1. LoginTypeOK'
    BY DEF LoginInv, LoginTypeOK
  <1>2. Counted' /\ FailuresCounted' /\ CodesIssued'
    BY DEF LoginInv, Counted, FailuresCounted, CountsFailures, CodesIssued
  <1>3. Spent(rec, used)' <=> Spent(rec, used)
    BY DEF Spent
  <1>4. SessionsStamped' <=> SessionsStamped
    BY DEF SessionsStamped
  <1>5. ASSUME InForce PROVE InForce'
    <2>1. ASSUME NEW q \in LoginProcesses PROVE Current(q)'
      <3>1. Current(q)
        BY <1>5, InForceIs
      <3>2. QED
        BY <3>1 DEF Current, ShowsFresh, UsedAfter, StampsSession, Former
    <2>2. QED
      BY <2>1 DEF InForce, Current
  <1>6. QED
    BY <1>1, <1>2, <1>3, <1>4, <1>5 DEF LoginInv

LEMMA EnterKeepsLogin ==
    ASSUME LoginInv, NEW w \in Workers, Enter(w)
    PROVE  LoginInv'
  <1> DEFINE r == req[w]
             row == IF r.reread THEN rec ELSE r.seen
             s == [sv |-> row.sv, pw |-> r.cookie.pw, second |-> FALSE]
             k == [exp |-> clock + CookieTime, pw |-> r.cookie.pw]
  <1>1. w \in LoginProcesses /\ r \in LoginRequests /\ r.stage = "enter"
    BY InvTyped DEF LoginProcesses, Enter
  <1>2. /\ r.seen \in LoginRows /\ rec \in LoginRows /\ r.cookie.pw \in Passwords
        /\ row \in LoginRows /\ row.sv \in Nat
    BY <1>1, InvTyped DEF LoginRequests, LoginRows, SessionCookies
  <1>3. s \in SessionCookies /\ k \in PreCookies
    BY <1>2, InvTyped, LoginConstants DEF SessionCookies, PreCookies
  <1>4. /\ req' = [req EXCEPT ![w] = NoRequest]
        /\ UNCHANGED <<rec, clock, logins, lastPw, lastCode, used, replayed, guesses, overlapped>>
    BY DEF Enter
  <1>5. /\ sessions' \subseteq sessions \union {s}
        /\ s \in sessions' /\ s \notin sessions => ~ row.totp
    BY DEF Enter
  <1>6. pre' \subseteq pre \union {k}
    BY DEF Enter
  <1>7. cache' \in [Workers -> [pw : Passwords, exp : Nat]]
    BY <1>2, InvTyped, LoginConstants DEF Enter, Put
  <1>8. req' \in [LoginProcesses -> LoginRequests]
    BY <1>4, InvTyped, FreshTyped
  <1>9. \A q \in LoginProcesses : req'[q] = IF q = w THEN NoRequest ELSE req[q]
    BY <1>4, InvTyped
  <1>10. LoginTypeOK'
    <2>1. /\ sessions \subseteq SessionCookies /\ pre \subseteq PreCookies /\ used \subseteq Shown
          /\ replayed \in BOOLEAN /\ guesses \in Nat /\ overlapped \in BOOLEAN
          /\ logins \in 0..MaxLogins /\ lastPw \in 0..MaxLogins /\ lastCode \in 0..MaxLogins
      BY DEF LoginInv, LoginTypeOK, Shown, Passwords
    <2> HIDE DEF s, k
    <2>2. sessions' \subseteq SessionCookies /\ pre' \subseteq PreCookies
      BY <1>3, <1>5, <1>6, <2>1
    <2>3. QED
      BY <1>4, <1>7, <1>8, <2>1, <2>2, InvTyped, TypedBy
  <1>11. /\ NoRequest.stage = "none" /\ NoRequest.seen = FreshRow /\ NoRequest.new = FreshRow
         /\ NoRequest.factor = {} /\ FreshRow.fails = 0 /\ FreshRow.codes = {}
    BY DEF NoRequest, FreshRow
  <1>12. Counted'
    BY <1>4, <1>9, <1>11, LoginConstants DEF LoginInv, Counted
  <1>13. FailuresCounted'
    <2>1. SUFFICES ASSUME NEW q \in LoginProcesses, req'[q].stage # "none"
                   PROVE  CountsFailures(req'[q])
      BY DEF FailuresCounted, CountsFailures
    <2>2. QED
      BY <1>9, <1>11, <2>1 DEF LoginInv, FailuresCounted
  <1>14. CodesIssued'
    BY <1>4, <1>9, <1>11 DEF LoginInv, CodesIssued
  <1>15. ASSUME ~ overlapped' PROVE InForce' /\ SessionsStamped'
    <2>1. InForce /\ SessionsStamped
      BY <1>4, <1>15 DEF LoginInv
    <2>2. ASSUME NEW q \in LoginProcesses PROVE Current(q)'
      <3>1. CASE q = w
        BY <3>1, <1>9, <1>11 DEF Current
      <3>2. CASE q # w
        <4>1. req'[q] = req[q] /\ Current(q)
          BY <3>2, <1>9, <2>1, InForceIs
        <4>2. QED
          BY <1>4, <4>1 DEF Current, ShowsFresh, UsedAfter, StampsSession, Former
      <3>3. QED
        BY <3>1, <3>2
    <2>3. InForce'
      BY <2>2 DEF InForce, Current
    <2>4. Former(row)
      <3>1. Former(r.seen)
        BY <1>1, <2>1 DEF InForce
      <3>2. Former(rec)
        BY InvTyped DEF Former
      <3>3. QED
        BY <3>1, <3>2
    <2>5. ASSUME NEW t \in sessions'
          PROVE  t.sv <= rec.sv /\ (t.sv = rec.sv /\ rec.totp => t.second)
      <3>1. CASE t \in sessions
        BY <3>1, <2>1 DEF SessionsStamped
      <3>2. CASE t = s /\ s \notin sessions
        <4>1. ~ row.totp /\ s.sv = row.sv
          BY <1>5, <2>5, <3>2
        <4>2. QED
          BY <2>4, <3>2, <4>1 DEF Former
      <3>3. QED
        BY <1>5, <2>5, <3>1, <3>2
    <2>6. SessionsStamped'
      BY <1>4, <2>5 DEF SessionsStamped
    <2>7. QED
      BY <2>3, <2>6
  <1>16. ASSUME ~ overlapped'
         PROVE  Spent(rec', used') /\ ~ replayed' /\ (Threshold > 1 => guesses' <= rec'.fails)
    BY <1>4, <1>16 DEF LoginInv
  <1>17. (~ overlapped =>
             /\ InForce /\ SessionsStamped
             /\ Spent(rec, used) /\ ~ replayed
             /\ Threshold > 1 => guesses <= rec.fails)'
    <2>1. Spent(rec, used)' <=> Spent(rec', used')
      BY DEF Spent
    <2>2. QED
      BY <1>15, <1>16, <2>1
  <1>18. QED
    BY <1>10, <1>12, <1>13, <1>14, <1>17 DEF LoginInv

LEMMA ColumnsTyped ==
    ASSUME NEW row, row = [c \in RowColumns |-> row[c]], row.pw \in Passwords,
           row.mustChange \in BOOLEAN, row.active \in BOOLEAN, row.fails \in Nat,
           row.lockedUntil \in Nat, row.sv \in Nat, row.totp \in BOOLEAN,
           row.lastStep \in 0..(MaxClock + 1), row.codes \in SUBSET RecoveryCodes
    PROVE  row \in LoginRows
  BY DEF LoginRows, RowColumns

LEMMA RowIs ==
    ASSUME NEW row \in LoginRows
    PROVE  /\ row = [c \in RowColumns |-> row[c]]
           /\ row.pw \in Passwords /\ row.mustChange \in BOOLEAN /\ row.active \in BOOLEAN
           /\ row.fails \in Nat /\ row.lockedUntil \in Nat /\ row.sv \in Nat
           /\ row.totp \in BOOLEAN /\ row.lastStep \in 0..(MaxClock + 1)
           /\ row.codes \in SUBSET RecoveryCodes
  BY DEF LoginRows, RowColumns

\* The columns of one row written over another.
LEMMA OverwrittenTyped ==
    ASSUME NEW new \in LoginRows, NEW seen \in LoginRows, NEW old \in LoginRows, NEW row,
           row = [c \in RowColumns |-> IF new[c] # seen[c] THEN new[c] ELSE old[c]]
    PROVE  row \in LoginRows
  <1>1. /\ row.pw \in {new.pw, old.pw} /\ row.mustChange \in {new.mustChange, old.mustChange}
        /\ row.active \in {new.active, old.active} /\ row.fails \in {new.fails, old.fails}
        /\ row.lockedUntil \in {new.lockedUntil, old.lockedUntil} /\ row.sv \in {new.sv, old.sv}
        /\ row.totp \in {new.totp, old.totp} /\ row.lastStep \in {new.lastStep, old.lastStep}
        /\ row.codes \in {new.codes, old.codes}
    BY DEF RowColumns
  <1>2. row = [c \in RowColumns |-> row[c]]
    OBVIOUS
  <1>3. row.pw \in Passwords
    BY <1>1, RowIs
  <1>4. row.mustChange \in BOOLEAN
    BY <1>1, RowIs
  <1>5. row.active \in BOOLEAN
    BY <1>1, RowIs
  <1>6. row.totp \in BOOLEAN
    BY <1>1, RowIs
  <1>7. row.fails \in Nat /\ row.lockedUntil \in Nat /\ row.sv \in Nat
    BY <1>1, RowIs
  <1>8. row.lastStep \in 0..(MaxClock + 1) /\ row.codes \in SUBSET RecoveryCodes
    BY <1>1, RowIs
  <1>9. QED
    BY <1>2, <1>3, <1>4, <1>5, <1>6, <1>7, <1>8, ColumnsTyped

\* What a commit does, told of the request that commits.
LEMMA CommitIs ==
    ASSUME LoginInv, NEW p \in LoginProcesses, CommitLogin(p), NEW r, r = req[p]
    PROVE  /\ r \in LoginRequests /\ r.stage \in {"write", "clear", "mint"}
           /\ r.new \in LoginRows /\ r.seen \in LoginRows /\ rec' \in LoginRows
           /\ rec'.fails = IF r.new.fails # r.seen.fails THEN r.new.fails ELSE rec.fails
           /\ rec'.codes \in {r.new.codes, rec.codes}
           /\ r.seen = rec => rec' = r.new
           /\ req' \in [LoginProcesses -> LoginRequests]
           /\ req'[p] = IF r.stage = "clear" THEN [r EXCEPT !.stage = "enter", !.reread = TRUE]
                                             ELSE NoRequest
           /\ \A q \in LoginProcesses : q # p =>
                  req'[q] = IF req[q] = NoRequest \/ rec' = rec THEN req[q]
                            ELSE [req[q] EXCEPT !.stale = TRUE]
           /\ sessions' = sessions \union {s \in {r.cookie} : r.stage = "mint"}
           /\ used' = UsedAfter(r)
           /\ replayed' = (replayed \/ (~ (r.new.totp /\ ~ r.seen.totp)
                                        /\ used \intersect r.factor # {}))
           /\ guesses' = IF /\ \/ r.new.fails # r.seen.fails
                               \/ r.new.lockedUntil # r.seen.lockedUntil
                            /\ r.new.fails = 0
                         THEN 0 ELSE IF r.wrong THEN guesses + 1 ELSE guesses
           /\ overlapped' = (overlapped \/ r.stale)
           /\ UNCHANGED <<clock, pre, cache, logins, lastPw, lastCode>>
  <1> DEFINE changed == {c \in RowColumns : r.new[c] # r.seen[c]}
             enrols == "totp" \in changed /\ r.new.totp
  <1>1. /\ r.stage \in {"write", "clear", "mint"}
        /\ rec' = [c \in RowColumns |-> IF c \in changed THEN r.new[c] ELSE rec[c]]
        /\ req' = [q \in Workers \union {CommandLine} |->
                     IF q = p
                     THEN IF r.stage = "clear" THEN [r EXCEPT !.stage = "enter", !.reread = TRUE]
                                               ELSE NoRequest
                     ELSE IF req[q] = NoRequest \/ rec' = rec THEN req[q]
                     ELSE [req[q] EXCEPT !.stale = TRUE]]
        /\ sessions' = sessions \union {s \in {r.cookie} : r.stage = "mint"}
        /\ used' = IF "totp" \in changed THEN r.factor ELSE used \union r.factor
        /\ replayed' = (replayed \/ (~ enrols /\ used \intersect r.factor # {}))
        /\ guesses' = IF CountsAnew(p) THEN 0 ELSE IF r.wrong THEN guesses + 1 ELSE guesses
        /\ overlapped' = (overlapped \/ r.stale)
        /\ UNCHANGED <<clock, pre, cache, logins, lastPw, lastCode>>
    BY DEF CommitLogin
  <1>2. r \in LoginRequests /\ rec \in LoginRows
    BY InvTyped
  <1>3. r.new \in LoginRows /\ r.seen \in LoginRows
    BY <1>2 DEF LoginRequests
  <1>4. rec' = [c \in RowColumns |-> IF r.new[c] # r.seen[c] THEN r.new[c] ELSE rec[c]]
    BY <1>1
  <1>5. rec' \in LoginRows
    BY <1>2, <1>3, <1>4, OverwrittenTyped
  <1>6. /\ rec'.fails = IF r.new.fails # r.seen.fails THEN r.new.fails ELSE rec.fails
        /\ rec'.codes \in {r.new.codes, rec.codes}
    BY <1>4 DEF RowColumns
  <1>7. r.seen = rec => rec' = r.new
    BY <1>3, <1>4, RowIs
  <1>8. [r EXCEPT !.stage = "enter", !.reread = TRUE] \in LoginRequests
    <2>1. [r EXCEPT !.stage = "enter"] \in LoginRequests
      BY <1>2 DEF LoginRequests, Stages
    <2>2. [[r EXCEPT !.stage = "enter"] EXCEPT !.reread = TRUE] \in LoginRequests
      BY <2>1 DEF LoginRequests
    <2>3. QED
      BY <2>2
  <1>9. req' \in [LoginProcesses -> LoginRequests]
    <2>1. ASSUME NEW q \in LoginProcesses PROVE req'[q] \in LoginRequests
      <3>1. req[q] \in LoginRequests
        BY InvTyped
      <3>2. [req[q] EXCEPT !.stale = TRUE] \in LoginRequests
        BY <3>1 DEF LoginRequests
      <3>3. QED
        BY <1>1, <1>8, <3>1, <3>2, FreshTyped DEF LoginProcesses
    <2>2. QED
      BY <1>1, <2>1 DEF LoginProcesses
  <1>10. /\ req'[p] = IF r.stage = "clear" THEN [r EXCEPT !.stage = "enter", !.reread = TRUE]
                                          ELSE NoRequest
         /\ \A q \in LoginProcesses : q # p =>
                req'[q] = IF req[q] = NoRequest \/ rec' = rec THEN req[q]
                          ELSE [req[q] EXCEPT !.stale = TRUE]
    BY <1>1 DEF LoginProcesses
  <1>11. "totp" \in changed <=> r.new.totp # r.seen.totp
    BY DEF RowColumns
  <1>12. used' = UsedAfter(r)
    BY <1>1, <1>11 DEF UsedAfter
  <1>13. enrols <=> r.new.totp /\ ~ r.seen.totp
    <2>1. r.new.totp \in BOOLEAN /\ r.seen.totp \in BOOLEAN
      BY <1>3, RowIs
    <2> HIDE DEF changed
    <2>2. QED
      BY <1>11, <2>1
  <1>14. replayed' = (replayed \/ (~ (r.new.totp /\ ~ r.seen.totp)
                                   /\ used \intersect r.factor # {}))
    BY <1>1, <1>13
  <1>15. CountsAnew(p) <=> /\ \/ r.new.fails # r.seen.fails
                              \/ r.new.lockedUntil # r.seen.lockedUntil
                           /\ r.new.fails = 0
    BY DEF CountsAnew, RowColumns
  <1>16. guesses' = IF /\ \/ r.new.fails # r.seen.fails
                          \/ r.new.lockedUntil # r.seen.lockedUntil
                       /\ r.new.fails = 0
                    THEN 0 ELSE IF r.wrong THEN guesses + 1 ELSE guesses
    BY <1>1, <1>15
  <1> HIDE DEF changed, enrols
  <1>17. QED
    BY <1>1, <1>2, <1>3, <1>5, <1>6, <1>7, <1>9, <1>10, <1>12, <1>14, <1>16

\* What becomes of the requests when p commits: p's own goes on or ends, others may be stale.
LEMMA AfterCommit ==
    ASSUME LoginInv, NEW p \in LoginProcesses, CommitLogin(p), NEW q \in LoginProcesses
    PROVE  /\ q # p /\ req'[q].stage # "none" =>
                  /\ req'[q].stage = req[q].stage /\ req'[q].seen = req[q].seen
                  /\ req'[q].new = req[q].new /\ req'[q].wrong = req[q].wrong
                  /\ req'[q].cookie = req[q].cookie /\ req'[q].factor = req[q].factor
                  /\ (~ req'[q].stale => rec' = rec) /\ (req[q].stale => req'[q].stale)
           /\ q = p /\ req'[q].stage # "none" =>
                  /\ req[q].stage = "clear" /\ req'[q].stage = "enter"
                  /\ req'[q].seen = req[q].seen /\ req'[q].new = req[q].new
                  /\ req'[q].wrong = req[q].wrong /\ req'[q].factor = req[q].factor
           /\ req'[q].new \in {req[q].new, FreshRow} /\ req'[q].seen \in {req[q].seen, FreshRow}
           /\ req'[q].factor \in {req[q].factor, {}}
  <1>1. /\ NoRequest.stage = "none" /\ NoRequest.seen = FreshRow /\ NoRequest.new = FreshRow
        /\ NoRequest.factor = {}
    BY DEF NoRequest
  <1>2. req[q] \in LoginRequests
    BY InvTyped
  <1>3. CASE q = p
    <2>1. /\ req[q].stage \in {"write", "clear", "mint"}
          /\ req'[q] = IF req[q].stage = "clear"
                       THEN [req[q] EXCEPT !.stage = "enter", !.reread = TRUE] ELSE NoRequest
      BY <1>3, CommitIs
    <2>2. CASE req[q].stage = "clear"
      <3>1. /\ req'[q].stage = "enter" /\ req'[q].seen = req[q].seen
            /\ req'[q].new = req[q].new /\ req'[q].factor = req[q].factor
        BY <1>2, <2>1, <2>2 DEF LoginRequests
      <3>2. req'[q].wrong = req[q].wrong
        BY <1>2, <2>1, <2>2 DEF LoginRequests
      <3>3. QED
        BY <1>3, <2>2, <3>1, <3>2
    <2>3. CASE req[q].stage # "clear"
      BY <1>1, <1>3, <2>1, <2>3
    <2>4. QED
      BY <2>2, <2>3
  <1>4. CASE q # p
    <2>1. req'[q] = IF req[q] = NoRequest \/ rec' = rec THEN req[q]
                    ELSE [req[q] EXCEPT !.stale = TRUE]
      BY <1>4, CommitIs
    <2>2. CASE req'[q] = req[q] /\ (req[q] = NoRequest \/ rec' = rec)
      BY <1>1, <1>4, <2>2
    <2>3. CASE req'[q] = [req[q] EXCEPT !.stale = TRUE]
      <3>1. /\ req'[q].stage = req[q].stage /\ req'[q].seen = req[q].seen
            /\ req'[q].new = req[q].new
            /\ req'[q].cookie = req[q].cookie /\ req'[q].factor = req[q].factor
        BY <1>2, <2>3 DEF LoginRequests
      <3>2. req'[q].wrong = req[q].wrong
        BY <1>2, <2>3 DEF LoginRequests
      <3>3. req'[q].stale
        BY <1>2, <2>3 DEF LoginRequests
      <3>4. QED
        BY <1>4, <3>1, <3>2, <3>3
    <2>4. QED
      BY <2>1, <2>2, <2>3
  <1>5. QED
    BY <1>3, <1>4

LEMMA CommitKeepsLogin ==
    ASSUME LoginInv, NEW p \in LoginProcesses, CommitLogin(p)
    PROVE  LoginInv'
  <1> DEFINE r == req[p]
  <1>1. /\ r \in LoginRequests /\ r.stage \in {"write", "clear", "mint"}
        /\ r.new \in LoginRows /\ r.seen \in LoginRows /\ rec' \in LoginRows
        /\ rec'.fails = IF r.new.fails # r.seen.fails THEN r.new.fails ELSE rec.fails
        /\ rec'.codes \in {r.new.codes, rec.codes}
        /\ r.seen = rec => rec' = r.new
        /\ req' \in [LoginProcesses -> LoginRequests]
        /\ sessions' = sessions \union {s \in {r.cookie} : r.stage = "mint"}
        /\ used' = UsedAfter(r)
        /\ overlapped' = (overlapped \/ r.stale)
        /\ UNCHANGED <<clock, pre, cache, logins, lastPw, lastCode>>
    BY CommitIs
  <1>2. replayed' = (replayed \/ (~ (r.new.totp /\ ~ r.seen.totp)
                                  /\ used \intersect r.factor # {}))
    BY CommitIs
  <1>3. guesses' = IF /\ \/ r.new.fails # r.seen.fails
                         \/ r.new.lockedUntil # r.seen.lockedUntil
                      /\ r.new.fails = 0
                   THEN 0 ELSE IF r.wrong THEN guesses + 1 ELSE guesses
    BY CommitIs
  <1>4. /\ r.cookie \in SessionCookies /\ r.factor \in SUBSET Shown
        /\ r.stale \in BOOLEAN /\ r.wrong \in BOOLEAN
    BY <1>1 DEF LoginRequests
  <1>5. /\ sessions \subseteq SessionCookies /\ pre \subseteq PreCookies /\ used \subseteq Shown
        /\ replayed \in BOOLEAN /\ guesses \in Nat /\ overlapped \in BOOLEAN
        /\ logins \in 0..MaxLogins /\ lastPw \in 0..MaxLogins /\ lastCode \in 0..MaxLogins
    BY DEF LoginInv, LoginTypeOK, Shown, Passwords
  <1>6. FreshRow.fails = 0 /\ FreshRow.codes = {}
    BY DEF FreshRow
  <1>7. used' \subseteq used \union r.factor
    BY <1>1 DEF UsedAfter
  <1>8. LoginTypeOK'
    <2>1. sessions' \subseteq SessionCookies /\ used' \subseteq Shown
      BY <1>1, <1>4, <1>5, <1>7
    <2>2. replayed' \in BOOLEAN
      BY <1>2, <1>5
    <2>3. overlapped' \in BOOLEAN
      BY <1>1, <1>4, <1>5
    <2>4. guesses' \in Nat
      BY <1>3, <1>5
    <2> HIDE DEF r
    <2>5. QED
      BY <1>1, <1>5, <2>1, <2>2, <2>3, <2>4, InvTyped, TypedBy
  <1>9. Counted'
    <2>1. \A q \in LoginProcesses : req[q].new.fails < Threshold /\ req[q].seen.fails < Threshold
      BY DEF LoginInv, Counted
    <2>2. ASSUME NEW q \in LoginProcesses
          PROVE  req'[q].new.fails < Threshold /\ req'[q].seen.fails < Threshold
      BY <1>6, <2>1, AfterCommit, LoginConstants
    <2>3. rec'.fails < Threshold
      BY <1>1, <2>1, InvTyped
    <2>4. QED
      BY <1>1, <2>2, <2>3, InvTyped DEF Counted
  <1>10. FailuresCounted'
    <2>1. SUFFICES ASSUME NEW q \in LoginProcesses, req'[q].stage # "none"
                   PROVE  CountsFailures(req'[q])
      BY DEF FailuresCounted, CountsFailures
    <2>2. CASE q # p
      <3>1. /\ req'[q].stage = req[q].stage /\ req'[q].seen = req[q].seen
            /\ req'[q].new = req[q].new /\ req'[q].wrong = req[q].wrong
        BY <2>1, <2>2, AfterCommit
      <3>2. CountsFailures(req[q])
        BY <2>1, <3>1 DEF LoginInv, FailuresCounted
      <3>3. QED
        BY <3>1, <3>2 DEF CountsFailures
    <2>3. CASE q = p
      <3>1. /\ req[q].stage = "clear" /\ req'[q].seen = req[q].seen
            /\ req'[q].new = req[q].new /\ req'[q].wrong = req[q].wrong
        BY <2>1, <2>3, AfterCommit
      <3>2. CountsFailures(req[q])
        BY <3>1 DEF LoginInv, FailuresCounted
      <3>3. QED
        BY <3>1, <3>2 DEF CountsFailures
    <2>4. QED
      BY <2>2, <2>3
  <1>11. CodesIssued'
    <2>1. /\ rec.codes \subseteq 1..lastCode
          /\ \A c \in Nat : <<"recovery", c>> \in used => c <= lastCode
          /\ \A q \in LoginProcesses :
                /\ req[q].seen.codes \union req[q].new.codes \subseteq 1..lastCode
                /\ \A c \in Nat : <<"recovery", c>> \in req[q].factor => c <= lastCode
      BY DEF LoginInv, CodesIssued
    <2>2. rec'.codes \subseteq 1..lastCode
      BY <1>1, <2>1
    <2>3. \A c \in Nat : <<"recovery", c>> \in used' => c <= lastCode
      BY <1>7, <2>1
    <2>4. ASSUME NEW q \in LoginProcesses
          PROVE  /\ req'[q].seen.codes \union req'[q].new.codes \subseteq 1..lastCode
                 /\ \A c \in Nat : <<"recovery", c>> \in req'[q].factor => c <= lastCode
      <3>1. req'[q].new \in {req[q].new, FreshRow} /\ req'[q].seen \in {req[q].seen, FreshRow}
        BY AfterCommit
      <3>2. req'[q].factor \in {req[q].factor, {}}
        BY AfterCommit
      <3>3. QED
        BY <1>6, <2>1, <3>1, <3>2
    <2>5. QED
      BY <1>1, <2>2, <2>3, <2>4 DEF CodesIssued
  <1>12. ASSUME ~ overlapped'
         PROVE  /\ ~ overlapped /\ r.seen = rec /\ rec' = r.new
                /\ ShowsFresh(r) /\ StampsSession(r)
    <2>1. ~ overlapped /\ ~ r.stale
      BY <1>1, <1>12
    <2>2. r.seen = rec /\ ShowsFresh(r) /\ StampsSession(r)
      BY <1>1, <2>1 DEF LoginInv, InForce
    <2>3. QED
      BY <1>1, <2>1, <2>2
  <1>13. ASSUME ~ overlapped', NEW row, Former(row)
         PROVE  row.sv \in Nat => row.sv <= rec'.sv /\ (row.sv = rec'.sv /\ rec'.totp => row.totp)
    <2>1. /\ rec'.sv \in {rec.sv, rec.sv + 1}
          /\ rec'.totp /\ ~ rec.totp => rec'.sv = rec.sv + 1
      BY <1>12, <1>13 DEF StampsSession
    <2>2. QED
      BY <1>13, <2>1, InvTyped DEF Former
  <1>14. ASSUME ~ overlapped' PROVE InForce'
    <2>1. ASSUME NEW q \in LoginProcesses PROVE Current(q)'
      <3>1. Current(q)
        BY <1>12, <1>14, InForceIs DEF LoginInv
      <3>2. req'[q].seen \in LoginRows /\ req'[q].seen.sv \in Nat
        BY <1>1 DEF LoginRequests, LoginRows
      <3>3. CASE q # p /\ req'[q].stage # "none"
        <4>1. /\ req'[q].stage = req[q].stage /\ req'[q].seen = req[q].seen
              /\ req'[q].new = req[q].new /\ req'[q].wrong = req[q].wrong
              /\ req'[q].cookie = req[q].cookie /\ req'[q].factor = req[q].factor
              /\ (~ req'[q].stale => rec' = rec) /\ (req[q].stale => req'[q].stale)
          BY <3>3, AfterCommit
        <4>2. ASSUME req'[q].stage \in {"write", "clear", "mint"}, ~ req'[q].stale
              PROVE  (req[q].seen = rec /\ ShowsFresh(req[q]) /\ StampsSession(req[q]))'
          <5>1. /\ req[q].seen = rec /\ ShowsFresh(req[q]) /\ StampsSession(req[q])
                /\ rec' = rec
            BY <3>1, <4>1, <4>2 DEF Current
          <5>2. r.factor = {} /\ r.new.totp = r.seen.totp
            BY <1>12, <1>14, <5>1 DEF ShowsFresh
          <5>3. used' = used
            BY <1>1, <5>2 DEF UsedAfter
          <5> HIDE DEF r
          <5>4. QED
            BY <4>1, <5>1, <5>3 DEF ShowsFresh, UsedAfter, StampsSession
        <4>3. ASSUME req'[q].stage \in {"clear", "enter"} PROVE Former(req[q].seen)'
          <5>1. Former(req[q].seen)
            BY <3>1, <4>1, <4>3 DEF Current
          <5>2. QED
            BY <1>13, <1>14, <3>2, <4>1, <5>1 DEF Former
        <4>4. QED
          BY <4>2, <4>3 DEF Current
      <3>4. CASE q = p /\ req'[q].stage # "none"
        <4>1. /\ req[q].stage = "clear" /\ req'[q].stage = "enter" /\ req'[q].seen = req[q].seen
          BY <3>4, AfterCommit
        <4>2. Former(req[q].seen)
          BY <3>1, <4>1 DEF Current
        <4>3. QED
          BY <1>13, <1>14, <3>2, <4>1, <4>2 DEF Current, Former
      <3>5. CASE req'[q].stage = "none"
        BY <3>5 DEF Current
      <3>6. QED
        BY <3>3, <3>4, <3>5
    <2>2. QED
      BY <2>1 DEF InForce, Current
  <1>15. ASSUME ~ overlapped' PROVE SessionsStamped'
    <2>1. /\ rec'.sv \in {rec.sv, rec.sv + 1} /\ (rec'.totp /\ ~ rec.totp => rec'.sv = rec.sv + 1)
          /\ r.stage = "mint" => r.cookie.sv = rec'.sv /\ (rec'.totp => r.cookie.second)
      BY <1>12, <1>15 DEF StampsSession
    <2>2. SessionsStamped
      BY <1>12, <1>15 DEF LoginInv
    <2>3. ASSUME NEW s \in sessions'
          PROVE  s.sv <= rec'.sv /\ (s.sv = rec'.sv /\ rec'.totp => s.second)
      <3>1. CASE s \in sessions
        <4>1. s.sv \in Nat
          BY <1>5, <3>1 DEF SessionCookies
        <4>2. s.sv <= rec.sv /\ (s.sv = rec.sv /\ rec.totp => s.second)
          BY <2>2, <3>1 DEF SessionsStamped
        <4>3. QED
          BY <2>1, <4>1, <4>2, InvTyped
      <3>2. CASE s = r.cookie /\ r.stage = "mint"
        <4>1. rec'.sv \in Nat
          BY <1>1, RowIs
        <4>2. QED
          BY <2>1, <3>2, <4>1
      <3>3. QED
        BY <1>1, <2>3, <3>1, <3>2
    <2>4. QED
      BY <2>3 DEF SessionsStamped
  <1>16. ASSUME ~ overlapped' PROVE Spent(rec', used') /\ ~ replayed'
    <2>1. /\ ~ (r.new.totp /\ ~ r.seen.totp) => used \intersect r.factor = {}
          /\ Spent(r.new, UsedAfter(r))
      BY <1>12, <1>16 DEF ShowsFresh
    <2>2. ~ replayed
      BY <1>12, <1>16 DEF LoginInv
    <2>3. QED
      BY <1>1, <1>2, <1>12, <1>16, <2>1, <2>2
  <1>17. ASSUME ~ overlapped', Threshold > 1 PROVE guesses' <= rec'.fails
    <2>1. CountsFailures(r) /\ guesses <= rec.fails
      BY <1>1, <1>12, <1>17 DEF LoginInv, FailuresCounted
    <2>2. rec'.fails = r.new.fails /\ r.seen = rec
      BY <1>12, <1>17
    <2>3. r.new.fails \in Nat /\ rec.fails \in Nat /\ rec.fails < Threshold
      BY <1>1, InvTyped DEF LoginRows
    <2>4. CASE r.wrong
      <3>1. IF rec.fails + 1 < Threshold THEN r.new.fails = rec.fails + 1 ELSE r.new.fails = 0
        BY <2>1, <2>2, <2>4 DEF CountsFailures
      <3>2. QED
        BY <1>3, <1>5, <1>17, <2>1, <2>2, <2>3, <2>4, <3>1, LoginConstants
    <2>5. CASE ~ r.wrong
      <3>1. \/ r.new.fails = rec.fails /\ r.new.lockedUntil = r.seen.lockedUntil
            \/ r.new.fails = 0
        BY <2>1, <2>2, <2>5 DEF CountsFailures
      <3>2. QED
        BY <1>3, <1>5, <2>1, <2>2, <2>3, <2>5, <3>1
    <2>6. QED
      BY <2>4, <2>5
  <1>18. (~ overlapped =>
             /\ InForce /\ SessionsStamped
             /\ Spent(rec, used) /\ ~ replayed
             /\ Threshold > 1 => guesses <= rec.fails)'
    <2>1. Spent(rec, used)' <=> Spent(rec', used')
      BY DEF Spent
    <2>2. QED
      BY <1>14, <1>15, <1>16, <1>17, <2>1
  <1>19. QED
    BY <1>8, <1>9, <1>10, <1>11, <1>18 DEF LoginInv

LEMMA InitLogin ==
    ASSUME LoginInit
    PROVE  LoginInv
  <1>1. /\ NoRequest.stage = "none" /\ NoRequest.seen = FreshRow /\ NoRequest.new = FreshRow
        /\ NoRequest.factor = {} /\ FreshRow.fails = 0 /\ FreshRow.codes = {}
    BY DEF NoRequest, FreshRow
  <1>2. /\ rec = FreshRow /\ clock = 1 /\ sessions = {} /\ pre = {} /\ used = {}
        /\ logins = 0 /\ lastPw = 0 /\ lastCode = 0
        /\ replayed = FALSE /\ guesses = 0 /\ overlapped = FALSE
    BY DEF LoginInit
  <1>3. \A p \in LoginProcesses : req[p] = NoRequest
    BY DEF LoginInit, LoginProcesses
  <1>4. LoginTypeOK
    <2>1. req \in [Workers \union {CommandLine} -> LoginRequests]
      BY FreshTyped DEF LoginInit
    <2>2. cache \in [Workers -> [pw : Passwords, exp : Nat]]
      BY LoginConstants DEF LoginInit, NoEntry, Passwords
    <2>3. clock \in 1..MaxClock /\ logins \in 0..MaxLogins
      BY <1>2, LoginConstants
    <2>4. lastPw \in Passwords /\ lastCode \in 0..MaxLogins
      BY <1>2, LoginConstants DEF Passwords
    <2>5. QED
      BY <1>2, <2>1, <2>2, <2>3, <2>4, FreshTyped DEF LoginTypeOK, LoginRequests, Shown
  <1>5. Counted
    BY <1>1, <1>2, <1>3, LoginConstants DEF Counted
  <1>6. FailuresCounted /\ CodesIssued
    BY <1>1, <1>2, <1>3 DEF FailuresCounted, CodesIssued
  <1>7. InForce /\ SessionsStamped /\ Spent(rec, used)
    BY <1>1, <1>2, <1>3 DEF InForce, SessionsStamped, Spent
  <1>8. QED
    BY <1>1, <1>2, <1>4, <1>5, <1>6, <1>7 DEF LoginInv

LEMMA NextKeepsLogin ==
    ASSUME LoginInv, [LoginNext]_loginVars
    PROVE  LoginInv'
  <1>1. ASSUME NEW w \in Workers, AtLeisure(w), WebRequest(w) PROVE LoginInv'
    BY <1>1, WebRequestTakesUp, TakesUpKeepsLogin DEF LoginProcesses
  <1>2. CASE AtLeisure(CommandLine) /\ Command
    BY <1>2, CommandTakesUp, TakesUpKeepsLogin DEF LoginProcesses
  <1>3. ASSUME NEW w \in Workers, Enter(w) PROVE LoginInv'
    BY <1>3, EnterKeepsLogin
  <1>4. ASSUME NEW p \in Workers \union {CommandLine}, CommitLogin(p) PROVE LoginInv'
    BY <1>4, CommitKeepsLogin DEF LoginProcesses
  <1>5. CASE TickClock
    <2>1. clock' \in 1..MaxClock
      BY <1>5, InvTyped, LoginConstants DEF TickClock
    <2>2. QED
      BY <1>5, <2>1, UnchangedKeepsLogin DEF TickClock
  <1>6. CASE UNCHANGED loginVars
    BY <1>6, InvTyped, UnchangedKeepsLogin DEF loginVars
  <1>7. QED
    BY <1>1, <1>2, <1>3, <1>4, <1>5, <1>6 DEF LoginNext

LEMMA LoginInvHolds == LoginSpec => []LoginInv
  <1>1. LoginInit => LoginInv
    BY InitLogin
  <1>2. LoginInv /\ [LoginNext]_loginVars => LoginInv'
    BY NextKeepsLogin
  <1>3. QED
    BY <1>1, <1>2, PTL DEF LoginSpec

\* The row, the cookies, the caches and the requests are what they should be (models/user.py,
\* auth_service.py, routes/auth.py): a request never issues a password or a code beyond the
\* number of requests there have been.
THEOREM LoginTypeCorrect == LoginSpec => []LoginTypeOK
  <1>1. LoginInv => LoginTypeOK
    BY DEF LoginInv
  <1>2. QED
    BY <1>1, LoginInvHolds, PTL

\* Whatever requests, commands and re-enrolments come in between, a TOTP step and a recovery code
\* are accepted once, unless two requests overlap (totp_service.verify, consume_recovery_code).
THEOREM CodeWorksOnceHolds == LoginSpec => []CodeWorksOnce
  <1>1. LoginInv => CodeWorksOnce
    BY DEF LoginInv, CodeWorksOnce
  <1>2. QED
    BY <1>1, LoginInvHolds, PTL

\* Without an overlap, a session that an account with a second factor honours has shown it: an
\* enrolment bumps the session version, and nothing opens a session under it without the factor
\* (two_factor_setup, change_password, load_user).
THEOREM SecondFactorKeptHolds == LoginSpec => []SecondFactorKept
  <1>1. LoginInv => SecondFactorKept
    <2>1. SUFFICES ASSUME LoginInv, ~ overlapped, NEW s \in sessions, rec.totp, Honoured(s)
                   PROVE  s.second
      BY DEF SecondFactorKept
    <2>2. SessionsStamped
      BY <2>1 DEF LoginInv
    <2>3. QED
      BY <2>1, <2>2 DEF SessionsStamped, Honoured
  <1>2. QED
    BY <1>1, LoginInvHolds, PTL

\* Any number of workers that do not overlap: after Threshold wrong passwords and codes in a row
\* the account is locked or the counter has been cleared (_register_failed_attempt). The threshold
\* is at least 2: with 1, the only admin is never locked and never counted.
THEOREM LockoutBitesAlone ==
    ASSUME Threshold > 1
    PROVE  LoginSpec => [](~ overlapped => guesses < Threshold)
  <1>1. LoginInv => (~ overlapped => guesses < Threshold)
    <2>1. SUFFICES ASSUME LoginInv, ~ overlapped PROVE guesses < Threshold
      OBVIOUS
    <2>2. guesses <= rec.fails /\ guesses \in Nat
      BY <2>1 DEF LoginInv, LoginTypeOK
    <2>3. QED
      BY <2>1, <2>2, InvTyped, LoginConstants
  <1>2. QED
    BY <1>1, LoginInvHolds, PTL

(* Two workers that overlap *)

LEMMA TwiceStep ==
    ASSUME NEW a \in Nat
    PROVE  Twice(a) \in Int /\ Twice(a + 1) = Twice(a) + 2 * (Threshold - a)
  <1>1. Threshold \in Nat
    BY LoginConstants
  <1>2. Twice(a) \in Int
    BY <1>1 DEF Twice
  <1>3. Twice(a + 1) = Twice(a) + 2 * (Threshold - a)
    BY <1>1, SMTT(30) DEF Twice
  <1>4. QED
    BY <1>2, <1>3

LEMMA TwiceGrows ==
    ASSUME NEW a \in Nat, NEW b \in Nat, a <= b, b <= Threshold
    PROVE  Twice(a) <= Twice(b)
  <1>1. Threshold \in Nat
    BY LoginConstants
  <1> DEFINE d == b - a
             e == 2 * Threshold + 1 - a - b
  <1>2. d \in Nat /\ e \in Nat
    BY <1>1
  <1>3. d * e \in Nat
    <2> HIDE DEF d, e
    <2>1. QED
      BY <1>2, SMTT(30)
  <1>4. Twice(b) = Twice(a) + d * e
    BY <1>1, SMTT(30) DEF Twice
  <1>5. Twice(a) \in Int
    BY TwiceStep
  <1> HIDE DEF d, e
  <1>6. QED
    BY <1>3, <1>4, <1>5

LEMMA TwiceBounds ==
    ASSUME NEW f \in Nat, f < Threshold
    PROVE  Twice(f) \in Nat /\ Twice(f) + 2 <= Threshold * (Threshold + 1)
  <1>1. Threshold \in Nat /\ Threshold - 1 \in Nat
    BY LoginConstants
  <1>2. Twice(0) = 0
    BY <1>1 DEF Twice
  <1>3. 0 <= Twice(f)
    BY <1>1, <1>2, TwiceGrows
  <1>4. Twice(f) <= Twice(Threshold - 1)
    BY <1>1, TwiceGrows
  <1>5. Twice(Threshold - 1) + 2 = Threshold * (Threshold + 1)
    BY <1>1, SMTT(30) DEF Twice
  <1>6. Twice(f) \in Int /\ Twice(Threshold - 1) \in Int
    BY <1>1, TwiceStep
  <1>7. QED
    BY <1>3, <1>4, <1>5, <1>6

\* A guess that has seen s is counted: the row says s + 1.
LEMMA OneGuessMore ==
    ASSUME NEW f \in Nat, f < Threshold, NEW s \in Nat, s + 1 < Threshold, NEW g \in Nat,
           2 * g <= Twice(f), s <= f => 2 * g <= Twice(s) + 2 * (f - s)
    PROVE  2 * (g + 1) <= Twice(s + 1)
  <1>1. /\ Threshold \in Nat /\ Twice(s) \in Int /\ Twice(f) \in Int
        /\ Twice(s + 1) = Twice(s) + 2 * (Threshold - s)
    BY LoginConstants, TwiceStep
  <1>2. CASE s <= f
    BY <1>1, <1>2
  <1>3. CASE f < s
    <2>1. Twice(f) <= Twice(s)
      BY <1>1, <1>3, TwiceGrows
    <2>2. QED
      BY <1>1, <2>1
  <1>4. QED
    BY <1>2, <1>3

GuessInv == LoginInv /\ GuessesBounded /\ OnlyWorkersGuess

LEMMA SeenTyped ==
    ASSUME LoginInv, NEW p \in LoginProcesses
    PROVE  req[p].seen.fails \in Nat /\ req[p].seen.fails < Threshold /\ req[p].seen \in LoginRows
  <1>1. req[p] \in LoginRequests
    BY InvTyped
  <1>2. req[p].seen \in LoginRows
    BY <1>1 DEF LoginRequests
  <1>3. QED
    BY <1>2, RowIs DEF LoginInv, Counted

LEMMA NextTyped ==
    ASSUME LoginInv'
    PROVE  /\ rec'.fails \in Nat /\ rec'.fails < Threshold /\ guesses' \in Nat
           /\ \A p \in LoginProcesses :
                 req'[p].seen.fails \in Nat /\ req'[p].seen.fails < Threshold
  <1>1. rec' \in LoginRows /\ guesses' \in Nat /\ req' \in [LoginProcesses -> LoginRequests]
    BY DEF LoginInv, LoginTypeOK, LoginProcesses, LoginRequests, Shown
  <1>2. \A p \in LoginProcesses : req'[p].seen \in LoginRows
    BY <1>1 DEF LoginRequests
  <1>3. rec'.fails < Threshold /\ \A p \in LoginProcesses : req'[p].seen.fails < Threshold
    BY DEF LoginInv, Counted
  <1>4. QED
    BY <1>1, <1>2, <1>3, RowIs

\* The count has been forgotten.
LEMMA NoneBounded ==
    ASSUME LoginInv', guesses' = 0
    PROVE  GuessesBounded'
  <1>1. ASSUME NEW s \in Nat, s < Threshold, NEW f \in Nat, s <= f
        PROVE  2 * guesses' <= Twice(s) + 2 * (f - s)
    <2>1. Twice(s) \in Nat
      BY <1>1, TwiceBounds
    <2>2. QED
      BY <1>1, <2>1
  <1>2. 2 * guesses' <= Twice(rec'.fails)
    BY NextTyped, TwiceBounds
  <1>3. QED
    BY <1>1, <1>2, NextTyped DEF GuessesBounded, Guessing

\* The counter and the guesses are as they were, and nobody has begun a guess.
LEMMA SameBounded ==
    ASSUME GuessesBounded, rec'.fails = rec.fails, guesses' = guesses,
           \A q \in LoginProcesses : req'[q].stage # "none" /\ req'[q].wrong =>
                                         Guessing(q) /\ req'[q].seen = req[q].seen
    PROVE  GuessesBounded'
  BY DEF GuessesBounded, Guessing

LEMMA TakesUpKeepsGuesses ==
    ASSUME GuessInv, LoginInv', NEW p \in LoginProcesses, TakesUp(p)
    PROVE  GuessesBounded' /\ OnlyWorkersGuess'
  <1>1. PICK r \in LoginRequests :
            /\ TakenWell(r) /\ (r.wrong => p # CommandLine)
            /\ req' = [req EXCEPT ![p] = r] /\ rec' = rec /\ guesses' = guesses
    BY DEF TakesUp
  <1>2. \A q \in LoginProcesses : req'[q] = IF q = p THEN r ELSE req[q]
    BY <1>1, InvTyped DEF GuessInv
  <1>3. r.seen = rec
    BY <1>1 DEF TakenWell
  <1>4. OnlyWorkersGuess'
    BY <1>1, <1>2 DEF GuessInv, OnlyWorkersGuess, Guessing, LoginProcesses
  <1>5. /\ 2 * guesses <= Twice(rec.fails)
        /\ \A q \in LoginProcesses : Guessing(q) /\ req[q].seen.fails <= rec.fails =>
               2 * guesses <= Twice(req[q].seen.fails) + 2 * (rec.fails - req[q].seen.fails)
        /\ \A q, o \in LoginProcesses :
               q # o /\ Guessing(q) /\ Guessing(o) /\ req[q].seen.fails <= req[o].seen.fails =>
                   2 * guesses <= Twice(req[q].seen.fails)
                                  + 2 * (req[o].seen.fails - req[q].seen.fails)
    BY DEF GuessInv, GuessesBounded
  <1>6. rec.fails \in Nat /\ Twice(rec.fails) \in Int
    BY InvTyped, TwiceStep DEF GuessInv
  <1>7. ASSUME NEW s \in Nat, rec.fails <= s
        PROVE  2 * guesses <= Twice(rec.fails) + 2 * (s - rec.fails)
    BY <1>5, <1>6, <1>7, NextTyped, <1>1
  <1>8. ASSUME NEW q \in LoginProcesses, Guessing(q)', req'[q].seen.fails <= rec'.fails
        PROVE  2 * guesses' <= Twice(req'[q].seen.fails) + 2 * (rec'.fails - req'[q].seen.fails)
    <2>1. CASE q = p
      BY <1>1, <1>2, <1>3, <1>6, <1>7, <2>1
    <2>2. CASE q # p
      BY <1>1, <1>2, <1>5, <1>8, <2>2 DEF Guessing
    <2>3. QED
      BY <2>1, <2>2
  <1>9. ASSUME NEW q \in LoginProcesses, NEW o \in LoginProcesses, q # o, Guessing(q)',
               Guessing(o)', req'[q].seen.fails <= req'[o].seen.fails
        PROVE  2 * guesses' <= Twice(req'[q].seen.fails)
                               + 2 * (req'[o].seen.fails - req'[q].seen.fails)
    <2>1. CASE q = p
      <3>1. req'[q].seen.fails = rec.fails /\ req'[o].seen.fails \in Nat
        BY <1>2, <1>3, <2>1, NextTyped
      <3>2. QED
        BY <1>1, <1>7, <1>9, <3>1
    <2>2. CASE o = p
      BY <1>1, <1>2, <1>3, <1>5, <1>9, <2>2 DEF Guessing
    <2>3. CASE q # p /\ o # p
      BY <1>1, <1>2, <1>5, <1>9, <2>3 DEF Guessing
    <2>4. QED
      BY <2>1, <2>2, <2>3
  <1>10. GuessesBounded'
    BY <1>1, <1>5, <1>8, <1>9 DEF GuessesBounded, Guessing
  <1>11. QED
    BY <1>4, <1>10

\* Two workers: when a guess of one commits, the other has at most one under way.
LEMMA CommitKeepsGuesses ==
    ASSUME GuessInv, LoginInv', NEW p \in LoginProcesses, CommitLogin(p), Threshold > 1,
           NEW v, NEW w, Workers = {v, w}
    PROVE  GuessesBounded' /\ OnlyWorkersGuess'
  <1> DEFINE r == req[p]
  <1>1. /\ r \in LoginRequests /\ r.stage \in {"write", "clear", "mint"}
        /\ rec'.fails = IF r.new.fails # r.seen.fails THEN r.new.fails ELSE rec.fails
        /\ guesses' = IF /\ \/ r.new.fails # r.seen.fails
                            \/ r.new.lockedUntil # r.seen.lockedUntil
                         /\ r.new.fails = 0
                      THEN 0 ELSE IF r.wrong THEN guesses + 1 ELSE guesses
    BY CommitIs DEF GuessInv
  <1>2. CountsFailures(r)
    BY <1>1 DEF GuessInv, LoginInv, FailuresCounted
  <1>3. ASSUME NEW q \in LoginProcesses, Guessing(q)'
        PROVE  q # p /\ Guessing(q) /\ req'[q].seen = req[q].seen
    <2>1. CASE q # p
      BY <1>3, <2>1, AfterCommit DEF GuessInv, Guessing
    <2>2. CASE q = p
      <3>1. r.stage = "clear" /\ r.wrong = req'[q].wrong
        BY <1>3, <2>2, AfterCommit DEF GuessInv, Guessing
      <3>2. QED
        BY <1>2, <1>3, <3>1 DEF CountsFailures, Guessing
    <2>3. QED
      BY <2>1, <2>2
  <1>4. OnlyWorkersGuess'
    BY <1>3 DEF GuessInv, OnlyWorkersGuess, LoginProcesses
  <1>5. /\ 2 * guesses <= Twice(rec.fails)
        /\ \A q \in LoginProcesses : Guessing(q) /\ req[q].seen.fails <= rec.fails =>
               2 * guesses <= Twice(req[q].seen.fails) + 2 * (rec.fails - req[q].seen.fails)
        /\ \A q, o \in LoginProcesses :
               q # o /\ Guessing(q) /\ Guessing(o) /\ req[q].seen.fails <= req[o].seen.fails =>
                   2 * guesses <= Twice(req[q].seen.fails)
                                  + 2 * (req[o].seen.fails - req[q].seen.fails)
    BY DEF GuessInv, GuessesBounded
  <1>6. /\ rec.fails \in Nat /\ rec.fails < Threshold /\ guesses \in Nat
        /\ r.seen.fails \in Nat /\ r.seen.fails < Threshold
    BY InvTyped, SeenTyped DEF GuessInv, LoginInv, LoginTypeOK
  <1>7. CASE guesses' = 0
    BY <1>4, <1>7, NoneBounded
  <1>8. CASE rec'.fails = rec.fails /\ guesses' = guesses
    <2>1. GuessesBounded'
      BY <1>3, <1>8, SameBounded DEF GuessInv, Guessing
    <2>2. QED
      BY <1>4, <2>1
  <1>9. CASE /\ r.wrong /\ r.seen.fails + 1 < Threshold
             /\ rec'.fails = r.seen.fails + 1 /\ guesses' = guesses + 1
    <2> DEFINE s == r.seen.fails
    <2>1. Guessing(p)
      BY <1>1, <1>9 DEF Guessing
    <2>2. 2 * guesses' <= Twice(s + 1)
      BY <1>5, <1>6, <1>9, <2>1, OneGuessMore
    <2>3. ASSUME NEW q \in LoginProcesses, Guessing(q)', req'[q].seen.fails <= rec'.fails
          PROVE  2 * guesses' <= Twice(req'[q].seen.fails) + 2 * (rec'.fails - req'[q].seen.fails)
      <3>1. /\ q # p /\ Guessing(q) /\ req'[q].seen.fails = req[q].seen.fails
            /\ req[q].seen.fails \in Nat
        BY <1>3, <2>3, SeenTyped DEF GuessInv
      <3>2. CASE req[q].seen.fails <= s
        <4>1. 2 * guesses <= Twice(req[q].seen.fails) + 2 * (s - req[q].seen.fails)
          BY <1>5, <2>1, <3>1, <3>2
        <4>2. Twice(req[q].seen.fails) \in Int
          BY <3>1, TwiceStep
        <4>3. QED
          BY <1>6, <1>9, <3>1, <4>1, <4>2
      <3>3. CASE ~ (req[q].seen.fails <= s)
        <4>1. req[q].seen.fails = s + 1
          BY <1>6, <1>9, <2>3, <3>1, <3>3
        <4>2. Twice(s + 1) \in Int
          BY <1>6, TwiceStep
        <4>3. QED
          BY <1>6, <1>9, <2>2, <3>1, <4>1, <4>2
      <3>4. QED
        BY <3>2, <3>3
    <2>4. ASSUME NEW q \in LoginProcesses, NEW o \in LoginProcesses, Guessing(q)', Guessing(o)'
          PROVE  q = o
      <3>1. q # p /\ o # p /\ Guessing(q) /\ Guessing(o)
        BY <1>3, <2>4
      <3>2. q \in Workers /\ o \in Workers /\ p \in Workers
        BY <2>1, <3>1 DEF GuessInv, OnlyWorkersGuess, LoginProcesses
      <3>3. QED
        BY <3>1, <3>2
    <2>5. GuessesBounded'
      BY <1>9, <2>2, <2>3, <2>4 DEF GuessesBounded
    <2>6. QED
      BY <1>4, <2>5
  <1>10. QED
    <2>1. CASE r.wrong
      <3>1. IF r.seen.fails + 1 < Threshold THEN r.new.fails = r.seen.fails + 1
                                            ELSE r.new.fails = 0
        BY <1>2, <2>1 DEF CountsFailures
      <3>2. CASE r.seen.fails + 1 < Threshold
        <4>1. /\ r.new.fails = r.seen.fails + 1
              /\ r.new.fails # r.seen.fails /\ r.new.fails # 0
          BY <1>6, <3>1, <3>2
        <4>2. QED
          BY <1>1, <1>9, <2>1, <3>2, <4>1
      <3>3. CASE ~ (r.seen.fails + 1 < Threshold)
        <4>1. r.new.fails = 0 /\ r.new.fails # r.seen.fails
          BY <1>6, <3>1, <3>3, LoginConstants
        <4>2. QED
          BY <1>1, <1>7, <4>1
      <3>4. QED
        BY <3>2, <3>3
    <2>2. CASE ~ r.wrong
      <3>1. \/ r.new.fails = r.seen.fails /\ r.new.lockedUntil = r.seen.lockedUntil
            \/ r.new.fails = 0 /\ r.new.lockedUntil = 0
        BY <1>2, <2>2 DEF CountsFailures
      <3>2. QED
        BY <1>1, <1>7, <1>8, <2>2, <3>1
    <2>3. QED
      BY <2>1, <2>2

LEMMA NextKeepsGuesses ==
    ASSUME GuessInv, LoginInv', [LoginNext]_loginVars, Threshold > 1,
           \E v, w \in Workers : Workers = {v, w}
    PROVE  GuessesBounded' /\ OnlyWorkersGuess'
  <1>1. LoginInv /\ GuessesBounded /\ OnlyWorkersGuess
    BY DEF GuessInv
  <1>2. ASSUME NEW w \in Workers, AtLeisure(w), WebRequest(w)
        PROVE  GuessesBounded' /\ OnlyWorkersGuess'
    BY <1>1, <1>2, WebRequestTakesUp, TakesUpKeepsGuesses DEF LoginProcesses
  <1>3. CASE AtLeisure(CommandLine) /\ Command
    BY <1>1, <1>3, CommandTakesUp, TakesUpKeepsGuesses DEF LoginProcesses
  <1>4. ASSUME NEW w \in Workers, Enter(w)
        PROVE  GuessesBounded' /\ OnlyWorkersGuess'
    <2>1. \A q \in LoginProcesses : req'[q] = IF q = w THEN NoRequest ELSE req[q]
      BY <1>1, <1>4, InvTyped DEF Enter
    <2>2. NoRequest.stage = "none"
      BY DEF NoRequest
    <2>3. \A q \in LoginProcesses : req'[q].stage # "none" /\ req'[q].wrong =>
                                        Guessing(q) /\ req'[q].seen = req[q].seen
      BY <2>1, <2>2 DEF Guessing
    <2>4. GuessesBounded'
      BY <1>1, <1>4, <2>3, SameBounded DEF Enter
    <2>5. OnlyWorkersGuess'
      BY <1>1, <2>3 DEF OnlyWorkersGuess, Guessing, LoginProcesses
    <2>6. QED
      BY <2>4, <2>5
  <1>5. ASSUME NEW p \in Workers \union {CommandLine}, CommitLogin(p)
        PROVE  GuessesBounded' /\ OnlyWorkersGuess'
    BY <1>5, CommitKeepsGuesses DEF LoginProcesses
  <1>6. ASSUME UNCHANGED <<rec, req, guesses>>
        PROVE  GuessesBounded' /\ OnlyWorkersGuess'
    <2>1. GuessesBounded'
      BY <1>1, <1>6, SameBounded DEF Guessing
    <2>2. OnlyWorkersGuess'
      BY <1>1, <1>6 DEF OnlyWorkersGuess, Guessing
    <2>3. QED
      BY <2>1, <2>2
  <1>7. QED
    BY <1>2, <1>3, <1>4, <1>5, <1>6 DEF LoginNext, TickClock, loginVars

\* Two workers: however their requests and the commands overlap, fewer wrong passwords and codes
\* in a row than the sum of 1..Threshold before the account is locked or the counter has been
\* cleared; and fewer than Threshold where no two requests have overlapped
\* (_register_failed_attempt, which counts in a row that another worker may have written).
THEOREM LockoutBitesHolds ==
    ASSUME Threshold > 1, \E v, w \in Workers : Workers = {v, w}
    PROVE  LoginSpec => []LockoutBites
  <1>1. LoginInit => GuessInv
    <2>1. SUFFICES ASSUME LoginInit PROVE GuessInv
      OBVIOUS
    <2>2. LoginInv
      BY <2>1, InitLogin
    <2>3. /\ guesses = 0 /\ rec.fails = 0 /\ \A p \in LoginProcesses : ~ Guessing(p)
      BY <2>1 DEF LoginInit, FreshRow, NoRequest, Guessing, LoginProcesses
    <2>4. Twice(rec.fails) \in Nat
      BY <2>2, InvTyped, TwiceBounds
    <2>5. GuessesBounded
      BY <2>3, <2>4 DEF GuessesBounded
    <2>6. OnlyWorkersGuess
      BY <2>3 DEF OnlyWorkersGuess, LoginProcesses
    <2>7. QED
      BY <2>2, <2>5, <2>6 DEF GuessInv
  <1>2. GuessInv /\ [LoginNext]_loginVars => GuessInv'
    <2>1. SUFFICES ASSUME GuessInv, [LoginNext]_loginVars PROVE GuessInv'
      OBVIOUS
    <2>2. LoginInv'
      BY <2>1, NextKeepsLogin DEF GuessInv
    <2>3. GuessesBounded' /\ OnlyWorkersGuess'
      BY <2>1, <2>2, NextKeepsGuesses
    <2>4. QED
      BY <2>2, <2>3 DEF GuessInv
  <1>3. GuessInv => LockoutBites
    <2>1. SUFFICES ASSUME GuessInv PROVE LockoutBites
      OBVIOUS
    <2>2. LoginInv /\ 2 * guesses <= Twice(rec.fails)
      BY <2>1 DEF GuessInv, GuessesBounded
    <2>3. /\ rec.fails \in Nat /\ rec.fails < Threshold /\ guesses \in Nat /\ Threshold \in Nat
      BY <2>2, InvTyped, LoginConstants DEF LoginInv, LoginTypeOK
    <2> DEFINE all == Threshold * (Threshold + 1)
    <2>4. 2 * guesses + 2 <= all /\ all \in Nat
      <3>1. Twice(rec.fails) \in Nat /\ Twice(rec.fails) + 2 <= all
        BY <2>3, TwiceBounds
      <3>2. all \in Nat
        BY <2>3
      <3> HIDE DEF all
      <3>3. QED
        BY <2>2, <2>3, <3>1, <3>2
    <2>5. CASE overlapped
      <3>1. guesses < all \div 2
        <4> HIDE DEF all
        <4>1. QED
          BY <2>3, <2>4
      <3>2. QED
        BY <2>5, <3>1 DEF LockoutBites
    <2>6. CASE ~ overlapped
      <3>1. guesses <= rec.fails
        BY <2>2, <2>6 DEF LoginInv
      <3>2. guesses < Threshold
        BY <2>3, <3>1
      <3>3. QED
        BY <2>6, <3>2 DEF LockoutBites
    <2>7. QED
      BY <2>5, <2>6
  <1>4. QED
    BY <1>1, <1>2, <1>3, PTL DEF LoginSpec

-----------------------------------------------------------------------------
(***************************************************************************)
(* Tokens. What is done with a token stays within what the first token of  *)
(* its line was granted for, but for the pages that any API token reaches. *)
(***************************************************************************)

\* What a token opens: what it is granted for, and blueprint auth, which asks for no scope.
Reach(row) == GrantedFor(row) \union (IF row.kind = "api" THEN {"auth"} ELSE {})

\* A token opens no more than the token that it descends from, which is of its kind and its owner's
\* and still has its row.
RootsGrant ==
    \A t \in TokenIds : token[t].kind # "none" =>
        /\ token[t].root \in TokenIds
        /\ token[token[t].root].kind = token[t].kind
        /\ token[token[t].root].owner = token[t].owner
        /\ Reach(token[t]) \subseteq Reach(token[token[t].root])

\* A request was let in by a token that opens its page.
RequestsGranted ==
    \A w \in Servers : bearer[w].request # "none" =>
        /\ bearer[w].token \in TokenIds
        /\ token[bearer[w].token].kind # "none"
        /\ bearer[w].request \in Reach(token[bearer[w].token])

\* NoEscalation is not inductive: what a request may do follows from its own token, and from there
\* to the first token of the line, whatever has been revoked or has expired meanwhile.
TokensInv ==
    /\ TokensTypeOK
    /\ RootsGrant
    /\ RequestsGranted
    /\ beyond \subseteq {<<"api", "auth">>}

\* required_scope and has_scope agree with SCOPE_LABELS: who has the scope that a request requires
\* was granted the request, and what requires none is blueprint auth.
LEMMA ScopesGrant ==
    ASSUME NEW row, row.kind = "api", NEW r \in TokenRequests,
           Allows(row, r)
    PROVE  r \in Reach(row)
  BY DEF Allows, HasScope, RequiredScope, Reach, GrantedFor, TokenRequests, IssueEndpoints,
         RevokeEndpoints

\* What a token opens does not depend on its expiry, its owner or its revocation.
LEMMA SameGrant ==
    ASSUME NEW x, NEW y, x.kind = y.kind, x.scopes = y.scopes
    PROVE  Reach(x) = Reach(y)
  BY DEF Reach, GrantedFor

\* The initial state: no token, no request.
LEMMA TokensInitInv == TokensInit => TokensInv
  BY TokensAssumption
  DEF TokensInit, TokensInv, TokensTypeOK, RootsGrant, RequestsGranted, NoRow, Scopes

\* The end of a request: what it did is no escalation.
LEMMA DoneKeeps ==
    ASSUME TokensInv, NEW w \in Servers, bearer[w].request # "none", Done(w)
    PROVE  /\ beyond' \subseteq {<<"api", "auth">>}
           /\ beyond' \subseteq {"none", "api", "metrics"} \X (TokenRequests \union {"metrics"})
           /\ bearer' \in [Servers -> [token : TokenIds \union {NoToken},
                                       request : TokenRequests \union {"none", "metrics"}]]
           /\ \A v \in Servers : v # w => bearer'[v] = bearer[v]
           /\ bearer'[w].request = "none"
  <1> DEFINE first == token[token[bearer[w].token].root]
  <1>1. bearer[w].request \in Reach(first)
    BY DEF TokensInv, RootsGrant, RequestsGranted
  <1>2. {first.kind} \X ({bearer[w].request} \ GrantedFor(first)) \subseteq {<<"api", "auth">>}
    <2>1. CASE bearer[w].request \in GrantedFor(first)
      BY <2>1
    <2>2. CASE bearer[w].request = "auth" /\ first.kind = "api"
      BY <2>2
    <2>3. QED
      BY <1>1, <2>1, <2>2 DEF Reach
  <1>3. beyond' \subseteq {<<"api", "auth">>}
    BY <1>2 DEF Done, TokensInv
  <1>4. <<"api", "auth">> \in {"none", "api", "metrics"} \X (TokenRequests \union {"metrics"})
    BY DEF TokenRequests
  <1>5. QED
    BY <1>3, <1>4 DEF Done, TokensInv, TokensTypeOK

\* A new row: what it descends from is a row that was there, or the row itself.
LEMMA NewRowKeeps ==
    ASSUME TokensInv, NEW t \in TokenIds, NEW row, NEW days \in 1..MaxDays,
           NewToken(t, row, days),
           row \in [kind : {"api", "metrics"}, owner : Owners \union {NoOwner},
                    scopes : SUBSET Scopes, exp : Nat, revoked : BOOLEAN, root : TokenIds],
           \/ row.root = t
           \/ /\ token[row.root].kind = row.kind /\ token[row.root].owner = row.owner
              /\ Reach(row) \subseteq Reach(token[row.root])
    PROVE  /\ token' \in [TokenIds -> [kind : {"none", "api", "metrics"},
                                       owner : Owners \union {NoOwner}, scopes : SUBSET Scopes,
                                       exp : Nat, revoked : BOOLEAN,
                                       root : TokenIds \union {NoToken}]]
           /\ RootsGrant'
           /\ \A u \in TokenIds : token[u].kind # "none" => token'[u] = token[u]
  <1> DEFINE new == [row EXCEPT !.exp = day + days]
  <1>1. token[t] = NoRow /\ token' = [token EXCEPT ![t] = new] /\ day + days \in Nat
    BY TokensAssumption DEF NewToken, TokensInv, TokensTypeOK
  <1>2. new \in [kind : {"api", "metrics"}, owner : Owners \union {NoOwner},
                 scopes : SUBSET Scopes, exp : Nat, revoked : BOOLEAN, root : TokenIds]
    BY <1>1
  <1>3. /\ new.kind = row.kind /\ new.scopes = row.scopes
        /\ new.root = row.root /\ new.owner = row.owner
    OBVIOUS
  <1>4. Reach(new) = Reach(row)
    BY <1>3, SameGrant
  <1> HIDE DEF new
  <1>5. \A u \in TokenIds : u # t => token'[u] = token[u]
    BY <1>1 DEF TokensInv, TokensTypeOK
  <1>6. token'[t] = new
    BY <1>1 DEF TokensInv, TokensTypeOK
  <1>7. token[t].kind = "none"
    BY <1>1 DEF NoRow
  <1>8. RootsGrant'
    <2> SUFFICES ASSUME NEW u \in TokenIds, token'[u].kind # "none"
                 PROVE  /\ token'[u].root \in TokenIds
                        /\ token'[token'[u].root].kind = token'[u].kind
                        /\ token'[token'[u].root].owner = token'[u].owner
                        /\ Reach(token'[u]) \subseteq Reach(token'[token'[u].root])
      BY DEF RootsGrant, Reach, GrantedFor
    <2>1. CASE u # t
      <3>1. /\ token[u].root \in TokenIds
            /\ token[token[u].root].kind = token[u].kind
            /\ token[token[u].root].owner = token[u].owner
            /\ Reach(token[u]) \subseteq Reach(token[token[u].root])
        BY <1>5, <2>1 DEF TokensInv, RootsGrant
      <3>2. token[u].root # t
        BY <3>1, <2>1, <1>5, <1>7
      <3>3. QED
        BY <3>1, <3>2, <2>1, <1>5
    <2>2. CASE u = t /\ row.root = t
      BY <2>2, <1>2, <1>3, <1>6
    <2>3. CASE u = t /\ row.root # t
      <3>1. token'[row.root] = token[row.root]
        BY <2>3, <1>5
      <3>2. QED
        BY <2>3, <3>1, <1>2, <1>3, <1>4, <1>6
    <2>4. QED
      BY <2>1, <2>2, <2>3
  <1>9. QED
    BY <1>1, <1>2, <1>5, <1>7, <1>8 DEF TokensInv, TokensTypeOK

\* Requests that are let in (check_api_token) or have ended keep within what they are granted for.
LEMMA RequestsKept ==
    ASSUME TokensInv, NEW w \in Servers, bearer[w].request # "none", Done(w),
           \A u \in TokenIds : token[u].kind # "none" => /\ token'[u].kind = token[u].kind
                                                       /\ token'[u].scopes = token[u].scopes
    PROVE  RequestsGranted'
  <1> SUFFICES ASSUME NEW v \in Servers, bearer'[v].request # "none"
               PROVE  /\ bearer'[v].token \in TokenIds
                      /\ token'[bearer'[v].token].kind # "none"
                      /\ bearer'[v].request \in Reach(token'[bearer'[v].token])
    BY DEF RequestsGranted, Reach, GrantedFor
  <1>1. bearer'[v] = bearer[v]
    BY DoneKeeps
  <1>2. /\ bearer[v].token \in TokenIds
        /\ token[bearer[v].token].kind # "none"
        /\ bearer[v].request \in Reach(token[bearer[v].token])
    BY <1>1 DEF TokensInv, RequestsGranted
  <1>3. Reach(token'[bearer[v].token]) = Reach(token[bearer[v].token])
    BY <1>2, SameGrant
  <1>4. QED
    BY <1>1, <1>2, <1>3

\* Revoking a row takes nothing from what it says of others.
LEMMA RevokeKeeps ==
    ASSUME TokensInv, NEW t \in TokenIds, RevokeRow(t)
    PROVE  /\ token' \in [TokenIds -> [kind : {"none", "api", "metrics"},
                                       owner : Owners \union {NoOwner}, scopes : SUBSET Scopes,
                                       exp : Nat, revoked : BOOLEAN,
                                       root : TokenIds \union {NoToken}]]
           /\ \A u \in TokenIds : /\ token'[u].kind = token[u].kind
                                  /\ token'[u].owner = token[u].owner
                                  /\ token'[u].scopes = token[u].scopes
                                  /\ token'[u].root = token[u].root
           /\ RootsGrant'
  <1>1. /\ token' \in [TokenIds -> [kind : {"none", "api", "metrics"},
                                    owner : Owners \union {NoOwner}, scopes : SUBSET Scopes,
                                    exp : Nat, revoked : BOOLEAN,
                                    root : TokenIds \union {NoToken}]]
        /\ \A u \in TokenIds : /\ token'[u].kind = token[u].kind
                               /\ token'[u].owner = token[u].owner
                               /\ token'[u].scopes = token[u].scopes
                               /\ token'[u].root = token[u].root
    <2>1. ASSUME NEW u \in TokenIds
          PROVE  /\ token'[u].kind = token[u].kind
                 /\ token'[u].owner = token[u].owner
                 /\ token'[u].scopes = token[u].scopes
                 /\ token'[u].root = token[u].root
      BY DEF RevokeRow, TokensInv, TokensTypeOK
    <2>2. token[t] \in [kind : {"none", "api", "metrics"}, owner : Owners \union {NoOwner},
                        scopes : SUBSET Scopes, exp : Nat, revoked : BOOLEAN,
                        root : TokenIds \union {NoToken}]
      BY DEF TokensInv, TokensTypeOK
    <2>3. token' = [token EXCEPT ![t] = [token[t] EXCEPT !.revoked = TRUE]]
      BY DEF RevokeRow, TokensInv, TokensTypeOK
    <2>4. [token[t] EXCEPT !.revoked = TRUE]
             \in [kind : {"none", "api", "metrics"}, owner : Owners \union {NoOwner},
                  scopes : SUBSET Scopes, exp : Nat, revoked : BOOLEAN,
                  root : TokenIds \union {NoToken}]
      BY <2>2
    <2>5. QED
      BY <2>1, <2>3, <2>4 DEF TokensInv, TokensTypeOK
  <1>2. ASSUME NEW u \in TokenIds, token'[u].kind # "none"
        PROVE  /\ token'[u].root \in TokenIds
               /\ token'[token'[u].root].kind = token'[u].kind
               /\ token'[token'[u].root].owner = token'[u].owner
               /\ Reach(token'[u]) \subseteq Reach(token'[token'[u].root])
    <2>1. /\ token[u].root \in TokenIds
          /\ token[token[u].root].kind = token[u].kind
          /\ token[token[u].root].owner = token[u].owner
          /\ Reach(token[u]) \subseteq Reach(token[token[u].root])
      BY <1>1, <1>2 DEF TokensInv, RootsGrant
    <2>2. Reach(token'[u]) = Reach(token[u])
      BY <1>1, SameGrant
    <2>3. Reach(token'[token[u].root]) = Reach(token[token[u].root])
      BY <1>1, <2>1, SameGrant
    <2>4. QED
      BY <1>1, <2>1, <2>2, <2>3
  <1>3. RootsGrant'
    BY <1>2 DEF RootsGrant, Reach, GrantedFor
  <1>4. QED
    BY <1>1, <1>3

\* What leaves the rows alone leaves alone what they are granted for.
LEMMA SameRows ==
    ASSUME TokensInv, token' = token
    PROVE  RootsGrant' /\ (bearer' = bearer => RequestsGranted')
  <1>1. ASSUME NEW t \in TokenIds, token'[t].kind # "none"
        PROVE  /\ token'[t].root \in TokenIds
               /\ token'[token'[t].root].kind = token'[t].kind
               /\ token'[token'[t].root].owner = token'[t].owner
               /\ Reach(token'[t]) \subseteq Reach(token'[token'[t].root])
    BY <1>1 DEF TokensInv, RootsGrant
  <1>2. RootsGrant'
    BY <1>1 DEF RootsGrant, Reach, GrantedFor
  <1>3. ASSUME bearer' = bearer, NEW w \in Servers, bearer'[w].request # "none"
        PROVE  /\ bearer'[w].token \in TokenIds
               /\ token'[bearer'[w].token].kind # "none"
               /\ bearer'[w].request \in Reach(token'[bearer'[w].token])
    BY <1>3 DEF TokensInv, RequestsGranted
  <1>4. ASSUME bearer' = bearer PROVE RequestsGranted'
    BY <1>3, <1>4 DEF RequestsGranted, Reach, GrantedFor
  <1>5. QED
    BY <1>2, <1>4

\* Every operation of the token services and of the pages and requests around them.
LEMMA TokensNextInv == TokensInv /\ [TokensNext]_tokenVars => TokensInv'
  <1> SUFFICES ASSUME TokensInv, [TokensNext]_tokenVars PROVE TokensInv'
    OBVIOUS
  <1>1. ASSUME NEW t \in TokenIds, NEW days \in 1..MaxDays, NEW u \in Owners,
               NEW scopes \in ScopeChoices, CreateBySession(t, u, scopes, days)
        PROVE  TokensInv'
    <2> DEFINE row == [NoRow EXCEPT !.kind = "api", !.owner = u, !.scopes = scopes, !.root = t]
    <2>1. row \in [kind : {"api", "metrics"}, owner : Owners \union {NoOwner},
                   scopes : SUBSET Scopes, exp : Nat, revoked : BOOLEAN, root : TokenIds]
          /\ row.root = t
      BY TokensAssumption DEF NoRow, Scopes
    <2>2. NewToken(t, row, days) /\ UNCHANGED <<activeOwner, day, bearer, beyond>>
      BY <1>1 DEF CreateBySession
    <2> HIDE DEF row
    <2>3. QED
      BY ZenonT(40), <2>1, <2>2, NewRowKeeps
      DEF TokensInv, TokensTypeOK, RequestsGranted, Reach, GrantedFor
  <1>2. ASSUME NEW t \in TokenIds, NEW days \in 1..MaxDays, CreateMetrics(t, days)
        PROVE  TokensInv'
    <2> DEFINE row == [NoRow EXCEPT !.kind = "metrics", !.root = t]
    <2>1. row \in [kind : {"api", "metrics"}, owner : Owners \union {NoOwner},
                   scopes : SUBSET Scopes, exp : Nat, revoked : BOOLEAN, root : TokenIds]
          /\ row.root = t
      BY TokensAssumption DEF NoRow, Scopes
    <2>2. NewToken(t, row, days) /\ UNCHANGED <<activeOwner, day, bearer, beyond>>
      BY <1>2 DEF CreateMetrics
    <2> HIDE DEF row
    <2>3. QED
      BY <2>1, <2>2, NewRowKeeps
      DEF TokensInv, TokensTypeOK, RequestsGranted, Reach, GrantedFor
  <1>3. ASSUME NEW w \in Servers, NEW t \in TokenIds, NEW scopes \in ScopeChoices,
               NEW days \in 1..MaxDays, CreateByToken(w, t, scopes, days)
        PROVE  TokensInv'
    <2> DEFINE parent == token[bearer[w].token]
               row == [parent EXCEPT !.scopes = scopes, !.revoked = FALSE]
    <2>1. bearer[w].request = "users.api_tokens" /\ NewToken(t, row, days) /\ Done(w)
          /\ UNCHANGED <<activeOwner, day>>
      BY <1>3 DEF CreateByToken
    <2>2. /\ bearer[w].token \in TokenIds /\ parent.kind # "none"
          /\ "users.api_tokens" \in Reach(parent)
      BY <2>1 DEF TokensInv, RequestsGranted
    <2>3. /\ parent.root \in TokenIds /\ token[parent.root].kind = parent.kind
          /\ token[parent.root].owner = parent.owner
          /\ Reach(parent) \subseteq Reach(token[parent.root])
      BY <2>2 DEF TokensInv, RootsGrant
    <2>4. parent.kind = "api"
      <3>1. parent.kind \in {"none", "api", "metrics"}
        BY <2>2 DEF TokensInv, TokensTypeOK
      <3>2. QED
        BY <2>2, <3>1 DEF Reach, GrantedFor
    <2>5. row \in [kind : {"api", "metrics"}, owner : Owners \union {NoOwner},
                   scopes : SUBSET Scopes, exp : Nat, revoked : BOOLEAN, root : TokenIds]
      <3>1. parent \in [kind : {"none", "api", "metrics"}, owner : Owners \union {NoOwner},
                        scopes : SUBSET Scopes, exp : Nat, revoked : BOOLEAN,
                        root : TokenIds \union {NoToken}]
        BY <2>2 DEF TokensInv, TokensTypeOK
      <3>2. scopes \in SUBSET Scopes
        BY TokensAssumption DEF Scopes
      <3> HIDE DEF parent
      <3>3. QED
        BY <2>3, <2>4, <3>1, <3>2
    <2>6. TokenRequests \subseteq Reach(token[parent.root])
      <3>1. Reach(parent) = TokenRequests
        BY <2>2, <2>4 DEF Reach, GrantedFor, TokenRequests
      <3>2. QED
        BY <2>3, <3>1
    <2>7. row.kind = "api" /\ row.root = parent.root /\ row.owner = parent.owner
      BY <2>2, <2>4 DEF TokensInv, TokensTypeOK
    <2>8. Reach(row) \subseteq TokenRequests
      BY <2>7 DEF Reach, GrantedFor, TokenRequests
    <2> HIDE DEF row, parent
    <2>9. /\ token[row.root].kind = row.kind /\ token[row.root].owner = row.owner
          /\ Reach(row) \subseteq Reach(token[row.root])
      BY <2>3, <2>4, <2>6, <2>7, <2>8
    <2>10. /\ RootsGrant'
           /\ token' \in [TokenIds -> [kind : {"none", "api", "metrics"},
                                       owner : Owners \union {NoOwner}, scopes : SUBSET Scopes,
                                       exp : Nat, revoked : BOOLEAN,
                                       root : TokenIds \union {NoToken}]]
           /\ \A u \in TokenIds : token[u].kind # "none" => token'[u] = token[u]
      BY <2>1, <2>5, <2>9, NewRowKeeps
    <2>11. RequestsGranted'
      BY <2>1, <2>10, RequestsKept
    <2>12. QED
      BY <2>1, <2>10, <2>11, DoneKeeps DEF TokensInv, TokensTypeOK
  <1>4. ASSUME NEW w \in Servers, NEW t \in TokenIds, NEW r \in TokenRequests \union {"metrics"},
               Admit(w, t, r)
        PROVE  TokensInv'
    <2>1. r \in Reach(token[t]) /\ token[t].kind # "none"
      <3>1. CASE token[t].kind = "api"
        BY <1>4, <3>1, ScopesGrant DEF Admit
      <3>2. CASE token[t].kind = "metrics"
        BY <1>4, <3>2 DEF Admit, Reach, GrantedFor, TokenRequests, HasScope
      <3>3. QED
        BY <1>4, <3>1, <3>2 DEF Admit
    <2>2. bearer' = [bearer EXCEPT ![w] = [token |-> t, request |-> r]]
          /\ UNCHANGED <<token, activeOwner, day, beyond>>
      BY <1>4 DEF Admit
    <2>3. RequestsGranted'
      BY <2>1, <2>2 DEF TokensInv, TokensTypeOK, RequestsGranted, Reach, GrantedFor
    <2>4. QED
      BY <2>2, <2>3, SameRows DEF TokensInv, TokensTypeOK
  <1>5. ASSUME NEW w \in Servers, ServeRequest(w) \/ RefuseRequest(w) PROVE TokensInv'
    <2>1. Done(w) /\ bearer[w].request # "none" /\ UNCHANGED <<token, activeOwner, day>>
      BY <1>5 DEF ServeRequest, RefuseRequest
    <2>2. RequestsGranted'
      BY <2>1, RequestsKept
    <2>3. QED
      BY <2>1, <2>2, SameRows, DoneKeeps DEF TokensInv, TokensTypeOK
  <1>6. ASSUME NEW w \in Servers, NEW t \in TokenIds, RevokeByToken(w, t) PROVE TokensInv'
    <2>1. Done(w) /\ bearer[w].request # "none" /\ RevokeRow(t) /\ UNCHANGED <<activeOwner, day>>
      BY <1>6 DEF RevokeByToken
    <2>2. RequestsGranted'
      BY <2>1, RevokeKeeps, RequestsKept
    <2>3. QED
      BY <2>1, <2>2, RevokeKeeps, DoneKeeps DEF TokensInv, TokensTypeOK
  <1>7. ASSUME NEW t \in TokenIds, RevokeBySession(t) PROVE TokensInv'
    <2>1. RevokeRow(t) /\ UNCHANGED <<activeOwner, day, bearer, beyond>>
      BY <1>7 DEF RevokeBySession
    <2>2. ASSUME NEW v \in Servers, bearer[v].request # "none"
          PROVE  /\ bearer[v].token \in TokenIds
                 /\ token'[bearer[v].token].kind # "none"
                 /\ bearer[v].request \in Reach(token'[bearer[v].token])
      BY <2>1, <2>2, RevokeKeeps, SameGrant DEF TokensInv, RequestsGranted
    <2>3. RequestsGranted'
      BY <2>1, <2>2 DEF RequestsGranted, Reach, GrantedFor
    <2>4. QED
      BY <2>1, <2>3, RevokeKeeps DEF TokensInv, TokensTypeOK
  <1>8. ASSUME NEW u \in Owners, ToggleOwner(u) PROVE TokensInv'
    BY <1>8, SameRows DEF ToggleOwner, TokensInv, TokensTypeOK
  <1>9. CASE TickDay
    BY <1>9, SameRows, TokensAssumption DEF TickDay, TokensInv, TokensTypeOK
  <1>10. CASE UNCHANGED tokenVars
    BY <1>10, SameRows DEF tokenVars, TokensInv, TokensTypeOK
  <1>11. QED
    BY <1>1, <1>2, <1>3, <1>4, <1>5, <1>6, <1>7, <1>8, <1>9, <1>10 DEF TokensNext

\* The rows of both kinds of tokens, the requests and the history keep their types.
THEOREM TokensTypeCorrect == TokensSpec => []TokensTypeOK
  <1>1. TokensInv => TokensTypeOK
    BY DEF TokensInv
  <1>2. QED
    BY <1>1, TokensInitInv, TokensNextInv, PTL DEF TokensSpec

\* Tokens that make tokens that make tokens never get further than the scopes of the first, but for
\* their owner's own password and second factor, and never to another account (required_scope,
\* has_scope, api_tokens).
THEOREM NoEscalationHolds == TokensSpec => []NoEscalation
  <1>1. TokensInv => NoEscalation
    BY DEF TokensInv, RootsGrant, NoEscalation
  <1>2. QED
    BY <1>1, TokensInitInv, TokensNextInv, PTL DEF TokensSpec
=============================================================================
