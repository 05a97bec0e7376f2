------------------------------ MODULE Issuance ------------------------------
(***************************************************************************)
(* What is issued, and by whom (services/ca_service.py, cert_service.py,   *)
(* policy.py, name_constraints.py, profile_service.py): roots,             *)
(* intermediates, imported authorities, cross-certificates and re-issues;  *)
(* end-entity certificates, their profiles and their renewals.             *)
(*                                                                         *)
(* A request checks, signs and computes its row from what it has read, and *)
(* commits afterwards; meanwhile others commit. A re-issue or a            *)
(* cross-certificate that waits for a second admin is one whose commit is  *)
(* late. A new authority is committed at once: of its parent it has read   *)
(* what never changes, and the end of its validity, which is recorded.     *)
(* Keys, key usages and labels are left out (their checks look at nothing  *)
(* but the request), and so are revocation and the approval of an          *)
(* authority (Revocation): here they may sign longer.                      *)
(***************************************************************************)
EXTENDS Integers, FiniteSets

CONSTANTS
    CaIds, LeafIds,     \* rows of certificate_authorities and certificates
    Names, KindOf,      \* names that are certified, and their kinds (dns, ip, email, uri)
    CaRequests,         \* the authorities that are asked for: path length, constraints, names
    CaImports,          \* the authorities that are imported: path length, constraints, with a key?
    DayChoices,         \* the validities that are asked for
    NameChoices,        \* the sets of names that are asked for
    MaxRootDays, MaxIntermediateDays, MaxLeafDays,
    Profiles, Custom,   \* rows of certificate_profiles, the built-in `custom` among them
    BoundChoices,       \* the bounds that profiles are given
    Clerks,             \* the processes that serve requests
    LastHalfDay, MaxOrders,
    NoAuthority, NoLeaf, Unlimited

\* The unit of the clock is half a day.
Day == 2

ASSUME IssuanceAssumption ==
    /\ NoAuthority \notin CaIds /\ NoLeaf \notin LeafIds /\ Custom \in Profiles
    /\ Unlimited \notin Int /\ IsFiniteSet(CaIds)
    /\ \A ask \in CaRequests \union CaImports : ask.path \in Nat \union {Unlimited}
    /\ \A ask \in CaRequests : ask.names \subseteq Names
    /\ DayChoices \subseteq Nat \ {0} /\ NameChoices \subseteq SUBSET Names
    /\ {MaxRootDays, MaxIntermediateDays, MaxLeafDays, LastHalfDay, MaxOrders} \subseteq Nat

VARIABLES
    authority,  \* certificate_authorities
    leaf,       \* certificates
    crosses,    \* the cross-certificates among ca_certificates
    profile,    \* certificate_profiles
    today,      \* the clock
    desk,       \* what each clerk has signed or decided and not yet committed
    orders,     \* how many requests there have been
    overtaken   \* history: rows that a request relied on were changed before it committed

issuanceVars == <<authority, leaf, crosses, profile, today, desk, orders, overtaken>>

\* `limits` are name constraints, a set of permitted and a set of excluded subtrees, and a subtree
\* is a kind and the names it covers. `cap` is history: the issuer's notAfter when it signed.
NoCa == [exists |-> FALSE, root |-> FALSE, parent |-> NoAuthority, path |-> Unlimited,
         until |-> 0, limits |-> [permitted |-> {}, excluded |-> {}], names |-> {},
         keyed |-> FALSE, imported |-> FALSE, allowed |-> Profiles, cap |-> 0]
NoCert == [ca |-> NoAuthority, names |-> {}, until |-> 0, profile |-> Custom, from |-> NoLeaf,
           forced |-> FALSE, cap |-> 0]
Nothing == [op |-> "none"]

CanSign(c) == authority[c].exists /\ authority[c].keyed /\ authority[c].until > today

---------------------------------------------------------------------------
(* policy.py and name_constraints.py *)

\* bounded_not_after
BoundedNotAfter(days, cap) == IF today + days * Day > cap THEN cap ELSE today + days * Day

\* The clamp of reissue_ca_certificate and cross_sign_ca: whole days, and at least one.
ClampedDays(days, cap) ==
    LET left == (cap - today) \div Day
        most == IF left > 1 THEN left ELSE 1
    IN IF days < most THEN days ELSE most

\* _WITHIN, by kind
Within(n, subtree) == subtree.kind = KindOf[n] /\ n \in subtree.covers

\* check_names: excluded subtrees refuse; permitted ones of the kind, if any, must cover.
Accepts(limits, n) ==
    /\ \A s \in limits.excluded : ~ Within(n, s)
    /\ \/ \A s \in limits.permitted : s.kind # KindOf[n]
       \/ \E s \in limits.permitted : Within(n, s)

\* The authorities of a chain, c first, and how far above c each is.
Above(c) ==
    LET up[k \in 0..Cardinality(CaIds)] ==
            IF k = 0 THEN c
            ELSE IF up[k - 1] = NoAuthority THEN NoAuthority ELSE authority[up[k - 1]].parent
    IN {[ca |-> up[k], height |-> k] : k \in {j \in DOMAIN up : up[j] # NoAuthority}}

EnforceIssuerOnly(c, names) == \A n \in names : Accepts(authority[c].limits, n)  \* no walk

\* enforce: the constraints of the issuer and of everyone above it
Enforce(c, names) ==
    \A a \in Above(c), n \in names : Accepts(authority[a.ca].limits, n)

\* PKI-6: at most one less than the issuer's
ClampPath(wanted, parent) ==
    IF parent = Unlimited THEN wanted
    ELSE IF wanted = Unlimited THEN parent - 1
    ELSE IF wanted > parent - 1 THEN parent - 1 ELSE wanted

HasRoomAlways(c) == TRUE                        \* a path length of 0 is not looked at

HasRoom(c) == authority[c].path # Unlimited => authority[c].path > 0

---------------------------------------------------------------------------
(* Requests *)

Decision == orders' = orders + 1

Take(w, work) ==
    /\ Decision
    /\ desk' = [desk EXCEPT ![w] = work]
    /\ UNCHANGED <<authority, leaf, crosses, profile, today, overtaken>>

\* A row is added, under the next id.
AddCa(row) ==
    /\ Decision
    /\ \E c \in CaIds : ~ authority[c].exists
    /\ authority' = [authority EXCEPT ![CHOOSE c \in CaIds : ~ authority[c].exists] = row]
    /\ UNCHANGED <<leaf, crosses, profile, today, desk, overtaken>>

\* create_root_ca
CreateRoot(ask, days) ==
    /\ days <= MaxRootDays
    /\ AddCa([NoCa EXCEPT !.exists = TRUE, !.root = TRUE, !.path = ask.path,
                          !.limits = ask.limits, !.names = ask.names, !.keyed = TRUE,
                          !.until = today + days * Day, !.cap = today + days * Day])

\* create_intermediate_ca
CreateIntermediate(p, ask, days) ==
    /\ CanSign(p) /\ HasRoom(p)
    /\ days <= MaxIntermediateDays
    /\ Enforce(p, ask.names)
    /\ AddCa([NoCa EXCEPT !.exists = TRUE, !.parent = p, !.limits = ask.limits,
                          !.path = ClampPath(ask.path, authority[p].path),
                          !.names = ask.names, !.keyed = TRUE,
                          !.until = BoundedNotAfter(days, authority[p].until),
                          !.cap = authority[p].until])

\* import_ca and import_pkcs12, of one certificate: whatever its issuer has put into it. A parent,
\* chosen or found, has signed it; a certificate that is not self-signed may have none here.
ImportCa(p, root, ask, days) ==
    /\ p # NoAuthority => authority[p].exists /\ ~ root
    /\ AddCa([NoCa EXCEPT !.exists = TRUE, !.root = root, !.parent = p, !.path = ask.path,
                          !.limits = ask.limits, !.keyed = ask.keyed, !.imported = TRUE,
                          !.until = today + days * Day, !.cap = today + days * Day])

\* reissue_ca_certificate: by the parent, or by a root itself.
Reissue(w, c, days) ==
    LET p == authority[c].parent
        cap == IF p = NoAuthority THEN today + days * Day ELSE authority[p].until
    IN /\ authority[c].exists
       /\ IF p = NoAuthority
          THEN authority[c].root /\ authority[c].keyed /\ days <= MaxRootDays
          ELSE CanSign(p) /\ ClampedDays(days, cap) <= MaxIntermediateDays
       /\ Take(w, [op |-> "reissue", ca |-> c, cap |-> cap, until |->
             today + Day * IF p = NoAuthority THEN days ELSE ClampedDays(days, cap)])

\* cross_sign_ca: never by an authority below.
CrossSign(w, c, p, days) ==
    /\ authority[c].exists /\ CanSign(p) /\ HasRoom(p)
    /\ \A a \in Above(p) : a.ca # c
    /\ Enforce(p, authority[c].names)
    /\ ClampedDays(days, authority[p].until) <=
          IF authority[c].root THEN MaxRootDays ELSE MaxIntermediateDays
    /\ Take(w, [op |-> "cross", row |->
          [ca |-> c, issuer |-> p, path |-> ClampPath(authority[c].path, authority[p].path),
           until |-> today + Day * ClampedDays(days, authority[p].until),
           cap |-> authority[p].until]])

\* profile_service.enforce; `custom` and a profile that is gone restrict nothing.
Fits(p, names, days) ==
    p # Custom /\ profile[p].exists =>
        /\ \A n \in names : KindOf[n] \in profile[p].bounds.kinds
        /\ days <= profile[p].bounds.days

\* resolve and allowed_for_ca: what a request may name, none at all meaning `custom`
Offered(c, p) == profile[p].exists /\ profile[p].enabled /\ p \in authority[c].allowed

IssuedRow(c, names, days) ==
    [NoCert EXCEPT !.ca = c, !.names = names, !.until = BoundedNotAfter(days, authority[c].until),
                   !.cap = authority[c].until]

RenewedAs(l) == {m \in LeafIds : leaf[m].from = l}

\* What the row of a certificate rests on: that its profile is there, and which renewals its
\* original has.
Basis(row) == [profile |-> profile[row.profile].exists,
               renewals |-> IF row.from = NoLeaf THEN {} ELSE RenewedAs(row.from)]

CertifiedUnder(p) == {l \in LeafIds : leaf[l] # NoCert /\ leaf[l].profile = p}

\* create_certificate and sign_csr behind their routes' resolve
Issue(w, c, names, days, p) ==
    /\ CanSign(c) /\ Offered(c, p)
    /\ Fits(p, names, days) /\ Enforce(c, names)
    /\ days <= MaxLeafDays
    /\ LET row == [IssuedRow(c, names, days) EXCEPT !.profile = p]
       IN Take(w, [op |-> "leaf", row |-> row, basis |-> Basis(row)])

RenewableAgain(l, force) == TRUE                   \* nobody asks for the renewals there are

Renewable(l, force) == RenewedAs(l) = {} \/ force

\* renew_certificate: the CA's allow-list is not asked again.
Renew(w, l, days, force) ==
    LET old == leaf[l]
        row == [IssuedRow(old.ca, old.names, days) EXCEPT !.profile = old.profile, !.from = l,
                                                         !.forced = force]
    IN /\ old # NoCert /\ CanSign(old.ca)
       /\ Renewable(l, force)
       /\ profile[old.profile].exists => profile[old.profile].enabled
       /\ Fits(old.profile, old.names, days) /\ Enforce(old.ca, old.names)
       /\ days <= MaxLeafDays
       /\ Take(w, [op |-> "leaf", row |-> row, basis |-> Basis(row)])

\* profile_delete: not a built-in, nor one that certificates refer to
DeleteProfile(w, p) ==
    /\ p # Custom /\ profile[p].exists
    /\ CertifiedUnder(p) = {}
    /\ Take(w, [op |-> "drop", profile |-> p, users |-> CertifiedUnder(p)])

---------------------------------------------------------------------------
(* Commits *)

Finish(w) ==
    /\ desk' = [desk EXCEPT ![w] = Nothing]
    /\ UNCHANGED <<today, orders>>

\* A certificate is committed; has its original got another renewal, or lost its profile, meanwhile?
CommitLeaf(w, l) ==
    LET row == desk[w].row
    IN /\ desk[w].op = "leaf"
       /\ l = (CHOOSE m \in LeafIds : \A k \in LeafIds : leaf[k] = NoCert => leaf[m] = NoCert)
       /\ leaf[l] = NoCert
       /\ leaf' = [leaf EXCEPT ![l] = row]
       /\ overtaken' = (overtaken \/ desk[w].basis # Basis(row))
       /\ Finish(w)
       /\ UNCHANGED <<authority, crosses, profile>>

CommitReissue(w) ==
    /\ desk[w].op = "reissue"
    /\ authority' = [authority EXCEPT ![desk[w].ca].until = desk[w].until,
                                      ![desk[w].ca].cap = desk[w].cap]
    /\ Finish(w)
    /\ UNCHANGED <<leaf, crosses, profile, overtaken>>

CommitCross(w) ==
    /\ desk[w].op = "cross"
    /\ crosses' = crosses \union {desk[w].row}
    /\ Finish(w)
    /\ UNCHANGED <<authority, leaf, profile, overtaken>>

CommitDrop(w) ==
    LET p == desk[w].profile
    IN /\ desk[w].op = "drop"
       /\ profile' = [profile EXCEPT ![p].exists = FALSE]
       /\ overtaken' = (overtaken \/ desk[w].users # CertifiedUnder(p))
       /\ Finish(w)
       /\ UNCHANGED <<authority, leaf, crosses>>

\* The request fails between its checks and its commit, or its approval is refused.
Abandon(w) ==
    /\ desk[w] # Nothing
    /\ Finish(w)
    /\ UNCHANGED <<authority, leaf, crosses, profile, overtaken>>

---------------------------------------------------------------------------
(* Decisions of a single step *)

\* set_profiles
SetProfiles(c, allowed) ==
    /\ authority[c].exists /\ authority[c].allowed # allowed /\ Decision
    /\ authority' = [authority EXCEPT ![c].allowed = allowed]
    /\ UNCHANGED <<leaf, crosses, profile, today, desk, overtaken>>

\* create and update, and import_profiles, which does either: profile_new, profile_edit
SaveProfile(p, bounds, enabled) ==
    /\ Decision
    /\ profile' = [profile EXCEPT ![p] = [exists |-> TRUE, enabled |-> enabled, bounds |-> bounds]]
    /\ profile' # profile
    /\ UNCHANGED <<authority, leaf, crosses, today, desk, overtaken>>

\* profile_toggle
ToggleProfile(p) ==
    /\ Decision
    /\ profile[p].exists
    /\ profile' = [profile EXCEPT ![p].enabled = ~ @]
    /\ UNCHANGED <<authority, leaf, crosses, today, desk, overtaken>>

PassHalfDay ==
    /\ today < LastHalfDay
    /\ today' = today + 1
    /\ UNCHANGED <<authority, leaf, crosses, profile, desk, orders, overtaken>>

---------------------------------------------------------------------------

IssuanceInit ==
    /\ authority = [c \in CaIds |-> NoCa]
    /\ leaf = [l \in LeafIds |-> NoCert]
    /\ crosses = {}
    /\ \E bounds \in BoundChoices :
          profile = [p \in Profiles |-> [exists |-> TRUE, enabled |-> TRUE, bounds |-> bounds]]
    /\ today = 0
    /\ desk = [w \in Clerks |-> Nothing]
    /\ orders = 0 /\ overtaken = FALSE

NewAuthority ==
    \E days \in DayChoices :
        \/ \E ask \in CaRequests :
              \/ CreateRoot(ask, days)
              \/ \E p \in CaIds : CreateIntermediate(p, ask, days)
        \/ \E p \in CaIds \union {NoAuthority}, root \in BOOLEAN, ask \in CaImports :
              ImportCa(p, root, ask, days)

Request(w) ==
    \/ \E c \in CaIds, days \in DayChoices :
          \/ Reissue(w, c, days)
          \/ \E p \in CaIds : CrossSign(w, c, p, days)
          \/ \E names \in NameChoices, p \in Profiles : Issue(w, c, names, days, p)
    \/ \E l \in LeafIds, days \in DayChoices, force \in BOOLEAN : Renew(w, l, days, force)
    \/ \E p \in Profiles : DeleteProfile(w, p)

Decide ==
    \/ NewAuthority
    \/ \E c \in CaIds, p \in Profiles : SetProfiles(c, {p})
    \/ \E p \in Profiles, bounds \in BoundChoices, on \in BOOLEAN : SaveProfile(p, bounds, on)
    \/ \E p \in Profiles : ToggleProfile(p)

Commit(w) ==
    \/ \E l \in LeafIds : CommitLeaf(w, l)
    \/ CommitReissue(w) \/ CommitCross(w) \/ CommitDrop(w)
    \/ Abandon(w)

IssuanceNext ==
    \/ orders < MaxOrders /\ Decide
    \/ \E w \in Clerks : orders < MaxOrders /\ desk[w] = Nothing /\ Request(w)
    \/ \E w \in Clerks : Commit(w)
    \/ PassHalfDay

IssuanceSpec == IssuanceInit /\ [][IssuanceNext]_issuanceVars

---------------------------------------------------------------------------

Paths == Nat \union {Unlimited}

\* The rows and the clock are what they should be.
IssuanceTypeOK ==
    /\ \A c \in CaIds : /\ authority[c].parent \in CaIds \union {NoAuthority}
                        /\ authority[c].path \in Paths
                        /\ authority[c].until \in Nat
                        /\ authority[c].names \subseteq Names
                        /\ authority[c].allowed \subseteq Profiles
    /\ \A l \in LeafIds : /\ leaf[l].ca \in CaIds \union {NoAuthority}
                          /\ leaf[l].from \in LeafIds \union {NoLeaf}
                          /\ leaf[l].until \in Nat
    /\ \A x \in crosses : x.ca \in CaIds /\ x.issuer \in CaIds /\ x.path \in Paths
    /\ today \in 0..LastHalfDay /\ orders \in 0..MaxOrders /\ overtaken \in BOOLEAN

\* Path validation of RFC 5280 for what names certify below c, at distance `depth`: no authority of
\* the chain has a shorter path length, and each accepts the names.
Validates(c, depth, names) ==
    \A a \in Above(c) :
        /\ authority[a.ca].path # Unlimited => a.height + depth <= authority[a.ca].path
        /\ \A n \in names : Accepts(authority[a.ca].limits, n)

\* No authority of the chain was imported below another one.
BuiltHere(c) == \A a \in Above(c) : authority[a.ca].imported => authority[a.ca].parent = NoAuthority

\* What is issued "actually chain-validates" (create_intermediate_ca): the checks look at the
\* parent's path length only, and what they let through fits every authority of the chain, as does
\* every name - unless an authority was imported below another one, whose budget its certificate
\* may exceed. Nor does a certificate outlive its issuer as it was when it signed; a re-issue or a
\* cross-certificate made on the issuer's last day may, by less than a day
\* (reissue_ca_certificate counts whole days, at least one).
ChainsVerify ==
    /\ \A c \in CaIds : authority[c].exists /\ BuiltHere(c) =>
          /\ authority[c].parent # NoAuthority =>
                Validates(authority[c].parent, 1, authority[c].names)
          /\ authority[c].until < authority[c].cap + Day
    /\ \A l \in LeafIds : leaf[l] # NoCert =>
          /\ BuiltHere(leaf[l].ca) => Validates(leaf[l].ca, 0, leaf[l].names)
          /\ leaf[l].until <= leaf[l].cap
    /\ \A x \in crosses : BuiltHere(x.issuer) =>
          /\ Validates(x.issuer, 1, authority[x.ca].names)
          /\ x.until < x.cap + Day

\* A certificate has one renewal, unless another was forced, and its profile, which its own
\* renewal will be bound by, still exists - unless a request committed what another one had
\* overtaken (AlreadyRenewed in renew_certificate, usage_counts in delete).
LeavesStayLinked ==
    overtaken \/ \A l \in LeafIds : leaf[l] # NoCert =>
        /\ profile[leaf[l].profile].exists
        /\ Cardinality({m \in RenewedAs(l) : ~ leaf[m].forced}) <= 1
=============================================================================
