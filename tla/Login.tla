------------------------------- MODULE Login --------------------------------
(***************************************************************************)
(* Logging in to one local account (services/auth_service.py,              *)
(* routes/auth.py, services/totp_service.py, the session loader of         *)
(* models/user.py and the Basic Auth hook of app/__init__.py): password,   *)
(* lockout, second factor, session versions and the credential cache that  *)
(* each worker keeps.                                                      *)
(*                                                                         *)
(* A request reads the row, checks a slow hash, and commits the columns it *)
(* has changed. A gunicorn worker serves one request at a time, the shell  *)
(* is one more process, and requests of different processes overlap. A     *)
(* request that is refused and changes nothing is left out. Cookies are in *)
(* the hands of clients, so every cookie ever set may come back.           *)
(***************************************************************************)
EXTENDS Naturals, FiniteSets

CONSTANTS
    Workers,            \* the serving processes
    CommandLine,        \* the process of a `flask users` command
    Threshold,          \* LOGIN_LOCKOUT_THRESHOLD
    LockTime,           \* LOGIN_LOCKOUT_MINUTES, in TOTP steps
    CookieTime,         \* PRE_2FA_TTL_SECONDS, in TOTP steps
    CacheTime,          \* BASIC_AUTH_CACHE_TTL_SECONDS, in TOTP steps
    Require2fa,         \* does REQUIRE_2FA apply to this account?
    MaxLogins,          \* bound on the requests of a behaviour
    MaxClock            \* bound on the clock

ASSUME LoginAssumption ==
    /\ CommandLine \notin Workers
    /\ {Threshold, LockTime, CookieTime, CacheTime, MaxLogins, MaxClock} \subseteq Nat
    /\ Threshold > 0 /\ MaxClock > 0
    /\ Require2fa \in BOOLEAN

VARIABLES
    rec,        \* the account's row
    clock,      \* the current TOTP step
    sessions,   \* the session cookies that have been set
    pre,        \* the cookies of logins that wait for their second factor
    cache,      \* CredentialCache of each worker: the entry of this user, if there is one
    req,        \* the request of each process
    logins,     \* how many requests there have been
    lastPw,     \* the newest password, and
    lastCode,   \* the newest recovery code
    used,       \* history: the TOTP steps and recovery codes accepted of this enrolment
    replayed,   \* history: has one of them been accepted twice?
    guesses,    \* history: wrong passwords and codes since the counter was last cleared
    overlapped  \* history: has a request committed on a row that had changed meanwhile?

loginVars == <<rec, clock, sessions, pre, cache, req, logins, lastPw, lastCode, used, replayed,
               guesses, overlapped>>

Steps == 1..(MaxClock + 1)
Passwords == 0..MaxLogins
RecoveryCodes == 1..MaxLogins
WrongPassword == MaxLogins + 1

\* `lockedUntil` and `lastStep` are 0 for NULL. One recovery code is issued at a time.
LoginRows == [pw : Passwords, mustChange : BOOLEAN, active : BOOLEAN, fails : Nat,
              lockedUntil : Nat, sv : Nat, totp : BOOLEAN, lastStep : 0..(MaxClock + 1),
              codes : SUBSET RecoveryCodes]
RowColumns == {"pw", "mustChange", "active", "fails", "lockedUntil", "sv", "totp", "lastStep",
               "codes"}

\* A session remembers the password it was opened with, and whether a second factor was shown.
SessionCookies == [sv : Nat, pw : Passwords, second : BOOLEAN]
PreCookies == [exp : Nat, pw : Passwords]
NoEntry == [pw |-> 0, exp |-> 0]

FreshRow == [pw |-> 0, mustChange |-> FALSE, active |-> TRUE, fails |-> 0, lockedUntil |-> 0,
             sv |-> 1, totp |-> FALSE, lastStep |-> 0, codes |-> {}]

\* A request at work: what it has read, what it will write, the cookie it hands out, the second
\* factor it was shown, and whether the row has changed meanwhile. It writes and ends ("write"),
\* writes and opens the session ("mint"), or writes and goes on to enter ("clear").
NoRequest == [stage |-> "none", kind |-> "form", seen |-> FreshRow, new |-> FreshRow,
              cookie |-> [sv |-> 0, pw |-> 0, second |-> FALSE], factor |-> {}, wrong |-> FALSE,
              reread |-> FALSE, stale |-> FALSE]
Stages == {"none", "write", "clear", "enter", "mint"}
Kinds == {"form", "basic"}

---------------------------------------------------------------------------

Locked(row) == row.lockedUntil > clock

\* clear_lockout
Cleared(row) == [row EXCEPT !.fails = 0, !.lockedUntil = 0]

FailedOnceMore(row, sole) ==                    \* locks one attempt too late
    IF row.fails < Threshold THEN [row EXCEPT !.fails = @ + 1]
    ELSE [row EXCEPT !.fails = 0, !.lockedUntil = IF sole THEN @ ELSE clock + LockTime]

\* _register_failed_attempt; the only active admin is never locked out.
Failed(row, sole) ==
    IF row.fails + 1 < Threshold THEN [row EXCEPT !.fails = @ + 1]
    ELSE [row EXCEPT !.fails = 0, !.lockedUntil = IF sole THEN @ ELSE clock + LockTime]

BumpedNot(row) == row                           \* the other sessions go on

\* bump_session_version
Bumped(row) == [row EXCEPT !.sv = @ + 1]

\* _clear_totp
WithoutTotp(row) == [row EXCEPT !.totp = FALSE, !.lastStep = 0, !.codes = {}]

AcceptedAgain(row) == {s \in (clock - 1)..(clock + 1) : s \in Steps /\ s >= row.lastStep}
AcceptedAhead(row) == {s \in clock..(clock + 2) : s > row.lastStep}    \* a window of another size

\* verify: the step before the clock's, the clock's and the next one, but none that is not newer
\* than the last one accepted. The code itself stands for its step.
AcceptedSteps(row) == {s \in (clock - 1)..(clock + 1) : s \in Steps /\ s > row.lastStep}

\* consume_recovery_code
WithStep(row, s) == [row EXCEPT !.lastStep = s]
WithoutCode(row, c) == [row EXCEPT !.codes = @ \ {c}]

\* _check_second_factor: the factor shown, and the row once it is accepted.
Factors(row) == {[f |-> {<<"totp", s>>}, row |-> WithStep(row, s)] : s \in AcceptedSteps(row)}
                \union {[f |-> {<<"recovery", c>>}, row |-> WithoutCode(row, c)] : c \in row.codes}

\* load_user: a session whose stamp is not the row's is nobody's.
Honoured(s) == s.sv = rec.sv /\ rec.active

\* A process takes up a request (AtLeisure, below).
Begin(p, r) ==
    /\ req' = [req EXCEPT ![p] = [r EXCEPT !.seen = rec]]
    /\ logins' = logins + 1
    /\ UNCHANGED <<rec, clock, sessions, pre, used, replayed, guesses, overlapped>>

\* put: the password is good in this worker for another while.
Put(w, pw) == cache' = [cache EXCEPT ![w] = [pw |-> pw, exp |-> clock + CacheTime]]

\* drop_user: only the cache of the process itself is within reach.
DropUser(p) == cache' = [w \in Workers |-> IF w = p THEN NoEntry ELSE cache[w]]

Writes(new) == [NoRequest EXCEPT !.stage = "write", !.new = new]

---------------------------------------------------------------------------

\* authenticate with password `pw`, for the login form and for Basic Auth; a right one clears the
\* counter in a commit of its own where there is anything to clear.
Authenticate(w, kind, pw) ==
    /\ ~ Locked(rec)
    /\ \/ /\ pw # rec.pw
          /\ \E sole \in BOOLEAN :
                Begin(w, [Writes(Failed(rec, sole)) EXCEPT !.wrong = TRUE])
       \/ /\ pw = rec.pw /\ rec.active
          /\ Begin(w, [NoRequest EXCEPT
                          !.stage = IF Cleared(rec) = rec THEN "enter" ELSE "clear",
                          !.kind = kind, !.new = Cleared(rec), !.cookie.pw = pw])
    /\ UNCHANGED <<cache, lastPw, lastCode>>

\* login
FormLogin(w, pw) == Authenticate(w, "form", pw)

\* authenticate_basic: a hit of the cache skips authenticate, and with it the lockout; an expired
\* entry is removed.
Hit(w, pw) == cache[w].exp > clock /\ cache[w].pw = pw /\ rec.active
BasicLogin(w, pw) == ~ Hit(w, pw) /\ Authenticate(w, "basic", pw)

\* The gates of check_basic_auth behind the credentials.
BasicServes(row) == ~ row.totp /\ ~ row.mustChange /\ ~ Require2fa

\* The end of a successful login: for the form a session, or a cookie that waits for the second
\* factor; for Basic Auth an entry of the cache. A commit on the way makes the row be read again.
Enter(w) ==
    LET r == req[w]
        row == IF r.reread THEN rec ELSE r.seen
    IN /\ r.stage = "enter"
       /\ req' = [req EXCEPT ![w] = NoRequest]
       /\ \/ /\ r.kind = "basic"
             /\ Put(w, r.cookie.pw)
             /\ UNCHANGED <<sessions, pre>>
          \/ /\ r.kind = "form" /\ row.totp
             /\ pre' = pre \union {[exp |-> clock + CookieTime, pw |-> r.cookie.pw]}
             /\ UNCHANGED <<sessions, cache>>
          \/ /\ r.kind = "form" /\ ~ row.totp
             /\ sessions' = sessions \union
                    {s \in {[sv |-> row.sv, pw |-> r.cookie.pw, second |-> FALSE]} : row.active}
             /\ UNCHANGED <<pre, cache>>
       /\ UNCHANGED <<rec, clock, logins, lastPw, lastCode, used, replayed, guesses, overlapped>>

\* two_factor: a code or recovery code opens the session; a wrong one counts towards the lockout.
\* The cookie names the user and when it expires, not the password or the session version.
SecondFactor(w, k) ==
    /\ k.exp >= clock
    /\ rec.active /\ rec.totp /\ ~ Locked(rec)
    /\ \/ \E sole \in BOOLEAN : Begin(w, [Writes(Failed(rec, sole)) EXCEPT !.wrong = TRUE])
       \/ \E x \in Factors(rec) :
             Begin(w, [NoRequest EXCEPT !.stage = "mint", !.new = Cleared(x.row), !.factor = x.f,
                          !.cookie = [sv |-> rec.sv, pw |-> k.pw, second |-> TRUE]])
    /\ UNCHANGED <<cache, lastPw, lastCode>>

\* change_password: the session goes on under the new version.
ChangePassword(w, s) ==
    /\ Honoured(s)
    /\ Begin(w, [NoRequest EXCEPT !.stage = "mint",
                    !.new = Bumped([rec EXCEPT !.pw = lastPw + 1, !.mustChange = FALSE]),
                    !.cookie = [s EXCEPT !.sv = rec.sv + 1, !.pw = lastPw + 1]])
    /\ lastPw' = lastPw + 1
    /\ DropUser(w)
    /\ UNCHANGED lastCode

\* reset_password by an admin; under dual control (`gated`) the account waits for approval.
ResetPasswordTo(p, gated) ==
    /\ Begin(p, Writes(Bumped(Cleared(
           [rec EXCEPT !.pw = lastPw + 1, !.mustChange = TRUE, !.active = @ /\ ~ gated]))))
    /\ lastPw' = lastPw + 1
    /\ DropUser(p)
    /\ UNCHANGED lastCode

\* `flask users reset-password`
ShellResetPassword == ResetPasswordTo(CommandLine, FALSE)

\* toggle_active and approve_user: whoever becomes active is not locked.
SwitchActive(p) ==
    /\ Begin(p, Writes(IF rec.active THEN [rec EXCEPT !.active = FALSE]
                       ELSE Cleared([rec EXCEPT !.active = TRUE])))
    /\ UNCHANGED <<cache, lastPw, lastCode>>

\* `flask users unlock`
Unlock ==
    /\ Cleared(rec) # rec
    /\ Begin(CommandLine, Writes(Cleared(rec)))
    /\ UNCHANGED <<cache, lastPw, lastCode>>

\* two_factor_setup: one accepted code enrols the device of this session; the others are dropped.
Enrol(w, s) ==
    /\ Honoured(s) /\ ~ rec.totp
    /\ \E x \in AcceptedSteps([rec EXCEPT !.lastStep = 0]) :
          Begin(w, [NoRequest EXCEPT !.stage = "mint", !.factor = {<<"totp", x>>},
                       !.new = Bumped([rec EXCEPT !.totp = TRUE, !.lastStep = x,
                                                  !.codes = {lastCode + 1}]),
                       !.cookie = [s EXCEPT !.sv = rec.sv + 1, !.second = TRUE]])
    /\ lastCode' = lastCode + 1
    /\ DropUser(w)
    /\ UNCHANGED lastPw

\* two_factor_disable: with the second factor itself, unless REQUIRE_2FA asks for it.
DisableTotp(w, s) ==
    /\ Honoured(s) /\ rec.totp /\ ~ Require2fa
    /\ \E x \in Factors(rec) :
          Begin(w, [NoRequest EXCEPT !.stage = "mint", !.factor = x.f,
                       !.new = Bumped(WithoutTotp(x.row)),
                       !.cookie = [s EXCEPT !.sv = rec.sv + 1]])
    /\ DropUser(w)
    /\ UNCHANGED <<lastPw, lastCode>>

\* two_factor_recovery_codes: new codes for old ones.
RegenerateCodes(w, s) ==
    /\ Honoured(s) /\ rec.totp
    /\ \E x \in Factors(rec) :
          Begin(w, [Writes([x.row EXCEPT !.codes = {lastCode + 1}]) EXCEPT !.factor = x.f])
    /\ lastCode' = lastCode + 1
    /\ UNCHANGED <<cache, lastPw>>

\* reset_2fa by an admin: the device is lost.
ResetTotp(p) ==
    /\ rec.totp
    /\ Begin(p, Writes(Bumped(WithoutTotp(rec))))
    /\ DropUser(p)
    /\ UNCHANGED <<lastPw, lastCode>>

\* `flask users reset-2fa`
ShellResetTotp == ResetTotp(CommandLine)

\* What the counter of failures is about starts anew when it is cleared.
CountsAnew(p) == {"fails", "lockedUntil"} \intersect
                     {c \in RowColumns : req[p].new[c] # req[p].seen[c]} # {}
                 /\ req[p].new.fails = 0

\* The commit writes the changed columns, whatever has become of the row.
CommitLogin(p) ==
    LET r == req[p]
        changed == {c \in RowColumns : r.new[c] # r.seen[c]}
        enrols == "totp" \in changed /\ r.new.totp
    IN /\ r.stage \in {"write", "clear", "mint"}
       /\ rec' = [c \in RowColumns |-> IF c \in changed THEN r.new[c] ELSE rec[c]]
       /\ req' = [q \in Workers \union {CommandLine} |->
                     IF q = p
                     THEN IF r.stage = "clear" THEN [r EXCEPT !.stage = "enter", !.reread = TRUE]
                                               ELSE NoRequest
                     ELSE IF req[q] = NoRequest \/ rec' = rec THEN req[q]
                     ELSE [req[q] EXCEPT !.stale = TRUE]]
       /\ sessions' = sessions \union {s \in {r.cookie} : r.stage = "mint"}
       /\ used' = IF "totp" \in changed THEN r.factor ELSE used \union r.factor
       /\ replayed' = (replayed \/ (~ enrols /\ used \intersect r.factor # {}))
       /\ guesses' = IF CountsAnew(p) THEN 0 ELSE IF r.wrong THEN guesses + 1 ELSE guesses
       /\ overlapped' = (overlapped \/ r.stale)
       /\ UNCHANGED <<clock, pre, cache, logins, lastPw, lastCode>>

TickClock ==
    /\ clock < MaxClock
    /\ clock' = clock + 1
    /\ UNCHANGED <<rec, sessions, pre, cache, req, logins, lastPw, lastCode, used, replayed,
                   guesses, overlapped>>

LoginInit ==
    /\ rec = FreshRow
    /\ clock = 1
    /\ sessions = {} /\ pre = {}
    /\ cache = [w \in Workers |-> NoEntry]
    /\ req = [p \in Workers \union {CommandLine} |-> NoRequest]
    /\ logins = 0 /\ lastPw = 0 /\ lastCode = 0
    /\ used = {} /\ replayed = FALSE /\ guesses = 0 /\ overlapped = FALSE

AtLeisure(p) == req[p] = NoRequest /\ logins < MaxLogins

\* What is asked of a worker, and of the command line.
WebRequest(w) ==
    \/ \E pw \in (0..lastPw) \union {WrongPassword} : FormLogin(w, pw) \/ BasicLogin(w, pw)
    \/ \E k \in pre : SecondFactor(w, k)
    \/ \E s \in sessions :
          ChangePassword(w, s) \/ Enrol(w, s) \/ DisableTotp(w, s) \/ RegenerateCodes(w, s)
    \/ SwitchActive(w)
    \/ \E gated \in BOOLEAN : ResetPasswordTo(w, gated)
    \/ ResetTotp(w)
Command == Unlock \/ ShellResetPassword \/ ShellResetTotp

LoginNext ==
    \/ \E w \in Workers : AtLeisure(w) /\ WebRequest(w)
    \/ AtLeisure(CommandLine) /\ Command
    \/ \E w \in Workers : Enter(w)
    \/ \E p \in Workers \union {CommandLine} : CommitLogin(p)
    \/ TickClock

LoginSpec == LoginInit /\ [][LoginNext]_loginVars

---------------------------------------------------------------------------

\* The row, the cookies, the caches and the requests are what they should be.
LoginTypeOK ==
    /\ rec \in LoginRows
    /\ clock \in 1..MaxClock
    /\ sessions \subseteq SessionCookies
    /\ pre \subseteq PreCookies
    /\ cache \in [Workers -> [pw : Passwords, exp : Nat]]
    /\ req \in [Workers \union {CommandLine} ->
                   [stage : Stages, kind : Kinds, seen : LoginRows, new : LoginRows,
                    cookie : SessionCookies, factor : SUBSET ({"totp", "recovery"} \X Nat),
                    wrong : BOOLEAN, reread : BOOLEAN, stale : BOOLEAN]]
    /\ logins \in 0..MaxLogins /\ lastPw \in Passwords /\ lastCode \in 0..MaxLogins
    /\ used \subseteq {"totp", "recovery"} \X Nat
    /\ replayed \in BOOLEAN /\ guesses \in Nat /\ overlapped \in BOOLEAN

\* The counter that concurrent workers read and write back (_register_failed_attempt) loses
\* increments, but not all of them: after at most Threshold wrong guesses in a row without an
\* overlap, and after at most the sum of 1..Threshold with two workers, the account is locked or
\* the counter has been cleared.
LockoutBites ==
    guesses < IF overlapped THEN (Threshold * (Threshold + 1)) \div 2 ELSE Threshold

\* A captured code cannot be replayed inside its window (totp_service.verify), and a recovery code
\* works once (consume_recovery_code), whatever else happens to the enrolment between the two
\* uses; two requests that show one code at the same time are the exception.
CodeWorksOnce == replayed => overlapped

\* Every session that an account with a second factor honours was opened with that factor, or is
\* the one that enrolled it: enrolment drops the others (two_factor_setup, load_user).
SecondFactorKept ==
    ~ overlapped => \A s \in sessions : rec.totp /\ Honoured(s) => s.second

\* What a password opens: an entry of a worker's cache that is still served, and a session.
OldPasswordWorks ==
    \/ \E w \in Workers, pw \in Passwords : Hit(w, pw) /\ BasicServes(rec) /\ pw # rec.pw
    \/ \E s \in sessions : Honoured(s) /\ s.pw # rec.pw

\* "invalidate every other session of `user` (and its Basic-Auth cache entries)"
\* (bump_session_version): a replaced password is worth nothing any more.
OldPasswordsDrop == ~ OldPasswordWorks
=============================================================================
