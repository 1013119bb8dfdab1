---------------------------- MODULE SecondFactor ----------------------------
(***************************************************************************)
(* Login of one user: the password and its lockout, the second factor with *)
(* its recovery codes, and switching the second factor on and off.         *)
(*                                                                         *)
(* A request works on copies: of the user's row, whose counters it writes  *)
(* back after the password has been hashed, and of its session, which      *)
(* Django stores as a whole at the end.  Only the recovery codes are read  *)
(* under a lock.  login() gives the session a new key, so that what other  *)
(* requests of the old key store is refused.                               *)
(***************************************************************************)
EXTENDS Naturals

CONSTANTS
    Sessions,   \* browsers
    Visits,     \* requests under way at a time
    Codes,      \* the RECOVERY_CODE_COUNT codes of a setup
    Threshold,  \* LOGIN_LOCKOUT_THRESHOLD
    MaxTries,   \* MAX_PRE_2FA_ATTEMPTS
    MaxFailed,  \* bound on the wrong passwords in a row
    Nobody

ASSUME SecondFactorAssumption ==
    /\ Sessions # {}
    /\ Nobody \notin Visits
    /\ Threshold \in Nat \ {0}
    /\ MaxTries \in Nat \ {0}
    /\ MaxFailed \in Nat

VARIABLES
    user,     \* the row: failed_login_attempts, locked_until, totp_enabled
    codes,    \* [Codes -> "none", "unused" or "used"]
    holder,   \* the request that has locked the unused codes
    session,  \* [Sessions -> the stored session]
    visit,    \* [Visits -> the request]
    entered,  \* [Codes -> how often a code has been accepted since its creation]
    wrong,    \* wrong passwords since the last right one
    overlap   \* what has overlapped: "login", "totp"; "lost": a request died

loginVars == <<user, codes, holder, session, visit, entered, wrong, overlap>>

Steps == {"idle", "password", "right", "code", "codes", "accepted",
          "enable", "delete", "create", "disable", "drop"}

LoginTypeOK ==
    /\ user \in [failed : Nat, locked : BOOLEAN, totp : BOOLEAN]
    /\ codes \in [Codes -> {"none", "unused", "used"}]
    /\ holder \in Visits \cup {Nobody}
    /\ session \in [Sessions -> [at : {"anon", "pre", "in"}, attempts : Nat]]
    /\ visit \in [Visits -> [step : Steps, s : Sessions, copy : Nat,
                             totp : BOOLEAN, live : BOOLEAN, seen : SUBSET Codes]]
    /\ entered \in [Codes -> 0 .. 2]
    /\ wrong \in Nat
    /\ overlap \subseteq {"login", "totp", "lost"}

Free == [step |-> "idle", s |-> CHOOSE s \in Sessions : TRUE, copy |-> 0,
         totp |-> FALSE, live |-> TRUE, seen |-> {}]
Anonymous == [at |-> "anon", attempts |-> 0]

LoginInit ==
    /\ user = [failed |-> 0, locked |-> FALSE, totp |-> FALSE]
    /\ codes = [c \in Codes |-> "none"]
    /\ holder = Nobody
    /\ session = [s \in Sessions |-> Anonymous]
    /\ visit = [v \in Visits |-> Free]
    /\ entered = [c \in Codes |-> 0]
    /\ wrong = 0
    /\ overlap = {}

LoginSteps == {"password", "right"}
TotpSteps == {"enable", "delete", "create", "disable", "drop"}

Goto(v, step) == visit' = [visit EXCEPT ![v].step = step]
Ends(v) == visit' = [visit EXCEPT ![v] = Free]

\* A request of session s comes in.
Comes(v, s, step, copy) ==
    /\ visit[v].step = "idle"
    /\ visit' = [visit EXCEPT ![v] = [Free EXCEPT !.step = step, !.s = s, !.copy = copy]]

\* It may overlap with one that is at one of the steps.
Overlaps(kind, steps) ==
    overlap' = IF \E w \in Visits : visit[w].step \in steps THEN overlap \cup {kind} ELSE overlap

\* login(), logout(): the requests of the old key can store no session any more.
NewKey(v, s) ==
    [w \in Visits |-> IF w = v THEN Free
                      ELSE IF visit[w].s = s THEN [visit[w] EXCEPT !.live = FALSE] ELSE visit[w]]

-----------------------------------------------------------------------------
(* login_view *)

\* The candidate is loaded and not locked out; else nothing happens.
LoadCandidate(v, s) ==
    /\ session[s].at # "in" /\ ~user.locked /\ user.failed < MaxFailed
    /\ Comes(v, s, "password", user.failed) /\ Overlaps("login", LoginSteps)
    /\ UNCHANGED <<user, codes, holder, session, entered, wrong>>

\* A faulty variant: a lock that has expired starts the count again.
FailedLoginRestarts(v) ==
    LET failed == (IF visit[v].copy >= Threshold THEN 0 ELSE visit[v].copy) + 1 IN
    /\ visit[v].step = "password" /\ wrong < MaxFailed
    /\ user' = [user EXCEPT !.failed = failed, !.locked = (failed >= Threshold)]
    /\ wrong' = wrong + 1
    /\ Ends(v)
    /\ UNCHANGED <<codes, holder, session, entered, overlap>>

\* Wrong password, _register_failed_login: both columns are written from the copy.
FailedLogin(v) ==
    LET failed == visit[v].copy + 1 IN
    /\ visit[v].step = "password" /\ wrong < MaxFailed
    /\ user' = [user EXCEPT !.failed = failed, !.locked = (failed >= Threshold)]
    /\ wrong' = wrong + 1
    /\ Ends(v)
    /\ UNCHANGED <<codes, holder, session, entered, overlap>>

\* authenticate loads the row again.
RightPassword(v) ==
    /\ visit[v].step = "password"
    /\ visit' = [visit EXCEPT ![v].step = "right", ![v].copy = user.failed, ![v].totp = user.totp]
    /\ UNCHANGED <<user, codes, holder, session, entered, wrong, overlap>>

\* _register_successful_login writes if its copy has something to clear, then
\* _complete_login: logged in, or the second factor comes first.
PasswordLogin(v) ==
    LET s == visit[v].s IN
    /\ visit[v].step = "right"
    /\ user' = IF visit[v].copy > 0 THEN [user EXCEPT !.failed = 0, !.locked = FALSE] ELSE user
    /\ wrong' = 0
    /\ IF visit[v].totp
       THEN /\ session' = IF visit[v].live
                          THEN [session EXCEPT ![s] = [Anonymous EXCEPT !.at = "pre"]] ELSE session
            /\ Ends(v)
       ELSE /\ session' = [session EXCEPT ![s] = [Anonymous EXCEPT !.at = "in"]]
            /\ visit' = NewKey(v, s)
    /\ UNCHANGED <<codes, holder, entered, overlap>>

\* Fifteen minutes pass.
LockExpires ==
    /\ user.locked
    /\ user' = [user EXCEPT !.locked = FALSE]
    /\ UNCHANGED <<codes, holder, session, visit, entered, wrong, overlap>>

Logout(s) ==
    /\ session[s].at = "in"
    /\ session' = [session EXCEPT ![s] = Anonymous]
    /\ visit' = NewKey(Nobody, s)
    /\ UNCHANGED <<user, codes, holder, entered, wrong, overlap>>

-----------------------------------------------------------------------------
(* totp_verify *)

VerifyBegins(v, s) ==
    /\ session[s].at = "pre"
    /\ Comes(v, s, "code", session[s].attempts)
    /\ UNCHANGED <<user, codes, holder, session, entered, wrong, overlap>>

\* verify_totp with the secret of the row; an empty one has its right code, too.
RightCode(v) ==
    /\ visit[v].step = "code"
    /\ Goto(v, "accepted")
    /\ UNCHANGED <<user, codes, holder, session, entered, wrong, overlap>>

Unused == {c \in Codes : codes[c] = "unused"}

\* A faulty variant: the codes are read without select_for_update.
ReadCodes(v) ==
    /\ visit[v].step = "code"
    /\ visit' = [visit EXCEPT ![v].step = "codes", ![v].seen = Unused]
    /\ UNCHANGED <<user, codes, holder, session, entered, wrong, overlap>>

\* check_recovery_code locks the unused codes, waiting for whoever holds them.
LockCodes(v) ==
    /\ visit[v].step = "code" /\ holder = Nobody
    /\ visit' = [visit EXCEPT ![v].step = "codes", ![v].seen = Unused]
    /\ holder' = IF Unused = {} THEN Nobody ELSE v
    /\ UNCHANGED <<user, codes, session, entered, wrong, overlap>>

Release(v) == holder' = IF holder = v THEN Nobody ELSE holder

\* The hash of one of them matches: it is used, and the transaction commits.
UseCode(v, c) ==
    /\ visit[v].step = "codes" /\ c \in visit[v].seen
    /\ codes' = [codes EXCEPT ![c] = "used"]
    /\ entered' = [entered EXCEPT ![c] = IF @ < 2 THEN @ + 1 ELSE @]
    /\ Release(v)
    /\ Goto(v, "accepted")
    /\ UNCHANGED <<user, session, wrong, overlap>>

\* _finish_2fa_login
SecondLogin(v) ==
    /\ visit[v].step = "accepted"
    /\ session' = [session EXCEPT ![visit[v].s] = [Anonymous EXCEPT !.at = "in"]]
    /\ visit' = NewKey(v, visit[v].s)
    /\ UNCHANGED <<user, codes, holder, entered, wrong, overlap>>

\* No code matches, _register_2fa_failure: the session counts, or is thrown back
\* to the password.
WrongCode(v) ==
    LET s == visit[v].s
        attempts == visit[v].copy + 1
    IN
    /\ visit[v].step = "codes"
    /\ Release(v) /\ Ends(v)
    /\ session' = IF ~visit[v].live THEN session
                  ELSE IF attempts >= MaxTries THEN [session EXCEPT ![s] = Anonymous]
                  ELSE [session EXCEPT ![s] = [at |-> "pre", attempts |-> attempts]]
    /\ UNCHANGED <<user, codes, entered, wrong, overlap>>

-----------------------------------------------------------------------------
(* totp_setup, totp_disable *)

\* A right code for the new secret, when the row says that it is off.
SetupBegins(v, s) ==
    /\ session[s].at = "in" /\ ~user.totp
    /\ Comes(v, s, "enable", 0) /\ Overlaps("totp", TotpSteps)
    /\ UNCHANGED <<user, codes, holder, session, entered, wrong>>

SaveSecret(v) ==
    /\ visit[v].step = "enable"
    /\ user' = [user EXCEPT !.totp = TRUE]
    /\ Goto(v, "delete")
    /\ UNCHANGED <<codes, holder, session, entered, wrong, overlap>>

\* The form knows the password.
DisableBegins(v, s) ==
    /\ session[s].at = "in"
    /\ Comes(v, s, "disable", 0) /\ Overlaps("totp", TotpSteps)
    /\ UNCHANGED <<user, codes, holder, session, entered, wrong>>

ClearSecret(v) ==
    /\ visit[v].step = "disable"
    /\ user' = [user EXCEPT !.totp = FALSE]
    /\ Goto(v, "drop")
    /\ UNCHANGED <<codes, holder, session, entered, wrong, overlap>>

\* A faulty variant: new codes are added to those there are.
KeepOldCodes(v) ==
    /\ visit[v].step \in {"delete", "drop"} /\ holder = Nobody
    /\ IF visit[v].step = "delete" THEN Goto(v, "create") ELSE Ends(v)
    /\ UNCHANGED <<user, codes, entered, holder, session, wrong, overlap>>

\* The codes are deleted once nobody holds them: the end of totp_disable, the
\* beginning of generate_recovery_codes.
DeleteCodes(v) ==
    /\ visit[v].step \in {"delete", "drop"} /\ holder = Nobody
    /\ codes' = [c \in Codes |-> "none"]
    /\ entered' = [c \in Codes |-> 0]
    /\ IF visit[v].step = "delete" THEN Goto(v, "create") ELSE Ends(v)
    /\ UNCHANGED <<user, holder, session, wrong, overlap>>

\* Each code is an INSERT of its own; the last one shows them to the user.
CreateCode(v, c) ==
    /\ visit[v].step = "create" /\ c \notin visit[v].seen
    /\ codes' = [codes EXCEPT ![c] = "unused"]
    /\ entered' = [entered EXCEPT ![c] = 0]
    /\ IF visit[v].seen \cup {c} = Codes
       THEN Ends(v)
       ELSE visit' = [visit EXCEPT ![v].seen = @ \cup {c}]
    /\ UNCHANGED <<user, holder, session, wrong, overlap>>

\* The request dies; its transaction is rolled back.
VisitLost(v) ==
    /\ visit[v].step # "idle"
    /\ Ends(v) /\ Release(v)
    /\ overlap' = overlap \cup {"lost"}
    /\ UNCHANGED <<user, codes, session, entered, wrong>>

LoginNext ==
    \/ \E v \in Visits :
         \/ \E s \in Sessions : LoadCandidate(v, s) \/ VerifyBegins(v, s)
                                  \/ SetupBegins(v, s) \/ DisableBegins(v, s)
         \/ FailedLogin(v) \/ RightPassword(v) \/ PasswordLogin(v)
         \/ RightCode(v) \/ LockCodes(v) \/ SecondLogin(v) \/ WrongCode(v)
         \/ SaveSecret(v) \/ ClearSecret(v) \/ DeleteCodes(v) \/ VisitLost(v)
         \/ \E c \in Codes : UseCode(v, c) \/ CreateCode(v, c)
    \/ \E s \in Sessions : Logout(s)
    \/ LockExpires

LoginSpec == LoginInit /\ [][LoginNext]_loginVars

-----------------------------------------------------------------------------
(* Properties *)

\* A recovery code opens one session at most, although any number of requests
\* compare what is typed with the hashes at the same time.
CodeUsedOnce == \A c \in Codes : entered[c] <= 1

\* The row counts the wrong passwords since the last right one, beyond the lock
\* that it sets at the threshold, unless two logins overlapped or one died.
FailuresCounted ==
    overlap \cap {"login", "lost"} = {} /\ (\A v \in Visits : visit[v].step \notin LoginSteps)
        => user.failed = wrong /\ (user.locked => wrong >= Threshold)

\* The recovery codes of a setup are there, used or not, as long as the second
\* factor is on, and none of them when it is off, unless setups or disablings
\* overlapped or one died between its statements.
CodesWithFactor ==
    overlap \cap {"totp", "lost"} = {} /\ (\A v \in Visits : visit[v].step \notin TotpSteps)
        => \A c \in Codes : codes[c] = "none" <=> ~user.totp

=============================================================================
