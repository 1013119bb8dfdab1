---------------------------- MODULE AccountsProofs ----------------------------
(***************************************************************************)
(* Proofs about Accounts, for any number of users, of browsers, of recovery*)
(* codes, of tokens and of requests at a time: the audit log of the roles, *)
(* the lockout and the second factor of the login, the limit of the tokens,*)
(* and the types of the three side by side.                                *)
(***************************************************************************)
EXTENDS Accounts, FiniteSetTheorems, TLAPS

-----------------------------------------------------------------------------
(***************************************************************************)
(* The roles (UserRoles).                                                  *)
(***************************************************************************)

\* A request that has read its target's row holds the row's lock, and the role
\* it has read is still the one of the row.
Held ==
    \A r \in Requests :
        req[r].phase \in {"locked", "saving"} =>
            /\ lock[req[r].target] = r
            /\ req[r].old = role[req[r].target]

\* Only a user who saves a profile has a copy of the row under way.
OwnCopy == \A u \in Users : profile[u] # None => u \in Savers

\* The inductive invariant.
RolesInv == TypeOK /\ Held /\ OwnCopy /\ AuditIsHistory

\* At first no request is under way and the log has nothing to tell.
LEMMA RolesInitInv == Init => RolesInv
<1> SUFFICES ASSUME Init PROVE RolesInv
  OBVIOUS
<1>1. role \in [Users -> Roles] /\ audited = role
  BY DEF Init
<1>2. req \in [Requests -> [phase : {"idle"}, target : Users,
                            new : {Admin}, old : {Admin}]]
  BY DEF Init
<1>3. \A r \in Requests : req[r].phase = "idle"
  BY <1>2
<1>4. TypeOK
  <2>1. req \in [Requests -> [phase : Phases, target : Users,
                              new : Roles, old : Roles]]
    BY <1>2, UserRolesAssumption DEF Phases
  <2>2. /\ lock \in [Users -> Requests \cup {None}]
        /\ profile \in [Users -> Roles \cup {None}]
        /\ gaps \subseteq Users
    BY DEF Init
  <2> QED
    BY <1>1, <2>1, <2>2 DEF TypeOK
<1>5. Held
  BY <1>3 DEF Held
<1>6. OwnCopy /\ AuditIsHistory
  BY <1>1 DEF Init, OwnCopy, AuditIsHistory, Accounted
<1> QED
  BY <1>4, <1>5, <1>6 DEF RolesInv

\* The types are kept by every step of a request.
LEMMA ChangeKeepsTypes ==
    ASSUME NEW r \in Requests, TypeOK, ChangeRole(r)
    PROVE  TypeOK'
<1> USE UserRolesAssumption DEF TypeOK, Phases
<1>1. ASSUME NEW t \in Users, NEW new \in Submitted, Check(r, t, new)
      PROVE  TypeOK'
  <2>1. req' = [req EXCEPT ![r] = [@ EXCEPT !.phase = "checked",
                                          !.target = t, !.new = new]]
    BY <1>1 DEF Check
  <2>2. [req[r] EXCEPT !.phase = "checked", !.target = t, !.new = new]
            \in [phase : Phases, target : Users, new : Roles, old : Roles]
    BY <1>1 DEF Check
  <2> QED
    BY <1>1, <2>1, <2>2 DEF Check
<1>2. CASE LockTarget(r)
  <2>1. req[r].target \in Users /\ role[req[r].target] \in Roles
    OBVIOUS
  <2>2. [req[r] EXCEPT !.phase = "locked", !.old = role[req[r].target]]
            \in [phase : Phases, target : Users, new : Roles, old : Roles]
    <3>1. req[r] \in [phase : Phases, target : Users, new : Roles, old : Roles]
      OBVIOUS
    <3> HIDE DEF TypeOK
    <3> QED
      BY <2>1, <3>1
  <2>3. req' \in [Requests -> [phase : Phases, target : Users,
                              new : Roles, old : Roles]]
    BY <1>2, <2>2 DEF LockTarget
  <2>4. lock' \in [Users -> Requests \cup {None}]
    BY <1>2 DEF LockTarget
  <2> QED
    BY <1>2, <2>3, <2>4 DEF LockTarget
<1>3. CASE Allow(r)
  BY <1>3 DEF Allow
<1>4. CASE Refuse(r)
  BY <1>4 DEF Refuse
<1>5. CASE Commit(r)
  BY <1>5 DEF Commit
<1> QED
  BY <1>1, <1>2, <1>3, <1>4, <1>5 DEF ChangeRole

\* A request changes a role only under the lock, and records what it replaced.
LEMMA ChangeKeepsInv ==
    ASSUME NEW r \in Requests, RolesInv, ChangeRole(r)
    PROVE  RolesInv'
<1>0. TypeOK'
  BY ChangeKeepsTypes DEF RolesInv
<1> USE UserRolesAssumption
    DEF RolesInv, TypeOK, Phases, Held, OwnCopy, AuditIsHistory, Accounted
<1>1. ASSUME NEW t \in Users, NEW new \in Submitted, Check(r, t, new)
      PROVE  RolesInv'
  BY <1>0, <1>1 DEF Check
<1>2. CASE LockTarget(r)
  BY <1>0, <1>2 DEF LockTarget
<1>3. CASE Allow(r)
  BY <1>0, <1>3 DEF Allow
<1>4. CASE Refuse(r)
  BY <1>0, <1>4 DEF Refuse
<1>5. CASE Commit(r)
  <2>1. Held'
    BY <1>5 DEF Commit
  <2>2. AuditIsHistory'
    BY <1>5 DEF Commit
  <2> QED
    BY <1>0, <1>5, <2>1, <2>2 DEF Commit
<1> QED
  BY <1>1, <1>2, <1>3, <1>4, <1>5 DEF ChangeRole

\* A profile is saved over a row that nobody has locked.
LEMMA ProfileKeepsInv ==
    ASSUME NEW u \in Users, RolesInv, EditProfile(u)
    PROVE  RolesInv'
<1> USE UserRolesAssumption
    DEF RolesInv, TypeOK, Phases, Held, OwnCopy, AuditIsHistory, Accounted
<1>1. CASE LoadProfile(u)
  BY <1>1 DEF LoadProfile
<1>2. CASE SaveProfile(u)
  BY <1>2 DEF SaveProfile
<1>3. CASE RejectProfile(u)
  BY <1>3 DEF RejectProfile
<1> QED
  BY <1>1, <1>2, <1>3 DEF EditProfile

\* The invariant holds in every reachable state.
THEOREM RolesInductive == Spec => []RolesInv
<1>1. RolesInv /\ [Next]_vars => RolesInv'
  <2> SUFFICES ASSUME RolesInv, [Next]_vars PROVE RolesInv'
    OBVIOUS
  <2>1. CASE UNCHANGED vars
    BY <2>1 DEF RolesInv, TypeOK, Held, OwnCopy, AuditIsHistory, Accounted, vars
  <2> QED
    BY <2>1, ChangeKeepsInv, ProfileKeepsInv DEF Next
<1> QED
  BY <1>1, RolesInitInv, PTL DEF Spec

\* Roles, requests and the audit log keep their types, for any number of users
\* (models.User, change_user_role).
THEOREM RolesTypeCorrect == Spec => []TypeOK
<1>1. RolesInv => TypeOK
  BY DEF RolesInv
<1> QED
  BY <1>1, RolesInductive, PTL

\* Of change_user_role: concurrent changes of a role are recorded in the order
\* they took effect, each entry beginning where the one before ended.
THEOREM AuditHistory == Spec => []AuditIsHistory
<1>1. RolesInv => AuditIsHistory
  BY DEF RolesInv
<1> QED
  BY <1>1, RolesInductive, PTL

-----------------------------------------------------------------------------
(***************************************************************************)
(* The login (SecondFactor).                                               *)
(***************************************************************************)

\* The steps of check_recovery_code: what a request has seen under the lock is
\* still unused, since only it may use a code and nobody deletes one, and a code
\* that is used has been accepted once.
CodesInv ==
    /\ \A v \in Visits : visit[v].step = "codes" =>
         \A c \in visit[v].seen : holder = v /\ codes[c] = "unused"
    /\ \A c \in Codes : IF codes[c] = "used" THEN entered[c] = 1 ELSE entered[c] = 0

\* Without an overlap one login works on the counter, and its copy is the row.
LoginInv ==
    overlap \cap {"login", "lost"} = {} =>
      /\ user.failed = wrong
      /\ user.locked => wrong >= Threshold
      /\ \A v \in Visits : visit[v].step \in LoginSteps =>
           /\ visit[v].copy = user.failed
           /\ \A w \in Visits : visit[w].step \in LoginSteps => w = v

\* What a request that switches the second factor has made of secret and codes.
Progress(v) ==
    LET there == {c \in Codes : codes[c] # "none"} IN
    /\ visit[v].step \in {"enable", "delete"} => there = {} /\ visit[v].seen = {}
    /\ visit[v].step \in {"delete", "create"} => user.totp
    /\ visit[v].step = "create" => there = visit[v].seen
    /\ visit[v].step = "disable" => \A c \in Codes : codes[c] = "none" <=> ~user.totp
    /\ visit[v].step = "drop" => ~user.totp

\* Without an overlap one request switches it, and the others find it complete.
FactorInv ==
    overlap \cap {"totp", "lost"} = {} =>
      /\ \A v \in Visits : visit[v].step \in TotpSteps =>
           /\ Progress(v)
           /\ \A w \in Visits : visit[w].step \in TotpSteps => w = v
      /\ (\A v \in Visits : visit[v].step \notin TotpSteps) =>
           \A c \in Codes : codes[c] = "none" <=> ~user.totp

AccountInv == LoginTypeOK /\ CodesInv /\ LoginInv /\ FactorInv

-----------------------------------------------------------------------------
Request == [step : Steps, s : Sessions, copy : Nat, totp : BOOLEAN,
            live : BOOLEAN, seen : SUBSET Codes]

LEMMA FreeType == Free \in Request /\ Free.step = "idle" /\ Free.seen = {}
BY SecondFactorAssumption DEF Free, Steps, Request

LEMMA TypesApply ==
    ASSUME LoginTypeOK
    PROVE  /\ visit \in [Visits -> Request]
           /\ \A v \in Visits : visit[v] \in Request
           /\ user.failed \in Nat /\ user.locked \in BOOLEAN /\ user.totp \in BOOLEAN
BY DEF LoginTypeOK, Request

\* A request that comes in is typed.
LEMMA ComesType ==
    ASSUME LoginTypeOK, NEW v \in Visits, NEW s \in Sessions,
           NEW step \in Steps, NEW copy \in Nat, Comes(v, s, step, copy)
    PROVE  /\ visit' \in [Visits -> Request]
           /\ visit'[v].step = step /\ visit'[v].copy = copy /\ visit'[v].seen = {}
           /\ \A w \in Visits : w # v => visit'[w] = visit[w]
<1> DEFINE r == [Free EXCEPT !.step = step, !.s = s, !.copy = copy]
<1>1. r \in Request /\ r.step = step /\ r.copy = copy /\ r.seen = {}
  BY FreeType DEF Request
<1>2. visit' = [visit EXCEPT ![v] = r]
  BY DEF Comes
<1> HIDE DEF r
<1> QED BY <1>1, <1>2, TypesApply

\* So is one that goes on.
LEMMA GotoType ==
    ASSUME LoginTypeOK, NEW v \in Visits, NEW step \in Steps, Goto(v, step)
    PROVE  /\ visit' \in [Visits -> Request]
           /\ visit'[v].step = step /\ visit'[v].seen = visit[v].seen
           /\ visit'[v].copy = visit[v].copy
           /\ \A w \in Visits : w # v => visit'[w] = visit[w]
<1> DEFINE r == [visit[v] EXCEPT !.step = step]
<1>1. r \in Request /\ r.step = step /\ r.seen = visit[v].seen /\ r.copy = visit[v].copy
  BY TypesApply DEF Request
<1>2. visit' = [visit EXCEPT ![v] = r]
  BY DEF Goto
<1> HIDE DEF r
<1> QED BY <1>1, <1>2, TypesApply

\* And one that ends.
LEMMA EndsType ==
    ASSUME LoginTypeOK, NEW v \in Visits, Ends(v)
    PROVE  /\ visit' \in [Visits -> Request]
           /\ visit'[v].step = "idle" /\ visit'[v].seen = {}
           /\ \A w \in Visits : w # v => visit'[w] = visit[w]
BY TypesApply, FreeType DEF Ends

LEMMA NewKeyType ==
    ASSUME LoginTypeOK, NEW v, NEW s \in Sessions
    PROVE  /\ NewKey(v, s) \in [Visits -> Request]
           /\ v \in Visits => NewKey(v, s)[v] = Free
           /\ \A w \in Visits : w # v =>
                /\ NewKey(v, s)[w].step = visit[w].step
                /\ NewKey(v, s)[w].seen = visit[w].seen
                /\ NewKey(v, s)[w].copy = visit[w].copy
<1> DEFINE dead(w) == [visit[w] EXCEPT !.live = FALSE]
           key(w) == IF w = v THEN Free ELSE IF visit[w].s = s THEN dead(w) ELSE visit[w]
<1>1. \A w \in Visits :
        dead(w) \in Request /\ dead(w).step = visit[w].step
        /\ dead(w).seen = visit[w].seen /\ dead(w).copy = visit[w].copy
  BY TypesApply DEF Request
<1> HIDE DEF dead
<1>2. \A w \in Visits : key(w) \in Request
  BY <1>1, TypesApply, FreeType
<1>3. \A w \in Visits : w # v =>
        key(w).step = visit[w].step /\ key(w).seen = visit[w].seen /\ key(w).copy = visit[w].copy
  BY <1>1
<1>4. NewKey(v, s) = [w \in Visits |-> key(w)]
  BY DEF NewKey, dead
<1> HIDE DEF key
<1>5. v \in Visits => key(v) = Free
  BY DEF key
<1> QED BY <1>2, <1>3, <1>4, <1>5

LEMMA AccountInit == LoginInit => AccountInv
<1> SUFFICES ASSUME LoginInit PROVE AccountInv
  OBVIOUS
<1>1. \A v \in Visits : visit[v] = Free
  BY DEF LoginInit
<1>2. LoginTypeOK
  BY FreeType DEF LoginInit, LoginTypeOK, Anonymous, Request
<1>3. CodesInv
  BY <1>1, FreeType DEF LoginInit, CodesInv
<1>4. LoginInv
  BY <1>1, FreeType DEF LoginInit, LoginInv, LoginSteps
<1>5. FactorInv
  BY <1>1, FreeType DEF LoginInit, FactorInv, TotpSteps
<1> QED BY <1>2, <1>3, <1>4, <1>5 DEF AccountInv

\* The other actions on the request leave it one, too.
LEMMA RightPasswordType ==
    ASSUME LoginTypeOK, NEW v \in Visits, RightPassword(v)
    PROVE  /\ visit' \in [Visits -> Request]
           /\ visit'[v].step = "right" /\ visit'[v].copy = user.failed
           /\ \A w \in Visits : w # v => visit'[w] = visit[w]
<1> DEFINE r == [visit[v] EXCEPT !.step = "right", !.copy = user.failed, !.totp = user.totp]
<1>1. r \in Request /\ r.step = "right" /\ r.copy = user.failed
  BY TypesApply DEF Request, Steps
<1>2. visit' = [visit EXCEPT ![v] = r]
  BY TypesApply DEF RightPassword, Request
<1> HIDE DEF r
<1> QED BY <1>1, <1>2, TypesApply

LEMMA LockCodesType ==
    ASSUME LoginTypeOK, NEW v \in Visits, LockCodes(v)
    PROVE  /\ visit' \in [Visits -> Request]
           /\ visit'[v].step = "codes" /\ visit'[v].seen = Unused
           /\ \A w \in Visits : w # v => visit'[w] = visit[w]
<1> DEFINE r == [visit[v] EXCEPT !.step = "codes", !.seen = Unused]
<1>1. r \in Request /\ r.step = "codes" /\ r.seen = Unused
  BY TypesApply DEF Request, Steps, Unused
<1>2. visit' = [visit EXCEPT ![v] = r]
  BY TypesApply DEF LockCodes, Request
<1> HIDE DEF r
<1> QED BY <1>1, <1>2, TypesApply

LEMMA CreateCodeType ==
    ASSUME LoginTypeOK, NEW v \in Visits, NEW c \in Codes, CreateCode(v, c)
    PROVE  /\ visit' \in [Visits -> Request]
           /\ \/ /\ visit[v].seen \cup {c} = Codes
                 /\ visit'[v] = Free
              \/ /\ visit'[v].step = "create"
                 /\ visit'[v].seen = visit[v].seen \cup {c}
           /\ \A w \in Visits : w # v => visit'[w] = visit[w]
<1> DEFINE r == [visit[v] EXCEPT !.seen = visit[v].seen \cup {c}]
<1>1. r \in Request /\ r.step = "create" /\ r.seen = visit[v].seen \cup {c}
  BY TypesApply DEF Request, CreateCode
<1>2. \/ visit' = [visit EXCEPT ![v] = r]
      \/ visit[v].seen \cup {c} = Codes /\ visit' = [visit EXCEPT ![v] = Free]
  BY DEF CreateCode, Ends
<1> HIDE DEF r
<1> QED BY <1>1, <1>2, TypesApply, FreeType

\* Every step keeps the types.
LEMMA LoginStepType == LoginTypeOK /\ [LoginNext]_loginVars => LoginTypeOK'
<1> SUFFICES ASSUME LoginTypeOK, [LoginNext]_loginVars PROVE LoginTypeOK'
  OBVIOUS
<1>1. ASSUME NEW v \in Visits, NEW s \in Sessions,
             LoadCandidate(v, s) \/ SetupBegins(v, s) \/ DisableBegins(v, s) \/ VerifyBegins(v, s)
      PROVE  LoginTypeOK'
  <2>1. session[s].attempts \in Nat
    BY DEF LoginTypeOK
  <2>2. visit' \in [Visits -> Request]
    BY <1>1, <2>1, ComesType, TypesApply
    DEF LoadCandidate, SetupBegins, DisableBegins, VerifyBegins, Steps
  <2>3. overlap' \subseteq {"login", "totp", "lost"}
    BY <1>1 DEF LoadCandidate, SetupBegins, DisableBegins, VerifyBegins, Overlaps, LoginTypeOK
  <2> QED
    BY <1>1, <2>2, <2>3
    DEF LoadCandidate, SetupBegins, DisableBegins, VerifyBegins, LoginTypeOK, Request
<1>2. ASSUME NEW v \in Visits, FailedLogin(v) PROVE LoginTypeOK'
  <2>1. visit' \in [Visits -> Request]
    BY <1>2, EndsType DEF FailedLogin
  <2>2. visit[v].copy + 1 \in Nat /\ wrong + 1 \in Nat
    BY TypesApply DEF Request, LoginTypeOK
  <2>3. user' \in [failed : Nat, locked : BOOLEAN, totp : BOOLEAN]
    <3> DEFINE n == visit[v].copy + 1
               b == n >= Threshold
    <3>1. n \in Nat /\ b \in BOOLEAN
      BY <2>2
    <3>2. user' = [user EXCEPT !.failed = n, !.locked = b]
      BY <1>2 DEF FailedLogin
    <3> HIDE DEF n, b
    <3> QED BY <3>1, <3>2 DEF LoginTypeOK
  <2> QED BY <1>2, <2>1, <2>2, <2>3 DEF FailedLogin, LoginTypeOK, Request
<1>3. ASSUME NEW v \in Visits, RightPassword(v) PROVE LoginTypeOK'
  BY <1>3, RightPasswordType DEF RightPassword, LoginTypeOK, Request
<1>4. ASSUME NEW v \in Visits, PasswordLogin(v) PROVE LoginTypeOK'
  <2>1. visit' \in [Visits -> Request]
    BY <1>4, TypesApply, NewKeyType, EndsType DEF PasswordLogin, Request
  <2>2. user' \in [failed : Nat, locked : BOOLEAN, totp : BOOLEAN]
    BY <1>4 DEF PasswordLogin, LoginTypeOK
  <2>3. session' \in [Sessions -> [at : {"anon", "pre", "in"}, attempts : Nat]]
    <3> DEFINE into == [Anonymous EXCEPT !.at = "in"]
               pre  == [Anonymous EXCEPT !.at = "pre"]
    <3>1. {into, pre} \subseteq [at : {"anon", "pre", "in"}, attempts : Nat]
      BY DEF Anonymous
    <3>2. \/ session' = session
          \/ session' = [session EXCEPT ![visit[v].s] = pre]
          \/ session' = [session EXCEPT ![visit[v].s] = into]
      BY <1>4 DEF PasswordLogin
    <3> HIDE DEF into, pre
    <3> QED BY <3>1, <3>2 DEF LoginTypeOK
  <2> QED BY <1>4, <2>1, <2>2, <2>3 DEF PasswordLogin, LoginTypeOK, Request
<1>5. ASSUME NEW v \in Visits, RightCode(v) \/ SaveSecret(v) \/ ClearSecret(v)
      PROVE  LoginTypeOK'
  <2>1. visit' \in [Visits -> Request]
    BY <1>5, GotoType DEF RightCode, SaveSecret, ClearSecret, Steps
  <2>2. user' \in [failed : Nat, locked : BOOLEAN, totp : BOOLEAN]
    BY <1>5 DEF RightCode, SaveSecret, ClearSecret, LoginTypeOK
  <2> QED BY <1>5, <2>1, <2>2 DEF RightCode, SaveSecret, ClearSecret, LoginTypeOK, Request
<1>6. ASSUME NEW v \in Visits, LockCodes(v) PROVE LoginTypeOK'
  BY <1>6, LockCodesType DEF LockCodes, LoginTypeOK, Request
<1>7. ASSUME NEW v \in Visits, SecondLogin(v) PROVE LoginTypeOK'
  BY <1>7, TypesApply, NewKeyType DEF SecondLogin, LoginTypeOK, Request, Anonymous
<1>8. ASSUME NEW v \in Visits, WrongCode(v) PROVE LoginTypeOK'
  <2>1. visit' \in [Visits -> Request]
    BY <1>8, EndsType DEF WrongCode
  <2>2. visit[v].copy + 1 \in Nat
    BY TypesApply DEF Request
  <2>3. session' \in [Sessions -> [at : {"anon", "pre", "in"}, attempts : Nat]]
    BY <1>8, <2>2 DEF WrongCode, LoginTypeOK, Anonymous
  <2>4. holder' \in Visits \cup {Nobody}
    BY <1>8 DEF WrongCode, Release, LoginTypeOK
  <2> QED BY <1>8, <2>1, <2>3, <2>4 DEF WrongCode, LoginTypeOK, Request
<1>9. ASSUME NEW v \in Visits, DeleteCodes(v) \/ VisitLost(v) PROVE LoginTypeOK'
  <2>1. visit' \in [Visits -> Request]
    BY <1>9, GotoType, EndsType DEF DeleteCodes, VisitLost, Steps
  <2>2. CASE DeleteCodes(v)
    BY <2>1, <2>2 DEF DeleteCodes, LoginTypeOK, Request
  <2>3. CASE VisitLost(v)
    BY <2>1, <2>3 DEF VisitLost, Release, LoginTypeOK, Request
  <2> QED BY <1>9, <2>2, <2>3
<1>10. ASSUME NEW v \in Visits, NEW c \in Codes, UseCode(v, c) PROVE LoginTypeOK'
  <2>1. visit' \in [Visits -> Request]
    BY <1>10, GotoType DEF UseCode, Steps
  <2>2. entered' \in [Codes -> 0 .. 2]
    BY <1>10 DEF UseCode, LoginTypeOK
  <2> QED BY <1>10, <2>1, <2>2 DEF UseCode, Release, LoginTypeOK, Request
<1>11. ASSUME NEW v \in Visits, NEW c \in Codes, CreateCode(v, c) PROVE LoginTypeOK'
  <2>1. visit' \in [Visits -> Request]
    BY <1>11, CreateCodeType
  <2>2. /\ codes' = [codes EXCEPT ![c] = "unused"]
        /\ entered' = [entered EXCEPT ![c] = 0]
        /\ UNCHANGED <<user, holder, session, wrong, overlap>>
    BY <1>11 DEF CreateCode
  <2> QED BY <2>1, <2>2 DEF LoginTypeOK, Request
<1>12. ASSUME NEW s \in Sessions, Logout(s) PROVE LoginTypeOK'
  BY <1>12, NewKeyType DEF Logout, LoginTypeOK, Request, Anonymous
<1>13. CASE LockExpires \/ UNCHANGED loginVars
  BY <1>13 DEF LockExpires, loginVars, LoginTypeOK
<1> QED
  BY <1>1, <1>2, <1>3, <1>4, <1>5, <1>6, <1>7, <1>8, <1>9, <1>10, <1>11, <1>12, <1>13
  DEF LoginNext


\* No step but UseCode, CreateCode and DeleteCodes touches the codes.
CodesAlone == UNCHANGED <<codes, entered>>

\* A request that is at another step, or has seen nothing, does not matter.
LEMMA CodesKept ==
    ASSUME CodesInv, CodesAlone, NEW v,
           \A w \in Visits : w # v /\ visit'[w].step = "codes" =>
               visit[w].step = "codes" /\ visit'[w].seen = visit[w].seen,
           v \in Visits => visit'[v].step # "codes",
           holder' = holder \/ holder = v
    PROVE  CodesInv'
BY DEF CodesInv, CodesAlone

LEMMA StepCodes == LoginTypeOK /\ CodesInv /\ [LoginNext]_loginVars => CodesInv'
<1> SUFFICES ASSUME LoginTypeOK, CodesInv, [LoginNext]_loginVars PROVE CodesInv'
  OBVIOUS
<1>1. ASSUME NEW v \in Visits, NEW s \in Sessions,
             LoadCandidate(v, s) \/ SetupBegins(v, s) \/ DisableBegins(v, s) \/ VerifyBegins(v, s)
      PROVE  CodesInv'
  <2>1. session[s].attempts \in Nat
    BY DEF LoginTypeOK
  <2>2. visit'[v].step # "codes" /\ \A w \in Visits : w # v => visit'[w] = visit[w]
    BY <1>1, <2>1, ComesType, TypesApply
    DEF LoadCandidate, SetupBegins, DisableBegins, VerifyBegins, Steps
  <2>3. CodesAlone /\ holder' = holder
    BY <1>1 DEF LoadCandidate, SetupBegins, DisableBegins, VerifyBegins, CodesAlone
  <2> QED BY <2>2, <2>3, CodesKept
<1>2. ASSUME NEW v \in Visits,
             FailedLogin(v) \/ RightPassword(v) \/ RightCode(v) \/ SaveSecret(v) \/ ClearSecret(v)
      PROVE  CodesInv'
  <2>1. visit'[v].step # "codes" /\ \A w \in Visits : w # v => visit'[w] = visit[w]
    BY <1>2, EndsType, GotoType, RightPasswordType
    DEF FailedLogin, RightCode, SaveSecret, ClearSecret, Steps
  <2>2. CodesAlone /\ holder' = holder
    BY <1>2 DEF FailedLogin, RightPassword, RightCode, SaveSecret, ClearSecret, CodesAlone
  <2> QED BY <2>1, <2>2, CodesKept
<1>3. ASSUME NEW v \in Visits, PasswordLogin(v) \/ SecondLogin(v) PROVE CodesInv'
  <2>1. /\ visit'[v].step # "codes"
        /\ \A w \in Visits : w # v =>
             visit'[w].step = visit[w].step /\ visit'[w].seen = visit[w].seen
    <3>1. visit[v].s \in Sessions
      BY TypesApply DEF Request
    <3>2. visit' = NewKey(v, visit[v].s) \/ Ends(v)
      BY <1>3 DEF PasswordLogin, SecondLogin
    <3> QED BY <3>1, <3>2, NewKeyType, EndsType, FreeType
  <2>2. CodesAlone /\ holder' = holder
    BY <1>3 DEF PasswordLogin, SecondLogin, CodesAlone
  <2> QED BY <2>1, <2>2, CodesKept
<1>4. ASSUME NEW v \in Visits, LockCodes(v) PROVE CodesInv'
  <2>1. \A w \in Visits : visit[w].step = "codes" => visit[w].seen = {}
    BY <1>4, SecondFactorAssumption DEF LockCodes, CodesInv
  <2>2. /\ visit'[v].seen = Unused
        /\ \A w \in Visits : w # v => visit'[w] = visit[w]
    BY <1>4, LockCodesType
  <2>3. \A w \in Visits : visit'[w].step = "codes" =>
           \A c \in visit'[w].seen : w = v /\ c \in Unused
    BY <2>1, <2>2
  <2>4. \A c \in Unused : codes'[c] = "unused" /\ holder' = v
    BY <1>4 DEF LockCodes, Unused
  <2>5. codes' = codes /\ entered' = entered
    BY <1>4 DEF LockCodes
  <2> QED BY <2>3, <2>4, <2>5 DEF CodesInv
<1>5. ASSUME NEW v \in Visits, WrongCode(v) \/ VisitLost(v) PROVE CodesInv'
  <2>1. visit'[v].step # "codes" /\ \A w \in Visits : w # v => visit'[w] = visit[w]
    BY <1>5, EndsType DEF WrongCode, VisitLost
  <2>2. CodesAlone /\ (holder' = holder \/ holder = v)
    BY <1>5 DEF WrongCode, VisitLost, Release, CodesAlone
  <2> QED BY <2>1, <2>2, CodesKept
<1>6. ASSUME NEW v \in Visits, DeleteCodes(v) PROVE CodesInv'
  <2>1. \A w \in Visits : visit[w].step = "codes" => visit[w].seen = {}
    BY <1>6, SecondFactorAssumption DEF DeleteCodes, CodesInv
  <2>2. visit'[v].step # "codes" /\ \A w \in Visits : w # v => visit'[w] = visit[w]
    BY <1>6, GotoType, EndsType DEF DeleteCodes, Steps
  <2>3. \A c \in Codes : codes'[c] = "none" /\ entered'[c] = 0
    BY <1>6 DEF DeleteCodes
  <2> QED BY <2>1, <2>2, <2>3 DEF CodesInv
<1>7. ASSUME NEW v \in Visits, NEW c \in Codes, UseCode(v, c) PROVE CodesInv'
  <2>1. holder = v /\ codes[c] = "unused" /\ entered[c] = 0
    BY <1>7 DEF UseCode, CodesInv
  <2>2. \A w \in Visits : w # v /\ visit[w].step = "codes" => visit[w].seen = {}
    BY <2>1 DEF CodesInv
  <2>3. visit'[v].step # "codes" /\ \A w \in Visits : w # v => visit'[w] = visit[w]
    BY <1>7, GotoType DEF UseCode, Steps
  <2>4. codes' = [codes EXCEPT ![c] = "used"] /\ entered' = [entered EXCEPT ![c] = 1]
    BY <1>7, <2>1 DEF UseCode
  <2>5. \A d \in Codes : IF codes'[d] = "used" THEN entered'[d] = 1 ELSE entered'[d] = 0
    BY <2>4 DEF CodesInv, LoginTypeOK
  <2> QED BY <2>2, <2>3, <2>5 DEF CodesInv
<1>8. ASSUME NEW v \in Visits, NEW c \in Codes, CreateCode(v, c) PROVE CodesInv'
  <2>1. visit'[v].step # "codes" /\ \A w \in Visits : w # v => visit'[w] = visit[w]
    BY <1>8, CreateCodeType, FreeType
  <2>2. /\ codes' = [codes EXCEPT ![c] = "unused"]
        /\ entered' = [entered EXCEPT ![c] = 0]
        /\ holder' = holder
    BY <1>8 DEF CreateCode
  <2>3. \A d \in Codes : codes[d] = "unused" => codes'[d] = "unused"
    BY <2>2 DEF LoginTypeOK
  <2>4. \A d \in Codes : IF codes'[d] = "used" THEN entered'[d] = 1 ELSE entered'[d] = 0
    BY <2>2 DEF CodesInv, LoginTypeOK
  <2>5. \A w \in Visits : visit[w].seen \subseteq Codes
    BY TypesApply DEF Request
  <2> QED BY <2>1, <2>2, <2>3, <2>4, <2>5 DEF CodesInv
<1>9. ASSUME NEW s \in Sessions, Logout(s) PROVE CodesInv'
  BY <1>9, NewKeyType, SecondFactorAssumption DEF Logout, CodesInv
<1>10. CASE LockExpires \/ UNCHANGED loginVars
  BY <1>10 DEF LockExpires, loginVars, CodesInv
<1> QED BY <1>1, <1>2, <1>3, <1>4, <1>5, <1>6, <1>7, <1>8, <1>9, <1>10 DEF LoginNext

\* Types of users, requests, sessions and codes.
THEOREM LoginTypeCorrect == LoginSpec => []LoginTypeOK
<1>1. LoginInit => LoginTypeOK
  BY AccountInit DEF AccountInv
<1> QED BY <1>1, LoginStepType, PTL DEF LoginSpec

\* A recovery code opens one session (check_recovery_code), however many requests
\* compare it at the same time, and whatever setups add or delete meanwhile.
THEOREM CodeOnce == LoginSpec => []CodeUsedOnce
<1>1. LoginInit => LoginTypeOK /\ CodesInv
  BY AccountInit DEF AccountInv
<1>2. LoginTypeOK /\ CodesInv /\ [LoginNext]_loginVars => (LoginTypeOK /\ CodesInv)'
  BY LoginStepType, StepCodes
<1>3. LoginTypeOK /\ CodesInv => CodeUsedOnce
  BY DEF LoginTypeOK, CodesInv, CodeUsedOnce
<1> QED BY <1>1, <1>2, <1>3, PTL DEF LoginSpec


-----------------------------------------------------------------------------
\* A step that leaves the counters and the logins alone.
LEMMA LoginKept ==
    ASSUME LoginInv, overlap \subseteq overlap',
           user'.failed = user.failed, user'.locked => user.locked, wrong' = wrong,
           \A w \in Visits : visit'[w].step \in LoginSteps =>
               visit[w].step \in LoginSteps /\ visit'[w].copy = visit[w].copy
    PROVE  LoginInv'
BY DEF LoginInv

LEMMA StepLogin == LoginTypeOK /\ LoginInv /\ [LoginNext]_loginVars => LoginInv'
<1> SUFFICES ASSUME LoginTypeOK, LoginInv, [LoginNext]_loginVars PROVE LoginInv'
  OBVIOUS
<1>1. ASSUME NEW v \in Visits, NEW s \in Sessions, LoadCandidate(v, s) PROVE LoginInv'
  <2>1. /\ visit'[v].copy = user.failed
        /\ \A w \in Visits : w # v => visit'[w] = visit[w]
    BY <1>1, ComesType, TypesApply DEF LoadCandidate, Steps
  <2>2. "login" \notin overlap' => \A w \in Visits : visit[w].step \notin LoginSteps
    BY <1>1 DEF LoadCandidate, Overlaps
  <2>3. overlap \subseteq overlap' /\ user' = user /\ wrong' = wrong
    BY <1>1 DEF LoadCandidate, Overlaps
  <2> QED BY <2>1, <2>2, <2>3 DEF LoginInv
<1>2. ASSUME NEW v \in Visits, NEW s \in Sessions,
             SetupBegins(v, s) \/ DisableBegins(v, s) \/ VerifyBegins(v, s)
      PROVE  LoginInv'
  <2>1. session[s].attempts \in Nat
    BY DEF LoginTypeOK
  <2>2. /\ visit'[v].step \notin LoginSteps
        /\ \A w \in Visits : w # v => visit'[w] = visit[w]
    BY <1>2, <2>1, ComesType
    DEF SetupBegins, DisableBegins, VerifyBegins, Steps, LoginSteps
  <2>3. overlap \subseteq overlap' /\ user' = user /\ wrong' = wrong
    BY <1>2 DEF SetupBegins, DisableBegins, VerifyBegins, Overlaps
  <2> QED BY <2>2, <2>3, LoginKept
<1>3. ASSUME NEW v \in Visits, FailedLogin(v) PROVE LoginInv'
  <2>1. visit'[v].step = "idle" /\ \A w \in Visits : w # v => visit'[w] = visit[w]
    BY <1>3, EndsType DEF FailedLogin
  <2>2. /\ visit[v].step \in LoginSteps /\ overlap' = overlap
        /\ user'.failed = visit[v].copy + 1
        /\ user'.locked = (user'.failed >= Threshold)
        /\ wrong' = wrong + 1
    BY <1>3 DEF FailedLogin, LoginSteps, LoginTypeOK
  <2> QED BY <2>1, <2>2 DEF LoginInv, LoginSteps
<1>4. ASSUME NEW v \in Visits, RightPassword(v) PROVE LoginInv'
  <2>1. /\ visit[v].step \in LoginSteps /\ overlap' = overlap /\ user' = user /\ wrong' = wrong
        /\ visit'[v].copy = user.failed
        /\ \A w \in Visits : w # v => visit'[w] = visit[w]
    BY <1>4, RightPasswordType DEF RightPassword, LoginSteps
  <2> QED BY <2>1 DEF LoginInv
<1>5. ASSUME NEW v \in Visits, PasswordLogin(v) PROVE LoginInv'
  <2>1. /\ visit'[v].step = "idle"
        /\ \A w \in Visits : w # v => visit'[w].step = visit[w].step
    <3>1. visit[v].s \in Sessions
      BY TypesApply DEF Request
    <3>2. visit' = NewKey(v, visit[v].s) \/ Ends(v)
      BY <1>5 DEF PasswordLogin
    <3> QED BY <3>1, <3>2, NewKeyType, EndsType, FreeType
  <2>2. /\ visit[v].step \in LoginSteps /\ overlap' = overlap /\ wrong' = 0
        /\ IF visit[v].copy > 0 THEN user'.failed = 0 /\ ~user'.locked ELSE user' = user
    BY <1>5 DEF PasswordLogin, LoginSteps, LoginTypeOK
  <2>3. visit[v].copy \in Nat /\ user.failed \in Nat
    BY TypesApply DEF Request
  <2> QED BY <2>1, <2>2, <2>3, SecondFactorAssumption DEF LoginInv, LoginSteps
<1>6. ASSUME NEW v \in Visits,
             RightCode(v) \/ SaveSecret(v) \/ ClearSecret(v) \/ WrongCode(v)
             \/ LockCodes(v) \/ DeleteCodes(v)
      PROVE  LoginInv'
  <2>1. /\ visit'[v].step \notin LoginSteps
        /\ \A w \in Visits : w # v => visit'[w] = visit[w]
    BY <1>6, EndsType, GotoType, LockCodesType
    DEF RightCode, SaveSecret, ClearSecret, WrongCode, DeleteCodes, Steps, LoginSteps
  <2>2. overlap' = overlap /\ wrong' = wrong
    BY <1>6 DEF RightCode, SaveSecret, ClearSecret, WrongCode, LockCodes, DeleteCodes
  <2>3. user'.failed = user.failed /\ user'.locked = user.locked
    BY <1>6 DEF RightCode, SaveSecret, ClearSecret, WrongCode, LockCodes, DeleteCodes, LoginTypeOK
  <2> QED BY <2>1, <2>2, <2>3, LoginKept
<1>7. ASSUME NEW v \in Visits, SecondLogin(v) PROVE LoginInv'
  <2>1. visit[v].s \in Sessions
    BY TypesApply DEF Request
  <2>2. /\ visit'[v].step \notin LoginSteps
        /\ \A w \in Visits : w # v =>
             visit'[w].step = visit[w].step /\ visit'[w].copy = visit[w].copy
    BY <1>7, <2>1, NewKeyType, FreeType DEF SecondLogin, LoginSteps
  <2>3. overlap' = overlap /\ wrong' = wrong /\ user' = user
    BY <1>7 DEF SecondLogin
  <2> QED BY <2>2, <2>3, LoginKept
<1>8. ASSUME NEW v \in Visits, NEW c \in Codes, UseCode(v, c) \/ CreateCode(v, c)
      PROVE  LoginInv'
  <2>1. /\ visit'[v].step \notin LoginSteps
        /\ \A w \in Visits : w # v => visit'[w] = visit[w]
    BY <1>8, GotoType, CreateCodeType, FreeType DEF UseCode, Steps, LoginSteps
  <2>2. overlap' = overlap /\ wrong' = wrong /\ user' = user
    BY <1>8 DEF UseCode, CreateCode
  <2> QED BY <2>1, <2>2, LoginKept
<1>9. ASSUME NEW s \in Sessions, Logout(s) PROVE LoginInv'
  <2>1. \A w \in Visits : visit'[w].step = visit[w].step /\ visit'[w].copy = visit[w].copy
    BY <1>9, NewKeyType, SecondFactorAssumption DEF Logout
  <2>2. overlap' = overlap /\ wrong' = wrong /\ user' = user
    BY <1>9 DEF Logout
  <2> QED BY <2>1, <2>2, LoginKept
<1>10. ASSUME NEW v \in Visits, VisitLost(v) PROVE LoginInv'
  BY <1>10 DEF VisitLost, LoginInv
<1>11. CASE LockExpires
  BY <1>11 DEF LockExpires, LoginInv, LoginTypeOK
<1>12. CASE UNCHANGED loginVars
  BY <1>12 DEF loginVars, LoginInv
<1> QED
  BY <1>1, <1>2, <1>3, <1>4, <1>5, <1>6, <1>7, <1>8, <1>9, <1>10, <1>11, <1>12 DEF LoginNext

\* The row counts the wrong passwords since the last right one (login_view), unless
\* logins overlapped or died.
THEOREM CountedFailures == LoginSpec => []FailuresCounted
<1>1. LoginInit => LoginTypeOK /\ LoginInv
  BY AccountInit DEF AccountInv
<1>2. LoginTypeOK /\ LoginInv /\ [LoginNext]_loginVars => (LoginTypeOK /\ LoginInv)'
  BY LoginStepType, StepLogin
<1>3. LoginInv => FailuresCounted
  BY DEF LoginInv, FailuresCounted
<1> QED BY <1>1, <1>2, <1>3, PTL DEF LoginSpec


-----------------------------------------------------------------------------
\* A step that leaves the secret, the rows of the codes and the requests that
\* switch the factor alone.
LEMMA FactorKept ==
    ASSUME FactorInv, overlap \subseteq overlap', user'.totp = user.totp,
           \A c \in Codes : codes'[c] = "none" <=> codes[c] = "none",
           \A w \in Visits : (visit'[w].step \in TotpSteps \/ visit[w].step \in TotpSteps) =>
               visit'[w].step = visit[w].step /\ visit'[w].seen = visit[w].seen
    PROVE  FactorInv'
<1>1. ASSUME overlap' \cap {"totp", "lost"} = {},
             NEW v \in Visits, visit'[v].step \in TotpSteps
      PROVE  Progress(v)' /\ \A w \in Visits : visit'[w].step \in TotpSteps => w = v
  BY <1>1 DEF FactorInv, Progress
<1>2. ASSUME overlap' \cap {"totp", "lost"} = {},
             \A v \in Visits : visit'[v].step \notin TotpSteps
      PROVE  \A c \in Codes : codes'[c] = "none" <=> ~user'.totp
  BY <1>2 DEF FactorInv
<1> QED BY <1>1, <1>2 DEF FactorInv

\* A step of the only request that switches the factor, which goes on ...
LEMMA FactorGoes ==
    ASSUME FactorInv, NEW v \in Visits, overlap' = overlap,
           visit[v].step \in TotpSteps,
           \A w \in Visits : w # v => visit'[w] = visit[w],
           overlap \cap {"totp", "lost"} = {} =>
             \/ visit'[v].step \in TotpSteps /\ Progress(v)'
             \/ visit'[v].step \notin TotpSteps
                /\ \A c \in Codes : codes'[c] = "none" <=> ~user'.totp
    PROVE  FactorInv'
BY DEF FactorInv

\* ... and its beginning, which finds no other, or overlaps.
LEMMA FactorBegins ==
    ASSUME FactorInv, NEW v \in Visits, Overlaps("totp", TotpSteps),
           UNCHANGED <<codes, user>>, visit'[v].step \in TotpSteps,
           \A w \in Visits : w # v => visit'[w] = visit[w],
           (\A c \in Codes : codes[c] = "none" <=> ~user.totp) => Progress(v)'
    PROVE  FactorInv'
<1>1. CASE \E w \in Visits : visit[w].step \in TotpSteps
  <2>1. "totp" \in overlap'
    BY <1>1 DEF Overlaps
  <2> QED BY <2>1 DEF FactorInv
<1>2. CASE \A w \in Visits : visit[w].step \notin TotpSteps
  <2>1. overlap' = overlap
    BY <1>2 DEF Overlaps
  <2>2. \A w \in Visits : visit'[w].step \in TotpSteps => w = v
    BY <1>2
  <2>3. overlap' \cap {"totp", "lost"} = {} => Progress(v)'
    BY <1>2, <2>1 DEF FactorInv
  <2> QED BY <2>2, <2>3 DEF FactorInv
<1> QED BY <1>1, <1>2

LEMMA StepFactor ==
    LoginTypeOK /\ CodesInv /\ FactorInv /\ [LoginNext]_loginVars => FactorInv'
<1> SUFFICES ASSUME LoginTypeOK, CodesInv, FactorInv, [LoginNext]_loginVars PROVE FactorInv'
  OBVIOUS
<1>1. ASSUME NEW v \in Visits, NEW s \in Sessions, LoadCandidate(v, s) \/ VerifyBegins(v, s)
      PROVE  FactorInv'
  <2>1. session[s].attempts \in Nat
    BY DEF LoginTypeOK
  <2>a. visit[v].step = "idle"
    BY <1>1 DEF LoadCandidate, VerifyBegins, Comes
  <2>2. /\ visit[v].step \notin TotpSteps /\ visit'[v].step \notin TotpSteps
        /\ \A w \in Visits : w # v => visit'[w] = visit[w]
    BY <1>1, <2>1, <2>a, ComesType, TypesApply DEF LoadCandidate, VerifyBegins, Steps, TotpSteps
  <2>3. overlap \subseteq overlap' /\ user' = user /\ codes' = codes
    BY <1>1 DEF LoadCandidate, VerifyBegins, Overlaps
  <2> QED BY <2>2, <2>3, FactorKept
<1>2. ASSUME NEW v \in Visits,
             FailedLogin(v) \/ RightPassword(v) \/ RightCode(v) \/ LockCodes(v) \/ WrongCode(v)
      PROVE  FactorInv'
  <2>1. visit[v].step \notin TotpSteps
    BY <1>2 DEF FailedLogin, RightPassword, RightCode, LockCodes, WrongCode, TotpSteps
  <2>2. /\ visit'[v].step \notin TotpSteps
        /\ \A w \in Visits : w # v => visit'[w] = visit[w]
    BY <1>2, EndsType, GotoType, RightPasswordType, LockCodesType
    DEF FailedLogin, RightCode, WrongCode, Steps, TotpSteps
  <2>3. overlap' = overlap /\ codes' = codes
    BY <1>2 DEF FailedLogin, RightPassword, RightCode, LockCodes, WrongCode
  <2>4. user'.totp = user.totp
    BY <1>2 DEF FailedLogin, RightPassword, RightCode, LockCodes, WrongCode, LoginTypeOK
  <2> QED BY <2>1, <2>2, <2>3, <2>4, FactorKept
<1>3. ASSUME NEW v \in Visits, PasswordLogin(v) \/ SecondLogin(v) PROVE FactorInv'
  <2>1. visit[v].s \in Sessions
    BY TypesApply DEF Request
  <2>2. visit' = NewKey(v, visit[v].s) \/ Ends(v)
    BY <1>3 DEF PasswordLogin, SecondLogin
  <2>3. /\ visit[v].step \notin TotpSteps /\ visit'[v].step \notin TotpSteps
        /\ \A w \in Visits : w # v =>
             visit'[w].step = visit[w].step /\ visit'[w].seen = visit[w].seen
    BY <1>3, <2>1, <2>2, NewKeyType, EndsType, FreeType
    DEF PasswordLogin, SecondLogin, TotpSteps
  <2>4. overlap' = overlap /\ codes' = codes /\ user'.totp = user.totp
    BY <1>3 DEF PasswordLogin, SecondLogin, LoginTypeOK
  <2> QED BY <2>3, <2>4, FactorKept
<1>4. ASSUME NEW v \in Visits, NEW c \in Codes, UseCode(v, c) PROVE FactorInv'
  <2>1. codes[c] = "unused"
    BY <1>4 DEF UseCode, CodesInv
  <2>2. /\ visit[v].step \notin TotpSteps /\ visit'[v].step \notin TotpSteps
        /\ \A w \in Visits : w # v => visit'[w] = visit[w]
    BY <1>4, GotoType DEF UseCode, Steps, TotpSteps
  <2>3. overlap' = overlap /\ user' = user /\ codes' = [codes EXCEPT ![c] = "used"]
    BY <1>4 DEF UseCode
  <2>4. \A d \in Codes : codes'[d] = "none" <=> codes[d] = "none"
    BY <2>1, <2>3 DEF LoginTypeOK
  <2> QED BY <2>2, <2>3, <2>4, FactorKept
<1>5. ASSUME NEW v \in Visits, NEW s \in Sessions, SetupBegins(v, s) PROVE FactorInv'
  <2>1. /\ visit'[v].step = "enable" /\ visit'[v].seen = {}
        /\ \A w \in Visits : w # v => visit'[w] = visit[w]
    BY <1>5, ComesType DEF SetupBegins, Steps
  <2>2. ~user.totp /\ Overlaps("totp", TotpSteps) /\ UNCHANGED <<codes, user>>
    BY <1>5 DEF SetupBegins
  <2> QED BY <2>1, <2>2, FactorBegins DEF Progress, TotpSteps
<1>6. ASSUME NEW v \in Visits, NEW s \in Sessions, DisableBegins(v, s) PROVE FactorInv'
  <2>1. /\ visit'[v].step = "disable"
        /\ \A w \in Visits : w # v => visit'[w] = visit[w]
    BY <1>6, ComesType DEF DisableBegins, Steps
  <2>2. Overlaps("totp", TotpSteps) /\ UNCHANGED <<codes, user>>
    BY <1>6 DEF DisableBegins
  <2> QED BY <2>1, <2>2, FactorBegins DEF Progress, TotpSteps
<1>7. ASSUME NEW v \in Visits, SaveSecret(v) PROVE FactorInv'
  <2>1. /\ visit'[v].step = "delete" /\ visit'[v].seen = visit[v].seen
        /\ \A w \in Visits : w # v => visit'[w] = visit[w]
    BY <1>7, GotoType DEF SaveSecret, Steps
  <2>2. visit[v].step = "enable" /\ user'.totp /\ codes' = codes /\ overlap' = overlap
    BY <1>7 DEF SaveSecret, LoginTypeOK
  <2>3. overlap \cap {"totp", "lost"} = {} => Progress(v)
    BY <2>2 DEF FactorInv, TotpSteps
  <2>4. overlap \cap {"totp", "lost"} = {} => Progress(v)'
    BY <2>1, <2>2, <2>3 DEF Progress
  <2> QED BY <2>1, <2>2, <2>4, FactorGoes DEF TotpSteps
<1>7a. ASSUME NEW v \in Visits, ClearSecret(v) PROVE FactorInv'
  <2>1. /\ visit'[v].step = "drop" /\ visit'[v].seen = visit[v].seen
        /\ \A w \in Visits : w # v => visit'[w] = visit[w]
    BY <1>7a, GotoType DEF ClearSecret, Steps
  <2>2. visit[v].step = "disable" /\ ~user'.totp /\ codes' = codes /\ overlap' = overlap
    BY <1>7a DEF ClearSecret, LoginTypeOK
  <2>3. overlap \cap {"totp", "lost"} = {} => Progress(v)
    BY <2>2 DEF FactorInv, TotpSteps
  <2>4. overlap \cap {"totp", "lost"} = {} => Progress(v)'
    BY <2>1, <2>2, <2>3 DEF Progress
  <2> QED BY <2>1, <2>2, <2>4, FactorGoes DEF TotpSteps
<1>8. ASSUME NEW v \in Visits, DeleteCodes(v) PROVE FactorInv'
  <2>1. /\ visit[v].step \in {"delete", "drop"}
        /\ \A c \in Codes : codes'[c] = "none"
        /\ user' = user /\ overlap' = overlap
    BY <1>8 DEF DeleteCodes
  <2>2. overlap \cap {"totp", "lost"} = {} => Progress(v)
    BY <2>1 DEF FactorInv, TotpSteps
  <2>3. CASE visit[v].step = "delete"
    <3>1. /\ visit'[v].step = "create" /\ visit'[v].seen = visit[v].seen
          /\ \A w \in Visits : w # v => visit'[w] = visit[w]
      BY <1>8, <2>3, GotoType DEF DeleteCodes, Steps
    <3>2. overlap \cap {"totp", "lost"} = {} => Progress(v)'
      BY <2>1, <2>2, <2>3, <3>1 DEF Progress
    <3> QED BY <2>1, <2>3, <3>1, <3>2, FactorGoes DEF TotpSteps
  <2>4. CASE visit[v].step = "drop"
    <3>1. /\ visit'[v].step = "idle"
          /\ \A w \in Visits : w # v => visit'[w] = visit[w]
      BY <1>8, <2>4, EndsType DEF DeleteCodes
    <3>2. overlap \cap {"totp", "lost"} = {} => ~user.totp
      BY <2>2, <2>4 DEF Progress
    <3> QED BY <2>1, <2>4, <3>1, <3>2, FactorGoes DEF TotpSteps
  <2> QED BY <2>1, <2>3, <2>4
<1>9. ASSUME NEW v \in Visits, NEW c \in Codes, CreateCode(v, c) PROVE FactorInv'
  <2>1. /\ visit[v].step = "create"
        /\ codes' = [codes EXCEPT ![c] = "unused"]
        /\ user' = user /\ overlap' = overlap
    BY <1>9 DEF CreateCode
  <2>2. overlap \cap {"totp", "lost"} = {} =>
          user.totp /\ {d \in Codes : codes[d] # "none"} = visit[v].seen
    BY <2>1 DEF FactorInv, Progress, TotpSteps
  <2>3. {d \in Codes : codes'[d] # "none"} = {d \in Codes : codes[d] # "none"} \cup {c}
    BY <2>1 DEF LoginTypeOK
  <2>4. CASE visit[v].seen \cup {c} = Codes /\ visit'[v] = Free
    <3>1. overlap \cap {"totp", "lost"} = {} =>
            \A d \in Codes : codes'[d] = "none" <=> ~user'.totp
      BY <2>1, <2>2, <2>3, <2>4
    <3>2. \A w \in Visits : w # v => visit'[w] = visit[w]
      BY <1>9, CreateCodeType
    <3> QED BY <2>1, <2>4, <3>1, <3>2, FactorGoes, FreeType DEF TotpSteps
  <2>5. CASE visit'[v].step = "create" /\ visit'[v].seen = visit[v].seen \cup {c}
    <3>1. overlap \cap {"totp", "lost"} = {} => Progress(v)'
      BY <2>1, <2>2, <2>3, <2>5 DEF Progress
    <3>2. \A w \in Visits : w # v => visit'[w] = visit[w]
      BY <1>9, CreateCodeType
    <3> QED BY <2>1, <2>5, <3>1, <3>2, FactorGoes DEF TotpSteps
  <2> QED BY <1>9, <2>4, <2>5, CreateCodeType
<1>10. ASSUME NEW s \in Sessions, Logout(s) PROVE FactorInv'
  <2>1. \A w \in Visits : visit'[w].step = visit[w].step /\ visit'[w].seen = visit[w].seen
    BY <1>10, NewKeyType, SecondFactorAssumption DEF Logout
  <2>2. overlap' = overlap /\ codes' = codes /\ user' = user
    BY <1>10 DEF Logout
  <2> QED BY <2>1, <2>2, FactorKept
<1>11. ASSUME NEW v \in Visits, VisitLost(v) PROVE FactorInv'
  BY <1>11 DEF VisitLost, FactorInv
<1>12. CASE LockExpires \/ UNCHANGED loginVars
  <2>1. /\ overlap' = overlap /\ codes' = codes /\ visit' = visit
        /\ user'.totp = user.totp
    BY <1>12 DEF LockExpires, loginVars, LoginTypeOK
  <2> QED BY <2>1, FactorKept
<1> QED
  BY <1>1, <1>2, <1>3, <1>4, <1>5, <1>6, <1>7, <1>7a, <1>8, <1>9, <1>10, <1>11, <1>12 DEF LoginNext

\* There are recovery codes exactly while the second factor is on (totp_setup,
\* totp_disable), unless setups overlapped or died between two statements.
THEOREM FactorHasCodes == LoginSpec => []CodesWithFactor
<1>1. LoginInit => LoginTypeOK /\ CodesInv /\ FactorInv
  BY AccountInit DEF AccountInv
<1>2. LoginTypeOK /\ CodesInv /\ FactorInv /\ [LoginNext]_loginVars
        => (LoginTypeOK /\ CodesInv /\ FactorInv)'
  BY LoginStepType, StepCodes, StepFactor
<1>3. FactorInv => CodesWithFactor
  BY DEF FactorInv, CodesWithFactor
<1> QED BY <1>1, <1>2, <1>3, PTL DEF LoginSpec

-----------------------------------------------------------------------------
(***************************************************************************)
(* The API tokens (ApiTokens).                                             *)
(***************************************************************************)

\* What is counted is finite, and bounded by the callers.
LEMMA CountsFinite ==
    ASSUME TokensTypeOK
    PROVE  /\ IsFiniteSet(tokens) /\ IsFiniteSet(Counted)
           /\ Cardinality(tokens) \in Nat /\ Cardinality(Counted) \in Nat
           /\ Cardinality(Callers) \in Nat
           /\ Cardinality(Counted) <= Cardinality(Callers)
<1> USE TokensAssumption
<1>1. tokens \in SUBSET Tokens /\ Counted \in SUBSET Callers
  BY DEF TokensTypeOK, Counted
<1>2. IsFiniteSet(tokens) /\ IsFiniteSet(Counted)
  BY <1>1, FS_Subset
<1>3. Cardinality(Counted) <= Cardinality(Callers)
  BY <1>1, FS_Subset
<1> QED BY <1>2, <1>3, FS_CardinalityType

\* Types are kept by every step.
LEMMA TokensNextType == TokensTypeOK /\ [TokensNext]_tokensVars => TokensTypeOK'
<1> SUFFICES ASSUME TokensTypeOK, [TokensNext]_tokensVars PROVE TokensTypeOK'
  OBVIOUS
<1> USE TokensAssumption
<1> USE DEF TokensTypeOK
<1>1. ASSUME NEW c \in Callers, CountTokens(c) \/ CallEnds(c) PROVE TokensTypeOK'
  BY <1>1 DEF CountTokens, CallEnds
<1>2. ASSUME NEW c \in Callers, NEW t \in Tokens,
             Generate(c, t) \/ FindToken(c, t) \/ StampToken(c, t)
      PROVE  TokensTypeOK'
  BY <1>2 DEF Generate, FindToken, StampToken
<1>3. ASSUME NEW t \in Tokens, RevokeToken(t) PROVE TokensTypeOK'
  BY <1>3 DEF RevokeToken
<1>4. CASE UNCHANGED tokensVars
  BY <1>4 DEF tokensVars
<1> QED BY <1>1, <1>2, <1>3, <1>4 DEF TokensNext

\* A request that counts finds fewer than Max tokens, and there are at most all
\* callers who have counted; whoever creates a token has counted before.
LEMMA TokensNextBound == TokensTypeOK /\ TokenBound /\ [TokensNext]_tokensVars => TokenBound'
<1> SUFFICES ASSUME TokensTypeOK, TokenBound, [TokensNext]_tokensVars PROVE TokenBound'
  OBVIOUS
<1> USE TokensAssumption
<1>0. TokensTypeOK'
  BY TokensNextType
<1>a. /\ Cardinality(Counted') \in Nat /\ Cardinality(Counted') <= Cardinality(Callers)
      /\ IsFiniteSet(tokens') /\ Cardinality(tokens') \in Nat
  <2>1. Counted' \in SUBSET Callers /\ tokens' \in SUBSET Tokens
    BY <1>0 DEF Counted, TokensTypeOK
  <2>2. IsFiniteSet(Counted') /\ IsFiniteSet(tokens')
    BY <2>1, FS_Subset
  <2> QED BY <2>1, <2>2, FS_Subset, FS_CardinalityType
<1>1. ASSUME NEW c \in Callers, CountTokens(c) PROVE TokenBound'
  <2>1. Cardinality(tokens') < Max
    BY <1>1 DEF CountTokens
  <2> QED BY <2>1, <1>a, CountsFinite DEF TokenBound
<1>2. ASSUME NEW c \in Callers, NEW t \in Tokens, Generate(c, t) PROVE TokenBound'
  <2>1. Counted' = Counted \ {c} /\ c \in Counted
    BY <1>2 DEF Generate, Counted, TokensTypeOK
  <2>2. Cardinality(Counted') = Cardinality(Counted) - 1
    BY <2>1, CountsFinite, FS_RemoveElement
  <2>3. Cardinality(tokens') = Cardinality(tokens) + 1
    BY <1>2, CountsFinite, FS_AddElement DEF Generate
  <2> QED BY <2>2, <2>3, CountsFinite DEF TokenBound
<1>3. ASSUME tokens' \in SUBSET tokens, Counted' \in SUBSET Counted PROVE TokenBound'
  <2>1. Cardinality(tokens') <= Cardinality(tokens)
    BY <1>3, CountsFinite, FS_Subset
  <2>2. Cardinality(Counted') <= Cardinality(Counted)
    BY <1>3, CountsFinite, FS_Subset
  <2> QED BY <2>1, <2>2, <1>a, CountsFinite DEF TokenBound
<1>4. ASSUME NEW t \in Tokens, RevokeToken(t) PROVE TokenBound'
  BY <1>4, <1>3 DEF RevokeToken, Counted
<1>5. ASSUME NEW c \in Callers, CallEnds(c) PROVE TokenBound'
  BY <1>5, <1>3 DEF CallEnds, Counted, TokensTypeOK
<1>6. ASSUME NEW c \in Callers, NEW t \in Tokens, FindToken(c, t) PROVE TokenBound'
  BY <1>6, <1>3 DEF FindToken, Counted, TokensTypeOK
<1>7. ASSUME NEW c \in Callers, NEW t \in Tokens, StampToken(c, t) PROVE TokenBound'
  BY <1>7, <1>3 DEF StampToken, Counted, TokensTypeOK
<1>8. CASE UNCHANGED tokensVars
  BY <1>8, <1>3 DEF tokensVars, Counted
<1> QED BY <1>1, <1>2, <1>4, <1>5, <1>6, <1>7, <1>8 DEF TokensNext

\* The limit of generate_api_token is exceeded by fewer tokens than there are
\* requests at a time, for any limit and any number of requests.
THEOREM BoundHolds == TokensSpec => []TokenBound
<1>1. TokensInit => TokensTypeOK /\ TokenBound
  <2> USE TokensAssumption
  <2> SUFFICES ASSUME TokensInit PROVE TokensTypeOK /\ TokenBound
    OBVIOUS
  <2>1. TokensTypeOK
    BY DEF TokensInit, TokensTypeOK
  <2>2. Counted = {} /\ tokens = {}
    BY DEF TokensInit, Counted
  <2>3. Cardinality(Callers) \in Nat /\ Cardinality(Callers) # 0
    BY FS_CardinalityType, FS_EmptySet
  <2> QED BY <2>1, <2>2, <2>3, FS_EmptySet DEF TokenBound
<1>2. TokensTypeOK /\ TokenBound /\ [TokensNext]_tokensVars => (TokensTypeOK /\ TokenBound)'
  BY TokensNextType, TokensNextBound
<1> QED BY <1>1, <1>2, PTL DEF TokensSpec

-----------------------------------------------------------------------------
(***************************************************************************)
(* The three side by side.                                                 *)
(***************************************************************************)

\* What the composition does, each of its components does.
LEMMA AccountsAreTheirParts == AccountsSpec => Spec /\ LoginSpec /\ TokensSpec
<1>1. AccountsInit => Init /\ LoginInit /\ TokensInit
  BY DEF AccountsInit
<1>2. [AccountsNext]_<<vars, loginVars, tokensVars, moves>>
        => [Next]_vars /\ [LoginNext]_loginVars /\ [TokensNext]_tokensVars
  BY DEF AccountsNext
<1> QED BY <1>1, <1>2, PTL DEF AccountsSpec, Spec, LoginSpec, TokensSpec

\* The rows of the users, of their requests and of their tokens keep their types.
THEOREM AccountsTypes == AccountsSpec => []AccountsTypeOK
<1>1. TokensSpec => []TokensTypeOK
  <2>1. TokensInit => TokensTypeOK
    BY DEF TokensInit, TokensTypeOK
  <2> QED BY <2>1, TokensNextType, PTL DEF TokensSpec
<1>2. TypeOK /\ LoginTypeOK /\ TokensTypeOK => AccountsTypeOK
  BY DEF AccountsTypeOK
<1> QED
  BY <1>1, <1>2, AccountsAreTheirParts, RolesTypeCorrect, LoginTypeCorrect, PTL

\* All of it together: the audit log of the roles, the recovery codes, the lockout,
\* the second factor and the limit of the tokens hold side by side.
THEOREM AccountsAreSafe ==
    AccountsSpec => [](/\ AccountsTypeOK /\ AuditIsHistory /\ CodeUsedOnce /\ FailuresCounted
                       /\ CodesWithFactor /\ TokenBound)
BY AccountsAreTheirParts, AccountsTypes, AuditHistory, CodeOnce, CountedFailures, FactorHasCodes,
   BoundHolds, PTL

=============================================================================
