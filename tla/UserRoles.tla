------------------------------ MODULE UserRoles ------------------------------
(***************************************************************************)
(* The column User.role: administrators change it (change_user_role), the  *)
(* audit log records each change, and a user who saves their own profile   *)
(* writes it too, because ModelForm.save() writes every column of the row  *)
(* that the request has loaded.                                            *)
(*                                                                         *)
(* A request for a change has three moments: the decorator reads the role  *)
(* of its author; SELECT ... FOR UPDATE locks and reads the target's row;  *)
(* the update and its audit entry become visible when the transaction      *)
(* commits.  In between, the other administrators are counted, by a SELECT *)
(* COUNT( * ) that locks nothing: count() drops the FOR UPDATE of its      *)
(* query.  The isolation is READ COMMITTED.                                *)
(***************************************************************************)
EXTENDS Naturals

CONSTANTS
    Users,
    Requests,  \* requests for a change of role under way at a time
    Savers,    \* the users who save their profile
    Roles,     \* ROLE_CHOICES
    Admin,     \* ROLE_ADMIN
    Submitted, \* values of the form field "role"
    None

ASSUME UserRolesAssumption ==
    /\ Savers \subseteq Users
    /\ Roles \subseteq Submitted
    /\ Admin \in Roles
    /\ None \notin Requests \cup Submitted

VARIABLES
    role,     \* [Users -> Roles], the committed column
    lock,     \* [Users -> Requests or None], the row locks
    req,      \* [Requests -> ...], the requests for a change
    profile,  \* [Users -> Roles or None], the role in the copy of the row that
              \* a request to save the profile has loaded
    audited,  \* [Users -> Roles], the role that the audit log tells
    gaps      \* users with an audit entry whose old role is not the new role
              \* of the entry before

vars == <<role, lock, req, profile, audited, gaps>>

Phases == {"idle", "checked", "locked", "saving"}

TypeOK ==
    /\ role    \in [Users -> Roles]
    /\ lock    \in [Users -> Requests \cup {None}]
    /\ req     \in [Requests -> [phase : Phases, target : Users,
                                 new : Roles, old : Roles]]
    /\ profile \in [Users -> Roles \cup {None}]
    /\ audited \in [Users -> Roles]
    /\ gaps    \subseteq Users

Init ==
    /\ role \in {f \in [Users -> Roles] : \E u \in Users : f[u] = Admin}
    /\ lock = [u \in Users |-> None]
    /\ req  \in [Requests -> [phase : {"idle"}, target : Users,
                              new : {Admin}, old : {Admin}]]
    /\ profile = [u \in Users |-> None]
    /\ audited = role
    /\ gaps = {}

-----------------------------------------------------------------------------
(* change_user_role *)

\* A faulty variant: the submitted role is not looked up in ROLE_CHOICES.
CheckAuthor(r, t, new) ==
    /\ req[r].phase = "idle"
    /\ \E u \in Users : role[u] = Admin
    /\ req' = [req EXCEPT ![r].phase = "checked", ![r].target = t, ![r].new = new]
    /\ UNCHANGED <<role, lock, profile, audited, gaps>>

\* require_role(ROLE_ADMIN), and the submitted role is one of ROLE_CHOICES.
Check(r, t, new) ==
    /\ req[r].phase = "idle"
    /\ \E u \in Users : role[u] = Admin
    /\ new \in Roles
    /\ req' = [req EXCEPT ![r].phase = "checked", ![r].target = t, ![r].new = new]
    /\ UNCHANGED <<role, lock, profile, audited, gaps>>

\* A faulty variant: the target's row is read without a lock.
ReadTarget(r) ==
    /\ req[r].phase = "checked"
    /\ req' = [req EXCEPT ![r].phase = "locked", ![r].old = role[req[r].target]]
    /\ UNCHANGED <<role, lock, profile, audited, gaps>>

\* get_object_or_404(select_for_update()): waits for the row, and reads it.
LockTarget(r) ==
    /\ req[r].phase = "checked"
    /\ lock[req[r].target] = None
    /\ lock' = [lock EXCEPT ![req[r].target] = r]
    /\ req' = [req EXCEPT ![r].phase = "locked", ![r].old = role[req[r].target]]
    /\ UNCHANGED <<role, profile, audited, gaps>>

\* The count that locks nothing.
RemainingAdmins(r) == {u \in Users : role[u] = Admin} \ {req[r].target}

Demotes(r) == req[r].old = Admin /\ req[r].new # Admin

Allow(r) ==
    /\ req[r].phase = "locked"
    /\ Demotes(r) => RemainingAdmins(r) # {}
    /\ req' = [req EXCEPT ![r].phase = "saving"]
    /\ UNCHANGED <<role, lock, profile, audited, gaps>>

\* "Nie mozna odebrac roli Admin ostatniemu administratorowi."
Refuse(r) ==
    /\ req[r].phase = "locked"
    /\ Demotes(r)
    /\ RemainingAdmins(r) = {}
    /\ lock' = [lock EXCEPT ![req[r].target] = None]
    /\ req' = [req EXCEPT ![r].phase = "idle"]
    /\ UNCHANGED <<role, profile, audited, gaps>>

\* The update and log_updated, in one transaction; no entry without a change.
Commit(r) ==
    LET t == req[r].target IN
    /\ req[r].phase = "saving"
    /\ role' = [role EXCEPT ![t] = req[r].new]
    /\ lock' = [lock EXCEPT ![t] = None]
    /\ req' = [req EXCEPT ![r].phase = "idle"]
    /\ IF req[r].old = req[r].new
       THEN UNCHANGED <<audited, gaps>>
       ELSE /\ audited' = [audited EXCEPT ![t] = req[r].new]
            /\ gaps' = IF audited[t] = req[r].old THEN gaps ELSE gaps \cup {t}
    /\ UNCHANGED profile

-----------------------------------------------------------------------------
(* profile_view *)

\* The session's user is loaded, then the form is validated (the webhook's
\* host is looked up).
LoadProfile(u) ==
    /\ u \in Savers
    /\ profile[u] = None
    /\ profile' = [profile EXCEPT ![u] = role[u]]
    /\ UNCHANGED <<role, lock, req, audited, gaps>>

\* form.save(): the whole row, once nobody holds its lock.
SaveProfile(u) ==
    /\ profile[u] # None
    /\ lock[u] = None
    /\ role' = [role EXCEPT ![u] = profile[u]]
    /\ profile' = [profile EXCEPT ![u] = None]
    /\ UNCHANGED <<lock, req, audited, gaps>>

\* The form is not valid.
RejectProfile(u) ==
    /\ profile[u] # None
    /\ profile' = [profile EXCEPT ![u] = None]
    /\ UNCHANGED <<role, lock, req, audited, gaps>>

-----------------------------------------------------------------------------

ChangeRole(r) ==
    \/ \E t \in Users, new \in Submitted : Check(r, t, new)
    \/ LockTarget(r) \/ Allow(r) \/ Refuse(r) \/ Commit(r)

EditProfile(u) == LoadProfile(u) \/ SaveProfile(u) \/ RejectProfile(u)

Next ==
    \/ \E r \in Requests : ChangeRole(r)
    \/ \E u \in Users : EditProfile(u)

Spec == Init /\ [][Next]_vars

-----------------------------------------------------------------------------
(* Properties *)

\* Somebody can always administer: change_user_role refuses to demote the last
\* administrator.
AdminRemains == \E u \in Users : role[u] = Admin

\* The audit log tells how the role of u came to be what it is: its entries
\* follow each other without a gap, and the last one has the current role.
Accounted(u) == u \notin gaps /\ audited[u] = role[u]

\* Changes of the same role by several administrators at a time are recorded in
\* the order they took effect: log_updated runs under the lock of the row.
AuditIsHistory == \A u \in Users \ Savers : Accounted(u)

\* The same of every user: a role changes only with an entry in the audit log.
RoleIsAudited == \A u \in Users : Accounted(u)

=============================================================================
