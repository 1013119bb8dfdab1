---------------------------- MODULE ConnectionEdit ----------------------------
(***************************************************************************)
(* The requests that edit and delete one connection and their entries in   *)
(* the audit log.  An edit loads the row for its form, loads it again to   *)
(* compare, saves every column of the form's copy and logs the fields that *)
(* differ; no two of these statements share a transaction.                 *)
(***************************************************************************)
EXTENDS Naturals

CONSTANTS
    Edits,  \* requests that edit the connection at a time
    Hosts   \* values of a tracked field

VARIABLES
    row,      \* the field in the row, or "gone"
    edit,     \* [Edits -> the request]
    removal,  \* the request that deletes: "logged" between its two statements
    audited,  \* the value that the log tells, or "gone"
    past      \* what has happened

vars == <<row, edit, removal, audited, past>>

Rows == Hosts \cup {"gone"}

\* copy, before: the form's instance and the row it is compared with.  past: an
\* edit was saved between another's comparison and its entry ("window"), an edit
\* saved a row deleted after its comparison ("revived"), a request died ("lost").
TypeOK ==
    /\ row \in Rows
    /\ edit \in [Edits -> [step : {"idle", "loaded", "compared", "saved"},
                           copy : Hosts, before : Hosts]]
    /\ removal \in {"idle", "logged"}
    /\ audited \in Rows
    /\ past \subseteq {"window", "revived", "lost"}

First == CHOOSE h \in Hosts : TRUE
NoEdit == [step |-> "idle", copy |-> First, before |-> First]

\* connection_create and log_created.
Init ==
    /\ row = First /\ audited = First
    /\ edit = [e \in Edits |-> NoEdit]
    /\ removal = "idle"
    /\ past = {}

\* get_object_or_404, for the form.
LoadConnection(e) ==
    /\ edit[e].step = "idle" /\ row # "gone"
    /\ edit' = [edit EXCEPT ![e].step = "loaded", ![e].copy = row]
    /\ UNCHANGED <<row, removal, audited, past>>

\* A faulty variant: the row loaded for the form is taken for the row before.
CompareLoaded(e, host) ==
    /\ edit[e].step = "loaded"
    /\ edit' = [edit EXCEPT ![e].step = "compared", ![e].copy = host, ![e].before = edit[e].copy]
    /\ UNCHANGED <<row, removal, audited, past>>

\* The form is valid; `before' is loaded, or raises since the row is gone.
Compare(e, host) ==
    /\ edit[e].step = "loaded"
    /\ edit' = IF row = "gone" THEN [edit EXCEPT ![e] = NoEdit]
               ELSE [edit EXCEPT ![e].step = "compared", ![e].copy = host, ![e].before = row]
    /\ UNCHANGED <<row, removal, audited, past>>

\* form.save(): an UPDATE of every column, or an INSERT if the row is gone.
SaveForm(e) ==
    /\ edit[e].step = "compared"
    /\ row' = edit[e].copy
    /\ edit' = [edit EXCEPT ![e].step = "saved"]
    /\ past' = past \cup (IF row = "gone" \/ removal = "logged" THEN {"revived"} ELSE {})
                    \cup (IF \E d \in Edits \ {e} : edit[d].step \in {"compared", "saved"}
                          THEN {"window"} ELSE {})
    /\ UNCHANGED <<removal, audited>>

\* diff_fields and log_updated, which skips an empty difference.
LogUpdated(e) ==
    /\ edit[e].step = "saved"
    /\ audited' = IF edit[e].copy # edit[e].before THEN edit[e].copy ELSE audited
    /\ edit' = [edit EXCEPT ![e] = NoEdit]
    /\ past' = IF row = "gone" \/ removal = "logged" THEN past \cup {"revived"} ELSE past
    /\ UNCHANGED <<row, removal>>

\* log_deleted comes first.
LogDeleted ==
    /\ row # "gone" /\ removal = "idle"
    /\ audited' = "gone"
    /\ removal' = "logged"
    /\ UNCHANGED <<row, edit, past>>

DeleteConnection ==
    /\ removal = "logged"
    /\ row' = "gone"
    /\ removal' = "idle"
    /\ UNCHANGED <<edit, audited, past>>

\* A request dies between two of its statements.
EditLost(e) ==
    /\ edit[e].step # "idle"
    /\ edit' = [edit EXCEPT ![e] = NoEdit]
    /\ past' = past \cup {"lost"}
    /\ UNCHANGED <<row, removal, audited>>

RemovalLost ==
    /\ removal = "logged"
    /\ removal' = "idle"
    /\ past' = past \cup {"lost"}
    /\ UNCHANGED <<row, edit, audited>>

Next ==
    \/ \E e \in Edits :
         \/ LoadConnection(e) \/ SaveForm(e) \/ LogUpdated(e) \/ EditLost(e)
         \/ \E h \in Hosts : Compare(e, h)
    \/ LogDeleted \/ DeleteConnection \/ RemovalLost

Spec == Init /\ [][Next]_vars

-----------------------------------------------------------------------------
(* Properties *)

\* When no request is under way, the audit log ends with what the row says, even
\* if an edit undoes one that was saved while its form was open; unless an edit is
\* saved between another's comparison and its entry, meets a deletion there, or a
\* request dies.
AuditIsCurrent ==
    past = {} /\ removal = "idle" /\ (\A e \in Edits : edit[e].step = "idle") => audited = row

=============================================================================
