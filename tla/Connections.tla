----------------------------- MODULE Connections -----------------------------
(***************************************************************************)
(* The connections of a user: the delivery of news to the webhook          *)
(* with the circuit breaker (WebhookCircuit); the health check of a        *)
(* connection (HealthCheck), its edit and audit log (ConnectionEdit),      *)
(* export and import (ConfigPortability).                                  *)
(* They write different rows or columns and no property relates them, so   *)
(* each of them moves with the others at rest in their initial state: the  *)
(* sum of the state spaces, not their product.                             *)
(***************************************************************************)
EXTENDS WebhookCircuit

CONSTANTS
    Checks, MaxNotices,               \* HealthCheck
    Edits, Hosts,                     \* ConnectionEdit
    Ids, Names, Imports, MaxFlows, Missing  \* ConfigPortability

\* A field of a row is not mistaken for a row that is gone, nor a connection that is
\* missing for one that is there.
ASSUME ConnectionsAssumption ==
    /\ MaxNotices \in Nat
    /\ Hosts # {} /\ "gone" \notin Hosts
    /\ Missing \notin Ids \cup [name : Names, own : BOOLEAN]

VARIABLES
    conn, check, editing, notices, told, upset,
    row, edit, removal, editAudited, editPast,
    conns, flows, file, import, disturbed,
    moving  \* the component explored

H == INSTANCE HealthCheck
E == INSTANCE ConnectionEdit WITH audited <- editAudited, past <- editPast
P == INSTANCE ConfigPortability WITH None <- Missing

hVars == <<conn, check, editing, notices, told, upset>>
eVars == <<row, edit, removal, editAudited, editPast>>
pVars == <<conns, flows, file, import, disturbed>>

connectionsVars == <<circuitVars, hVars, eVars, pVars, moving>>

ConnectionsInit ==
    /\ CircuitInit /\ H!Init /\ E!Init /\ P!Init
    /\ moving \in {"webhook", "health", "edit", "import"}

ConnectionsNext ==
    /\ UNCHANGED moving
    /\ \/ moving = "webhook" /\ CircuitNext
          /\ UNCHANGED <<hVars, eVars, pVars>>
       \/ moving = "health" /\ H!Next
          /\ UNCHANGED <<circuitVars, eVars, pVars>>
       \/ moving = "edit" /\ E!Next
          /\ UNCHANGED <<circuitVars, hVars, pVars>>
       \/ moving = "import" /\ P!Next
          /\ UNCHANGED <<circuitVars, hVars, eVars>>

ConnectionsSpec == ConnectionsInit /\ [][ConnectionsNext]_connectionsVars

-----------------------------------------------------------------------------

\* The types of the components.
ConnectionsTypeOK ==
    /\ moving = "webhook" => CircuitTypeOK
    /\ moving = "health" => H!TypeOK
    /\ moving = "edit" => E!TypeOK
    /\ moving = "import" => P!TypeOK

\* The owner's last notice tells the connection's health (health_check_one).
LastWordIsTrue == H!LastWordIsTrue

\* The audit log ends with what the row says (connection_edit).
AuditIsCurrent == E!AuditIsCurrent

\* An import leaves nothing out that it can resolve (_import_flows).
ImportIsComplete == P!ImportIsComplete

=============================================================================
