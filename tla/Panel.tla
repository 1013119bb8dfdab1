-------------------------------- MODULE Panel --------------------------------
(***************************************************************************)
(* What the panel's views and tasks keep beside the transfers: the account *)
(* of a user (Accounts) and its connections (Connections).  They share no  *)
(* column and no property relates them, so one moves with the other at     *)
(* rest in an initial state, as their own components do.                   *)
(***************************************************************************)
EXTENDS Accounts, Connections

VARIABLE side  \* the part explored

accountsVars == <<vars, loginVars, tokensVars, moves>>

PanelInit ==
    /\ AccountsInit /\ ConnectionsInit
    /\ \/ side = "accounts"    /\ moving = "webhook"
       \/ side = "connections" /\ moves = "login"

PanelNext ==
    /\ UNCHANGED side
    /\ \/ side = "accounts"    /\ AccountsNext    /\ UNCHANGED connectionsVars
       \/ side = "connections" /\ ConnectionsNext /\ UNCHANGED accountsVars

PanelSpec == PanelInit /\ [][PanelNext]_<<accountsVars, connectionsVars, side>>

=============================================================================
