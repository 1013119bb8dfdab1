------------------------------- MODULE Accounts -------------------------------
(***************************************************************************)
(* The account of a user: its role (UserRoles), its login with the         *)
(* second factor (SecondFactor) and its API tokens (ApiTokens).  The three *)
(* write different columns and rows and no property relates them, so       *)
(* each of them moves with the others at rest in their initial state: the  *)
(* sum of the state spaces, not their product.                             *)
(***************************************************************************)
EXTENDS UserRoles, SecondFactor, ApiTokens

VARIABLE moves  \* the component explored

\* One of the initial states of UserRoles is enough to rest in.
RolesAtRest ==
    /\ role = [u \in Users |-> Admin]
    /\ req = [r \in Requests |-> [phase |-> "idle", target |-> CHOOSE u \in Users : TRUE,
                                  new |-> Admin, old |-> Admin]]

AccountsInit ==
    /\ Init /\ LoginInit /\ TokensInit
    /\ moves \in {"roles", "login", "tokens"}
    /\ moves # "roles" => RolesAtRest

AccountsNext ==
    /\ UNCHANGED moves
    /\ \/ moves = "roles"  /\ Next       /\ UNCHANGED <<loginVars, tokensVars>>
       \/ moves = "login"  /\ LoginNext  /\ UNCHANGED <<vars, tokensVars>>
       \/ moves = "tokens" /\ TokensNext /\ UNCHANGED <<vars, loginVars>>

AccountsSpec == AccountsInit /\ [][AccountsNext]_<<vars, loginVars, tokensVars, moves>>

-----------------------------------------------------------------------------

\* The types of the three components.
AccountsTypeOK ==
    /\ moves = "roles" => TypeOK
    /\ moves = "login" => LoginTypeOK
    /\ moves = "tokens" => TokensTypeOK

=============================================================================
