--------------------------- MODULE MCWebhookCircuit ---------------------------
(***************************************************************************)
(* WebhookCircuit for TLC.                                                 *)
(***************************************************************************)
EXTENDS WebhookCircuit, TLC

\* Notifications of one kind are interchangeable.
Symmetry == Permutations(Transfers)

=============================================================================
