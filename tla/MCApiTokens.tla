----------------------------- MODULE MCApiTokens -----------------------------
(***************************************************************************)
(* ApiTokens for TLC.                                                      *)
(***************************************************************************)
EXTENDS ApiTokens, TLC

\* Requests are interchangeable.
Symmetry == Permutations(Callers)

=============================================================================
