------------------------------- MODULE MCPanel -------------------------------
(***************************************************************************)
(* Panel for TLC.                                                          *)
(***************************************************************************)
EXTENDS Panel, TLC

\* Requests and tasks of one kind are interchangeable, and so are the codes.  The
\* kinds have their names in common: one permutation serves them all.
Symmetry == Permutations(Requests) \cup Permutations(Codes)

=============================================================================
