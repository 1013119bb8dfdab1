-------------------------------- MODULE MCWork --------------------------------
(***************************************************************************)
(* Work for TLC.                                                           *)
(***************************************************************************)
EXTENDS Work, TLC

\* Requests and ticks are interchangeable.
Symmetry == Permutations(Requests) \cup Permutations(Ticks)

=============================================================================
