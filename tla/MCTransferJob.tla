--------------------------- MODULE MCTransferJob ---------------------------
(***************************************************************************)
(* TransferJob for TLC.  No symmetry: the run checks liveness, too.        *)
(***************************************************************************)
EXTENDS TransferJob

=============================================================================
