----------------------------- MODULE MCDumpRelay -----------------------------
(***************************************************************************)
(* DumpRelay with three lines and pipes of one line: one line is in the    *)
(* loader, one on its way and one still to come.                           *)
(***************************************************************************)
EXTENDS DumpRelay

=============================================================================
