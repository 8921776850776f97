------------------------------ MODULE MCMemRunLog ------------------------------
(***************************************************************************)
(* Small instances of MemRunLog for TLC.                                   *)
(***************************************************************************)
EXTENDS MemRunLog

FiveRuns == 1..5

\* Runs 2 and 3 start at the same instant.
Times == <<1, 2, 2, 3, 4>>

=============================================================================
