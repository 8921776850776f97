---------------------------- MODULE MCTestJobServer ----------------------------
(***************************************************************************)
(* A small instance of TestJobServer for TLC.                              *)
(***************************************************************************)
EXTENDS TestJobServer

AllFaults == {"accept", "exec"}

=============================================================================
