---------------------------- MODULE MCRunRecServer ----------------------------
(***************************************************************************)
(* A small instance of RunRecServer for TLC.                               *)
(***************************************************************************)
EXTENDS RunRecServer

\* The same address over two protocols.
OneAddress == [x \in Sids |-> "address"]

AllFaults == {"listen", "accept", "write"}

=============================================================================
