----------------------------- MODULE MCJobManager -----------------------------
(***************************************************************************)
(* Small instances of JobManager for TLC.                                  *)
(***************************************************************************)
EXTENDS JobManager, TLC

\* The commands of the runs: all of them; all but "test", whose threads
\* nothing cancels; and the two that the disagreement needs.
OpsNoTest == AllOps \ {"test"}
OpsTest == {"reload", "test"}

NoFaults == {}

\* Runs are interchangeable.
Symmetry == Permutations(RunIds)

=============================================================================
