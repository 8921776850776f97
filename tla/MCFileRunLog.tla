----------------------------- MODULE MCFileRunLog -----------------------------
(***************************************************************************)
(* Small instances of FileRunLog for TLC.                                  *)
(***************************************************************************)
EXTENDS FileRunLog

EightRuns == 1..8
TenRuns == 1..10

\* Runs 3 and 4 start at the same instant.
Times == [r \in EightRuns |-> IF r <= 3 THEN r ELSE r - 1]
TenTimes == [r \in TenRuns |-> IF r <= 3 THEN r ELSE r - 1]

Crashes == {"crash"}
IoErrors == {"crash", "io"}

=============================================================================
