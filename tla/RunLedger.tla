------------------------------- MODULE RunLedger -------------------------------
(***************************************************************************)
(* What a jobberrunner process promises about the runs of jobs.  A run is  *)
(* open from its start until its record is in a run log.  Jobfiles come in *)
(* generations, each with its own run log; a generation is replaced, and   *)
(* the process exits, only when no run is open.  So every run is recorded  *)
(* at most once, in the log of the generation that started it, and runs    *)
(* are lost only in a crash.                                               *)
(***************************************************************************)
EXTENDS Integers

CONSTANT RunIds

VARIABLES
  current,  \* number of the generation in force
  open,     \* runs started and not yet recorded
  log,      \* for each run, the generation whose log has it, or -1
  phase     \* "up", "exited" or "crashed"

ledgerVars == <<current, open, log, phase>>

Init ==
  /\ current = 0
  /\ open = {}
  /\ log = [r \in RunIds |-> -1]
  /\ phase = "up"

StartRun(r) ==
  /\ phase = "up" /\ r \notin open /\ log[r] = -1
  /\ open' = open \cup {r}
  /\ UNCHANGED <<current, log, phase>>

\* The record of an open run is logged.
Record(r) ==
  /\ phase = "up" /\ r \in open
  /\ open' = open \ {r}
  /\ log' = [log EXCEPT ![r] = current]
  /\ UNCHANGED <<current, phase>>

Replace ==
  /\ phase = "up" /\ open = {}
  /\ current' = current + 1
  /\ UNCHANGED <<open, log, phase>>

Exit ==
  /\ phase = "up" /\ open = {}
  /\ phase' = "exited"
  /\ UNCHANGED <<current, open, log>>

\* A crash records nothing: the runs that are open are lost.  (The process
\* that crashes in the middle of a replacement is between two generations.)
Crash ==
  /\ phase = "up"
  /\ phase' = "crashed"
  /\ UNCHANGED <<current, open, log>>

Next ==
  \/ \E r \in RunIds : StartRun(r) \/ Record(r)
  \/ Replace \/ Exit \/ Crash

Spec == Init /\ [][Next]_ledgerVars

=============================================================================
