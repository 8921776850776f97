----------------------------- MODULE RunLogEntries -----------------------------
(***************************************************************************)
(* The entries of run logs.  An entry is the run it describes; the only    *)
(* field the logs look at is its Time, the start of the run.  Runs are     *)
(* numbered in the order in which they start, but an entry is put into the *)
(* log when its run ends, so entries may come out of order.                *)
(***************************************************************************)
EXTENDS Integers, Sequences

CONSTANTS
  Runs,       \* the runs (bounds how many are ever made)
  StartTime,  \* RunLogEntry.Time of each run
  MaxOverlap  \* bound on the runs being executed at the same time

ASSUME EntriesAssumption ==
  /\ Runs \subseteq Nat \ {0}
  /\ StartTime \in [Runs -> Nat \ {0}]
  /\ \A q, r \in Runs : q < r => StartTime[q] <= StartTime[r]
  /\ MaxOverlap \in Nat

\* What became of a run: not started, being executed, its entry is being put,
\* Put returned nil, Put refused it for its age, Put failed, or the process
\* ended first.
RunStates == {"future", "running", "putting", "logged", "refused", "failed", "lost"}

Elements(s) == {s[i] : i \in DOMAIN s}

\* A sequence of entries in ascending order of start time.
Ascending(s) ==
  \A i, j \in DOMAIN s : i < j => StartTime[s[i]] <= StartTime[s[j]]

\* Entry r belongs behind the first i entries of s and before the others.
Position(s, r, i) ==
  /\ \A j \in 1..i : StartTime[s[j]] <= StartTime[r]
  /\ \A j \in (i + 1)..Len(s) : StartTime[s[j]] > StartTime[r]

InsertAt(s, i, r) == SubSeq(s, 1, i) \o <<r>> \o SubSeq(s, i + 1, Len(s))

\* s without its k oldest entries.
DropOldest(s, k) == SubSeq(s, k + 1, Len(s))

Descending(s) == [i \in 1..Len(s) |-> s[Len(s) + 1 - i]]

=============================================================================
