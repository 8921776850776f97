------------------------------- MODULE MemRunLog -------------------------------
(***************************************************************************)
(* memOnlyRunLog: the run log that is kept in memory, at most MaxLen       *)
(* entries in ascending order of start time.  A new one is made, empty,    *)
(* each time a jobfile is activated; the runs of the previous jobfile have *)
(* all been recorded by then.                                              *)
(***************************************************************************)
EXTENDS RunLogEntries, FiniteSets

CONSTANT MaxLen   \* cap(entries)

ASSUME MaxLenAssumption == MaxLen \in Nat \ {0}

VARIABLES
  entries,   \* memOnlyRunLog.entries
  fate,      \* what became of each run
  cleared    \* history: the runs put into a log that has been replaced

vars == <<entries, fate, cleared>>

Running == {r \in Runs : fate[r] = "running"}

\* NewMemOnlyRunLog.
Init ==
  /\ entries = <<>>
  /\ fate = [r \in Runs |-> "future"]
  /\ cleared = {}

StartRun(r) ==
  /\ fate[r] = "future"
  /\ \A q \in Runs : q < r => fate[q] # "future"
  /\ Cardinality(Running) < MaxOverlap
  /\ fate' = [fate EXCEPT ![r] = "running"]
  /\ UNCHANGED <<entries, cleared>>

Full == Len(entries) + 1 > MaxLen

\* The final loop of Put: the appended entry is swapped towards the front as
\* long as it is before its neighbour.
SortIn(s, r) ==
  \E i \in 0..Len(s) :
    /\ i > 0 => StartTime[s[i]] <= StartTime[r]
    /\ \A j \in (i + 1)..Len(s) : StartTime[s[j]] > StartTime[r]
    /\ entries' = InsertAt(s, i, r)

\* Mutant: the oldest entry makes room even for one that is older still.
PutAlways(r) ==
  /\ fate[r] = "running"
  /\ SortIn(IF Full THEN Tail(entries) ELSE entries, r)
  /\ fate' = [fate EXCEPT ![r] = "logged"]
  /\ UNCHANGED cleared

\* Put.
Put(r) ==
  /\ fate[r] = "running"
  /\ \/ /\ Full /\ StartTime[r] < StartTime[entries[1]]
        /\ UNCHANGED entries
     \/ /\ Full /\ ~ StartTime[r] < StartTime[entries[1]]
        /\ SortIn(Tail(entries), r)
     \/ /\ ~Full
        /\ SortIn(entries, r)
  /\ fate' = [fate EXCEPT ![r] = "logged"]
  /\ UNCHANGED cleared

\* Another jobfile is activated and gets a log of its own.
Replace ==
  /\ Running = {}
  /\ entries' = <<>>
  /\ cleared' = {r \in Runs : fate[r] = "logged"}
  /\ UNCHANGED fate

\* The process ends and is started again.
Restart ==
  /\ entries' = <<>>
  /\ cleared' = {r \in Runs : fate[r] = "logged"}
  /\ fate' = [r \in Runs |-> IF fate[r] = "running" THEN "lost" ELSE fate[r]]

Next ==
  \/ \E r \in Runs : StartRun(r) \/ Put(r)
  \/ Replace \/ Restart

Spec == Init /\ [][Next]_vars

-----------------------------------------------------------------------------
(***************************************************************************)
(* Properties.                                                             *)
(***************************************************************************)

\* The log never grows past its capacity (Put would reallocate the slice and
\* with it raise the capacity), and the variables have their types.
TypeOK ==
  /\ entries \in Seq(Runs) /\ Len(entries) <= MaxLen
  /\ fate \in [Runs -> RunStates]
  /\ cleared \in SUBSET Runs

\* The entries stay in order of start time however the ends of overlapping
\* runs are interleaved.
InOrder == Ascending(entries)

\* Put throws out only the oldest entries: a run that was put into this log
\* and is not in it is no newer than anything in it, and the log is full.
NewestKept ==
  \A q \in Runs :
    fate[q] = "logged" /\ q \notin cleared /\ q \notin Elements(entries)
      => /\ Len(entries) = MaxLen
         /\ \A i \in DOMAIN entries : StartTime[q] <= StartTime[entries[i]]

\* The log in memory is a RunLog.
AbstractLog == INSTANCE RunLog WITH log <- entries
KeepsRunLog == AbstractLog!Spec

=============================================================================
