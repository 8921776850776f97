--------------------------------- MODULE RunLog ---------------------------------
(***************************************************************************)
(* What a RunLog promises, whichever implementation stands behind the      *)
(* interface: its entries are in order of start time; a Put that returns   *)
(* nil inserts the entry in its place; entries leave only at the old end;  *)
(* and an entry is refused only if a newer one is held already.            *)
(***************************************************************************)
EXTENDS RunLogEntries

VARIABLES log, fate

logVars == <<log, fate>>

Init == log = <<>> /\ fate = [r \in Runs |-> "future"]

Start(r) ==
  /\ fate[r] = "future"
  /\ \A q \in Runs : q < r => fate[q] # "future"
  /\ fate' = [fate EXCEPT ![r] = "running"]
  /\ UNCHANGED log

\* The entry is inserted; some of the oldest entries, possibly the new one
\* itself, may leave in the same step.
Put(r) ==
  /\ fate[r] = "running"
  /\ fate' = [fate EXCEPT ![r] = "logged"]
  /\ \E i \in 0..Len(log) :
       /\ Position(log, r, i)
       /\ \E k \in 0..(Len(log) + 1) :
            log' = DropOldest(InsertAt(log, i, r), k)

Refuse(r) ==
  /\ fate[r] = "running"
  /\ \E e \in Elements(log) : StartTime[e] > StartTime[r]
  /\ fate' = [fate EXCEPT ![r] = "refused"]
  /\ UNCHANGED log

Forget ==
  /\ \E k \in 1..Len(log) : log' = DropOldest(log, k)
  /\ UNCHANGED fate

\* The process ends; the entries of the runs it was executing are never put.
Crash ==
  /\ fate' = [r \in Runs |-> IF fate[r] = "running" THEN "lost" ELSE fate[r]]
  /\ \E k \in 0..Len(log) : log' = DropOldest(log, k)

Next ==
  \/ \E r \in Runs : Start(r) \/ Put(r) \/ Refuse(r)
  \/ Forget \/ Crash

Spec == Init /\ [][Next]_logVars

=============================================================================
