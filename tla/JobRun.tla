-------------------------------- MODULE JobRun --------------------------------
(***************************************************************************)
(* One Job object and its runs.  The job-runner thread asks ShouldRun at   *)
(* every chance to run the job; each run has a thread of its own, which    *)
(* executes the command, lets the error handler update the job, copies the *)
(* job's status into the run record and hands that over; the main thread   *)
(* notifies the sinks.  Nothing keeps the runs of one job from             *)
(* overlapping, and the threads share the job's fields without a lock: a   *)
(* step here has one access to one of these fields.                        *)
(*                                                                         *)
(* The identifiers of runs are used again, so behaviours are unbounded.    *)
(* fails, skipped and overlapped are history, used by the properties only. *)
(***************************************************************************)
EXTENDS Integers, FiniteSets

CONSTANTS
  RunIds,          \* threads that may be running the job
  Handlers,        \* the error handlers the job may have
  MaxBackoffWait,  \* the constant of that name
  MaxOverlap,      \* how many runs of the job may overlap
  FailCap          \* bound: fails stops counting here

ASSUME JobRunAssumption ==
  /\ Handlers \subseteq {"Stop", "Backoff", "Continue"}
  /\ MaxBackoffWait \in Nat \ {0} /\ MaxOverlap \in Nat
  /\ FailCap \in Nat /\ FailCap > MaxBackoffWait

VARIABLES
  handler,               \* Job.ErrorHandler
  status, level, skips,  \* Job.Status, Job.backoffLevel, Job.skipsLeft
  asking, left,          \* where ShouldRun is, and the skipsLeft it has read
  cancelled,             \* the context of the runs is cancelled
  pc, tmp,               \* each run's thread and its temporary
  fate, newStatus,       \* RunRec.Fate, RunRec.NewStatus
  notified,              \* the sinks called for the latest record
  reported,              \* NotifyOnFailure ran since the job became Failed
  fails,                 \* consecutive failures
  skipped,               \* chances not taken since the latest run
  overlapped             \* a chance to run this Job came while a run was active

jobVars == <<status, level, skips>>
recVars == <<fate, newStatus, notified>>
histVars == <<fails, skipped, overlapped>>
vars == <<handler, jobVars, asking, left, cancelled, pc, tmp, recVars, reported, histVars>>

Statuses == {"Good", "Backoff", "Failed"}
Fates == {"succeeded", "failed", "cancelled"}
Active == {r \in RunIds : pc[r] # "idle"}

Init ==
  /\ handler \in Handlers
  /\ status = "Good" /\ level = 0 /\ skips = 0
  /\ asking = "no" /\ left = 0 /\ cancelled = "no"
  /\ pc = [r \in RunIds |-> "idle"]
  /\ tmp = [r \in RunIds |-> 0]
  /\ fate = [r \in RunIds |-> "succeeded"]
  /\ newStatus = [r \in RunIds |-> "Good"]
  /\ notified = {}
  /\ reported = "no"
  /\ fails = 0 /\ skipped = 0 /\ overlapped = "no"

-----------------------------------------------------------------------------
(***************************************************************************)
(* The job-runner thread: a chance to run the job.                         *)
(***************************************************************************)
ChanceComes == Cardinality(Active) < MaxOverlap

\* What the history variables become; nothing is counted once runs overlap.
Overlaps == IF Active # {} THEN "yes" ELSE overlapped
Count(o, f, s) ==
  /\ overlapped' = o
  /\ fails' = IF o = "yes" THEN 0 ELSE f
  /\ skipped' = IF o = "yes" THEN 0 ELSE s

LaunchRun(r) ==
  /\ pc[r] = "idle"
  /\ pc' = [pc EXCEPT ![r] = "exec"]

\* A job in good state is run.
ChanceTaken(r) ==
  /\ ChanceComes /\ asking = "no" /\ status = "Good"
  /\ LaunchRun(r)
  /\ Count(Overlaps, fails, 0)
  /\ UNCHANGED <<handler, jobVars, asking, left, cancelled, tmp, recVars, reported>>

\* A failed job is not.
ChanceRefused ==
  /\ ChanceComes /\ asking = "no" /\ status = "Failed"
  /\ UNCHANGED vars

\* In backoff, skipsLeft is read, decremented and looked at again.
ChanceInBackoff ==
  /\ ChanceComes /\ asking = "no" /\ status = "Backoff"
  /\ asking' = "backoff"
  /\ Count(Overlaps, fails, skipped)
  /\ UNCHANGED <<handler, jobVars, left, cancelled, pc, tmp, recVars, reported>>

ReadSkips ==
  /\ asking = "backoff"
  /\ asking' = "read" /\ left' = skips
  /\ UNCHANGED <<handler, jobVars, cancelled, pc, tmp, recVars, reported, histVars>>

\* Mutant: the decrement of skipsLeft is forgotten.
ChanceNotCounted ==
  /\ asking = "read"
  /\ asking' = "yes" /\ left' = 0
  /\ UNCHANGED <<handler, jobVars, cancelled, pc, tmp, recVars, reported, histVars>>

\* Values of 0 and less are all alike to the code, and are kept as 0.
ChanceCounted ==
  /\ asking = "read"
  /\ skips' = IF left > 0 THEN left - 1 ELSE 0
  /\ asking' = "yes" /\ left' = 0
  /\ UNCHANGED <<handler, status, level, cancelled, pc, tmp, recVars, reported, histVars>>

BackoffOver(r) ==
  /\ asking = "yes" /\ skips <= 0
  /\ asking' = "no"
  /\ LaunchRun(r)
  /\ Count(overlapped, fails, 0)
  /\ UNCHANGED <<handler, jobVars, left, cancelled, tmp, recVars, reported>>

BackoffGoesOn ==
  /\ asking = "yes" /\ skips > 0
  /\ asking' = "no"
  /\ Count(overlapped, fails, IF skipped < MaxBackoffWait THEN skipped + 1 ELSE skipped)
  /\ UNCHANGED <<handler, jobVars, left, cancelled, pc, tmp, recVars, reported>>

\* The jobfile is being replaced, or the process is quitting.
Cancel ==
  /\ cancelled = "no"
  /\ cancelled' = "yes"
  /\ UNCHANGED <<handler, jobVars, asking, left, pc, tmp, recVars, reported, histVars>>

\* The job-runner thread has ended: Activate makes a new Job object.
Replace ==
  /\ cancelled = "yes" /\ Active = {} /\ asking = "no"
  /\ handler' \in Handlers
  /\ status' = "Good" /\ level' = 0 /\ skips' = 0
  /\ cancelled' = "no" /\ reported' = "no"
  /\ fails' = 0 /\ skipped' = 0 /\ overlapped' = "no"
  /\ notified' = {}
  /\ UNCHANGED <<asking, left, pc, tmp, fate, newStatus>>

-----------------------------------------------------------------------------
(***************************************************************************)
(* The thread of run r.                                                    *)
(***************************************************************************)
Goto(r, l) == pc' = [pc EXCEPT ![r] = l]

\* Writing the status; reported is about the present spell of being Failed.
SetStatus(s) ==
  /\ status' = s
  /\ reported' = IF s = "Failed" /\ status = "Failed" THEN reported ELSE "no"

\* The command ends.  If it is killed because the context is cancelled, the
\* thread that killed it may not have set didCancel yet, and the run counts
\* as failed.
ExecEnds(r) ==
  /\ pc[r] = "exec"
  /\ \E f \in Fates :
       /\ f = "cancelled" => cancelled = "yes"
       /\ fate' = [fate EXCEPT ![r] = f]
       /\ Count(overlapped,
                CASE f = "succeeded" -> 0
                  [] f = "failed" -> IF fails < FailCap THEN fails + 1 ELSE fails
                  [] f = "cancelled" -> fails,
                skipped)
  /\ Goto(r, "update")
  /\ UNCHANGED <<handler, jobVars, asking, left, cancelled, tmp, newStatus, notified, reported>>

\* RunJob after a success, and the handlers Continue and Stop after a failure.
UpdateStatus(r) ==
  /\ pc[r] = "update"
  /\ \/ fate[r] = "succeeded" /\ SetStatus("Good")
     \/ fate[r] = "failed" /\ handler = "Continue" /\ SetStatus("Good")
     \/ fate[r] = "failed" /\ handler = "Stop" /\ SetStatus("Failed")
     \/ fate[r] = "cancelled" /\ UNCHANGED <<status, reported>>
  /\ Goto(r, "read")
  /\ UNCHANGED <<handler, level, skips, asking, left, cancelled, tmp, recVars, histVars>>

\* BackoffErrorHandler.Handle.
HandleBackoff(r) ==
  /\ pc[r] = "update" /\ fate[r] = "failed" /\ handler = "Backoff"
  /\ Goto(r, IF status = "Good" THEN "first" ELSE "again")
  /\ UNCHANGED <<handler, jobVars, asking, left, cancelled, tmp, recVars, reported, histVars>>

FirstFailure(r) ==
  /\ pc[r] = "first"
  /\ SetStatus("Backoff")
  /\ Goto(r, "one")
  /\ UNCHANGED <<handler, level, skips, asking, left, cancelled, tmp, recVars, histVars>>

LevelOne(r) ==
  /\ pc[r] = "one"
  /\ level' = 1
  /\ Goto(r, "check")
  /\ UNCHANGED <<handler, status, skips, asking, left, cancelled, tmp, recVars, reported,
                 histVars>>

\* backoffLevel *= 2 reads and then writes.  Levels above MaxBackoffWait are
\* all alike to the code, and are kept as MaxBackoffWait + 1.
Doubled(n) == IF 2 * n > MaxBackoffWait THEN MaxBackoffWait + 1 ELSE 2 * n

ReadLevel(r) ==
  /\ pc[r] = "again"
  /\ tmp' = [tmp EXCEPT ![r] = level]
  /\ Goto(r, "double")
  /\ UNCHANGED <<handler, jobVars, asking, left, cancelled, recVars, reported, histVars>>

DoubleLevel(r) ==
  /\ pc[r] = "double"
  /\ level' = Doubled(tmp[r])
  /\ tmp' = [tmp EXCEPT ![r] = 0]
  /\ Goto(r, "check")
  /\ UNCHANGED <<handler, status, skips, asking, left, cancelled, recVars, reported, histVars>>

\* Mutant: the job is given up one level too early.
CheckLevelEarly(r) ==
  /\ pc[r] = "check"
  /\ Goto(r, IF level >= MaxBackoffWait THEN "giveup" ELSE "wait")
  /\ UNCHANGED <<handler, jobVars, asking, left, cancelled, tmp, recVars, reported, histVars>>

\* The job is given up if the level is too high, else it is made to wait.
CheckLevel(r) ==
  /\ pc[r] = "check"
  /\ Goto(r, IF level > MaxBackoffWait THEN "giveup" ELSE "wait")
  /\ UNCHANGED <<handler, jobVars, asking, left, cancelled, tmp, recVars, reported, histVars>>

GiveUp(r) ==
  /\ pc[r] = "giveup"
  /\ SetStatus("Failed")
  /\ Goto(r, "reset")
  /\ UNCHANGED <<handler, level, skips, asking, left, cancelled, tmp, recVars, histVars>>

ResetLevel(r) ==
  /\ pc[r] = "reset"
  /\ level' = 0
  /\ Goto(r, "unskip")
  /\ UNCHANGED <<handler, status, skips, asking, left, cancelled, tmp, recVars, reported, histVars>>

ResetSkips(r) ==
  /\ pc[r] = "unskip"
  /\ skips' = 0
  /\ Goto(r, "read")
  /\ UNCHANGED <<handler, status, level, asking, left, cancelled, tmp, recVars, reported, histVars>>

\* skipsLeft = backoffLevel reads and then writes, too.
LevelToSkip(r) ==
  /\ pc[r] = "wait"
  /\ tmp' = [tmp EXCEPT ![r] = level]
  /\ Goto(r, "skip")
  /\ UNCHANGED <<handler, jobVars, asking, left, cancelled, recVars, reported, histVars>>

SetSkips(r) ==
  /\ pc[r] = "skip"
  /\ skips' = tmp[r]
  /\ tmp' = [tmp EXCEPT ![r] = 0]
  /\ Goto(r, "read")
  /\ UNCHANGED <<handler, status, level, asking, left, cancelled, recVars, reported, histVars>>

\* Mutant: the record keeps the status it was made with.
ReadStatusForgotten(r) ==
  /\ pc[r] = "read"
  /\ Goto(r, "send")
  /\ UNCHANGED <<handler, jobVars, asking, left, cancelled, tmp, recVars, reported,
                 histVars>>

\* rec.NewStatus = job.Status; then the record waits to be received.
ReadStatus(r) ==
  /\ pc[r] = "read"
  /\ newStatus' = [newStatus EXCEPT ![r] = status]
  /\ Goto(r, "send")
  /\ UNCHANGED <<handler, jobVars, asking, left, cancelled, tmp, fate, notified, reported,
                 histVars>>

\* handleRunRec in the main thread: which sinks are notified.  The record is
\* of no use after that.
HandleRunRec(r) ==
  /\ pc[r] = "send"
  /\ notified' =
       {k \in {"success", "error", "failure"} :
          \/ k = "success" /\ fate[r] = "succeeded"
          \/ k = "error"   /\ fate[r] = "failed"
          \/ k = "failure" /\ newStatus[r] = "Failed"}
  /\ reported' = IF "failure" \in notified' THEN "yes" ELSE reported
  /\ fate' = [fate EXCEPT ![r] = "succeeded"]
  /\ newStatus' = [newStatus EXCEPT ![r] = "Good"]
  /\ Goto(r, "idle")
  /\ UNCHANGED <<handler, jobVars, asking, left, cancelled, tmp, histVars>>

Step(r) ==
  \/ ExecEnds(r) \/ UpdateStatus(r)
  \/ HandleBackoff(r) \/ FirstFailure(r) \/ LevelOne(r)
  \/ ReadLevel(r) \/ DoubleLevel(r) \/ CheckLevel(r) \/ GiveUp(r) \/ ResetLevel(r)
  \/ ResetSkips(r) \/ LevelToSkip(r) \/ SetSkips(r)
  \/ ReadStatus(r) \/ HandleRunRec(r)

Runner ==
  \/ \E r \in RunIds : ChanceTaken(r) \/ BackoffOver(r)
  \/ ChanceRefused \/ ChanceInBackoff \/ ReadSkips \/ ChanceCounted \/ BackoffGoesOn

Next == Runner \/ Cancel \/ Replace \/ \E r \in RunIds : Step(r)

Spec == Init /\ [][Next]_vars

\* The clock goes on, so the job gets its chances, and threads that can run
\* do; the command itself may take for ever.
FairSpec ==
  /\ Spec
  /\ WF_vars(Runner)
  /\ \A r \in RunIds : WF_vars(Step(r) /\ pc[r] # "exec")

-----------------------------------------------------------------------------
\* A job that has come to rest as Failed was reported to the NotifyOnFailure
\* sinks, however its runs overlapped: the status a run reads into its record
\* after the error handler may be another run's, but never hides a stop.
StoppedJobIsReported ==
  (Active = {} /\ status = "Failed") => reported = "yes"

\* As long as no chance comes while a run is active, BackoffErrorHandler gives
\* the job up exactly when doubling the level passes MaxBackoffWait: with 8, at
\* the fifth consecutive failure; StopErrorHandler gives it up at the first.
GivesUpInTime ==
  (overlapped = "no" /\ status = "Failed") =>
    /\ handler = "Stop" => fails = 1
    /\ handler = "Backoff" => /\ 2 ^ (fails - 1) > MaxBackoffWait
                              /\ 2 ^ (fails - 2) <= MaxBackoffWait

\* "We'll handle it by skipping the next N consecutive chances to run.  If this
\* is the first time it has failed [...], then N will be 1; otherwise, N will be
\* twice the amount of chances previously skipped": so says the comment in
\* BackoffErrorHandler.Handle, as long as no chance comes while a run is active.
BackoffSkipsAsDocumented ==
  [][\A r \in RunIds :
       (pc[r] = "idle" /\ pc'[r] = "exec" /\ status = "Backoff"
          /\ cancelled = "no" /\ overlapped' = "no") =>
         skipped = 2 ^ (fails - 1)]_vars

\* What ShouldRun does instead, since the chance at which skipsLeft gets to 0 is
\* taken: 2^(n-1) - 1 chances are skipped (0, 1, 3 and 7).
BackoffWaits ==
  [][\A r \in RunIds :
       (pc[r] = "idle" /\ pc'[r] = "exec" /\ status = "Backoff"
          /\ cancelled = "no" /\ overlapped' = "no") =>
         skipped = 2 ^ (fails - 1) - 1]_vars

\* A job in backoff is run again sooner or later, also when overlapping runs
\* have raced on its level and its skips.
RetriedAfterBackoff ==
  (status = "Backoff" /\ Active = {}) ~> (Active # {} \/ cancelled = "yes")

=============================================================================
