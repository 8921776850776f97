----------------------------- MODULE JobRunProofs -----------------------------
(***************************************************************************)
(* Proofs about JobRun, for any number of overlapping runs, any handlers   *)
(* and any MaxBackoffWait: a job that is given up is reported, and if runs *)
(* do not overlap it is given up as the level says, and waits one chance   *)
(* less than that.                                                         *)
(***************************************************************************)
EXTENDS JobRun, FiniteSetTheorems, TLAPS

\* Each thread of a run is at a label, and its record has a status.
ThreadType ==
  /\ pc \in [RunIds -> {"idle", "exec", "update", "first", "one", "again",
                        "double", "check", "giveup", "reset", "unskip", "wait",
                        "skip", "read", "send"}]
  /\ newStatus \in [RunIds -> Statuses]
  /\ status \in Statuses

\* A thread that will report the job's failure: it has written the status
\* Failed, or will read it, or carries it in its record.
WillReport(r) ==
  \/ pc[r] \in {"reset", "unskip", "read"}
  \/ pc[r] = "send" /\ newStatus[r] = "Failed"

\* While a stopped job is not reported, some thread will report it.
Reporting ==
  (status = "Failed" /\ reported # "yes") => \E r \in RunIds : WillReport(r)

ReportInv == ThreadType /\ Reporting

LEMMA InitReport == Init => ReportInv
  BY DEF Init, ReportInv, ThreadType, Reporting, Statuses

\* Every step keeps the types of the threads.
LEMMA NextThreadType == ThreadType /\ [Next]_vars => ThreadType'
<1> SUFFICES ASSUME ThreadType, [Next]_vars PROVE ThreadType'
  OBVIOUS
<1> USE DEF ThreadType, Statuses, jobVars, recVars, histVars
<1>1. CASE Runner
  BY <1>1 DEF Runner, ChanceTaken, ChanceRefused, ChanceInBackoff, ReadSkips,
              ChanceCounted, BackoffOver, BackoffGoesOn, LaunchRun, vars
<1>2. CASE Cancel \/ Replace \/ UNCHANGED vars
  BY <1>2 DEF Cancel, Replace, vars
<1>3. ASSUME NEW r \in RunIds, Step(r) PROVE ThreadType'
  <2>1. CASE ExecEnds(r) \/ HandleBackoff(r) \/ LevelOne(r) \/ ReadLevel(r)
             \/ DoubleLevel(r) \/ CheckLevel(r) \/ ResetLevel(r) \/ ResetSkips(r)
             \/ LevelToSkip(r) \/ SetSkips(r)
    BY <2>1 DEF ExecEnds, HandleBackoff, LevelOne, ReadLevel, DoubleLevel, CheckLevel,
                ResetLevel, ResetSkips, LevelToSkip, SetSkips, Goto
  <2>2. CASE UpdateStatus(r) \/ FirstFailure(r) \/ GiveUp(r)
    BY <2>2 DEF UpdateStatus, FirstFailure, GiveUp, SetStatus, Goto
  <2>3. CASE ReadStatus(r) \/ HandleRunRec(r)
    BY <2>3 DEF ReadStatus, HandleRunRec, Goto
  <2> QED
    BY <1>3, <2>1, <2>2, <2>3 DEF Step
<1> QED
  BY <1>1, <1>2, <1>3 DEF Next

\* Every step keeps some thread on its way to report a stopped job.
LEMMA NextReporting == ReportInv /\ [Next]_vars => Reporting'
<1> SUFFICES ASSUME ReportInv, [Next]_vars PROVE Reporting'
  OBVIOUS
<1> USE DEF jobVars, recVars, histVars
<1>t. ThreadType
  BY DEF ReportInv
<1>keep. ASSUME UNCHANGED <<status, reported>>,
                \A r \in RunIds : WillReport(r) => WillReport(r)'
         PROVE  Reporting'
  BY <1>keep DEF ReportInv, Reporting
<1>1. CASE Runner
  <2>1. \A r \in RunIds : WillReport(r) => WillReport(r)'
    BY <1>1, <1>t DEF Runner, ChanceTaken, ChanceRefused, ChanceInBackoff, ReadSkips, ChanceCounted,
       BackoffOver, BackoffGoesOn, LaunchRun, vars, WillReport, ThreadType
  <2>2. UNCHANGED <<status, reported>>
    BY <1>1 DEF Runner, ChanceTaken, ChanceRefused, ChanceInBackoff, ReadSkips,
       ChanceCounted, BackoffOver, BackoffGoesOn, LaunchRun, vars
  <2> QED
    BY <2>1, <2>2, <1>keep
<1>2. CASE Cancel \/ UNCHANGED vars
  BY <1>2, <1>keep DEF Cancel, vars, WillReport
<1>3. CASE Replace
  BY <1>3 DEF Replace, Reporting
<1>4. ASSUME NEW r \in RunIds, Step(r) PROVE Reporting'
  <2>1. CASE ExecEnds(r) \/ HandleBackoff(r) \/ LevelOne(r) \/ ReadLevel(r)
             \/ DoubleLevel(r) \/ CheckLevel(r) \/ ResetLevel(r) \/ ResetSkips(r)
             \/ LevelToSkip(r) \/ SetSkips(r)
    <3>1. UNCHANGED <<status, reported, newStatus>>
      BY <2>1 DEF ExecEnds, HandleBackoff, LevelOne, ReadLevel, DoubleLevel,
                  CheckLevel, ResetLevel, ResetSkips, LevelToSkip, SetSkips
    <3>2. \A s \in RunIds : WillReport(s) => WillReport(s)'
      BY <2>1, <3>1, <1>t DEF ExecEnds, HandleBackoff, LevelOne, ReadLevel,
         DoubleLevel, CheckLevel, ResetLevel, ResetSkips, LevelToSkip, SetSkips,
         Goto, WillReport, ThreadType
    <3> QED
      BY <3>1, <3>2, <1>keep
  <2>2. CASE UpdateStatus(r)
    <3>1. pc'[r] = "read"
      BY <2>2, <1>t DEF UpdateStatus, Goto, ThreadType
    <3> QED
      BY <3>1 DEF Reporting, WillReport
  <2>3. CASE FirstFailure(r)
    BY <2>3 DEF FirstFailure, SetStatus, Reporting
  <2>4. CASE GiveUp(r)
    <3>1. pc'[r] = "reset"
      BY <2>4, <1>t DEF GiveUp, Goto, ThreadType
    <3> QED
      BY <3>1 DEF Reporting, WillReport
  <2>5. CASE ReadStatus(r)
    <3>1. UNCHANGED <<status, reported>>
      BY <2>5 DEF ReadStatus
    <3>2. pc'[r] = "send" /\ newStatus'[r] = status
      BY <2>5, <1>t DEF ReadStatus, Goto, ThreadType
    <3> QED
      BY <3>1, <3>2 DEF Reporting, WillReport
  <2>6. CASE HandleRunRec(r)
    <3>1. CASE newStatus[r] = "Failed"
      BY <2>6, <3>1 DEF HandleRunRec, Reporting
    <3>2. CASE newStatus[r] # "Failed"
      <4>1. UNCHANGED <<status, reported>>
        BY <2>6, <3>2 DEF HandleRunRec
      <4>2. \A s \in RunIds : WillReport(s) => WillReport(s)'
        BY <2>6, <3>2, <1>t DEF HandleRunRec, Goto, WillReport, ThreadType
      <4> QED
        BY <4>1, <4>2, <1>keep
    <3> QED
      BY <3>1, <3>2
  <2> QED
    BY <1>4, <2>1, <2>2, <2>3, <2>4, <2>5, <2>6 DEF Step
<1> QED
  BY <1>1, <1>2, <1>3, <1>4 DEF Next

\* However many runs of a job overlap, a job that comes to rest as Failed has
\* been reported to its NotifyOnFailure sinks.
THEOREM StopIsReported == Spec => []StoppedJobIsReported
<1>1. ReportInv /\ [Next]_vars => ReportInv'
  BY NextThreadType, NextReporting DEF ReportInv
<1>2. ReportInv => StoppedJobIsReported
  BY DEF ReportInv, Reporting, WillReport, ThreadType, StoppedJobIsReported,
         Active
<1> QED
  BY <1>1, <1>2, InitReport, PTL DEF Spec

-----------------------------------------------------------------------------
(***************************************************************************)
(* Runs that do not overlap: when the job is given up, and how long it     *)
(* waits.  The invariant follows the one run there is through the error    *)
(* handler, at each place saying how many failures status, level and skips *)
(* already account for.                                                    *)
(***************************************************************************)

\* After f failures the job is in backoff at level l.
InBackoff(f, l) == f >= 1 /\ f <= l /\ l = 2 ^ (f - 1) /\ l <= MaxBackoffWait

\* After f failures, and not before, the job is to be given up.
GivenUp(f) == f >= 2 /\ 2 ^ (f - 1) > MaxBackoffWait /\ 2 ^ (f - 2) <= MaxBackoffWait

\* The job's fields are those of a job that failed f times in a row.
Accounts(f) ==
  /\ handler = "Backoff" => /\ status = "Good" => f = 0
                            /\ status = "Backoff" => InBackoff(f, level)
                            /\ status = "Failed" => GivenUp(f)
  /\ handler = "Stop" => /\ status = "Good" => f = 0
                         /\ status = "Failed" => f = 1
                         /\ status # "Backoff"
  /\ handler = "Continue" => status = "Good"

\* The chances skipped and those left to skip add up to the level.
Waits ==
  status = "Backoff" /\ cancelled = "no" =>
    IF asking = "yes" THEN skips + skipped + 1 = level ELSE skips > 0 /\ skips + skipped = level

\* What the place of the thread that runs the job says of the job.
Place(r) ==
  /\ pc[r] = "exec" => status # "Failed" /\ Accounts(fails)
  /\ pc[r] = "update" =>
       /\ status # "Failed"
       /\ fate[r] = "succeeded" => fails = 0
       /\ fate[r] = "failed" => fails >= 1 /\ Accounts(fails - 1)
       /\ fate[r] = "cancelled" => cancelled = "yes" /\ Accounts(fails)
  /\ pc[r] = "first" => handler = "Backoff" /\ status = "Good" /\ fails = 1
  /\ pc[r] = "one" => handler = "Backoff" /\ status = "Backoff" /\ fails = 1
  /\ pc[r] = "again" => handler = "Backoff" /\ status = "Backoff" /\ InBackoff(fails - 1, level)
  /\ pc[r] = "double" => /\ handler = "Backoff" /\ status = "Backoff"
                         /\ InBackoff(fails - 1, level) /\ tmp[r] = level
  /\ pc[r] = "check" => /\ handler = "Backoff" /\ status = "Backoff"
                        /\ level <= MaxBackoffWait => InBackoff(fails, level)
                        /\ level > MaxBackoffWait => GivenUp(fails)
  /\ pc[r] = "giveup" => handler = "Backoff" /\ status = "Backoff" /\ GivenUp(fails)
  /\ pc[r] \in {"reset", "unskip"} =>
       handler = "Backoff" /\ status = "Failed" /\ GivenUp(fails)
  /\ pc[r] = "wait" => handler = "Backoff" /\ status = "Backoff" /\ InBackoff(fails, level)
  /\ pc[r] = "skip" => /\ handler = "Backoff" /\ status = "Backoff"
                       /\ InBackoff(fails, level) /\ tmp[r] = level
  /\ pc[r] \in {"read", "send"} => Accounts(fails) /\ Waits

\* At rest.
Rests == Accounts(fails) /\ Waits

CountType ==
  /\ handler \in {"Stop", "Backoff", "Continue"}
  /\ fate \in [RunIds -> Fates]
  /\ level \in Nat /\ skips \in Nat /\ left \in Nat /\ skipped \in Nat /\ fails \in Nat
  /\ tmp \in [RunIds -> Nat]
  /\ asking \in {"no", "backoff", "read", "yes"}
  /\ cancelled \in {"yes", "no"} /\ overlapped \in {"yes", "no"}

Alone == \A q, r \in RunIds : pc[q] # "idle" /\ pc[r] # "idle" => q = r

AloneInv ==
  overlapped = "no" =>
    /\ Alone
    /\ asking # "no" => Active = {} /\ status = "Backoff"
    /\ asking = "read" => left = skips
    /\ \A r \in RunIds : Place(r) /\ (pc[r] # "idle" => skipped = 0)
    /\ Active = {} => Rests

BackoffInv == ThreadType /\ CountType /\ AloneInv

-----------------------------------------------------------------------------

\* The subsets of 1..n + 1 are those of 1..n, with and without n + 1.
LEMMA PowerDoubles ==
  ASSUME NEW n \in Nat
  PROVE  2 ^ (n + 1) = 2 * 2 ^ n /\ 2 ^ n \in Nat
<1> DEFINE S == 1..n
           T == 1..(n + 1)
           A == SUBSET S
           B == {X \union {n + 1} : X \in A}
           f == [X \in A |-> X \union {n + 1}]
<1>1. /\ IsFiniteSet(S) /\ Cardinality(S) = n
      /\ IsFiniteSet(T) /\ Cardinality(T) = n + 1
  BY FS_Interval
<1>2. IsFiniteSet(A) /\ Cardinality(A) = 2^n /\ Cardinality(SUBSET T) = 2^(n + 1)
  BY <1>1, FS_SUBSET
<1>3. \A X \in A : n + 1 \notin X
  OBVIOUS
<1>4. f \in Bijection(A, B)
  <2>1. f \in [A -> B]
    OBVIOUS
  <2>2. ASSUME NEW X \in A, NEW Y \in A, X \union {n + 1} = Y \union {n + 1} PROVE X = Y
    BY <1>3, <2>2
  <2>3. IsInjective(f)
    BY <2>2 DEF IsInjective
  <2>4. \A Z \in B : \E X \in A : f[X] = Z
    OBVIOUS
  <2> QED BY <2>1, <2>3, <2>4 DEF Bijection, Injection, Surjection
<1>5. IsFiniteSet(B) /\ Cardinality(B) = 2^n
  BY <1>2, <1>4, FS_Bijection DEF ExistsBijection
<1>6. SUBSET T = A \union B
  <2>1. ASSUME NEW Z \in SUBSET T PROVE Z \in A \union B
    <3>1. CASE n + 1 \in Z
      <4>1. Z \ {n + 1} \in A /\ Z = (Z \ {n + 1}) \union {n + 1}
        BY <3>1
      <4> QED BY <4>1
    <3>2. CASE n + 1 \notin Z
      BY <3>2
    <3> QED BY <3>1, <3>2
  <2>2. ASSUME NEW Z \in A \union B PROVE Z \in SUBSET T
    <3>1. \A X \in A : X \in SUBSET T /\ X \union {n + 1} \in SUBSET T
      OBVIOUS
    <3> QED BY <3>1
  <2> QED BY <2>1, <2>2
<1>7. A \intersect B = {}
  BY <1>3
<1> HIDE DEF A, B
<1>u. Cardinality(A \union B) = Cardinality(A) + Cardinality(B) - Cardinality(A \intersect B)
  BY <1>2, <1>5, FS_Union
<1>e. Cardinality(A \intersect B) = 0
  BY <1>7, FS_EmptySet
<1>8. Cardinality(SUBSET T) = Cardinality(A) + Cardinality(B) - 0
  BY <1>6, <1>u, <1>e
<1>9. Cardinality(A) \in Nat
  BY <1>2, FS_CardinalityType
<1> DEFINE p == 2^n
           q == 2^(n + 1)
<1>10. q = p + p - 0 /\ p \in Nat
  BY <1>2, <1>5, <1>8, <1>9
<1> HIDE DEF p, q
<1>11. q = 2 * p
  BY <1>10
<1> QED BY <1>10, <1>11 DEF p, q

LEMMA FirstLevel == InBackoff(1, 1)
<1>1. 2 ^ 0 = 1
  OBVIOUS
<1>2. 1 - 1 = 0
  OBVIOUS
<1> QED BY <1>1, <1>2, JobRunAssumption DEF InBackoff

\* Doubling the level accounts for one more failure.
LEMMA NextLevel ==
  ASSUME NEW f \in Nat, NEW l \in Nat, InBackoff(f - 1, l), NEW d, d = Doubled(l)
  PROVE  /\ d \in Nat /\ f >= 2
         /\ d <= MaxBackoffWait => InBackoff(f, d)
         /\ d > MaxBackoffWait => GivenUp(f)
<1> DEFINE p == 2 ^ (f - 2)
           q == 2 ^ (f - 1)
<1>1. /\ f - 1 >= 1 /\ f - 1 <= l /\ l = 2 ^ ((f - 1) - 1) /\ l <= MaxBackoffWait
  BY DEF InBackoff
<1>2. f - 2 \in Nat /\ (f - 1) - 1 = f - 2 /\ (f - 2) + 1 = f - 1 /\ f >= 2
  BY <1>1
<1>3. l = p /\ q = 2 * p /\ p \in Nat
  BY <1>1, <1>2, PowerDoubles
<1> HIDE DEF p, q
<1>4. d = IF 2 * l > MaxBackoffWait THEN MaxBackoffWait + 1 ELSE 2 * l
  BY DEF Doubled
<1>5. MaxBackoffWait \in Nat
  BY JobRunAssumption
<1>6. CASE 2 * l > MaxBackoffWait
  <2>1. d = MaxBackoffWait + 1 /\ f >= 2 /\ q > MaxBackoffWait /\ p <= MaxBackoffWait
    BY <1>1, <1>2, <1>3, <1>4, <1>6
  <2> QED BY <1>5, <2>1 DEF GivenUp, p, q
<1>7. CASE ~(2 * l > MaxBackoffWait)
  <2>1. d = 2 * l /\ d = q /\ d <= MaxBackoffWait /\ f >= 1 /\ f <= d /\ d \in Nat /\ f >= 2
    BY <1>1, <1>2, <1>3, <1>4, <1>5, <1>7
  <2> QED BY <1>5, <2>1 DEF InBackoff, q
<1> QED BY <1>6, <1>7

LEMMA CountedType ==
  ASSUME CountType, NEW o \in {"yes", "no"}, NEW f \in Nat, NEW s \in Nat, Count(o, f, s)
  PROVE  overlapped' \in {"yes", "no"} /\ fails' \in Nat /\ skipped' \in Nat
BY DEF Count

LEMMA NextCountType == ASSUME CountType, [Next]_vars PROVE CountType'
<1> USE DEF jobVars, recVars, histVars
<1>1. /\ handler \in {"Stop", "Backoff", "Continue"} /\ fate \in [RunIds -> Fates]
      /\ level \in Nat /\ skips \in Nat /\ left \in Nat /\ skipped \in Nat /\ fails \in Nat
      /\ tmp \in [RunIds -> Nat] /\ asking \in {"no", "backoff", "read", "yes"}
      /\ cancelled \in {"yes", "no"} /\ overlapped \in {"yes", "no"}
  BY DEF CountType
<1>2. Overlaps \in {"yes", "no"} /\ 0 \in Nat
  BY <1>1 DEF Overlaps
<1>3. CASE \E r \in RunIds : ChanceTaken(r) \/ BackoffOver(r)
  <2>1. /\ UNCHANGED <<handler, jobVars, left, cancelled, tmp, recVars>>
        /\ asking' \in {"yes", "no"}
        /\ Count(Overlaps, fails, 0) \/ Count(overlapped, fails, 0)
    BY <1>1, <1>3 DEF ChanceTaken, BackoffOver
  <2>2. overlapped' \in {"yes", "no"} /\ fails' \in Nat /\ skipped' \in Nat
    BY <1>1, <1>2, <2>1, CountedType
  <2> QED BY <1>1, <2>1, <2>2 DEF CountType
<1>4. CASE ChanceInBackoff \/ ReadSkips \/ ChanceCounted
  <2>1. CASE ChanceInBackoff
    <3>1. /\ UNCHANGED <<handler, jobVars, left, cancelled, tmp, recVars>> /\ asking' = "backoff"
          /\ Count(Overlaps, fails, skipped)
      BY <2>1 DEF ChanceInBackoff
    <3>2. overlapped' \in {"yes", "no"} /\ fails' \in Nat /\ skipped' \in Nat
      BY <1>1, <1>2, <3>1, CountedType
    <3> QED BY <1>1, <3>1, <3>2 DEF CountType
  <2>2. CASE ReadSkips
    BY <1>1, <2>2 DEF ReadSkips, CountType
  <2>3. CASE ChanceCounted
    <3>1. /\ UNCHANGED <<handler, level, cancelled, tmp, recVars, histVars>>
          /\ asking' = "yes" /\ left' = 0 /\ skips' = IF left > 0 THEN left - 1 ELSE 0
      BY <2>3 DEF ChanceCounted
    <3>2. skips' \in Nat
      BY <1>1, <3>1
    <3> QED BY <1>1, <1>2, <3>1, <3>2 DEF CountType
  <2> QED BY <1>4, <2>1, <2>2, <2>3
<1>5. CASE BackoffGoesOn
  <2> DEFINE s == IF skipped < MaxBackoffWait THEN skipped + 1 ELSE skipped
  <2>1. /\ UNCHANGED <<handler, jobVars, left, cancelled, tmp, recVars>> /\ asking' = "no"
        /\ Count(overlapped, fails, s)
    BY <1>5 DEF BackoffGoesOn
  <2>2. s \in Nat
    BY <1>1
  <2> HIDE DEF s
  <2>3. overlapped' \in {"yes", "no"} /\ fails' \in Nat /\ skipped' \in Nat
    BY <1>1, <2>1, <2>2, CountedType
  <2> QED BY <1>1, <2>1, <2>3 DEF CountType
<1>6. CASE ChanceRefused \/ Cancel \/ UNCHANGED vars
  BY <1>6 DEF ChanceRefused, Cancel, CountType, vars
<1>7. CASE Replace
  BY <1>1, <1>7, JobRunAssumption DEF Replace, CountType
<1>8. ASSUME NEW r \in RunIds, Step(r) PROVE CountType'
  <2>1. CASE ExecEnds(r)
    <3>1. PICK f \in Fates :
            /\ fate' = [fate EXCEPT ![r] = f]
            /\ Count(overlapped,
                     CASE f = "succeeded" -> 0
                       [] f = "failed" -> IF fails < FailCap THEN fails + 1 ELSE fails
                       [] f = "cancelled" -> fails,
                     skipped)
      BY <2>1 DEF ExecEnds
    <3> DEFINE n == CASE f = "succeeded" -> 0
                      [] f = "failed" -> IF fails < FailCap THEN fails + 1 ELSE fails
                      [] f = "cancelled" -> fails
    <3>2. n \in Nat
      BY <1>1 DEF Fates
    <3>3. Count(overlapped, n, skipped)
      BY <3>1
    <3> HIDE DEF n
    <3>4. overlapped' \in {"yes", "no"} /\ fails' \in Nat /\ skipped' \in Nat
      BY <1>1, <3>2, <3>3, CountedType
    <3>5. UNCHANGED <<handler, jobVars, asking, left, cancelled, tmp>>
      BY <2>1 DEF ExecEnds
    <3> QED BY <1>1, <3>1, <3>4, <3>5 DEF CountType
  <2>2. CASE UpdateStatus(r) \/ HandleBackoff(r) \/ FirstFailure(r) \/ CheckLevel(r) \/ GiveUp(r)
             \/ ReadStatus(r)
    BY <1>1, <2>2 DEF UpdateStatus, HandleBackoff, FirstFailure, CheckLevel, GiveUp,
                      ReadStatus, CountType
  <2>3. CASE LevelOne(r) \/ ResetLevel(r) \/ ResetSkips(r)
    BY <1>1, <2>3 DEF LevelOne, ResetLevel, ResetSkips, CountType
  <2>6. CASE ReadLevel(r) \/ LevelToSkip(r)
    <3>1. /\ UNCHANGED <<handler, jobVars, asking, left, cancelled, fate, histVars>>
          /\ tmp' = [tmp EXCEPT ![r] = level]
      BY <2>6 DEF ReadLevel, LevelToSkip
    <3>2. tmp' \in [RunIds -> Nat]
      BY <1>1, <3>1
    <3> QED BY <1>1, <3>1, <3>2 DEF CountType
  <2>7. CASE SetSkips(r)
    <3>1. /\ UNCHANGED <<handler, level, asking, left, cancelled, fate, histVars>>
          /\ tmp' = [tmp EXCEPT ![r] = 0] /\ skips' = tmp[r]
      BY <2>7 DEF SetSkips
    <3>2. tmp' \in [RunIds -> Nat] /\ skips' \in Nat
      BY <1>1, <3>1
    <3> QED BY <1>1, <3>1, <3>2 DEF CountType
  <2>4. CASE DoubleLevel(r)
    <3>1. Doubled(tmp[r]) \in Nat
      BY <1>1, JobRunAssumption DEF Doubled
    <3> QED BY <1>1, <2>4, <3>1 DEF DoubleLevel, CountType
  <2>5. CASE HandleRunRec(r)
    BY <1>1, <2>5 DEF HandleRunRec, CountType, Fates
  <2> QED BY <1>8, <2>1, <2>2, <2>3, <2>4, <2>5, <2>6, <2>7 DEF Step
<1> QED BY <1>3, <1>4, <1>5, <1>6, <1>7, <1>8 DEF Next, Runner

\* The one run there is takes a step.
LEMMA OneRunSteps ==
  ASSUME BackoffInv, NEW r \in RunIds, pc[r] # "idle", NEW l, Goto(r, l),
         asking' = asking, overlapped' = overlapped,
         ASSUME overlapped = "no", asking = "no", skipped = 0, Place(r)
         PROVE  skipped' = 0 /\ Place(r)' /\ (l = "idle" => Rests')
  PROVE  AloneInv'
<1> SUFFICES ASSUME overlapped = "no"
             PROVE  /\ Alone' /\ asking' = "no"
                    /\ \A q \in RunIds : Place(q)' /\ (pc'[q] # "idle" => skipped' = 0)
                    /\ Active' = {} => Rests'
  BY DEF AloneInv
<1>1. ThreadType /\ Alone /\ asking = "no" /\ skipped = 0 /\ Place(r)
  <2>1. Active # {}
    BY DEF Active
  <2> QED BY <2>1 DEF BackoffInv, AloneInv, CountType
<1>2. skipped' = 0 /\ Place(r)' /\ (l = "idle" => Rests')
  BY <1>1
<1>3. pc'[r] = l /\ \A q \in RunIds : q # r => pc'[q] = "idle"
  BY <1>1 DEF Goto, ThreadType, Alone
<1>4. ASSUME NEW q \in RunIds, q # r PROVE Place(q)'
  BY <1>3, <1>4 DEF Place
<1>5. Alone'
  BY <1>3 DEF Alone
<1>6. Active' = {} => l = "idle"
  BY <1>3 DEF Active
<1> QED BY <1>1, <1>2, <1>4, <1>5, <1>6

LEMMA StepAlone == ASSUME BackoffInv, NEW r \in RunIds, Step(r), CountType' PROVE AloneInv'
<1> USE DEF jobVars, recVars, histVars
<1>1. ThreadType /\ CountType
  BY DEF BackoffInv
<1>2. /\ pc \in [RunIds -> {"idle", "exec", "update", "first", "one", "again",
                            "double", "check", "giveup", "reset", "unskip", "wait",
                            "skip", "read", "send"}]
      /\ status \in Statuses /\ fate[r] \in Fates
      /\ handler \in {"Stop", "Backoff", "Continue"} /\ fails \in Nat /\ level \in Nat
  BY <1>1 DEF ThreadType, CountType
<1>3. MaxBackoffWait \in Nat \ {0} /\ FailCap \in Nat /\ FailCap > MaxBackoffWait
  BY JobRunAssumption
<1>4. CASE ExecEnds(r)
  <2>1. PICK f \in Fates :
          /\ f = "cancelled" => cancelled = "yes"
          /\ fate' = [fate EXCEPT ![r] = f]
          /\ Count(overlapped,
                   CASE f = "succeeded" -> 0
                     [] f = "failed" -> IF fails < FailCap THEN fails + 1 ELSE fails
                     [] f = "cancelled" -> fails,
                   skipped)
    BY <1>4 DEF ExecEnds
  <2> DEFINE n == CASE f = "succeeded" -> 0
                    [] f = "failed" -> IF fails < FailCap THEN fails + 1 ELSE fails
                    [] f = "cancelled" -> fails
  <2>2. /\ pc[r] = "exec" /\ Goto(r, "update") /\ UNCHANGED <<handler, jobVars, asking, cancelled>>
        /\ overlapped' = overlapped
    BY <1>4, <2>1 DEF ExecEnds, Count
  <2>3. ASSUME overlapped = "no", skipped = 0, Place(r)
        PROVE  skipped' = 0 /\ Place(r)'
    <3>1. fails' = n /\ skipped' = 0
      BY <2>1, <2>3 DEF Count
    <3>2. status # "Failed" /\ Accounts(fails)
      BY <2>2, <2>3 DEF Place
    <3>3. fate'[r] = f /\ pc'[r] = "update" /\ f \in Fates
      BY <1>1, <1>2, <2>1, <2>2 DEF Goto, CountType
    <3>4. CASE f = "succeeded"
      BY <2>2, <3>1, <3>2, <3>3, <3>4 DEF Place
    <3>5. CASE f = "cancelled"
      <4>1. n = fails
        BY <3>5
      <4> QED BY <2>1, <2>2, <3>1, <3>2, <3>3, <3>5, <4>1 DEF Place, Accounts
    <3>6. CASE f = "failed"
      <4>1. n = IF fails < FailCap THEN fails + 1 ELSE fails
        BY <3>6
      <4> HIDE DEF n
      <4>2. n >= 1
        BY <1>2, <1>3, <4>1
      <4>3. handler # "Continue" => n - 1 = fails
        <5>1. handler = "Backoff" /\ status = "Backoff" => fails < FailCap
          BY <1>2, <1>3, <3>2 DEF Accounts, InBackoff
        <5>2. handler # "Continue" /\ status = "Good" => fails < FailCap
          BY <1>2, <1>3, <3>2 DEF Accounts
        <5>3. handler # "Continue" => fails < FailCap
          BY <1>2, <3>2, <5>1, <5>2 DEF Accounts, Statuses
        <5> QED BY <1>2, <4>1, <5>3
      <4>4. handler' = handler /\ status' = status /\ level' = level
        BY <2>2
      <4>5. Accounts(fails - 1)'
        BY <3>1, <3>2, <4>3, <4>4 DEF Accounts
      <4> QED BY <3>1, <3>2, <3>3, <3>6, <4>2, <4>4, <4>5 DEF Place
    <3> QED BY <3>1, <3>3, <3>4, <3>5, <3>6 DEF Fates
  <2> QED BY <2>2, <2>3, OneRunSteps
<1>5. CASE UpdateStatus(r)
  <2>1. /\ pc[r] = "update" /\ Goto(r, "read")
        /\ UNCHANGED <<handler, level, skips, asking, cancelled, fails, skipped, overlapped>>
        /\ \/ fate[r] = "succeeded" /\ status' = "Good"
           \/ fate[r] = "failed" /\ handler = "Continue" /\ status' = "Good"
           \/ fate[r] = "failed" /\ handler = "Stop" /\ status' = "Failed"
           \/ fate[r] = "cancelled" /\ status' = status
    BY <1>5 DEF UpdateStatus, SetStatus
  <2>2. ASSUME skipped = 0, Place(r) PROVE skipped' = 0 /\ Place(r)'
    <3>1. pc'[r] = "read"
      BY <1>2, <2>1 DEF Goto
    <3>2. /\ status # "Failed"
          /\ fate[r] = "succeeded" => fails = 0
          /\ fate[r] = "failed" => fails >= 1 /\ Accounts(fails - 1)
          /\ fate[r] = "cancelled" => cancelled = "yes" /\ Accounts(fails)
      BY <2>1, <2>2 DEF Place
    <3>3. Accounts(fails)'
      <4>1. CASE fate[r] = "failed" /\ handler = "Stop"
        <5>1. status = "Good" /\ fails - 1 = 0
          BY <1>2, <3>2, <4>1 DEF Accounts, Statuses
        <5> QED BY <1>2, <2>1, <4>1, <5>1 DEF Accounts
      <4>2. CASE ~(fate[r] = "failed" /\ handler = "Stop")
        BY <2>1, <3>2, <4>2 DEF Accounts
      <4> QED BY <4>1, <4>2
    <3>4. Waits'
      BY <2>1, <3>2 DEF Waits
    <3> QED BY <2>1, <2>2, <3>1, <3>3, <3>4 DEF Place
  <2> QED BY <2>1, <2>2, OneRunSteps
<1>6. CASE HandleBackoff(r)
  <2> DEFINE l == IF status = "Good" THEN "first" ELSE "again"
  <2>1. /\ pc[r] = "update" /\ fate[r] = "failed" /\ handler = "Backoff" /\ Goto(r, l)
        /\ UNCHANGED <<handler, jobVars, asking, cancelled, fails, skipped, overlapped>>
    BY <1>6 DEF HandleBackoff
  <2>2. ASSUME skipped = 0, Place(r) PROVE skipped' = 0 /\ Place(r)'
    <3>1. pc'[r] = l
      BY <1>2, <2>1 DEF Goto
    <3>2. status # "Failed" /\ fails >= 1 /\ Accounts(fails - 1)
      BY <2>1, <2>2 DEF Place
    <3>3. /\ status = "Good" => fails - 1 = 0
          /\ status = "Backoff" => InBackoff(fails - 1, level)
      BY <2>1, <3>2 DEF Accounts
    <3>4. /\ status = "Good" => fails = 1
          /\ status # "Good" => status = "Backoff"
      BY <1>2, <3>2, <3>3 DEF Statuses
    <3>5. CASE status = "Good"
      BY <2>1, <2>2, <3>1, <3>4, <3>5 DEF Place
    <3>6. CASE status # "Good"
      BY <2>1, <2>2, <3>1, <3>3, <3>4, <3>6 DEF Place
    <3> QED BY <3>5, <3>6
  <2>3. l # "idle"
    OBVIOUS
  <2> HIDE DEF l
  <2> QED BY <2>1, <2>2, <2>3, OneRunSteps
<1>7. CASE FirstFailure(r) \/ LevelOne(r) \/ ReadLevel(r)
  <2>1. PICK l \in {"one", "check", "double"} : Goto(r, l)
    BY <1>7 DEF FirstFailure, LevelOne, ReadLevel
  <2>2. /\ UNCHANGED <<handler, skips, asking, cancelled, fails, skipped, overlapped>>
        /\ pc[r] \in {"first", "one", "again"}
    BY <1>7 DEF FirstFailure, LevelOne, ReadLevel
  <2>3. ASSUME skipped = 0, Place(r) PROVE skipped' = 0 /\ Place(r)'
    <3>1. CASE FirstFailure(r)
      <4>1. pc[r] = "first" /\ pc'[r] = "one" /\ status' = "Backoff"
        BY <1>2, <3>1 DEF FirstFailure, SetStatus, Goto
      <4> QED BY <2>2, <2>3, <4>1 DEF Place
    <3>2. CASE LevelOne(r)
      <4>1. pc[r] = "one" /\ pc'[r] = "check" /\ status' = status /\ level' = 1
        BY <1>2, <3>2 DEF LevelOne, Goto
      <4>2. handler = "Backoff" /\ status = "Backoff" /\ fails = 1
        BY <2>3, <4>1 DEF Place
      <4>3. ~(1 > MaxBackoffWait)
        BY <1>3
      <4> QED BY <2>2, <2>3, <4>1, <4>2, <4>3, FirstLevel DEF Place
    <3>3. CASE ReadLevel(r)
      <4>1. /\ pc[r] = "again" /\ pc'[r] = "double" /\ status' = status
            /\ level' = level /\ tmp'[r] = level
        BY <1>1, <1>2, <3>3 DEF ReadLevel, Goto, CountType
      <4> QED BY <2>2, <2>3, <4>1 DEF Place
    <3> QED BY <1>7, <3>1, <3>2, <3>3
  <2> QED BY <2>1, <2>2, <2>3, OneRunSteps
<1>8. CASE DoubleLevel(r)
  <2>1. /\ pc[r] = "double" /\ Goto(r, "check") /\ level' = Doubled(tmp[r])
        /\ UNCHANGED <<handler, status, asking, cancelled, fails, skipped, overlapped>>
    BY <1>8 DEF DoubleLevel
  <2>2. ASSUME skipped = 0, Place(r) PROVE skipped' = 0 /\ Place(r)'
    <3>1. pc'[r] = "check"
      BY <1>2, <2>1 DEF Goto
    <3>2. handler = "Backoff" /\ status = "Backoff" /\ InBackoff(fails - 1, level) /\ tmp[r] = level
      BY <2>1, <2>2 DEF Place
    <3>3. /\ level' <= MaxBackoffWait => InBackoff(fails, level')
          /\ level' > MaxBackoffWait => GivenUp(fails)
      BY <1>2, <2>1, <3>2, NextLevel
    <3> QED BY <2>1, <2>2, <3>1, <3>2, <3>3 DEF Place
  <2> QED BY <2>1, <2>2, OneRunSteps
<1>9. CASE CheckLevel(r)
  <2> DEFINE l == IF level > MaxBackoffWait THEN "giveup" ELSE "wait"
  <2>1. /\ pc[r] = "check" /\ Goto(r, l)
        /\ UNCHANGED <<handler, jobVars, asking, cancelled, fails, skipped, overlapped>>
    BY <1>9 DEF CheckLevel
  <2>2. ASSUME skipped = 0, Place(r) PROVE skipped' = 0 /\ Place(r)'
    <3>1. pc'[r] = l
      BY <1>2, <2>1 DEF Goto
    <3>2. /\ handler = "Backoff" /\ status = "Backoff"
          /\ level <= MaxBackoffWait => InBackoff(fails, level)
          /\ level > MaxBackoffWait => GivenUp(fails)
      BY <2>1, <2>2 DEF Place
    <3>3. CASE level > MaxBackoffWait
      BY <2>1, <2>2, <3>1, <3>2, <3>3 DEF Place
    <3>4. CASE ~(level > MaxBackoffWait)
      <4>1. InBackoff(fails, level)
        BY <1>2, <1>3, <3>2, <3>4
      <4> QED BY <2>1, <2>2, <3>1, <3>2, <3>4, <4>1 DEF Place
    <3> QED BY <3>3, <3>4
  <2>3. l # "idle"
    OBVIOUS
  <2> HIDE DEF l
  <2> QED BY <2>1, <2>2, <2>3, OneRunSteps
<1>10. CASE GiveUp(r) \/ ResetLevel(r)
  <2>1. PICK l \in {"reset", "unskip"} : Goto(r, l)
    BY <1>10 DEF GiveUp, ResetLevel
  <2>2. /\ pc[r] \in {"giveup", "reset"}
        /\ status' = "Failed" \/ (pc[r] = "reset" /\ status' = status)
        /\ UNCHANGED <<handler, asking, cancelled, fails, skipped, overlapped>>
    <3>1. CASE GiveUp(r)
      BY <3>1 DEF GiveUp, SetStatus
    <3>2. CASE ResetLevel(r)
      BY <3>2 DEF ResetLevel
    <3> QED BY <1>10, <3>1, <3>2
  <2>3. ASSUME skipped = 0, Place(r) PROVE skipped' = 0 /\ Place(r)'
    <3>1. pc'[r] = l
      BY <1>2, <2>1 DEF Goto
    <3>2. handler = "Backoff" /\ GivenUp(fails) /\ status' = "Failed"
      BY <2>2, <2>3 DEF Place
    <3> QED BY <2>2, <2>3, <3>1, <3>2 DEF Place
  <2> QED BY <2>1, <2>2, <2>3, OneRunSteps
<1>11. CASE ResetSkips(r)
  <2>1. /\ pc[r] = "unskip" /\ Goto(r, "read")
        /\ UNCHANGED <<handler, status, asking, cancelled, fails, skipped, overlapped>>
    BY <1>11 DEF ResetSkips
  <2>2. ASSUME skipped = 0, Place(r) PROVE skipped' = 0 /\ Place(r)'
    <3>1. pc'[r] = "read"
      BY <1>2, <2>1 DEF Goto
    <3>2. handler = "Backoff" /\ status = "Failed" /\ GivenUp(fails)
      BY <2>1, <2>2 DEF Place
    <3>3. Accounts(fails)' /\ Waits'
      BY <2>1, <3>2 DEF Accounts, Waits
    <3> QED BY <2>1, <2>2, <3>1, <3>3 DEF Place
  <2> QED BY <2>1, <2>2, OneRunSteps
<1>13. CASE LevelToSkip(r)
  <2>1. /\ pc[r] = "wait" /\ Goto(r, "skip") /\ tmp'[r] = level
        /\ UNCHANGED <<handler, jobVars, asking, cancelled, fails, skipped, overlapped>>
    BY <1>1, <1>13 DEF LevelToSkip, CountType
  <2>2. ASSUME skipped = 0, Place(r) PROVE skipped' = 0 /\ Place(r)'
    <3>1. pc'[r] = "skip"
      BY <1>2, <2>1 DEF Goto
    <3> QED BY <2>1, <2>2, <3>1 DEF Place
  <2> QED BY <2>1, <2>2, OneRunSteps
<1>14. CASE SetSkips(r)
  <2>1. /\ pc[r] = "skip" /\ Goto(r, "read") /\ skips' = tmp[r]
        /\ UNCHANGED <<handler, status, level, asking, cancelled, fails, skipped, overlapped>>
    BY <1>14 DEF SetSkips
  <2>2. ASSUME skipped = 0, asking = "no", Place(r) PROVE skipped' = 0 /\ Place(r)'
    <3>1. pc'[r] = "read"
      BY <1>2, <2>1 DEF Goto
    <3>2. handler = "Backoff" /\ status = "Backoff" /\ InBackoff(fails, level) /\ tmp[r] = level
      BY <2>1, <2>2 DEF Place
    <3>3. Accounts(fails)'
      BY <2>1, <3>2 DEF Accounts
    <3>4. level > 0 /\ level + 0 = level
      BY <1>2, <3>2 DEF InBackoff
    <3>5. Waits'
      BY <2>1, <2>2, <3>2, <3>4 DEF Waits
    <3> QED BY <2>1, <2>2, <3>1, <3>3, <3>5 DEF Place
  <2> QED BY <2>1, <2>2, OneRunSteps
<1>12. CASE ReadStatus(r) \/ HandleRunRec(r)
  <2>1. PICK l \in {"send", "idle"} : Goto(r, l)
    BY <1>12 DEF ReadStatus, HandleRunRec
  <2>2. /\ pc[r] \in {"read", "send"}
        /\ UNCHANGED <<handler, jobVars, asking, cancelled, fails, skipped, overlapped>>
    BY <1>12 DEF ReadStatus, HandleRunRec
  <2>3. ASSUME skipped = 0, Place(r) PROVE skipped' = 0 /\ Place(r)' /\ Rests'
    <3>1. pc'[r] = l
      BY <1>2, <2>1 DEF Goto
    <3>2. Accounts(fails) /\ Waits
      BY <2>2, <2>3 DEF Place
    <3>3. Accounts(fails)' /\ Waits'
      BY <2>2, <3>2 DEF Accounts, Waits
    <3> QED BY <2>2, <2>3, <3>1, <3>3 DEF Place, Rests
  <2> QED BY <2>1, <2>2, <2>3, OneRunSteps
<1> QED BY <1>4, <1>5, <1>6, <1>7, <1>8, <1>9, <1>10, <1>11, <1>12, <1>13, <1>14 DEF Step

\* A chance to run the job comes.
LEMMA ChanceAlone == ASSUME BackoffInv, Runner, ThreadType', CountType' PROVE AloneInv'
<1> USE DEF jobVars, recVars, histVars
<1> SUFFICES ASSUME overlapped' = "no" PROVE AloneInv'
  BY DEF AloneInv
<1>1. ThreadType /\ CountType
  BY DEF BackoffInv
<1>2. /\ pc \in [RunIds -> {"idle", "exec", "update", "first", "one", "again",
                            "double", "check", "giveup", "reset", "unskip", "wait",
                            "skip", "read", "send"}]
      /\ skips \in Nat /\ left \in Nat /\ skipped \in Nat /\ level \in Nat /\ fails \in Nat
      /\ handler \in {"Stop", "Backoff", "Continue"} /\ asking \in {"no", "backoff", "read", "yes"}
      /\ MaxBackoffWait \in Nat
  BY <1>1, JobRunAssumption DEF ThreadType, CountType
<1>3. ASSUME Active = {}, overlapped = "no"
      PROVE  /\ \A q \in RunIds : pc[q] = "idle"
             /\ Accounts(fails) /\ Waits /\ (asking # "no" => status = "Backoff")
  BY <1>3 DEF Active, BackoffInv, AloneInv, Rests
<1>4. ASSUME NEW r \in RunIds, pc' = [pc EXCEPT ![r] = "exec"], asking' = "no", skipped' = 0,
             \A q \in RunIds : pc[q] = "idle", Accounts(fails)', status' # "Failed"
      PROVE  AloneInv'
  <2>1. pc'[r] = "exec" /\ \A q \in RunIds : q # r => pc'[q] = "idle"
    BY <1>2, <1>4
  <2>2. ASSUME NEW q \in RunIds PROVE Place(q)'
    BY <1>4, <2>1 DEF Place
  <2>3. Alone' /\ Active' # {}
    BY <2>1 DEF Alone, Active
  <2> QED BY <1>4, <2>2, <2>3 DEF AloneInv
<1>5. ASSUME NEW r \in RunIds, ChanceTaken(r) PROVE AloneInv'
  <2>1. /\ asking = "no" /\ status = "Good" /\ pc' = [pc EXCEPT ![r] = "exec"]
        /\ Count(Overlaps, fails, 0) /\ UNCHANGED <<handler, jobVars, asking>>
    BY <1>5 DEF ChanceTaken, LaunchRun
  <2>2. Active = {} /\ overlapped = "no" /\ fails' = fails /\ skipped' = 0
    BY <2>1 DEF Count, Overlaps
  <2>3. Accounts(fails)'
    BY <1>3, <2>1, <2>2 DEF Accounts
  <2> QED BY <1>3, <1>4, <2>1, <2>2, <2>3
<1>6. ASSUME NEW r \in RunIds, BackoffOver(r) PROVE AloneInv'
  <2>1. /\ asking = "yes" /\ asking' = "no" /\ pc' = [pc EXCEPT ![r] = "exec"]
        /\ Count(overlapped, fails, 0) /\ UNCHANGED <<handler, jobVars>>
    BY <1>6 DEF BackoffOver, LaunchRun
  <2>2. overlapped = "no" /\ fails' = fails /\ skipped' = 0
    BY <2>1 DEF Count
  <2>3. Active = {} /\ status = "Backoff"
    BY <2>1, <2>2 DEF BackoffInv, AloneInv
  <2>4. Accounts(fails)'
    BY <1>3, <2>1, <2>2, <2>3 DEF Accounts
  <2> QED BY <1>3, <1>4, <2>1, <2>2, <2>3, <2>4
<1>7. ASSUME Active = {}, pc' = pc, Accounts(fails)', Waits', asking' # "no" => status' = "Backoff",
             asking' = "read" => left' = skips'
      PROVE  AloneInv'
  <2>1. Active' = {} /\ \A q \in RunIds : pc'[q] = "idle"
    BY <1>7 DEF Active
  <2>2. ASSUME NEW q \in RunIds PROVE Place(q)'
    BY <2>1 DEF Place
  <2> QED BY <1>7, <2>1, <2>2 DEF AloneInv, Alone, Rests
<1>8. CASE ChanceRefused
  BY <1>8 DEF ChanceRefused, vars, BackoffInv, AloneInv, Alone, Active, Place, Rests,
              Accounts, Waits
<1>9. CASE ChanceInBackoff
  <2>1. /\ asking = "no" /\ asking' = "backoff" /\ status = "Backoff" /\ pc' = pc
        /\ Count(Overlaps, fails, skipped) /\ UNCHANGED <<handler, jobVars, cancelled>>
    BY <1>9 DEF ChanceInBackoff
  <2>2. Active = {} /\ overlapped = "no" /\ fails' = fails /\ skipped' = skipped
    BY <2>1 DEF Count, Overlaps
  <2>3. Accounts(fails)' /\ Waits'
    BY <1>3, <2>1, <2>2 DEF Accounts, Waits
  <2> QED BY <1>7, <2>1, <2>2, <2>3
<1>11. CASE ReadSkips
  <2>1. /\ asking = "backoff" /\ asking' = "read" /\ left' = skips /\ pc' = pc
        /\ UNCHANGED <<handler, jobVars, cancelled, fails, skipped, overlapped>>
    BY <1>11 DEF ReadSkips
  <2>2. Active = {} /\ status = "Backoff" /\ overlapped = "no"
    BY <2>1 DEF BackoffInv, AloneInv
  <2>3. Accounts(fails)' /\ Waits'
    BY <1>3, <2>1, <2>2 DEF Accounts, Waits
  <2> QED BY <1>7, <2>1, <2>2, <2>3
<1>12. CASE ChanceCounted
  <2>1. /\ asking = "read" /\ asking' = "yes" /\ pc' = pc
        /\ skips' = (IF left > 0 THEN left - 1 ELSE 0)
        /\ UNCHANGED <<handler, status, level, cancelled, fails, skipped, overlapped>>
    BY <1>12 DEF ChanceCounted
  <2>2. Active = {} /\ status = "Backoff" /\ overlapped = "no" /\ left = skips
    BY <2>1 DEF BackoffInv, AloneInv
  <2>3. Accounts(fails)'
    BY <1>3, <2>1, <2>2 DEF Accounts
  <2>4. Waits'
    <3>1. cancelled = "no" => skips > 0 /\ skips + skipped = level
      BY <1>3, <2>1, <2>2 DEF Waits
    <3>2. cancelled = "no" => skips' + skipped' + 1 = level'
      BY <1>2, <2>1, <2>2, <3>1
    <3> QED BY <2>1, <3>2 DEF Waits
  <2> QED BY <1>7, <2>1, <2>2, <2>3, <2>4
<1>10. CASE BackoffGoesOn
  <2>1. /\ asking = "yes" /\ asking' = "no" /\ skips > 0 /\ pc' = pc
        /\ Count(overlapped, fails, IF skipped < MaxBackoffWait THEN skipped + 1 ELSE skipped)
        /\ UNCHANGED <<handler, jobVars, cancelled>>
    BY <1>10 DEF BackoffGoesOn
  <2>2. /\ overlapped = "no" /\ fails' = fails
        /\ skipped' = IF skipped < MaxBackoffWait THEN skipped + 1 ELSE skipped
    BY <2>1 DEF Count
  <2>3. Active = {} /\ status = "Backoff"
    BY <2>1, <2>2 DEF BackoffInv, AloneInv
  <2>4. Accounts(fails) /\ Accounts(fails)'
    BY <1>3, <2>1, <2>2, <2>3 DEF Accounts
  <2>5. Waits'
    <3>1. cancelled = "no" => skips + skipped + 1 = level
      BY <1>3, <2>1, <2>2, <2>3 DEF Waits
    <3>2. level <= MaxBackoffWait
      BY <1>2, <2>3, <2>4 DEF Accounts, InBackoff
    <3>3. cancelled = "no" => skips' > 0 /\ skips' + skipped' = level'
      BY <1>2, <2>1, <2>2, <3>1, <3>2
    <3> QED BY <2>1, <3>3 DEF Waits
  <2> QED BY <1>7, <2>1, <2>3, <2>4, <2>5
<1> QED BY <1>5, <1>6, <1>8, <1>9, <1>10, <1>11, <1>12 DEF Runner

LEMMA NextBackoff == ASSUME BackoffInv, [Next]_vars PROVE BackoffInv'
<1> USE DEF jobVars, recVars, histVars
<1>1. ThreadType' /\ CountType'
  BY NextThreadType, NextCountType DEF BackoffInv
<1>2. CASE Runner
  BY <1>1, <1>2, ChanceAlone DEF BackoffInv
<1>3. CASE UNCHANGED vars
  <2>1. AloneInv'
    BY <1>3 DEF vars, BackoffInv, AloneInv, Alone, Active, Place, Rests, Accounts, Waits
  <2> QED BY <1>1, <2>1 DEF BackoffInv
<1>4. CASE Cancel
  <2>1. /\ cancelled' = "yes"
        /\ UNCHANGED <<handler, jobVars, asking, left, pc, tmp, fate, fails, skipped, overlapped>>
    BY <1>4 DEF Cancel
  <2>2. Waits' /\ \A f : Accounts(f)' <=> Accounts(f)
    BY <2>1 DEF Waits, Accounts
  <2>3. ASSUME NEW r \in RunIds, Place(r) PROVE Place(r)'
    BY <2>1, <2>2, <2>3 DEF Place, Accounts
  <2>4. Rests => Rests'
    BY <2>1, <2>2 DEF Rests, Accounts
  <2>5. AloneInv'
    BY <2>1, <2>3, <2>4 DEF BackoffInv, AloneInv, Alone, Active
  <2> QED BY <1>1, <2>5 DEF BackoffInv
<1>5. CASE Replace
  <2>1. /\ Active = {} /\ asking = "no" /\ asking' = asking /\ pc' = pc
        /\ status' = "Good" /\ fails' = 0
    BY <1>5 DEF Replace
  <2>2. \A r \in RunIds : pc'[r] = "idle"
    BY <2>1 DEF Active
  <2>3. Rests'
    BY <2>1 DEF Rests, Accounts, Waits
  <2>4. ASSUME NEW r \in RunIds PROVE Place(r)'
    BY <2>2 DEF Place
  <2>5. AloneInv'
    BY <2>1, <2>2, <2>3, <2>4 DEF AloneInv, Alone
  <2> QED BY <1>1, <2>5 DEF BackoffInv
<1>6. CASE \E r \in RunIds : Step(r)
  BY <1>1, <1>6, StepAlone DEF BackoffInv
<1> QED BY <1>2, <1>3, <1>4, <1>5, <1>6 DEF Next

LEMMA InitBackoff == ASSUME Init PROVE BackoffInv
<1>1. ThreadType
  BY DEF Init, ThreadType, Statuses
<1>2. CountType
  BY JobRunAssumption DEF Init, CountType, Fates
<1>3. \A r \in RunIds : pc[r] = "idle"
  BY DEF Init
<1>4. ASSUME NEW r \in RunIds PROVE Place(r)
  BY <1>3 DEF Place
<1>5. Rests
  BY DEF Init, Rests, Accounts, Waits
<1>6. AloneInv
  BY <1>3, <1>4, <1>5 DEF Init, AloneInv, Alone
<1> QED BY <1>1, <1>2, <1>6 DEF BackoffInv

LEMMA BackoffInvHolds == Spec => []BackoffInv
<1>1. Init => BackoffInv
  BY InitBackoff
<1>2. BackoffInv /\ [Next]_vars => BackoffInv'
  BY NextBackoff
<1> QED BY <1>1, <1>2, PTL DEF Spec

\* If runs do not overlap, BackoffErrorHandler gives the job up at the first
\* failure for which doubling the level passes MaxBackoffWait, whatever that
\* is, and StopErrorHandler at the first failure; also when successes,
\* cancellations and new jobfiles come in between.
THEOREM GivenUpInTime == Spec => []GivesUpInTime
<1>1. ASSUME BackoffInv, overlapped = "no", status = "Failed"
      PROVE  Accounts(fails)
  <2>1. ThreadType /\ AloneInv
    BY <1>1 DEF BackoffInv
  <2>2. CASE Active = {}
    BY <1>1, <2>1, <2>2 DEF AloneInv, Rests
  <2>3. CASE Active # {}
    <3>1. PICK r \in RunIds : pc[r] # "idle"
      BY <2>3 DEF Active
    <3>2. Place(r) /\ pc[r] \in {"exec", "update", "first", "one", "again",
                                 "double", "check", "giveup", "reset", "unskip", "wait", "skip",
                        "read", "send"}
      BY <1>1, <2>1, <3>1 DEF AloneInv, ThreadType
    <3>3. pc[r] \in {"reset", "unskip", "read", "send"}
      BY <1>1, <3>2 DEF Place
    <3> QED BY <1>1, <3>2, <3>3 DEF Place, Accounts
  <2> QED BY <2>2, <2>3
<1>2. BackoffInv => GivesUpInTime
  BY <1>1 DEF GivesUpInTime, Accounts, GivenUp
<1> QED BY <1>2, BackoffInvHolds, PTL

\* If runs do not overlap, a job that failed n times in a row is run again
\* after 2^(n-1) - 1 of its chances were skipped (ShouldRun), which is always
\* one less than the comment in BackoffErrorHandler.Handle says.
THEOREM WaitsForItsTurn == Spec => BackoffWaits
<1>1. ASSUME BackoffInv, [Next]_vars, NEW r \in RunIds, pc[r] = "idle", pc'[r] = "exec",
             status = "Backoff", cancelled = "no", overlapped' = "no"
      PROVE  skipped = 2 ^ (fails - 1) - 1
  <2>1. ThreadType /\ CountType /\ AloneInv
    BY <1>1 DEF BackoffInv
  <2>2. BackoffOver(r)
    <3>1. CASE Runner
      <4>1. PICK q \in RunIds : ChanceTaken(q) \/ BackoffOver(q)
        BY <1>1, <3>1 DEF Runner, ChanceRefused, ChanceInBackoff, ReadSkips, ChanceCounted,
                          BackoffGoesOn, vars
      <4>2. BackoffOver(q) /\ pc' = [pc EXCEPT ![q] = "exec"]
        BY <1>1, <4>1 DEF ChanceTaken, BackoffOver, LaunchRun
      <4>3. q = r
        BY <1>1, <2>1, <4>2 DEF ThreadType
      <4> QED BY <4>2, <4>3
    <3>2. CASE Cancel \/ Replace \/ UNCHANGED vars
      BY <1>1, <3>2 DEF Cancel, Replace, vars
    <3>3. ASSUME NEW q \in RunIds, Step(q) PROVE FALSE
      <4>1. PICK l : pc' = [pc EXCEPT ![q] = l] /\ pc[q] # "idle" /\ l # "exec"
        BY <3>3 DEF Step, ExecEnds, UpdateStatus, HandleBackoff, FirstFailure, LevelOne, ReadLevel,
           DoubleLevel, CheckLevel, GiveUp, ResetLevel, ResetSkips, LevelToSkip, SetSkips,
           ReadStatus, HandleRunRec, Goto
      <4> QED BY <1>1, <2>1, <4>1 DEF ThreadType
    <3> QED BY <1>1, <3>1, <3>2, <3>3 DEF Next
  <2>3. asking = "yes" /\ skips <= 0 /\ overlapped = "no"
    BY <1>1, <2>2 DEF BackoffOver, Count
  <2>4. Accounts(fails) /\ Waits
    BY <2>1, <2>3 DEF AloneInv, Rests
  <2>5. skips + skipped + 1 = level
    BY <1>1, <2>3, <2>4 DEF Waits
  <2>6. handler = "Backoff"
    BY <1>1, <2>1, <2>4 DEF CountType, Accounts
  <2> DEFINE p == 2 ^ (fails - 1)
  <2>7. level = p
    BY <1>1, <2>4, <2>6 DEF Accounts, InBackoff
  <2>8. skips \in Nat /\ skipped \in Nat /\ level \in Nat
    BY <2>1 DEF CountType
  <2> HIDE DEF p
  <2>9. skipped = p - 1
    BY <2>3, <2>5, <2>7, <2>8
  <2> QED BY <2>9 DEF p
<1>2. BackoffInv /\ [Next]_vars =>
        [\A r \in RunIds :
           (pc[r] = "idle" /\ pc'[r] = "exec" /\ status = "Backoff"
              /\ cancelled = "no" /\ overlapped' = "no") =>
             skipped = 2 ^ (fails - 1) - 1]_vars
  BY <1>1
<1> QED BY <1>2, BackoffInvHolds, PTL DEF Spec, BackoffWaits

=============================================================================
