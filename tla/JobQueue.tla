------------------------------- MODULE JobQueue -------------------------------
(***************************************************************************)
(* When jobs run: the queue of the job-runner thread, the search for a     *)
(* job's next time, and the sleeping in Pop.                               *)
(*                                                                         *)
(* Times are in ticks, of which a second has Second: jobs are scheduled at *)
(* the offset within a second at which the search began, so the fraction   *)
(* matters.  Steps of the thread take any time, which is how latency comes *)
(* in.  The clock is not set back.  began, base, served, missed and cut    *)
(* are history of one activation of the jobfile: when it was, where the    *)
(* last search for a job began, the seconds the job was popped for, those  *)
(* that went by until it was, and those in which it was popped for an      *)
(* earlier second.                                                         *)
(***************************************************************************)
EXTENDS Integers, FiniteSets, FiniteSetsExt, TimeSpec

CONSTANTS
  Jobs,
  RawSpec,   \* each job's time specification as parsed
  Calendar,  \* the local-time fields of each second
  Second,    \* ticks of a second
  Horizon,   \* seconds the search covers: two years in the code
  Nil,       \* no next time
  MaxTime,   \* bound: ticks of the clock
  MaxStarts  \* bound: activations of the jobfile

ASSUME QueueAssumption ==
  /\ Second \in Nat \ {0} /\ Horizon \in Nat \ {0} /\ MaxTime \in Nat /\ MaxStarts \in Nat
  /\ Nil \notin Nat

VARIABLES
  now,      \* the clock
  starts,   \* activations so far
  pc,       \* the place of the job-runner thread
  ctx,      \* its context is cancelled
  spec,     \* each job's specification, with the random values picked
  next,     \* each job's NextRunTime
  queue,    \* the jobs in the heap
  job,      \* the job that Pop is concerned with
  popNow,   \* the variable now of Pop
  left,     \* ticks until the timer of Pop fires
  began, base, served, missed, cut

hist == <<began, base, served, missed, cut>>
vars == <<now, starts, pc, ctx, spec, next, queue, job, popNow, left, hist>>

SecondOf(time) == time \div Second

\* Mutant: the search begins a second too late.
NextRunTimeLate(full, from) ==
  LET times == {from + k * Second : k \in 1..(Horizon - 1)}
      good  == {x \in times : Satisfied(full, Calendar[SecondOf(x)])}
  IN IF good = {} THEN Nil ELSE Min(good)

\* nextRunTime: the first of the times from, from + 1 s, ... before the
\* horizon that satisfies the specification.
NextRunTime(full, from) ==
  LET times == {from + k * Second : k \in 0..(Horizon - 1)}
      good  == {x \in times : Satisfied(full, Calendar[SecondOf(x)])}
  IN IF good = {} THEN Nil ELSE Min(good)

Init ==
  /\ now = 0 /\ starts = 0 /\ pc = "off" /\ ctx = FALSE
  /\ spec = RawSpec /\ next = [j \in Jobs |-> Nil] /\ queue = {}
  /\ job = Nil /\ popNow = 0 /\ left = 0
  /\ served = [j \in Jobs |-> {}] /\ missed = [j \in Jobs |-> {}] /\ cut = [j \in Jobs |-> {}]
  /\ began = 0 /\ base = [j \in Jobs |-> 0]

-----------------------------------------------------------------------------

\* A jobfile is activated, which picks random values anew, and the thread
\* started: JobQueue.SetJobs.
Start ==
  /\ pc = "off" /\ starts < MaxStarts
  /\ starts' = starts + 1
  /\ \E picked \in [Jobs -> UNION {FullDerandomized(RawSpec[j]) : j \in Jobs}] :
       /\ \A j \in Jobs : picked[j] \in FullDerandomized(RawSpec[j])
       /\ spec' = picked
       /\ next' = [j \in Jobs |-> NextRunTime(picked[j], now)]
  /\ queue' = {j \in Jobs : next'[j] # Nil}
  /\ pc' = "pop" /\ ctx' = FALSE /\ job' = Nil
  /\ served' = [j \in Jobs |-> {}] /\ missed' = [j \in Jobs |-> {}] /\ cut' = [j \in Jobs |-> {}]
  /\ began' = now /\ base' = [j \in Jobs |-> now]
  /\ UNCHANGED <<now, popNow, left>>

\* The main thread cancels the job-runner thread's context.
Cancel ==
  /\ pc # "off" /\ ~ctx
  /\ ctx' = TRUE
  /\ UNCHANGED <<now, starts, pc, spec, next, queue, job, popNow, left, hist>>

(***************************************************************************)
(* Pop, and the loop that calls it.                                        *)
(***************************************************************************)

\* Nothing is queued: wait until the context is cancelled.
PopEmpty ==
  /\ pc \in {"pop", "again"} /\ queue = {} /\ ctx
  /\ pc' = "off"
  /\ UNCHANGED <<now, starts, ctx, spec, next, queue, job, popNow, left, hist>>

\* Mutant: the job with the latest time comes first.
EarliestLast(j) == \A k \in queue : next[k] <= next[j]

\* Less: a job that may be at the top of the heap.
Earliest(j) == \A k \in queue : next[j] <= next[k]

\* The clock is read when the loop calls Pop, and not when Pop calls itself.
PopHead ==
  /\ pc \in {"pop", "again"}
  /\ \E j \in queue :
       /\ Earliest(j)
       /\ job' = j /\ queue' = queue \ {j}
  /\ popNow' = IF pc = "pop" THEN now ELSE popNow
  /\ pc' = "check"
  /\ UNCHANGED <<now, starts, ctx, spec, next, left, hist>>

Sleep ==
  /\ pc = "check" /\ popNow < next[job]
  /\ left' = next[job] - popNow
  /\ pc' = "sleep"
  /\ UNCHANGED <<now, starts, ctx, spec, next, queue, job, popNow, hist>>

Fire ==
  /\ pc = "sleep" /\ left = 0
  /\ popNow' = now
  /\ pc' = "check"
  /\ UNCHANGED <<now, starts, ctx, spec, next, queue, job, left, hist>>

\* The context is cancelled while Pop sleeps: the job is put back, Pop returns
\* nil and the loop ends.
Abort ==
  /\ pc = "sleep" /\ ctx
  /\ queue' = queue \union {job}
  /\ pc' = "off"
  /\ UNCHANGED <<now, starts, ctx, spec, next, job, popNow, left, hist>>

\* Mutant: the next time is searched for from the present second on.
ScheduledFromNow(j) == NextRunTime(spec[j], popNow)

Scheduled(j) == NextRunTime(spec[j], popNow + Second)

\* It is time: the next run is scheduled, and the job is returned to the loop
\* or, if ShouldRun says so, skipped.  The search begins a second after popNow,
\* so if Pop comes late, it passes over what is left of popNow's own second.
Due ==
  /\ pc = "check" /\ popNow >= next[job]
  /\ next' = [next EXCEPT ![job] = Scheduled(job)]
  /\ queue' = IF next'[job] = Nil THEN queue ELSE queue \union {job}
  /\ served' = [served EXCEPT ![job] = @ \union {SecondOf(next[job])}]
  /\ missed' = [missed EXCEPT ![job] = @ \union (SecondOf(next[job]) + 1)..(SecondOf(popNow) - 1)]
  /\ cut' = [cut EXCEPT ![job] = @ \union ({SecondOf(popNow)} \ {SecondOf(next[job])})]
  /\ base' = [base EXCEPT ![job] = popNow + Second]
  /\ pc' \in {"pop", "again"}
  /\ UNCHANGED <<now, starts, ctx, spec, job, popNow, left, began>>

\* Time passes; at the bound of the model only timers go on.
Tick ==
  /\ now < MaxTime \/ left > 0
  /\ now' = IF now < MaxTime THEN now + 1 ELSE now
  /\ left' = IF left > 0 THEN left - 1 ELSE 0
  /\ UNCHANGED <<starts, pc, ctx, spec, next, queue, job, popNow, hist>>

Thread == PopEmpty \/ PopHead \/ Sleep \/ Fire \/ Abort \/ Due

Next == Start \/ Cancel \/ Thread \/ Tick

Spec == Init /\ [][Next]_vars

\* Time passes and the thread is scheduled.
FairSpec == Spec /\ WF_vars(Tick) /\ WF_vars(Thread)

-----------------------------------------------------------------------------
(***************************************************************************)
(* Properties.                                                             *)
(***************************************************************************)

Popping == pc \in {"check", "sleep"}

\* The seconds that were searched for a job in this activation.
Searched(j) ==
  SecondOf(began)..((IF next[j] = Nil THEN SecondOf(base[j]) + Horizon ELSE SecondOf(next[j])) - 1)

\* As long as the thread runs, no second in which a job is to run is
\* forgotten: up to the one it is queued for, each was served, or was over
\* when the job was popped for an earlier one, or was the very second of that
\* pop.  (The last is no promise to be proud of: a pop that is only a tick
\* late may cross into a second the job is to run in, and gives that up, though
\* it is not over.)  A job that has left the queue has no time within the
\* horizon.
NoSecondForgotten ==
  pc # "off" =>
    \A j \in Jobs :
      /\ next[j] # Nil <=> j \in queue \/ (Popping /\ j = job)
      /\ \A s \in Searched(j) :
           Satisfied(spec[j], Calendar[s]) => s \in served[j] \union missed[j] \union cut[j]

\* A job is not served twice for one second of one activation.
OncePerSecond ==
  pc # "off" => \A j \in Jobs : next[j] # Nil => SecondOf(next[j]) \notin served[j]

\* A job whose time has come is popped in the end, or the thread is over.
DueIsPopped ==
  \A j \in Jobs :
    pc # "off" /\ next[j] # Nil /\ next[j] <= now ~> pc = "off" \/ next[j] = Nil \/ next[j] > now

=============================================================================
