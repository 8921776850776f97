---------------------------- MODULE JobQueueProofs ----------------------------
(***************************************************************************)
(* Proofs about JobQueue.                                                  *)
(*                                                                         *)
(* The invariant ties a job's next time to the place where the last search *)
(* for it began: base splits the seconds of an activation into those that  *)
(* are settled, of which the ones to run in were served, missed or cut,    *)
(* and those from which on the search found next.                          *)
(***************************************************************************)
EXTENDS JobQueue, WellFoundedInduction, TLAPS

Times == Nat \union {Nil}

ClockType == now \in Nat /\ popNow \in Nat

TypeInv ==
  /\ pc \in {"pop", "again", "check", "sleep"}
  /\ queue \in SUBSET Jobs
  /\ next \in [Jobs -> Times]
  /\ began \in Nat
  /\ base \in [Jobs -> Nat]
  /\ served \in [Jobs -> SUBSET Nat]
  /\ missed \in [Jobs -> SUBSET Nat] /\ cut \in [Jobs -> SUBSET Nat]
  /\ Popping => job \in Jobs

\* A job has a next time if it is queued, or is the one Pop holds.
QueueInv ==
  /\ Popping => job \notin queue
  /\ \A j \in Jobs : next[j] # Nil <=> j \in queue \/ (Popping /\ j = job)

IsDue(full, s) == Satisfied(full, Calendar[s])

\* The search that began at from found n.
Found(full, from, n) ==
  IF n = Nil
    THEN \A s \in SecondOf(from)..(SecondOf(from) + Horizon - 1) : ~IsDue(full, s)
    ELSE /\ SecondOf(from) <= SecondOf(n)
         /\ \A s \in SecondOf(from)..(SecondOf(n) - 1) : ~IsDue(full, s)

\* Everything before base is settled.
Settled(full, from, to, done, over) ==
  /\ SecondOf(from) <= SecondOf(to)
  /\ \A s \in done : s < SecondOf(to)
  /\ \A s \in SecondOf(from)..(SecondOf(to) - 1) : IsDue(full, s) => s \in done \union over

SearchInv ==
  \A j \in Jobs : /\ Found(spec[j], base[j], next[j])
                  /\ Settled(spec[j], began, base[j], served[j], missed[j] \union cut[j])

Inv == ClockType /\ (pc # "off" => TypeInv /\ QueueInv /\ SearchInv)

-----------------------------------------------------------------------------
(***************************************************************************)
(* Times.                                                                  *)
(***************************************************************************)

LEMMA SecondsAreNumbers == \A t \in Nat : SecondOf(t) \in Nat
BY QueueAssumption DEF SecondOf

LEMMA SecondsInOrder ==
  ASSUME NEW t \in Nat, NEW u \in Nat, t <= u
  PROVE  SecondOf(t) <= SecondOf(u)
BY QueueAssumption DEF SecondOf

LEMMA SecondsLater ==
  ASSUME NEW t \in Nat, NEW k \in Nat
  PROVE  t + k * Second \in Nat /\ SecondOf(t + k * Second) = SecondOf(t) + k
BY QueueAssumption DEF SecondOf

LEMMA OneSecondLater ==
  ASSUME NEW t \in Nat
  PROVE  t + Second \in Nat /\ SecondOf(t + Second) = SecondOf(t) + 1
BY QueueAssumption DEF SecondOf

LEMMA LeastNumber ==
  ASSUME NEW T \in SUBSET Nat, T # {}
  PROVE  \E x \in T : \A y \in T : x <= y
<1>1. IsWellFoundedOn(OpToRel(<, Nat), Nat)
  BY NatLessThanWellFounded
<1>2. PICK x \in T : \A y \in T : ~(<<y, x>> \in OpToRel(<, Nat))
  BY <1>1, WFMin
<1>3. ASSUME NEW y \in T PROVE x <= y
  <2>1. ~(<<y, x>> \in OpToRel(<, Nat))
    BY <1>2
  <2>2. x \in Nat /\ y \in Nat
    OBVIOUS
  <2>3. ~(y < x)
    BY <2>1, <2>2 DEF OpToRel
  <2> QED BY <2>2, <2>3
<1> QED BY <1>3

LEMMA MinIsLeast ==
  ASSUME NEW T \in SUBSET Nat, T # {}
  PROVE  Min(T) \in T /\ \A y \in T : Min(T) <= y
BY LeastNumber DEF Min

\* The search tries one time in each second, and returns the first that is
\* good.
LEMMA SearchFinds ==
  ASSUME NEW full, NEW from \in Nat
  PROVE  /\ NextRunTime(full, from) \in Times
         /\ Found(full, from, NextRunTime(full, from))
<1> DEFINE times == {from + k * Second : k \in 0..(Horizon - 1)}
           good == {x \in times : IsDue(full, SecondOf(x))}
           n == NextRunTime(full, from)
           s0 == SecondOf(from)
<1>1. s0 \in Nat /\ Horizon \in Nat /\ Second \in Nat \ {0}
  BY SecondsAreNumbers, QueueAssumption
<1>2. good \in SUBSET Nat
  <2>1. \A k \in 0..(Horizon - 1) : from + k * Second \in Nat
    BY <1>1
  <2> QED BY <2>1
<1>3. n = IF good = {} THEN Nil ELSE Min(good)
  BY DEF NextRunTime, IsDue
<1>4. ASSUME NEW s \in s0..(s0 + Horizon - 1)
      PROVE  from + (s - s0) * Second \in times /\ SecondOf(from + (s - s0) * Second) = s
  <2>1. s - s0 \in 0..(Horizon - 1) /\ s - s0 \in Nat /\ s0 + (s - s0) = s
    BY <1>1
  <2> QED BY <2>1, SecondsLater
<1> HIDE DEF n
<1>5. CASE good = {}
  <2>1. n = Nil
    BY <1>3, <1>5
  <2>2. \A s \in s0..(s0 + Horizon - 1) : ~IsDue(full, s)
    BY <1>4, <1>5
  <2>3. n \in Times /\ Found(full, from, n)
    BY <2>1, <2>2 DEF Times, Found
  <2> QED BY <2>3 DEF n
<1>6. CASE good # {}
  <2>1. n \in good /\ \A x \in good : n <= x
    BY <1>2, <1>3, <1>6, MinIsLeast
  <2>2. n \in Nat /\ n # Nil
    BY <1>2, <2>1, QueueAssumption
  <2>3. PICK k \in 0..(Horizon - 1) : n = from + k * Second
    BY <2>1
  <2>4. k \in Nat /\ SecondOf(n) = s0 + k
    BY <1>1, <2>3, SecondsLater
  <2>5. ASSUME NEW s \in s0..(SecondOf(n) - 1) PROVE ~IsDue(full, s)
    <3>1. s \in s0..(s0 + Horizon - 1) /\ s - s0 \in Nat /\ s - s0 < k
      BY <1>1, <2>4
    <3>2. (s - s0) * Second < k * Second
      BY <1>1, <2>4, <3>1
    <3>3. from + (s - s0) * Second \in times /\ SecondOf(from + (s - s0) * Second) = s
      BY <1>4, <3>1
    <3>4. ~(n <= from + (s - s0) * Second)
      BY <1>1, <2>3, <2>4, <3>1, <3>2
    <3> HIDE DEF times
    <3> QED BY <2>1, <3>3, <3>4
  <2>6. SecondOf(from) <= SecondOf(n)
    BY <1>1, <2>4
  <2>7. n \in Times /\ Found(full, from, n)
    BY <2>2, <2>5, <2>6 DEF Times, Found
  <2> QED BY <2>7 DEF n
<1> QED BY <1>5, <1>6

\* When a job is popped, what is before the place of the next search is
\* settled: the second it was due in is served, those that have gone by since
\* are missed, and the present one is cut.
LEMMA SettledNext ==
  ASSUME NEW full, NEW from \in Nat, NEW to \in Nat, NEW done \in SUBSET Nat,
         NEW over \in SUBSET Nat, NEW n \in Nat, NEW t \in Nat, n <= t,
         Found(full, to, n), Settled(full, from, to, done, over)
  PROVE  Settled(full, from, t + Second, done \union {SecondOf(n)},
                 over \union (SecondOf(n) + 1)..SecondOf(t))
<1> DEFINE a == SecondOf(from)
           b == SecondOf(to)
           c == SecondOf(n)
           d == SecondOf(t)
           u == t + Second
<1>1. a \in Nat /\ b \in Nat /\ c \in Nat /\ d \in Nat
  BY SecondsAreNumbers
<1>2. c <= d /\ SecondOf(u) = d + 1
  BY SecondsInOrder, OneSecondLater
<1>3. n # Nil
  BY QueueAssumption
<1>4. b <= c /\ \A s \in b..(c - 1) : ~IsDue(full, s)
  BY <1>3 DEF Found
<1>5. a <= b /\ (\A s \in done : s < b) /\ \A s \in a..(b - 1) : IsDue(full, s) => s \in done \union over
  BY DEF Settled
<1> HIDE DEF a, b, c, d, u
<1>6. a <= d + 1
  BY <1>1, <1>2, <1>4, <1>5
<1>7. \A s \in done \union {c} : s < d + 1
  BY <1>1, <1>2, <1>4, <1>5
<1>8. ASSUME NEW s \in a..d, IsDue(full, s) PROVE s \in (done \union {c}) \union (over \union (c + 1)..d)
  <2>1. s \in a..(b - 1) \/ s \in b..(c - 1) \/ s = c \/ s \in (c + 1)..d
    BY <1>1
  <2> QED BY <1>4, <1>5, <1>8, <2>1
<1>9. (d + 1) - 1 = d
  BY <1>1
<1>10. /\ a <= SecondOf(u) /\ (\A s \in done \union {c} : s < SecondOf(u))
       /\ \A s \in a..(SecondOf(u) - 1) : IsDue(full, s) => s \in (done \union {c}) \union (over \union (c + 1)..d)
  BY <1>2, <1>6, <1>7, <1>8, <1>9
<1> QED BY <1>10 DEF Settled, a, c, d, u

-----------------------------------------------------------------------------
(***************************************************************************)
(* The steps.                                                              *)
(***************************************************************************)

LEMMA StartInv == ASSUME Inv, Start PROVE Inv'
<1>1. PICK picked :
        /\ spec' = picked
        /\ next' = [j \in Jobs |-> NextRunTime(picked[j], now)]
  BY DEF Start
<1>2. /\ queue' = {j \in Jobs : next'[j] # Nil} /\ pc' = "pop"
      /\ served' = [j \in Jobs |-> {}] /\ missed' = [j \in Jobs |-> {}] /\ cut' = [j \in Jobs |-> {}]
      /\ began' = now /\ base' = [j \in Jobs |-> now]
      /\ now' = now /\ popNow' = popNow
  BY DEF Start
<1>3. now \in Nat /\ popNow \in Nat
  BY DEF Inv, ClockType
<1>4. ~Popping'
  BY <1>2 DEF Popping
<1>5. \A j \in Jobs : next'[j] \in Times /\ Found(spec'[j], now, next'[j])
  BY <1>1, <1>3, SearchFinds
<1>6. TypeInv'
  BY <1>1, <1>2, <1>3, <1>4, <1>5 DEF TypeInv
<1>7. QueueInv'
  BY <1>2, <1>4 DEF QueueInv
<1>8. ASSUME NEW full PROVE Settled(full, now, now, {}, {})
  <2>1. SecondOf(now) \in Nat
    BY <1>3, SecondsAreNumbers
  <2> QED BY <2>1 DEF Settled
<1>9. SearchInv'
  BY <1>2, <1>5, <1>8 DEF SearchInv
<1> QED BY <1>2, <1>3, <1>6, <1>7, <1>9 DEF Inv, ClockType

LEMMA DueInv == ASSUME Inv, Due PROVE Inv'
<1>1. /\ pc = "check" /\ popNow >= next[job] /\ pc' \in {"pop", "again"}
      /\ next' = [next EXCEPT ![job] = Scheduled(job)]
      /\ queue' = IF next'[job] = Nil THEN queue ELSE queue \union {job}
      /\ served' = [served EXCEPT ![job] = @ \union {SecondOf(next[job])}]
      /\ missed' = [missed EXCEPT ![job] = @ \union (SecondOf(next[job]) + 1)..(SecondOf(popNow) - 1)]
      /\ cut' = [cut EXCEPT ![job] = @ \union ({SecondOf(popNow)} \ {SecondOf(next[job])})]
      /\ base' = [base EXCEPT ![job] = popNow + Second]
      /\ spec' = spec /\ job' = job /\ popNow' = popNow /\ now' = now /\ began' = began
  BY DEF Due
<1>2. Popping /\ ~Popping' /\ pc' # "off" /\ pc # "off"
  BY <1>1 DEF Popping
<1>3. TypeInv /\ QueueInv /\ SearchInv /\ now \in Nat /\ popNow \in Nat
  BY <1>2 DEF Inv, ClockType
<1>4. job \in Jobs /\ job \notin queue /\ next[job] \in Nat /\ next[job] <= popNow
  BY <1>1, <1>2, <1>3 DEF TypeInv, QueueInv, Times
<1>5. /\ next \in [Jobs -> Times] /\ queue \in SUBSET Jobs /\ began \in Nat /\ base \in [Jobs -> Nat]
      /\ served \in [Jobs -> SUBSET Nat] /\ missed \in [Jobs -> SUBSET Nat]
      /\ cut \in [Jobs -> SUBSET Nat]
  BY <1>3 DEF TypeInv
<1>6. /\ popNow + Second \in Nat
      /\ Scheduled(job) \in Times /\ Found(spec[job], popNow + Second, Scheduled(job))
  BY <1>3, OneSecondLater, SearchFinds DEF Scheduled
<1>7. SecondOf(next[job]) \in Nat /\ SecondOf(popNow) \in Nat
  BY <1>3, <1>4, SecondsAreNumbers
<1>8. /\ {SecondOf(next[job])} \in SUBSET Nat
      /\ (SecondOf(next[job]) + 1)..(SecondOf(popNow) - 1) \in SUBSET Nat
      /\ {SecondOf(popNow)} \ {SecondOf(next[job])} \in SUBSET Nat
  BY <1>7
<1>9. TypeInv'
  <2>1. queue' \in SUBSET Jobs /\ next' \in [Jobs -> Times] /\ base' \in [Jobs -> Nat]
    BY <1>1, <1>4, <1>5, <1>6
  <2>2. /\ served' \in [Jobs -> SUBSET Nat] /\ missed' \in [Jobs -> SUBSET Nat]
        /\ cut' \in [Jobs -> SUBSET Nat]
    BY <1>1, <1>4, <1>5, <1>8
  <2> QED BY <1>1, <1>2, <1>5, <2>1, <2>2 DEF TypeInv
<1>10. QueueInv'
  <2>1. \A j \in Jobs : next[j] # Nil <=> j \in queue \/ j = job
    BY <1>2, <1>3 DEF QueueInv
  <2>2. \A j \in Jobs : j # job => next'[j] = next[j]
    BY <1>1, <1>5
  <2>3. \A j \in Jobs : next'[j] # Nil <=> j \in queue'
    BY <1>1, <1>4, <2>1, <2>2
  <2> QED BY <1>2, <2>3 DEF QueueInv
<1>11. SearchInv'
  <2> SUFFICES ASSUME NEW j \in Jobs
               PROVE  /\ Found(spec[j], base'[j], next'[j])
                      /\ Settled(spec[j], began, base'[j], served'[j], missed'[j] \union cut'[j])
    BY <1>1 DEF SearchInv
  <2>1. /\ Found(spec[j], base[j], next[j])
        /\ Settled(spec[j], began, base[j], served[j], missed[j] \union cut[j])
    BY <1>3 DEF SearchInv
  <2>2. CASE j # job
    BY <1>1, <1>4, <1>5, <2>1, <2>2
  <2>3. CASE j = job
    <3>1. /\ base'[j] = popNow + Second /\ next'[j] = Scheduled(job)
          /\ served'[j] = served[j] \union {SecondOf(next[j])}
          /\ missed'[j] = missed[j] \union (SecondOf(next[j]) + 1)..(SecondOf(popNow) - 1)
          /\ cut'[j] = cut[j] \union ({SecondOf(popNow)} \ {SecondOf(next[j])})
      BY <1>1, <1>4, <1>5, <2>3
    <3> DEFINE over == missed[j] \union cut[j]
    <3>2. over \in SUBSET Nat
      BY <1>5
    <3> HIDE DEF over
    <3>3. Settled(spec[j], began, popNow + Second, served[j] \union {SecondOf(next[j])},
                  over \union (SecondOf(next[j]) + 1)..SecondOf(popNow))
      BY <1>3, <1>4, <1>5, <2>1, <2>3, <3>2, SettledNext DEF over
    <3>4. (SecondOf(next[j]) + 1)..SecondOf(popNow)
            = ((SecondOf(next[j]) + 1)..(SecondOf(popNow) - 1))
                 \union ({SecondOf(popNow)} \ {SecondOf(next[j])})
      <4> DEFINE c == SecondOf(next[j])
                 d == SecondOf(popNow)
      <4>1. c \in Nat /\ d \in Nat /\ c <= d
        BY <1>3, <1>4, <1>7, <2>3, SecondsInOrder
      <4> HIDE DEF c, d
      <4>2. (c + 1)..d = ((c + 1)..(d - 1)) \union ({d} \ {c})
        BY <4>1
      <4> QED BY <4>2 DEF c, d
    <3>5. over \union (SecondOf(next[j]) + 1)..SecondOf(popNow) = missed'[j] \union cut'[j]
      BY <3>1, <3>4 DEF over
    <3> QED BY <1>6, <2>3, <3>1, <3>3, <3>5
  <2> QED BY <2>2, <2>3
<1> QED BY <1>1, <1>3, <1>9, <1>10, <1>11 DEF Inv, ClockType

\* The other steps leave what was searched and what is settled as it is.
LEMMA SearchSame ==
  ASSUME SearchInv, UNCHANGED <<spec, next, hist>>
  PROVE  SearchInv'
BY DEF SearchInv, hist

LEMMA ThreadInv == ASSUME Inv, Thread PROVE Inv'
<1>1. CASE PopEmpty
  BY <1>1 DEF PopEmpty, Inv, ClockType
<1>2. CASE PopHead
  <2>1. /\ pc \in {"pop", "again"} /\ pc' = "check" /\ UNCHANGED <<spec, next, hist>>
        /\ now' = now /\ popNow' = IF pc = "pop" THEN now ELSE popNow
    BY <1>2 DEF PopHead
  <2>2. PICK j \in queue : job' = j /\ queue' = queue \ {j}
    BY <1>2 DEF PopHead
  <2>3. TypeInv /\ QueueInv /\ SearchInv /\ ~Popping /\ Popping' /\ ClockType
    BY <2>1 DEF Inv, Popping
  <2>4. TypeInv'
    BY <2>1, <2>2, <2>3 DEF TypeInv, hist
  <2>5. QueueInv'
    BY <2>1, <2>2, <2>3 DEF QueueInv, TypeInv
  <2> QED BY <2>1, <2>3, <2>4, <2>5, SearchSame DEF Inv, ClockType
<1>3. CASE Sleep \/ Fire
  <2>1. /\ Popping /\ Popping' /\ pc' \in {"check", "sleep"} /\ UNCHANGED <<spec, next, queue, job, hist>>
        /\ now' = now /\ popNow' \in {now, popNow} /\ pc # "off"
    BY <1>3 DEF Sleep, Fire, Popping
  <2>2. TypeInv /\ QueueInv /\ SearchInv /\ ClockType
    BY <2>1 DEF Inv
  <2>3. TypeInv' /\ QueueInv'
    BY <2>1, <2>2 DEF TypeInv, QueueInv, hist
  <2> QED BY <2>1, <2>2, <2>3, SearchSame DEF Inv, ClockType
<1>4. CASE Abort
  BY <1>4 DEF Abort, Inv, ClockType
<1>5. CASE Due
  BY <1>5, DueInv
<1> QED BY <1>1, <1>2, <1>3, <1>4, <1>5 DEF Thread

LEMMA NextInv == ASSUME Inv, [Next]_vars PROVE Inv'
<1>1. CASE Start
  BY <1>1, StartInv
<1>2. CASE Thread
  BY <1>2, ThreadInv
<1>3. CASE Cancel \/ Tick \/ UNCHANGED vars
  <2>1. /\ UNCHANGED <<pc, spec, next, queue, job, popNow, hist>>
        /\ now' \in {now, now + 1}
    BY <1>3 DEF Cancel, Tick, vars
  <2>2. ClockType'
    BY <2>1 DEF Inv, ClockType
  <2>3. CASE pc = "off"
    BY <2>1, <2>2, <2>3 DEF Inv
  <2>4. CASE pc # "off"
    <3>1. TypeInv /\ QueueInv /\ SearchInv
      BY <2>4 DEF Inv
    <3>2. TypeInv' /\ QueueInv'
      BY <2>1, <3>1 DEF TypeInv, QueueInv, Popping, hist
    <3> QED BY <2>1, <2>2, <3>1, <3>2, SearchSame DEF Inv
  <2> QED BY <2>3, <2>4
<1> QED BY <1>1, <1>2, <1>3 DEF Next

LEMMA InvHolds == Spec => []Inv
<1>1. Init => Inv
  BY DEF Init, Inv, ClockType
<1>2. Inv /\ [Next]_vars => Inv'
  BY NextInv
<1> QED BY <1>1, <1>2, PTL DEF Spec

\* No second in which a job is to run is forgotten, for all jobs, calendars
\* and horizons, and however late the thread is: nextRunTime finds the first
\* one, and Pop searches on from the second after the one it is in, so that
\* what is not served was over by then or is that second.
THEOREM NoneForgotten == Spec => []NoSecondForgotten
<1>1. ASSUME Inv, pc # "off", NEW j \in Jobs
      PROVE  /\ next[j] # Nil <=> j \in queue \/ (Popping /\ j = job)
             /\ \A s \in Searched(j) :
                  Satisfied(spec[j], Calendar[s]) => s \in served[j] \union missed[j] \union cut[j]
  <2>1. TypeInv /\ QueueInv /\ SearchInv
    BY <1>1 DEF Inv
  <2>2. next[j] # Nil <=> j \in queue \/ (Popping /\ j = job)
    BY <2>1 DEF QueueInv
  <2>3. /\ Found(spec[j], base[j], next[j])
        /\ Settled(spec[j], began, base[j], served[j], missed[j] \union cut[j])
    BY <2>1 DEF SearchInv
  <2> DEFINE a == SecondOf(began)
             b == SecondOf(base[j])
             c == SecondOf(next[j])
             e == (IF next[j] = Nil THEN b + Horizon ELSE c) - 1
  <2>4. began \in Nat /\ base[j] \in Nat /\ next[j] \in Times /\ Horizon \in Nat
    BY <2>1, QueueAssumption DEF TypeInv
  <2>5. a \in Nat /\ b \in Nat /\ (next[j] # Nil => c \in Nat)
    BY <2>4, SecondsAreNumbers DEF Times
  <2>6. e \in Int /\ Searched(j) = a..e
    BY <2>4, <2>5 DEF Searched
  <2>7. \A s \in b..e : ~IsDue(spec[j], s)
    BY <2>3, <2>4, <2>5 DEF Found
  <2>8. \A s \in a..(b - 1) : IsDue(spec[j], s) => s \in served[j] \union missed[j] \union cut[j]
    BY <2>3 DEF Settled
  <2> HIDE DEF a, b, c, e
  <2>9. \A s \in a..e : s \in a..(b - 1) \/ s \in b..e
    BY <2>5, <2>6
  <2>10. \A s \in Searched(j) : IsDue(spec[j], s) => s \in served[j] \union missed[j] \union cut[j]
    BY <2>6, <2>7, <2>8, <2>9
  <2> QED BY <2>2, <2>10 DEF IsDue
<1>2. Inv => NoSecondForgotten
  BY <1>1 DEF NoSecondForgotten
<1> QED BY <1>2, InvHolds, PTL

\* A job is not served twice for one second of one activation, however many
\* ticks a second has and wherever in a second Pop reads the clock.
THEOREM ServedOnce == Spec => []OncePerSecond
<1>1. ASSUME Inv, pc # "off", NEW j \in Jobs, next[j] # Nil
      PROVE  SecondOf(next[j]) \notin served[j]
  <2>1. TypeInv /\ SearchInv
    BY <1>1 DEF Inv
  <2>2. SecondOf(base[j]) <= SecondOf(next[j]) /\ \A s \in served[j] : s < SecondOf(base[j])
    BY <1>1, <2>1 DEF SearchInv, Found, Settled
  <2>3. SecondOf(base[j]) \in Nat /\ SecondOf(next[j]) \in Nat
    BY <1>1, <2>1, SecondsAreNumbers DEF TypeInv, Times
  <2> QED BY <2>2, <2>3
<1>2. Inv => OncePerSecond
  BY <1>1 DEF OncePerSecond
<1> QED BY <1>2, InvHolds, PTL

=============================================================================
