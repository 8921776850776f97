---------------------------- MODULE MemRunLogProofs ----------------------------
(***************************************************************************)
(* Proofs about MemRunLog.                                                 *)
(*                                                                         *)
(* The order of the entries carries the rest: it makes the place where the *)
(* swaps stop the right one, and the first entry the oldest, so that what  *)
(* Put throws out is no newer than what it keeps.  The inductive invariant *)
(* is LogInv, the conjunction of the three state properties.               *)
(***************************************************************************)
EXTENDS MemRunLog, TLAPS

LogInv == TypeOK /\ InOrder /\ NewestKept

-----------------------------------------------------------------------------
(***************************************************************************)
(* Sequences.                                                              *)
(***************************************************************************)

\* What InsertAt returns, entry by entry.
LEMMA InsertAtEntries ==
  ASSUME NEW s \in Seq(Runs), NEW i \in 0..Len(s), NEW r \in Runs
  PROVE  /\ InsertAt(s, i, r) \in Seq(Runs)
         /\ Len(InsertAt(s, i, r)) = Len(s) + 1
         /\ \A k \in 1..(Len(s) + 1) :
              InsertAt(s, i, r)[k] =
                IF k <= i THEN s[k] ELSE IF k = i + 1 THEN r ELSE s[k - 1]
<1> DEFINE a == SubSeq(s, 1, i)
           b == SubSeq(s, i + 1, Len(s))
<1>1. /\ a \in Seq(Runs) /\ Len(a) = i
      /\ \A k \in 1..i : a[k] = s[k]
  OBVIOUS
<1>2. /\ b \in Seq(Runs) /\ Len(b) = Len(s) - i
      /\ \A k \in 1..(Len(s) - i) : b[k] = s[i + k]
  OBVIOUS
<1> HIDE DEF a, b
<1>3. /\ a \o <<r>> \in Seq(Runs) /\ Len(a \o <<r>>) = i + 1
      /\ \A k \in 1..(i + 1) : (a \o <<r>>)[k] = IF k <= i THEN s[k] ELSE r
  BY <1>1
<1> DEFINE c == a \o <<r>>
<1>4. c \in Seq(Runs) /\ Len(c) = i + 1
  BY <1>3
<1> HIDE DEF c
<1>5. /\ c \o b \in Seq(Runs) /\ Len(c \o b) = Len(s) + 1
      /\ \A k \in 1..(Len(s) + 1) :
           (c \o b)[k] = IF k <= i + 1 THEN c[k] ELSE b[k - (i + 1)]
  BY <1>2, <1>4
<1>6. \A k \in 1..(Len(s) + 1) : k > i + 1 => b[k - (i + 1)] = s[k - 1]
  BY <1>2
<1>7. InsertAt(s, i, r) = c \o b
  BY DEF InsertAt, a, b, c
<1> QED BY <1>3, <1>5, <1>6, <1>7 DEF c

\* Tail removes the first entry and keeps the order of the others.
LEMMA TailEntries ==
  ASSUME NEW s \in Seq(Runs), s # <<>>
  PROVE  /\ Tail(s) \in Seq(Runs) /\ Len(Tail(s)) = Len(s) - 1
         /\ \A k \in 1..(Len(s) - 1) : Tail(s)[k] = s[k + 1]
         /\ Ascending(s) => Ascending(Tail(s))
<1>1. /\ Tail(s) \in Seq(Runs) /\ Len(Tail(s)) = Len(s) - 1
      /\ \A k \in 1..(Len(s) - 1) : Tail(s)[k] = s[k + 1]
  OBVIOUS
<1>2. ASSUME Ascending(s) PROVE Ascending(Tail(s))
  BY <1>1, <1>2 DEF Ascending
<1> QED BY <1>1, <1>2

\* The place where the swaps of Put stop is the right one.
LEMMA SwapsStopInPlace ==
  ASSUME NEW s \in Seq(Runs), Ascending(s), NEW r \in Runs, NEW i \in 0..Len(s),
         i > 0 => StartTime[s[i]] <= StartTime[r],
         \A j \in (i + 1)..Len(s) : StartTime[s[j]] > StartTime[r]
  PROVE  Position(s, r, i)
<1>1. ASSUME NEW j \in 1..i PROVE StartTime[s[j]] <= StartTime[r]
  <2>1. s[j] \in Runs /\ s[i] \in Runs
    OBVIOUS
  <2>2. StartTime[s[j]] \in Nat /\ StartTime[s[i]] \in Nat /\ StartTime[r] \in Nat
    BY <2>1, EntriesAssumption
  <2>3. StartTime[s[j]] <= StartTime[s[i]]
    BY <2>2 DEF Ascending
  <2> QED BY <2>2, <2>3
<1> QED BY <1>1 DEF Position

\* An entry inserted in its place leaves the sequence in order.
LEMMA InsertKeepsOrder ==
  ASSUME NEW s \in Seq(Runs), Ascending(s), NEW r \in Runs, NEW i \in 0..Len(s),
         Position(s, r, i)
  PROVE  Ascending(InsertAt(s, i, r))
<1> DEFINE t == InsertAt(s, i, r)
<1>1. /\ t \in Seq(Runs) /\ Len(t) = Len(s) + 1
      /\ \A k \in 1..(Len(s) + 1) :
           t[k] = IF k <= i THEN s[k] ELSE IF k = i + 1 THEN r ELSE s[k - 1]
  BY InsertAtEntries, ZenonT(30)
<1> HIDE DEF t
<1>2. SUFFICES ASSUME NEW k \in 1..(Len(s) + 1), NEW m \in 1..(Len(s) + 1), k < m
               PROVE  StartTime[t[k]] <= StartTime[t[m]]
  BY <1>1 DEF Ascending, t
<1>3. /\ StartTime[r] \in Nat
      /\ \A j \in 1..Len(s) : s[j] \in Runs /\ StartTime[s[j]] \in Nat
  <2>1. \A q \in Runs : StartTime[q] \in Nat
    BY EntriesAssumption
  <2>2. \A j \in 1..Len(s) : s[j] \in Runs
    OBVIOUS
  <2> QED BY <2>1, <2>2
<1>4. CASE m <= i
  BY <1>1, <1>2, <1>4 DEF Ascending
<1>5. CASE m = i + 1
  BY <1>1, <1>2, <1>5 DEF Position
<1>6. CASE m > i + 1 /\ k = i + 1
  <2>1. t[k] = r /\ t[m] = s[m - 1] /\ m - 1 \in (i + 1)..Len(s)
    BY <1>1, <1>6
  <2> QED BY <2>1, <1>3 DEF Position
<1>7. CASE m > i + 1 /\ k <= i
  <2>1. t[k] = s[k] /\ t[m] = s[m - 1] /\ k < m - 1 /\ m - 1 \in 1..Len(s)
    BY <1>1, <1>7
  <2> QED BY <2>1, <1>2 DEF Ascending
<1>8. CASE m > i + 1 /\ k > i + 1
  <2>1. t[k] = s[k - 1] /\ t[m] = s[m - 1] /\ k - 1 < m - 1
        /\ m - 1 \in 1..Len(s) /\ k - 1 \in 1..Len(s)
    BY <1>1, <1>2, <1>8
  <2> QED BY <2>1 DEF Ascending
<1> QED BY <1>4, <1>5, <1>6, <1>7, <1>8

-----------------------------------------------------------------------------
(***************************************************************************)
(* The invariant.                                                          *)
(***************************************************************************)

LEMMA TimesAreNumbers == \A r \in Runs : StartTime[r] \in Nat
BY EntriesAssumption

LEMMA InitEstablishes == Init => LogInv
<1> SUFFICES ASSUME Init PROVE LogInv
  OBVIOUS
<1>1. TypeOK
  BY MaxLenAssumption DEF Init, TypeOK, RunStates
<1>2. InOrder
  BY DEF Init, InOrder, Ascending
<1>3. NewestKept
  BY DEF Init, NewestKept
<1> QED BY <1>1, <1>2, <1>3 DEF LogInv

\* What SortIn does to a sequence in order: the new entry is in its place,
\* everything else is still there, and the order is kept.
LEMMA SortInInserts ==
  ASSUME NEW s \in Seq(Runs), Ascending(s), NEW r \in Runs, SortIn(s, r)
  PROVE  /\ entries' \in Seq(Runs) /\ Len(entries') = Len(s) + 1
         /\ Ascending(entries')
         /\ Elements(entries') = Elements(s) \cup {r}
         /\ \E i \in 0..Len(s) :
              Position(s, r, i) /\ entries' = InsertAt(s, i, r)
<1>1. PICK i \in 0..Len(s) :
        /\ i > 0 => StartTime[s[i]] <= StartTime[r]
        /\ \A j \in (i + 1)..Len(s) : StartTime[s[j]] > StartTime[r]
        /\ entries' = InsertAt(s, i, r)
  BY DEF SortIn
<1>2. Position(s, r, i)
  BY <1>1, SwapsStopInPlace
<1>3. /\ entries' \in Seq(Runs) /\ Len(entries') = Len(s) + 1
      /\ \A k \in 1..(Len(s) + 1) :
           entries'[k] = IF k <= i THEN s[k] ELSE IF k = i + 1 THEN r ELSE s[k - 1]
  <2>1. /\ InsertAt(s, i, r) \in Seq(Runs)
        /\ Len(InsertAt(s, i, r)) = Len(s) + 1
        /\ \A k \in 1..(Len(s) + 1) :
             InsertAt(s, i, r)[k] =
               IF k <= i THEN s[k] ELSE IF k = i + 1 THEN r ELSE s[k - 1]
    BY InsertAtEntries, ZenonT(30)
  <2> QED BY <1>1, <2>1
<1>4. Ascending(entries')
  BY <1>1, <1>2, InsertKeepsOrder
<1>5. Elements(entries') \subseteq Elements(s) \cup {r}
  <2>1. ASSUME NEW k \in 1..(Len(s) + 1) PROVE entries'[k] \in Elements(s) \cup {r}
    <3>1. CASE k <= i
      BY <1>3, <3>1 DEF Elements
    <3>2. CASE k = i + 1
      BY <1>3, <3>2
    <3>3. CASE k > i + 1
      <4>1. entries'[k] = s[k - 1] /\ k - 1 \in DOMAIN s
        BY <1>3, <3>3
      <4> QED BY <4>1 DEF Elements
    <3> QED BY <3>1, <3>2, <3>3
  <2>2. DOMAIN entries' = 1..(Len(s) + 1)
    BY <1>3
  <2> QED BY <2>1, <2>2 DEF Elements
<1>6. r \in Elements(entries')
  <2>1. i + 1 \in DOMAIN entries' /\ entries'[i + 1] = r
    BY <1>3
  <2> QED BY <2>1 DEF Elements
<1>7. ASSUME NEW k \in 1..Len(s) PROVE s[k] \in Elements(entries')
  <2>1. CASE k <= i
    <3>1. k \in DOMAIN entries' /\ entries'[k] = s[k]
      BY <1>3, <2>1
    <3> QED BY <3>1 DEF Elements
  <2>2. CASE k > i
    <3>1. k + 1 \in DOMAIN entries' /\ entries'[k + 1] = s[k]
      BY <1>3, <2>2
    <3> QED BY <3>1 DEF Elements
  <2> QED BY <2>1, <2>2
<1>8. Elements(s) \subseteq Elements(entries')
  BY <1>7 DEF Elements
<1> QED BY <1>1, <1>2, <1>3, <1>4, <1>5, <1>6, <1>8

\* The three ways in which Put changes the entries.
LEMMA PutCases ==
  ASSUME LogInv, NEW r \in Runs, Put(r)
  PROVE  /\ fate' = [fate EXCEPT ![r] = "logged"] /\ cleared' = cleared
         /\ \/ /\ Len(entries) = MaxLen /\ entries # <<>>
               /\ StartTime[r] < StartTime[entries[1]]
               /\ entries' = entries
            \/ /\ Len(entries) = MaxLen /\ entries # <<>>
               /\ StartTime[entries[1]] <= StartTime[r]
               /\ SortIn(Tail(entries), r)
            \/ /\ Len(entries) < MaxLen
               /\ SortIn(entries, r)
<1>1. /\ entries \in Seq(Runs) /\ Len(entries) <= MaxLen
  BY DEF LogInv, TypeOK
<1>2. ASSUME Full PROVE Len(entries) = MaxLen /\ entries # <<>> /\ entries[1] \in Runs
  BY <1>1, <1>2, MaxLenAssumption DEF Full
<1>3. ASSUME ~Full PROVE Len(entries) < MaxLen
  BY <1>1, <1>3, MaxLenAssumption DEF Full
<1>4. Full /\ ~(StartTime[r] < StartTime[entries[1]]) => StartTime[entries[1]] <= StartTime[r]
  BY <1>2, TimesAreNumbers
<1> QED BY <1>2, <1>3, <1>4 DEF Put

LEMMA PutKeepsTypeAndOrder ==
  ASSUME LogInv, NEW r \in Runs, Put(r)
  PROVE  TypeOK' /\ InOrder'
<1>1. /\ entries \in Seq(Runs) /\ Len(entries) <= MaxLen /\ Ascending(entries)
      /\ fate \in [Runs -> RunStates] /\ cleared \in SUBSET Runs
  BY DEF LogInv, TypeOK, InOrder
<1>2. fate' \in [Runs -> RunStates] /\ cleared' \in SUBSET Runs
  BY <1>1, PutCases DEF RunStates
<1>3. CASE entries' = entries
  BY <1>1, <1>2, <1>3 DEF TypeOK, InOrder
<1>4. CASE Len(entries) = MaxLen /\ entries # <<>> /\ SortIn(Tail(entries), r)
  <2>1. /\ Tail(entries) \in Seq(Runs) /\ Len(Tail(entries)) = Len(entries) - 1
        /\ Ascending(Tail(entries))
    BY <1>1, <1>4, TailEntries
  <2>2. /\ entries' \in Seq(Runs) /\ Len(entries') = Len(Tail(entries)) + 1
        /\ Ascending(entries')
    BY <1>4, <2>1, SortInInserts
  <2> QED BY <1>2, <1>4, <2>1, <2>2, MaxLenAssumption DEF TypeOK, InOrder
<1>5. CASE Len(entries) < MaxLen /\ SortIn(entries, r)
  BY <1>1, <1>2, <1>5, SortInInserts, MaxLenAssumption DEF TypeOK, InOrder
<1> QED BY <1>3, <1>4, <1>5, PutCases

\* Put throws out no entry that is newer than one it keeps.
LEMMA PutKeepsNewest ==
  ASSUME LogInv, NEW r \in Runs, Put(r)
  PROVE  NewestKept'
<1>1. /\ entries \in Seq(Runs) /\ Ascending(entries) /\ NewestKept
      /\ fate \in [Runs -> RunStates]
  BY DEF LogInv, TypeOK, InOrder
<1>2. SUFFICES ASSUME NEW q \in Runs, fate'[q] = "logged", q \notin cleared',
                      q \notin Elements(entries')
               PROVE  /\ Len(entries') = MaxLen
                      /\ \A e \in Elements(entries') : StartTime[q] <= StartTime[e]
  BY DEF NewestKept, Elements
<1>3. q # r => fate[q] = "logged" /\ q \notin cleared
  BY <1>1, <1>2, PutCases
<1>4. ASSUME entries # <<>>
      PROVE  \A e \in Elements(entries) : StartTime[entries[1]] <= StartTime[e]
  <2>1. 1 \in DOMAIN entries /\ entries[1] \in Runs
    BY <1>1, <1>4
  <2>2. ASSUME NEW i \in DOMAIN entries PROVE StartTime[entries[1]] <= StartTime[entries[i]]
    BY <1>1, <2>1, TimesAreNumbers DEF Ascending
  <2> QED BY <2>2 DEF Elements
<1>5. \A e \in Elements(entries) : e \in Runs
  BY <1>1 DEF Elements
<1>6. q # r /\ q \notin Elements(entries)
        => /\ Len(entries) = MaxLen
           /\ \A e \in Elements(entries) : StartTime[q] <= StartTime[e]
  BY <1>1, <1>3 DEF NewestKept, Elements
<1>7. CASE Len(entries) = MaxLen /\ entries # <<>> /\ entries' = entries
           /\ StartTime[r] < StartTime[entries[1]]
  <2>1. CASE q = r
    <3>1. entries[1] \in Runs
      BY <1>1, <1>7
    <3> QED BY <1>4, <1>5, <1>7, <2>1, <3>1, TimesAreNumbers
  <2>2. CASE q # r
    BY <1>2, <1>6, <1>7, <2>2
  <2> QED BY <2>1, <2>2
<1>8. CASE Len(entries) = MaxLen /\ entries # <<>> /\ SortIn(Tail(entries), r)
           /\ StartTime[entries[1]] <= StartTime[r]
  <2>1. /\ Tail(entries) \in Seq(Runs) /\ Len(Tail(entries)) = Len(entries) - 1
        /\ \A k \in 1..(Len(entries) - 1) : Tail(entries)[k] = entries[k + 1]
        /\ Ascending(Tail(entries))
    BY <1>1, <1>8, TailEntries
  <2>2. /\ Len(entries') = Len(Tail(entries)) + 1
        /\ Elements(entries') = Elements(Tail(entries)) \cup {r}
    BY <2>1, <1>8, SortInInserts
  <2>3. Len(entries') = MaxLen
    BY <1>8, <2>1, <2>2, MaxLenAssumption
  <2>4. /\ Elements(Tail(entries)) \subseteq Elements(entries)
        /\ Elements(entries) \subseteq Elements(Tail(entries)) \cup {entries[1]}
    <3>1. ASSUME NEW k \in 1..(Len(entries) - 1)
          PROVE  Tail(entries)[k] \in Elements(entries)
      BY <1>1, <2>1 DEF Elements
    <3>2. ASSUME NEW k \in 1..Len(entries), k # 1
          PROVE  entries[k] \in Elements(Tail(entries))
      <4>1. k - 1 \in DOMAIN Tail(entries) /\ Tail(entries)[k - 1] = entries[k]
        BY <1>1, <2>1, <3>2
      <4> QED BY <4>1 DEF Elements
    <3> QED BY <1>1, <2>1, <3>1, <3>2, SMTT(30) DEF Elements
  <2>5. entries[1] \in Runs /\ entries[1] \in Elements(entries)
    BY <1>1, <1>8 DEF Elements
  <2>6. StartTime[q] <= StartTime[entries[1]]
    <3>1. CASE q = entries[1]
      BY <3>1, <2>5, TimesAreNumbers
    <3>2. CASE q # entries[1]
      BY <1>2, <1>6, <2>2, <2>4, <2>5, <3>2
    <3> QED BY <3>1, <3>2
  <2>7. ASSUME NEW e \in Elements(entries') PROVE StartTime[q] <= StartTime[e]
    <3>1. StartTime[entries[1]] <= StartTime[e] /\ e \in Runs
      BY <1>4, <1>5, <1>8, <2>2, <2>4
    <3> QED BY <2>5, <2>6, <3>1, TimesAreNumbers
  <2> QED BY <2>3, <2>7
<1>9. CASE Len(entries) < MaxLen /\ SortIn(entries, r)
  <2>1. Elements(entries') = Elements(entries) \cup {r}
    BY <1>1, <1>9, SortInInserts
  <2>2. Len(entries) = MaxLen
    BY <1>2, <1>6, <2>1
  <2> QED BY <1>1, <1>9, <2>2, MaxLenAssumption
<1> QED BY <1>7, <1>8, <1>9, PutCases

LEMMA NextPreserves == LogInv /\ [Next]_vars => LogInv'
<1> SUFFICES ASSUME LogInv, [Next]_vars PROVE LogInv'
  OBVIOUS
<1> USE DEF LogInv
<1>1. CASE UNCHANGED vars
  BY <1>1 DEF vars, TypeOK, InOrder, NewestKept, Ascending, Elements
<1>2. ASSUME NEW r \in Runs, StartRun(r) PROVE LogInv'
  BY <1>2 DEF StartRun, TypeOK, RunStates, InOrder, NewestKept, Ascending, Elements
<1>3. ASSUME NEW r \in Runs, Put(r) PROVE LogInv'
  BY <1>3, PutKeepsTypeAndOrder, PutKeepsNewest
<1>4. ASSUME Replace \/ Restart PROVE LogInv'
  <2>1. entries' = <<>> /\ cleared' = {r \in Runs : fate[r] = "logged"}
    BY <1>4 DEF Replace, Restart
  <2>2. /\ fate' \in [Runs -> RunStates]
        /\ \A r \in Runs : fate'[r] = "logged" => fate[r] = "logged"
    BY <1>4 DEF Replace, Restart, TypeOK, RunStates
  <2>3. TypeOK'
    BY <2>1, <2>2, MaxLenAssumption DEF TypeOK
  <2>4. InOrder'
    BY <2>1 DEF InOrder, Ascending
  <2>5. NewestKept'
    BY <2>1, <2>2 DEF NewestKept
  <2> QED BY <2>3, <2>4, <2>5
<1> QED BY <1>1, <1>2, <1>3, <1>4 DEF Next

LEMMA LogInvHolds == Spec => []LogInv
BY InitEstablishes, NextPreserves, PTL DEF Spec

\* However the ends of overlapping runs are interleaved, the entries are in
\* order of start time, for any number of runs and any capacity.
THEOREM EntriesInOrder == Spec => []InOrder
<1>1. LogInv => InOrder
  BY DEF LogInv
<1> QED BY <1>1, LogInvHolds, PTL

\* Put throws out the oldest entries only, and only when the log is full.
THEOREM NewestAreKept == Spec => []NewestKept
<1>1. LogInv => NewestKept
  BY DEF LogInv
<1> QED BY <1>1, LogInvHolds, PTL

-----------------------------------------------------------------------------
(***************************************************************************)
(* Refinement of RunLog.                                                   *)
(***************************************************************************)

\* Dropping the oldest entry, or none, entry by entry.
LEMMA DropEntries ==
  ASSUME NEW s \in Seq(Runs), NEW k \in 0..Len(s)
  PROVE  /\ DropOldest(s, k) \in Seq(Runs)
         /\ Len(DropOldest(s, k)) = Len(s) - k
         /\ \A j \in 1..(Len(s) - k) : DropOldest(s, k)[j] = s[j + k]
BY DEF DropOldest

\* Two sequences with the same length and the same entries are equal.
LEMMA SameEntries ==
  ASSUME NEW s \in Seq(Runs), NEW t \in Seq(Runs), Len(s) = Len(t),
         \A k \in 1..Len(s) : s[k] = t[k]
  PROVE  s = t
OBVIOUS

\* To ignore an entry that is older than all is to insert it and to forget it.
LEMMA IgnoreIsInsertAndDrop ==
  ASSUME NEW s \in Seq(Runs), NEW r \in Runs
  PROVE  s = DropOldest(InsertAt(s, 0, r), 1)
<1> DEFINE t == InsertAt(s, 0, r)
<1>1. /\ t \in Seq(Runs) /\ Len(t) = Len(s) + 1
      /\ \A k \in 1..(Len(s) + 1) :
           t[k] = IF k <= 0 THEN s[k] ELSE IF k = 0 + 1 THEN r ELSE s[k - 1]
  <2>1. 0 \in 0..Len(s)
    OBVIOUS
  <2> QED BY <2>1, InsertAtEntries
<1> HIDE DEF t
<1>2. /\ DropOldest(t, 1) \in Seq(Runs) /\ Len(DropOldest(t, 1)) = Len(s)
      /\ \A j \in 1..Len(s) : DropOldest(t, 1)[j] = t[j + 1]
  <2>1. 1 \in 0..Len(t) /\ Len(t) - 1 = Len(s)
    BY <1>1
  <2>2. /\ DropOldest(t, 1) \in Seq(Runs) /\ Len(DropOldest(t, 1)) = Len(t) - 1
        /\ \A j \in 1..(Len(t) - 1) : DropOldest(t, 1)[j] = t[j + 1]
    BY <1>1, <2>1, DropEntries
  <2> QED BY <2>1, <2>2
<1>3. \A j \in 1..Len(s) : t[j + 1] = s[j]
  BY <1>1
<1> QED BY <1>2, <1>3, SameEntries DEF t

\* To insert into the tail is to insert and to forget the oldest entry.
LEMMA TailInsertIsInsertAndDrop ==
  ASSUME NEW s \in Seq(Runs), s # <<>>, NEW r \in Runs, NEW i \in 0..(Len(s) - 1)
  PROVE  InsertAt(Tail(s), i, r) = DropOldest(InsertAt(s, i + 1, r), 1)
<1> DEFINE t == InsertAt(s, i + 1, r)
           u == InsertAt(Tail(s), i, r)
<1>1. /\ Tail(s) \in Seq(Runs) /\ Len(Tail(s)) = Len(s) - 1
      /\ \A k \in 1..(Len(s) - 1) : Tail(s)[k] = s[k + 1]
  BY TailEntries
<1>2. i + 1 \in 0..Len(s) /\ i \in 0..Len(Tail(s))
  BY <1>1
<1>3. /\ t \in Seq(Runs) /\ Len(t) = Len(s) + 1
      /\ \A k \in 1..(Len(s) + 1) :
           t[k] = IF k <= i + 1 THEN s[k] ELSE IF k = (i + 1) + 1 THEN r ELSE s[k - 1]
  BY <1>2, InsertAtEntries
<1>4. /\ u \in Seq(Runs) /\ Len(u) = Len(Tail(s)) + 1
      /\ \A k \in 1..(Len(Tail(s)) + 1) :
           u[k] = IF k <= i THEN Tail(s)[k] ELSE IF k = i + 1 THEN r ELSE Tail(s)[k - 1]
  BY <1>1, <1>2, InsertAtEntries, ZenonT(30)
<1> HIDE DEF t, u
<1>5. /\ DropOldest(t, 1) \in Seq(Runs) /\ Len(DropOldest(t, 1)) = Len(s)
      /\ \A j \in 1..Len(s) : DropOldest(t, 1)[j] = t[j + 1]
  <2>1. 1 \in 0..Len(t) /\ Len(t) - 1 = Len(s)
    BY <1>3
  <2>2. /\ DropOldest(t, 1) \in Seq(Runs) /\ Len(DropOldest(t, 1)) = Len(t) - 1
        /\ \A j \in 1..(Len(t) - 1) : DropOldest(t, 1)[j] = t[j + 1]
    BY <1>3, <2>1, DropEntries
  <2> QED BY <2>1, <2>2
<1>6. ASSUME NEW k \in 1..Len(s) PROVE u[k] = t[k + 1]
  <2>1. CASE k <= i
    BY <1>1, <1>3, <1>4, <2>1
  <2>2. CASE k = i + 1
    BY <1>1, <1>3, <1>4, <2>2
  <2>3. CASE k > i + 1
    <3>1. u[k] = Tail(s)[k - 1] /\ Tail(s)[k - 1] = s[k]
      BY <1>1, <1>4, <2>3
    <3>2. t[k + 1] = s[k]
      BY <1>3, <2>3
    <3> QED BY <3>1, <3>2
  <2> QED BY <2>1, <2>2, <2>3
<1> QED BY <1>1, <1>4, <1>5, <1>6, SameEntries DEF t, u

\* Put is a step of RunLog.
LEMMA PutIsAbstractPut ==
  ASSUME LogInv, NEW r \in Runs, Put(r)
  PROVE  AbstractLog!Put(r)
<1>1. /\ entries \in Seq(Runs) /\ Ascending(entries)
  BY DEF LogInv, TypeOK, InOrder
<1>2. fate[r] = "running" /\ fate' = [fate EXCEPT ![r] = "logged"]
  BY DEF Put
<1>3. SUFFICES \E i \in 0..Len(entries) :
                 /\ Position(entries, r, i)
                 /\ \E k \in 0..(Len(entries) + 1) :
                      entries' = DropOldest(InsertAt(entries, i, r), k)
  BY <1>2 DEF AbstractLog!Put, AbstractLog!Position, AbstractLog!DropOldest,
              AbstractLog!InsertAt, Position, DropOldest, InsertAt
<1>4. CASE entries # <<>> /\ entries' = entries
           /\ StartTime[r] < StartTime[entries[1]]
  <2>1. Position(entries, r, 0)
    <3>1. ASSUME NEW j \in 1..Len(entries) PROVE StartTime[entries[j]] > StartTime[r]
      <4>1. entries[j] \in Runs /\ entries[1] \in Runs
        BY <1>1, <1>4
      <4>2. StartTime[entries[1]] <= StartTime[entries[j]]
        BY <1>1, <1>4, <4>1, TimesAreNumbers DEF Ascending
      <4> QED BY <1>4, <4>1, <4>2, TimesAreNumbers
    <3> QED BY <3>1 DEF Position
  <2>2. entries' = DropOldest(InsertAt(entries, 0, r), 1)
    BY <1>1, <1>4, IgnoreIsInsertAndDrop
  <2> QED BY <1>1, <2>1, <2>2
<1>5. CASE entries # <<>> /\ SortIn(Tail(entries), r)
           /\ StartTime[entries[1]] <= StartTime[r]
  <2>1. /\ Tail(entries) \in Seq(Runs) /\ Len(Tail(entries)) = Len(entries) - 1
        /\ \A k \in 1..(Len(entries) - 1) : Tail(entries)[k] = entries[k + 1]
        /\ Ascending(Tail(entries))
    BY <1>1, <1>5, TailEntries
  <2>2. PICK i \in 0..Len(Tail(entries)) :
          Position(Tail(entries), r, i) /\ entries' = InsertAt(Tail(entries), i, r)
    BY <1>5, <2>1, SortInInserts
  <2>3. i \in 0..(Len(entries) - 1) /\ i + 1 \in 0..Len(entries)
    BY <1>1, <2>1
  <2>4. entries' = DropOldest(InsertAt(entries, i + 1, r), 1)
    BY <1>1, <1>5, <2>2, <2>3, TailInsertIsInsertAndDrop
  <2>5. ASSUME NEW j \in 1..(i + 1) PROVE StartTime[entries[j]] <= StartTime[r]
    <3>1. CASE j = 1
      BY <1>5, <3>1
    <3>2. CASE j # 1
      <4>1. j - 1 \in 1..i /\ entries[j] = Tail(entries)[j - 1]
        BY <2>1, <2>3, <3>2
      <4> QED BY <2>2, <4>1 DEF Position
    <3> QED BY <3>1, <3>2
  <2>6. ASSUME NEW j \in (i + 2)..Len(entries) PROVE StartTime[entries[j]] > StartTime[r]
    <3>1. j - 1 \in (i + 1)..Len(Tail(entries)) /\ entries[j] = Tail(entries)[j - 1]
      BY <1>1, <2>1, <2>3
    <3> QED BY <2>2, <3>1 DEF Position
  <2>7. Position(entries, r, i + 1)
    BY <2>3, <2>5, <2>6 DEF Position
  <2> QED BY <1>1, <2>3, <2>4, <2>7
<1>6. CASE SortIn(entries, r)
  <2>1. PICK i \in 0..Len(entries) :
          Position(entries, r, i) /\ entries' = InsertAt(entries, i, r)
    BY <1>1, <1>6, SortInInserts
  <2>2. InsertAt(entries, i, r) \in Seq(Runs)
    BY <1>1, InsertAtEntries
  <2>3. DropOldest(InsertAt(entries, i, r), 0) = InsertAt(entries, i, r)
    BY <2>2 DEF DropOldest
  <2> QED BY <1>1, <2>1, <2>3
<1> QED BY <1>4, <1>5, <1>6, PutCases

\* Forgetting all entries.
LEMMA DropAll ==
  ASSUME NEW s \in Seq(Runs)
  PROVE  DropOldest(s, Len(s)) = <<>>
BY DropEntries, SameEntries

LEMMA NextRefines == LogInv /\ [Next]_vars => [AbstractLog!Next]_<<entries, fate>>
<1> SUFFICES ASSUME LogInv, [Next]_vars
             PROVE  [AbstractLog!Next]_<<entries, fate>>
  OBVIOUS
<1>1. entries \in Seq(Runs)
  BY DEF LogInv, TypeOK
<1>2. CASE UNCHANGED vars
  BY <1>2 DEF vars
<1>3. ASSUME NEW r \in Runs, StartRun(r) PROVE AbstractLog!Next
  BY <1>3 DEF StartRun, AbstractLog!Next, AbstractLog!Start
<1>4. ASSUME NEW r \in Runs, Put(r) PROVE AbstractLog!Next
  BY <1>4, PutIsAbstractPut DEF AbstractLog!Next
<1>5. ASSUME Replace PROVE AbstractLog!Forget \/ UNCHANGED <<entries, fate>>
  <2>1. entries' = <<>> /\ fate' = fate
    BY <1>5 DEF Replace
  <2>2. CASE entries # <<>>
    <3>1. Len(entries) \in 1..Len(entries)
      BY <1>1, <2>2
    <3> QED BY <1>1, <2>1, <3>1, DropAll DEF AbstractLog!Forget, AbstractLog!DropOldest, DropOldest
  <2> QED BY <2>1, <2>2
<1>6. ASSUME Restart PROVE AbstractLog!Crash
  <2>1. Len(entries) \in 0..Len(entries)
    BY <1>1
  <2>2. entries' = <<>>
    BY <1>6 DEF Restart
  <2> QED BY <1>1, <1>6, <2>1, <2>2, DropAll
          DEF Restart, AbstractLog!Crash, AbstractLog!DropOldest, DropOldest
<1> QED BY <1>2, <1>3, <1>4, <1>5, <1>6 DEF Next, AbstractLog!Next

\* The log in memory implements the abstract RunLog: every Put inserts the
\* entry in its place and lets go of entries at the old end only.
THEOREM MemLogKeepsRunLog == Spec => KeepsRunLog
<1>1. Init => AbstractLog!Init
  BY DEF Init, AbstractLog!Init
<1> QED BY <1>1, NextRefines, LogInvHolds, PTL
        DEF Spec, KeepsRunLog, AbstractLog!Spec, AbstractLog!logVars

================================================================================
