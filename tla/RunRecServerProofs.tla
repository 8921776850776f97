-------------------------- MODULE RunRecServerProofs --------------------------
(***************************************************************************)
(* Proofs about RunRecServer.                                              *)
(*                                                                         *)
(* RegistryInv says what the registry, the listeners and the channels have *)
(* to do with each other; StreamInv, which needs it, follows the records   *)
(* through the two channels.                                               *)
(***************************************************************************)
EXTENDS RunRecServer, FiniteSetTheorems, SequenceTheorems, TLAPS

ServerType ==
  [running : BOOLEAN, listening : BOOLEAN,
   accept : {"none", "ready", "sending", "closed"},
   thread : {"none", "select", "done"},
   queue : Seq(Nat), shut : BOOLEAN, offered : Seq(Nat), dropped : Nat]

ConnType ==
  [state : {"none", "backlog", "refused", "accepted", "handled", "closed", "broken"},
   server : Servers \union {None}, queue : Seq(Nat), shut : BOOLEAN,
   writing : Seq(Nat), dropped : Nat, since : Nat, received : Seq(Nat)]

TypeOK ==
  /\ registered \in SUBSET Sids
  /\ launched \in [Sids -> 0..MaxLaunches]
  /\ srv \in [Servers -> ServerType]
  /\ cn \in [Clients -> ConnType]
  /\ recs \in Nat

\* Servers are used in the order of their numbers.
UsedInOrder ==
  \A s \in Servers : /\ s[2] > launched[s[1]] => srv[s] = Unused
                     /\ s[2] <= launched[s[1]] => srv[s].thread # "none"

RunningIsRegistered ==
  \A s \in Servers : srv[s].running => s[1] \in registered /\ s = Current(s[1])

\* The registry never keeps a server whose listener or channel of records is
\* closed, so its thread can only have returned because Accept failed.
RegisteredIsOpen ==
  \A x \in registered :
    /\ launched[x] >= 1
    /\ srv[Current(x)].listening /\ ~srv[Current(x)].shut
    /\ srv[Current(x)].running \/ srv[Current(x)].accept = "closed"

RegistryInv == TypeOK /\ UsedInOrder /\ RunningIsRegistered /\ RegisteredIsOpen

\* The records that have left a server's channel.
Out(v) == Len(v.offered) - Len(v.queue)

Increasing(o) == \A i, j \in 1..Len(o) : i < j => o[i] < o[j]
AtMost(o, n) == \A i \in 1..Len(o) : o[i] <= n
IsEndOf(q, o) == Len(q) <= Len(o) /\ \A i \in 1..Len(q) : q[i] = o[(Len(o) - Len(q)) + i]

\* What is in the channel is the end of what was taken in; the numbers, up to
\* n now, increase.
ServerInv(v, n) == IsEndOf(v.queue, v.offered) /\ Increasing(v.offered) /\ AtMost(v.offered, n)

\* Stream, of a connection's record.
Given(x) == x.received \o x.writing \o x.queue

\* Each of the records of o that are out, but for the first ones, is in st,
\* a handler's stream, or was counted as dropped.
Accounted(since, dropped, st, o, out) ==
  /\ since <= out
  /\ Len(st) + dropped = out - since
  /\ \A i \in 1..Len(st) : \E k \in since + 1 .. out : o[k] = st[i]

\* The thread has returned before a handler is told to, so that nothing is
\* given to one that ended.
ConnInv(x, v, st) ==
  /\ v.thread # "none"
  /\ x.state # "none"
  /\ x.state \in {"backlog", "refused", "accepted"} => st = <<>> /\ x.dropped = 0 /\ ~x.shut
  /\ Increasing(st)
  /\ x.state \in {"handled", "closed"} =>
       Accounted(x.since, x.dropped, st, v.offered, Out(v))
  /\ x.state = "closed" => x.writing = <<>> /\ x.queue = <<>> /\ v.thread = "done"
  /\ x.state = "handled" /\ x.shut => v.thread = "done"

\* Nothing has happened to a connection nobody has made.
NotMade(x) == x.state = "none" /\ Given(x) = <<>> /\ x.dropped = 0 /\ ~x.shut

ClientInv(x) == IF x.server = None THEN NotMade(x) ELSE ConnInv(x, srv[x.server], Given(x))

StreamInv ==
  /\ \A s \in Servers : ServerInv(srv[s], recs)
  /\ \A c \in Clients : ClientInv(cn[c])

Inv == RegistryInv /\ StreamInv

-----------------------------------------------------------------------------
(***************************************************************************)
(* Streams.                                                                *)
(***************************************************************************)

LEMMA GivenTaken ==
  ASSUME NEW r \in Seq(Nat), NEW q \in Seq(Nat), q # <<>>
  PROVE  r \o <<Head(q)>> \o Tail(q) = r \o <<>> \o q
<1>1. r \o <<Head(q)>> \o Tail(q) = r \o q
  OBVIOUS
<1>2. r \o <<>> = r
  OBVIOUS
<1> QED BY <1>1, <1>2

LEMMA GivenWritten ==
  ASSUME NEW r \in Seq(Nat), NEW w \in Seq(Nat), NEW q \in Seq(Nat)
  PROVE  (r \o w) \o <<>> \o q = r \o w \o q
BY ConcatProperties

LEMMA GivenSent ==
  ASSUME NEW r \in Seq(Nat), NEW w \in Seq(Nat), NEW q \in Seq(Nat), NEW e \in Nat
  PROVE  r \o w \o Append(q, e) = Append(r \o w \o q, e)
<1>1. r \o w \in Seq(Nat)
  OBVIOUS
<1> QED BY <1>1

-----------------------------------------------------------------------------
(***************************************************************************)
(* Servers and connections.                                                *)
(***************************************************************************)

\* What is out of a server's channel stays as it is, and so does the end of
\* its thread.
Keeps(v, w) ==
  /\ Out(w) = Out(v)
  /\ \A i \in 1..Out(v) : w.offered[i] = v.offered[i]
  /\ v.thread # "none" => w.thread # "none"
  /\ v.thread = "done" => w.thread = "done"

LEMMA NoneIsNoServer == \A s \in Servers : s # None
BY DEF Servers, None

LEMMA OutType ==
  ASSUME NEW v \in ServerType, NEW n, ServerInv(v, n)
  PROVE  Out(v) \in Nat /\ Out(v) = Len(v.offered) - Len(v.queue) /\ Out(v) <= Len(v.offered)
<1>1. v.offered \in Seq(Nat) /\ v.queue \in Seq(Nat)
  BY DEF ServerType
<1>2. Len(v.queue) <= Len(v.offered)
  BY DEF ServerInv, IsEndOf
<1>3. Len(v.queue) \in Nat /\ Len(v.offered) \in Nat
  BY <1>1
<1>4. Out(v) = Len(v.offered) - Len(v.queue)
  BY DEF Out
<1>5. \A a, b \in Nat : b <= a => a - b \in Nat /\ a - b <= a
  OBVIOUS
<1> QED BY <1>2, <1>3, <1>4, <1>5, Zenon

LEMMA GivenType ==
  ASSUME NEW x \in ConnType
  PROVE  Given(x) \in Seq(Nat)
BY DEF Given, ConnType

LEMMA AccountedKept ==
  ASSUME NEW since \in Nat, NEW dropped, NEW st, NEW o, NEW p, NEW out \in Nat,
         \A i \in 1..out : p[i] = o[i], Accounted(since, dropped, st, o, out)
  PROVE  Accounted(since, dropped, st, p, out)
BY DEF Accounted

LEMMA ConnKept ==
  ASSUME NEW x \in ConnType, NEW v \in ServerType, NEW w \in ServerType, NEW n,
         ServerInv(v, n), Keeps(v, w), NEW st, ConnInv(x, v, st)
  PROVE  ConnInv(x, w, st)
<1>1. Out(v) \in Nat /\ x.since \in Nat
  BY OutType DEF ConnType
<1>2. Out(w) = Out(v) /\ \A i \in 1..Out(v) : w.offered[i] = v.offered[i]
  BY DEF Keeps
<1>3. Accounted(x.since, x.dropped, st, v.offered, Out(v)) =>
        Accounted(x.since, x.dropped, st, w.offered, Out(w))
  BY <1>1, <1>2, AccountedKept
<1>4. (v.thread # "none" => w.thread # "none") /\ (v.thread = "done" => w.thread = "done")
  BY DEF Keeps
<1> QED BY <1>3, <1>4 DEF ConnInv

\* The first record of the channel is the next one to be out.
LEMMA EndTail ==
  ASSUME NEW q \in Seq(Nat), NEW o \in Seq(Nat), q # <<>>, IsEndOf(q, o)
  PROVE  /\ Tail(q) \in Seq(Nat) /\ Len(Tail(q)) = Len(q) - 1 /\ IsEndOf(Tail(q), o)
         /\ Head(q) = o[(Len(o) - Len(q)) + 1]
<1>1. Len(q) \in Nat \ {0} /\ Len(o) \in Nat /\ Head(q) = q[1]
  BY EmptySeq
<1>2. Len(q) <= Len(o) /\ \A i \in 1..Len(q) : q[i] = o[(Len(o) - Len(q)) + i]
  BY DEF IsEndOf
<1>3. /\ Tail(q) \in Seq(Nat) /\ Len(Tail(q)) = Len(q) - 1
      /\ \A i \in 1..Len(Tail(q)) : Tail(q)[i] = q[i + 1]
  BY HeadTailProperties
<1>4. ASSUME NEW i \in 1..Len(Tail(q)) PROVE Tail(q)[i] = o[(Len(o) - Len(Tail(q))) + i]
  <2>1. i + 1 \in 1..Len(q) /\ (Len(o) - Len(q)) + (i + 1) = (Len(o) - Len(Tail(q))) + i
    BY <1>1, <1>3
  <2>2. q[i + 1] = o[(Len(o) - Len(q)) + (i + 1)]
    BY <1>2, <2>1
  <2> QED BY <1>3, <2>1, <2>2
<1>5. Len(Tail(q)) <= Len(o)
  BY <1>1, <1>2, <1>3
<1>6. IsEndOf(Tail(q), o)
  BY <1>4, <1>5 DEF IsEndOf
<1>7. Head(q) = o[(Len(o) - Len(q)) + 1]
  BY <1>1, <1>2, SMTT(30)
<1> QED BY <1>3, <1>6, <1>7

\* A record with the next number enters the channel.
LEMMA EndAppend ==
  ASSUME NEW q \in Seq(Nat), NEW o \in Seq(Nat), IsEndOf(q, o), NEW n \in Nat,
         Increasing(o), AtMost(o, n)
  PROVE  /\ IsEndOf(Append(q, n + 1), Append(o, n + 1))
         /\ Increasing(Append(o, n + 1)) /\ AtMost(Append(o, n + 1), n + 1)
         /\ Len(Append(o, n + 1)) - Len(Append(q, n + 1)) = Len(o) - Len(q)
<1> DEFINE p == Append(o, n + 1)
           r == Append(q, n + 1)
<1>1. Len(q) \in Nat /\ Len(o) \in Nat /\ \A i \in 1..Len(o) : o[i] \in Nat
  OBVIOUS
<1>2. /\ Len(p) = Len(o) + 1 /\ p[Len(o) + 1] = n + 1 /\ \A i \in 1..Len(o) : p[i] = o[i]
      /\ Len(r) = Len(q) + 1 /\ r[Len(q) + 1] = n + 1 /\ \A i \in 1..Len(q) : r[i] = q[i]
  OBVIOUS
<1> HIDE DEF p, r
<1>3. Len(p) = Len(o) + 1 /\ Len(o) \in Nat
  BY <1>1, <1>2
<1>4. Len(q) <= Len(o) /\ \A i \in 1..Len(q) : q[i] = o[(Len(o) - Len(q)) + i]
  BY DEF IsEndOf
<1>5. Len(p) - Len(r) = Len(o) - Len(q) /\ Len(r) <= Len(p)
  BY <1>1, <1>2, <1>4
<1>6. ASSUME NEW i \in 1..Len(r) PROVE r[i] = p[(Len(p) - Len(r)) + i]
  <2>1. CASE i = Len(q) + 1
    <3>1. (Len(p) - Len(r)) + i = Len(o) + 1
      BY <1>1, <1>5, <2>1
    <3> QED BY <1>2, <2>1, <3>1
  <2>2. CASE i # Len(q) + 1
    <3>1. i \in 1..Len(q) /\ (Len(o) - Len(q)) + i \in 1..Len(o)
      BY <1>1, <1>2, <1>4, <2>2
    <3> QED BY <1>2, <1>4, <1>5, <3>1
  <2> QED BY <2>1, <2>2
<1>7. \A i \in 1..Len(o) : o[i] <= n /\ p[i] = o[i]
  BY <1>2 DEF AtMost
<1>8. Increasing(p)
  <2> SUFFICES ASSUME NEW i \in 1..Len(p), NEW j \in 1..Len(p), i < j PROVE p[i] < p[j]
    BY DEF Increasing
  <2>1. i \in 1..Len(o) /\ (j = Len(o) + 1 \/ j \in 1..Len(o))
    BY <1>3
  <2>2. CASE j = Len(o) + 1
    <3>1. p[j] = n + 1 /\ p[i] <= n /\ p[i] \in Nat
      BY <1>1, <1>2, <1>7, <2>1, <2>2
    <3> QED BY <3>1
  <2>3. CASE j \in 1..Len(o)
    BY <1>7, <2>1, <2>3 DEF Increasing
  <2> QED BY <2>1, <2>2, <2>3
<1>9. AtMost(p, n + 1)
  <2> SUFFICES ASSUME NEW i \in 1..Len(p) PROVE p[i] <= n + 1
    BY DEF AtMost
  <2>1. i = Len(o) + 1 \/ i \in 1..Len(o)
    BY <1>1, <1>2
  <2> QED BY <1>1, <1>2, <1>7, <2>1, SMTT(30)
<1> QED BY <1>5, <1>6, <1>8, <1>9 DEF IsEndOf, p, r

\* The record that leaves the server's channel goes to the end of a handler's
\* stream, where it is larger than all others, or is counted.
LEMMA AccountedNext ==
  ASSUME NEW since \in Nat, NEW dropped \in Nat, NEW st \in Seq(Nat), NEW o \in Seq(Nat),
         NEW out \in Nat, out < Len(o), Increasing(o), Increasing(st),
         Accounted(since, dropped, st, o, out)
  PROVE  /\ Accounted(since, dropped + 1, st, o, out + 1)
         /\ Accounted(since, dropped, Append(st, o[out + 1]), o, out + 1)
         /\ Increasing(Append(st, o[out + 1]))
<1> DEFINE r == o[out + 1]
           su == Append(st, r)
<1>1. /\ since <= out /\ Len(st) + dropped = out - since
      /\ \A i \in 1..Len(st) : \E k \in since + 1 .. out : o[k] = st[i]
  BY DEF Accounted
<1>2. r \in Nat /\ Len(o) \in Nat /\ Len(st) \in Nat /\ \A i \in 1..Len(st) : st[i] \in Nat
  OBVIOUS
<1>3. Len(su) = Len(st) + 1 /\ su[Len(st) + 1] = r /\ \A i \in 1..Len(st) : su[i] = st[i]
  BY <1>2
<1>4. ASSUME NEW i \in 1..Len(st) PROVE st[i] < r
  <2>1. PICK k \in since + 1 .. out : o[k] = st[i]
    BY <1>1
  <2>2. k \in 1..Len(o) /\ out + 1 \in 1..Len(o) /\ k < out + 1
    BY <1>2
  <2>3. o[k] < o[out + 1]
    BY <2>2 DEF Increasing
  <2> QED BY <2>1, <2>3
<1> HIDE DEF su, r
<1>5. Len(su) = Len(st) + 1 /\ Len(st) \in Nat
  BY <1>2, <1>3
<1>6. Increasing(su)
  <2> SUFFICES ASSUME NEW i \in 1..Len(su), NEW j \in 1..Len(su), i < j PROVE su[i] < su[j]
    BY DEF Increasing
  <2>1. i \in 1..Len(st) /\ (j = Len(st) + 1 \/ j \in 1..Len(st))
    <3>1. \A n \in Nat : \A k, m \in 1..n + 1 : k < m => k \in 1..n /\ (m = n + 1 \/ m \in 1..n)
      OBVIOUS
    <3> QED BY <1>5, <3>1
  <2>2. CASE j = Len(st) + 1
    <3>1. su[i] = st[i] /\ su[j] = r
      BY <1>3, <2>1, <2>2
    <3> QED BY <1>4, <2>1, <3>1
  <2>3. CASE j \in 1..Len(st)
    BY <1>3, <2>1, <2>3 DEF Increasing
  <2> QED BY <2>1, <2>2, <2>3
<1>7. \A i \in 1..Len(st) : \E k \in since + 1 .. out + 1 : o[k] = st[i]
  BY <1>1
<1>8. \E k \in since + 1 .. out + 1 : o[k] = r
  <2>1. out + 1 \in since + 1 .. out + 1
    BY <1>1
  <2> QED BY <2>1 DEF r
<1>9. \A i \in 1..Len(su) : \E k \in since + 1 .. out + 1 : o[k] = su[i]
  <2> SUFFICES ASSUME NEW i \in 1..Len(su) PROVE \E k \in since + 1 .. out + 1 : o[k] = su[i]
    OBVIOUS
  <2>1. i = Len(st) + 1 \/ i \in 1..Len(st)
    BY <1>5
  <2>2. CASE i = Len(st) + 1
    BY <1>3, <1>8, <2>2
  <2>3. CASE i \in 1..Len(st)
    BY <1>3, <1>7, <2>3
  <2> QED BY <2>1, <2>2, <2>3
<1>10. /\ since <= out + 1 /\ Len(st) + (dropped + 1) = (out + 1) - since
      /\ Len(su) + dropped = (out + 1) - since
  BY <1>1, <1>5, SMTT(30)
<1> QED BY <1>6, <1>7, <1>9, <1>10 DEF Accounted, su, r

\* One record leaves the server's channel.
LEMMA RecordLeaves ==
  ASSUME NEW v \in ServerType, NEW w, NEW n, ServerInv(v, n), v.queue # <<>>,
         w = [v EXCEPT !.queue = Tail(v.queue)]
  PROVE  /\ w \in ServerType /\ ServerInv(w, n)
         /\ Out(w) = Out(v) + 1 /\ Out(v) < Len(v.offered)
         /\ Head(v.queue) = v.offered[Out(v) + 1]
         /\ w.offered = v.offered /\ w.thread = v.thread
<1> DEFINE q == v.queue
           o == v.offered
           tq == Tail(q)
<1>1. q \in Seq(Nat) /\ o \in Seq(Nat) /\ q # <<>>
  BY DEF ServerType
<1>2. IsEndOf(q, o) /\ Increasing(o) /\ AtMost(o, n)
  BY DEF ServerInv
<1>3. Out(v) = Len(o) - Len(q)
  BY DEF Out
<1>4. tq \in Seq(Nat) /\ Len(tq) = Len(q) - 1 /\ IsEndOf(tq, o) /\ Head(q) = o[(Len(o) - Len(q)) + 1]
  <2> HIDE DEF q, o
  <2> QED BY <1>1, <1>2, EndTail
<1> HIDE DEF tq
<1>5. w \in ServerType /\ w.queue = tq /\ w.offered = o /\ w.thread = v.thread
  BY <1>4 DEF ServerType, tq
<1>6. ServerInv(w, n)
  BY <1>2, <1>4, <1>5 DEF ServerInv
<1>7. Out(w) = Len(o) - Len(tq)
  BY <1>5 DEF Out
<1> HIDE DEF q, o
<1>8. Len(q) \in Nat \ {0} /\ Len(o) \in Nat /\ Len(tq) = Len(q) - 1
  BY <1>1, <1>4, EmptySeq
<1>9. \A a \in Nat, b \in Nat \ {0} : a - (b - 1) = (a - b) + 1 /\ a - b < a
  OBVIOUS
<1>10. Out(w) = Out(v) + 1 /\ Out(v) < Len(o)
  BY <1>3, <1>7, <1>8, <1>9, Zenon
<1>11. Head(q) = o[Out(v) + 1]
  BY <1>3, <1>4
<1> QED BY <1>5, <1>6, <1>10, <1>11 DEF q, o

\* A handler's channel takes a record, or is full.
LEMMA TrySendConn ==
  ASSUME NEW x \in ConnType, NEW r \in Nat, NEW y, y = TrySend(x, r)
  PROVE  /\ y \in ConnType
         /\ y.state = x.state /\ y.server = x.server /\ y.shut = x.shut /\ y.since = x.since
         /\ \/ Given(y) = Append(Given(x), r) /\ y.dropped = x.dropped
            \/ Given(y) = Given(x) /\ y.dropped = x.dropped + 1
<1>1. x.queue \in Seq(Nat) /\ x.writing \in Seq(Nat) /\ x.received \in Seq(Nat) /\ x.dropped \in Nat
  BY DEF ConnType
<1>2. CASE y = [x EXCEPT !.queue = Append(x.queue, r)]
  <2> DEFINE q == Append(x.queue, r)
  <2>1. q \in Seq(Nat)
    BY <1>1
  <2>2. x.received \o x.writing \o q = Append(x.received \o x.writing \o x.queue, r)
    BY <1>1, GivenSent
  <2> HIDE DEF q
  <2>3. y \in ConnType
    BY <1>2, <2>1 DEF ConnType, q
  <2>4. /\ y.queue = q /\ y.writing = x.writing /\ y.received = x.received /\ y.dropped = x.dropped
        /\ y.state = x.state /\ y.server = x.server /\ y.shut = x.shut /\ y.since = x.since
    BY <1>2 DEF ConnType, q
  <2> QED BY <2>2, <2>3, <2>4 DEF Given
<1>3. CASE y = [x EXCEPT !.dropped = x.dropped + 1]
  <2> DEFINE d == x.dropped + 1
  <2>1. d \in Nat
    BY <1>1
  <2> HIDE DEF d
  <2>2. y \in ConnType
    BY <1>3, <2>1 DEF ConnType, d
  <2>3. /\ y.queue = x.queue /\ y.writing = x.writing /\ y.received = x.received /\ y.dropped = d
        /\ y.state = x.state /\ y.server = x.server /\ y.shut = x.shut /\ y.since = x.since
    BY <1>3 DEF ConnType, d
  <2> QED BY <2>2, <2>3 DEF Given, d
<1> QED BY <1>2, <1>3 DEF TrySend

\* The handler of a connection is given the record that leaves the server's
\* channel.
LEMMA RecordGiven ==
  ASSUME NEW v \in ServerType, NEW w, NEW n, ServerInv(v, n), v.queue # <<>>,
         w = [v EXCEPT !.queue = Tail(v.queue)], v.thread = "select",
         NEW x \in ConnType, NEW y, y = TrySend(x, Head(v.queue)), x.state = "handled",
         ConnInv(x, v, Given(x))
  PROVE  y \in ConnType /\ y.server = x.server /\ ConnInv(y, w, Given(y))
<1> DEFINE o == v.offered
           out == Out(v)
           st == Given(x)
           r == Head(v.queue)
<1>1. /\ Out(w) = out + 1 /\ out < Len(o) /\ r = o[out + 1]
      /\ w.offered = o /\ w.thread = v.thread
  BY RecordLeaves
<1>2. o \in Seq(Nat) /\ Increasing(o) /\ out \in Nat
  BY OutType DEF ServerType, ServerInv
<1>3. st \in Seq(Nat) /\ x.since \in Nat /\ x.dropped \in Nat
  BY GivenType DEF ConnType
<1>4. Increasing(st) /\ Accounted(x.since, x.dropped, st, o, out) /\ ~x.shut
  BY DEF ConnInv
<1>5. r \in Nat
  BY HeadTailProperties DEF ServerType
<1>6. /\ y \in ConnType
      /\ y.state = x.state /\ y.server = x.server /\ y.shut = x.shut /\ y.since = x.since
      /\ \/ Given(y) = Append(st, r) /\ y.dropped = x.dropped
         \/ Given(y) = st /\ y.dropped = x.dropped + 1
  BY <1>5, TrySendConn
<1> HIDE DEF o, out, st, r
<1>7. /\ Accounted(x.since, x.dropped + 1, st, o, out + 1)
      /\ Accounted(x.since, x.dropped, Append(st, o[out + 1]), o, out + 1)
      /\ Increasing(Append(st, o[out + 1]))
  BY <1>1, <1>2, <1>3, <1>4, AccountedNext
<1>8. Accounted(y.since, y.dropped, Given(y), w.offered, Out(w)) /\ Increasing(Given(y))
  BY <1>1, <1>4, <1>6, <1>7, Zenon
<1> QED BY <1>1, <1>4, <1>6, <1>8 DEF ConnInv

\* The server after Push.
Pushed(v, r) ==
  LET sent == TrySend(v, r)
  IN  [sent EXCEPT !.offered = IF sent.queue = v.queue THEN @ ELSE Append(@, r)]

\* A record enters the server's channel, or is counted.
LEMMA RecordPushed ==
  ASSUME NEW v \in ServerType, NEW w, NEW n \in Nat, ServerInv(v, n),
         w = Pushed(v, n + 1)
  PROVE  /\ w \in ServerType /\ ServerInv(w, n + 1) /\ Keeps(v, w)
         /\ w.thread = v.thread /\ w.running = v.running /\ w.listening = v.listening
         /\ w.shut = v.shut /\ w.accept = v.accept
<1> DEFINE q == v.queue
           o == v.offered
           q1 == Append(q, n + 1)
           o1 == Append(o, n + 1)
<1>1. q \in Seq(Nat) /\ o \in Seq(Nat) /\ v.dropped \in Nat
  BY DEF ServerType
<1>2. IsEndOf(q, o) /\ Increasing(o) /\ AtMost(o, n)
  BY DEF ServerInv
<1>3. Out(v) = Len(o) - Len(q) /\ Out(v) \in Nat /\ Out(v) <= Len(o)
  BY OutType
<1>4. CASE Len(q) < BufLen
  <2>1. q1 \in Seq(Nat) /\ o1 \in Seq(Nat) /\ q1 # q /\ \A i \in 1..Len(o) : o1[i] = o[i]
    BY <1>1
  <2>2. IsEndOf(q1, o1) /\ Increasing(o1) /\ AtMost(o1, n + 1) /\ Len(o1) - Len(q1) = Len(o) - Len(q)
    <3> HIDE DEF q, o
    <3> QED BY <1>1, <1>2, EndAppend
  <2> DEFINE sent == TrySend(v, n + 1)
  <2>3. sent = [v EXCEPT !.queue = q1] 
    BY <1>4 DEF TrySend
  <2> HIDE DEF q1, o1
  <2>4. sent.queue = q1 /\ sent.offered = o
    BY <2>3 DEF ServerType
  <2>5. w = [sent EXCEPT !.offered = o1]
    BY <2>1, <2>4 DEF o1, Pushed
  <2> HIDE DEF sent
  <2>6. w = [v EXCEPT !.queue = q1, !.offered = o1]
    BY <2>3, <2>5
  <2>7. /\ w \in ServerType /\ w.queue = q1 /\ w.offered = o1 /\ w.thread = v.thread
        /\ w.running = v.running /\ w.listening = v.listening
        /\ w.shut = v.shut /\ w.accept = v.accept
    BY <2>1, <2>6 DEF ServerType
  <2>8. ServerInv(w, n + 1)
    BY <2>2, <2>7 DEF ServerInv
  <2>9. Out(w) = Out(v)
    BY <1>3, <2>2, <2>7 DEF Out
  <2>10. \A i \in 1..Out(v) : i \in 1..Len(o)
    <3> HIDE DEF o
    <3>1. Len(o) \in Nat
      BY <1>1
    <3> QED BY <1>3, <3>1
  <2>11. \A i \in 1..Out(v) : w.offered[i] = v.offered[i]
    BY <2>1, <2>7, <2>10
  <2> QED BY <2>7, <2>8, <2>9, <2>11 DEF Keeps
<1>5. CASE ~(Len(q) < BufLen)
  <2> DEFINE d == v.dropped + 1
  <2>1. d \in Nat
    BY <1>1
  <2>2. w = [v EXCEPT !.dropped = d]
    <3> DEFINE sent == TrySend(v, n + 1)
    <3>1. sent = [v EXCEPT !.dropped = d]
      BY <1>5 DEF TrySend
    <3> HIDE DEF sent, d
    <3>2. sent.queue = v.queue /\ [sent EXCEPT !.offered = sent.offered] = sent
      BY <3>1 DEF ServerType
    <3> QED BY <3>1, <3>2 DEF sent, Pushed
  <2> HIDE DEF d
  <2>3. /\ w \in ServerType /\ w.queue = q /\ w.offered = o /\ w.thread = v.thread
        /\ w.running = v.running /\ w.listening = v.listening
        /\ w.shut = v.shut /\ w.accept = v.accept
    BY <2>1, <2>2 DEF ServerType
  <2>4. AtMost(o, n + 1)
    <3> HIDE DEF o
    <3>1. \A i \in 1..Len(o) : o[i] \in Nat /\ o[i] <= n
      BY <1>1, <1>2 DEF AtMost
    <3> QED BY <3>1 DEF AtMost
  <2>5. ServerInv(w, n + 1) /\ Out(w) = Out(v)
    BY <1>2, <2>3, <2>4 DEF ServerInv, Out
  <2> QED BY <2>3, <2>5 DEF Keeps
<1> QED BY <1>4, <1>5

-----------------------------------------------------------------------------
(***************************************************************************)
(* The invariant, for the steps that change at most one server.            *)
(***************************************************************************)

IsCurrent(s) == s[1] \in registered /\ s = Current(s[1])

LEMMA CurrentIsServer ==
  ASSUME RegistryInv, NEW x \in registered
  PROVE  Current(x) \in Servers /\ Current(x)[1] = x /\ IsCurrent(Current(x))
BY DEF RegistryInv, TypeOK, RegisteredIsOpen, Servers, Current, IsCurrent

LEMMA RegistryKept ==
  ASSUME RegistryInv, launched' = launched, registered' = registered,
         cn' \in [Clients -> ConnType], recs' \in Nat,
         NEW s \in Servers, NEW y \in ServerType, srv' = [srv EXCEPT ![s] = y],
         srv[s].thread # "none", y.thread # "none", y.running => srv[s].running,
         IsCurrent(s) => y.listening /\ ~y.shut /\ (y.running \/ y.accept = "closed")
  PROVE  RegistryInv'
<1>1. srv \in [Servers -> ServerType] /\ \A x \in registered : Current(x)' = Current(x)
  BY DEF RegistryInv, TypeOK, Current
<1>2. TypeOK'
  BY <1>1 DEF RegistryInv, TypeOK
<1>3. srv'[s] = y /\ \A r \in Servers : r # s => srv'[r] = srv[r]
  BY <1>1
<1>4. UsedInOrder'
  <2>1. ~(s[2] > launched[s[1]])
    BY DEF RegistryInv, UsedInOrder, Unused
  <2> QED BY <1>3, <2>1 DEF RegistryInv, UsedInOrder
<1>5. RunningIsRegistered'
  BY <1>3 DEF RegistryInv, RunningIsRegistered, Current
<1>6. RegisteredIsOpen'
  <2> SUFFICES ASSUME NEW x \in registered
               PROVE /\ launched[x] >= 1
                     /\ srv'[Current(x)].listening /\ ~srv'[Current(x)].shut
                     /\ srv'[Current(x)].running \/ srv'[Current(x)].accept = "closed"
    BY <1>1 DEF RegisteredIsOpen
  <2>1. Current(x) \in Servers /\ IsCurrent(Current(x))
    BY CurrentIsServer
  <2>2. /\ launched[x] >= 1
        /\ srv[Current(x)].listening /\ ~srv[Current(x)].shut
        /\ srv[Current(x)].running \/ srv[Current(x)].accept = "closed"
    BY DEF RegistryInv, RegisteredIsOpen
  <2> QED BY <1>3, <2>1, <2>2
<1> QED BY <1>2, <1>4, <1>5, <1>6 DEF RegistryInv

LEMMA RegistrySame ==
  ASSUME RegistryInv, launched' = launched, registered' = registered, srv' = srv,
         cn' \in [Clients -> ConnType], recs' = recs
  PROVE  RegistryInv'
BY DEF RegistryInv, TypeOK, UsedInOrder, RunningIsRegistered, RegisteredIsOpen, Current

LEMMA KeepsItself ==
  ASSUME NEW v
  PROVE  Keeps(v, v)
BY DEF Keeps

\* A connection to which nothing happens, when nothing of what its server let
\* out is taken back.
LEMMA ClientKept ==
  ASSUME Inv, TypeOK', NEW c \in Clients, cn'[c] = cn[c],
         cn[c].server # None => Keeps(srv[cn[c].server], srv'[cn[c].server])
  PROVE  ClientInv(cn[c])'
<1> DEFINE x == cn[c]
<1>1. x \in ConnType /\ ClientInv(x) /\ (x.server # None => x.server \in Servers)
  BY DEF Inv, RegistryInv, StreamInv, TypeOK, ConnType
<1>2. CASE x.server = None
  BY <1>1, <1>2 DEF ClientInv
<1>3. CASE x.server # None
  <2> DEFINE v == srv[x.server]
             w == srv'[x.server]
  <2>1. v \in ServerType /\ w \in ServerType /\ ServerInv(v, recs)
    BY <1>1, <1>3 DEF Inv, RegistryInv, StreamInv, TypeOK
  <2>2. ConnInv(x, v, Given(x)) /\ Keeps(v, w)
    BY <1>1, <1>3 DEF ClientInv
  <2>3. ConnInv(x, w, Given(x))
    <3> HIDE DEF x, v, w
    <3> QED BY <1>1, <2>1, <2>2, ConnKept
  <2> QED BY <1>3, <2>3 DEF ClientInv
<1> QED BY <1>2, <1>3

\* The steps of the server's side that let nothing out.
LEMMA ServersKept ==
  ASSUME Inv, RegistryInv', cn' = cn,
         \A s \in Servers : ServerInv(srv'[s], recs') /\ Keeps(srv[s], srv'[s])
  PROVE  Inv'
<1>1. ASSUME NEW c \in Clients PROVE ClientInv(cn[c])'
  <2>1. TypeOK' /\ (cn[c].server # None => cn[c].server \in Servers)
    BY DEF Inv, RegistryInv, TypeOK, ConnType
  <2> QED BY <2>1, ClientKept
<1> QED BY <1>1 DEF Inv, StreamInv

\* A handler's or a client's step.
LEMMA OneClientSteps ==
  ASSUME Inv, launched' = launched, registered' = registered, srv' = srv, recs' = recs,
         NEW c \in Clients, NEW y \in ConnType, cn' = [cn EXCEPT ![c] = y],
         y.server \in Servers, ConnInv(y, srv[y.server], Given(y))
  PROVE  Inv'
<1>1. cn \in [Clients -> ConnType]
  BY DEF Inv, RegistryInv, TypeOK
<1>2. cn' \in [Clients -> ConnType] /\ cn'[c] = y /\ \A d \in Clients : d # c => cn'[d] = cn[d]
  BY <1>1
<1>3. RegistryInv'
  BY <1>2, RegistrySame DEF Inv
<1>4. ClientInv(cn[c])'
  <2>1. y.server # None
    BY NoneIsNoServer
  <2> QED BY <1>2, <2>1 DEF ClientInv
<1>5. ASSUME NEW d \in Clients, d # c PROVE ClientInv(cn[d])'
  BY <1>2, <1>3, <1>5, ClientKept, KeepsItself DEF RegistryInv
<1> QED BY <1>3, <1>4, <1>5 DEF Inv, StreamInv

LEMMA UsedServer ==
  ASSUME RegistryInv, NEW s \in Servers, srv[s] # Unused
  PROVE  srv[s].thread # "none"
<1>1. s[2] \in 1..MaxLaunches /\ s[1] \in Sids
  BY DEF Servers
<1>2. s[2] > launched[s[1]] \/ s[2] <= launched[s[1]]
  BY <1>1 DEF RegistryInv, TypeOK
<1> QED BY <1>2 DEF RegistryInv, UsedInOrder

\* A step of one server, and what it does to the connections.
LEMMA OneServerSteps ==
  ASSUME Inv, launched' = launched, registered' = registered, recs' = recs,
         cn' \in [Clients -> ConnType],
         NEW s \in Servers, NEW y \in ServerType, srv' = [srv EXCEPT ![s] = y],
         srv[s] # Unused, y.thread # "none", y.running => srv[s].running,
         IsCurrent(s) => y.listening /\ ~y.shut /\ (y.running \/ y.accept = "closed"),
         ServerInv(y, recs),
         \A c \in Clients :
           \/ cn'[c] = cn[c] /\ (cn[c].server = s => Keeps(srv[s], y))
           \/ /\ cn'[c].server \in Servers
              /\ ConnInv(cn'[c], srv'[cn'[c].server], Given(cn'[c]))
  PROVE  Inv'
<1>1. recs' \in Nat /\ srv \in [Servers -> ServerType]
  BY DEF Inv, RegistryInv, TypeOK
<1>2. RegistryInv'
  BY <1>1, UsedServer, RegistryKept DEF Inv
<1>3. srv'[s] = y /\ \A r \in Servers : r # s => srv'[r] = srv[r]
  BY <1>1
<1>4. \A r \in Servers : ServerInv(srv[r], recs)'
  BY <1>3 DEF Inv, StreamInv
<1>5. ASSUME NEW c \in Clients PROVE ClientInv(cn[c])'
  <2>1. CASE cn'[c] = cn[c] /\ (cn[c].server = s => Keeps(srv[s], y))
    <3>1. cn[c].server # None => cn[c].server \in Servers
      BY DEF Inv, RegistryInv, TypeOK, ConnType
    <3>2. cn[c].server # None => Keeps(srv[cn[c].server], srv'[cn[c].server])
      BY <1>3, <2>1, <3>1, KeepsItself
    <3> QED BY <1>2, <2>1, <3>2, ClientKept DEF RegistryInv
  <2>2. CASE cn'[c].server \in Servers /\ ConnInv(cn'[c], srv'[cn'[c].server], Given(cn'[c]))
    <3>1. cn'[c].server # None
      BY <2>2, NoneIsNoServer
    <3> QED BY <2>2, <3>1 DEF ClientInv
  <2> QED BY <2>1, <2>2
<1> QED BY <1>2, <1>4, <1>5 DEF Inv, StreamInv

\* A step that leaves a server's channel of records alone.
LEMMA ControlKeeps ==
  ASSUME NEW v, NEW w, NEW n, ServerInv(v, n), w.queue = v.queue, w.offered = v.offered,
         v.thread # "none" => w.thread # "none", v.thread = "done" => w.thread = "done"
  PROVE  ServerInv(w, n) /\ Keeps(v, w)
BY DEF ServerInv, Keeps, Out

LEMMA AcceptInv == ASSUME Inv, NEW s \in Servers, Accept(s) PROVE Inv'
<1>1. PICK c \in Clients :
        /\ cn[c].server = s /\ cn[c].state = "backlog"
        /\ cn' = [cn EXCEPT ![c].state = "accepted"]
        /\ srv' = [srv EXCEPT ![s].accept = "sending"]
  BY DEF Accept
<1> DEFINE v == srv[s]
           w == srv'[s]
           x == cn[c]
           y == cn'[c]
<1>2. /\ srv \in [Servers -> ServerType] /\ cn \in [Clients -> ConnType] /\ v.accept = "ready"
      /\ launched' = launched /\ registered' = registered /\ recs' = recs
  BY DEF Inv, RegistryInv, TypeOK, Accept
<1>3. v \in ServerType /\ x \in ConnType /\ ServerInv(v, recs) /\ ClientInv(x)
  BY <1>2 DEF Inv, StreamInv
<1>4. v # Unused /\ v.thread # "none"
  BY <1>2, UsedServer DEF Unused, Inv
<1>5. /\ srv' = [srv EXCEPT ![s] = w] /\ w = [v EXCEPT !.accept = "sending"]
      /\ cn' = [cn EXCEPT ![c] = y] /\ y = [x EXCEPT !.state = "accepted"]
  BY <1>1, <1>2
<1>6. ConnInv(x, v, Given(x))
  BY <1>1, <1>3, NoneIsNoServer DEF ClientInv
<1>7. IsCurrent(s) => v.listening /\ ~v.shut /\ (v.running \/ v.accept = "closed")
  BY DEF IsCurrent, Inv, RegistryInv, RegisteredIsOpen
<1> HIDE DEF v, w, x, y
<1>8. /\ w \in ServerType /\ w.queue = v.queue /\ w.offered = v.offered /\ w.thread = v.thread
      /\ w.running = v.running /\ w.listening = v.listening /\ w.shut = v.shut
      /\ v.accept # "closed"
  BY <1>2, <1>3, <1>5 DEF ServerType, v
<1>9. /\ y \in ConnType /\ y.server = s /\ y.state = "accepted" /\ x.state = "backlog"
      /\ Given(y) = Given(x) /\ y.dropped = x.dropped /\ y.shut = x.shut
  BY <1>1, <1>3, <1>5 DEF ConnType, Given, x
<1>10. ServerInv(w, recs) /\ Keeps(v, w)
  BY <1>3, <1>8, ControlKeeps
<1>11. ConnInv(y, w, Given(y))
  BY <1>6, <1>8, <1>9 DEF ConnInv
<1>12. cn' \in [Clients -> ConnType] /\ \A d \in Clients : d # c => cn'[d] = cn[d]
  BY <1>2, <1>5, <1>9
<1>13. \A d \in Clients : \/ cn'[d] = cn[d] /\ (cn[d].server = s => Keeps(srv[s], w))
                          \/ /\ cn'[d].server \in Servers
                             /\ ConnInv(cn'[d], srv'[cn'[d].server], Given(cn'[d]))
  BY <1>9, <1>10, <1>11, <1>12 DEF v, w, y
<1>14. /\ srv[s] # Unused /\ w.thread # "none" /\ (w.running => srv[s].running)
       /\ IsCurrent(s) => w.listening /\ ~w.shut /\ (w.running \/ w.accept = "closed")
  BY <1>4, <1>7, <1>8 DEF v
<1> QED BY <1>2, <1>5, <1>8, <1>10, <1>12, <1>13, <1>14, OneServerSteps, ZenonT(30)

LEMMA AcceptFailsInv == ASSUME Inv, NEW s \in Servers, AcceptFails(s) PROVE Inv'
<1> DEFINE v == srv[s]
           w == srv'[s]
<1>1. /\ srv \in [Servers -> ServerType] /\ cn \in [Clients -> ConnType]
      /\ launched' = launched /\ registered' = registered /\ recs' = recs
  BY DEF Inv, RegistryInv, TypeOK, AcceptFails
<1>2. v \in ServerType /\ ServerInv(v, recs)
  BY <1>1 DEF Inv, StreamInv
<1>3. /\ v.accept = "ready"
      /\ srv' = [srv EXCEPT ![s] = w] /\ w = [v EXCEPT !.accept = "closed"]
  BY <1>1 DEF AcceptFails
<1>4. v # Unused /\ v.thread # "none"
  BY <1>3, UsedServer DEF Unused, Inv
<1>5. IsCurrent(s) => v.listening /\ ~v.shut /\ (v.running \/ v.accept = "closed")
  BY DEF IsCurrent, Inv, RegistryInv, RegisteredIsOpen
<1>6. cn' = cn
  BY DEF AcceptFails
<1> HIDE DEF v, w
<1>7. /\ w \in ServerType /\ w.queue = v.queue /\ w.offered = v.offered /\ w.thread = v.thread
      /\ w.running = v.running /\ w.listening = v.listening /\ w.shut = v.shut
      /\ w.accept = "closed"
  BY <1>2, <1>3 DEF ServerType
<1>8. ServerInv(w, recs) /\ Keeps(v, w)
  BY <1>2, <1>7, ControlKeeps
<1>9. /\ srv[s] # Unused /\ w.thread # "none" /\ (w.running => srv[s].running)
      /\ IsCurrent(s) => w.listening /\ ~w.shut /\ (w.running \/ w.accept = "closed")
  BY <1>4, <1>5, <1>7 DEF v
<1>10. \A d \in Clients : cn'[d] = cn[d] /\ (cn[d].server = s => Keeps(srv[s], w))
  BY <1>6, <1>8 DEF v
<1> QED BY <1>1, <1>3, <1>6, <1>7, <1>8, <1>9, <1>10, OneServerSteps

\* A new handler owes nothing yet.
LEMMA NothingOwed ==
  ASSUME NEW o, NEW out \in Nat
  PROVE  Accounted(out, 0, <<>>, o, out) /\ Increasing(<<>>)
BY DEF Accounted, Increasing

LEMMA ThreadConnInv == ASSUME Inv, NEW s \in Servers, ThreadConn(s) PROVE Inv'
<1> DEFINE v == srv[s]
           w == srv'[s]
<1>1. /\ srv \in [Servers -> ServerType] /\ cn \in [Clients -> ConnType]
      /\ launched' = launched /\ registered' = registered /\ recs' = recs
  BY DEF Inv, RegistryInv, TypeOK, ThreadConn
<1>2. v \in ServerType /\ ServerInv(v, recs)
  BY <1>1 DEF Inv, StreamInv
<1>3. /\ v.thread = "select" /\ v.accept = "sending"
      /\ srv' = [srv EXCEPT ![s] = w] /\ w = [v EXCEPT !.accept = "ready"]
  BY <1>1 DEF ThreadConn
<1>4. v # Unused /\ v.thread # "none"
  BY <1>3, UsedServer DEF Unused, Inv
<1>5. IsCurrent(s) => v.listening /\ ~v.shut /\ (v.running \/ v.accept = "closed")
  BY DEF IsCurrent, Inv, RegistryInv, RegisteredIsOpen
<1>6. PICK c \in Clients :
        /\ cn[c].server = s /\ cn[c].state = "accepted"
        /\ cn' = [cn EXCEPT ![c].state = "handled",
                            ![c].since = Len(srv[s].offered) - Len(srv[s].queue)]
  BY DEF ThreadConn
<1> DEFINE x == cn[c]
           y == cn'[c]
           out == Out(v)
<1>7. x \in ConnType /\ ClientInv(x)
  BY <1>1 DEF Inv, StreamInv
<1>8. ConnInv(x, v, Given(x))
  <2>1. x.server = s /\ s # None
    BY <1>6, NoneIsNoServer
  <2> QED BY <1>7, <2>1 DEF ClientInv
<1>9. out \in Nat
  BY <1>2, OutType
<1>10. cn' = [cn EXCEPT ![c] = y] /\ y = [x EXCEPT !.state = "handled", !.since = out]
  <2>1. cn' = [cn EXCEPT ![c].state = "handled", ![c].since = out]
    BY <1>6 DEF Out
  <2> HIDE DEF out
  <2> QED BY <1>1, <2>1
<1> HIDE DEF v, w, x, y, out
<1>11. /\ w \in ServerType /\ w.queue = v.queue /\ w.offered = v.offered /\ w.thread = "select"
       /\ w.running = v.running /\ w.listening = v.listening /\ w.shut = v.shut
       /\ v.accept # "closed"
  BY <1>2, <1>3 DEF ServerType
<1>12. ServerInv(w, recs) /\ Keeps(v, w)
  BY <1>2, <1>3, <1>11, ControlKeeps
<1>13. /\ y \in ConnType /\ y.server = s /\ y.state = "handled" /\ x.state = "accepted"
       /\ Given(y) = Given(x) /\ y.dropped = x.dropped /\ y.since = out /\ y.shut = x.shut
  BY <1>6, <1>7, <1>9, <1>10 DEF ConnType, Given, x
<1>14. ConnInv(y, w, Given(y))
  <2>1. Given(y) = <<>> /\ y.dropped = 0 /\ Out(w) = out
    BY <1>8, <1>12, <1>13 DEF ConnInv, Keeps, out
  <2>2. Accounted(y.since, y.dropped, Given(y), w.offered, Out(w)) /\ Increasing(Given(y))
    BY <1>9, <1>13, <2>1, NothingOwed
  <2>3. ~y.shut
    BY <1>8, <1>13 DEF ConnInv
  <2> QED BY <1>11, <1>13, <2>2, <2>3 DEF ConnInv
<1>15. cn' \in [Clients -> ConnType] /\ \A d \in Clients : d # c => cn'[d] = cn[d]
  BY <1>1, <1>10, <1>13
<1>16. \A d \in Clients : \/ cn'[d] = cn[d] /\ (cn[d].server = s => Keeps(srv[s], w))
                          \/ /\ cn'[d].server \in Servers
                             /\ ConnInv(cn'[d], srv'[cn'[d].server], Given(cn'[d]))
  BY <1>12, <1>13, <1>14, <1>15 DEF v, w, y
<1>17. /\ srv[s] # Unused /\ w.thread # "none" /\ (w.running => srv[s].running)
       /\ IsCurrent(s) => w.listening /\ ~w.shut /\ (w.running \/ w.accept = "closed")
  BY <1>4, <1>5, <1>11 DEF v
<1> QED BY <1>1, <1>3, <1>11, <1>12, <1>15, <1>16, <1>17, OneServerSteps

LEMMA ThreadRecInv == ASSUME Inv, NEW s \in Servers, ThreadRec(s) PROVE Inv'
<1> DEFINE v == srv[s]
           w == srv'[s]
<1>1. /\ srv \in [Servers -> ServerType] /\ cn \in [Clients -> ConnType]
      /\ launched' = launched /\ registered' = registered /\ recs' = recs
  BY DEF Inv, RegistryInv, TypeOK, ThreadRec
<1>2. v \in ServerType /\ ServerInv(v, recs)
  BY <1>1 DEF Inv, StreamInv
<1>3. /\ v.thread = "select" /\ v.queue # <<>>
      /\ srv' = [srv EXCEPT ![s] = w] /\ w = [v EXCEPT !.queue = Tail(v.queue)]
  BY <1>1 DEF ThreadRec
<1>4. v # Unused /\ v.thread # "none"
  BY <1>3, UsedServer DEF Unused, Inv
<1>5. IsCurrent(s) => v.listening /\ ~v.shut /\ (v.running \/ v.accept = "closed")
  BY DEF IsCurrent, Inv, RegistryInv, RegisteredIsOpen
<1>6. cn' = [c \in Clients |-> IF c \in Handled(s) THEN TrySend(cn[c], Head(v.queue)) ELSE cn[c]]
  BY DEF ThreadRec
<1>7. w \in ServerType /\ ServerInv(w, recs)
  BY <1>2, <1>3, RecordLeaves
<1>8. /\ w.thread = v.thread /\ w.running = v.running /\ w.listening = v.listening
      /\ w.shut = v.shut /\ w.accept = v.accept
  <2> DEFINE tq == Tail(v.queue)
  <2> HIDE DEF v, w, tq
  <2>1. w = [v EXCEPT !.queue = tq]
    BY <1>3 DEF tq
  <2> QED BY <1>2, <2>1 DEF ServerType
<1>9. ASSUME NEW c \in Clients
      PROVE  /\ cn'[c] \in ConnType
             /\ \/ cn'[c] = cn[c] /\ (cn[c].server = s => Keeps(srv[s], w))
                \/ /\ cn'[c].server \in Servers
                   /\ ConnInv(cn'[c], srv'[cn'[c].server], Given(cn'[c]))
  <2> DEFINE x == cn[c]
             y == cn'[c]
  <2>1. x \in ConnType /\ ClientInv(x)
    BY <1>1 DEF Inv, StreamInv
  <2>2. CASE c \in Handled(s)
    <3>1. y = TrySend(x, Head(v.queue)) /\ x.server = s /\ x.state = "handled"
      BY <1>6, <2>2 DEF Handled
    <3>2. ConnInv(x, v, Given(x))
      BY <2>1, <3>1, NoneIsNoServer DEF ClientInv
    <3>3. y \in ConnType /\ y.server = x.server /\ ConnInv(y, w, Given(y))
      <4> HIDE DEF x, y, v, w
      <4> QED BY <1>2, <1>3, <2>1, <3>1, <3>2, RecordGiven
    <3> QED BY <3>1, <3>3
  <2>3. CASE c \notin Handled(s)
    <3>1. y = x
      BY <1>6, <2>3
    <3>2. CASE x.server # s
      BY <2>1, <3>1, <3>2
    <3>3. CASE x.server = s
      <4>1. ConnInv(x, v, Given(x))
        BY <2>1, <3>3, NoneIsNoServer DEF ClientInv
      <4>2. x.state # "handled" /\ x.state # "closed"
        BY <1>3, <2>3, <3>3, <4>1 DEF Handled, ConnInv
      <4>3. ConnInv(x, w, Given(x))
        BY <1>8, <4>1, <4>2 DEF ConnInv
      <4> QED BY <2>1, <3>1, <3>3, <4>3
    <3> QED BY <3>2, <3>3
  <2> QED BY <2>2, <2>3
<1>10. cn' \in [Clients -> ConnType]
  BY <1>6, <1>9
<1>11. /\ srv[s] # Unused /\ w.thread # "none" /\ (w.running => srv[s].running)
       /\ IsCurrent(s) => w.listening /\ ~w.shut /\ (w.running \/ w.accept = "closed")
  BY <1>4, <1>5, <1>8
<1> HIDE DEF w
<1> QED BY <1>1, <1>3, <1>7, <1>9, <1>10, <1>11, OneServerSteps, ZenonT(30)

LEMMA ThreadReturnsInv == ASSUME Inv, NEW s \in Servers, ThreadReturns(s) PROVE Inv'
<1> DEFINE v == srv[s]
           w == srv'[s]
<1>1. /\ srv \in [Servers -> ServerType] /\ cn \in [Clients -> ConnType]
      /\ launched' = launched /\ registered' = registered /\ recs' = recs
  BY DEF Inv, RegistryInv, TypeOK, ThreadReturns
<1>2. v \in ServerType /\ ServerInv(v, recs)
  BY <1>1 DEF Inv, StreamInv
<1>3. /\ v.thread = "select" /\ (v.accept = "closed" \/ v.shut)
      /\ srv' = [srv EXCEPT ![s] = w] /\ w = [v EXCEPT !.thread = "done", !.running = FALSE]
  BY <1>1 DEF ThreadReturns
<1>4. v # Unused /\ v.thread # "none"
  BY <1>3, UsedServer DEF Unused, Inv
<1>5. IsCurrent(s) => v.listening /\ ~v.shut /\ (v.running \/ v.accept = "closed")
  BY DEF IsCurrent, Inv, RegistryInv, RegisteredIsOpen
<1>6. cn' = [c \in Clients |-> IF c \in Handled(s) THEN [cn[c] EXCEPT !.shut = TRUE] ELSE cn[c]]
  BY DEF ThreadReturns
<1> HIDE DEF v, w
<1>7. /\ w \in ServerType /\ w.queue = v.queue /\ w.offered = v.offered /\ w.thread = "done"
      /\ ~w.running /\ w.listening = v.listening /\ w.shut = v.shut /\ w.accept = v.accept
      /\ ServerInv(w, recs) /\ Keeps(v, w)
  <2>1. /\ w \in ServerType /\ w.queue = v.queue /\ w.offered = v.offered /\ w.thread = "done"
        /\ ~w.running /\ w.listening = v.listening /\ w.shut = v.shut /\ w.accept = v.accept
    BY <1>2, <1>3 DEF ServerType
  <2> QED BY <1>2, <2>1, ControlKeeps
<1>8. ASSUME NEW c \in Clients
      PROVE  /\ cn'[c] \in ConnType
             /\ \/ cn'[c] = cn[c] /\ (cn[c].server = s => Keeps(srv[s], w))
                \/ /\ cn'[c].server \in Servers
                   /\ ConnInv(cn'[c], srv'[cn'[c].server], Given(cn'[c]))
  <2> DEFINE x == cn[c]
             y == cn'[c]
  <2>1. x \in ConnType /\ ClientInv(x)
    BY <1>1 DEF Inv, StreamInv
  <2>2. CASE c \in Handled(s)
    <3>1. y = [x EXCEPT !.shut = TRUE] /\ x.server = s /\ x.state = "handled"
      BY <1>6, <2>2 DEF Handled
    <3>2. ConnInv(x, v, Given(x))
      BY <2>1, <3>1, NoneIsNoServer DEF ClientInv, v
    <3> HIDE DEF x, y
    <3>3. /\ y \in ConnType /\ Given(y) = Given(x) /\ y.dropped = x.dropped /\ y.since = x.since
          /\ y.server = s /\ y.state = "handled"
      BY <2>1, <3>1 DEF ConnType, Given
    <3>4. ConnInv(y, w, Given(y))
      <4>1. ConnInv(x, w, Given(x))
        BY <1>2, <1>7, <2>1, <3>2, ConnKept DEF x
      <4> QED BY <1>7, <3>1, <3>3, <4>1 DEF ConnInv
    <3> QED BY <3>3, <3>4 DEF x, y, w
  <2>3. CASE ~(c \in Handled(s))
    BY <1>6, <1>7, <2>1, <2>3 DEF v
  <2> QED BY <2>2, <2>3
<1>9. cn' \in [Clients -> ConnType]
  BY <1>6, <1>8
<1>10. /\ srv[s] # Unused /\ w.thread # "none" /\ (w.running => srv[s].running)
       /\ IsCurrent(s) => w.listening /\ ~w.shut /\ (w.running \/ w.accept = "closed")
  BY <1>3, <1>4, <1>5, <1>7 DEF v
<1> QED BY <1>1, <1>3, <1>7, <1>8, <1>9, <1>10, OneServerSteps

LEMMA CollectInv == ASSUME Inv, NEW s \in Servers, Collect(s) PROVE Inv'
<1> DEFINE v == srv[s]
           w == srv'[s]
<1>1. /\ srv \in [Servers -> ServerType] /\ cn \in [Clients -> ConnType]
      /\ launched' = launched /\ registered' = registered /\ recs' = recs
  BY DEF Inv, RegistryInv, TypeOK, Collect, IsCurrent
<1>2. v \in ServerType /\ ServerInv(v, recs)
  BY <1>1 DEF Inv, StreamInv
<1>3. /\ v.listening /\ v.thread = "done" /\ ~IsCurrent(s)
      /\ srv' = [srv EXCEPT ![s] = w] /\ w = [v EXCEPT !.listening = FALSE]
  BY <1>1 DEF Collect, IsCurrent
<1>4. v # Unused /\ v.thread # "none"
  BY <1>3, UsedServer DEF Unused, Inv
<1>5. IsCurrent(s) => v.listening /\ ~v.shut /\ (v.running \/ v.accept = "closed")
  BY DEF IsCurrent, Inv, RegistryInv, RegisteredIsOpen
<1>6. cn' = [c \in Clients |-> IF cn[c].server = s /\ cn[c].state = "backlog"
                                 THEN [cn[c] EXCEPT !.state = "refused"] ELSE cn[c]]
  BY DEF Collect
<1> HIDE DEF v, w
<1>7. /\ w \in ServerType /\ w.queue = v.queue /\ w.offered = v.offered /\ w.thread = "done"
      /\ w.running = v.running /\ w.shut = v.shut /\ w.accept = v.accept
      /\ ServerInv(w, recs) /\ Keeps(v, w)
  <2>1. /\ w \in ServerType /\ w.queue = v.queue /\ w.offered = v.offered /\ w.thread = "done"
        /\ w.running = v.running /\ w.shut = v.shut /\ w.accept = v.accept
    BY <1>2, <1>3 DEF ServerType
  <2> QED BY <1>2, <2>1, ControlKeeps
<1>8. ASSUME NEW c \in Clients
      PROVE  /\ cn'[c] \in ConnType
             /\ \/ cn'[c] = cn[c] /\ (cn[c].server = s => Keeps(srv[s], w))
                \/ /\ cn'[c].server \in Servers
                   /\ ConnInv(cn'[c], srv'[cn'[c].server], Given(cn'[c]))
  <2> DEFINE x == cn[c]
             y == cn'[c]
  <2>1. x \in ConnType /\ ClientInv(x)
    BY <1>1 DEF Inv, StreamInv
  <2>2. CASE cn[c].server = s /\ cn[c].state = "backlog"
    <3>1. y = [x EXCEPT !.state = "refused"] /\ x.server = s /\ x.state = "backlog"
      BY <1>6, <2>2
    <3>2. ConnInv(x, v, Given(x))
      BY <2>1, <3>1, NoneIsNoServer DEF ClientInv, v
    <3> HIDE DEF x, y
    <3>3. /\ y \in ConnType /\ Given(y) = Given(x) /\ y.dropped = x.dropped /\ y.since = x.since
          /\ y.server = s /\ y.state = "refused" /\ y.shut = x.shut
      BY <2>1, <3>1 DEF ConnType, Given
    <3>4. ConnInv(y, w, Given(y))
      <4>1. ConnInv(x, w, Given(x))
        BY <1>2, <1>7, <2>1, <3>2, ConnKept DEF x
      <4> QED BY <1>7, <3>1, <3>3, <4>1 DEF ConnInv
    <3> QED BY <3>3, <3>4 DEF x, y, w
  <2>3. CASE ~(cn[c].server = s /\ cn[c].state = "backlog")
    BY <1>6, <1>7, <2>1, <2>3 DEF v
  <2> QED BY <2>2, <2>3
<1>9. cn' \in [Clients -> ConnType]
  BY <1>6, <1>8
<1>10. /\ srv[s] # Unused /\ w.thread # "none" /\ (w.running => srv[s].running)
       /\ IsCurrent(s) => w.listening /\ ~w.shut /\ (w.running \/ w.accept = "closed")
  BY <1>3, <1>4, <1>5, <1>7 DEF v
<1> QED BY <1>1, <1>3, <1>7, <1>8, <1>9, <1>10, OneServerSteps

-----------------------------------------------------------------------------
(***************************************************************************)
(* The steps of handlers and clients.                                      *)
(***************************************************************************)

LEMMA HandledConn ==
  ASSUME Inv, NEW c \in Clients, cn[c].state # "none"
  PROVE  /\ cn[c] \in ConnType /\ cn[c].server \in Servers
         /\ ConnInv(cn[c], srv[cn[c].server], Given(cn[c]))
<1>1. cn[c] \in ConnType /\ cn[c].server \in Servers \union {None} /\ ClientInv(cn[c])
  BY DEF Inv, RegistryInv, StreamInv, TypeOK, ConnType
<1> QED BY <1>1 DEF ClientInv, NotMade

LEMMA HandlerTakeInv == ASSUME Inv, NEW c \in Clients, HandlerTake(c) PROVE Inv'
<1> DEFINE x == cn[c]
           y == cn'[c]
           v == srv[x.server]
<1>1. /\ cn \in [Clients -> ConnType]
      /\ launched' = launched /\ registered' = registered /\ srv' = srv /\ recs' = recs
      /\ x.state = "handled" /\ x.writing = <<>> /\ x.queue # <<>>
  BY DEF Inv, RegistryInv, TypeOK, HandlerTake
<1>2. x \in ConnType /\ x.server \in Servers /\ ConnInv(x, v, Given(x))
  BY <1>1, HandledConn
<1> DEFINE h == <<Head(x.queue)>>
           tq == Tail(x.queue)
<1>3. x.queue \in Seq(Nat) /\ x.received \in Seq(Nat)
  BY <1>2 DEF ConnType
<1>4. h \in Seq(Nat) /\ tq \in Seq(Nat)
  BY <1>1, <1>3, HeadTailProperties
<1>5. x.received \o h \o tq = x.received \o x.writing \o x.queue
  BY <1>1, <1>3, GivenTaken
<1>6. cn' = [cn EXCEPT ![c].writing = h, ![c].queue = tq]
  BY DEF HandlerTake
<1> HIDE DEF h, tq
<1>7. cn' = [cn EXCEPT ![c] = y] /\ y = [x EXCEPT !.writing = h, !.queue = tq]
  BY <1>1, <1>6
<1> HIDE DEF x, y, v
<1>8. /\ y \in ConnType /\ y.server = x.server /\ y.state = x.state /\ y.shut = x.shut
      /\ y.received = x.received /\ y.writing = h /\ y.queue = tq
      /\ y.dropped = x.dropped /\ y.since = x.since
  BY <1>2, <1>4, <1>7 DEF ConnType
<1>9. ConnInv(y, v, Given(y))
  <2>1. Given(y) = Given(x)
    BY <1>5, <1>8 DEF Given
  <2> QED BY <1>1, <1>2, <1>8, <2>1 DEF ConnInv
<1> QED BY <1>1, <1>2, <1>7, <1>8, <1>9, OneClientSteps DEF v

LEMMA HandlerWritesInv == ASSUME Inv, NEW c \in Clients, HandlerWrites(c) PROVE Inv'
<1> DEFINE x == cn[c]
           y == cn'[c]
           v == srv[x.server]
<1>1. /\ cn \in [Clients -> ConnType]
      /\ launched' = launched /\ registered' = registered /\ srv' = srv /\ recs' = recs
      /\ x.state = "handled" /\ x.writing # <<>>
  BY DEF Inv, RegistryInv, TypeOK, HandlerWrites
<1>2. x \in ConnType /\ x.server \in Servers /\ ConnInv(x, v, Given(x))
  BY <1>1, HandledConn
<1>3. CASE cn' = [cn EXCEPT ![c].received = @ \o cn[c].writing, ![c].writing = <<>>]
  <2> DEFINE r == x.received \o x.writing
  <2>1. x.queue \in Seq(Nat) /\ x.received \in Seq(Nat) /\ x.writing \in Seq(Nat)
    BY <1>2 DEF ConnType
  <2> DEFINE e == <<>>
  <2>2. r \in Seq(Nat) /\ e \in Seq(Nat)
    BY <2>1
  <2>3. r \o e \o x.queue = x.received \o x.writing \o x.queue
    BY <2>1, GivenWritten
  <2> HIDE DEF r
  <2>4. cn' = [cn EXCEPT ![c] = y] /\ y = [x EXCEPT !.received = r, !.writing = e]
    BY <1>1, <1>3 DEF r
  <2> HIDE DEF x, y, v, e
  <2>5. /\ y \in ConnType /\ y.server = x.server /\ y.state = x.state /\ y.shut = x.shut
        /\ y.received = r /\ y.writing = e /\ y.queue = x.queue
        /\ y.dropped = x.dropped /\ y.since = x.since
    BY <1>2, <2>2, <2>4 DEF ConnType
  <2>6. ConnInv(y, v, Given(y))
    <3>1. Given(y) = Given(x)
      BY <2>3, <2>5 DEF Given
    <3> QED BY <1>1, <1>2, <2>5, <3>1 DEF ConnInv
  <2> QED BY <1>1, <1>2, <2>4, <2>5, <2>6, OneClientSteps DEF v
<1>4. CASE cn' = [cn EXCEPT ![c].state = "broken"]
  <2>1. cn' = [cn EXCEPT ![c] = y] /\ y = [x EXCEPT !.state = "broken"]
    BY <1>1, <1>4
  <2> HIDE DEF x, y, v
  <2>2. y \in ConnType /\ y.server = x.server /\ y.state = "broken" /\ Given(y) = Given(x)
    BY <1>2, <2>1 DEF ConnType, Given
  <2>3. ConnInv(y, v, Given(y))
    BY <1>2, <2>2 DEF ConnInv
  <2> QED BY <1>1, <1>2, <2>1, <2>2, <2>3, OneClientSteps DEF v
<1> QED BY <1>3, <1>4 DEF HandlerWrites

LEMMA HandlerEndsInv == ASSUME Inv, NEW c \in Clients, HandlerEnds(c) PROVE Inv'
<1> DEFINE x == cn[c]
           y == cn'[c]
           v == srv[x.server]
<1>1. /\ cn \in [Clients -> ConnType]
      /\ launched' = launched /\ registered' = registered /\ srv' = srv /\ recs' = recs
      /\ x.state = "handled" /\ x.writing = <<>> /\ x.queue = <<>> /\ x.shut
  BY DEF Inv, RegistryInv, TypeOK, HandlerEnds
<1>2. x \in ConnType /\ x.server \in Servers /\ ConnInv(x, v, Given(x))
  BY <1>1, HandledConn
<1>3. cn' = [cn EXCEPT ![c] = y] /\ y = [x EXCEPT !.state = "closed"]
  BY <1>1 DEF HandlerEnds
<1> HIDE DEF x, y, v
<1>4. /\ y \in ConnType /\ y.server = x.server /\ y.state = "closed" /\ y.shut = x.shut
      /\ y.received = x.received /\ y.writing = <<>> /\ y.queue = <<>> /\ Given(y) = Given(x)
      /\ y.dropped = x.dropped /\ y.since = x.since
  BY <1>1, <1>2, <1>3 DEF ConnType, Given
<1>5. ConnInv(y, v, Given(y))
  BY <1>1, <1>2, <1>4 DEF ConnInv
<1> QED BY <1>1, <1>2, <1>3, <1>4, <1>5, OneClientSteps DEF v

LEMMA ConnectInv == ASSUME Inv, NEW c \in Clients, Connect(c) PROVE Inv'
<1>1. PICK s \in Servers :
        srv[s].listening /\ cn' = [cn EXCEPT ![c].state = "backlog", ![c].server = s]
  BY DEF Connect
<1> DEFINE x == cn[c]
           y == cn'[c]
<1>2. /\ cn \in [Clients -> ConnType] /\ x.state = "none"
      /\ launched' = launched /\ registered' = registered /\ srv' = srv /\ recs' = recs
  BY DEF Inv, RegistryInv, TypeOK, Connect
<1>3. x \in ConnType /\ ClientInv(x) /\ (x.server # None => x.server \in Servers)
  BY <1>2 DEF Inv, StreamInv, ConnType
<1>4. NotMade(x)
  BY <1>2, <1>3 DEF ClientInv, ConnInv
<1>5. srv[s].thread # "none"
  BY <1>1, UsedServer DEF Unused, Inv
<1>6. cn' = [cn EXCEPT ![c] = y] /\ y = [x EXCEPT !.state = "backlog", !.server = s]
  BY <1>1, <1>2
<1> HIDE DEF x, y
<1>7. /\ y \in ConnType /\ y.server = s /\ y.state = "backlog" /\ y.shut = x.shut
      /\ Given(y) = Given(x) /\ y.dropped = x.dropped
  BY <1>3, <1>6 DEF ConnType, Given
<1>8. ConnInv(y, srv[s], Given(y))
  BY <1>4, <1>5, <1>7, NothingOwed DEF ConnInv, NotMade, Increasing
<1> QED BY <1>2, <1>6, <1>7, <1>8, OneClientSteps

-----------------------------------------------------------------------------
(***************************************************************************)
(* The steps of the main thread.                                           *)
(***************************************************************************)

LEMMA AtMostNext ==
  ASSUME NEW v \in ServerType, NEW n \in Nat, ServerInv(v, n)
  PROVE  ServerInv(v, n + 1)
<1> DEFINE o == v.offered
<1>1. o \in Seq(Nat) /\ AtMost(o, n)
  BY DEF ServerType, ServerInv
<1>2. AtMost(o, n + 1)
  <2> HIDE DEF o
  <2>1. \A i \in 1..Len(o) : o[i] \in Nat /\ o[i] <= n
    BY <1>1 DEF AtMost
  <2> QED BY <2>1 DEF AtMost
<1> QED BY <1>2 DEF ServerInv

LEMMA HandleInv == ASSUME Inv, NEW x \in Sids, Handle(x) PROVE Inv'
<1> DEFINE s == Current(x)
           v == srv[s]
           w == srv'[s]
<1>1. CASE TakesRecords(x)
  <2>1. x \in registered /\ v.running
    BY <1>1 DEF TakesRecords
  <2>2. s \in Servers /\ IsCurrent(s)
    BY <2>1, CurrentIsServer DEF Inv
  <2>3. srv \in [Servers -> ServerType] /\ cn \in [Clients -> ConnType] /\ recs \in Nat
    BY DEF Inv, RegistryInv, TypeOK
  <2>4. /\ recs' = recs + 1 /\ launched' = launched /\ registered' = registered /\ cn' = cn
        /\ srv' = [srv EXCEPT ![s] = Pushed(v, recs + 1)]
    BY <1>1 DEF Handle, Pushed
  <2>5. w = Pushed(v, recs + 1)
    BY <2>2, <2>3, <2>4
  <2>6. srv' = [srv EXCEPT ![s] = w]
    BY <2>4, <2>5
  <2>7. v \in ServerType /\ ServerInv(v, recs)
    BY <2>2, <2>3 DEF Inv, StreamInv
  <2> HIDE DEF w
  <2>8. /\ w \in ServerType /\ ServerInv(w, recs + 1) /\ Keeps(v, w)
        /\ w.thread = v.thread /\ w.running = v.running /\ w.listening = v.listening
        /\ w.shut = v.shut /\ w.accept = v.accept
    BY <2>3, <2>5, <2>7, RecordPushed
  <2>9. v.listening /\ ~v.shut
    BY <2>1 DEF Inv, RegistryInv, RegisteredIsOpen
  <2>10. v.thread # "none"
    BY <2>1, <2>2, UsedServer DEF Unused, Inv
  <2> HIDE DEF s
  <2>11. RegistryInv'
    <3>1. recs' \in Nat /\ cn' \in [Clients -> ConnType]
      BY <2>3, <2>4
    <3>2. w.running /\ w.listening /\ ~w.shut /\ w.thread # "none"
      BY <2>1, <2>8, <2>9, <2>10
    <3> QED BY <2>1, <2>2, <2>4, <2>6, <2>8, <2>10, <3>1, <3>2, RegistryKept DEF Inv
  <2>12. \A r \in Servers : ServerInv(srv'[r], recs') /\ Keeps(srv[r], srv'[r])
    <3> SUFFICES ASSUME NEW r \in Servers PROVE ServerInv(srv'[r], recs + 1) /\ Keeps(srv[r], srv'[r])
      BY <2>4
    <3>1. CASE r = s
      BY <2>2, <2>3, <2>6, <2>8, <3>1
    <3>2. CASE r # s
      <4>1. srv'[r] = srv[r] /\ srv[r] \in ServerType /\ ServerInv(srv[r], recs)
        BY <2>3, <2>6, <3>2 DEF Inv, StreamInv
      <4> QED BY <2>3, <4>1, AtMostNext, KeepsItself
    <3> QED BY <3>1, <3>2
  <2> QED BY <2>4, <2>11, <2>12, ServersKept
<1>2. CASE ~TakesRecords(x)
  <2>1. UNCHANGED vars
    BY <1>2 DEF Handle, vars
  <2> QED BY <2>1 DEF vars, Inv, RegistryInv, StreamInv, TypeOK, UsedInOrder, RunningIsRegistered,
          RegisteredIsOpen, Current, ClientInv
<1> QED BY <1>1, <1>2

\* SetServers is bounded, so that there is a number for each server it launches.
LEMMA RoomToLaunch ==
  ASSUME RegistryInv, NEW new \in SUBSET Sids, NEW x \in new,
         Cardinality({s \in Servers : srv[s] # Unused}) + Cardinality(new) <= MaxLaunches
  PROVE  launched[x] + 1 \in 1..MaxLaunches
<1> DEFINE used == {s \in Servers : srv[s] # Unused}
           n == launched[x]
           f == [i \in 1..n |-> <<x, i>>]
<1>1. n \in Nat /\ n <= MaxLaunches /\ MaxLaunches \in Nat /\ x \in Sids
  BY ServerAssumption DEF RegistryInv, TypeOK
<1>2. IsFiniteSet(used) /\ Cardinality(used) \in Nat
  <2>1. IsFiniteSet(1..MaxLaunches)
    BY <1>1, FS_Interval
  <2>2. IsFiniteSet(Servers)
    BY <2>1, ServerAssumption, FS_Product DEF Servers
  <2> QED BY <2>2, FS_Subset, FS_CardinalityType
<1>3. \A i \in 1..n : <<x, i>> \in used
  <2> SUFFICES ASSUME NEW i \in 1..n PROVE <<x, i>> \in used
    OBVIOUS
  <2>1. <<x, i>> \in Servers
    BY <1>1 DEF Servers
  <2>2. srv[<<x, i>>].thread # "none"
    BY <1>1, <2>1 DEF RegistryInv, UsedInOrder
  <2> QED BY <2>1, <2>2 DEF Unused
<1>4. f \in Injection(1..n, used)
  BY <1>3 DEF Injection, IsInjective
<1>5. n <= Cardinality(used)
  <2>1. Cardinality(1..n) <= Cardinality(used)
    BY <1>2, <1>4, FS_Injection
  <2> HIDE DEF n
  <2>2. n \in Int
    BY <1>1
  <2>3. Cardinality(1..n) = IF 1 > n THEN 0 ELSE n - 1 + 1
    BY <2>2, FS_Interval
  <2> QED BY <1>1, <1>2, <2>1, <2>3
<1>6. Cardinality(new) \in Nat /\ Cardinality(new) # 0
  BY ServerAssumption, FS_Subset, FS_CardinalityType, FS_EmptySet
<1>7. \A a, b, c, m \in Nat : c # 0 /\ a <= b /\ b + c <= m => a + 1 \in 1..m
  OBVIOUS
<1> HIDE DEF used, n
<1>8. Cardinality(used) + Cardinality(new) <= MaxLaunches
  BY DEF used
<1>9. n + 1 \in 1..MaxLaunches
  BY <1>1, <1>2, <1>5, <1>6, <1>7, <1>8
<1> QED BY <1>9 DEF n

LEMMA StoppedKeeps ==
  ASSUME NEW v \in ServerType, NEW n, ServerInv(v, n), NEW w, w = Stopped(v)
  PROVE  w \in ServerType /\ ~w.running /\ w.thread = v.thread /\ ServerInv(w, n) /\ Keeps(v, w)
<1>1. CASE v.running
  <2>1. w = [v EXCEPT !.listening = FALSE, !.shut = TRUE, !.running = FALSE]
    BY <1>1 DEF Stopped
  <2>2. /\ w \in ServerType /\ ~w.running /\ w.queue = v.queue /\ w.offered = v.offered
        /\ w.thread = v.thread
    BY <2>1 DEF ServerType
  <2> QED BY <2>2, ControlKeeps
<1>2. CASE ~v.running
  BY <1>2, KeepsItself DEF Stopped
<1> QED BY <1>1, <1>2

LEMMA EmptyChannel ==
  ASSUME NEW n
  PROVE  IsEndOf(<<>>, <<>>) /\ Increasing(<<>>) /\ AtMost(<<>>, n)
<1>1. Len(<<>>) = 0
  OBVIOUS
<1> DEFINE e == <<>>
<1> HIDE DEF e
<1>2. Len(e) = 0
  BY <1>1 DEF e
<1>3. Len(e) <= Len(e) /\ 1..Len(e) = {}
  BY <1>2
<1>4. IsEndOf(e, e) /\ Increasing(e) /\ AtMost(e, n)
  BY <1>3 DEF IsEndOf, Increasing, AtMost
<1> QED BY <1>4 DEF e

LEMMA LaunchedInv ==
  ASSUME NEW n
  PROVE  /\ Launched \in ServerType /\ ServerInv(Launched, n) /\ Launched.thread = "select"
         /\ Launched.running /\ Launched.listening /\ ~Launched.shut
<1> DEFINE e == <<>>
<1>1. e \in Seq(Nat)
  OBVIOUS
<1>2. Unused = [running |-> FALSE, listening |-> FALSE, accept |-> "none", thread |-> "none",
                queue |-> e, shut |-> FALSE, offered |-> e, dropped |-> 0]
  BY DEF Unused
<1> HIDE DEF e
<1> DEFINE u == Unused
           w == Launched
<1>3. w = [u EXCEPT !.running = TRUE, !.listening = TRUE, !.accept = "ready", !.thread = "select"]
  BY DEF Launched
<1> HIDE DEF u, w
<1>4. w = [running |-> TRUE, listening |-> TRUE, accept |-> "ready", thread |-> "select",
           queue |-> e, shut |-> FALSE, offered |-> e, dropped |-> 0]
  BY <1>2, <1>3 DEF u
<1>5. w \in ServerType
  BY <1>1, <1>4 DEF ServerType
<1>6. w.queue = <<>> /\ w.offered = <<>>
  BY <1>4 DEF e
<1>7. ServerInv(w, n)
  BY <1>6, EmptyChannel DEF ServerInv
<1> QED BY <1>4, <1>5, <1>7 DEF w

LEMMA SetServersInv == ASSUME Inv, NEW want \in SUBSET Sids, SetServers(want) PROVE Inv'
<1> DEFINE new == want \ registered
           old == {Current(x) : x \in registered \ want}
<1>1. PICK made \in SUBSET new :
        /\ launched' = [x \in Sids |-> launched[x] + IF x \in made THEN 1 ELSE 0]
        /\ srv' = [s \in Servers |-> IF s \in {<<x, launched[x] + 1>> : x \in made} THEN Launched
                                     ELSE IF s \in old THEN Stopped(srv[s])
                                     ELSE srv[s]]
        /\ registered' = RegisteredAfter(want, made)
  BY DEF SetServers
<1> DEFINE fresh == {<<x, launched[x] + 1>> : x \in made}
<1>2. /\ cn' = [c \in Clients |->
                  IF cn[c].state = "backlog" /\ cn[c].server \in old /\ srv[cn[c].server].running
                    THEN [cn[c] EXCEPT !.state = "refused"] ELSE cn[c]]
      /\ recs' = recs
  BY DEF SetServers
<1>3. /\ registered \in SUBSET Sids /\ launched \in [Sids -> 0..MaxLaunches]
      /\ srv \in [Servers -> ServerType] /\ cn \in [Clients -> ConnType] /\ recs \in Nat
      /\ MaxLaunches \in Nat
  BY ServerAssumption DEF Inv, RegistryInv, TypeOK
<1>4. \A x \in new : launched[x] + 1 \in 1..MaxLaunches
  <2>1. Cardinality({s \in Servers : srv[s] # Unused}) + Cardinality(new) <= MaxLaunches
    BY DEF SetServers
  <2> QED BY <2>1, RoomToLaunch DEF Inv
\* The numbers of the servers that are launched are new, and those of the ones
\* that are stopped are not.
<1>5. \A s \in Servers : /\ s \in fresh <=> s[1] \in made /\ s[2] = launched[s[1]] + 1
                         /\ s \in old => s[2] = launched[s[1]] /\ s[1] \in registered \ want
                         /\ s[1] \in Sids /\ s[2] \in 1..MaxLaunches /\ s = <<s[1], s[2]>>
  BY DEF Servers, Current
<1>6. \A x \in Sids : launched[x] \in Nat /\ launched'[x] = IF x \in made THEN launched[x] + 1 ELSE launched[x]
  BY <1>1, <1>3
<1> HIDE DEF fresh, old
<1>7. \A s \in Servers : srv'[s] = IF s \in fresh THEN Launched
                                   ELSE IF s \in old THEN Stopped(srv[s]) ELSE srv[s]
  BY <1>1 DEF fresh
<1>8. \A s \in Servers : s \in fresh => srv[s] = Unused
  BY <1>3, <1>5, <1>6 DEF Inv, RegistryInv, UsedInOrder
<1>9. ASSUME NEW s \in Servers
      PROVE  /\ srv'[s] \in ServerType /\ ServerInv(srv'[s], recs)
             /\ s \notin fresh => Keeps(srv[s], srv'[s]) /\ srv'[s].thread = srv[s].thread
             /\ s \notin fresh /\ s \in old => ~srv'[s].running
  <2>1. srv[s] \in ServerType /\ ServerInv(srv[s], recs)
    BY <1>3 DEF Inv, StreamInv
  <2>2. CASE s \in fresh
    BY <1>7, <2>2, LaunchedInv
  <2>3. CASE s \notin fresh /\ s \in old
    BY <1>7, <2>1, <2>3, StoppedKeeps
  <2>4. CASE s \notin fresh /\ s \notin old
    BY <1>7, <2>1, <2>4, KeepsItself
  <2> QED BY <2>2, <2>3, <2>4
<1>10. TypeOK'
  <2>1. registered' \in SUBSET Sids
    BY <1>1, <1>3 DEF RegisteredAfter
  <2>2. launched' \in [Sids -> 0..MaxLaunches]
    BY <1>1, <1>3, <1>4
  <2>3. srv' \in [Servers -> ServerType]
    BY <1>1, <1>9
  <2>4. ASSUME NEW c \in Clients PROVE cn'[c] \in ConnType
    <3>1. cn[c] \in ConnType /\ (cn'[c] = cn[c] \/ cn'[c] = [cn[c] EXCEPT !.state = "refused"])
      BY <1>2, <1>3
    <3> DEFINE x == cn[c]
               y == cn'[c]
    <3> HIDE DEF x, y
    <3>2. x \in ConnType /\ (y = x \/ y = [x EXCEPT !.state = "refused"])
      BY <3>1 DEF x, y
    <3>3. y \in ConnType
      BY <3>2 DEF ConnType
    <3> QED BY <3>3 DEF y
  <2>5. cn' \in [Clients -> ConnType]
    BY <1>2, <2>4
  <2> QED BY <1>2, <1>3, <2>1, <2>2, <2>3, <2>5 DEF TypeOK
<1>11. UsedInOrder'
  <2> SUFFICES ASSUME NEW s \in Servers
               PROVE  /\ s[2] > launched'[s[1]] => srv'[s] = Unused
                      /\ s[2] <= launched'[s[1]] => srv'[s].thread # "none"
    BY DEF UsedInOrder
  <2>1. CASE s \in fresh
    BY <1>5, <1>6, <1>7, <2>1, LaunchedInv
  <2>2. CASE s \notin fresh
    <3>1. /\ s[2] > launched'[s[1]] => s[2] > launched[s[1]]
          /\ s[2] <= launched'[s[1]] => s[2] <= launched[s[1]]
      BY <1>5, <1>6, <2>2
    <3>2. s[2] > launched[s[1]] => s \notin old
      BY <1>5, <1>6
    <3>3. /\ s[2] > launched[s[1]] => srv[s] = Unused
          /\ s[2] <= launched[s[1]] => srv[s].thread # "none"
      BY DEF Inv, RegistryInv, UsedInOrder
    <3> QED BY <1>7, <1>9, <2>2, <3>1, <3>2, <3>3
  <2> QED BY <2>1, <2>2
<1>12. RunningIsRegistered'
  <2> SUFFICES ASSUME NEW s \in Servers, srv'[s].running
               PROVE  s[1] \in registered' /\ s = <<s[1], launched'[s[1]]>>
    BY DEF RunningIsRegistered, Current
  <2>1. CASE s \in fresh
    BY <1>1, <1>5, <1>6, <2>1 DEF RegisteredAfter
  <2>2. CASE s \notin fresh
    <3>1. s \notin old
      BY <1>9, <2>2
    <3>2. s[1] \in registered /\ s = Current(s[1])
      BY <1>7, <2>2, <3>1 DEF Inv, RegistryInv, RunningIsRegistered
    <3>3. s[1] \in want
      BY <3>1, <3>2 DEF old
    <3>4. launched'[s[1]] = launched[s[1]]
      BY <1>5, <1>6, <3>2
    <3> QED BY <1>1, <3>2, <3>3, <3>4 DEF RegisteredAfter, Current
  <2> QED BY <2>1, <2>2
<1>13. RegisteredIsOpen'
  <2> SUFFICES ASSUME NEW x \in registered'
               PROVE  LET s == <<x, launched'[x]>>
                      IN  /\ launched'[x] >= 1 /\ srv'[s].listening /\ ~srv'[s].shut
                          /\ srv'[s].running \/ srv'[s].accept = "closed"
    BY DEF RegisteredIsOpen, Current
  <2> DEFINE s == <<x, launched'[x]>>
  <2>1. CASE x \in made
    <3>1. launched'[x] = launched[x] + 1 /\ s \in Servers /\ launched'[x] >= 1
      BY <1>3, <1>4, <1>6, <2>1 DEF Servers
    <3>2. srv'[s] = Launched
      BY <1>7, <2>1, <3>1 DEF fresh
    <3> QED BY <3>1, <3>2, LaunchedInv
  <2>2. CASE x \notin made
    <3>1. x \in registered /\ x \in want /\ x \in Sids
      BY <1>1, <1>3, <2>2 DEF RegisteredAfter
    <3>2. launched'[x] = launched[x] /\ s = Current(x)
      BY <1>6, <2>2, <3>1 DEF Current
    <3>3. s \in Servers
      BY <3>1, <3>2, CurrentIsServer DEF Inv
    <3>4. s \notin fresh /\ s \notin old
      BY <1>5, <2>2, <3>1, <3>3
    <3>5. srv'[s] = srv[s]
      BY <1>7, <3>3, <3>4
    <3>6. /\ launched[x] >= 1 /\ srv[Current(x)].listening /\ ~srv[Current(x)].shut
          /\ srv[Current(x)].running \/ srv[Current(x)].accept = "closed"
      BY <3>1 DEF Inv, RegistryInv, RegisteredIsOpen
    <3> QED BY <3>2, <3>5, <3>6
  <2> QED BY <2>1, <2>2
<1>14. ASSUME NEW c \in Clients PROVE ClientInv(cn[c])'
  <2> DEFINE x == cn[c]
             y == cn'[c]
             v == srv[x.server]
             w == srv'[x.server]
  <2>1. x \in ConnType /\ ClientInv(x) /\ (x.server # None => x.server \in Servers)
    BY <1>3 DEF Inv, StreamInv, ConnType
  <2>2. x.server # None => Keeps(v, w) /\ ConnInv(x, v, Given(x))
    <3> SUFFICES ASSUME x.server # None PROVE Keeps(v, w) /\ ConnInv(x, v, Given(x))
      OBVIOUS
    <3>1. ConnInv(x, v, Given(x)) /\ v.thread # "none"
      BY <2>1 DEF ClientInv, ConnInv
    <3>2. x.server \notin fresh
      BY <1>8, <2>1, <3>1 DEF Unused
    <3> QED BY <1>9, <2>1, <3>1, <3>2
  <2>3. CASE y = x
    BY <1>10, <2>2, <2>3, ClientKept
  <2>4. CASE y # x
    <3>1. y = [x EXCEPT !.state = "refused"] /\ x.state = "backlog"
      BY <1>2, <2>4
    <3>2. x.server # None
      BY <2>1, <3>1 DEF ClientInv, NotMade
    <3>3. v \in ServerType /\ w \in ServerType /\ ServerInv(v, recs)
      BY <1>3, <1>9, <2>1, <3>2 DEF Inv, StreamInv
    <3>4. ConnInv(x, w, Given(x))
      <4> HIDE DEF x, v, w
      <4> QED BY <2>1, <2>2, <3>2, <3>3, ConnKept
    <3>5. /\ y.state = "refused" /\ y.server = x.server /\ Given(y) = Given(x)
          /\ y.dropped = x.dropped /\ y.shut = x.shut
      <4> HIDE DEF x, y
      <4> QED BY <2>1, <3>1 DEF ConnType, Given
    <3>6. ConnInv(y, w, Given(y))
      BY <3>1, <3>4, <3>5 DEF ConnInv
    <3> QED BY <3>2, <3>5, <3>6 DEF ClientInv
  <2> QED BY <2>3, <2>4
<1> QED BY <1>2, <1>9, <1>10, <1>11, <1>12, <1>13, <1>14 DEF Inv, RegistryInv, StreamInv

-----------------------------------------------------------------------------
(***************************************************************************)
(* The invariant holds, and what it says.                                  *)
(***************************************************************************)

LEMMA InitInv == ASSUME Init PROVE Inv
<1>1. /\ registered = {} /\ launched = [x \in Sids |-> 0] /\ srv = [s \in Servers |-> Unused]
      /\ cn = [c \in Clients |-> NoConn] /\ recs = 0
  BY DEF Init
<1> DEFINE e == <<>>
<1>2. e \in Seq(Nat) /\ e \o e \o e = e
  OBVIOUS
<1>3. /\ Unused = [running |-> FALSE, listening |-> FALSE, accept |-> "none", thread |-> "none",
                   queue |-> e, shut |-> FALSE, offered |-> e, dropped |-> 0]
      /\ NoConn = [state |-> "none", server |-> None, queue |-> e, shut |-> FALSE,
                   writing |-> e, dropped |-> 0, since |-> 0, received |-> e]
  BY DEF Unused, NoConn
<1>4. \A n : IsEndOf(e, e) /\ Increasing(e) /\ AtMost(e, n)
  BY EmptyChannel
<1> HIDE DEF e
<1>5. Unused \in ServerType /\ ~Unused.running
  BY <1>2, <1>3 DEF ServerType
<1>6. NoConn \in ConnType /\ NoConn.server = None
  BY <1>2, <1>3 DEF ConnType
<1>7. NotMade(NoConn)
  <2>1. Given(NoConn) = e
    BY <1>2, <1>3 DEF Given
  <2> QED BY <1>3, <2>1 DEF NotMade, e
<1>8. ServerInv(Unused, 0)
  BY <1>3, <1>4 DEF ServerInv
<1>9. MaxLaunches \in Nat
  BY ServerAssumption
<1>10. TypeOK
  BY <1>1, <1>5, <1>6, <1>9 DEF TypeOK
<1>11. UsedInOrder
  <2> SUFFICES ASSUME NEW s \in Servers
               PROVE  srv[s] = Unused /\ ~(s[2] <= launched[s[1]])
    BY DEF UsedInOrder
  <2>1. s[1] \in Sids /\ s[2] \in 1..MaxLaunches
    BY DEF Servers
  <2> QED BY <1>1, <1>9, <2>1
<1>12. RunningIsRegistered /\ RegisteredIsOpen
  BY <1>1, <1>5 DEF RunningIsRegistered, RegisteredIsOpen
<1>13. StreamInv
  BY <1>1, <1>6, <1>7, <1>8 DEF StreamInv, ClientInv
<1> QED BY <1>10, <1>11, <1>12, <1>13 DEF Inv, RegistryInv

LEMMA NextInv == ASSUME Inv, [Next]_vars PROVE Inv'
<1>1. CASE UNCHANGED vars
  BY <1>1 DEF vars, Inv, RegistryInv, TypeOK, UsedInOrder, RunningIsRegistered, RegisteredIsOpen,
              Current, StreamInv, ClientInv
<1>2. CASE \E want \in SUBSET Sids : SetServers(want)
  BY <1>2, SetServersInv
<1>3. CASE \E x \in Sids : Handle(x)
  BY <1>3, HandleInv
<1>4. ASSUME NEW s \in Servers, Acceptor(s) \/ Thread(s) \/ Collect(s)
      PROVE  Inv'
  BY <1>4, AcceptInv, AcceptFailsInv, ThreadConnInv, ThreadRecInv, ThreadReturnsInv, CollectInv
     DEF Acceptor, Thread
<1>5. ASSUME NEW c \in Clients, Handler(c) \/ Connect(c)
      PROVE  Inv'
  BY <1>5, HandlerTakeInv, HandlerWritesInv, HandlerEndsInv, ConnectInv DEF Handler
<1> QED BY <1>1, <1>2, <1>3, <1>4, <1>5 DEF Next, Main

LEMMA InvHolds == Spec => []Inv
<1>1. Init => Inv
  BY InitInv
<1>2. Inv /\ [Next]_vars => Inv'
  BY NextInv
<1> QED BY <1>1, <1>2, PTL DEF Spec

\* A server that takes records in is the one the registry has for its id, and
\* the registry's server only stops taking them because Accept failed on a
\* listener that nobody closed, for whatever sets of servers SetServers is
\* given and however it interleaves with the servers' goroutines.
THEOREM RegistryIsRight == Spec => []RegistryAgrees
<1>1. Inv => RegistryAgrees
  BY DEF Inv, RegistryInv, RunningIsRegistered, RegisteredIsOpen, RegistryAgrees
<1> QED BY <1>1, InvHolds, PTL

\* The records of o that are out, but for the first ones.
Due(o, since, out) == SubSeq(o, since + 1, out)

\* What StreamIntact asks of a stream st, from what Accounted says of it.
LEMMA DueIsAccounted ==
  ASSUME NEW o \in Seq(Nat), NEW out \in Nat, out <= Len(o), NEW since \in Nat,
         NEW dropped \in Nat, NEW st \in Seq(Nat), Accounted(since, dropped, st, o, out),
         NEW due, due = Due(o, since, out)
  PROVE  /\ \A i \in DOMAIN st : \E j \in DOMAIN due : due[j] = st[i]
         /\ Len(st) + dropped = Len(due)
<1>1. /\ since <= out /\ Len(st) + dropped = out - since
      /\ \A i \in 1..Len(st) : \E k \in since + 1 .. out : o[k] = st[i]
  BY DEF Accounted
<1>2. /\ since + 1 \in 1..Len(o) + 1 /\ out \in since + 1 - 1 .. Len(o)
      /\ out - (since + 1) + 1 = out - since /\ Len(o) \in Nat
  BY <1>1
<1>3. \A i \in since + 1 .. out : o[i] \in Nat
  <2>1. \A i \in since + 1 .. out : i \in 1..Len(o)
    BY <1>2
  <2> QED BY <2>1
<1>4. /\ due \in Seq(Nat)
      /\ Len(due) = IF since + 1 <= out THEN out - (since + 1) + 1 ELSE 0
      /\ \A i \in 1..out - (since + 1) + 1 : due[i] = o[since + 1 + i - 1]
  BY <1>2, <1>3, SubSeqProperties DEF Due
<1>5. Len(due) = out - since
  BY <1>1, <1>2, <1>4
<1>6. DOMAIN st = 1..Len(st) /\ DOMAIN due = 1..out - since
  BY <1>4, <1>5, LenProperties
<1>7. ASSUME NEW i \in 1..Len(st) PROVE \E j \in 1..out - since : due[j] = st[i]
  <2>1. PICK k \in since + 1 .. out : o[k] = st[i]
    BY <1>1
  <2>2. k - since \in 1..out - since /\ since + 1 + (k - since) - 1 = k
    BY <1>1
  <2>3. due[k - since] = o[since + 1 + (k - since) - 1]
    BY <1>2, <1>4, <2>2
  <2> QED BY <2>1, <2>2, <2>3
<1>8. Len(st) + dropped = Len(due)
  BY <1>1, <1>5
<1> QED BY <1>6, <1>7, <1>8

\* A thread that has returned takes no records in any more, and has left some
\* behind only if it found the channel of connections closed.
Returned(v) == v.thread = "done" => ~v.running /\ (v.queue = <<>> \/ v.accept = "closed")

LeftBehind == \A s \in Servers : Returned(srv[s])

LEMMA LeftBehindStep == ASSUME Inv, LeftBehind, [Next]_vars PROVE LeftBehind'
<1>t. srv \in [Servers -> ServerType]
  BY DEF Inv, RegistryInv, TypeOK
<1>one. ASSUME NEW s \in Servers, NEW y, srv' = [srv EXCEPT ![s] = y], Returned(y)
        PROVE  LeftBehind'
  <2>1. \A r \in Servers : srv'[r] = IF r = s THEN y ELSE srv[r]
    BY <1>t, <1>one
  <2> QED BY <1>one, <2>1 DEF LeftBehind
<1>same. ASSUME srv' = srv PROVE LeftBehind'
  BY <1>same DEF LeftBehind
<1>1. CASE UNCHANGED vars
  BY <1>1, <1>same DEF vars
<1>2. ASSUME NEW want \in SUBSET Sids, SetServers(want) PROVE LeftBehind'
  <2> DEFINE new == want \ registered
             old == {Current(x) : x \in registered \ want}
  <2>1. PICK made \in SUBSET new :
          srv' = [s \in Servers |-> IF s \in {<<x, launched[x] + 1>> : x \in made} THEN Launched
                                    ELSE IF s \in old THEN Stopped(srv[s])
                                    ELSE srv[s]]
    BY <1>2 DEF SetServers
  <2> HIDE DEF old
  <2> SUFFICES ASSUME NEW s \in Servers PROVE Returned(srv'[s])
    BY DEF LeftBehind
  <2>2. srv'[s] \in {Launched, Stopped(srv[s]), srv[s]}
    BY <2>1
  <2>3. Returned(Launched)
    BY DEF Launched, Unused, Returned
  <2>4. Returned(srv[s]) /\ srv[s] \in ServerType
    BY <1>t DEF LeftBehind
  <2>5. Returned(Stopped(srv[s]))
    BY <2>4 DEF Stopped, Returned, ServerType
  <2> QED BY <2>2, <2>3, <2>4, <2>5
<1>3. ASSUME NEW x \in Sids, Handle(x) PROVE LeftBehind'
  <2>1. CASE srv' = srv
    BY <2>1, <1>same
  <2>2. CASE TakesRecords(x)
    <3>1. Current(x) \in Servers /\ srv[Current(x)].running
      BY <2>2, CurrentIsServer DEF TakesRecords, Inv
    <3> DEFINE s == Current(x)
               y == srv'[s]
    <3>2. srv' = [srv EXCEPT ![s] = Pushed(srv[s], recs + 1)]
      BY <1>3, <2>2 DEF Handle, Pushed
    <3>3. srv[s] \in ServerType /\ recs \in Nat /\ ServerInv(srv[s], recs) /\ Returned(srv[s])
      BY <1>t, <3>1 DEF LeftBehind, Inv, RegistryInv, StreamInv, TypeOK
    <3>a. y = Pushed(srv[s], recs + 1) /\ srv' = [srv EXCEPT ![s] = y]
      BY <1>t, <3>1, <3>2
    <3>b. srv[s].running /\ s \in Servers
      BY <3>1
    <3> HIDE DEF s, y
    <3>c. y.thread = srv[s].thread
      BY <3>3, <3>a, RecordPushed
    <3>4. Returned(y)
      BY <3>3, <3>b, <3>c DEF Returned
    <3> QED BY <1>one, <3>a, <3>b, <3>4
  <2> QED BY <1>3, <2>1, <2>2 DEF Handle
<1>4. ASSUME NEW s \in Servers, Acceptor(s) \/ Thread(s) \/ Collect(s) PROVE LeftBehind'
  <2> DEFINE v == srv[s]
             y == srv'[s]
  <2>1. v \in ServerType /\ Returned(v)
    BY <1>t DEF LeftBehind
  <2>2. CASE Accept(s)
    <3>1. srv' = [srv EXCEPT ![s] = y] /\ y = [v EXCEPT !.accept = "sending"] /\ v.accept = "ready"
      BY <1>t, <2>2 DEF Accept
    <3>2. Returned(y)
      BY <2>1, <3>1 DEF Returned, ServerType
    <3> QED BY <1>one, <3>1, <3>2
  <2>3. CASE AcceptFails(s)
    <3>1. srv' = [srv EXCEPT ![s] = y] /\ y = [v EXCEPT !.accept = "closed"]
      BY <1>t, <2>3 DEF AcceptFails
    <3>2. Returned(y)
      BY <2>1, <3>1 DEF Returned, ServerType
    <3> QED BY <1>one, <3>1, <3>2
  <2>4. CASE ThreadConn(s)
    <3>1. /\ srv' = [srv EXCEPT ![s] = y] /\ y = [v EXCEPT !.accept = "ready"]
          /\ v.thread = "select"
      BY <1>t, <2>4 DEF ThreadConn
    <3>2. Returned(y)
      BY <2>1, <3>1 DEF Returned, ServerType
    <3> QED BY <1>one, <3>1, <3>2
  <2>5. CASE ThreadRec(s)
    <3>1. /\ srv' = [srv EXCEPT ![s] = y] /\ y = [v EXCEPT !.queue = Tail(@)]
          /\ v.thread = "select"
      BY <1>t, <2>5 DEF ThreadRec
    <3>2. Returned(y)
      BY <2>1, <3>1 DEF Returned, ServerType
    <3> QED BY <1>one, <3>1, <3>2
  <2>6. CASE ThreadReturns(s)
    <3>1. /\ srv' = [srv EXCEPT ![s] = y] /\ y = [v EXCEPT !.thread = "done", !.running = FALSE]
          /\ v.accept = "closed" \/ v.queue = <<>>
      BY <1>t, <2>6 DEF ThreadReturns
    <3>2. Returned(y)
      BY <2>1, <3>1 DEF Returned, ServerType
    <3> QED BY <1>one, <3>1, <3>2
  <2>7. CASE Collect(s)
    <3>1. srv' = [srv EXCEPT ![s] = y] /\ y = [v EXCEPT !.listening = FALSE]
      BY <1>t, <2>7 DEF Collect
    <3>2. Returned(y)
      BY <2>1, <3>1 DEF Returned, ServerType
    <3> QED BY <1>one, <3>1, <3>2
  <2> QED BY <1>4, <2>2, <2>3, <2>4, <2>5, <2>6, <2>7 DEF Acceptor, Thread
<1>5. ASSUME NEW c \in Clients, Handler(c) \/ Connect(c) PROVE LeftBehind'
  BY <1>5, <1>same DEF Handler, HandlerTake, HandlerWrites, HandlerEnds, Connect
<1> QED BY <1>1, <1>2, <1>3, <1>4, <1>5 DEF Next, Main

LEMMA LeftBehindHolds == Spec => []LeftBehind
<1>1. Init => LeftBehind
  BY DEF Init, LeftBehind, Returned, Unused
<1>2. Inv /\ LeftBehind /\ [Next]_vars => LeftBehind'
  BY LeftBehindStep
<1> QED BY <1>1, <1>2, InvHolds, PTL DEF Spec

\* A client gets records in order and none twice, and each record its server
\* took in since it was connected is in its stream, was counted as dropped or is
\* in the server's channel, as long as no Write fails; a thread that returns
\* leaves records behind in that channel, for nobody, only if it found the
\* channel of connections closed: for every number of servers, clients and
\* records, every capacity of the channels and whenever the server is stopped.
THEOREM StreamsAreIntact == Spec => []StreamIntact
<1>1. ASSUME Inv, LeftBehind PROVE StreamIntact
  <2>0. \A s \in Servers :
          srv[s].thread = "done" /\ srv[s].queue # <<>> => srv[s].accept = "closed"
    BY <1>1 DEF LeftBehind, Returned
  <2> SUFFICES ASSUME NEW c \in Clients, cn[c].server # None
               PROVE  LET s == srv[cn[c].server]
                          passed == SubSeq(s.offered, cn[c].since + 1, Len(s.offered) - Len(s.queue))
                      IN /\ \A i, j \in DOMAIN Stream(c) : i < j => Stream(c)[i] < Stream(c)[j]
                         /\ cn[c].state \in {"handled", "closed"} =>
                              /\ \A i \in DOMAIN Stream(c) :
                                   \E j \in DOMAIN passed : passed[j] = Stream(c)[i]
                              /\ Len(Stream(c)) + cn[c].dropped + Len(s.queue)
                                   = Len(s.offered) - cn[c].since
                         /\ cn[c].state = "closed" => cn[c].received = Stream(c)
    BY <2>0 DEF StreamIntact
  <2> DEFINE x == cn[c]
             v == srv[x.server]
             st == Stream(c)
             out == Len(v.offered) - Len(v.queue)
  <2>1. x \in ConnType /\ x.server \in Servers /\ v \in ServerType
    BY <1>1 DEF Inv, RegistryInv, TypeOK, ConnType
  <2>2. st = Given(x) /\ st \in Seq(Nat)
    BY <2>1, GivenType DEF Stream, Given
  <2>3. ConnInv(x, v, st) /\ ServerInv(v, recs)
    BY <1>1, <2>1, <2>2 DEF Inv, StreamInv, ClientInv
  <2>4. Out(v) = out /\ out \in Nat /\ out <= Len(v.offered)
    BY <2>1, <2>3, OutType
  <2>5. v.offered \in Seq(Nat) /\ x.since \in Nat /\ x.dropped \in Nat /\ x.received \in Seq(Nat)
    BY <2>1 DEF ServerType, ConnType
  <2>6. DOMAIN st = 1..Len(st)
    BY <2>2, LenProperties
  <2>7. st = x.received \o x.writing \o x.queue
    BY DEF Stream
  <2> HIDE DEF x, v, st, out
  <2>8. \A i, j \in DOMAIN st : i < j => st[i] < st[j]
    BY <2>3, <2>6 DEF ConnInv, Increasing
  <2>9. ASSUME x.state \in {"handled", "closed"}
        PROVE  LET due == SubSeq(v.offered, x.since + 1, out)
               IN  /\ \A i \in DOMAIN st : \E j \in DOMAIN due : due[j] = st[i]
                   /\ Len(st) + x.dropped + Len(v.queue) = Len(v.offered) - x.since
    <3>1. Accounted(x.since, x.dropped, st, v.offered, out)
      BY <2>3, <2>4, <2>9 DEF ConnInv
    <3> DEFINE o == v.offered
               f == x.since
               d == x.dropped
    <3>2. o \in Seq(Nat) /\ f \in Nat /\ d \in Nat /\ out <= Len(o) /\ Accounted(f, d, st, o, out)
      BY <2>4, <2>5, <3>1
    <3> HIDE DEF o, f, d
    <3> DEFINE due == Due(o, f, out)
    <3>3. due = Due(o, f, out)
      OBVIOUS
    <3> HIDE DEF due
    <3>4. \A i \in DOMAIN st : \E j \in DOMAIN due : due[j] = st[i]
      BY <2>2, <2>4, <3>2, <3>3, DueIsAccounted
    <3>5. Len(st) + x.dropped = out - x.since
      BY <3>1 DEF Accounted
    <3>6. Len(st) + x.dropped + Len(v.queue) = Len(v.offered) - x.since
      <4>1. out = Len(v.offered) - Len(v.queue)
        BY DEF out
      <4>2. Len(st) \in Nat /\ Len(v.queue) \in Nat /\ Len(v.offered) \in Nat
        BY <2>1, <2>2, <2>5 DEF ServerType
      <4>3. \A a, b, m, e, g, h \in Int :
              a + b = g - h /\ g = e - m => a + b + m = e - h
        OBVIOUS
      <4> DEFINE ls == Len(st)
                 lq == Len(v.queue)
                 lo == Len(v.offered)
                 xd == x.dropped
                 xs == x.since
      <4>4. ls \in Nat /\ lq \in Nat /\ lo \in Nat /\ xd \in Nat /\ xs \in Nat /\ out \in Nat
        BY <2>4, <2>5, <4>2
      <4>5. ls + xd = out - xs /\ out = lo - lq
        BY <3>5, <4>1
      <4> HIDE DEF ls, lq, lo, xd, xs
      <4>6. ls + xd + lq = lo - xs
        BY <4>3, <4>4, <4>5
      <4> QED BY <4>6 DEF ls, lq, lo, xd, xs
    <3> QED BY <3>4, <3>6 DEF o, f, d, due, Due
  <2>10. ASSUME x.state = "closed" PROVE x.received = st
    <3>1. x.writing = <<>> /\ x.queue = <<>>
      BY <2>3, <2>10 DEF ConnInv
    <3>2. x.received \o <<>> \o <<>> = x.received
      BY <2>5
    <3> QED BY <2>7, <3>1, <3>2
  <2> QED BY <2>8, <2>9, <2>10 DEF x, v, st, out
<1>2. Inv /\ LeftBehind => StreamIntact
  BY <1>1
<1> QED BY <1>2, InvHolds, LeftBehindHolds, PTL

=============================================================================
