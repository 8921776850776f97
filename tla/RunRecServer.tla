----------------------------- MODULE RunRecServer -----------------------------
(***************************************************************************)
(* The servers behind the socket result sink.  Each (protocol, address) of *)
(* the installed jobfile's sinks has a server: a thread that takes run     *)
(* records from a bounded channel and passes them to a handler for each    *)
(* connection, which has a bounded channel and a thread of its own.        *)
(* Connections come from a goroutine that accepts them and hands them over *)
(* on a channel without a buffer.                                          *)
(*                                                                         *)
(* SetServers and Handle are called by the main thread of jobberrunner, so *)
(* they do not overlap.  A server is named by its id and the number of     *)
(* servers launched for that id before it.  offered, since and received    *)
(* are history: what the server has taken in, how much of it was out       *)
(* before a connection got its handler, and what the client was sent.      *)
(***************************************************************************)
EXTENDS Integers, Sequences, FiniteSets

CONSTANTS
  Sids,         \* serverIds: protocol and address
  Address,      \* the address of each; two protocols may share one
  Clients,      \* connections that clients make
  BufLen,       \* capacity of the channels of records: 10 in the code
  MaxLaunches,  \* bound: servers launched
  MaxRecs,      \* bound: records a server was given
  Faults        \* "listen": Listen fails; "accept": Accept fails; "write": a
                \* Write fails, its deadline included

ASSUME ServerAssumption ==
  /\ IsFiniteSet(Sids)
  /\ BufLen \in Nat \ {0} /\ MaxLaunches \in Nat /\ MaxRecs \in Nat
  /\ Faults \subseteq {"listen", "accept", "write"}

VARIABLES
  registered,  \* the keys of runRecServerRegistry.servers
  launched,    \* how many servers were launched for each id
  srv,         \* the servers
  cn,          \* the connections
  recs         \* how many records a server was given

vars == <<registered, launched, srv, cn, recs>>

Servers == Sids \X (1..MaxLaunches)
None == <<>>

\* The server the registry has for an id.
Current(x) == <<x, launched[x]>>

Unused == [running |-> FALSE, listening |-> FALSE, accept |-> "none", thread |-> "none",
           queue |-> <<>>, shut |-> FALSE, offered |-> <<>>, dropped |-> 0]

\* launchRunRecServer and acceptConns.
Launched == [Unused EXCEPT !.running = TRUE, !.listening = TRUE,
                           !.accept = "ready", !.thread = "select"]

NoConn == [state |-> "none", server |-> None, queue |-> <<>>, shut |-> FALSE,
           writing |-> <<>>, dropped |-> 0, since |-> 0, received |-> <<>>]

Init ==
  /\ registered = {}
  /\ launched = [x \in Sids |-> 0]
  /\ srv = [s \in Servers |-> Unused]
  /\ cn = [c \in Clients |-> NoConn]
  /\ recs = 0

\* A listener holds its address until it is closed, which nobody does for a
\* server that stopped running by itself.
InUse(a) == \E s \in Servers : srv[s].listening /\ Address[s[1]] = a

\* The connections whose handler is running.
Handled(s) == {c \in Clients : cn[c].server = s /\ cn[c].state = "handled"}

-----------------------------------------------------------------------------
(***************************************************************************)
(* The main thread.                                                        *)
(***************************************************************************)

\* runRecServer.Stop
Stopped(server) ==
  IF server.running
    THEN [server EXCEPT !.listening = FALSE, !.shut = TRUE, !.running = FALSE]
    ELSE server

\* Which of the new servers can be launched: Listen fails for an address that
\* is in use, by an old server that is yet to be stopped or by a new one.
CanLaunch(new, made) ==
  /\ \A x \in made : ~InUse(Address[x])
  /\ \A x, y \in made : Address[x] = Address[y] => x = y
  /\ \A x \in new \ made : \/ InUse(Address[x])
                           \/ \E y \in made : Address[x] = Address[y]
                           \/ "listen" \in Faults

\* Mutant: old servers are stopped and stay in the map.
RegisteredAfterNoDelete(want, made) == registered \union made

\* The keys of the map after SetServers.
RegisteredAfter(want, made) == (registered \intersect want) \union made

\* runRecServerRegistry.SetServers: missing servers are launched, then those
\* no longer wanted are stopped.  Connections nobody has accepted are refused
\* when a listener is closed.
SetServers(want) ==
  LET new == want \ registered
      old == {Current(x) : x \in registered \ want}
  IN /\ Cardinality({s \in Servers : srv[s] # Unused}) + Cardinality(new) <= MaxLaunches
     /\ \E made \in SUBSET new :
          LET fresh == {<<x, launched[x] + 1>> : x \in made}
          IN /\ CanLaunch(new, made)
             /\ launched' = [x \in Sids |-> launched[x] + IF x \in made THEN 1 ELSE 0]
             /\ srv' = [s \in Servers |-> IF s \in fresh THEN Launched
                                          ELSE IF s \in old THEN Stopped(srv[s])
                                          ELSE srv[s]]
             /\ registered' = RegisteredAfter(want, made)
     /\ cn' = [c \in Clients |->
                 IF cn[c].state = "backlog" /\ cn[c].server \in old /\ srv[cn[c].server].running
                   THEN [cn[c] EXCEPT !.state = "refused"] ELSE cn[c]]
     /\ UNCHANGED recs

\* A channel's send that gives up when the buffer is full.
TrySend(to, r) ==
  IF Len(to.queue) < BufLen THEN [to EXCEPT !.queue = Append(@, r)]
                            ELSE [to EXCEPT !.dropped = @ + 1]

\* runRecServerRegistry.Push: a record for a server that is not there, or not
\* running, is ignored.
TakesRecords(x) == x \in registered /\ srv[Current(x)].running

\* SocketResultSink.Handle, through to runRecServer.Push.
Handle(x) ==
  LET s == Current(x)
      sent == TrySend(srv[s], recs + 1)
  IN /\ recs < MaxRecs
     /\ IF TakesRecords(x)
          THEN /\ recs' = recs + 1
               /\ srv' = [srv EXCEPT ![s] = [sent EXCEPT !.offered = IF sent.queue = srv[s].queue
                                                                        THEN @ ELSE Append(@, recs + 1)]]
          ELSE UNCHANGED <<srv, recs>>
     /\ UNCHANGED <<registered, launched, cn>>

-----------------------------------------------------------------------------
(***************************************************************************)
(* The goroutine that accepts connections.                                 *)
(***************************************************************************)

Accept(s) ==
  /\ srv[s].accept = "ready" /\ srv[s].listening
  /\ \E c \in Clients :
       /\ cn[c].server = s /\ cn[c].state = "backlog"
       /\ cn' = [cn EXCEPT ![c].state = "accepted"]
       /\ srv' = [srv EXCEPT ![s].accept = "sending"]
  /\ UNCHANGED <<registered, launched, recs>>

\* Accept returns an error, because the listener is closed or for another
\* reason; either way the channel of connections is closed.
AcceptFails(s) ==
  /\ srv[s].accept = "ready"
  /\ ~srv[s].listening \/ "accept" \in Faults
  /\ srv' = [srv EXCEPT ![s].accept = "closed"]
  /\ UNCHANGED <<registered, launched, cn, recs>>

-----------------------------------------------------------------------------
(***************************************************************************)
(* runRecServer.thread: one step for each case of its select.              *)
(***************************************************************************)

ThreadConn(s) ==
  /\ srv[s].thread = "select" /\ srv[s].accept = "sending"
  /\ \E c \in Clients :
       /\ cn[c].server = s /\ cn[c].state = "accepted"
       /\ cn' = [cn EXCEPT ![c].state = "handled",
                           ![c].since = Len(srv[s].offered) - Len(srv[s].queue)]
  /\ srv' = [srv EXCEPT ![s].accept = "ready"]
  /\ UNCHANGED <<registered, launched, recs>>

ThreadRec(s) ==
  /\ srv[s].thread = "select" /\ srv[s].queue # <<>>
  /\ srv' = [srv EXCEPT ![s].queue = Tail(@)]
  /\ cn' = [c \in Clients |-> IF c \in Handled(s) THEN TrySend(cn[c], Head(srv[s].queue)) ELSE cn[c]]
  /\ UNCHANGED <<registered, launched, recs>>

\* Mutant: the handlers are forgotten without being stopped.
ThreadReturnsNoStop(s) ==
  /\ srv[s].thread = "select"
  /\ srv[s].accept = "closed" \/ (srv[s].shut /\ srv[s].queue = <<>>)
  /\ srv' = [srv EXCEPT ![s].thread = "done", ![s].running = FALSE]
  /\ UNCHANGED <<registered, launched, cn, recs>>

\* Either channel is closed.  A closed channel of records is first emptied,
\* but the other case may be taken before that.
ThreadReturns(s) ==
  /\ srv[s].thread = "select"
  /\ srv[s].accept = "closed" \/ (srv[s].shut /\ srv[s].queue = <<>>)
  /\ srv' = [srv EXCEPT ![s].thread = "done", ![s].running = FALSE]
  /\ cn' = [c \in Clients |-> IF c \in Handled(s) THEN [cn[c] EXCEPT !.shut = TRUE] ELSE cn[c]]
  /\ UNCHANGED <<registered, launched, recs>>

-----------------------------------------------------------------------------
(***************************************************************************)
(* connHandler.thread.                                                     *)
(***************************************************************************)

HandlerTake(c) ==
  /\ cn[c].state = "handled" /\ cn[c].writing = <<>> /\ cn[c].queue # <<>>
  /\ cn' = [cn EXCEPT ![c].writing = <<Head(cn[c].queue)>>, ![c].queue = Tail(@)]
  /\ UNCHANGED <<registered, launched, srv, recs>>

\* Mutant: the handler returns as soon as its channel is closed.
HandlerEndsEarly(c) ==
  /\ cn[c].state = "handled" /\ cn[c].writing = <<>> /\ cn[c].shut
  /\ cn' = [cn EXCEPT ![c].state = "closed", ![c].queue = <<>>]
  /\ UNCHANGED <<registered, launched, srv, recs>>

HandlerEnds(c) ==
  /\ cn[c].state = "handled" /\ cn[c].writing = <<>> /\ cn[c].queue = <<>> /\ cn[c].shut
  /\ cn' = [cn EXCEPT ![c].state = "closed"]
  /\ UNCHANGED <<registered, launched, srv, recs>>

\* The Write succeeds, or the handler closes the connection.
HandlerWrites(c) ==
  /\ cn[c].state = "handled" /\ cn[c].writing # <<>>
  /\ \/ cn' = [cn EXCEPT ![c].received = @ \o cn[c].writing, ![c].writing = <<>>]
     \/ "write" \in Faults /\ cn' = [cn EXCEPT ![c].state = "broken"]
  /\ UNCHANGED <<registered, launched, srv, recs>>

-----------------------------------------------------------------------------

\* A client connects: the kernel keeps the connection until it is accepted.
Connect(c) ==
  /\ cn[c].state = "none"
  /\ \E s \in Servers : srv[s].listening /\ cn' = [cn EXCEPT ![c].state = "backlog", ![c].server = s]
  /\ UNCHANGED <<registered, launched, srv, recs>>

\* The listener of a server nobody refers to any more is closed by the
\* garbage collector.
Collect(s) ==
  /\ srv[s].listening /\ srv[s].thread = "done"
  /\ ~(s[1] \in registered /\ s = Current(s[1]))
  /\ srv' = [srv EXCEPT ![s].listening = FALSE]
  /\ cn' = [c \in Clients |-> IF cn[c].server = s /\ cn[c].state = "backlog"
                                THEN [cn[c] EXCEPT !.state = "refused"] ELSE cn[c]]
  /\ UNCHANGED <<registered, launched, recs>>

Main == (\E want \in SUBSET Sids : SetServers(want)) \/ (\E x \in Sids : Handle(x))
Acceptor(s) == Accept(s) \/ AcceptFails(s)
Thread(s) == ThreadConn(s) \/ ThreadRec(s) \/ ThreadReturns(s)
Handler(c) == HandlerTake(c) \/ HandlerWrites(c) \/ HandlerEnds(c)

Next ==
  \/ Main
  \/ \E s \in Servers : Acceptor(s) \/ Thread(s) \/ Collect(s)
  \/ \E c \in Clients : Handler(c) \/ Connect(c)

Spec == Init /\ [][Next]_vars

\* Goroutines are scheduled; a Write ends, as it has a deadline.  Nothing is
\* assumed of clients, of the main thread and of the garbage collector.
FairSpec ==
  /\ Spec
  /\ \A s \in Servers : WF_vars(Acceptor(s)) /\ WF_vars(Thread(s))
  /\ \A c \in Clients : WF_vars(Handler(c))

-----------------------------------------------------------------------------
(***************************************************************************)
(* Properties.                                                             *)
(***************************************************************************)

\* What a connection's handler was given: sent, being sent, and buffered.
Stream(c) == cn[c].received \o cn[c].writing \o cn[c].queue

\* A client gets records in order and none twice.  As long as no Write fails,
\* each record its server took in since it was connected is in its stream, was
\* counted as dropped by its handler, or is still in the server's channel; and
\* a handler that ends has sent its stream.  The records in the channel of a
\* thread that has returned are lost to every client and counted nowhere: that
\* happens only when the thread found the channel of connections closed, which
\* it may before it has emptied the other one.
StreamIntact ==
  /\ \A c \in Clients :
       cn[c].server # None =>
       LET s == srv[cn[c].server]
           passed == SubSeq(s.offered, cn[c].since + 1, Len(s.offered) - Len(s.queue))
       IN /\ \A i, j \in DOMAIN Stream(c) : i < j => Stream(c)[i] < Stream(c)[j]
          /\ cn[c].state \in {"handled", "closed"} =>
               /\ \A i \in DOMAIN Stream(c) : \E j \in DOMAIN passed : passed[j] = Stream(c)[i]
               /\ Len(Stream(c)) + cn[c].dropped + Len(s.queue) = Len(s.offered) - cn[c].since
          /\ cn[c].state = "closed" => cn[c].received = Stream(c)
  /\ \A s \in Servers :
       srv[s].thread = "done" /\ srv[s].queue # <<>> => srv[s].accept = "closed"

\* The registry and the threads agree: a server that takes records in is the
\* one the registry has for its id, and if the registry's server does not,
\* that is because Accept failed on a listener that nobody closed.
RegistryAgrees ==
  /\ \A s \in Servers : srv[s].running => s[1] \in registered /\ s = Current(s[1])
  /\ \A x \in registered :
       LET s == srv[Current(x)] IN s.running \/ (s.listening /\ s.accept = "closed")

\* When a server stops running, for whatever reason, its thread ends and the
\* connections that have a handler are closed in the end.
StopReleases ==
  /\ \A s \in Servers : srv[s].thread = "select" /\ ~srv[s].running ~> srv[s].thread = "done"
  /\ \A c \in Clients :
       cn[c].state = "handled" /\ ~srv[cn[c].server].running ~> cn[c].state \in {"closed", "broken"}

=============================================================================
