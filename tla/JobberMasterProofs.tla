-------------------------- MODULE JobberMasterProofs --------------------------
(***************************************************************************)
(* Proofs about JobberMaster.                                              *)
(*                                                                         *)
(* Both safety properties follow from WatchInv, which says for each place  *)
(* of a user's thread what it knows of the user's jobberrunner.  A thread  *)
(* about to launch knows that there is none: that is not part of the       *)
(* properties, and what makes them inductive.                              *)
(***************************************************************************)
EXTENDS JobberMaster, TLAPS

\* The functions are functions on Users.
FunctionsOK ==
  /\ DOMAIN thread = Users /\ thread = [u \in Users |-> thread[u]]
  /\ DOMAIN runner = Users /\ runner = [u \in Users |-> runner[u]]
  /\ DOMAIN conn = Users /\ conn = [u \in Users |-> conn[u]]

NoneWhenLaunching == \A u \in Users : thread[u] = "launch" => ~Alive(u)

WatchInv == FunctionsOK /\ NoneWhenLaunching /\ AliveIsWatched

LEMMA WatchInit == Init => WatchInv
BY DEF Init, WatchInv, FunctionsOK, NoneWhenLaunching, AliveIsWatched, Alive

LEMMA WatchStep == WatchInv /\ [Next]_vars => WatchInv'
<1> SUFFICES ASSUME WatchInv, [Next]_vars PROVE WatchInv'
  OBVIOUS
<1> USE DEF WatchInv, FunctionsOK, NoneWhenLaunching, AliveIsWatched, Alive
<1>1. CASE UNCHANGED vars
  BY <1>1 DEF vars
<1>2. ASSUME NEW u \in Users, LaunchRunner(u) PROVE WatchInv'
  BY <1>2 DEF LaunchRunner
<1>3. ASSUME NEW u \in Users, LaunchFails(u) PROVE WatchInv'
  BY <1>3 DEF LaunchFails
<1>4. ASSUME NEW u \in Users, Accepted(u) PROVE WatchInv'
  BY <1>4 DEF Accepted
<1>5. ASSUME NEW u \in Users, AcceptFails(u) \/ ExitedPrematurely(u) PROVE WatchInv'
  BY <1>5 DEF AcceptFails, ExitedPrematurely
<1>6. ASSUME NEW u \in Users, RunnerExited(u) PROVE WatchInv'
  BY <1>6 DEF RunnerExited
<1>7. ASSUME NEW u \in Users, CtxDone(u) PROVE WatchInv'
  BY <1>7 DEF CtxDone
<1>8. ASSUME NEW u \in Users, Dial(u) PROVE WatchInv'
  BY <1>8 DEF Dial
<1>9. ASSUME NEW u \in Users, ReadReturns(u) \/ QuitReturns(u) \/ Dies(u) PROVE WatchInv'
  BY <1>9 DEF ReadReturns, QuitReturns, Dies
<1>10. CASE Signal
  BY <1>10 DEF Signal
<1>11. CASE Exit \/ Killed
  BY <1>11 DEF Exit, Killed, SocketsClosed
<1> QED BY <1>1, <1>2, <1>3, <1>4, <1>5, <1>6, <1>7, <1>8, <1>9, <1>10, <1>11
        DEF Next, RunnerThread

LEMMA WatchHolds == Spec => []WatchInv
BY WatchInit, WatchStep, PTL DEF Spec

\* For any set of users and any faults, no jobberrunner that is alive is left
\* without a thread that waits for it while jobbermaster is up.
THEOREM AliveAreWatched == Spec => []AliveIsWatched
<1>1. WatchInv => AliveIsWatched
  BY DEF WatchInv
<1> QED BY <1>1, WatchHolds, PTL

\* No user ever has two jobberrunners.
THEOREM OneRunnerAtATime == Spec => OneAtATime
<1>1. WatchInv => (\A u \in Users :
                     thread[u] = "launch" /\ thread'[u] = "accept" => ~Alive(u))
  BY DEF WatchInv, NoneWhenLaunching
<1>2. WatchInv /\ [Next]_vars =>
        [\A u \in Users : thread[u] = "launch" /\ thread'[u] = "accept" => ~Alive(u)]_vars
  BY <1>1
<1> QED BY <1>2, WatchHolds, PTL DEF Spec, OneAtATime

(***************************************************************************)
(* Who is served is decided in Init; a user without a thread never gets    *)
(* one, and no process without it.                                         *)
(***************************************************************************)

ServedAreSelected ==
  \A u \in Users : (thread[u] # "none" => Selected(u)) /\ (thread[u] = "none" => runner[u] = "none")

LEMMA SelectedInit == Init => ServedAreSelected
<1> SUFFICES ASSUME Init, NEW u \in Users
             PROVE (thread[u] # "none" => Selected(u)) /\ (thread[u] = "none" => runner[u] = "none")
  BY DEF ServedAreSelected
<1>1. runner[u] = "none" /\ thread[u] \in {"launch", "none"}
  BY DEF Init
<1>2. CASE thread[u] = "launch"
  <2>1. PrefsLoad(conf) /\ ShouldRunForUser(conf, Account[u])
    BY <1>2 DEF Init
  <2>2. Account[u].home # NoHome /\ Account[u].owned /\ ~Account[u].hidden
    BY <2>1 DEF ShouldRunForUser, UserHasHome, ShouldRunForUserPlatform
  <2>3. conf.include # <<>> => SomeMatches(conf.include, Account[u]) /\ conf.exclude = <<>>
    BY <2>1 DEF PrefsLoad, ShouldRunForUser, PrefsAllow, ListAllows
  <2>4. ~SomeMatches(conf.exclude, Account[u])
    <3>1. CASE conf.exclude = <<>>
      BY <3>1 DEF SomeMatches
    <3>2. CASE conf.exclude # <<>>
      BY <2>1, <3>2 DEF PrefsLoad, ShouldRunForUser, PrefsAllow, ListAllows
    <3> QED BY <3>1, <3>2
  <2> QED BY <1>1, <1>2, <2>2, <2>3, <2>4 DEF Selected
<1> QED BY <1>1, <1>2

LEMMA SelectedStep == WatchInv /\ ServedAreSelected /\ [Next]_vars => ServedAreSelected'
<1> SUFFICES ASSUME WatchInv, ServedAreSelected, [Next]_vars PROVE ServedAreSelected'
  OBVIOUS
<1>1. conf' = conf
  BY DEF Next, vars, RunnerThread, LaunchRunner, LaunchFails, Accepted, AcceptFails,
         ExitedPrematurely, RunnerExited, CtxDone, Dial, ReadReturns, QuitReturns, Dies, Signal, Exit,
         Killed, SocketsClosed
<1>2. \A u \in Users : Selected(u)' = Selected(u)
  BY <1>1 DEF Selected
<1>3. \A u \in Users : thread'[u] = "none" <=> thread[u] = "none"
  BY DEF WatchInv, FunctionsOK, Next, vars, RunnerThread, LaunchRunner, LaunchFails, Accepted,
         AcceptFails, ExitedPrematurely, RunnerExited, CtxDone, Dial, ReadReturns, QuitReturns, Dies, Signal,
         Exit, Killed, SocketsClosed
<1>4. \A u \in Users : thread[u] = "none" => runner'[u] = runner[u]
  BY DEF WatchInv, FunctionsOK, ServedAreSelected, Next, vars, RunnerThread, LaunchRunner,
         LaunchFails, Accepted, AcceptFails, ExitedPrematurely, RunnerExited, CtxDone, Dial,
         ReadReturns, QuitReturns, Dies, Signal, Exit, Killed, SocketsClosed
<1> QED BY <1>2, <1>3, <1>4 DEF ServedAreSelected

\* For any accounts and any preferences file, a jobberrunner is started only
\* for users the preferences select and who own a home directory.
THEOREM SelectedUsersOnly == Spec => []OnlySelectedUsers
<1>1. ServedAreSelected => OnlySelectedUsers
  BY DEF ServedAreSelected, OnlySelectedUsers
<1> QED BY <1>1, SelectedInit, SelectedStep, WatchHolds, PTL DEF Spec

=============================================================================
