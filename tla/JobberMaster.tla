----------------------------- MODULE JobberMaster -----------------------------
(***************************************************************************)
(* jobbermaster: a thread for each user launches a jobberrunner process,   *)
(* waits for it to connect to the quit socket, and launches another one    *)
(* when it exits.  The connection is the only hold jobbermaster has on the *)
(* process, which quits when it is closed.                                 *)
(*                                                                         *)
(* A jobberrunner (with the su process it is a child of) is seen from the  *)
(* outside: it starts, connects, and ends by itself or after it has been   *)
(* made to quit, if its job manager lets it.  MakeCmdExitedChan's channel  *)
(* has a value once the process has ended and its standard error is        *)
(* closed.                                                                 *)
(***************************************************************************)
EXTENDS Integers, UserSelection

CONSTANTS
  Users,       \* the users getAllUsers returns
  Account,     \* their accounts
  PrefsFiles,  \* what jobber.conf may be
  Faults       \* the faults that may happen

AllFaults == {"setup",   \* a directory, socket or process cannot be made
              "accept",  \* Accept on the quit socket fails
              "early",   \* jobberrunner ends before it connects
              "late",    \* jobberrunner ends after it has connected
              "wait",    \* waiting for the process fails
              "kill"}    \* jobbermaster ends without a signal it handles

ASSUME MasterAssumption == Faults \subseteq AllFaults

VARIABLES
  conf,     \* jobber.conf as it is read at the start
  master,   \* the main thread
  thread,   \* each user's runnerThread
  runner,   \* each user's latest jobberrunner
  conn      \* its connection to the quit socket

vars == <<conf, master, thread, runner, conn>>

Up == master # "exited"
Alive(u) == runner[u] \in {"starting", "connected", "quitting"}

\* doDefault, up to the point where it waits for a signal: it exits if the
\* settings cannot be initialised, and goes on without a user for whom no
\* directory can be made.
Init ==
  /\ conf \in PrefsFiles
  /\ master = IF PrefsLoad(conf) THEN "up" ELSE "exited"
  /\ thread \in [Users -> {"launch", "none"}]
  /\ \A u \in Users :
       /\ thread[u] = "launch" => PrefsLoad(conf) /\ ShouldRunForUser(conf, Account[u])
       /\ thread[u] = "none" => \/ ~PrefsLoad(conf) \/ "setup" \in Faults
                                \/ ~ShouldRunForUser(conf, Account[u])
  /\ runner = [u \in Users |-> "none"]
  /\ conn = [u \in Users |-> "none"]

\* LaunchRunner, up to the select.
LaunchRunner(u) ==
  /\ Up /\ thread[u] = "launch"
  /\ thread' = [thread EXCEPT ![u] = "accept"]
  /\ runner' = [runner EXCEPT ![u] = "starting"]
  /\ conn' = [conn EXCEPT ![u] = "none"]
  /\ UNCHANGED <<conf, master>>

LaunchFails(u) ==
  /\ Up /\ thread[u] = "launch" /\ "setup" \in Faults
  /\ thread' = [thread EXCEPT ![u] = "done"]
  /\ UNCHANGED <<conf, master, runner, conn>>

\* The select of LaunchRunner.  If jobberrunner has connected and ended, both
\* of its cases are ready, and either is taken.
Accepted(u) ==
  /\ Up /\ thread[u] = "accept" /\ conn[u] = "pending"
  /\ conn' = [conn EXCEPT ![u] = "open"]
  /\ thread' = [thread EXCEPT ![u] = "watch"]
  /\ UNCHANGED <<conf, master, runner>>

\* Mutant: the sockets are not closed.
AcceptFailsNoKill(u) ==
  /\ Up /\ thread[u] = "accept" /\ "accept" \in Faults
  /\ thread' = [thread EXCEPT ![u] = "done"]
  /\ UNCHANGED <<conf, master, runner, conn>>

AcceptFails(u) ==
  /\ Up /\ thread[u] = "accept" /\ "accept" \in Faults
  /\ thread' = [thread EXCEPT ![u] = "done"]
  /\ conn' = [conn EXCEPT ![u] = "closed"]
  /\ UNCHANGED <<conf, master, runner>>

ExitedPrematurely(u) ==
  /\ Up /\ thread[u] = "accept" /\ runner[u] = "ended"
  /\ thread' = [thread EXCEPT ![u] = "done"]
  /\ conn' = [conn EXCEPT ![u] = "closed"]
  /\ UNCHANGED <<conf, master, runner>>

\* Mutant: another process is launched although this one is alive.
RunnerExitedAlive(u) ==
  /\ Up /\ thread[u] = "watch"
  /\ thread' = [thread EXCEPT ![u] = "launch"]
  /\ UNCHANGED <<conf, master, runner, conn>>

\* The select of runnerThread: the process has exited (with a status of any
\* kind) ...
RunnerExited(u) ==
  /\ Up /\ thread[u] = "watch" /\ runner[u] = "ended"
  /\ \/ thread' = [thread EXCEPT ![u] = "launch"]
     \/ "wait" \in Faults /\ thread' = [thread EXCEPT ![u] = "done"]
  /\ UNCHANGED <<conf, master, runner, conn>>

\* Mutant: the thread does not look at the context.
CtxDoneUnseen(u) == FALSE /\ UNCHANGED vars

\* ... or the context is cancelled; the connection is left open.
CtxDone(u) ==
  /\ master = "signalled" /\ thread[u] = "watch"
  /\ thread' = [thread EXCEPT ![u] = "done"]
  /\ UNCHANGED <<conf, master, runner, conn>>

\* The rest of doDefault: a signal cancels the context, and when all threads
\* have returned the process exits, which closes all its sockets.
Signal ==
  /\ master = "up"
  /\ master' = "signalled"
  /\ UNCHANGED <<conf, thread, runner, conn>>

SocketsClosed ==
  /\ master' = "exited"
  /\ conn' = [u \in Users |-> "closed"]
  /\ UNCHANGED <<conf, thread, runner>>

Exit ==
  /\ master = "signalled"
  /\ \A u \in Users : thread[u] \in {"none", "done"}
  /\ SocketsClosed

Killed == Up /\ "kill" \in Faults /\ SocketsClosed

-----------------------------------------------------------------------------
(***************************************************************************)
(* jobberrunner, as far as the quit socket is concerned.                   *)
(***************************************************************************)

\* Mutant: a jobberrunner that cannot connect goes on.
DialUnchecked(u) ==
  /\ runner[u] = "starting"
  /\ runner' = [runner EXCEPT ![u] = "connected"]
  /\ conn' = [conn EXCEPT ![u] = IF @ = "none" THEN "pending" ELSE "none"]
  /\ UNCHANGED <<conf, master, thread>>

\* quitOnJobbermasterDiscon connects; it calls quit if nobody listens.
Dial(u) ==
  /\ runner[u] = "starting"
  /\ \/ /\ conn[u] = "none"
        /\ runner' = [runner EXCEPT ![u] = "connected"]
        /\ conn' = [conn EXCEPT ![u] = "pending"]
     \/ /\ conn[u] = "closed"
        /\ runner' = [runner EXCEPT ![u] = "quitting"]
        /\ UNCHANGED conn
  /\ UNCHANGED <<conf, master, thread>>

\* It reads from the connection until that is closed, and then calls quit.
ReadReturns(u) ==
  /\ runner[u] = "connected" /\ conn[u] = "closed"
  /\ runner' = [runner EXCEPT ![u] = "quitting"]
  /\ UNCHANGED <<conf, master, thread, conn>>

\* quit has waited for the job manager.  It need not come to that: a job
\* being tested (QuitEnds of JobManager) or a sink may keep it waiting.
QuitReturns(u) ==
  /\ runner[u] = "quitting"
  /\ runner' = [runner EXCEPT ![u] = "ended"]
  /\ UNCHANGED <<conf, master, thread, conn>>

\* It ends for a reason of its own.
Dies(u) ==
  /\ \/ runner[u] = "starting" /\ "early" \in Faults
     \/ runner[u] = "connected" /\ "late" \in Faults
  /\ runner' = [runner EXCEPT ![u] = "ended"]
  /\ UNCHANGED <<conf, master, thread, conn>>

-----------------------------------------------------------------------------

RunnerThread(u) ==
  \/ LaunchRunner(u) \/ LaunchFails(u)
  \/ Accepted(u) \/ AcceptFails(u) \/ ExitedPrematurely(u)
  \/ RunnerExited(u)

Next ==
  \/ \E u \in Users :
       \/ RunnerThread(u) \/ CtxDone(u)
       \/ Dial(u) \/ ReadReturns(u) \/ QuitReturns(u) \/ Dies(u)
  \/ Signal \/ Exit \/ Killed

Spec == Init /\ [][Next]_vars

\* Threads and processes are scheduled; a select that finds its ctx.Done case
\* ready again and again takes it in the end.  QuitReturns is not fair.
FairSpec ==
  /\ Spec
  /\ \A u \in Users : /\ WF_vars(RunnerThread(u)) /\ SF_vars(CtxDone(u))
                      /\ WF_vars(Dial(u)) /\ WF_vars(ReadReturns(u))
  /\ WF_vars(Exit)

-----------------------------------------------------------------------------
(***************************************************************************)
(* Properties.                                                             *)
(***************************************************************************)

Selected(u) ==
  /\ Account[u].home # NoHome /\ Account[u].owned /\ ~Account[u].hidden
  /\ conf.include # <<>> => SomeMatches(conf.include, Account[u]) /\ conf.exclude = <<>>
  /\ ~SomeMatches(conf.exclude, Account[u])

\* A jobberrunner is started only for a user who, as the default jobber.conf
\* says, owns a home directory, is among those included if any are, and is
\* not among those excluded; none if both lists are used, and none for a
\* hidden user.
OnlySelectedUsers == \A u \in Users : runner[u] # "none" => Selected(u)

\* Until jobbermaster is told to quit, a jobberrunner that is alive has a
\* thread that waits for it, or has been told to quit: whichever step of
\* launching it fails, none is left on its own.
AliveIsWatched ==
  \A u \in Users :
    master = "up" /\ Alive(u) => thread[u] \in {"accept", "watch"} \/ conn[u] = "closed"

\* At most one jobberrunner is alive for a user: another one is launched
\* only when its predecessor has ended.
OneAtATime ==
  [][\A u \in Users : thread[u] = "launch" /\ thread'[u] = "accept" => ~Alive(u)]_vars

\* A jobberrunner that is alive has been made to quit.
MadeToQuit(u) == Alive(u) => runner[u] = "quitting"

\* A signal ends jobbermaster and makes every jobberrunner quit, also one that
\* is being launched or relaunched at that time, and whether or not another
\* user's jobberrunner ever ends.
SignalReachesAll ==
  master = "signalled" ~> master = "exited" /\ \A u \in Users : MadeToQuit(u)

\* However jobbermaster ends, no jobberrunner outlives it for ever, provided
\* that the job managers let quit return.
NoOrphans ==
  (\A u \in Users : []<>(runner[u] # "quitting"))
    => (master = "exited" ~> \A u \in Users : ~Alive(u))

=============================================================================
