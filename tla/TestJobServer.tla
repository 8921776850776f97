----------------------------- MODULE TestJobServer -----------------------------
(***************************************************************************)
(* The test command: TestJobServer makes a socket for the test, waits up   *)
(* to a minute for the client to connect, runs the job with its output on  *)
(* the connection, and writes the result.  A test involves five threads    *)
(* (serve, the one that accepts, the one that watches for the client's     *)
(* leaving, runThread and the one that copies output), the shell, what the *)
(* shell leaves in the background, and the client.                         *)
(*                                                                         *)
(* The server's context is not modelled: nobody cancels it (JobManager).   *)
(* An error in Launch removes the directory, so it changes nothing.        *)
(***************************************************************************)
EXTENDS Integers

CONSTANTS
  Tests,   \* calls of the test command
  MaxOut,  \* bound: pieces of output of one job
  Faults   \* "accept": Accept fails; "exec": the shell cannot be started

ASSUME TestAssumption == MaxOut \in Nat /\ Faults \subseteq {"accept", "exec"}

VARIABLES
  process,  \* the job manager: "up", "waiting" in Wait, or "exited"
  t         \* the tests

vars == <<process, t>>

New == [serve   |-> "none",   \* the place of TestJobServer.serve
        accept  |-> "none",   \* the place of makeConnChan's goroutine
        client  |-> "none",
        watcher |-> "none",   \* callWhenConnClosed's goroutine
        ctx     |-> FALSE,    \* subCtx is cancelled
        listening |-> FALSE,
        dir     |-> FALSE,    \* the socket's directory is there
        shell   |-> "none",
        kids    |-> FALSE,    \* a process the shell has left holds the pipe
        wrote   |-> 0,        \* pieces of output written to the pipe ...
        copied  |-> 0,        \* ... and to the connection
        copy    |-> "none",   \* exec's goroutine that does so
        fate    |-> "none",
        told    |-> "none"]   \* the result the client has read

Init == process = "up" /\ t = [j \in Tests |-> New]

Up == process # "exited"

\* A step of one test: some fields of its record change.
Step(j, test) == Up /\ t' = [t EXCEPT ![j] = test] /\ UNCHANGED process

-----------------------------------------------------------------------------

\* TestJobServer.Launch, called by the main thread.
Launch(j) ==
  /\ process = "up" /\ t[j].serve = "none"
  /\ Step(j, [t[j] EXCEPT !.serve = "select", !.accept = "ready",
                          !.listening = TRUE, !.dir = TRUE])

(***************************************************************************)
(* makeConnChan: after the select of serve nobody receives what is sent.   *)
(***************************************************************************)

Accept(j) ==
  /\ t[j].accept = "ready" /\ t[j].listening /\ t[j].client \in {"connected", "left"}
  /\ Step(j, [t[j] EXCEPT !.accept = "sending"])

AcceptFails(j) ==
  /\ t[j].accept = "ready" /\ (~t[j].listening \/ "accept" \in Faults)
  /\ Step(j, [t[j] EXCEPT !.accept = "closed"])

(***************************************************************************)
(* serve.                                                                  *)
(***************************************************************************)

GotConn(j) ==
  /\ t[j].serve = "select" /\ t[j].accept = "sending"
  /\ Step(j, [t[j] EXCEPT !.serve = "start", !.accept = "sent", !.watcher = "reading"])

\* Accept has failed, or the minute is over.
NoConn(j) ==
  /\ t[j].serve = "select"
  /\ Step(j, [t[j] EXCEPT !.serve = "unwind"])

\* testJobThread.Run; exec does not start a command whose context is
\* cancelled.
StartJob(j) ==
  /\ t[j].serve = "start" /\ ~t[j].ctx
  /\ Step(j, [t[j] EXCEPT !.serve = "wait", !.shell = "running", !.copy = "copying"])

StartFails(j) ==
  /\ t[j].serve = "start" /\ (t[j].ctx \/ "exec" \in Faults)
  /\ Step(j, [t[j] EXCEPT !.serve = "unwind"])

\* Mutant: the process is waited for, but not its output.
WaitReturnsNoCopy(test) == test.shell \in {"ok", "failed", "killed"}

\* Mutant: after a cancellation nothing is waited for.
WaitReturnsCancelled(test) ==
  test.ctx \/ (test.shell \in {"ok", "failed", "killed"} /\ test.copy \in {"eof", "error"})

\* exec.Cmd.Wait: the process has ended, and the copying of its output too.
WaitReturns(test) ==
  test.shell \in {"ok", "failed", "killed"} /\ test.copy \in {"eof", "error"}

\* The rest of runThread.  Either case of serve's second select leads here.
JobFate(j) ==
  /\ t[j].serve = "wait" /\ WaitReturns(t[j])
  /\ Step(j, [t[j] EXCEPT
       !.serve = "report",
       !.fate = IF t[j].shell = "ok" /\ t[j].copy = "eof" THEN "succeeded"
                ELSE IF t[j].ctx THEN "cancelled" ELSE "failed"])

Report(j) ==
  /\ t[j].serve = "report"
  /\ Step(j, [t[j] EXCEPT !.serve = "unwind",
                          !.told = IF t[j].client = "connected" THEN t[j].fate ELSE @])

\* The deferred functions, last one first: cancelSubCtx and conn.Close (if
\* there is a connection) ...
CloseConn(j) ==
  /\ t[j].serve = "unwind"
  /\ Step(j, [t[j] EXCEPT
       !.serve = "closed",
       !.ctx = (t[j].accept = "sent"),
       !.client = IF t[j].accept = "sent" /\ @ = "connected" THEN "disconnected" ELSE @])

\* ... waitGroup.Done ...
Done(j) ==
  /\ t[j].serve = "closed"
  /\ Step(j, [t[j] EXCEPT !.serve = "done"])

\* Mutant: the listener is left open.
CloseListenerNot(j) ==
  /\ t[j].serve = "done" /\ t[j].listening
  /\ Step(j, [t[j] EXCEPT !.serve = "end", !.dir = FALSE])

\* ... listener.Close, which disconnects a client that was not accepted ...
CloseListener(j) ==
  /\ t[j].serve = "done" /\ t[j].listening
  /\ Step(j, [t[j] EXCEPT
       !.listening = FALSE,
       !.client = IF t[j].accept \in {"ready", "closed"} /\ @ = "connected" THEN "disconnected" ELSE @])

\* ... and os.RemoveAll.
RemoveDir(j) ==
  /\ t[j].serve = "done" /\ ~t[j].listening
  /\ Step(j, [t[j] EXCEPT !.serve = "end", !.dir = FALSE])

\* Mutant: that the client has left is not noticed.
WatcherSeesBlind(j) ==
  /\ t[j].watcher = "reading" /\ t[j].client = "disconnected"
  /\ Step(j, [t[j] EXCEPT !.watcher = "done", !.ctx = TRUE])

\* callWhenConnClosed: Read fails when either end is closed.
WatcherSees(j) ==
  /\ t[j].watcher = "reading" /\ t[j].client \in {"left", "disconnected"}
  /\ Step(j, [t[j] EXCEPT !.watcher = "done", !.ctx = TRUE])

-----------------------------------------------------------------------------
(***************************************************************************)
(* The subprocess, and the goroutines with which exec looks after it.      *)
(***************************************************************************)

JobForks(j) ==
  /\ t[j].shell = "running" /\ ~t[j].kids
  /\ Step(j, [t[j] EXCEPT !.kids = TRUE])

JobWrites(j) ==
  /\ t[j].shell = "running" \/ t[j].kids
  /\ t[j].copy = "copying" /\ t[j].wrote < MaxOut
  /\ Step(j, [t[j] EXCEPT !.wrote = @ + 1])

ShellEnds(j) ==
  /\ t[j].shell = "running"
  /\ \E how \in {"ok", "failed"} : Step(j, [t[j] EXCEPT !.shell = how])

KidsEnd(j) ==
  /\ t[j].kids
  /\ Step(j, [t[j] EXCEPT !.kids = FALSE])

\* A cancelled context kills the shell, and only the shell.
Kill(j) ==
  /\ t[j].shell = "running" /\ t[j].ctx
  /\ Step(j, [t[j] EXCEPT !.shell = "killed"])

\* Output is copied until a Write fails or the pipe is at its end.
CopyOutput(j) ==
  /\ t[j].copy = "copying"
  /\ \/ /\ t[j].copied < t[j].wrote
        /\ Step(j, IF t[j].client = "connected" THEN [t[j] EXCEPT !.copied = @ + 1]
                                                ELSE [t[j] EXCEPT !.copy = "error"])
     \/ /\ t[j].copied = t[j].wrote /\ t[j].shell # "running" /\ ~t[j].kids
        /\ Step(j, [t[j] EXCEPT !.copy = "eof"])

-----------------------------------------------------------------------------

\* doTestCmd of the client: it connects to the path it was told, reads until
\* the end, and may be interrupted.
Dial(j) ==
  /\ t[j].client = "none" /\ t[j].serve # "none"
  /\ Step(j, [t[j] EXCEPT !.client = IF t[j].listening THEN "connected" ELSE "refused"])

ClientLeaves(j) ==
  /\ t[j].client = "connected"
  /\ Step(j, [t[j] EXCEPT !.client = "left"])

\* The job manager shuts down: TestJobServer.Wait, and the end of the process,
\* which closes the connections nobody has closed.
Quit == process = "up" /\ process' = "waiting" /\ UNCHANGED t

Exit ==
  /\ process = "waiting"
  /\ \A j \in Tests : t[j].serve \in {"none", "done", "end"}
  /\ process' = "exited"
  /\ t' = [j \in Tests |-> [t[j] EXCEPT !.client = IF @ = "connected" THEN "disconnected" ELSE @]]

Goroutines(j) ==
  \/ Accept(j) \/ AcceptFails(j)
  \/ NoConn(j) \/ GotConn(j) \/ StartJob(j) \/ StartFails(j)
  \/ JobFate(j) \/ Report(j)
  \/ CloseConn(j) \/ Done(j) \/ CloseListener(j) \/ RemoveDir(j)
  \/ WatcherSees(j) \/ Kill(j) \/ CopyOutput(j)

Job(j) == JobForks(j) \/ JobWrites(j) \/ ShellEnds(j) \/ KidsEnd(j)

Next ==
  \/ \E j \in Tests : Launch(j) \/ Goroutines(j) \/ Job(j) \/ Dial(j) \/ ClientLeaves(j)
  \/ Quit \/ Exit

Spec == Init /\ [][Next]_vars

\* Each goroutine is scheduled, a minute passes, and a client that stays reads
\* what it is sent, as doTestCmd does.  When clients come and go, what the job
\* does and whether the user quits is free.
FairSpec ==
  /\ Spec
  /\ \A j \in Tests :
       /\ WF_vars(Accept(j) \/ AcceptFails(j))
       /\ WF_vars(NoConn(j) \/ GotConn(j) \/ StartJob(j) \/ StartFails(j) \/ JobFate(j) \/ Report(j)
                  \/ CloseConn(j) \/ Done(j) \/ CloseListener(j) \/ RemoveDir(j))
       /\ WF_vars(WatcherSees(j)) /\ WF_vars(Kill(j)) /\ WF_vars(CopyOutput(j))
  /\ WF_vars(Exit)

-----------------------------------------------------------------------------
(***************************************************************************)
(* Properties.                                                             *)
(***************************************************************************)

\* A client that is told a result is told how the shell ended, never that the
\* job was cancelled, and only after it has been sent everything that the job
\* and the processes it has left behind wrote.
ResultIsTrue ==
  \A j \in Tests :
    t[j].told # "none" =>
      /\ t[j].told = IF t[j].shell = "ok" THEN "succeeded" ELSE "failed"
      /\ t[j].shell # "killed"
      /\ ~t[j].kids /\ t[j].copied = t[j].wrote

\* Once serve has told the wait group that it is done, so in particular when
\* the process exits after Wait, its shell has ended and its connection is
\* closed; what may remain is the directory.
NothingLeftRunning ==
  \A j \in Tests :
    t[j].serve \in {"done", "end"} =>
      /\ t[j].shell # "running"
      /\ t[j].accept = "sent" => t[j].client # "connected"

\* When the client leaves, the shell ends.
CancelEndsShell ==
  \A j \in Tests : t[j].client = "left" /\ t[j].shell = "running" ~> t[j].shell # "running"

\* The goroutine that accepts a connection just when the minute is over keeps
\* it for as long as the process lives.
Leaked(test) == test.accept = "sending" /\ test.serve \in {"unwind", "closed", "done", "end"}

\* A client whose job has ended, was not started or is not going to be is
\* disconnected in the end, unless its connection is leaked.
ClientReleased ==
  \A j \in Tests :
    t[j].client = "connected" /\ t[j].shell # "running" /\ ~t[j].kids ~>
      t[j].client # "connected" \/ t[j].shell = "running" \/ t[j].kids \/ Leaked(t[j])

=============================================================================
