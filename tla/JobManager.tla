------------------------------ MODULE JobManager ------------------------------
(***************************************************************************)
(* One jobberrunner process: the job manager's main thread, the job-runner *)
(* thread it starts and stops, the threads that run jobs, the goroutines   *)
(* that serve IPC clients, the "test" server and the ways the process      *)
(* ends.                                                                   *)
(*                                                                         *)
(* The main thread owns the in-memory jobfile; a new jobfile is installed  *)
(* by cancelling the job-runner thread, consuming its run records until    *)
(* its channel is closed, activating the new file and starting the thread  *)
(* again.  Each installed jobfile is one generation: it comes with its own *)
(* Job objects and its own run log.                                        *)
(*                                                                         *)
(* Abstracted: when a job is due (any queued job may be popped at any      *)
(* time), whether its status lets it run, the text of records and replies, *)
(* and the parts of Activate (it succeeds, or fails when "activate" is     *)
(* among the Faults).                                                      *)
(***************************************************************************)
EXTENDS Integers

CONSTANTS
  Jobs,         \* names of jobs
  DiskJobs,     \* the jobs the jobfile on disk may have (a bound)
  Clients,      \* IPC connections
  InetClients,  \* the connections made over TCP
  NoClient,     \* the initial load is done for no client
  RunIds,       \* one identifier for each run of a job (bounds the runs)
  Ops,          \* the commands the clients may send
  MaxCalls,     \* bound on the number of commands sent
  Faults        \* the faults of the environment that may happen

AllOps == {"reload", "list", "init", "cat", "test", "setJob", "deleteJob",
           "pause", "resume"}
AllFaults == {"activate", "exec", "sink", "disk"}

ASSUME ConstantsAssumption ==
  /\ DiskJobs \subseteq Jobs
  /\ InetClients \subseteq Clients
  /\ NoClient \notin Clients
  /\ Ops \subseteq AllOps
  /\ MaxCalls \in Nat
  /\ Faults \subseteq AllFaults

VARIABLES
  mgr,        \* where the main thread is
  mainCtx,    \* JobManager.mainThreadCtx, as a number
  testCtx,    \* the context the test server was made with
  cancelled,  \* the contexts that have been cancelled
  jfile,      \* JobManager.jfile
  gen,        \* number of jobfiles activated so far
  paused,     \* the jobs of jfile whose Paused is set
  pend,       \* the jobs of the raw jobfile being installed
  serving,    \* the client whose command the main thread is executing
  sinks,      \* whether handleRunRec is waiting for a sink to return
  disk,       \* the jobfile on disk
  rPc,        \* where the job-runner thread is
  flag,       \* JobRunnerThread.Running: "set" or "clear"
  chan,       \* JobRunnerThread.runRecChan
  rCtx,       \* the context made by the latest Start
  rGen,       \* the generation whose jobs the latest Start was given
  queue,      \* the jobs in that thread's JobQueue
  runSt,      \* where the thread of each run is
  runGen,     \* the generation that started it
  runOut,     \* its outcome
  runLog,     \* the generation whose run log holds its record
  tests,      \* number of test threads in the test server's wait group
  listener,   \* the IPC server's listening socket
  clSt,       \* where the handler of each connection is
  clCmd,      \* the command it is sending
  reply,      \* the latest reply it got
  calls,      \* number of commands sent so far
  proc        \* the process: up, or how it ended

workVars == <<pend, serving, sinks>>
mgrVars == <<mgr, workVars>>
ctxVars == <<mainCtx, testCtx, cancelled>>
fileVars == <<jfile, gen, paused>>
runnerVars == <<rPc, flag, chan, rCtx, rGen, queue>>
runVars == <<runSt, runGen, runOut, runLog>>
clientVars == <<clSt, clCmd, reply, calls>>
vars == <<mgrVars, ctxVars, fileVars, disk, runnerVars, runVars, tests,
          listener, clientVars, proc>>

-----------------------------------------------------------------------------
NilFile == [gen |-> -1, jobs |-> {}]
NoGen == -1

DiskStates ==
  [kind : {"missing", "unreadable"}, jobs : {{}}]
    \cup [kind : {"raw"}, jobs : SUBSET DiskJobs]

Cmds ==
  {cmd \in [op : {"reload", "list", "init"}, jobs : {{}}]
             \cup [op : {"cat", "test", "setJob", "deleteJob"},
                   jobs : {{j} : j \in Jobs}]
             \cup [op : {"pause", "resume"}, jobs : SUBSET Jobs] :
     cmd.op \in Ops}

NoCmd == [op |-> "list", jobs |-> {}]

Ends == {"exited", "panicNilFile", "panicRecErr", "panicSink",
         "panicSendClosed"}

\* What a run record says, as far as the main thread's control goes: RunJob
\* met an unexpected error, or the command ended (well, badly or killed).
Outcomes == {"ended", "err"}

Up == proc = "up"

\* The main thread is at m, and not inside handleRunRec.
MainAt(m) == Up /\ mgr = m /\ sinks = "idle"

\* The field Running of the JobRunnerThread.
Running == flag = "set"

\* A run whose thread is still in the job-runner thread's wait group.
Live(r) == runSt[r] \in {"exec", "sending"}

\* The context given to RunJob is the one of the generation that started it;
\* those of earlier generations were cancelled when they were replaced.
CtxDone(r) == runGen[r] # rGen \/ rCtx = "cancelled"

-----------------------------------------------------------------------------
\* NewJobManager: an empty jobfile and a context, given to the test server.
Init ==
  /\ mgr = "new" /\ pend = {} /\ serving = NoClient /\ sinks = "idle"
  /\ mainCtx = 0 /\ testCtx = 0 /\ cancelled = {}
  /\ jfile = [gen |-> 0, jobs |-> {}] /\ gen = 0 /\ paused = {}
  /\ disk \in DiskStates
  /\ rPc = "off" /\ flag = "clear" /\ chan = "nil" /\ rCtx = "none"
  /\ rGen = 0 /\ queue = {}
  /\ runSt = [r \in RunIds |-> "new"]
  /\ runGen = [r \in RunIds |-> NoGen]
  /\ runOut = [r \in RunIds |-> "ended"]
  /\ runLog = [r \in RunIds |-> NoGen]
  /\ tests = 0
  /\ listener = "none"
  /\ clSt = [c \in Clients |-> "off"]
  /\ clCmd = [c \in Clients |-> NoCmd]
  /\ reply = [c \in Clients |-> "none"]
  /\ calls = 0
  /\ proc = "up"

-----------------------------------------------------------------------------
(***************************************************************************)
(* Pieces of the main thread's operations.                                 *)
(***************************************************************************)

\* Mutant: Cancel forgets to cancel.
CancelRunnerForgotten == rCtx' = rCtx

\* JobRunnerThread.Cancel; before the first Start there is nothing to cancel.
CancelRunner == rCtx' = IF rCtx = "none" THEN "none" ELSE "cancelled"

\* JobRunnerThread.Start with the jobs of generation g: SetJobs queues those
\* that have a next run time.  It panics when Running; NoProtocolPanic says
\* that it is never called then.
Start(g, js) ==
  /\ ~Running
  /\ flag' = "set" /\ chan' = "open" /\ rCtx' = "live"
  /\ rGen' = g /\ rPc' = "pop"
  /\ queue' \in SUBSET js

\* The response to the command of client c, if the work was for a client.
Respond(c, v) ==
  /\ clSt' = [d \in Clients |-> IF d = c THEN "conn" ELSE clSt[d]]
  /\ reply' = [d \in Clients |-> IF d = c THEN v ELSE reply[d]]
  /\ clCmd' = [d \in Clients |-> IF d = c THEN NoCmd ELSE clCmd[d]]
  /\ UNCHANGED calls

\* The handler of client c waits for the response.
Await(c) ==
  /\ clSt' = [d \in Clients |-> IF d = c THEN "waiting" ELSE clSt[d]]
  /\ UNCHANGED <<clCmd, reply, calls>>

\* The beginning of replaceCurrJobfile: cancel the job-runner thread, then
\* consume its records (HandleRunRec) until Install.
ReplaceCurrJobfile(js, c) ==
  /\ CancelRunner
  /\ pend' = js /\ serving' = c /\ mgr' = "drain"
  /\ UNCHANGED <<sinks, rPc, flag, chan, rGen, queue, proc>>

\* Mutant: the job-runner thread is cancelled before the jobfile is read.
LoadJobfileCancelFirst(c) ==
  \/ /\ disk.kind # "unreadable"
     /\ ReplaceCurrJobfile(disk.jobs, c)
     /\ Await(c)
  \/ /\ disk.kind = "unreadable"
     /\ Running
     /\ CancelRunner
     /\ mgr' = "loop"
     /\ Respond(c, "error")
     /\ UNCHANGED <<rPc, flag, chan, rGen, queue, workVars, proc>>
  \/ /\ disk.kind = "unreadable"
     /\ ~Running
     /\ Start(jfile.gen, jfile.jobs)
     /\ mgr' = "loop"
     /\ Respond(c, "error")
     /\ UNCHANGED <<workVars, proc>>

\* loadJobfile: a missing file counts as an empty one; one that cannot be
\* opened, may not be loaded or does not parse is an error, and then the
\* job-runner thread is started if it is not running.
LoadJobfile(c) ==
  \/ /\ disk.kind # "unreadable"
     /\ ReplaceCurrJobfile(disk.jobs, c)
     /\ Await(c)
  \/ /\ disk.kind = "unreadable"
     /\ Running
     /\ mgr' = "loop"
     /\ Respond(c, "error")
     /\ UNCHANGED <<runnerVars, workVars, proc>>
  \/ /\ disk.kind = "unreadable"
     /\ ~Running
     /\ Start(jfile.gen, jfile.jobs)
     /\ mgr' = "loop"
     /\ Respond(c, "error")
     /\ UNCHANGED <<workVars, proc>>

-----------------------------------------------------------------------------
(***************************************************************************)
(* The main thread.                                                        *)
(***************************************************************************)

\* Launch: runMainThread makes a new context and starts the main thread.
Launch ==
  /\ Up /\ mgr = "new"
  /\ mainCtx' = 1
  /\ mgr' = "load"
  /\ UNCHANGED <<workVars, testCtx, cancelled, fileVars, disk, runnerVars,
                 runVars, tests, listener, clientVars, proc>>

\* The load at the beginning of the main thread.
InitialLoad ==
  /\ MainAt("load")
  /\ LoadJobfile(NoClient)
  /\ UNCHANGED <<ctxVars, fileVars, disk, runVars, tests, listener>>

\* The end of replaceCurrJobfile, once the channel is closed (or none was
\* ever made): activate the new jobfile and start the job-runner thread.
Install ==
  /\ MainAt("drain") /\ chan # "open"
  /\ gen' = gen + 1
  /\ jfile' = [gen |-> gen + 1, jobs |-> pend]
  /\ paused' = {}
  /\ Start(gen + 1, pend)
  /\ mgr' = "loop"
  /\ Respond(serving, "ok")
  /\ UNCHANGED <<workVars, ctxVars, disk, runVars, tests, listener, proc>>

\* Activate failed: its nil result has already replaced the jobfile, and the
\* argument self.jfile.Jobs of Start dereferences it.
InstallFails ==
  /\ MainAt("drain") /\ chan # "open"
  /\ "activate" \in Faults
  /\ jfile' = NilFile
  /\ proc' = "panicNilFile"
  /\ UNCHANGED <<mgrVars, ctxVars, gen, paused, disk, runnerVars, runVars,
                 tests, listener, clientVars>>

\* handleRunRec, of a record received in the main loop, while the records of
\* a thread being replaced are consumed, or at shutdown.  The record goes
\* into the run log first; if the job has sinks for this outcome, the main
\* thread then waits for each of them.
HandleRunRec(r) ==
  /\ \E m \in {"loop", "drain", "shutdown"} : MainAt(m)
  /\ chan = "open" /\ runSt[r] = "sending"
  /\ \/ /\ runOut[r] = "err"
        /\ proc' = "panicRecErr"
        /\ UNCHANGED <<runSt, runLog, sinks>>
     \/ /\ runOut[r] # "err"
        /\ runSt' = [runSt EXCEPT ![r] = "recorded"]
        /\ runLog' = [runLog EXCEPT ![r] = jfile.gen]
        /\ sinks' \in {"idle", "busy"}
        /\ UNCHANGED proc
  /\ UNCHANGED <<mgr, pend, serving, ctxVars, fileVars, disk, runnerVars,
                 runGen, runOut, tests, listener, clientVars>>

\* The sinks have returned.  One whose program cannot be started ends the
\* process instead; the program of one that can may go on for ever, as nothing
\* but its own end stops it.
SinksReturn ==
  /\ Up /\ sinks = "busy"
  /\ sinks' = "idle"
  /\ proc' \in IF "sink" \in Faults THEN {"up", "panicSink"} ELSE {"up"}
  /\ UNCHANGED <<mgr, pend, serving, ctxVars, fileVars, disk, runnerVars,
                 runVars, tests, listener, clientVars>>

\* Mutants: the records are not consumed at shutdown; the job-runner thread
\* is not cancelled.
LeaveLoopNoDrain ==
  /\ MainAt("loop") /\ mainCtx \in cancelled
  /\ mgr' = "waitTests"
  /\ CancelRunner
  /\ UNCHANGED <<workVars, ctxVars, fileVars, disk, rPc, flag, chan,
                 rGen, queue, runVars, tests, listener, clientVars, proc>>

LeaveLoopNoCancel ==
  /\ MainAt("loop") /\ mainCtx \in cancelled
  /\ mgr' = "shutdown"
  /\ UNCHANGED <<workVars, ctxVars, fileVars, disk, runnerVars, runVars,
                 tests, listener, clientVars, proc>>

\* The main loop finds its context cancelled: it cancels the job-runner
\* thread and goes on to consume its records.
LeaveLoop ==
  /\ MainAt("loop") /\ mainCtx \in cancelled
  /\ mgr' = "shutdown"
  /\ CancelRunner
  /\ UNCHANGED <<workVars, ctxVars, fileVars, disk, rPc, flag, chan,
                 rGen, queue, runVars, tests, listener, clientVars, proc>>

\* Mutant: shutdown goes on while the channel is still open.
ShutdownNotDrained ==
  /\ MainAt("shutdown")
  /\ mgr' = "waitTests"
  /\ UNCHANGED <<workVars, ctxVars, fileVars, disk, runnerVars, runVars,
                 tests, listener, clientVars, proc>>

\* All records are consumed.
ShutdownDrained ==
  /\ MainAt("shutdown") /\ chan # "open"
  /\ mgr' = "waitTests"
  /\ UNCHANGED <<workVars, ctxVars, fileVars, disk, runnerVars, runVars,
                 tests, listener, clientVars, proc>>

\* testJobServer.Wait returns; the deferred close of CmdChan.
TestsEnded ==
  /\ MainAt("waitTests") /\ tests = 0
  /\ mgr' = "closed"
  /\ UNCHANGED <<workVars, ctxVars, fileVars, disk, runnerVars, runVars,
                 tests, listener, clientVars, proc>>

\* The deferred close of mainThreadDoneChan lets main (or quit) exit.
Exit ==
  /\ MainAt("closed")
  /\ proc' = "exited"
  /\ UNCHANGED <<mgrVars, ctxVars, fileVars, disk, runnerVars, runVars, tests,
                 listener, clientVars>>

-----------------------------------------------------------------------------
(***************************************************************************)
(* doCmd: the commands, executed in the main thread.  CmdChan has no       *)
(* buffer, so a command is received in the step that executes it.          *)
(***************************************************************************)
Receives(c, op) ==
  /\ MainAt("loop")
  /\ clSt[c] = "sending" /\ clCmd[c].op = op

Reload(c) ==
  /\ Receives(c, "reload")
  /\ LoadJobfile(c)
  /\ UNCHANGED <<ctxVars, fileVars, disk, runVars, tests, listener>>

\* SetJob and DeleteJob start from the raw form of the jobfile in memory.
SetRawJobs(c, js) ==
  /\ ReplaceCurrJobfile(js, c)
  /\ Await(c)
  /\ UNCHANGED <<ctxVars, fileVars, disk, runVars, tests, listener>>

SetJob(c) ==
  /\ Receives(c, "setJob")
  /\ SetRawJobs(c, jfile.jobs \cup clCmd[c].jobs)

DeleteJob(c) ==
  /\ Receives(c, "deleteJob")
  /\ SetRawJobs(c, jfile.jobs \ clCmd[c].jobs)

\* ListJobs and Log; Log fails if the run log cannot be read.
List(c) ==
  /\ Receives(c, "list")
  /\ \E v \in {"ok", "error"} :
       /\ v = "error" => "disk" \in Faults
       /\ Respond(c, v)
  /\ UNCHANGED <<mgrVars, ctxVars, fileVars, disk, runnerVars, runVars, tests,
                 listener, proc>>

Cat(c) ==
  /\ Receives(c, "cat")
  /\ Respond(c, IF clCmd[c].jobs \subseteq jfile.jobs THEN "ok" ELSE "error")
  /\ UNCHANGED <<mgrVars, ctxVars, fileVars, disk, runnerVars, runVars, tests,
                 listener, proc>>

\* Pause and Resume name jobs, or none for all; one unknown name refuses the
\* whole command.
Named(c) == IF clCmd[c].jobs = {} THEN jfile.jobs ELSE clCmd[c].jobs

\* Mutant: the known jobs are paused before the unknown one is met.
PausePartly(c) ==
  /\ Receives(c, "pause")
  /\ paused' = paused \cup (Named(c) \cap jfile.jobs)
  /\ Respond(c, IF Named(c) \subseteq jfile.jobs THEN "ok" ELSE "error")
  /\ UNCHANGED <<mgrVars, ctxVars, jfile, gen, disk, runnerVars, runVars,
                 tests, listener, proc>>

Pause(c) ==
  /\ Receives(c, "pause")
  /\ \/ /\ Named(c) \subseteq jfile.jobs
        /\ paused' = paused \cup Named(c)
        /\ Respond(c, "ok")
     \/ /\ ~(Named(c) \subseteq jfile.jobs)
        /\ Respond(c, "error")
        /\ UNCHANGED paused
  /\ UNCHANGED <<mgrVars, ctxVars, jfile, gen, disk, runnerVars, runVars,
                 tests, listener, proc>>

Resume(c) ==
  /\ Receives(c, "resume")
  /\ \/ /\ Named(c) \subseteq jfile.jobs
        /\ paused' = paused \ Named(c)
        /\ Respond(c, "ok")
     \/ /\ ~(Named(c) \subseteq jfile.jobs)
        /\ Respond(c, "error")
        /\ UNCHANGED paused
  /\ UNCHANGED <<mgrVars, ctxVars, jfile, gen, disk, runnerVars, runVars,
                 tests, listener, proc>>

\* Init writes the default jobfile (which defines no job) if there is none;
\* a failing write leaves an incomplete file behind.
InitCmd(c) ==
  /\ Receives(c, "init")
  /\ \/ /\ disk.kind = "missing"
        /\ disk' = [kind |-> "raw", jobs |-> {}]
        /\ Respond(c, "ok")
     \/ /\ disk.kind = "missing" /\ "disk" \in Faults
        /\ disk' \in DiskStates /\ disk'.jobs = {}
        /\ Respond(c, "error")
     \/ /\ disk.kind # "missing"
        /\ Respond(c, "error")
        /\ UNCHANGED disk
  /\ UNCHANGED <<mgrVars, ctxVars, fileVars, runnerVars, runVars, tests,
                 listener, proc>>

\* Test is refused over TCP and for an unknown job; otherwise the test server
\* makes a socket and starts a thread.
Test(c) ==
  /\ Receives(c, "test")
  /\ \/ /\ c \notin InetClients /\ clCmd[c].jobs \subseteq jfile.jobs
        /\ tests' = tests + 1
        /\ Respond(c, "ok")
     \/ /\ \/ c \in InetClients
           \/ ~(clCmd[c].jobs \subseteq jfile.jobs)
           \/ "disk" \in Faults
        /\ Respond(c, "error")
        /\ UNCHANGED tests
  /\ UNCHANGED <<mgrVars, ctxVars, fileVars, disk, runnerVars, runVars,
                 listener, proc>>

DoCmd(c) ==
  \/ Reload(c) \/ SetJob(c) \/ DeleteJob(c) \/ List(c) \/ Cat(c)
  \/ Pause(c) \/ Resume(c) \/ InitCmd(c) \/ Test(c)

-----------------------------------------------------------------------------
(***************************************************************************)
(* The job-runner thread.                                                  *)
(***************************************************************************)

\* The queue after popping job j: it is pushed back if it has a next time.
Popped(j) == queue' \in {queue, queue \ {j}}

\* Pop returns a due job, also when the context is already cancelled, and
\* the thread launches its run.
PopAndRun(j, r) ==
  /\ Up /\ rPc = "pop" /\ j \in queue
  /\ ~(j \in paused /\ rGen = jfile.gen)
  /\ Popped(j)
  /\ runSt[r] = "new"
  /\ runSt' = [runSt EXCEPT ![r] = "exec"]
  /\ runGen' = [runGen EXCEPT ![r] = rGen]
  /\ UNCHANGED <<mgrVars, ctxVars, fileVars, disk, rPc, flag, chan, rCtx,
                 rGen, runOut, runLog, tests, listener, clientVars, proc>>

\* The job is paused, or its status says not to run it.
PopAndSkip(j) ==
  /\ Up /\ rPc = "pop" /\ j \in queue
  /\ Popped(j)
  /\ UNCHANGED <<mgrVars, ctxVars, fileVars, disk, rPc, flag, chan, rCtx,
                 rGen, runVars, tests, listener, clientVars, proc>>

\* Pop returns nil: the context is cancelled and no job is due.
PopNil ==
  /\ Up /\ rPc = "pop" /\ rCtx = "cancelled"
  /\ rPc' = "wait"
  /\ UNCHANGED <<mgrVars, ctxVars, fileVars, disk, flag, chan, rCtx, rGen,
                 queue, runVars, tests, listener, clientVars, proc>>

\* Mutants: the wait group is not waited for; Running is reset after the
\* channel is closed.
WaitForNothing ==
  /\ Up /\ rPc = "wait"
  /\ rPc' = "close" /\ flag' = "clear"
  /\ UNCHANGED <<mgrVars, ctxVars, fileVars, disk, chan, rCtx, rGen, queue,
                 runVars, tests, listener, clientVars, proc>>

WaitThenCloseFirst ==
  /\ Up /\ rPc = "wait"
  /\ \A r \in RunIds : Live(r) => runGen[r] # rGen
  /\ rPc' = "close" /\ chan' = "closed"
  /\ UNCHANGED <<mgrVars, ctxVars, fileVars, disk, flag, rCtx, rGen, queue,
                 runVars, tests, listener, clientVars, proc>>

\* jobThreadWaitGroup.Wait returns; the deferred reset of Running.
WaitForRuns ==
  /\ Up /\ rPc = "wait"
  /\ \A r \in RunIds : Live(r) => runGen[r] # rGen
  /\ rPc' = "close" /\ flag' = "clear"
  /\ UNCHANGED <<mgrVars, ctxVars, fileVars, disk, chan, rCtx, rGen, queue,
                 runVars, tests, listener, clientVars, proc>>

\* The deferred close of the channel.
CloseRunRecChan ==
  /\ Up /\ rPc = "close"
  /\ rPc' = "off" /\ chan' = "closed"
  /\ UNCHANGED <<mgrVars, ctxVars, fileVars, disk, flag, rCtx, rGen, queue,
                 runVars, tests, listener, clientVars, proc>>

-----------------------------------------------------------------------------
(***************************************************************************)
(* The threads of the runs.                                                *)
(***************************************************************************)

\* RunJob returns: the command ended, was killed because the context was
\* cancelled, or could not be run or its output not be read.
FinishRun(r) ==
  /\ Up /\ runSt[r] = "exec"
  /\ \E out \in Outcomes :
       /\ out = "err" => "exec" \in Faults
       /\ runOut' = [runOut EXCEPT ![r] = out]
  /\ runSt' = [runSt EXCEPT ![r] = "sending"]
  /\ UNCHANGED <<mgrVars, ctxVars, fileVars, disk, runnerVars, runGen, runLog,
                 tests, listener, clientVars, proc>>

\* Mutant: a test thread is counted out of the wait group twice.
FinishTestTwice ==
  /\ Up /\ tests > 0
  /\ tests' = tests - 2
  /\ UNCHANGED <<mgrVars, ctxVars, fileVars, disk, runnerVars, runVars,
                 listener, clientVars, proc>>

\* A test thread ends: its client went away, nobody connected in time, its
\* job ended, or its context was cancelled.
FinishTest ==
  /\ Up /\ tests > 0
  /\ tests' = tests - 1
  /\ UNCHANGED <<mgrVars, ctxVars, fileVars, disk, runnerVars, runVars,
                 listener, clientVars, proc>>

-----------------------------------------------------------------------------
(***************************************************************************)
(* main, the IPC server, its clients and the user.                         *)
(***************************************************************************)
StartListening ==
  /\ Up /\ mgr # "new" /\ listener = "none"
  /\ listener' = "open"
  /\ UNCHANGED <<mgrVars, ctxVars, fileVars, disk, runnerVars, runVars, tests,
                 clientVars, proc>>

\* quit, on a signal or because jobbermaster closed the quit socket (or an
\* IPC server that could not be launched): stop listening, cancel the main
\* thread's context.  Connections already accepted go on being served.
Quit ==
  /\ Up /\ mgr # "new" /\ mainCtx \notin cancelled
  /\ listener' = "closed"
  /\ cancelled' = cancelled \cup {mainCtx}
  /\ UNCHANGED <<mgrVars, mainCtx, testCtx, fileVars, disk, runnerVars,
                 runVars, tests, clientVars, proc>>

Connect(c) ==
  /\ Up /\ listener = "open" /\ clSt[c] = "off"
  /\ clSt' = [clSt EXCEPT ![c] = "conn"]
  /\ UNCHANGED <<mgrVars, ctxVars, fileVars, disk, runnerVars, runVars, tests,
                 listener, clCmd, reply, calls, proc>>

\* A method of IpcService: the handler blocks sending on CmdChan.
Call(c) ==
  /\ Up /\ clSt[c] = "conn" /\ calls < MaxCalls
  /\ clSt' = [clSt EXCEPT ![c] = "sending"]
  /\ \E cmd \in Cmds : clCmd' = [clCmd EXCEPT ![c] = cmd]
  /\ reply' = [reply EXCEPT ![c] = "none"]
  /\ calls' = calls + 1
  /\ UNCHANGED <<mgrVars, ctxVars, fileVars, disk, runnerVars, runVars, tests,
                 listener, proc>>

\* A handler blocked sending (or beginning to send) when CmdChan is closed.
SendCmdOnClosed(c) ==
  /\ Up /\ mgr = "closed" /\ clSt[c] = "sending"
  /\ proc' = "panicSendClosed"
  /\ UNCHANGED <<mgrVars, ctxVars, fileVars, disk, runnerVars, runVars, tests,
                 listener, clientVars>>

\* The user edits the jobfile.
EditDisk ==
  /\ Up
  /\ disk' \in DiskStates \ {disk}
  /\ UNCHANGED <<mgrVars, ctxVars, fileVars, runnerVars, runVars, tests,
                 listener, clientVars, proc>>

\* The process has ended.
Ended ==
  /\ ~Up
  /\ UNCHANGED vars

-----------------------------------------------------------------------------
MainThread ==
  \/ InitialLoad \/ Install \/ InstallFails
  \/ \E r \in RunIds : HandleRunRec(r)
  \/ LeaveLoop \/ ShutdownDrained \/ TestsEnded \/ Exit
  \/ \E c \in Clients : DoCmd(c)

RunnerThread ==
  \/ \E j \in Jobs, r \in RunIds : PopAndRun(j, r)
  \/ \E j \in Jobs : PopAndSkip(j)
  \/ PopNil \/ WaitForRuns \/ CloseRunRecChan

Environment ==
  \/ Launch \/ StartListening \/ Quit \/ FinishTest \/ SinksReturn \/ EditDisk
  \/ \E c \in Clients : Connect(c) \/ Call(c) \/ SendCmdOnClosed(c)

Next ==
  \/ MainThread \/ RunnerThread \/ Environment \/ Ended
  \/ \E r \in RunIds : FinishRun(r)

Spec == Init /\ [][Next]_vars

-----------------------------------------------------------------------------
(***************************************************************************)
(* Fairness.  Go runs every goroutine that can run, and select chooses at  *)
(* random among the ready cases.  A job's process is not bound to end; it  *)
(* is killed once its context is cancelled.  A test thread, likewise, is   *)
(* only bound to end once the context it was given is cancelled.  Nothing  *)
(* makes a sink return: ProgramResultSink and SystemEmailResultSink wait   *)
(* for a program without a context or a timeout, in the main thread.       *)
(***************************************************************************)
Fairness ==
  /\ WF_vars(Launch) /\ WF_vars(MainThread)
  /\ WF_vars(PopNil \/ WaitForRuns \/ CloseRunRecChan)
  /\ \A r \in RunIds : WF_vars(CtxDone(r) /\ FinishRun(r))
  /\ WF_vars(testCtx \in cancelled /\ FinishTest)

FairSpec == Spec /\ Fairness

-----------------------------------------------------------------------------
MgrType ==
  /\ mgr \in {"new", "load", "loop", "drain", "shutdown", "waitTests", "closed"}
  /\ pend \subseteq Jobs /\ serving \in Clients \cup {NoClient}
  /\ sinks \in {"idle", "busy"}
  /\ mainCtx \in {0, 1} /\ testCtx \in {0, 1} /\ cancelled \subseteq {0, 1}
  /\ jfile \in [gen : Int, jobs : SUBSET Jobs]
  /\ gen \in Nat /\ paused \subseteq Jobs
  /\ disk \in DiskStates
  /\ tests \in Nat
  /\ listener \in {"none", "open", "closed"}
  /\ proc \in {"up"} \cup Ends

RunnerType ==
  /\ rPc \in {"off", "pop", "wait", "close"} /\ flag \in {"set", "clear"}
  /\ chan \in {"nil", "open", "closed"}
  /\ rCtx \in {"none", "live", "cancelled"}
  /\ rGen \in Int /\ queue \subseteq Jobs

RunType ==
  /\ runSt \in [RunIds -> {"new", "exec", "sending", "recorded"}]
  /\ runGen \in [RunIds -> Int] /\ runLog \in [RunIds -> Int]
  /\ runOut \in [RunIds -> Outcomes]

ClientType ==
  /\ clSt \in [Clients -> {"off", "conn", "sending", "waiting"}]
  /\ clCmd \in [Clients -> [op : AllOps, jobs : SUBSET Jobs]]
  /\ reply \in [Clients -> {"none", "ok", "error"}]
  /\ calls \in Nat

\* Every variable of the process has its type; the wait group's counter, in
\* particular, is never negative.
TypeOK == MgrType /\ RunnerType /\ RunType /\ ClientType

\* A run that is executing or waiting to hand over its record was started by
\* the jobfile now in force: no jobfile is activated while a run of its
\* predecessor is alive (the warning in replaceCurrJobfile about issue 288).
RunsOfInstalledFile ==
  \A r \in RunIds : Live(r) => runGen[r] = jfile.gen

\* Every record is in the run log of the jobfile whose job was run, also when
\* handleRunRec gets it during a reload or at shutdown.
RecordsInOwnLog ==
  \A r \in RunIds : runSt[r] = "recorded" => runLog[r] = runGen[r]

\* None of the panics that guard the protocol between the main thread and the
\* job-runner thread can happen: Start finding it already running, the main
\* loop finding the channel closed ("Job-runner thread ended prematurely"),
\* and a run sending its record on a closed channel.
NoProtocolPanic ==
  /\ (mgr = "drain" /\ chan # "open") => ~Running
  /\ mgr = "loop" => chan = "open"
  /\ \A r \in RunIds : runSt[r] = "sending" => chan = "open"

\* When the main thread has consumed all records and lets the process exit
\* (or closes CmdChan under a blocked handler), every run that was ever
\* started has been recorded.
AllRecordedAtEnd ==
  mgr \in {"waitTests", "closed"} =>
    \A r \in RunIds : runSt[r] \in {"new", "recorded"}

\* While the main thread is in its loop, the job-runner thread is scheduling
\* exactly the jobs of the jobfile in memory: commands such as pause reach
\* the Job objects that the thread looks at.
RunnerServesJobfile ==
  (Up /\ mgr = "loop") =>
    /\ Running /\ rPc = "pop" /\ rCtx = "live" /\ chan = "open"
    /\ rGen = jfile.gen
    /\ queue \subseteq jfile.jobs

\* A command that is answered with an error (other than an init that failed
\* half-way) changed neither the jobfile in memory, nor which jobs are
\* paused, nor the runs, nor what the job-runner thread schedules.
ErrorChangesNothing ==
  [][\A c \in Clients :
       (reply'[c] = "error" /\ reply[c] # "error") =>
         UNCHANGED <<fileVars, runnerVars, runVars, tests>>]_vars

\* The runs as the abstract ledger sees them.
Ledger ==
  INSTANCE RunLedger WITH
    current <- gen,
    open <- {r \in RunIds : Live(r)},
    log <- runLog,
    phase <- IF proc = "up" THEN "up"
             ELSE IF proc = "exited" THEN "exited" ELSE "crashed"

\* The process keeps the promises of RunLedger.
KeepsLedger == Ledger!Spec

\* The program of every sink ends.  The code does not see to it, so what needs
\* it says so.
SinksEnd == []<>(sinks = "idle")

\* Every command a client sends is answered, unless the process ends or a sink
\* never returns: nothing else can hold the main thread up for ever, neither a
\* job that does not end, nor the drain of a reload, nor another client.
CommandAnswered ==
  SinksEnd =>
    \A c \in Clients :
      clSt[c] \in {"sending", "waiting"} ~> (clSt[c] = "conn" \/ ~Up)

\* Once told to quit, the process ends, unless a sink never returns.
QuitEnds == SinksEnd => ((mainCtx = 1 /\ 1 \in cancelled) ~> ~Up)

=============================================================================
