--------------------------- MODULE JobManagerProofs ---------------------------
(***************************************************************************)
(* Proofs about JobManager, for any sets of jobs, clients and runs and any *)
(* faults.                                                                 *)
(***************************************************************************)
EXTENDS JobManager, TLAPS

-----------------------------------------------------------------------------
(***************************************************************************)
(* Type correctness.                                                       *)
(***************************************************************************)

\* A command a client may send is well typed.
LEMMA CmdsTyped == Cmds \subseteq [op : AllOps, jobs : SUBSET Jobs]
  BY ConstantsAssumption DEF Cmds, AllOps

\* NoCmd, the value of an idle connection, is well typed.
LEMMA NoCmdTyped == NoCmd \in [op : AllOps, jobs : SUBSET Jobs]
  BY DEF NoCmd, AllOps

\* The jobs of a file on disk are jobs.
LEMMA DiskJobsTyped == \A d \in DiskStates : d.jobs \subseteq Jobs
  BY ConstantsAssumption DEF DiskStates

\* Init establishes the types.
LEMMA InitTypeOK == Init => TypeOK
<1> SUFFICES ASSUME Init PROVE TypeOK
  OBVIOUS
<1>1. MgrType
  BY DEF Init, MgrType, Ends
<1>2. RunnerType
  BY DEF Init, RunnerType
<1>3. RunType
  BY DEF Init, RunType, Outcomes, NoGen
<1>4. ClientType
  BY NoCmdTyped DEF Init, ClientType
<1> QED
  BY <1>1, <1>2, <1>3, <1>4 DEF TypeOK

\* Answering a client, or making it wait, keeps the types of the connections.
LEMMA RespondTyped ==
  ASSUME ClientType, NEW c, NEW v \in {"ok", "error"}, Respond(c, v)
  PROVE  ClientType'
  BY NoCmdTyped DEF ClientType, Respond

LEMMA AwaitTyped ==
  ASSUME ClientType, NEW c, Await(c)
  PROVE  ClientType'
  BY DEF ClientType, Await

\* Cancelling and starting the job-runner thread keep the types of its state.
LEMMA CancelTyped ==
  ASSUME RunnerType, CancelRunner,
         UNCHANGED <<rPc, flag, chan, rGen, queue>>
  PROVE  RunnerType'
  BY DEF RunnerType, CancelRunner

LEMMA StartTyped ==
  ASSUME NEW g \in Int, NEW js \in SUBSET Jobs, Start(g, js)
  PROVE  RunnerType'
  BY DEF RunnerType, Start

\* Every step keeps the types.
LEMMA NextTypeOK == TypeOK /\ [Next]_vars => TypeOK'
<1> SUFFICES ASSUME TypeOK, [Next]_vars PROVE TypeOK'
  OBVIOUS
<1> USE DEF MainAt, workVars, mgrVars, ctxVars, fileVars, runnerVars, runVars, clientVars, TypeOK
<1>load. ASSUME NEW c \in Clients \cup {NoClient}, LoadJobfile(c),
                UNCHANGED <<ctxVars, fileVars, disk, runVars, tests, listener>>
         PROVE  TypeOK'
  <2>1. CASE disk.kind # "unreadable"
    <3>1. ReplaceCurrJobfile(disk.jobs, c) /\ Await(c)
      BY <1>load, <2>1 DEF LoadJobfile
    <3>2. ClientType'
      BY <3>1, AwaitTyped
    <3>3. RunnerType'
      BY <3>1, CancelTyped DEF ReplaceCurrJobfile
    <3>4. MgrType' /\ RunType'
      BY <1>load, <3>1, DiskJobsTyped DEF ReplaceCurrJobfile, MgrType, RunType
    <3> QED
      BY <3>2, <3>3, <3>4
  <2>2. CASE disk.kind = "unreadable"
    <3>1. Respond(c, "error") /\ mgr' = "loop" /\ UNCHANGED <<workVars, proc>>
      BY <1>load, <2>2 DEF LoadJobfile
    <3>2. ClientType'
      BY <3>1, RespondTyped
    <3>3. MgrType' /\ RunType'
      BY <1>load, <3>1 DEF MgrType, RunType
    <3>4. jfile.gen \in Int /\ jfile.jobs \in SUBSET Jobs
      BY DEF MgrType
    <3>5. UNCHANGED runnerVars \/ Start(jfile.gen, jfile.jobs)
      BY <1>load, <2>2 DEF LoadJobfile
    <3>6. RunnerType'
      BY <3>4, <3>5, StartTyped DEF RunnerType
    <3> QED
      BY <3>2, <3>3, <3>6
  <2> QED
    BY <2>1, <2>2
<1>Launch. CASE Launch
  BY <1>Launch DEF Launch, MgrType, RunnerType, RunType, ClientType
<1>LeaveLoop. CASE LeaveLoop
  BY <1>LeaveLoop DEF LeaveLoop, CancelRunner, MgrType, RunnerType, RunType, ClientType
<1>ShutdownDrained. CASE ShutdownDrained
  BY <1>ShutdownDrained DEF ShutdownDrained, MgrType, RunnerType, RunType, ClientType
<1>TestsEnded. CASE TestsEnded
  BY <1>TestsEnded DEF TestsEnded, MgrType, RunnerType, RunType, ClientType
<1>Exit. CASE Exit
  BY <1>Exit DEF Exit, Ends, MgrType, RunnerType, RunType, ClientType
<1>InstallFails. CASE InstallFails
  BY <1>InstallFails DEF InstallFails, Ends, NilFile, MgrType, RunnerType, RunType, ClientType
<1>PopNil. CASE PopNil
  BY <1>PopNil DEF PopNil, MgrType, RunnerType, RunType, ClientType
<1>WaitForRuns. CASE WaitForRuns
  BY <1>WaitForRuns DEF WaitForRuns, MgrType, RunnerType, RunType, ClientType
<1>CloseRunRecChan. CASE CloseRunRecChan
  BY <1>CloseRunRecChan DEF CloseRunRecChan, MgrType, RunnerType, RunType, ClientType
<1>StartListening. CASE StartListening
  BY <1>StartListening DEF StartListening, MgrType, RunnerType, RunType, ClientType
<1>Quit. CASE Quit
  BY <1>Quit DEF Quit, MgrType, RunnerType, RunType, ClientType
<1>FinishTest. CASE FinishTest
  BY <1>FinishTest DEF FinishTest, MgrType, RunnerType, RunType, ClientType
<1>EditDisk. CASE EditDisk
  BY <1>EditDisk DEF EditDisk, MgrType, RunnerType, RunType, ClientType
<1>Ended. CASE Ended
  BY <1>Ended DEF Ended, vars, MgrType, RunnerType, RunType, ClientType
<1>InitialLoad. CASE InitialLoad
  BY <1>InitialLoad, <1>load DEF InitialLoad
<1>Install. CASE Install
  <2>1. gen + 1 \in Int /\ pend \in SUBSET Jobs
    BY DEF MgrType
  <2>2. RunnerType'
    BY <1>Install, <2>1, StartTyped DEF Install
  <2>3. ClientType'
    BY <1>Install, RespondTyped DEF Install
  <2>4. MgrType' /\ RunType'
    BY <1>Install DEF Install, MgrType, RunType
  <2> QED
    BY <2>2, <2>3, <2>4
<1>HandleRunRec. ASSUME NEW r \in RunIds, HandleRunRec(r) PROVE TypeOK'
  <2>1. jfile.gen \in Int
    BY DEF MgrType
  <2>2. RunType' /\ MgrType'
    BY <1>HandleRunRec, <2>1 DEF HandleRunRec, RunType, MgrType, Ends
  <2>3. RunnerType' /\ ClientType'
    BY <1>HandleRunRec DEF HandleRunRec, RunnerType, ClientType
  <2> QED
    BY <2>2, <2>3
<1>SinksReturn. CASE SinksReturn
  BY <1>SinksReturn DEF SinksReturn, Ends, MgrType, RunnerType, RunType, ClientType
<1>DoCmd. ASSUME NEW c \in Clients, DoCmd(c) PROVE TypeOK'
  <2>0. clCmd[c].jobs \in SUBSET Jobs /\ jfile.jobs \in SUBSET Jobs
    BY DEF ClientType, MgrType
  <2>1. CASE Reload(c)
    BY <2>1, <1>load DEF Reload
  <2>set. ASSUME NEW js \in SUBSET Jobs, SetRawJobs(c, js) PROVE TypeOK'
    <3>1. ClientType'
      BY <2>set, AwaitTyped DEF SetRawJobs
    <3>2. RunnerType'
      BY <2>set, CancelTyped DEF SetRawJobs, ReplaceCurrJobfile
    <3>3. MgrType' /\ RunType'
      BY <2>set DEF SetRawJobs, ReplaceCurrJobfile, MgrType, RunType
    <3> QED
      BY <3>1, <3>2, <3>3
  <2>2. CASE SetJob(c)
    BY <2>0, <2>2, <2>set DEF SetJob
  <2>3. CASE DeleteJob(c)
    BY <2>0, <2>3, <2>set DEF DeleteJob
  <2>4. CASE List(c)
    <3>1. ClientType'
      BY <2>4, RespondTyped DEF List
    <3> QED
      BY <2>4, <3>1 DEF List, MgrType, RunnerType, RunType
  <2>5. CASE Cat(c)
    <3>1. ClientType'
      BY <2>5, RespondTyped DEF Cat
    <3> QED
      BY <2>5, <3>1 DEF Cat, MgrType, RunnerType, RunType
  <2>6. CASE Pause(c)
    <3>1. ClientType'
      BY <2>6, RespondTyped DEF Pause
    <3>2. MgrType'
      BY <2>0, <2>6 DEF Pause, Named, MgrType
    <3> QED
      BY <2>6, <3>1, <3>2 DEF Pause, RunnerType, RunType
  <2>7. CASE Resume(c)
    <3>1. ClientType'
      BY <2>7, RespondTyped DEF Resume
    <3>2. MgrType'
      BY <2>7 DEF Resume, MgrType
    <3> QED
      BY <2>7, <3>1, <3>2 DEF Resume, RunnerType, RunType
  <2>8. CASE InitCmd(c)
    <3>1. ClientType'
      BY <2>8, RespondTyped DEF InitCmd
    <3>2. disk' \in DiskStates
      BY <2>8 DEF InitCmd, MgrType, DiskStates
    <3> QED
      BY <2>8, <3>1, <3>2 DEF InitCmd, MgrType, RunnerType, RunType
  <2>9. CASE Test(c)
    <3>1. ClientType'
      BY <2>9, RespondTyped DEF Test
    <3> QED
      BY <2>9, <3>1 DEF Test, MgrType, RunnerType, RunType
  <2> QED
    BY <1>DoCmd, <2>1, <2>2, <2>3, <2>4, <2>5, <2>6, <2>7, <2>8, <2>9 DEF DoCmd
<1>PopAndRun. ASSUME NEW j \in Jobs, NEW r \in RunIds, PopAndRun(j, r)
              PROVE  TypeOK'
  BY <1>PopAndRun DEF PopAndRun, Popped, MgrType, RunnerType, RunType, ClientType
<1>PopAndSkip. ASSUME NEW j \in Jobs, PopAndSkip(j) PROVE TypeOK'
  BY <1>PopAndSkip DEF PopAndSkip, Popped, MgrType, RunnerType, RunType, ClientType
<1>FinishRun. ASSUME NEW r \in RunIds, FinishRun(r) PROVE TypeOK'
  BY <1>FinishRun DEF FinishRun, MgrType, RunnerType, RunType, ClientType
<1>Connect. ASSUME NEW c \in Clients, Connect(c) PROVE TypeOK'
  BY <1>Connect DEF Connect, MgrType, RunnerType, RunType, ClientType
<1>Call. ASSUME NEW c \in Clients, Call(c) PROVE TypeOK'
  BY <1>Call, CmdsTyped DEF Call, MgrType, RunnerType, RunType, ClientType
<1>SendCmdOnClosed. ASSUME NEW c \in Clients, SendCmdOnClosed(c) PROVE TypeOK'
  BY <1>SendCmdOnClosed
  DEF SendCmdOnClosed, Ends, MgrType, RunnerType, RunType, ClientType
<1>stutter. CASE UNCHANGED vars
  BY <1>stutter DEF vars, MgrType, RunnerType, RunType, ClientType
<1> QED
  BY <1>Launch, <1>LeaveLoop, <1>ShutdownDrained, <1>TestsEnded, <1>Exit, <1>InstallFails, <1>PopNil, <1>WaitForRuns, <1>CloseRunRecChan, <1>StartListening, <1>Quit, <1>FinishTest, <1>EditDisk, <1>Ended, <1>InitialLoad, <1>Install, <1>HandleRunRec, <1>SinksReturn, <1>DoCmd, <1>PopAndRun, <1>PopAndSkip, <1>FinishRun, <1>Connect, <1>Call, <1>SendCmdOnClosed, <1>stutter
  DEF Next, MainThread, RunnerThread, Environment

\* Every variable of the process keeps its type in every behaviour.
THEOREM TypeCorrect == Spec => []TypeOK
  BY InitTypeOK, NextTypeOK, PTL DEF Spec

-----------------------------------------------------------------------------
(***************************************************************************)
(* The protocol between the main thread and the job-runner thread.  The    *)
(* properties checked by TLC are not inductive: that the channel is open   *)
(* in the main loop, for instance, rests on the thread leaving "pop" only  *)
(* when its context is cancelled, and on who cancels it.  ProtocolInv adds *)
(* where the thread can be for each place of the main thread, what its     *)
(* channel and flag say then, and whose jobs it holds.                     *)
(***************************************************************************)

\* The channel is open exactly while the thread exists, Running is reset just
\* before it is closed, and the thread holds the jobs of the jobfile in force.
RunnerInv ==
  /\ chan = "open" <=> rPc # "off"
  /\ Running <=> rPc \in {"pop", "wait"}
  /\ rPc # "off" => rGen = gen /\ jfile.gen = gen /\ queue \subseteq jfile.jobs
  /\ Up => jfile.gen = gen

\* Where the thread is, by where the main thread is.
MgrInv ==
  /\ mgr \in {"new", "load", "waitTests", "closed"} => rPc = "off"
  /\ mgr = "loop" => rPc = "pop" /\ rCtx = "live"

\* Live runs belong to the thread that is scheduling or waiting for them; only
\* recorded runs are in a log, and in the one of their generation.
RunInv ==
  \A r \in RunIds :
    /\ Live(r) => rPc \in {"pop", "wait"} /\ runGen[r] = rGen
    /\ runSt[r] = "recorded" => runLog[r] = runGen[r]
    /\ runSt[r] # "recorded" => runLog[r] = -1

ProtocolInv == TypeOK /\ RunnerInv /\ MgrInv /\ RunInv

LEMMA InitProtocol == Init => ProtocolInv
  BY InitTypeOK DEF Init, ProtocolInv, RunnerInv, MgrInv, RunInv, Live, Running,
                    NoGen

\* Every step keeps the protocol invariant.
LEMMA NextProtocol == ProtocolInv /\ [Next]_vars => ProtocolInv'
<1> SUFFICES ASSUME ProtocolInv, [Next]_vars PROVE ProtocolInv'
  OBVIOUS
<1>t. TypeOK /\ TypeOK'
  BY NextTypeOK DEF ProtocolInv
<1> USE DEF MainAt, workVars, mgrVars, ctxVars, fileVars, runnerVars, runVars, clientVars
<1> DEFINE P == RunnerInv /\ MgrInv /\ RunInv
<1>p. P
  BY DEF ProtocolInv
<1> SUFFICES P'
  BY <1>t DEF ProtocolInv
<1>replace. ASSUME NEW js, NEW c, ReplaceCurrJobfile(js, c),
                   UNCHANGED <<fileVars, runVars>>
            PROVE  P'
  BY <1>p, <1>replace DEF ReplaceCurrJobfile, RunnerInv, MgrInv, RunInv, Live, Running, Up
<1>start. ASSUME rPc = "off", Start(jfile.gen', jfile.jobs'), mgr' = "loop",
                 jfile.gen' = gen', UNCHANGED runVars
          PROVE  P'
  BY <1>p, <1>start DEF Start, RunnerInv, MgrInv, RunInv, Live, Running, Up
<1>load. ASSUME NEW c, LoadJobfile(c), mgr \in {"load", "loop"}, Up,
                UNCHANGED <<fileVars, runVars>>
         PROVE  P'
  <2>1. CASE ReplaceCurrJobfile(disk.jobs, c)
    BY <1>load, <2>1, <1>replace
  <2>2. CASE Running /\ mgr' = "loop" /\ UNCHANGED <<runnerVars, proc>>
    BY <1>p, <1>load, <2>2 DEF RunnerInv, MgrInv, RunInv, Live, Running, Up
  <2>3. CASE ~Running /\ mgr' = "loop" /\ Start(jfile.gen, jfile.jobs)
    <3>1. rPc = "off" /\ jfile.gen = gen
      BY <1>p, <1>load, <2>3 DEF RunnerInv, MgrInv
    <3> QED
      BY <1>load, <2>3, <3>1, <1>start
  <2> QED
    BY <1>load, <2>1, <2>2, <2>3 DEF LoadJobfile
<1>quiet. ASSUME UNCHANGED <<mgr, jfile, gen, runnerVars, runVars>>,
                 Up' => Up
          PROVE  P'
  BY <1>p, <1>quiet DEF RunnerInv, MgrInv, RunInv, Live, Running, Up
<1>Install. CASE Install
  <2>1. rPc = "off"
    BY <1>p, <1>Install DEF Install, RunnerInv
  <2>2. jfile.gen' = gen' /\ jfile.jobs' = pend /\ gen' = gen + 1
    BY <1>Install DEF Install
  <2> QED
    BY <1>Install, <2>1, <2>2, <1>start DEF Install
<1>HandleRunRec. ASSUME NEW r \in RunIds, HandleRunRec(r) PROVE P'
  <2>1. runLog[r] = -1 /\ runGen[r] = jfile.gen
    BY <1>p, <1>HandleRunRec DEF HandleRunRec, RunnerInv, MgrInv, RunInv, Live, Running, Up
  <2>2. RunnerInv' /\ MgrInv'
    BY <1>p, <1>HandleRunRec DEF HandleRunRec, RunnerInv, MgrInv, Up, Running
  <2>3. RunInv'
    BY <1>p, <1>t, <1>HandleRunRec, <2>1
    DEF HandleRunRec, RunInv, Live, TypeOK, RunType
  <2> QED
    BY <2>2, <2>3
<1>DoCmd. ASSUME NEW c \in Clients, DoCmd(c) PROVE P'
  <2>1. CASE Reload(c)
    BY <2>1, <1>load DEF Reload, Receives
  <2>2. CASE SetJob(c)
    BY <2>2, <1>replace DEF SetJob, SetRawJobs
  <2>3. CASE DeleteJob(c)
    BY <2>3, <1>replace DEF DeleteJob, SetRawJobs
  <2>4. CASE List(c) \/ Cat(c) \/ Pause(c) \/ Resume(c) \/ InitCmd(c) \/ Test(c)
    BY <2>4, <1>quiet DEF List, Cat, Pause, Resume, InitCmd, Test, Up
  <2> QED
    BY <1>DoCmd, <2>1, <2>2, <2>3, <2>4 DEF DoCmd
<1>PopAndRun. ASSUME NEW j \in Jobs, NEW r \in RunIds, PopAndRun(j, r) PROVE P'
  <2>1. RunnerInv' /\ MgrInv'
    BY <1>p, <1>PopAndRun DEF PopAndRun, Popped, RunnerInv, MgrInv, Up, Running
  <2>2. RunInv'
    BY <1>p, <1>t, <1>PopAndRun DEF PopAndRun, RunInv, Live, TypeOK, RunType
  <2> QED
    BY <2>1, <2>2
<1>PopAndSkip. ASSUME NEW j \in Jobs, PopAndSkip(j) PROVE P'
  BY <1>p, <1>PopAndSkip DEF PopAndSkip, Popped, RunnerInv, MgrInv, RunInv, Live, Running, Up
<1>FinishRun. ASSUME NEW r \in RunIds, FinishRun(r) PROVE P'
  <2>1. RunnerInv' /\ MgrInv'
    BY <1>p, <1>FinishRun DEF FinishRun, RunnerInv, MgrInv, Up, Running
  <2>2. RunInv'
    BY <1>p, <1>t, <1>FinishRun DEF FinishRun, RunInv, Live, TypeOK, RunType
  <2> QED
    BY <2>1, <2>2
<1>InitialLoad. CASE InitialLoad
  BY <1>InitialLoad, <1>load DEF InitialLoad
<1>InstallFails. CASE InstallFails
  BY <1>p, <1>InstallFails DEF InstallFails, RunnerInv, MgrInv, RunInv, Live, Running, Up
<1>Launch. CASE Launch
  BY <1>p, <1>Launch DEF Launch, RunnerInv, MgrInv, RunInv, Live, Running, Up
<1>LeaveLoop. CASE LeaveLoop
  BY <1>p, <1>LeaveLoop DEF LeaveLoop, CancelRunner, RunnerInv, MgrInv, RunInv, Live, Running, Up
<1>ShutdownDrained. CASE ShutdownDrained
  BY <1>p, <1>ShutdownDrained DEF ShutdownDrained, RunnerInv, MgrInv, RunInv, Live, Running, Up
<1>TestsEnded. CASE TestsEnded
  BY <1>p, <1>TestsEnded DEF TestsEnded, RunnerInv, MgrInv, RunInv, Live, Running, Up
<1>PopNil. CASE PopNil
  BY <1>p, <1>PopNil DEF PopNil, RunnerInv, MgrInv, RunInv, Live, Running, Up
<1>WaitForRuns. CASE WaitForRuns
  BY <1>p, <1>WaitForRuns DEF WaitForRuns, RunnerInv, MgrInv, RunInv, Live, Running, Up
<1>CloseRunRecChan. CASE CloseRunRecChan
  BY <1>p, <1>CloseRunRecChan DEF CloseRunRecChan, RunnerInv, MgrInv, RunInv, Live, Running, Up
<1>others. CASE \/ Exit \/ SinksReturn \/ StartListening \/ Quit \/ FinishTest \/ EditDisk
                \/ Ended \/ UNCHANGED vars
                \/ \E c \in Clients : Connect(c) \/ Call(c) \/ SendCmdOnClosed(c)
  BY <1>others, <1>quiet
  DEF Exit, SinksReturn, StartListening, Quit, FinishTest, EditDisk, Ended,
      vars, Connect, Call, SendCmdOnClosed, Up
<1> QED
  BY <1>Install, <1>HandleRunRec, <1>DoCmd, <1>PopAndRun, <1>PopAndSkip,
     <1>FinishRun, <1>InitialLoad, <1>InstallFails, <1>Launch, <1>LeaveLoop,
     <1>ShutdownDrained, <1>TestsEnded, <1>PopNil, <1>WaitForRuns,
     <1>CloseRunRecChan, <1>others
  DEF Next, MainThread, RunnerThread, Environment

LEMMA ProtocolHolds == Spec => []ProtocolInv
  BY InitProtocol, NextProtocol, PTL DEF Spec

-----------------------------------------------------------------------------
(***************************************************************************)
(* What follows from it.                                                   *)
(***************************************************************************)

\* No jobfile is activated while a run of its predecessor is alive.
THEOREM LiveRunsAreOfInstalledFile == Spec => []RunsOfInstalledFile
<1>1. ProtocolInv => RunsOfInstalledFile
  BY DEF ProtocolInv, RunnerInv, RunInv, RunsOfInstalledFile
<1> QED
  BY <1>1, ProtocolHolds, PTL

\* Every record is in the run log of the jobfile that started the run.
THEOREM RecordsAreInOwnLog == Spec => []RecordsInOwnLog
<1>1. ProtocolInv => RecordsInOwnLog
  BY DEF ProtocolInv, RunInv, RecordsInOwnLog
<1> QED
  BY <1>1, ProtocolHolds, PTL

\* The panics guarding the use of the job-runner thread are unreachable.
THEOREM ProtocolNeverPanics == Spec => []NoProtocolPanic
<1>1. ProtocolInv => NoProtocolPanic
  BY DEF ProtocolInv, RunnerInv, MgrInv, RunInv, NoProtocolPanic, Live
<1> QED
  BY <1>1, ProtocolHolds, PTL

\* At an orderly end no run that was started is left without a record.
THEOREM NothingLostAtEnd == Spec => []AllRecordedAtEnd
<1>1. ProtocolInv => AllRecordedAtEnd
  BY DEF ProtocolInv, TypeOK, RunType, MgrInv, RunInv, AllRecordedAtEnd, Live
<1> QED
  BY <1>1, ProtocolHolds, PTL

\* In the main loop the job-runner thread serves the jobfile in memory.
THEOREM RunnerServes == Spec => []RunnerServesJobfile
<1>1. ProtocolInv => RunnerServesJobfile
  BY DEF ProtocolInv, RunnerInv, MgrInv, RunnerServesJobfile
<1> QED
  BY <1>1, ProtocolHolds, PTL

-----------------------------------------------------------------------------
(***************************************************************************)
(* JobManager implements RunLedger: a launch is the start of a run, the    *)
(* handling of its record is its recording, an installation is the next    *)
(* generation, and every other step leaves the ledger as it is.            *)
(***************************************************************************)
LiveRuns == {r \in RunIds : Live(r)}

LEMMA LedgerInit == Init => Ledger!Init
  BY DEF Init, Ledger!Init, Live, NoGen

\* A step that changes no run, generation or end is a stutter of the ledger.
LEMMA LedgerStutter ==
  ASSUME UNCHANGED <<gen, runSt, runLog, proc>>
  PROVE  UNCHANGED Ledger!ledgerVars
  BY DEF Ledger!ledgerVars, Live

LEMMA LedgerNext ==
  ProtocolInv /\ [Next]_vars => [Ledger!Next]_Ledger!ledgerVars
<1> SUFFICES ASSUME ProtocolInv, [Next]_vars
             PROVE  [Ledger!Next]_Ledger!ledgerVars
  OBVIOUS
<1> USE DEF MainAt, workVars, mgrVars, ctxVars, fileVars, runnerVars, runVars, clientVars
<1> DEFINE crashed == proc' \in Ends \ {"exited"}
<1>crash. ASSUME Up, crashed, UNCHANGED <<gen, runSt, runLog>>
          PROVE  Ledger!Crash
  BY <1>crash DEF Ledger!Crash, Up, Ends, Live
<1>PopAndRun. ASSUME NEW j \in Jobs, NEW r \in RunIds, PopAndRun(j, r)
              PROVE  Ledger!StartRun(r)
  <2>1. Up /\ runSt[r] = "new" /\ UNCHANGED <<gen, runLog, proc>>
        /\ runSt' = [runSt EXCEPT ![r] = "exec"]
    BY <1>PopAndRun DEF PopAndRun
  <2>2. runLog[r] = -1
    BY <2>1 DEF ProtocolInv, RunInv
  <2>3. LiveRuns' = LiveRuns \cup {r} /\ r \notin LiveRuns
    BY <2>1 DEF LiveRuns, Live, ProtocolInv, TypeOK, RunType
  <2> QED
    BY <2>1, <2>2, <2>3 DEF Ledger!StartRun, Up, LiveRuns
<1>HandleRunRec. ASSUME NEW r \in RunIds, HandleRunRec(r)
                 PROVE  Ledger!Record(r) \/ Ledger!Crash
  <2>0. Up /\ runSt[r] = "sending" /\ UNCHANGED gen
    BY <1>HandleRunRec DEF HandleRunRec
  <2>1. CASE proc' = "panicRecErr" /\ UNCHANGED <<runSt, runLog>>
    BY <2>0, <2>1, <1>crash DEF Ends
  <2>2. CASE /\ runSt' = [runSt EXCEPT ![r] = "recorded"]
             /\ runLog' = [runLog EXCEPT ![r] = jfile.gen]
             /\ proc' = "up"
    <3>1. jfile.gen = gen
      BY <2>0 DEF ProtocolInv, RunnerInv
    <3>2. LiveRuns' = LiveRuns \ {r} /\ r \in LiveRuns
      BY <2>0, <2>2 DEF LiveRuns, Live, ProtocolInv, TypeOK, RunType
    <3> QED
      BY <2>0, <2>2, <3>1, <3>2 DEF Ledger!Record, Up, LiveRuns
  <2> QED
    BY <1>HandleRunRec, <2>0, <2>1, <2>2 DEF HandleRunRec, Up
<1>SinksReturn. ASSUME SinksReturn
                PROVE  Ledger!Crash \/ UNCHANGED Ledger!ledgerVars
  <2>1. Up /\ UNCHANGED <<gen, runSt, runLog>>
    BY <1>SinksReturn DEF SinksReturn
  <2>2. CASE proc' = "panicSink"
    BY <2>1, <2>2, <1>crash DEF Ends
  <2>3. CASE proc' = "up"
    BY <2>1, <2>3, LedgerStutter DEF Up
  <2> QED
    BY <1>SinksReturn, <2>2, <2>3 DEF SinksReturn
<1>none. ASSUME rPc = "off" PROVE LiveRuns = {}
  BY <1>none DEF LiveRuns, ProtocolInv, RunInv
<1>Install. ASSUME Install PROVE Ledger!Replace
  <2>1. rPc = "off" /\ Up /\ gen' = gen + 1 /\ UNCHANGED <<runSt, runLog, proc>>
    BY <1>Install DEF Install, ProtocolInv, RunnerInv
  <2>2. LiveRuns = {} /\ LiveRuns' = LiveRuns
    BY <2>1, <1>none DEF LiveRuns, Live
  <2> QED
    BY <2>1, <2>2 DEF Ledger!Replace, Up, LiveRuns
<1>Exit. ASSUME Exit PROVE Ledger!Exit
  <2>1. rPc = "off" /\ Up /\ proc' = "exited" /\ UNCHANGED <<gen, runSt, runLog>>
    BY <1>Exit DEF Exit, ProtocolInv, MgrInv
  <2>2. LiveRuns = {} /\ LiveRuns' = LiveRuns
    BY <2>1, <1>none DEF LiveRuns, Live
  <2> QED
    BY <2>1, <2>2 DEF Ledger!Exit, Up, LiveRuns
<1>FinishRun. ASSUME NEW r \in RunIds, FinishRun(r)
              PROVE  UNCHANGED Ledger!ledgerVars
  <2>1. LiveRuns' = LiveRuns
    BY <1>FinishRun DEF FinishRun, LiveRuns, Live, ProtocolInv, TypeOK, RunType
  <2> QED
    BY <1>FinishRun, <2>1 DEF FinishRun, Ledger!ledgerVars, LiveRuns
<1>InstallFails. ASSUME InstallFails PROVE Ledger!Crash
  BY <1>InstallFails, <1>crash DEF InstallFails, Ends
<1>SendCmdOnClosed. ASSUME NEW c \in Clients, SendCmdOnClosed(c)
                    PROVE  Ledger!Crash
  BY <1>SendCmdOnClosed, <1>crash DEF SendCmdOnClosed, Ends
<1>DoCmd. ASSUME NEW c \in Clients, DoCmd(c)
          PROVE  UNCHANGED <<gen, runSt, runLog, proc>>
  BY <1>DoCmd
  DEF DoCmd, Reload, LoadJobfile, SetJob, DeleteJob, SetRawJobs,
      ReplaceCurrJobfile, List, Cat, Pause, Resume, InitCmd, Test
<1>quiet. ASSUME \/ InitialLoad \/ LeaveLoop \/ ShutdownDrained \/ TestsEnded
                 \/ Launch \/ StartListening \/ Quit \/ FinishTest \/ EditDisk
                 \/ Ended \/ PopNil \/ WaitForRuns \/ CloseRunRecChan
                 \/ UNCHANGED vars \/ (\E j \in Jobs : PopAndSkip(j))
                 \/ (\E c \in Clients : Connect(c) \/ Call(c))
          PROVE  UNCHANGED <<gen, runSt, runLog, proc>>
  BY <1>quiet
  DEF InitialLoad, LoadJobfile, ReplaceCurrJobfile, LeaveLoop, ShutdownDrained,
      TestsEnded, Launch, StartListening, Quit, FinishTest, EditDisk, Ended,
      PopNil, WaitForRuns, CloseRunRecChan, vars, PopAndSkip, Connect, Call
<1> QED
  BY <1>PopAndRun, <1>HandleRunRec, <1>SinksReturn, <1>Install, <1>Exit,
     <1>FinishRun, <1>InstallFails, <1>SendCmdOnClosed, <1>DoCmd, <1>quiet, LedgerStutter
  DEF Next, MainThread, RunnerThread, Environment, Ledger!Next

\* The process keeps the promises of RunLedger.
THEOREM JobManagerKeepsLedger == Spec => KeepsLedger
  BY LedgerInit, LedgerNext, ProtocolHolds, PTL
  DEF Spec, KeepsLedger, Ledger!Spec

-----------------------------------------------------------------------------
(***************************************************************************)
(* A command answered with an error changed nothing.                       *)
(***************************************************************************)
ErrorStep ==
  \A c \in Clients :
    (reply'[c] = "error" /\ reply[c] # "error") =>
      UNCHANGED <<fileVars, runnerVars, runVars, tests>>

LEMMA NextErrorStep == ProtocolInv /\ [Next]_vars => ErrorStep
<1> SUFFICES ASSUME ProtocolInv, [Next]_vars PROVE ErrorStep
  OBVIOUS
<1> USE DEF MainAt, workVars, mgrVars, ctxVars, fileVars, runnerVars, runVars, clientVars
<1>same. ASSUME UNCHANGED reply PROVE ErrorStep
  BY <1>same DEF ErrorStep
<1>ok. ASSUME NEW c, Respond(c, "ok") PROVE ErrorStep
  <2>1. \A d \in Clients : reply'[d] = "error" => reply[d] = "error"
    BY <1>ok DEF Respond
  <2> QED
    BY <2>1 DEF ErrorStep
<1>load. ASSUME NEW c, LoadJobfile(c), UNCHANGED <<fileVars, runVars, tests>>,
                c = NoClient \/ mgr = "loop"
         PROVE  ErrorStep
  <2>1. CASE UNCHANGED reply
    BY <2>1, <1>same
  <2>2. CASE Respond(c, "error") /\ c = NoClient
    <3>1. UNCHANGED reply
      BY <2>2, ConstantsAssumption DEF Respond, ProtocolInv, TypeOK, ClientType
    <3> QED
      BY <3>1, <1>same
  <2>3. CASE Respond(c, "error") /\ mgr = "loop"
    <3>1. Running
      BY <2>3 DEF ProtocolInv, MgrInv, RunnerInv
    <3>2. disk.kind # "unreadable" => UNCHANGED reply
      BY <1>load DEF LoadJobfile, Await
    <3>3. disk.kind = "unreadable" => UNCHANGED runnerVars
      BY <1>load, <3>1 DEF LoadJobfile
    <3> QED
      BY <1>load, <3>2, <3>3, <1>same DEF ErrorStep
  <2> QED
    BY <1>load, <2>1, <2>2, <2>3 DEF LoadJobfile, Await
<1>DoCmd. ASSUME NEW c \in Clients, DoCmd(c) PROVE ErrorStep
  <2>1. CASE Reload(c)
    BY <2>1, <1>load DEF Reload, Receives
  <2>2. CASE SetJob(c) \/ DeleteJob(c)
    BY <2>2, <1>same DEF SetJob, DeleteJob, SetRawJobs, Await
  <2>3. CASE List(c) \/ Cat(c) \/ InitCmd(c)
    BY <2>3 DEF List, Cat, InitCmd, ErrorStep
  <2>4. CASE Pause(c) \/ Resume(c)
    <3>1. Respond(c, "ok") \/ UNCHANGED paused
      BY <2>4 DEF Pause, Resume
    <3>2. UNCHANGED <<jfile, gen, runnerVars, runVars, tests>>
      BY <2>4 DEF Pause, Resume
    <3> QED
      BY <3>1, <3>2, <1>ok DEF ErrorStep
  <2>5. CASE Test(c)
    <3>1. Respond(c, "ok") \/ UNCHANGED tests
      BY <2>5 DEF Test
    <3>2. UNCHANGED <<fileVars, runnerVars, runVars>>
      BY <2>5 DEF Test
    <3> QED
      BY <3>1, <3>2, <1>ok DEF ErrorStep
  <2> QED
    BY <1>DoCmd, <2>1, <2>2, <2>3, <2>4, <2>5 DEF DoCmd
<1>InitialLoad. CASE InitialLoad
  BY <1>InitialLoad, <1>load DEF InitialLoad
<1>Install. CASE Install
  BY <1>Install, <1>ok DEF Install
<1>Call. ASSUME NEW c \in Clients, Call(c) PROVE ErrorStep
  <2>1. \A d \in Clients : reply'[d] = "error" => reply[d] = "error"
    BY <1>Call DEF Call, ProtocolInv, TypeOK, ClientType
  <2> QED
    BY <2>1 DEF ErrorStep
<1>quiet. ASSUME \/ LeaveLoop \/ ShutdownDrained \/ TestsEnded \/ Exit
                 \/ InstallFails \/ SinksReturn \/ Launch \/ StartListening \/ Quit
                 \/ FinishTest \/ EditDisk \/ Ended \/ PopNil \/ WaitForRuns
                 \/ CloseRunRecChan \/ UNCHANGED vars
                 \/ (\E j \in Jobs : PopAndSkip(j))
                 \/ (\E j \in Jobs, r \in RunIds : PopAndRun(j, r))
                 \/ (\E r \in RunIds : HandleRunRec(r) \/ FinishRun(r))
                 \/ (\E c \in Clients : Connect(c) \/ SendCmdOnClosed(c))
          PROVE  UNCHANGED reply
  BY <1>quiet
  DEF LeaveLoop, ShutdownDrained, TestsEnded, Exit, InstallFails, SinksReturn, Launch,
      StartListening, Quit, FinishTest, EditDisk, Ended, PopNil, WaitForRuns,
      CloseRunRecChan, vars, PopAndSkip, PopAndRun, HandleRunRec, FinishRun,
      Connect, SendCmdOnClosed
<1> QED
  BY <1>DoCmd, <1>InitialLoad, <1>Install, <1>Call, <1>quiet, <1>same
  DEF Next, MainThread, RunnerThread, Environment

\* A command answered with an error changed neither the jobfile, nor what is
\* paused, nor the runs, nor what the job-runner thread schedules.
THEOREM ErrorsChangeNothing == Spec => ErrorChangesNothing
<1>1. ProtocolInv /\ [Next]_vars => [ErrorStep]_vars
  BY NextErrorStep
<1>2. Spec => [][ErrorStep]_vars
  BY <1>1, ProtocolHolds, PTL DEF Spec
<1> QED
  BY <1>2 DEF ErrorChangesNothing, ErrorStep

=============================================================================
