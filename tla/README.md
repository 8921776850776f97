# TLA+ models of jobber

Jobber is a replacement for cron: `jobbermaster` keeps one `jobberrunner`
process alive for each user, `jobberrunner` runs the jobs of that user's
jobfile, and `jobber` is the command-line client. These modules model the parts
of it that are concurrent, that survive failures, or that keep state over long
sequences of calls. `PROJECT.json` lists the runs, which source lines each
definition stands for, the hazards the properties are aimed at, and where the
code disagrees with its own comments.

    tlc -workers 2 -config MCJobManagerSafety.cfg MCJobManager
    tlapm JobManagerProofs.tla

## 1. The system

| Component | State | Operations | Interacts with |
|---|---|---|---|
| job manager, `jobberrunner/job_manager.go`, `cmd_*.go` | jobfile in memory, its run log, main context | initial load, reload, set/delete job, pause, resume, list, log, cat, init, test, run records, shutdown | takes commands from the IPC server over `CmdChan`, records from the job-runner thread over `RunRecChan` |
| job-runner thread, `job_runner_thread.go`, `queue.go` | `Running`, context, record channel, queue | Start, Cancel, pop, run, skip, close the channel | started and cancelled by the job manager; one thread for each run |
| a job and its error handlers, `jobfile/job.go`, `error_handler.go` | status, backoff level, skips left, paused | ShouldRun, Handle, the update after a run | run threads and the job-runner thread share its fields without a lock |
| IPC server, `ipc_server.go` | listener, one handler per connection | accept, call, answer | blocks on `CmdChan` and on the answer |
| test-job server, `testjob/` | wait group, socket per test | launch, wait for a connection, run, report | started by the `test` command |
| run log in memory, `jobfile/mem_only_run_log.go` | a bounded sorted slice | Put, GetAll, GetFromIndex, GetFromTime | written by the job manager, read by `log` |
| run log in files, `jobfile/file_run_log.go` | backing files, index of descriptors | the same, and rotation, re-indexing | the same; survives the process |
| command execution, `common/exec.go` | a subprocess, its pipes | start, wait, cancel | run threads |
| jobbermaster, `jobbermaster/main.go`, `runner_proc.go` | a thread, a process and a quit socket for each user | launch, restart, quit | holds one connection to each jobberrunner |
| socket sink, run-record servers, `jobfile/run_rec_server.go` | listeners, bounded buffers | push, accept, stop | record handling |
| other result sinks, `jobfile/result_sink_*.go` | files with a limit on age and size | handle a record | record handling |
| time specifications, `jobfile/time_spec.go` | the values picked at random | Satisfied, Derandomize | searched by the job queue |
| users and preferences, `jobbermaster/get_users.go`, `common/settings.go` | the preferences read at the start | load, select users | decides whom jobbermaster serves |
| jobfile and time parsing, CLI | none that lasts | parse, format | |

What is hard to get right here:

* a jobfile is replaced while runs of the old one are alive (a past bug, issue
  288, is mentioned in `replaceCurrJobfile`);
* a protocol of a flag, a context and a channel that is closed by deferred
  functions, guarded by panics;
* a shutdown that must still collect the records of the runs it cancels;
* runs of one job that overlap and race on the job's fields;
* log entries that are put in the order in which runs end, kept in the order in
  which they started, in files that are rebuilt and renamed, with crashes and
  input/output errors in between;
* a thread per server and per connection, bounded channels that drop, and
  servers that are replaced while records are in them;
* a test whose client may come too late, leave, or outlast the job, while the
  job may leave processes behind;
* a queue that sleeps, wakes late, and must neither skip nor repeat a second;
* a process that is launched through `su`, watched through one channel and
  controlled through one socket, either of which may be first to report.

What would make each part correct is stated by the properties of its module
(section 3); the hazards, each with its line, are in `PROJECT.json`.

## 2. Modules

| Module | Models | Runs | Proofs |
|---|---|---|---|
| `JobManager` | one jobberrunner process: main thread, job-runner thread, run threads, IPC handlers, test threads, the ways it ends | `MCJobManager*` | `JobManagerProofs` |
| `RunLedger` | abstract: what the process promises about runs and records | refined by `JobManager` | |
| `JobRun` | one job and its overlapping runs, access by access | `MCJobRun*` | `JobRunProofs` |
| `RunLogEntries` | entries, their order, insertion | constant operators | |
| `RunLog` | abstract: what the interface `RunLog` promises | refined by both logs | |
| `MemRunLog` | the log in memory | `MCMemRunLog*` | `MemRunLogProofs` |
| `FileRunLog` | the log in files, at the granularity of its steps on the file system | `MCFileRunLog*` | `FileRunLogProofs` |
| `JobQueue` | the queue, the search for a job's next time, the sleeping in Pop | `MCJobQueue*` | `JobQueueProofs` |
| `TimeSpec` | time specifications and when a time satisfies one | constant operators, used by `JobQueue` | |
| `RunRecServer` | the socket sink: registry, servers, acceptors, connection handlers | `MCRunRecServer*` | `RunRecServerProofs` |
| `TestJobServer` | the test of a job: server, its goroutines, shell, client | `MCTestJobServer*` | `TestJobServerProofs` |
| `JobberMaster` | jobbermaster and the lives of its jobberrunners | `MCJobberMaster*` | `JobberMasterProofs` |
| `UserSelection` | preferences and the checks of an account | constant operators, used by `JobberMaster` | |

The modules meet at narrow interfaces. In `JobManager` a jobfile is a
*generation* with a log of its own, which is all it needs to know of `RunLog`;
a run's outcome there is what `JobRun` shows in detail, and which job is popped
what `JobQueue` does; a test thread there is one `serve` of `TestJobServer`; the
sinks it notifies include those of `RunRecServer`; the process as a whole is the
`runner` of `JobberMaster`.

### JobManager

`mgr` is the program counter of `runMainThread` (and, in `drain`, of the
`replaceCurrJobfile` it is in the middle of); `rPc`, `flag`, `chan` and `rCtx`
are the job-runner thread; `runSt`, `runGen`, `runOut` and `runLog` are the
threads of the runs and where their records went; `clSt` and `clCmd` are the
handlers of IPC connections, which block first to send their command and then
for the answer. The action of a command is the whole handler in `cmd_*.go`;
commands that install a jobfile end in `drain`, from which `Install` or
`InstallFails` goes on when the record channel is closed. `sinks` is `busy` while
the main thread, in the middle of a record, waits for the program of a sink: the
code gives it no timeout, so `SinksReturn` may never be taken, and meanwhile no
step of the main thread is. A context is a number, because the test server is
given one context and the main thread cancels another.

Abstracted: the clock (any queued job may be popped at any time) and the
decision of ShouldRun (`PopAndRun` or `PopAndSkip`, either way). Faults of the
environment are in the constant `Faults`: a jobfile that does not activate, an
error from RunJob, a sink whose program cannot be started, a jobfile that
cannot be read or written.

### JobRun

One access to a shared field is one step: each test of the status or of the
level, each assignment, and for `skipsLeft--`, `backoffLevel *= 2` and
`skipsLeft = backoffLevel` the read and the write apart (`left` and `tmp` hold
what was read). `fails`, `skipped` and `overlapped` are history variables. Left
out: a paused job is also asked ShouldRun, and so uses up its skips, but is not
run.

### RunLog, MemRunLog, FileRunLog

A run is a number, in the order of starting; `StartTime` need not be injective.
An entry is put when its run ends, so `MaxOverlap` says how far out of order
entries can be. `fate` records what Put answered.

`FileRunLog` cuts Put at each step on the file system: the rename of a rebuilt
file over the current one, each rename or removal of a rotation, the remaking of
the index, the append. `Crash` is possible between any two; with `"io"` in
`Faults` each step may fail, up to `MaxFailures` Puts. Such a Put answers
`failed`; `refused` is the answer to an entry that is too old. Once a Put has
failed, index and files may disagree, and the invariants about them are stated
for as long as none has (`NoFailure`). Two assumptions on the file system: a
rename is atomic, and a write that fails writes nothing. Sizes are counted in
entries, as all entries are padded to the same length.

### JobQueue and TimeSpec

Time is counted in ticks, `Second` of them to a second, because a job is
scheduled at the fraction of a second at which the search for its time began and
so drifts with every late wake-up. `now` is the clock; `popNow` the variable of
that name in Pop, which is read when the loop calls Pop and when the timer
fires, but not when Pop calls itself after a skipped job. Steps of the thread
may be delayed at will, which is where latency comes from. A local time is seen
through the six fields of `Calendar`; `Horizon` stands for the two years of the
search. `began`, `base`, `served`, `missed` and `cut` are history: of the
matching seconds a late pop does not serve, `missed` has those that were over,
and `cut` the one it happened in. The clock is not set back, and a second of the
calendar is not repeated.

A component of a specification is a record of its kind and values;
`Derandomized` is the set of what Derandomize can make of it.

### RunRecServer

A server is a record: its flag `running`, the listener, the acceptor goroutine,
the thread, the channel of records (`queue`, closed if `shut`). A connection is
one too, from the kernel's backlog over the acceptor to its handler. The
channel between acceptor and thread has no buffer: an acceptor that is
`sending` when the thread has ended stays so. SetServers is one step, as only
the main thread calls it and Push. That a listener without references is closed
by the garbage collector is `Collect`. A handler is dropped from the server's
list when the thread next looks; as a handler that is not running ignores Push
and Stop, that needs no state. Not modelled: the contents of a record, and the
removal of a Unix socket's file.

### TestJobServer

The record of a test has a field for each goroutine's place: `serve`, the one
that accepts, the one that reads the connection to see it close, and os/exec's
that copies output; runThread's place is that of `serve`, which waits for it.
The deferred functions of `serve` are steps of their own, in the order in which
they run. `kids` says that a process the shell left in the background has the
output pipe open: Wait of os/exec returns only when shell and pipe have ended.
The context of the server is never cancelled (`jobmanager_quit_test`), so it has
no state.

### JobberMaster and UserSelection

`conf` is the preferences file, which is read once; a pattern in it stands as
the set of the names it matches. An account is `hidden` if its name makes
shouldRunForUser_platform refuse it, which only happens on Darwin. `thread` is
runnerThread and the LaunchRunner it calls; `runner` the process, which is
`quitting` from the moment it calls quit, until the job manager has ended and
with it the process (`QuitReturns`); `conn` the connection over the quit socket,
`pending` between jobberrunner's connect and jobbermaster's accept. The `su`
process between the two needs no state: jobberrunner holds the pipe of standard
error, and `Wait` does not return before that is closed.

## 3. Runs

The limit of each run is chosen so that the case it is about occurs; each is
exhaustive within its bounds. Each property of a passing run is also shown to
fail when one definition is changed the way a plausible bug would change it
(`PROJECT.json`, "mutants"); the changed definitions are in the modules, marked
"Mutant".

| Run | Bounds | Shows |
|---|---|---|
| `jobmanager_safety` | 2 jobs (1 in the jobfile on disk), 2 clients (one over TCP), 2 runs, 2 commands of any kind, all faults | runs never outlive their jobfile (`RunsOfInstalledFile`); records go into the right log (`RecordsInOwnLog`); no protocol panic; nothing is unrecorded at an orderly end; the loop always has a scheduler for the jobfile in memory; an error answer means nothing was changed, also by a `pause` of a known and an unknown job; refinement of `RunLedger` |
| `jobmanager_live` | 1 job, 2 clients, 1 run, 2 commands other than `test`, no faults, fairness | every command is answered; a quit ends the process, though jobs may run for ever; both unless a sink never returns |
| `jobrun` | MaxBackoffWait = 8 as in the code, 2 runs that may overlap, all handlers, fairness | a job that ends as Failed was reported, and a job in backoff is retried, whatever the races did; as long as nothing overlaps, when a job is given up |
| `jobqueue` | 2 jobs (every second of the first day; a random minute on the 1st, the 4th or one weekday), 2 ticks to a second, 5 seconds, a horizon of 4, 2 activations, fairness | when the thread wakes late, a matching second is not served only if it was over, or is the second of the pop itself, and a job leaves the queue only if the horizon has no time for it; none is served twice in an activation; a due job is popped |
| `runrec_servers` | 2 server ids on one address, 2 launches, 1 client, 3 records, buffers of 1, all faults, fairness | a client's stream is in order, and what it lacks was counted as dropped or is in a channel that the server's thread left behind when it saw the connections closed; the registry and the servers that run agree; a server that stops lets its connections go |
| `testjob` | 2 tests, 1 piece of output, Accept and Start may fail, fairness | what a client is told is true and complete; Wait does not return before the shell has ended; a client that leaves ends the shell; one that stays is disconnected in the end |
| `memlog` | 5 runs, 4 overlapping, 2 with the same time, capacity 3 | retention of the newest, refinement of `RunLog` |
| `filelog_sequential` | 8 runs in sequence, files of 2 entries, 2 histories, crashes | what is stored stays, indices are right, GetFromTime is right from the time of an entry, refinement of `RunLog` |
| `filelog_overlap` | 10 runs, 3 overlapping, files of 3 entries, crashes, any step may fail, until 1 Put has | until then, reading is in order, descriptors agree with the files, rotation removes the oldest; always, Put's answer says whether the entry is in the files, except where putOutOfOrder has to rotate |
| `master` | 4 users (one does not own her home, one is hidden), 64 preferences files, all faults, fairness | only selected users get a process; no unwatched process, no rivals; a signal ends jobbermaster and makes every jobberrunner quit; no orphans, if those quits return |

Two more runs are to find a counterexample: `jobmanager_quit_test` and
`jobrun_backoff_doc` (see "Where the code and its comments disagree").

Why these bounds are enough: two runs let one be waiting with its record while
another is executing when the jobfile is replaced; two commands let one wait
while another drains; a third generation is like a second. Eight sequential
entries in files of two fill the current file, both histories, and rotate out
the oldest. Ten entries in files of three, three overlapping, do the same and
leave room for every place of insertion. Users share nothing but the preferences,
which are not written, so four show what any number would. A server's thread
never waits for a handler, so that connections do not influence each other and
one shows what any number would; a buffer of one is full as soon as anybody is
slow; two launches let a server be replaced by one of the other id or of its
own. Tests share only the wait group. A clock of five seconds reaches past the
first activation's horizon of four; two ticks are enough for jobs to drift.

Bounds in the specifications: `RunIds`, `MaxCalls` and `DiskJobs` (runs and
commands of one process, jobs of the file on disk), `Runs` and `MaxOverlap`
(entries), `MaxFailures` (Puts that fail by an error of the file system),
`MaxOverlap` and `FailCap` (overlap, and how far a history variable
counts), `MaxLaunches` and `MaxRecs`, `MaxOut`, `MaxTime` and `MaxStarts`, all
named where they are declared. Deadlock checking is off for `master` and
`testjob`, as jobbermaster and the tested process may end, and for
`runrec_servers` and `jobqueue`, which stop at their bounds; `JobManager` has an
explicit `Ended` step.

### Where the code and its comments disagree

Two runs state what comments say and find a counterexample:

* `jobmanager_quit_test`: a job under test is not cancelled at quit, and the
  process waits for it;
* `jobrun_backoff_doc`: after n failures in a row a job in backoff skips
  2^(n-1) - 1 chances, not 2^(n-1) as the comment in the error handler says,
  because the chance at which `skipsLeft` gets to 0 is taken. The theorem
  `WaitsForItsTurn` states what the code does.

The models also show these, which have no run of their own; the properties are
stated so as not to claim the opposite:

* two runs of a job that fail at about the same time may leave its backoff level
  at 0, from where it never grows, though the comment in the error handler has
  it start at 1 (`ReadLevel`, `DoubleLevel`);
* a crash in an out-of-order Put to a full file loses the newest entry, which
  had been on disk (`PutOutOfOrder` and then `Crash`), though the log is to
  reflect all jobs that have run: `StoredStays` is checked for entries in order;
* an entry that belongs just before the newest of a full file is acknowledged
  but not written (`NewBackingFile`), for which reason `AnswerIsTrue` leaves out
  a putOutOfOrder that has to rotate;
* a sink's program that does not end keeps the main thread from every command
  and from quitting, so `CommandAnswered` and `QuitEnds` are claimed only if
  sinks return; a jobberrunner whose quit does not return, for that reason or
  because of a test, outlives jobbermaster (`NoOrphans`);
* records that are in a server's channel when its thread finds the channel of
  connections closed are lost to all clients, and counted nowhere
  (`ThreadReturns`; `StreamIntact` says that this is the only way);
* a job that is popped late, if only by a tick across the end of a second, is
  not run for the second that has just begun, though that may match, too: the
  next search starts a second after the pop (`Scheduled`, `cut`);
* a connection that is accepted just when a server's thread ends, or when the
  minute of a test is over, is kept open and never used (`Leaked`,
  `StopReleases` speaks of connections that have a handler);
* a server whose listener has failed stays in the registry, and is not replaced
  as long as jobfiles name it (`RegistryAgrees`);
* when only the protocol of an address changes, the new server cannot listen and
  the old one is stopped, so that nobody listens (`SetServers`);
* a jobfile that is activated twice in one second may run a job twice in it: the
  search starts with the present second (`Start`; `OncePerSecond` is about one
  activation);
* without a preferences file jobbermaster exits, though the log says "Using
  defaults" (`PrefsLoad`); an entry without fields matches everybody
  (`Matches`);
* when a jobfile does not activate, the process dies of a nil dereference
  (`InstallFails`), though the message says "Reloading previous one";
* a job marked Failed is set to Good by a success of an overlapping run;
* "Get all entries that started no later than t1 but later than t2" is not what
  GetFromTime returns for every t1. In memory the search at the upper end
  compares the wrong way round: of several entries at t1 only the first is
  returned, between two entries one that is later than t1, and after the newest
  nothing. That query is not modelled. In files, nothing is returned for a t1
  that is in the range of no file (`GetFromTime`; `FromEntryTimeIsRight` is about
  the others). Only tests call it: `jobber log` is answered by GetAll;
* an out-of-order Put does not move the starts of the historical files, so that
  `FromIndexIsSlice` of `FileRunLog` holds for entries put in order only;
* a rotation whose re-indexing fails leaves a shorter index, and the next
  rotation overwrites a historical file: `StoredStays` is not claimed when
  input/output fails;
* a jobberrunner that ends before its connection is accepted is not restarted
  (`ExitedPrematurely`).

### Fairness

* `JobManager`: goroutines that can run do run, and a `select` does not ignore a
  ready case for ever. A job is *not* assumed to end by itself; only one whose
  context is cancelled is, because ExecAndWaitContext then kills it. The same
  holds of test threads. The programs of sinks are *not* assumed to end, as
  nothing kills them: `SinksReturn` has no fairness, and `CommandAnswered` and
  `QuitEnds` have the hypothesis `SinksEnd`. Clients, the user and the jobfile
  on disk have no fairness.
* `JobRun`: time passes, so a job gets its chances; the steps after the command
  has ended are taken. The command may take for ever.
* `JobQueue`: time passes and the job-runner thread is scheduled. When jobfiles
  are activated and the thread cancelled is free.
* `RunRecServer`: goroutines are scheduled, and a Write ends, as it has a
  deadline. Clients, the main thread and the garbage collector have no fairness.
* `TestJobServer`: goroutines are scheduled, a minute passes, and a client that
  stays reads what it is sent, as `doTestCmd` does (a client that does not read
  would make Write, the test and at quit the process wait). The job may run for
  ever, and clients come and go as they like.
* `JobberMaster`: weak fairness for threads and for a jobberrunner's dialling
  and reading; strong fairness for the `ctx.Done()` case of a `select` that may
  find both cases ready each time a jobberrunner is restarted. None for faults,
  including the death of processes, and none for `QuitReturns`, as quit waits for
  the job manager: `NoOrphans` has the hypothesis that it returns.

## 4. Proofs

All constants are arbitrary, subject to the assumptions named in the modules.

* `JobManagerProofs`: `TypeCorrect`, `LiveRunsAreOfInstalledFile`,
  `RecordsAreInOwnLog`, `ProtocolNeverPanics`, `NothingLostAtEnd`,
  `RunnerServes`, `ErrorsChangeNothing`, and `JobManagerKeepsLedger`
  (`JobManager` implements `RunLedger`), for any number of jobs, clients, runs
  and commands. None of the invariants is inductive by itself: that no record
  is sent on a closed channel needs that the channel is closed only after all
  runs have ended, which needs that a run is alive only while the thread is
  popping or waiting. `ProtocolInv` is the conjunction of the types,
  `RunnerInv` (which combinations of thread, flag, channel and context occur),
  `MgrInv` (what the main thread may rely on at each of its places) and
  `RunInv` (what is true of runs that are alive or recorded).
* `JobRunProofs`: `StopIsReported`, `GivenUpInTime` and `WaitsForItsTurn`, for
  any number of overlapping runs and any MaxBackoffWait. `ReportInv` says that
  as long as a job is Failed and not reported there is a run on its way to
  reading that status. `BackoffInv` says, for as long as nothing has overlapped,
  how the level (the power of two that belongs to `fails`), the skips left and
  `skipped` are related at each place of the one run, and between runs.
* `MemRunLogProofs`: `EntriesInOrder`, `NewestAreKept` and
  `MemLogKeepsRunLog`, for any number of runs, overlap and capacity. `LogInv`
  joins the three invariants; retention needs order, because what is thrown out
  is the *first* entry.
* `FileRunLogProofs`, for any number of runs and of files, any file size (one
  that has no room for an entry included), in three layers.
  * Any overlap, any fault: `AnswersAreTrue`. `AnswerInv` says which runs may
    be in the files: those that have ended, and of the one being put only what
    putOutOfOrder has written.
  * Any overlap, any fault, until a Put fails: `DescriptorsMatch`,
    `OldestAreDeleted`, `LogIsInOrder`. `UntilFailure` says that `DiskInv` holds
    unless a Put has failed, which is never taken back; `DiskInv` says that
    each file is in order (`Sorted`), that files with higher numbers hold older
    entries (`Layered`), that what was deleted is older still, that the entry
    Put carries over a rotation is the newest (`CarriedIsNewest`), that a run
    is not older than the histories when the current file is empty, as Put then
    compares it with nothing (`NewerThanHistory`), that runs have started in
    order, which of the files a rotation is going to move exist (`RotateInv`),
    and that the index describes the files. Order needs all of these: an entry
    is appended without looking at any file but the current one.
  * No overlap, crashes at any step, no failing operation: `StoredEntriesStay`,
    `SlicesAreRight`, `TimesAreRight` and `FileLogKeepsRunLog` (`FileRunLog`
    implements `RunLog`). `SequentialInv` adds to `DiskInv` that the only run is
    the newest (`TurnInv`), that what was stored is on disk or deleted, and that
    the starts in the index are the numbers of entries before each file
    (`StartsInv`). Without overlap putOutOfOrder is never reached and nothing is
    refused; section 3 says what becomes of these properties when it is. What
    the model computes by recursion over the files (`EntriesOf`, `CountUpTo`) is
    shown to exist and to be unique, and facts about it follow from the least
    number of files for which they could be false (`LeastNumber`).
* `JobberMasterProofs`: `AliveAreWatched`, `OneRunnerAtATime` and
  `SelectedUsersOnly`, for any users, accounts, preferences files and faults.
  `WatchInv` ties the place of each thread to the state of its process;
  `ServedAreSelected` says that a user who has a thread, or ever had a process,
  was selected, which a relaunch needs.
* `JobQueueProofs`: `NoneForgotten` and `ServedOnce`, for any jobs,
  specifications, calendar, horizon and lateness of the thread. `QueueInv` says
  that a job has a next time as long as it is queued or is the one Pop holds.
  `SearchInv` says that no second between the start of a job's last search and
  its next time satisfies its specification, and that the seconds before that
  start have been served or are counted as missed or cut: the two together leave
  no gap and no second twice.
* `RunRecServerProofs`: `RegistryIsRight` and `StreamsAreIntact`, for any number
  of servers, connections, records and buffers. `RegistryInv` says that
  a server that runs is the last one launched for an id in the registry, and
  that a registered one has not been shut. `StreamInv` says that a server's
  channel holds the end of what it was offered, in order, and that each record
  that has left it since a connection was made is in that connection's stream
  (received, being written or queued) or is counted as dropped; records are left
  in the channel of a thread that has returned only if its acceptor's channel
  was closed.
* `TestJobServerProofs`: `ResultsAreTrue` and `NothingIsLeftRunning`, for any
  number of tests and amount of output. `TestInv` ties the places of
  `serve` and of the other goroutines to the shell and the client: `serve` is
  past Wait only when shell and pipe have ended, a client that is still
  connected has cancelled nothing, and the end of the output was seen after
  every writer had gone. The tests do not touch each other, so that a step of
  one keeps the invariant of the others.

The assumptions on the constants say no more than the code does: run and file
numbers are naturals, `StartTime` grows with the number of a run, values that
stand for "none" are not values of the kind they stand beside (`Nil \notin Nat`,
`NoFile \notin Seq(Nat)`), the ids of servers are finitely many,
`MaxBackoffWait` is positive, and the bound `FailCap` of a history variable lies
above it. The last layer of `FileRunLogProofs` states `"io" \notin Faults` and
`MaxOverlap <= 1` as hypotheses of its theorems.

Every safety property that a passing run checks, both refinements of `RunLog` and the
one of `RunLedger` are proved. Only model-checked is liveness, as the prover has
no rules for fairness and ENABLED: `CommandAnswered`, `QuitEnds`,
`RetriedAfterBackoff`, `StopReleases`, `CancelEndsShell`, `ClientReleased`,
`DueIsPopped`, `SignalReachesAll` and `NoOrphans`.

## 5. What is not modelled, and the plan

Not modelled: formats and wording (YAML, RPC encoding, output of the sinks and
of the client, for instance that SerializeRunRec fills the field for standard
error from standard output), the parser of time specifications (generated),
file permissions (both `LaunchRunner` and `TestJobServer.Launch` change the
umask of the whole process while other goroutines make files or start jobs),
the directory settings, logging, packaging. Of the client only the end of
`doTestCmd` that meets the test server: there, an error other than EOF makes it
read for ever. Everything below is planned, in this order:

1. Proofs of what the overlapping and failing cases of `FileRunLog` still
   promise: which entries a crash in putOutOfOrder can lose, and which starts in
   the index are wrong after it.
2. The removal of old files by the filesystem sink.
3. The copying fallback of `renameRobust` and partial writes in `FileRunLog`; the
   encoding of an entry (one longer than gLogEntryLen makes the padding negative,
   and strings.Repeat panics).
4. Command execution: pipes, the temporary files, the race of cancellation with
   the end of the process.
5. A composition of `JobManager` with a `RunLog`, so that a reload or a crash
   and the log are seen together.
