------------------------------ MODULE FileRunLog ------------------------------
(***************************************************************************)
(* fileRunLog: the run log that is kept in backing files, the current one  *)
(* (number 0) and up to MaxHistories historical ones (1 is the newest),    *)
(* and the index of descriptors the process keeps in memory.  A file is    *)
(* the sequence of its entries, oldest first.                              *)
(*                                                                         *)
(* Put is cut into the steps it takes on the file system: the renaming of  *)
(* a rebuilt current file over the old one, each rename or removal of a    *)
(* rotation, the remaking of the index, the appending of an entry.  Any of *)
(* them may fail ("io" in Faults), and the process may end between any two *)
(* ("crash"); it is started again and makes a new index from the files.    *)
(*                                                                         *)
(* Sizes are counted in entries: with gLogEntryLen bytes to an entry and a *)
(* separator between two, isFull is nbrEntries >= MaxEntries, where        *)
(* MaxEntries is the largest n with n * (gLogEntryLen + 1) - 1 <=          *)
(* maxFileLen (0 if maxFileLen has no room for one entry).  A write that   *)
(* fails is taken to write nothing; a rename is taken to be atomic.        *)
(***************************************************************************)
EXTENDS RunLogEntries, FiniteSets

CONSTANTS
  MaxEntries,    \* maxFileLen, in entries
  MaxHistories,  \* fileRunLog.maxHistories
  NoFile,        \* there is no backing file of that number
  Faults,        \* the faults that may happen
  MaxFailures    \* bound: Puts that fail by an error of the file system

ASSUME FileRunLogAssumption ==
  /\ MaxEntries \in Nat /\ MaxHistories \in Nat /\ MaxFailures \in Nat
  /\ Faults \subseteq {"crash", "io"}
  /\ NoFile \notin Seq(Nat)

VARIABLES
  files,    \* the backing files, by number
  index,    \* fileRunLog.index: a sequence, index[i + 1] describes file i
  pc,       \* the step Put is at
  todo,     \* [pos: file to rotate next, entry: what to append afterwards,
            \*  ooo: putOutOfOrder is doing it]
  fate,     \* what became of each run
  deleted,  \* history: entries of the files that rotations removed
  stored    \* history: entries that were in the files when a Put returned

vars == <<files, index, pc, todo, fate, deleted, stored>>

FileNrs == 0..MaxHistories
NoEntry == 0
Nothing == [pos |-> 0, entry |-> NoEntry, ooo |-> "no"]

\* What an append to a file that is empty, but is not believed to be, leaves
\* at its head: a separator, so that no offset is right.
StrayNewline == 0

Contents(f) == IF f = NoFile THEN <<>> ELSE f
OnDisk(fs) == (UNION {Elements(Contents(fs[n])) : n \in FileNrs}) \ {StrayNewline}

-----------------------------------------------------------------------------
(***************************************************************************)
(* The index.                                                              *)
(***************************************************************************)

\* The number of entries in files 0 to n.
CountUpTo(fs) ==
  LET count[n \in -1..MaxHistories] ==
        IF n = -1 THEN 0 ELSE count[n - 1] + Len(Contents(fs[n]))
  IN  count

\* makeBackingFileDtor, of a file that exists.  A file of odd size is invalid.
MakeBackingFileDtor(f, startIdx) ==
  [nbrEntries |-> Len(f),
   earliest   |-> IF f = <<>> THEN 0 ELSE StartTime[f[1]],
   latest     |-> IF f = <<>> THEN 0 ELSE StartTime[f[Len(f)]],
   startIdx   |-> startIdx]

Valid(f) == StrayNewline \notin Elements(Contents(f))

WithCurrentFile(fs) == [fs EXCEPT ![0] = Contents(fs[0])]

\* makeIndex looks at historical files up to the first number that is free.
Indexed(fs) == {n \in FileNrs : \A m \in 1..n : fs[m] # NoFile}

\* Mutant: the start of a file is not counted from the files before it.
MakeIndexZero(fs) ==
  [i \in 1..Cardinality(Indexed(fs)) |->
     MakeBackingFileDtor(Contents(fs[i - 1]), 0)]

MakeIndex(fs) ==
  [i \in 1..Cardinality(Indexed(fs)) |->
     MakeBackingFileDtor(Contents(fs[i - 1]), CountUpTo(fs)[i - 2])]

CanIndex(fs) == \A n \in Indexed(fs) : Valid(fs[n])

IsFull(d) == d.nbrEntries >= MaxEntries

\* Mutant: the latest time is set for the first entry only.
PushedDtorStale(d, e) ==
  [d EXCEPT !.earliest = IF d.nbrEntries = 0 THEN StartTime[e] ELSE @,
            !.latest = IF d.nbrEntries = 0 THEN StartTime[e] ELSE @,
            !.nbrEntries = @ + 1]

\* pushEntryF, on the descriptor.
PushedDtor(d, e) ==
  [d EXCEPT !.earliest = IF d.nbrEntries = 0 THEN StartTime[e] ELSE @,
            !.latest = StartTime[e],
            !.nbrEntries = @ + 1]

\* pushEntryF, on the file.
PushedFile(d, f, e) ==
  (IF d.nbrEntries > 0 /\ f = <<>> THEN <<StrayNewline>> ELSE f) \o <<e>>

-----------------------------------------------------------------------------
(***************************************************************************)
(* Put.                                                                    *)
(***************************************************************************)

Init ==
  /\ files = WithCurrentFile([n \in FileNrs |-> NoFile])
  /\ index = MakeIndex(files)
  /\ pc = "idle" /\ todo = Nothing
  /\ fate = [r \in Runs |-> "future"]
  /\ deleted = {} /\ stored = {}

\* Runs that are being executed, and the one whose entry is being put.
Running == {r \in Runs : fate[r] = "running"}
Putting == {r \in Runs : fate[r] = "putting"}

StartRun(r) ==
  /\ pc # "down"
  /\ fate[r] = "future"
  /\ \A q \in Runs : q < r => fate[q] # "future"
  /\ Cardinality(Running) < MaxOverlap
  /\ fate' = [fate EXCEPT ![r] = "running"]
  /\ UNCHANGED <<files, index, pc, todo, deleted, stored>>

\* An operation on the files returns an error.  An operation that meets a file
\* an earlier failure has left behind may fail as well, whatever the bound.
IoFails ==
  "io" \in Faults /\ Cardinality({r \in Runs : fate[r] = "failed"}) < MaxFailures

\* Put returns, for the run being put (or for r, in a single step).
Return(rs, answer) ==
  /\ fate' = [q \in Runs |-> IF q \in rs THEN answer ELSE fate[q]]
  /\ pc' = "idle" /\ todo' = Nothing
  /\ stored' = stored \cup OnDisk(files')

TooEarly(r) == index[1].nbrEntries > 0 /\ index[1].earliest > StartTime[r]

\* Mutant: every entry is appended.
OutOfOrderNever(r) == FALSE

OutOfOrder(r) == index[1].nbrEntries > 0 /\ index[1].latest > StartTime[r]

\* Put, up to its first step on the file system.  An entry older than the
\* current file is refused; other errors are those of a step that failed.
PutRefused(r) ==
  /\ pc = "idle" /\ fate[r] = "running" /\ index # <<>>
  /\ TooEarly(r)
  /\ UNCHANGED <<files, index, deleted>>
  /\ Return({r}, "refused")

PutInOrder(r) ==
  /\ pc = "idle" /\ fate[r] = "running" /\ index # <<>>
  /\ ~TooEarly(r) /\ ~OutOfOrder(r)
  /\ fate' = [fate EXCEPT ![r] = "putting"]
  /\ todo' = [pos |-> Len(index) - 1, entry |-> r, ooo |-> "no"]
  /\ pc' = IF IsFull(index[1]) THEN "rotate" ELSE "push"
  /\ UNCHANGED <<files, index, deleted, stored>>

\* Every entry that the descriptor speaks of can be read at its offset.
Readable(d, f) ==
  d.nbrEntries > 0 => f # NoFile /\ Valid(f) /\ d.nbrEntries <= Len(Contents(f))

\* firstEntryNotAfter, less 1: the places between an entry that is not after r
\* and the next, which is.  There is one in a file that is in order.
InsertPlaces(f, r) ==
  {i \in 1..(Len(f) - 1) : StartTime[f[i]] <= StartTime[r]
                             /\ StartTime[f[i + 1]] > StartTime[r]}

\* Mutant: the new entry goes before its neighbour.
NewBackingFileSwapped(f, r, i, mustRotate) ==
  LET kept == IF mustRotate THEN SubSeq(f, 1, Len(f) - 1) ELSE f
  IN  IF i < Len(kept) THEN InsertAt(kept, i - 1, r) ELSE kept

\* The file putOutOfOrder writes to take the place of the current one.  If the
\* current one is full, its newest entry is not copied; the new entry is
\* written together with the one that follows it, if that one is copied.
NewBackingFile(f, r, i, mustRotate) ==
  LET kept == IF mustRotate THEN SubSeq(f, 1, Len(f) - 1) ELSE f
  IN  IF i < Len(kept) THEN InsertAt(kept, i, r) ELSE kept

\* putOutOfOrder, up to the renaming of the new file.  The newest entry of a
\* full file is appended to the file that is current after a rotation.
PutOutOfOrder(r) ==
  LET f == files[0]
      mustRotate == IsFull(index[1])
  IN  /\ pc = "idle" /\ fate[r] = "running" /\ index # <<>>
      /\ ~TooEarly(r) /\ OutOfOrder(r)
      /\ Readable(index[1], f)
      /\ \E i \in InsertPlaces(f, r) :
           LET newFile == NewBackingFile(f, r, i, mustRotate)
           IN  /\ files' = [files EXCEPT ![0] = newFile]
               /\ index' = [index EXCEPT ![1] = MakeBackingFileDtor(newFile, 0)]
      /\ \/ /\ mustRotate
            /\ fate' = [fate EXCEPT ![r] = "putting"]
            /\ todo' = [pos |-> Len(index) - 1, entry |-> f[Len(f)], ooo |-> "yes"]
            /\ pc' = "rotate"
            /\ UNCHANGED stored
         \/ /\ ~mustRotate
            /\ Return({r}, "logged")
      /\ UNCHANGED deleted

\* An error before that leaves the log as it is.
PutOutOfOrderFails(r) ==
  /\ pc = "idle" /\ fate[r] = "running" /\ index # <<>>
  /\ ~TooEarly(r) /\ OutOfOrder(r)
  /\ IoFails \/ ~Readable(index[1], files[0])
  /\ UNCHANGED <<files, index, deleted>>
  /\ Return({r}, "failed")

\* Mutant: the renames go from the newest file to the oldest.
RotateFilesUpwards ==
  LET old == Len(index) - 1 - todo.pos
  IN  /\ pc = "rotate" /\ files[old] # NoFile
      /\ files' = [files EXCEPT ![old] = NoFile, ![old + 1] = files[old]]
      /\ IF todo.pos = 0
           THEN pc' = "index" /\ UNCHANGED todo
           ELSE todo' = [todo EXCEPT !.pos = @ - 1] /\ UNCHANGED pc
      /\ UNCHANGED <<index, fate, deleted, stored>>

\* rotateFiles, one file: the oldest one there may be is removed, another one
\* gets the next number.
RotateFiles ==
  LET old == todo.pos
  IN  /\ pc = "rotate" /\ files[old] # NoFile
      /\ \/ /\ old + 1 > MaxHistories
            /\ files' = [files EXCEPT ![old] = NoFile]
            /\ deleted' = deleted \cup OnDisk([n \in FileNrs |-> files[old]])
         \/ /\ old + 1 <= MaxHistories
            /\ files' = [files EXCEPT ![old] = NoFile, ![old + 1] = files[old]]
            /\ UNCHANGED deleted
      /\ IF old = 0
           THEN pc' = "index" /\ UNCHANGED todo
           ELSE todo' = [todo EXCEPT !.pos = @ - 1] /\ UNCHANGED pc
      /\ UNCHANGED <<index, fate, stored>>

\* A rotation that fails half-way leaves the index as it was.
RotateFilesFails ==
  /\ pc = "rotate"
  /\ IoFails \/ files[todo.pos] = NoFile
  /\ UNCHANGED <<files, index, deleted>>
  /\ Return(Putting, "failed")

\* The end of rotateFiles: makeIndex, which makes the new current file.
RemakeIndex ==
  /\ pc = "index"
  /\ CanIndex(files)
  /\ files' = WithCurrentFile(files)
  /\ index' = MakeIndex(files')
  /\ pc' = "push"
  /\ UNCHANGED <<todo, fate, deleted, stored>>

\* makeIndex fails at file j; the index has the files before that one.
RemakeIndexFails ==
  /\ pc = "index"
  /\ \E j \in Indexed(files) :
       /\ \A n \in 1..(j - 1) : Valid(files[n])
       /\ IoFails \/ ~Valid(files[j])
       /\ files' = IF j = 0 THEN files ELSE WithCurrentFile(files)
       /\ index' = IF j = 0 THEN <<>>
                   ELSE MakeIndex([n \in FileNrs |-> IF n < j THEN files'[n] ELSE NoFile])
  /\ Return(Putting, "failed")
  /\ UNCHANGED deleted

\* Mutant: the starts of the historical files are not moved.
MovedStartsForgotten(ix) == ix

MovedStarts(ix) ==
  [i \in DOMAIN ix |-> IF i = 1 THEN ix[i] ELSE [ix[i] EXCEPT !.startIdx = @ + 1]]

\* Mutant: the entry is acknowledged but not written.
PushEntryUnwritten ==
  /\ pc = "push" /\ files[0] # NoFile
  /\ index' = MovedStarts([index EXCEPT ![1] = PushedDtor(@, todo.entry)])
  /\ UNCHANGED <<files, deleted>>
  /\ Return(Putting, "logged")

\* pushEntry, and the end of Put, which moves the starts of the historical
\* files; putOutOfOrder does not.
PushEntry ==
  LET pushed == [index EXCEPT ![1] = PushedDtor(@, todo.entry)]
  IN  /\ pc = "push" /\ files[0] # NoFile
      /\ files' = [files EXCEPT ![0] = PushedFile(index[1], @, todo.entry)]
      /\ index' = IF todo.ooo = "no" THEN MovedStarts(pushed) ELSE pushed
      /\ Return(Putting, "logged")
      /\ UNCHANGED deleted

\* The file cannot be opened, or cannot be written when the descriptor has
\* already been changed.
PushEntryFails ==
  /\ pc = "push"
  /\ IoFails \/ files[0] = NoFile
  /\ index' \in {index, [index EXCEPT ![1] = PushedDtor(@, todo.entry)]}
  /\ UNCHANGED <<files, deleted>>
  /\ Return(Putting, "failed")

-----------------------------------------------------------------------------
(***************************************************************************)
(* The life of the log object.                                             *)
(***************************************************************************)

\* The process ends.
Stop ==
  /\ pc' = "down" /\ todo' = Nothing /\ index' = <<>>
  /\ fate' = [q \in Runs |-> IF q \in Running \cup Putting THEN "lost" ELSE fate[q]]

Crash ==
  /\ "crash" \in Faults /\ pc # "down"
  /\ Stop
  /\ UNCHANGED <<files, deleted, stored>>

\* Put with a failed makeIndex behind it: "Index is not made".
PutPanics(r) ==
  /\ pc = "idle" /\ fate[r] = "running" /\ index = <<>>
  /\ Stop
  /\ UNCHANGED <<files, deleted, stored>>

\* NewFileRunLog, when the process is started again, and when a jobfile is
\* activated, by which time no run is left.  If the index cannot be made the
\* jobfile cannot be activated, and the process ends.
NewFileRunLog ==
  /\ pc = "down" \/ (pc = "idle" /\ Running = {})
  /\ files' = WithCurrentFile(files)
  /\ \/ /\ CanIndex(files)
        /\ index' = MakeIndex(files')
        /\ pc' = "idle"
        /\ UNCHANGED <<todo, fate>>
     \/ /\ ~CanIndex(files)
        /\ Stop
  /\ UNCHANGED <<deleted, stored>>

Next ==
  \/ \E r \in Runs :
       \/ StartRun(r) \/ PutRefused(r) \/ PutInOrder(r) \/ PutPanics(r)
       \/ PutOutOfOrder(r) \/ PutOutOfOrderFails(r)
  \/ RotateFiles \/ RotateFilesFails \/ RemakeIndex \/ RemakeIndexFails
  \/ PushEntry \/ PushEntryFails
  \/ Crash \/ NewFileRunLog

Spec == Init /\ [][Next]_vars

-----------------------------------------------------------------------------
(***************************************************************************)
(* The queries.                                                            *)
(***************************************************************************)

\* The entries of files 0 to k - 1, oldest first.
EntriesOf(k) ==
  LET cat[i \in 0..k] ==
        IF i = 0 THEN <<>> ELSE Contents(files[i - 1]) \o cat[i - 1]
  IN  cat[k]

\* The entries an iterator visits when it starts at the first one.
GetAll == Descending(EntriesOf(Len(index)))

\* iterAt: the place in GetAll at which an iterator for index idx starts, or
\* -1 for the panic "Bug!".
IterAt(idx) ==
  LET holds == {i \in DOMAIN index :
                  /\ index[i].startIdx <= idx
                  /\ index[i].startIdx + index[i].nbrEntries > idx}
      i == CHOOSE i \in holds : \A j \in holds : i <= j
  IN  IF holds = {} THEN -1
      ELSE CountUpTo(files)[i - 2] + idx - index[i].startIdx

\* GetFromTime(maxTime, minTime), as a set: the newest file whose times are
\* around maxTime is searched for the first entry to return.
GetFromTime(maxTime, minTime) ==
  LET around == {i \in DOMAIN index :
                   index[i].earliest <= maxTime /\ index[i].latest >= maxTime}
      i == CHOOSE i \in around : \A j \in around : i <= j
      f == files[i - 1]
      rel == Cardinality({j \in DOMAIN f : StartTime[f[j]] > maxTime})
      first == IterAt(index[i].startIdx + rel)
      stops == {k \in (first + 1)..Len(GetAll) : StartTime[GetAll[k]] <= minTime}
      stop == IF stops = {} THEN Len(GetAll) + 1
              ELSE CHOOSE k \in stops : \A m \in stops : k <= m
  IN  IF around = {} THEN {}
      ELSE {GetAll[k] : k \in (first + 1)..(stop - 1)}

-----------------------------------------------------------------------------
(***************************************************************************)
(* Properties.                                                             *)
(***************************************************************************)

\* No Put has failed yet, in this process or in an earlier one.
NoFailure == \A r \in Runs : fate[r] # "failed"

\* Until a Put fails, `jobber log` answers in descending order of start time,
\* whatever the order of the Puts and wherever the process crashed.
ReadInOrder ==
  pc = "idle" /\ NoFailure => Ascending(EntriesOf(Len(index)))

\* Until a Put fails, the descriptors agree between two Puts with the files they
\* stand for: every entry can be read, and TooEarly, OutOfOrder and GetFromTime
\* look at the right times.
IndexMatchesFiles ==
  pc = "idle" /\ NoFailure =>
    \A i \in DOMAIN index :
      /\ files[i - 1] # NoFile
      /\ MakeBackingFileDtor(files[i - 1], index[i].startIdx) = index[i]

\* Until a Put fails, a rotation throws out the oldest entries only, even if a
\* crash has left a gap in the numbers of the files.
OldestGoFirst ==
  NoFailure => \A d \in deleted, e \in OnDisk(files) : StartTime[d] <= StartTime[e]

\* An entry that was in the files when some Put returned is still there when
\* a later one returns, unless its file was removed by a rotation.
StoredStays ==
  pc \in {"idle", "down"} => stored \subseteq OnDisk(files) \cup deleted

\* Put returns nil when the entry is in the files and only then, even if one
\* of its steps fails, except when putOutOfOrder has to rotate.
AnswerIsTrue ==
  [][\A r \in Running \cup Putting : todo.ooo = "no" =>
       /\ fate'[r] = "logged" => r \in OnDisk(files')
       /\ fate'[r] \in {"refused", "failed"} => r \notin OnDisk(files')]_vars

\* "GetFromIndex(i)": Get all entries with index >= i: its iterator starts at
\* the entry that GetAll has at that index, as long as the entries come in
\* order.  putOutOfOrder does not move the starts of the historical files when
\* it inserts an entry before them, so with overlapping runs they are wrong.
FromIndexIsSlice ==
  pc = "idle" => \A i \in 0..(Len(GetAll) - 1) : IterAt(i) = i

\* "GetFromTime(t1, t2)": asked from the time of an entry that the log has, it
\* returns every entry no later than t1 that is later than t2, and no other,
\* however many entries have that time and whichever files they are in.  For a
\* t1 that is in the range of no file (later than the newest entry, or between
\* two files) it returns nothing, where the interface asks for all that is not
\* later than t1.
FromEntryTimeIsRight ==
  pc = "idle" =>
    \A e \in Elements(GetAll) : \A t2 \in 0..(StartTime[e] - 1) :
      GetFromTime(StartTime[e], t2) =
        {d \in Elements(GetAll) : StartTime[d] <= StartTime[e] /\ StartTime[d] > t2}

\* The log in files, hidden ones included, is a RunLog.
AbstractLog ==
  INSTANCE RunLog WITH
    log <- EntriesOf(MaxHistories + 1),
    fate <- [r \in Runs |-> IF fate[r] = "putting" THEN "running" ELSE fate[r]]
KeepsRunLog == AbstractLog!Spec

=============================================================================
