--------------------------- MODULE FileRunLogProofs ---------------------------
(***************************************************************************)
(* Proofs about FileRunLog.                                                *)
(*                                                                         *)
(* AnswerInv says which runs may be in the files, whatever fails.  DiskInv *)
(* is about the log as long as its operations on files do not fail, but    *)
(* the process may end between any two of them: the files are in order and *)
(* so are their entries, what was deleted is older, the entry that Put     *)
(* carries along is newer, and the index is the one makeIndex would make.  *)
(* SequentialInv adds what holds when no two runs overlap: the only run    *)
(* there is is the newest, nothing that was stored is lost, and the starts *)
(* in the index are the numbers of entries before each file.  From it      *)
(* follow what the queries return, and that the log is a RunLog.           *)
(***************************************************************************)
EXTENDS FileRunLog, FiniteSetTheorems, SequenceTheorems, WellFoundedInduction, TLAPS

\* What may stand in a file: entries of runs, and perhaps a stray separator.
Lines == Runs \union {StrayNewline}

FilesOf(X) == [FileNrs -> Seq(X) \union {NoFile}]

\* The entries of file n.
InFile(fs, n) == Elements(Contents(fs[n]))

-----------------------------------------------------------------------------
(***************************************************************************)
(* What Put answers.                                                       *)
(***************************************************************************)

\* The index has no more descriptors than there may be files.
Sized(ix) == ix # <<>> => \E k \in 1..(MaxHistories + 1) : DOMAIN ix = 1..k

AnswerType ==
  /\ files \in FilesOf(Lines)
  /\ fate \in [Runs -> RunStates]
  /\ pc \in {"idle", "rotate", "index", "push", "down"}
  /\ todo \in [pos : FileNrs, entry : Runs \union {NoEntry}, ooo : {"yes", "no"}]
  /\ pc \in {"rotate", "index", "push"} => todo.entry \in Runs
  /\ pc \in {"idle", "down"} => todo = Nothing
  /\ Sized(index)

\* A run in the files has ended, and the run whose entry is to be appended is
\* not in them.
OnlyEnded ==
  \A e \in OnDisk(files) : /\ fate[e] \notin {"future", "running"}
                           /\ fate[e] = "putting" => todo.ooo = "yes"

\* The run that is being put.
PutInv ==
  /\ \A r \in Runs : fate[r] = "putting" => pc \in {"rotate", "index", "push"}
  /\ todo.ooo = "no" => \A r \in Runs : fate[r] = "putting" => r = todo.entry
  /\ pc \in {"rotate", "index", "push"} => fate[todo.entry] \notin {"future", "running"}
  /\ pc \in {"rotate", "index", "push"} => \E r \in Runs : fate[r] = "putting"

AnswerInv == AnswerType /\ OnlyEnded /\ PutInv

-----------------------------------------------------------------------------
(***************************************************************************)
(* Sequences.                                                              *)
(***************************************************************************)

LEMMA LeastNumber ==
  ASSUME NEW T \in SUBSET Nat, T # {}
  PROVE  \E x \in T : \A y \in T : x <= y
<1>1. IsWellFoundedOn(OpToRel(<, Nat), Nat)
  BY NatLessThanWellFounded
<1>2. PICK x \in T : \A y \in T : ~(<<y, x>> \in OpToRel(<, Nat))
  BY <1>1, WFMin
<1>3. ASSUME NEW y \in T PROVE x <= y
  <2>1. ~(<<y, x>> \in OpToRel(<, Nat))
    BY <1>2
  <2>2. x \in Nat /\ y \in Nat
    OBVIOUS
  <2>3. ~(y < x)
    BY <2>1, <2>2 DEF OpToRel
  <2> QED BY <2>2, <2>3
<1> QED BY <1>3

\* What InsertAt returns, entry by entry.
LEMMA InsertAtEntries ==
  ASSUME NEW X, NEW s \in Seq(X), NEW i \in 0..Len(s), NEW r \in X
  PROVE  /\ InsertAt(s, i, r) \in Seq(X)
         /\ Len(InsertAt(s, i, r)) = Len(s) + 1
         /\ \A k \in 1..(Len(s) + 1) :
              InsertAt(s, i, r)[k] =
                IF k <= i THEN s[k] ELSE IF k = i + 1 THEN r ELSE s[k - 1]
<1> DEFINE a == SubSeq(s, 1, i)
           b == SubSeq(s, i + 1, Len(s))
<1>1. a \in Seq(X) /\ Len(a) = i /\ \A k \in 1..i : a[k] = s[k]
  OBVIOUS
<1>2. /\ b \in Seq(X) /\ Len(b) = Len(s) - i
      /\ \A k \in 1..(Len(s) - i) : b[k] = s[i + k]
  OBVIOUS
<1> HIDE DEF a, b
<1> DEFINE c == a \o <<r>>
<1>3. /\ c \in Seq(X) /\ Len(c) = i + 1
      /\ \A k \in 1..(i + 1) : c[k] = IF k <= i THEN s[k] ELSE r
  BY <1>1
<1> HIDE DEF c
<1>4. /\ c \o b \in Seq(X) /\ Len(c \o b) = Len(s) + 1
      /\ \A k \in 1..(Len(s) + 1) : (c \o b)[k] = IF k <= i + 1 THEN c[k] ELSE b[k - (i + 1)]
  BY <1>2, <1>3
<1>5. \A k \in 1..(Len(s) + 1) : k > i + 1 => b[k - (i + 1)] = s[k - 1]
  BY <1>2
<1>6. InsertAt(s, i, r) = c \o b
  BY DEF InsertAt, a, b, c
<1> QED BY <1>3, <1>4, <1>5, <1>6

LEMMA SeqElements ==
  ASSUME NEW X, NEW s \in Seq(X)
  PROVE  /\ DOMAIN s = 1..Len(s) /\ Len(s) \in Nat
         /\ Elements(s) = {s[i] : i \in 1..Len(s)} /\ Elements(s) \subseteq X
BY DEF Elements

\* The entries of the file that putOutOfOrder writes.
LEMMA NewFileEntries ==
  ASSUME NEW X, NEW f \in Seq(X), NEW r \in X, NEW i \in 1..(Len(f) - 1), NEW m \in BOOLEAN,
         NEW g, g = NewBackingFile(f, r, i, m)
  PROVE  /\ g \in Seq(X) /\ Elements(g) \subseteq Elements(f) \union {r}
         /\ ~m => r \in Elements(g)
<1> DEFINE kept == IF m THEN SubSeq(f, 1, Len(f) - 1) ELSE f
           h == InsertAt(kept, i, r)
<1>1. Len(f) \in Nat /\ i \in Nat /\ i >= 1 /\ i <= Len(f) - 1
  OBVIOUS
<1>2. /\ kept \in Seq(X) /\ Len(kept) = IF m THEN Len(f) - 1 ELSE Len(f)
      /\ \A k \in 1..Len(kept) : kept[k] = f[k]
  <2>1. CASE m
    <3>1. /\ SubSeq(f, 1, Len(f) - 1) \in Seq(X) /\ Len(SubSeq(f, 1, Len(f) - 1)) = Len(f) - 1
          /\ \A k \in 1..(Len(f) - 1) : SubSeq(f, 1, Len(f) - 1)[k] = f[k]
      BY <1>1
    <3> QED BY <2>1, <3>1
  <2>2. CASE ~m
    BY <2>2
  <2> QED BY <2>1, <2>2
<1>3. g = IF i < Len(kept) THEN h ELSE kept
  BY DEF NewBackingFile
<1> HIDE DEF kept
<1>4. Len(kept) \in Nat /\ i \in 0..Len(kept) /\ 1..Len(kept) \subseteq 1..Len(f)
  BY <1>1, <1>2
<1>5. /\ h \in Seq(X) /\ Len(h) = Len(kept) + 1
      /\ \A k \in 1..(Len(kept) + 1) :
           h[k] = IF k <= i THEN kept[k] ELSE IF k = i + 1 THEN r ELSE kept[k - 1]
  <2>1. kept \in Seq(X)
    BY <1>2
  <2>2. i \in 0..Len(kept)
    BY <1>4
  <2> QED BY <2>1, <2>2, InsertAtEntries
<1> HIDE DEF h
<1>6. Elements(f) = {f[k] : k \in 1..Len(f)}
  BY SeqElements
<1>7. \A k \in 1..Len(kept) : kept[k] \in Elements(f)
  BY <1>2, <1>4, <1>6
<1>8. ASSUME NEW k \in 1..(Len(kept) + 1) PROVE h[k] \in Elements(f) \union {r}
  <2>1. k <= i => k \in 1..Len(kept)
    BY <1>4
  <2>2. ~(k <= i) /\ k # i + 1 => k - 1 \in 1..Len(kept)
    BY <1>4
  <2> QED BY <1>5, <1>7, <2>1, <2>2
<1>9. Elements(kept) = {kept[k] : k \in 1..Len(kept)} /\ Elements(h) = {h[k] : k \in 1..Len(h)}
  BY <1>2, <1>5, SeqElements
<1>10. h[i + 1] = r /\ i + 1 \in 1..Len(h)
  BY <1>4, <1>5
<1>11. r \in Elements(h)
  BY <1>9, <1>10
<1>12. ~m => i < Len(kept)
  BY <1>1, <1>2
<1>13. Elements(kept) \subseteq Elements(f) \union {r} /\ Elements(h) \subseteq Elements(f) \union {r}
  BY <1>5, <1>7, <1>8, <1>9
<1> QED BY <1>2, <1>3, <1>5, <1>11, <1>12, <1>13

-----------------------------------------------------------------------------
(***************************************************************************)
(* The files.                                                              *)
(***************************************************************************)

LEMMA OnDiskIs ==
  ASSUME NEW fs, NEW e
  PROVE  e \in OnDisk(fs) <=> e # StrayNewline /\ \E n \in FileNrs : e \in InFile(fs, n)
BY DEF OnDisk, InFile

LEMMA RunsAreNumbers ==
  /\ Runs \subseteq Nat /\ StrayNewline \notin Runs
  /\ NoFile \notin Seq(Runs) /\ NoFile \notin Seq(Lines)
  /\ MaxHistories \in Nat /\ 0 \in FileNrs
<1>1. Runs \subseteq Nat \ {0} /\ MaxHistories \in Nat /\ NoFile \notin Seq(Nat)
  BY EntriesAssumption, FileRunLogAssumption
<1>2. Lines \subseteq Nat
  BY <1>1 DEF StrayNewline, Lines
<1>3. \A s \in Seq(Runs) : s \in Seq(Nat)
  BY <1>1, SeqMonotonic
<1>4. \A s \in Seq(Lines) : s \in Seq(Nat)
  BY <1>2, SeqMonotonic
<1> QED BY <1>1, <1>3, <1>4 DEF StrayNewline, FileNrs

LEMMA SameContents ==
  ASSUME NEW fs, NEW gs, \A n \in FileNrs : Contents(gs[n]) = Contents(fs[n])
  PROVE  OnDisk(gs) = OnDisk(fs)
BY DEF OnDisk

\* The new current file is empty.
LEMMA WithCurrentSame ==
  ASSUME NEW X, NoFile \notin Seq(X), NEW fs \in FilesOf(X)
  PROVE  /\ WithCurrentFile(fs) \in FilesOf(X)
         /\ \A n \in FileNrs : Contents(WithCurrentFile(fs)[n]) = Contents(fs[n])
         /\ \A n \in FileNrs : n # 0 => WithCurrentFile(fs)[n] = fs[n]
         /\ WithCurrentFile(fs)[0] \in Seq(X)
         /\ OnDisk(WithCurrentFile(fs)) = OnDisk(fs)
<1>1. 0 \in FileNrs
  BY RunsAreNumbers
<1>2. Contents(fs[0]) \in Seq(X) /\ Contents(fs[0]) # NoFile
  <2>1. <<>> \in Seq(X)
    OBVIOUS
  <2> QED BY <1>1, <2>1 DEF Contents, FilesOf
<1>3. /\ WithCurrentFile(fs) \in FilesOf(X)
      /\ \A n \in FileNrs : n # 0 => WithCurrentFile(fs)[n] = fs[n]
      /\ WithCurrentFile(fs)[0] = Contents(fs[0])
  BY <1>1, <1>2 DEF WithCurrentFile, FilesOf
<1>4. \A n \in FileNrs : Contents(WithCurrentFile(fs)[n]) = Contents(fs[n])
  BY <1>2, <1>3 DEF Contents
<1> QED BY <1>2, <1>3, <1>4, SameContents

\* The files with g as the current one.
Written(fs, g) == [fs EXCEPT ![0] = g]

LEMMA CurrentWritten ==
  ASSUME NEW X, NoFile \notin Seq(X), NEW fs \in FilesOf(X), NEW g \in Seq(X),
         NEW gs, gs = Written(fs, g)
  PROVE  /\ gs \in FilesOf(X)
         /\ gs[0] = g /\ Contents(gs[0]) = g /\ InFile(gs, 0) = Elements(g)
         /\ \A n \in FileNrs : n # 0 => gs[n] = fs[n] /\ InFile(gs, n) = InFile(fs, n)
         /\ \A e \in OnDisk(gs) : e \in OnDisk(fs) \/ e \in Elements(g)
<1>1. /\ gs \in FilesOf(X)
      /\ gs[0] = g /\ g # NoFile
      /\ \A n \in FileNrs : n # 0 => gs[n] = fs[n]
  BY RunsAreNumbers DEF FilesOf, Written
<1>2. Contents(gs[0]) = g
  BY <1>1 DEF Contents
<1>3. /\ InFile(gs, 0) = Elements(g)
      /\ \A n \in FileNrs : n # 0 => InFile(gs, n) = InFile(fs, n)
  BY <1>1, <1>2 DEF InFile
<1>4. ASSUME NEW e \in OnDisk(gs) PROVE e \in OnDisk(fs) \/ e \in Elements(g)
  <2>1. PICK n \in FileNrs : e # StrayNewline /\ e \in InFile(gs, n)
    BY <1>4, OnDiskIs
  <2> QED BY <1>3, <2>1, OnDiskIs
<1> QED BY <1>1, <1>2, <1>3, <1>4

\* A rotation writes nothing new.
LEMMA Rotated ==
  ASSUME AnswerType, RotateFiles
  PROVE  /\ files' \in FilesOf(Lines)
         /\ OnDisk(files') \subseteq OnDisk(files)
<1> DEFINE p == todo.pos
<1>1. /\ files \in FilesOf(Lines)
      /\ p \in FileNrs
  BY DEF AnswerType
<1>2. \/ files' = [files EXCEPT ![p] = NoFile]
      \/ files' = [files EXCEPT ![p] = NoFile, ![p + 1] = files[p]]
  BY DEF RotateFiles
<1> HIDE DEF p
<1>3. /\ DOMAIN files' = FileNrs
      /\ \A n \in FileNrs : \/ files'[n] = files[n] \/ files'[n] = NoFile
                           \/ files'[n] = files[p]
  BY <1>1, <1>2 DEF FilesOf
<1>4. files' \in FilesOf(Lines)
  <2>1. \A n \in FileNrs : files'[n] \in Seq(Lines) \union {NoFile}
    BY <1>1, <1>3 DEF FilesOf
  <2>2. files' = [n \in FileNrs |-> files'[n]]
    BY <1>1, <1>2 DEF FilesOf
  <2> QED BY <2>1, <2>2 DEF FilesOf
<1>5. Elements(Contents(NoFile)) = {}
  BY DEF Elements, Contents
<1>6. ASSUME NEW e \in OnDisk(files') PROVE e \in OnDisk(files)
  <2>1. PICK n \in FileNrs : e # StrayNewline /\ e \in InFile(files', n)
    BY <1>6, OnDiskIs
  <2>2. e \in InFile(files, n) \/ e \in InFile(files, p)
    BY <1>3, <1>5, <2>1 DEF InFile
  <2> QED BY <1>1, <2>1, <2>2, OnDiskIs
<1> QED BY <1>4, <1>6

LEMMA OnlyRunsOnDisk ==
  ASSUME NEW fs \in FilesOf(Lines)
  PROVE  OnDisk(fs) \subseteq Runs
<1>1. SUFFICES ASSUME NEW e \in OnDisk(fs) PROVE e \in Runs
  OBVIOUS
<1>2. PICK n \in FileNrs : e # StrayNewline /\ e \in InFile(fs, n)
  BY <1>1, OnDiskIs
<1>3. Contents(fs[n]) \in Seq(Lines)
  <2>1. <<>> \in Seq(Lines)
    OBVIOUS
  <2> QED BY <2>1 DEF Contents, FilesOf
<1>4. InFile(fs, n) \subseteq Lines
  BY <1>3, SeqElements DEF InFile
<1> QED BY <1>2, <1>4 DEF Lines

\* makeIndex describes at least the current file, and no more files than there may be.
LEMMA MadeIndexSized ==
  ASSUME NEW fs
  PROVE  Sized(MakeIndex(fs))
<1> DEFINE k == Cardinality(Indexed(fs))
<1>1. MaxHistories \in Nat
  BY RunsAreNumbers
<1>2. IsFiniteSet(FileNrs) /\ Cardinality(FileNrs) = MaxHistories + 1
  BY <1>1, FS_Interval DEF FileNrs
<1>3. Indexed(fs) \in SUBSET FileNrs /\ 0 \in Indexed(fs)
  <2>1. 0 \in FileNrs
    BY RunsAreNumbers
  <2>2. \A m \in 1..0 : fs[m] # NoFile
    OBVIOUS
  <2> QED BY <2>1, <2>2 DEF Indexed
<1>4. k \in Nat /\ k <= MaxHistories + 1
  BY <1>2, <1>3, FS_Subset, FS_CardinalityType
<1>5. k # 0
  BY <1>2, <1>3, FS_Subset, FS_EmptySet
<1>6. DOMAIN MakeIndex(fs) = 1..k
  BY DEF MakeIndex
<1> QED BY <1>1, <1>4, <1>5, <1>6 DEF Sized

LEMMA ChangedIndexSized ==
  ASSUME NEW ix, Sized(ix), NEW d, NEW jx, jx = [ix EXCEPT ![1] = d]
  PROVE  Sized(jx) /\ Sized(MovedStarts(jx))
<1>1. CASE ix = <<>>
  <2>1. jx = <<>>
    BY <1>1
  <2>2. MovedStarts(jx) = <<>>
    BY <2>1 DEF MovedStarts
  <2> QED BY <2>1, <2>2 DEF Sized
<1>2. CASE ix # <<>>
  <2>1. DOMAIN jx = DOMAIN ix
    OBVIOUS
  <2>2. DOMAIN MovedStarts(jx) = DOMAIN ix
    BY <2>1 DEF MovedStarts
  <2> QED BY <1>2, <2>1, <2>2 DEF Sized
<1> QED BY <1>1, <1>2

\* Put returns, and what it has put into the files are entries of rs, or of
\* runs that have ended.
LEMMA Returned ==
  ASSUME AnswerInv, NEW rs \in SUBSET Runs, Putting \subseteq rs,
         NEW answer \in {"logged", "refused", "failed"}, Return(rs, answer), Sized(index'),
         files' \in FilesOf(Lines),
         \A e \in OnDisk(files') :
           e \in OnDisk(files) \union rs \/ fate[e] \notin {"future", "running"}
  PROVE  AnswerInv'
<1>1. /\ fate' = [q \in Runs |-> IF q \in rs THEN answer ELSE fate[q]]
      /\ pc' = "idle" /\ todo' = Nothing
  BY DEF Return
<1>2. \A r \in Runs : fate'[r] # "putting"
  BY <1>1 DEF Putting
<1>3. AnswerType'
  <2>1. fate' \in [Runs -> RunStates]
    BY <1>1 DEF AnswerInv, AnswerType, RunStates
  <2>2. Nothing \in [pos : FileNrs, entry : Runs \union {NoEntry}, ooo : {"yes", "no"}]
    BY RunsAreNumbers DEF Nothing
  <2> QED BY <1>1, <2>1, <2>2 DEF AnswerType
<1>4. OnlyEnded'
  <2>1. SUFFICES ASSUME NEW e \in OnDisk(files') PROVE fate'[e] \notin {"future", "running", "putting"}
    BY DEF OnlyEnded
  <2>2. e \in Runs
    BY <2>1, OnlyRunsOnDisk
  <2>3. fate[e] \notin {"future", "running"} \/ e \in rs
    BY <2>1 DEF AnswerInv, OnlyEnded
  <2> QED BY <1>1, <1>2, <2>2, <2>3
<1>5. PutInv'
  BY <1>1, <1>2 DEF PutInv
<1> QED BY <1>3, <1>4, <1>5 DEF AnswerInv

LEMMA Stopped ==
  ASSUME AnswerInv, Stop, OnDisk(files') = OnDisk(files),
         files' \in FilesOf(Lines)
  PROVE  AnswerInv'
<1>1. /\ fate' = [q \in Runs |-> IF q \in Running \union Putting THEN "lost" ELSE fate[q]]
      /\ pc' = "down" /\ todo' = Nothing /\ index' = <<>>
  BY DEF Stop
<1>2. \A r \in Runs : fate'[r] # "putting"
  BY <1>1 DEF Putting
<1>3. AnswerType'
  <2>1. fate' \in [Runs -> RunStates]
    BY <1>1 DEF AnswerInv, AnswerType, RunStates
  <2>2. Nothing \in [pos : FileNrs, entry : Runs \union {NoEntry}, ooo : {"yes", "no"}]
    BY RunsAreNumbers DEF Nothing
  <2> QED BY <1>1, <2>1, <2>2 DEF AnswerType, Sized
<1>4. OnlyEnded'
  <2>1. SUFFICES ASSUME NEW e \in OnDisk(files) PROVE fate'[e] \notin {"future", "running", "putting"}
    BY DEF OnlyEnded
  <2>2. e \in Runs
    BY <2>1, OnlyRunsOnDisk DEF AnswerInv, AnswerType
  <2>3. fate[e] \notin {"future", "running"}
    BY <2>1 DEF AnswerInv, OnlyEnded
  <2> QED BY <1>1, <1>2, <2>2, <2>3
<1>5. PutInv'
  BY <1>1, <1>2 DEF PutInv
<1> QED BY <1>3, <1>4, <1>5 DEF AnswerInv

LEMMA InitAnswerInv == Init => AnswerInv
<1> SUFFICES ASSUME Init PROVE AnswerInv
  OBVIOUS
<1> DEFINE none == [n \in FileNrs |-> NoFile]
<1>1. none \in FilesOf(Lines)
  BY DEF FilesOf
<1>2. /\ files \in FilesOf(Lines)
      /\ \A n \in FileNrs : Contents(files[n]) = Contents(none[n])
  BY <1>1, RunsAreNumbers, WithCurrentSame DEF Init
<1>3. \A n \in FileNrs : InFile(files, n) = {}
  BY <1>2 DEF InFile, Contents, Elements
<1>4. OnDisk(files) = {}
  BY <1>3, OnDiskIs
<1>5. /\ fate = [r \in Runs |-> "future"] /\ pc = "idle" /\ todo = Nothing
      /\ Sized(index)
  BY MadeIndexSized DEF Init
<1>6. AnswerType
  BY <1>2, <1>5, RunsAreNumbers DEF AnswerType, RunStates, Nothing
<1>7. PutInv
  BY <1>5 DEF PutInv
<1> QED BY <1>4, <1>6, <1>7 DEF AnswerInv, OnlyEnded

\* The entry that is appended is the only new one.
LEMMA PushedEntries ==
  ASSUME NEW X, 0 \in X, NEW f \in Seq(X), NEW e \in X, NEW d
  PROVE  /\ PushedFile(d, f, e) \in Seq(X)
         /\ Elements(PushedFile(d, f, e)) \subseteq Elements(f) \union {e, StrayNewline}
         /\ e \in Elements(PushedFile(d, f, e))
<1> DEFINE a == IF d.nbrEntries > 0 /\ f = <<>> THEN <<StrayNewline>> ELSE f
           g == a \o <<e>>
<1>1. a \in Seq(X) /\ \A k \in 1..Len(a) : a[k] \in Elements(f) \union {StrayNewline}
  <2>1. CASE d.nbrEntries > 0 /\ f = <<>>
    BY <2>1 DEF StrayNewline
  <2>2. CASE ~(d.nbrEntries > 0 /\ f = <<>>)
    BY <2>2 DEF Elements
  <2> QED BY <2>1, <2>2
<1> HIDE DEF a
<1>2. /\ g \in Seq(X) /\ Len(g) = Len(a) + 1 /\ g[Len(a) + 1] = e
      /\ \A k \in 1..Len(a) : g[k] = a[k]
  <2>1. a \in Seq(X) /\ <<e>> \in Seq(X) /\ Len(a) \in Nat
    BY <1>1
  <2> QED BY <2>1
<1> HIDE DEF g
<1>3. Elements(g) = {g[k] : k \in 1..(Len(a) + 1)} /\ Len(a) \in Nat
  <2>1. Elements(g) = {g[k] : k \in 1..Len(g)}
    BY <1>2, SeqElements
  <2> QED BY <1>1, <1>2, <2>1
<1>4. ASSUME NEW k \in 1..(Len(a) + 1) PROVE g[k] \in Elements(f) \union {e, StrayNewline}
  BY <1>1, <1>2, <1>3
<1>5. e \in Elements(g)
  BY <1>2, <1>3
<1>6. PushedFile(d, f, e) = g
  BY DEF PushedFile, a, g
<1> QED BY <1>2, <1>3, <1>4, <1>5, <1>6

LEMMA PushedAnswers ==
  ASSUME AnswerInv, PushEntry
  PROVE  /\ AnswerInv'
         /\ todo.entry \in OnDisk(files')
<1> DEFINE g == PushedFile(index[1], files[0], todo.entry)
<1>1. /\ files' = [files EXCEPT ![0] = g] /\ files[0] # NoFile /\ pc = "push"
      /\ Return(Putting, "logged")
  BY DEF PushEntry
<1>2. /\ files \in FilesOf(Lines)
      /\ todo.entry \in Runs /\ fate[todo.entry] \notin {"future", "running"}
  BY <1>1 DEF AnswerInv, AnswerType, PutInv
<1>3. files[0] \in Seq(Lines) /\ 0 \in Lines /\ todo.entry \in Lines
  BY <1>1, <1>2, RunsAreNumbers DEF StrayNewline, Lines, FilesOf
<1>4. /\ g \in Seq(Lines) /\ Elements(g) \subseteq Elements(files[0]) \union {todo.entry, StrayNewline}
      /\ todo.entry \in Elements(g)
  BY <1>3, PushedEntries
<1> HIDE DEF g
<1>5. /\ files' \in FilesOf(Lines)
      /\ InFile(files', 0) = Elements(g)
      /\ \A e \in OnDisk(files') : e \in OnDisk(files) \/ e \in Elements(g)
  <2>1. files' = Written(files, g)
    BY <1>1 DEF Written
  <2> QED BY <1>2, <1>4, <2>1, CurrentWritten, RunsAreNumbers
<1>6. Elements(files[0]) \subseteq OnDisk(files) \union {StrayNewline}
  <2>1. InFile(files, 0) = Elements(files[0])
    BY <1>1 DEF InFile, Contents
  <2> QED BY <2>1, OnDiskIs, RunsAreNumbers
<1>7. ASSUME NEW e \in OnDisk(files')
      PROVE  e \in OnDisk(files) \union Putting \/ fate[e] \notin {"future", "running"}
  <2>1. e # StrayNewline
    BY <1>7, OnDiskIs
  <2> QED BY <1>2, <1>4, <1>5, <1>6, <1>7, <2>1
<1>8. Sized(index')
  <2>1. Sized(index)
    BY DEF AnswerInv, AnswerType
  <2> QED BY <2>1, ChangedIndexSized DEF PushEntry
<1>9. AnswerInv'
  <2>1. Putting \in SUBSET Runs
    BY DEF Putting
  <2> QED BY <1>1, <1>5, <1>7, <1>8, <2>1, Returned
<1>10. todo.entry \in OnDisk(files')
  BY <1>2, <1>4, <1>5, OnDiskIs, RunsAreNumbers
<1> QED BY <1>9, <1>10

LEMMA InsertedAnswers ==
  ASSUME AnswerInv, NEW r \in Runs, PutOutOfOrder(r)
  PROVE  /\ AnswerInv'
         /\ fate'[r] = "logged" => r \in OnDisk(files')
<1> DEFINE f == files[0]
           m == IsFull(index[1])
<1>1. PICK i \in InsertPlaces(f, r) :
        LET newFile == NewBackingFile(f, r, i, m)
        IN  /\ files' = [files EXCEPT ![0] = newFile]
            /\ index' = [index EXCEPT ![1] = MakeBackingFileDtor(newFile, 0)]
  BY DEF PutOutOfOrder
<1> DEFINE g == NewBackingFile(f, r, i, m)
<1>2. /\ files' = [files EXCEPT ![0] = g] /\ i \in 1..(Len(f) - 1)
      /\ index' = [index EXCEPT ![1] = MakeBackingFileDtor(g, 0)]
  BY <1>1 DEF InsertPlaces
<1>3. /\ pc = "idle" /\ fate[r] = "running" /\ index # <<>>
      /\ index[1].nbrEntries > 0 /\ Readable(index[1], f)
  BY DEF PutOutOfOrder, OutOfOrder
<1>4. /\ files \in FilesOf(Lines)
      /\ fate \in [Runs -> RunStates] /\ Sized(index) /\ todo = Nothing
  BY <1>3 DEF AnswerInv, AnswerType
<1>5. f \in Seq(Lines) /\ r \in Lines /\ f # NoFile /\ m \in BOOLEAN
  <2>1. f # NoFile
    BY <1>3 DEF Readable
  <2> QED BY <1>4, <2>1, RunsAreNumbers DEF IsFull, Lines, FilesOf
<1>6. /\ g \in Seq(Lines) /\ Elements(g) \subseteq Elements(f) \union {r}
      /\ ~m => r \in Elements(g)
  <2> HIDE DEF m
  <2>1. i \in 1..(Len(f) - 1)
    BY <1>2
  <2> QED BY <1>5, <2>1, NewFileEntries
<1> HIDE DEF g, m
<1>7. /\ files' \in FilesOf(Lines)
      /\ InFile(files', 0) = Elements(g)
      /\ \A e \in OnDisk(files') : e \in OnDisk(files) \/ e \in Elements(g)
  <2>1. files' = Written(files, g)
    BY <1>2 DEF Written
  <2> QED BY <1>4, <1>6, <2>1, CurrentWritten, RunsAreNumbers
<1>8. InFile(files, 0) = Elements(f)
  BY <1>5 DEF InFile, Contents
<1>9. ASSUME NEW e \in OnDisk(files')
      PROVE  e \in Runs /\ (e \in OnDisk(files) \/ e = r)
  <2>1. e # StrayNewline
    BY <1>9, OnDiskIs
  <2>2. e \in Elements(f) => e \in OnDisk(files)
    BY <1>8, <2>1, OnDiskIs, RunsAreNumbers
  <2>3. e \in Runs
    BY <1>7, <1>9, OnlyRunsOnDisk
  <2> QED BY <1>6, <1>7, <1>9, <2>2, <2>3
<1>10. Sized(index')
  BY <1>2, <1>4, ChangedIndexSized
<1>11. \A q \in Runs : fate[q] # "putting"
  BY <1>3 DEF AnswerInv, PutInv
<1>12. CASE ~m
  <2>1. Return({r}, "logged")
    BY <1>12 DEF PutOutOfOrder, m
  <2>2. Putting \subseteq {r} /\ {r} \in SUBSET Runs
    BY <1>11 DEF Putting
  <2>3. AnswerInv'
    BY <1>7, <1>9, <1>10, <2>1, <2>2, Returned
  <2>4. r \in OnDisk(files')
    BY <1>6, <1>7, <1>12, OnDiskIs, RunsAreNumbers
  <2> QED BY <2>3, <2>4
<1>13. CASE m
  <2>1. /\ fate' = [fate EXCEPT ![r] = "putting"] /\ pc' = "rotate"
        /\ todo' = [pos |-> Len(index) - 1, entry |-> f[Len(f)], ooo |-> "yes"]
    BY <1>13 DEF PutOutOfOrder, m
  <2>2. Len(index) - 1 \in FileNrs
    <3>1. PICK k \in 1..(MaxHistories + 1) : DOMAIN index = 1..k
      BY <1>3, <1>4 DEF Sized
    <3>2. Len(index) = k
      BY <3>1, RunsAreNumbers
    <3> QED BY <3>1, <3>2, RunsAreNumbers DEF FileNrs
  <2>3. f[Len(f)] \in Elements(f) /\ f[Len(f)] # StrayNewline
    <3>1. StrayNewline \notin Elements(f)
      BY <1>3, <1>5 DEF Readable, Valid, Contents
    <3>2. Len(f) \in DOMAIN f
      BY <1>2, <1>5
    <3> QED BY <3>1, <3>2 DEF Elements
  <2>4. f[Len(f)] \in OnDisk(files)
    BY <1>8, <2>3, OnDiskIs, RunsAreNumbers
  <2>5. f[Len(f)] \in Runs /\ fate[f[Len(f)]] \notin {"future", "running"}
    BY <1>4, <2>4, OnlyRunsOnDisk DEF AnswerInv, OnlyEnded
  <2>6. fate' \in [Runs -> RunStates]
    BY <1>4, <2>1 DEF RunStates
  <2> DEFINE last == f[Len(f)]
  <2> HIDE DEF last
  <2>7. AnswerType'
    <3>1. todo' \in [pos : FileNrs, entry : Runs \union {NoEntry}, ooo : {"yes", "no"}]
      BY <2>1, <2>2, <2>5
    <3>2. todo'.entry \in Runs
      BY <2>1, <2>5
    <3> QED BY <1>7, <1>10, <2>1, <2>6, <3>1, <3>2 DEF AnswerType
  <2>8. todo'.ooo = "yes" /\ todo'.entry = f[Len(f)]
    BY <2>1
  <2>9. OnlyEnded'
    <3>1. SUFFICES ASSUME NEW e \in OnDisk(files') PROVE fate'[e] \notin {"future", "running"}
      BY <2>8 DEF OnlyEnded
    <3>2. e = r \/ fate[e] \notin {"future", "running"}
      BY <1>9, <3>1 DEF AnswerInv, OnlyEnded
    <3> QED BY <1>4, <1>9, <2>1, <3>1, <3>2
  <2>10. PutInv'
    <3>1. fate'[f[Len(f)]] \notin {"future", "running"}
      BY <1>4, <2>1, <2>5
    <3>2. fate'[r] = "putting"
      BY <1>4, <2>1
    <3> QED BY <2>1, <2>8, <3>1, <3>2 DEF PutInv
  <2>11. fate'[r] # "logged"
    BY <1>4, <2>1
  <2> QED BY <2>7, <2>9, <2>10, <2>11 DEF AnswerInv
<1> QED BY <1>12, <1>13

LEMMA NextAnswerInv == AnswerInv /\ [Next]_vars => AnswerInv'
<1> SUFFICES ASSUME AnswerInv, [Next]_vars PROVE AnswerInv'
  OBVIOUS
<1> USE DEF AnswerInv
<1>1. /\ files \in FilesOf(Lines) /\ fate \in [Runs -> RunStates] /\ Sized(index)
      /\ OnDisk(WithCurrentFile(files)) = OnDisk(files)
      /\ WithCurrentFile(files) \in FilesOf(Lines)
  BY WithCurrentSame, RunsAreNumbers DEF AnswerType
<1>2. OnDisk(files) \subseteq Runs
  BY <1>1, OnlyRunsOnDisk
<1>3. Putting \in SUBSET Runs /\ (pc = "idle" => Putting = {})
  BY DEF Putting, PutInv
<1>4. ASSUME NEW r \in Runs, StartRun(r) PROVE AnswerInv'
  <2>1. /\ fate[r] = "future" /\ fate' = [fate EXCEPT ![r] = "running"]
        /\ UNCHANGED <<files, index, pc, todo>>
    BY <1>4 DEF StartRun
  <2>2. fate' \in [Runs -> RunStates]
    BY <1>1, <2>1 DEF RunStates
  <2>3. AnswerType'
    BY <2>1, <2>2 DEF AnswerType
  <2>4. OnlyEnded'
    <3>1. r \notin OnDisk(files)
      BY <2>1 DEF OnlyEnded
    <3> QED BY <1>1, <1>2, <2>1, <3>1 DEF OnlyEnded
  <2>5. PutInv'
    BY <1>1, <2>1 DEF PutInv, AnswerType
  <2> QED BY <2>3, <2>4, <2>5
<1>5. ASSUME NEW r \in Runs, PutRefused(r) PROVE AnswerInv'
  BY <1>1, <1>3, <1>5, Returned DEF PutRefused
<1>6. ASSUME NEW r \in Runs, PutInOrder(r) PROVE AnswerInv'
  <2>1. /\ pc = "idle" /\ fate[r] = "running" /\ index # <<>>
        /\ fate' = [fate EXCEPT ![r] = "putting"] /\ pc' \in {"rotate", "push"}
        /\ todo' = [pos |-> Len(index) - 1, entry |-> r, ooo |-> "no"]
        /\ UNCHANGED <<files, index>>
    BY <1>6 DEF PutInOrder
  <2>2. Len(index) - 1 \in FileNrs
    <3>1. PICK k \in 1..(MaxHistories + 1) : DOMAIN index = 1..k
      BY <1>1, <2>1 DEF Sized
    <3>2. Len(index) = k
      BY <3>1, RunsAreNumbers
    <3> QED BY <3>1, <3>2, RunsAreNumbers DEF FileNrs
  <2>3. fate' \in [Runs -> RunStates]
    BY <1>1, <2>1 DEF RunStates
  <2>4. /\ todo' \in [pos : FileNrs, entry : Runs \union {NoEntry}, ooo : {"yes", "no"}]
        /\ todo'.entry = r /\ todo'.ooo = "no"
    BY <2>1, <2>2
  <2>5. AnswerType'
    BY <1>1, <2>1, <2>3, <2>4 DEF AnswerType
  <2>6. OnlyEnded'
    <3>1. r \notin OnDisk(files) /\ \A e \in OnDisk(files) : fate[e] # "putting"
      BY <1>2, <1>3, <2>1 DEF OnlyEnded, Putting
    <3> QED BY <1>1, <1>2, <2>1, <3>1 DEF OnlyEnded
  <2>7. PutInv'
    BY <1>1, <1>3, <2>1, <2>4 DEF PutInv, Putting
  <2> QED BY <2>5, <2>6, <2>7
<1>7. ASSUME NEW r \in Runs, PutPanics(r) PROVE AnswerInv'
  BY <1>1, <1>7, Stopped DEF PutPanics
<1>8. ASSUME NEW r \in Runs, PutOutOfOrder(r) PROVE AnswerInv'
  BY <1>8, InsertedAnswers
<1>9. ASSUME NEW r \in Runs, PutOutOfOrderFails(r) PROVE AnswerInv'
  BY <1>1, <1>3, <1>9, Returned DEF PutOutOfOrderFails
<1>10. CASE RotateFiles
  <2>1. /\ pc = "rotate" /\ UNCHANGED <<index, fate>>
        /\ \/ pc' = "index" /\ todo' = todo
           \/ pc' = "rotate" /\ todo.pos # 0 /\ todo' = [todo EXCEPT !.pos = @ - 1]
    BY <1>10 DEF RotateFiles
  <2>2. files' \in FilesOf(Lines) /\ OnDisk(files') \subseteq OnDisk(files)
    BY <1>10, Rotated
  <2>3. /\ todo' \in [pos : FileNrs, entry : Runs \union {NoEntry}, ooo : {"yes", "no"}]
        /\ todo'.entry = todo.entry /\ todo'.ooo = todo.ooo /\ pc' \in {"rotate", "index"}
    <3>1. todo.pos \in FileNrs /\ (todo.pos # 0 => todo.pos - 1 \in FileNrs)
      BY RunsAreNumbers DEF AnswerType, FileNrs
    <3> QED BY <2>1, <3>1 DEF AnswerType
  <2>4. AnswerType'
    BY <2>1, <2>2, <2>3 DEF AnswerType
  <2> QED BY <2>1, <2>2, <2>3, <2>4 DEF OnlyEnded, PutInv
<1>11. CASE RotateFilesFails
  BY <1>1, <1>3, <1>11, Returned DEF RotateFilesFails
<1>12. CASE RemakeIndex
  <2>1. /\ files' = WithCurrentFile(files) /\ Sized(index') /\ pc = "index" /\ pc' = "push"
        /\ UNCHANGED <<todo, fate>>
    BY <1>12, MadeIndexSized DEF RemakeIndex
  <2> QED BY <1>1, <2>1 DEF AnswerType, OnlyEnded, PutInv
<1>13. CASE RemakeIndexFails
  <2>1. /\ files' \in {files, WithCurrentFile(files)} /\ Return(Putting, "failed")
        /\ index' = <<>> \/ \E fs : index' = MakeIndex(fs)
    BY <1>13 DEF RemakeIndexFails
  <2>2. Sized(index')
    BY <2>1, MadeIndexSized DEF Sized
  <2>3. files' \in FilesOf(Lines) /\ OnDisk(files') = OnDisk(files)
    BY <1>1, <2>1
  <2> QED BY <1>3, <2>1, <2>2, <2>3, Returned
<1>14. CASE PushEntry
  BY <1>14, PushedAnswers
<1>15. CASE PushEntryFails
  <2>1. /\ Return(Putting, "failed") /\ files' = files
        /\ index' \in {index, [index EXCEPT ![1] = PushedDtor(@, todo.entry)]}
    BY <1>15 DEF PushEntryFails
  <2>2. Sized(index')
    BY <1>1, <2>1, ChangedIndexSized
  <2> QED BY <1>1, <1>3, <2>1, <2>2, Returned
<1>16. CASE Crash
  BY <1>1, <1>16, Stopped DEF Crash
<1>17. CASE NewFileRunLog
  <2>1. files' \in FilesOf(Lines) /\ OnDisk(files') = OnDisk(files)
    BY <1>1, <1>17 DEF NewFileRunLog
  <2>2. CASE Stop
    BY <2>1, <2>2, Stopped
  <2>3. CASE ~Stop
    <3>1. /\ pc \in {"down", "idle"} /\ index' = MakeIndex(files') /\ pc' = "idle"
          /\ UNCHANGED <<todo, fate>>
      BY <1>17, <2>3 DEF NewFileRunLog
    <3>2. Sized(index')
      BY <3>1, MadeIndexSized
    <3> QED BY <2>1, <3>1, <3>2 DEF AnswerType, OnlyEnded, PutInv
  <2> QED BY <2>2, <2>3
<1>18. CASE UNCHANGED vars
  BY <1>18 DEF vars, AnswerType, OnlyEnded, PutInv
<1> QED
  BY <1>4, <1>5, <1>6, <1>7, <1>8, <1>9, <1>10, <1>11, <1>12, <1>13, <1>14, <1>15, <1>16,
     <1>17, <1>18 DEF Next

\* The answer of one step.
Truthful ==
  \A r \in Running \union Putting : todo.ooo = "no" =>
    /\ fate'[r] = "logged" => r \in OnDisk(files')
    /\ fate'[r] \in {"refused", "failed"} => r \notin OnDisk(files')

\* Steps that log nothing, and write nothing of a run they refuse.
LEMMA NothingWritten ==
  ASSUME AnswerInv, OnDisk(files') \subseteq OnDisk(files),
         \A r \in Running \union Putting : fate'[r] # "logged"
  PROVE  Truthful
<1>1. SUFFICES ASSUME NEW r \in Running \union Putting, todo.ooo = "no" PROVE r \notin OnDisk(files)
  BY DEF Truthful
<1> QED BY <1>1 DEF Running, Putting, AnswerInv, OnlyEnded

LEMMA StepIsTruthful ==
  ASSUME AnswerInv, Next
  PROVE  Truthful
<1>1. /\ files \in FilesOf(Lines) /\ fate \in [Runs -> RunStates]
      /\ OnDisk(WithCurrentFile(files)) = OnDisk(files)
  BY WithCurrentSame, RunsAreNumbers DEF AnswerInv, AnswerType
<1>2. \A r \in Running \union Putting : r \in Runs /\ fate[r] \in {"running", "putting"}
  BY DEF Running, Putting
<1>3. ASSUME files' = files, NEW rs, NEW answer \in {"refused", "failed"},
             Return(rs, answer)
      PROVE  Truthful
  <2>1. fate' = [q \in Runs |-> IF q \in rs THEN answer ELSE fate[q]]
    BY <1>3 DEF Return
  <2> QED BY <1>2, <1>3, <2>1, NothingWritten
<1>4. ASSUME OnDisk(files') = OnDisk(files), Stop PROVE Truthful
  <2>1. fate' = [q \in Runs |-> IF q \in Running \union Putting THEN "lost" ELSE fate[q]]
    BY <1>4 DEF Stop
  <2> QED BY <1>2, <1>4, <2>1, NothingWritten
<1>5. ASSUME OnDisk(files') \subseteq OnDisk(files), fate' = fate PROVE Truthful
  BY <1>2, <1>5, NothingWritten
<1>6. ASSUME NEW r \in Runs, StartRun(r) PROVE Truthful
  <2>1. files' = files /\ fate' = [fate EXCEPT ![r] = "running"]
    BY <1>6 DEF StartRun
  <2> QED BY <1>1, <1>2, <2>1, NothingWritten
<1>7. ASSUME NEW r \in Runs, PutInOrder(r) PROVE Truthful
  <2>1. files' = files /\ fate' = [fate EXCEPT ![r] = "putting"]
    BY <1>7 DEF PutInOrder
  <2> QED BY <1>1, <1>2, <2>1, NothingWritten
<1>8. ASSUME NEW r \in Runs, PutOutOfOrder(r) PROVE Truthful
  <2>1. SUFFICES ASSUME NEW q \in Running \union Putting
                 PROVE  (fate'[q] = "logged" => q \in OnDisk(files')) /\ fate'[q] \notin {"refused", "failed"}
    BY DEF Truthful
  <2>2. \/ fate' = [fate EXCEPT ![r] = "putting"]
        \/ fate' = [p \in Runs |-> IF p \in {r} THEN "logged" ELSE fate[p]]
    BY <1>8 DEF PutOutOfOrder, Return
  <2>3. fate'[r] = "logged" => r \in OnDisk(files')
    BY <1>8, InsertedAnswers
  <2>4. q # r => fate'[q] = fate[q]
    BY <1>1, <1>2, <2>2
  <2>5. fate'[r] \notin {"refused", "failed"}
    BY <1>1, <2>2
  <2> QED BY <1>2, <2>1, <2>3, <2>4, <2>5
<1>9. CASE PushEntry
  <2>1. SUFFICES ASSUME NEW r \in Running \union Putting, todo.ooo = "no"
                 PROVE  (fate'[r] = "logged" => r \in OnDisk(files')) /\ fate'[r] \notin {"refused", "failed"}
    BY DEF Truthful
  <2>2. fate' = [q \in Runs |-> IF q \in Putting THEN "logged" ELSE fate[q]]
    BY <1>9 DEF PushEntry, Return
  <2>3. r \in Putting => r = todo.entry
    BY <2>1 DEF AnswerInv, PutInv, Putting
  <2>4. todo.entry \in OnDisk(files')
    BY <1>9, PushedAnswers
  <2> QED BY <1>2, <2>1, <2>2, <2>3, <2>4
<1>10. CASE RotateFiles
  <2>1. OnDisk(files') \subseteq OnDisk(files)
    BY <1>10, Rotated DEF AnswerInv
  <2> QED BY <1>5, <1>10, <2>1 DEF RotateFiles
<1>11. CASE RemakeIndexFails
  <2>1. files' \in {files, WithCurrentFile(files)} /\ Return(Putting, "failed")
    BY <1>11 DEF RemakeIndexFails
  <2>2. fate' = [q \in Runs |-> IF q \in Putting THEN "failed" ELSE fate[q]]
    BY <2>1 DEF Return
  <2> QED BY <1>1, <1>2, <2>1, <2>2, NothingWritten
<1>12. CASE NewFileRunLog
  <2>1. OnDisk(files') = OnDisk(files)
    BY <1>1, <1>12 DEF NewFileRunLog
  <2>2. Stop \/ fate' = fate
    BY <1>12 DEF NewFileRunLog
  <2> QED BY <1>4, <1>5, <2>1, <2>2
<1>13. ASSUME NEW r \in Runs, PutRefused(r) \/ PutOutOfOrderFails(r) \/ PutPanics(r) PROVE Truthful
  <2>1. CASE PutRefused(r)
    BY <1>3, <2>1 DEF PutRefused
  <2>2. CASE PutOutOfOrderFails(r)
    BY <1>3, <2>2 DEF PutOutOfOrderFails
  <2>3. CASE PutPanics(r)
    BY <1>4, <2>3 DEF PutPanics
  <2> QED BY <1>13, <2>1, <2>2, <2>3
<1>14. CASE RotateFilesFails
  BY <1>3, <1>14 DEF RotateFilesFails
<1>15. CASE PushEntryFails
  BY <1>3, <1>15 DEF PushEntryFails
<1>16. CASE RemakeIndex
  BY <1>1, <1>5, <1>16 DEF RemakeIndex
<1>17. CASE Crash
  BY <1>4, <1>17 DEF Crash
<1> QED
  BY <1>6, <1>7, <1>8, <1>9, <1>10, <1>11, <1>12, <1>13, <1>14, <1>15, <1>16, <1>17 DEF Next

\* Put returns nil only if the entry is in the files, and an error only if it
\* is not, whichever operation on the files fails and wherever the process
\* ends, unless putOutOfOrder has to rotate (Put, putOutOfOrder, pushEntry).
THEOREM AnswersAreTrue == Spec => AnswerIsTrue
<1>1. Init => AnswerInv
  BY InitAnswerInv
<1>2. AnswerInv /\ [Next]_vars => AnswerInv'
  BY NextAnswerInv
<1>3. AnswerInv /\ [Next]_vars => [Truthful]_vars
  BY StepIsTruthful
<1>4. Spec => [][Truthful]_vars
  BY <1>1, <1>2, <1>3, PTL DEF Spec
<1> QED BY <1>4 DEF AnswerIsTrue, Truthful

-----------------------------------------------------------------------------
(***************************************************************************)
(* The log when nothing fails but the process.                             *)
(***************************************************************************)

NotAfter(d, e) == StartTime[d] <= StartTime[e]

\* Nothing older than a deleted entry is left.
OldestFirst == \A d \in deleted, e \in OnDisk(files) : NotAfter(d, e)

Sorted == \A n \in FileNrs : Ascending(Contents(files[n]))

\* A file with a higher number is older.
Layered ==
  \A m, n \in FileNrs : m < n =>
    \A d \in InFile(files, n), e \in InFile(files, m) : NotAfter(d, e)

\* The entry that is to be appended is the newest.
CarriedIsNewest ==
  pc \in {"rotate", "index", "push"} =>
    \A e \in OnDisk(files) \union deleted : NotAfter(e, todo.entry)

\* Put does not compare a run with anything if the current file is empty.
NewerThanHistory ==
  pc \in {"idle", "down"} /\ Contents(files[0]) = <<>> =>
    \A e \in OnDisk(files) \union deleted, r \in Running : NotAfter(e, r)

\* Runs start in the order of their numbers.
StartedInOrder ==
  /\ \A q, r \in Runs : q < r /\ fate[q] = "future" => fate[r] = "future"
  /\ \A e \in OnDisk(files) \union deleted : fate[e] # "future"
  /\ pc = "down" => Running = {}

\* ix describes the files 0 to k - 1, and there is no file k.
Describes(ix, fs, k) ==
  /\ k \in 1..(MaxHistories + 1) /\ Len(ix) = k /\ DOMAIN ix = 1..k
  /\ \A i \in 1..k : /\ fs[i - 1] # NoFile
                     /\ MakeBackingFileDtor(fs[i - 1], ix[i].startIdx) = ix[i]
  /\ k <= MaxHistories => fs[k] = NoFile

IndexInv == pc \in {"idle", "push"} => \E k \in 1..(MaxHistories + 1) : Describes(index, files, k)

\* The files that are still to be rotated, and the free number above them.
RotateInv ==
  pc = "rotate" => /\ todo.pos \in FileNrs
                   /\ \A n \in 0..todo.pos : files[n] # NoFile
                   /\ todo.pos + 1 <= MaxHistories => files[todo.pos + 1] = NoFile

DiskType ==
  /\ files \in FilesOf(Runs)
  /\ deleted \in SUBSET Runs

DiskInv ==
  /\ AnswerInv /\ DiskType
  /\ Sorted /\ Layered /\ OldestFirst
  /\ CarriedIsNewest /\ NewerThanHistory /\ StartedInOrder
  /\ IndexInv /\ RotateInv

LEMMA TimesAreNumbers ==
  /\ \A r \in Runs : StartTime[r] \in Nat
  /\ \A q, r \in Runs : q <= r => NotAfter(q, r)
<1>1. \A r \in Runs : StartTime[r] \in Nat /\ r \in Nat
  BY EntriesAssumption
<1>2. \A q, r \in Runs : q < r => StartTime[q] <= StartTime[r]
  BY EntriesAssumption
<1> QED BY <1>1, <1>2 DEF NotAfter

LEMMA NotAfterOrders ==
  ASSUME NEW a \in Runs, NEW b \in Runs, NEW c \in Runs
  PROVE  NotAfter(a, a) /\ (NotAfter(a, b) /\ NotAfter(b, c) => NotAfter(a, c))
BY TimesAreNumbers DEF NotAfter

LEMMA LastIsNewest ==
  ASSUME NEW f \in Seq(Runs), Ascending(f), f # <<>>
  PROVE  /\ f[Len(f)] \in Elements(f) /\ f[Len(f)] \in Runs
         /\ \A e \in Elements(f) : NotAfter(e, f[Len(f)])
<1>1. Len(f) \in Nat \ {0} /\ DOMAIN f = 1..Len(f) /\ \A k \in 1..Len(f) : f[k] \in Runs
  OBVIOUS
<1>2. Len(f) \in DOMAIN f
  BY <1>1
<1>3. ASSUME NEW k \in 1..Len(f) PROVE NotAfter(f[k], f[Len(f)])
  <2>1. CASE k < Len(f)
    BY <1>1, <1>2, <2>1 DEF Ascending, NotAfter
  <2>2. CASE k = Len(f)
    BY <1>1, <2>2, NotAfterOrders
  <2>3. k < Len(f) \/ k = Len(f)
    OBVIOUS
  <2> QED BY <2>1, <2>2, <2>3
<1> QED BY <1>1, <1>2, <1>3 DEF Elements

\* f with one more entry.
Appended(f, e) == f \o <<e>>

LEMMA PushedAscending ==
  ASSUME NEW f \in Seq(Runs), Ascending(f), NEW e \in Runs,
         \A d \in Elements(f) : NotAfter(d, e), NEW g, g = Appended(f, e)
  PROVE  /\ g \in Seq(Runs) /\ Ascending(g) /\ Elements(g) = Elements(f) \union {e}
         /\ g # <<>> /\ Len(g) = Len(f) + 1 /\ g[Len(g)] = e
         /\ f # <<>> => g[1] = f[1]
         /\ f = <<>> => g[1] = e
<1>1. /\ g \in Seq(Runs) /\ Len(g) = Len(f) + 1 /\ g[Len(f) + 1] = e
      /\ \A k \in 1..Len(f) : g[k] = f[k]
  BY DEF Appended
<1>2. Len(f) \in Nat /\ DOMAIN f = 1..Len(f) /\ DOMAIN g = 1..(Len(f) + 1)
  BY <1>1
<1>3. \A k \in 1..Len(f) : f[k] \in Elements(f)
  BY <1>2 DEF Elements
<1>4. ASSUME NEW j \in 1..(Len(f) + 1), NEW k \in 1..(Len(f) + 1), j < k
      PROVE  StartTime[g[j]] <= StartTime[g[k]]
  <2>1. j \in 1..Len(f) /\ (k \in 1..Len(f) \/ k = Len(f) + 1)
    BY <1>2, <1>4
  <2>2. CASE k \in 1..Len(f)
    BY <1>1, <1>2, <1>4, <2>1, <2>2 DEF Ascending
  <2>3. CASE k = Len(f) + 1
    BY <1>1, <1>3, <2>1, <2>3 DEF NotAfter
  <2> QED BY <2>1, <2>2, <2>3
<1>5. Ascending(g)
  BY <1>2, <1>4 DEF Ascending
<1>6. \A k \in 1..(Len(f) + 1) : k \in 1..Len(f) \/ k = Len(f) + 1
  BY <1>2
<1>7. Elements(g) = Elements(f) \union {e}
  <2>1. Elements(g) \subseteq Elements(f) \union {e}
    BY <1>1, <1>2, <1>3, <1>6 DEF Elements
  <2>2. e \in Elements(g)
    <3>1. Len(f) + 1 \in DOMAIN g
      BY <1>2
    <3> QED BY <1>1, <3>1 DEF Elements
  <2>3. ASSUME NEW k \in 1..Len(f) PROVE f[k] \in Elements(g)
    <3>1. k \in DOMAIN g
      BY <1>2
    <3> QED BY <1>1, <3>1 DEF Elements
  <2> QED BY <1>2, <2>1, <2>2, <2>3 DEF Elements
<1>8. f # <<>> => g[1] = f[1]
  <2>1. f # <<>> => 1 \in 1..Len(f)
    OBVIOUS
  <2> QED BY <1>1, <2>1
<1>9. f = <<>> => g[1] = e
  <2>1. f = <<>> => Len(f) + 1 = 1
    OBVIOUS
  <2> QED BY <1>1, <2>1
<1>10. g # <<>>
  BY <1>1, <1>2
<1> QED BY <1>1, <1>5, <1>7, <1>8, <1>9, <1>10

\* An entry inserted between one that is not after it and one that is.
LEMMA InsertedAscending ==
  ASSUME NEW s \in Seq(Runs), Ascending(s), NEW i \in 1..(Len(s) - 1), NEW r \in Runs,
         NotAfter(s[i], r), NotAfter(r, s[i + 1])
  PROVE  Ascending(InsertAt(s, i, r))
<1> DEFINE h == InsertAt(s, i, r)
           n == Len(s)
<1>0. i \in 0..Len(s)
  OBVIOUS
<1>1. n \in Nat /\ i \in Nat /\ i >= 1 /\ i < n /\ i \in 0..n /\ DOMAIN s = 1..n
  OBVIOUS
<1>2. \A k \in 1..n : s[k] \in Runs /\ StartTime[s[k]] \in Nat
  BY <1>1, TimesAreNumbers
<1>3. /\ h \in Seq(Runs) /\ Len(h) = n + 1
      /\ \A k \in 1..(n + 1) :
           h[k] = IF k <= i THEN s[k] ELSE IF k = i + 1 THEN r ELSE s[k - 1]
  BY <1>0, InsertAtEntries
<1>4. DOMAIN h = 1..(n + 1)
  BY <1>1, <1>3
<1> HIDE DEF h, n
<1>5. \A j, k \in 1..n : j < k => StartTime[s[j]] <= StartTime[s[k]]
  BY <1>1 DEF Ascending
<1>6. StartTime[s[i]] <= StartTime[r] /\ StartTime[r] <= StartTime[s[i + 1]] /\ StartTime[r] \in Nat
  BY TimesAreNumbers DEF NotAfter
<1>7. ASSUME NEW k \in 1..n, k <= i PROVE StartTime[s[k]] <= StartTime[r]
  <2>1. i \in 1..n /\ (k = i \/ k < i)
    BY <1>1, <1>7
  <2>2. StartTime[s[k]] <= StartTime[s[i]]
    BY <1>2, <1>5, <2>1
  <2> QED BY <1>2, <1>6, <2>1, <2>2
<1>8. ASSUME NEW k \in 1..n, k >= i + 1 PROVE StartTime[r] <= StartTime[s[k]]
  <2>1. i + 1 \in 1..n /\ (k = i + 1 \/ i + 1 < k)
    BY <1>1, <1>8
  <2>2. StartTime[s[i + 1]] <= StartTime[s[k]]
    BY <1>2, <1>5, <2>1
  <2> QED BY <1>2, <1>6, <2>1, <2>2
<1>9. ASSUME NEW j \in 1..(n + 1), NEW k \in 1..(n + 1), j < k
      PROVE  StartTime[h[j]] <= StartTime[h[k]]
  <2>1. CASE k <= i
    <3>1. j <= i /\ j \in 1..n /\ k \in 1..n
      BY <1>1, <1>9, <2>1
    <3> QED BY <1>3, <1>5, <1>9, <2>1, <3>1
  <2>2. CASE k = i + 1
    <3>1. j <= i /\ j \in 1..n /\ ~(k <= i)
      BY <1>1, <1>9, <2>2
    <3> QED BY <1>3, <1>7, <2>2, <3>1
  <2>3. CASE k > i + 1
    <3>1. k - 1 \in 1..n /\ k - 1 >= i + 1 /\ ~(k <= i) /\ k # i + 1
      BY <1>1, <2>3
    <3>2. h[k] = s[k - 1]
      BY <1>3, <3>1
    <3>3. CASE j <= i
      <4>1. j \in 1..n /\ j < k - 1
        BY <1>1, <3>1, <3>3
      <4> QED BY <1>3, <1>5, <3>1, <3>2, <3>3, <4>1
    <3>4. CASE j = i + 1
      <4>1. h[j] = r
        BY <1>1, <1>3, <3>4
      <4> QED BY <1>8, <3>1, <3>2, <4>1
    <3>5. CASE j > i + 1
      <4>1. j - 1 \in 1..n /\ j - 1 < k - 1 /\ ~(j <= i) /\ j # i + 1
        BY <1>1, <1>9, <3>5
      <4>2. h[j] = s[j - 1]
        BY <1>3, <4>1
      <4> QED BY <1>5, <3>1, <3>2, <4>1, <4>2
    <3> QED BY <1>1, <3>3, <3>4, <3>5
  <2> QED BY <1>1, <2>1, <2>2, <2>3
<1>10. Ascending(h)
  BY <1>4, <1>9 DEF Ascending
<1> QED BY <1>10 DEF h

\* What putOutOfOrder writes is in order, and is newer than what the start of
\* the old file was newer than.
LEMMA NewFileAscending ==
  ASSUME NEW f \in Seq(Runs), Ascending(f), NEW r \in Runs, NEW i \in InsertPlaces(f, r),
         NEW m \in BOOLEAN, NEW g, g = NewBackingFile(f, r, i, m)
  PROVE  /\ g \in Seq(Runs) /\ Ascending(g) /\ Elements(g) \subseteq Elements(f) \union {r}
         /\ ~m => r \in Elements(g)
         /\ i \in 1..(Len(f) - 1) /\ f[i] \in Elements(f) /\ NotAfter(f[i], r)
         /\ NotAfter(r, f[Len(f)]) /\ f # <<>>
<1> DEFINE kept == IF m THEN SubSeq(f, 1, Len(f) - 1) ELSE f
<1>1. /\ i \in 1..(Len(f) - 1) /\ Len(f) \in Nat /\ DOMAIN f = 1..Len(f)
      /\ \A k \in 1..Len(f) : f[k] \in Runs
  BY DEF InsertPlaces
<1>2. i \in 1..Len(f) /\ i + 1 \in 1..Len(f) /\ f # <<>>
  BY <1>1
<1>3. NotAfter(f[i], r) /\ NotAfter(r, f[i + 1])
  <2>1. StartTime[f[i]] <= StartTime[r] /\ StartTime[f[i + 1]] > StartTime[r]
    BY DEF InsertPlaces
  <2>2. StartTime[r] \in Nat /\ StartTime[f[i + 1]] \in Nat
    BY <1>1, <1>2, TimesAreNumbers
  <2> QED BY <2>1, <2>2 DEF NotAfter
<1>4. NotAfter(r, f[Len(f)])
  <2>1. f[i + 1] \in Elements(f) /\ f[i + 1] \in Runs
    BY <1>1, <1>2 DEF Elements
  <2>2. NotAfter(f[i + 1], f[Len(f)]) /\ f[Len(f)] \in Runs
    BY <1>2, <2>1, LastIsNewest
  <2> QED BY <1>3, <2>1, <2>2, NotAfterOrders
<1>5. /\ g \in Seq(Runs) /\ Elements(g) \subseteq Elements(f) \union {r}
      /\ ~m => r \in Elements(g)
  BY <1>1, NewFileEntries
<1>6. /\ kept \in Seq(Runs) /\ Len(kept) \in Nat /\ Len(kept) <= Len(f)
      /\ \A k \in 1..Len(kept) : kept[k] = f[k]
  <2>1. CASE m
    <3>1. /\ SubSeq(f, 1, Len(f) - 1) \in Seq(Runs) /\ Len(SubSeq(f, 1, Len(f) - 1)) = Len(f) - 1
          /\ \A k \in 1..(Len(f) - 1) : SubSeq(f, 1, Len(f) - 1)[k] = f[k]
      BY <1>1
    <3> QED BY <1>1, <2>1, <3>1
  <2>2. CASE ~m
    BY <2>2
  <2> QED BY <2>1, <2>2
<1>7. g = IF i < Len(kept) THEN InsertAt(kept, i, r) ELSE kept
  BY DEF NewBackingFile
<1> HIDE DEF kept
<1>8. Ascending(kept)
  <2>1. DOMAIN kept = 1..Len(kept) /\ 1..Len(kept) \subseteq 1..Len(f)
    BY <1>1, <1>6
  <2> QED BY <1>1, <1>6, <2>1 DEF Ascending
<1>9. Ascending(g)
  <2>1. CASE i < Len(kept)
    <3>1. i \in 1..(Len(kept) - 1) /\ i \in 1..Len(kept) /\ i + 1 \in 1..Len(kept)
      BY <1>1, <1>6, <2>1
    <3>2. kept[i] = f[i] /\ kept[i + 1] = f[i + 1]
      BY <1>6, <3>1
    <3>3. Ascending(InsertAt(kept, i, r))
      BY <1>3, <1>6, <1>8, <3>1, <3>2, InsertedAscending
    <3> QED BY <1>7, <2>1, <3>3
  <2>2. CASE ~(i < Len(kept))
    BY <1>7, <1>8, <2>2
  <2> QED BY <2>1, <2>2
<1>10. f[i] \in Elements(f)
  BY <1>1, <1>2 DEF Elements
<1> QED BY <1>1, <1>2, <1>3, <1>4, <1>5, <1>9, <1>10

-----------------------------------------------------------------------------
(***************************************************************************)
(* The index that makeIndex makes.                                         *)
(***************************************************************************)

LEMMA IndexedFiles ==
  ASSUME NEW fs, fs[0] # NoFile
  PROVE  \E k \in 1..(MaxHistories + 1) :
           /\ Indexed(fs) = 0..(k - 1)
           /\ \A n \in 0..(k - 1) : fs[n] # NoFile
           /\ k <= MaxHistories => fs[k] = NoFile
<1> DEFINE T == {n \in 1..MaxHistories : fs[n] = NoFile}
           M == MaxHistories
<1>1. M \in Nat /\ FileNrs = 0..M
  BY RunsAreNumbers DEF FileNrs
<1>2. CASE T = {}
  <2>1. \A n \in 1..M : fs[n] # NoFile
    BY <1>2
  <2>2. Indexed(fs) = 0..M
    BY <1>1, <2>1 DEF Indexed
  <2>3. \A n \in 0..M : fs[n] # NoFile
    BY <1>1, <2>1
  <2>4. M + 1 \in 1..(MaxHistories + 1) /\ (M + 1) - 1 = M /\ ~(M + 1 <= MaxHistories)
    BY <1>1
  <2> QED BY <2>2, <2>3, <2>4
<1>3. CASE T # {}
  <2>1. T \in SUBSET Nat
    BY <1>1
  <2>2. PICK k \in T : \A y \in T : k <= y
    BY <1>3, <2>1, LeastNumber
  <2>3. k \in 1..M /\ fs[k] = NoFile
    BY <2>2
  <2>4. ASSUME NEW n \in 1..(k - 1) PROVE fs[n] # NoFile
    <3>1. n \in 1..M /\ ~(k <= n)
      BY <1>1, <2>3
    <3> QED BY <2>2, <3>1
  <2>5. \A n \in 0..(k - 1) : fs[n] # NoFile
    BY <1>1, <2>3, <2>4
  <2>6. ASSUME NEW n \in 0..M PROVE n \in 0..(k - 1) <=> \A m \in 1..n : fs[m] # NoFile
    <3>1. CASE n \in 0..(k - 1)
      <4>1. \A m \in 1..n : m \in 1..(k - 1)
        BY <1>1, <2>3, <3>1
      <4> QED BY <2>4, <3>1, <4>1
    <3>2. CASE n \notin 0..(k - 1)
      <4>1. k \in 1..n
        BY <1>1, <2>3, <3>2
      <4> QED BY <2>3, <3>2, <4>1
    <3> QED BY <3>1, <3>2
  <2>7. 0..(k - 1) \subseteq 0..M
    BY <1>1, <2>3
  <2>8. Indexed(fs) = 0..(k - 1)
    BY <1>1, <2>6, <2>7 DEF Indexed
  <2>9. k \in 1..(MaxHistories + 1)
    BY <1>1, <2>3
  <2> QED BY <2>3, <2>5, <2>8, <2>9
<1> QED BY <1>2, <1>3

LEMMA MadeIndexDescribes ==
  ASSUME NEW fs, fs[0] # NoFile
  PROVE  \E k \in 1..(MaxHistories + 1) : Describes(MakeIndex(fs), fs, k)
<1>1. PICK k \in 1..(MaxHistories + 1) :
        /\ Indexed(fs) = 0..(k - 1)
        /\ \A n \in 0..(k - 1) : fs[n] # NoFile
        /\ k <= MaxHistories => fs[k] = NoFile
  BY IndexedFiles
<1>2. k \in Nat \ {0} /\ MaxHistories \in Nat
  BY RunsAreNumbers
<1>3. Cardinality(Indexed(fs)) = k
  BY <1>1, <1>2, FS_Interval
<1> DEFINE ix == MakeIndex(fs)
<1>4. ix = [i \in 1..k |-> MakeBackingFileDtor(Contents(fs[i - 1]), CountUpTo(fs)[i - 2])]
  BY <1>3 DEF MakeIndex
<1>5. DOMAIN ix = 1..k /\ Len(ix) = k
  BY <1>2, <1>4
<1>6. ASSUME NEW i \in 1..k
      PROVE  fs[i - 1] # NoFile /\ MakeBackingFileDtor(fs[i - 1], ix[i].startIdx) = ix[i]
  <2>1. i - 1 \in 0..(k - 1)
    BY <1>2
  <2>2. fs[i - 1] # NoFile
    BY <1>1, <2>1
  <2>3. ix[i] = MakeBackingFileDtor(fs[i - 1], CountUpTo(fs)[i - 2])
    BY <1>4, <2>2 DEF Contents
  <2>4. ix[i].startIdx = CountUpTo(fs)[i - 2]
    BY <2>3 DEF MakeBackingFileDtor
  <2> QED BY <2>2, <2>3, <2>4
<1>7. Describes(ix, fs, k)
  BY <1>1, <1>5, <1>6 DEF Describes
<1> QED BY <1>7

-----------------------------------------------------------------------------
(***************************************************************************)
(* DiskInv is inductive.                                                   *)
(***************************************************************************)

LEMMA SameOrder ==
  ASSUME DiskInv, files' \in FilesOf(Runs), deleted' = deleted,
         \A n \in FileNrs : Contents(files'[n]) = Contents(files[n])
  PROVE  /\ DiskType' /\ Sorted' /\ Layered' /\ OldestFirst'
         /\ OnDisk(files') = OnDisk(files)
<1>1. OnDisk(files') = OnDisk(files)
  BY SameContents
<1>2. \A n \in FileNrs : InFile(files', n) = InFile(files, n)
  BY DEF InFile
<1>3. Layered'
  BY <1>2 DEF DiskInv, Layered
<1>4. Sorted'
  BY DEF DiskInv, Sorted
<1> QED BY <1>1, <1>3, <1>4 DEF DiskInv, DiskType, OldestFirst

LEMMA DiskHasRuns ==
  ASSUME DiskInv
  PROVE  /\ OnDisk(files) \subseteq Runs /\ deleted \subseteq Runs
         /\ \A n \in FileNrs : /\ Contents(files[n]) \in Seq(Runs)
                               /\ InFile(files, n) \subseteq OnDisk(files)
                               /\ InFile(files, n) \subseteq Runs
                               /\ Valid(files[n])
<1>1. files \in FilesOf(Runs) /\ deleted \subseteq Runs
  BY DEF DiskInv, DiskType
<1>2. ASSUME NEW n \in FileNrs PROVE Contents(files[n]) \in Seq(Runs)
  <2>1. <<>> \in Seq(Runs)
    OBVIOUS
  <2> QED BY <1>1, <2>1 DEF Contents, FilesOf
<1>3. ASSUME NEW n \in FileNrs PROVE InFile(files, n) \subseteq Runs
  BY <1>2, SeqElements DEF InFile
<1>4. \A n \in FileNrs : InFile(files, n) \subseteq OnDisk(files)
  BY <1>3, OnDiskIs, RunsAreNumbers
<1>5. OnDisk(files) \subseteq Runs
  BY <1>3, OnDiskIs
<1>6. \A n \in FileNrs : Valid(files[n])
  BY <1>3, RunsAreNumbers DEF Valid, InFile
<1> QED BY <1>1, <1>2, <1>3, <1>4, <1>5, <1>6

\* The runs that have started are still the first ones.
LEMMA OrderOfStarts ==
  ASSUME DiskInv, \A r \in Runs : fate'[r] = "future" <=> fate[r] = "future",
         \A e \in OnDisk(files') \union deleted' :
           e \in Runs /\ (e \in OnDisk(files) \union deleted \/ fate[e] # "future"),
         pc' = "down" => \A r \in Runs : fate'[r] # "running"
  PROVE  StartedInOrder'
<1>1. \A q, r \in Runs : q < r /\ fate'[q] = "future" => fate'[r] = "future"
  BY DEF DiskInv, StartedInOrder
<1>2. \A e \in OnDisk(files') \union deleted' : fate'[e] # "future"
  BY DEF DiskInv, StartedInOrder
<1>3. pc' = "down" => Running' = {}
  BY DEF Running
<1> QED BY <1>1, <1>2, <1>3 DEF StartedInOrder

\* The current file, and the entry that all others are compared with.
LEMMA CurrentIsNewest ==
  ASSUME DiskInv, Contents(files[0]) # <<>>
  PROVE  LET f == Contents(files[0])
         IN  /\ f[Len(f)] \in Runs
             /\ \A e \in OnDisk(files) \union deleted : NotAfter(e, f[Len(f)])
<1> DEFINE f == Contents(files[0])
           z == f[Len(f)]
<1>1. f \in Seq(Runs) /\ 0 \in FileNrs /\ InFile(files, 0) = Elements(f)
  BY DiskHasRuns, RunsAreNumbers DEF InFile
<1>2. Ascending(f)
  BY <1>1 DEF DiskInv, Sorted
<1>3. z \in Elements(f) /\ z \in Runs /\ \A e \in Elements(f) : NotAfter(e, z)
  BY <1>1, <1>2, LastIsNewest
<1>4. z \in OnDisk(files)
  BY <1>1, <1>3, DiskHasRuns
<1> HIDE DEF z, f
<1>5. ASSUME NEW e \in OnDisk(files) PROVE NotAfter(e, z)
  <2>1. PICK n \in FileNrs : e \in InFile(files, n)
    BY <1>5, OnDiskIs
  <2>2. CASE n = 0
    BY <1>1, <1>3, <2>1, <2>2
  <2>3. CASE n # 0
    <3>1. 0 < n
      BY <2>3, RunsAreNumbers DEF FileNrs
    <3> QED BY <1>1, <1>3, <2>1, <3>1 DEF DiskInv, Layered
  <2> QED BY <2>2, <2>3
<1>6. ASSUME NEW e \in deleted PROVE NotAfter(e, z)
  BY <1>4, <1>6 DEF DiskInv, OldestFirst, NotAfter
<1> QED BY <1>3, <1>5, <1>6 DEF z, f

\* A step that leaves the files and the index alone.
LEMMA SameFiles ==
  ASSUME DiskInv, UNCHANGED <<files, deleted, index>>, pc' \in {"idle", "push"} => pc \in {"idle", "push"}
  PROVE  /\ DiskType' /\ Sorted' /\ Layered' /\ OldestFirst' /\ IndexInv'
         /\ OnDisk(files') = OnDisk(files)
<1>1. IndexInv'
  BY DEF DiskInv, IndexInv
<1>2. files' \in FilesOf(Runs) /\ \A n \in FileNrs : Contents(files'[n]) = Contents(files[n])
  BY DEF DiskInv, DiskType
<1> QED BY <1>1, <1>2, SameOrder

LEMMA StartRunDisk ==
  ASSUME DiskInv, AnswerInv', NEW r \in Runs, StartRun(r)
  PROVE  DiskInv'
<1>1. /\ pc # "down" /\ fate[r] = "future" /\ fate' = [fate EXCEPT ![r] = "running"]
      /\ \A q \in Runs : q < r => fate[q] # "future"
      /\ UNCHANGED <<files, index, pc, todo, deleted, stored>>
  BY DEF StartRun
<1>2. fate \in [Runs -> RunStates] /\ OnDisk(files) \subseteq Runs /\ deleted \subseteq Runs
  BY DiskHasRuns DEF DiskInv, AnswerInv, AnswerType
<1>3. /\ DiskType' /\ Sorted' /\ Layered' /\ OldestFirst' /\ IndexInv'
  BY <1>1, SameFiles
<1>4. ASSUME NEW e \in OnDisk(files) \union deleted PROVE fate[e] # "future" /\ NotAfter(e, r)
  <2>1. fate[e] # "future" /\ e \in Runs
    BY <1>2, <1>4 DEF DiskInv, StartedInOrder
  <2>2. ~(r < e)
    BY <1>1, <2>1 DEF DiskInv, StartedInOrder
  <2>3. e <= r
    BY <2>1, <2>2, RunsAreNumbers
  <2> QED BY <2>1, <2>3, TimesAreNumbers
<1>5. NewerThanHistory'
  <2>1. SUFFICES ASSUME pc \in {"idle", "down"}, Contents(files[0]) = <<>>,
                        NEW e \in OnDisk(files) \union deleted, NEW q \in Runs, fate'[q] = "running"
                 PROVE  NotAfter(e, q)
    BY <1>1 DEF NewerThanHistory, Running
  <2>2. q = r \/ q \in Running
    BY <1>1, <1>2, <2>1 DEF Running
  <2> QED BY <1>4, <2>1, <2>2 DEF DiskInv, NewerThanHistory
<1>6. StartedInOrder'
  <2>1. \A q \in Runs : fate'[q] = "future" <=> fate[q] = "future" /\ q # r
    BY <1>1, <1>2
  <2>2. \A p, q \in Runs : p < q /\ fate'[p] = "future" => fate'[q] = "future"
    BY <1>1, <2>1 DEF DiskInv, StartedInOrder
  <2>3. \A e \in OnDisk(files') \union deleted' : fate'[e] # "future"
    BY <1>1, <1>2, <1>4, <2>1
  <2> QED BY <1>1, <2>2, <2>3 DEF StartedInOrder
<1>7. CarriedIsNewest' /\ RotateInv'
  BY <1>1 DEF DiskInv, CarriedIsNewest, RotateInv
<1> QED BY <1>3, <1>5, <1>6, <1>7 DEF DiskInv

LEMMA PutRefusedDisk ==
  ASSUME DiskInv, AnswerInv', NEW r \in Runs, PutRefused(r)
  PROVE  DiskInv'
<1>1. /\ pc = "idle" /\ fate[r] = "running" /\ UNCHANGED <<files, index, deleted>>
      /\ pc' = "idle" /\ fate' = [q \in Runs |-> IF q \in {r} THEN "refused" ELSE fate[q]]
  BY DEF PutRefused, Return
<1>2. OnDisk(files) \subseteq Runs /\ deleted \subseteq Runs
  BY DiskHasRuns
<1>3. /\ DiskType' /\ Sorted' /\ Layered' /\ OldestFirst' /\ IndexInv'
      /\ OnDisk(files') = OnDisk(files)
  BY <1>1, SameFiles
<1>4. Running' \subseteq Running
  BY <1>1 DEF Running
<1>5. NewerThanHistory'
  BY <1>1, <1>4 DEF DiskInv, NewerThanHistory
<1>6. StartedInOrder'
  BY <1>1, <1>2, OrderOfStarts
<1>7. CarriedIsNewest' /\ RotateInv'
  BY <1>1 DEF CarriedIsNewest, RotateInv
<1> QED BY <1>3, <1>5, <1>6, <1>7 DEF DiskInv

\* What the index says of the current file.
LEMMA FirstDescriptor ==
  ASSUME DiskInv, pc \in {"idle", "push"}
  PROVE  /\ files[0] \in Seq(Runs) /\ files[0] # NoFile /\ Contents(files[0]) = files[0]
         /\ index[1] = MakeBackingFileDtor(files[0], index[1].startIdx)
         /\ index[1].nbrEntries = Len(files[0])
         /\ index # <<>>
<1>1. PICK k \in 1..(MaxHistories + 1) : Describes(index, files, k)
  BY DEF DiskInv, IndexInv
<1>2. 1 \in 1..k /\ 1 - 1 = 0
  BY RunsAreNumbers
<1>3. files[0] # NoFile /\ MakeBackingFileDtor(files[0], index[1].startIdx) = index[1]
  BY <1>1, <1>2 DEF Describes
<1>4. index[1].nbrEntries = Len(files[0])
  BY <1>3 DEF MakeBackingFileDtor
<1>5. files[0] \in Seq(Runs)
  BY <1>3, RunsAreNumbers DEF DiskInv, DiskType, FilesOf
<1>6. index # <<>>
  BY <1>1, <1>2 DEF Describes
<1> QED BY <1>3, <1>4, <1>5, <1>6 DEF Contents

\* The files that the index describes can be rotated.
LEMMA RotationStarts ==
  ASSUME NEW k \in 1..(MaxHistories + 1), NEW ix, NEW fs, Describes(ix, fs, k)
  PROVE  /\ Len(ix) - 1 \in FileNrs
         /\ \A n \in 0..(Len(ix) - 1) : fs[n] # NoFile
         /\ (Len(ix) - 1) + 1 <= MaxHistories => fs[(Len(ix) - 1) + 1] = NoFile
<1>1. k \in Nat \ {0} /\ Len(ix) = k /\ MaxHistories \in Nat /\ k <= MaxHistories + 1
  BY RunsAreNumbers DEF Describes
<1>2. ASSUME NEW n \in 0..(k - 1) PROVE fs[n] # NoFile
  <2>1. n + 1 \in 1..k /\ (n + 1) - 1 = n
    BY <1>1
  <2> QED BY <2>1 DEF Describes
<1>3. (k - 1) + 1 = k /\ k - 1 \in FileNrs
  BY <1>1 DEF FileNrs
<1>4. k <= MaxHistories => fs[k] = NoFile
  BY DEF Describes
<1> QED BY <1>1, <1>2, <1>3, <1>4

LEMMA PutInOrderDisk ==
  ASSUME DiskInv, AnswerInv', NEW r \in Runs, PutInOrder(r)
  PROVE  DiskInv'
<1>1. /\ pc = "idle" /\ fate[r] = "running" /\ index # <<>> /\ ~OutOfOrder(r)
      /\ fate' = [fate EXCEPT ![r] = "putting"] /\ pc' \in {"rotate", "push"}
      /\ todo' = [pos |-> Len(index) - 1, entry |-> r, ooo |-> "no"]
      /\ UNCHANGED <<files, index, deleted>>
  BY DEF PutInOrder
<1>2. fate \in [Runs -> RunStates] /\ OnDisk(files) \subseteq Runs /\ deleted \subseteq Runs
  BY DiskHasRuns DEF DiskInv, AnswerInv, AnswerType
<1>3. /\ DiskType' /\ Sorted' /\ Layered' /\ OldestFirst' /\ IndexInv'
      /\ OnDisk(files') = OnDisk(files)
  BY <1>1, SameFiles
<1>4. ASSUME NEW e \in OnDisk(files) \union deleted PROVE NotAfter(e, r)
  <2> DEFINE f == files[0]
  <2>1. f \in Seq(Runs) /\ Contents(f) = f /\ index[1] = MakeBackingFileDtor(f, index[1].startIdx)
    BY <1>1, FirstDescriptor
  <2>2. CASE f = <<>>
    BY <1>1, <1>4, <2>1, <2>2 DEF DiskInv, NewerThanHistory, Running
  <2>3. CASE f # <<>>
    <3> DEFINE z == f[Len(f)]
    <3>1. z \in Runs /\ NotAfter(e, z)
      BY <1>4, <2>1, <2>3, CurrentIsNewest
    <3>2. index[1].nbrEntries = Len(f) /\ index[1].latest = StartTime[z]
      BY <2>1, <2>3 DEF MakeBackingFileDtor
    <3>3. Len(f) > 0
      BY <2>1, <2>3
    <3>4. ~(StartTime[z] > StartTime[r])
      BY <1>1, <3>2, <3>3 DEF OutOfOrder
    <3> HIDE DEF z
    <3>5. NotAfter(z, r)
      BY <3>1, <3>4, TimesAreNumbers DEF NotAfter
    <3> QED BY <1>2, <1>4, <3>1, <3>5, NotAfterOrders
  <2> QED BY <2>2, <2>3
<1>5. CarriedIsNewest'
  <2>1. todo'.entry = r
    BY <1>1
  <2> QED BY <1>1, <1>4, <2>1 DEF CarriedIsNewest
<1>6. NewerThanHistory'
  BY <1>1 DEF NewerThanHistory
<1>7. StartedInOrder'
  <2>1. \A q \in Runs : fate'[q] = "future" <=> fate[q] = "future"
    BY <1>1, <1>2
  <2> QED BY <1>1, <1>2, <2>1, OrderOfStarts
<1>8. RotateInv'
  <2>1. PICK k \in 1..(MaxHistories + 1) : Describes(index, files, k)
    BY <1>1 DEF DiskInv, IndexInv
  <2>2. todo'.pos = Len(index) - 1
    BY <1>1
  <2> QED BY <1>1, <2>1, <2>2, RotationStarts DEF RotateInv
<1> QED BY <1>3, <1>5, <1>6, <1>7, <1>8 DEF DiskInv

\* The current file gets entries that are newer than the other files.
LEMMA CurrentReplaced ==
  ASSUME DiskInv, NEW g \in Seq(Runs), files' = Written(files, g), deleted' = deleted,
         Ascending(g), NEW r \in Runs, Elements(g) \subseteq InFile(files, 0) \union {r},
         \A n \in FileNrs : n # 0 => \A d \in InFile(files, n) : NotAfter(d, r),
         \A d \in deleted : NotAfter(d, r)
  PROVE  /\ DiskType' /\ Sorted' /\ Layered' /\ OldestFirst'
         /\ files'[0] = g /\ Contents(files'[0]) = g /\ InFile(files', 0) = Elements(g)
         /\ OnDisk(files') \subseteq OnDisk(files) \union {r}
         /\ \A n \in FileNrs : n # 0 => files'[n] = files[n]
<1>1. files \in FilesOf(Runs) /\ 0 \in FileNrs
  BY RunsAreNumbers DEF DiskInv, DiskType
<1>2. /\ files' \in FilesOf(Runs) /\ files'[0] = g /\ Contents(files'[0]) = g
      /\ InFile(files', 0) = Elements(g)
      /\ \A n \in FileNrs : n # 0 => files'[n] = files[n] /\ InFile(files', n) = InFile(files, n)
      /\ \A e \in OnDisk(files') : e \in OnDisk(files) \/ e \in Elements(g)
  BY <1>1, CurrentWritten, RunsAreNumbers
<1>3. OnDisk(files') \subseteq OnDisk(files) \union {r}
  BY <1>1, <1>2, DiskHasRuns
<1>4. DiskType'
  BY <1>2 DEF DiskInv, DiskType
<1>5. Sorted'
  BY <1>2 DEF DiskInv, Sorted
<1>6. Layered'
  <2>1. SUFFICES ASSUME NEW m \in FileNrs, NEW n \in FileNrs, m < n,
                        NEW d \in InFile(files', n), NEW e \in InFile(files', m)
                 PROVE  NotAfter(d, e)
    BY DEF Layered
  <2>2. n # 0
    BY <2>1, RunsAreNumbers DEF FileNrs
  <2>3. d \in InFile(files, n) /\ (e \in InFile(files, m) \/ e = r)
    BY <1>2, <2>1, <2>2
  <2> QED BY <2>1, <2>2, <2>3 DEF DiskInv, Layered
<1>7. OldestFirst'
  BY <1>3 DEF DiskInv, OldestFirst, NotAfter
<1> QED BY <1>2, <1>3, <1>4, <1>5, <1>6, <1>7

LEMMA PutOutOfOrderDisk ==
  ASSUME DiskInv, AnswerInv', NEW r \in Runs, PutOutOfOrder(r)
  PROVE  DiskInv'
<1> DEFINE f == files[0]
           m == IsFull(index[1])
<1>1. PICK i \in InsertPlaces(f, r) :
        LET newFile == NewBackingFile(f, r, i, m)
        IN  /\ files' = [files EXCEPT ![0] = newFile]
            /\ index' = [index EXCEPT ![1] = MakeBackingFileDtor(newFile, 0)]
  BY DEF PutOutOfOrder
<1> DEFINE g == NewBackingFile(f, r, i, m)
           z == f[Len(f)]
<1>2. /\ files' = Written(files, g) /\ deleted' = deleted
      /\ index' = [index EXCEPT ![1] = MakeBackingFileDtor(g, 0)]
  BY <1>1 DEF PutOutOfOrder, Written
<1>3. /\ pc = "idle" /\ fate[r] = "running"
      /\ \/ /\ m /\ fate' = [fate EXCEPT ![r] = "putting"] /\ pc' = "rotate"
            /\ todo' = [pos |-> Len(index) - 1, entry |-> z, ooo |-> "yes"]
         \/ /\ ~m /\ pc' = "idle"
            /\ fate' = [q \in Runs |-> IF q \in {r} THEN "logged" ELSE fate[q]]
  BY DEF PutOutOfOrder, Return
<1>4. /\ f \in Seq(Runs) /\ f # NoFile /\ Contents(f) = f /\ InFile(files, 0) = Elements(f)
      /\ 0 \in FileNrs
  BY <1>3, FirstDescriptor, RunsAreNumbers DEF InFile
<1>5. Ascending(f) /\ m \in BOOLEAN
  BY <1>4 DEF DiskInv, Sorted, IsFull
<1> HIDE DEF m
<1>6. /\ g \in Seq(Runs) /\ Ascending(g) /\ Elements(g) \subseteq Elements(f) \union {r}
      /\ ~m => r \in Elements(g)
      /\ f[i] \in Elements(f) /\ NotAfter(f[i], r) /\ NotAfter(r, z) /\ f # <<>>
  BY <1>4, <1>5, NewFileAscending
<1>7. z \in Runs /\ \A e \in OnDisk(files) \union deleted : NotAfter(e, z)
  BY <1>4, <1>6, CurrentIsNewest
<1> HIDE DEF g, z
<1>8. /\ OnDisk(files) \subseteq Runs /\ deleted \subseteq Runs /\ f[i] \in Runs
      /\ f[i] \in OnDisk(files) /\ \A n \in FileNrs : InFile(files, n) \subseteq Runs
  BY <1>4, <1>6, DiskHasRuns
<1>9. \A n \in FileNrs : n # 0 => \A d \in InFile(files, n) : NotAfter(d, r)
  <2>1. SUFFICES ASSUME NEW n \in FileNrs, n # 0, NEW d \in InFile(files, n) PROVE NotAfter(d, r)
    OBVIOUS
  <2>2. 0 < n
    BY <2>1, RunsAreNumbers DEF FileNrs
  <2>3. NotAfter(d, f[i])
    BY <1>4, <1>6, <2>1, <2>2 DEF DiskInv, Layered
  <2>4. d \in Runs
    BY <1>8, <2>1
  <2> QED BY <1>6, <1>8, <2>3, <2>4, NotAfterOrders
<1>10. \A d \in deleted : NotAfter(d, r)
  <2>1. \A d \in deleted : NotAfter(d, f[i])
    BY <1>8 DEF DiskInv, OldestFirst, NotAfter
  <2> QED BY <1>6, <1>8, <2>1, NotAfterOrders
<1>11. /\ DiskType' /\ Sorted' /\ Layered' /\ OldestFirst'
       /\ files'[0] = g /\ Contents(files'[0]) = g
       /\ OnDisk(files') \subseteq OnDisk(files) \union {r}
       /\ \A n \in FileNrs : n # 0 => files'[n] = files[n]
  BY <1>2, <1>4, <1>6, <1>9, <1>10, CurrentReplaced
<1>12. PICK k \in 1..(MaxHistories + 1) : Describes(index, files, k)
  BY <1>3 DEF DiskInv, IndexInv
<1>13. Describes(index', files', k)
  <2>1. k \in Nat \ {0} /\ DOMAIN index = 1..k /\ k \in 1..(MaxHistories + 1)
    BY <1>12, RunsAreNumbers DEF Describes
  <2>2. DOMAIN index' = 1..k /\ Len(index') = k
    BY <1>2, <2>1
  <2>3. k <= MaxHistories => files'[k] = NoFile
    <3>1. k <= MaxHistories => k \in FileNrs /\ k # 0
      BY <2>1, RunsAreNumbers DEF FileNrs
    <3> QED BY <1>11, <1>12, <3>1 DEF Describes
  <2>4. ASSUME NEW j \in 1..k
        PROVE  /\ files'[j - 1] # NoFile
               /\ MakeBackingFileDtor(files'[j - 1], index'[j].startIdx) = index'[j]
    <3>1. CASE j = 1
      <4>1. index'[j] = MakeBackingFileDtor(g, 0) /\ j - 1 = 0
        BY <1>2, <2>1, <3>1
      <4>2. index'[j].startIdx = 0
        BY <4>1 DEF MakeBackingFileDtor
      <4> QED BY <1>6, <1>11, <4>1, <4>2, RunsAreNumbers
    <3>2. CASE j # 1
      <4>1. j - 1 \in FileNrs /\ j - 1 # 0
        BY <2>1, <3>2, RunsAreNumbers DEF FileNrs
      <4>2. index'[j] = index[j] /\ files'[j - 1] = files[j - 1]
        BY <1>2, <1>11, <2>1, <3>2, <4>1
      <4> QED BY <1>12, <4>2 DEF Describes
    <3> QED BY <3>1, <3>2
  <2> QED BY <2>1, <2>2, <2>3, <2>4 DEF Describes
<1>14. IndexInv'
  BY <1>13 DEF IndexInv
<1>15. CarriedIsNewest'
  <2>1. SUFFICES ASSUME pc' = "rotate", NEW e \in OnDisk(files') \union deleted'
                 PROVE  NotAfter(e, todo'.entry)
    BY <1>3 DEF CarriedIsNewest
  <2>2. todo'.entry = z
    BY <1>3, <2>1
  <2> QED BY <1>2, <1>6, <1>7, <1>11, <2>1, <2>2
<1>16. NewerThanHistory'
  <2>1. CASE pc' = "rotate"
    BY <2>1 DEF NewerThanHistory
  <2>2. CASE ~m
    <3>1. g # <<>>
      BY <1>6, <2>2 DEF Elements
    <3> QED BY <1>11, <3>1 DEF NewerThanHistory
  <2> QED BY <1>3, <2>1, <2>2
<1>17. StartedInOrder'
  <2>1. \A q \in Runs : fate'[q] = "future" <=> fate[q] = "future"
    BY <1>3 DEF DiskInv, AnswerInv, AnswerType
  <2>2. ASSUME NEW e \in OnDisk(files') \union deleted'
        PROVE  e \in Runs /\ (e \in OnDisk(files) \union deleted \/ fate[e] # "future")
    BY <1>2, <1>3, <1>8, <1>11, <2>2
  <2> QED BY <1>3, <2>1, <2>2, OrderOfStarts
<1>18. RotateInv'
  <2>1. SUFFICES ASSUME pc' = "rotate"
                 PROVE  /\ todo'.pos \in FileNrs
                        /\ \A n \in 0..todo'.pos : files'[n] # NoFile
                        /\ todo'.pos + 1 <= MaxHistories => files'[todo'.pos + 1] = NoFile
    BY DEF RotateInv
  <2>2. todo'.pos = Len(index') - 1
    <3>1. Len(index') = k /\ Len(index) = k
      BY <1>12, <1>13 DEF Describes
    <3> QED BY <1>3, <2>1, <3>1
  <2> QED BY <1>13, <2>2, RotationStarts
<1> QED BY <1>11, <1>14, <1>15, <1>16, <1>17, <1>18 DEF DiskInv

\* A rotation removes the file at its place, or gives it the next number.
LEMMA RotatedFiles ==
  ASSUME DiskInv, RotateFiles, NEW p, p = todo.pos, NEW M, M = MaxHistories
  PROVE  /\ p \in FileNrs /\ M \in Nat /\ FileNrs = 0..M
         /\ \A n \in 0..p : files[n] # NoFile
         /\ files' \in FilesOf(Runs)
         /\ \A n \in FileNrs : n # p /\ n # p + 1 => files'[n] = files[n]
         /\ files'[p] = NoFile
         /\ \/ p + 1 > M /\ deleted' = deleted \union InFile(files, p)
            \/ /\ p + 1 <= M /\ files[p + 1] = NoFile /\ files'[p + 1] = files[p]
               /\ deleted' = deleted
<1>1. pc = "rotate" /\ files[p] # NoFile
  BY DEF RotateFiles
<1>2. /\ p \in FileNrs /\ \A n \in 0..p : files[n] # NoFile
      /\ p + 1 <= M => files[p + 1] = NoFile
      /\ files \in FilesOf(Runs)
      /\ M \in Nat /\ FileNrs = 0..M
  BY <1>1, RunsAreNumbers DEF DiskInv, RotateInv, DiskType, FileNrs
<1>3. \/ /\ p + 1 > M /\ files' = [files EXCEPT ![p] = NoFile]
         /\ deleted' = deleted \union OnDisk([n \in FileNrs |-> files[p]])
      \/ /\ p + 1 <= M /\ files' = [files EXCEPT ![p] = NoFile, ![p + 1] = files[p]]
         /\ deleted' = deleted
  BY DEF RotateFiles
<1>4. OnDisk([n \in FileNrs |-> files[p]]) = InFile(files, p)
  <2> DEFINE ps == [n \in FileNrs |-> files[p]]
  <2>1. \A n \in FileNrs : InFile(ps, n) = InFile(files, p)
    BY DEF InFile
  <2>2. StrayNewline \notin InFile(files, p)
    BY <1>2, DiskHasRuns, RunsAreNumbers
  <2> HIDE DEF ps
  <2>3. \A e : e \in OnDisk(ps) <=> e \in InFile(files, p)
    BY <1>2, <2>1, <2>2, OnDiskIs, RunsAreNumbers
  <2>4. OnDisk(ps) = InFile(files, p)
    BY <2>3
  <2> QED BY <2>4 DEF ps
<1>5. /\ \A n \in FileNrs : n # p /\ n # p + 1 => files'[n] = files[n]
      /\ files'[p] = NoFile /\ files' \in FilesOf(Runs)
      /\ p + 1 <= M => files'[p + 1] = files[p]
  <2>1. \A n \in FileNrs : n # p /\ n # p + 1 => files'[n] = files[n]
    BY <1>2, <1>3 DEF FilesOf
  <2>2. files'[p] = NoFile
    <3>1. p # p + 1
      BY <1>2
    <3> QED BY <1>2, <1>3, <3>1 DEF FilesOf
  <2>3. p + 1 <= M => files'[p + 1] = files[p]
    <3>1. p + 1 <= M => p + 1 \in FileNrs
      BY <1>2
    <3> QED BY <1>2, <1>3, <3>1 DEF FilesOf
  <2>4. files' \in FilesOf(Runs)
    BY <1>2, <1>3 DEF FilesOf
  <2> QED BY <2>1, <2>2, <2>3, <2>4
<1> QED BY <1>2, <1>3, <1>4, <1>5

\* Where an entry that is in a file after a rotation was before.
LEMMA RotatedFrom ==
  ASSUME DiskInv, RotateFiles, NEW p, p = todo.pos, NEW n \in FileNrs, NEW e \in InFile(files', n)
  PROVE  \/ n # p /\ n # p + 1 /\ e \in InFile(files, n)
         \/ n = p + 1 /\ p + 1 <= MaxHistories /\ e \in InFile(files, p)
<1> DEFINE M == MaxHistories
<1>1. /\ p \in FileNrs /\ M \in Nat /\ FileNrs = 0..M
      /\ \A m \in FileNrs : m # p /\ m # p + 1 => files'[m] = files[m]
      /\ files'[p] = NoFile
      /\ p + 1 <= M => files'[p + 1] = files[p]
  BY RotatedFiles
<1>2. CASE n = p
  <2>1. InFile(files', n) = {}
    BY <1>1, <1>2 DEF InFile, Contents, Elements
  <2> QED BY <2>1
<1>3. CASE n = p + 1
  <2>1. p + 1 <= M
    BY <1>1, <1>3
  <2> QED BY <1>1, <1>3, <2>1 DEF InFile
<1>4. CASE n # p /\ n # p + 1
  BY <1>1, <1>4 DEF InFile
<1> QED BY <1>2, <1>3, <1>4

\* Entries are moved or deleted, but not lost.
LEMMA RotationMoves ==
  ASSUME DiskInv, RotateFiles
  PROVE  OnDisk(files') \union deleted' = OnDisk(files) \union deleted
<1> DEFINE p == todo.pos
           M == MaxHistories
<1>1. /\ p \in FileNrs /\ M \in Nat /\ FileNrs = 0..M
      /\ \A n \in FileNrs : n # p /\ n # p + 1 => files'[n] = files[n]
      /\ \/ p + 1 > M /\ deleted' = deleted \union InFile(files, p)
         \/ /\ p + 1 <= M /\ files[p + 1] = NoFile /\ files'[p + 1] = files[p]
            /\ deleted' = deleted
  BY RotatedFiles
<1>2. ASSUME NEW n \in FileNrs, NEW e \in InFile(files', n)
      PROVE  e \in InFile(files, n) \/ e \in InFile(files, p)
  BY RotatedFrom
<1> HIDE DEF p
<1>3. InFile(files, p) \subseteq OnDisk(files)
  BY <1>1, DiskHasRuns
<1>4. OnDisk(files') \subseteq OnDisk(files)
  <2>1. SUFFICES ASSUME NEW e \in OnDisk(files') PROVE e \in OnDisk(files)
    OBVIOUS
  <2>2. PICK n \in FileNrs : e \in InFile(files', n)
    BY <2>1, OnDiskIs
  <2> QED BY <1>2, <1>3, <2>2, DiskHasRuns
<1>5. ASSUME NEW e \in OnDisk(files) PROVE e \in OnDisk(files') \union deleted'
  <2>1. PICK n \in FileNrs : e # StrayNewline /\ e \in InFile(files, n)
    BY <1>5, OnDiskIs
  <2>2. CASE n # p /\ n # p + 1
    <3>1. e \in InFile(files', n)
      BY <1>1, <2>1, <2>2 DEF InFile
    <3> QED BY <2>1, <3>1, OnDiskIs
  <2>3. CASE n = p
    <3>1. p + 1 <= M => p + 1 \in FileNrs /\ InFile(files', p + 1) = InFile(files, p)
      BY <1>1 DEF InFile
    <3>2. p + 1 <= M => e \in OnDisk(files')
      BY <2>1, <2>3, <3>1, OnDiskIs
    <3> QED BY <1>1, <2>1, <2>3, <3>2
  <2>4. n # p + 1
    <3>1. SUFFICES ASSUME n = p + 1 PROVE FALSE
      OBVIOUS
    <3>2. files[n] = NoFile
      BY <1>1, <3>1
    <3> QED BY <2>1, <3>2 DEF InFile, Contents, Elements
  <2> QED BY <2>2, <2>3, <2>4
<1> QED BY <1>1, <1>3, <1>4, <1>5

LEMMA RotateFilesDisk ==
  ASSUME DiskInv, AnswerInv', RotateFiles
  PROVE  DiskInv'
<1> DEFINE p == todo.pos
           M == MaxHistories
<1>1. /\ pc = "rotate" /\ files[p] # NoFile /\ UNCHANGED <<index, fate>>
      /\ \/ p = 0 /\ pc' = "index" /\ todo' = todo
         \/ p # 0 /\ pc' = "rotate" /\ todo' = [todo EXCEPT !.pos = @ - 1]
  BY DEF RotateFiles
<1>2. /\ p \in FileNrs /\ \A n \in 0..p : files[n] # NoFile
      /\ M \in Nat /\ FileNrs = 0..M
  BY RotatedFiles
<1>3. \/ p + 1 > M /\ deleted' = deleted \union InFile(files, p)
      \/ p + 1 <= M /\ deleted' = deleted
  BY RotatedFiles
<1>4. todo'.entry = todo.entry
  BY <1>1 DEF DiskInv, AnswerInv, AnswerType
<1>5. /\ \A n \in FileNrs : n # p /\ n # p + 1 => files'[n] = files[n]
      /\ files'[p] = NoFile /\ files' \in FilesOf(Runs)
      /\ p + 1 <= M => files'[p + 1] = files[p]
  BY RotatedFiles
<1>6. ASSUME NEW n \in FileNrs, NEW e \in InFile(files', n)
      PROVE  \/ n # p /\ n # p + 1 /\ e \in InFile(files, n)
             \/ n = p + 1 /\ p + 1 <= M /\ e \in InFile(files, p)
  BY <1>6, RotatedFrom
<1>7. OnDisk(files') \union deleted' = OnDisk(files) \union deleted
  BY RotationMoves
<1> HIDE DEF p
<1>8. DiskType'
  BY <1>5, <1>7, DiskHasRuns DEF DiskType
<1>9. Sorted'
  <2>1. SUFFICES ASSUME NEW n \in FileNrs PROVE Ascending(Contents(files'[n]))
    BY DEF Sorted
  <2>2. files'[n] = files[n] \/ files'[n] = files[p] \/ files'[n] = NoFile
    BY <1>2, <1>5
  <2>3. Ascending(Contents(NoFile))
    BY DEF Contents, Ascending
  <2>4. Ascending(Contents(files[n])) /\ Ascending(Contents(files[p]))
    BY <1>2 DEF DiskInv, Sorted
  <2> QED BY <2>2, <2>3, <2>4
<1>10. Layered'
  <2>1. SUFFICES ASSUME NEW m \in FileNrs, NEW n \in FileNrs, m < n,
                        NEW d \in InFile(files', n), NEW e \in InFile(files', m)
                 PROVE  NotAfter(d, e)
    BY DEF Layered
  <2> DEFINE m0 == IF m = p + 1 THEN p ELSE m
             n0 == IF n = p + 1 THEN p ELSE n
  <2>2. d \in InFile(files, n0) /\ n # p
    BY <1>2, <1>6, <2>1
  <2>3. e \in InFile(files, m0) /\ m # p
    BY <1>2, <1>6, <2>1
  <2>4. m0 \in FileNrs /\ n0 \in FileNrs /\ m0 < n0
    BY <1>2, <2>1, <2>2, <2>3
  <2> HIDE DEF m0, n0
  <2> QED BY <2>2, <2>3, <2>4 DEF DiskInv, Layered
<1>11. OldestFirst'
  <2>1. SUFFICES ASSUME NEW d \in deleted', NEW e \in OnDisk(files') PROVE NotAfter(d, e)
    BY DEF OldestFirst, NotAfter
  <2>2. PICK n \in FileNrs : e \in InFile(files', n)
    BY <2>1, OnDiskIs
  <2>3. CASE d \in deleted
    <3>1. e \in OnDisk(files)
      BY <1>2, <1>6, <2>2, DiskHasRuns
    <3> QED BY <2>3, <3>1 DEF DiskInv, OldestFirst, NotAfter
  <2>4. CASE d \notin deleted
    <3>1. d \in InFile(files, p) /\ p + 1 > M
      BY <1>3, <2>1, <2>4
    <3>2. e \in InFile(files, n) /\ n # p
      BY <1>2, <1>6, <2>2, <3>1
    <3>3. n < p
      BY <1>2, <3>1, <3>2
    <3> QED BY <1>2, <3>1, <3>2, <3>3 DEF DiskInv, Layered
  <2> QED BY <2>3, <2>4
<1>12. CarriedIsNewest'
  BY <1>1, <1>4, <1>7 DEF DiskInv, CarriedIsNewest
<1>13. pc' \in {"rotate", "index"}
  BY <1>1
<1>14. NewerThanHistory' /\ IndexInv'
  BY <1>13 DEF NewerThanHistory, IndexInv
<1>15. StartedInOrder'
  BY <1>1, <1>7, <1>13, DiskHasRuns, OrderOfStarts
<1>16. RotateInv'
  <2>1. SUFFICES ASSUME pc' = "rotate"
                 PROVE  /\ todo'.pos \in FileNrs
                        /\ \A n \in 0..todo'.pos : files'[n] # NoFile
                        /\ todo'.pos + 1 <= MaxHistories => files'[todo'.pos + 1] = NoFile
    BY DEF RotateInv
  <2>2. p # 0 /\ todo'.pos = p - 1
    BY <1>1, <2>1 DEF p, DiskInv, AnswerInv, AnswerType
  <2>3. p - 1 \in FileNrs /\ (p - 1) + 1 = p /\ \A n \in 0..(p - 1) : n \in 0..p /\ n \in FileNrs /\ n # p /\ n # p + 1
    BY <1>2, <2>2
  <2> QED BY <1>2, <1>5, <2>2, <2>3
<1> QED BY <1>8, <1>9, <1>10, <1>11, <1>12, <1>14, <1>15, <1>16 DEF DiskInv

LEMMA RemakeIndexDisk ==
  ASSUME DiskInv, AnswerInv', RemakeIndex
  PROVE  DiskInv'
<1>1. /\ files' = WithCurrentFile(files) /\ index' = MakeIndex(files')
      /\ pc = "index" /\ pc' = "push" /\ UNCHANGED <<todo, fate, deleted>>
  BY DEF RemakeIndex
<1>2. /\ files' \in FilesOf(Runs) /\ files'[0] \in Seq(Runs)
      /\ \A n \in FileNrs : Contents(files'[n]) = Contents(files[n])
  BY <1>1, WithCurrentSame, RunsAreNumbers DEF DiskInv, DiskType
<1>3. /\ DiskType' /\ Sorted' /\ Layered' /\ OldestFirst' /\ OnDisk(files') = OnDisk(files)
  BY <1>1, <1>2, SameOrder
<1>4. IndexInv'
  <2>1. files'[0] # NoFile
    BY <1>2, RunsAreNumbers
  <2> QED BY <1>1, <2>1, MadeIndexDescribes DEF IndexInv
<1>5. CarriedIsNewest'
  BY <1>1, <1>3 DEF DiskInv, CarriedIsNewest
<1>6. NewerThanHistory' /\ RotateInv'
  BY <1>1 DEF NewerThanHistory, RotateInv
<1>7. StartedInOrder'
  BY <1>1, <1>3, DiskHasRuns, OrderOfStarts
<1> QED BY <1>3, <1>4, <1>5, <1>6, <1>7 DEF DiskInv

\* pushEntryF leaves the descriptor that makeBackingFileDtor would make.
LEMMA PushedDescriptor ==
  ASSUME NEW f \in Seq(Runs), NEW e \in Runs, NEW s, NEW d, d = MakeBackingFileDtor(f, s),
         NEW g, g = Appended(f, e)
  PROVE  PushedFile(d, f, e) = g /\ PushedDtor(d, e) = MakeBackingFileDtor(g, s)
<1>1. /\ g \in Seq(Runs) /\ Len(g) = Len(f) + 1 /\ g[Len(f) + 1] = e /\ Len(f) \in Nat
      /\ \A k \in 1..Len(f) : g[k] = f[k]
  BY DEF Appended
<1>2. g # <<>>
  BY <1>1
<1>3. f # <<>> => 1 \in 1..Len(f) /\ Len(f) # 0
  BY <1>1
<1>4. f = <<>> <=> Len(f) = 0
  BY <1>1
<1>5. g[1] = IF Len(f) = 0 THEN e ELSE f[1]
  BY <1>1, <1>3, <1>4
<1>6. d.nbrEntries = Len(f)
  BY DEF MakeBackingFileDtor
<1>7. PushedFile(d, f, e) = g
  <2>1. ~(d.nbrEntries > 0 /\ f = <<>>)
    BY <1>1, <1>4, <1>6
  <2> QED BY <2>1 DEF PushedFile, Appended
<1> DEFINE n == Len(f)
           a == IF f = <<>> THEN 0 ELSE StartTime[f[1]]
           l == IF f = <<>> THEN 0 ELSE StartTime[f[Len(f)]]
<1>8. d = [nbrEntries |-> n, earliest |-> a, latest |-> l, startIdx |-> s]
  BY DEF MakeBackingFileDtor
<1>9. PushedDtor(d, e) = [nbrEntries |-> Len(f) + 1,
                          earliest |-> IF Len(f) = 0 THEN StartTime[e] ELSE StartTime[f[1]],
                          latest |-> StartTime[e], startIdx |-> s]
  <2>1. n # 0 => a = StartTime[f[1]]
    BY <1>4
  <2>2. n = Len(f)
    OBVIOUS
  <2> DEFINE b == IF n = 0 THEN StartTime[e] ELSE a
             t == StartTime[e]
  <2> HIDE DEF n, a, l
  <2>3. PushedDtor(d, e) = [nbrEntries |-> n + 1, earliest |-> b, latest |-> t, startIdx |-> s]
    <3>1. d.nbrEntries = n /\ d.earliest = a
      BY <1>8
    <3> DEFINE c == n + 1
    <3>2. PushedDtor(d, e) = [d EXCEPT !.earliest = b, !.latest = t, !.nbrEntries = c]
      BY <3>1 DEF PushedDtor
    <3> HIDE DEF b, t, c
    <3>3. [d EXCEPT !.earliest = b, !.latest = t, !.nbrEntries = c]
            = [nbrEntries |-> c, earliest |-> b, latest |-> t, startIdx |-> s]
      <4> DEFINE d1 == [d EXCEPT !.earliest = b]
                 d2 == [d1 EXCEPT !.latest = t]
                 d3 == [d2 EXCEPT !.nbrEntries = c]
      <4>1. d1 = [nbrEntries |-> n, earliest |-> b, latest |-> l, startIdx |-> s]
        BY <1>8
      <4> HIDE DEF d1
      <4>2. d2 = [nbrEntries |-> n, earliest |-> b, latest |-> t, startIdx |-> s]
        BY <4>1
      <4> HIDE DEF d2
      <4>3. d3 = [nbrEntries |-> c, earliest |-> b, latest |-> t, startIdx |-> s]
        BY <4>2
      <4> QED BY <4>3, Zenon DEF d1, d2, d3
    <3> QED BY <3>2, <3>3 DEF c
  <2>4. b = IF Len(f) = 0 THEN StartTime[e] ELSE StartTime[f[1]]
    BY <2>1, <2>2
  <2> HIDE DEF b
  <2> QED BY <2>2, <2>3, <2>4
<1>10. MakeBackingFileDtor(g, s) = [nbrEntries |-> Len(f) + 1,
                          earliest |-> IF Len(f) = 0 THEN StartTime[e] ELSE StartTime[f[1]],
                          latest |-> StartTime[e], startIdx |-> s]
  BY <1>1, <1>2, <1>5 DEF MakeBackingFileDtor
<1> QED BY <1>7, <1>9, <1>10

\* The descriptors when the starts of all files but the current one move, or
\* none does.
LEMMA MovedDescribes ==
  ASSUME NEW k \in 1..(MaxHistories + 1), NEW ix, NEW fs, Describes(ix, fs, k)
  PROVE  Describes(MovedStarts(ix), fs, k)
<1> DEFINE jx == MovedStarts(ix)
<1>1. DOMAIN ix = 1..k /\ k \in Nat
  BY RunsAreNumbers DEF Describes
<1>2. DOMAIN jx = 1..k /\ Len(jx) = k
  BY <1>1 DEF MovedStarts
<1>3. ASSUME NEW i \in 1..k
      PROVE  MakeBackingFileDtor(fs[i - 1], jx[i].startIdx) = jx[i]
  <2>1. MakeBackingFileDtor(fs[i - 1], ix[i].startIdx) = ix[i]
    BY DEF Describes
  <2>2. jx[i] = IF i = 1 THEN ix[i] ELSE [ix[i] EXCEPT !.startIdx = @ + 1]
    BY <1>1 DEF MovedStarts
  <2> DEFINE d == ix[i]
             t == d.startIdx
  <2>3. [d EXCEPT !.startIdx = @ + 1] = MakeBackingFileDtor(fs[i - 1], t + 1)
    <3> HIDE DEF t
    <3>1. d = MakeBackingFileDtor(fs[i - 1], t)
      BY <2>1 DEF t
    <3> QED BY <3>1 DEF MakeBackingFileDtor
  <2>4. MakeBackingFileDtor(fs[i - 1], t + 1).startIdx = t + 1
    BY DEF MakeBackingFileDtor
  <2> QED BY <2>1, <2>2, <2>3, <2>4
<1> QED BY <1>2, <1>3 DEF Describes

LEMMA PushEntryDisk ==
  ASSUME DiskInv, AnswerInv', PushEntry
  PROVE  DiskInv'
<1> DEFINE f == files[0]
           e == todo.entry
           d == index[1]
           g == Appended(f, e)
           pushed == [index EXCEPT ![1] = PushedDtor(@, e)]
<1>1. /\ pc = "push" /\ pc' = "idle" /\ deleted' = deleted
      /\ files' = [files EXCEPT ![0] = PushedFile(d, f, e)]
      /\ index' = pushed \/ index' = MovedStarts(pushed)
      /\ fate' = [q \in Runs |-> IF q \in Putting THEN "logged" ELSE fate[q]]
  BY DEF PushEntry, Return
<1>2. f \in Seq(Runs) /\ Contents(f) = f /\ d = MakeBackingFileDtor(f, d.startIdx)
  BY <1>1, FirstDescriptor
<1>3. e \in Runs /\ fate[e] # "future" /\ \A x \in OnDisk(files) \union deleted : NotAfter(x, e)
  BY <1>1 DEF DiskInv, AnswerInv, AnswerType, PutInv, CarriedIsNewest
<1>4. /\ OnDisk(files) \subseteq Runs /\ deleted \subseteq Runs
      /\ \A n \in FileNrs : InFile(files, n) \subseteq OnDisk(files)
      /\ InFile(files, 0) = Elements(f) /\ 0 \in FileNrs
  BY <1>2, DiskHasRuns, RunsAreNumbers DEF InFile
<1>5. Ascending(f) /\ \A x \in Elements(f) : NotAfter(x, e)
  BY <1>2, <1>3, <1>4 DEF DiskInv, Sorted
<1>6. g \in Seq(Runs) /\ Ascending(g) /\ Elements(g) = Elements(f) \union {e} /\ g # <<>>
  BY <1>2, <1>3, <1>5, PushedAscending
<1>7. PushedFile(d, f, e) = g /\ PushedDtor(d, e) = MakeBackingFileDtor(g, d.startIdx)
  <2> DEFINE s == d.startIdx
  <2> HIDE DEF d, f, e, s
  <2>1. d = MakeBackingFileDtor(f, s)
    BY <1>2 DEF s
  <2>2. PushedFile(d, f, e) = g /\ PushedDtor(d, e) = MakeBackingFileDtor(g, s)
    BY <1>2, <1>3, <2>1, PushedDescriptor
  <2> QED BY <2>2 DEF s
<1>8. files' = Written(files, g)
  BY <1>1, <1>7 DEF Written
<1>9. pushed = [index EXCEPT ![1] = MakeBackingFileDtor(g, d.startIdx)]
  BY <1>7
<1> HIDE DEF g, e, pushed
<1>10. /\ DiskType' /\ Sorted' /\ Layered' /\ OldestFirst'
       /\ files'[0] = g /\ Contents(files'[0]) = g
       /\ OnDisk(files') \subseteq OnDisk(files) \union {e}
       /\ \A n \in FileNrs : n # 0 => files'[n] = files[n]
  <2>1. \A n \in FileNrs : n # 0 => \A x \in InFile(files, n) : NotAfter(x, e)
    BY <1>3, <1>4
  <2> QED BY <1>1, <1>3, <1>4, <1>6, <1>8, <2>1, CurrentReplaced
<1>11. PICK k \in 1..(MaxHistories + 1) : Describes(index, files, k)
  BY <1>1 DEF DiskInv, IndexInv
<1>12. Describes(pushed, files', k)
  <2>1. k \in Nat \ {0} /\ DOMAIN index = 1..k /\ k \in 1..(MaxHistories + 1)
    BY <1>11, RunsAreNumbers DEF Describes
  <2>2. DOMAIN pushed = 1..k /\ Len(pushed) = k
    BY <1>9, <2>1
  <2>3. k <= MaxHistories => files'[k] = NoFile
    <3>1. k <= MaxHistories => k \in FileNrs /\ k # 0
      BY <2>1, RunsAreNumbers DEF FileNrs
    <3> QED BY <1>10, <1>11, <3>1 DEF Describes
  <2>4. ASSUME NEW j \in 1..k
        PROVE  /\ files'[j - 1] # NoFile
               /\ MakeBackingFileDtor(files'[j - 1], pushed[j].startIdx) = pushed[j]
    <3>1. CASE j = 1
      <4> DEFINE s == d.startIdx
      <4> HIDE DEF s
      <4>1. pushed[j] = MakeBackingFileDtor(g, s) /\ j - 1 = 0
        BY <1>9, <2>1, <3>1 DEF s
      <4>2. pushed[j].startIdx = s
        BY <4>1 DEF MakeBackingFileDtor
      <4> QED BY <1>6, <1>10, <4>1, <4>2, RunsAreNumbers
    <3>2. CASE j # 1
      <4>1. j - 1 \in FileNrs /\ j - 1 # 0
        BY <2>1, <3>2, RunsAreNumbers DEF FileNrs
      <4>2. pushed[j] = index[j] /\ files'[j - 1] = files[j - 1]
        BY <1>9, <1>10, <2>1, <3>2, <4>1
      <4> QED BY <1>11, <4>2 DEF Describes
    <3> QED BY <3>1, <3>2
  <2> QED BY <2>1, <2>2, <2>3, <2>4 DEF Describes
<1>13. IndexInv'
  <2>1. Describes(MovedStarts(pushed), files', k)
    BY <1>12, MovedDescribes
  <2> QED BY <1>1, <1>12, <2>1 DEF IndexInv
<1>14. CarriedIsNewest' /\ RotateInv'
  BY <1>1 DEF CarriedIsNewest, RotateInv
<1>15. NewerThanHistory'
  BY <1>6, <1>10 DEF NewerThanHistory
<1>16. StartedInOrder'
  <2>1. \A q \in Runs : fate'[q] = "future" <=> fate[q] = "future"
    BY <1>1 DEF Putting
  <2> QED BY <1>1, <1>3, <1>4, <1>10, <2>1, OrderOfStarts
<1> QED BY <1>10, <1>13, <1>14, <1>15, <1>16 DEF DiskInv

LEMMA StopDisk ==
  ASSUME DiskInv, AnswerInv', Stop, files' \in {files, WithCurrentFile(files)}, deleted' = deleted
  PROVE  DiskInv'
<1>1. /\ pc' = "down"
      /\ fate' = [q \in Runs |-> IF q \in Running \union Putting THEN "lost" ELSE fate[q]]
  BY DEF Stop
<1>2. /\ files' \in FilesOf(Runs)
      /\ \A n \in FileNrs : Contents(files'[n]) = Contents(files[n])
  BY WithCurrentSame, RunsAreNumbers DEF DiskInv, DiskType
<1>3. DiskType' /\ Sorted' /\ Layered' /\ OldestFirst' /\ OnDisk(files') = OnDisk(files)
  BY <1>2, SameOrder
<1>4. \A r \in Runs : fate'[r] # "running"
  BY <1>1 DEF Running
<1>5. NewerThanHistory'
  BY <1>4 DEF NewerThanHistory, Running
<1>6. CarriedIsNewest' /\ IndexInv' /\ RotateInv'
  BY <1>1 DEF CarriedIsNewest, IndexInv, RotateInv
<1>7. StartedInOrder'
  <2>1. \A q \in Runs : fate'[q] = "future" <=> fate[q] = "future"
    BY <1>1 DEF Running, Putting
  <2> QED BY <1>3, <1>4, <2>1, DiskHasRuns, OrderOfStarts
<1> QED BY <1>3, <1>5, <1>6, <1>7 DEF DiskInv

LEMMA NewFileRunLogDisk ==
  ASSUME DiskInv, AnswerInv', NewFileRunLog
  PROVE  DiskInv'
<1>1. CASE Stop
  BY <1>1, StopDisk DEF NewFileRunLog
<1>2. CASE ~Stop
  <2>1. /\ pc = "down" \/ Running = {}
        /\ files' = WithCurrentFile(files) /\ index' = MakeIndex(files') /\ pc' = "idle"
        /\ UNCHANGED <<todo, fate, deleted>>
    BY <1>2 DEF NewFileRunLog
  <2>2. /\ files' \in FilesOf(Runs) /\ files'[0] \in Seq(Runs)
        /\ \A n \in FileNrs : Contents(files'[n]) = Contents(files[n])
    BY <2>1, WithCurrentSame, RunsAreNumbers DEF DiskInv, DiskType
  <2>3. DiskType' /\ Sorted' /\ Layered' /\ OldestFirst' /\ OnDisk(files') = OnDisk(files)
    BY <2>1, <2>2, SameOrder
  <2>4. IndexInv'
    <3>1. files'[0] # NoFile
      BY <2>2, RunsAreNumbers
    <3> QED BY <2>1, <3>1, MadeIndexDescribes DEF IndexInv
  <2>5. Running' = {}
    BY <2>1 DEF DiskInv, StartedInOrder, Running
  <2>6. NewerThanHistory'
    BY <2>5 DEF NewerThanHistory
  <2>7. CarriedIsNewest' /\ RotateInv'
    BY <2>1 DEF CarriedIsNewest, RotateInv
  <2>8. StartedInOrder'
    BY <2>1, <2>3, DiskHasRuns, OrderOfStarts
  <2> QED BY <2>3, <2>4, <2>6, <2>7, <2>8 DEF DiskInv
<1> QED BY <1>1, <1>2

\* No step of Put fails when no operation on the files does.
LEMMA NothingFails ==
  ASSUME DiskInv, "io" \notin Faults \/ NoFailure'
  PROVE  /\ \A r \in Runs : ~PutOutOfOrderFails(r)
         /\ ~RotateFilesFails /\ ~RemakeIndexFails /\ ~PushEntryFails
<1>1. ASSUME NEW r \in Runs, PutOutOfOrderFails(r) PROVE FALSE
  <2>1. pc = "idle" /\ (IoFails \/ ~Readable(index[1], files[0])) /\ Return({r}, "failed")
    BY <1>1 DEF PutOutOfOrderFails
  <2>2. ~NoFailure'
    BY <2>1 DEF NoFailure, Return
  <2>3. ~Readable(index[1], files[0])
    BY <2>1, <2>2 DEF IoFails
  <2>4. /\ files[0] \in Seq(Runs) /\ files[0] # NoFile /\ Contents(files[0]) = files[0]
        /\ index[1].nbrEntries = Len(files[0])
    BY <2>1, FirstDescriptor
  <2>5. Valid(files[0])
    BY DiskHasRuns, RunsAreNumbers
  <2>6. Len(files[0]) <= Len(files[0])
    BY <2>4
  <2> QED BY <2>3, <2>4, <2>5, <2>6 DEF Readable
<1>2. ASSUME pc \in {"rotate", "index", "push"}, Return(Putting, "failed") PROVE ~IoFails
  <2>1. PICK r \in Runs : r \in Putting
    BY <1>2 DEF DiskInv, AnswerInv, PutInv, Putting
  <2>2. ~NoFailure'
    BY <1>2, <2>1 DEF NoFailure, Return
  <2> QED BY <2>2 DEF IoFails
<1>3. ASSUME RotateFilesFails PROVE FALSE
  <2>1. pc = "rotate" /\ files[todo.pos] = NoFile
    BY <1>2, <1>3 DEF RotateFilesFails
  <2>2. todo.pos \in 0..todo.pos
    BY <2>1, RunsAreNumbers DEF DiskInv, RotateInv, FileNrs
  <2> QED BY <2>1, <2>2 DEF DiskInv, RotateInv
<1>4. ASSUME RemakeIndexFails PROVE FALSE
  <2>1. ~IoFails
    BY <1>2, <1>4 DEF RemakeIndexFails
  <2> QED BY <1>4, <2>1, DiskHasRuns DEF RemakeIndexFails, Indexed
<1>5. ASSUME PushEntryFails PROVE FALSE
  <2>1. pc = "push" /\ ~IoFails
    BY <1>2, <1>5 DEF PushEntryFails
  <2> QED BY <1>5, <2>1, FirstDescriptor DEF PushEntryFails
<1> QED BY <1>1, <1>3, <1>4, <1>5

LEMMA InitDiskInv == Init => DiskInv
<1> SUFFICES ASSUME Init PROVE DiskInv
  OBVIOUS
<1> DEFINE none == [n \in FileNrs |-> NoFile]
<1>1. none \in FilesOf(Runs)
  BY DEF FilesOf
<1>2. /\ files \in FilesOf(Runs) /\ files[0] \in Seq(Runs)
      /\ \A n \in FileNrs : Contents(files[n]) = Contents(none[n])
  BY <1>1, RunsAreNumbers, WithCurrentSame DEF Init
<1>3. \A n \in FileNrs : Contents(files[n]) = <<>>
  BY <1>2 DEF Contents
<1>4. \A n \in FileNrs : InFile(files, n) = {}
  BY <1>3 DEF InFile, Elements
<1>5. OnDisk(files) = {}
  BY <1>4, OnDiskIs
<1>6. /\ fate = [r \in Runs |-> "future"] /\ pc = "idle" /\ deleted = {}
      /\ index = MakeIndex(files)
  BY DEF Init
<1>7. Sorted
  BY <1>3 DEF Sorted, Ascending
<1>8. Layered /\ OldestFirst
  BY <1>4, <1>6 DEF Layered, OldestFirst
<1>9. IndexInv
  <2>1. files[0] # NoFile
    BY <1>2, RunsAreNumbers
  <2> QED BY <1>6, <2>1, MadeIndexDescribes DEF IndexInv
<1>10. CarriedIsNewest /\ NewerThanHistory /\ RotateInv /\ DiskType /\ StartedInOrder
  BY <1>2, <1>5, <1>6 DEF CarriedIsNewest, NewerThanHistory, RotateInv, DiskType, StartedInOrder
<1> QED BY <1>7, <1>8, <1>9, <1>10, InitAnswerInv DEF DiskInv

LEMMA NextDiskInv ==
  ASSUME "io" \notin Faults \/ NoFailure', DiskInv, [Next]_vars
  PROVE  DiskInv'
<1>1. AnswerInv'
  BY NextAnswerInv DEF DiskInv
<1>2. ASSUME NEW r \in Runs,
             StartRun(r) \/ PutRefused(r) \/ PutInOrder(r) \/ PutOutOfOrder(r)
      PROVE  DiskInv'
  BY <1>1, <1>2, StartRunDisk, PutRefusedDisk, PutInOrderDisk, PutOutOfOrderDisk
<1>3. ASSUME NEW r \in Runs, PutPanics(r) PROVE DiskInv'
  BY <1>1, <1>3, StopDisk DEF PutPanics
<1>4. CASE RotateFiles
  BY <1>1, <1>4, RotateFilesDisk
<1>5. CASE RemakeIndex
  BY <1>1, <1>5, RemakeIndexDisk
<1>6. CASE PushEntry
  BY <1>1, <1>6, PushEntryDisk
<1>7. CASE Crash
  BY <1>1, <1>7, StopDisk DEF Crash
<1>8. CASE NewFileRunLog
  BY <1>1, <1>8, NewFileRunLogDisk
<1>9. CASE UNCHANGED vars
  BY <1>1, <1>9
  DEF vars, DiskInv, DiskType, Sorted, Layered, OldestFirst, CarriedIsNewest, NewerThanHistory,
      StartedInOrder, IndexInv, RotateInv, Running
<1> QED BY <1>2, <1>3, <1>4, <1>5, <1>6, <1>7, <1>8, <1>9, NothingFails DEF Next

\* A Put that failed has failed.
LEMMA FailureStays ==
  ASSUME AnswerInv, [Next]_vars, NoFailure'
  PROVE  NoFailure
<1> SUFFICES ASSUME NEW q \in Runs, fate[q] = "failed" PROVE fate'[q] = "failed"
  BY DEF NoFailure
<1>1. fate \in [Runs -> RunStates]
  BY DEF AnswerInv, AnswerType
<1>2. ASSUME NEW r \in Runs, NEW new, fate[r] # "failed", fate' = [fate EXCEPT ![r] = new]
      PROVE  fate'[q] = "failed"
  BY <1>1, <1>2
<1>3. ASSUME NEW rs, q \notin rs, NEW answer,
             fate' = [p \in Runs |-> IF p \in rs THEN answer ELSE fate[p]]
      PROVE  fate'[q] = "failed"
  BY <1>3
<1>4. q \notin Running \union Putting
  BY DEF Running, Putting
<1>5. ASSUME NEW r \in Runs,
             StartRun(r) \/ PutRefused(r) \/ PutInOrder(r) \/ PutPanics(r)
               \/ PutOutOfOrder(r) \/ PutOutOfOrderFails(r)
      PROVE  fate'[q] = "failed"
  <2>1. CASE StartRun(r)
    BY <1>2, <2>1 DEF StartRun
  <2>2. CASE PutRefused(r)
    BY <1>3, <2>2 DEF PutRefused, Return
  <2>3. CASE PutInOrder(r)
    BY <1>2, <2>3 DEF PutInOrder
  <2>4. CASE PutPanics(r)
    BY <1>3, <1>4, <2>4 DEF PutPanics, Stop
  <2>5. CASE PutOutOfOrder(r)
    <3>1. /\ fate[r] = "running"
          /\ \/ fate' = [fate EXCEPT ![r] = "putting"]
             \/ fate' = [p \in Runs |-> IF p \in {r} THEN "logged" ELSE fate[p]]
      BY <2>5 DEF PutOutOfOrder, Return
    <3> QED BY <1>2, <1>3, <3>1
  <2>6. CASE PutOutOfOrderFails(r)
    BY <1>3, <2>6 DEF PutOutOfOrderFails, Return
  <2> QED BY <1>5, <2>1, <2>2, <2>3, <2>4, <2>5, <2>6
<1>6. ASSUME RotateFilesFails \/ RemakeIndexFails \/ PushEntry \/ PushEntryFails
      PROVE  fate'[q] = "failed"
  <2>1. \E answer : Return(Putting, answer)
    BY <1>6 DEF RotateFilesFails, RemakeIndexFails, PushEntry, PushEntryFails
  <2> QED BY <1>3, <1>4, <2>1 DEF Return
<1>7. ASSUME Crash \/ NewFileRunLog PROVE fate'[q] = "failed"
  <2>1. Stop \/ fate' = fate
    BY <1>7 DEF Crash, NewFileRunLog
  <2> QED BY <1>3, <1>4, <2>1 DEF Stop
<1>8. ASSUME RotateFiles \/ RemakeIndex \/ UNCHANGED vars PROVE fate'[q] = "failed"
  BY <1>8 DEF RotateFiles, RemakeIndex, vars
<1> QED BY <1>5, <1>6, <1>7, <1>8 DEF Next

\* What holds whatever the faults are: the disk is as it should be until the
\* first Put that fails.
UntilFailure == AnswerInv /\ (NoFailure => DiskInv)

LEMMA UntilFailureHolds == Spec => []UntilFailure
<1>1. Init => UntilFailure
  BY InitDiskInv, InitAnswerInv DEF UntilFailure
<1>2. ASSUME UntilFailure, [Next]_vars PROVE UntilFailure'
  <2>1. AnswerInv'
    BY <1>2, NextAnswerInv DEF UntilFailure
  <2>2. ASSUME NoFailure' PROVE DiskInv'
    BY <1>2, <2>2, FailureStays, NextDiskInv DEF UntilFailure
  <2> QED BY <2>1, <2>2 DEF UntilFailure
<1>3. UntilFailure /\ [Next]_vars => UntilFailure'
  BY <1>2
<1> QED BY <1>1, <1>3, PTL DEF Spec

\* Until a Put fails, the files are described by the index whenever Put has
\* returned, so that the next Put compares the new entry with the right times
\* (makeIndex, pushEntryF, putOutOfOrder), wherever the process has crashed.
THEOREM DescriptorsMatch == Spec => []IndexMatchesFiles
<1>1. UntilFailure => IndexMatchesFiles
  BY DEF UntilFailure, DiskInv, IndexInv, Describes, IndexMatchesFiles
<1> QED BY <1>1, UntilFailureHolds, PTL

\* Until a Put fails, nothing older than a deleted entry stays (rotateFiles),
\* even if a crash has cut a rotation short and left a gap in the numbers of
\* the files.
THEOREM OldestAreDeleted == Spec => []OldestGoFirst
<1>1. UntilFailure => OldestGoFirst
  BY DEF UntilFailure, DiskInv, OldestFirst, NotAfter, OldestGoFirst
<1> QED BY <1>1, UntilFailureHolds, PTL

-----------------------------------------------------------------------------
(***************************************************************************)
(* The order in which the log is read.                                     *)
(***************************************************************************)

LEMMA JoinedAscending ==
  ASSUME NEW a \in Seq(Runs), NEW b \in Seq(Runs), Ascending(a), Ascending(b),
         \A x \in Elements(a), y \in Elements(b) : NotAfter(x, y), NEW c, c = a \o b
  PROVE  /\ c \in Seq(Runs) /\ Ascending(c) /\ Elements(c) \subseteq Elements(a) \union Elements(b)
<1>1. /\ c \in Seq(Runs) /\ Len(c) = Len(a) + Len(b) /\ Len(a) \in Nat /\ Len(b) \in Nat
      /\ \A i \in 1..(Len(a) + Len(b)) : c[i] = IF i <= Len(a) THEN a[i] ELSE b[i - Len(a)]
  OBVIOUS
<1>2. DOMAIN a = 1..Len(a) /\ DOMAIN b = 1..Len(b) /\ DOMAIN c = 1..(Len(a) + Len(b))
  BY <1>1
<1> DEFINE m == Len(a)
           n == Len(b)
<1> HIDE DEF m, n
<1>3. ASSUME NEW i \in 1..(m + n)
      PROVE  \/ i \in 1..m /\ c[i] = a[i] /\ a[i] \in Elements(a)
             \/ i - m \in 1..n /\ i > m /\ c[i] = b[i - m] /\ b[i - m] \in Elements(b)
  <2>1. CASE i <= m
    <3>1. i \in 1..m
      BY <1>1, <2>1 DEF m
    <3> QED BY <1>1, <1>2, <2>1, <3>1 DEF m, n, Elements
  <2>2. CASE ~(i <= m)
    <3>1. i - m \in 1..n /\ i > m
      BY <1>1, <2>2 DEF m, n
    <3> QED BY <1>1, <1>2, <2>2, <3>1 DEF m, n, Elements
  <2> QED BY <2>1, <2>2
<1>4. ASSUME NEW i \in 1..(m + n), NEW j \in 1..(m + n), i < j
      PROVE  StartTime[c[i]] <= StartTime[c[j]]
  <2>1. m \in Nat /\ n \in Nat /\ i \in Int /\ j \in Int
    BY <1>1 DEF m, n
  <2>2. CASE i \in 1..m /\ j \in 1..m
    <3>1. ~(i > m) /\ ~(j > m)
      BY <2>1, <2>2
    <3>2. c[i] = a[i] /\ c[j] = a[j]
      BY <1>3, <3>1
    <3> QED BY <1>2, <1>4, <2>2, <3>2 DEF Ascending, m
  <2>3. CASE i \in 1..m /\ j > m
    <3>1. ~(i > m) /\ j \notin 1..m
      BY <2>1, <2>3
    <3> QED BY <1>3, <3>1 DEF NotAfter
  <2>4. CASE i > m /\ j > m
    <3>1. i \notin 1..m /\ j \notin 1..m /\ i - m < j - m
      BY <1>4, <2>1, <2>4
    <3>2. /\ c[i] = b[i - m] /\ c[j] = b[j - m] /\ i - m \in 1..n /\ j - m \in 1..n
      BY <1>3, <3>1
    <3> QED BY <1>2, <3>1, <3>2 DEF Ascending, n
  <2>5. (i \in 1..m \/ i > m) /\ (j \in 1..m \/ j > m) /\ ~(i > m /\ j \in 1..m)
    BY <1>4, <2>1
  <2> QED BY <2>2, <2>3, <2>4, <2>5
<1>5. Ascending(c)
  BY <1>2, <1>4 DEF Ascending, m, n
<1>6. Elements(c) \subseteq Elements(a) \union Elements(b)
  <2>1. \A i \in 1..(m + n) : c[i] \in Elements(a) \union Elements(b)
    BY <1>3
  <2> QED BY <1>2, <2>1 DEF Elements, m, n
<1> QED BY <1>1, <1>5, <1>6

\* g holds what the files 0 to i - 1 have, for each i up to k.
Cat(g, fs, k) ==
  g = [i \in 0..k |-> IF i = 0 THEN <<>> ELSE Contents(fs[i - 1]) \o g[i - 1]]

\* The entries of the files 0 to k - 1 of fs.
LogOf(fs, k) == (CHOOSE g : Cat(g, fs, k))[k]

LEMMA EntriesAreLog ==
  ASSUME NEW k
  PROVE  EntriesOf(k) = LogOf(files, k) /\ EntriesOf(k)' = LogOf(files', k)
BY DEF EntriesOf, LogOf, Cat

LEMMA CatExists ==
  ASSUME NEW fs, NEW k \in Nat
  PROVE  \E g : Cat(g, fs, k)
<1> DEFINE T == {j \in Nat : ~(\E g : Cat(g, fs, j))}
<1>1. SUFFICES ASSUME T # {} PROVE FALSE
  OBVIOUS
<1>2. PICK j \in T : \A y \in T : j <= y
  BY <1>1, LeastNumber
<1>3. CASE j = 0
  <2> DEFINE h == [i \in 0..0 |-> <<>>]
  <2>1. h = [i \in 0..0 |-> IF i = 0 THEN <<>> ELSE Contents(fs[i - 1]) \o h[i - 1]]
    OBVIOUS
  <2> QED BY <1>2, <1>3, <2>1 DEF Cat
<1>4. CASE j # 0
  <2>1. j \in Nat /\ j - 1 \in Nat /\ ~(j <= j - 1)
    BY <1>4
  <2>2. PICK g : Cat(g, fs, j - 1)
    BY <1>2, <2>1
  <2>3. \A i \in 0..(j - 1) : g[i] = IF i = 0 THEN <<>> ELSE Contents(fs[i - 1]) \o g[i - 1]
    BY <2>2 DEF Cat
  <2> DEFINE h == [i \in 0..j |-> IF i = j THEN Contents(fs[j - 1]) \o g[j - 1] ELSE g[i]]
  <2>4. ASSUME NEW i \in 0..j
        PROVE  h[i] = IF i = 0 THEN <<>> ELSE Contents(fs[i - 1]) \o h[i - 1]
    <3>1. i # 0 => h[i - 1] = g[i - 1]
      BY <2>1
    <3>2. CASE i = j
      BY <1>4, <3>1, <3>2
    <3>3. CASE i # j
      <4>1. i \in 0..(j - 1)
        BY <2>1, <3>3
      <4> QED BY <2>3, <3>1, <3>3, <4>1
    <3> QED BY <3>2, <3>3
  <2>5. h = [i \in 0..j |-> h[i]]
    OBVIOUS
  <2> HIDE DEF h
  <2>6. Cat(h, fs, j)
    BY <2>4, <2>5 DEF Cat
  <2> QED BY <1>2, <2>6
<1> QED BY <1>3, <1>4

LEMMA CatUnique ==
  ASSUME NEW fs, NEW k \in Nat, NEW g, Cat(g, fs, k), NEW h, Cat(h, fs, k + 1)
  PROVE  g[k] = h[k]
<1> DEFINE T == {i \in 0..k : g[i] # h[i]}
<1>1. /\ \A i \in 0..k : g[i] = IF i = 0 THEN <<>> ELSE Contents(fs[i - 1]) \o g[i - 1]
      /\ \A i \in 0..(k + 1) : h[i] = IF i = 0 THEN <<>> ELSE Contents(fs[i - 1]) \o h[i - 1]
  BY DEF Cat
<1>2. SUFFICES ASSUME T # {} PROVE FALSE
  <2>1. k \in 0..k
    OBVIOUS
  <2> QED BY <2>1
<1>3. PICK j \in T : \A y \in T : j <= y
  <2>1. T \in SUBSET Nat
    OBVIOUS
  <2> QED BY <1>2, <2>1, LeastNumber
<1>4. j \in 0..k /\ j \in 0..(k + 1) /\ g[j] # h[j]
  BY <1>3
<1>5. CASE j = 0
  BY <1>1, <1>4, <1>5
<1>6. CASE j # 0
  <2>1. j - 1 \in 0..k /\ ~(j <= j - 1)
    BY <1>4, <1>6
  <2>2. g[j - 1] = h[j - 1]
    BY <1>3, <2>1
  <2> QED BY <1>1, <1>4, <1>6, <2>2
<1> QED BY <1>5, <1>6

\* The log grows by a file at its old end.
LEMMA LogJoins ==
  ASSUME NEW fs
  PROVE  /\ LogOf(fs, 0) = <<>>
         /\ \A k \in Nat : LogOf(fs, k + 1) = Contents(fs[k]) \o LogOf(fs, k)
<1> DEFINE c(k) == CHOOSE g : Cat(g, fs, k)
<1>1. ASSUME NEW k \in Nat PROVE Cat(c(k), fs, k) /\ LogOf(fs, k) = c(k)[k]
  <2>1. \E g : Cat(g, fs, k)
    BY CatExists
  <2>2. Cat(c(k), fs, k)
    BY <2>1
  <2> QED BY <2>2 DEF LogOf
<1> HIDE DEF c
<1>2. LogOf(fs, 0) = <<>>
  <2> DEFINE g == c(0)
  <2>1. Cat(g, fs, 0) /\ LogOf(fs, 0) = g[0] /\ 0 \in 0..0
    BY <1>1
  <2> HIDE DEF g
  <2>2. g[0] = <<>>
    BY <2>1 DEF Cat
  <2> QED BY <2>1, <2>2
<1>3. ASSUME NEW k \in Nat PROVE LogOf(fs, k + 1) = Contents(fs[k]) \o LogOf(fs, k)
  <2>1. k + 1 \in Nat /\ k + 1 \in 0..(k + 1) /\ k + 1 # 0 /\ (k + 1) - 1 = k
    OBVIOUS
  <2>2. /\ Cat(c(k), fs, k) /\ LogOf(fs, k) = c(k)[k]
        /\ Cat(c(k + 1), fs, k + 1) /\ LogOf(fs, k + 1) = c(k + 1)[k + 1]
    BY <1>1, <2>1
  <2> DEFINE g == c(k)
             h == c(k + 1)
  <2> HIDE DEF g, h
  <2>3. g[k] = h[k]
    BY <2>2, CatUnique DEF g, h
  <2>4. h = [i \in 0..(k + 1) |-> IF i = 0 THEN <<>> ELSE Contents(fs[i - 1]) \o h[i - 1]]
    BY <2>2 DEF h, Cat
  <2>5. h[k + 1] = Contents(fs[k]) \o h[k]
    BY <2>1, <2>4
  <2> QED BY <2>2, <2>3, <2>5 DEF g, h
<1> QED BY <1>2, <1>3

LEMMA LogAscending ==
  ASSUME DiskInv
  PROVE  \A i \in 0..(MaxHistories + 1) :
           /\ LogOf(files, i) \in Seq(Runs) /\ Ascending(LogOf(files, i))
           /\ \A x \in Elements(LogOf(files, i)) : \E n \in 0..(i - 1) : x \in InFile(files, n)
<1> DEFINE M == MaxHistories
           g(i) == LogOf(files, i)
           Good(i) == /\ g(i) \in Seq(Runs) /\ Ascending(g(i))
                      /\ \A x \in Elements(g(i)) : \E n \in 0..(i - 1) : x \in InFile(files, n)
           T == {i \in 0..(M + 1) : ~Good(i)}
<1>1. M \in Nat /\ FileNrs = 0..M
  BY RunsAreNumbers DEF FileNrs
<1>2. SUFFICES ASSUME T # {} PROVE FALSE
  OBVIOUS
<1>3. PICK j \in T : \A y \in T : j <= y
  <2>1. T \in SUBSET Nat
    BY <1>1
  <2> QED BY <1>2, <2>1, LeastNumber
<1>4. CASE j = 0
  <2>1. g(j) = <<>>
    BY <1>4, LogJoins
  <2>2. Good(j)
    BY <2>1 DEF Ascending, Elements
  <2> QED BY <1>3, <2>2
<1>5. CASE j # 0
  <2>1. /\ j - 1 \in 0..(M + 1) /\ j - 1 \in FileNrs /\ ~(j <= j - 1)
        /\ j - 1 \in Nat /\ (j - 1) + 1 = j
    BY <1>1, <1>3, <1>5
  <2>2. Good(j - 1)
    BY <1>3, <2>1
  <2> DEFINE a == Contents(files[j - 1])
             b == g(j - 1)
  <2>3. g(j) = a \o b
    BY <2>1, LogJoins
  <2>4. a \in Seq(Runs) /\ Ascending(a) /\ Elements(a) = InFile(files, j - 1)
    BY <2>1, DiskHasRuns DEF DiskInv, Sorted, InFile
  <2>5. b \in Seq(Runs) /\ Ascending(b)
    BY <2>2
  <2>6. \A y \in Elements(b) : \E n \in 0..((j - 1) - 1) : y \in InFile(files, n)
    BY <2>2
  <2> HIDE DEF a, b, g, Good
  <2>7. ASSUME NEW x \in Elements(a), NEW y \in Elements(b) PROVE NotAfter(x, y)
    <3>1. PICK n \in 0..((j - 1) - 1) : y \in InFile(files, n)
      BY <2>6
    <3>2. n \in FileNrs /\ n < j - 1
      BY <1>1, <2>1
    <3> QED BY <2>1, <2>4, <3>1, <3>2 DEF DiskInv, Layered
  <2>8. g(j) \in Seq(Runs) /\ Ascending(g(j)) /\ Elements(g(j)) \subseteq Elements(a) \union Elements(b)
    BY <2>3, <2>4, <2>5, <2>7, JoinedAscending
  <2>9. ASSUME NEW x \in Elements(g(j)) PROVE \E n \in 0..(j - 1) : x \in InFile(files, n)
    <3>1. CASE x \in Elements(a)
      <4>1. j - 1 \in 0..(j - 1)
        BY <2>1
      <4> QED BY <2>4, <3>1, <4>1
    <3>2. CASE x \in Elements(b)
      <4>1. PICK n \in 0..((j - 1) - 1) : x \in InFile(files, n)
        BY <2>6, <3>2
      <4>2. n \in 0..(j - 1)
        BY <2>1
      <4> QED BY <4>1, <4>2
    <3> QED BY <2>8, <2>9, <3>1, <3>2
  <2>10. Good(j)
    BY <2>8, <2>9 DEF Good
  <2> QED BY <1>3, <2>10
<1> QED BY <1>4, <1>5

\* Until a Put fails, the log is read in order of start time, whatever the
\* order of the Puts, wherever rotations are and wherever the process crashed
\* (putOutOfOrder, rotateFiles, makeIndex).
THEOREM LogIsInOrder == Spec => []ReadInOrder
<1>1. ASSUME DiskInv PROVE ReadInOrder
  <2>1. SUFFICES ASSUME pc = "idle" PROVE Ascending(EntriesOf(Len(index)))
    BY DEF ReadInOrder
  <2>2. PICK k \in 1..(MaxHistories + 1) : Describes(index, files, k)
    BY <1>1, <2>1 DEF DiskInv, IndexInv
  <2>3. Len(index) = k /\ k \in Nat /\ k \in 0..(MaxHistories + 1) /\ k \in 0..k
    BY <2>2, RunsAreNumbers DEF Describes
  <2>4. Ascending(LogOf(files, k))
    BY <1>1, <2>3, LogAscending
  <2> QED BY <2>3, <2>4, EntriesAreLog
<1>2. UntilFailure => ReadInOrder
  BY <1>1 DEF UntilFailure, ReadInOrder
<1> QED BY <1>2, UntilFailureHolds, PTL

-----------------------------------------------------------------------------
(***************************************************************************)
(* Runs in sequence.  Without overlap no entry comes out of order, so that *)
(* nothing is carried over a rotation and the starts in the index are      *)
(* right.                                                                  *)
(***************************************************************************)

Busy == {"rotate", "index", "push"}

\* There is at most one run, and it is the newest.
TurnInv ==
  /\ IsFiniteSet(Running) /\ \A q, r \in Running : q = r
  /\ \A r \in Running : \A e \in OnDisk(files) \union deleted : NotAfter(e, r)
  /\ pc \in Busy => /\ fate[todo.entry] = "putting" /\ todo.ooo = "no"
                    /\ \A r \in Running : NotAfter(todo.entry, r)

StoredInv == stored \subseteq OnDisk(files) \union deleted

StartsInv ==
  pc \in {"idle", "push"} => \A i \in DOMAIN index : index[i].startIdx = CountUpTo(files)[i - 2]

SequentialInv == DiskInv /\ TurnInv /\ StoredInv /\ StartsInv

\* What the files are when the entry has been appended.
LEMMA PushedFiles ==
  ASSUME DiskInv, PushEntry, NEW e, e = todo.entry, NEW f, f = files[0]
  PROVE  /\ e \in Runs /\ f \in Seq(Runs) /\ Contents(f) = f
         /\ \A x \in OnDisk(files) \union deleted : NotAfter(x, e)
         /\ files' \in FilesOf(Runs)
         /\ Contents(files'[0]) = Appended(f, e)
         /\ \A n \in FileNrs : n # 0 => files'[n] = files[n]
         /\ OnDisk(files') = OnDisk(files) \union {e}
<1> DEFINE d == index[1]
           s == d.startIdx
           g == Appended(f, e)
<1>1. pc = "push" /\ files' = [files EXCEPT ![0] = PushedFile(d, f, e)]
  BY DEF PushEntry
<1>2. f \in Seq(Runs) /\ Contents(f) = f /\ d = MakeBackingFileDtor(f, s)
  BY <1>1, FirstDescriptor
<1>3. e \in Runs /\ \A x \in OnDisk(files) \union deleted : NotAfter(x, e)
  BY <1>1 DEF DiskInv, AnswerInv, AnswerType, CarriedIsNewest
<1>4. /\ 0 \in FileNrs /\ files \in FilesOf(Runs) /\ InFile(files, 0) = Elements(f)
      /\ OnDisk(files) \subseteq Runs /\ InFile(files, 0) \subseteq OnDisk(files)
  BY <1>2, DiskHasRuns, RunsAreNumbers DEF InFile, DiskInv, DiskType
<1>5. Ascending(f) /\ \A x \in Elements(f) : NotAfter(x, e)
  BY <1>2, <1>3, <1>4 DEF DiskInv, Sorted
<1>6. g \in Seq(Runs) /\ Elements(g) = Elements(f) \union {e}
  BY <1>2, <1>3, <1>5, PushedAscending
<1> HIDE DEF d, s
<1>7. PushedFile(d, f, e) = g
  BY <1>2, <1>3, PushedDescriptor
<1>8. files' = Written(files, g)
  BY <1>1, <1>7 DEF Written
<1> HIDE DEF g
<1>9. /\ files' \in FilesOf(Runs) /\ Contents(files'[0]) = g /\ InFile(files', 0) = Elements(g)
      /\ \A n \in FileNrs : n # 0 => files'[n] = files[n] /\ InFile(files', n) = InFile(files, n)
      /\ \A x \in OnDisk(files') : x \in OnDisk(files) \/ x \in Elements(g)
  BY <1>4, <1>6, <1>8, CurrentWritten, RunsAreNumbers
<1>10. ASSUME NEW x \in OnDisk(files) \union {e} PROVE x \in OnDisk(files')
  <2>1. x # StrayNewline /\ (x = e \/ \E n \in FileNrs : x \in InFile(files, n))
    BY <1>3, <1>10, OnDiskIs, RunsAreNumbers
  <2>2. \E n \in FileNrs : x \in InFile(files', n)
    BY <1>4, <1>6, <1>9, <2>1
  <2> QED BY <2>1, <2>2, OnDiskIs
<1>11. OnDisk(files') = OnDisk(files) \union {e}
  BY <1>4, <1>6, <1>9, <1>10
<1> QED BY <1>2, <1>3, <1>9, <1>11 DEF g

\* A step that starts no run keeps TurnInv.
LEMMA TurnKept ==
  ASSUME TurnInv, Running' \subseteq Running,
         \A e \in OnDisk(files') \union deleted' :
           e \in OnDisk(files) \union deleted \/ (pc \in Busy /\ e = todo.entry),
         pc' \in Busy => /\ pc \in Busy /\ todo'.entry = todo.entry /\ todo'.ooo = todo.ooo
                         /\ fate'[todo.entry] = fate[todo.entry]
  PROVE  TurnInv'
<1>1. IsFiniteSet(Running')
  BY FS_Subset DEF TurnInv
<1>2. \A q, r \in Running' : q = r
  BY DEF TurnInv
<1>3. ASSUME NEW r \in Running', NEW e \in OnDisk(files') \union deleted' PROVE NotAfter(e, r)
  BY <1>3 DEF TurnInv
<1>4. pc' \in Busy => /\ fate'[todo'.entry] = "putting" /\ todo'.ooo = "no"
                      /\ \A r \in Running' : NotAfter(todo'.entry, r)
  BY DEF TurnInv
<1> QED BY <1>1, <1>2, <1>3, <1>4 DEF TurnInv

\* A run that starts is newer than every run that has started.
LEMMA LaterThanStarted ==
  ASSUME DiskInv, NEW r \in Runs, StartRun(r), NEW e \in Runs, fate[e] # "future"
  PROVE  NotAfter(e, r)
<1>1. ~(r < e)
  BY DEF StartRun, DiskInv, StartedInOrder
<1>2. e <= r
  BY <1>1, RunsAreNumbers
<1> QED BY <1>2, TimesAreNumbers

LEMMA NeverOutOfOrder ==
  ASSUME DiskInv, TurnInv, NEW r \in Runs, fate[r] = "running", pc = "idle"
  PROVE  ~OutOfOrder(r)
<1> DEFINE f == files[0]
           z == f[Len(f)]
<1>1. SUFFICES ASSUME OutOfOrder(r) PROVE FALSE
  OBVIOUS
<1>2. /\ f \in Seq(Runs) /\ Contents(f) = f
      /\ index[1] = MakeBackingFileDtor(f, index[1].startIdx) /\ index[1].nbrEntries = Len(f)
  BY FirstDescriptor
<1>3. f # <<>> /\ index[1].latest > StartTime[r]
  BY <1>1, <1>2 DEF OutOfOrder
<1>4. index[1].latest = StartTime[z]
  BY <1>2, <1>3 DEF MakeBackingFileDtor
<1>5. z \in InFile(files, 0) /\ z \in Runs
  <2>1. Ascending(f)
    BY <1>2, RunsAreNumbers DEF DiskInv, Sorted
  <2> QED BY <1>2, <1>3, <2>1, LastIsNewest DEF InFile
<1>6. z \in OnDisk(files)
  BY <1>5, DiskHasRuns, RunsAreNumbers
<1>7. NotAfter(z, r)
  BY <1>6 DEF TurnInv, Running
<1> HIDE DEF z
<1> QED BY <1>3, <1>4, <1>5, <1>7, TimesAreNumbers DEF NotAfter

LEMMA NextTurnInv ==
  ASSUME MaxOverlap <= 1, "io" \notin Faults, DiskInv, TurnInv, [Next]_vars
  PROVE  TurnInv'
<1>1. fate \in [Runs -> RunStates] /\ OnDisk(files) \subseteq Runs /\ deleted \subseteq Runs
  BY DiskHasRuns DEF DiskInv, AnswerInv, AnswerType
<1>2. /\ files \in FilesOf(Runs)
      /\ OnDisk(WithCurrentFile(files)) = OnDisk(files)
  BY WithCurrentSame, RunsAreNumbers DEF DiskInv, DiskType
<1>3. ASSUME NEW r \in Runs, StartRun(r) PROVE TurnInv'
  <2>1. /\ fate' = [fate EXCEPT ![r] = "running"] /\ Cardinality(Running) < MaxOverlap
        /\ UNCHANGED <<files, pc, todo, deleted>> /\ fate[r] = "future"
    BY <1>3 DEF StartRun
  <2>2. Running = {}
    <3>1. Cardinality(Running) \in Nat
      BY FS_CardinalityType DEF TurnInv
    <3>2. Cardinality(Running) = 0
      BY <2>1, <3>1, EntriesAssumption
    <3> QED BY <3>2, FS_EmptySet DEF TurnInv
  <2>3. Running' = {r}
    BY <1>1, <2>1, <2>2 DEF Running
  <2>4. IsFiniteSet(Running')
    BY <2>3, FS_Singleton
  <2>5. \A e \in OnDisk(files') \union deleted' : NotAfter(e, r)
    BY <1>1, <1>3, <2>1, LaterThanStarted DEF DiskInv, StartedInOrder
  <2>6. pc' \in Busy => /\ fate'[todo'.entry] = "putting" /\ todo'.ooo = "no"
                        /\ NotAfter(todo'.entry, r)
    <3>1. SUFFICES ASSUME pc \in Busy
                   PROVE  /\ fate'[todo.entry] = "putting" /\ todo.ooo = "no"
                          /\ NotAfter(todo.entry, r)
      BY <2>1
    <3>2. todo.entry \in Runs /\ fate[todo.entry] = "putting" /\ todo.ooo = "no"
      BY <3>1 DEF TurnInv, DiskInv, AnswerInv, AnswerType, Busy
    <3>3. NotAfter(todo.entry, r)
      BY <1>3, <3>2, LaterThanStarted
    <3> QED BY <1>1, <2>1, <3>2, <3>3
  <2> QED BY <2>3, <2>4, <2>5, <2>6 DEF TurnInv
<1>4. ASSUME NEW r \in Runs, PutRefused(r) PROVE TurnInv'
  <2>1. /\ fate' = [q \in Runs |-> IF q \in {r} THEN "refused" ELSE fate[q]] /\ pc' = "idle"
        /\ UNCHANGED <<files, deleted>>
    BY <1>4 DEF PutRefused, Return
  <2>2. Running' \subseteq Running
    BY <2>1 DEF Running
  <2> QED BY <2>1, <2>2, TurnKept DEF Busy
<1>5. ASSUME NEW r \in Runs, PutInOrder(r) PROVE TurnInv'
  <2>1. /\ pc = "idle" /\ fate[r] = "running" /\ fate' = [fate EXCEPT ![r] = "putting"]
        /\ todo' = [pos |-> Len(index) - 1, entry |-> r, ooo |-> "no"]
        /\ UNCHANGED <<files, deleted>>
    BY <1>5 DEF PutInOrder
  <2>2. Running' = {}
    BY <1>1, <2>1 DEF Running, TurnInv
  <2>3. todo'.entry = r /\ todo'.ooo = "no" /\ fate'[r] = "putting"
    BY <1>1, <2>1
  <2>4. IsFiniteSet(Running')
    BY <2>2, FS_EmptySet
  <2> QED BY <2>2, <2>3, <2>4 DEF TurnInv
<1>6. ASSUME NEW r \in Runs, PutOutOfOrder(r) PROVE TurnInv'
  BY <1>6, NeverOutOfOrder DEF PutOutOfOrder
<1>7. ASSUME Stop PROVE TurnInv'
  <2>1. pc' = "down"
        /\ fate' = [q \in Runs |-> IF q \in Running \union Putting THEN "lost" ELSE fate[q]]
    BY <1>7 DEF Stop
  <2>2. Running' = {}
    BY <2>1 DEF Running
  <2>3. IsFiniteSet(Running')
    BY <2>2, FS_EmptySet
  <2> QED BY <2>1, <2>2, <2>3 DEF TurnInv, Busy
<1>8. CASE RotateFiles
  <2>1. OnDisk(files') \union deleted' \subseteq OnDisk(files) \union deleted
    BY <1>8, RotationMoves
  <2>2. /\ fate' = fate /\ pc \in Busy /\ todo'.entry = todo.entry /\ todo'.ooo = todo.ooo
    BY <1>8 DEF RotateFiles, DiskInv, AnswerInv, AnswerType, Busy
  <2>3. Running' = Running
    BY <2>2 DEF Running
  <2> QED BY <2>1, <2>2, <2>3, TurnKept
<1>9. CASE RemakeIndex
  <2>1. /\ OnDisk(files') = OnDisk(files) /\ UNCHANGED <<deleted, todo, fate>> /\ pc \in Busy
    BY <1>2, <1>9 DEF RemakeIndex, Busy
  <2>2. Running' = Running
    BY <2>1 DEF Running
  <2> QED BY <2>1, <2>2, TurnKept
<1>10. CASE PushEntry
  <2>1. /\ pc = "push" /\ pc' = "idle" /\ deleted' = deleted
        /\ fate' = [q \in Runs |-> IF q \in Putting THEN "logged" ELSE fate[q]]
    BY <1>10 DEF PushEntry, Return
  <2>2. OnDisk(files') = OnDisk(files) \union {todo.entry}
    BY <1>10, PushedFiles
  <2>3. Running' \subseteq Running
    BY <2>1 DEF Running
  <2> QED BY <2>1, <2>2, <2>3, TurnKept DEF Busy
<1>11. CASE NewFileRunLog /\ ~Stop
  <2>1. /\ OnDisk(files') = OnDisk(files) /\ UNCHANGED <<deleted, todo, fate>> /\ pc' = "idle"
    BY <1>2, <1>11 DEF NewFileRunLog
  <2>2. Running' = Running
    BY <2>1 DEF Running
  <2> QED BY <2>1, <2>2, TurnKept DEF Busy
<1>12. CASE UNCHANGED vars
  <2>1. UNCHANGED <<files, pc, todo, fate, deleted>>
    BY <1>12 DEF vars
  <2>2. Running' = Running
    BY <2>1 DEF Running
  <2> QED BY <2>1, <2>2, TurnKept
<1> QED
  BY <1>3, <1>4, <1>5, <1>6, <1>7, <1>8, <1>9, <1>10, <1>11, <1>12, NothingFails
  DEF Next, PutPanics, Crash

\* No entry leaves the files but by a rotation.
LEMMA NextStoredInv ==
  ASSUME "io" \notin Faults, DiskInv, TurnInv, StoredInv, [Next]_vars
  PROVE  StoredInv'
<1> DEFINE Kept == OnDisk(files) \union deleted \subseteq OnDisk(files') \union deleted'
<1>1. SUFFICES Kept /\ stored' \subseteq stored \union OnDisk(files')
  BY DEF StoredInv
<1>2. OnDisk(WithCurrentFile(files)) = OnDisk(files)
  BY WithCurrentSame, RunsAreNumbers DEF DiskInv, DiskType
<1>3. ASSUME NEW r \in Runs, StartRun(r) \/ PutRefused(r) \/ PutInOrder(r)
      PROVE  Kept /\ stored' \subseteq stored \union OnDisk(files')
  <2>1. UNCHANGED <<files, deleted>> /\ stored' \subseteq stored \union OnDisk(files')
    BY <1>3 DEF StartRun, PutRefused, PutInOrder, Return
  <2> QED BY <2>1
<1>4. \A r \in Runs : ~PutOutOfOrder(r)
  BY NeverOutOfOrder DEF PutOutOfOrder
<1>5. ASSUME Crash \/ (\E r \in Runs : PutPanics(r)) \/ UNCHANGED vars
      PROVE  Kept /\ stored' \subseteq stored \union OnDisk(files')
  <2>1. UNCHANGED <<files, deleted, stored>>
    BY <1>5 DEF Crash, PutPanics, vars
  <2> QED BY <2>1
<1>6. ASSUME RotateFiles
      PROVE  Kept /\ stored' \subseteq stored \union OnDisk(files')
  BY <1>6, RotationMoves DEF RotateFiles
<1>7. ASSUME RemakeIndex \/ NewFileRunLog
      PROVE  Kept /\ stored' \subseteq stored \union OnDisk(files')
  <2>1. files' = WithCurrentFile(files) /\ UNCHANGED <<deleted, stored>>
    BY <1>7 DEF RemakeIndex, NewFileRunLog
  <2> QED BY <1>2, <2>1
<1>8. ASSUME PushEntry
      PROVE  Kept /\ stored' \subseteq stored \union OnDisk(files')
  <2>1. deleted' = deleted /\ stored' = stored \union OnDisk(files')
    BY <1>8 DEF PushEntry, Return
  <2>2. OnDisk(files) \subseteq OnDisk(files')
    BY <1>8, PushedFiles
  <2> QED BY <2>1, <2>2
<1> QED BY <1>3, <1>4, <1>5, <1>6, <1>7, <1>8, NothingFails DEF Next

-----------------------------------------------------------------------------
(***************************************************************************)
(* How many entries there are before a file.                               *)
(***************************************************************************)

\* g has the number of entries in files 0 to n, for each n below k.
Counts(g, fs, k) ==
  g = [n \in -1..(k - 1) |-> IF n = -1 THEN 0 ELSE g[n - 1] + Len(Contents(fs[n]))]

LEMMA CountsExist ==
  ASSUME NEW fs, NEW k \in Nat
  PROVE  \E g : Counts(g, fs, k)
<1> DEFINE T == {j \in Nat : ~(\E g : Counts(g, fs, j))}
<1>1. SUFFICES ASSUME T # {} PROVE FALSE
  OBVIOUS
<1>2. PICK j \in T : \A y \in T : j <= y
  BY <1>1, LeastNumber
<1>3. CASE j = 0
  <2> DEFINE h == [n \in -1..(0 - 1) |-> 0]
  <2>1. h = [n \in -1..(0 - 1) |-> IF n = -1 THEN 0 ELSE h[n - 1] + Len(Contents(fs[n]))]
    OBVIOUS
  <2> HIDE DEF h
  <2>2. Counts(h, fs, j)
    BY <1>3, <2>1 DEF Counts
  <2> QED BY <1>2, <2>2
<1>4. CASE j # 0
  <2>1. j \in Nat /\ j - 1 \in Nat /\ ~(j <= j - 1)
    BY <1>4
  <2>2. PICK g : Counts(g, fs, j - 1)
    BY <1>2, <2>1
  <2>3. \A n \in -1..((j - 1) - 1) : g[n] = IF n = -1 THEN 0 ELSE g[n - 1] + Len(Contents(fs[n]))
    BY <2>2 DEF Counts
  <2> DEFINE h == [n \in -1..(j - 1) |->
                     IF n = j - 1 THEN g[n - 1] + Len(Contents(fs[n])) ELSE g[n]]
  <2>4. ASSUME NEW n \in -1..(j - 1)
        PROVE  h[n] = IF n = -1 THEN 0 ELSE h[n - 1] + Len(Contents(fs[n]))
    <3>1. n # -1 => h[n - 1] = g[n - 1]
      BY <2>1
    <3>2. CASE n = j - 1
      BY <2>1, <3>1, <3>2
    <3>3. CASE n # j - 1
      <4>1. n \in -1..((j - 1) - 1)
        BY <2>1, <3>3
      <4> QED BY <2>3, <3>1, <3>3, <4>1
    <3> QED BY <3>2, <3>3
  <2>5. h = [n \in -1..(j - 1) |-> h[n]]
    OBVIOUS
  <2> HIDE DEF h
  <2>6. Counts(h, fs, j)
    BY <2>4, <2>5 DEF Counts
  <2> QED BY <1>2, <2>6
<1> QED BY <1>3, <1>4

LEMMA CountUpToIs ==
  ASSUME NEW fs, \A n \in FileNrs : Len(Contents(fs[n])) \in Nat
  PROVE  /\ CountUpTo(fs)[-1] = 0
         /\ \A n \in FileNrs : CountUpTo(fs)[n] = CountUpTo(fs)[n - 1] + Len(Contents(fs[n]))
         /\ \A n \in -1..MaxHistories : CountUpTo(fs)[n] \in Nat
<1> DEFINE M == MaxHistories
           c == CountUpTo(fs)
<1>1. M \in Nat /\ (M + 1) - 1 = M /\ FileNrs = 0..M
  BY RunsAreNumbers DEF FileNrs
<1>2. c = CHOOSE g : Counts(g, fs, M + 1)
  BY <1>1 DEF CountUpTo, Counts
<1>3. Counts(c, fs, M + 1)
  <2>1. M + 1 \in Nat
    BY <1>1
  <2>2. \E g : Counts(g, fs, M + 1)
    BY <2>1, CountsExist
  <2> QED BY <1>2, <2>2, Zenon
<1> HIDE DEF c
<1>4. \A n \in -1..M : c[n] = IF n = -1 THEN 0 ELSE c[n - 1] + Len(Contents(fs[n]))
  BY <1>1, <1>3 DEF Counts
<1>5. c[-1] = 0
  BY <1>1, <1>4
<1>6. \A n \in FileNrs : c[n] = c[n - 1] + Len(Contents(fs[n]))
  BY <1>1, <1>4
<1>7. \A n \in -1..M : c[n] \in Nat
  <2> DEFINE T == {j \in Nat : j - 1 <= M /\ c[j - 1] \notin Nat}
  <2>1. SUFFICES ASSUME T # {} PROVE FALSE
    <3>1. ASSUME NEW n \in -1..M PROVE n + 1 \in Nat /\ (n + 1) - 1 = n /\ n <= M
      BY <1>1
    <3> QED BY <3>1
  <2>2. PICK j \in T : \A y \in T : j <= y
    BY <2>1, LeastNumber
  <2>3. j # 0
    BY <1>5, <2>2
  <2>4. j - 1 \in FileNrs /\ (j - 1) - 1 <= M /\ j - 1 \in Nat /\ ~(j <= j - 1)
    BY <1>1, <2>2, <2>3
  <2>5. c[(j - 1) - 1] \in Nat
    BY <2>2, <2>4
  <2>6. c[j - 1] = c[(j - 1) - 1] + Len(Contents(fs[j - 1])) /\ Len(Contents(fs[j - 1])) \in Nat
    BY <1>6, <2>4
  <2> QED BY <2>2, <2>5, <2>6
<1> QED BY <1>5, <1>6, <1>7 DEF c

\* One more entry in the current file moves the starts of all others.
LEMMA CountGrows ==
  ASSUME NEW fs, NEW gs, \A n \in FileNrs : Len(Contents(fs[n])) \in Nat,
         Len(Contents(gs[0])) = Len(Contents(fs[0])) + 1,
         \A n \in FileNrs : n # 0 => gs[n] = fs[n]
  PROVE  \A n \in FileNrs : CountUpTo(gs)[n] = CountUpTo(fs)[n] + 1
<1> DEFINE M == MaxHistories
           c == CountUpTo(fs)
           d == CountUpTo(gs)
           T == {j \in FileNrs : d[j] # c[j] + 1}
<1>1. M \in Nat /\ FileNrs = 0..M
  BY RunsAreNumbers DEF FileNrs
<1>2. /\ c[-1] = 0 /\ \A n \in FileNrs : c[n] = c[n - 1] + Len(Contents(fs[n]))
      /\ \A n \in -1..MaxHistories : c[n] \in Nat
  BY CountUpToIs
<1>3. \A n \in FileNrs : Len(Contents(gs[n])) \in Nat
  <2>1. 0 \in FileNrs
    BY <1>1
  <2> QED BY <2>1
<1>4. /\ d[-1] = 0 /\ \A n \in FileNrs : d[n] = d[n - 1] + Len(Contents(gs[n]))
  BY <1>3, CountUpToIs
<1> HIDE DEF c, d
<1>5. SUFFICES ASSUME T # {} PROVE FALSE
  BY DEF c, d
<1>6. PICK j \in T : \A y \in T : j <= y
  <2>1. T \in SUBSET Nat
    BY <1>1
  <2> QED BY <1>5, <2>1, LeastNumber
<1>7. j \in FileNrs /\ j - 1 \in -1..MaxHistories /\ c[j - 1] \in Nat /\ Len(Contents(fs[j])) \in Nat
  BY <1>1, <1>2, <1>6
<1>8. CASE j = 0
  <2>1. c[j] = c[-1] + Len(Contents(fs[0])) /\ d[j] = d[-1] + Len(Contents(gs[0]))
    BY <1>2, <1>4, <1>7, <1>8
  <2> QED BY <1>2, <1>4, <1>6, <1>7, <1>8, <2>1
<1>9. CASE j # 0
  <2>1. j - 1 \in FileNrs /\ ~(j <= j - 1)
    BY <1>1, <1>7, <1>9
  <2>2. d[j - 1] = c[j - 1] + 1
    BY <1>6, <2>1
  <2>3. c[j] = c[j - 1] + Len(Contents(fs[j])) /\ d[j] = d[j - 1] + Len(Contents(fs[j]))
    BY <1>2, <1>4, <1>7, <1>9
  <2> QED BY <1>6, <1>7, <2>2, <2>3
<1> QED BY <1>8, <1>9

\* The number of entries in files 0 to k - 1 is the length of their log.
LEMMA LogLength ==
  ASSUME NEW fs, \A n \in FileNrs : Contents(fs[n]) \in Seq(Runs)
  PROVE  \A k \in 0..(MaxHistories + 1) :
           LogOf(fs, k) \in Seq(Runs) /\ Len(LogOf(fs, k)) = CountUpTo(fs)[k - 1]
<1> DEFINE M == MaxHistories
           c == CountUpTo(fs)
           g(k) == LogOf(fs, k)
           T == {k \in 0..(M + 1) : ~(g(k) \in Seq(Runs) /\ Len(g(k)) = c[k - 1])}
<1>1. M \in Nat /\ FileNrs = 0..M
  BY RunsAreNumbers DEF FileNrs
<1>2. /\ c[-1] = 0 /\ \A n \in FileNrs : c[n] = c[n - 1] + Len(Contents(fs[n]))
  <2>1. \A n \in FileNrs : Len(Contents(fs[n])) \in Nat
    OBVIOUS
  <2> QED BY <2>1, CountUpToIs
<1>3. SUFFICES ASSUME T # {} PROVE FALSE
  OBVIOUS
<1>4. PICK j \in T : \A y \in T : j <= y
  <2>1. T \in SUBSET Nat
    BY <1>1
  <2> QED BY <1>3, <2>1, LeastNumber
<1>5. CASE j = 0
  <2>1. g(j) = <<>> /\ j - 1 = -1
    BY <1>5, LogJoins
  <2> HIDE DEF g, c
  <2>2. g(j) \in Seq(Runs) /\ Len(g(j)) = c[j - 1]
    BY <1>2, <2>1
  <2> QED BY <1>4, <2>2
<1>6. CASE j # 0
  <2>1. j - 1 \in Nat /\ j - 1 \in 0..(M + 1) /\ j - 1 \in FileNrs /\ ~(j <= j - 1) /\ (j - 1) + 1 = j
    BY <1>1, <1>4, <1>6
  <2>2. g(j) = Contents(fs[j - 1]) \o g(j - 1)
    BY <2>1, LogJoins
  <2> HIDE DEF g, c
  <2>3. g(j - 1) \in Seq(Runs) /\ Len(g(j - 1)) = c[(j - 1) - 1]
    BY <1>4, <2>1
  <2> DEFINE a == Contents(fs[j - 1])
             b == g(j - 1)
  <2>4. a \in Seq(Runs) /\ b \in Seq(Runs) /\ g(j) = a \o b
    BY <2>1, <2>2, <2>3
  <2>5. c[j - 1] = c[(j - 1) - 1] + Len(a) /\ Len(b) = c[(j - 1) - 1]
    BY <1>2, <2>1, <2>3
  <2> HIDE DEF a, b
  <2>6. g(j) \in Seq(Runs) /\ Len(g(j)) = Len(a) + Len(b)
    BY <2>4
  <2>7. Len(a) \in Nat /\ Len(b) \in Nat
    BY <2>4
  <2>8. Len(g(j)) = c[j - 1]
    BY <2>5, <2>6, <2>7
  <2> QED BY <1>4, <2>6, <2>8
<1> QED BY <1>5, <1>6

\* makeIndex and the end of Put give every file its start.
LEMMA NextStartsInv ==
  ASSUME "io" \notin Faults, DiskInv, TurnInv, StartsInv, [Next]_vars
  PROVE  StartsInv'
<1> DEFINE Right(ix, fs) == \A i \in DOMAIN ix : ix[i].startIdx = CountUpTo(fs)[i - 2]
<1>1. ASSUME NEW fs PROVE Right(MakeIndex(fs), fs)
  <2>1. SUFFICES ASSUME NEW i \in DOMAIN MakeIndex(fs)
                 PROVE  MakeIndex(fs)[i].startIdx = CountUpTo(fs)[i - 2]
    OBVIOUS
  <2>2. MakeIndex(fs)[i] = MakeBackingFileDtor(Contents(fs[i - 1]), CountUpTo(fs)[i - 2])
    BY DEF MakeIndex
  <2> QED BY <2>2 DEF MakeBackingFileDtor
<1>2. ASSUME NEW r \in Runs, StartRun(r) \/ PutRefused(r) \/ PutInOrder(r)
      PROVE  StartsInv'
  <2>1. UNCHANGED <<files, index>> /\ (pc' = pc \/ pc = "idle")
    BY <1>2 DEF StartRun, PutRefused, PutInOrder
  <2> QED BY <2>1 DEF StartsInv
<1>3. \A r \in Runs : ~PutOutOfOrder(r)
  BY NeverOutOfOrder DEF PutOutOfOrder
<1>4. ASSUME Stop PROVE StartsInv'
  BY <1>4 DEF Stop, StartsInv
<1>5. CASE RotateFiles
  <2>1. pc' \in {"rotate", "index"}
    BY <1>5 DEF RotateFiles
  <2> QED BY <2>1 DEF StartsInv
<1>6. CASE RemakeIndex \/ (NewFileRunLog /\ ~Stop)
  <2>1. index' = MakeIndex(files')
    BY <1>6 DEF RemakeIndex, NewFileRunLog
  <2> QED BY <1>1, <2>1 DEF StartsInv
<1>7. CASE PushEntry
  <2> DEFINE e == todo.entry
             f == files[0]
             pushed == [index EXCEPT ![1] = PushedDtor(@, e)]
  <2>1. pc = "push" /\ index' = MovedStarts(pushed)
    BY <1>7 DEF PushEntry, TurnInv, Busy
  <2>2. /\ e \in Runs /\ f \in Seq(Runs) /\ Contents(f) = f /\ Contents(files'[0]) = Appended(f, e)
        /\ \A n \in FileNrs : n # 0 => files'[n] = files[n]
    BY <1>7, PushedFiles
  <2>3. Len(Contents(files'[0])) = Len(Contents(files[0])) + 1
    BY <2>2 DEF Appended
  <2>4. \A n \in FileNrs : Contents(files[n]) \in Seq(Runs) /\ Len(Contents(files[n])) \in Nat
    BY DiskHasRuns
  <2>5. \A n \in FileNrs : CountUpTo(files')[n] = CountUpTo(files)[n] + 1
    BY <2>2, <2>3, <2>4, CountGrows
  <2>6. CountUpTo(files)[-1] = 0 /\ CountUpTo(files')[-1] = 0
    <3>1. \A n \in FileNrs : Len(Contents(files'[n])) \in Nat
      BY <2>2, <2>3, <2>4, RunsAreNumbers
    <3> QED BY <2>4, <3>1, CountUpToIs
  <2>7. PICK k \in 1..(MaxHistories + 1) : DOMAIN index = 1..k
    BY <2>1 DEF DiskInv, IndexInv, Describes
  <2>8. k \in Nat /\ k <= MaxHistories + 1 /\ MaxHistories \in Nat
    BY RunsAreNumbers
  <2>9. DOMAIN pushed = 1..k /\ DOMAIN index' = 1..k
    BY <2>1, <2>7 DEF MovedStarts
  <2>10. ASSUME NEW i \in 1..k PROVE index'[i].startIdx = CountUpTo(files')[i - 2]
    <3>1. index[i].startIdx = CountUpTo(files)[i - 2]
      BY <2>1, <2>7 DEF StartsInv
    <3>2. CASE i = 1
      <4>1. index'[i] = PushedDtor(index[1], e)
        BY <2>1, <2>7, <2>9, <3>2 DEF MovedStarts
      <4>2. index'[i].startIdx = index[1].startIdx
        <5>1. index[1] = MakeBackingFileDtor(files[0], index[1].startIdx)
          BY <2>1, FirstDescriptor
        <5> DEFINE d == index[1]
                   s == d.startIdx
        <5> HIDE DEF d, s
        <5>2. d = MakeBackingFileDtor(f, s)
          BY <5>1 DEF d, s
        <5>3. PushedDtor(d, e) = MakeBackingFileDtor(Appended(f, e), s)
          BY <2>2, <5>2, PushedDescriptor
        <5>4. PushedDtor(d, e).startIdx = s
          BY <5>3 DEF MakeBackingFileDtor
        <5> QED BY <4>1, <5>4 DEF d, s
      <4>3. i - 2 = -1
        BY <3>2
      <4> QED BY <2>6, <3>1, <3>2, <4>2, <4>3
    <3>3. CASE i # 1
      <4>1. i - 2 \in FileNrs
        BY <2>8, <3>3 DEF FileNrs
      <4>2. pushed[i] = index[i]
        BY <2>7, <3>3
      <4> HIDE DEF pushed
      <4>3. index'[i] = [index[i] EXCEPT !.startIdx = @ + 1]
        BY <2>1, <2>9, <3>3, <4>2 DEF MovedStarts
      <4>4. index[i] = MakeBackingFileDtor(files[i - 1], index[i].startIdx)
        BY <2>1, <2>7 DEF DiskInv, IndexInv, Describes
      <4>5. index'[i].startIdx = index[i].startIdx + 1
        <5> DEFINE d == index[i]
                   s == d.startIdx
                   q == files[i - 1]
        <5> HIDE DEF d, s, q
        <5>1. d = MakeBackingFileDtor(q, s)
          BY <4>4 DEF d, s, q
        <5>2. [d EXCEPT !.startIdx = @ + 1].startIdx = s + 1
          BY <5>1 DEF MakeBackingFileDtor
        <5> QED BY <4>3, <5>2 DEF d, s
      <4> QED BY <2>5, <3>1, <4>1, <4>5
    <3> QED BY <3>2, <3>3
  <2> QED BY <2>9, <2>10 DEF StartsInv
<1>8. CASE UNCHANGED vars
  BY <1>8 DEF vars, StartsInv
<1> QED
  BY <1>2, <1>3, <1>4, <1>5, <1>6, <1>7, <1>8, NothingFails DEF Next, PutPanics, Crash

LEMMA InitSequentialInv == Init => SequentialInv
<1> SUFFICES ASSUME Init PROVE SequentialInv
  OBVIOUS
<1>1. DiskInv
  BY InitDiskInv
<1>2. /\ pc = "idle" /\ index = MakeIndex(files) /\ stored = {}
      /\ fate = [r \in Runs |-> "future"]
  BY DEF Init
<1>3. Running = {}
  BY <1>2 DEF Running
<1>4. TurnInv
  BY <1>2, <1>3, FS_EmptySet DEF TurnInv, Busy
<1>5. StartsInv
  <2>1. SUFFICES ASSUME NEW i \in DOMAIN index PROVE index[i].startIdx = CountUpTo(files)[i - 2]
    BY DEF StartsInv
  <2>2. index[i] = MakeBackingFileDtor(Contents(files[i - 1]), CountUpTo(files)[i - 2])
    BY <1>2 DEF MakeIndex
  <2> QED BY <2>2 DEF MakeBackingFileDtor
<1> QED BY <1>1, <1>2, <1>4, <1>5 DEF SequentialInv, StoredInv

LEMMA NextSequentialInv ==
  ASSUME MaxOverlap <= 1, "io" \notin Faults, SequentialInv, [Next]_vars
  PROVE  SequentialInv'
BY NextDiskInv, NextTurnInv, NextStoredInv, NextStartsInv DEF SequentialInv

\* Runs that do not overlap: what was in the files when some Put returned stays
\* there until a rotation removes its file (rotateFiles, pushEntry), wherever
\* the process crashes.
THEOREM StoredEntriesStay ==
  ASSUME MaxOverlap <= 1, "io" \notin Faults
  PROVE  Spec => []StoredStays
<1>1. SequentialInv => StoredStays
  BY DEF SequentialInv, StoredInv, StoredStays
<1>2. SequentialInv /\ [Next]_vars => SequentialInv'
  BY NextSequentialInv
<1> QED BY <1>1, <1>2, InitSequentialInv, PTL DEF Spec

-----------------------------------------------------------------------------
(***************************************************************************)
(* The queries.                                                            *)
(***************************************************************************)

\* The index, the files and the log when Put has returned.
LEMMA IndexedLog ==
  ASSUME SequentialInv, pc = "idle", NEW k, k = Len(index)
  PROVE  /\ k \in 1..(MaxHistories + 1) /\ DOMAIN index = 1..k
         /\ \A i \in 1..k :
              /\ files[i - 1] \in Seq(Runs) /\ Ascending(files[i - 1])
              /\ Elements(files[i - 1]) = InFile(files, i - 1) /\ i - 1 \in FileNrs
              /\ index[i] = MakeBackingFileDtor(files[i - 1], index[i].startIdx)
              /\ index[i].nbrEntries = Len(files[i - 1])
              /\ index[i].startIdx = Len(LogOf(files, i - 1))
              /\ CountUpTo(files)[i - 2] = Len(LogOf(files, i - 1))
              /\ LogOf(files, i) = files[i - 1] \o LogOf(files, i - 1)
              /\ Len(LogOf(files, i)) = Len(LogOf(files, i - 1)) + Len(files[i - 1])
         /\ \A i \in 0..k : LogOf(files, i) \in Seq(Runs) /\ Len(LogOf(files, i)) \in Nat
         /\ Len(LogOf(files, 0)) = 0
<1> DEFINE M == MaxHistories
<1>1. M \in Nat /\ FileNrs = 0..M /\ DiskInv /\ StartsInv
  BY RunsAreNumbers DEF FileNrs, SequentialInv
<1>2. PICK j \in 1..(M + 1) : Describes(index, files, j)
  BY <1>1 DEF DiskInv, IndexInv
<1>3. k = j /\ k \in 1..(M + 1) /\ DOMAIN index = 1..k
  BY <1>2 DEF Describes
<1>4. \A n \in FileNrs : Contents(files[n]) \in Seq(Runs) /\ Ascending(Contents(files[n]))
  BY <1>1, DiskHasRuns DEF DiskInv, Sorted
<1>5. \A i \in 0..(M + 1) : LogOf(files, i) \in Seq(Runs) /\ Len(LogOf(files, i)) = CountUpTo(files)[i - 1]
  BY <1>4, LogLength
<1>6. \A i \in 0..k : i \in 0..(M + 1)
  BY <1>1, <1>3
<1>7. \A i \in 0..k : LogOf(files, i) \in Seq(Runs) /\ Len(LogOf(files, i)) \in Nat
  BY <1>5, <1>6
<1>8. Len(LogOf(files, 0)) = 0
  BY LogJoins
<1>9. ASSUME NEW i \in 1..k
      PROVE  /\ files[i - 1] \in Seq(Runs) /\ Ascending(files[i - 1])
             /\ Elements(files[i - 1]) = InFile(files, i - 1) /\ i - 1 \in FileNrs
             /\ index[i] = MakeBackingFileDtor(files[i - 1], index[i].startIdx)
             /\ index[i].nbrEntries = Len(files[i - 1])
             /\ index[i].startIdx = Len(LogOf(files, i - 1))
             /\ CountUpTo(files)[i - 2] = Len(LogOf(files, i - 1))
             /\ LogOf(files, i) = files[i - 1] \o LogOf(files, i - 1)
             /\ Len(LogOf(files, i)) = Len(LogOf(files, i - 1)) + Len(files[i - 1])
  <2>1. /\ i - 1 \in FileNrs /\ i - 1 \in Nat /\ i - 1 \in 0..(M + 1) /\ i - 1 \in 0..k
        /\ (i - 1) + 1 = i /\ (i - 1) - 1 = i - 2
    BY <1>1, <1>3
  <2>2. files[i - 1] # NoFile /\ index[i] = MakeBackingFileDtor(files[i - 1], index[i].startIdx)
    BY <1>2, <1>3 DEF Describes
  <2>3. Contents(files[i - 1]) = files[i - 1]
    BY <2>2 DEF Contents
  <2>4. files[i - 1] \in Seq(Runs) /\ Ascending(files[i - 1]) /\ Elements(files[i - 1]) = InFile(files, i - 1)
    BY <1>4, <2>1, <2>3 DEF InFile
  <2>5. index[i].nbrEntries = Len(files[i - 1])
    BY <2>2 DEF MakeBackingFileDtor
  <2>6. CountUpTo(files)[i - 2] = Len(LogOf(files, i - 1))
    BY <1>5, <2>1
  <2>7. index[i].startIdx = CountUpTo(files)[i - 2]
    BY <1>1, <1>3 DEF StartsInv
  <2>8. LogOf(files, i) = files[i - 1] \o LogOf(files, i - 1)
    BY <2>1, <2>3, LogJoins
  <2>9. Len(LogOf(files, i)) = Len(LogOf(files, i - 1)) + Len(files[i - 1])
    <3> DEFINE a == files[i - 1]
               b == LogOf(files, i - 1)
    <3>1. a \in Seq(Runs) /\ b \in Seq(Runs) /\ LogOf(files, i) = a \o b
      BY <1>7, <2>1, <2>4, <2>8
    <3> HIDE DEF a, b
    <3>2. Len(a \o b) = Len(b) + Len(a)
      BY <3>1
    <3> QED BY <3>1, <3>2 DEF a, b
  <2> QED BY <2>1, <2>2, <2>4, <2>5, <2>6, <2>7, <2>8, <2>9
<1> QED BY <1>3, <1>7, <1>8, <1>9

LEMMA SliceStarts ==
  ASSUME SequentialInv, pc = "idle", NEW idx \in Nat, idx < Len(LogOf(files, Len(index)))
  PROVE  IterAt(idx) = idx
<1> DEFINE k == Len(index)
           size(i) == Len(LogOf(files, i))
           holds == {i \in DOMAIN index :
                       /\ index[i].startIdx <= idx
                       /\ index[i].startIdx + index[i].nbrEntries > idx}
           T == {j \in 0..k : size(j) > idx}
<1>1. /\ k \in 1..(MaxHistories + 1) /\ DOMAIN index = 1..k
      /\ \A i \in 1..k : /\ index[i].startIdx = size(i - 1)
                         /\ size(i) = size(i - 1) + index[i].nbrEntries
                         /\ CountUpTo(files)[i - 2] = size(i - 1)
      /\ \A i \in 0..k : size(i) \in Nat
      /\ size(0) = 0
  BY IndexedLog
<1>2. k \in Nat /\ k \in 0..k
  BY <1>1, RunsAreNumbers
<1> HIDE DEF size, k
<1>3. size(k) > idx
  BY DEF size, k
<1>4. PICK j \in T : \A y \in T : j <= y
  <2>1. T \in SUBSET Nat /\ k \in T
    BY <1>2, <1>3
  <2> QED BY <2>1, LeastNumber
<1>5. j \in 0..k /\ size(j) > idx /\ j # 0
  <2>1. j \in 0..k /\ size(j) > idx
    BY <1>4
  <2> QED BY <1>1, <2>1
<1>6. j \in 1..k /\ j - 1 \in 0..k /\ ~(j <= j - 1)
  BY <1>2, <1>5
<1>7. size(j - 1) <= idx
  <2>1. ~(size(j - 1) > idx) /\ size(j - 1) \in Nat
    BY <1>1, <1>4, <1>6
  <2> QED BY <2>1
<1>8. j \in holds
  BY <1>1, <1>5, <1>6, <1>7
<1>9. holds \subseteq 1..k /\ holds \in SUBSET Nat /\ holds # {}
  <2>1. holds \subseteq 1..k /\ 1..k \subseteq Nat
    BY <1>1, <1>2
  <2> QED BY <1>8, <2>1
<1> DEFINE i == CHOOSE x \in holds : \A y \in holds : x <= y
<1>10. i \in holds
  BY <1>9, LeastNumber
<1>11. IterAt(idx) = CountUpTo(files)[i - 2] + idx - index[i].startIdx
  BY <1>8 DEF IterAt
<1> HIDE DEF i, holds
<1>12. i \in 1..k /\ i - 1 \in 0..k
  BY <1>2, <1>9, <1>10
<1>13. IterAt(idx) = size(i - 1) + idx - size(i - 1) /\ size(i - 1) \in Nat
  BY <1>1, <1>11, <1>12
<1> QED BY <1>13

\* Runs that do not overlap: an iterator for an index starts at the entry of
\* that index (GetFromIndex, iterAt), because the starts in the index are those
\* that makeIndex would give (Put, makeIndex), whatever the sizes of the files.
THEOREM SlicesAreRight ==
  ASSUME MaxOverlap <= 1, "io" \notin Faults
  PROVE  Spec => []FromIndexIsSlice
<1>1. ASSUME SequentialInv PROVE FromIndexIsSlice
  <2>1. SUFFICES ASSUME pc = "idle", NEW i \in 0..(Len(GetAll) - 1) PROVE IterAt(i) = i
    BY DEF FromIndexIsSlice
  <2> DEFINE g == LogOf(files, Len(index))
  <2>2. Len(g) \in Nat
    <3>1. Len(index) \in 0..Len(index)
      BY <1>1, <2>1, IndexedLog, RunsAreNumbers
    <3> QED BY <1>1, <2>1, <3>1, IndexedLog
  <2>3. GetAll = Descending(g)
    BY EntriesAreLog DEF GetAll
  <2> HIDE DEF g
  <2>4. Len(GetAll) = Len(g)
    BY <2>2, <2>3 DEF Descending
  <2>5. i \in Nat /\ i < Len(g)
    BY <2>1, <2>2, <2>4
  <2> QED BY <1>1, <2>1, <2>5, SliceStarts DEF g
<1>2. SequentialInv /\ [Next]_vars => SequentialInv'
  BY NextSequentialInv
<1> QED BY <1>1, <1>2, InitSequentialInv, PTL DEF Spec

\* The entry at place x of s, read from its end.
FromEnd(s, x) == s[Len(s) + 1 - x]

\* What is read first does not depend on how many older files there are.
LEMMA LogTail ==
  ASSUME NEW fs, \A n \in FileNrs : Contents(fs[n]) \in Seq(Runs), NEW i \in 0..(MaxHistories + 1)
  PROVE  \A j \in i..(MaxHistories + 1) :
           /\ Len(LogOf(fs, i)) <= Len(LogOf(fs, j))
           /\ \A x \in 1..Len(LogOf(fs, i)) : FromEnd(LogOf(fs, j), x) = FromEnd(LogOf(fs, i), x)
<1> DEFINE M == MaxHistories
           g(j) == LogOf(fs, j)
           Same(j) == /\ Len(g(i)) <= Len(g(j))
                      /\ \A x \in 1..Len(g(i)) : FromEnd(g(j), x) = FromEnd(g(i), x)
           T == {j \in i..(M + 1) : ~Same(j)}
<1>1. M \in Nat /\ FileNrs = 0..M /\ i \in Nat
  BY RunsAreNumbers DEF FileNrs
<1>2. \A j \in 0..(M + 1) : g(j) \in Seq(Runs)
  BY LogLength
<1>3. SUFFICES ASSUME T # {} PROVE FALSE
  OBVIOUS
<1>4. PICK j \in T : \A y \in T : j <= y
  <2>1. T \in SUBSET Nat
    BY <1>1
  <2> QED BY <1>3, <2>1, LeastNumber
<1>5. CASE j = i
  <2>1. Len(g(i)) \in Nat
    BY <1>2
  <2>2. Same(i)
    BY <2>1
  <2> QED BY <1>4, <1>5, <2>2
<1>6. CASE j # i
  <2>1. /\ j - 1 \in i..(M + 1) /\ j - 1 \in Nat /\ j - 1 \in FileNrs /\ ~(j <= j - 1)
        /\ (j - 1) + 1 = j /\ j - 1 \in 0..(M + 1)
    BY <1>1, <1>4, <1>6
  <2>2. Same(j - 1)
    BY <1>4, <2>1
  <2> DEFINE a == Contents(fs[j - 1])
             b == g(j - 1)
             u == g(i)
  <2>3. a \in Seq(Runs) /\ b \in Seq(Runs) /\ u \in Seq(Runs) /\ g(j) = a \o b
    BY <1>2, <2>1, LogJoins
  <2>4. Len(u) <= Len(b) /\ \A x \in 1..Len(u) : FromEnd(b, x) = FromEnd(u, x)
    BY <2>2
  <2> HIDE DEF a, b, u
  <2> DEFINE c == a \o b
  <2>5. /\ Len(c) = Len(a) + Len(b) /\ Len(a) \in Nat /\ Len(b) \in Nat /\ Len(u) \in Nat
        /\ \A y \in 1..(Len(a) + Len(b)) : c[y] = IF y <= Len(a) THEN a[y] ELSE b[y - Len(a)]
    BY <2>3
  <2> HIDE DEF c
  <2>6. Len(u) <= Len(c)
    BY <2>4, <2>5
  <2>7. ASSUME NEW x \in 1..Len(u) PROVE FromEnd(c, x) = FromEnd(u, x)
    <3> DEFINE y == Len(c) + 1 - x
    <3>1. /\ y \in 1..(Len(a) + Len(b)) /\ ~(y <= Len(a)) /\ y - Len(a) = Len(b) + 1 - x
      BY <2>4, <2>5
    <3>2. c[y] = b[Len(b) + 1 - x]
      BY <2>5, <3>1
    <3> QED BY <2>4, <3>2 DEF FromEnd
  <2>8. Same(j)
    BY <2>3, <2>6, <2>7 DEF c, u
  <2> QED BY <1>4, <2>8
<1> QED BY <1>5, <1>6

\* The entries of a file that are later than t are the last ones.
LEMMA LatePlaces ==
  ASSUME NEW f \in Seq(Runs), Ascending(f), NEW t \in Nat
  PROVE  \E c \in 0..Len(f) :
           /\ Cardinality({j \in DOMAIN f : StartTime[f[j]] > t}) = Len(f) - c
           /\ \A j \in 1..Len(f) : StartTime[f[j]] > t <=> j > c
<1> DEFINE n == Len(f)
           T == {j \in DOMAIN f : StartTime[f[j]] > t}
<1>1. n \in Nat /\ DOMAIN f = 1..n /\ \A j \in 1..n : f[j] \in Runs /\ StartTime[f[j]] \in Nat
  BY TimesAreNumbers
<1>2. CASE T = {}
  <2>1. n \in 0..n /\ Cardinality(T) = n - n
    <3>1. Cardinality(T) = 0
      BY <1>2, FS_EmptySet
    <3> HIDE DEF n, T
    <3> QED BY <1>1, <3>1
  <2>2. \A j \in 1..n : ~(StartTime[f[j]] > t) /\ ~(j > n)
    BY <1>1, <1>2
  <2> QED BY <2>1, <2>2
<1>3. CASE T # {}
  <2>1. PICK m \in T : \A y \in T : m <= y
    <3>1. T \in SUBSET Nat
      BY <1>1
    <3> QED BY <1>3, <3>1, LeastNumber
  <2>2. m \in 1..n /\ StartTime[f[m]] > t
    BY <1>1, <2>1
  <2> HIDE DEF n
  <2>3. ASSUME NEW j \in 1..n PROVE StartTime[f[j]] > t <=> j > m - 1
    <3>1. StartTime[f[j]] > t => m <= j
      BY <1>1, <2>1
    <3>2. m < j => StartTime[f[m]] <= StartTime[f[j]]
      BY <1>1, <2>2 DEF Ascending
    <3>3. m <= j => StartTime[f[j]] > t
      <4>1. CASE m = j
        BY <2>2, <4>1
      <4>2. CASE m < j
        <5>1. StartTime[f[m]] \in Nat /\ StartTime[f[j]] \in Nat
          BY <1>1, <2>2
        <5> QED BY <2>2, <3>2, <4>2, <5>1
      <4>3. m <= j => m = j \/ m < j
        BY <1>1, <2>2
      <4> QED BY <4>1, <4>2, <4>3
    <3>4. m <= j <=> j > m - 1
      BY <1>1, <2>2
    <3> QED BY <3>1, <3>3, <3>4
  <2>4. T = m..n
    <3>1. \A j \in 1..n : j > m - 1 <=> j \in m..n
      BY <1>1, <2>2
    <3>2. m..n \subseteq 1..n
      BY <1>1, <2>2
    <3> QED BY <1>1, <2>3, <3>1, <3>2
  <2>5. Cardinality(T) = n - m + 1
    <3>1. m \in Int /\ n \in Int /\ ~(m > n)
      BY <1>1, <2>2
    <3> HIDE DEF T
    <3> QED BY <2>4, <3>1, FS_Interval
  <2>6. m - 1 \in 0..n /\ n - (m - 1) = n - m + 1
    BY <1>1, <2>2
  <2>7. Cardinality(T) = n - (m - 1)
    BY <2>5, <2>6
  <2> QED BY <2>3, <2>6, <2>7 DEF n
<1> QED BY <1>2, <1>3

\* A log s, newest first, is cut before an entry that is too old.
LEMMA CutOfLog ==
  ASSUME NEW s \in Seq(Runs), NEW t1 \in Nat, NEW t2 \in Nat,
         NEW first \in 0..Len(s), NEW stop \in (first + 1)..(Len(s) + 1),
         \A x, y \in 1..Len(s) : x < y => StartTime[s[y]] <= StartTime[s[x]],
         \A x \in 1..Len(s) : StartTime[s[x]] > t1 <=> x <= first,
         stop <= Len(s) => StartTime[s[stop]] <= t2,
         \A x \in (first + 1)..(stop - 1) : StartTime[s[x]] > t2
  PROVE  /\ (first + 1)..(stop - 1) \subseteq 1..Len(s)
         /\ \A x \in 1..Len(s) : x \in (first + 1)..(stop - 1)
                                   <=> StartTime[s[x]] <= t1 /\ StartTime[s[x]] > t2
<1> DEFINE N == Len(s)
           T(x) == StartTime[s[x]]
<1>1. N \in Nat /\ first \in Nat /\ first <= N /\ \A x \in 1..N : T(x) \in Nat
  BY TimesAreNumbers
<1>2. /\ stop \in (first + 1)..(N + 1) /\ (stop <= N => T(stop) <= t2)
      /\ \A x \in (first + 1)..(stop - 1) : T(x) > t2
      /\ \A x, y \in 1..N : x < y => T(y) <= T(x)
      /\ \A x \in 1..N : T(x) > t1 <=> x <= first
  OBVIOUS
<1> HIDE DEF N, T
<1>3. ASSUME NEW x \in 1..N
      PROVE  x \in (first + 1)..(stop - 1) <=> T(x) <= t1 /\ T(x) > t2
  <2>1. T(x) \in Nat
    BY <1>1
  <2>2. T(x) <= t1 <=> x >= first + 1
    BY <1>1, <1>2, <2>1
  <2>3. ASSUME x >= stop PROVE ~(T(x) > t2)
    <3>1. stop \in 1..N
      BY <1>1, <1>2, <2>3
    <3>2. T(stop) <= t2 /\ T(stop) \in Nat
      BY <1>1, <1>2, <3>1
    <3>3. stop < x => T(x) <= T(stop)
      BY <1>2, <3>1
    <3>4. stop = x \/ stop < x
      BY <2>3, <3>1
    <3>5. CASE stop = x
      BY <2>1, <3>2, <3>5
    <3>6. CASE stop < x
      BY <2>1, <3>2, <3>3, <3>6
    <3> QED BY <3>4, <3>5, <3>6
  <2>4. x >= first + 1 /\ T(x) > t2 => x \in (first + 1)..(stop - 1)
    BY <1>1, <1>2, <2>3
  <2>5. x \in (first + 1)..(stop - 1) => x >= first + 1 /\ T(x) > t2
    BY <1>1, <1>2
  <2> QED BY <2>2, <2>4, <2>5
<1>4. (first + 1)..(stop - 1) \subseteq 1..N
  BY <1>1, <1>2
<1> QED BY <1>3, <1>4 DEF N, T

\* The iterator stops at the first entry that is too old.
LEMMA StopOfLog ==
  ASSUME NEW s \in Seq(Runs), NEW t2 \in Nat, NEW first \in 0..Len(s),
         NEW stops, NEW stop,
         \A k : k \in stops <=> k \in (first + 1)..Len(s) /\ StartTime[s[k]] <= t2,
         stops = {} => stop = Len(s) + 1,
         stops # {} => stop \in stops /\ \A m \in stops : stop <= m
  PROVE  /\ stop \in (first + 1)..(Len(s) + 1)
         /\ stop <= Len(s) => StartTime[s[stop]] <= t2
         /\ \A x \in (first + 1)..(stop - 1) : StartTime[s[x]] > t2
<1> DEFINE N == Len(s)
           T(x) == StartTime[s[x]]
<1>1. N \in Nat /\ first \in Nat /\ first <= N /\ \A x \in 1..N : T(x) \in Nat
  BY TimesAreNumbers
<1> HIDE DEF T
<1>2. CASE stops = {}
  <2>1. stop = N + 1 /\ (N + 1) - 1 = N
    BY <1>1, <1>2
  <2>2. ASSUME NEW x \in (first + 1)..N PROVE T(x) > t2
    <3>1. x \in 1..N /\ T(x) \in Nat
      BY <1>1
    <3>2. ~(T(x) <= t2)
      BY <1>2 DEF T
    <3> QED BY <3>1, <3>2
  <2>3. stop \in (first + 1)..(N + 1) /\ ~(stop <= N)
    BY <1>1, <2>1
  <2> QED BY <2>1, <2>2, <2>3 DEF T
<1>3. CASE stops # {}
  <2>1. stop \in (first + 1)..N /\ T(stop) <= t2
    BY <1>3 DEF T
  <2>2. ASSUME NEW x \in (first + 1)..(stop - 1) PROVE T(x) > t2
    <3>1. x \in (first + 1)..N /\ x \in 1..N /\ ~(stop <= x) /\ T(x) \in Nat
      BY <1>1, <2>1
    <3>2. ~(T(x) <= t2)
      BY <1>3, <3>1 DEF T
    <3> QED BY <3>1, <3>2
  <2>3. stop \in (first + 1)..(N + 1)
    BY <1>1, <2>1
  <2> QED BY <2>1, <2>2, <2>3 DEF T
<1> QED BY <1>2, <1>3

\* The files that are newer than the first one around t have later entries only.
LEMMA NewerFiles ==
  ASSUME SequentialInv, pc = "idle", NEW k, k = Len(index), NEW t \in Nat \ {0}, NEW i \in 1..k,
         index[i].latest >= t,
         \A j \in 1..k : index[j].earliest <= t /\ index[j].latest >= t => i <= j,
         NEW e \in Elements(LogOf(files, i - 1))
  PROVE  StartTime[e] > t
<1>1. /\ k \in 1..(MaxHistories + 1) /\ MaxHistories \in Nat /\ DiskInv /\ FileNrs = 0..MaxHistories
      /\ \A j \in 1..k :
           /\ files[j - 1] \in Seq(Runs) /\ Ascending(files[j - 1])
           /\ Elements(files[j - 1]) = InFile(files, j - 1) /\ j - 1 \in FileNrs
           /\ index[j] = MakeBackingFileDtor(files[j - 1], index[j].startIdx)
  BY IndexedLog, RunsAreNumbers DEF SequentialInv, FileNrs
<1>2. i \in Nat /\ i - 1 \in 0..(MaxHistories + 1)
  BY <1>1
<1>3. PICK m \in 0..((i - 1) - 1) : e \in InFile(files, m)
  BY <1>1, <1>2, LogAscending
<1>4. m + 1 \in 1..k /\ (m + 1) - 1 = m /\ m < i - 1 /\ ~(i <= m + 1)
  BY <1>1, <1>2
<1> DEFINE f == files[i - 1]
           z == f[Len(f)]
           g == files[m]
           y == g[Len(g)]
<1>5. /\ f \in Seq(Runs) /\ Ascending(f) /\ Elements(f) = InFile(files, i - 1) /\ i - 1 \in FileNrs
      /\ index[i].latest = IF f = <<>> THEN 0 ELSE StartTime[z]
  <2>1. index[i] = MakeBackingFileDtor(f, index[i].startIdx)
    BY <1>1
  <2>2. index[i].latest = IF f = <<>> THEN 0 ELSE StartTime[z]
    BY <2>1 DEF MakeBackingFileDtor
  <2> QED BY <1>1, <2>2
<1>6. /\ g \in Seq(Runs) /\ Ascending(g) /\ Elements(g) = InFile(files, m) /\ m \in FileNrs
      /\ index[m + 1] = MakeBackingFileDtor(g, index[m + 1].startIdx)
  BY <1>1, <1>4
<1>7. g # <<>> /\ e \in Elements(g)
  BY <1>3, <1>6 DEF Elements
<1>8. index[m + 1].earliest = StartTime[g[1]] /\ index[m + 1].latest = StartTime[y]
  BY <1>6, <1>7 DEF MakeBackingFileDtor
<1>9. f # <<>> /\ StartTime[z] >= t
  BY <1>5
<1>10. z \in Elements(f) /\ z \in Runs
  BY <1>5, <1>9, LastIsNewest
<1>11. NotAfter(z, e)
  BY <1>1, <1>3, <1>4, <1>5, <1>6, <1>10 DEF DiskInv, Layered
<1>12. y \in Runs /\ NotAfter(e, y)
  BY <1>6, <1>7, LastIsNewest
<1>13. g[1] \in Runs /\ NotAfter(g[1], e) /\ e \in Runs
  <2>1. PICK x \in 1..Len(g) : e = g[x]
    BY <1>6, <1>7 DEF Elements
  <2>2. 1 \in 1..Len(g) /\ DOMAIN g = 1..Len(g) /\ Len(g) \in Nat
    BY <1>6, <1>7
  <2>3. g[1] \in Runs /\ g[x] \in Runs
    BY <1>6, <2>2
  <2>4. CASE x = 1
    BY <2>1, <2>3, <2>4, NotAfterOrders
  <2>5. CASE 1 < x
    BY <1>6, <2>1, <2>2, <2>5 DEF Ascending, NotAfter
  <2>6. x = 1 \/ 1 < x
    BY <2>2
  <2> QED BY <2>1, <2>3, <2>4, <2>5, <2>6
<1> HIDE DEF f, z, g, y
<1>14. ~(index[m + 1].earliest <= t /\ index[m + 1].latest >= t)
  BY <1>4
<1>15. /\ StartTime[z] \in Nat /\ StartTime[e] \in Nat /\ StartTime[y] \in Nat
       /\ StartTime[g[1]] \in Nat
  BY <1>10, <1>12, <1>13, TimesAreNumbers
<1>16. StartTime[e] >= t
  BY <1>9, <1>11, <1>15 DEF NotAfter
<1>17. StartTime[y] >= t
  BY <1>12, <1>15, <1>16 DEF NotAfter
<1>18. ~(StartTime[g[1]] <= t)
  BY <1>8, <1>14, <1>17
<1> QED BY <1>13, <1>15, <1>18 DEF NotAfter

\* Where the entries that are not later than t begin.
LEMMA FirstInRange ==
  ASSUME SequentialInv, pc = "idle", NEW k, k = Len(index), NEW t \in Nat \ {0}, NEW i \in 1..k,
         index[i].earliest <= t, index[i].latest >= t,
         \A j \in 1..k : index[j].earliest <= t /\ index[j].latest >= t => i <= j,
         NEW first, first = Len(LogOf(files, i - 1))
                              + Cardinality({j \in DOMAIN files[i - 1] : StartTime[files[i - 1][j]] > t})
  PROVE  /\ first \in Nat /\ first < Len(LogOf(files, k))
         /\ \A x \in 1..Len(LogOf(files, k)) : StartTime[FromEnd(LogOf(files, k), x)] > t <=> x <= first
<1> DEFINE f == files[i - 1]
           a == LogOf(files, i - 1)
           b == LogOf(files, i)
           s == LogOf(files, k)
           n == Len(f)
<1>1. /\ k \in 1..(MaxHistories + 1) /\ MaxHistories \in Nat /\ DiskInv
      /\ f \in Seq(Runs) /\ Ascending(f)
      /\ index[i] = MakeBackingFileDtor(f, index[i].startIdx)
      /\ b = f \o a /\ Len(b) = Len(a) + n
      /\ \A j \in 0..k : LogOf(files, j) \in Seq(Runs) /\ Len(LogOf(files, j)) \in Nat
  BY IndexedLog, RunsAreNumbers DEF SequentialInv
<1>2. k \in Nat /\ i \in 0..k /\ i - 1 \in 0..k /\ k \in 0..k
  BY <1>1
<1>3. /\ a \in Seq(Runs) /\ b \in Seq(Runs) /\ s \in Seq(Runs)
      /\ Len(a) \in Nat /\ Len(b) \in Nat /\ Len(s) \in Nat /\ n \in Nat
  <2>1. n \in Nat
    BY <1>1
  <2>2. /\ a \in Seq(Runs) /\ b \in Seq(Runs) /\ s \in Seq(Runs)
        /\ Len(a) \in Nat /\ Len(b) \in Nat /\ Len(s) \in Nat
    BY <1>1, <1>2, Zenon
  <2> QED BY <2>1, <2>2
<1>4. /\ i \in 0..(MaxHistories + 1) /\ k \in i..(MaxHistories + 1)
      /\ i - 1 \in 0..(MaxHistories + 1) /\ k \in (i - 1)..(MaxHistories + 1)
      /\ k \in 0..(MaxHistories + 1)
  BY <1>1, <1>2
<1>5. /\ Len(b) <= Len(s) /\ Len(a) <= Len(s)
      /\ \A x \in 1..Len(b) : FromEnd(s, x) = FromEnd(b, x)
      /\ \A x \in 1..Len(a) : FromEnd(s, x) = FromEnd(a, x)
  <2>1. \A m \in FileNrs : Contents(files[m]) \in Seq(Runs)
    BY <1>1, DiskHasRuns
  <2>2. \A u \in 0..(MaxHistories + 1) : \A v \in u..(MaxHistories + 1) :
          /\ Len(LogOf(files, u)) <= Len(LogOf(files, v))
          /\ \A x \in 1..Len(LogOf(files, u)) : FromEnd(LogOf(files, v), x) = FromEnd(LogOf(files, u), x)
    BY <2>1, LogTail
  <2>3. Len(b) <= Len(s) /\ \A x \in 1..Len(b) : FromEnd(s, x) = FromEnd(b, x)
    BY <1>4, <2>2, Zenon
  <2>4. Len(a) <= Len(s) /\ \A x \in 1..Len(a) : FromEnd(s, x) = FromEnd(a, x)
    BY <1>4, <2>2, Zenon
  <2> QED BY <2>3, <2>4
<1>6. Ascending(s)
  BY <1>1, <1>4, LogAscending
<1>7. PICK c \in 0..n :
        /\ Cardinality({j \in DOMAIN f : StartTime[f[j]] > t}) = n - c
        /\ \A j \in 1..n : StartTime[f[j]] > t <=> j > c
  BY <1>1, LatePlaces
<1>8. \A x \in 1..Len(a) : StartTime[FromEnd(a, x)] > t
  <2>1. SUFFICES ASSUME NEW x \in 1..Len(a) PROVE StartTime[FromEnd(a, x)] > t
    OBVIOUS
  <2> HIDE DEF a
  <2>2. Len(a) + 1 - x \in 1..Len(a) /\ DOMAIN a = 1..Len(a)
    BY <1>3
  <2>3. FromEnd(a, x) \in Elements(a)
    BY <2>2 DEF FromEnd, Elements
  <2> QED BY <2>3, NewerFiles DEF a
<1>9. f # <<>> /\ StartTime[f[1]] <= t
  <2>1. index[i].latest = (IF f = <<>> THEN 0 ELSE StartTime[f[n]])
        /\ index[i].earliest = (IF f = <<>> THEN 0 ELSE StartTime[f[1]])
    <3> DEFINE d == index[i]
    <3>1. d = MakeBackingFileDtor(f, d.startIdx)
      BY <1>1
    <3> HIDE DEF d, f
    <3>2. /\ d.latest = (IF f = <<>> THEN 0 ELSE StartTime[f[Len(f)]])
          /\ d.earliest = (IF f = <<>> THEN 0 ELSE StartTime[f[1]])
      BY <3>1 DEF MakeBackingFileDtor
    <3> QED BY <3>2 DEF d, f
  <2>2. f # <<>>
    BY <2>1
  <2> QED BY <2>1, <2>2
<1>10. first = Len(a) + (n - c)
  BY <1>7
<1> HIDE DEF f, a, b, s, n
<1>11. n # 0
  BY <1>1, <1>9 DEF n
<1>12. c >= 1
  <2>1. 1 \in 1..n /\ StartTime[f[1]] \in Nat
    BY <1>1, <1>3, <1>11, TimesAreNumbers DEF n
  <2>2. ~(1 > c)
    BY <1>7, <1>9, <2>1
  <2> QED BY <1>3, <2>2
<1>13. first \in Nat /\ first < Len(b) /\ first < Len(s) /\ first >= Len(a) /\ Len(b) - first = c
  <2> DEFINE la == Len(a)
             lb == Len(b)
             ls == Len(s)
  <2>1. la \in Nat /\ lb \in Nat /\ ls \in Nat /\ n \in Nat /\ c \in 0..n /\ c >= 1
    BY <1>3, <1>12
  <2>2. lb = la + n /\ lb <= ls /\ first = la + (n - c)
    BY <1>1, <1>5, <1>10
  <2> HIDE DEF la, lb, ls
  <2>3. first \in Nat /\ first < lb /\ first < ls /\ first >= la /\ lb - first = c
    BY <2>1, <2>2
  <2> QED BY <2>3 DEF la, lb, ls
\* An entry of the file, by its place in the log.
<1>14. ASSUME NEW x \in (Len(a) + 1)..Len(b)
       PROVE  /\ Len(b) + 1 - x \in 1..n
              /\ FromEnd(s, x) = f[Len(b) + 1 - x]
  <2>1. x \in 1..Len(b) /\ Len(b) + 1 - x \in 1..n /\ Len(b) + 1 - x <= n
    BY <1>1, <1>3
  <2>2. FromEnd(s, x) = b[Len(b) + 1 - x]
    BY <1>5, <2>1 DEF FromEnd
  <2>3. \A j \in 1..n : b[j] = f[j]
    BY <1>1, <1>3 DEF n
  <2> QED BY <2>1, <2>2, <2>3
<1>15. \A x \in 1..Len(s) : FromEnd(s, x) \in Runs /\ StartTime[FromEnd(s, x)] \in Nat
  <2>1. SUFFICES ASSUME NEW x \in 1..Len(s) PROVE FromEnd(s, x) \in Runs
    BY TimesAreNumbers
  <2>2. Len(s) + 1 - x \in 1..Len(s)
    BY <1>3
  <2> QED BY <1>3, <2>2 DEF FromEnd
<1>16. \A x, y \in 1..Len(s) : x < y => StartTime[FromEnd(s, y)] <= StartTime[FromEnd(s, x)]
  <2>1. SUFFICES ASSUME NEW x \in 1..Len(s), NEW y \in 1..Len(s), x < y
                 PROVE  StartTime[FromEnd(s, y)] <= StartTime[FromEnd(s, x)]
    OBVIOUS
  <2>2. /\ Len(s) + 1 - x \in 1..Len(s) /\ Len(s) + 1 - y \in 1..Len(s)
        /\ Len(s) + 1 - y < Len(s) + 1 - x
    <3> DEFINE l == Len(s)
    <3>1. l \in Nat /\ x \in 1..l /\ y \in 1..l /\ x < y
      BY <1>3, <2>1
    <3> HIDE DEF l
    <3>2. l + 1 - x \in 1..l /\ l + 1 - y \in 1..l /\ l + 1 - y < l + 1 - x
      BY <3>1
    <3> QED BY <3>2 DEF l
  <2>3. DOMAIN s = 1..Len(s)
    BY <1>3
  <2> QED BY <1>6, <2>2, <2>3 DEF Ascending, FromEnd
<1>17. ASSUME NEW x \in 1..Len(s), x <= first PROVE StartTime[FromEnd(s, x)] > t
  <2>1. CASE x <= Len(a)
    <3>1. x \in 1..Len(a)
      BY <1>3, <2>1
    <3> QED BY <1>5, <1>8, <3>1
  <2>2. CASE x > Len(a)
    <3>1. x \in (Len(a) + 1)..Len(b) /\ Len(b) + 1 - x > c
      BY <1>3, <1>7, <1>13, <1>17, <2>2
    <3>2. StartTime[f[Len(b) + 1 - x]] > t
      BY <1>7, <1>14, <3>1
    <3> QED BY <1>14, <3>1, <3>2
  <2> QED BY <1>3, <2>1, <2>2
<1>18. StartTime[FromEnd(s, first + 1)] <= t
  <2>1. first + 1 \in (Len(a) + 1)..Len(b) /\ Len(b) + 1 - (first + 1) = c /\ first + 1 \in 1..Len(s)
    <3> DEFINE la == Len(a)
               lb == Len(b)
               ls == Len(s)
    <3>1. /\ la \in Nat /\ lb \in Nat /\ ls \in Nat /\ first \in Nat
          /\ first < lb /\ first < ls /\ first >= la /\ lb - first = c
      BY <1>3, <1>13
    <3> HIDE DEF la, lb, ls
    <3>2. first + 1 \in (la + 1)..lb /\ lb + 1 - (first + 1) = c /\ first + 1 \in 1..ls
      BY <3>1, SMTT(30)
    <3> QED BY <3>2 DEF la, lb, ls
  <2>2. c \in 1..n /\ FromEnd(s, first + 1) = f[c] /\ ~(c > c)
    BY <1>7, <1>14, <2>1
  <2>3. ~(StartTime[f[c]] > t)
    BY <1>7, <2>2
  <2>4. StartTime[f[c]] \in Nat
    BY <1>15, <2>1, <2>2
  <2>5. StartTime[f[c]] <= t
    BY <2>3, <2>4
  <2> QED BY <2>2, <2>5
<1>19. ASSUME NEW x \in 1..Len(s), ~(x <= first) PROVE ~(StartTime[FromEnd(s, x)] > t)
  <2>1. first + 1 \in 1..Len(s) /\ (x = first + 1 \/ first + 1 < x)
    BY <1>3, <1>13, <1>19
  <2>2. StartTime[FromEnd(s, x)] \in Nat /\ StartTime[FromEnd(s, first + 1)] \in Nat
    BY <1>15, <2>1
  <2>3. StartTime[FromEnd(s, x)] <= StartTime[FromEnd(s, first + 1)]
    BY <1>16, <2>1, <2>2
  <2> QED BY <1>18, <2>2, <2>3
<1> QED BY <1>13, <1>17, <1>19 DEF s

\* The file of an entry has times around its own.
LEMMA EntryIsInRange ==
  ASSUME SequentialInv, pc = "idle", NEW e \in Elements(GetAll)
  PROVE  /\ e \in Runs
         /\ \E i \in DOMAIN index : /\ index[i].earliest <= StartTime[e]
                                    /\ index[i].latest >= StartTime[e]
<1> DEFINE k == Len(index)
           g == LogOf(files, k)
<1>1. k \in 1..(MaxHistories + 1) /\ DOMAIN index = 1..k /\ MaxHistories \in Nat
  BY IndexedLog, RunsAreNumbers
<1>2. k \in 0..(MaxHistories + 1) /\ k \in Nat
  <2> HIDE DEF k
  <2> QED BY <1>1
<1>3. g \in Seq(Runs) /\ \A x \in Elements(g) : \E n \in 0..(k - 1) : x \in InFile(files, n)
  BY <1>2, LogAscending DEF SequentialInv
<1>4. GetAll = Descending(g)
  BY EntriesAreLog DEF GetAll
<1> HIDE DEF g
<1>5. e \in Elements(g)
  <2>1. PICK x \in 1..Len(g) : e = g[Len(g) + 1 - x]
    BY <1>3, <1>4 DEF Descending, Elements
  <2>2. Len(g) + 1 - x \in DOMAIN g
    BY <1>3, <2>1
  <2> QED BY <2>1, <2>2 DEF Elements
<1>6. PICK n \in 0..(k - 1) : e \in InFile(files, n)
  BY <1>3, <1>5
<1>7. n + 1 \in 1..k /\ (n + 1) - 1 = n
  <2> HIDE DEF k
  <2> QED BY <1>2
<1> DEFINE i == n + 1
           f == files[n]
<1>8. /\ f \in Seq(Runs) /\ Ascending(f) /\ Elements(f) = InFile(files, n)
      /\ index[i] = MakeBackingFileDtor(f, index[i].startIdx)
  BY <1>7, IndexedLog
<1> HIDE DEF f, i, k
<1>9. f # <<>> /\ e \in Elements(f)
  BY <1>6, <1>8 DEF Elements
<1>10. index[i].earliest = StartTime[f[1]] /\ index[i].latest = StartTime[f[Len(f)]]
  BY <1>8, <1>9 DEF MakeBackingFileDtor
<1>11. NotAfter(e, f[Len(f)])
  BY <1>8, <1>9, LastIsNewest
<1>12. e \in Runs /\ StartTime[f[1]] <= StartTime[e]
  <2>1. PICK x \in DOMAIN f : e = f[x]
    BY <1>9 DEF Elements
  <2>2. x \in Nat /\ 1 \in DOMAIN f /\ (x = 1 \/ 1 < x) /\ e \in Runs
    BY <1>8, <2>1
  <2>3. StartTime[e] \in Nat
    BY <2>2, EntriesAssumption
  <2> QED BY <1>8, <2>1, <2>2, <2>3 DEF Ascending
<1>13. i \in DOMAIN index
  BY <1>1, <1>7 DEF i
<1>14. StartTime[f[Len(f)]] >= StartTime[e]
  <2>1. f[Len(f)] \in Runs
    BY <1>8, <1>9, LastIsNewest
  <2> QED BY <1>11, <1>12, <2>1, TimesAreNumbers DEF NotAfter
<1> QED BY <1>10, <1>12, <1>13, <1>14

\* Runs that do not overlap: from the time of an entry in the log, GetFromTime
\* returns every entry in the range and no other (GetFromTime, iterAt): some
\* file has times around it, the newest such file has the first entry to
\* return, and no newer file has one.
THEOREM TimesAreRight ==
  ASSUME MaxOverlap <= 1, "io" \notin Faults
  PROVE  Spec => []FromEntryTimeIsRight
<1>1. ASSUME SequentialInv, pc = "idle", NEW t1 \in Elements(StartTime), NEW t2 \in 0..(t1 - 1),
             {i \in DOMAIN index : index[i].earliest <= t1 /\ index[i].latest >= t1} # {}
      PROVE  GetFromTime(t1, t2) =
               {e \in Elements(GetAll) : StartTime[e] <= t1 /\ StartTime[e] > t2}
  <2> DEFINE k == Len(index)
             g == LogOf(files, k)
             N == Len(g)
             around == {i \in DOMAIN index : index[i].earliest <= t1 /\ index[i].latest >= t1}
             i == CHOOSE j \in around : \A m \in around : j <= m
             f == files[i - 1]
             rel == Cardinality({j \in DOMAIN f : StartTime[f[j]] > t1})
             first == IterAt(index[i].startIdx + rel)
             stops == {j \in (first + 1)..Len(GetAll) : StartTime[GetAll[j]] <= t2}
             stop == IF stops = {} THEN Len(GetAll) + 1
                     ELSE CHOOSE j \in stops : \A m \in stops : j <= m
  <2>1. GetFromTime(t1, t2) = IF around = {} THEN {} ELSE {GetAll[j] : j \in (first + 1)..(stop - 1)}
    BY DEF GetFromTime
  <2>2. around # {}
    BY <1>1
  <2>0. SUFFICES {GetAll[j] : j \in (first + 1)..(stop - 1)} =
                   {e \in Elements(GetAll) : StartTime[e] <= t1 /\ StartTime[e] > t2}
    BY <2>1, <2>2
  <2>3. t1 \in Nat \ {0} /\ t2 \in Nat
    <3>1. t1 \in Nat \ {0}
      BY EntriesAssumption DEF Elements
    <3> QED BY <3>1
  <2>4. k \in Nat /\ k \in 0..k /\ DOMAIN index = 1..k /\ k \in 0..(MaxHistories + 1)
    <3>1. k \in 1..(MaxHistories + 1) /\ DOMAIN index = 1..k /\ MaxHistories \in Nat
      BY <1>1, IndexedLog, RunsAreNumbers
    <3> HIDE DEF k
    <3> QED BY <3>1
  <2>5. g \in Seq(Runs) /\ N \in Nat /\ Ascending(g)
    <3>1. g \in Seq(Runs) /\ N \in Nat
      BY <1>1, <2>4, IndexedLog
    <3> QED BY <1>1, <2>4, <3>1, LogAscending DEF SequentialInv
  <2>6. GetAll = Descending(g)
    BY EntriesAreLog DEF GetAll
  <2>7. /\ i \in 1..k /\ index[i].earliest <= t1 /\ index[i].latest >= t1
        /\ \A j \in 1..k : index[j].earliest <= t1 /\ index[j].latest >= t1 => i <= j
    <3>1. around \in SUBSET Nat
      BY <2>4
    <3>2. i \in around /\ \A m \in around : i <= m
      BY <2>2, <3>1, LeastNumber
    <3> HIDE DEF i
    <3> QED BY <2>4, <3>2
  <2> HIDE DEF i, around
  <2> DEFINE start == Len(LogOf(files, i - 1)) + rel
  <2>8. /\ start \in Nat /\ start < N
        /\ \A x \in 1..N : StartTime[FromEnd(g, x)] > t1 <=> x <= start
    BY <1>1, <2>3, <2>7, FirstInRange
  <2>9. first = start
    <3>1. index[i].startIdx = Len(LogOf(files, i - 1))
      BY <1>1, <2>7, IndexedLog
    <3> HIDE DEF rel
    <3>2. first = IterAt(start)
      BY <3>1
    <3> HIDE DEF start, first, g
    <3>3. IterAt(start) = start
      BY <1>1, <2>8, SliceStarts DEF N, g, k
    <3> QED BY <3>2, <3>3
  <2> HIDE DEF start, first, k, g
  <2>10. /\ Len(GetAll) = N /\ GetAll \in Seq(Runs)
         /\ \A x \in 1..N : GetAll[x] = FromEnd(g, x)
    <3>1. GetAll = [x \in 1..N |-> g[N + 1 - x]]
      BY <2>6 DEF Descending
    <3>2. \A x \in 1..N : N + 1 - x \in 1..N
      BY <2>5
    <3>3. \A x \in 1..N : g[N + 1 - x] \in Runs
      BY <2>5, <3>2
    <3> HIDE DEF N
    <3>4. GetAll \in Seq(Runs) /\ Len(GetAll) = N
      BY <2>5, <3>1, <3>3
    <3> QED BY <3>1, <3>4 DEF FromEnd, N
  <2> DEFINE s == GetAll
  <2>11. \A x, y \in 1..N : x < y => StartTime[FromEnd(g, y)] <= StartTime[FromEnd(g, x)]
    <3>1. SUFFICES ASSUME NEW x \in 1..N, NEW y \in 1..N, x < y
                   PROVE  StartTime[g[N + 1 - y]] <= StartTime[g[N + 1 - x]]
      BY DEF FromEnd
    <3>2. DOMAIN g = 1..N
      BY <2>5
    <3> HIDE DEF N
    <3>3. N + 1 - x \in 1..N /\ N + 1 - y \in 1..N /\ N + 1 - y < N + 1 - x
      BY <2>5, <3>1
    <3> QED BY <2>5, <3>2, <3>3 DEF Ascending
  <2>12. stops \in SUBSET Nat
    <3>1. (first + 1)..N \subseteq Nat
      BY <2>5, <2>8, <2>9
    <3> QED BY <2>10, <3>1
  <2>13. /\ \A j : j \in stops <=> j \in (first + 1)..Len(s) /\ StartTime[s[j]] <= t2
         /\ stops = {} => stop = Len(s) + 1
         /\ stops # {} => stop \in stops /\ \A m \in stops : stop <= m
    <3>1. stops = {} => stop = Len(s) + 1
      OBVIOUS
    <3>2. \A j : j \in stops <=> j \in (first + 1)..Len(s) /\ StartTime[s[j]] <= t2
      OBVIOUS
    <3> HIDE DEF stops, s
    <3>3. stops # {} => stop \in stops /\ \A m \in stops : stop <= m
      BY <2>12, LeastNumber
    <3> QED BY <3>1, <3>2, <3>3
  <2> HIDE DEF stops, stop, s, N
  <2>14. s \in Seq(Runs) /\ Len(s) = N /\ first \in 0..Len(s)
    BY <2>5, <2>8, <2>9, <2>10 DEF s
  <2>15. /\ stop \in (first + 1)..(Len(s) + 1)
         /\ stop <= Len(s) => StartTime[s[stop]] <= t2
         /\ \A x \in (first + 1)..(stop - 1) : StartTime[s[x]] > t2
    BY <2>3, <2>13, <2>14, StopOfLog
  <2>16. \A x \in 1..Len(s) : s[x] = FromEnd(g, x)
    BY <2>10 DEF s
  <2>17. \A x, y \in 1..Len(s) : x < y => StartTime[s[y]] <= StartTime[s[x]]
    BY <2>11, <2>14, <2>16
  <2>18. \A x \in 1..Len(s) : StartTime[s[x]] > t1 <=> x <= first
    BY <2>8, <2>9, <2>14, <2>16
  <2>19. {s[j] : j \in (first + 1)..(stop - 1)} =
           {e \in Elements(s) : StartTime[e] <= t1 /\ StartTime[e] > t2}
    <3> DEFINE P == (first + 1)..(stop - 1)
    <3>1. /\ P \subseteq 1..Len(s)
          /\ \A x \in 1..Len(s) : x \in P <=> StartTime[s[x]] <= t1 /\ StartTime[s[x]] > t2
      BY <2>3, <2>14, <2>15, <2>17, <2>18, CutOfLog
    <3>2. Elements(s) = {s[x] : x \in 1..Len(s)}
      BY <2>14, SeqElements
    <3> HIDE DEF P
    <3>3. {s[j] : j \in P} = {e \in Elements(s) : StartTime[e] <= t1 /\ StartTime[e] > t2}
      BY <3>1, <3>2
    <3> QED BY <3>3 DEF P
  <2> QED BY <2>19 DEF s
<1>2. ASSUME SequentialInv PROVE FromEntryTimeIsRight
  <2> SUFFICES ASSUME pc = "idle", NEW e \in Elements(GetAll), NEW t2 \in 0..(StartTime[e] - 1)
               PROVE  GetFromTime(StartTime[e], t2) =
                        {d \in Elements(GetAll) : StartTime[d] <= StartTime[e] /\ StartTime[d] > t2}
    BY DEF FromEntryTimeIsRight
  <2>1. PICK i \in DOMAIN index : index[i].earliest <= StartTime[e] /\ index[i].latest >= StartTime[e]
    BY <1>2, EntryIsInRange
  <2>2. {j \in DOMAIN index :
           index[j].earliest <= StartTime[e] /\ index[j].latest >= StartTime[e]} # {}
    BY <2>1
  <2>3. StartTime[e] \in Elements(StartTime)
    BY <1>2, EntryIsInRange, EntriesAssumption DEF Elements
  <2> QED BY <1>1, <1>2, <2>2, <2>3
<1>3. SequentialInv /\ [Next]_vars => SequentialInv'
  BY NextSequentialInv
<1>4. SequentialInv => FromEntryTimeIsRight
  BY <1>2
<1> QED BY <1>3, <1>4, InitSequentialInv, PTL DEF Spec

-----------------------------------------------------------------------------
(***************************************************************************)
(* Refinement of RunLog.                                                   *)
(***************************************************************************)

\* Files that have the same contents from j on add the same to the log.
LEMMA SameLog ==
  ASSUME NEW fs, NEW gs, NEW j \in Nat, NEW u \in Nat, LogOf(gs, j) = LogOf(fs, j),
         \A n \in j..(u - 1) : Contents(gs[n]) = Contents(fs[n])
  PROVE  \A k \in j..u : LogOf(gs, k) = LogOf(fs, k)
<1> DEFINE T == {k \in j..u : LogOf(gs, k) # LogOf(fs, k)}
<1>1. SUFFICES ASSUME T # {} PROVE FALSE
  OBVIOUS
<1>2. PICK k \in T : \A y \in T : k <= y
  <2>1. T \in SUBSET Nat
    OBVIOUS
  <2> QED BY <1>1, <2>1, LeastNumber
<1>3. k \in j..u /\ LogOf(gs, k) # LogOf(fs, k)
  BY <1>2
<1>4. k # j
  BY <1>3
<1>5. k - 1 \in j..u /\ k - 1 \in j..(u - 1) /\ k - 1 \in Nat /\ (k - 1) + 1 = k /\ ~(k <= k - 1)
  BY <1>3, <1>4
<1>6. LogOf(gs, k - 1) = LogOf(fs, k - 1)
  BY <1>2, <1>5
<1>7. /\ LogOf(gs, k) = Contents(gs[k - 1]) \o LogOf(gs, k - 1)
      /\ LogOf(fs, k) = Contents(fs[k - 1]) \o LogOf(fs, k - 1)
  BY <1>5, LogJoins
<1> QED BY <1>3, <1>5, <1>6, <1>7

LEMMA SameContentsLog ==
  ASSUME NEW fs, NEW gs, \A n \in FileNrs : Contents(gs[n]) = Contents(fs[n])
  PROVE  LogOf(gs, MaxHistories + 1) = LogOf(fs, MaxHistories + 1)
<1> DEFINE u == MaxHistories + 1
<1>1. u \in Nat /\ u \in 0..u /\ \A n \in 0..(u - 1) : n \in FileNrs
  BY RunsAreNumbers DEF FileNrs
<1>2. LogOf(gs, 0) = LogOf(fs, 0)
  BY LogJoins
<1> HIDE DEF u
<1>3. \A k \in 0..u : LogOf(gs, k) = LogOf(fs, k)
  BY <1>1, <1>2, SameLog
<1> QED BY <1>1, <1>3 DEF u

\* An entry that is appended to the current file is appended to the log.
LEMMA PushedLog ==
  ASSUME NEW fs, NEW gs, \A n \in FileNrs : Contents(fs[n]) \in Seq(Runs), NEW e \in Runs,
         Contents(gs[0]) = Appended(Contents(fs[0]), e),
         \A n \in FileNrs : n # 0 => Contents(gs[n]) = Contents(fs[n])
  PROVE  \A k \in 1..(MaxHistories + 1) : LogOf(gs, k) = Appended(LogOf(fs, k), e)
<1> DEFINE M == MaxHistories
           T == {k \in 1..(M + 1) : LogOf(gs, k) # Appended(LogOf(fs, k), e)}
<1>1. M \in Nat /\ FileNrs = 0..M
  BY RunsAreNumbers DEF FileNrs
<1>2. SUFFICES ASSUME T # {} PROVE FALSE
  OBVIOUS
<1>3. PICK j \in T : \A y \in T : j <= y
  <2>1. T \in SUBSET Nat
    BY <1>1
  <2> QED BY <1>2, <2>1, LeastNumber
<1>4. /\ j - 1 \in Nat /\ j - 1 \in FileNrs /\ (j - 1) + 1 = j /\ ~(j <= j - 1) /\ j - 1 \in 0..(M + 1)
      /\ LogOf(gs, j) # Appended(LogOf(fs, j), e)
  BY <1>1, <1>3
<1> DEFINE a == Contents(fs[j - 1])
           b == LogOf(fs, j - 1)
<1>5. /\ LogOf(gs, j) = Contents(gs[j - 1]) \o LogOf(gs, j - 1) /\ LogOf(fs, j) = a \o b
  BY <1>4, LogJoins
<1>6. a \in Seq(Runs) /\ b \in Seq(Runs)
  BY <1>4, LogLength
<1>7. CASE j = 1
  <2>1. LogOf(fs, 0) = <<>> /\ LogOf(gs, 0) = <<>> /\ j - 1 = 0
    BY <1>7, LogJoins
  <2>2. b = <<>> /\ LogOf(gs, j) = Appended(a, e) \o <<>>
    BY <1>5, <2>1
  <2> HIDE DEF a, b
  <2>3. a \o b = a /\ Appended(a, e) \o <<>> = Appended(a, e)
    BY <1>6, <2>2 DEF Appended
  <2> QED BY <1>4, <1>5, <2>2, <2>3
<1>8. CASE j # 1
  <2>1. j - 1 \in 1..(M + 1) /\ j - 1 # 0
    BY <1>1, <1>3, <1>8
  <2>2. LogOf(gs, j - 1) = Appended(b, e)
    BY <1>3, <1>4, <2>1
  <2>3. Contents(gs[j - 1]) = a
    BY <1>4, <2>1
  <2>4. LogOf(gs, j) = a \o Appended(b, e)
    BY <1>5, <2>2, <2>3
  <2> HIDE DEF a, b
  <2>5. a \o Appended(b, e) = Appended(a \o b, e)
    <3>1. <<e>> \in Seq(Runs)
      OBVIOUS
    <3>2. a \o (b \o <<e>>) = (a \o b) \o <<e>>
      BY <1>6, <3>1, ConcatAssociative
    <3> QED BY <3>2 DEF Appended
  <2> QED BY <1>4, <1>5, <2>4, <2>5
<1> QED BY <1>7, <1>8

\* A rotation keeps the log, or takes the entries of the oldest file away.
LEMMA RotatedLog ==
  ASSUME DiskInv, RotateFiles, NEW s, s = LogOf(files, MaxHistories + 1),
         NEW t, t = LogOf(files', MaxHistories + 1)
  PROVE  t = s \/ \E k \in 1..Len(s) : t = DropOldest(s, k)
<1> DEFINE p == todo.pos
           M == MaxHistories
<1>1. /\ p \in FileNrs /\ M \in Nat /\ FileNrs = 0..M
      /\ \A n \in FileNrs : n # p /\ n # p + 1 => files'[n] = files[n]
      /\ files'[p] = NoFile
      /\ \/ p + 1 > M
         \/ p + 1 <= M /\ files[p + 1] = NoFile /\ files'[p + 1] = files[p]
  BY RotatedFiles
<1>2. /\ Contents(NoFile) = <<>>
      /\ \A n \in FileNrs : Contents(files[n]) \in Seq(Runs)
  BY DiskHasRuns DEF Contents
<1>3. \A k \in 0..(M + 1) : LogOf(files, k) \in Seq(Runs)
  BY <1>2, LogLength
<1> HIDE DEF p
<1>4. p \in Nat /\ p \in 0..p /\ p \in 0..(M + 1)
  BY <1>1
<1>5. LogOf(files', p) = LogOf(files, p)
  <2>1. LogOf(files', 0) = LogOf(files, 0)
    BY LogJoins
  <2>2. \A n \in 0..(p - 1) : n \in FileNrs /\ n # p /\ n # p + 1
    BY <1>1, <1>4
  <2>3. \A n \in 0..(p - 1) : Contents(files'[n]) = Contents(files[n])
    BY <1>1, <2>2
  <2> QED BY <1>4, <2>1, <2>3, SameLog
<1> DEFINE b == LogOf(files, p)
           a == Contents(files[p])
<1>6. a \in Seq(Runs) /\ b \in Seq(Runs) /\ <<>> \o b = b
  BY <1>1, <1>2, <1>3, <1>4
<1>7. /\ LogOf(files, p + 1) = a \o b
      /\ LogOf(files', p + 1) = b
  BY <1>1, <1>2, <1>4, <1>5, <1>6, LogJoins
<1>8. CASE p + 1 > M
  <2>1. p = M
    BY <1>1, <1>8
  <2>2. s = a \o b /\ t = b
    BY <1>7, <2>1
  <2> HIDE DEF a, b
  <2>3. CASE Len(a) = 0
    BY <1>6, <2>2, <2>3
  <2>4. CASE Len(a) # 0
    <3>1. Len(a) \in 1..Len(s)
      <4>1. Len(a \o b) = Len(a) + Len(b) /\ Len(a) \in Nat /\ Len(b) \in Nat
        BY <1>6
      <4> DEFINE x == Len(a)
                 y == Len(b)
                 z == Len(s)
      <4>2. x \in Nat /\ y \in Nat /\ z = x + y /\ x # 0
        BY <2>2, <2>4, <4>1
      <4> HIDE DEF x, y, z
      <4>3. x \in 1..z
        BY <4>2
      <4> QED BY <4>3 DEF x, z
    <3>2. SubSeq(a \o b, Len(a) + 1, Len(a \o b)) = b
      <4> DEFINE c == a \o b
                 d == SubSeq(c, Len(a) + 1, Len(c))
      <4>1. /\ c \in Seq(Runs) /\ Len(c) = Len(a) + Len(b) /\ Len(a) \in Nat /\ Len(b) \in Nat
            /\ \A y \in 1..(Len(a) + Len(b)) : c[y] = IF y <= Len(a) THEN a[y] ELSE b[y - Len(a)]
        BY <1>6
      <4> HIDE DEF c
      <4>2. /\ d \in Seq(Runs) /\ Len(d) = Len(b)
            /\ \A y \in 1..Len(b) : d[y] = c[Len(a) + y]
        BY <4>1
      <4> HIDE DEF d
      <4>3. ASSUME NEW y \in 1..Len(b) PROVE d[y] = b[y]
        <5>1. /\ Len(a) + y \in 1..(Len(a) + Len(b)) /\ ~(Len(a) + y <= Len(a))
              /\ (Len(a) + y) - Len(a) = y
          BY <4>1
        <5> QED BY <4>1, <4>2, <5>1
      <4>4. d = b
        BY <1>6, <4>2, <4>3
      <4> QED BY <4>4 DEF c, d
    <3>3. t = DropOldest(s, Len(a))
      BY <2>2, <3>2 DEF DropOldest
    <3> QED BY <3>1, <3>3
  <2> QED BY <2>3, <2>4
<1>9. CASE p + 1 <= M
  <2>1. files[p + 1] = NoFile /\ files'[p + 1] = files[p]
    BY <1>1, <1>9
  <2>2. p + 1 \in Nat /\ (p + 1) + 1 = p + 2 /\ p + 2 \in Nat /\ p + 2 <= M + 1
    BY <1>1, <1>4, <1>9
  <2>3. /\ LogOf(files', p + 2) = a \o b
        /\ LogOf(files, p + 2) = <<>> \o (a \o b)
    BY <1>2, <1>7, <2>1, <2>2, LogJoins
  <2>4. LogOf(files', p + 2) = LogOf(files, p + 2)
    <3> HIDE DEF a, b
    <3>1. a \o b \in Seq(Runs)
      BY <1>6
    <3>2. <<>> \o (a \o b) = a \o b
      BY <3>1, ConcatEmptySeq
    <3> QED BY <2>3, <3>2
  <2>5. \A n \in (p + 2)..((M + 1) - 1) : Contents(files'[n]) = Contents(files[n])
    <3>1. \A n \in (p + 2)..((M + 1) - 1) : n \in FileNrs /\ n # p /\ n # p + 1
      BY <1>1, <1>4
    <3> QED BY <1>1, <3>1
  <2>6. M + 1 \in Nat /\ M + 1 \in (p + 2)..(M + 1)
    BY <1>1, <2>2
  <2>7. t = s
    BY <2>2, <2>4, <2>5, <2>6, SameLog
  <2> QED BY <2>7
<1> QED BY <1>1, <1>8, <1>9

LEMMA NeverTooEarly ==
  ASSUME DiskInv, TurnInv, NEW r \in Runs, fate[r] = "running", pc = "idle"
  PROVE  ~TooEarly(r)
<1> DEFINE f == files[0]
           z == f[1]
<1>1. SUFFICES ASSUME TooEarly(r) PROVE FALSE
  OBVIOUS
<1>2. /\ f \in Seq(Runs) /\ Contents(f) = f
      /\ index[1] = MakeBackingFileDtor(f, index[1].startIdx) /\ index[1].nbrEntries = Len(f)
  BY FirstDescriptor
<1>3. f # <<>> /\ index[1].earliest > StartTime[r]
  BY <1>1, <1>2 DEF TooEarly
<1>4. index[1].earliest = StartTime[z]
  BY <1>2, <1>3 DEF MakeBackingFileDtor
<1>5. z \in Elements(f) /\ z \in Runs
  <2>1. 1 \in DOMAIN f
    BY <1>2, <1>3
  <2> QED BY <1>2, <2>1 DEF Elements
<1>6. z \in OnDisk(files)
  BY <1>2, <1>5, DiskHasRuns, RunsAreNumbers DEF InFile
<1>7. NotAfter(z, r)
  BY <1>6 DEF TurnInv, Running
<1> HIDE DEF z
<1> QED BY <1>3, <1>4, <1>5, <1>7, TimesAreNumbers DEF NotAfter

\* The state of the abstract log.
WholeLog == EntriesOf(MaxHistories + 1)
Fates == [r \in Runs |-> IF fate[r] = "putting" THEN "running" ELSE fate[r]]

LEMMA WholeLogIs ==
  ASSUME DiskInv
  PROVE  /\ WholeLog \in Seq(Runs) /\ Len(WholeLog) \in Nat
         /\ WholeLog = LogOf(files, MaxHistories + 1)
         /\ WholeLog' = LogOf(files', MaxHistories + 1)
         /\ \A x \in Elements(WholeLog) : x \in OnDisk(files)
         /\ MaxHistories + 1 \in 1..(MaxHistories + 1)
<1> DEFINE s == LogOf(files, MaxHistories + 1)
<1>1. WholeLog = s /\ WholeLog' = LogOf(files', MaxHistories + 1)
  BY EntriesAreLog DEF WholeLog
<1>2. /\ MaxHistories \in Nat /\ MaxHistories + 1 \in 0..(MaxHistories + 1)
      /\ MaxHistories + 1 \in 1..(MaxHistories + 1)
      /\ \A n \in 0..((MaxHistories + 1) - 1) : n \in FileNrs
  BY RunsAreNumbers DEF FileNrs
<1>3. /\ s \in Seq(Runs)
      /\ \A x \in Elements(s) : \E n \in 0..((MaxHistories + 1) - 1) : x \in InFile(files, n)
  BY <1>2, LogAscending
<1>4. \A x \in Elements(s) : x \in OnDisk(files)
  BY <1>2, <1>3, DiskHasRuns
<1> HIDE DEF s
<1>5. Len(s) \in Nat
  BY <1>3
<1> QED BY <1>1, <1>2, <1>3, <1>4, <1>5 DEF s

\* An entry that is newer than all the others belongs at the end of the log.
LEMMA AppendedIsInserted ==
  ASSUME NEW s \in Seq(Runs), NEW e \in Runs, \A x \in Elements(s) : NotAfter(x, e)
  PROVE  /\ Position(s, e, Len(s))
         /\ DropOldest(InsertAt(s, Len(s), e), 0) = Appended(s, e)
         /\ Len(s) \in 0..Len(s) /\ 0 \in 0..(Len(s) + 1)
<1>1. Len(s) \in Nat /\ DOMAIN s = 1..Len(s)
  OBVIOUS
<1>2. \A j \in 1..Len(s) : StartTime[s[j]] <= StartTime[e]
  BY <1>1 DEF Elements, NotAfter
<1>3. (Len(s) + 1)..Len(s) = {}
  BY <1>1
<1>4. Position(s, e, Len(s))
  BY <1>2, <1>3 DEF Position
<1> DEFINE t == Appended(s, e)
<1>5. t \in Seq(Runs)
  BY DEF Appended
<1>6. InsertAt(s, Len(s), e) = t
  <2>1. SubSeq(s, 1, Len(s)) = s /\ SubSeq(s, Len(s) + 1, Len(s)) = <<>>
    BY <1>1
  <2>2. InsertAt(s, Len(s), e) = t \o <<>>
    BY <2>1 DEF InsertAt, Appended
  <2> QED BY <1>5, <2>2, ConcatEmptySeq
<1> HIDE DEF t
<1>7. DropOldest(t, 0) = t
  BY <1>5 DEF DropOldest
<1> QED BY <1>1, <1>4, <1>6, <1>7 DEF t

\* Every step is one of the abstract log, or leaves it as it is.
LEMMA NextKeepsRunLog ==
  ASSUME MaxOverlap <= 1, "io" \notin Faults, SequentialInv, [Next]_vars
  PROVE  AbstractLog!Next \/ UNCHANGED <<WholeLog, Fates>>
<1> DEFINE s == WholeLog
<1>1. DiskInv /\ TurnInv
  BY DEF SequentialInv
<1>2. /\ s \in Seq(Runs) /\ Len(s) \in Nat
      /\ s = LogOf(files, MaxHistories + 1) /\ s' = LogOf(files', MaxHistories + 1)
      /\ \A x \in Elements(s) : x \in OnDisk(files)
      /\ MaxHistories + 1 \in 1..(MaxHistories + 1)
  BY <1>1, WholeLogIs
<1>3. fate \in [Runs -> RunStates]
  BY <1>1 DEF DiskInv, AnswerInv, AnswerType
<1>4. files' = files => s' = s
  BY <1>2
<1>5. fate' = fate => Fates' = Fates
  BY DEF Fates
<1>6. ASSUME NEW r \in Runs, StartRun(r) PROVE AbstractLog!Next
  <2>1. /\ fate[r] = "future" /\ \A q \in Runs : q < r => fate[q] # "future"
        /\ fate' = [fate EXCEPT ![r] = "running"] /\ files' = files
    BY <1>6 DEF StartRun
  <2>2. /\ Fates[r] = "future" /\ \A q \in Runs : q < r => Fates[q] # "future"
        /\ Fates' = [Fates EXCEPT ![r] = "running"]
    BY <1>3, <2>1 DEF Fates
  <2>3. AbstractLog!Start(r)
    BY <1>4, <2>1, <2>2 DEF AbstractLog!Start, WholeLog, Fates
  <2> QED BY <2>3 DEF AbstractLog!Next
<1>7. ASSUME NEW r \in Runs PROVE ~PutRefused(r) /\ ~PutOutOfOrder(r)
  BY <1>1, NeverTooEarly, NeverOutOfOrder DEF PutRefused, PutOutOfOrder
<1>8. ASSUME NEW r \in Runs, PutInOrder(r) PROVE UNCHANGED <<WholeLog, Fates>>
  <2>1. fate[r] = "running" /\ fate' = [fate EXCEPT ![r] = "putting"] /\ files' = files
    BY <1>8 DEF PutInOrder
  <2>2. Fates' = Fates
    BY <1>3, <2>1 DEF Fates
  <2> QED BY <1>4, <2>1, <2>2
<1>9. ASSUME Stop, files' = files PROVE AbstractLog!Next
  <2>1. fate' = [q \in Runs |-> IF q \in Running \union Putting THEN "lost" ELSE fate[q]]
    BY <1>9 DEF Stop
  <2>2. Fates' = [q \in Runs |-> IF Fates[q] = "running" THEN "lost" ELSE Fates[q]]
    BY <1>3, <2>1 DEF Fates, Running, Putting
  <2>3. s' = DropOldest(s, 0) /\ 0 \in 0..Len(s)
    <3> HIDE DEF s
    <3>1. SubSeq(s, 0 + 1, Len(s)) = s
      BY <1>2
    <3> QED BY <1>2, <1>4, <1>9, <3>1 DEF DropOldest
  <2>4. AbstractLog!Crash
    BY <2>2, <2>3 DEF AbstractLog!Crash, AbstractLog!DropOldest, DropOldest, WholeLog, Fates
  <2> QED BY <2>4 DEF AbstractLog!Next
<1>10. ASSUME RotateFiles PROVE AbstractLog!Next \/ UNCHANGED <<WholeLog, Fates>>
  <2>1. s' = s \/ \E k \in 1..Len(s) : s' = DropOldest(s, k)
    BY <1>1, <1>2, <1>10, RotatedLog
  <2>2. Fates' = Fates
    BY <1>5, <1>10 DEF RotateFiles
  <2>3. ASSUME NEW k \in 1..Len(s), s' = DropOldest(s, k) PROVE AbstractLog!Forget
    BY <2>2, <2>3 DEF AbstractLog!Forget, AbstractLog!DropOldest, DropOldest, WholeLog, Fates
  <2> QED BY <2>1, <2>2, <2>3 DEF AbstractLog!Next
<1>11. ASSUME files' = WithCurrentFile(files) PROVE s' = s
  <2>1. \A n \in FileNrs : Contents(files'[n]) = Contents(files[n])
    BY <1>1, <1>11, WithCurrentSame, RunsAreNumbers DEF DiskInv, DiskType
  <2> QED BY <1>2, <2>1, SameContentsLog
<1>12. ASSUME RemakeIndex \/ NewFileRunLog PROVE UNCHANGED <<WholeLog, Fates>>
  <2>1. CanIndex(files)
    BY <1>1, DiskHasRuns DEF CanIndex, Indexed
  <2>2. files' = WithCurrentFile(files) /\ fate' = fate
    BY <1>12, <2>1 DEF RemakeIndex, NewFileRunLog
  <2> QED BY <1>5, <1>11, <2>2
<1>13. ASSUME PushEntry PROVE AbstractLog!Next
  <2>1. PICK e \in Runs : e = todo.entry
    BY <1>1, <1>13, PushedFiles
  <2>2. /\ pc = "push"
        /\ fate' = [q \in Runs |-> IF q \in Putting THEN "logged" ELSE fate[q]]
    BY <1>13 DEF PushEntry, Return
  <2>3. /\ \A x \in OnDisk(files) \union deleted : NotAfter(x, e)
        /\ Contents(files'[0]) = Appended(Contents(files[0]), e)
        /\ \A n \in FileNrs : n # 0 => files'[n] = files[n]
    BY <1>1, <1>13, <2>1, PushedFiles
  <2>4. Putting = {e}
    BY <1>1, <2>2, <2>1 DEF TurnInv, Busy, DiskInv, AnswerInv, PutInv, Putting
  <2>5. Fates[e] = "running" /\ Fates' = [Fates EXCEPT ![e] = "logged"]
    BY <1>3, <2>2, <2>3, <2>4 DEF Fates, Putting
  <2>6. s' = Appended(s, e)
    <3>1. \A n \in FileNrs : Contents(files[n]) \in Seq(Runs)
      BY <1>1, DiskHasRuns
    <3>2. \A k \in 1..(MaxHistories + 1) : LogOf(files', k) = Appended(LogOf(files, k), e)
      BY <2>3, <3>1, PushedLog
    <3> QED BY <1>2, <3>2
  <2>7. \A x \in Elements(s) : NotAfter(x, e)
    BY <1>2, <2>3
  <2> HIDE DEF s
  <2>8. /\ Position(s, e, Len(s)) /\ s' = DropOldest(InsertAt(s, Len(s), e), 0)
        /\ Len(s) \in 0..Len(s) /\ 0 \in 0..(Len(s) + 1)
    BY <1>2, <2>3, <2>6, <2>7, AppendedIsInserted
  <2>9. \E i \in 0..Len(s) : /\ Position(s, e, i)
                             /\ \E k \in 0..(Len(s) + 1) : s' = DropOldest(InsertAt(s, i, e), k)
    BY <2>8
  <2>10. AbstractLog!Put(e)
    BY <2>5, <2>9 DEF s, AbstractLog!Put, AbstractLog!Position, AbstractLog!DropOldest,
       AbstractLog!InsertAt, Position, DropOldest, InsertAt, WholeLog, Fates
  <2> QED BY <2>10 DEF AbstractLog!Next
<1>14. CASE UNCHANGED vars
  BY <1>4, <1>5, <1>14 DEF vars
<1>15. ASSUME NEW r \in Runs, PutPanics(r) PROVE AbstractLog!Next
  BY <1>9, <1>15 DEF PutPanics
<1>16. CASE Crash
  BY <1>9, <1>16 DEF Crash
<1> QED BY <1>1, <1>6, <1>7, <1>8, <1>10, <1>12, <1>13, <1>14, <1>15, <1>16, NothingFails DEF Next

\* Runs that do not overlap: the log in the files, the hidden ones included,
\* is a RunLog.  A Put appends the entry where it belongs, a rotation only
\* takes entries away at the old end, and a crash at any step takes none away.
THEOREM FileLogKeepsRunLog ==
  ASSUME MaxOverlap <= 1, "io" \notin Faults
  PROVE  Spec => KeepsRunLog
<1>1. Init => AbstractLog!Init
  <2>1. SUFFICES ASSUME Init PROVE AbstractLog!Init
    OBVIOUS
  <2>2. \A n \in FileNrs : Contents(files[n]) = <<>>
    BY <2>1, RunsAreNumbers DEF Init, WithCurrentFile, Contents
  <2>3. WholeLog = <<>>
    <3>1. OnDisk(files) = {}
      BY <2>2 DEF OnDisk, Elements
    <3>2. /\ WholeLog \in Seq(Runs) /\ Len(WholeLog) \in Nat
          /\ \A x \in Elements(WholeLog) : x \in OnDisk(files)
      BY <2>1, InitDiskInv, WholeLogIs
    <3>3. ASSUME Len(WholeLog) # 0 PROVE FALSE
      <4>1. 1 \in 1..Len(WholeLog)
        BY <3>2, <3>3
      <4>2. WholeLog[1] \in Elements(WholeLog)
        BY <3>2, <4>1, SeqElements
      <4> QED BY <3>1, <3>2, <4>2
    <3> QED BY <3>2, <3>3
  <2>4. Fates = [r \in Runs |-> "future"]
    BY <2>1 DEF Init, Fates
  <2> QED BY <2>3, <2>4 DEF AbstractLog!Init, WholeLog, Fates
<1>2. SequentialInv /\ [Next]_vars => [AbstractLog!Next]_(AbstractLog!logVars)
  BY NextKeepsRunLog DEF AbstractLog!logVars, WholeLog, Fates
<1>3. SequentialInv /\ [Next]_vars => SequentialInv'
  BY NextSequentialInv
<1> QED BY <1>1, <1>2, <1>3, InitSequentialInv, PTL DEF Spec, KeepsRunLog, AbstractLog!Spec

=============================================================================
