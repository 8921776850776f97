-------------------------- MODULE TestJobServerProofs --------------------------
(***************************************************************************)
(* Proofs about TestJobServer.                                             *)
(*                                                                         *)
(* What serve may conclude at each of its places depends on what the other *)
(* four threads, the shell and the client have done meanwhile.  TestInv    *)
(* says so, for one test; the tests do not touch each other.               *)
(***************************************************************************)
EXTENDS TestJobServer, TLAPS

Places == {"none", "select", "start", "wait", "report", "unwind", "closed", "done", "end"}

\* The record of a test.
TestType ==
  [serve : Places,
   accept : {"none", "ready", "sending", "sent", "closed"},
   client : {"none", "connected", "left", "disconnected", "refused"},
   watcher : {"none", "reading", "done"},
   ctx : BOOLEAN, listening : BOOLEAN, dir : BOOLEAN,
   shell : {"none", "running", "ok", "failed", "killed"},
   kids : BOOLEAN, wrote : Nat, copied : Nat,
   copy : {"none", "copying", "error", "eof"},
   fate : {"none", "succeeded", "failed", "cancelled"},
   told : {"none", "succeeded", "failed", "cancelled"}]

TypeOK == process \in {"up", "waiting", "exited"} /\ t \in [Tests -> TestType]

\* A shell is started only on a connection that serve has received, and serve
\* is past its wait only when the shell and the copying of its output ended.
ShellInv(x) ==
  /\ x.serve \in {"none", "select", "start"} => x.shell = "none"
  /\ x.serve \in {"report", "unwind", "closed", "done", "end"} => x.shell = "none" \/ WaitReturns(x)
  /\ x.shell = "none" <=> x.copy = "none"
  /\ x.shell = "none" => ~x.kids
  /\ x.shell # "none" => x.accept = "sent"
  /\ x.serve \in {"wait", "report"} => x.shell # "none"

\* While the accepted connection is open nobody but the client closes it.
ConnInv(x) ==
  /\ x.serve \in {"none", "select"} => x.accept # "sent"
  /\ x.serve = "start" => x.accept = "sent"
  /\ x.accept \in {"sending", "sent"} => x.client \notin {"none", "refused"}
  /\ x.accept = "sent" /\ x.serve \in {"closed", "done", "end"} => x.client # "connected"
  /\ x.watcher # "none" => x.accept = "sent"

\* A client that is still connected has not cancelled anything: no kill, no
\* failed Write, and so no result but the shell's own.
ConnectedInv(x) ==
  /\ x.ctx => x.accept = "sent" /\ x.client # "connected"
  /\ x.shell = "killed" => x.client # "connected"
  /\ x.copy = "error" => x.client # "connected"
  /\ x.serve = "report" /\ x.client = "connected" =>
       x.fate = IF x.shell = "ok" THEN "succeeded" ELSE "failed"

\* The end of the output was seen after every writer had gone.
OutputInv(x) == x.copy = "eof" => x.shell # "running" /\ ~x.kids /\ x.copied = x.wrote

\* What the client was told stays true.
ToldInv(x) ==
  x.told # "none" =>
    /\ x.serve \in {"unwind", "closed", "done", "end"}
    /\ x.shell \in {"ok", "failed"} /\ x.copy = "eof"
    /\ x.told = IF x.shell = "ok" THEN "succeeded" ELSE "failed"

TestInv(x) == ShellInv(x) /\ ConnInv(x) /\ ConnectedInv(x) /\ OutputInv(x) /\ ToldInv(x)

Inv == TypeOK /\ \A j \in Tests : TestInv(t[j])

-----------------------------------------------------------------------------

\* A step of one test leaves the others as they are.
LEMMA OneTestSteps ==
  ASSUME Inv, NEW j \in Tests, process' = process, t' = [t EXCEPT ![j] = t'[j]],
         t'[j] \in TestType, TestInv(t'[j])
  PROVE  Inv'
<1>1. TypeOK'
  BY DEF Inv, TypeOK
<1>2. \A i \in Tests : i # j => t'[i] = t[i]
  BY DEF Inv, TypeOK
<1>3. \A i \in Tests : TestInv(t'[i])
  BY <1>2 DEF Inv
<1> QED BY <1>1, <1>3 DEF Inv

LEMMA InitInv == Init => Inv
BY TestAssumption DEF Init, New, Inv, TypeOK, TestType, Places, TestInv, ShellInv, ConnInv, ConnectedInv,
   OutputInv, ToldInv

LEMMA NextInv == Inv /\ [Next]_vars => Inv'
<1> SUFFICES ASSUME Inv, [Next]_vars PROVE Inv'
  OBVIOUS
<1>1. CASE UNCHANGED vars
  BY <1>1 DEF vars, Inv, TypeOK
<1>2. ASSUME NEW j \in Tests, Launch(j) PROVE Inv'
  <2> DEFINE x == t[j]
             y == t'[j]
  <2>1. x \in TestType /\ TestInv(x)
    BY DEF Inv, TypeOK
  <2>2. /\ t' = [t EXCEPT ![j] = y] /\ process' = process
        /\ x.serve = "none"
        /\ y = [x EXCEPT !.serve = "select", !.accept = "ready", !.listening = TRUE, !.dir = TRUE]
    BY <1>2 DEF Launch, Step, Inv, TypeOK
  <2> HIDE DEF x, y
  <2>3. y \in TestType
    BY <2>1, <2>2 DEF TestType, Places
  <2>4. TestInv(y)
    BY <2>1, <2>2, <2>3 DEF TestType, Places, TestInv, ShellInv, ConnInv, ConnectedInv,
       OutputInv, ToldInv, WaitReturns
  <2> QED BY <2>2, <2>3, <2>4, OneTestSteps DEF y
<1>3. ASSUME NEW j \in Tests, Accept(j) PROVE Inv'
  <2> DEFINE x == t[j]
             y == t'[j]
  <2>1. x \in TestType /\ TestInv(x)
    BY DEF Inv, TypeOK
  <2>2. /\ t' = [t EXCEPT ![j] = y] /\ process' = process
        /\ x.accept = "ready" /\ x.client \in {"connected", "left"}
        /\ y = [x EXCEPT !.accept = "sending"]
    BY <1>3 DEF Accept, Step, Inv, TypeOK
  <2> HIDE DEF x, y
  <2>3. y \in TestType
    BY <2>1, <2>2 DEF TestType, Places
  <2>4. TestInv(y)
    BY <2>1, <2>2, <2>3 DEF TestType, Places, TestInv, ShellInv, ConnInv, ConnectedInv,
       OutputInv, ToldInv, WaitReturns
  <2> QED BY <2>2, <2>3, <2>4, OneTestSteps DEF y
<1>4. ASSUME NEW j \in Tests, AcceptFails(j) PROVE Inv'
  <2> DEFINE x == t[j]
             y == t'[j]
  <2>1. x \in TestType /\ TestInv(x)
    BY DEF Inv, TypeOK
  <2>2. /\ t' = [t EXCEPT ![j] = y] /\ process' = process
        /\ x.accept = "ready"
        /\ y = [x EXCEPT !.accept = "closed"]
    BY <1>4 DEF AcceptFails, Step, Inv, TypeOK
  <2> HIDE DEF x, y
  <2>3. y \in TestType
    BY <2>1, <2>2 DEF TestType, Places
  <2>4. TestInv(y)
    BY <2>1, <2>2, <2>3 DEF TestType, Places, TestInv, ShellInv, ConnInv, ConnectedInv,
       OutputInv, ToldInv, WaitReturns
  <2> QED BY <2>2, <2>3, <2>4, OneTestSteps DEF y
<1>5. ASSUME NEW j \in Tests, GotConn(j) PROVE Inv'
  <2> DEFINE x == t[j]
             y == t'[j]
  <2>1. x \in TestType /\ TestInv(x)
    BY DEF Inv, TypeOK
  <2>2. /\ t' = [t EXCEPT ![j] = y] /\ process' = process
        /\ x.serve = "select" /\ x.accept = "sending"
        /\ y = [x EXCEPT !.serve = "start", !.accept = "sent", !.watcher = "reading"]
    BY <1>5 DEF GotConn, Step, Inv, TypeOK
  <2> HIDE DEF x, y
  <2>3. y \in TestType
    BY <2>1, <2>2 DEF TestType, Places
  <2>4. TestInv(y)
    BY <2>1, <2>2, <2>3 DEF TestType, Places, TestInv, ShellInv, ConnInv, ConnectedInv,
       OutputInv, ToldInv, WaitReturns
  <2> QED BY <2>2, <2>3, <2>4, OneTestSteps DEF y
<1>6. ASSUME NEW j \in Tests, NoConn(j) PROVE Inv'
  <2> DEFINE x == t[j]
             y == t'[j]
  <2>1. x \in TestType /\ TestInv(x)
    BY DEF Inv, TypeOK
  <2>2. /\ t' = [t EXCEPT ![j] = y] /\ process' = process
        /\ x.serve = "select"
        /\ y = [x EXCEPT !.serve = "unwind"]
    BY <1>6 DEF NoConn, Step, Inv, TypeOK
  <2> HIDE DEF x, y
  <2>3. y \in TestType
    BY <2>1, <2>2 DEF TestType, Places
  <2>4. TestInv(y)
    BY <2>1, <2>2, <2>3 DEF TestType, Places, TestInv, ShellInv, ConnInv, ConnectedInv,
       OutputInv, ToldInv, WaitReturns
  <2> QED BY <2>2, <2>3, <2>4, OneTestSteps DEF y
<1>7. ASSUME NEW j \in Tests, StartJob(j) PROVE Inv'
  <2> DEFINE x == t[j]
             y == t'[j]
  <2>1. x \in TestType /\ TestInv(x)
    BY DEF Inv, TypeOK
  <2>2. /\ t' = [t EXCEPT ![j] = y] /\ process' = process
        /\ x.serve = "start" /\ ~x.ctx
        /\ y = [x EXCEPT !.serve = "wait", !.shell = "running", !.copy = "copying"]
    BY <1>7 DEF StartJob, Step, Inv, TypeOK
  <2> HIDE DEF x, y
  <2>3. y \in TestType
    BY <2>1, <2>2 DEF TestType, Places
  <2>4. TestInv(y)
    BY <2>1, <2>2, <2>3 DEF TestType, Places, TestInv, ShellInv, ConnInv, ConnectedInv,
       OutputInv, ToldInv, WaitReturns
  <2> QED BY <2>2, <2>3, <2>4, OneTestSteps DEF y
<1>8. ASSUME NEW j \in Tests, StartFails(j) PROVE Inv'
  <2> DEFINE x == t[j]
             y == t'[j]
  <2>1. x \in TestType /\ TestInv(x)
    BY DEF Inv, TypeOK
  <2>2. /\ t' = [t EXCEPT ![j] = y] /\ process' = process
        /\ x.serve = "start"
        /\ y = [x EXCEPT !.serve = "unwind"]
    BY <1>8 DEF StartFails, Step, Inv, TypeOK
  <2> HIDE DEF x, y
  <2>3. y \in TestType
    BY <2>1, <2>2 DEF TestType, Places
  <2>4. TestInv(y)
    BY <2>1, <2>2, <2>3 DEF TestType, Places, TestInv, ShellInv, ConnInv, ConnectedInv,
       OutputInv, ToldInv, WaitReturns
  <2> QED BY <2>2, <2>3, <2>4, OneTestSteps DEF y
<1>9. ASSUME NEW j \in Tests, JobFate(j) PROVE Inv'
  <2> DEFINE x == t[j]
             y == t'[j]
  <2>1. x \in TestType /\ TestInv(x)
    BY DEF Inv, TypeOK
  <2>2. /\ t' = [t EXCEPT ![j] = y] /\ process' = process
        /\ x.serve = "wait" /\ WaitReturns(x)
        /\ y = [x EXCEPT !.serve = "report",
                         !.fate = IF x.shell = "ok" /\ x.copy = "eof" THEN "succeeded"
                                  ELSE IF x.ctx THEN "cancelled" ELSE "failed"]
    BY <1>9 DEF JobFate, Step, Inv, TypeOK
  <2> HIDE DEF x, y
  <2>3. y \in TestType
    <3> DEFINE v == y.fate
    <3>1. v \in {"succeeded", "failed", "cancelled"} /\ y = [x EXCEPT !.serve = "report", !.fate = v]
      BY <2>1, <2>2 DEF TestType
    <3> HIDE DEF v
    <3> QED BY <2>1, <3>1, ZenonT(30) DEF TestType, Places
  <2>4. TestInv(y)
    BY <2>1, <2>2, <2>3 DEF TestType, Places, TestInv, ShellInv, ConnInv, ConnectedInv,
       OutputInv, ToldInv, WaitReturns
  <2> QED BY <2>2, <2>3, <2>4, OneTestSteps DEF y
<1>10. ASSUME NEW j \in Tests, Report(j) PROVE Inv'
  <2> DEFINE x == t[j]
             y == t'[j]
  <2>1. x \in TestType /\ TestInv(x)
    BY DEF Inv, TypeOK
  <2>2. /\ t' = [t EXCEPT ![j] = y] /\ process' = process
        /\ x.serve = "report"
        /\ y = [x EXCEPT !.serve = "unwind",
                         !.told = IF x.client = "connected" THEN x.fate ELSE @]
    BY <1>10 DEF Report, Step, Inv, TypeOK
  <2> HIDE DEF x, y
  <2>3. y \in TestType
    <3> DEFINE v == y.told
    <3>1. v \in {"none", "succeeded", "failed", "cancelled"} /\ y = [x EXCEPT !.serve = "unwind", !.told = v]
      BY <2>1, <2>2 DEF TestType
    <3> HIDE DEF v
    <3> QED BY <2>1, <3>1, ZenonT(30) DEF TestType, Places
  <2>4. TestInv(y)
    BY <2>1, <2>2, <2>3 DEF TestType, Places, TestInv, ShellInv, ConnInv, ConnectedInv,
       OutputInv, ToldInv, WaitReturns
  <2> QED BY <2>2, <2>3, <2>4, OneTestSteps DEF y
<1>11. ASSUME NEW j \in Tests, CloseConn(j) PROVE Inv'
  <2> DEFINE x == t[j]
             y == t'[j]
  <2>1. x \in TestType /\ TestInv(x)
    BY DEF Inv, TypeOK
  <2>2. /\ t' = [t EXCEPT ![j] = y] /\ process' = process
        /\ x.serve = "unwind"
        /\ y = [x EXCEPT !.serve = "closed", !.ctx = (x.accept = "sent"),
                         !.client = IF x.accept = "sent" /\ @ = "connected" THEN "disconnected" ELSE @]
    BY <1>11 DEF CloseConn, Step, Inv, TypeOK
  <2> HIDE DEF x, y
  <2>3. y \in TestType
    <3> DEFINE v == y.client
               w == y.ctx
    <3>1. /\ v \in {"none", "connected", "left", "disconnected", "refused"} /\ w \in BOOLEAN
          /\ y = [x EXCEPT !.serve = "closed", !.ctx = w, !.client = v]
      BY <2>1, <2>2 DEF TestType
    <3> HIDE DEF v, w
    <3> QED BY <2>1, <3>1, ZenonT(30) DEF TestType, Places
  <2>4. TestInv(y)
    BY <2>1, <2>2, <2>3 DEF TestType, Places, TestInv, ShellInv, ConnInv, ConnectedInv,
       OutputInv, ToldInv, WaitReturns
  <2> QED BY <2>2, <2>3, <2>4, OneTestSteps DEF y
<1>12. ASSUME NEW j \in Tests, Done(j) PROVE Inv'
  <2> DEFINE x == t[j]
             y == t'[j]
  <2>1. x \in TestType /\ TestInv(x)
    BY DEF Inv, TypeOK
  <2>2. /\ t' = [t EXCEPT ![j] = y] /\ process' = process
        /\ x.serve = "closed"
        /\ y = [x EXCEPT !.serve = "done"]
    BY <1>12 DEF Done, Step, Inv, TypeOK
  <2> HIDE DEF x, y
  <2>3. y \in TestType
    BY <2>1, <2>2 DEF TestType, Places
  <2>4. TestInv(y)
    BY <2>1, <2>2, <2>3 DEF TestType, Places, TestInv, ShellInv, ConnInv, ConnectedInv,
       OutputInv, ToldInv, WaitReturns
  <2> QED BY <2>2, <2>3, <2>4, OneTestSteps DEF y
<1>13. ASSUME NEW j \in Tests, CloseListener(j) PROVE Inv'
  <2> DEFINE x == t[j]
             y == t'[j]
  <2>1. x \in TestType /\ TestInv(x)
    BY DEF Inv, TypeOK
  <2>2. /\ t' = [t EXCEPT ![j] = y] /\ process' = process
        /\ x.serve = "done"
        /\ y = [x EXCEPT !.listening = FALSE,
                         !.client = IF x.accept \in {"ready", "closed"} /\ @ = "connected"
                                    THEN "disconnected" ELSE @]
    BY <1>13 DEF CloseListener, Step, Inv, TypeOK
  <2> HIDE DEF x, y
  <2>3. y \in TestType
    BY <2>1, <2>2, ZenonT(30) DEF TestType, Places
  <2>4. TestInv(y)
    BY <2>1, <2>2, <2>3 DEF TestType, Places, TestInv, ShellInv, ConnInv, ConnectedInv,
       OutputInv, ToldInv, WaitReturns
  <2> QED BY <2>2, <2>3, <2>4, OneTestSteps DEF y
<1>14. ASSUME NEW j \in Tests, RemoveDir(j) PROVE Inv'
  <2> DEFINE x == t[j]
             y == t'[j]
  <2>1. x \in TestType /\ TestInv(x)
    BY DEF Inv, TypeOK
  <2>2. /\ t' = [t EXCEPT ![j] = y] /\ process' = process
        /\ x.serve = "done"
        /\ y = [x EXCEPT !.serve = "end", !.dir = FALSE]
    BY <1>14 DEF RemoveDir, Step, Inv, TypeOK
  <2> HIDE DEF x, y
  <2>3. y \in TestType
    BY <2>1, <2>2 DEF TestType, Places
  <2>4. TestInv(y)
    BY <2>1, <2>2, <2>3 DEF TestType, Places, TestInv, ShellInv, ConnInv, ConnectedInv,
       OutputInv, ToldInv, WaitReturns
  <2> QED BY <2>2, <2>3, <2>4, OneTestSteps DEF y
<1>15. ASSUME NEW j \in Tests, WatcherSees(j) PROVE Inv'
  <2> DEFINE x == t[j]
             y == t'[j]
  <2>1. x \in TestType /\ TestInv(x)
    BY DEF Inv, TypeOK
  <2>2. /\ t' = [t EXCEPT ![j] = y] /\ process' = process
        /\ x.watcher = "reading" /\ x.client \in {"left", "disconnected"}
        /\ y = [x EXCEPT !.watcher = "done", !.ctx = TRUE]
    BY <1>15 DEF WatcherSees, Step, Inv, TypeOK
  <2> HIDE DEF x, y
  <2>3. y \in TestType
    BY <2>1, <2>2 DEF TestType, Places
  <2>4. TestInv(y)
    BY <2>1, <2>2, <2>3 DEF TestType, Places, TestInv, ShellInv, ConnInv, ConnectedInv,
       OutputInv, ToldInv, WaitReturns
  <2> QED BY <2>2, <2>3, <2>4, OneTestSteps DEF y
<1>16. ASSUME NEW j \in Tests, JobForks(j) PROVE Inv'
  <2> DEFINE x == t[j]
             y == t'[j]
  <2>1. x \in TestType /\ TestInv(x)
    BY DEF Inv, TypeOK
  <2>2. /\ t' = [t EXCEPT ![j] = y] /\ process' = process
        /\ x.shell = "running"
        /\ y = [x EXCEPT !.kids = TRUE]
    BY <1>16 DEF JobForks, Step, Inv, TypeOK
  <2> HIDE DEF x, y
  <2>3. y \in TestType
    BY <2>1, <2>2 DEF TestType, Places
  <2>4. TestInv(y)
    BY <2>1, <2>2, <2>3 DEF TestType, Places, TestInv, ShellInv, ConnInv, ConnectedInv,
       OutputInv, ToldInv, WaitReturns
  <2> QED BY <2>2, <2>3, <2>4, OneTestSteps DEF y
<1>17. ASSUME NEW j \in Tests, JobWrites(j) PROVE Inv'
  <2> DEFINE x == t[j]
             y == t'[j]
  <2>1. x \in TestType /\ TestInv(x)
    BY DEF Inv, TypeOK
  <2>2. /\ t' = [t EXCEPT ![j] = y] /\ process' = process
        /\ x.copy = "copying"
        /\ y = [x EXCEPT !.wrote = @ + 1]
    BY <1>17 DEF JobWrites, Step, Inv, TypeOK
  <2> HIDE DEF x, y
  <2>3. y \in TestType
    BY <2>1, <2>2 DEF TestType, Places
  <2>4. TestInv(y)
    BY <2>1, <2>2, <2>3 DEF TestType, Places, TestInv, ShellInv, ConnInv, ConnectedInv,
       OutputInv, ToldInv, WaitReturns
  <2> QED BY <2>2, <2>3, <2>4, OneTestSteps DEF y
<1>18. ASSUME NEW j \in Tests, ShellEnds(j) PROVE Inv'
  <2> DEFINE x == t[j]
             y == t'[j]
  <2>1. x \in TestType /\ TestInv(x)
    BY DEF Inv, TypeOK
  <2>2. /\ t' = [t EXCEPT ![j] = y] /\ process' = process
        /\ x.shell = "running"
        /\ y = [x EXCEPT !.shell = "ok"] \/ y = [x EXCEPT !.shell = "failed"]
    BY <1>18 DEF ShellEnds, Step, Inv, TypeOK
  <2> HIDE DEF x, y
  <2>3. y \in TestType
    BY <2>1, <2>2 DEF TestType, Places
  <2>4. TestInv(y)
    BY <2>1, <2>2, <2>3 DEF TestType, Places, TestInv, ShellInv, ConnInv, ConnectedInv,
       OutputInv, ToldInv, WaitReturns
  <2> QED BY <2>2, <2>3, <2>4, OneTestSteps DEF y
<1>19. ASSUME NEW j \in Tests, KidsEnd(j) PROVE Inv'
  <2> DEFINE x == t[j]
             y == t'[j]
  <2>1. x \in TestType /\ TestInv(x)
    BY DEF Inv, TypeOK
  <2>2. /\ t' = [t EXCEPT ![j] = y] /\ process' = process
        /\ x.kids
        /\ y = [x EXCEPT !.kids = FALSE]
    BY <1>19 DEF KidsEnd, Step, Inv, TypeOK
  <2> HIDE DEF x, y
  <2>3. y \in TestType
    BY <2>1, <2>2 DEF TestType, Places
  <2>4. TestInv(y)
    BY <2>1, <2>2, <2>3 DEF TestType, Places, TestInv, ShellInv, ConnInv, ConnectedInv,
       OutputInv, ToldInv, WaitReturns
  <2> QED BY <2>2, <2>3, <2>4, OneTestSteps DEF y
<1>20. ASSUME NEW j \in Tests, Kill(j) PROVE Inv'
  <2> DEFINE x == t[j]
             y == t'[j]
  <2>1. x \in TestType /\ TestInv(x)
    BY DEF Inv, TypeOK
  <2>2. /\ t' = [t EXCEPT ![j] = y] /\ process' = process
        /\ x.shell = "running" /\ x.ctx
        /\ y = [x EXCEPT !.shell = "killed"]
    BY <1>20 DEF Kill, Step, Inv, TypeOK
  <2> HIDE DEF x, y
  <2>3. y \in TestType
    BY <2>1, <2>2 DEF TestType, Places
  <2>4. TestInv(y)
    BY <2>1, <2>2, <2>3 DEF TestType, Places, TestInv, ShellInv, ConnInv, ConnectedInv,
       OutputInv, ToldInv, WaitReturns
  <2> QED BY <2>2, <2>3, <2>4, OneTestSteps DEF y
<1>21. ASSUME NEW j \in Tests, CopyOutput(j) PROVE Inv'
  <2> DEFINE x == t[j]
             y == t'[j]
  <2>1. x \in TestType /\ TestInv(x)
    BY DEF Inv, TypeOK
  <2>2. /\ t' = [t EXCEPT ![j] = y] /\ process' = process
        /\ x.copy = "copying"
        /\ \/ y = [x EXCEPT !.copied = @ + 1]
           \/ x.client # "connected" /\ y = [x EXCEPT !.copy = "error"]
           \/ /\ x.copied = x.wrote /\ x.shell # "running" /\ ~x.kids
              /\ y = [x EXCEPT !.copy = "eof"]
    BY <1>21 DEF CopyOutput, Step, Inv, TypeOK
  <2> HIDE DEF x, y
  <2>3. y \in TestType
    BY <2>1, <2>2 DEF TestType, Places
  <2>4. TestInv(y)
    BY <2>1, <2>2, <2>3 DEF TestType, Places, TestInv, ShellInv, ConnInv, ConnectedInv,
       OutputInv, ToldInv, WaitReturns
  <2> QED BY <2>2, <2>3, <2>4, OneTestSteps DEF y
<1>22. ASSUME NEW j \in Tests, Dial(j) PROVE Inv'
  <2> DEFINE x == t[j]
             y == t'[j]
  <2>1. x \in TestType /\ TestInv(x)
    BY DEF Inv, TypeOK
  <2>2. /\ t' = [t EXCEPT ![j] = y] /\ process' = process
        /\ x.client = "none"
        /\ y = [x EXCEPT !.client = IF x.listening THEN "connected" ELSE "refused"]
    BY <1>22 DEF Dial, Step, Inv, TypeOK
  <2> HIDE DEF x, y
  <2>3. y \in TestType
    BY <2>1, <2>2 DEF TestType, Places
  <2>4. TestInv(y)
    BY <2>1, <2>2, <2>3 DEF TestType, Places, TestInv, ShellInv, ConnInv, ConnectedInv,
       OutputInv, ToldInv, WaitReturns
  <2> QED BY <2>2, <2>3, <2>4, OneTestSteps DEF y
<1>23. ASSUME NEW j \in Tests, ClientLeaves(j) PROVE Inv'
  <2> DEFINE x == t[j]
             y == t'[j]
  <2>1. x \in TestType /\ TestInv(x)
    BY DEF Inv, TypeOK
  <2>2. /\ t' = [t EXCEPT ![j] = y] /\ process' = process
        /\ x.client = "connected"
        /\ y = [x EXCEPT !.client = "left"]
    BY <1>23 DEF ClientLeaves, Step, Inv, TypeOK
  <2> HIDE DEF x, y
  <2>3. y \in TestType
    BY <2>1, <2>2 DEF TestType, Places
  <2>4. TestInv(y)
    BY <2>1, <2>2, <2>3 DEF TestType, Places, TestInv, ShellInv, ConnInv, ConnectedInv,
       OutputInv, ToldInv, WaitReturns
  <2> QED BY <2>2, <2>3, <2>4, OneTestSteps DEF y
<1>24. CASE Quit
  BY <1>24 DEF Quit, Inv, TypeOK
<1>25. CASE Exit
  <2>1. ASSUME NEW j \in Tests PROVE t'[j] \in TestType /\ TestInv(t'[j])
    <3> DEFINE x == t[j]
               y == t'[j]
    <3>1. x \in TestType /\ TestInv(x)
      BY DEF Inv, TypeOK
    <3>2. /\ x.serve \in {"none", "done", "end"}
          /\ y = [x EXCEPT !.client = IF x.client = "connected" THEN "disconnected" ELSE x.client]
      BY <1>25 DEF Exit, Inv, TypeOK
    <3> HIDE DEF x, y
    <3>3. y \in TestType
      BY <3>1, <3>2 DEF TestType, Places
    <3>4. TestInv(y)
      BY <3>1, <3>2, <3>3 DEF TestType, Places, TestInv, ShellInv, ConnInv, ConnectedInv,
         OutputInv, ToldInv, WaitReturns
    <3> QED BY <3>3, <3>4 DEF y
  <2>2. process' = "exited" /\ DOMAIN t' = Tests /\ t' = [j \in Tests |-> t'[j]]
    BY <1>25 DEF Exit
  <2> QED BY <2>1, <2>2 DEF Inv, TypeOK
<1> QED BY <1>1, <1>2, <1>3, <1>4, <1>5, <1>6, <1>7, <1>8, <1>9, <1>10, <1>11, <1>12, <1>13,
           <1>14, <1>15, <1>16, <1>17, <1>18, <1>19, <1>20, <1>21, <1>22, <1>23, <1>24, <1>25
        DEF Next, Goroutines, Job

LEMMA InvHolds == Spec => []Inv
BY InitInv, NextInv, PTL DEF Spec

\* For any number of tests, any amount of output and any faults: no result
\* reaches a client but the one the shell really had, after all the output
\* that was written.
THEOREM ResultsAreTrue == Spec => []ResultIsTrue
<1>1. Inv => ResultIsTrue
  BY DEF Inv, TestInv, ToldInv, OutputInv, ResultIsTrue
<1> QED BY <1>1, InvHolds, PTL

\* When serve has told the wait group that it is done, the shell it started
\* has ended and the connection it accepted is closed: the end of the process,
\* which Wait holds back until then, leaves no job behind.
THEOREM NothingIsLeftRunning == Spec => []NothingLeftRunning
<1>1. Inv => NothingLeftRunning
  BY DEF Inv, TestInv, ShellInv, ConnInv, WaitReturns, NothingLeftRunning
<1> QED BY <1>1, InvHolds, PTL

=============================================================================
