-------------------------- MODULE RunRecords_proofs --------------------------
(***************************************************************************)
(* Proofs, for any number of processes, executions and lost updates, that  *)
(* the history tells the truth, that no row stays "running" without a      *)
(* reason, that a log has the output of executions of its second only, and *)
(* that pruning leaves no more logs than configured.                       *)
(***************************************************************************)
EXTENDS RunRecords, SequenceTheorems, FiniteSetTheorems, TLAPS

Outcomes == Ended \cup {"running"}

Exec == [at : Nat, outcome : Outcomes]
Row  == [exec : Nat, status : Outcomes \cup {"skipped"}, log : Nat]
Run  == [exec : Nat, log : Nat, file : Nat, row : Nat]

(* The types of what the history depends on.                               *)
Shape ==
  /\ now \in Nat
  /\ execs \in Seq(Exec) /\ rows \in Seq(Row)
  /\ pc \in [Procs -> Points] /\ run \in [Procs -> Run]

Early   == {"begin", "exec"}             \* the execution has no outcome yet
Late    == {"unlink", "link", "finish"}  \* it has, but not in the history
Done    == {"ended", "remove"}
Writing == {"exec"} \cup Late

(* A process in a run is in an execution of its own.                       *)
RunsApart ==
  \A p \in Procs : pc[p] # "idle" =>
    /\ run[p].exec \in 1 .. Len(execs)
    /\ pc[p] = "begin" => run[p].row = NoRow
    /\ pc[p] \in Early <=> execs[run[p].exec].outcome = "running"
    /\ \A q \in Procs \ {p} : pc[q] # "idle" => run[q].exec # run[p].exec

(* A row belongs to an execution, unless it is a skipped fire's; and no two*)
(* to the same one.                                                        *)
RowsApart ==
  /\ \A i \in 1 .. Len(rows) :
       \/ rows[i].status = "skipped" /\ rows[i].exec = 0
       \/ rows[i].status # "skipped" /\ rows[i].exec \in 1 .. Len(execs)
  /\ \A i, j \in 1 .. Len(rows) :
       i # j /\ rows[i].exec = rows[j].exec => rows[i].exec = 0

(* The row a process will finish is its execution's and is still open.     *)
RowOwned ==
  \A p \in Procs : pc[p] # "idle" =>
    /\ run[p].row # NoRow =>
         run[p].row \in 1 .. Len(rows) /\ rows[run[p].row].exec = run[p].exec
    /\ \A i \in 1 .. Len(rows) : rows[i].exec = run[p].exec =>
         run[p].row = i /\ (pc[p] \in Writing => rows[i].status = "running")

Finished ==
  \A i \in 1 .. Len(rows) :
    rows[i].status \in Ended => execs[rows[i].exec].outcome = rows[i].status

HInv == Shape /\ RunsApart /\ RowsApart /\ RowOwned /\ Finished /\ RunningIsLive

(* At first there are no rows and no runs.                                 *)
LEMMA InitHInv == Init => HInv
<1> SUFFICES ASSUME Init PROVE HInv
  OBVIOUS
<1>1. execs = <<>> /\ rows = <<>> /\ now = 1
      /\ pc = [p \in Procs |-> "idle"] /\ run = [p \in Procs |-> NoRun]
  BY DEF Init
<1>2. execs \in Seq(Exec) /\ rows \in Seq(Row) /\ Len(rows) = 0
  BY <1>1
<1>3. NoRun \in Run
  BY DEF NoRun, Run, NoLog, NoRow
<1>4. Shape
  BY <1>1, <1>2, <1>3 DEF Shape, Points
<1>5. RunsApart /\ RowOwned
  BY <1>1 DEF RunsApart, RowOwned
<1>6. RowsApart /\ Finished /\ RunningIsLive
  BY <1>2 DEF RowsApart, Finished, RunningIsLive
<1> QED BY <1>4, <1>5, <1>6 DEF HInv

(* Processes that go on without touching history or executions, or go idle *)
(* with nothing left open but what is counted as lost.                     *)
Quiet ==
  /\ rows' = rows /\ execs' = execs /\ now' \in Nat /\ lost \subseteq lost'
  /\ pc' \in [Procs -> Points] /\ run' \in [Procs -> Run]
  /\ \A p \in Procs :
       \/ pc'[p] = "idle" /\ (pc[p] \in Early \cup Late => run[p].exec \in lost')
       \/ /\ pc[p] # "idle" /\ pc'[p] # "idle"
          /\ run'[p].exec = run[p].exec /\ run'[p].row = run[p].row
          /\ \/ pc'[p] = pc[p]
             \/ pc[p] \in Late /\ pc'[p] \in Late
             \/ pc[p] \in Done /\ pc'[p] \in Done

(* Such steps keep the invariant.                                          *)
LEMMA QuietHInv == ASSUME HInv, Quiet PROVE HInv'
<1> USE DEF HInv
<1>1. Shape'
  BY DEF Shape, Quiet
<1>2. RunsApart'
  BY DEF RunsApart, Quiet, Early, Late, Done
<1>3. RowsApart' /\ Finished'
  BY DEF RowsApart, Finished, Quiet
<1>4. RowOwned'
  BY DEF RowOwned, Quiet, Writing, Late, Done
<1>5. RunningIsLive'
  <2> SUFFICES ASSUME NEW i \in 1 .. Len(rows), rows[i].status = "running",
                      rows[i].exec \notin lost'
               PROVE  \E p \in Procs : run'[p].row = i /\ pc'[p] \in Writing
    BY DEF RunningIsLive, Quiet, Writing, Late
  <2>1. PICK p \in Procs : run[p].row = i /\ pc[p] \in Writing
    BY DEF RunningIsLive, Quiet, Writing, Late
  <2>2. run[p].exec = rows[i].exec
    BY <2>1 DEF RowOwned, Writing, Late, NoRow
  <2> QED BY <2>1, <2>2 DEF Quiet, Writing, Early, Late, Done
<1> QED BY <1>1, <1>2, <1>3, <1>4, <1>5

(* Writing to a log, moving latest.log, pruning, a crash and the clock are *)
(* such steps.                                                             *)
LEMMA QuietSteps ==
  ASSUME HInv, NEW p \in Procs,
         Output(p) \/ RemoveLink(p) \/ MakeLink(p) \/ ListLogs(p) \/ RemoveLogs(p)
           \/ Crash(p) \/ Tick
  PROVE  Quiet
<1>1. Shape
  BY DEF HInv
<1>2. CASE Output(p)
  BY <1>1, <1>2 DEF Output, Shape, Quiet, Early, Late
<1>3. CASE Tick
  BY <1>1, <1>3 DEF Tick, Shape, Quiet, Early, Late, recordVars
<1>4. CASE RemoveLink(p) \/ MakeLink(p) \/ ListLogs(p)
  <2>1. UNCHANGED <<now, rows, execs, lost, run>>
    BY <1>4 DEF RemoveLink, MakeLink, ListLogs, recordVars
  <2>2. \E x \in Late \cup Done :
          /\ pc' = [pc EXCEPT ![p] = x]
          /\ (pc[p] \in Late /\ x \in Late) \/ (pc[p] \in Done /\ x \in Done)
    <3>1. \/ pc[p] = "unlink" /\ pc' = [pc EXCEPT ![p] = "link"]
          \/ pc[p] = "link" /\ pc' = [pc EXCEPT ![p] = "finish"]
          \/ pc[p] = "ended" /\ pc' = [pc EXCEPT ![p] = "remove"]
      BY <1>4 DEF RemoveLink, MakeLink, ListLogs, Move
    <3>2. CASE pc[p] = "unlink"
      BY <3>1, <3>2 DEF Late
    <3>3. CASE pc[p] = "link"
      BY <3>1, <3>3 DEF Late
    <3>4. CASE pc[p] = "ended"
      BY <3>1, <3>4 DEF Done
    <3> QED BY <3>1, <3>2, <3>3, <3>4
  <2> QED BY <1>1, <2>1, <2>2 DEF Shape, Quiet, Early, Late, Done, Points
<1>5. CASE RemoveLogs(p)
  <2>1. UNCHANGED <<now, rows, execs, lost>> /\ pc[p] = "remove" /\ pc' = [pc EXCEPT ![p] = "idle"]
    BY <1>5 DEF RemoveLogs, Move
  <2>2. NoRun \in Run
    BY DEF NoRun, Run, NoLog, NoRow
  <2>3. \A q \in Procs : /\ run[q] \in Run /\ [run[q] EXCEPT !.file = NoLog] \in Run
                         /\ [run[q] EXCEPT !.file = NoLog].exec = run[q].exec
                         /\ [run[q] EXCEPT !.file = NoLog].row = run[q].row
    BY <1>1 DEF Shape, Run, NoLog
  <2>4. run' \in [Procs -> Run]
    BY <1>5, <2>2, <2>3 DEF RemoveLogs
  <2>5. \A q \in Procs \ {p} : run'[q].exec = run[q].exec /\ run'[q].row = run[q].row
    BY <1>5, <2>3 DEF RemoveLogs
  <2> QED BY <1>1, <2>1, <2>4, <2>5 DEF Shape, Quiet, Early, Late, Points
<1>6. CASE Crash(p)
  <2>1. UNCHANGED <<now, rows, execs>> /\ pc' = [pc EXCEPT ![p] = "idle"]
        /\ run' = [run EXCEPT ![p] = NoRun] /\ lost' = lost \cup {run[p].exec}
    BY <1>6 DEF Crash, Lose, recordVars
  <2>2. NoRun \in Run
    BY DEF NoRun, Run, NoLog, NoRow
  <2> QED BY <1>1, <2>1, <2>2 DEF Shape, Quiet, Early, Late, Points
<1> QED BY <1>2, <1>3, <1>4, <1>5, <1>6

(* An execution begins: no process and no row is in it yet.                *)
LEMMA OpenLogHInv == ASSUME HInv, NEW p \in Procs, OpenLog(p) PROVE HInv'
<1> DEFINE e == Len(execs) + 1
<1>1. Shape /\ RunsApart /\ RowsApart /\ RowOwned /\ Finished /\ RunningIsLive
  BY DEF HInv
<1>2. UNCHANGED <<now, lost, rows>> /\ pc' = [pc EXCEPT ![p] = "begin"]
      /\ execs' = Append(execs, [at |-> now, outcome |-> "running"])
  BY DEF OpenLog
<1>3. PICK r \in Run : run' = [run EXCEPT ![p] = r] /\ r.exec = e /\ r.row = NoRow
  <2>0. e \in Nat /\ now \in Nat
    BY <1>1 DEF Shape
  <2>1. [NoRun EXCEPT !.exec = e, !.log = now, !.file = now] \in Run
        /\ [NoRun EXCEPT !.exec = e] \in Run
    BY <2>0 DEF Run, NoRun, NoLog, NoRow
  <2>2. [NoRun EXCEPT !.exec = e, !.log = now, !.file = now].exec = e
        /\ [NoRun EXCEPT !.exec = e, !.log = now, !.file = now].row = NoRow
        /\ [NoRun EXCEPT !.exec = e].exec = e /\ [NoRun EXCEPT !.exec = e].row = NoRow
    BY DEF NoRun
  <2>3. \/ run' = [run EXCEPT ![p] = [NoRun EXCEPT !.exec = e, !.log = now, !.file = now]]
        \/ run' = [run EXCEPT ![p] = [NoRun EXCEPT !.exec = e]]
    BY DEF OpenLog, LogName
  <2> QED BY <2>1, <2>2, <2>3
<1>4. [at |-> now, outcome |-> "running"] \in Exec
  BY <1>1 DEF Shape, Exec, Outcomes
<1>5. execs' \in Seq(Exec) /\ Len(execs') = e /\ execs'[e].outcome = "running"
      /\ \A i \in 1 .. Len(execs) : execs'[i] = execs[i]
  BY <1>1, <1>2, <1>4 DEF Shape
<1>6. Shape'
  BY <1>1, <1>2, <1>3, <1>5 DEF Shape, Points
<1>7. Len(execs) \in Nat
  BY <1>1 DEF Shape
<1>8. \A q \in Procs : q # p => pc'[q] = pc[q] /\ run'[q] = run[q]
  BY <1>1, <1>2, <1>3 DEF Shape
<1>9. pc'[p] = "begin" /\ run'[p].exec = e /\ run'[p].row = NoRow
  BY <1>1, <1>2, <1>3 DEF Shape
<1>10. RunsApart'
  <2>1. \A q \in Procs : q # p /\ pc[q] # "idle" => run[q].exec \in 1 .. Len(execs) /\ run[q].exec # e
    BY <1>1, <1>7 DEF RunsApart
  <2> QED BY <1>1, <1>5, <1>7, <1>8, <1>9, <2>1 DEF RunsApart, Early
<1>11. \A i \in 1 .. Len(rows) : rows[i].exec # e
  BY <1>1, <1>7 DEF RowsApart
<1>12. RowsApart' /\ Finished'
  BY <1>1, <1>2, <1>5, <1>7 DEF RowsApart, Finished, Ended
<1>13. RowOwned'
  BY <1>1, <1>2, <1>8, <1>9, <1>11 DEF RowOwned
<1>14. RunningIsLive'
  BY <1>1, <1>2, <1>8 DEF RunningIsLive, OpenLog
<1> QED BY <1>6, <1>10, <1>12, <1>13, <1>14 DEF HInv

(* A row is begun, or a skipped fire is recorded: in a place of its own.   *)
LEMMA BeginHInv == ASSUME HInv, NEW p \in Procs, Begin(p) PROVE HInv'
<1>1. Shape /\ RunsApart /\ RowsApart /\ RowOwned /\ Finished /\ RunningIsLive
  BY DEF HInv
<1>2. UNCHANGED <<now, lost, execs>> /\ pc[p] = "begin" /\ pc' = [pc EXCEPT ![p] = "exec"]
  BY DEF Begin, Move
<1>3. run[p].row = NoRow /\ run[p].exec \in 1 .. Len(execs)
  BY <1>1, <1>2 DEF RunsApart
<1>4. \A i \in 1 .. Len(rows) : rows[i].exec # run[p].exec
  BY <1>1, <1>2, <1>3 DEF RowOwned, NoRow
<1>5. \A q \in Procs : pc'[q] = IF q = p THEN "exec" ELSE pc[q]
  BY <1>1, <1>2 DEF Shape
<1>6. CASE UNCHANGED <<rows, run>>
  <2>1. Shape'
    BY <1>1, <1>2, <1>6 DEF Shape, Points
  <2>2. RunsApart'
    BY <1>1, <1>2, <1>5, <1>6 DEF RunsApart, Early
  <2>3. RowsApart' /\ Finished'
    BY <1>1, <1>2, <1>6 DEF RowsApart, Finished
  <2>4. RowOwned'
    BY <1>1, <1>2, <1>3, <1>4, <1>5, <1>6 DEF RowOwned, Writing, Late
  <2>5. RunningIsLive'
    BY <1>1, <1>2, <1>5, <1>6 DEF RunningIsLive
  <2> QED BY <2>1, <2>2, <2>3, <2>4, <2>5 DEF HInv
<1>7. CASE rows' = Append(rows, [exec |-> run[p].exec, status |-> "running", log |-> run[p].log])
           /\ run' = [run EXCEPT ![p].row = Len(rows) + 1]
  <2> DEFINE n == Len(rows) + 1
             x == [exec |-> run[p].exec, status |-> "running", log |-> run[p].log]
  <2>1. run[p] \in Run /\ x \in Row /\ Len(rows) \in Nat
    BY <1>1 DEF Shape, Run, Row, Outcomes
  <2>2. rows' \in Seq(Row) /\ Len(rows') = n /\ rows'[n] = x
        /\ \A i \in 1 .. Len(rows) : rows'[i] = rows[i]
    BY <1>1, <1>7, <2>1 DEF Shape
  <2>3. run' \in [Procs -> Run] /\ run'[p].row = n /\ run'[p].exec = run[p].exec
        /\ \A q \in Procs : q # p => run'[q] = run[q]
    <3> DEFINE r == [run[p] EXCEPT !.row = n]
    <3>1. r \in Run /\ r.row = n /\ r.exec = run[p].exec
      BY <2>1 DEF Run
    <3>2. run' = [run EXCEPT ![p] = r]
      BY <1>7
    <3> HIDE DEF r
    <3> QED BY <1>1, <3>1, <3>2 DEF Shape
  <2>4. x.exec = run[p].exec /\ x.status = "running"
    OBVIOUS
  <2>5. \A i \in 1 .. n : i \in 1 .. Len(rows) \/ i = n
    BY <2>1
  <2> HIDE DEF n, x
  <2>6. Shape'
    BY <1>1, <1>2, <2>2, <2>3 DEF Shape, Points
  <2>7. RunsApart'
    BY <1>1, <1>2, <1>5, <2>3 DEF RunsApart, Early
  <2>8. RowsApart' /\ Finished'
    BY <1>1, <1>2, <1>3, <1>4, <2>2, <2>4, <2>5 DEF RowsApart, Finished, Ended
  <2>9. n \in Nat \ {0} /\ n \notin 1 .. Len(rows) /\ n \in 1 .. n /\ \A i \in 1 .. Len(rows) : i \in 1 .. n
    BY <2>1 DEF n
  <2>10. RowOwned'
    <3> SUFFICES ASSUME NEW q \in Procs, pc'[q] # "idle"
                 PROVE /\ run'[q].row # NoRow => run'[q].row \in 1 .. n
                                                 /\ rows'[run'[q].row].exec = run'[q].exec
                       /\ \A i \in 1 .. n : rows'[i].exec = run'[q].exec =>
                            run'[q].row = i /\ (pc'[q] \in Writing => rows'[i].status = "running")
      BY <2>2 DEF RowOwned
    <3>1. CASE q = p
      BY <1>4, <2>2, <2>3, <2>4, <2>5, <2>9, <3>1
    <3>2. CASE q # p
      <4>1. pc'[q] = pc[q] /\ run'[q] = run[q] /\ run[q].exec # run[p].exec
        BY <1>1, <1>2, <1>5, <2>3, <3>2 DEF RunsApart
      <4> QED BY <1>1, <2>2, <2>4, <2>5, <2>9, <4>1 DEF RowOwned
    <3> QED BY <3>1, <3>2
  <2>11. RunningIsLive'
    <3> SUFFICES ASSUME NEW i \in 1 .. n, rows'[i].status = "running"
                 PROVE \/ \E q \in Procs : run'[q].row = i
                                           /\ pc'[q] \in {"exec", "unlink", "link", "finish"}
                       \/ rows'[i].exec \in lost'
      BY <2>2 DEF RunningIsLive
    <3>1. CASE i = n
      BY <1>5, <2>3, <3>1
    <3>2. CASE i \in 1 .. Len(rows)
      BY <1>1, <1>2, <1>5, <2>2, <2>3, <3>2 DEF RunningIsLive
    <3> QED BY <2>5, <3>1, <3>2
  <2> QED BY <2>6, <2>7, <2>8, <2>10, <2>11 DEF HInv
<1> QED BY <1>6, <1>7 DEF Begin

(* The outcome of an execution no finished row is about.                   *)
LEMMA EndExecHInv == ASSUME HInv, NEW p \in Procs, EndExec(p) PROVE HInv'
<1> DEFINE e == run[p].exec
<1>1. Shape /\ RunsApart /\ RowsApart /\ RowOwned /\ Finished /\ RunningIsLive
  BY DEF HInv
<1>2. UNCHANGED <<now, lost, rows, run>> /\ pc[p] = "exec"
  BY DEF EndExec
<1>3. PICK x \in Late : pc' = [pc EXCEPT ![p] = x]
  BY DEF EndExec, Late
<1>4. PICK s \in Ended : execs' = [execs EXCEPT ![e].outcome = s]
  BY DEF EndExec
<1>5. e \in 1 .. Len(execs)
  BY <1>1, <1>2 DEF RunsApart
<1>6. execs[e] \in Exec /\ execs \in Seq(Exec)
  BY <1>1, <1>5 DEF Shape
<1>7. PICK y \in Exec : y.outcome = s /\ execs' = [execs EXCEPT ![e] = y]
  <2> DEFINE y == [execs[e] EXCEPT !.outcome = s]
  <2>1. y \in Exec /\ y.outcome = s
    BY <1>6 DEF Exec, Outcomes
  <2>2. execs' = [execs EXCEPT ![e] = y]
    BY <1>4
  <2> QED BY <2>1, <2>2
<1>8. execs' \in Seq(Exec) /\ Len(execs') = Len(execs) /\ execs'[e].outcome = s
      /\ \A i \in 1 .. Len(execs) : i # e => execs'[i] = execs[i]
  BY <1>5, <1>6, <1>7, ExceptSeq
<1>9. \A q \in Procs : pc'[q] = IF q = p THEN x ELSE pc[q]
  BY <1>1, <1>3 DEF Shape
<1>10. s # "running" /\ x # "idle" /\ x # "begin" /\ x \notin Early
  BY DEF Ended, Late, Early
<1>11. Shape'
  BY <1>1, <1>2, <1>3, <1>8 DEF Shape, Points, Late
<1>12. RunsApart'
  BY <1>1, <1>2, <1>5, <1>8, <1>9, <1>10 DEF RunsApart
<1>13. RowsApart'
  BY <1>1, <1>2, <1>8 DEF RowsApart
<1>14. \A i \in 1 .. Len(rows) : rows[i].exec = e => rows[i].status = "running"
  BY <1>1, <1>2 DEF RowOwned, Writing
<1>15. Finished'
  BY <1>1, <1>2, <1>8, <1>14 DEF Finished, RowsApart, Ended
<1>16. RowOwned'
  BY <1>1, <1>2, <1>9, <1>14 DEF RowOwned, Writing
<1>17. RunningIsLive'
  BY <1>1, <1>2, <1>9 DEF RunningIsLive, Late
<1> QED BY <1>11, <1>12, <1>13, <1>15, <1>16, <1>17 DEF HInv

(* The row of an execution gets its outcome, or the execution counts as    *)
(* lost, or it has no row.                                                 *)
LEMMA FinishHInv == ASSUME HInv, NEW p \in Procs, Finish(p) PROVE HInv'
<1> DEFINE n == run[p].row
           o == execs[run[p].exec].outcome
<1>1. Shape /\ RunsApart /\ RowsApart /\ RowOwned /\ Finished /\ RunningIsLive
  BY DEF HInv
<1>2. UNCHANGED <<now, execs, run>> /\ pc[p] = "finish" /\ pc' = [pc EXCEPT ![p] = "ended"]
  BY DEF Finish, Move
<1>3. \A q \in Procs : pc'[q] = IF q = p THEN "ended" ELSE pc[q]
  BY <1>1, <1>2 DEF Shape
<1>8. run[p].exec \in 1 .. Len(execs) /\ o # "running"
  BY <1>1, <1>2 DEF RunsApart, Early
<1>9. execs[run[p].exec] \in Exec
  BY <1>1, <1>8 DEF Shape
<1>4. run[p].exec \in 1 .. Len(execs) /\ o \in Outcomes /\ o # "running"
  BY <1>8, <1>9 DEF Exec
<1>5. RunsApart'
  BY <1>1, <1>2, <1>3 DEF RunsApart, Early
<1>6. CASE UNCHANGED rows /\ lost \subseteq lost' /\ (n # NoRow => run[p].exec \in lost')
  <2>1. Shape'
    BY <1>1, <1>2, <1>6 DEF Shape, Points
  <2>2. RowsApart' /\ Finished'
    BY <1>1, <1>2, <1>6 DEF RowsApart, Finished
  <2>3. RowOwned'
    BY <1>1, <1>2, <1>3, <1>6 DEF RowOwned, Writing, Late
  <2>4. RunningIsLive'
    <3> SUFFICES ASSUME NEW i \in 1 .. Len(rows), rows[i].status = "running",
                        rows[i].exec \notin lost'
                 PROVE  \E q \in Procs : run'[q].row = i /\ pc'[q] \in Writing
      BY <1>6 DEF RunningIsLive, Writing, Late
    <3>1. PICK q \in Procs : run[q].row = i /\ pc[q] \in Writing
      BY <1>1, <1>6 DEF RunningIsLive, Writing, Late
    <3>2. run[q].exec = rows[i].exec
      BY <1>1, <3>1 DEF RowOwned, Writing, Late, NoRow
    <3>3. q # p
      BY <1>6, <3>1, <3>2 DEF NoRow
    <3> QED BY <1>2, <1>3, <3>1, <3>3
  <2> QED BY <1>5, <2>1, <2>2, <2>3, <2>4 DEF HInv
<1>7. CASE n # NoRow /\ rows' = [rows EXCEPT ![n].status = o] /\ UNCHANGED lost
  <2>1. n \in 1 .. Len(rows) /\ rows[n].exec = run[p].exec /\ rows[n].status = "running"
    BY <1>1, <1>2, <1>7 DEF RowOwned, Writing, Late
  <2>2. rows[n] \in Row /\ rows \in Seq(Row)
    BY <1>1, <2>1 DEF Shape
  <2>3. PICK y \in Row : /\ y.status = o /\ y.exec = run[p].exec
                         /\ rows' = [rows EXCEPT ![n] = y]
    <3> DEFINE y == [rows[n] EXCEPT !.status = o]
    <3> HIDE DEF o
    <3>1. y \in Row /\ y.status = o /\ y.exec = rows[n].exec
      BY <1>4, <2>2 DEF Row
    <3>2. rows' = [rows EXCEPT ![n] = y]
      BY <1>7
    <3> QED BY <2>1, <3>1, <3>2
  <2>4. rows' \in Seq(Row) /\ Len(rows') = Len(rows) /\ rows'[n] = y
        /\ \A i \in 1 .. Len(rows) : i # n => rows'[i] = rows[i]
    BY <2>1, <2>2, <2>3, ExceptSeq
  <2>5. o \in Ended
    BY <1>4 DEF Outcomes
  <2>6. Shape'
    BY <1>1, <1>2, <2>4 DEF Shape, Points
  <2>7. RowsApart'
    BY <1>1, <1>2, <1>4, <2>1, <2>3, <2>4, <2>5 DEF RowsApart, Ended
  <2>8. Finished'
    BY <1>1, <1>2, <2>1, <2>3, <2>4 DEF Finished
  <2>9. \A i \in 1 .. Len(rows) : i # n => rows[i].exec # run[p].exec
    BY <1>1, <1>2, <1>7 DEF RowOwned
  <2>10. RowOwned'
    <3> SUFFICES ASSUME NEW q \in Procs, pc'[q] # "idle"
                 PROVE /\ run[q].row # NoRow => run[q].row \in 1 .. Len(rows)
                                                /\ rows'[run[q].row].exec = run[q].exec
                       /\ \A i \in 1 .. Len(rows) : rows'[i].exec = run[q].exec =>
                            run[q].row = i /\ (pc'[q] \in Writing => rows'[i].status = "running")
      BY <1>2, <2>4 DEF RowOwned
    <3>1. CASE q = p
      BY <1>3, <2>1, <2>3, <2>4, <2>9, <3>1 DEF Writing, Late
    <3>2. CASE q # p
      <4>1. pc'[q] = pc[q] /\ run[q].exec # run[p].exec
        BY <1>1, <1>2, <1>3, <3>2 DEF RunsApart
      <4> QED BY <1>1, <2>1, <2>3, <2>4, <4>1 DEF RowOwned
    <3> QED BY <3>1, <3>2
  <2>11. RunningIsLive'
    <3> SUFFICES ASSUME NEW i \in 1 .. Len(rows), rows'[i].status = "running"
                 PROVE \/ \E q \in Procs : run[q].row = i
                                           /\ pc'[q] \in {"exec", "unlink", "link", "finish"}
                       \/ rows'[i].exec \in lost
      BY <1>2, <1>7, <2>4 DEF RunningIsLive
    <3>1. i # n
      BY <1>4, <2>3, <2>4
    <3> QED BY <1>1, <1>3, <2>4, <3>1 DEF RunningIsLive
  <2> QED BY <1>5, <2>6, <2>7, <2>8, <2>10, <2>11 DEF HInv
<1> QED BY <1>6, <1>7 DEF Finish, Lose

(* A skipped fire's row is nobody's.                                       *)
LEMMA SkipHInv == ASSUME HInv, NEW p \in Procs, Skip(p) PROVE HInv'
<1> DEFINE n == Len(rows) + 1
           x == [exec |-> 0, status |-> "skipped", log |-> NoLog]
<1>1. Shape /\ RunsApart /\ RowsApart /\ RowOwned /\ Finished /\ RunningIsLive
  BY DEF HInv
<1>2. UNCHANGED <<now, lost, execs, pc, run>> /\ rows' = Append(rows, x)
  BY DEF Skip
<1>3. x \in Row /\ Len(rows) \in Nat /\ x.exec = 0 /\ x.status = "skipped"
  BY <1>1 DEF Shape, Row, NoLog
<1>4. rows' \in Seq(Row) /\ Len(rows') = n /\ rows'[n] = x
      /\ \A i \in 1 .. Len(rows) : rows'[i] = rows[i]
  BY <1>1, <1>2, <1>3 DEF Shape
<1>5. /\ \A i \in 1 .. n : i \in 1 .. Len(rows) \/ i = n
      /\ \A i \in 1 .. Len(rows) : i \in 1 .. n
  BY <1>3
<1> HIDE DEF n, x
<1>6. Shape' /\ RunsApart'
  BY <1>1, <1>2, <1>4 DEF Shape, RunsApart
<1>7. RowsApart' /\ Finished'
  BY <1>1, <1>2, <1>3, <1>4, <1>5 DEF RowsApart, Finished, Ended
<1>8. \A q \in Procs : pc[q] # "idle" => run[q].exec # 0
  BY <1>1 DEF RunsApart
<1>9. RowOwned'
  BY <1>1, <1>2, <1>3, <1>4, <1>5, <1>8 DEF RowOwned
<1>10. RunningIsLive'
  BY <1>1, <1>2, <1>3, <1>4, <1>5 DEF RunningIsLive
<1> QED BY <1>6, <1>7, <1>9, <1>10 DEF HInv

(* The invariant is inductive.                                             *)
LEMMA HInvInductive == HInv /\ [Next]_vars => HInv'
<1>1. ASSUME HInv, UNCHANGED vars PROVE HInv'
  BY <1>1 DEF vars, recordVars, HInv, Shape, RunsApart, RowsApart, RowOwned, Finished,
              RunningIsLive
<1>2. ASSUME HInv, Tick PROVE HInv'
  <2>1. CASE Procs = {}
    BY <1>2, <2>1 DEF Tick, recordVars, HInv, Shape, RunsApart, RowsApart, RowOwned, Finished,
                      RunningIsLive
  <2>2. CASE Procs # {}
    BY <1>2, <2>2, QuietSteps, QuietHInv
  <2> QED BY <2>1, <2>2
<1>3. ASSUME HInv, NEW p \in Procs, ProcStep(p) PROVE HInv'
  BY <1>3, OpenLogHInv, BeginHInv, EndExecHInv, FinishHInv, SkipHInv, QuietSteps, QuietHInv
     DEF ProcStep
<1> QED BY <1>1, <1>2, <1>3 DEF Next

(* Every run of the processes keeps the invariant.                         *)
THEOREM Invariance == Spec => []HInv
BY InitHInv, HInvInductive, PTL DEF Spec

-----------------------------------------------------------------------------
(* The types.                                                              *)

(* A process in a run has an execution, and there are not too many.        *)
LEMMA ExecBounds ==
  ASSUME HInv, TypeOK, NEW p \in Procs, pc[p] # "idle"
  PROVE  run[p].exec \in 1 .. MaxExecs /\ run[p].exec \in 1 .. Len(execs)
<1>1. Len(execs) \in Nat /\ Len(execs) <= MaxExecs /\ MaxExecs \in Nat
  BY RecordsAssumption DEF TypeOK
<1>2. run[p].exec \in 1 .. Len(execs)
  BY DEF HInv, RunsApart
<1> QED BY <1>1, <1>2

(* Writing to a file makes it the newest.                                  *)
LEMMA TouchType ==
  ASSUME TypeOK, NEW s \in Seconds, Touch(s)
  PROVE  files' \subseteq Seconds /\ before' \subseteq files' \X files'
BY DEF Touch, TypeOK

(* Writing to a log keeps the files' types.                                *)
LEMMA WriteType ==
  ASSUME HInv, TypeOK, NEW p \in Procs, pc[p] # "idle", Write(p)
  PROVE  /\ files' \subseteq Seconds /\ before' \subseteq files' \X files'
         /\ text' \in [Seconds -> SUBSET (1 .. MaxExecs)]
<1>1. CASE run[p].file = NoLog
  BY <1>1 DEF Write, fileVars, TypeOK
<1>2. CASE run[p].file # NoLog
  <2>1. run[p].file \in Seconds
    BY <1>2 DEF TypeOK
  <2>2. text' \in [Seconds -> SUBSET (1 .. MaxExecs)]
    <3> DEFINE u == text[run[p].file] \cup {run[p].exec}
    <3>1. text \in [Seconds -> SUBSET (1 .. MaxExecs)] /\ u \in SUBSET (1 .. MaxExecs)
      BY <2>1, ExecBounds DEF TypeOK
    <3>2. text' = [text EXCEPT ![run[p].file] = u]
      BY <1>2 DEF Write
    <3> HIDE DEF u
    <3> QED BY <3>1, <3>2
  <2> QED BY <1>2, <2>1, <2>2, TouchType DEF Write
<1> QED BY <1>1, <1>2

(* What a run is, an execution and a row.                                  *)
RunType == [exec : 0 .. MaxExecs, log : Seconds \cup {NoLog},
            file : Seconds \cup {NoLog}, row : Nat]

(* Every step keeps the types.                                             *)
LEMMA TypeStep == HInv /\ TypeOK /\ [Next]_vars => TypeOK'
<1> SUFFICES ASSUME HInv, TypeOK, [Next]_vars PROVE TypeOK'
  OBVIOUS
<1>0. MaxExecs \in Nat /\ MaxTime \in Nat \ {0}
  BY RecordsAssumption
<1>1. CASE UNCHANGED vars
  BY <1>1 DEF vars, recordVars, fileVars, TypeOK
<1>2. CASE Tick
  BY <1>0, <1>2 DEF Tick, recordVars, fileVars, TypeOK, Seconds
<1>3. ASSUME NEW p \in Procs, OpenLog(p) PROVE TypeOK'
  <2> DEFINE e == Len(execs) + 1
             x == [at |-> now, outcome |-> "running"]
  <2>1. e \in 1 .. MaxExecs /\ x \in Execs
    BY <1>0, <1>3 DEF OpenLog, TypeOK, Execs
  <2>2. execs' \in Seq(Execs) /\ Len(execs') <= MaxExecs
    BY <1>3, <2>1 DEF OpenLog, TypeOK
  <2>3. run' \in [Procs -> RunType]
    <3> DEFINE r == [NoRun EXCEPT !.exec = e, !.log = now, !.file = now]
               q == [NoRun EXCEPT !.exec = e]
    <3>0. e \in 0 .. MaxExecs /\ 0 \in Nat /\ now \in Seconds
      BY <1>0, <2>1 DEF TypeOK
    <3>1. r \in RunType /\ q \in RunType
      <4> HIDE DEF e
      <4> QED BY <3>0 DEF RunType, NoRun, NoRow, NoLog
    <3>2. run' = [run EXCEPT ![p] = r] \/ run' = [run EXCEPT ![p] = q]
      BY <1>3 DEF OpenLog, LogName
    <3> HIDE DEF r, q
    <3> QED BY <3>1, <3>2 DEF TypeOK, RunType
  <2>4. /\ files' \subseteq Seconds /\ before' \subseteq files' \X files'
        /\ text' \in [Seconds -> SUBSET (1 .. MaxExecs)]
    <3>1. CASE UNCHANGED fileVars
      BY <3>1 DEF fileVars, TypeOK
    <3>2. CASE Touch(now) /\ text' = [text EXCEPT ![now] = {e}]
      BY <2>1, <3>2, TouchType DEF TypeOK
    <3> QED BY <1>3, <3>1, <3>2 DEF OpenLog, LogName
  <2>5. pc' \in [Procs -> Points]
    BY <1>3 DEF OpenLog, TypeOK, Points
  <2> QED BY <1>3, <2>2, <2>3, <2>4, <2>5 DEF OpenLog, TypeOK, RunType
<1>4. ASSUME NEW p \in Procs, Begin(p) PROVE TypeOK'
  <2>1. pc' \in [Procs -> Points] /\ pc[p] = "begin"
    BY <1>4 DEF Begin, Move, TypeOK, Points
  <2> DEFINE x == [exec |-> run[p].exec, status |-> "running", log |-> run[p].log]
  <2>2. x \in Rows /\ rows \in Seq(Rows) /\ (rows' = rows \/ rows' = Append(rows, x))
    BY <1>4 DEF Begin, TypeOK, Rows
  <2> HIDE DEF x
  <2>3. rows' \in Seq(Rows) /\ Len(rows) + 1 \in Nat
    BY <2>2
  <2>4. run' \in [Procs -> RunType]
    <3> DEFINE r == [run[p] EXCEPT !.row = Len(rows) + 1]
    <3>1. r \in RunType
      BY <2>3 DEF TypeOK, RunType
    <3>2. run' = run \/ run' = [run EXCEPT ![p] = r]
      BY <1>4 DEF Begin
    <3> HIDE DEF r
    <3> QED BY <3>1, <3>2 DEF TypeOK, RunType
  <2> QED BY <1>4, <2>1, <2>3, <2>4 DEF Begin, fileVars, TypeOK, RunType
<1>5. ASSUME NEW p \in Procs, Output(p) PROVE TypeOK'
  <2>1. pc[p] # "idle" /\ Write(p)
    BY <1>5 DEF Output
  <2> QED BY <1>5, <2>1, WriteType DEF Output, TypeOK
<1>6. ASSUME NEW p \in Procs, EndExec(p) PROVE TypeOK'
  <2>1. pc[p] # "idle" /\ Write(p)
    BY <1>6 DEF EndExec
  <2>2. pc' \in [Procs -> Points]
    BY <1>6 DEF EndExec, TypeOK, Points
  <2>3. execs' \in Seq(Execs) /\ Len(execs') <= MaxExecs
    <3>1. PICK s \in Ended : execs' = [execs EXCEPT ![run[p].exec].outcome = s]
      BY <1>6 DEF EndExec
    <3> DEFINE y == [execs[run[p].exec] EXCEPT !.outcome = s]
    <3>2. run[p].exec \in 1 .. Len(execs) /\ execs \in Seq(Execs)
      BY <2>1, ExecBounds DEF TypeOK
    <3>3. y \in Execs
      <4>1. execs[run[p].exec] \in Execs
        BY <3>2
      <4> QED BY <4>1 DEF Execs
    <3>4. execs' = [execs EXCEPT ![run[p].exec] = y]
      BY <3>1
    <3> HIDE DEF y
    <3> QED BY <3>2, <3>3, <3>4, ExceptSeq DEF TypeOK
  <2> QED BY <1>6, <2>1, <2>2, <2>3, WriteType DEF EndExec, TypeOK
<1>7. ASSUME NEW p \in Procs, RemoveLink(p) \/ MakeLink(p) PROVE TypeOK'
  BY <1>7 DEF RemoveLink, MakeLink, Move, fileVars, TypeOK, Points
<1>8. ASSUME NEW p \in Procs, Finish(p) PROVE TypeOK'
  <2>1. pc' \in [Procs -> Points] /\ pc[p] # "idle" /\ pc[p] = "finish"
    BY <1>8 DEF Finish, Move, TypeOK, Points
  <2>2. lost' \subseteq 1 .. MaxExecs
    BY <1>8, <2>1, ExecBounds DEF Finish, Lose, TypeOK
  <2>3. rows' \in Seq(Rows)
    <3> DEFINE n == run[p].row
               o == execs[run[p].exec].outcome
               y == [rows[n] EXCEPT !.status = o]
    <3>1. rows' = rows \/ (n # NoRow /\ rows' = [rows EXCEPT ![n] = y])
      BY <1>8 DEF Finish
    <3>2. CASE n # NoRow
      <4>1. n \in 1 .. Len(rows) /\ rows \in Seq(Rows)
        BY <2>1, <3>2 DEF HInv, RowOwned, TypeOK
      <4>2. o \in Ended \cup {"running"}
        <5>1. run[p].exec \in 1 .. Len(execs) /\ execs \in Seq(Execs)
          BY <2>1, ExecBounds DEF TypeOK
        <5>2. execs[run[p].exec] \in Execs
          BY <5>1
        <5> QED BY <5>2 DEF Execs
      <4>3. y \in Rows
        <5>1. rows[n] \in Rows
          BY <4>1
        <5> HIDE DEF o
        <5> QED BY <4>2, <5>1 DEF Rows
      <4> HIDE DEF y
      <4> QED BY <3>1, <4>1, <4>3, ExceptSeq
    <3> QED BY <3>1, <3>2 DEF TypeOK
  <2> QED BY <1>8, <2>1, <2>2, <2>3 DEF Finish, fileVars, TypeOK
<1>9. ASSUME NEW p \in Procs, ListLogs(p) PROVE TypeOK'
  BY <1>9 DEF ListLogs, Move, recordVars, fileVars, Beyond, TypeOK, Points
<1>10. ASSUME NEW p \in Procs, RemoveLogs(p) PROVE TypeOK'
  <2>1. /\ pc' \in [Procs -> Points] /\ files' \subseteq Seconds
        /\ before' \subseteq files' \X files'
        /\ text' \in [Seconds -> SUBSET (1 .. MaxExecs)]
        /\ victims' \in [Procs -> SUBSET Seconds]
    BY <1>10 DEF RemoveLogs, Move, TypeOK, Points
  <2>2. run' \in [Procs -> RunType]
    <3>1. NoRun \in RunType
      BY <1>0 DEF NoRun, RunType, NoRow, NoLog
    <3>2. \A q \in Procs : run[q] \in RunType /\ [run[q] EXCEPT !.file = NoLog] \in RunType
      BY DEF TypeOK, RunType
    <3> QED BY <1>10, <3>1, <3>2 DEF RemoveLogs
  <2> QED BY <1>10, <2>1, <2>2 DEF RemoveLogs, TypeOK, RunType
<1>11. ASSUME NEW p \in Procs, Skip(p) PROVE TypeOK'
  <2>1. [exec |-> 0, status |-> "skipped", log |-> NoLog] \in Rows
    BY <1>0 DEF Rows
  <2> QED BY <1>11, <2>1 DEF Skip, fileVars, TypeOK
<1>12. ASSUME NEW p \in Procs, Crash(p) PROVE TypeOK'
  <2>1. NoRun \in RunType
    BY <1>0 DEF NoRun, RunType, NoRow, NoLog
  <2>2. lost' \subseteq 1 .. MaxExecs
    BY <1>12, ExecBounds DEF Crash, Lose, TypeOK
  <2> QED BY <1>12, <2>1, <2>2 DEF Crash, recordVars, fileVars, TypeOK, RunType, Points
<1> QED
  BY <1>1, <1>2, <1>3, <1>4, <1>5, <1>6, <1>7, <1>8, <1>9, <1>10, <1>11, <1>12
  DEF Next, ProcStep

(* A finished row has the outcome of its own execution, whatever the other *)
(* fires and processes have written, and an execution has one row at most. *)
THEOREM HistoryIsTruthful == Spec => []HistoryTruthful
<1>1. HInv => HistoryTruthful
  BY DEF HInv, RowsApart, Finished, HistoryTruthful, Ended
<1> QED BY <1>1, Invariance, PTL

(* A row says "running" only of an execution under way or counted as lost. *)
THEOREM RunningRowsLive == Spec => []RunningIsLive
BY Invariance, PTL DEF HInv

(* The variables keep their types.                                         *)
THEOREM TypeCorrect == Spec => []TypeOK
<1>1. Init => TypeOK
  <2> SUFFICES ASSUME Init PROVE TypeOK
    OBVIOUS
  <2>1. now \in Seconds /\ Len(execs) <= MaxExecs
    BY RecordsAssumption DEF Init, Seconds
  <2>2. NoRun \in RunType
    BY RecordsAssumption DEF NoRun, RunType, NoRow, NoLog
  <2>3. execs \in Seq(Execs) /\ rows \in Seq(Rows)
    BY DEF Init
  <2> QED BY <2>1, <2>2, <2>3 DEF Init, TypeOK, RunType, Points
<1> QED BY <1>1, TypeStep, Invariance, PTL DEF Spec

-----------------------------------------------------------------------------
(* What the log files hold.                                                *)

(* File s has output of execution d, or of a later one.                    *)
HasOutput(s, d) == \E e \in text[s] : e >= d

(* A run writes to the file of its execution's second, or to none, and so  *)
(* does a row name it; a file that exists has output of executions that    *)
(* began in its second, and of one no older than any run or row that names *)
(* it.                                                                     *)
LogsOwned ==
  /\ \A p \in Procs : pc[p] # "idle" =>
       /\ run[p].log \in {NoLog, execs[run[p].exec].at}
       /\ run[p].file # NoLog => run[p].file = run[p].log /\ run[p].file \in files
       /\ run[p].log \in files => HasOutput(run[p].log, run[p].exec)
  /\ \A i \in 1 .. Len(rows) : rows[i].log # NoLog =>
       /\ rows[i].exec \in 1 .. Len(execs) /\ rows[i].log = execs[rows[i].exec].at
       /\ rows[i].log \in files => HasOutput(rows[i].log, rows[i].exec)
  /\ \A s \in files : \A e \in text[s] : e \in 1 .. Len(execs) /\ execs[e].at = s

(* Files keep what they have; what they get is of their second.            *)
Grows ==
  /\ files' = files
  /\ \A s \in files :
       /\ text[s] \subseteq text'[s]
       /\ \A e \in text'[s] : e \in 1 .. Len(execs) /\ execs[e].at = s

(* So is an execution's output.                                            *)
LEMMA WriteGrows ==
  ASSUME HInv, TypeOK, LogsOwned, NEW p \in Procs, pc[p] # "idle", Write(p)
  PROVE  Grows
<1>1. CASE run[p].file = NoLog
  BY <1>1 DEF Write, fileVars, LogsOwned, Grows
<1>2. CASE run[p].file # NoLog
  <2> DEFINE s == run[p].file
             e == run[p].exec
  <2>1. s \in files /\ s \in Seconds /\ e \in 1 .. Len(execs) /\ s = execs[e].at
    BY <1>2, ExecBounds DEF LogsOwned, TypeOK
  <2>2. text \in [Seconds -> SUBSET (1 .. MaxExecs)] /\ files \subseteq Seconds
    BY DEF TypeOK
  <2>3. Touch(s) /\ text' = [text EXCEPT ![s] = text[s] \cup {e}]
    BY <1>2 DEF Write
  <2>4. \A t \in files : \A d \in text[t] : d \in 1 .. Len(execs) /\ execs[d].at = t
    BY DEF LogsOwned
  <2> HIDE DEF s, e
  <2>5. files' = files
    BY <2>1, <2>3 DEF Touch
  <2>6. \A t \in files : text'[t] = IF t = s THEN text[t] \cup {e} ELSE text[t]
    BY <2>2, <2>3
  <2>7. \A t \in files : \A d \in text'[t] : d \in 1 .. Len(execs) /\ execs[d].at = t
    <3> SUFFICES ASSUME NEW t \in files, NEW d \in text'[t]
                 PROVE  d \in 1 .. Len(execs) /\ execs[d].at = t
      OBVIOUS
    <3>1. d \in text[t] \/ (t = s /\ d = e)
      BY <2>6
    <3> QED BY <2>1, <2>4, <3>1
  <2> QED BY <2>5, <2>6, <2>7 DEF Grows
<1> QED BY <1>1, <1>2

(* Steps that begin no execution and no row and only add to files.         *)
Settled ==
  /\ Grows
  /\ Len(execs') = Len(execs) /\ Len(rows') = Len(rows)
  /\ \A e \in 1 .. Len(execs) : execs'[e].at = execs[e].at
  /\ \A i \in 1 .. Len(rows) : rows'[i].log = rows[i].log /\ rows'[i].exec = rows[i].exec
  /\ \A p \in Procs : pc'[p] # "idle" =>
       /\ pc[p] # "idle" /\ run'[p].exec = run[p].exec
       /\ run'[p].log = run[p].log /\ run'[p].file = run[p].file

(* Such a step keeps what the files hold.                                  *)
LEMMA SettledLogs == ASSUME HInv, LogsOwned, Settled PROVE LogsOwned'
<1>1. \A p \in Procs : pc[p] # "idle" => run[p].exec \in 1 .. Len(execs)
  BY DEF HInv, RunsApart
<1>2. /\ files' = files
      /\ \A s \in files' : \A e \in text'[s] : e \in 1 .. Len(execs') /\ execs'[e].at = s
  BY DEF Settled, Grows
<1>3. \A s \in files : \A d : HasOutput(s, d) => HasOutput(s, d)'
  BY DEF Settled, Grows, HasOutput
<1>4. \A p \in Procs : pc'[p] # "idle" =>
       /\ run'[p].log \in {NoLog, execs'[run'[p].exec].at}
       /\ run'[p].file # NoLog => run'[p].file = run'[p].log /\ run'[p].file \in files'
       /\ run'[p].log \in files' => HasOutput(run[p].log, run[p].exec)'
  BY <1>1, <1>2, <1>3 DEF LogsOwned, Settled
<1>5. \A i \in 1 .. Len(rows') : rows'[i].log # NoLog =>
       /\ rows'[i].exec \in 1 .. Len(execs') /\ rows'[i].log = execs'[rows'[i].exec].at
       /\ rows'[i].log \in files' => HasOutput(rows[i].log, rows[i].exec)'
  BY <1>2, <1>3 DEF LogsOwned, Settled
<1> QED BY <1>2, <1>4, <1>5 DEF LogsOwned

(* Which steps these are.                                                  *)
LEMMA SettledSteps ==
  ASSUME HInv, TypeOK, LogsOwned, NEW p \in Procs,
         Output(p) \/ EndExec(p) \/ RemoveLink(p) \/ MakeLink(p) \/ Finish(p) \/ ListLogs(p)
           \/ Crash(p)
  PROVE  Settled
<1>0. pc \in [Procs -> Points] /\ DOMAIN run = Procs
  BY DEF TypeOK
<1>6. UNCHANGED <<files, text>> => Grows
  BY DEF LogsOwned, Grows
<1>1. CASE Output(p)
  <2>1. Grows
    BY <1>1, WriteGrows DEF Output
  <2> QED BY <1>1, <2>1 DEF Output, Settled
<1>2. CASE EndExec(p)
  <2>1. Grows
    BY <1>2, WriteGrows DEF EndExec
  <2>2. UNCHANGED <<rows, run>>
    BY <1>2 DEF EndExec
  <2>3. \A q \in Procs : pc'[q] # "idle" => pc[q] # "idle"
    BY <1>0, <1>2 DEF EndExec
  <2>4. Len(execs') = Len(execs) /\ \A e \in 1 .. Len(execs) : execs'[e].at = execs[e].at
    <3>1. PICK s \in Ended : execs' = [execs EXCEPT ![run[p].exec].outcome = s]
      BY <1>2 DEF EndExec
    <3> DEFINE y == [execs[run[p].exec] EXCEPT !.outcome = s]
    <3>2. run[p].exec \in 1 .. Len(execs) /\ execs \in Seq(Execs)
      BY <1>2, ExecBounds DEF EndExec, TypeOK
    <3>3. execs[run[p].exec] \in Execs
      BY <3>2
    <3>4. y \in Execs /\ y.at = execs[run[p].exec].at
      BY <3>3 DEF Execs
    <3>5. execs' = [execs EXCEPT ![run[p].exec] = y]
      BY <3>1
    <3> HIDE DEF y
    <3> QED BY <3>2, <3>4, <3>5, ExceptSeq
  <2> QED BY <2>1, <2>2, <2>3, <2>4 DEF Settled
<1>3. CASE RemoveLink(p) \/ MakeLink(p) \/ ListLogs(p)
  <2>1. UNCHANGED <<files, text, execs, rows, run>>
    BY <1>3 DEF RemoveLink, MakeLink, ListLogs, recordVars, fileVars
  <2>2. \A q \in Procs : pc'[q] # "idle" => pc[q] # "idle"
    BY <1>0, <1>3 DEF RemoveLink, MakeLink, ListLogs, Move
  <2> QED BY <1>6, <2>1, <2>2 DEF Settled
<1>4. CASE Finish(p)
  <2>1. UNCHANGED <<files, text, execs, run>>
    BY <1>4 DEF Finish, fileVars
  <2>2. \A q \in Procs : pc'[q] # "idle" => pc[q] # "idle"
    BY <1>0, <1>4 DEF Finish, Move
  <2>3. /\ Len(rows') = Len(rows)
        /\ \A i \in 1 .. Len(rows) : rows'[i].log = rows[i].log /\ rows'[i].exec = rows[i].exec
    <3> DEFINE n == run[p].row
               o == execs[run[p].exec].outcome
               y == [rows[n] EXCEPT !.status = o]
    <3>1. rows' = rows \/ (n # NoRow /\ rows' = [rows EXCEPT ![n] = y])
      BY <1>4 DEF Finish
    <3>2. CASE n # NoRow
      <4>1. n \in 1 .. Len(rows) /\ rows \in Seq(Rows)
        BY <1>4, <3>2 DEF HInv, RowOwned, TypeOK, Finish, Move
      <4>2. rows[n] \in Rows
        BY <4>1
      <4>3. o \in Ended \cup {"running"}
        <5>1. run[p].exec \in 1 .. Len(execs) /\ execs \in Seq(Execs)
          BY <1>4, ExecBounds DEF TypeOK, Finish, Move
        <5>2. execs[run[p].exec] \in Execs
          BY <5>1
        <5> QED BY <5>2 DEF Execs
      <4>4. y \in Rows /\ y.log = rows[n].log /\ y.exec = rows[n].exec
        <5> HIDE DEF o
        <5> QED BY <4>2, <4>3 DEF Rows
      <4> HIDE DEF y
      <4> QED BY <3>1, <4>1, <4>4, ExceptSeq
    <3> QED BY <3>1, <3>2
  <2> QED BY <1>6, <2>1, <2>2, <2>3 DEF Settled
<1>5. CASE Crash(p)
  BY <1>0, <1>5, <1>6 DEF Crash, recordVars, fileVars, Settled
<1> QED BY <1>1, <1>2, <1>3, <1>4, <1>5

(* Every step keeps it.                                                    *)
LEMMA LogsStep == HInv /\ TypeOK /\ LogsOwned /\ [Next]_vars => LogsOwned'
<1> SUFFICES ASSUME HInv, TypeOK, LogsOwned, [Next]_vars PROVE LogsOwned'
  OBVIOUS
<1>0. /\ pc \in [Procs -> Points] /\ DOMAIN run = Procs /\ Len(execs) \in Nat /\ Len(rows) \in Nat
      /\ \A p \in Procs : pc[p] # "idle" => run[p].exec \in 1 .. Len(execs)
  BY DEF TypeOK, HInv, RunsApart
<1>1. CASE UNCHANGED vars \/ Tick
  BY <1>1 DEF vars, Tick, recordVars, fileVars, LogsOwned, HasOutput
<1>2. ASSUME NEW p \in Procs, OpenLog(p) PROVE LogsOwned'
  <2> DEFINE n == Len(execs) + 1
             x == [at |-> now, outcome |-> "running"]
             r == [NoRun EXCEPT !.exec = n, !.log = now, !.file = now]
             q == [NoRun EXCEPT !.exec = n]
  <2>1. /\ execs \in Seq(Execs) /\ x \in Execs /\ execs' = Append(execs, x) /\ x.at = now
    BY <1>2 DEF OpenLog, TypeOK, Execs
  <2>2. now \in Seconds /\ now # NoLog
    BY DEF TypeOK, Seconds, NoLog
  <2>3. r.exec = n /\ r.log = now /\ r.file = now /\ q.exec = n /\ q.log = NoLog /\ q.file = NoLog
    BY DEF NoRun
  <2>4. /\ pc'[p] = "begin" /\ rows' = rows
        /\ \A o \in Procs : o # p => pc'[o] = pc[o] /\ run'[o] = run[o]
    BY <1>0, <1>2 DEF OpenLog
  <2>5. \/ /\ files' = files \cup {now} /\ text' = [text EXCEPT ![now] = {n}] /\ run'[p] = r
        \/ /\ UNCHANGED <<files, text>> /\ run'[p] = q
    BY <1>0, <1>2 DEF OpenLog, LogName, Touch, fileVars
  <2> HIDE DEF x, r, q
  <2>6. /\ Len(execs') = n /\ execs'[n].at = now
        /\ \A e \in 1 .. Len(execs) : execs'[e].at = execs[e].at
        /\ \A e \in 1 .. n : e = n \/ e \in 1 .. Len(execs)
        /\ \A e \in 1 .. Len(execs) : e \in 1 .. n
        /\ n \in 1 .. n /\ \A e \in 1 .. n : n >= e
    BY <1>0, <2>1
  <2>11. text \in [Seconds -> SUBSET (1 .. MaxExecs)] /\ files \subseteq Seconds /\ NoLog \notin files
    BY DEF TypeOK, Seconds, NoLog
  <2> HIDE DEF n
  <2>7. \A s \in files' : \A d \in 1 .. n :
          (s \in files => HasOutput(s, d)) => \E e \in text'[s] : e >= d
    <3> SUFFICES ASSUME NEW s \in files', NEW d \in 1 .. n, s \in files => HasOutput(s, d)
                 PROVE  \E e \in text'[s] : e >= d
      OBVIOUS
    <3>1. CASE s = now /\ text' = [text EXCEPT ![now] = {n}]
      BY <2>2, <2>6, <2>11, <3>1
    <3>2. CASE s \in files /\ text'[s] = text[s]
      BY <3>2 DEF HasOutput
    <3> QED BY <2>5, <2>11, <3>1, <3>2
  <2>8. \A o \in Procs : pc'[o] # "idle" =>
          /\ run'[o].log \in {NoLog, execs'[run'[o].exec].at}
          /\ run'[o].file # NoLog => run'[o].file = run'[o].log /\ run'[o].file \in files'
          /\ run'[o].log \in files' => \E e \in text'[run'[o].log] : e >= run'[o].exec
    <3>1. ASSUME NEW o \in Procs, o # p, pc'[o] # "idle"
          PROVE  /\ run'[o].log \in {NoLog, execs'[run'[o].exec].at}
                 /\ run'[o].file # NoLog => run'[o].file = run'[o].log /\ run'[o].file \in files'
                 /\ run'[o].log \in files' => \E e \in text'[run'[o].log] : e >= run'[o].exec
      <4>1. run'[o] = run[o] /\ pc[o] # "idle" /\ files \subseteq files'
        BY <2>4, <2>5, <3>1
      <4>2. run[o].exec \in 1 .. Len(execs) /\ run[o].exec \in 1 .. n
        BY <1>0, <2>6, <4>1
      <4>3. /\ run[o].log \in {NoLog, execs[run[o].exec].at}
            /\ run[o].file # NoLog => run[o].file = run[o].log /\ run[o].file \in files
            /\ run[o].log \in files => HasOutput(run[o].log, run[o].exec)
        BY <4>1 DEF LogsOwned
      <4> QED BY <2>6, <2>7, <4>1, <4>2, <4>3
    <3>2. CASE run'[p] = r /\ files' = files \cup {now} /\ text' = [text EXCEPT ![now] = {n}]
      <4>1. text'[now] = {n} /\ n >= n
        BY <2>2, <2>6, <2>11, <3>2
      <4> QED BY <2>3, <2>6, <3>1, <3>2, <4>1
    <3>3. CASE run'[p] = q /\ files' = files
      BY <2>3, <2>11, <3>1, <3>3
    <3> QED BY <2>5, <3>2, <3>3
  <2>9. \A i \in 1 .. Len(rows') : rows'[i].log # NoLog =>
          /\ rows'[i].exec \in 1 .. Len(execs') /\ rows'[i].log = execs'[rows'[i].exec].at
          /\ rows'[i].log \in files' => \E e \in text'[rows'[i].log] : e >= rows'[i].exec
    BY <2>4, <2>6, <2>7 DEF LogsOwned
  <2>10. \A s \in files' : \A e \in text'[s] : e \in 1 .. Len(execs') /\ execs'[e].at = s
    <3> SUFFICES ASSUME NEW s \in files', NEW e \in text'[s]
                 PROVE  e \in 1 .. Len(execs') /\ execs'[e].at = s
      OBVIOUS
    <3>1. CASE s = now /\ text' = [text EXCEPT ![now] = {n}]
      BY <2>2, <2>6, <2>11, <3>1
    <3>2. CASE s \in files /\ text'[s] = text[s]
      BY <2>6, <3>2 DEF LogsOwned
    <3> QED BY <2>5, <2>11, <3>1, <3>2
  <2> QED BY <2>8, <2>9, <2>10 DEF LogsOwned, HasOutput
<1>3. ASSUME NEW p \in Procs, Begin(p) PROVE LogsOwned'
  <2> DEFINE x == [exec |-> run[p].exec, status |-> "running", log |-> run[p].log]
             r == [run[p] EXCEPT !.row = Len(rows) + 1]
  <2>1. UNCHANGED <<execs, files, text>> /\ pc[p] # "idle"
    BY <1>3 DEF Begin, Move, fileVars
  <2>2. /\ \A o \in Procs : pc'[o] # "idle" => pc[o] # "idle"
        /\ \A o \in Procs : run'[o].log = run[o].log /\ run'[o].file = run[o].file
                             /\ run'[o].exec = run[o].exec
    <3>1. run[p] \in RunType /\ Len(rows) + 1 \in Nat
      BY <1>0 DEF TypeOK, RunType
    <3>2. r.log = run[p].log /\ r.file = run[p].file /\ r.exec = run[p].exec
      BY <3>1 DEF RunType
    <3>3. run' = run \/ run' = [run EXCEPT ![p] = r]
      BY <1>3 DEF Begin
    <3> HIDE DEF r
    <3> QED BY <1>0, <1>3, <2>1, <3>2, <3>3 DEF Begin, Move
  <2>3. x \in Rows /\ rows \in Seq(Rows) /\ (rows' = rows \/ rows' = Append(rows, x))
    BY <1>3 DEF Begin, TypeOK, Rows
  <2>4. x.exec = run[p].exec /\ x.log = run[p].log
    OBVIOUS
  <2> HIDE DEF x
  <2>5. \A i \in 1 .. Len(rows') : rows'[i] = x \/ (i \in 1 .. Len(rows) /\ rows'[i] = rows[i])
    BY <1>0, <2>3
  <2>6. \A i \in 1 .. Len(rows') : rows'[i].log # NoLog =>
          /\ rows'[i].exec \in 1 .. Len(execs) /\ rows'[i].log = execs[rows'[i].exec].at
          /\ rows'[i].log \in files => HasOutput(rows'[i].log, rows'[i].exec)
    BY <1>0, <2>1, <2>4, <2>5 DEF LogsOwned
  <2>7. \A o \in Procs : pc'[o] # "idle" =>
          /\ run'[o].log \in {NoLog, execs[run'[o].exec].at}
          /\ run'[o].file # NoLog => run'[o].file = run'[o].log /\ run'[o].file \in files
          /\ run'[o].log \in files => HasOutput(run'[o].log, run'[o].exec)
    BY <2>2 DEF LogsOwned
  <2>8. \A s \in files : \A e \in text[s] : e \in 1 .. Len(execs) /\ execs[e].at = s
    BY DEF LogsOwned
  <2> QED BY <2>1, <2>6, <2>7, <2>8 DEF LogsOwned, HasOutput
<1>4. ASSUME NEW p \in Procs, RemoveLogs(p) PROVE LogsOwned'
  <2>1. /\ UNCHANGED <<execs, rows>> /\ files' = files \ victims[p]
        /\ \A q \in Procs : pc'[q] # "idle" => q # p /\ pc[q] # "idle"
    BY <1>0, <1>4 DEF RemoveLogs, Move
  <2>2. \A s \in files' : s \in files /\ text'[s] = text[s]
    BY <1>4, <2>1 DEF RemoveLogs, TypeOK
  <2>3. \A q \in Procs : q # p =>
          /\ run'[q].exec = run[q].exec /\ run'[q].log = run[q].log
          /\ run'[q].file # NoLog => run'[q].file = run[q].file /\ run[q].file \notin victims[p]
    <3> SUFFICES ASSUME NEW q \in Procs, q # p
                 PROVE  /\ run'[q].exec = run[q].exec /\ run'[q].log = run[q].log
                        /\ run'[q].file # NoLog => run'[q].file = run[q].file
                                                   /\ run[q].file \notin victims[p]
      OBVIOUS
    <3> DEFINE r == [run[q] EXCEPT !.file = NoLog]
    <3>1. run[q] \in RunType
      BY DEF TypeOK, RunType
    <3>2. r.exec = run[q].exec /\ r.log = run[q].log /\ r.file = NoLog
      BY <3>1 DEF RunType
    <3>3. run'[q] = IF run[q].file \in victims[p] THEN r ELSE run[q]
      BY <1>4 DEF RemoveLogs
    <3> HIDE DEF r
    <3> QED BY <3>2, <3>3
  <2> QED BY <2>1, <2>2, <2>3 DEF LogsOwned, HasOutput
<1>5. ASSUME NEW p \in Procs, Skip(p) PROVE LogsOwned'
  <2> DEFINE x == [exec |-> 0, status |-> "skipped", log |-> NoLog]
  <2>1. UNCHANGED <<execs, files, text, pc, run>> /\ rows' = Append(rows, x)
    BY <1>5 DEF Skip, fileVars
  <2>2. x \in Rows /\ rows \in Seq(Rows) /\ x.log = NoLog
    BY RecordsAssumption DEF TypeOK, Rows
  <2> HIDE DEF x
  <2>3. \A i \in 1 .. Len(rows') : rows'[i] = x \/ (i \in 1 .. Len(rows) /\ rows'[i] = rows[i])
    BY <1>0, <2>1, <2>2
  <2> QED BY <2>1, <2>2, <2>3 DEF LogsOwned, HasOutput
<1> QED BY <1>1, <1>2, <1>3, <1>4, <1>5, SettledSteps, SettledLogs DEF Next, ProcStep

(* A log that a row names has output of executions of its second only, and *)
(* the row's own unless a later one of that second has truncated it, for   *)
(* any number of processes that open, write, close and prune.              *)
THEOREM LogsOfTheirSecond == Spec => []LogOfSecond
<1>1. Init => LogsOwned
  <2> SUFFICES ASSUME Init PROVE LogsOwned
    OBVIOUS
  <2>1. Len(execs) = 0 /\ Len(rows) = 0 /\ files = {} /\ \A p \in Procs : pc[p] = "idle"
    BY DEF Init
  <2> QED BY <2>1 DEF LogsOwned
<1>2. Spec => []LogsOwned
  BY <1>1, LogsStep, Invariance, TypeCorrect, PTL DEF Spec
<1>3. LogsOwned => LogOfSecond
  BY DEF LogsOwned, HasOutput, LogOfSecond, Exists
<1> QED BY <1>2, <1>3, PTL

-----------------------------------------------------------------------------
(* How many log files there are.                                           *)

(* The files are ordered by their last write.                              *)
Ordered ==
  /\ \A s, t \in files : s = t \/ <<s, t>> \in before \/ <<t, s>> \in before
  /\ \A s, t \in files : <<s, t>> \in before => <<t, s>> \notin before
  /\ \A s, t, u \in files : <<s, t>> \in before /\ <<t, u>> \in before => <<s, u>> \in before

(* Writing to a file, and removing files, keeps them ordered.              *)
LEMMA TouchOrdered ==
  ASSUME TypeOK, Ordered, NEW f, Touch(f) PROVE Ordered'
<1>1. \A s, t : <<s, t>> \in before' <=>
         \/ <<s, t>> \in before /\ s # f /\ t # f
         \/ s \in files \ {f} /\ t = f
  <2>1. \A s, t : <<s, t>> \in {x \in before : f \notin {x[1], x[2]}}
                   <=> <<s, t>> \in before /\ s # f /\ t # f
    OBVIOUS
  <2> QED BY <2>1 DEF Touch
<1>2. files' = files \cup {f}
  BY DEF Touch
<1> QED BY <1>1, <1>2 DEF Ordered

(* The same of pruning.                                                    *)
LEMMA RemoveOrdered ==
  ASSUME Ordered, NEW p \in Procs, RemoveLogs(p) PROVE Ordered'
<1>1. files' \subseteq files
  BY DEF RemoveLogs
<1>2. \A s, t \in files' : <<s, t>> \in before' <=> <<s, t>> \in before
  BY DEF RemoveLogs
<1> QED BY <1>1, <1>2 DEF Ordered

(* Of files in order Beyond leaves KeepLastN at most: each is followed by  *)
(* a number of its own below KeepLastN.                                    *)
LEMMA BeyondLeaves ==
  ASSUME TypeOK, Ordered
  PROVE  IsFiniteSet(files) /\ Cardinality(files \ Beyond) <= KeepLastN
<1> DEFINE left == files \ Beyond
           rank == [s \in left |-> Cardinality(Newer(s))]
<1>0. KeepLastN \in Nat \ {0} /\ MaxTime \in Nat
  BY RecordsAssumption
<1>1. IsFiniteSet(files)
  <2>1. IsFiniteSet(Seconds) /\ files \in SUBSET Seconds
    BY <1>0, FS_Interval DEF TypeOK, Seconds
  <2> QED BY <2>1, FS_Subset
<1>2. \A s : IsFiniteSet(Newer(s)) /\ Cardinality(Newer(s)) \in Nat
  <2> SUFFICES ASSUME NEW s PROVE IsFiniteSet(Newer(s)) /\ Cardinality(Newer(s)) \in Nat
    OBVIOUS
  <2>1. Newer(s) \in SUBSET files
    BY DEF Newer
  <2> QED BY <1>1, <2>1, FS_Subset, FS_CardinalityType
<1>3. \A s, t \in files : <<s, t>> \in before => Cardinality(Newer(s)) # Cardinality(Newer(t))
  <2> SUFFICES ASSUME NEW s \in files, NEW t \in files, <<s, t>> \in before
               PROVE  Cardinality(Newer(s)) # Cardinality(Newer(t))
    OBVIOUS
  <2>1. Newer(t) \in SUBSET Newer(s) /\ t \in Newer(s) /\ t \notin Newer(t)
    BY DEF Newer, Ordered
  <2> QED BY <1>2, <2>1, FS_Subset
<1>4. rank \in Injection(left, 0 .. (KeepLastN - 1))
  <2>1. \A s \in left : Cardinality(Newer(s)) \in 0 .. (KeepLastN - 1)
    BY <1>0, <1>2 DEF Beyond
  <2>2. \A s, t \in left : rank[s] = rank[t] => s = t
    BY <1>3 DEF Ordered
  <2>3. rank \in [left -> 0 .. (KeepLastN - 1)]
    BY <2>1
  <2> HIDE DEF rank, left
  <2> QED BY <2>2, <2>3 DEF Injection, IsInjective
<1>5. IsFiniteSet(0 .. (KeepLastN - 1)) /\ Cardinality(0 .. (KeepLastN - 1)) = KeepLastN
  BY <1>0, FS_Interval
<1> HIDE DEF rank, left
<1>6. Cardinality(left) <= KeepLastN
  BY <1>4, <1>5, FS_Injection
<1> QED BY <1>1, <1>6 DEF left

(* The files that some process has listed and not yet removed.             *)
Doomed == UNION {victims[p] : p \in Procs}

(* Once every run under way has listed the files, those not listed for     *)
(* removal are few enough.                                                 *)
Pruned ==
  /\ \A p \in Procs : pc[p] # "remove" => victims[p] = {}
  /\ lost = {} /\ (\A p \in Procs : pc[p] \in {"idle", "remove"})
       => Cardinality(files \ Doomed) <= KeepLastN

(* Every step keeps the files ordered.                                     *)
LEMMA OrderedStep == HInv /\ TypeOK /\ Ordered /\ [Next]_vars => Ordered'
<1> SUFFICES ASSUME HInv, TypeOK, Ordered, [Next]_vars PROVE Ordered'
  OBVIOUS
<1>1. CASE UNCHANGED <<files, before>>
  BY <1>1 DEF Ordered
<1>2. ASSUME NEW p \in Procs, OpenLog(p) \/ Output(p) \/ EndExec(p) PROVE Ordered'
  BY <1>1, <1>2, TouchOrdered DEF OpenLog, Output, EndExec, Write, fileVars
<1>3. ASSUME NEW p \in Procs, RemoveLogs(p) PROVE Ordered'
  BY <1>3, RemoveOrdered
<1>4. ASSUME NEW p \in Procs,
             Begin(p) \/ RemoveLink(p) \/ MakeLink(p) \/ Finish(p) \/ ListLogs(p) \/ Skip(p)
               \/ Crash(p)
      PROVE  UNCHANGED <<files, before>>
  BY <1>4 DEF Begin, RemoveLink, MakeLink, Finish, ListLogs, Skip, Crash, recordVars, fileVars
<1>5. CASE Tick \/ UNCHANGED vars
  BY <1>1, <1>5 DEF Tick, vars, recordVars, fileVars
<1> QED BY <1>1, <1>2, <1>3, <1>4, <1>5 DEF Next, ProcStep

(* Every step keeps the files that nobody is to remove few.                *)
LEMMA PrunedStep == HInv /\ TypeOK /\ Ordered /\ Pruned /\ [Next]_vars => Pruned'
<1> SUFFICES ASSUME HInv, TypeOK, Ordered, Pruned, [Next]_vars PROVE Pruned'
  OBVIOUS
<1>0. pc \in [Procs -> Points] /\ victims \in [Procs -> SUBSET Seconds]
  BY DEF TypeOK
<1>1. CASE UNCHANGED vars \/ Tick
  BY <1>1 DEF vars, Tick, recordVars, fileVars, Pruned, Doomed
<1>2. ASSUME NEW p \in Procs,
             OpenLog(p) \/ Begin(p) \/ Output(p) \/ EndExec(p) \/ RemoveLink(p) \/ MakeLink(p)
               \/ Finish(p)
      PROVE  Pruned'
  <2>1. /\ victims' = victims /\ pc'[p] \notin {"idle", "remove"}
        /\ \A q \in Procs : q # p => pc'[q] = pc[q]
        /\ pc[p] # "remove"
    BY <1>0, <1>2 DEF OpenLog, Begin, Output, EndExec, RemoveLink, MakeLink, Finish, Move
  <2> QED BY <2>1 DEF Pruned
<1>3. ASSUME NEW p \in Procs, ListLogs(p) PROVE Pruned'
  <2>1. /\ files' = files /\ victims' = [victims EXCEPT ![p] = Beyond]
        /\ pc' = [pc EXCEPT ![p] = "remove"]
    BY <1>3 DEF ListLogs, Move, recordVars, fileVars
  <2>2. Beyond \subseteq Doomed'
    <3>1. victims'[p] = Beyond
      BY <1>0, <2>1
    <3> QED BY <3>1 DEF Doomed
  <2>3. files' \ Doomed' \in SUBSET (files \ Beyond)
    BY <2>1, <2>2
  <2>4. IsFiniteSet(files \ Beyond) /\ Cardinality(files \ Beyond) <= KeepLastN
    <3>1. files \ Beyond \in SUBSET files
      OBVIOUS
    <3> QED BY <3>1, BeyondLeaves, FS_Subset
  <2>5. Cardinality(files' \ Doomed') <= KeepLastN
    <3>1. /\ IsFiniteSet(files' \ Doomed')
          /\ Cardinality(files' \ Doomed') <= Cardinality(files \ Beyond)
      BY <2>3, <2>4, FS_Subset
    <3>2. /\ Cardinality(files' \ Doomed') \in Nat /\ Cardinality(files \ Beyond) \in Nat
          /\ KeepLastN \in Nat
      BY <2>4, <3>1, FS_CardinalityType, RecordsAssumption
    <3> QED BY <2>4, <3>1, <3>2
  <2>6. \A q \in Procs : pc'[q] # "remove" => victims'[q] = {}
    BY <1>0, <2>1 DEF Pruned
  <2> QED BY <2>5, <2>6 DEF Pruned
<1>4. ASSUME NEW p \in Procs, RemoveLogs(p) PROVE Pruned'
  <2>1. /\ files' = files \ victims[p] /\ victims' = [victims EXCEPT ![p] = {}]
        /\ pc[p] = "remove" /\ pc' = [pc EXCEPT ![p] = "idle"] /\ lost' = lost
    BY <1>4 DEF RemoveLogs, Move
  <2>2. files' \ Doomed' = files \ Doomed
    <3>1. \A q \in Procs : victims'[q] = IF q = p THEN {} ELSE victims[q]
      BY <1>0, <2>1
    <3>2. \A s : s \in Doomed <=> s \in Doomed' \/ s \in victims[p]
      BY <3>1 DEF Doomed
    <3> QED BY <2>1, <3>2
  <2>3. \A q \in Procs : pc'[q] # "remove" => victims'[q] = {}
    BY <1>0, <2>1 DEF Pruned
  <2>4. (\A q \in Procs : pc'[q] \in {"idle", "remove"})
          => \A q \in Procs : pc[q] \in {"idle", "remove"}
    BY <1>0, <2>1
  <2> QED BY <2>1, <2>2, <2>3, <2>4 DEF Pruned
<1>5. ASSUME NEW p \in Procs, Skip(p) PROVE Pruned'
  BY <1>5 DEF Skip, fileVars, Pruned, Doomed
<1>6. ASSUME NEW p \in Procs, Crash(p) PROVE Pruned'
  <2>1. lost' # {}
    BY <1>6 DEF Crash, Lose
  <2>2. \A q \in Procs : pc'[q] # "remove" => victims'[q] = {}
    BY <1>0, <1>6 DEF Crash, Pruned
  <2> QED BY <2>1, <2>2 DEF Pruned
<1> QED BY <1>1, <1>2, <1>3, <1>4, <1>5, <1>6 DEF Next, ProcStep

(* Unless a run was cut short, no more than KeepLastN logs are left when   *)
(* no run is under way, in whatever order the processes list and remove:   *)
(* the last to list has seen every file.                                   *)
THEOREM LogsPruned == Spec => []Retention
<1>1. Init => Ordered /\ Pruned
  <2> SUFFICES ASSUME Init PROVE Ordered /\ Pruned
    OBVIOUS
  <2>1. files = {} /\ \A p \in Procs : victims[p] = {}
    BY DEF Init
  <2>2. files \ Doomed = {}
    BY <2>1
  <2> QED BY <2>1, <2>2, FS_EmptySet, RecordsAssumption DEF Ordered, Pruned
<1>2. Spec => [](Ordered /\ Pruned)
  BY <1>1, OrderedStep, PrunedStep, Invariance, TypeCorrect, PTL DEF Spec
<1>3. Pruned => Retention
  <2> SUFFICES ASSUME Pruned, lost = {}, \A p \in Procs : pc[p] = "idle"
               PROVE  Cardinality(files) <= KeepLastN
    BY DEF Retention
  <2>1. \A p \in Procs : victims[p] = {}
    BY DEF Pruned
  <2>2. files \ Doomed = files
    BY <2>1 DEF Doomed
  <2> QED BY <2>2 DEF Pruned
<1> QED BY <1>2, <1>3, PTL
=============================================================================
