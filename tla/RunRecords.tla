----------------------------- MODULE RunRecords -----------------------------
(***************************************************************************)
(* What is left of the runs of one routine: the rows of the history        *)
(* database (internal/store/history.go), the log files and latest.log      *)
(* (internal/log/writer.go), as executeOnce, finalize and runOnce write    *)
(* them (internal/scheduler/scheduler.go).  The daemon and `routines run`  *)
(* are processes of their own: within a process the routine's mutex lets   *)
(* one run at a time write, between processes nothing does.                *)
(***************************************************************************)
EXTENDS Naturals, Sequences, FiniteSets

CONSTANTS
  Procs,          \* the processes that run the routine
  KeepLastN,      \* keep_last_n: log files Prune keeps
  MaxTime,        \* bound: seconds
  MaxExecs,       \* bound: executions
  MaxSkips,       \* bound: skipped fires
  MaxLost         \* bound: executions whose end is not recorded

ASSUME RecordsAssumption ==
  /\ KeepLastN \in Nat \ {0}
  /\ MaxTime \in Nat \ {0}
  /\ MaxExecs \in Nat /\ MaxSkips \in Nat
  /\ MaxLost \in Nat

Seconds == 1 .. MaxTime   \* log files are named by the second they start in
NoLog   == 0
NoRow   == 0

VARIABLES
  now,     \* the second
  execs,   \* the executions begun: when, and how they ended
  rows,    \* the table runs; a row's id is its place
  files,   \* the log files
  before,  \* before has <<s, t>> if file s was last written before file t
  text,    \* text[s]: the executions whose output is in file s
  latest,  \* where latest.log points, or NoLog
  lost,    \* the executions whose process died, or whose Finish failed
  pc,      \* pc[p]: where process p is in runOnce
  run,     \* run[p]: the execution p is in, its log, open file and row
  victims  \* victims[p]: the log files p is about to prune

(* "timeout" is recorded as "failed" is. *)
Ended == {"success", "failed"}

Execs == [at : Seconds, outcome : Ended \cup {"running"}]

(* An execution's error column is NULL until Finish; a skipped fire has no *)
(* execution and no log_path.                                              *)
Rows == [exec : 0 .. MaxExecs, status : Ended \cup {"running", "skipped"},
         log : Seconds \cup {NoLog}]

Points == {"idle", "begin", "exec", "unlink", "link", "finish", "ended", "remove"}

NoRun == [exec |-> 0, log |-> NoLog, file |-> NoLog, row |-> NoRow]

fileVars == <<files, before, text>>
recordVars == <<rows, fileVars, latest>>
vars == <<now, execs, recordVars, lost, pc, run, victims>>

Init ==
  /\ now = 1
  /\ execs = <<>>
  /\ rows = <<>>
  /\ files = {}
  /\ before = {}
  /\ text = [s \in Seconds |-> {}]
  /\ latest = NoLog
  /\ lost = {}
  /\ pc = [p \in Procs |-> "idle"]
  /\ run = [p \in Procs |-> NoRun]
  /\ victims = [p \in Procs |-> {}]

Move(p, from, to) == pc[p] = from /\ pc' = [pc EXCEPT ![p] = to]

Exists(s) == s \in files

Lose(e) == Cardinality(lost) < MaxLost /\ lost' = lost \cup {e}

(* File s is written: it exists and is the newest. *)
Touch(s) ==
  /\ files' = files \cup {s}
  /\ before' = {x \in before : s \notin {x[1], x[2]}} \cup (files \ {s}) \X {s}

-----------------------------------------------------------------------------
(* executeOnce. *)

(* Seeded bug: a retry's log is named by the time of the first attempt. *)
LogName1(p) == IF pc[p] = "ended" THEN run[p].log ELSE now

LogName(p) == now

(* log.New creates or truncates <second>.log and writes the header; if it  *)
(* cannot, the execution goes on without a log.  runOnce comes here for    *)
(* the first execution and for every retry (how many, and after which      *)
(* failures, is Scheduler's matter).                                       *)
OpenLog(p) ==
  /\ \/ pc[p] = "idle"
     \/ pc[p] = "ended" /\ execs[run[p].exec].outcome # "success"
  /\ Len(execs) < MaxExecs
  /\ execs' = Append(execs, [at |-> now, outcome |-> "running"])
  /\ \/ /\ Touch(LogName(p))
        /\ text' = [text EXCEPT ![LogName(p)] = {Len(execs) + 1}]
        /\ run' = [run EXCEPT ![p] = [NoRun EXCEPT !.exec = Len(execs) + 1,
                                                   !.log = LogName(p),
                                                   !.file = LogName(p)]]
     \/ /\ run' = [run EXCEPT ![p] = [NoRun EXCEPT !.exec = Len(execs) + 1]]
        /\ UNCHANGED fileVars
  /\ pc' = [pc EXCEPT ![p] = "begin"]
  /\ UNCHANGED <<now, lost, rows, latest, victims>>

(* History.Begin: a row, or only a message. *)
Begin(p) ==
  /\ Move(p, "begin", "exec")
  /\ \/ /\ rows' = Append(rows, [exec |-> run[p].exec, status |-> "running",
                                 log |-> run[p].log])
        /\ run' = [run EXCEPT ![p].row = Len(rows) + 1]
     \/ UNCHANGED <<rows, run>>
  /\ UNCHANGED <<now, lost, execs, fileVars, latest, victims>>

(* Seeded bug: finalize writes the trailer without looking for a log.      *)
WriteAnyway(p) ==
  /\ Touch(run[p].file)
  /\ text' = [s \in Seconds |-> text[s] \cup (IF s = run[p].file THEN {run[p].exec} ELSE {})]

(* What p writes to its log: nothing, once the file was pruned.            *)
Write(p) ==
  IF run[p].file = NoLog THEN UNCHANGED fileVars
  ELSE /\ Touch(run[p].file)
       /\ text' = [text EXCEPT ![run[p].file] = @ \cup {run[p].exec}]

(* The adapter's output.  If log.New has failed the first output panics:   *)
(* executeOnce passes a nil *Writer as a non-nil io.Writer (see Crash).    *)
Output(p) ==
  /\ pc[p] = "exec" /\ run[p].log # NoLog
  /\ Write(p)
  /\ UNCHANGED <<now, lost, execs, rows, latest, pc, run, victims>>

(* The adapter, or the worktree's creation, has returned; finalize writes  *)
(* the trailer and closes the file.                                        *)
EndExec(p) ==
  /\ pc[p] = "exec"
  /\ \E s \in Ended : execs' = [execs EXCEPT ![run[p].exec].outcome = s]
  /\ Write(p)
  /\ pc' = [pc EXCEPT ![p] = IF run[p].log = NoLog THEN "finish" ELSE "unlink"]
  /\ UNCHANGED <<now, lost, rows, latest, run, victims>>

(* Close: os.Remove(latest.log) ... *)
RemoveLink(p) ==
  /\ Move(p, "unlink", "link")
  /\ latest' = NoLog
  /\ UNCHANGED <<now, lost, execs, rows, fileVars, run, victims>>

(* ... and os.Symlink, which fails if another process was faster. *)
MakeLink(p) ==
  /\ Move(p, "link", "finish")
  /\ latest' = IF latest = NoLog THEN run[p].log ELSE latest
  /\ UNCHANGED <<now, lost, execs, rows, fileVars, run, victims>>

(* Seeded bug: the row is found by the routine and not by its id. *)
FinishLastRow(p) ==
  /\ Move(p, "finish", "ended")
  /\ \/ run[p].row = NoRow /\ UNCHANGED <<rows, lost>>
     \/ /\ run[p].row # NoRow
        /\ rows' = [rows EXCEPT ![Len(rows)].status = execs[run[p].exec].outcome]
        /\ UNCHANGED lost
     \/ run[p].row # NoRow /\ UNCHANGED rows /\ Lose(run[p].exec)
  /\ UNCHANGED <<now, execs, fileVars, latest, run, victims>>

(* Seeded bug: a failed run returns before its row is finished. *)
FinishSuccessOnly(p) ==
  /\ Move(p, "finish", "ended")
  /\ \/ /\ run[p].row # NoRow
        /\ execs[run[p].exec].outcome = "success"
        /\ rows' = [rows EXCEPT ![run[p].row].status = "success"]
     \/ execs[run[p].exec].outcome # "success" /\ UNCHANGED rows
  /\ UNCHANGED lost
  /\ UNCHANGED <<now, execs, fileVars, latest, run, victims>>

(* History.Finish, if Begin gave an id; its error is dropped. *)
Finish(p) ==
  /\ Move(p, "finish", "ended")
  /\ \/ run[p].row = NoRow /\ UNCHANGED <<rows, lost>>
     \/ /\ run[p].row # NoRow
        /\ rows' = [rows EXCEPT ![run[p].row].status = execs[run[p].exec].outcome]
        /\ UNCHANGED lost
     \/ run[p].row # NoRow /\ UNCHANGED rows /\ Lose(run[p].exec)
  /\ UNCHANGED <<now, execs, fileVars, latest, run, victims>>

-----------------------------------------------------------------------------
(* The end of runOnce, and what happens beside it. *)

(* The files Prune sorts before s. *)
Newer(s) == {t \in files : <<s, t>> \in before}

(* Seeded bug: i > keepLastN for i >= keepLastN. *)
BeyondOneMore == {s \in files : Cardinality(Newer(s)) > KeepLastN}

(* The files Prune drops: all but the KeepLastN written last.              *)
Beyond == {s \in files : Cardinality(Newer(s)) >= KeepLastN}

(* Prune reads the directory ... *)
ListLogs(p) ==
  /\ Move(p, "ended", "remove")
  /\ victims' = [victims EXCEPT ![p] = Beyond]
  /\ UNCHANGED <<now, lost, execs, recordVars, run>>

(* ... and removes what it has found, even if it was written since; who    *)
(* has such a file open goes on writing to nothing.                        *)
RemoveLogs(p) ==
  /\ Move(p, "remove", "idle")
  /\ files' = files \ victims[p]
  /\ before' = before \cap (files' \X files')
  /\ text' = [s \in Seconds |-> IF s \in victims[p] THEN {} ELSE text[s]]
  /\ run' = [q \in Procs |->
               IF q = p THEN NoRun
               ELSE IF run[q].file \in victims[p] THEN [run[q] EXCEPT !.file = NoLog]
               ELSE run[q]]
  /\ victims' = [victims EXCEPT ![p] = {}]
  /\ UNCHANGED <<now, lost, execs, rows, latest>>

(* A fire that finds the mutex taken: History.Skip. *)
Skip(p) ==
  /\ pc[p] # "idle"
  /\ Len(SelectSeq(rows, LAMBDA r : r.status = "skipped")) < MaxSkips
  /\ rows' = Append(rows, [exec |-> 0, status |-> "skipped", log |-> NoLog])
  /\ UNCHANGED <<now, lost, execs, fileVars, latest, pc, run, victims>>

(* The run is cut short: its process is killed, panics, or returns from    *)
(* Stop at the end of the grace period; or a shutdown during the backoff   *)
(* makes runOnce return without pruning.                                   *)
Crash(p) ==
  /\ pc[p] # "idle"
  /\ Lose(run[p].exec)
  /\ pc' = [pc EXCEPT ![p] = "idle"]
  /\ run' = [run EXCEPT ![p] = NoRun]
  /\ victims' = [victims EXCEPT ![p] = {}]
  /\ UNCHANGED <<now, execs, recordVars>>

Tick ==
  /\ now < MaxTime
  /\ now' = now + 1
  /\ UNCHANGED <<execs, recordVars, lost, pc, run, victims>>

ProcStep(p) ==
  \/ OpenLog(p) \/ Begin(p) \/ Output(p) \/ EndExec(p) \/ RemoveLink(p) \/ MakeLink(p)
  \/ Finish(p) \/ ListLogs(p) \/ RemoveLogs(p) \/ Skip(p) \/ Crash(p)

Next == Tick \/ \E p \in Procs : ProcStep(p)

Spec == Init /\ [][Next]_vars

-----------------------------------------------------------------------------
(* Properties. *)

(* The types of the variables; a process that is not idle is in a run.     *)
TypeOK ==
  /\ now \in Seconds
  /\ execs \in Seq(Execs) /\ Len(execs) <= MaxExecs
  /\ rows \in Seq(Rows)
  /\ files \subseteq Seconds
  /\ before \subseteq files \X files
  /\ text \in [Seconds -> SUBSET (1 .. MaxExecs)]
  /\ latest \in Seconds \cup {NoLog}
  /\ lost \subseteq 1 .. MaxExecs
  /\ pc \in [Procs -> Points]
  /\ run \in [Procs -> [exec : 0 .. MaxExecs, log : Seconds \cup {NoLog},
                        file : Seconds \cup {NoLog}, row : Nat]]
  /\ victims \in [Procs -> SUBSET Seconds]

(* The history tells the truth: a finished row has the outcome of its own  *)
(* execution, whatever other fires of the routine, skipped ones and those  *)
(* of other processes, have written meanwhile; and each execution has one  *)
(* row at most.                                                            *)
HistoryTruthful ==
  /\ \A i \in 1 .. Len(rows) : rows[i].status \in Ended =>
       rows[i].exec # 0 /\ execs[rows[i].exec].outcome = rows[i].status
  /\ \A i, j \in 1 .. Len(rows) :
       i # j /\ rows[i].exec = rows[j].exec => rows[i].exec = 0

(* A row says "running" only while its execution is under way, unless its  *)
(* process died in it or the database refused the update: no way out of    *)
(* executeOnce (no worktree, time-out, no log) leaves one behind.          *)
RunningIsLive ==
  \A i \in 1 .. Len(rows) : rows[i].status = "running" =>
    \/ \E p \in Procs : run[p].row = i
                        /\ pc[p] \in {"exec", "unlink", "link", "finish"}
    \/ rows[i].exec \in lost

(* A log is its second's: the file log_path names, if it was not pruned,  *)
(* has output of executions that began in that second only, and the row's  *)
(* own unless one that began later has truncated it (scheduler.go:362: two *)
(* runs may begin in one second); so an execution without company in its   *)
(* second has its log to itself, whatever other processes and retries      *)
(* open, write and prune.                                                  *)
LogOfSecond ==
  \A i \in 1 .. Len(rows) :
    LET s == rows[i].log IN
      s # NoLog /\ Exists(s) =>
        /\ \A e \in text[s] : execs[e].at = s
        /\ \E e \in text[s] : e >= rows[i].exec

(* "Writer captures stdout+stderr of one run" (writer.go:16): the file     *)
(* log_path names has the output of the row's execution and no other's.    *)
(* The code does not keep this: of two runs in one second the later one    *)
(* truncates the log of the other, which may go on writing to it.          *)
LogIntact ==
  \A i \in 1 .. Len(rows) :
    rows[i].log # NoLog /\ Exists(rows[i].log) => text[rows[i].log] = {rows[i].exec}

(* "Prune retains the last `keepLastN` log files per routine"              *)
(* (writer.go:71): when no run is under way there are no more, unless a    *)
(* process died before it had pruned: each removes only what it listed,    *)
(* but the last to list has seen every file.                               *)
Retention ==
  lost = {} /\ (\A p \in Procs : pc[p] = "idle") => Cardinality(files) <= KeepLastN

(* "Close finalizes the file and updates the routine's `latest.log`        *)
(* symlink." (writer.go:55): when no run is under way the link, if there   *)
(* is one, names a file that exists.  The code does not keep this: when    *)
(* both processes have done RemoveLink, the older log may get the link.    *)
LatestUsable ==
  lost = {} /\ latest # NoLog /\ (\A p \in Procs : pc[p] = "idle")
    => Exists(latest)
=============================================================================
