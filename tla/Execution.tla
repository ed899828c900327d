------------------------------ MODULE Execution ------------------------------
(***************************************************************************)
(* One execution after another of routines that share a git repository:   *)
(* executeOnce (internal/scheduler/scheduler.go) around worktree.Create    *)
(* and Cleanup (internal/worktree/worktree.go) and runCmd                  *)
(* (internal/adapter/adapter.go), with the processes it starts.            *)
(* Executions may be of one process (another routine, a retry) or of two  *)
(* (`routines run` beside the daemon).                                     *)
(***************************************************************************)
EXTENDS FiniteSets

CONSTANTS
  Execs,   \* the executions
  Paths,   \* directories of worktrees
  NoPath,
  Nobody,
  NoHelper

ASSUME PathsAssumption ==
  /\ NoPath \notin Paths /\ Nobody \notin Execs

(* A helper is in the child's process group or has left it (setsid), and   *)
(* has the output pipe open or not; one that has left both is of no        *)
(* concern to runCmd.                                                      *)
Helpers == {h \in [group : BOOLEAN, pipe : BOOLEAN] : h.group \/ h.pipe}

ASSUME HelperAssumption == NoHelper \notin Helpers

VARIABLES
  pc,        \* where e is in executeOnce
  dir,       \* its worktree's directory, NoPath if the routine has none
  outcome,   \* the status it will report
  stop,      \* has Stop canceled the scheduler's context?
  ctx,       \* runCmd's own context, which also has the time-out
  leader,    \* the child runCmd started
  helper,    \* a process the child started
  waited,    \* has cmd.Wait returned?
  trees,     \* trees[p]: the execution whose worktree is at p
  branches,  \* the executions whose branch exists
  botched    \* those whose cleanup git failed

runVars == <<stop, ctx, leader, helper, waited>>
gitVars == <<trees, branches, botched>>
vars == <<pc, dir, outcome, runVars, gitVars>>

Points == {"idle", "add", "hook", "start", "wait", "drain", "remove", "unbranch",
           "refused", "ended", "crashed"}
Over == {"refused", "ended", "crashed"}
Outcomes == {"none", "success", "failed", "timeout"}

Alive(e) == helper[e] # NoHelper
Holds(e) == Alive(e) /\ helper[e].pipe

Init ==
  /\ pc = [e \in Execs |-> "idle"]
  /\ dir = [e \in Execs |-> NoPath]
  /\ outcome = [e \in Execs |-> "none"]
  /\ stop = [e \in Execs |-> FALSE]
  /\ ctx = [e \in Execs |-> "live"]
  /\ leader = [e \in Execs |-> "none"]
  /\ helper = [e \in Execs |-> NoHelper]
  /\ waited = [e \in Execs |-> FALSE]
  /\ trees = [p \in Paths |-> Nobody]
  /\ branches = {}
  /\ botched = {}

Goto(e, from, to) == pc[e] = from /\ pc' = [pc EXCEPT ![e] = to]

(* What follows the adapter: the deferred Cleanup, if there is a worktree. *)
After(e) == IF dir[e] = NoPath THEN "ended" ELSE "remove"

End(e, from, status) ==
  /\ Goto(e, from, After(e))
  /\ outcome' = [outcome EXCEPT ![e] = status]

-----------------------------------------------------------------------------
(* setupWorktree and worktree.Create. *)

(* Every execution has a branch of its own; `path:` may fix the directory. *)
Begin(e) ==
  /\ \/ Goto(e, "idle", "start") /\ UNCHANGED dir
     \/ /\ Goto(e, "idle", "add")
        /\ \E p \in Paths : dir' = [dir EXCEPT ![e] = p]
  /\ UNCHANGED <<outcome, runVars, gitVars>>

AddWorktree(e) ==
  /\ Goto(e, "add", "hook")
  /\ trees[dir[e]] = Nobody
  /\ trees' = [trees EXCEPT ![dir[e]] = e]
  /\ branches' = branches \cup {e}
  /\ UNCHANGED <<dir, outcome, runVars, botched>>

(* Seeded bug: Create removes "partially-created state" if git fails.      *)
AddFailsCleaning(e) ==
  /\ Goto(e, "add", "refused")
  /\ outcome' = [outcome EXCEPT ![e] = "failed"]
  /\ trees' = [trees EXCEPT ![dir[e]] = Nobody]
  /\ UNCHANGED <<dir, branches, botched, runVars>>

(* `git worktree add -b` fails: not a repository, the path is taken, which *)
(* git sees when it has made the branch.  Killed half-way by a canceled    *)
(* context it may leave both.  Create returns as it is.                    *)
AddFails(e) ==
  /\ Goto(e, "add", "refused")
  /\ outcome' = [outcome EXCEPT ![e] = "failed"]
  /\ \/ UNCHANGED <<trees, branches>>
     \/ branches' = branches \cup {e} /\ UNCHANGED trees
     \/ /\ stop[e] /\ trees[dir[e]] = Nobody
        /\ branches' = branches \cup {e}
        /\ trees' = [trees EXCEPT ![dir[e]] = e]
  /\ UNCHANGED <<dir, botched, runVars>>

(* There is no post_create, or it has succeeded. *)
HookDone(e) ==
  /\ Goto(e, "hook", "start")
  /\ UNCHANGED <<dir, outcome, runVars, gitVars>>

(* Seeded bug: a failed hook returns without cleanup. *)
HookFailsLeaving(e) ==
  /\ Goto(e, "hook", "ended")
  /\ outcome' = [outcome EXCEPT ![e] = "failed"]
  /\ UNCHANGED <<dir, runVars, gitVars>>

(* It has failed, or the cancellation has killed it: Create cleans up.     *)
HookFails(e) ==
  /\ End(e, "hook", "failed")
  /\ UNCHANGED <<dir, runVars, gitVars>>

-----------------------------------------------------------------------------
(* runCmd. *)

StartChild(e) ==
  /\ Goto(e, "start", "wait")
  /\ ~stop[e]
  /\ leader' = [leader EXCEPT ![e] = "running"]
  /\ UNCHANGED <<dir, outcome, stop, ctx, helper, waited, gitVars>>

(* cmd.Start fails: no such binary, or the context is canceled. *)
StartFails(e) ==
  /\ End(e, "start", "failed")
  /\ UNCHANGED <<dir, runVars, gitVars>>

(* The goroutine of cmd.Wait: the child is gone and the pipe at its end.   *)
WaitReturns(e) ==
  /\ pc[e] \in {"wait", "drain"}
  /\ leader[e] # "running" /\ ~Holds(e)
  /\ ~waited[e]
  /\ waited' = [waited EXCEPT ![e] = TRUE]
  /\ UNCHANGED <<pc, dir, outcome, stop, ctx, leader, helper, gitVars>>

(* select, case <-done: exit status 0 is a success unless copying the      *)
(* output failed or the context was canceled.                              *)
TakeDone(e) ==
  /\ waited[e]
  /\ \/ End(e, "wait", "failed")
     \/ leader[e] = "ok" /\ End(e, "wait", "success")
  /\ UNCHANGED <<dir, runVars, gitVars>>

(* Seeded bug: only the child is killed. *)
KillChild(e) ==
  /\ leader' = [leader EXCEPT ![e] = IF @ = "running" THEN "bad" ELSE @]
  /\ UNCHANGED helper

(* SIGKILL to the process group. *)
KillProcessTree(e) ==
  /\ leader' = [leader EXCEPT ![e] = IF @ = "running" THEN "bad" ELSE @]
  /\ helper' = [helper EXCEPT ![e] = IF Alive(e) /\ @.group THEN NoHelper ELSE @]

(* select, case <-ctx.Done(). *)
TakeCtx(e) ==
  /\ ctx[e] # "live"
  /\ Goto(e, "wait", "drain")
  /\ KillProcessTree(e)
  /\ UNCHANGED <<dir, outcome, stop, ctx, waited, gitVars>>

(* Seeded bug: the context's error is the status. *)
DrainRaw(e) ==
  /\ waited[e]
  /\ End(e, "drain", ctx[e])
  /\ UNCHANGED <<dir, runVars, gitVars>>

(* Seeded bug: every canceled context is taken for a time-out. *)
DrainAsTimeout(e) ==
  /\ waited[e]
  /\ End(e, "drain", "timeout")
  /\ UNCHANGED <<dir, runVars, gitVars>>

(* <-done, after the kill. *)
Drain(e) ==
  /\ waited[e]
  /\ End(e, "drain", IF ctx[e] = "expired" THEN "timeout" ELSE "failed")
  /\ UNCHANGED <<dir, runVars, gitVars>>

(* The time-out runs from the start of runCmd. *)
Expire(e) ==
  /\ pc[e] = "wait" /\ ctx[e] = "live"
  /\ ctx' = [ctx EXCEPT ![e] = "expired"]
  /\ UNCHANGED <<pc, dir, outcome, stop, leader, helper, waited, gitVars>>

(* runCancel. *)
Stop(e) ==
  /\ pc[e] \notin {"idle"} \cup Over /\ ~stop[e]
  /\ stop' = [stop EXCEPT ![e] = TRUE]
  /\ ctx' = [ctx EXCEPT ![e] = IF @ = "live" THEN "canceled" ELSE @]
  /\ UNCHANGED <<pc, dir, outcome, leader, helper, waited, gitVars>>

(* exec.CommandContext has the scheduler's context and kills the child, and *)
(* the child only, when that is canceled.                                   *)
CommandContext(e) ==
  /\ pc[e] \in {"wait", "drain"}
  /\ stop[e] /\ leader[e] = "running"
  /\ leader' = [leader EXCEPT ![e] = "bad"]
  /\ UNCHANGED <<pc, dir, outcome, stop, ctx, helper, waited, gitVars>>

-----------------------------------------------------------------------------
(* Result.Cleanup: two git commands, whose errors are dropped. *)

RemoveWorktree(e) ==
  /\ Goto(e, "remove", "unbranch")
  /\ \/ trees' = [trees EXCEPT ![dir[e]] = Nobody] /\ UNCHANGED botched
     \/ botched' = botched \cup {e} /\ UNCHANGED trees
  /\ UNCHANGED <<dir, outcome, runVars, branches>>

(* git refuses to delete a branch that is checked out. *)
DeleteBranch(e) ==
  /\ Goto(e, "unbranch", "ended")
  /\ \/ /\ \A p \in Paths : trees[p] # e
        /\ branches' = branches \ {e}
        /\ UNCHANGED botched
     \/ botched' = botched \cup {e} /\ UNCHANGED branches
  /\ UNCHANGED <<dir, outcome, runVars, trees>>

-----------------------------------------------------------------------------
(* What the processes do, and the end of the scheduler's process. *)

ChildExits(e) ==
  /\ leader[e] = "running"
  /\ \E s \in {"ok", "bad"} : leader' = [leader EXCEPT ![e] = s]
  /\ UNCHANGED <<pc, dir, outcome, stop, ctx, helper, waited, gitVars>>

ChildForks(e) ==
  /\ leader[e] = "running" /\ ~Alive(e)
  /\ \E h \in Helpers : helper' = [helper EXCEPT ![e] = h]
  /\ UNCHANGED <<pc, dir, outcome, stop, ctx, leader, waited, gitVars>>

HelperExits(e) ==
  /\ Alive(e)
  /\ helper' = [helper EXCEPT ![e] = NoHelper]
  /\ UNCHANGED <<pc, dir, outcome, stop, ctx, leader, waited, gitVars>>

Crash(e) ==
  /\ pc[e] \notin {"idle"} \cup Over
  /\ pc' = [pc EXCEPT ![e] = "crashed"]
  /\ UNCHANGED <<dir, outcome, runVars, gitVars>>

Own(e) ==
  \/ AddWorktree(e) \/ AddFails(e) \/ StartChild(e) \/ StartFails(e)
  \/ WaitReturns(e) \/ TakeDone(e) \/ TakeCtx(e) \/ Drain(e) \/ Expire(e)
  \/ RemoveWorktree(e) \/ DeleteBranch(e)

Hook(e) == HookDone(e) \/ HookFails(e)

Next == \E e \in Execs :
  \/ Begin(e) \/ Own(e) \/ Hook(e) \/ Stop(e) \/ CommandContext(e)
  \/ ChildExits(e) \/ ChildForks(e) \/ HelperExits(e) \/ Crash(e)

Spec == Init /\ [][Next]_vars

(* Git commands return, the time-out passes, a select takes a case that is *)
(* ready.  Neither the child nor its helper need ever exit.                *)
FairSpec == Spec /\ \A e \in Execs : WF_vars(Own(e))

-----------------------------------------------------------------------------
(* Properties. *)

TypeOK ==
  /\ pc \in [Execs -> Points]
  /\ dir \in [Execs -> Paths \cup {NoPath}]
  /\ outcome \in [Execs -> Outcomes]
  /\ stop \in [Execs -> BOOLEAN]
  /\ ctx \in [Execs -> {"live", "expired", "canceled"}]
  /\ leader \in [Execs -> {"none", "running", "ok", "bad"}]
  /\ helper \in [Execs -> Helpers \cup {NoHelper}]
  /\ waited \in [Execs -> BOOLEAN]
  /\ trees \in [Paths -> Execs \cup {Nobody}]
  /\ branches \subseteq Execs /\ botched \subseteq Execs

(* "concurrent runs and runs that mutate files cannot stomp each other"    *)
(* (docs/spec.md, Worktree mode): while an execution is under way its      *)
(* worktree is at its path, also when a fixed `path:` makes others want    *)
(* the same one, whose creation fails or which clean up late.              *)
WorktreeKept ==
  \A e \in Execs :
    pc[e] \in {"hook", "start", "wait", "drain", "remove"} /\ dir[e] # NoPath
      => trees[dir[e]] = e

Clean(e) == e \notin branches /\ \A p \in Paths : trees[p] # e

(* The worktree and the branch are gone when the execution is over,        *)
(* whichever way it ended, unless its process died or git failed it.       *)
CleanedUp == \A e \in Execs : pc[e] = "ended" /\ e \notin botched => Clean(e)

(* "On error, partially-created state is best-effort cleaned up so the     *)
(* caller does not have to." (worktree.go:47)  Not if git fails: AddFails. *)
FailedCreateCleans == \A e \in Execs : pc[e] = "refused" => Clean(e)

(* "On timeout the process tree is killed." (adapter.go:64)  When runCmd   *)
(* has returned the child is gone; after a time-out so is everything in    *)
(* its process group.  The worktree is never removed under a running child.*)
TreeKilled ==
  \A e \in Execs : pc[e] \in {"remove", "unbranch", "ended"} =>
    /\ leader[e] # "running"
    /\ outcome[e] = "timeout" /\ Alive(e) => ~helper[e].group

(* The status says what happened, whoever wins the races of exit, time-out *)
(* and cancellation: "timeout", which runOnce does not retry, only when    *)
(* the time was up before any Stop; "success" only if the child did exit   *)
(* with 0; and every end has a status.                                     *)
OutcomeTruthful ==
  \A e \in Execs :
    /\ outcome[e] = "timeout" => ctx[e] = "expired"
    /\ outcome[e] = "success" => leader[e] = "ok"
    /\ pc[e] \in {"refused", "remove", "unbranch", "ended"} => outcome[e] # "none"

(* The time-out bounds a run (docs/spec.md, `timeout`): every execution    *)
(* ends, whatever its child does, if post_create returns (it has no        *)
(* time-out) and no process that has left the group holds the output pipe. *)
HooksReturn == \A e \in Execs : WF_vars(Hook(e))
PipesFreed  == \A e \in Execs : []<>~(Holds(e) /\ ~helper[e].group)

ExecutionEnds ==
  HooksReturn /\ PipesFreed =>
    \A e \in Execs : pc[e] # "idle" ~> pc[e] \in Over

-----------------------------------------------------------------------------
(* What the proofs need besides: how far an execution's processes are ...  *)
Phase(e) ==
  /\ pc[e] \in {"idle", "add", "hook", "start", "wait", "drain"} => outcome[e] = "none"
  /\ pc[e] \notin {"wait", "drain", "crashed"} => leader[e] # "running"
  /\ pc[e] \in {"idle", "add", "hook", "start"} => ~waited[e] /\ ~Alive(e)
  /\ waited[e] => leader[e] # "running"
  /\ pc[e] = "drain" \/ outcome[e] = "timeout" =>
       /\ leader[e] # "running"
       /\ Alive(e) => ~helper[e].group

(* ... and what of it git has.                                             *)
Checkout(e) ==
  /\ pc[e] \in {"add", "remove", "unbranch"} => dir[e] \in Paths
  /\ \A p \in Paths : trees[p] = e => p = dir[e]
  /\ pc[e] = "idle" => dir[e] = NoPath
  /\ pc[e] = "add" \/ dir[e] = NoPath => Clean(e)
  /\ pc[e] = "unbranch" /\ e \notin botched => \A p \in Paths : trees[p] # e

Inv ==
  /\ TypeOK /\ WorktreeKept /\ CleanedUp /\ TreeKilled /\ OutcomeTruthful
  /\ \A e \in Execs : Phase(e) /\ Checkout(e)
=============================================================================
