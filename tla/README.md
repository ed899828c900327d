# agent-routines in TLA+

`routines` is a daemon that fires agent CLIs (claude, gemini, a shell command)
on cron schedules.  A routine is a YAML file; the daemon watches the directory
of these files and reloads what changes.  This directory holds models of the
daemon's two concurrent engines, of the two joined, of what one execution does
(worktree, child process, time-out), of the records runs leave, of the
notifications they send and of a spec file's way to a child process; the TLC runs
that check them on small instances; and proofs of their safety for every value of
the constants.

All paths below are relative to `src/`.

## The system

| component | code | state | operations |
|---|---|---|---|
| scheduler | `internal/scheduler/scheduler.go` | cron entries; `jobs` and `locks` maps behind `s.mu`; one mutex per routine; `inFlightWg`; `runCtx` | `New`, `Start`, `Stop`, `AddOrReplace`, `Remove`, `FireNow`, the job closure (`fireFunc`, `runOnce`, `executeOnce`) |
| spec store | `internal/store/fsstore.go` | `routines`, `pathMap`, `errors`, `subs` behind `s.mu`; the debounce `timers` behind `timersMu` | `Load`, `Watch`, timer callbacks, `Subscribe`, `publish` |
| daemon command | `cmd/routines/daemon.go` | none of its own | start-up, the hot-reload loop over the event channel, shutdown |
| run history | `internal/store/history.go` | table `runs` in SQLite, shared by processes | `Begin`, `Finish`, `Skip`, `LastN`, `LastPerRoutine` |
| run logs | `internal/log/writer.go`, `cmd/routines/tail.go` | one file per execution, `latest.log` | `New`, `Write`, `Close`, `Prune`, `Tail` |
| adapters | `internal/adapter/*.go` | a child process and its group | `Run` (`runCmd`) |
| worktrees | `internal/worktree/worktree.go` | a git worktree and a branch per execution | `Create`, `Cleanup` |
| notifiers | `internal/notify/*.go` | none | `Multi.Notify`, `Webhook.Notify`, file, stdout |
| spec parsing | `internal/spec/*.go` | none | `Parse`, `Validate`, `ParseSchedule`, `expandDays` |
| command line | `cmd/routines/*.go` | the spec files | `add`, `enable`, `disable`, `run`, `list`, `logs`, `tail` |
| configuration | `internal/daemoncfg` | a config file, an env file | `Load`, `LoadEnvFile`, `MergeLookup` |
| service files | `install_service.go` | none | templates |

How they interact.  The daemon loads the store, passes every routine to
`AddOrReplace`, starts cron, subscribes to the store and starts `Watch`.  From
then on five kinds of goroutine share state: cron starts one goroutine per due
entry (they meet in the routine's mutex and in `inFlightWg`); fsnotify fills a
queue that `Watch` turns into timers; each timer's callback runs by itself,
parses a file, takes `s.mu` and publishes an event with a non-blocking send; the
hot-reload loop receives events and calls `AddOrReplace` and `Remove`; main waits
for a signal or for the watcher to end and calls `Stop`.  A successful one-shot
closes the circle: its goroutine removes the routine's file, which the watcher
must see for the routine to be unscheduled.

What is hard in it, and what makes each part correct:

* *Scheduler.*  A reload may come between any two steps of a fire, and the new
  cron entry is live before the old one is gone.  A routine must never run twice
  at once, be left with two entries, fire after its removal or be skipped for
  ever; a fire must execute at most `1 + retries` times; fires must end; `Stop`
  must return.
* *Spec store.*  Callbacks of different files, and a callback and the next timer
  of the same file, interleave with `Watch` and with edits of the disk; parsing
  is done before `s.mu` is taken.  A loaded routine must be reachable through
  its file, the store and its event stream must agree, and what is registered
  must end up as what is on disk.
* *Daemon.*  The stale window between store and scheduler: one-shots that come
  due again, specs that cron rejects, events that were dropped.
* *History and logs.*  Crashes between `Begin` and `Finish`, two processes on one
  table, second-resolution file names.
* *Adapters, worktrees.*  Exit against time-out against cancellation; helpers that
  outlive the child; git failing half-way; two executions that want one directory.
  An execution must end, with the status of what happened, without the processes of
  a timed-out child, and without its worktree.
* *Notifiers.*  Answers lost after delivery, a cancellation during a backoff, one
  sink failing beside others.  A failure must reach somebody; what was confirmed must
  not be sent again.
* *Spec parsing.*  Checks made once at load and again at every fire, on text that was
  expanded in between; four sources for a variable; integers that overflow.

`PROJECT.json` lists each hazard at its line with the properties that would catch
it going wrong.

## Modules

### `Scheduler`

One process: the daemon, or (`phase = "cli"`) the process of `routines run`.  A
section under `s.mu` is one action, and everything between two sections, lock
operations or channel operations may interleave.

| TLA+ | code |
|---|---|
| `entries`, `nextId` | robfig/cron's entries and the ids `AddFunc` returns |
| `jobs` | `s.jobs` |
| `locks`, `nextLock`, `held` | `s.locks`, the mutex objects allocated so far, those that are locked |
| `ctl` | the goroutine that registers: main before `Start`, then the hot-reload loop.  `"add"` is between the first section of `AddOrReplace` and `AddFunc`, `"swap"` between `AddFunc` and the second section |
| `pc`, `spec`, `mutex`, `attempt`, `status` | a job's goroutine: its place in `fireFunc`/`runOnce`, the closure's routine, its mutex, executions begun, last result |
| `wg` | `inFlightWg`, as the set it counts |
| `Due`, `WgAdd`, `LockFor`, `Acquire`, `Skip`, `AttemptEnd`, `BackoffElapsed`, `BackoffCanceled`, `Report`, `RemoveSource`, `Unlock`, `WgDone` | the job closure, in this order |
| `FireNow`, `CliExit` | `routines run` |
| `Start`, `Halt`, `Cancel`, `Drained`, `GraceExpired` | cron's start; `Stop`: `c.Stop`, `runCancel`, the two cases of the select |

Abstracted: a routine is what the engine reads of it (name, enabled, whether
cron accepts its expression, failure policy, retries, one-shot); cron's clock (an
entry may be due at any time); what an execution does (`AttemptEnd` chooses its
outcome, "canceled" only once `runCtx` is); log, history, worktree and notifier
calls, which touch no state of this module.

### `SkipIfRunning`

What the scheduler promises, without entries, mutex objects or program counters:
a fire starts a run if no run of the routine is under way, or is dropped; a run
that has started ends.  `Scheduler` maps `running[f]` to the routine of a
goroutine between `TryLock` and `Unlock` (`Running`, `Abs`).

### `FSStore`

The directory, fsnotify's queue, the store, and the subscriber's view of it.

| TLA+ | code |
|---|---|
| `disk`, `queue` | the directory; `w.Events` |
| `stage`, `todo` | main's progress through `Load`, registration, `Watch`; the files `Load` has not read |
| `timers` | the `timers` map of `Watch`, by the identity of the `*time.Timer` |
| `armed`, `callbacks` | the runtime's timers that have not fired; the `AfterFunc` goroutines |
| `routines`, `pathMap`, `errors` | the store's maps |
| `chan`, `dropped` | the subscriber's channel; whether `publish` has dropped an event |
| `view` | what the daemon last passed to `AddOrReplace` or `Remove` |
| `Write`, `Unlink`, `Rename` | edits: an editor, `add`, `enable`, `disable`, the one-shot cleanup |
| `ReadDir`, `LoadNext`, `Register`, `StartWatch` | start-up of the daemon |
| `Schedule`, `TimerFires`, `WatchEnds` | `Watch`: its select and `schedule`; the debounce interval; its return through `drainTimers` |
| `ParseFile`, `Apply`, `Forget` | a callback: parse; the section of `loadFile`/`deleteFile` under `s.mu`, publish included; the entry of the map deleted if it is still its own |
| `Receive`, `Unsubscribe` | the hot-reload loop; the deferred `unsub` |

Abstracted: a file's content is absent, broken, or a spec with a name and a
version.  fsnotify delivers in order and loses nothing; a write that truncates
first is a write of the broken content followed by another write.  Two events of
one `loadFile` (a name change) are put in the channel in one step: a receive
between them could as well come after them when the channel has room for two
(`BoundsAssumption`).

### `Daemon`

`cmd/routines/daemon.go`: `FSStore` and `Scheduler` as they are (`F` and `S`), in
one process.  What joins them is the module's own:

| TLA+ | code |
|---|---|
| `toAdd`, `ListRoutines`, `AddNext` | the loop over `fs.Routines()` before `Start` |
| `StartCron`, `StartWatch`, `Halt`, `Stopping`, `Unsubscribe` | main, in its order |
| `Reload`, `Apply`, `FinishReload` | the hot-reload loop: it receives the next event only after `AddOrReplace` or `Remove` has returned |
| `Cleanup` | `os.Remove(r.SourcePath)` after a successful one-shot: an edit of the directory by a fire, or nothing, if the file is gone or the call fails |
| `spent`, `kept` | history: the one-shots that have succeeded and were not written again since; those of them whose file `os.Remove` could not remove |
| `User` | `add`, `enable`, `disable`, an editor, `rm` |

### `RunRecords`

What the runs of one routine leave behind, and who writes it when: the daemon and
a `routines run` beside it share the database and the log directory, and no lock.
A SQL statement, a file operation and what is between them are steps of their own.

| TLA+ | code |
|---|---|
| `rows` | table `runs`; a row's id is its place |
| `files`, `before`, `text` | the log files; their order by modification time; whose output each holds |
| `latest` | `latest.log` |
| `OpenLog`, `Begin`, `Output`, `EndExec`, `RemoveLink`, `MakeLink`, `Finish` | `executeOnce` and `finalize`: `log.New`, `History.Begin`, the adapter, the trailer, the two steps of `Close`, `History.Finish` |
| `ListLogs`, `RemoveLogs` | `Prune` at the end of `runOnce` |
| `Skip` | `History.Skip` of another fire |
| `Crash`, `lost` | a killed process, a panic, the end of the grace period; executions whose end was not recorded |

Abstracted: "timeout" is "failed" under another name; whether a failed execution is
retried is open (`Scheduler` has the policy); a log that was pruned while open is
written to without effect; pruning is by number only (`max_log_age` is off).

### `Execution`

`executeOnce` from the worktree to the worktree's removal, for executions that share
a repository: of one process (other routines, a retry) or of two.

| TLA+ | code |
|---|---|
| `pc`, `dir`, `outcome` | the place in `executeOnce`, `Create`, `runCmd`, `Cleanup`; the worktree's directory, if the routine has one; the status |
| `stop`, `ctx` | the scheduler's context; `runCmd`'s, which has the time-out too |
| `leader`, `helper` | the child; a process it has started, in its group or not, with the output pipe open or not |
| `waited` | the goroutine of `cmd.Wait` has sent to `done` |
| `trees`, `branches`, `botched` | git: whose worktree is where, which branches exist, whose cleanup failed |
| `Begin`, `AddWorktree`, `AddFails`, `HookDone`, `HookFails` | `setupWorktree`, `Create` |
| `StartChild`, `StartFails`, `WaitReturns`, `TakeDone`, `TakeCtx`, `KillProcessTree`, `Drain` | `runCmd`: start, the two cases of the select, the kill, `<-done` |
| `Expire`, `Stop`, `CommandContext` | the time-out, `runCancel`, `exec.CommandContext`'s own kill of the child alone |
| `RemoveWorktree`, `DeleteBranch` | `Cleanup` |
| `ChildExits`, `ChildForks`, `HelperExits`, `Crash` | the world |

Abstracted: the child has one helper at a time, which is the one that matters; exit
codes are zero or not; a crash of the scheduler's process ends its executions where
they are and leaves child and worktree.

### `Notify`

The end of one run: from the configuration to what each sink has delivered.

| TLA+ | code |
|---|---|
| `sinks`, `BuildNotifier` | `buildNotifier`; a single sink is used without a `Multi` |
| `outputs`, `alert`, `Filter` | the routine; `filterNotifierByOutputs` |
| `MaybeNotify`, `Abandon` | `maybeNotify`; the return of `runOnce` past it |
| `pc`, `attempt` | a sink's goroutine under `Multi`; the requests it has given up on |
| `Send`, `Acked`, `Rejected`, `AttemptFails`, `Elapsed`, `SleepCanceled`, `Unusable` | `Webhook.Notify`: a request, 2xx-3xx, 4xx, 5xx or an error, `sleepCtx`, a URL that is none |
| `Write` | `File.Notify`, `Stdout.Notify` |
| `copies`, `acked`, `result`, `ret` | history: times the event arrived, was confirmed; what `Notify` and `Multi.Notify` returned |

A request that fails may have arrived (`AttemptFails`): the answer was lost.

### `RoutineSpec`

One file, from the directory to the child's environment: `Parse`, `Validate`,
`AddOrReplace`'s translation, `executeOnce`'s and the adapters' own checks.  It is a
pipeline of pure functions (`ParseSchedule`, `Hours`, `Lookup`, `Expand`,
`ChildEnv`), with one action per stage.

| TLA+ | code |
|---|---|
| `raw`, `routine` | the file; the `*spec.Routine` |
| `envFile`, `daemon`, `process`, `value` | what the one variable `V` is in the routine's `env_file`, the daemon's env file and `os.LookupEnv`; what `${V}` became |
| `Hours`, `Wrap` | `expandDays` and `time.ParseDuration`: `24*n` wraps, `fmt.Sprintf` writes the product with its sign, the duration has a range |
| `ParseSchedule`, `CronExpr`, `CronAccepts` | `ParseSchedule`; the seconds field `AddOrReplace` prepends; robfig/cron's parser (external) |
| `Valid`, `Add`, `Execute` | `Validate`; `AddFunc`; the checks of worktree and adapters |

Abstracted: a text is empty, the literal `${V}` or one of the values of `V`; a
schedule is its kind and two numbers; name, `on_failure`, `retries` and the keys of
`env`, which nothing but `Validate` looks at, are one Boolean (`sound`).

The `MC*` modules give the constants their values for TLC; the `*_proofs` modules
hold the theorems.

Operators with a comment "Seeded bug" are not part of any specification: each is
a definition as a plausible slip in the code would make it, and for each property
there is one under which the property fails (`mutants` in `PROJECT.json`).

## Runs

Passing runs:

| run | specification | properties | what it shows |
|---|---|---|---|
| `scheduler_fires` | `FairSpec` | `TypeOK`, `MutualExclusion`, `OneEntryPerRoutine`, `RetryBudget`, `FiresRegistered`, `SkipOnlyIfRunning`, `ImplementsSkipIfRunning`, `FireEndsOne`, `StopReturns` | the safety of the engine through reloads, retries and shutdown; it implements `SkipIfRunning`; a fire whose adapter returns ends, and `Stop` returns even if no adapter does |
| `store_safety` | `Spec` | `TypeOK`, `NoOrphan`, `TimersOwned`, `ViewFollowsStore` | the store's safety, with edits at any time, callbacks of any length, shared names and a channel that overflows |
| `store_edits` | `FairSpec` | `EditsTakeEffect`, `Settles` | edits take effect, under the four conditions below |
| `daemon_reloads` | `FairSpec` | `ViewScheduled`, `DirectoryScheduled`, `OneShotRefires`, `OneShotRetired` | from the file to cron and back: cron has what is on disk once nothing is on its way; a one-shot that has succeeded is unscheduled, and started again only while that is on its way or its file could not be removed |
| `records_safety` | `Spec` | `TypeOK`, `HistoryTruthful`, `RunningIsLive`, `LogOfSecond`, `Retention` | rows belong to their executions and logs to their seconds, whatever two processes, crashes and refused statements do; no more logs are kept than configured |
| `execution_ends` | `FairSpec` | `TypeOK`, `WorktreeKept`, `CleanedUp`, `TreeKilled`, `OutcomeTruthful`, `ExecutionEnds` | two executions that may want one directory keep out of each other's worktree and clean up; whoever wins the race of exit, time-out and `Stop`, the status is what happened and a time-out leaves nothing of the group; every execution ends |
| `notify_reports` | `FairSpec` | `TypeOK`, `ResultTruthful`, `FanOutComplete`, `FailureReported`, `NoRepeat`, `NotifyReturns` | for every configuration and filter: results say what was confirmed, all sinks are waited for, a failure is put to some sink, what was confirmed is not repeated, `maybeNotify` returns |
| `routine_spec` | `Spec` | `AcceptedRuns`, `AcceptedScheduled`, `ScheduleMeant`, `Precedence` | what `Validate` accepts can be scheduled and started, fires when it should, has a time-out, and gets its variables from the innermost source |

Bounds.  The scheduler has two routines and two concurrent fires: skip-if-running
is about two goroutines of one routine, and with two routines the second
goroutine may also belong to the other one, whose registration must not disturb
the first.  `MaxEntries = 3` lets one routine be replaced twice, or removed and
added again beside the other (the smallest number with which a third entry could
be left behind).  Routine a is a retried one-shot or disabled, so a fire can take
every branch of `runOnce`; b is plain.  `retries = 1` gives a first execution, a
retry and the end of the budget.  `FireEndsOne` is `FireEnds` of one of the two
goroutines: they differ in nothing, and each more would double the graph on which
liveness is checked.  An expression that cron rejects is in `daemon_reloads`.

The store has two files and two names: enough for a name that moves from one file
to the other, for two files with one name and for a file that changes its name.
`MaxEdits` is the number of edits that reach a second timer while the callback of
the first runs and a third edit before both are done.  `ChanCap` is 2 in
`store_safety`, so that events are dropped, and 6 elsewhere, so that none is.

The daemon has one file, one routine and two fires of it: what `Daemon` adds is
the way of one routine round the circle, and what two goroutines of a one-shot do to
each other on it; several files and routines are the other two modules' matter.  The
file may be an enabled one-shot, disabled, or of a schedule that cron rejects, so that
a reload may leave the last good entry in place.  In `daemon_reloads` the file's first
content is followed by an edit by the user, by a cleanup, or by both, while fires and
events of the first content are under way; two entries are all that can come of it
(`MaxEntries = 3` has the same states).  A file that is written again after its cleanup
is beyond that bound, for the sake of two fires in a run with liveness; the proofs of
the safety properties have any number of edits.

The records have two processes, three executions, one of which may be a retry, and two
seconds, so that two executions fall in one second or all three do;
`KeepLastN = 1` makes every run prune, also the log another run has open.  One
execution may be cut short or lose its `Finish` (`MaxLost`), and one fire may be
skipped (`MaxSkips`).  The processes are symmetric.

Executions: two, and one directory, so that both may want it (a `path:` in the spec,
a retry, a second process); with more directories they would not meet.  Each child
may have every kind of helper.  Notifiers: two webhooks, a file and a notifier of a
kind `buildNotifier` does not know, of which every subset is a configuration, so that
there are zero to three sinks; `outputs` may give a notifier's name (`slack`) and a
kind (`webhook`).  Spec files: every form of schedule at and beyond the ends of its
ranges, 0 to 130 days with ints of eight bits (24 * 6 is the first product that
wraps, 11 days come out as 8 hours), and for one schedule every combination of the
other fields; the proofs say that the width does not matter.

Deadlock.  It is checked for the scheduler: its `Next` always has a step, as the
reload loop may remove a routine at any time and `routines run` stutters when it
has returned (`CliExit`), so the check says little there and the liveness
properties say that nobody waits for ever.  The other configurations say
`CHECK_DEADLOCK FALSE`: edits, seconds and executions are bounded, and a daemon
whose directory is not edited and whose routines do not come due has nothing to do.

The inductive invariants of the proofs (`Inv` of each module) hold of these instances
too; the runs check their parts that say something of the code.  `Daemon` has the
types of the modules it joins, which are checked there, and three variables of its own.
The invariants that only proofs use (`EditsInv`, `ReloadInv`, `EntriesWritten`,
`SpentGone`) are at the end of the modules and can be given to TLC with
the same configurations.

`EditsTakeEffect` holds in `store_edits` under four conditions, and none of them
can be dropped:

1. the directory does not change before it is watched: with `EarlyEdits = TRUE` a
   file written after `Load` has read it and before `w.Add` is never read;
2. each file keeps to names of its own and files are not renamed (`Writes`,
   `Moves`): run `store_rename`;
3. a callback is done before the next timer of its file fires (`Prompt`);
4. the channel has room: with `ChanCap = 2` a dropped event is never made good.

Setting the constant of 1, 3 or 4 in `FSStore_edits.cfg` gives the counterexample.  The
first three are `Orderly` in `FSStore`, the fourth is `~dropped`: the theorems have
them as hypotheses.

`DirectoryScheduled` assumes the conditions of `EditsTakeEffect`.  `OneShotRetired`
excuses one-shots whose file `os.Remove` could not remove (`scheduler.go:256` logs the
error and nothing repeats the call; the routine then fires on), and a watcher that has
ended.  `OneShotRefires` excuses the former, dropped events, and the time the removal
takes to be done and to reach cron; that a one-shot does run twice in that time is run
`daemon_oneshot`.

`LogOfSecond` says what second-resolution names and `O_TRUNC` leave of "a log is of one
run": executions of different seconds have logs of their own; of those in one second
the last to open the file has its output there, and others may go on writing to it.
That this is less than the code's comments say is run `records_seconds`.

## Disagreements

Four runs show where the code does not do what its docs or comments say:

| run | property | what happens |
|---|---|---|
| `scheduler_grace` | `GraceHonoured` | `runCancel` comes before the grace timer, so in-flight runs are killed at once (`docs/cli.md:11`) |
| `store_rename` | `EditsTakeEffect` | the old path's delete is applied after the new path's load and removes the routine (`docs/cli.md:9`) |
| `daemon_oneshot` | `OneShotOnce` | a one-shot comes due again before the removal of its file has reached cron (an `every 1s` one-shot is enough), or did so while its first run was in flight: the second goroutine takes the mutex when the first has unlocked, and runs it again (`docs/spec.md:25` and `84`) |
| `records_seconds` | `LogIntact` | a `routines run` in the second of a cron fire, or a retry in the second of the attempt before it, truncates the other's log (`writer.go:16`; `scheduler.go:362` says that it happens) |

Six more are one constant or one line of a configuration away:

* `StopWaitsForFires` as an invariant of `Scheduler_fires.cfg`: cron starts a
  goroutine; before its first statement, `inFlightWg.Add(1)`, runs, `Stop`'s `Wait`
  sees zero and `Stop` returns (`scheduler.go:51` has the WaitGroup track the fires).
* `Prompt = FALSE` in `FSStore_edits.cfg`: a callback parses, is overtaken by the next
  callback of its file, and stores the older content.
* `EarlyEdits = TRUE`, or `ChanCap = 2`, in `FSStore_edits.cfg`: conditions 1 and 4
  above.
* `OutputsSelect` as an invariant of `Notify_reports.cfg`: the names in `outputs` are
  compared with `Name()`, which is the sink's kind, as `buildNotifier` drops the
  configured names; a routine that names `slack` is reported to every notifier
  (`docs/spec.md:21`).
* `LatestUsable` as an invariant of `RunRecords_safety.cfg`: a process's `os.Symlink` fails as another has made the link since its
  `os.Remove`; the link names the older log, which is pruned (`writer.go:55`).
* `FailedCreateCleans` as an invariant of `Execution_ends.cfg`: when
  `git worktree add -b` fails, or is killed half-way, its branch or worktree stays
  (`worktree.go:47`).

Read in the code and not a property: a failed run that `Stop` ends while it waits for
its retry returns past `maybeNotify` (`Abandon`), though the comment of `runOnce` has
the notifier fire once; two files with one name are both loaded, though
`docs/spec.md` wants names unique; a callback that has fired before `drainTimers`
still changes the store after it; `LastN` and `LastPerRoutine` scan NULL columns into
strings, so `list` and `logs` fail while a row is running or after a skip; when
`log.New` fails, `executeOnce` passes a nil `*Writer` as a non-nil `io.Writer` and the
first output of the adapter panics (in `RunRecords` that is a `Crash`);
`docs/adapters/shell.md:22` says that the entire process tree is killed, but a process
that has left the group is not, and keeps the fire waiting if it has the output pipe;
a cancellation kills the child alone (`CommandContext`) unless the select takes
`ctx.Done()` before `Wait` has returned, so helpers may survive a `Stop`;
`every 768614336404564651d` is accepted and means every 8 hours.

## Fairness

`Scheduler!Fairness`: a Go runtime runs every goroutine that can run, so each
goroutine's own steps (`Own(f)`) and the two steps inside `AddOrReplace` are
weakly fair; timers expire and a select takes a case that stays ready, so
`Cancel`, `Drained` and `GraceExpired` are.  No fairness is assumed of `Due`,
`Halt`, `Start`, `AddOrReplace` or `Remove`: nothing says that a routine comes
due, a signal arrives or a file is edited.  That a fire's adapter returns
(`AdapterReturns`) is not part of it: it is the antecedent of `FireEnds`, of that fire
alone, justified by the time-out `spec.Parse` gives every routine and after which
`runCmd` kills the child's process group; `StopReturns` does without it.

`FSStore!Fairness`: start-up, `Watch`'s select, expiring timers, callbacks and the
hot-reload loop.  None of edits and none of `WatchEnds`.

`Daemon!Fairness`: the store's goroutines and timers (`Deliver`), the hot-reload loop
(`Reload`, `FinishReload`) and each fire, whose adapter returns.  None of main, of
`Due`, of edits and of `WatchEnds`.  `RunRecords` and `RoutineSpec` have no liveness
property and no fairness.

`Execution!FairSpec`: `executeOnce`'s own steps, git commands that return, the
time-out that passes.  None of the child, its helper, `Stop` or `post_create`.
`ExecutionEnds` has two antecedents because the code does not bound what they say:
`HooksReturn` (`post_create` has no time-out) and `PipesFreed` (after the kill
`runCmd` waits for the output pipe, which a helper outside the group can hold).

`Notify!FairSpec`: each sink and `Multi`'s return.  A request always comes to an end
because the HTTP client has a time-out of ten seconds, and `sleepCtx` because its
timer elapses.  None of `MaybeNotify` and `Cancel`.

## Proofs

`Scheduler_proofs`, for any sets of routines, specs and goroutines:

* `Invariance`: `Spec => []Inv`.  None of the properties is inductive alone.
  `MutualExclusion` follows from three facts that need each other (`LocksInv`): the
  `locks` map gives no mutex object to two names, a goroutine past `lockFor` holds
  the object its name has *now* (this is what keeping the mutex in `Remove` buys),
  and a locked mutex has exactly one goroutine at a busy point behind it.
  `OneEntryPerRoutine` and `FiresRegistered` follow from `EntriesInv`: a live entry
  is its name's job or the one `AddOrReplace` is installing.  `RetryBudget` needs what
  the backoff point knows of the counter (`AttemptsInv`).
* `TypeCorrectness`, `SkipIfRunningSafe`, `OneEntry`, `RetriesBounded`,
  `SkipJustified`, `OnlyRegisteredFires`: the safety properties of `scheduler_fires`.
* `Refinement`: `Spec => ImplementsSkipIfRunning`, that is `Abs!Safe`, the safety part
  of `SkipIfRunning`.  `LivenessRefined`: with it, all of `SkipIfRunning` is implemented
  if every fire returns, which `FireEnds` says and TLC checks.

`FSStore_proofs`, for any finite or infinite set of files, names and contents, any
edits and any channel of at least two places:

* `Invariance`: `Spec => []Inv`.  `NoOrphan` and `ViewFollowsStore` are inductive
  given the types and `StartInv` (before `Watch` nothing is in flight, and main has
  registered what `Load` found).  `TimersOwned` needs `TimerIds`: no two timers that may
  still act share an id, so that the test in the callback
  (`timers[path] == self`) decides correctly.
* `TypeCorrectness`, `LoadedIsOwned`, `DrainIsComplete`, `SubscriberFollows`.

And, with `Orderly` as hypothesis, that edits take effect:

* `EditsTracked`: `Spec => []EditsInv`.  An edit passes through `queue`, `armed`,
  `callbacks`, the store's maps, `chan` and `view`; the invariant says of each file that
  the *newest* of these knows the file's present state, and that the older ones do not
  matter (`Tracked`): the last sighting in the queue, else the timer that is armed,
  else a callback that has still to store what the file has now (`Fresh`), else the
  maps (`Stored`).  It needs that there is one timer and one callback per path
  (`OneTimer`, which is where `Prompt` comes in) and that whatever was read was written
  to that file (`FromWrites`, so that no other file's events touch the name).
* `EditsArrive`: `Spec => [](~dropped => EditsTakeEffect)`.  When all is quiet only
  `Stored` is left of `Tracked`, and `ViewFollowsStore` takes the maps to `view`.

`Daemon_proofs`, for any number of files, names, contents, goroutines and edits:

* `StoreImplemented`, `SchedulerImplemented`: the daemon's variables behave as those of
  `FSStore` and of `Scheduler`.  The cleanup, an edit to the one, is `RemoveSource` to
  the other; that what the loop receives is a routine or a name comes from the store's
  types; that main and the loop never call `AddOrReplace` at the same time comes from
  `StartOrder`.
* `Invariance`: `DaemonInv` is the two modules' invariants with `ReloadInv`:
  `AddOrReplace` under way is of the last spec its name was given (`InstallsView`), and
  every other name is scheduled as it was last given (`OthersScheduled`).
  `ViewIsScheduled` and `PartsKeepPromises` (the two modules' invariants) are
  consequences, and so is `FiresKeepPromises`: the scheduler's action properties, and
  that the daemon implements `SkipIfRunning`.
* `DirectoryIsScheduled`, if `Orderly`: `Spec => [](~dropped => DirectoryScheduled)`,
  from `EditsArrive`, `ReloadInv` and `EntriesWritten` (an entry of cron's was written to
  a file, and no other file has its name).
* `OneShotsRefire`, if `Orderly`: `Spec => OneShotRefires`, whether `os.Remove` fails or
  not and however many fires overlap.  The file of a one-shot that has succeeded is
  gone, could not be removed, or its fire is about to remove it (`SpentGone`); cron has
  an entry of it while nothing is on its way only if the file is there
  (`DirectoryScheduled`).
* `TypeCorrectness`.

`Execution_proofs`, for any number of executions and directories: `Invariance` of
`Inv`, which adds to the properties how far an execution's processes are (`Phase`: a
process in the drain has no running child and none in the group) and what of git is
its own (`Checkout`: a directory it does not have it never removes); `WorktreesKept`,
`ExecutionsCleanUp`, `TreesKilled`, `OutcomesTruthful`, `TypeCorrect`.

`Notify_proofs`, for any notifiers, kinds and outputs: `Invariance` of `Inv`, which
adds that a sink which is not done was not confirmed and has made fewer than three
attempts (`Progress`), and that a run which is over has waited for all (`Reporting`);
`ResultsTruthful`, `FanOutsComplete`, `FailuresReported`, `NothingRepeated` (an action
property), `TypeCorrect`.  That some sink is always picked rests on `SomeSink` and
`SomeMatch`.

`RoutineSpec_proofs`, for ints and durations of any width and any set of spec files:
`Translation` (an entry made of a schedule has the schedule's meaning, by cases on
its form) and `Accepted` (cron takes everything `ParseSchedule` makes itself) are
about the operators; the invariant `IInv` carries them along the pipeline:
`AcceptedRoutinesRun`, `AcceptedRoutinesScheduled`, `SchedulesMeant`,
`PrecedenceKept`, `TypeCorrect`.

`RunRecords_proofs`, for any number of processes, executions and lost ends:

* `HistoryIsTruthful` and `RunningRowsLive`, from `HInv`: processes are in executions
  of their own (`RunsApart`), rows belong to different executions (`RowsApart`), and a
  process that still has to finish its row is the only one with that row, which is
  open (`RowOwned`).  Actions that touch neither rows nor executions are dealt with
  once (`Quiet`).
* `LogsOfTheirSecond`: a file that exists has output of executions of its second only,
  of one at least that is no older than any row or process that names the file, and a
  process writes to no other file (`LogsOwned`); pruning and reopening keep that.
* `LogsPruned`: `before` orders the files (`Ordered`), so that all but `KeepLastN` have
  `KeepLastN` newer ones; and once every run under way has listed the files, those that
  nobody has listed for removal are no more than that (`Pruned`).
* `TypeCorrect`.

The one hypothesis is `Orderly`, which holds of the constants of `FSStore_edits.cfg` and
`Daemon_reloads.cfg`; "Bounds" and "Disagreements" say what happens without it.

The proofs rest on the named assumptions of the modules (`SpecsAssumption`,
`MaxEntriesAssumption`, `FilesAssumption`, `ContentsAssumption`, `BoundsAssumption`,
`PathsAssumption`, `HelperAssumption`, `NotifiersAssumption`, `RawsAssumption`,
`IntAssumption`, `RecordsAssumption`), which say what the fields of a record range over,
that the model values are distinct, that the channel holds two events (16 in the code)
and that durations are ints.  TLC evaluates them in every run.

Only model-checked: the liveness properties (`FireEnds`, `StopReturns`, `Settles`,
`OneShotRetired`, `ExecutionEnds`, `NotifyReturns`), as the prover does not do liveness
under fairness.  The safety properties of all runs are proved.

## Not modelled

* Service files (`install_service.go`): text written once and a call of launchctl or
  systemctl.  `daemoncfg.Load`: defaults filled in once.  YAML, the text the commands
  print, messages of notifiers.
* `tail`, `logs`, `list`: they read.
* Pruning by age; HTTP redirects; the rounding of periods below a second by
  robfig/cron; an argument of `command` that expands to the empty text.
* A helper that has left the group and has closed the pipe: nothing of the program
  waits for it or kills it.  Windows' `taskkill /T`.
* `finalize` runs before the deferred `Cleanup`: in `RunRecords` and `Execution` they
  are in different modules, and neither reads what the other writes.
* Edits of the daemon's env file: it is read once, at start-up.

## Plan

Done: `Scheduler`, `SkipIfRunning`, `FSStore`, `Daemon`, `RunRecords`, `Execution`,
`Notify`, `RoutineSpec`, their runs, and the proofs above.  What would come next, in
this order:

1. An abstract specification of the reload path (a directory that is copied, file by
   file, to a set of entries) that `Daemon` implements under `Orderly`.
2. `EditsTakeEffect` for directories that are not `Orderly`: which files it still holds
   of when two others share a name.
3. Modification times as numbers, so that pruning by age can be added to `RunRecords`.
