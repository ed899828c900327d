----------------------------- MODULE Scheduler -----------------------------
(***************************************************************************)
(* The engine of internal/scheduler/scheduler.go in one process: the cron  *)
(* entries, the jobs and locks maps behind s.mu, the goroutine that calls  *)
(* AddOrReplace and Remove, the goroutines cron starts for due entries     *)
(* (skip-if-running, attempts, retries, report, one-shot cleanup) and      *)
(* Stop.  A section under s.mu is one action; everything between two       *)
(* sections, locks or channel operations can interleave.                   *)
(***************************************************************************)
EXTENDS Naturals

CONSTANTS
  Names,        \* routine names
  Specs,        \* the parsed routines a caller may pass (*spec.Routine)
  NoSpec,       \* "no routine": a free cron entry, an idle goroutine
  Fires,        \* goroutines cron may have started at the same time
  MaxEntries    \* bound: cron entries created in one behaviour

(* What the engine reads of a routine.  cronOk: robfig/cron accepts the    *)
(* schedule, which spec.Validate does not check for 5-field expressions.   *)
ASSUME SpecsAssumption ==
  /\ NoSpec \notin Specs \cup Names
  /\ \A r \in Specs : /\ r.name \in Names
                      /\ r.enabled \in BOOLEAN
                      /\ r.cronOk \in BOOLEAN
                      /\ r.onFailure \in {"retry", "skip", "alert"}
                      /\ r.retries \in Nat
                      /\ r.once \in BOOLEAN

ASSUME MaxEntriesAssumption == MaxEntries \in Nat

Ids    == 1 .. MaxEntries
NoId   == 0      \* a name without a job
NoLock == 0      \* a name whose mutex does not exist yet

VARIABLES
  phase,     \* the daemon's life: see Phases
  entries,   \* entries[id]: the routine cron entry id fires, or NoSpec
  nextId,    \* the last cron entry id handed out
  jobs,      \* jobs[n]: the cron entry of routine n, or NoId
  locks,     \* locks[n]: the mutex object of routine n, or NoLock
  nextLock,  \* the mutex objects allocated so far are 1 .. nextLock
  held,      \* the mutex objects that are locked
  ctl,       \* the goroutine that calls AddOrReplace and Remove
  pc,        \* pc[f]: where fire goroutine f is
  spec,      \* spec[f]: the routine captured by f's closure
  mutex,     \* mutex[f]: the mutex object lockFor returned to f
  attempt,   \* attempt[f]: executions begun by f
  status,    \* status[f]: outcome of f's last execution
  wg         \* inFlightWg, as the set of goroutines it counts

cronVars == <<entries, nextId>>
lockVars == <<locks, nextLock>>
fireVars == <<pc, spec, mutex, attempt, status>>
daemonVars == <<phase, cronVars, jobs, ctl>>
vars == <<phase, cronVars, jobs, lockVars, held, ctl, fireVars, wg>>

(* "cli" is the process of `routines run`; the others are the daemon's:    *)
(* cron not started, cron running, cron stopped, runCtx canceled and Stop  *)
(* waiting, and the two ways Stop returns.                                 *)
Phases == {"cli", "loading", "running", "halted", "draining",
           "drained", "graceExpired"}

(* "canceled" is StatusFailed with runErr = context.Canceled. *)
Statuses == {"none", "success", "failed", "timeout", "canceled"}

(* The goroutine holds its routine's mutex exactly at these points. *)
Busy == {"exec", "backoff", "report", "cleanup", "unlock"}

Points == {"idle", "spawned", "locate", "try", "done"} \cup Busy

(* runCtx.Done() is closed: Stop has called runCancel. *)
Canceled == phase \in {"draining", "drained", "graceExpired"}

Idle == [pc |-> "idle", spec |-> NoSpec, id |-> NoId]

Init ==
  /\ phase \in {"cli", "loading"}
  /\ entries = [id \in Ids |-> NoSpec]
  /\ nextId = NoId
  /\ jobs = [n \in Names |-> NoId]
  /\ locks = [n \in Names |-> NoLock]
  /\ nextLock = 0
  /\ held = {}
  /\ ctl = Idle
  /\ pc = [f \in Fires |-> "idle"]
  /\ spec = [f \in Fires |-> NoSpec]
  /\ mutex = [f \in Fires |-> NoLock]
  /\ attempt = [f \in Fires |-> 0]
  /\ status = [f \in Fires |-> "none"]
  /\ wg = {}

-----------------------------------------------------------------------------
(* Registration: one goroutine, main before Start, the hot-reload loop     *)
(* after it.                                                               *)

(* The mutex object of n, created the first time it is asked for.          *)
EnsureLock(n) ==
  IF locks[n] = NoLock
  THEN /\ nextLock' = nextLock + 1
       /\ locks' = [locks EXCEPT ![n] = nextLock + 1]
  ELSE UNCHANGED lockVars

(* Seeded bug: Remove deletes the name from locks too. *)
DropJobAndLock(n) ==
  /\ entries' = [id \in Ids |-> IF id = jobs[n] THEN NoSpec ELSE entries[id]]
  /\ jobs' = [jobs EXCEPT ![n] = NoId]
  /\ locks' = [locks EXCEPT ![n] = NoLock]
  /\ UNCHANGED <<nextId, nextLock>>

(* Seeded bug: Remove forgets the job without telling cron. *)
DropJobOnly(n) ==
  /\ jobs' = [jobs EXCEPT ![n] = NoId]
  /\ UNCHANGED <<entries, nextId, lockVars>>

(* Remove: drop the cron entry and the job, keep the mutex object. *)
DropJob(n) ==
  /\ \/ /\ jobs[n] # NoId
        /\ entries' = [entries EXCEPT ![jobs[n]] = NoSpec]
        /\ jobs' = [jobs EXCEPT ![n] = NoId]
     \/ /\ jobs[n] = NoId
        /\ UNCHANGED <<entries, jobs>>
  /\ UNCHANGED <<nextId, lockVars>>

Remove(n) ==
  /\ phase # "cli"
  /\ ctl = Idle
  /\ DropJob(n)
  /\ UNCHANGED <<phase, held, ctl, fireVars, wg>>

(* AddOrReplace up to its first unlock.  A disabled routine is removed;    *)
(* for an enabled one the mutex object exists before cron can fire it.     *)
AddOrReplace(r) ==
  /\ phase # "cli"
  /\ ctl = Idle
  /\ \/ /\ ~r.enabled
        /\ DropJob(r.name)
        /\ UNCHANGED ctl
     \/ /\ r.enabled
        /\ nextId < MaxEntries
        /\ EnsureLock(r.name)
        /\ ctl' = [pc |-> "add", spec |-> r, id |-> NoId]
        /\ UNCHANGED <<cronVars, jobs>>
  /\ UNCHANGED <<phase, held, fireVars, wg>>

(* c.AddFunc: the entry can fire from here on, beside the one it replaces. *)
(* An expression cron rejects ends the call and leaves the old job alone.  *)
AddFunc ==
  /\ ctl.pc = "add"
  /\ \/ /\ ctl.spec.cronOk
        /\ nextId' = nextId + 1
        /\ entries' = [entries EXCEPT ![nextId + 1] = ctl.spec]
        /\ ctl' = [ctl EXCEPT !.pc = "swap", !.id = nextId + 1]
     \/ /\ ~ctl.spec.cronOk
        /\ ctl' = Idle
        /\ UNCHANGED cronVars
  /\ UNCHANGED <<phase, jobs, lockVars, held, fireVars, wg>>

(* Seeded bug: the old cron entry stays. *)
SwapJobKeepingOld ==
  /\ ctl.pc = "swap"
  /\ jobs' = [jobs EXCEPT ![ctl.spec.name] = ctl.id]
  /\ ctl' = Idle
  /\ UNCHANGED <<phase, entries, nextId, lockVars, held, fireVars, wg>>

(* The second section of AddOrReplace: retire the old entry. *)
SwapJob ==
  /\ ctl.pc = "swap"
  /\ entries' = [id \in Ids |-> IF id = jobs[ctl.spec.name] THEN NoSpec
                                ELSE entries[id]]
  /\ jobs' = [jobs EXCEPT ![ctl.spec.name] = ctl.id]
  /\ ctl' = Idle
  /\ UNCHANGED <<phase, nextId, lockVars, held, fireVars, wg>>

-----------------------------------------------------------------------------
(* Fires. *)

Move(f, p, q) == pc[f] = p /\ pc' = [pc EXCEPT ![f] = q]

(* Seeded bug: the closure looks the routine up by name when it starts. *)
LaunchLookedUp(f, r, p) ==
  /\ pc[f] = "idle"
  /\ pc' = [pc EXCEPT ![f] = p]
  /\ spec' = [spec EXCEPT ![f] = IF jobs[r.name] = NoId THEN NoSpec
                                 ELSE entries[jobs[r.name]]]
  /\ UNCHANGED <<mutex, attempt, status>>

(* Goroutine f takes up routine r, which its closure captured, at point p. *)
Launch(f, r, p) ==
  /\ pc[f] = "idle"
  /\ pc' = [pc EXCEPT ![f] = p]
  /\ spec' = [spec EXCEPT ![f] = r]
  /\ UNCHANGED <<mutex, attempt, status>>

(* cron finds an entry due and starts its job in a goroutine of its own. *)
Due(f, id) ==
  /\ phase = "running"
  /\ entries[id] # NoSpec
  /\ Launch(f, entries[id], "spawned")
  /\ UNCHANGED <<daemonVars, lockVars, held, wg>>

(* inFlightWg.Add(1): the first statement of the job, in the goroutine. *)
WgAdd(f) ==
  /\ Move(f, "spawned", "locate")
  /\ wg' = wg \cup {f}
  /\ UNCHANGED <<daemonVars, lockVars, held, spec, mutex, attempt, status>>

(* FireNow, the only call of the `routines run` process: no WaitGroup. *)
FireNow(f, r) ==
  /\ phase = "cli"
  /\ nextLock = 0
  /\ \A g \in Fires : pc[g] = "idle"
  /\ Launch(f, r, "locate")
  /\ UNCHANGED <<daemonVars, lockVars, held, wg>>

(* Seeded bug: lockFor hands out a new mutex without looking for one. *)
LockForFresh(f) ==
  /\ Move(f, "locate", "try")
  /\ nextLock' = nextLock + 1
  /\ locks' = [locks EXCEPT ![spec[f].name] = nextLock + 1]
  /\ mutex' = [mutex EXCEPT ![f] = nextLock + 1]
  /\ UNCHANGED <<daemonVars, held, spec, attempt, status, wg>>

LockFor(f) ==
  /\ Move(f, "locate", "try")
  /\ EnsureLock(spec[f].name)
  /\ mutex' = [mutex EXCEPT ![f] = locks'[spec[f].name]]
  /\ UNCHANGED <<daemonVars, held, spec, attempt, status, wg>>

(* TryLock succeeds and the first execution begins. *)
Acquire(f) ==
  /\ Move(f, "try", "exec")
  /\ mutex[f] \notin held
  /\ held' = held \cup {mutex[f]}
  /\ attempt' = [attempt EXCEPT ![f] = 1]
  /\ UNCHANGED <<daemonVars, lockVars, spec, mutex, status, wg>>

(* TryLock fails: "previous run still in flight", History.Skip. *)
Skip(f) ==
  /\ Move(f, "try", "done")
  /\ mutex[f] \in held
  /\ UNCHANGED <<daemonVars, lockVars, held, spec, mutex, attempt, status, wg>>

(* Seeded bug: the retry loop runs once too often. *)
RetriesOneMore(r, k, s) ==
  /\ s # "success"
  /\ r.onFailure = "retry"
  /\ k <= r.retries + 1
  /\ ~(k = 1 /\ s = "timeout")

(* Does runOnce go to another backoff after the k-th execution ended in s? *)
(* A time-out ends the run only when it is the first execution's.          *)
Retries(r, k, s) ==
  /\ s # "success"
  /\ r.onFailure = "retry"
  /\ k <= r.retries
  /\ ~(k = 1 /\ s = "timeout")

(* executeOnce returns.  Its context derives from runCtx. *)
AttemptEnd(f) ==
  /\ pc[f] = "exec"
  /\ \E s \in Statuses \ {"none"} :
       /\ s = "canceled" => Canceled
       /\ status' = [status EXCEPT ![f] = s]
       /\ pc' = [pc EXCEPT ![f] = IF Retries(spec[f], attempt[f], s)
                                  THEN "backoff" ELSE "report"]
  /\ UNCHANGED <<daemonVars, lockVars, held, spec, mutex, attempt, wg>>

(* Seeded bug: the retry loop does not count. *)
BackoffElapsedUncounted(f) ==
  /\ Move(f, "backoff", "exec")
  /\ UNCHANGED <<daemonVars, lockVars, held, spec, mutex, attempt, status, wg>>

(* The backoff timer wins the select; with runCtx canceled as well, Go may *)
(* still pick it.                                                          *)
BackoffElapsed(f) ==
  /\ Move(f, "backoff", "exec")
  /\ attempt' = [attempt EXCEPT ![f] = @ + 1]
  /\ UNCHANGED <<daemonVars, lockVars, held, spec, mutex, status, wg>>

(* Seeded bug: leaving on runCtx.Done() misses the unlock. *)
BackoffCanceledHolding(f) ==
  /\ Move(f, "backoff", "done")
  /\ Canceled
  /\ UNCHANGED <<daemonVars, lockVars, held, spec, mutex, attempt, status, wg>>

(* runCtx.Done() wins: runOnce returns at once, past notifier and prune. *)
BackoffCanceled(f) ==
  /\ Move(f, "backoff", "unlock")
  /\ Canceled
  /\ UNCHANGED <<daemonVars, lockVars, held, spec, mutex, attempt, status, wg>>

(* maybeNotify and Prune; a successful one-shot goes on to remove its file. *)
Report(f) ==
  /\ pc[f] = "report"
  /\ pc' = [pc EXCEPT ![f] = IF spec[f].once /\ status[f] = "success"
                             THEN "cleanup" ELSE "unlock"]
  /\ UNCHANGED <<daemonVars, lockVars, held, spec, mutex, attempt, status, wg>>

(* os.Remove(r.SourcePath): the file system is outside this module. *)
RemoveSource(f) ==
  /\ Move(f, "cleanup", "unlock")
  /\ UNCHANGED <<daemonVars, lockVars, held, spec, mutex, attempt, status, wg>>

(* The deferred lock.Unlock. *)
Unlock(f) ==
  /\ Move(f, "unlock", "done")
  /\ held' = held \ {mutex[f]}
  /\ UNCHANGED <<daemonVars, lockVars, spec, mutex, attempt, status, wg>>

(* The deferred inFlightWg.Done; the goroutine is gone. *)
WgDone(f) ==
  /\ Move(f, "done", "idle")
  /\ wg' = wg \ {f}
  /\ spec' = [spec EXCEPT ![f] = NoSpec]
  /\ mutex' = [mutex EXCEPT ![f] = NoLock]
  /\ attempt' = [attempt EXCEPT ![f] = 0]
  /\ status' = [status EXCEPT ![f] = "none"]
  /\ UNCHANGED <<daemonVars, lockVars, held>>

-----------------------------------------------------------------------------
(* The daemon's life. *)

Goto(p, q) ==
  /\ phase = p
  /\ phase' = q
  /\ UNCHANGED <<cronVars, jobs, lockVars, held, ctl, fireVars, wg>>

(* Main starts cron after its own AddOrReplace calls. *)
Start == ctl = Idle /\ Goto("loading", "running")

(* A signal, or the watcher's end, takes main to Stop: c.Stop() ... *)
Halt == Goto("running", "halted")

(* ... runCancel() and the goroutine in inFlightWg.Wait() ... *)
Cancel == Goto("halted", "draining")

(* ... and the select: the WaitGroup has reached zero, or the grace period *)
(* is over.                                                                *)
Drained == wg = {} /\ Goto("draining", "drained")

(* Seeded bug: Stop waits for the WaitGroup alone. *)
GraceExpiredOnlyIfDrained == wg = {} /\ Goto("draining", "graceExpired")

GraceExpired == Goto("draining", "graceExpired")

(* `routines run` has returned. *)
CliExit ==
  /\ phase = "cli"
  /\ \A f \in Fires : pc[f] = "idle"
  /\ UNCHANGED vars

Registration ==
  \/ \E r \in Specs : AddOrReplace(r)
  \/ \E n \in Names : Remove(n)
  \/ AddFunc
  \/ SwapJob

Lifecycle == Start \/ Halt \/ Cancel \/ Drained \/ GraceExpired \/ CliExit

(* The steps goroutine f takes by itself, but for the adapter's return. *)
Own(f) ==
  \/ WgAdd(f) \/ LockFor(f) \/ Acquire(f) \/ Skip(f)
  \/ BackoffElapsed(f) \/ BackoffCanceled(f)
  \/ Report(f) \/ RemoveSource(f) \/ Unlock(f) \/ WgDone(f)

FireStep(f) ==
  \/ \E id \in Ids : Due(f, id)
  \/ \E r \in Specs : FireNow(f, r)
  \/ Own(f)
  \/ AttemptEnd(f)

Next == Registration \/ Lifecycle \/ \E f \in Fires : FireStep(f)

Spec == Init /\ [][Next]_vars

(* The Go runtime runs every goroutine that can run, timers expire, and    *)
(* Stop's select takes a case that stays ready.  Nothing says that a       *)
(* routine comes due, that a signal arrives or that an adapter returns.    *)
Fairness ==
  /\ WF_vars(AddFunc) /\ WF_vars(SwapJob)
  /\ WF_vars(Cancel) /\ WF_vars(Drained) /\ WF_vars(GraceExpired)
  /\ \A f \in Fires : WF_vars(Own(f))

FairSpec == Spec /\ Fairness

(* f's adapter returns: Parse gives every routine a timeout, after which   *)
(* runCmd kills the child's process group.  FairSpec does not assume it.   *)
AdapterReturns(f) == WF_vars(AttemptEnd(f))

-----------------------------------------------------------------------------
(* Properties. *)

(* The types of the variables; a goroutine carries a routine exactly while *)
(* it is not idle, so cron never starts a job for a removed entry.         *)
TypeOK ==
  /\ phase \in Phases
  /\ entries \in [Ids -> Specs \cup {NoSpec}]
  /\ nextId \in 0 .. MaxEntries
  /\ jobs \in [Names -> Ids \cup {NoId}]
  /\ locks \in [Names -> Nat]
  /\ nextLock \in Nat
  /\ held \subseteq Nat
  /\ ctl \in [pc : {"idle", "add", "swap"}, spec : Specs \cup {NoSpec},
              id : Ids \cup {NoId}]
  /\ IF ctl.pc = "idle" THEN ctl = Idle ELSE ctl.spec \in Specs
  /\ ctl.pc = "add" => nextId < MaxEntries
  /\ ctl.pc = "swap" => ctl.id \in Ids
  /\ pc \in [Fires -> Points]
  /\ spec \in [Fires -> Specs \cup {NoSpec}]
  /\ \A f \in Fires : spec[f] = NoSpec <=> pc[f] = "idle"
  /\ mutex \in [Fires -> Nat]
  /\ attempt \in [Fires -> Nat]
  /\ status \in [Fires -> Statuses]
  /\ wg \subseteq Fires

(* Skip-if-running: two goroutines never run the same routine at once, not *)
(* even when the routine was removed and added again while one of them was *)
(* running (scheduler.go, the comment on Remove).                          *)
MutualExclusion ==
  \A f, g \in Fires :
    f # g /\ pc[f] \in Busy /\ pc[g] \in Busy => spec[f].name # spec[g].name

(* A routine has one cron entry, however often it is reloaded; a second    *)
(* one lives only between the AddFunc and the swap of AddOrReplace.        *)
OneEntryPerRoutine ==
  \A i, j \in Ids :
    /\ i # j
    /\ entries[i] # NoSpec
    /\ entries[j] # NoSpec
    /\ entries[i].name = entries[j].name
    => ctl.pc = "swap" /\ ctl.id \in {i, j}

(* What cron fires is what was registered last: the routine behind its     *)
(* name's job, or the one AddOrReplace is installing.  So once Remove, or  *)
(* AddOrReplace of a disabled routine, has returned, no fire of it starts. *)
Registered(r) ==
  \/ jobs[r.name] # NoId /\ entries[jobs[r.name]] = r
  \/ ctl.pc = "swap" /\ ctl.spec = r

FiresRegistered ==
  [][\A f \in Fires : pc[f] = "idle" /\ pc'[f] = "spawned"
                        => Registered(spec'[f])]_vars

(* A fire is dropped for "previous run still in flight" only if a run of   *)
(* the same routine is in flight: no path out of runOnce, and no reload,   *)
(* leaves a mutex locked behind it.                                        *)
SkipOnlyIfRunning ==
  [][\A f \in Fires :
       pc[f] = "try" /\ pc'[f] = "done" =>
         \E g \in Fires \ {f} : pc[g] \in Busy /\ spec[g].name = spec[f].name]_vars

(* One fire executes its routine at most 1 + retries times, and once when  *)
(* the routine does not ask for retries (runOnce, "bounded by r.Retries"). *)
Budget(r) == IF r.onFailure = "retry" THEN r.retries + 1 ELSE 1

RetryBudget ==
  \A f \in Fires : pc[f] # "idle" => attempt[f] <= Budget(spec[f])

(* The scheduler implements the safety of skip-if-running: a routine runs  *)
(* in f from TryLock to Unlock.                                            *)
Running == [f \in Fires |-> IF pc[f] \in Busy THEN spec[f].name ELSE NoSpec]

Abs == INSTANCE SkipIfRunning WITH running <- Running, NoName <- NoSpec

ImplementsSkipIfRunning == Abs!Safe

(* A fire returns, whatever is reloaded or stopped meanwhile: its run ends,*)
(* so its routine is not skipped for ever, and it leaves the WaitGroup.    *)
FireReturns(f) == pc[f] # "idle" ~> pc[f] = "idle"

(* Every fire does if its adapter returns, even if those of other fires    *)
(* hang.  If all do, SkipIfRunning's liveness is implemented too           *)
(* (Scheduler_proofs, LivenessRefined).                                    *)
FireEnds == \A f \in Fires : AdapterReturns(f) => FireReturns(f)

(* Stop returns even if an adapter never does (the grace period).          *)
StopReturns == phase = "halted" ~> phase \in {"drained", "graceExpired"}

(* scheduler.go:51 and 82: "inFlightWg tracks goroutines fired by jobs so  *)
(* Stop can wait", "the WaitGroup is the source of truth": when Stop       *)
(* returns because the WaitGroup is at zero, no fire is under way.  The    *)
(* code does not keep this: WgAdd comes after Launch.                      *)
StopWaitsForFires == phase = "drained" => \A f \in Fires : pc[f] = "idle"

(* docs/cli.md:11: in-flight runs are allowed up to grace_period to        *)
(* finish: no run is canceled before the grace period is over.             *)
GraceHonoured ==
  [][\A f \in Fires : status[f] # "canceled" /\ status'[f] = "canceled"
                        => phase = "graceExpired"]_vars

-----------------------------------------------------------------------------
(* The inductive invariant. *)

(* The map never gives one mutex object to two names.                      *)
LocksDistinct ==
  /\ \A n \in Names : locks[n] <= nextLock
  /\ \A m, n \in Names : locks[m] = locks[n] /\ locks[m] # NoLock => m = n

(* A goroutine past lockFor has the mutex object its name has now.         *)
MutexOfName ==
  \A f \in Fires : pc[f] \in Busy \cup {"try", "done"} =>
    mutex[f] = locks[spec[f].name] /\ mutex[f] # NoLock

(* A mutex is locked exactly while one goroutine at a busy point holds it. *)
HeldByBusy ==
  /\ \A f \in Fires : pc[f] \in Busy => mutex[f] \in held
  /\ \A l \in held : \E f \in Fires : pc[f] \in Busy /\ mutex[f] = l
  /\ \A f, g \in Fires : f # g /\ pc[f] \in Busy /\ pc[g] \in Busy
                         => mutex[f] # mutex[g]

LocksInv == LocksDistinct /\ MutexOfName /\ HeldByBusy

(* A live cron entry is its name's job or the one AddOrReplace has just    *)
(* created and not yet swapped in; a job is a live entry of its name.      *)
EntriesInv ==
  /\ \A id \in Ids : entries[id] # NoSpec =>
       /\ id <= nextId
       /\ \/ jobs[entries[id].name] = id
          \/ ctl.pc = "swap" /\ ctl.id = id
  /\ \A n \in Names : jobs[n] # NoId =>
       entries[jobs[n]] # NoSpec /\ entries[jobs[n]].name = n
  /\ ctl.pc = "swap" => entries[ctl.id] = ctl.spec /\ jobs[ctl.spec.name] # ctl.id

(* What runOnce's loop counts. *)
AttemptsInv ==
  /\ \A f \in Fires : pc[f] = "idle" => attempt[f] = 0
  /\ \A f \in Fires : pc[f] = "backoff" =>
       spec[f].onFailure = "retry" /\ attempt[f] <= spec[f].retries
  /\ RetryBudget

(* The parts together are preserved by every step. *)
Inv == TypeOK /\ LocksInv /\ EntriesInv /\ AttemptsInv
=============================================================================
