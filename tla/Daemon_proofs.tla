--------------------------- MODULE Daemon_proofs ---------------------------
(***************************************************************************)
(* Proofs, for any files, names, contents, goroutines and edits, that the  *)
(* daemon implements the store and the scheduler it joins, so that what is *)
(* proved of them holds of it; that cron has what the last events gave it; *)
(* and, if the directory is orderly and no event was dropped, that it ends *)
(* up with what is on disk, and how long a one-shot that has succeeded may *)
(* be started again.                                                       *)
(***************************************************************************)
EXTENDS Daemon, TLAPS

(* The store and the scheduler once more, with what is proved of them.     *)
FP == INSTANCE FSStore_proofs WITH Specs <- Contents
SP == INSTANCE Scheduler_proofs

(* F and FP are two instances of one module under one substitution, and so *)
(* are S and SP: each action of the one is, definition by definition, that *)
(* of the other.                                                           *)
LEMMA SameStoreNext == [F!Next]_(F!vars) => [FP!Next]_(FP!vars)
BY DEF F!Next, FP!Next, F!User, FP!User, F!Write, FP!Write, F!Unlink, FP!Unlink, F!Rename,
   FP!Rename, F!Edit, FP!Edit, F!Seen, FP!Seen, F!Startup, FP!Startup,
   F!ReadDir, FP!ReadDir, F!LoadNext, FP!LoadNext, F!LoadFile,
   FP!LoadFile, F!StoreSpec, FP!StoreSpec, F!Publish1, FP!Publish1,
   F!Publish2, FP!Publish2, F!Offer, FP!Offer, F!Subscribed,
   FP!Subscribed, F!Put, FP!Put, F!Delete, FP!Delete, F!Failure,
   FP!Failure, F!Routine, FP!Routine, F!Register, FP!Register,
   F!StartWatch, FP!StartWatch, F!Watch, FP!Watch, F!Schedule,
   FP!Schedule, F!TimerFires, FP!TimerFires, F!WatchEnds, FP!WatchEnds,
   F!Callback, FP!Callback, F!ParseFile, FP!ParseFile, F!Apply,
   FP!Apply, F!DeleteFile, FP!DeleteFile, F!Forget, FP!Forget,
   F!Advance, FP!Advance, F!Receive, FP!Receive, F!Unsubscribe,
   FP!Unsubscribe, F!vars, FP!vars, F!fileVars, FP!fileVars,
   F!timerVars, FP!timerVars, F!storeVars, FP!storeVars

(* The same of the scheduler.                                              *)
LEMMA SameSchedulerNext == [S!Next]_(S!vars) => [SP!Next]_(SP!vars)
BY DEF S!Next, SP!Next, S!Registration, SP!Registration, S!AddOrReplace, SP!AddOrReplace,
   S!Remove, SP!Remove, S!DropJob, SP!DropJob, S!EnsureLock,
   SP!EnsureLock, S!AddFunc, SP!AddFunc, S!SwapJob, SP!SwapJob,
   S!Lifecycle, SP!Lifecycle, S!Start, SP!Start, S!Halt, SP!Halt,
   S!Cancel, SP!Cancel, S!Drained, SP!Drained, S!GraceExpired,
   SP!GraceExpired, S!CliExit, SP!CliExit, S!Goto, SP!Goto, S!FireStep,
   SP!FireStep, S!Due, SP!Due, S!FireNow, SP!FireNow, S!Launch,
   SP!Launch, S!Own, SP!Own, S!WgAdd, SP!WgAdd, S!LockFor, SP!LockFor,
   S!Acquire, SP!Acquire, S!Skip, SP!Skip, S!BackoffElapsed,
   SP!BackoffElapsed, S!BackoffCanceled, SP!BackoffCanceled, S!Report,
   SP!Report, S!RemoveSource, SP!RemoveSource, S!Unlock, SP!Unlock,
   S!WgDone, SP!WgDone, S!AttemptEnd, SP!AttemptEnd, S!Retries,
   SP!Retries, S!Move, SP!Move, S!Canceled, SP!Canceled, S!Idle,
   SP!Idle, S!NoId, SP!NoId, S!NoLock, SP!NoLock, S!Ids, SP!Ids,
   S!Statuses, SP!Statuses, S!cronVars, SP!cronVars, S!lockVars,
   SP!lockVars, S!fireVars, SP!fireVars, S!daemonVars, SP!daemonVars,
   S!vars, SP!vars

(* The instances' assumptions.                                             *)
LEMMA StoreAssumptions ==
  /\ Paths \subseteq Nat \ {0}
  /\ \A c \in Contents : c.name \in Names
  /\ NoName \notin Names
  /\ Broken \notin Contents /\ NoFile \notin Contents \cup {Broken}
  /\ Writes \subseteq Paths \X (Contents \cup {Broken})
  /\ Moves \subseteq Paths \X Paths
  /\ EarlyEdits \in BOOLEAN /\ Prompt \in BOOLEAN
  /\ ChanCap \in Nat \ {0, 1}
  /\ MaxEdits \in Nat
BY FilesAssumption, ContentsAssumption, BoundsAssumption

(* What SpecOf makes of a content.                                         *)
LEMMA SpecOfFields ==
  ASSUME NEW p \in Paths, NEW c \in Contents
  PROVE  /\ SpecOf(p, c) \in Specs
         /\ SpecOf(p, c).path = p /\ SpecOf(p, c).name = c.name
         /\ SpecOf(p, c).enabled = c.enabled /\ SpecOf(p, c).cronOk = c.cronOk
BY DEF SpecOf, Specs

(* What the constants satisfy of what Scheduler assumes.                   *)
LEMMA SchedulerAssumptions ==
  /\ NoSpec \notin Specs \cup Names
  /\ \A r \in Specs : /\ r.name \in Names
                      /\ r.enabled \in BOOLEAN
                      /\ r.cronOk \in BOOLEAN
                      /\ r.onFailure \in {"retry", "skip", "alert"}
                      /\ r.retries \in Nat
                      /\ r.once \in BOOLEAN
  /\ MaxEntries \in Nat
BY ContentsAssumption, BoundsAssumption DEF Specs, SpecOf

(* The steps of the store and of the scheduler keep their invariants.      *)
LEMMA StoreStep == FP!Inv /\ [F!Next]_(F!vars) => FP!Inv'
BY SameStoreNext, StoreAssumptions, FP!InvStep

(* The same of the scheduler's.                                            *)
LEMMA SchedulerStep == SP!Inv /\ [S!Next]_(S!vars) => SP!Inv'
BY SameSchedulerNext, SchedulerAssumptions, SP!InvStep

(* Both hold at the start.                                                 *)
LEMMA InitInvs == Init => FP!Inv /\ SP!Inv
<1>1. F!Init => FP!Init
  BY DEF F!Init, FP!Init
<1>2. S!Init => SP!Init
  BY DEF S!Init, SP!Init, S!Ids, SP!Ids, S!NoId, SP!NoId, S!NoLock, SP!NoLock, S!Idle, SP!Idle
<1> QED
  BY <1>1, <1>2, StoreAssumptions, SchedulerAssumptions, FP!InitInv, SP!InitInv DEF Init

(* What the loop knows of what it receives and of what it has registered.  *)
LEMMA StoreFacts ==
  ASSUME FP!Inv
  PROVE  /\ \A n \in Names : view[n] # NoRoutine =>
              view[n].path \in Paths /\ view[n].spec \in Contents /\ view[n].spec.name = n
         /\ \A n \in Names : routines[n] # NoRoutine =>
              routines[n].path \in Paths /\ routines[n].spec \in Contents /\ routines[n].spec.name = n
         /\ chan # <<>> =>
              /\ Head(chan).name \in Names \cup {NoName}
              /\ Head(chan).routine # NoRoutine =>
                   /\ Head(chan).routine.path \in Paths
                   /\ Head(chan).routine.spec \in Contents
                   /\ Head(chan).name = Head(chan).routine.spec.name
         /\ stage \in {"init", "loading", "registered"} => chan = <<>>
         /\ stage = "registered" => view = routines
         /\ stage \in {"init", "loading", "registered", "watching", "stopped", "unsubscribed"}
<1>1. FP!TypeOK /\ FP!StartInv /\ FP!EventsNamed /\ FP!NoOrphan
  BY DEF FP!Inv
<1>2. chan # <<>> => Head(chan) = chan[1] /\ chan[1] \in FP!Events /\ 1 \in 1 .. Len(chan)
  BY <1>1 DEF FP!TypeOK
<1> QED
  BY <1>1, <1>2 DEF FP!TypeOK, FP!StartInv, FP!EventsNamed, FP!NoOrphan, FP!Events, FP!Routines,
     FP!Stages

(* What the scheduler's invariant says of fires, of cron's entries and of  *)
(* AddOrReplace under way.                                                 *)
LEMMA SchedulerFacts ==
  ASSUME SP!Inv
  PROVE  /\ \A f \in Fires : spec[f] \in Specs \cup {NoSpec} /\ (spec[f] = NoSpec <=> pc[f] = "idle")
         /\ IF ctl.pc = "idle" THEN ctl = S!Idle ELSE ctl.spec \in Specs
         /\ ctl.pc = "swap" => /\ entries[ctl.id] = ctl.spec /\ jobs[ctl.spec.name] # ctl.id
                               /\ ctl.id \in S!Ids
         /\ entries \in [S!Ids -> Specs \cup {NoSpec}]
         /\ jobs \in [Names -> S!Ids \cup {S!NoId}]
         /\ nextId \in Nat
         /\ \A id \in S!Ids : entries[id] # NoSpec =>
              id <= nextId /\ (jobs[entries[id].name] = id \/ (ctl.pc = "swap" /\ ctl.id = id))
         /\ \A n \in Names : jobs[n] # S!NoId =>
              entries[jobs[n]] # NoSpec /\ entries[jobs[n]].name = n
BY SchedulerAssumptions
   DEF SP!Inv, SP!TypeOK, SP!EntriesInv, SP!Ids, SP!NoId, SP!Idle, S!Ids, S!NoId, S!Idle

-----------------------------------------------------------------------------
(* Each step of the daemon is a step of the store, or leaves it alone.     *)

(* What leaves the variables of a part alone is a stutter of the part.     *)
LEMMA StoreStutter == UNCHANGED fVars => UNCHANGED F!vars
BY DEF fVars, F!vars, F!fileVars, F!timerVars, F!storeVars

(* The same of the scheduler's.                                            *)
LEMMA SchedulerStutter == UNCHANGED sVars => UNCHANGED S!vars
BY DEF sVars, S!vars, S!cronVars, S!lockVars, S!fireVars

(* A specification that is carried by a goroutine names a file.            *)
LEMMA SpecPath == ASSUME NEW r \in Specs PROVE r.path \in Paths
BY DEF Specs, SpecOf

(* A cleanup is an edit, of the file its goroutine's routine names.        *)
LEMMA StepOfStore == SP!Inv /\ [Next]_vars => [F!Next]_(F!vars)
<1> SUFFICES ASSUME SP!Inv, [Next]_vars PROVE F!Next \/ UNCHANGED F!vars
  OBVIOUS
<1>1. CASE Main
  BY <1>1, StoreStutter DEF Main, LoadSpecs, ListRoutines, AddNext, StartCron, StartWatch,
     Halt, Stopping, Unsubscribe, F!Next, F!Startup
<1>2. CASE Deliver \/ WatchEnds \/ Reload
  BY <1>2, StoreStutter DEF Deliver, WatchEnds, Reload, F!Next, F!Watch
<1>3. ASSUME NEW f \in Fires, Cleanup(f) PROVE F!Next \/ UNCHANGED F!vars
  <2>1. spec[f].path \in Paths
    <3>1. pc[f] = "cleanup"
      BY <1>3 DEF Cleanup, S!RemoveSource, S!Move
    <3>2. spec[f] \in Specs
      BY <3>1, SchedulerFacts
    <3> QED BY <3>2, SpecPath
  <2> QED BY <1>3, <2>1, StoreStutter DEF Cleanup, F!Next, F!User
<1>4. CASE FinishReload
  BY <1>4, StoreStutter DEF FinishReload
<1>5. ASSUME NEW f \in Fires, Report(f) \/ FireStep(f) \/ \E id \in S!Ids : Due(f, id)
      PROVE  UNCHANGED F!vars
  BY <1>5, StoreStutter DEF Report, FireStep, Due
<1>6. CASE User
  BY <1>6 DEF User, F!Next, F!User
<1>7. CASE UNCHANGED vars
  BY <1>7, StoreStutter DEF vars
<1> QED
  BY <1>1, <1>2, <1>3, <1>4, <1>5, <1>6, <1>7 DEF Next, Fire

(* And of the scheduler, because what main and the loop pass to            *)
(* AddOrReplace and Remove are routines and names.                         *)
LEMMA StepOfScheduler == FP!Inv /\ StartOrder /\ [Next]_vars => [S!Next]_(S!vars)
<1> SUFFICES ASSUME FP!Inv, StartOrder, [Next]_vars PROVE S!Next \/ UNCHANGED S!vars
  OBVIOUS
<1>1. ASSUME NEW n \in Names, AddNext(n) PROVE S!Next
  <2>1. view[n] # NoRoutine
    BY <1>1 DEF AddNext, StartOrder
  <2>2. SpecOf(view[n].path, view[n].spec) \in Specs
    BY <2>1, StoreFacts, SpecOfFields
  <2> QED BY <1>1, <2>2 DEF AddNext, S!Next, S!Registration
<1>2. CASE LoadSpecs \/ ListRoutines \/ StartCron \/ StartWatch \/ Halt \/ Stopping \/ Unsubscribe
  BY <1>2, SchedulerStutter DEF LoadSpecs, ListRoutines, StartCron, StartWatch, Halt, Stopping,
     Unsubscribe, S!Next, S!Lifecycle
<1>3. CASE Reload
  <2> DEFINE e == Head(chan)
  <2>1. chan # <<>> /\ Apply(e)
    BY <1>3 DEF Reload, F!Receive
  <2>2. e.routine # NoRoutine => SpecOf(e.routine.path, e.routine.spec) \in Specs
    BY <2>1, StoreFacts, SpecOfFields
  <2>3. e.name \in Names \cup {NoName}
    BY <2>1, StoreFacts
  <2> HIDE DEF e
  <2> QED BY <2>1, <2>2, <2>3, SchedulerStutter DEF Apply, S!Next, S!Registration
<1>4. CASE FinishReload
  BY <1>4 DEF FinishReload, S!Next, S!Registration
<1>5. CASE Deliver \/ WatchEnds \/ User \/ UNCHANGED vars
  BY <1>5, SchedulerStutter DEF Deliver, WatchEnds, User, vars
<1>6. ASSUME NEW f \in Fires, NEW id \in S!Ids, Due(f, id) PROVE S!Next
  BY <1>6 DEF Due, S!Next, S!FireStep
<1>7. ASSUME NEW f \in Fires, Fire(f) PROVE S!Next
  <2>1. S!Own(f) \/ S!AttemptEnd(f)
    BY <1>7 DEF Fire, Report, Cleanup, FireStep, S!Own
  <2> QED BY <2>1 DEF S!Next, S!FireStep
<1> QED
  BY <1>1, <1>2, <1>3, <1>4, <1>5, <1>6, <1>7 DEF Next, Main

-----------------------------------------------------------------------------
(* The reload loop.                                                        *)

(* Main does things in order: no reload before the watch, no watch before  *)
(* cron, no cron before all routines are added.                            *)
LEMMA StartStep ==
  FP!Inv /\ SP!Inv /\ ReloadInv /\ [Next]_vars => StartOrder'
<1> SUFFICES ASSUME FP!Inv, SP!Inv, ReloadInv, [Next]_vars PROVE StartOrder'
  OBVIOUS
<1> USE DEF StartOrder
<1>0. StartOrder
  BY DEF ReloadInv
<1>1. CASE LoadSpecs
  <2>1. stage' = "loading" /\ stage \in {"init", "loading"} /\ UNCHANGED <<phase, ctl, toAdd, view>>
    BY <1>1 DEF LoadSpecs, F!ReadDir, F!LoadNext, sVars
  <2> QED BY <1>0, <2>1
<1>2. CASE ListRoutines
  <2>1. /\ stage = "loading" /\ stage' = "registered" /\ view' = routines
        /\ toAdd' = {n \in Names : routines[n] # NoRoutine} /\ UNCHANGED <<phase, ctl>>
    BY <1>2 DEF ListRoutines, F!Register, sVars
  <2> QED BY <1>0, <2>1
<1>3. ASSUME NEW n \in Names, AddNext(n) PROVE StartOrder'
  <2>1. n \in toAdd /\ toAdd' = toAdd \ {n} /\ UNCHANGED <<phase, stage, view>>
    BY <1>3 DEF AddNext, S!AddOrReplace, fVars
  <2> QED BY <1>0, <2>1
<1>4. CASE StartCron \/ StartWatch \/ Halt \/ Stopping \/ Unsubscribe \/ WatchEnds
  <2>1. UNCHANGED <<toAdd, view, ctl>>
    BY <1>4 DEF StartCron, StartWatch, Halt, Stopping, Unsubscribe, WatchEnds, fVars, sVars,
       F!StartWatch, F!Unsubscribe, F!WatchEnds, S!Start, S!Halt, S!Cancel, S!Drained,
       S!GraceExpired, S!Goto
  <2>2. \/ stage = "registered" /\ toAdd = {} /\ stage' = stage /\ phase' = "running"
        \/ phase = "running" /\ stage' = "watching" /\ phase' = phase
        \/ phase \in {"running", "halted", "draining"} /\ stage' = stage
           /\ phase' \in {"halted", "draining", "drained", "graceExpired"}
        \/ stage = "stopped" /\ stage' = "unsubscribed" /\ phase' = phase
        \/ stage = "watching" /\ stage' = "stopped" /\ phase' = phase
    BY <1>4 DEF StartCron, StartWatch, Halt, Stopping, Unsubscribe, WatchEnds, fVars, sVars,
       F!StartWatch, F!Unsubscribe, F!WatchEnds, S!Start, S!Halt, S!Cancel, S!Drained,
       S!GraceExpired, S!Goto
  <2> QED BY <1>0, <2>1, <2>2
<1>5. CASE Reload
  <2>1. chan # <<>> /\ UNCHANGED <<stage, toAdd>>
    BY <1>5 DEF Reload, F!Receive
  <2>2. stage \notin {"init", "loading", "registered"}
    BY <2>1, StoreFacts
  <2>3. UNCHANGED phase
    BY <1>5 DEF Reload, Apply, S!AddOrReplace, S!Remove, sVars
  <2> QED BY <1>0, <2>1, <2>2, <2>3
<1>6. CASE FinishReload
  <2>1. ctl # S!Idle /\ UNCHANGED <<stage, toAdd, view, phase>>
    BY <1>6 DEF FinishReload, S!AddFunc, S!SwapJob, S!Idle, fVars
  <2> QED BY <1>0, <2>1
<1>7. CASE UNCHANGED <<stage, phase, ctl, toAdd, view>>
  BY <1>0, <1>7
<1>8. CASE Deliver \/ User \/ UNCHANGED vars
  BY <1>7, <1>8 DEF Deliver, F!Schedule, F!TimerFires, F!Callback, F!ParseFile, F!Apply, F!Forget,
     User, F!Unlink, F!Write, F!Edit, vars, fVars, sVars
<1>9. ASSUME NEW f \in Fires, Fire(f) \/ \E id \in S!Ids : Due(f, id) PROVE StartOrder'
  <2>1. UNCHANGED <<phase, ctl, toAdd, stage, view>>
    BY <1>9 DEF Fire, Report, Cleanup, FireStep, Due, fVars, F!Unlink, F!Edit, S!Due, S!Report,
       S!RemoveSource, S!AttemptEnd, S!daemonVars, S!Own, S!WgAdd, S!LockFor, S!Acquire, S!Skip,
       S!BackoffElapsed, S!BackoffCanceled, S!Unlock, S!WgDone
  <2> QED BY <1>7, <2>1
<1> QED
  BY <1>1, <1>2, <1>3, <1>4, <1>5, <1>6, <1>8, <1>9 DEF Next, Main

(* What a goroutine of the scheduler does leaves cron and the loop alone.  *)
LEMMA FireKeepsCron ==
  ASSUME NEW f \in Fires, Fire(f) \/ \E id \in S!Ids : Due(f, id)
  PROVE  UNCHANGED <<ctl, toAdd, view, jobs, entries>>
BY DEF Fire, Report, Cleanup, FireStep, Due, fVars, F!Unlink, F!Edit, S!Due, S!Report,
   S!RemoveSource, S!AttemptEnd, S!daemonVars, S!cronVars, S!Own, S!WgAdd, S!LockFor,
   S!Acquire, S!Skip, S!BackoffElapsed, S!BackoffCanceled, S!Unlock, S!WgDone

(* Passing r to the scheduler leaves every other name's job and its entry, *)
(* and Remove does so too.                                                 *)
LEMMA DropJobFacts ==
  ASSUME SP!Inv, NEW n \in Names, S!DropJob(n)
  PROVE  /\ jobs'[n] = S!NoId
         /\ \A m \in Names \ {n} : /\ jobs'[m] = jobs[m]
                                   /\ jobs[m] # S!NoId => entries'[jobs[m]] = entries[jobs[m]]
<1>1. CASE jobs[n] = S!NoId
  BY <1>1 DEF S!DropJob
<1>2. CASE jobs[n] # S!NoId
  <2>1. /\ entries' = [entries EXCEPT ![jobs[n]] = NoSpec]
        /\ jobs' = [jobs EXCEPT ![n] = S!NoId]
    BY <1>2 DEF S!DropJob
  <2>2. \A m \in Names \ {n} : jobs[m] # S!NoId => jobs[m] # jobs[n]
    BY <1>2, SchedulerFacts
  <2> QED BY <2>1, <2>2, SchedulerFacts
<1> QED BY <1>1, <1>2

(* AddOrReplace removes a disabled routine's job and begins to install an  *)
(* enabled one.                                                            *)
LEMMA AddOrReplaceFacts ==
  ASSUME SP!Inv, NEW r \in Specs, S!AddOrReplace(r)
  PROVE  /\ ctl = S!Idle
         /\ ~r.enabled => ctl' = S!Idle /\ jobs'[r.name] = S!NoId
         /\ r.enabled => ctl' # S!Idle /\ ctl'.spec = r
         /\ \A m \in Names \ {r.name} : /\ jobs'[m] = jobs[m]
                                        /\ jobs[m] # S!NoId => entries'[jobs[m]] = entries[jobs[m]]
<1>1. r.name \in Names
  BY SchedulerAssumptions
<1>2. CASE ~r.enabled
  BY <1>1, <1>2, DropJobFacts DEF S!AddOrReplace
<1>3. CASE r.enabled
  BY <1>3 DEF S!AddOrReplace, S!Idle, S!cronVars
<1> QED BY <1>2, <1>3 DEF S!AddOrReplace

(* A name that is passed to AddOrReplace with what view has for it.        *)
LEMMA PassedOn ==
  ASSUME SP!Inv, ReloadInv, NEW n \in Names,
         view'[n] # NoRoutine, view'[n].path \in Paths, view'[n].spec \in Contents,
         view'[n].spec.name = n,
         S!AddOrReplace(SpecOf(view'[n].path, view'[n].spec)),
         \A m \in Names \ {n} : view'[m] = view[m], toAdd' = toAdd \ {n}
  PROVE  InstallsView' /\ OthersScheduled'
<1> DEFINE r == SpecOf(view'[n].path, view'[n].spec)
<1>1. r \in Specs /\ r.name = n /\ r.enabled = view'[n].spec.enabled
  BY SpecOfFields
<1>2. /\ ctl = S!Idle
      /\ ~r.enabled => ctl' = S!Idle /\ jobs'[n] = S!NoId
      /\ r.enabled => ctl' # S!Idle /\ ctl'.spec = r
      /\ \A m \in Names \ {n} : /\ jobs'[m] = jobs[m]
                                /\ jobs[m] # S!NoId => entries'[jobs[m]] = entries[jobs[m]]
  BY <1>1, AddOrReplaceFacts
<1>3. \A m \in Names \ {n} : m \notin toAdd' => Scheduled(m)'
  <2> SUFFICES ASSUME NEW m \in Names \ {n}, m \notin toAdd' PROVE Scheduled(m)'
    OBVIOUS
  <2>1. Scheduled(m)
    BY <1>2 DEF ReloadInv, OthersScheduled
  <2>2. S!NoId' = S!NoId
    BY DEF S!NoId
  <2> QED BY <1>2, <2>1, <2>2 DEF Scheduled, S!NoId
<1>4. CASE ~r.enabled
  <2>1. Scheduled(n)'
    BY <1>1, <1>2, <1>4 DEF Scheduled, S!NoId
  <2> QED BY <1>2, <1>3, <1>4, <2>1 DEF InstallsView, OthersScheduled
<1>5. CASE r.enabled
  <2>1. ctl'.spec = r /\ ctl'.spec.name = n
    BY <1>1, <1>2, <1>5
  <2>2. InstallsView'
    BY <1>1, <1>5, <2>1 DEF InstallsView
  <2>3. OthersScheduled'
    BY <1>2, <1>3, <1>5, <2>1 DEF OthersScheduled
  <2> QED BY <2>2, <2>3
<1> QED BY <1>4, <1>5

(* Every step keeps the scheduler where the loop has taken it.             *)
LEMMA ReloadStep ==
  FP!Inv /\ SP!Inv /\ ReloadInv /\ [Next]_vars => InstallsView' /\ OthersScheduled'
<1> SUFFICES ASSUME FP!Inv, SP!Inv, ReloadInv, [Next]_vars
             PROVE  InstallsView' /\ OthersScheduled'
  OBVIOUS
<1>0. StartOrder /\ InstallsView /\ OthersScheduled
  BY DEF ReloadInv
<1>1. CASE UNCHANGED <<ctl, toAdd, view, jobs, entries>>
  BY <1>0, <1>1 DEF InstallsView, OthersScheduled, Scheduled, S!Idle, S!NoId
<1>2. CASE ListRoutines
  <2>1. /\ stage = "loading" /\ view' = routines /\ UNCHANGED <<ctl, jobs>>
        /\ toAdd' = {n \in Names : routines[n] # NoRoutine}
    BY <1>2 DEF ListRoutines, F!Register, sVars
  <2>2. ctl = S!Idle /\ \A n \in Names : jobs[n] = S!NoId
    BY <1>0, <2>1 DEF StartOrder, OthersScheduled, Scheduled
  <2> QED BY <2>1, <2>2 DEF InstallsView, OthersScheduled, Scheduled, S!Idle, S!NoId
<1>3. ASSUME NEW n \in Names, AddNext(n) PROVE InstallsView' /\ OthersScheduled'
  <2>1. /\ n \in toAdd /\ toAdd' = toAdd \ {n} /\ view' = view
        /\ S!AddOrReplace(SpecOf(view'[n].path, view'[n].spec))
    BY <1>3 DEF AddNext, fVars
  <2>2. /\ view'[n] # NoRoutine /\ view'[n].path \in Paths
        /\ view'[n].spec \in Contents /\ view'[n].spec.name = n
    BY <1>0, <2>1, StoreFacts DEF StartOrder
  <2> QED BY <2>1, <2>2, PassedOn
<1>4. CASE Reload
  <2> DEFINE e == Head(chan)
  <2>1. /\ chan # <<>> /\ ctl = S!Idle /\ Apply(e) /\ UNCHANGED <<stage, toAdd>>
        /\ \A n \in Names : view'[n] = IF n = e.name THEN e.routine ELSE view[n]
    BY <1>4 DEF Reload, F!Receive
  <2>2. toAdd = {}
    BY <1>0, <2>1, StoreFacts DEF StartOrder
  <2>3. /\ e.name \in Names \cup {NoName}
        /\ e.routine # NoRoutine => /\ e.routine.path \in Paths /\ e.routine.spec \in Contents
                                    /\ e.name = e.routine.spec.name
    BY <2>1, StoreFacts
  <2> HIDE DEF e
  <2>4. CASE e.name = NoName /\ UNCHANGED sVars
    <3>1. \A n \in Names : view'[n] = view[n]
      BY <2>1, <2>4, FilesAssumption
    <3>2. UNCHANGED <<ctl, jobs, entries>>
      BY <2>4 DEF sVars
    <3> QED BY <1>0, <2>1, <3>1, <3>2
            DEF InstallsView, OthersScheduled, Scheduled, S!Idle, S!NoId
  <2>5. CASE e.name # NoName /\ e.routine = NoRoutine /\ S!Remove(e.name)
    <3>1. e.name \in Names /\ view'[e.name] = NoRoutine
      BY <2>1, <2>3, <2>5
    <3>2. S!DropJob(e.name) /\ ctl' = ctl
      BY <2>5 DEF S!Remove
    <3>3. /\ jobs'[e.name] = S!NoId
          /\ \A m \in Names \ {e.name} :
               /\ jobs'[m] = jobs[m]
               /\ jobs[m] # S!NoId => entries'[jobs[m]] = entries[jobs[m]]
      BY <3>1, <3>2, DropJobFacts
    <3>4. \A m \in Names \ {e.name} : Scheduled(m) /\ view'[m] = view[m]
      BY <1>0, <2>1, <2>2 DEF OthersScheduled
    <3>5. \A m \in Names : Scheduled(m)'
      BY <3>1, <3>3, <3>4 DEF Scheduled, S!NoId
    <3> QED BY <2>1, <3>2, <3>5 DEF InstallsView, OthersScheduled, S!Idle
  <2>6. CASE e.routine # NoRoutine /\ S!AddOrReplace(SpecOf(e.routine.path, e.routine.spec))
    <3>1. e.name \in Names /\ view'[e.name] = e.routine
      BY <2>1, <2>3, <2>6, ContentsAssumption
    <3>2. \A m \in Names \ {e.name} : view'[m] = view[m]
      BY <2>1
    <3>3. toAdd' = toAdd \ {e.name}
      BY <2>1, <2>2
    <3> QED BY <2>3, <2>6, <3>1, <3>2, <3>3, PassedOn
  <2> QED BY <2>1, <2>4, <2>5, <2>6 DEF Apply
<1>5. CASE FinishReload
  <2>0. PICK n : n = ctl.spec.name
    OBVIOUS
  <2>1. UNCHANGED <<toAdd, view>> /\ ctl # S!Idle
    BY <1>5 DEF FinishReload, fVars, S!AddFunc, S!SwapJob, S!Idle
  <2>2. /\ n \in Names \ toAdd /\ view[n] # NoRoutine /\ view[n].spec.enabled
        /\ view[n].path \in Paths /\ view[n].spec \in Contents
        /\ ctl.spec = SpecOf(view[n].path, view[n].spec) /\ ctl.spec.cronOk = view[n].spec.cronOk
    BY <1>0, <2>0, <2>1, StoreFacts, SpecOfFields DEF InstallsView
  <2>3. \A m \in Names \ toAdd : m # n => Scheduled(m)
    BY <1>0, <2>0, <2>1 DEF OthersScheduled
  <2>4. CASE S!AddFunc /\ ctl.spec.cronOk
    <3>1. /\ entries' = [entries EXCEPT ![nextId + 1] = ctl.spec] /\ jobs' = jobs
          /\ ctl'.spec = ctl.spec /\ ctl' # S!Idle
      <4>1. ctl' = [ctl EXCEPT !.pc = "swap", !.id = nextId + 1]
        BY <2>4 DEF S!AddFunc
      <4>2. ctl \in [pc : {"idle", "add", "swap"}, spec : Specs \cup {NoSpec},
                     id : S!Ids \cup {S!NoId}]
        BY DEF SP!Inv, SP!TypeOK, SP!Ids, SP!NoId, S!Ids, S!NoId
      <4> QED BY <2>4, <4>1, <4>2 DEF S!AddFunc, S!Idle
    <3>2. \A m \in Names : jobs[m] # S!NoId => entries'[jobs[m]] = entries[jobs[m]]
      <4> SUFFICES ASSUME NEW m \in Names, jobs[m] # S!NoId
                   PROVE  entries'[jobs[m]] = entries[jobs[m]]
        OBVIOUS
      <4>1. jobs[m] \in S!Ids /\ entries[jobs[m]] # NoSpec /\ jobs[m] <= nextId /\ nextId \in Nat
        BY SchedulerFacts
      <4>2. jobs[m] # nextId + 1
        BY <4>1 DEF S!Ids
      <4> QED BY <3>1, <4>1, <4>2, SchedulerFacts
    <3>3. \A m \in Names \ toAdd : m # n => Scheduled(m)'
      BY <2>1, <2>3, <3>1, <3>2 DEF Scheduled, S!NoId
    <3> QED BY <2>0, <2>1, <2>2, <3>1, <3>3 DEF InstallsView, OthersScheduled
  <2>5. CASE S!AddFunc /\ ~ctl.spec.cronOk
    <3>1. ctl' = S!Idle /\ UNCHANGED <<jobs, entries>>
      BY <2>5 DEF S!AddFunc, S!cronVars
    <3>2. Scheduled(n)'
      BY <2>1, <2>2, <2>5 DEF Scheduled
    <3>3. \A m \in Names \ toAdd : m # n => Scheduled(m)'
      BY <2>1, <2>3, <3>1 DEF Scheduled, S!NoId
    <3> QED BY <2>1, <3>1, <3>2, <3>3 DEF InstallsView, OthersScheduled, S!Idle
  <2>6. CASE S!SwapJob
    <3>1. /\ entries' = [id \in S!Ids |-> IF id = jobs[n] THEN NoSpec ELSE entries[id]]
          /\ jobs' = [jobs EXCEPT ![n] = ctl.id] /\ ctl' = S!Idle /\ ctl.pc = "swap"
      BY <2>0, <2>6 DEF S!SwapJob
    <3>2. /\ entries[ctl.id] = ctl.spec /\ jobs[n] # ctl.id /\ ctl.id \in S!Ids
          /\ jobs \in [Names -> S!Ids \cup {S!NoId}]
      BY <2>0, <3>1, SchedulerFacts
    <3>3. Scheduled(n)'
      <4>1. jobs'[n] = ctl.id /\ entries'[ctl.id] = ctl.spec /\ ctl.id # S!NoId
        BY <2>2, <3>1, <3>2 DEF S!Ids, S!NoId
      <4> QED BY <2>1, <2>2, <4>1 DEF Scheduled, S!NoId
    <3>4. \A m \in Names \ {n} : /\ jobs'[m] = jobs[m]
                                 /\ jobs[m] # S!NoId => entries'[jobs[m]] = entries[jobs[m]]
      <4>1. \A m \in Names \ {n} : jobs[m] # S!NoId => jobs[m] # jobs[n] /\ jobs[m] \in S!Ids
        BY <2>2, <3>2, SchedulerFacts
      <4> QED BY <3>1, <3>2, <4>1
    <3>5. \A m \in Names \ toAdd : m # n => Scheduled(m)'
      BY <2>1, <2>3, <3>4 DEF Scheduled, S!NoId
    <3> QED BY <2>1, <3>1, <3>3, <3>5 DEF InstallsView, OthersScheduled, S!Idle
  <2> QED BY <1>5, <2>4, <2>5, <2>6 DEF FinishReload
<1>6. CASE \/ LoadSpecs \/ StartCron \/ StartWatch \/ Halt \/ Stopping \/ Unsubscribe
           \/ Deliver \/ WatchEnds \/ User \/ UNCHANGED vars
  BY <1>1, <1>6 DEF LoadSpecs, StartCron, StartWatch, Halt, Stopping, Unsubscribe, Deliver,
     WatchEnds, User, vars, fVars, sVars, F!ReadDir, F!LoadNext, F!StartWatch, F!Unsubscribe,
     F!Schedule, F!TimerFires, F!Callback, F!ParseFile, F!Apply, F!Forget, F!WatchEnds,
     F!Unlink, F!Write, F!Edit, S!Start, S!Halt, S!Cancel, S!Drained, S!GraceExpired, S!Goto,
     S!cronVars
<1>7. ASSUME NEW f \in Fires, Fire(f) \/ \E id \in S!Ids : Due(f, id)
      PROVE  InstallsView' /\ OthersScheduled'
  BY <1>1, <1>7, FireKeepsCron
<1> QED
  BY <1>2, <1>3, <1>4, <1>5, <1>6, <1>7 DEF Next, Main

-----------------------------------------------------------------------------
(* What cron has, and the directory.                                       *)

(* cron gets what the loop was given, and that was read from a file it was *)
(* written to.                                                             *)
LEMMA WrittenStep ==
  FP!EditsInv /\ FP!Inv /\ SP!Inv /\ ReloadInv /\ EntriesWritten /\ [Next]_vars => EntriesWritten'
<1> SUFFICES ASSUME FP!EditsInv, FP!Inv, SP!Inv, ReloadInv, EntriesWritten, [Next]_vars
             PROVE  EntriesWritten'
  OBVIOUS
<1>1. ASSUME \A id \in S!Ids : entries'[id] \in {NoSpec, entries[id]}
      PROVE  EntriesWritten'
  BY <1>1 DEF EntriesWritten, S!Ids
<1>2. ASSUME NEW n \in Names, S!DropJob(n) PROVE EntriesWritten'
  <2>1. \/ entries' = entries
        \/ entries' = [entries EXCEPT ![jobs[n]] = NoSpec]
    BY <1>2 DEF S!DropJob
  <2> QED BY <1>1, <2>1, SchedulerFacts
<1>3. ASSUME NEW r \in Specs, S!AddOrReplace(r) PROVE EntriesWritten'
  <2>1. r.name \in Names
    BY SchedulerAssumptions
  <2> QED BY <1>1, <1>2, <1>3, <2>1 DEF S!AddOrReplace, S!cronVars
<1>4. CASE S!AddFunc
  <2>1. ctl # S!Idle
    BY <1>4 DEF S!AddFunc, S!Idle
  <2>2. PICK n \in Names : view[n] # NoRoutine /\ ctl.spec = SpecOf(view[n].path, view[n].spec)
    BY <2>1 DEF ReloadInv, InstallsView
  <2>3. /\ view[n].path \in Paths /\ view[n].spec \in Contents
        /\ <<view[n].path, view[n].spec>> \in Writes
    BY <2>2, StoreFacts DEF FP!EditsInv, FP!FromWrites, FP!Written
  <2>4. CASE ctl.spec.cronOk
    <3>1. entries' = [entries EXCEPT ![nextId + 1] = ctl.spec]
      BY <1>4, <2>4 DEF S!AddFunc
    <3>2. \A id \in S!Ids : entries'[id] = entries[id] \/ entries'[id] = ctl.spec
      BY <3>1, SchedulerFacts
    <3>3. \E p \in Paths, c \in Contents : <<p, c>> \in Writes /\ ctl.spec = SpecOf(p, c)
      BY <2>2, <2>3
    <3> QED BY <2>4, <3>2, <3>3 DEF EntriesWritten, S!Ids
  <2>5. CASE ~ctl.spec.cronOk
    BY <1>1, <1>4, <2>5 DEF S!AddFunc, S!cronVars
  <2> QED BY <2>4, <2>5
<1>5. CASE S!SwapJob
  BY <1>1, <1>5 DEF S!SwapJob
<1>6. ASSUME NEW n \in Names, AddNext(n) PROVE EntriesWritten'
  <2>1. view[n] # NoRoutine /\ S!AddOrReplace(SpecOf(view[n].path, view[n].spec))
    BY <1>6 DEF AddNext, ReloadInv, StartOrder
  <2>2. SpecOf(view[n].path, view[n].spec) \in Specs
    BY <2>1, StoreFacts, SpecOfFields
  <2> QED BY <1>3, <2>1, <2>2
<1>7. CASE Reload
  <2>1. chan # <<>> /\ Apply(Head(chan))
    BY <1>7 DEF Reload, F!Receive
  <2>2. Head(chan).routine # NoRoutine =>
          SpecOf(Head(chan).routine.path, Head(chan).routine.spec) \in Specs
    BY <2>1, StoreFacts, SpecOfFields
  <2>3. Head(chan).name # NoName => Head(chan).name \in Names
    BY <2>1, StoreFacts
  <2> QED BY <1>1, <1>2, <1>3, <2>1, <2>2, <2>3 DEF Apply, S!Remove, sVars
<1>8. CASE \/ LoadSpecs \/ ListRoutines \/ StartCron \/ StartWatch \/ Halt \/ Stopping
           \/ Unsubscribe \/ Deliver \/ WatchEnds \/ User \/ UNCHANGED vars
  <2>1. UNCHANGED entries
    BY <1>8 DEF LoadSpecs, ListRoutines, StartCron, StartWatch, Halt, Stopping, Unsubscribe,
       Deliver, WatchEnds, User, vars, sVars, S!Start, S!Halt, S!Cancel, S!Drained,
       S!GraceExpired, S!Goto, S!cronVars
  <2> QED BY <1>1, <2>1
<1>9. ASSUME NEW f \in Fires, Fire(f) \/ \E id \in S!Ids : Due(f, id) PROVE EntriesWritten'
  BY <1>1, <1>9, FireKeepsCron
<1> QED
  BY <1>4, <1>5, <1>6, <1>7, <1>8, <1>9 DEF Next, Main, FinishReload

(* When nothing is on its way, EditsTakeEffect and ViewScheduled together  *)
(* take the directory to cron and back.                                    *)
LEMMA CalmScheduled ==
  ASSUME F!Orderly, FP!Inv, FP!EditsInv, SP!Inv, ReloadInv, EntriesWritten, ~dropped, Calm
  PROVE  /\ \A p \in Paths : disk[p] \in Contents =>
              (disk[p].enabled /\ disk[p].cronOk <=> SpecOf(p, disk[p]) \in Live)
         /\ \A r \in Live :
              /\ disk[r.path] # NoFile
              /\ disk[r.path] \in Contents =>
                   \/ r = SpecOf(r.path, disk[r.path])
                   \/ disk[r.path].enabled /\ ~disk[r.path].cronOk
<1>1. ctl = S!Idle /\ FP!Quiet
  BY DEF Calm, F!Quiet, FP!Quiet
<1>2. \A n \in Names : Scheduled(n)
  <2>1. toAdd = {}
    BY <1>1 DEF FP!Quiet, ReloadInv, StartOrder
  <2> QED BY <1>1, <2>1 DEF ReloadInv, OthersScheduled
<1>3. /\ \A p \in Paths : disk[p] \in Contents => view[disk[p].name] = FP!Routine(p, disk[p])
      /\ \A n \in Names : view[n] # NoRoutine => disk[view[n].path] # NoFile
  BY <1>1, StoreAssumptions, FP!QuietArrived DEF FP!EditsTakeEffect
<1>4. \A n \in Names : view[n] # NoRoutine =>
        /\ view[n].path \in Paths /\ view[n].spec \in Contents /\ view[n].spec.name = n
        /\ pathMap[view[n].path] = n /\ <<view[n].path, view[n].spec>> \in Writes
  <2>1. \A n \in Names : view[n] = routines[n]
    <3>1. FP!Follows(chan, view, routines) /\ Len(chan) = 0
      BY <1>1 DEF FP!Inv, FP!ViewFollowsStore, FP!Quiet, FP!Subscribed
    <3> QED BY <3>1 DEF FP!Follows
  <2>2. \A n \in Names : routines[n] # NoRoutine => pathMap[routines[n].path] = n
    BY DEF FP!Inv, FP!NoOrphan
  <2>3. \A n \in Names : view[n] # NoRoutine => <<view[n].path, view[n].spec>> \in Writes
    BY DEF FP!EditsInv, FP!FromWrites, FP!Written
  <2>4. \A n \in Names : view[n] # NoRoutine => pathMap[view[n].path] = n
    BY <2>1, <2>2
  <2> QED BY <2>3, <2>4, StoreFacts
<1>5. \A r \in Live : /\ r \in Specs /\ r.name \in Names /\ r.cronOk
                      /\ jobs[r.name] # S!NoId /\ entries[jobs[r.name]] = r
                      /\ \E p \in Paths, c \in Contents : <<p, c>> \in Writes /\ r = SpecOf(p, c)
  <2> SUFFICES ASSUME NEW id \in S!Ids, entries[id] # NoSpec
               PROVE  /\ entries[id] \in Specs /\ entries[id].name \in Names /\ entries[id].cronOk
                      /\ jobs[entries[id].name] = id /\ id # S!NoId
                      /\ \E p \in Paths, c \in Contents :
                           <<p, c>> \in Writes /\ entries[id] = SpecOf(p, c)
    BY DEF Live
  <2>1. entries[id] \in Specs /\ jobs[entries[id].name] = id
    BY <1>1, SchedulerFacts DEF S!Idle
  <2>2. entries[id].name \in Names /\ id # S!NoId
    BY <2>1, SchedulerAssumptions DEF S!Ids, S!NoId
  <2> QED BY <2>1, <2>2 DEF EntriesWritten
<1>6. ASSUME NEW p \in Paths, disk[p] \in Contents
      PROVE  disk[p].enabled /\ disk[p].cronOk <=> SpecOf(p, disk[p]) \in Live
  <2> DEFINE c == disk[p]
             n == c.name
             r == SpecOf(p, c)
  <2>1. /\ n \in Names /\ r.name = n /\ c.enabled \in BOOLEAN /\ c.cronOk \in BOOLEAN
        /\ r \in Specs /\ r.cronOk = c.cronOk
    BY <1>6, ContentsAssumption, SpecOfFields
  <2>2. view[n] = [path |-> p, spec |-> c] /\ view[n] # NoRoutine
    BY <1>3, <1>6, FilesAssumption DEF FP!Routine
  <2>3. IF c.enabled THEN c.cronOk => jobs[n] # S!NoId /\ entries[jobs[n]] = r
        ELSE jobs[n] = S!NoId
    BY <1>2, <2>1, <2>2 DEF Scheduled
  <2> HIDE DEF c, n, r
  <2>4. ASSUME c.enabled, c.cronOk PROVE r \in Live
    <3>1. jobs[n] \in S!Ids /\ entries[jobs[n]] = r
      BY <2>1, <2>3, <2>4, SchedulerFacts
    <3>2. r # NoSpec
      BY <2>1, SchedulerAssumptions
    <3> QED BY <3>1, <3>2 DEF Live
  <2>5. ASSUME r \in Live PROVE c.enabled /\ c.cronOk
    BY <1>5, <2>1, <2>3, <2>5
  <2> QED BY <2>1, <2>4, <2>5 DEF c, r
<1>7. ASSUME NEW r \in Live
      PROVE  /\ disk[r.path] # NoFile
             /\ disk[r.path] \in Contents =>
                  r = SpecOf(r.path, disk[r.path]) \/ (disk[r.path].enabled /\ ~disk[r.path].cronOk)
  <2> DEFINE n == r.name
  <2>1. n \in Names /\ r.cronOk /\ jobs[n] # S!NoId /\ entries[jobs[n]] = r
    BY <1>5
  <2>2. PICK p \in Paths, c \in Contents : <<p, c>> \in Writes /\ r = SpecOf(p, c)
    BY <1>5
  <2>3. r.path = p /\ c.name = n
    BY <2>2, SpecOfFields
  <2>4. /\ view[n] # NoRoutine /\ view[n].spec.enabled
        /\ view[n].spec.cronOk => r = SpecOf(view[n].path, view[n].spec)
    BY <1>2, <2>1 DEF Scheduled
  <2>5. /\ view[n].path \in Paths /\ view[n].spec \in Contents /\ view[n].spec.name = n
        /\ pathMap[view[n].path] = n /\ <<view[n].path, view[n].spec>> \in Writes
    BY <1>4, <2>1, <2>4
  <2>6. view[n].path = p
    BY <2>2, <2>3, <2>5 DEF F!Orderly
  <2>7. disk[p] # NoFile
    BY <1>3, <2>1, <2>4, <2>6
  <2>8. ASSUME disk[p] \in Contents
        PROVE  r = SpecOf(p, disk[p]) \/ (disk[p].enabled /\ ~disk[p].cronOk)
    <3>1. /\ disk[p].name \in Names /\ disk[p].cronOk \in BOOLEAN
          /\ view[disk[p].name] = [path |-> p, spec |-> disk[p]]
          /\ view[disk[p].name] # NoRoutine
      BY <1>3, <2>8, ContentsAssumption, FilesAssumption DEF FP!Routine
    <3>2. disk[p].name = n
      <4>1. view[disk[p].name].path = p
        BY <3>1
      <4>2. pathMap[p] = disk[p].name
        BY <1>4, <3>1, <4>1
      <4> QED BY <2>5, <2>6, <4>2
    <3>3. view[n].spec = disk[p]
      BY <3>1, <3>2
    <3> QED BY <2>4, <2>6, <3>1, <3>3
  <2> QED BY <2>3, <2>7, <2>8
<1> QED BY <1>6, <1>7

-----------------------------------------------------------------------------
(* One-shots.                                                              *)

(* Whoever is not a fire leaves the fires alone, and of a one-shot that    *)
(* stays spent neither writes the file nor forgets that it was kept.       *)
LEMMA OthersLeaveFires ==
  ASSUME FP!Inv, spent \subseteq Specs, [Next]_vars
  PROVE  \/ \E f \in Fires : Fire(f) \/ \E id \in S!Ids : Due(f, id)
         \/ /\ UNCHANGED <<pc, spec>>
            /\ \A r \in spent' : /\ r \in spent
                                 /\ r \in kept => r \in kept'
                                 /\ disk'[r.path] \in {disk[r.path], NoFile}
<1> DEFINE Left == /\ UNCHANGED <<pc, spec>>
                   /\ \A r \in spent' :
                        /\ r \in spent
                        /\ r \in kept => r \in kept'
                        /\ disk'[r.path] \in {disk[r.path], NoFile}
<1>1. CASE UNCHANGED <<fVars, spent, kept, pc, spec>> \/ UNCHANGED vars
  BY <1>1 DEF vars, fVars, sVars
<1>2. ASSUME S!Registration \/ S!Lifecycle PROVE UNCHANGED <<pc, spec>>
  BY <1>2 DEF S!Registration, S!AddOrReplace, S!Remove, S!AddFunc, S!SwapJob, S!Lifecycle,
     S!Start, S!Halt, S!Cancel, S!Drained, S!GraceExpired, S!CliExit, S!Goto, S!fireVars, S!vars
<1>3. CASE \/ \E n \in Names : AddNext(n)
           \/ StartCron \/ Halt \/ Stopping \/ FinishReload
  <2>1. ASSUME NEW n \in Names, AddNext(n) PROVE UNCHANGED <<pc, spec>>
    BY <2>1 DEF AddNext, S!AddOrReplace, S!fireVars
  <2>2. ASSUME StartCron \/ Halt \/ Stopping \/ FinishReload PROVE UNCHANGED <<pc, spec>>
    <3>1. S!Registration \/ S!Lifecycle
      BY <2>2 DEF StartCron, Halt, Stopping, FinishReload, S!Registration, S!Lifecycle
    <3> QED BY <1>2, <3>1
  <2> QED BY <1>1, <1>3, <2>1, <2>2 DEF AddNext, StartCron, Halt, Stopping, FinishReload
<1>4. CASE LoadSpecs \/ ListRoutines \/ StartWatch \/ Unsubscribe \/ Deliver \/ WatchEnds
  <2>1. UNCHANGED <<pc, spec, spent, kept>>
    BY <1>4 DEF LoadSpecs, ListRoutines, StartWatch, Unsubscribe, Deliver, WatchEnds, sVars
  <2>2. UNCHANGED disk
    BY <1>4 DEF LoadSpecs, ListRoutines, StartWatch, Unsubscribe, Deliver, WatchEnds,
       F!ReadDir, F!LoadNext, F!Register, F!StartWatch, F!Unsubscribe, F!Schedule,
       F!TimerFires, F!Callback, F!ParseFile, F!Apply, F!Forget, F!WatchEnds, F!fileVars
  <2> QED BY <2>1, <2>2
<1>5. CASE Reload
  <2>1. UNCHANGED <<disk, spent, kept>>
    BY <1>5 DEF Reload, F!Receive, F!fileVars
  <2>2. UNCHANGED <<pc, spec>>
    BY <1>5 DEF Reload, Apply, S!AddOrReplace, S!Remove, S!fireVars, sVars
  <2> QED BY <2>1, <2>2
<1>6. CASE User
  <2>1. PICK p \in Paths :
          /\ F!Unlink(p) \/ \E c \in Contents \cup {Broken} : F!Write(p, c)
          /\ spent' = {r \in spent : r.path # p}
          /\ kept' = {r \in kept : r.path # p}
    BY <1>6 DEF User
  <2>2. \A q \in Paths \ {p} : disk'[q] = disk[q]
    BY <2>1 DEF F!Unlink, F!Write, F!Edit, FP!Inv, FP!TypeOK
  <2>3. UNCHANGED <<pc, spec>>
    BY <1>6 DEF User, sVars
  <2> QED BY <2>1, <2>2, <2>3, SpecPath
<1> HIDE DEF Left
<1> QED BY <1>1, <1>3, <1>4, <1>5, <1>6 DEF Next, Main, Left

(* Report is the step that makes a one-shot spent, and goes on to remove   *)
(* its file, which os.Remove does, or fails to.                            *)
LEMMA GoneStep ==
  ASSUME FP!Inv, SP!Inv, spent \subseteq Specs, SpentGone, [Next]_vars
  PROVE  SpentGone'
<1>1. /\ pc \in [Fires -> S!Points] /\ spec \in [Fires -> Specs \cup {NoSpec}]
      /\ DOMAIN disk = Paths
  BY DEF SP!Inv, SP!TypeOK, FP!Inv, FP!TypeOK, SP!Points, SP!Busy, S!Points, S!Busy
<1>2. ASSUME NEW f \in Fires, Report(f) PROVE SpentGone'
  <2>1. /\ pc[f] = "report" /\ UNCHANGED <<disk, spec, kept>>
        /\ spent' # spent =>
             spent' = spent \cup {spec[f]} /\ pc' = [pc EXCEPT ![f] = "cleanup"]
        /\ \A g \in Fires : pc[g] = "cleanup" => pc'[g] = "cleanup"
    BY <1>1, <1>2 DEF Report, S!Report, fVars
  <2> QED BY <1>1, <2>1 DEF SpentGone
<1>3. ASSUME NEW f \in Fires, Cleanup(f) PROVE SpentGone'
  <2>1. /\ pc[f] = "cleanup" /\ UNCHANGED <<spec, spent>>
        /\ \A g \in Fires \ {f} : pc'[g] = pc[g]
    BY <1>1, <1>3 DEF Cleanup, S!RemoveSource, S!Move
  <2>2. spec[f] \in Specs /\ spec[f].path \in Paths
    BY <2>1, SchedulerFacts, SpecPath
  <2>3. CASE disk'[spec[f].path] = NoFile
    <3>1. /\ \A p \in Paths : disk'[p] \in {disk[p], NoFile}
          /\ \A r \in kept : r.path # spec[f].path => r \in kept'
      BY <1>1, <1>3, <2>2 DEF Cleanup, F!Unlink, F!Edit, fVars
    <3> QED BY <2>1, <2>3, <3>1, SpecPath DEF SpentGone
  <2>4. CASE UNCHANGED disk /\ kept' = kept \cup ({spec[f]} \cap spent)
    BY <2>1, <2>4 DEF SpentGone
  <2>5. \/ disk'[spec[f].path] = NoFile
        \/ UNCHANGED disk /\ kept' = kept \cup ({spec[f]} \cap spent)
    BY <1>1, <1>3, <2>2 DEF Cleanup, F!Unlink, F!Edit, fVars
  <2> QED BY <2>3, <2>4, <2>5
<1>4. ASSUME NEW f \in Fires, FireStep(f) \/ \E id \in S!Ids : Due(f, id) PROVE SpentGone'
  <2>1. /\ pc[f] # "cleanup" /\ UNCHANGED <<disk, spent, kept>>
        /\ \A g \in Fires \ {f} : pc'[g] = pc[g] /\ spec'[g] = spec[g]
    BY <1>1, <1>4 DEF FireStep, Due, fVars, S!Due, S!Launch, S!AttemptEnd, S!Own, S!WgAdd,
       S!LockFor, S!Acquire, S!Skip, S!BackoffElapsed, S!BackoffCanceled, S!Report,
       S!RemoveSource, S!Unlock, S!WgDone, S!Move
  <2> QED BY <2>1 DEF SpentGone
<1>5. ASSUME UNCHANGED <<pc, spec>>,
             \A r \in spent' : /\ r \in spent
                               /\ r \in kept => r \in kept'
                               /\ disk'[r.path] \in {disk[r.path], NoFile}
      PROVE  SpentGone'
  BY <1>5 DEF SpentGone
<1> QED BY <1>2, <1>3, <1>4, <1>5, OthersLeaveFires DEF Fire

(* What a fire that starts carries is live in cron.                        *)
LEMMA StartsLive ==
  ASSUME SP!Inv, [S!Next]_(S!vars), NEW f \in Fires, pc[f] = "idle", pc'[f] = "spawned"
  PROVE  spec'[f] \in Live
<1>1. SP!Registered(spec'[f])
  BY SameSchedulerNext, SchedulerAssumptions, SP!DueStep
<1>2. spec'[f] \in Specs
  <2>1. SP!Inv'
    BY SchedulerStep
  <2> QED BY <2>1 DEF SP!Inv, SP!TypeOK
<1>3. spec'[f].name \in Names /\ spec'[f] # NoSpec
  BY <1>2, SchedulerAssumptions
<1>4. \E id \in S!Ids : entries[id] = spec'[f]
  BY <1>1, <1>3, SchedulerFacts DEF SP!Registered, SP!NoId, S!NoId
<1> QED BY <1>3, <1>4 DEF Live

-----------------------------------------------------------------------------
(* The theorems.                                                           *)

(* The invariants of the parts, and of what joins them.                    *)
DaemonInv == FP!Inv /\ SP!Inv /\ ReloadInv

(* They hold at the start.                                                 *)
LEMMA InitDaemon == Init => DaemonInv
<1>1. Init => ReloadInv
  BY DEF Init, F!Init, S!Init, ReloadInv, StartOrder, InstallsView, OthersScheduled, Scheduled
<1> QED BY <1>1, InitInvs DEF DaemonInv

(* And are kept together.                                                  *)
LEMMA DaemonStep == DaemonInv /\ [Next]_vars => DaemonInv'
<1> SUFFICES ASSUME DaemonInv, [Next]_vars PROVE DaemonInv'
  OBVIOUS
<1>1. FP!Inv /\ SP!Inv /\ ReloadInv /\ StartOrder
  BY DEF DaemonInv, ReloadInv
<1>2. FP!Inv'
  BY <1>1, StepOfStore, StoreStep
<1>3. SP!Inv'
  BY <1>1, StepOfScheduler, SchedulerStep
<1>4. ReloadInv'
  BY <1>1, StartStep, ReloadStep DEF ReloadInv
<1> QED BY <1>2, <1>3, <1>4 DEF DaemonInv

(* The invariants of the store and of the scheduler and what joins them    *)
(* hold of every run of the daemon.                                        *)
THEOREM Invariance == Spec => []DaemonInv
BY InitDaemon, DaemonStep, PTL DEF Spec

(* The store inside the daemon is the store: whatever main, the scheduler, *)
(* a cleanup or a signal does, is a step of FSStore or leaves it alone, so *)
(* what is proved of FSStore holds of the daemon.                          *)
THEOREM StoreImplemented == Spec => F!Spec
<1>1. Init => F!Init
  BY DEF Init
<1>2. DaemonInv /\ [Next]_vars => [F!Next]_(F!vars)
  BY StepOfStore DEF DaemonInv
<1> QED BY <1>1, <1>2, Invariance, PTL DEF Spec, F!Spec

(* And the scheduler inside it is the scheduler: what main and the loop    *)
(* pass to it are routines and names it may be called with, one call at a  *)
(* time.                                                                   *)
THEOREM SchedulerImplemented == Spec => S!Spec
<1>1. Init => S!Init
  BY DEF Init
<1>2. DaemonInv /\ [Next]_vars => [S!Next]_(S!vars)
  BY StepOfScheduler DEF DaemonInv, ReloadInv
<1> QED BY <1>1, <1>2, Invariance, PTL DEF Spec, S!Spec

(* The variables keep their types, spent and kept those of what was        *)
(* reported.                                                               *)
THEOREM TypeCorrectness == Spec => []TypeOK
<1> DEFINE OwnTypes == toAdd \subseteq Names /\ spent \subseteq Specs /\ kept \subseteq spent
<1>1. Init => OwnTypes
  BY DEF Init
<1>2. DaemonInv /\ OwnTypes /\ [Next]_vars => OwnTypes'
  <2> SUFFICES ASSUME DaemonInv, OwnTypes, [Next]_vars PROVE OwnTypes'
    OBVIOUS
  <2>1. ASSUME NEW f \in Fires, Report(f) PROVE OwnTypes'
    <3>1. /\ pc[f] = "report" /\ UNCHANGED <<toAdd, kept>>
          /\ spent \subseteq spent' /\ spent' \subseteq spent \cup {spec[f]}
      BY <2>1 DEF Report, S!Report
    <3>2. spec[f] \in Specs
      BY <3>1, SchedulerFacts DEF DaemonInv
    <3> QED BY <3>1, <3>2
  <2>2. CASE User
    BY <2>2 DEF User
  <2>3. CASE Main
    BY <2>3 DEF Main, LoadSpecs, ListRoutines, AddNext, StartCron, StartWatch, Halt, Stopping,
       Unsubscribe
  <2>4. CASE \/ Deliver \/ WatchEnds \/ Reload \/ FinishReload \/ UNCHANGED vars
             \/ \E f \in Fires : Cleanup(f) \/ FireStep(f) \/ \E id \in S!Ids : Due(f, id)
    BY <2>4 DEF Deliver, WatchEnds, Reload, FinishReload, Cleanup, FireStep, Due, vars
  <2> QED BY <2>1, <2>2, <2>3, <2>4 DEF Next, Fire
<1>3. DaemonInv /\ OwnTypes => TypeOK
  <2>1. FP!Inv => F!TypeOK
    BY DEF FP!Inv, F!TypeOK, FP!TypeOK, F!Stages, FP!Stages, F!Sightings, FP!Sightings,
       F!Timers, FP!Timers, F!Callbacks, FP!Callbacks, F!Routines, FP!Routines, F!Events,
       FP!Events
  <2>2. SP!Inv => S!TypeOK
    BY DEF SP!Inv, S!TypeOK, SP!TypeOK, S!Phases, SP!Phases, S!Ids, SP!Ids, S!NoId, SP!NoId,
       S!Idle, SP!Idle, S!Points, SP!Points, S!Busy, SP!Busy, S!Statuses, SP!Statuses
  <2> QED BY <2>1, <2>2 DEF DaemonInv, TypeOK
<1> QED BY <1>1, <1>2, <1>3, Invariance, PTL DEF Spec

(* What the parts promise each for itself they promise joined: no loaded   *)
(* routine is cut off from its file, no timer from Watch, the reload loop  *)
(* follows the store until an event is dropped, no routine runs twice at   *)
(* once or has two cron entries, and retries are counted.                  *)
THEOREM PartsKeepPromises ==
  Spec => [](/\ F!NoOrphan /\ F!TimersOwned /\ F!ViewFollowsStore
             /\ S!MutualExclusion /\ S!OneEntryPerRoutine /\ S!RetryBudget)
<1>1. DaemonInv => F!NoOrphan /\ F!TimersOwned /\ F!ViewFollowsStore
  BY DEF DaemonInv, FP!Inv, F!NoOrphan, FP!NoOrphan, F!TimersOwned, FP!TimersOwned,
     F!ViewFollowsStore, FP!ViewFollowsStore, F!Follows, FP!Follows, F!Subscribed, FP!Subscribed
<1>2. DaemonInv => S!MutualExclusion
  BY DEF DaemonInv, SP!Inv, SP!LocksInv, SP!MutexOfName, SP!HeldByBusy, S!MutualExclusion,
     S!Busy, SP!Busy
<1>3. DaemonInv => S!OneEntryPerRoutine
  BY DEF DaemonInv, SP!Inv, SP!EntriesInv, S!OneEntryPerRoutine, S!Ids, SP!Ids
<1>4. DaemonInv => S!RetryBudget
  BY DEF DaemonInv, SP!Inv, SP!AttemptsInv, SP!RetryBudget, S!RetryBudget, S!Budget, SP!Budget
<1> QED BY <1>1, <1>2, <1>3, <1>4, Invariance, PTL

(* And of steps: a fire is dropped only while a run of its routine is in   *)
(* flight, cron starts nothing that was removed, disabled or replaced      *)
(* before, whatever the reload loop does; and the daemon as a whole        *)
(* implements skip-if-running.                                             *)
THEOREM FiresKeepPromises ==
  Spec => S!SkipOnlyIfRunning /\ S!FiresRegistered /\ S!ImplementsSkipIfRunning
<1> DEFINE Skips == \A f \in Fires :
             pc[f] = "try" /\ pc'[f] = "done" =>
               \E g \in Fires \ {f} : pc[g] \in S!Busy /\ spec[g].name = spec[f].name
           Starts == \A f \in Fires :
             pc[f] = "idle" /\ pc'[f] = "spawned" => S!Registered(spec'[f])
<1>1. DaemonInv /\ [Next]_vars => SP!Inv /\ [S!Next]_(S!vars) /\ [SP!Next]_(SP!vars)
  BY StepOfScheduler, SameSchedulerNext DEF DaemonInv, ReloadInv
<1>2. SP!Inv /\ [SP!Next]_(SP!vars) => Skips
  BY SchedulerAssumptions, SP!SkipStep DEF S!Busy, SP!Busy
<1>3. SP!Inv /\ [SP!Next]_(SP!vars) => Starts
  BY SchedulerAssumptions, SP!DueStep DEF S!Registered, SP!Registered, S!NoId, SP!NoId
<1>4. Init => S!Abs!Init
  BY DEF Init, S!Init, S!Abs!Init, S!Running, S!Busy
<1>5. SP!Inv /\ [SP!Next]_(SP!vars) => [S!Abs!Next]_(S!Running)
  BY SchedulerAssumptions, SP!RefinementStep
  DEF S!Abs!Next, SP!Abs!Next, S!Abs!Begin, SP!Abs!Begin, S!Abs!End, SP!Abs!End,
      S!Running, SP!Running, S!Busy, SP!Busy
<1> HIDE DEF Skips, Starts
<1>6. Spec => [][Skips]_(S!vars) /\ [][Starts]_(S!vars) /\ S!Abs!Safe
  BY <1>1, <1>2, <1>3, <1>4, <1>5, Invariance, PTL DEF Spec, S!Abs!Safe
<1> QED
  BY <1>6 DEF Skips, Starts, S!SkipOnlyIfRunning, S!FiresRegistered, S!ImplementsSkipIfRunning

(* Between two reloads cron has, for every name main has passed on, what   *)
(* the last event gave it, however reloads, fires, edits and shutdown      *)
(* interleave.                                                             *)
THEOREM ViewIsScheduled == Spec => []ViewScheduled
<1>1. DaemonInv => ViewScheduled
  BY DEF DaemonInv, ReloadInv, OthersScheduled, ViewScheduled
<1> QED BY <1>1, Invariance, PTL

(* docs/cli.md:9 from the files to cron, for any number of files, names,   *)
(* goroutines and edits, one-shot cleanups among them: if no event was     *)
(* dropped, and the directory is Orderly.                                  *)
THEOREM DirectoryIsScheduled ==
  ASSUME F!Orderly PROVE Spec => [](~dropped => DirectoryScheduled)
<1>1. FP!Orderly
  BY F!Orderly DEF F!Orderly, FP!Orderly
<1>2. Init => FP!EditsInv /\ EntriesWritten
  <2>1. Init => FP!Init
    BY DEF Init, F!Init, FP!Init
  <2>2. Init => FP!EditsInv
    BY <2>1, StoreAssumptions, FP!InitEdits
  <2> QED BY <2>2 DEF Init, S!Init, EntriesWritten
<1>3. DaemonInv /\ FP!EditsInv /\ [Next]_vars => FP!EditsInv'
  BY <1>1, StepOfStore, SameStoreNext, StoreAssumptions, FP!EditsStep DEF DaemonInv
<1>4. DaemonInv /\ FP!EditsInv /\ EntriesWritten /\ [Next]_vars => EntriesWritten'
  BY WrittenStep DEF DaemonInv
<1>5. DaemonInv /\ FP!EditsInv /\ EntriesWritten => (~dropped => DirectoryScheduled)
  BY CalmScheduled DEF DaemonInv, DirectoryScheduled
<1> QED BY <1>2, <1>3, <1>4, <1>5, Invariance, PTL DEF Spec

(* For any number of files, routines, goroutines and edits: cron starts a  *)
(* one-shot that has succeeded again only while its removal has yet to be  *)
(* done or to reach cron, if os.Remove has failed, or if an event was      *)
(* dropped.                                                                *)
THEOREM OneShotsRefire == ASSUME F!Orderly PROVE Spec => OneShotRefires
<1> DEFINE Starts == \A f \in Fires :
             pc[f] = "idle" /\ pc'[f] = "spawned" /\ spec'[f] \in spent =>
               \/ ~Calm
               \/ \E g \in Fires : pc[g] = "cleanup" /\ spec[g] = spec'[f]
               \/ spec'[f] \in kept
               \/ dropped
<1>1. Init => SpentGone
  BY DEF Init, SpentGone
<1>2. DaemonInv /\ TypeOK /\ SpentGone /\ [Next]_vars => SpentGone'
  BY GoneStep DEF DaemonInv, TypeOK
<1>3. DaemonInv /\ SpentGone /\ (~dropped => DirectoryScheduled) /\ [Next]_vars => Starts
  <2> SUFFICES ASSUME DaemonInv, SpentGone, ~dropped => DirectoryScheduled, [Next]_vars,
                      NEW f \in Fires, pc[f] = "idle", pc'[f] = "spawned",
                      spec'[f] \in spent, Calm, ~dropped, spec'[f] \notin kept
               PROVE  \E g \in Fires : pc[g] = "cleanup" /\ spec[g] = spec'[f]
    OBVIOUS
  <2>1. SP!Inv /\ [S!Next]_(S!vars)
    BY StepOfScheduler DEF DaemonInv, ReloadInv
  <2>2. spec'[f] \in Live
    BY <2>1, StartsLive
  <2>3. disk[spec'[f].path] # NoFile
    BY <2>2 DEF DirectoryScheduled
  <2> QED BY <2>3 DEF SpentGone
<1>4. Spec => [](~dropped => DirectoryScheduled)
  BY F!Orderly, DirectoryIsScheduled
<1> HIDE DEF Starts
<1>5. Spec => [][Starts]_vars
  BY <1>1, <1>2, <1>3, <1>4, Invariance, TypeCorrectness, PTL DEF Spec
<1> QED BY <1>5 DEF Starts, OneShotRefires
=============================================================================
