-------------------------- MODULE Scheduler_proofs --------------------------
(***************************************************************************)
(* Proofs, for every set of routines, names and goroutines, that the       *)
(* scheduler never runs a routine twice at once, whatever is reloaded      *)
(* while it runs.  Each part of Inv is preserved by every step, given the  *)
(* types.                                                                  *)
(***************************************************************************)
EXTENDS Scheduler, TLAPS

USE DEF Move, daemonVars

(* The initial states have the types and the three invariants: no cron     *)
(* entry, no mutex object and no goroutine exists.                         *)
LEMMA InitInv == Init => Inv
<1> SUFFICES ASSUME Init PROVE Inv
  OBVIOUS
<1> USE SpecsAssumption, MaxEntriesAssumption DEF Init, Idle, NoId, NoLock
<1>1. TypeOK
  BY DEF TypeOK, Phases, Ids, Points, Busy, Statuses
<1>2. LocksInv
  BY DEF LocksInv, LocksDistinct, MutexOfName, HeldByBusy, Busy
<1>3. EntriesInv
  BY DEF EntriesInv
<1>4. AttemptsInv
  BY DEF AttemptsInv, RetryBudget
<1> QED BY <1>1, <1>2, <1>3, <1>4 DEF Inv

(* lockFor and AddOrReplace: the name has a mutex object afterwards, other *)
(* names keep theirs, and an object once handed out is never replaced.     *)
LEMMA EnsureLockFacts ==
  ASSUME TypeOK, NEW n \in Names, EnsureLock(n)
  PROVE  /\ nextLock' \in Nat /\ locks' \in [Names -> Nat]
         /\ nextLock <= nextLock'
         /\ locks'[n] = IF locks[n] = NoLock THEN nextLock + 1 ELSE locks[n]
         /\ locks'[n] # NoLock
         /\ locks[n] = NoLock => nextLock' = nextLock + 1
         /\ \A m \in Names \ {n} : locks'[m] = locks[m]
<1> USE DEF TypeOK, EnsureLock, lockVars, NoLock
<1>1. CASE locks[n] = NoLock
  BY <1>1
<1>2. CASE locks[n] # NoLock
  BY <1>2
<1> QED BY <1>1, <1>2

(* Every step of the engine keeps the types.                               *)
LEMMA TypeStep == TypeOK /\ [Next]_vars => TypeOK'
<1> SUFFICES ASSUME TypeOK, [Next]_vars PROVE TypeOK'
  OBVIOUS
<1> USE DEF TypeOK, NoId, NoLock, Points, Busy, Idle
<1>0. /\ NoSpec \notin Specs
      /\ \A r \in Specs : r.name \in Names
  BY SpecsAssumption
<1>1. ASSUME NEW r \in Specs, AddOrReplace(r) PROVE TypeOK'
  <2>1. CASE ~r.enabled
    BY <1>0, <1>1, <2>1 DEF AddOrReplace, DropJob, lockVars, fireVars
  <2>2. CASE r.enabled
    <3>1. nextLock' \in Nat /\ locks' \in [Names -> Nat]
      BY <1>0, <1>1, <2>2, EnsureLockFacts DEF AddOrReplace
    <3> QED BY <1>0, <1>1, <2>2, <3>1 DEF AddOrReplace, cronVars, fireVars
  <2> QED BY <2>1, <2>2
<1>2. ASSUME NEW n \in Names, Remove(n) PROVE TypeOK'
  BY <1>2 DEF Remove, DropJob, lockVars, fireVars
<1>3. CASE AddFunc
  <2>1. CASE ctl.spec.cronOk
    <3>1. nextId \in 0 .. MaxEntries /\ nextId < MaxEntries /\ nextId' = nextId + 1
      BY <1>3, <2>1 DEF AddFunc
    <3>2. nextId' \in 0 .. MaxEntries /\ nextId' \in Ids
      BY ONLY <3>1, MaxEntriesAssumption DEF Ids
    <3>3. entries' \in [Ids -> Specs \cup {NoSpec}]
      BY <1>3, <2>1, <3>1, <3>2 DEF AddFunc
    <3>4. ctl' = [pc |-> "swap", spec |-> ctl.spec, id |-> nextId']
      BY <1>3, <2>1, <3>1 DEF AddFunc
    <3> QED BY <1>0, <1>3, <2>1, <3>2, <3>3, <3>4 DEF AddFunc, lockVars, fireVars
  <2>2. CASE ~ctl.spec.cronOk
    BY <1>3, <2>2 DEF AddFunc, cronVars, lockVars, fireVars
  <2> QED BY <2>1, <2>2
<1>4. CASE SwapJob
  BY <1>0, <1>4 DEF SwapJob, lockVars, fireVars
<1>5. CASE Lifecycle
  BY <1>5 DEF Lifecycle, Start, Halt, Cancel, Drained, GraceExpired, CliExit, Goto,
     Phases, vars, cronVars, lockVars, fireVars
<1>6. ASSUME NEW f \in Fires, NEW id \in Ids, Due(f, id) PROVE TypeOK'
  BY <1>6 DEF Due, Launch, cronVars, lockVars
<1>7. ASSUME NEW f \in Fires, NEW r \in Specs, FireNow(f, r) PROVE TypeOK'
  BY <1>0, <1>7 DEF FireNow, Launch, cronVars, lockVars
<1>8. ASSUME NEW f \in Fires, Own(f) PROVE TypeOK'
  <2>1. CASE LockFor(f)
    <3>1. spec[f].name \in Names
      BY <1>0, <2>1 DEF LockFor
    <3>2. nextLock' \in Nat /\ locks' \in [Names -> Nat]
      BY <2>1, <3>1, EnsureLockFacts DEF LockFor
    <3> QED BY <2>1, <3>1, <3>2 DEF LockFor, cronVars
  <2>2. CASE WgAdd(f) \/ Skip(f) \/ BackoffCanceled(f) \/ Report(f) \/ RemoveSource(f)
    BY <2>2 DEF WgAdd, Skip, BackoffCanceled, Report, RemoveSource, cronVars, lockVars
  <2>3. CASE Acquire(f)
    <3>1. held' \subseteq Nat
      <4>1. mutex[f] \in Nat /\ held \subseteq Nat /\ held' = held \cup {mutex[f]}
        BY <2>3 DEF Acquire
      <4> QED BY ONLY <4>1
    <3>2. attempt' \in [Fires -> Nat]
      BY <2>3 DEF Acquire
    <3>3. pc' \in [Fires -> Points]
      BY <2>3 DEF Acquire
    <3> QED BY <2>3, <3>1, <3>2, <3>3 DEF Acquire, cronVars, lockVars
  <2>4. CASE BackoffElapsed(f)
    <3>1. attempt' \in [Fires -> Nat]
      BY <2>4 DEF BackoffElapsed
    <3> QED BY <2>4, <3>1 DEF BackoffElapsed, cronVars, lockVars
  <2>5. CASE Unlock(f)
    BY <2>5 DEF Unlock, cronVars, lockVars
  <2>6. CASE WgDone(f)
    BY <2>6 DEF WgDone, cronVars, lockVars, Statuses
  <2> QED BY <1>8, <2>1, <2>2, <2>3, <2>4, <2>5, <2>6 DEF Own
<1>9. ASSUME NEW f \in Fires, AttemptEnd(f) PROVE TypeOK'
  BY <1>9 DEF AttemptEnd, cronVars, lockVars
<1>10. CASE UNCHANGED vars
  BY <1>10 DEF vars, cronVars, lockVars, fireVars
<1> QED
  BY <1>1, <1>2, <1>3, <1>4, <1>5, <1>6, <1>7, <1>8, <1>9, <1>10
  DEF Next, Registration, FireStep

-----------------------------------------------------------------------------
(* Mutex objects.                                                          *)

(* A mutex object handed out is fresh: no other name has it, and a name    *)
(* that has an object keeps it.                                            *)
LEMMA EnsureLockKeeps ==
  ASSUME TypeOK, LocksDistinct, NEW n \in Names, EnsureLock(n)
  PROVE  /\ LocksDistinct'
         /\ \A m \in Names : locks[m] # NoLock => locks'[m] = locks[m]
<1> USE DEF TypeOK, LocksDistinct, EnsureLock, lockVars, NoLock
<1>1. CASE locks[n] = NoLock
  <2>1. /\ nextLock' = nextLock + 1
        /\ \A m \in Names : locks'[m] = IF m = n THEN nextLock + 1 ELSE locks[m]
    BY <1>1
  <2>2. nextLock \in Nat /\ \A m \in Names : locks[m] \in Nat
    OBVIOUS
  <2> QED BY <1>1, <2>1, <2>2
<1>2. CASE locks[n] # NoLock
  BY <1>2
<1> QED BY <1>1, <1>2

(* A step of f between two points with the mutex held, or between two      *)
(* points without it and not past lockFor.                                 *)
LEMMA LocksInvMove ==
  ASSUME TypeOK, LocksInv, NEW f \in Fires, NEW q \in Points,
         pc' = [pc EXCEPT ![f] = q],
         \A g \in Fires \ {f} : spec'[g] = spec[g] /\ mutex'[g] = mutex[g],
         UNCHANGED <<lockVars, held>>,
         \/ pc[f] \in Busy /\ q \in Busy /\ UNCHANGED <<spec, mutex>>
         \/ pc[f] \notin Busy /\ q \in {"idle", "spawned", "locate"}
         \/ pc[f] = "try" /\ q = "done" /\ UNCHANGED <<spec, mutex>>
  PROVE  LocksInv'
<1> USE DEF TypeOK, LocksInv, lockVars, Busy
<1>1. LocksDistinct'
  BY DEF LocksDistinct
<1>2. MutexOfName'
  BY DEF MutexOfName
<1>3. HeldByBusy'
  BY DEF HeldByBusy
<1> QED BY <1>1, <1>2, <1>3

(* Every step keeps the mutex objects distinct, a goroutine's mutex that   *)
(* of its name, and a locked mutex in the hands of one busy goroutine.     *)
LEMMA LocksStep == TypeOK /\ LocksInv /\ [Next]_vars => LocksInv'
<1> SUFFICES ASSUME TypeOK, LocksInv, [Next]_vars PROVE LocksInv'
  OBVIOUS
<1>0. /\ NoSpec \notin Specs
      /\ \A r \in Specs : r.name \in Names
  BY SpecsAssumption
<1>1. CASE UNCHANGED <<lockVars, held, pc, spec, mutex>>
  BY <1>1 DEF LocksInv, LocksDistinct, MutexOfName, HeldByBusy, lockVars
<1>2. ASSUME NEW n \in Names, EnsureLock(n), UNCHANGED <<held, pc, spec, mutex>>
      PROVE  LocksInv'
  <2>1. LocksDistinct' /\ \A m \in Names : locks[m] # NoLock => locks'[m] = locks[m]
    BY <1>2, EnsureLockKeeps DEF LocksInv
  <2>2. \A f \in Fires : pc[f] # "idle" => spec[f].name \in Names
    BY <1>0 DEF TypeOK
  <2>3. MutexOfName'
    BY <1>2, <2>1, <2>2 DEF LocksInv, MutexOfName, Busy
  <2>4. HeldByBusy'
    BY <1>2 DEF LocksInv, HeldByBusy
  <2> QED BY <2>1, <2>3, <2>4 DEF LocksInv
<1>3. ASSUME NEW f \in Fires, LockFor(f) PROVE LocksInv'
  <2>1. EnsureLock(spec[f].name) /\ spec[f].name \in Names
    BY <1>0, <1>3 DEF LockFor, TypeOK
  <2>2. /\ LocksDistinct'
        /\ \A m \in Names : locks[m] # NoLock => locks'[m] = locks[m]
        /\ locks'[spec[f].name] # NoLock
    BY <2>1, EnsureLockKeeps, EnsureLockFacts DEF LocksInv
  <2>3. \A g \in Fires : pc[g] # "idle" => spec[g].name \in Names
    BY <1>0 DEF TypeOK
  <2>4. MutexOfName'
    BY <1>3, <2>2, <2>3 DEF LockFor, TypeOK, LocksInv, MutexOfName, Busy
  <2>5. HeldByBusy'
    BY <1>3 DEF LockFor, TypeOK, LocksInv, HeldByBusy, Busy
  <2> QED BY <2>2, <2>4, <2>5 DEF LocksInv
<1>4. ASSUME NEW f \in Fires, Acquire(f) PROVE LocksInv'
  <2>1. LocksDistinct'
    BY <1>4 DEF Acquire, LocksInv, LocksDistinct, lockVars
  <2>2. MutexOfName'
    BY <1>4 DEF Acquire, TypeOK, LocksInv, MutexOfName, lockVars, Busy
  <2>3. HeldByBusy'
    BY <1>4 DEF Acquire, TypeOK, LocksInv, HeldByBusy, Busy
  <2> QED BY <2>1, <2>2, <2>3 DEF LocksInv
<1>5. ASSUME NEW f \in Fires, Unlock(f) PROVE LocksInv'
  <2>1. LocksDistinct'
    BY <1>5 DEF Unlock, LocksInv, LocksDistinct, lockVars
  <2>2. MutexOfName'
    BY <1>5 DEF Unlock, TypeOK, LocksInv, MutexOfName, lockVars, Busy
  <2>3. HeldByBusy'
    BY <1>5 DEF Unlock, TypeOK, LocksInv, HeldByBusy, Busy
  <2> QED BY <2>1, <2>2, <2>3 DEF LocksInv
<1>6. ASSUME NEW f \in Fires,
             \/ \E id \in Ids : Due(f, id)
             \/ \E r \in Specs : FireNow(f, r)
             \/ WgAdd(f) \/ Skip(f) \/ WgDone(f)
      PROVE  LocksInv'
  <2> PICK q \in Points : pc' = [pc EXCEPT ![f] = q]
           /\ \/ pc[f] \notin Busy /\ q \in {"idle", "spawned", "locate"}
              \/ pc[f] = "try" /\ q = "done" /\ UNCHANGED <<spec, mutex>>
    BY <1>6 DEF Due, FireNow, Launch, WgAdd, Skip, WgDone, Points, Busy
  <2>1. \A g \in Fires \ {f} : spec'[g] = spec[g] /\ mutex'[g] = mutex[g]
    BY <1>6 DEF Due, FireNow, Launch, WgAdd, Skip, WgDone, TypeOK
  <2>2. UNCHANGED <<lockVars, held>>
    BY <1>6 DEF Due, FireNow, WgAdd, Skip, WgDone
  <2> QED BY <2>1, <2>2, LocksInvMove
<1>7. ASSUME NEW f \in Fires,
             \/ AttemptEnd(f) \/ BackoffElapsed(f) \/ BackoffCanceled(f)
             \/ Report(f) \/ RemoveSource(f)
      PROVE  LocksInv'
  <2> PICK q \in Busy : pc' = [pc EXCEPT ![f] = q] /\ pc[f] \in Busy
    BY <1>7 DEF AttemptEnd, BackoffElapsed, BackoffCanceled, Report, RemoveSource, Busy
  <2>1. UNCHANGED <<lockVars, held, spec, mutex>>
    BY <1>7 DEF AttemptEnd, BackoffElapsed, BackoffCanceled, Report, RemoveSource
  <2> QED BY <2>1, LocksInvMove DEF Points
<1>8. CASE Registration
  <2>1. CASE \E r \in Specs : r.enabled /\ AddOrReplace(r)
    BY <1>0, <1>2, <2>1 DEF AddOrReplace, fireVars
  <2>2. CASE \/ \E r \in Specs : ~r.enabled /\ AddOrReplace(r)
             \/ \E n \in Names : Remove(n)
             \/ AddFunc \/ SwapJob
    BY <1>1, <2>2 DEF AddOrReplace, Remove, DropJob, AddFunc, SwapJob, fireVars
  <2> QED BY <1>8, <2>1, <2>2 DEF Registration
<1>9. CASE Lifecycle \/ UNCHANGED vars
  BY <1>1, <1>9 DEF Lifecycle, Start, Halt, Cancel, Drained, GraceExpired, CliExit,
     Goto, vars, fireVars
<1> QED
  BY <1>3, <1>4, <1>5, <1>6, <1>7, <1>8, <1>9 DEF Next, FireStep, Own

-----------------------------------------------------------------------------
(* Cron entries.                                                           *)

(* Dropping a job, outside AddOrReplace's window, keeps the entries owned: *)
(* the only live entry of the name was its job.                            *)
LEMMA DropJobKeeps ==
  ASSUME TypeOK, EntriesInv, ctl = Idle, NEW n \in Names, DropJob(n), ctl' = ctl
  PROVE  EntriesInv'
<1> USE DEF TypeOK, EntriesInv, DropJob, Idle, NoId
<1>1. CASE jobs[n] # NoId
  <2>1. /\ nextId' = nextId
        /\ \A id \in Ids : entries'[id] = IF id = jobs[n] THEN NoSpec ELSE entries[id]
        /\ \A m \in Names : jobs'[m] = IF m = n THEN NoId ELSE jobs[m]
    BY <1>1
  <2>2. \A id \in Ids : entries[id] # NoSpec => entries[id].name \in Names
    BY SpecsAssumption
  <2> QED BY <1>1, <2>1, <2>2
<1>2. CASE jobs[n] = NoId
  BY <1>2
<1> QED BY <1>1, <1>2

(* Every step keeps the live cron entries owned by the jobs map or by the  *)
(* AddOrReplace under way.                                                 *)
LEMMA EntriesStep == TypeOK /\ EntriesInv /\ [Next]_vars => EntriesInv'
<1> SUFFICES ASSUME TypeOK, EntriesInv, [Next]_vars PROVE EntriesInv'
  OBVIOUS
<1>0. /\ NoSpec \notin Specs
      /\ \A r \in Specs : r.name \in Names
  BY SpecsAssumption
<1>1. CASE UNCHANGED <<cronVars, jobs, ctl>>
  BY <1>1 DEF EntriesInv, cronVars
<1>2. ASSUME NEW r \in Specs, AddOrReplace(r) PROVE EntriesInv'
  <2>1. CASE ~r.enabled
    BY <1>0, <1>2, <2>1, DropJobKeeps DEF AddOrReplace
  <2>2. CASE r.enabled
    BY <1>2, <2>2 DEF AddOrReplace, EntriesInv, cronVars, Idle
  <2> QED BY <2>1, <2>2
<1>3. ASSUME NEW n \in Names, Remove(n) PROVE EntriesInv'
  BY <1>3, DropJobKeeps DEF Remove
<1>4. CASE AddFunc
  <2>1. CASE ctl.spec.cronOk
    <3>1. nextId \in Nat /\ nextId + 1 \in Ids /\ entries[nextId + 1] = NoSpec
      BY <1>4, <2>1, MaxEntriesAssumption DEF AddFunc, TypeOK, EntriesInv, Ids
    <3>2. /\ nextId' = nextId + 1
          /\ \A id \in Ids : entries'[id] = IF id = nextId + 1 THEN ctl.spec ELSE entries[id]
          /\ ctl'.pc = "swap" /\ ctl'.spec = ctl.spec /\ ctl'.id = nextId + 1
          /\ ctl.spec \in Specs /\ ctl.pc = "add" /\ UNCHANGED jobs
      BY <1>4, <2>1, <3>1 DEF AddFunc, TypeOK
    <3>3. \A id \in Ids : entries[id] # NoSpec => id <= nextId + 1
      BY <3>1 DEF EntriesInv, TypeOK, Ids
    <3>4. jobs \in [Names -> Ids \cup {NoId}] /\ ctl.spec.name \in Names
      BY <1>0, <3>2 DEF TypeOK
    <3>5. \A n \in Names : jobs[n] # nextId + 1
      BY <3>1, <3>4 DEF EntriesInv, Ids, NoId
    <3>6. ASSUME NEW id \in Ids, entries'[id] # NoSpec
          PROVE  /\ id <= nextId'
                 /\ \/ jobs'[entries'[id].name] = id
                    \/ ctl'.pc = "swap" /\ ctl'.id = id
      BY <3>1, <3>2, <3>3, <3>6 DEF EntriesInv
    <3>7. ASSUME NEW n \in Names, jobs'[n] # NoId
          PROVE  entries'[jobs'[n]] # NoSpec /\ entries'[jobs'[n]].name = n
      BY <3>2, <3>4, <3>5, <3>7 DEF EntriesInv
    <3>8. entries'[ctl'.id] = ctl'.spec /\ jobs'[ctl'.spec.name] # ctl'.id
      BY <3>1, <3>2, <3>4, <3>5
    <3> QED BY <3>6, <3>7, <3>8 DEF EntriesInv
  <2>2. CASE ~ctl.spec.cronOk
    BY <1>4, <2>2 DEF AddFunc, EntriesInv, cronVars, Idle
  <2> QED BY <2>1, <2>2
<1>5. CASE SwapJob
  <2>1. /\ ctl.spec \in Specs /\ ctl.id \in Ids /\ ctl.spec.name \in Names
        /\ ctl'.pc = "idle" /\ UNCHANGED nextId
    BY <1>0, <1>5 DEF SwapJob, TypeOK, Idle
  <2>2. /\ \A id \in Ids : entries'[id] = IF id = jobs[ctl.spec.name] THEN NoSpec
                                          ELSE entries[id]
        /\ \A n \in Names : jobs'[n] = IF n = ctl.spec.name THEN ctl.id ELSE jobs[n]
    BY <1>5 DEF SwapJob, TypeOK
  <2>3. \A id \in Ids : entries[id] # NoSpec => entries[id].name \in Names
    BY <1>0 DEF TypeOK
  <2>4. jobs \in [Names -> Ids \cup {NoId}]
    BY DEF TypeOK
  <2> QED BY <1>0, <1>5, <2>1, <2>2, <2>3, <2>4 DEF SwapJob, EntriesInv
<1>6. ASSUME NEW f \in Fires, FireStep(f) PROVE EntriesInv'
  <2>1. UNCHANGED <<cronVars, jobs, ctl>>
    BY <1>6 DEF FireStep, Own, Due, FireNow, WgAdd, LockFor, Acquire, Skip, AttemptEnd,
       BackoffElapsed, BackoffCanceled, Report, RemoveSource, Unlock, WgDone
  <2> QED BY <1>1, <2>1
<1>7. CASE Lifecycle \/ UNCHANGED vars
  BY <1>1, <1>7 DEF Lifecycle, Start, Halt, Cancel, Drained, GraceExpired, CliExit,
     Goto, vars
<1> QED
  BY <1>2, <1>3, <1>4, <1>5, <1>6, <1>7 DEF Next, Registration

-----------------------------------------------------------------------------
(* The retry loop.                                                         *)

(* Every step of a goroutine stays within the routine's retry budget, and  *)
(* no other step touches what the loop counts.                             *)
LEMMA AttemptsStep == TypeOK /\ AttemptsInv /\ [Next]_vars => AttemptsInv'
<1> SUFFICES ASSUME TypeOK, AttemptsInv, [Next]_vars PROVE AttemptsInv'
  OBVIOUS
<1> USE DEF AttemptsInv, RetryBudget
<1>0. \A r \in Specs : r.retries \in Nat /\ Budget(r) \in Nat /\ Budget(r) >= 1
  BY SpecsAssumption DEF Budget
<1>1. CASE UNCHANGED <<pc, spec, attempt>>
  BY <1>1
<1>2. ASSUME NEW f \in Fires, NEW r \in Specs, NEW p \in {"spawned", "locate"}, Launch(f, r, p)
      PROVE  AttemptsInv'
  <2>1. attempt[f] = 0 /\ attempt' = attempt
    BY <1>2 DEF Launch
  <2>2. \A g \in Fires : /\ pc'[g] = IF g = f THEN p ELSE pc[g]
                         /\ spec'[g] = IF g = f THEN r ELSE spec[g]
    BY <1>2 DEF Launch, TypeOK
  <2> QED BY <1>0, <2>1, <2>2
<1>3. ASSUME NEW f \in Fires, Acquire(f) PROVE AttemptsInv'
  <2>1. spec[f] \in Specs /\ UNCHANGED spec
    BY <1>3 DEF Acquire, TypeOK
  <2>2. \A g \in Fires : /\ pc'[g] = IF g = f THEN "exec" ELSE pc[g]
                         /\ attempt'[g] = IF g = f THEN 1 ELSE attempt[g]
    BY <1>3 DEF Acquire, TypeOK
  <2> QED BY <1>0, <2>1, <2>2
<1>4. ASSUME NEW f \in Fires, AttemptEnd(f) PROVE AttemptsInv'
  <2>1. UNCHANGED <<spec, attempt>>
    BY <1>4 DEF AttemptEnd
  <2>2. PICK s \in Statuses : pc' = [pc EXCEPT ![f] = IF Retries(spec[f], attempt[f], s)
                                                     THEN "backoff" ELSE "report"]
    BY <1>4 DEF AttemptEnd
  <2>3. pc[f] # "idle" /\ \A g \in Fires \ {f} : pc'[g] = pc[g]
    BY <1>4, <2>2 DEF AttemptEnd, TypeOK
  <2>4. pc'[f] = "backoff" => spec[f].onFailure = "retry" /\ attempt[f] <= spec[f].retries
    BY <2>2 DEF TypeOK, Retries
  <2>5. pc'[f] \in {"backoff", "report"}
    BY <2>2 DEF TypeOK
  <2> QED BY <2>1, <2>3, <2>4, <2>5
<1>5. ASSUME NEW f \in Fires, BackoffElapsed(f) PROVE AttemptsInv'
  <2>1. spec[f] \in Specs /\ UNCHANGED spec /\ attempt[f] \in Nat
    BY <1>5 DEF BackoffElapsed, TypeOK
  <2>2. \A g \in Fires : /\ pc'[g] = IF g = f THEN "exec" ELSE pc[g]
                         /\ attempt'[g] = IF g = f THEN attempt[f] + 1 ELSE attempt[g]
    BY <1>5 DEF BackoffElapsed, TypeOK
  <2>3. attempt[f] + 1 <= Budget(spec[f])
    BY <1>0, <1>5, <2>1 DEF BackoffElapsed, Budget
  <2> QED BY <2>2, <2>1, <2>3
<1>6. ASSUME NEW f \in Fires, WgDone(f) PROVE AttemptsInv'
  <2>1. \A g \in Fires : /\ pc'[g] = IF g = f THEN "idle" ELSE pc[g]
                         /\ spec'[g] = IF g = f THEN NoSpec ELSE spec[g]
                         /\ attempt'[g] = IF g = f THEN 0 ELSE attempt[g]
    BY <1>6 DEF WgDone, TypeOK
  <2> QED BY <2>1
<1>7. ASSUME NEW f \in Fires,
             \/ WgAdd(f) \/ LockFor(f) \/ Skip(f) \/ BackoffCanceled(f)
             \/ Report(f) \/ RemoveSource(f) \/ Unlock(f)
      PROVE  AttemptsInv'
  <2>1. UNCHANGED <<spec, attempt>>
    BY <1>7 DEF WgAdd, LockFor, Skip, BackoffCanceled, Report, RemoveSource, Unlock
  <2>2. /\ pc[f] # "idle"
        /\ \E q \in Points \ {"idle", "backoff"} : pc' = [pc EXCEPT ![f] = q]
    BY <1>7 DEF WgAdd, LockFor, Skip, BackoffCanceled, Report, RemoveSource, Unlock,
       Points, Busy
  <2> QED BY <2>1, <2>2 DEF TypeOK
<1>8. CASE Registration \/ Lifecycle \/ UNCHANGED vars
  <2>1. UNCHANGED <<pc, spec, attempt>>
    BY <1>8 DEF Registration, AddOrReplace, Remove, AddFunc, SwapJob, Lifecycle, Start,
       Halt, Cancel, Drained, GraceExpired, CliExit, Goto, vars, fireVars
  <2> QED BY <1>1, <2>1
<1>9. ASSUME NEW f \in Fires, (\E id \in Ids : Due(f, id)) \/ (\E r \in Specs : FireNow(f, r))
      PROVE  AttemptsInv'
  <2>1. \E r \in Specs, p \in {"spawned", "locate"} : Launch(f, r, p)
    BY <1>9 DEF Due, FireNow, TypeOK
  <2> QED BY <1>2, <2>1
<1> QED
  BY <1>3, <1>4, <1>5, <1>6, <1>7, <1>8, <1>9 DEF Next, FireStep, Own

-----------------------------------------------------------------------------
(* The theorems.                                                           *)

(* Inv is an invariant: its parts are preserved one by one, each from the  *)
(* types and itself.                                                       *)
LEMMA InvStep == Inv /\ [Next]_vars => Inv'
BY TypeStep, LocksStep, EntriesStep, AttemptsStep DEF Inv

(* Every run of the scheduler keeps the invariant.                         *)
THEOREM Invariance == Spec => []Inv
BY InitInv, InvStep, PTL DEF Spec

(* The variables keep their types, and cron starts no job for an entry it  *)
(* has removed.                                                            *)
THEOREM TypeCorrectness == Spec => []TypeOK
<1>1. Inv => TypeOK
  BY DEF Inv
<1> QED BY <1>1, Invariance, PTL

(* No two goroutines run the same routine, for any number of goroutines    *)
(* and any sequence of reloads: they would have the same mutex object,     *)
(* which one busy goroutine alone holds.                                   *)
THEOREM SkipIfRunningSafe == Spec => []MutualExclusion
<1>1. Inv => MutualExclusion
  BY DEF Inv, LocksInv, MutexOfName, HeldByBusy, MutualExclusion
<1> QED BY <1>1, Invariance, PTL

(* A routine never has two cron entries outside AddOrReplace's window.     *)
THEOREM OneEntry == Spec => []OneEntryPerRoutine
<1>1. Inv => OneEntryPerRoutine
  BY DEF Inv, EntriesInv, OneEntryPerRoutine
<1> QED BY <1>1, Invariance, PTL

(* A fire executes its routine at most 1 + retries times.                  *)
THEOREM RetriesBounded == Spec => []RetryBudget
<1>1. Inv => RetryBudget
  BY DEF Inv, AttemptsInv
<1> QED BY <1>1, Invariance, PTL

(* Only a step of f itself moves f.                                        *)
LEMMA OwnStep ==
  ASSUME TypeOK, [Next]_vars, NEW f \in Fires, pc'[f] # pc[f]
  PROVE  FireStep(f)
<1>1. ASSUME NEW g \in Fires, FireStep(g) PROVE g = f
  BY <1>1 DEF FireStep, Own, Due, FireNow, Launch, WgAdd, LockFor, Acquire, Skip,
     AttemptEnd, BackoffElapsed, BackoffCanceled, Report, RemoveSource, Unlock,
     WgDone, TypeOK
<1>2. ~(Registration \/ Lifecycle \/ UNCHANGED vars)
  BY DEF Registration, AddOrReplace, Remove, AddFunc, SwapJob, Lifecycle, Start,
     Halt, Cancel, Drained, GraceExpired, CliExit, Goto, vars, fireVars
<1> QED BY <1>1, <1>2 DEF Next

(* The step with which a fire gives up finds its routine running.          *)
LEMMA SkipStep ==
  ASSUME Inv, [Next]_vars, NEW f \in Fires, pc[f] = "try", pc'[f] = "done"
  PROVE  \E g \in Fires \ {f} : pc[g] \in Busy /\ spec[g].name = spec[f].name
<1> USE DEF Inv
<1>1. Skip(f)
  <2>1. FireStep(f)
    BY OwnStep
  <2> QED BY <2>1 DEF FireStep, Own, Due, FireNow, Launch, WgAdd, LockFor, Acquire,
       Skip, AttemptEnd, BackoffElapsed, BackoffCanceled, Report, RemoveSource,
       Unlock, WgDone, TypeOK, Busy
<1>2. PICK g \in Fires : pc[g] \in Busy /\ mutex[g] = mutex[f]
  BY <1>1 DEF Skip, LocksInv, HeldByBusy
<1>3. g # f
  BY <1>2 DEF Busy
<1>4. spec[f].name \in Names /\ spec[g].name \in Names
  BY <1>2, SpecsAssumption DEF TypeOK, Busy
<1>5. spec[g].name = spec[f].name
  BY <1>2, <1>4 DEF LocksInv, LocksDistinct, MutexOfName
<1> QED BY <1>2, <1>3, <1>5

(* A fire is dropped only while a run of its routine is in flight: the     *)
(* mutex it found locked is its name's, and its holder is busy with it.    *)
THEOREM SkipJustified == Spec => SkipOnlyIfRunning
<1> DEFINE P == \A f \in Fires :
       pc[f] = "try" /\ pc'[f] = "done" =>
         \E g \in Fires \ {f} : pc[g] \in Busy /\ spec[g].name = spec[f].name
<1>1. Inv /\ [Next]_vars => P
  BY SkipStep
<1> QED BY <1>1, Invariance, PTL DEF Spec, SkipOnlyIfRunning

(* The step with which cron starts a fire finds its routine registered.    *)
LEMMA DueStep ==
  ASSUME Inv, [Next]_vars, NEW f \in Fires, pc[f] = "idle", pc'[f] = "spawned"
  PROVE  Registered(spec'[f])
<1> USE DEF Inv
<1>1. PICK id \in Ids : Due(f, id)
  <2>1. FireStep(f)
    BY OwnStep
  <2> QED BY <2>1 DEF FireStep, Own, FireNow, Launch, WgAdd, LockFor, Acquire, Skip,
       AttemptEnd, BackoffElapsed, BackoffCanceled, Report, RemoveSource, Unlock,
       WgDone, TypeOK, Busy
<1>2. entries[id] # NoSpec /\ spec'[f] = entries[id]
  BY <1>1 DEF Due, Launch, TypeOK
<1> QED BY <1>2, SpecsAssumption DEF Registered, EntriesInv, TypeOK, Ids, NoId

(* A fire cron starts is of the routine registered last under its name, or *)
(* of the one being installed: nothing removed, disabled or replaced fires *)
(* again once the call has returned.                                       *)
THEOREM OnlyRegisteredFires == Spec => FiresRegistered
<1> DEFINE P == \A f \in Fires : pc[f] = "idle" /\ pc'[f] = "spawned" => Registered(spec'[f])
<1>1. Inv /\ [Next]_vars => P
  BY DueStep
<1> QED BY <1>1, Invariance, PTL DEF Spec, FiresRegistered

(* TryLock is Begin, Unlock is End, every other step is a stutter.         *)
LEMMA RefinementStep == Inv /\ [Next]_vars => [Abs!Next]_Running
<1> SUFFICES ASSUME Inv, [Next]_vars PROVE Abs!Next \/ UNCHANGED Running
  OBVIOUS
<1> USE DEF Inv
<1>0. \A f \in Fires : pc[f] \in Busy => spec[f].name \in Names /\ spec[f].name # NoSpec
  BY SpecsAssumption DEF TypeOK, Busy
<1>1. ASSUME NEW f \in Fires, Acquire(f) PROVE Abs!Begin(f, spec[f].name) /\ spec[f].name \in Names
  <2>1. spec[f].name \in Names
    BY <1>1, SpecsAssumption DEF Acquire, TypeOK
  <2>2. Running[f] = NoSpec
    BY <1>1 DEF Acquire, Running, Busy
  <2>3. \A g \in Fires : Running[g] # spec[f].name
    BY <1>1, <2>1, SpecsAssumption DEF Acquire, Running, LocksInv, MutexOfName, HeldByBusy, Busy
  <2>4. Running' = [Running EXCEPT ![f] = spec[f].name]
    BY <1>1 DEF Acquire, Running, TypeOK, Busy
  <2> QED BY <2>1, <2>2, <2>3, <2>4 DEF Abs!Begin
<1>2. ASSUME NEW f \in Fires, Unlock(f) PROVE Abs!End(f)
  <2>1. Running[f] # NoSpec
    BY <1>0, <1>2 DEF Unlock, Running, Busy
  <2>2. Running' = [Running EXCEPT ![f] = NoSpec]
    BY <1>2 DEF Unlock, Running, TypeOK, Busy
  <2> QED BY <2>1, <2>2 DEF Abs!End
<1>3. ASSUME NEW f \in Fires,
             \/ \E id \in Ids : Due(f, id)
             \/ \E r \in Specs : FireNow(f, r)
             \/ WgAdd(f) \/ LockFor(f) \/ Skip(f) \/ WgDone(f)
             \/ AttemptEnd(f) \/ BackoffElapsed(f) \/ BackoffCanceled(f)
             \/ Report(f) \/ RemoveSource(f)
      PROVE  UNCHANGED Running
  <2>1. \A g \in Fires \ {f} : pc'[g] = pc[g] /\ spec'[g] = spec[g]
    BY <1>3 DEF Due, FireNow, Launch, WgAdd, LockFor, Skip, WgDone, AttemptEnd,
       BackoffElapsed, BackoffCanceled, Report, RemoveSource, TypeOK
  <2>2. \/ pc[f] \in Busy /\ pc'[f] \in Busy /\ spec'[f] = spec[f]
        \/ pc[f] \notin Busy /\ pc'[f] \notin Busy
    BY <1>3 DEF Due, FireNow, Launch, WgAdd, LockFor, Skip, WgDone, AttemptEnd,
       BackoffElapsed, BackoffCanceled, Report, RemoveSource, TypeOK, Busy
  <2> QED BY <2>1, <2>2 DEF Running
<1>4. CASE Registration \/ Lifecycle \/ UNCHANGED vars
  <2>1. UNCHANGED <<pc, spec>>
    BY <1>4 DEF Registration, AddOrReplace, Remove, AddFunc, SwapJob, Lifecycle, Start,
       Halt, Cancel, Drained, GraceExpired, CliExit, Goto, vars, fireVars
  <2> QED BY <2>1 DEF Running
<1> QED
  BY <1>1, <1>2, <1>3, <1>4 DEF Next, FireStep, Own, Abs!Next

(* The scheduler implements the safety part of skip-if-running, for any    *)
(* number of goroutines and any reloads.                                   *)
THEOREM Refinement == Spec => ImplementsSkipIfRunning
<1>1. Init => Abs!Init
  BY DEF Init, Abs!Init, Running, Busy
<1> QED
  BY <1>1, RefinementStep, Invariance, PTL DEF Spec, ImplementsSkipIfRunning, Abs!Safe

(* If every fire returns, the scheduler implements skip-if-running whole:  *)
(* a run that has started ends.                                            *)
THEOREM LivenessRefined == Spec /\ (\A f \in Fires : FireReturns(f)) => Abs!Spec
<1>1. ASSUME NEW f \in Fires
      PROVE  FireReturns(f) => ((Running[f] # NoSpec) ~> (Running[f] = NoSpec))
  <2>1. Running[f] # NoSpec => pc[f] # "idle"
    BY DEF Running, Busy
  <2>2. pc[f] = "idle" => Running[f] = NoSpec
    BY DEF Running, Busy
  <2> QED BY <2>1, <2>2, PTL DEF FireReturns
<1>2. (\A f \in Fires : FireReturns(f)) => Abs!Ends
  BY <1>1 DEF Abs!Ends
<1> QED BY <1>2, Refinement DEF ImplementsSkipIfRunning, Abs!Spec
=============================================================================
