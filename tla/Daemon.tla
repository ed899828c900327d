------------------------------- MODULE Daemon -------------------------------
(***************************************************************************)
(* cmd/routines/daemon.go: the spec store and the scheduler in one         *)
(* process, joined by start-up, by the hot-reload loop, which passes the   *)
(* store's events to the scheduler, by the one-shot cleanup, in which a    *)
(* fire edits the directory the store watches, and by shutdown.  The       *)
(* actions of FSStore and Scheduler are used as they are.                  *)
(***************************************************************************)
EXTENDS Naturals, Sequences

CONSTANTS
  Paths, Names, Contents, Broken, NoFile, NoRoutine, NoName, Writes, Moves,
  EarlyEdits, Prompt, ChanCap, MaxEdits,       \* see FSStore; Contents: its Specs
  NoSpec, Fires, MaxEntries,                   \* see Scheduler
  MaxUserEdits    \* bound: edits that are not one-shot cleanups

VARIABLES
  disk, edits, stage, todo, queue, timers, lastTimer, armed, callbacks,
  routines, pathMap, errors, chan, dropped, view,          \* FSStore
  phase, entries, nextId, jobs, locks, nextLock, held, ctl,
  pc, spec, mutex, attempt, status, wg,                    \* Scheduler
  toAdd,  \* the routines main has not passed to AddOrReplace yet
  spent,  \* one-shots that succeeded and were not written again since
  kept    \* those of them whose file os.Remove failed to remove

(* The *spec.Routine of content c in file p, as the scheduler reads it.    *)
SpecOf(p, c) ==
  [path |-> p, name |-> c.name, version |-> c.version, enabled |-> c.enabled,
   cronOk |-> c.cronOk, onFailure |-> c.onFailure, retries |-> c.retries,
   once |-> c.once]

Specs == {SpecOf(p, c) : p \in Paths, c \in Contents}

(* What FSStore and Scheduler assume, of the constants given here.         *)
ASSUME FilesAssumption ==
  /\ Paths \subseteq Nat \ {0}
  /\ NoName \notin Names
  /\ Broken \notin Contents /\ NoFile \notin Contents \cup {Broken}
  /\ NoRoutine \notin [path : Paths, spec : Contents]
  /\ Writes \subseteq Paths \X (Contents \cup {Broken})
  /\ Moves \subseteq Paths \X Paths

ASSUME ContentsAssumption ==
  /\ NoSpec \notin Specs \cup Names
  /\ \A c \in Contents : /\ c.name \in Names
                         /\ c.enabled \in BOOLEAN
                         /\ c.cronOk \in BOOLEAN
                         /\ c.onFailure \in {"retry", "skip", "alert"}
                         /\ c.retries \in Nat
                         /\ c.once \in BOOLEAN

ASSUME BoundsAssumption ==
  /\ EarlyEdits \in BOOLEAN /\ Prompt \in BOOLEAN
  /\ ChanCap \in Nat \ {0, 1}
  /\ MaxEdits \in Nat /\ MaxEntries \in Nat /\ MaxUserEdits \in Nat

F == INSTANCE FSStore WITH Specs <- Contents
S == INSTANCE Scheduler

fVars == <<disk, edits, stage, todo, queue, timers, lastTimer, armed, callbacks,
           routines, pathMap, errors, chan, dropped, view>>
sVars == <<phase, entries, nextId, jobs, locks, nextLock, held, ctl,
           pc, spec, mutex, attempt, status, wg>>
vars == <<fVars, sVars, toAdd, spent, kept>>

Init ==
  /\ F!Init
  /\ S!Init
  /\ phase = "loading"
  /\ toAdd = {}
  /\ spent = {}
  /\ kept = {}

-----------------------------------------------------------------------------
(* Main. *)

LoadSpecs ==
  /\ F!ReadDir \/ \E p \in Paths : F!LoadNext(p)
  /\ UNCHANGED <<sVars, toAdd, spent, kept>>

(* fs.Routines(): the loop over them follows in AddNext. *)
ListRoutines ==
  /\ F!Register
  /\ toAdd' = {n \in Names : routines[n] # NoRoutine}
  /\ UNCHANGED <<sVars, spent, kept>>

AddNext(n) ==
  /\ n \in toAdd
  /\ S!AddOrReplace(SpecOf(view[n].path, view[n].spec))
  /\ toAdd' = toAdd \ {n}
  /\ UNCHANGED <<fVars, spent, kept>>

StartCron ==
  /\ stage = "registered"
  /\ toAdd = {}
  /\ S!Start
  /\ UNCHANGED <<fVars, toAdd, spent, kept>>

(* Subscribe and the goroutine of Watch come after sch.Start. *)
StartWatch ==
  /\ phase = "running"
  /\ F!StartWatch
  /\ UNCHANGED <<sVars, toAdd, spent, kept>>

(* The select: a signal, or Watch has returned. *)
Halt ==
  /\ stage \in {"watching", "stopped"}
  /\ S!Halt
  /\ UNCHANGED <<fVars, toAdd, spent, kept>>

Stopping ==
  /\ S!Cancel \/ S!Drained \/ S!GraceExpired
  /\ UNCHANGED <<fVars, toAdd, spent, kept>>

(* The deferred unsub. *)
Unsubscribe ==
  /\ phase \in {"drained", "graceExpired"}
  /\ F!Unsubscribe
  /\ UNCHANGED <<sVars, toAdd, spent, kept>>

-----------------------------------------------------------------------------
(* The goroutines of the store and of the reload loop. *)

Deliver ==
  /\ F!Schedule \/ (\E t \in armed : F!TimerFires(t)) \/ F!Callback
  /\ UNCHANGED <<sVars, toAdd, spent, kept>>

(* cancel() after the select, or an error of the watcher before it. *)
WatchEnds ==
  /\ F!WatchEnds
  /\ UNCHANGED <<sVars, toAdd, spent, kept>>

(* Seeded bug: the loop takes every event without a routine for a failure. *)
ApplyIgnoringDelete(e) ==
  \/ e.routine = NoRoutine /\ UNCHANGED sVars
  \/ e.routine # NoRoutine /\ S!AddOrReplace(SpecOf(e.routine.path, e.routine.spec))

(* What the loop does with an event. *)
Apply(e) ==
  \/ e.name = NoName /\ UNCHANGED sVars
  \/ e.name # NoName /\ e.routine = NoRoutine /\ S!Remove(e.name)
  \/ e.routine # NoRoutine /\ S!AddOrReplace(SpecOf(e.routine.path, e.routine.spec))

Reload ==
  /\ F!Receive
  /\ ctl = S!Idle
  /\ Apply(Head(chan))
  /\ UNCHANGED <<toAdd, spent, kept>>

FinishReload ==
  /\ S!AddFunc \/ S!SwapJob
  /\ UNCHANGED <<fVars, toAdd, spent, kept>>

-----------------------------------------------------------------------------
(* Fires. *)

Due(f, id) ==
  /\ S!Due(f, id)
  /\ UNCHANGED <<fVars, toAdd, spent, kept>>

Report(f) ==
  /\ S!Report(f)
  /\ spent' = IF spec[f].once /\ status[f] = "success" THEN spent \cup {spec[f]}
              ELSE spent
  /\ UNCHANGED <<fVars, toAdd, kept>>

(* Seeded bug: the cleanup leaves the file. *)
CleanupSkipped(f) ==
  /\ S!RemoveSource(f)
  /\ UNCHANGED <<fVars, toAdd, spent, kept>>

(* os.Remove(r.SourcePath): the file goes, or is gone, or stays because of *)
(* an error, which is only logged.                                         *)
Cleanup(f) ==
  /\ S!RemoveSource(f)
  /\ \/ /\ F!Unlink(spec[f].path)
        /\ kept' = {r \in kept : r.path # spec[f].path}
     \/ /\ disk[spec[f].path] = NoFile
        /\ UNCHANGED <<fVars, kept>>
     \/ /\ disk[spec[f].path] # NoFile
        /\ kept' = kept \cup ({spec[f]} \cap spent)
        /\ UNCHANGED fVars
  /\ UNCHANGED <<toAdd, spent>>

FireStep(f) ==
  /\ pc[f] \notin {"report", "cleanup"}
  /\ S!Own(f) \/ S!AttemptEnd(f)
  /\ UNCHANGED <<fVars, toAdd, spent, kept>>

Fire(f) == Report(f) \/ Cleanup(f) \/ FireStep(f)

-----------------------------------------------------------------------------
User ==
  /\ edits < MaxUserEdits
  /\ \E p \in Paths :
       /\ F!Unlink(p) \/ \E c \in Contents \cup {Broken} : F!Write(p, c)
       /\ spent' = {r \in spent : r.path # p}
       /\ kept' = {r \in kept : r.path # p}
  /\ UNCHANGED <<sVars, toAdd>>

Main ==
  \/ LoadSpecs \/ ListRoutines \/ (\E n \in Names : AddNext(n))
  \/ StartCron \/ StartWatch \/ Halt \/ Stopping \/ Unsubscribe

Next ==
  \/ Main \/ Deliver \/ WatchEnds \/ Reload \/ FinishReload
  \/ \E f \in Fires : Fire(f) \/ \E id \in S!Ids : Due(f, id)
  \/ User

Spec == Init /\ [][Next]_vars

(* The fairness of FSStore and Scheduler, and adapters that return.        *)
Fairness ==
  /\ WF_vars(Deliver)
  /\ WF_vars(Reload) /\ WF_vars(FinishReload)
  /\ \A f \in Fires : WF_vars(Fire(f))

FairSpec == Spec /\ Fairness

-----------------------------------------------------------------------------
(* Properties. *)

(* Nothing is on its way from the directory to cron. *)
Calm == F!Quiet /\ ctl = S!Idle

Live == {entries[id] : id \in S!Ids} \ {NoSpec}

(* The types of the variables.                                             *)
TypeOK ==
  /\ F!TypeOK /\ S!TypeOK
  /\ toAdd \subseteq Names
  /\ spent \subseteq Specs /\ kept \subseteq spent

Scheduled(n) ==
  IF view[n] # NoRoutine /\ view[n].spec.enabled
  THEN view[n].spec.cronOk =>
         jobs[n] # S!NoId /\ entries[jobs[n]] = SpecOf(view[n].path, view[n].spec)
  ELSE jobs[n] = S!NoId

(* The scheduler is where the loop has taken it: between two reloads a     *)
(* routine has a cron entry exactly if the last event gave it an enabled   *)
(* spec, and the entry is of that spec (if cron accepts it).               *)
ViewScheduled == ctl = S!Idle => \A n \in Names \ toAdd : Scheduled(n)

(* "spec edits take effect without restarting" (docs/cli.md:9), down to    *)
(* cron and with one-shot cleanups among the edits: when nothing is on its *)
(* way cron has the enabled specs on disk whose schedule it accepts, and   *)
(* nothing else but the last good copy of a file that is broken now, or    *)
(* whose new schedule it rejects.                                          *)
DirectoryScheduled ==
  Calm =>
    /\ \A p \in Paths : disk[p] \in Contents =>
         (disk[p].enabled /\ disk[p].cronOk <=> SpecOf(p, disk[p]) \in Live)
    /\ \A r \in Live :
         /\ disk[r.path] # NoFile
         /\ disk[r.path] \in Contents =>
              \/ r = SpecOf(r.path, disk[r.path])
              \/ disk[r.path].enabled /\ ~disk[r.path].cronOk

(* What becomes of a one-shot that has succeeded, its file not written     *)
(* since: cron starts it again only while its removal has yet to be done   *)
(* (Cleanup) or to reach cron, if os.Remove has failed, or if an event was *)
(* dropped (scheduler.go:252: "the fsstore watcher will pick up the file   *)
(* removal and call Remove").                                              *)
OneShotRefires ==
  [][\A f \in Fires :
       pc[f] = "idle" /\ pc'[f] = "spawned" /\ spec'[f] \in spent =>
         \/ ~Calm
         \/ \E g \in Fires : pc[g] = "cleanup" /\ spec[g] = spec'[f]
         \/ spec'[f] \in kept
         \/ dropped]_vars

(* And it is unscheduled, through its file, the stage and the reload loop, *)
(* unless os.Remove fails or the daemon is stopped first.                  *)
OneShotRetired ==
  \A r \in {x \in Specs : x.once /\ x.enabled} :
    r \in spent ~> (r \notin Live \/ r \notin spent \/ r \in kept \/ stage # "watching")

(* docs/spec.md:25 and 84: "Fire once, then delete the spec file."  Once a *)
(* one-shot has succeeded it is not run again unless its file is written   *)
(* again, or os.Remove has failed.  The code does not keep this: neither a *)
(* fire that began before the success nor one that begins before the       *)
(* removal has reached cron looks again whether the routine is still       *)
(* there.                                                                  *)
OneShotOnce ==
  [][\A f \in Fires : pc[f] = "try" /\ pc'[f] = "exec" => spec[f] \notin spent \ kept]_vars

-----------------------------------------------------------------------------
(* The inductive invariant, beside those of FSStore and Scheduler.         *)

(* Main lists, adds, starts cron and watches in this order.                *)
StartOrder ==
  /\ phase # "cli"
  /\ stage \in {"init", "loading"} =>
       /\ phase = "loading" /\ ctl = S!Idle /\ toAdd = {}
       /\ \A n \in Names : view[n] = NoRoutine
  /\ toAdd # {} => stage = "registered" /\ phase = "loading"
  /\ \A n \in toAdd : view[n] # NoRoutine

(* AddOrReplace under way is of the last spec that its name was given.     *)
InstallsView ==
  ctl # S!Idle =>
    LET n == ctl.spec.name IN
      /\ n \in Names \ toAdd
      /\ view[n] # NoRoutine /\ view[n].spec.enabled
      /\ ctl.spec = SpecOf(view[n].path, view[n].spec)

(* Every other name is scheduled already.                                  *)
OthersScheduled ==
  \A n \in Names \ toAdd : ctl = S!Idle \/ n # ctl.spec.name => Scheduled(n)

ReloadInv == StartOrder /\ InstallsView /\ OthersScheduled

(* cron has only what was written to a file and what it accepts.           *)
EntriesWritten ==
  \A id \in S!Ids : entries[id] # NoSpec =>
    /\ entries[id].cronOk
    /\ \E p \in Paths, c \in Contents : <<p, c>> \in Writes /\ entries[id] = SpecOf(p, c)
-----------------------------------------------------------------------------
(* What OneShotRefires rests on: the file of a one-shot that has succeeded *)
(* is gone, about to be removed, or still there as os.Remove failed.       *)
SpentGone ==
  \A r \in spent :
    \/ disk[r.path] = NoFile
    \/ r \in kept
    \/ \E f \in Fires : pc[f] = "cleanup" /\ spec[f] = r
=============================================================================
