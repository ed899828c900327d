------------------------------ MODULE FSStore ------------------------------
(***************************************************************************)
(* internal/store/fsstore.go with the directory it watches and the daemon  *)
(* loop that applies its events: Load, the fsnotify queue, the debounce    *)
(* timers of Watch and their callbacks, the maps behind s.mu, the bounded  *)
(* subscriber channel, and the routines the subscriber has registered.     *)
(* Edits of the directory interleave with all of it.                       *)
(***************************************************************************)
EXTENDS Naturals, Sequences

CONSTANTS
  Paths,       \* YAML files of the directory, numbered in ReadDir order
  Names,       \* routine names
  Specs,       \* file contents that parse and validate
  Broken,      \* a file content that does not
  NoFile,      \* the file does not exist
  NoRoutine,   \* no routine under that name
  NoName,      \* the path is not in pathMap
  Writes,      \* the (path, content) pairs an edit may write
  Moves,       \* the (from, to) pairs a rename may move
  EarlyEdits,  \* may the directory change before it is watched?
  Prompt,      \* is a callback done before its path's next timer fires?
  ChanCap,     \* capacity of a subscriber's channel (16 in the code)
  MaxEdits     \* bound: edits in one behaviour

ASSUME FilesAssumption ==
  /\ Paths \subseteq Nat \ {0}
  /\ \A c \in Specs : c.name \in Names
  /\ NoName \notin Names
  /\ Broken \notin Specs /\ NoFile \notin Specs \cup {Broken}
  /\ Writes \subseteq Paths \X (Specs \cup {Broken})
  /\ Moves \subseteq Paths \X Paths

(* With room for two events, the two that one loadFile may publish are one *)
(* step: a receive between them could as well come after them.             *)
ASSUME BoundsAssumption ==
  /\ EarlyEdits \in BOOLEAN /\ Prompt \in BOOLEAN
  /\ ChanCap \in Nat \ {0, 1}
  /\ MaxEdits \in Nat

VARIABLES
  disk,      \* disk[p]: the content of file p
  edits,     \* edits made so far
  stage,     \* see Stages
  todo,      \* files Load still has to read
  queue,     \* w.Events: what fsnotify has seen and Watch has not
  timers,    \* timers[p]: the id of the timer in Watch's map, or 0
  lastTimer, \* the id of the newest timer
  armed,     \* the timers that have neither fired nor been stopped
  callbacks, \* the timers that have fired, each in its goroutine
  routines,  \* routines[n]: the loaded routine n
  pathMap,   \* pathMap[p]: the name last loaded from p
  errors,    \* the files whose last load failed
  chan,      \* the subscriber's channel
  dropped,   \* has publish dropped an event?
  view       \* view[n]: what the daemon last passed to the scheduler for n

storeVars == <<routines, pathMap, errors>>
timerVars == <<timers, lastTimer, armed>>
fileVars  == <<disk, edits>>
vars == <<fileVars, stage, todo, queue, timerVars, callbacks, storeVars,
          chan, dropped, view>>

(* Load has not run, Load reads files, its routines are registered, Watch  *)
(* runs, Watch has returned, the subscription is canceled.                 *)
Stages == {"init", "loading", "registered", "watching", "stopped", "unsubscribed"}

(* A *spec.Routine: what was parsed, and its SourcePath.                   *)
Routine(p, c) == [path |-> p, spec |-> c]
Routines == [path : Paths, spec : Specs]

Timers == [id : Nat \ {0}, path : Paths, removed : BOOLEAN]

(* at: about to read or lock; about to lock with what ParseFile read; done *)
(* but for its entry in the timers map.                                    *)
Callbacks == [timer : Timers, at : {"start", "parsed", "forget"},
              read : Specs \cup {Broken, NoFile}]

(* An event's routine is NoRoutine for a delete.  EventAdd and EventUpdate *)
(* are one kind, as the subscriber makes no difference; an update with an  *)
(* error has no name.                                                      *)
Events == [name : Names \cup {NoName}, routine : Routines \cup {NoRoutine}]
Put(r)    == [name |-> r.spec.name, routine |-> r]
Delete(n) == [name |-> n, routine |-> NoRoutine]
Failure   == [name |-> NoName, routine |-> NoRoutine]

Init ==
  /\ disk \in [Paths -> Specs \cup {Broken, NoFile}]
  /\ \A p \in Paths : disk[p] = NoFile \/ <<p, disk[p]>> \in Writes
  /\ edits = 0
  /\ stage = "init"
  /\ todo = {}
  /\ queue = <<>>
  /\ timers = [p \in Paths |-> 0]
  /\ lastTimer = 0
  /\ armed = {}
  /\ callbacks = {}
  /\ routines = [n \in Names |-> NoRoutine]
  /\ pathMap = [p \in Paths |-> NoName]
  /\ errors = {}
  /\ chan = <<>>
  /\ dropped = FALSE
  /\ view = [n \in Names |-> NoRoutine]

-----------------------------------------------------------------------------
(* The directory: an editor, `routines add|enable|disable`, the one-shot   *)
(* cleanup.  fsnotify queues what happens once the directory is watched.   *)

Edit(disk2, seen) ==
  /\ edits < MaxEdits
  /\ edits' = edits + 1
  /\ disk' = disk2
  /\ \/ stage = "watching" /\ queue' = queue \o seen
     \/ stage \in {"stopped", "unsubscribed"} /\ UNCHANGED queue
     \/ stage \in {"init", "loading", "registered"} /\ EarlyEdits /\ UNCHANGED queue
  /\ UNCHANGED <<stage, todo, timerVars, callbacks, storeVars, chan, dropped, view>>

Sightings == [path : Paths, removed : BOOLEAN]
Seen(p, gone) == [path |-> p, removed |-> gone]

(* Create or Write; a truncating write is one of Broken before the real one. *)
Write(p, c) ==
  /\ <<p, c>> \in Writes
  /\ disk[p] # c
  /\ Edit([disk EXCEPT ![p] = c], <<Seen(p, FALSE)>>)

Unlink(p) ==
  /\ disk[p] # NoFile
  /\ Edit([disk EXCEPT ![p] = NoFile], <<Seen(p, TRUE)>>)

Rename(p, q) ==
  /\ <<p, q>> \in Moves
  /\ p # q
  /\ disk[p] # NoFile
  /\ Edit([disk EXCEPT ![p] = NoFile, ![q] = disk[p]],
          <<Seen(p, TRUE), Seen(q, FALSE)>>)

-----------------------------------------------------------------------------
(* The store's two writers.  Both hold s.mu throughout, publish included.  *)

(* Seeded bug: the send does not look for room. *)
OfferAlways(c, e) == Append(c, e)

(* A non-blocking send: a full channel drops the event.                    *)
Offer(c, e) == IF Len(c) < ChanCap THEN Append(c, e) ELSE c

Subscribed == stage \in {"watching", "stopped"}

Publish1(e) ==
  IF Subscribed
  THEN chan' = Offer(chan, e) /\ dropped' = (dropped \/ Len(chan) >= ChanCap)
  ELSE UNCHANGED <<chan, dropped>>

Publish2(d, e) ==
  IF Subscribed
  THEN /\ chan' = Offer(Offer(chan, d), e)
       /\ dropped' = (dropped \/ Len(chan) + 1 >= ChanCap)
  ELSE UNCHANGED <<chan, dropped>>

(* Seeded bug: a name change leaves the old name's routine loaded.         *)
StoreSpecKeepingOldName(p, c) ==
  /\ errors' = errors \ {p}
  /\ pathMap' = [pathMap EXCEPT ![p] = c.name]
  /\ routines' = [routines EXCEPT ![c.name] = Routine(p, c)]
  /\ Publish1(Put(Routine(p, c)))

(* Seeded bug: a name change does not tell the subscriber.                 *)
StoreSpecSilentRename(p, c) ==
  /\ errors' = errors \ {p}
  /\ pathMap' = [pathMap EXCEPT ![p] = c.name]
  /\ routines' = [n \in Names |-> IF n = c.name THEN Routine(p, c)
                                  ELSE IF n = pathMap[p] THEN NoRoutine
                                  ELSE routines[n]]
  /\ Publish1(Put(Routine(p, c)))

(* loadFile with content c that parsed: a name change in the file drops    *)
(* the old name's routine, wherever that was loaded from.                  *)
StoreSpec(p, c) ==
  /\ errors' = errors \ {p}
  /\ pathMap' = [pathMap EXCEPT ![p] = c.name]
  /\ \/ /\ pathMap[p] \in {NoName, c.name}
        /\ routines' = [routines EXCEPT ![c.name] = Routine(p, c)]
        /\ Publish1(Put(Routine(p, c)))
     \/ /\ pathMap[p] \notin {NoName, c.name}
        /\ routines' = [routines EXCEPT ![pathMap[p]] = NoRoutine,
                                        ![c.name] = Routine(p, c)]
        /\ Publish2(Delete(pathMap[p]), Put(Routine(p, c)))

(* loadFile: a file that does not parse, or is gone, keeps the previous    *)
(* good copy.                                                              *)
LoadFile(p, c) ==
  \/ /\ c \in Specs
     /\ StoreSpec(p, c)
  \/ /\ c \notin Specs
     /\ errors' = errors \cup {p}
     /\ Publish1(Failure)
     /\ UNCHANGED <<routines, pathMap>>

(* Seeded bug: deleteFile leaves the path in pathMap and the routine with it. *)
DeleteFileKeeping(p) ==
  /\ errors' = errors \ {p}
  /\ UNCHANGED <<routines, pathMap, chan, dropped>>

DeleteFile(p) ==
  /\ errors' = errors \ {p}
  /\ pathMap' = [pathMap EXCEPT ![p] = NoName]
  /\ \/ pathMap[p] = NoName /\ UNCHANGED <<routines, chan, dropped>>
     \/ /\ pathMap[p] # NoName
        /\ routines' = [routines EXCEPT ![pathMap[p]] = NoRoutine]
        /\ Publish1(Delete(pathMap[p]))

-----------------------------------------------------------------------------
(* Start-up: Load reads the files ReadDir listed, main registers them,     *)
(* subscribes and starts Watch.                                            *)

ReadDir ==
  /\ stage = "init"
  /\ stage' = "loading"
  /\ todo' = {p \in Paths : disk[p] # NoFile}
  /\ UNCHANGED <<fileVars, queue, timerVars, callbacks, storeVars, chan, dropped, view>>

LoadNext(p) ==
  /\ stage = "loading"
  /\ p \in todo
  /\ \A q \in todo : p <= q
  /\ todo' = todo \ {p}
  /\ LoadFile(p, disk[p])
  /\ UNCHANGED <<fileVars, stage, queue, timerVars, callbacks, view>>

Register ==
  /\ stage = "loading"
  /\ todo = {}
  /\ stage' = "registered"
  /\ view' = routines
  /\ UNCHANGED <<fileVars, todo, queue, timerVars, callbacks, storeVars, chan, dropped>>

(* Subscribe, then w.Add in Watch: nothing publishes in between. *)
StartWatch ==
  /\ stage = "registered"
  /\ stage' = "watching"
  /\ UNCHANGED <<fileVars, todo, queue, timerVars, callbacks, storeVars, chan,
                 dropped, view>>

-----------------------------------------------------------------------------
(* Watch. *)

(* The select takes an fsnotify event; schedule stops the path's timer, if *)
(* it has not fired yet, and installs a new one.                           *)
Schedule ==
  /\ stage = "watching"
  /\ queue # <<>>
  /\ LET e == Head(queue)
         t == [id |-> lastTimer + 1, path |-> e.path, removed |-> e.removed]
     IN  /\ timers' = [timers EXCEPT ![e.path] = t.id]
         /\ armed' = {u \in armed : u.id # timers[e.path]} \cup {t}
  /\ lastTimer' = lastTimer + 1
  /\ queue' = Tail(queue)
  /\ UNCHANGED <<fileVars, stage, todo, callbacks, storeVars, chan, dropped, view>>

(* Seeded bug: a ticker in place of a one-shot timer. *)
TimerFiresAgain(t) ==
  /\ t \in armed
  /\ Prompt => \A cb \in callbacks : cb.timer.path # t.path
  /\ callbacks' = callbacks \cup {[timer |-> t, at |-> "start", read |-> NoFile]}
  /\ UNCHANGED <<fileVars, stage, todo, queue, timerVars, storeVars, chan, dropped, view>>

(* The debounce interval is over: the callback gets a goroutine.           *)
TimerFires(t) ==
  /\ t \in armed
  /\ Prompt => \A cb \in callbacks : cb.timer.path # t.path
  /\ armed' = armed \ {t}
  /\ callbacks' = callbacks \cup {[timer |-> t, at |-> "start", read |-> NoFile]}
  /\ UNCHANGED <<fileVars, stage, todo, queue, timers, lastTimer, storeVars, chan,
                 dropped, view>>

Advance(cb, at, read) ==
  callbacks' = (callbacks \ {cb}) \cup {[cb EXCEPT !.at = at, !.read = read]}

(* ParseFile and Validate, before s.mu is taken. *)
ParseFile(cb) ==
  /\ cb.at = "start"
  /\ ~cb.timer.removed
  /\ Advance(cb, "parsed", disk[cb.timer.path])
  /\ UNCHANGED <<fileVars, stage, todo, queue, timerVars, storeVars, chan, dropped, view>>

(* The section of loadFile or deleteFile under s.mu. *)
Apply(cb) ==
  /\ \/ cb.at = "parsed" /\ LoadFile(cb.timer.path, cb.read)
     \/ cb.at = "start" /\ cb.timer.removed /\ DeleteFile(cb.timer.path)
  /\ Advance(cb, "forget", NoFile)
  /\ UNCHANGED <<fileVars, stage, todo, queue, timerVars, view>>

(* Seeded bug: the callback does not check that the entry is its own. *)
ForgetAny(cb) ==
  /\ cb.at = "forget"
  /\ timers' = [timers EXCEPT ![cb.timer.path] = 0]
  /\ callbacks' = callbacks \ {cb}
  /\ UNCHANGED <<fileVars, stage, todo, queue, lastTimer, armed, storeVars, chan,
                 dropped, view>>

(* The callback deletes its own entry of the timers map. *)
Forget(cb) ==
  /\ cb.at = "forget"
  /\ timers' = [timers EXCEPT ![cb.timer.path] = IF @ = cb.timer.id THEN 0 ELSE @]
  /\ callbacks' = callbacks \ {cb}
  /\ UNCHANGED <<fileVars, stage, todo, queue, lastTimer, armed, storeVars, chan,
                 dropped, view>>

(* The context is canceled, or the watcher reports an error or closes:     *)
(* drainTimers stops the timers in the map, and the daemon shuts down.     *)
WatchEnds ==
  /\ stage = "watching"
  /\ stage' = "stopped"
  /\ armed' = {t \in armed : t.id # timers[t.path]}
  /\ timers' = [p \in Paths |-> 0]
  /\ UNCHANGED <<fileVars, todo, queue, lastTimer, callbacks, storeVars, chan,
                 dropped, view>>

-----------------------------------------------------------------------------
(* The subscriber. *)

(* The daemon's loop over events: AddOrReplace, Remove, or a message about *)
(* a spec that failed.  A closed channel is still drained.                 *)
Receive ==
  /\ chan # <<>>
  /\ chan' = Tail(chan)
  /\ view' = [n \in Names |-> IF n = Head(chan).name THEN Head(chan).routine
                              ELSE view[n]]
  /\ UNCHANGED <<fileVars, stage, todo, queue, timerVars, callbacks, storeVars, dropped>>

(* The deferred unsub of the daemon, after Stop. *)
Unsubscribe ==
  /\ stage = "stopped"
  /\ stage' = "unsubscribed"
  /\ UNCHANGED <<fileVars, todo, queue, timerVars, callbacks, storeVars, chan,
                 dropped, view>>

User ==
  \/ \E p \in Paths, c \in Specs \cup {Broken} : Write(p, c)
  \/ \E p \in Paths : Unlink(p)
  \/ \E p, q \in Paths : Rename(p, q)

Startup == ReadDir \/ (\E p \in Paths : LoadNext(p)) \/ Register \/ StartWatch

Callback == \E cb \in callbacks : ParseFile(cb) \/ Apply(cb) \/ Forget(cb)

Watch == Schedule \/ (\E t \in armed : TimerFires(t)) \/ WatchEnds

Next == User \/ Startup \/ Watch \/ Callback \/ Receive \/ Unsubscribe

Spec == Init /\ [][Next]_vars

(* The runtime runs every goroutine that can run and every timer expires;  *)
(* nobody has to edit a file or end the daemon.                            *)
Fairness ==
  /\ WF_vars(Startup)
  /\ WF_vars(Schedule)
  /\ WF_vars(\E t \in armed : TimerFires(t))
  /\ WF_vars(Callback)
  /\ WF_vars(Receive)

FairSpec == Spec /\ Fairness

-----------------------------------------------------------------------------
(* Properties. *)

(* The types of the variables.                                             *)
TypeOK ==
  /\ disk \in [Paths -> Specs \cup {Broken, NoFile}]
  /\ edits \in 0 .. MaxEdits
  /\ stage \in Stages
  /\ todo \subseteq Paths
  /\ queue \in Seq(Sightings)
  /\ timers \in [Paths -> Nat]
  /\ lastTimer \in Nat
  /\ armed \subseteq Timers
  /\ callbacks \subseteq Callbacks
  /\ routines \in [Names -> Routines \cup {NoRoutine}]
  /\ pathMap \in [Paths -> Names \cup {NoName}]
  /\ errors \subseteq Paths
  /\ chan \in Seq(Events) /\ Len(chan) <= ChanCap
  /\ dropped \in BOOLEAN
  /\ view \in [Names -> Routines \cup {NoRoutine}]

(* A loaded routine can always be unloaded through the file it came from:  *)
(* pathMap of its SourcePath is its name, whatever files were renamed,     *)
(* exchanged or rewritten under another name (deleteFile and the one-shot  *)
(* cleanup rely on it).                                                    *)
NoOrphan ==
  \A n \in Names : routines[n] # NoRoutine =>
    routines[n].spec.name = n /\ pathMap[routines[n].path] = n

(* A timer that can still fire is the one in the timers map: schedule      *)
(* stops the timer it replaces and drainTimers all of them, although a     *)
(* callback of an earlier timer deletes from the map concurrently.         *)
TimersOwned == \A t \in armed : timers[t.path] = t.id

(* Unless an event was dropped, what the daemon has registered and what is *)
(* still in the channel add up to the store: for each name the last event  *)
(* in the channel, or what is registered, is the store's routine.          *)
Follows(c, v, rs) ==
  \A n \in Names :
    \/ /\ v[n] = rs[n]
       /\ \A i \in 1 .. Len(c) : c[i].name # n
    \/ \E i \in 1 .. Len(c) :
         /\ c[i].name = n /\ c[i].routine = rs[n]
         /\ \A j \in 1 .. Len(c) : c[j].name = n => j <= i

ViewFollowsStore == Subscribed /\ ~dropped => Follows(chan, view, routines)

(* Nothing is on its way from the directory to the scheduler.              *)
Quiet ==
  /\ stage = "watching"
  /\ queue = <<>> /\ armed = {} /\ callbacks = {} /\ chan = <<>>

(* "spec edits take effect without restarting" (docs/cli.md:9): when all   *)
(* is quiet, a valid file is registered with its present content, nothing  *)
(* is registered from a file that is gone, and the load errors are those   *)
(* of the files that are broken.                                           *)
EditsTakeEffect ==
  Quiet =>
    /\ \A p \in Paths : disk[p] \in Specs => view[disk[p].name] = Routine(p, disk[p])
    /\ \A n \in Names : view[n] # NoRoutine => disk[view[n].path] # NoFile
    /\ errors = {p \in Paths : disk[p] = Broken}

(* And all becomes quiet: an edit is followed by a quiet moment, unless    *)
(* the daemon is stopped before it.                                        *)
Settles == queue # <<>> ~> (Quiet \/ stage # "watching")

-----------------------------------------------------------------------------
(* The inductive invariant. *)

(* No two timers that may still act have one id, so that an id in the      *)
(* timers map tells a callback whether the entry is its own.               *)
TimerIds ==
  /\ \A t \in armed : t.id <= lastTimer
  /\ \A t, u \in armed : t.id = u.id => t = u
  /\ \A cb \in callbacks :
       cb.timer.id <= lastTimer /\ \A t \in armed : t.id # cb.timer.id

(* Nothing moves before Watch, and main has registered what Load found.    *)
StartInv ==
  /\ stage \in {"init", "loading", "registered"} =>
       chan = <<>> /\ armed = {} /\ callbacks = {}
  /\ stage = "registered" => view = routines

(* A routine is announced and registered under its own name.               *)
EventsNamed ==
  /\ \A i \in 1 .. Len(chan) :
       chan[i].routine # NoRoutine => chan[i].name = chan[i].routine.spec.name
  /\ \A n \in Names : view[n] # NoRoutine => view[n].spec.name = n

(* The parts together are preserved by every step.                         *)
Inv ==
  /\ TypeOK /\ NoOrphan /\ TimersOwned /\ TimerIds /\ StartInv
  /\ ViewFollowsStore /\ EventsNamed
-----------------------------------------------------------------------------
(* What EditsTakeEffect rests on.                                          *)

(* No two files are ever written under one name, nothing is renamed, the   *)
(* directory does not change before it is watched, and a callback is done  *)
(* within the debounce interval that its path's next timer waits.          *)
Orderly ==
  /\ ~EarlyEdits /\ Prompt /\ Moves = {}
  /\ \A w, x \in Writes :
       w[2] \in Specs /\ x[2] \in Specs /\ w[2].name = x[2].name => w[1] = x[1]

Written(r) == <<r.path, r.spec>> \in Writes
Gone(p) == disk[p] = NoFile

(* Whatever was read from a file was written to that file.                 *)
FromWrites ==
  /\ \A p \in Paths : Gone(p) \/ <<p, disk[p]>> \in Writes
  /\ \A cb \in callbacks : cb.read = NoFile \/ <<cb.timer.path, cb.read>> \in Writes
  /\ \A p \in Paths : pathMap[p] # NoName =>
       \E c \in Specs : <<p, c>> \in Writes /\ c.name = pathMap[p]
  /\ \A n \in Names : routines[n] # NoRoutine => Written(routines[n])
  /\ \A n \in Names : view[n] # NoRoutine => Written(view[n])
  /\ \A i \in 1 .. Len(chan) : chan[i].routine # NoRoutine => Written(chan[i].routine)

(* The last sighting of p in queue q; and there is none.                   *)
Sighted(q, p, gone) ==
  \E i \in 1 .. Len(q) :
    /\ q[i] = Seen(p, gone)
    /\ \A j \in 1 .. Len(q) : q[j].path = p => j <= i

Unseen(q, p) == \A i \in 1 .. Len(q) : q[i].path # p

(* The maps have what file p has now.                                      *)
Stored(p) ==
  /\ disk[p] \in Specs =>
       /\ pathMap[p] = disk[p].name
       /\ routines[disk[p].name] = Routine(p, disk[p])
  /\ Gone(p) => pathMap[p] = NoName
  /\ p \in errors <=> disk[p] = Broken

(* A callback that is about to store what its file has now.                *)
Fresh(cb) ==
  LET p == cb.timer.path IN
    \/ cb.at = "start" /\ cb.timer.removed = Gone(p)
    \/ cb.at = "parsed" /\ ~Gone(p) /\ cb.read = disk[p]

(* The newest of what is under way for p, in the queue, in a timer or in a *)
(* callback, knows the present state of p; if nothing is, the maps do.     *)
Tracked(p) ==
  \/ Sighted(queue, p, Gone(p))
  \/ /\ Unseen(queue, p)
     /\ \/ \E t \in armed : t.path = p /\ t.removed = Gone(p)
        \/ /\ \A t \in armed : t.path # p
           /\ \/ \E cb \in callbacks : cb.timer.path = p /\ Fresh(cb)
              \/ /\ \A cb \in callbacks : cb.timer.path = p => cb.at = "forget"
                 /\ Stored(p)

(* No two paths have one timer id in the map, and no path two callbacks.   *)
OneTimer ==
  /\ \A p \in Paths : timers[p] <= lastTimer
  /\ \A p, q \in Paths : timers[p] = timers[q] /\ timers[p] # 0 => p = q
  /\ \A cb, d \in callbacks : cb.timer.path = d.timer.path => cb = d

(* From the start to the end of Watch no file is lost sight of.            *)
NoneLost ==
  /\ stage \in {"init", "loading", "registered"} => queue = <<>>
  /\ stage = "init" => errors = {} /\ \A p \in Paths : pathMap[p] = NoName
  /\ stage = "loading" =>
       \A p \in Paths : IF p \in todo THEN ~Gone(p) ELSE Stored(p)
  /\ stage = "registered" => \A p \in Paths : Stored(p)
  /\ stage = "watching" => \A p \in Paths : Tracked(p)

EditsInv == FromWrites /\ OneTimer /\ NoneLost
=============================================================================
