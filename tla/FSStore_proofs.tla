--------------------------- MODULE FSStore_proofs ---------------------------
(***************************************************************************)
(* Proofs, for any files, names, edits and channel capacity, that a loaded *)
(* routine is never cut off from its file, that draining the timers leaves *)
(* none, that the subscriber follows the store until an event is dropped,  *)
(* and that edits of an orderly directory take effect.                     *)
(***************************************************************************)
EXTENDS FSStore, TLAPS

(* What an edit or a load may store.                                       *)
Contents == Specs \cup {Broken, NoFile}

(* Nothing is loaded, armed or subscribed at the start.                    *)
LEMMA InitInv == Init => Inv
<1> SUFFICES ASSUME Init PROVE Inv
  OBVIOUS
<1>1. TypeOK
  <2>1. 0 \in 0 .. MaxEdits /\ Len(chan) <= ChanCap
    BY BoundsAssumption DEF Init
  <2>2. queue \in Seq(Sightings) /\ chan \in Seq(Events)
    BY DEF Init
  <2> QED BY <2>1, <2>2 DEF Init, TypeOK, Stages
<1>2. NoOrphan /\ TimersOwned /\ TimerIds /\ StartInv /\ ViewFollowsStore /\ EventsNamed
  BY DEF Init, NoOrphan, TimersOwned, TimerIds, StartInv, ViewFollowsStore, EventsNamed,
     Subscribed
<1> QED BY <1>1, <1>2 DEF Inv

(* A send keeps the channel within its capacity.                           *)
LEMMA OfferType ==
  ASSUME NEW c \in Seq(Events), Len(c) <= ChanCap, NEW e \in Events
  PROVE  Offer(c, e) \in Seq(Events) /\ Len(Offer(c, e)) <= ChanCap
BY BoundsAssumption DEF Offer

(* Publishing keeps the types of the channel and of the drop flag.         *)
LEMMA Publish1Type ==
  ASSUME TypeOK, NEW e \in Events, Publish1(e)
  PROVE  chan' \in Seq(Events) /\ Len(chan') <= ChanCap /\ dropped' \in BOOLEAN
BY OfferType DEF Publish1, TypeOK

(* The same of two events.                                                 *)
LEMMA Publish2Type ==
  ASSUME TypeOK, NEW d \in Events, NEW e \in Events, Publish2(d, e)
  PROVE  chan' \in Seq(Events) /\ Len(chan') <= ChanCap /\ dropped' \in BOOLEAN
<1>1. CASE Subscribed
  <2>1. Offer(chan, d) \in Seq(Events) /\ Len(Offer(chan, d)) <= ChanCap
    BY OfferType DEF TypeOK
  <2> QED BY <1>1, <2>1, OfferType DEF Publish2
<1>2. CASE ~Subscribed
  BY <1>2 DEF Publish2, TypeOK
<1> QED BY <1>1, <1>2

(* The events are events.                                                  *)
LEMMA EventTypes ==
  /\ Failure \in Events
  /\ \A n \in Names : Delete(n) \in Events
  /\ \A p \in Paths, c \in Specs : Put(Routine(p, c)) \in Events /\ Routine(p, c) \in Routines
BY FilesAssumption DEF Failure, Delete, Put, Routine, Events, Routines

(* loadFile and deleteFile keep the types of the maps and of the channel.  *)
LEMMA LoadFileType ==
  ASSUME TypeOK, NEW p \in Paths, NEW c \in Contents, LoadFile(p, c)
  PROVE  /\ routines' \in [Names -> Routines \cup {NoRoutine}]
         /\ pathMap' \in [Paths -> Names \cup {NoName}]
         /\ errors' \subseteq Paths
         /\ chan' \in Seq(Events) /\ Len(chan') <= ChanCap /\ dropped' \in BOOLEAN
<1>1. CASE c \notin Specs
  BY <1>1, EventTypes, Publish1Type DEF LoadFile, TypeOK
<1>2. CASE c \in Specs
  <2>1. StoreSpec(p, c) /\ c.name \in Names
    BY <1>2, FilesAssumption DEF LoadFile
  <2>2. pathMap' \in [Paths -> Names \cup {NoName}] /\ errors' \subseteq Paths
    BY <2>1 DEF StoreSpec, TypeOK
  <2>4. routines' \in [Names -> Routines \cup {NoRoutine}]
    <3>1. Routine(p, c) \in Routines /\ routines \in [Names -> Routines \cup {NoRoutine}]
      BY <1>2, EventTypes DEF TypeOK
    <3>2. \/ routines' = [routines EXCEPT ![c.name] = Routine(p, c)]
          \/ routines' = [routines EXCEPT ![pathMap[p]] = NoRoutine, ![c.name] = Routine(p, c)]
      BY <2>1 DEF StoreSpec
    <3> QED BY <3>1, <3>2
  <2>3. chan' \in Seq(Events) /\ Len(chan') <= ChanCap /\ dropped' \in BOOLEAN
    BY <1>2, <2>1, EventTypes, Publish1Type, Publish2Type DEF StoreSpec, TypeOK
  <2> QED BY <2>2, <2>3, <2>4
<1> QED BY <1>1, <1>2

(* Unloading a file keeps the maps' types.                                 *)
LEMMA DeleteFileType ==
  ASSUME TypeOK, NEW p \in Paths, DeleteFile(p)
  PROVE  /\ routines' \in [Names -> Routines \cup {NoRoutine}]
         /\ pathMap' \in [Paths -> Names \cup {NoName}]
         /\ errors' \subseteq Paths
         /\ chan' \in Seq(Events) /\ Len(chan') <= ChanCap /\ dropped' \in BOOLEAN
<1>1. /\ routines' \in [Names -> Routines \cup {NoRoutine}]
      /\ pathMap' \in [Paths -> Names \cup {NoName}]
      /\ errors' \subseteq Paths
  BY DEF DeleteFile, TypeOK
<1>2. chan' \in Seq(Events) /\ Len(chan') <= ChanCap /\ dropped' \in BOOLEAN
  BY EventTypes, Publish1Type DEF DeleteFile, TypeOK
<1> QED BY <1>1, <1>2

(* Sequences of elements of S.                                             *)
LEMMA PairSeq == ASSUME NEW S, NEW a \in S, NEW b \in S PROVE <<a, b>> \in Seq(S)
OBVIOUS

(* Sequences over one set put together are one over it.                    *)
LEMMA ConcatSeq ==
  ASSUME NEW S, NEW s \in Seq(S), NEW t \in Seq(S) PROVE s \o t \in Seq(S)
OBVIOUS

(* Every step keeps the types.                                             *)
LEMMA TypeStep == TypeOK /\ [Next]_vars => TypeOK'
<1> SUFFICES ASSUME TypeOK, [Next]_vars PROVE TypeOK'
  OBVIOUS
<1>1. ASSUME User PROVE TypeOK'
  <2>1. PICK disk2, seen : /\ Edit(disk2, seen)
                           /\ disk2 \in [Paths -> Contents]
                           /\ seen \in Seq(Sightings)
    <3>1. ASSUME NEW p \in Paths, NEW c \in Specs \cup {Broken}, Write(p, c)
          PROVE  /\ Edit([disk EXCEPT ![p] = c], <<Seen(p, FALSE)>>)
                 /\ [disk EXCEPT ![p] = c] \in [Paths -> Contents]
                 /\ <<Seen(p, FALSE)>> \in Seq(Sightings)
      BY <3>1 DEF Write, TypeOK, Contents, Seen, Sightings
    <3>2. ASSUME NEW p \in Paths, Unlink(p)
          PROVE  /\ Edit([disk EXCEPT ![p] = NoFile], <<Seen(p, TRUE)>>)
                 /\ [disk EXCEPT ![p] = NoFile] \in [Paths -> Contents]
                 /\ <<Seen(p, TRUE)>> \in Seq(Sightings)
      BY <3>2 DEF Unlink, TypeOK, Contents, Seen, Sightings
    <3>3. ASSUME NEW p \in Paths, NEW q \in Paths, Rename(p, q)
          PROVE  /\ Edit([disk EXCEPT ![p] = NoFile, ![q] = disk[p]],
                          <<Seen(p, TRUE), Seen(q, FALSE)>>)
                 /\ [disk EXCEPT ![p] = NoFile, ![q] = disk[p]] \in [Paths -> Contents]
                 /\ <<Seen(p, TRUE), Seen(q, FALSE)>> \in Seq(Sightings)
      <4>1. Seen(p, TRUE) \in Sightings /\ Seen(q, FALSE) \in Sightings
        BY DEF Seen, Sightings
      <4>2. <<Seen(p, TRUE), Seen(q, FALSE)>> \in Seq(Sightings)
        BY <4>1, PairSeq
      <4>3. disk \in [Paths -> Contents] /\ NoFile \in Contents
        BY DEF TypeOK, Contents
      <4>4. [disk EXCEPT ![p] = NoFile, ![q] = disk[p]] \in [Paths -> Contents]
        BY <4>3
      <4> QED BY <3>3, <4>2, <4>4 DEF Rename
    <3> QED BY <1>1, <3>1, <3>2, <3>3 DEF User
  <2>2. edits' \in 0 .. MaxEdits
    BY <2>1, BoundsAssumption DEF Edit, TypeOK
  <2>3. queue' \in Seq(Sightings)
    <3>1. queue \in Seq(Sightings) /\ (queue' = queue \o seen \/ queue' = queue)
      BY <2>1 DEF Edit, TypeOK
    <3> QED BY <2>1, <3>1, ConcatSeq
  <2> QED BY <2>1, <2>2, <2>3 DEF Edit, TypeOK, Contents, timerVars, storeVars
<1>2. ASSUME Startup PROVE TypeOK'
  <2>1. ASSUME NEW p \in Paths, LoadNext(p) PROVE TypeOK'
    <3>1. disk[p] \in Contents
      BY DEF TypeOK, Contents
    <3>2. LoadFile(p, disk[p])
      BY <2>1 DEF LoadNext
    <3>3. /\ routines' \in [Names -> Routines \cup {NoRoutine}]
          /\ pathMap' \in [Paths -> Names \cup {NoName}]
          /\ errors' \subseteq Paths
          /\ chan' \in Seq(Events) /\ Len(chan') <= ChanCap /\ dropped' \in BOOLEAN
      BY <3>1, <3>2, LoadFileType
    <3> QED BY <2>1, <3>3 DEF LoadNext, TypeOK, fileVars, timerVars
  <2>2. CASE ReadDir \/ Register \/ StartWatch
    BY <2>2 DEF ReadDir, Register, StartWatch, TypeOK, Stages, fileVars, timerVars, storeVars
  <2> QED BY <1>2, <2>1, <2>2 DEF Startup
<1>3. ASSUME Schedule PROVE TypeOK'
  <2> DEFINE e == Head(queue)
             t == [id |-> lastTimer + 1, path |-> e.path, removed |-> e.removed]
  <2>1. e \in Sightings /\ Tail(queue) \in Seq(Sightings)
    <3>1. queue \in Seq(Sightings) /\ queue # <<>>
      BY <1>3 DEF Schedule, TypeOK
    <3> QED BY <3>1
  <2>2. lastTimer + 1 \in Nat \ {0}
    BY DEF TypeOK
  <2>3. t \in Timers /\ timers' \in [Paths -> Nat] /\ lastTimer' \in Nat
    BY <1>3, <2>1, <2>2 DEF Schedule, TypeOK, Timers, Sightings
  <2>4. armed' \subseteq Timers
    BY <1>3, <2>3 DEF Schedule, TypeOK
  <2> QED BY <1>3, <2>1, <2>3, <2>4 DEF Schedule, TypeOK, fileVars, storeVars
<1>4. ASSUME NEW t \in armed, TimerFires(t) PROVE TypeOK'
  <2>1. [timer |-> t, at |-> "start", read |-> NoFile] \in Callbacks
    BY DEF TypeOK, Callbacks
  <2> QED BY <1>4, <2>1 DEF TimerFires, TypeOK, fileVars, storeVars
<1>5. CASE WatchEnds
  BY <1>5 DEF WatchEnds, TypeOK, Stages, fileVars, storeVars
<1>6. ASSUME NEW cb \in callbacks, ParseFile(cb) \/ Apply(cb) \/ Forget(cb) PROVE TypeOK'
  <2>1. cb \in Callbacks /\ cb.timer \in Timers /\ cb.timer.path \in Paths
    BY DEF TypeOK, Callbacks, Timers
  <2>2. ASSUME NEW at \in {"parsed", "forget"}, NEW c \in Contents, Advance(cb, at, c)
        PROVE  callbacks' \subseteq Callbacks
    BY <2>1, <2>2 DEF Advance, TypeOK, Callbacks, Contents
  <2>3. CASE ParseFile(cb)
    <3>1. disk[cb.timer.path] \in Contents
      BY <2>1 DEF TypeOK, Contents
    <3> QED BY <2>2, <2>3, <3>1 DEF ParseFile, TypeOK, fileVars, timerVars, storeVars
  <2>4. CASE Apply(cb)
    <3>1. cb.read \in Contents
      BY <2>1 DEF Callbacks, Contents
    <3>2. /\ routines' \in [Names -> Routines \cup {NoRoutine}]
          /\ pathMap' \in [Paths -> Names \cup {NoName}]
          /\ errors' \subseteq Paths
          /\ chan' \in Seq(Events) /\ Len(chan') <= ChanCap /\ dropped' \in BOOLEAN
      BY <2>1, <2>4, <3>1, LoadFileType, DeleteFileType DEF Apply
    <3>3. callbacks' \subseteq Callbacks
      BY <2>2, <2>4 DEF Apply, Contents
    <3> QED BY <2>4, <3>2, <3>3 DEF Apply, TypeOK, fileVars, timerVars
  <2>5. CASE Forget(cb)
    BY <2>5 DEF Forget, TypeOK, fileVars, storeVars
  <2> QED BY <1>6, <2>3, <2>4, <2>5
<1>7. CASE Receive
  <2>1. Head(chan) \in Events /\ Tail(chan) \in Seq(Events) /\ Len(Tail(chan)) <= ChanCap
    BY <1>7, BoundsAssumption DEF Receive, TypeOK
  <2> QED BY <1>7, <2>1 DEF Receive, TypeOK, Events, fileVars, timerVars, storeVars
<1>8. CASE Unsubscribe
  BY <1>8 DEF Unsubscribe, TypeOK, Stages, fileVars, timerVars, storeVars
<1>9. CASE UNCHANGED vars
  BY <1>9 DEF TypeOK, vars, fileVars, timerVars, storeVars
<1> QED
  BY <1>1, <1>2, <1>3, <1>4, <1>5, <1>6, <1>7, <1>8, <1>9 DEF Next, Watch, Callback

-----------------------------------------------------------------------------
(* Loaded routines and their files.                                        *)

(* loadFile keeps NoOrphan: of the names whose routine came from p only    *)
(* pathMap[p] can be loaded, and that is dropped or replaced.              *)
LEMMA LoadFileOwned ==
  ASSUME TypeOK, NoOrphan, NEW p \in Paths, NEW c \in Contents, LoadFile(p, c)
  PROVE  NoOrphan'
<1>1. CASE c \notin Specs
  BY <1>1 DEF LoadFile, NoOrphan
<1>2. CASE c \in Specs
  <2>1. StoreSpec(p, c) /\ c.name \in Names /\ NoName \notin Names
    BY <1>2, FilesAssumption DEF LoadFile
  <2>2. \A q \in Paths : pathMap'[q] = IF q = p THEN c.name ELSE pathMap[q]
    BY <2>1 DEF StoreSpec, TypeOK
  <2>3. \A n \in Names : routines'[n] = IF n = c.name THEN Routine(p, c)
                                        ELSE IF n = pathMap[p] THEN NoRoutine
                                        ELSE routines[n]
    <3>1. CASE pathMap[p] \in {NoName, c.name}
      BY <2>1, <3>1 DEF StoreSpec, TypeOK
    <3>2. CASE pathMap[p] \notin {NoName, c.name}
      BY <2>1, <3>2 DEF StoreSpec, TypeOK
    <3> QED BY <3>1, <3>2
  <2>4. \A n \in Names : routines[n] # NoRoutine => routines[n].path \in Paths
    BY DEF TypeOK, Routines
  <2> QED BY <2>1, <2>2, <2>3, <2>4 DEF NoOrphan, Routine
<1> QED BY <1>1, <1>2

(* deleteFile keeps NoOrphan: it forgets the path and its name together.   *)
LEMMA DeleteFileOwned ==
  ASSUME TypeOK, NoOrphan, NEW p \in Paths, DeleteFile(p)
  PROVE  NoOrphan'
<1>1. \A q \in Paths : pathMap'[q] = IF q = p THEN NoName ELSE pathMap[q]
  BY DEF DeleteFile, TypeOK
<1>2. \A n \in Names : routines'[n] = IF n = pathMap[p] THEN NoRoutine ELSE routines[n]
  BY FilesAssumption DEF DeleteFile, TypeOK
<1>3. \A n \in Names : routines[n] # NoRoutine => routines[n].path \in Paths
  BY DEF TypeOK, Routines
<1> QED BY <1>1, <1>2, <1>3 DEF NoOrphan

(* The steps other than loads and deletes leave the maps alone.            *)
LEMMA OtherSteps ==
  ASSUME [Next]_vars,
         ~(\E p \in Paths : LoadNext(p)), ~(\E cb \in callbacks : Apply(cb))
  PROVE  UNCHANGED storeVars
BY DEF Next, User, Write, Unlink, Rename, Edit, Startup, ReadDir, Register, StartWatch,
   Watch, Schedule, TimerFires, WatchEnds, Callback, ParseFile, Forget, Receive,
   Unsubscribe, vars, storeVars

(* Every step keeps the loaded routines reachable through their files.     *)
LEMMA OwnedStep == TypeOK /\ NoOrphan /\ [Next]_vars => NoOrphan'
<1> SUFFICES ASSUME TypeOK, NoOrphan, [Next]_vars PROVE NoOrphan'
  OBVIOUS
<1>1. ASSUME NEW p \in Paths, LoadNext(p) PROVE NoOrphan'
  <2>1. disk[p] \in Contents
    BY DEF TypeOK, Contents
  <2> QED BY <1>1, <2>1, LoadFileOwned DEF LoadNext
<1>2. ASSUME NEW cb \in callbacks, Apply(cb) PROVE NoOrphan'
  <2>1. cb.timer.path \in Paths /\ cb.read \in Contents
    BY DEF TypeOK, Callbacks, Timers, Contents
  <2> QED BY <1>2, <2>1, LoadFileOwned, DeleteFileOwned DEF Apply
<1>3. CASE UNCHANGED storeVars
  BY <1>3 DEF NoOrphan, storeVars
<1> QED BY <1>1, <1>2, <1>3, OtherSteps

-----------------------------------------------------------------------------
(* Timers.                                                                 *)

(* Every step keeps the armed timers in the timers map, under ids that no  *)
(* other armed timer and no callback has.                                  *)
LEMMA TimersStep ==
  TypeOK /\ TimersOwned /\ TimerIds /\ [Next]_vars => TimersOwned' /\ TimerIds'
<1> SUFFICES ASSUME TypeOK, TimersOwned, TimerIds, [Next]_vars
             PROVE  TimersOwned' /\ TimerIds'
  OBVIOUS
<1> USE DEF TimersOwned, TimerIds
<1>0. /\ lastTimer \in Nat
      /\ \A t \in armed : t \in Timers /\ t.id \in Nat /\ t.path \in Paths
      /\ \A cb \in callbacks : cb.timer.id \in Nat /\ cb.timer.path \in Paths
  BY DEF TypeOK, Timers, Callbacks
<1>1. CASE Schedule
  <2>1. PICK t : /\ t.id = lastTimer + 1 /\ t.path \in Paths
                 /\ timers' = [timers EXCEPT ![t.path] = t.id]
                 /\ armed' = {u \in armed : u.id # timers[t.path]} \cup {t}
    <3>1. Head(queue) \in Sightings
      <4>1. queue \in Seq(Sightings) /\ queue # <<>>
        BY <1>1 DEF Schedule, TypeOK
      <4> QED BY <4>1
    <3> QED BY <1>1, <3>1 DEF Schedule, Sightings
  <2>2. /\ lastTimer' = lastTimer + 1 /\ callbacks' = callbacks
        /\ \A p \in Paths : timers'[p] = IF p = t.path THEN t.id ELSE timers[p]
    BY <1>1, <2>1 DEF Schedule, TypeOK
  <2> QED BY <1>0, <2>1, <2>2
<1>2. ASSUME NEW t \in armed, TimerFires(t) PROVE TimersOwned' /\ TimerIds'
  <2>1. /\ armed' = armed \ {t} /\ UNCHANGED <<timers, lastTimer>>
        /\ \A cb \in callbacks' : cb \in callbacks \/ cb.timer = t
    BY <1>2 DEF TimerFires
  <2> QED BY <1>0, <2>1
<1>3. ASSUME NEW cb \in callbacks, Forget(cb) PROVE TimersOwned' /\ TimerIds'
  <2>1. /\ UNCHANGED <<armed, lastTimer>> /\ callbacks' = callbacks \ {cb}
        /\ \A p \in Paths : timers'[p] = IF p = cb.timer.path /\ timers[p] = cb.timer.id
                                          THEN 0 ELSE timers[p]
    BY <1>0, <1>3 DEF Forget, TypeOK
  <2> QED BY <1>0, <2>1
<1>4. ASSUME NEW cb \in callbacks, ParseFile(cb) \/ Apply(cb) PROVE TimersOwned' /\ TimerIds'
  <2>1. UNCHANGED timerVars
    BY <1>4 DEF ParseFile, Apply
  <2>2. \A d \in callbacks' : \E e \in callbacks : d.timer = e.timer
    <3>1. cb \in Callbacks
      BY DEF TypeOK
    <3>2. \E at, read : callbacks' = (callbacks \ {cb}) \cup {[cb EXCEPT !.at = at, !.read = read]}
      BY <1>4 DEF ParseFile, Apply, Advance
    <3> QED BY <3>1, <3>2 DEF Callbacks
  <2> QED BY <2>1, <2>2 DEF timerVars
<1>5. CASE WatchEnds
  BY <1>0, <1>5 DEF WatchEnds
<1>6. CASE UNCHANGED <<timerVars, callbacks>>
  BY <1>6 DEF timerVars
<1>7. CASE User \/ Startup \/ Receive \/ Unsubscribe \/ UNCHANGED vars
  BY <1>6, <1>7 DEF User, Write, Unlink, Rename, Edit, Startup, ReadDir, LoadNext,
     Register, StartWatch, Receive, Unsubscribe, vars
<1> QED BY <1>1, <1>2, <1>3, <1>4, <1>5, <1>7 DEF Next, Watch, Callback

-----------------------------------------------------------------------------
(* The subscriber.                                                         *)

(* Sending the event of a change that has just been made to the store      *)
(* keeps the channel in step with it.                                      *)
LEMMA AppendFollows ==
  ASSUME NEW c \in Seq(Events), NEW e \in Events, NEW v, NEW rs, NEW rs2,
         Follows(c, v, rs),
         \A n \in Names : rs2[n] = IF n = e.name THEN e.routine ELSE rs[n]
  PROVE  Follows(Append(c, e), v, rs2)
<1> DEFINE d == Append(c, e)
<1>1. /\ Len(c) \in Nat /\ Len(d) = Len(c) + 1 /\ d[Len(c) + 1] = e
      /\ \A i \in 1 .. Len(c) : d[i] = c[i]
  OBVIOUS
<1> SUFFICES ASSUME NEW n \in Names
             PROVE  \/ /\ v[n] = rs2[n]
                       /\ \A i \in 1 .. Len(d) : d[i].name # n
                    \/ \E i \in 1 .. Len(d) :
                         /\ d[i].name = n /\ d[i].routine = rs2[n]
                         /\ \A j \in 1 .. Len(d) : d[j].name = n => j <= i
  BY DEF Follows
<1> HIDE DEF d
<1>2. CASE n = e.name
  BY <1>1, <1>2
<1>3. CASE n # e.name
  <2>1. rs2[n] = rs[n]
    BY <1>3
  <2>2. CASE v[n] = rs[n] /\ \A i \in 1 .. Len(c) : c[i].name # n
    BY <1>1, <1>3, <2>1, <2>2
  <2>3. ASSUME NEW i \in 1 .. Len(c), c[i].name = n, c[i].routine = rs[n],
               \A j \in 1 .. Len(c) : c[j].name = n => j <= i
        PROVE  /\ i \in 1 .. Len(d) /\ d[i].name = n /\ d[i].routine = rs2[n]
               /\ \A j \in 1 .. Len(d) : d[j].name = n => j <= i
    BY <1>1, <1>3, <2>1, <2>3
  <2> QED BY <2>2, <2>3 DEF Follows
<1> QED BY <1>2, <1>3

(* Receiving the first event keeps it in step, too.                        *)
LEMMA TailFollows ==
  ASSUME NEW c \in Seq(Events), c # <<>>, NEW v, NEW v2, NEW rs, Follows(c, v, rs),
         \A n \in Names : v2[n] = IF n = Head(c).name THEN Head(c).routine ELSE v[n]
  PROVE  Follows(Tail(c), v2, rs)
<1> DEFINE d == Tail(c)
<1>1. /\ Len(c) \in Nat \ {0} /\ Len(d) = Len(c) - 1 /\ Head(c) = c[1]
      /\ \A i \in 1 .. Len(d) : d[i] = c[i + 1]
  OBVIOUS
<1> SUFFICES ASSUME NEW n \in Names
             PROVE  \/ /\ v2[n] = rs[n]
                       /\ \A i \in 1 .. Len(d) : d[i].name # n
                    \/ \E i \in 1 .. Len(d) :
                         /\ d[i].name = n /\ d[i].routine = rs[n]
                         /\ \A j \in 1 .. Len(d) : d[j].name = n => j <= i
  BY DEF Follows
<1> HIDE DEF d
<1>2. CASE v[n] = rs[n] /\ \A i \in 1 .. Len(c) : c[i].name # n
  <2>1. c[1].name # n /\ v2[n] = rs[n]
    BY <1>1, <1>2
  <2>2. \A i \in 1 .. Len(d) : i + 1 \in 1 .. Len(c)
    BY <1>1
  <2> QED BY <1>1, <1>2, <2>1, <2>2
<1>3. ASSUME NEW i \in 1 .. Len(c), c[i].name = n, c[i].routine = rs[n],
             \A j \in 1 .. Len(c) : c[j].name = n => j <= i
      PROVE  \/ /\ v2[n] = rs[n]
                /\ \A j \in 1 .. Len(d) : d[j].name # n
             \/ \E k \in 1 .. Len(d) :
                  /\ d[k].name = n /\ d[k].routine = rs[n]
                  /\ \A j \in 1 .. Len(d) : d[j].name = n => j <= k
  <2>1. \A j \in 1 .. Len(d) : j + 1 \in 1 .. Len(c) /\ (d[j].name = n => j + 1 <= i)
    BY <1>1, <1>3
  <2>2. CASE i = 1
    <3>1. v2[n] = rs[n]
      BY <1>1, <1>3, <2>2
    <3>2. \A j \in 1 .. Len(d) : d[j].name # n
      BY <1>1, <2>1, <2>2
    <3> QED BY <3>1, <3>2
  <2>3. CASE i # 1
    <3>1. i - 1 \in 1 .. Len(d) /\ (i - 1) + 1 = i
      BY <1>1, <2>3
    <3>2. d[i - 1] = c[i]
      BY <1>1, <3>1
    <3>3. \A j \in 1 .. Len(d) : d[j].name = n => j <= i - 1
      BY <1>1, <2>1
    <3> QED BY <1>3, <3>1, <3>2, <3>3
  <2> QED BY <2>2, <2>3
<1> QED BY <1>2, <1>3 DEF Follows

(* An event that has not been dropped has been sent.                       *)
LEMMA Sent1 ==
  ASSUME TypeOK, NEW e, Publish1(e), Subscribed, ~dropped'
  PROVE  chan' = Append(chan, e)
<1>1. chan' = Offer(chan, e) /\ ~(Len(chan) >= ChanCap)
  BY Zenon DEF Publish1
<1>2. Len(chan) \in Nat /\ ChanCap \in Nat
  BY BoundsAssumption DEF TypeOK
<1> QED BY <1>1, <1>2 DEF Offer

(* The same of two events.                                                 *)
LEMMA Sent2 ==
  ASSUME TypeOK, NEW d \in Events, NEW e, Publish2(d, e), Subscribed, ~dropped'
  PROVE  chan' = Append(Append(chan, d), e)
<1>1. chan' = Offer(Offer(chan, d), e) /\ ~(Len(chan) + 1 >= ChanCap)
  BY Zenon DEF Publish2
<1>2. chan \in Seq(Events) /\ Len(chan) \in Nat /\ ChanCap \in Nat
  BY BoundsAssumption DEF TypeOK
<1>3. Offer(chan, d) = Append(chan, d) /\ Len(Append(chan, d)) = Len(chan) + 1
  BY <1>1, <1>2 DEF Offer
<1> QED BY <1>1, <1>2, <1>3 DEF Offer

(* What loadFile sends is what it has changed, unless it drops an event.   *)
LEMMA LoadFileFollows ==
  ASSUME TypeOK, Follows(chan, view, routines), NEW p \in Paths, NEW c \in Contents,
         LoadFile(p, c), Subscribed, ~dropped'
  PROVE  Follows(chan', view, routines')
<1>0. chan \in Seq(Events) /\ Len(chan) \in Nat /\ ChanCap \in Nat
  BY BoundsAssumption DEF TypeOK
<1>1. CASE c \notin Specs
  <2>1. Failure \in Events /\ Failure.name \notin Names /\ routines' = routines
    BY <1>1, EventTypes, FilesAssumption DEF LoadFile, Failure
  <2>2. chan' = Append(chan, Failure)
    BY <1>1, Sent1 DEF LoadFile
  <2>3. \A n \in Names : routines'[n] = IF n = Failure.name THEN Failure.routine ELSE routines[n]
    BY <2>1
  <2> QED BY <1>0, <2>1, <2>2, <2>3, AppendFollows
<1>2. CASE c \in Specs
  <2> DEFINE e == Put(Routine(p, c))
             d == Delete(pathMap[p])
  <2>1. StoreSpec(p, c) /\ c.name \in Names /\ e \in Events
        /\ e.name = c.name /\ e.routine = Routine(p, c)
    BY <1>2, EventTypes, FilesAssumption DEF LoadFile, Put, Routine
  <2>2. CASE pathMap[p] \in {NoName, c.name}
    <3>1. /\ \A n \in Names : routines'[n] = IF n = e.name THEN e.routine ELSE routines[n]
          /\ Publish1(e)
      BY <2>1, <2>2 DEF StoreSpec, TypeOK
    <3>2. chan' = Append(chan, e)
      BY <3>1, Sent1
    <3> QED BY <1>0, <2>1, <3>1, <3>2, AppendFollows
  <2>3. CASE pathMap[p] \notin {NoName, c.name}
    <3>1. pathMap[p] \in Names /\ d \in Events /\ d.name = pathMap[p] /\ d.routine = NoRoutine
      BY <2>3, EventTypes DEF TypeOK, Delete
    <3> DEFINE mid == [routines EXCEPT ![pathMap[p]] = NoRoutine]
    <3>2. /\ \A n \in Names : mid[n] = IF n = d.name THEN d.routine ELSE routines[n]
          /\ \A n \in Names : routines'[n] = IF n = e.name THEN e.routine ELSE mid[n]
          /\ Publish2(d, e)
      BY <2>1, <2>3, <3>1 DEF StoreSpec, TypeOK
    <3>3. Append(chan, d) \in Seq(Events)
      BY <1>0, <3>1
    <3>4. chan' = Append(Append(chan, d), e)
      BY <3>1, <3>2, Sent2
    <3> HIDE DEF mid, d, e
    <3>5. Follows(Append(chan, d), view, mid)
      BY <1>0, <3>1, <3>2, AppendFollows
    <3> QED BY <2>1, <3>2, <3>3, <3>4, <3>5, AppendFollows
  <2> QED BY <2>2, <2>3
<1> QED BY <1>1, <1>2

(* And so does deleteFile.                                                 *)
LEMMA DeleteFileFollows ==
  ASSUME TypeOK, Follows(chan, view, routines), NEW p \in Paths, DeleteFile(p),
         Subscribed, ~dropped'
  PROVE  Follows(chan', view, routines')
<1>0. chan \in Seq(Events) /\ Len(chan) \in Nat /\ ChanCap \in Nat
  BY BoundsAssumption DEF TypeOK
<1>1. CASE pathMap[p] = NoName
  BY <1>1 DEF DeleteFile
<1>2. CASE pathMap[p] # NoName
  <2> DEFINE d == Delete(pathMap[p])
  <2>1. d \in Events /\ d.name = pathMap[p] /\ d.routine = NoRoutine
    BY <1>2, EventTypes DEF TypeOK, Delete
  <2>2. /\ \A n \in Names : routines'[n] = IF n = d.name THEN d.routine ELSE routines[n]
        /\ Publish1(d)
    BY <1>2, <2>1 DEF DeleteFile, TypeOK
  <2>3. chan' = Append(chan, d)
    BY <2>2, Sent1
  <2> HIDE DEF d
  <2> QED BY <1>0, <2>1, <2>2, <2>3, AppendFollows
<1> QED BY <1>1, <1>2

(* Before Watch nothing is sent, and main registers what Load found.       *)
LEMMA StartStep == TypeOK /\ StartInv /\ [Next]_vars => StartInv'
<1> SUFFICES ASSUME TypeOK, StartInv, [Next]_vars PROVE StartInv'
  OBVIOUS
<1> USE DEF StartInv
<1>1. ASSUME NEW p \in Paths, LoadNext(p) PROVE StartInv'
  <2>1. stage = "loading" /\ stage' = "loading" /\ UNCHANGED <<armed, callbacks>>
    BY <1>1 DEF LoadNext, timerVars
  <2>2. UNCHANGED chan
    BY <1>1, <2>1 DEF LoadNext, LoadFile, StoreSpec, Publish1, Publish2, Subscribed
  <2> QED BY <2>1, <2>2
<1>2. CASE User
  BY <1>2 DEF User, Write, Unlink, Rename, Edit, storeVars, timerVars
<1>3. CASE ReadDir \/ Register \/ StartWatch \/ Unsubscribe \/ UNCHANGED vars
  BY <1>3 DEF ReadDir, Register, StartWatch, Unsubscribe, vars, storeVars, timerVars
<1>4. CASE Watch \/ Callback \/ Receive
  BY <1>4 DEF Watch, Schedule, TimerFires, WatchEnds, Callback, ParseFile, Apply, Forget, Receive
<1> QED BY <1>1, <1>2, <1>3, <1>4 DEF Next, Startup

(* Every step keeps the subscriber in step with the store.                 *)
LEMMA FollowsStep ==
  TypeOK /\ StartInv /\ ViewFollowsStore /\ [Next]_vars => ViewFollowsStore'
<1> SUFFICES ASSUME TypeOK, StartInv, ViewFollowsStore, [Next]_vars, Subscribed', ~dropped'
             PROVE  Follows(chan', view', routines')
  BY DEF ViewFollowsStore
<1>1. CASE StartWatch
  <2>1. chan' = <<>> /\ view' = routines'
    BY <1>1 DEF StartWatch, StartInv, storeVars
  <2> QED BY <2>1 DEF Follows
<1>2. CASE Receive
  <2>1. Subscribed /\ ~dropped /\ routines' = routines /\ chan # <<>> /\ chan' = Tail(chan)
    BY <1>2 DEF Receive, Subscribed, storeVars
  <2>2. \A n \in Names : view'[n] = IF n = Head(chan).name THEN Head(chan).routine ELSE view[n]
    BY <1>2 DEF Receive
  <2>3. chan \in Seq(Events) /\ Follows(chan, view, routines)
    BY <2>1 DEF TypeOK, ViewFollowsStore
  <2> QED BY <2>1, <2>2, <2>3, TailFollows
<1>3. ASSUME NEW cb \in callbacks, Apply(cb) PROVE Follows(chan', view', routines')
  <2>1. cb.timer.path \in Paths /\ cb.read \in Contents
    BY DEF TypeOK, Callbacks, Timers, Contents
  <2>2. Subscribed /\ view' = view
    BY <1>3 DEF Apply, Subscribed
  <2>3. ~dropped
    <3>1. LoadFile(cb.timer.path, cb.read) \/ DeleteFile(cb.timer.path)
      BY <1>3 DEF Apply
    <3> QED BY <3>1, Zenon DEF LoadFile, StoreSpec, DeleteFile, Publish1, Publish2
  <2>4. Follows(chan, view, routines)
    BY <2>2, <2>3 DEF ViewFollowsStore
  <2> QED BY <1>3, <2>1, <2>2, <2>4, LoadFileFollows, DeleteFileFollows DEF Apply
<1>4. CASE UNCHANGED <<chan, dropped, view, routines>> /\ Subscribed
  BY <1>4 DEF ViewFollowsStore
<1>5. CASE User \/ Watch \/ UNCHANGED vars
  BY <1>4, <1>5 DEF User, Write, Unlink, Rename, Edit, Watch, Schedule, TimerFires,
     WatchEnds, vars, storeVars, Subscribed
<1>6. ASSUME NEW cb \in callbacks, ParseFile(cb) \/ Forget(cb)
      PROVE  Follows(chan', view', routines')
  BY <1>4, <1>6 DEF ParseFile, Forget, storeVars, Subscribed
<1>7. CASE ReadDir \/ (\E p \in Paths : LoadNext(p)) \/ Register \/ Unsubscribe
  BY <1>7 DEF ReadDir, LoadNext, Register, Unsubscribe, Subscribed
<1> QED
  BY <1>1, <1>2, <1>3, <1>5, <1>6, <1>7 DEF Next, Startup, Callback

(* What publish adds to the channel is what it is given, if anything.      *)
LEMMA OfferItems ==
  ASSUME NEW c \in Seq(Events), NEW e \in Events, NEW i \in 1 .. Len(Offer(c, e))
  PROVE  (i \in 1 .. Len(c) /\ Offer(c, e)[i] = c[i]) \/ Offer(c, e)[i] = e
BY DEF Offer

(* So the channel has what it had, or the event that is published.         *)
LEMMA Publish1Items ==
  ASSUME TypeOK, NEW e \in Events, Publish1(e), NEW i \in 1 .. Len(chan')
  PROVE  (i \in 1 .. Len(chan) /\ chan'[i] = chan[i]) \/ chan'[i] = e
<1>1. chan \in Seq(Events)
  BY DEF TypeOK
<1>2. chan' = Offer(chan, e) \/ chan' = chan
  BY DEF Publish1
<1> QED BY <1>1, <1>2, OfferItems

(* The same of two events.                                                 *)
LEMMA Publish2Items ==
  ASSUME TypeOK, NEW d \in Events, NEW e \in Events, Publish2(d, e), NEW i \in 1 .. Len(chan')
  PROVE  (i \in 1 .. Len(chan) /\ chan'[i] = chan[i]) \/ chan'[i] \in {d, e}
<1>1. chan \in Seq(Events) /\ Len(chan) <= ChanCap
  BY DEF TypeOK
<1>2. chan' = Offer(Offer(chan, d), e) \/ chan' = chan
  BY DEF Publish2
<1>3. Offer(chan, d) \in Seq(Events)
  BY <1>1, OfferType
<1> QED BY <1>1, <1>2, <1>3, OfferItems

(* What loadFile and deleteFile send: a failure, a delete, or what the     *)
(* file holds, under the name it holds.                                    *)
LEMMA LoadFileItems ==
  ASSUME TypeOK, NEW p \in Paths, NEW c \in Contents, LoadFile(p, c),
         NEW i \in 1 .. Len(chan')
  PROVE  \/ i \in 1 .. Len(chan) /\ chan'[i] = chan[i]
         \/ chan'[i].routine = NoRoutine
         \/ c \in Specs /\ chan'[i] = Put(Routine(p, c))
<1>1. CASE c \notin Specs
  BY <1>1, EventTypes, Publish1Items DEF LoadFile, Failure
<1>2. CASE c \in Specs
  <2>1. StoreSpec(p, c)
    BY <1>2 DEF LoadFile
  <2>2. CASE Publish1(Put(Routine(p, c)))
    BY <1>2, <2>2, EventTypes, Publish1Items
  <2>3. CASE pathMap[p] \notin {NoName, c.name} /\ Publish2(Delete(pathMap[p]), Put(Routine(p, c)))
    <3>1. pathMap[p] \in Names
      BY <2>3 DEF TypeOK
    <3> QED BY <1>2, <2>3, <3>1, EventTypes, Publish2Items DEF Delete
  <2> QED BY <2>1, <2>2, <2>3 DEF StoreSpec
<1> QED BY <1>1, <1>2

(* Unloading a file announces only that a name has no routine.             *)
LEMMA DeleteFileItems ==
  ASSUME TypeOK, NEW p \in Paths, DeleteFile(p), NEW i \in 1 .. Len(chan')
  PROVE  \/ i \in 1 .. Len(chan) /\ chan'[i] = chan[i]
         \/ chan'[i].routine = NoRoutine
<1>1. CASE pathMap[p] = NoName
  BY <1>1 DEF DeleteFile
<1>2. CASE pathMap[p] # NoName
  <2>1. pathMap[p] \in Names /\ Publish1(Delete(pathMap[p]))
    BY <1>2 DEF DeleteFile, TypeOK
  <2> QED BY <2>1, EventTypes, Publish1Items DEF Delete
<1> QED BY <1>1, <1>2

(* The steps other than loads, deletes and receives leave the channel, and *)
(* all but these and Register what the daemon has registered.              *)
LEMMA ChanSteps ==
  ASSUME [Next]_vars, ~(\E p \in Paths : LoadNext(p)), ~(\E cb \in callbacks : Apply(cb)),
         ~Receive
  PROVE  UNCHANGED chan /\ (Register \/ UNCHANGED view)
BY DEF Next, User, Write, Unlink, Rename, Edit, Startup, ReadDir, Register, StartWatch,
   Watch, Schedule, TimerFires, WatchEnds, Callback, ParseFile, Forget, Unsubscribe, vars

(* Every step keeps routines announced and registered under their names.   *)
LEMMA NamedStep == TypeOK /\ NoOrphan /\ EventsNamed /\ [Next]_vars => EventsNamed'
<1> SUFFICES ASSUME TypeOK, NoOrphan, EventsNamed, [Next]_vars PROVE EventsNamed'
  OBVIOUS
<1> USE DEF EventsNamed
<1>1. ASSUME NEW p \in Paths, NEW c \in Contents, LoadFile(p, c) \/ DeleteFile(p),
             UNCHANGED view
      PROVE  EventsNamed'
  <2>1. c \in Specs => Put(Routine(p, c)).name = Put(Routine(p, c)).routine.spec.name
    BY DEF Put, Routine
  <2> QED BY <1>1, <2>1, LoadFileItems, DeleteFileItems
<1>2. ASSUME NEW p \in Paths, LoadNext(p) PROVE EventsNamed'
  BY <1>1, <1>2 DEF LoadNext, TypeOK, Contents
<1>3. ASSUME NEW cb \in callbacks, Apply(cb) PROVE EventsNamed'
  <2>1. cb.timer.path \in Paths /\ cb.read \in Contents
    BY DEF TypeOK, Callbacks, Timers, Contents
  <2> QED BY <1>1, <1>3, <2>1 DEF Apply
<1>4. CASE Receive
  <2>1. /\ chan \in Seq(Events) /\ chan # <<>> /\ chan' = Tail(chan)
        /\ \A n \in Names : view'[n] = IF n = Head(chan).name THEN Head(chan).routine ELSE view[n]
    BY <1>4 DEF Receive, TypeOK
  <2>2. /\ Len(chan) \in Nat \ {0} /\ Len(chan') = Len(chan) - 1 /\ Head(chan) = chan[1]
        /\ \A i \in 1 .. Len(chan') : chan'[i] = chan[i + 1]
    BY <2>1
  <2> QED BY <2>1, <2>2
<1>5. CASE UNCHANGED chan /\ (Register \/ UNCHANGED view)
  <2>1. CASE Register
    BY <1>5, <2>1 DEF Register, NoOrphan
  <2>2. CASE UNCHANGED view
    BY <1>5, <2>2
  <2> QED BY <1>5, <2>1, <2>2
<1> QED BY <1>2, <1>3, <1>4, <1>5, ChanSteps

-----------------------------------------------------------------------------
(* Edits take effect.                                                      *)

(* What loadFile and deleteFile change, file by file and name by name.     *)
LEMMA LoadFileMaps ==
  ASSUME TypeOK, NEW p \in Paths, NEW c \in Contents, LoadFile(p, c)
  PROVE  /\ c \in Specs =>
              /\ \A q \in Paths : pathMap'[q] = IF q = p THEN c.name ELSE pathMap[q]
              /\ \A n \in Names : routines'[n] = IF n = c.name THEN Routine(p, c)
                                                 ELSE IF n = pathMap[p] THEN NoRoutine
                                                 ELSE routines[n]
              /\ errors' = errors \ {p}
         /\ c \notin Specs => /\ errors' = errors \cup {p}
                              /\ UNCHANGED <<pathMap, routines>>
<1>1. CASE c \notin Specs
  BY <1>1 DEF LoadFile
<1>2. CASE c \in Specs
  <2>1. StoreSpec(p, c) /\ c.name \in Names /\ NoName \notin Names
    BY <1>2, FilesAssumption DEF LoadFile
  <2>2. CASE pathMap[p] \in {NoName, c.name}
    BY <1>2, <2>1, <2>2 DEF StoreSpec, TypeOK
  <2>3. CASE pathMap[p] \notin {NoName, c.name}
    BY <1>2, <2>1, <2>3 DEF StoreSpec, TypeOK
  <2> QED BY <2>2, <2>3
<1> QED BY <1>1, <1>2

(* What unloading a file does to the maps.                                 *)
LEMMA DeleteFileMaps ==
  ASSUME TypeOK, NEW p \in Paths, DeleteFile(p)
  PROVE  /\ \A q \in Paths : pathMap'[q] = IF q = p THEN NoName ELSE pathMap[q]
         /\ \A n \in Names : routines'[n] = IF n = pathMap[p] THEN NoRoutine ELSE routines[n]
         /\ errors' = errors \ {p}
BY FilesAssumption DEF DeleteFile, TypeOK

(* Loads and deletes keep to what was written to their file.               *)
LEMMA LoadFileWrites ==
  ASSUME TypeOK, FromWrites, NEW p \in Paths, NEW c \in Contents,
         c = NoFile \/ <<p, c>> \in Writes,
         LoadFile(p, c), UNCHANGED <<disk, view>>,
         \A cb \in callbacks' : cb.read = NoFile \/ <<cb.timer.path, cb.read>> \in Writes
  PROVE  FromWrites'
<1>1. c \in Specs => <<p, c>> \in Writes /\ Written(Routine(p, c)) /\ c.name \in Names
  BY FilesAssumption DEF Written, Routine
<1>2. \A q \in Paths : pathMap'[q] # NoName =>
        \E k \in Specs : <<q, k>> \in Writes /\ k.name = pathMap'[q]
  <2>1. \A q \in Paths : pathMap'[q] = pathMap[q] \/ (c \in Specs /\ q = p /\ pathMap'[q] = c.name)
    BY LoadFileMaps
  <2> QED BY <1>1, <2>1 DEF FromWrites
<1>3. \A n \in Names : routines'[n] # NoRoutine => Written(routines'[n])
  BY <1>1, LoadFileMaps DEF FromWrites
<1>4. \A i \in 1 .. Len(chan') : chan'[i].routine # NoRoutine => Written(chan'[i].routine)
  <2>1. Put(Routine(p, c)).routine = Routine(p, c)
    BY DEF Put
  <2>2. \A i \in 1 .. Len(chan) : chan[i].routine # NoRoutine => Written(chan[i].routine)
    BY DEF FromWrites
  <2> SUFFICES ASSUME NEW i \in 1 .. Len(chan'), chan'[i].routine # NoRoutine
               PROVE  Written(chan'[i].routine)
    OBVIOUS
  <2>3. \/ i \in 1 .. Len(chan) /\ chan'[i] = chan[i]
        \/ c \in Specs /\ chan'[i] = Put(Routine(p, c))
    BY LoadFileItems
  <2> QED BY <1>1, <2>1, <2>2, <2>3
<1> QED BY <1>2, <1>3, <1>4 DEF FromWrites, Gone, Written

(* Unloading a file keeps that everything read was written.                *)
LEMMA DeleteFileWrites ==
  ASSUME TypeOK, FromWrites, NEW p \in Paths, DeleteFile(p), UNCHANGED <<disk, view>>,
         \A cb \in callbacks' : cb.read = NoFile \/ <<cb.timer.path, cb.read>> \in Writes
  PROVE  FromWrites'
<1>1. \A q \in Paths : pathMap'[q] # NoName =>
        \E k \in Specs : <<q, k>> \in Writes /\ k.name = pathMap'[q]
  BY DeleteFileMaps DEF FromWrites
<1>2. \A n \in Names : routines'[n] # NoRoutine => Written(routines'[n])
  BY DeleteFileMaps DEF FromWrites
<1>3. \A i \in 1 .. Len(chan') : chan'[i].routine # NoRoutine => Written(chan'[i].routine)
  BY DeleteFileItems DEF FromWrites
<1> QED BY <1>1, <1>2, <1>3 DEF FromWrites, Gone, Written

(* A callback that moves on has read what it says it has.                  *)
LEMMA AdvanceReads ==
  ASSUME TypeOK, FromWrites, NEW cb \in callbacks, NEW at, NEW c,
         c = NoFile \/ <<cb.timer.path, c>> \in Writes, Advance(cb, at, c)
  PROVE  \A d \in callbacks' : d.read = NoFile \/ <<d.timer.path, d.read>> \in Writes
<1>1. cb \in Callbacks
  BY DEF TypeOK
<1>2. \A d \in callbacks' : d \in callbacks \/ (d.timer = cb.timer /\ d.read = c)
  BY <1>1 DEF Advance, Callbacks
<1> QED BY <1>2 DEF FromWrites

(* If nothing is renamed, whatever is read from a file was written there.  *)
LEMMA WritesStep ==
  ASSUME Moves = {} PROVE TypeOK /\ FromWrites /\ [Next]_vars => FromWrites'
<1> SUFFICES ASSUME TypeOK, FromWrites, [Next]_vars PROVE FromWrites'
  OBVIOUS
<1>1. ASSUME UNCHANGED <<callbacks, pathMap, routines, view, chan>>,
             \A p \in Paths : disk'[p] \in {NoFile, disk[p]} \/ <<p, disk'[p]>> \in Writes
      PROVE  FromWrites'
  BY <1>1 DEF FromWrites, Gone, Written
<1>2. CASE User
  <2>1. ASSUME NEW p \in Paths, NEW c \in Specs \cup {Broken}, Write(p, c) PROVE FromWrites'
    BY <1>1, <2>1 DEF Write, Edit, storeVars, TypeOK
  <2>2. ASSUME NEW p \in Paths, Unlink(p) PROVE FromWrites'
    BY <1>1, <2>2 DEF Unlink, Edit, storeVars, TypeOK
  <2> QED BY <1>2, <2>1, <2>2 DEF User, Rename
<1>3. ASSUME NEW p \in Paths, LoadNext(p) PROVE FromWrites'
  <2>1. disk[p] \in Contents /\ (disk[p] = NoFile \/ <<p, disk[p]>> \in Writes)
    BY DEF TypeOK, Contents, FromWrites, Gone
  <2>2. LoadFile(p, disk[p]) /\ UNCHANGED <<disk, view, callbacks>>
    BY <1>3 DEF LoadNext, fileVars
  <2>3. \A cb \in callbacks' : cb.read = NoFile \/ <<cb.timer.path, cb.read>> \in Writes
    BY <2>2 DEF FromWrites
  <2> QED BY <2>1, <2>2, <2>3, LoadFileWrites
<1>4. ASSUME NEW cb \in callbacks, Apply(cb) PROVE FromWrites'
  <2>1. /\ cb.timer.path \in Paths /\ cb.read \in Contents
        /\ cb.read = NoFile \/ <<cb.timer.path, cb.read>> \in Writes
    BY DEF TypeOK, Callbacks, Timers, Contents, FromWrites
  <2>2. UNCHANGED <<disk, view>> /\ (LoadFile(cb.timer.path, cb.read) \/ DeleteFile(cb.timer.path))
    BY <1>4 DEF Apply, fileVars
  <2>3. \A d \in callbacks' : d.read = NoFile \/ <<d.timer.path, d.read>> \in Writes
    BY <1>4, AdvanceReads DEF Apply
  <2> QED BY <2>1, <2>2, <2>3, LoadFileWrites, DeleteFileWrites
<1>5. ASSUME NEW cb \in callbacks, ParseFile(cb) PROVE FromWrites'
  <2>1. cb.timer.path \in Paths
    BY DEF TypeOK, Callbacks, Timers
  <2>2. disk[cb.timer.path] = NoFile \/ <<cb.timer.path, disk[cb.timer.path]>> \in Writes
    BY <2>1 DEF FromWrites, Gone
  <2>3. \A d \in callbacks' : d.read = NoFile \/ <<d.timer.path, d.read>> \in Writes
    BY <1>5, <2>2, AdvanceReads DEF ParseFile
  <2> QED BY <1>5, <2>3 DEF ParseFile, FromWrites, Gone, Written, fileVars, storeVars
<1>6. CASE Receive
  <2>1. /\ chan \in Seq(Events) /\ chan # <<>> /\ chan' = Tail(chan)
        /\ \A n \in Names : view'[n] = IF n = Head(chan).name THEN Head(chan).routine ELSE view[n]
        /\ UNCHANGED <<disk, callbacks, pathMap, routines>>
    BY <1>6 DEF Receive, TypeOK, fileVars, storeVars
  <2>2. /\ Len(chan) \in Nat \ {0} /\ Len(chan') = Len(chan) - 1 /\ Head(chan) = chan[1]
        /\ \A i \in 1 .. Len(chan') : chan'[i] = chan[i + 1]
    BY <2>1
  <2>3. \A i \in 1 .. Len(chan) : chan[i].routine # NoRoutine => Written(chan[i].routine)
    BY DEF FromWrites
  <2>4. \A i \in 1 .. Len(chan') : chan'[i].routine # NoRoutine => Written(chan'[i].routine)
    BY <2>2, <2>3
  <2>5. \A n \in Names : view'[n] # NoRoutine => Written(view'[n])
    BY <2>1, <2>2, <2>3 DEF FromWrites
  <2> QED BY <2>1, <2>4, <2>5 DEF FromWrites, Gone, Written
<1>7. ASSUME NEW t \in armed, TimerFires(t) PROVE FromWrites'
  <2>1. \A cb \in callbacks' : cb \in callbacks \/ cb.read = NoFile
    BY <1>7 DEF TimerFires
  <2> QED BY <1>7, <2>1 DEF TimerFires, FromWrites, Gone, Written, fileVars, storeVars
<1>8. ASSUME NEW cb \in callbacks, Forget(cb) PROVE FromWrites'
  BY <1>8 DEF Forget, FromWrites, Gone, Written, fileVars, storeVars
<1>9. CASE ReadDir \/ Register \/ StartWatch \/ Schedule \/ WatchEnds \/ Unsubscribe \/ UNCHANGED vars
  BY <1>9 DEF ReadDir, Register, StartWatch, Schedule, WatchEnds, Unsubscribe, vars,
     FromWrites, Gone, Written, fileVars, storeVars
<1> QED BY <1>2, <1>3, <1>4, <1>5, <1>6, <1>7, <1>8, <1>9 DEF Next, Startup, Watch, Callback

(* With prompt callbacks a path never has two.                             *)
LEMMA OneTimerStep ==
  ASSUME Prompt PROVE TypeOK /\ OneTimer /\ [Next]_vars => OneTimer'
<1> SUFFICES ASSUME TypeOK, OneTimer, [Next]_vars PROVE OneTimer'
  OBVIOUS
<1> USE DEF OneTimer
<1>1. CASE Schedule
  <2>1. PICK p \in Paths : timers' = [timers EXCEPT ![p] = lastTimer + 1]
    <3>1. queue \in Seq(Sightings) /\ queue # <<>>
      BY <1>1 DEF Schedule, TypeOK
    <3>2. Head(queue) \in Sightings
      BY <3>1
    <3> QED BY <1>1, <3>2 DEF Schedule, Sightings
  <2>2. /\ lastTimer' = lastTimer + 1 /\ lastTimer \in Nat /\ callbacks' = callbacks
        /\ \A q \in Paths : timers[q] \in Nat
        /\ \A q \in Paths : timers'[q] = IF q = p THEN lastTimer + 1 ELSE timers[q]
    BY <1>1, <2>1 DEF Schedule, TypeOK
  <2> QED BY <2>2
<1>2. ASSUME NEW t \in armed, TimerFires(t) PROVE OneTimer'
  <2>1. /\ UNCHANGED <<timers, lastTimer>>
        /\ callbacks' = callbacks \cup {[timer |-> t, at |-> "start", read |-> NoFile]}
        /\ \A cb \in callbacks : cb.timer.path # t.path
    BY <1>2 DEF TimerFires
  <2> QED BY <2>1
<1>3. ASSUME NEW cb \in callbacks, Forget(cb) PROVE OneTimer'
  <2>1. /\ UNCHANGED lastTimer /\ callbacks' = callbacks \ {cb} /\ lastTimer \in Nat
        /\ \A p \in Paths : timers'[p] = 0 \/ timers'[p] = timers[p]
    BY <1>3 DEF Forget, TypeOK
  <2> QED BY <2>1
<1>4. ASSUME NEW cb \in callbacks, ParseFile(cb) \/ Apply(cb) PROVE OneTimer'
  <2>1. UNCHANGED timerVars
    BY <1>4 DEF ParseFile, Apply
  <2>2. PICK at, read : callbacks' = (callbacks \ {cb}) \cup {[cb EXCEPT !.at = at, !.read = read]}
    BY <1>4 DEF ParseFile, Apply, Advance
  <2>3. cb \in Callbacks
    BY DEF TypeOK
  <2>4. [cb EXCEPT !.at = at, !.read = read].timer = cb.timer
    BY <2>3 DEF Callbacks
  <2>5. \A d \in callbacks' : (d \in callbacks /\ d # cb) \/ d = [cb EXCEPT !.at = at, !.read = read]
    BY <2>2
  <2>6. \A d, e \in callbacks' : d.timer.path = e.timer.path => d = e
    BY <2>4, <2>5
  <2> QED BY <2>1, <2>6 DEF timerVars
<1>5. CASE WatchEnds
  BY <1>5 DEF WatchEnds, TypeOK
<1>6. CASE User \/ Startup \/ Receive \/ Unsubscribe \/ UNCHANGED vars
  <2>1. UNCHANGED <<timerVars, callbacks>>
    BY <1>6 DEF User, Write, Unlink, Rename, Edit, Startup, ReadDir, LoadNext,
       Register, StartWatch, Receive, Unsubscribe, vars
  <2> QED BY <2>1 DEF timerVars
<1> QED BY <1>1, <1>2, <1>3, <1>4, <1>5, <1>6 DEF Next, Watch, Callback

(* A sighting that is taken off the queue was the last one of its path or  *)
(* was not; one that is added is the last one of its path.                 *)
LEMMA TailSighted ==
  ASSUME NEW q \in Seq(Sightings), q # <<>>, NEW p \in Paths, NEW gone \in BOOLEAN
  PROVE  /\ Sighted(q, p, gone) => \/ Sighted(Tail(q), p, gone)
                                   \/ Unseen(Tail(q), p) /\ Head(q) = Seen(p, gone)
         /\ Unseen(q, p) => Unseen(Tail(q), p) /\ Head(q).path # p
<1> DEFINE r == Tail(q)
<1>1. /\ Len(q) \in Nat \ {0} /\ Len(r) = Len(q) - 1 /\ Head(q) = q[1]
      /\ \A i \in 1 .. Len(r) : r[i] = q[i + 1] /\ i + 1 \in 1 .. Len(q)
  OBVIOUS
<1> HIDE DEF r
<1>2. ASSUME NEW i \in 1 .. Len(q), q[i] = Seen(p, gone),
             \A j \in 1 .. Len(q) : q[j].path = p => j <= i
      PROVE  Sighted(r, p, gone) \/ (Unseen(r, p) /\ Head(q) = Seen(p, gone))
  <2>1. CASE i = 1
    <3>1. \A j \in 1 .. Len(r) : r[j].path # p
      BY <1>1, <1>2, <2>1
    <3> QED BY <1>1, <1>2, <2>1, <3>1 DEF Unseen
  <2>2. CASE i # 1
    <3>1. i - 1 \in 1 .. Len(r) /\ r[i - 1] = q[i]
      BY <1>1, <2>2
    <3>2. ASSUME NEW j \in 1 .. Len(r), r[j].path = p PROVE j <= i - 1
      <4>1. j + 1 \in 1 .. Len(q) /\ q[j + 1].path = p
        BY <1>1, <3>2
      <4>2. j + 1 <= i
        BY <1>2, <4>1
      <4> QED BY <4>2
    <3> QED BY <1>2, <3>1, <3>2 DEF Sighted
  <2> QED BY <2>1, <2>2
<1>3. Unseen(q, p) => Unseen(r, p) /\ Head(q).path # p
  BY <1>1 DEF Unseen
<1> QED BY <1>2, <1>3 DEF Sighted, r

(* An edit is the last sighting of its file, and leaves other files'       *)
(* sightings the last ones of theirs.                                      *)
LEMMA AppendSighted ==
  ASSUME NEW q \in Seq(Sightings), NEW p \in Paths, NEW gone \in BOOLEAN
  PROVE  /\ Sighted(q \o <<Seen(p, gone)>>, p, gone)
         /\ \A o \in Paths \ {p} : \A was :
              Sighted(q, o, was) => Sighted(q \o <<Seen(p, gone)>>, o, was)
         /\ \A o \in Paths \ {p} : Unseen(q, o) => Unseen(q \o <<Seen(p, gone)>>, o)
<1> DEFINE r == q \o <<Seen(p, gone)>>
<1>1. /\ Len(q) \in Nat /\ Len(r) = Len(q) + 1 /\ r[Len(q) + 1] = Seen(p, gone)
      /\ \A i \in 1 .. Len(q) : r[i] = q[i]
  OBVIOUS
<1>2. Seen(p, gone).path = p
  BY DEF Seen
<1> HIDE DEF r
<1>3. Sighted(r, p, gone)
  BY <1>1 DEF Sighted
<1>4. ASSUME NEW o \in Paths \ {p}, NEW was, Sighted(q, o, was)
      PROVE  Sighted(r, o, was)
  <2>1. PICK i \in 1 .. Len(q) : q[i] = Seen(o, was) /\ \A j \in 1 .. Len(q) : q[j].path = o => j <= i
    BY <1>4 DEF Sighted
  <2>2. i \in 1 .. Len(r) /\ r[i] = Seen(o, was) /\ \A j \in 1 .. Len(r) : r[j].path = o => j <= i
    BY <1>1, <1>2, <2>1
  <2> QED BY <2>2 DEF Sighted
<1>5. \A o \in Paths \ {p} : Unseen(q, o) => Unseen(r, o)
  BY <1>1, <1>2 DEF Unseen
<1> QED BY <1>3, <1>4, <1>5 DEF r

(* A step that has nothing to do with file p keeps track of it.            *)
LEMMA TrackedFrame ==
  ASSUME NEW p \in Paths, Tracked(p), disk'[p] = disk[p],
         Sighted(queue, p, Gone(p)) => Sighted(queue', p, Gone(p)),
         Unseen(queue, p) => Unseen(queue', p),
         \A t : t.path = p => (t \in armed' <=> t \in armed),
         \A cb : cb.timer.path = p => (cb \in callbacks' <=> cb \in callbacks),
         Stored(p) => Stored(p)'
  PROVE  Tracked(p)'
<1> USE DEF Gone
<1>1. CASE Sighted(queue, p, Gone(p))
  BY <1>1 DEF Tracked
<1>2. CASE Unseen(queue, p) /\ \E t \in armed : t.path = p /\ t.removed = Gone(p)
  BY <1>2 DEF Tracked
<1>3. ASSUME Unseen(queue, p), \A t \in armed : t.path # p,
             NEW cb \in callbacks, cb.timer.path = p, Fresh(cb)
      PROVE  Tracked(p)'
  <2>1. Fresh(cb)'
    BY <1>3 DEF Fresh
  <2> QED BY <1>3, <2>1 DEF Tracked
<1>4. CASE /\ Unseen(queue, p) /\ \A t \in armed : t.path # p
           /\ \A cb \in callbacks : cb.timer.path = p => cb.at = "forget"
           /\ Stored(p)
  BY <1>4 DEF Tracked
<1> QED BY <1>1, <1>2, <1>3, <1>4 DEF Tracked

(* Loading what a file holds stores it; loading anything that was written  *)
(* to a file, or deleting the file, leaves what other files have stored.   *)
LEMMA LoadFileStores ==
  ASSUME Orderly, TypeOK, FromWrites, NEW p \in Paths, NEW c \in Contents,
         c = NoFile \/ <<p, c>> \in Writes, LoadFile(p, c), UNCHANGED disk
  PROVE  /\ c = disk[p] /\ ~Gone(p) => Stored(p)'
         /\ \A q \in Paths \ {p} : Stored(q) => Stored(q)'
<1>1. c = disk[p] /\ ~Gone(p) => Stored(p)'
  BY LoadFileMaps, FilesAssumption DEF Stored, Gone, Contents, TypeOK
<1>2. ASSUME NEW q \in Paths \ {p}, Stored(q) PROVE Stored(q)'
  <2>1. pathMap'[q] = pathMap[q] /\ (q \in errors' <=> q \in errors)
    BY <1>2, LoadFileMaps
  <2>2. disk[q] \in Specs => routines'[disk[q].name] = routines[disk[q].name]
    <3> SUFFICES ASSUME disk[q] \in Specs PROVE routines'[disk[q].name] = routines[disk[q].name]
      OBVIOUS
    <3>1. <<q, disk[q]>> \in Writes /\ disk[q].name \in Names
      BY FilesAssumption DEF FromWrites, Gone
    <3>2. ~(\E k \in Specs : <<p, k>> \in Writes /\ k.name = disk[q].name)
      BY <3>1 DEF Orderly
    <3>3. pathMap[p] # disk[q].name
      BY <3>1, <3>2, FilesAssumption DEF FromWrites
    <3>4. c \in Specs => c.name # disk[q].name
      BY <3>2, FilesAssumption
    <3> QED BY <3>1, <3>3, <3>4, LoadFileMaps
  <2> QED BY <1>2, <2>1, <2>2 DEF Stored, Gone
<1> QED BY <1>1, <1>2

(* Unloading a file that is gone stores that, and does not disturb what is *)
(* stored of the others.                                                   *)
LEMMA DeleteFileStores ==
  ASSUME Orderly, TypeOK, FromWrites, NEW p \in Paths, DeleteFile(p), UNCHANGED disk
  PROVE  /\ Gone(p) => Stored(p)'
         /\ \A q \in Paths \ {p} : Stored(q) => Stored(q)'
<1>1. Gone(p) => Stored(p)'
  BY DeleteFileMaps, FilesAssumption DEF Stored, Gone
<1>2. ASSUME NEW q \in Paths \ {p}, Stored(q) PROVE Stored(q)'
  <2>1. pathMap'[q] = pathMap[q] /\ (q \in errors' <=> q \in errors)
    BY <1>2, DeleteFileMaps
  <2>2. disk[q] \in Specs => routines'[disk[q].name] = routines[disk[q].name]
    <3> SUFFICES ASSUME disk[q] \in Specs PROVE routines'[disk[q].name] = routines[disk[q].name]
      OBVIOUS
    <3>1. <<q, disk[q]>> \in Writes /\ disk[q].name \in Names
      BY FilesAssumption DEF FromWrites, Gone
    <3>2. ~(\E k \in Specs : <<p, k>> \in Writes /\ k.name = disk[q].name)
      BY <3>1 DEF Orderly
    <3>3. pathMap[p] # disk[q].name
      BY <3>1, <3>2, FilesAssumption DEF FromWrites
    <3> QED BY <3>1, <3>3, DeleteFileMaps
  <2> QED BY <1>2, <2>1, <2>2 DEF Stored, Gone
<1> QED BY <1>1, <1>2

(* An edit is the last sighting of its file.                               *)
LEMMA EditTracked ==
  ASSUME TypeOK, \A q \in Paths : Tracked(q), NEW p \in Paths, NEW gone \in BOOLEAN,
         gone = (disk'[p] = NoFile), \A q \in Paths \ {p} : disk'[q] = disk[q],
         queue' = queue \o <<Seen(p, gone)>>, UNCHANGED <<armed, callbacks, storeVars>>
  PROVE  \A q \in Paths : Tracked(q)'
<1>1. queue \in Seq(Sightings)
  BY DEF TypeOK
<1>2. Tracked(p)'
  BY <1>1, AppendSighted DEF Tracked, Gone
<1>3. ASSUME NEW q \in Paths \ {p} PROVE Tracked(q)'
  <2>1. \A was : Sighted(queue, q, was) => Sighted(queue', q, was)
    BY <1>1, AppendSighted, Zenon
  <2>2. Sighted(queue, q, Gone(q)) => Sighted(queue', q, Gone(q))
    BY <2>1, Zenon
  <2>3. Unseen(queue, q) => Unseen(queue', q)
    BY <1>1, AppendSighted
  <2>4. Stored(q) => Stored(q)'
    BY DEF Stored, Gone, storeVars
  <2> QED BY <2>2, <2>3, <2>4, TrackedFrame
<1> QED BY <1>2, <1>3

(* A new timer takes over from its file's sighting and from an old timer.  *)
LEMMA ScheduleTracked ==
  ASSUME TypeOK, TimersOwned, OneTimer, \A q \in Paths : Tracked(q), Schedule
  PROVE  \A q \in Paths : Tracked(q)'
<1> DEFINE e == Head(queue)
           t == [id |-> lastTimer + 1, path |-> e.path, removed |-> e.removed]
<1>1. queue \in Seq(Sightings) /\ queue # <<>> /\ queue' = Tail(queue)
  BY DEF Schedule, TypeOK
<1>2. e \in Sightings /\ e.path \in Paths
  <2>1. e \in Sightings
    BY <1>1
  <2> QED BY <2>1 DEF Sightings
<1>3. /\ armed' = {u \in armed : u.id # timers[e.path]} \cup {t}
      /\ UNCHANGED <<disk, callbacks, pathMap, routines, errors>>
      /\ t.path = e.path /\ t.removed = e.removed
  BY DEF Schedule, fileVars, storeVars
<1> HIDE DEF t
<1> SUFFICES ASSUME NEW q \in Paths PROVE Tracked(q)'
  OBVIOUS
<1>4. Gone(q) \in BOOLEAN /\ Gone(q)' = Gone(q) /\ (Stored(q) => Stored(q)')
  BY <1>3 DEF Gone, Stored
<1>5. /\ Sighted(queue, q, Gone(q)) => \/ Sighted(queue', q, Gone(q))
                                       \/ Unseen(queue', q) /\ e = Seen(q, Gone(q))
      /\ Unseen(queue, q) => Unseen(queue', q) /\ e.path # q
  BY <1>1, <1>4, TailSighted
<1>6. CASE e.path # q
  <2>1. e # Seen(q, Gone(q))
    BY <1>6 DEF Seen
  <2>2. ASSUME NEW u, u.path = q, u \in armed PROVE u \in armed'
    <3>1. timers[q] = u.id /\ u.id # 0
      BY <2>2 DEF TimersOwned, TypeOK, Timers
    <3>2. timers[e.path] # u.id
      BY <1>2, <1>6, <3>1 DEF OneTimer
    <3> QED BY <1>3, <2>2, <3>2
  <2>3. \A u : u.path = q => (u \in armed' <=> u \in armed)
    BY <1>3, <1>6, <2>2
  <2> QED BY <1>3, <1>4, <1>5, <2>1, <2>3, TrackedFrame
<1>7. CASE e.path = q
  <2>1. Sighted(queue', q, Gone(q)) \/ (Unseen(queue', q) /\ e = Seen(q, Gone(q)))
    BY <1>5, <1>7 DEF Tracked
  <2>2. e = Seen(q, Gone(q)) => t \in armed' /\ t.path = q /\ t.removed = Gone(q)
    BY <1>3, <1>7 DEF Seen
  <2> QED BY <1>4, <2>1, <2>2 DEF Tracked
<1> QED BY <1>6, <1>7

(* A callback takes over from its timer.                                   *)
LEMMA FireTracked ==
  ASSUME TypeOK, TimersOwned, TimerIds, \A q \in Paths : Tracked(q),
         Prompt, NEW t \in armed, TimerFires(t)
  PROVE  \A q \in Paths : Tracked(q)'
<1> DEFINE d == [timer |-> t, at |-> "start", read |-> NoFile]
<1>1. /\ armed' = armed \ {t} /\ callbacks' = callbacks \cup {d}
      /\ UNCHANGED <<disk, queue, pathMap, routines, errors>>
      /\ \A cb \in callbacks : cb.timer.path # t.path
      /\ d.timer = t /\ d.at = "start"
  BY DEF TimerFires, fileVars, storeVars
<1>2. \A u \in armed : u.path = t.path => u = t
  BY DEF TimersOwned, TimerIds
<1> HIDE DEF d
<1> SUFFICES ASSUME NEW q \in Paths PROVE Tracked(q)'
  OBVIOUS
<1>3. Gone(q)' = Gone(q) /\ (Stored(q) => Stored(q)')
  BY <1>1 DEF Gone, Stored
<1>4. CASE q # t.path
  BY <1>1, <1>3, <1>4, TrackedFrame
<1>5. CASE q = t.path
  <2>1. \/ Sighted(queue, q, Gone(q))
        \/ Unseen(queue, q) /\ t.removed = Gone(q)
    BY <1>2, <1>5 DEF Tracked
  <2>2. \A u \in armed' : u.path # q
    BY <1>1, <1>2, <1>5
  <2>3. t.removed = Gone(q) => d \in callbacks' /\ d.timer.path = q /\ Fresh(d)'
    BY <1>1, <1>3, <1>5 DEF Fresh
  <2> QED BY <1>1, <1>3, <2>1, <2>2, <2>3 DEF Tracked
<1> QED BY <1>4, <1>5

(* The callback reads the file, and what it has read it stores.            *)
LEMMA CallbackTracked ==
  ASSUME Orderly, TypeOK, FromWrites, OneTimer, \A q \in Paths : Tracked(q),
         NEW cb \in callbacks, ParseFile(cb) \/ Apply(cb) \/ Forget(cb)
  PROVE  \A q \in Paths : Tracked(q)'
<1> DEFINE p == cb.timer.path
<1>0. /\ cb \in Callbacks /\ p \in Paths /\ cb.read \in Contents
      /\ cb.read = NoFile \/ <<p, cb.read>> \in Writes
      /\ \A d \in callbacks : d.timer.path = p => d = cb
  BY DEF TypeOK, Callbacks, Timers, Contents, FromWrites, OneTimer
<1>1. UNCHANGED <<disk, queue, armed>>
  BY DEF ParseFile, Apply, Forget, fileVars, timerVars
<1>2. Gone(p)' = Gone(p)
  BY <1>1 DEF Gone
<1>3. ASSUME NEW at, NEW c, Advance(cb, at, c)
      PROVE  /\ \A d : d.timer.path # p => (d \in callbacks' <=> d \in callbacks)
             /\ \A d \in callbacks' : d.timer.path = p => d.timer = cb.timer /\ d.at = at /\ d.read = c
             /\ \E d \in callbacks' : d.timer = cb.timer /\ d.at = at /\ d.read = c
  <2> DEFINE d == [cb EXCEPT !.at = at, !.read = c]
  <2>1. d.timer = cb.timer /\ d.at = at /\ d.read = c
    BY <1>0 DEF Callbacks
  <2>2. callbacks' = (callbacks \ {cb}) \cup {d}
    BY <1>3 DEF Advance
  <2> HIDE DEF d
  <2> QED BY <1>0, <2>1, <2>2
<1>4. CASE ParseFile(cb)
  <2>1. Advance(cb, "parsed", disk[p]) /\ cb.at = "start" /\ ~cb.timer.removed /\ UNCHANGED storeVars
    BY <1>4 DEF ParseFile
  <2>2. \A q \in Paths : Stored(q) => Stored(q)'
    BY <1>1, <2>1 DEF Stored, Gone, storeVars
  <2>3. \A q \in Paths \ {p} : Tracked(q)'
    BY <1>1, <1>3, <2>1, <2>2, TrackedFrame
  <2>4. ASSUME \/ Sighted(queue, p, Gone(p))
               \/ Unseen(queue, p) /\ \E t \in armed : t.path = p /\ t.removed = Gone(p)
        PROVE  Tracked(p)'
    BY <1>0, <1>1, <1>2, <2>4 DEF Tracked
  <2>5. ASSUME Unseen(queue, p), \A t \in armed : t.path # p, Fresh(cb)
        PROVE  Tracked(p)'
    <3>1. ~Gone(p)
      BY <2>1, <2>5 DEF Fresh
    <3>2. PICK d \in callbacks' : d.timer = cb.timer /\ d.at = "parsed" /\ d.read = disk[p]
      BY <1>3, <2>1
    <3>3. Fresh(d)'
      BY <1>0, <1>1, <1>2, <3>1, <3>2 DEF Fresh
    <3> QED BY <1>0, <1>1, <2>5, <3>2, <3>3 DEF Tracked
  <2>6. Tracked(p)'
    BY <1>0, <2>1, <2>4, <2>5 DEF Tracked
  <2> QED BY <2>3, <2>6
<1>5. CASE Apply(cb)
  <2>1. /\ Advance(cb, "forget", NoFile)
        /\ \/ cb.at = "parsed" /\ LoadFile(p, cb.read)
           \/ cb.at = "start" /\ cb.timer.removed /\ DeleteFile(p)
    BY <1>5 DEF Apply
  <2>2. \A q \in Paths \ {p} : Stored(q) => Stored(q)'
    BY <1>0, <1>1, <2>1, LoadFileStores, DeleteFileStores
  <2>3. \A q \in Paths \ {p} : Tracked(q)'
    BY <1>1, <1>3, <2>1, <2>2, TrackedFrame
  <2>4. ASSUME \/ Sighted(queue, p, Gone(p))
               \/ Unseen(queue, p) /\ \E t \in armed : t.path = p /\ t.removed = Gone(p)
        PROVE  Tracked(p)'
    BY <1>0, <1>1, <1>2, <2>4 DEF Tracked
  <2>5. ASSUME Unseen(queue, p), \A t \in armed : t.path # p, Fresh(cb)
        PROVE  Tracked(p)'
    <3>1. Stored(p)'
      <4>1. CASE cb.at = "parsed"
        BY <1>0, <1>1, <2>1, <2>5, <4>1, LoadFileStores DEF Fresh
      <4>2. CASE cb.at = "start"
        BY <1>0, <1>1, <2>1, <2>5, <4>2, DeleteFileStores DEF Fresh
      <4> QED BY <2>1, <4>1, <4>2
    <3>2. \A d \in callbacks' : d.timer.path = p => d.at = "forget"
      BY <1>3, <2>1
    <3> QED BY <1>1, <2>5, <3>1, <3>2 DEF Tracked
  <2>6. Tracked(p)'
    BY <1>0, <2>1, <2>4, <2>5 DEF Tracked
  <2> QED BY <2>3, <2>6
<1>6. CASE Forget(cb)
  <2>1. cb.at = "forget" /\ callbacks' = callbacks \ {cb} /\ UNCHANGED storeVars
    BY <1>6 DEF Forget
  <2>2. \A q \in Paths : Stored(q) => Stored(q)'
    BY <1>1, <2>1 DEF Stored, Gone, storeVars
  <2>3. \A q \in Paths \ {p} : Tracked(q)'
    BY <1>1, <2>1, <2>2, TrackedFrame
  <2>4. ~Fresh(cb)
    BY <2>1 DEF Fresh
  <2>5. Tracked(p)'
    BY <1>0, <1>1, <1>2, <2>1, <2>2, <2>4 DEF Tracked
  <2> QED BY <2>3, <2>5
<1> QED BY <1>4, <1>5, <1>6

(* While Watch runs, and when it starts, no file is lost sight of.         *)
LEMMA WatchedStep ==
  ASSUME Orderly, Inv, FromWrites, OneTimer, NoneLost, [Next]_vars, stage' = "watching"
  PROVE  \A p \in Paths : Tracked(p)'
<1> USE DEF Inv
<1>1. CASE StartWatch
  <2>1. /\ queue' = <<>> /\ armed' = {} /\ callbacks' = {}
        /\ UNCHANGED <<disk, pathMap, routines, errors>> /\ \A p \in Paths : Stored(p)
    BY <1>1 DEF StartWatch, NoneLost, StartInv, fileVars, timerVars, storeVars
  <2>2. \A p \in Paths : Stored(p)' /\ Unseen(queue', p)
    BY <2>1 DEF Stored, Gone, Unseen
  <2> QED BY <2>1, <2>2 DEF Tracked
<1>2. CASE ~StartWatch
  <2>1. stage = "watching" /\ \A p \in Paths : Tracked(p)
    BY <1>2 DEF NoneLost, Next, User, Write, Unlink, Rename, Edit, Startup, ReadDir, LoadNext,
       Register, Watch, Schedule, TimerFires, WatchEnds, Callback, ParseFile, Apply, Forget,
       Receive, Unsubscribe, vars
  <2>2. ASSUME NEW p \in Paths, NEW c \in Specs \cup {Broken}, Write(p, c)
        PROVE  \A q \in Paths : Tracked(q)'
    <3>1. /\ (FALSE = (disk'[p] = NoFile)) /\ \A q \in Paths \ {p} : disk'[q] = disk[q]
          /\ queue' = queue \o <<Seen(p, FALSE)>> /\ UNCHANGED <<armed, callbacks, storeVars>>
      BY <2>1, <2>2, FilesAssumption DEF Write, Edit, TypeOK, timerVars
    <3> QED BY <2>1, <3>1, EditTracked
  <2>3. ASSUME NEW p \in Paths, Unlink(p) PROVE \A q \in Paths : Tracked(q)'
    <3>1. /\ (TRUE = (disk'[p] = NoFile)) /\ \A q \in Paths \ {p} : disk'[q] = disk[q]
          /\ queue' = queue \o <<Seen(p, TRUE)>> /\ UNCHANGED <<armed, callbacks, storeVars>>
      BY <2>1, <2>3 DEF Unlink, Edit, TypeOK, timerVars
    <3> QED BY <2>1, <3>1, EditTracked
  <2>4. CASE User
    BY <2>2, <2>3, <2>4 DEF User, Rename, Orderly
  <2>5. CASE Schedule
    BY <2>1, <2>5, ScheduleTracked
  <2>6. ASSUME NEW t \in armed, TimerFires(t) PROVE \A q \in Paths : Tracked(q)'
    BY <2>1, <2>6, FireTracked DEF Orderly
  <2>7. CASE Callback
    BY <2>1, <2>7, CallbackTracked DEF Callback
  <2>8. CASE Receive \/ UNCHANGED vars
    <3>1. UNCHANGED <<disk, queue, armed, callbacks, pathMap, routines, errors>>
      BY <2>8 DEF Receive, vars, fileVars, timerVars, storeVars
    <3>2. \A q \in Paths : Stored(q) => Stored(q)'
      BY <3>1 DEF Stored, Gone
    <3> QED BY <2>1, <3>1, <3>2, TrackedFrame
  <2>9. ~Startup /\ ~WatchEnds /\ ~Unsubscribe
    BY <1>2, <2>1 DEF Startup, ReadDir, LoadNext, Register, WatchEnds, Unsubscribe
  <2> QED BY <2>4, <2>5, <2>6, <2>7, <2>8, <2>9 DEF Next, Watch
<1> QED BY <1>1, <1>2

(* Every step keeps sight of every file.                                   *)
LEMMA LostStep ==
  ASSUME Orderly PROVE Inv /\ FromWrites /\ OneTimer /\ NoneLost /\ [Next]_vars => NoneLost'
<1> SUFFICES ASSUME Inv, FromWrites, OneTimer, NoneLost, [Next]_vars PROVE NoneLost'
  OBVIOUS
<1>1. stage' = "watching" => \A p \in Paths : Tracked(p)'
  BY WatchedStep
<1>2. ASSUME NEW p \in Paths, LoadNext(p) PROVE NoneLost'
  <2>1. /\ disk[p] \in Contents /\ LoadFile(p, disk[p]) /\ UNCHANGED <<disk, queue>>
        /\ stage = "loading" /\ stage' = "loading" /\ p \in todo /\ todo' = todo \ {p}
        /\ disk[p] = NoFile \/ <<p, disk[p]>> \in Writes
    BY <1>2 DEF LoadNext, fileVars, Inv, TypeOK, Contents, FromWrites, Gone
  <2>2. /\ queue' = <<>> /\ ~Gone(p)
        /\ \A q \in Paths : IF q \in todo THEN ~Gone(q) ELSE Stored(q)
    BY <2>1 DEF NoneLost
  <2>3. Stored(p)' /\ \A q \in Paths \ {p} : Stored(q) => Stored(q)'
    BY <2>1, <2>2, LoadFileStores DEF Inv
  <2>4. \A q \in Paths : IF q \in todo' THEN ~Gone(q)' ELSE Stored(q)'
    BY <2>1, <2>2, <2>3 DEF Gone
  <2> QED BY <2>1, <2>2, <2>4 DEF NoneLost
<1>3. CASE ReadDir
  <2>1. /\ stage = "init" /\ stage' = "loading" /\ todo' = {p \in Paths : disk[p] # NoFile}
        /\ UNCHANGED <<disk, queue, pathMap, routines, errors>>
    BY <1>3 DEF ReadDir, fileVars, storeVars
  <2>2. queue = <<>> /\ errors = {} /\ \A p \in Paths : pathMap[p] = NoName
    BY <2>1 DEF NoneLost
  <2>3. \A p \in Paths : IF p \in todo' THEN ~Gone(p)' ELSE Stored(p)'
    BY <2>1, <2>2, FilesAssumption DEF Gone, Stored
  <2> QED BY <2>1, <2>2, <2>3 DEF NoneLost
<1>4. CASE Register \/ (UNCHANGED vars /\ stage # "watching")
  <2>1. /\ UNCHANGED <<disk, queue, pathMap, routines, errors, todo>>
        /\ \/ stage = "loading" /\ todo = {} /\ stage' = "registered"
           \/ stage # "watching" /\ UNCHANGED stage
    BY <1>4 DEF Register, vars, fileVars, storeVars
  <2>2. \A p \in Paths : Gone(p)' = Gone(p) /\ (Stored(p) => Stored(p)')
    BY <2>1 DEF Gone, Stored
  <2> QED BY <2>1, <2>2 DEF NoneLost
<1>5. CASE Receive
  <2>1. stage \in {"watching", "stopped", "unsubscribed"}
    BY <1>5 DEF Receive, Inv, StartInv, TypeOK, Stages
  <2> QED BY <1>1, <1>5, <2>1 DEF Receive, NoneLost
<1>6. CASE StartWatch \/ User \/ Watch \/ Callback \/ Unsubscribe \/ (UNCHANGED vars /\ stage = "watching")
  <2>1. stage' \in {"watching", "stopped", "unsubscribed"}
    BY <1>6 DEF StartWatch, User, Write, Unlink, Rename, Edit, Watch, Schedule, TimerFires,
       WatchEnds, Callback, ParseFile, Apply, Forget, Unsubscribe, vars, Orderly,
       Inv, StartInv, TypeOK, Stages
  <2> QED BY <1>1, <2>1 DEF NoneLost
<1> QED BY <1>2, <1>3, <1>4, <1>5, <1>6 DEF Next, Startup

(* Nothing has been read at the start.                                     *)
LEMMA InitEdits == Init => EditsInv
BY FilesAssumption DEF Init, EditsInv, FromWrites, Gone, OneTimer, NoneLost

-----------------------------------------------------------------------------
(* The theorems.                                                           *)

(* Inv is an invariant: each part is preserved from the types, itself and, *)
(* for ViewFollowsStore, the start-up, for EventsNamed, NoOrphan.          *)
LEMMA InvStep == Inv /\ [Next]_vars => Inv'
BY TypeStep, OwnedStep, TimersStep, StartStep, FollowsStep, NamedStep DEF Inv

(* Every run of the store keeps the invariant.                             *)
THEOREM Invariance == Spec => []Inv
BY InitInv, InvStep, PTL DEF Spec

(* The variables keep their types; the channel never exceeds its capacity. *)
THEOREM TypeCorrectness == Spec => []TypeOK
<1>1. Inv => TypeOK
  BY DEF Inv
<1> QED BY <1>1, Invariance, PTL

(* However files are edited, renamed, exchanged and loaded, in any order,  *)
(* every loaded routine is found through the path it came from.            *)
THEOREM LoadedIsOwned == Spec => []NoOrphan
<1>1. Inv => NoOrphan
  BY DEF Inv
<1> QED BY <1>1, Invariance, PTL

(* drainTimers reaches every timer that could still fire.                  *)
THEOREM DrainIsComplete == Spec => []TimersOwned
<1>1. Inv => TimersOwned
  BY DEF Inv
<1> QED BY <1>1, Invariance, PTL

(* As long as no event is dropped, the routines registered with the        *)
(* scheduler and the events on their way determine the store's.            *)
THEOREM SubscriberFollows == Spec => []ViewFollowsStore
<1>1. Inv => ViewFollowsStore
  BY DEF Inv
<1> QED BY <1>1, Invariance, PTL

(* What the store and the queues before it hold is tracked to the end of   *)
(* Watch, file by file, if the directory is kept in order.                 *)
LEMMA EditsStep == ASSUME Orderly PROVE Inv /\ EditsInv /\ [Next]_vars => EditsInv'
BY WritesStep, OneTimerStep, LostStep DEF Inv, EditsInv, Orderly

(* From start-up to the end of Watch no file's present state is lost: the  *)
(* newest thing under way for it knows that state, or the maps have it.    *)
THEOREM EditsTracked == ASSUME Orderly PROVE Spec => []EditsInv
BY InitEdits, EditsStep, Invariance, PTL DEF Spec

(* If all is quiet and no event was dropped, the daemon's routines are the *)
(* store's and the store's those of the files.                             *)
LEMMA QuietArrived == ASSUME Inv, EditsInv, ~dropped PROVE EditsTakeEffect
<1> SUFFICES ASSUME Quiet
             PROVE  /\ \A p \in Paths : disk[p] \in Specs => view[disk[p].name] = Routine(p, disk[p])
                    /\ \A n \in Names : view[n] # NoRoutine => disk[view[n].path] # NoFile
                    /\ errors = {p \in Paths : disk[p] = Broken}
  BY DEF EditsTakeEffect
<1>1. \A n \in Names : view[n] = routines[n]
  <2>1. Follows(chan, view, routines) /\ Len(chan) = 0
    BY DEF Inv, ViewFollowsStore, Quiet, Subscribed
  <2> QED BY <2>1 DEF Follows
<1>2. \A p \in Paths : Stored(p)
  <2>1. \A p \in Paths : Tracked(p)
    BY DEF EditsInv, NoneLost, Quiet
  <2>2. Len(queue) = 0 /\ armed = {} /\ callbacks = {}
    BY DEF Quiet
  <2>3. \A p, gone : ~Sighted(queue, p, gone)
    BY <2>2 DEF Sighted
  <2> QED BY <2>1, <2>2, <2>3, Zenon DEF Tracked
<1>3. \A p \in Paths : disk[p] \in Specs => view[disk[p].name] = Routine(p, disk[p])
  BY <1>1, <1>2, FilesAssumption DEF Stored
<1>4. \A n \in Names : view[n] # NoRoutine => disk[view[n].path] # NoFile
  <2>1. \A n \in Names : routines[n] # NoRoutine =>
          routines[n].path \in Paths /\ pathMap[routines[n].path] = n
    BY DEF Inv, NoOrphan, TypeOK, Routines
  <2>2. \A p \in Paths : disk[p] = NoFile => pathMap[p] = NoName
    BY <1>2 DEF Stored, Gone
  <2> SUFFICES ASSUME NEW n \in Names, view[n] # NoRoutine PROVE disk[view[n].path] # NoFile
    OBVIOUS
  <2>3. view[n] = routines[n] /\ view[n].path \in Paths /\ pathMap[view[n].path] = n
    BY <1>1, <2>1
  <2> QED BY <2>2, <2>3, FilesAssumption
<1>5. errors = {p \in Paths : disk[p] = Broken}
  BY <1>2 DEF Inv, TypeOK, Stored
<1> QED BY <1>3, <1>4, <1>5

(* docs/cli.md:9, for any number of files, names and edits: when all is    *)
(* quiet the daemon has the directory, if no event was dropped; Orderly    *)
(* says of which directories.                                              *)
THEOREM EditsArrive == ASSUME Orderly PROVE Spec => [](~dropped => EditsTakeEffect)
<1>1. Inv /\ EditsInv => (~dropped => EditsTakeEffect)
  BY QuietArrived
<1> QED BY <1>1, Invariance, EditsTracked, PTL
=============================================================================
