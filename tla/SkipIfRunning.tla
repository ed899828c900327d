--------------------------- MODULE SkipIfRunning ---------------------------
(***************************************************************************)
(* What the scheduler promises of the runs of routines, without cron       *)
(* entries, mutex objects or goroutines: a fire either starts a run, when  *)
(* no run of the same routine is under way, or is dropped; a run that has  *)
(* started ends.  internal/scheduler/scheduler.go, fireFunc and Remove.    *)
(***************************************************************************)

CONSTANTS
  Names,    \* routine names
  Fires,    \* goroutines that may carry a run
  NoName    \* the goroutine carries no run

VARIABLE running   \* running[f]: the routine goroutine f is running

Init == running = [f \in Fires |-> NoName]

(* f starts a run of n: no other goroutine runs n. *)
Begin(f, n) ==
  /\ running[f] = NoName
  /\ \A g \in Fires : running[g] # n
  /\ running' = [running EXCEPT ![f] = n]

End(f) ==
  /\ running[f] # NoName
  /\ running' = [running EXCEPT ![f] = NoName]

Next == \E f \in Fires : End(f) \/ \E n \in Names : Begin(f, n)

Safe == Init /\ [][Next]_running

(* Every run that has started ends.  End(f) stays enabled until it is      *)
(* taken and nothing else undoes Begin, so this is WF_running(End(f)),     *)
(* without the ENABLED that TLC cannot evaluate through a refinement.      *)
Ends == \A f \in Fires : (running[f] # NoName) ~> (running[f] = NoName)

Spec == Safe /\ Ends
=============================================================================
