---------------------------- MODULE MCScheduler ----------------------------
(* The scheduler on two routines and two concurrent fires.                 *)
EXTENDS Scheduler

CONSTANTS a, b, f1, f2

Routine(n, enabled, onFailure, retries, once) ==
  [name |-> n, enabled |-> enabled, cronOk |-> TRUE,
   onFailure |-> onFailure, retries |-> retries, once |-> once]

(* Routine a as it is edited: a one-shot that is retried, then disabled.   *)
OneShot  == Routine(a, TRUE, "retry", 1, TRUE)
Disabled == Routine(a, FALSE, "retry", 1, FALSE)

(* Routine a and b without any of that. *)
Retried  == Routine(a, TRUE, "retry", 1, FALSE)
Plain    == Routine(b, TRUE, "alert", 0, FALSE)

Edits    == {OneShot, Disabled, Plain}
TwoNames == {Retried, Plain}

(* FireEnds of f1: it returns if its adapter does, whatever is reloaded,   *)
(* stopped or hanging meanwhile.  Goroutines differ in nothing that Init,  *)
(* Next or Fairness could tell, so f1 stands for each.                     *)
FireEndsOne == AdapterReturns(f1) => FireReturns(f1)
=============================================================================
