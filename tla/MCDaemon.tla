------------------------------ MODULE MCDaemon ------------------------------
(* The daemon with one file and one routine.                               *)
EXTENDS Daemon

CONSTANTS a, f1, f2

Content(v, enabled, cronOk, once) ==
  [name |-> a, version |-> v, enabled |-> enabled, cronOk |-> cronOk,
   onFailure |-> "skip", retries |-> 0, once |-> once]

(* The file as it is edited: a one-shot, the same disabled, and one with a *)
(* schedule that cron rejects.                                             *)
OneShot  == Content(1, TRUE, TRUE, TRUE)
Disabled == Content(2, FALSE, TRUE, TRUE)

Rejected == Content(3, TRUE, FALSE, FALSE)

AllContents == {OneShot, Disabled, Rejected}
OneFile == {1} \X AllContents
NoMoves == {}
=============================================================================
