----------------------------- MODULE MCExecution -----------------------------
(* Two executions, which may want the same directory for their worktrees.  *)
EXTENDS Execution

CONSTANTS e1, e2, p
=============================================================================
