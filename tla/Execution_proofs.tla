-------------------------- MODULE Execution_proofs --------------------------
(***************************************************************************)
(* Proofs, for any number of executions and directories, that executions   *)
(* keep out of each other's worktrees, clean up after themselves, leave no *)
(* process of a timed-out group and report what happened.                  *)
(***************************************************************************)
EXTENDS Execution, TLAPS

(* Nothing runs and nothing is checked out at the start.                   *)
LEMMA InitInv == Init => Inv
BY PathsAssumption
DEF Init, Inv, TypeOK, Points, Over, Outcomes, WorktreeKept, CleanedUp, TreeKilled,
    OutcomeTruthful, Phase, Checkout, Clean, Alive

(* The types are kept: each action's new values are in range.              *)
LEMMA StepType ==
  ASSUME TypeOK, [Next]_vars PROVE TypeOK'
<1> USE HelperAssumption DEF TypeOK, Points, Outcomes, gitVars, runVars, Goto
<1>1. ASSUME UNCHANGED vars PROVE TypeOK'
  BY <1>1 DEF vars
<1> SUFFICES ASSUME NEW e \in Execs,
                    \/ Begin(e) \/ Own(e) \/ Hook(e) \/ Stop(e) \/ CommandContext(e)
                    \/ ChildExits(e) \/ ChildForks(e) \/ HelperExits(e) \/ Crash(e)
             PROVE  TypeOK'
  BY <1>1 DEF Next
<1>2. CASE Begin(e) BY <1>2 DEF Begin
<1>3. CASE AddWorktree(e) BY <1>3 DEF AddWorktree
<1>4. CASE AddFails(e) BY <1>4 DEF AddFails
<1>5. CASE StartChild(e) BY <1>5 DEF StartChild
<1>6. CASE StartFails(e) BY <1>6 DEF StartFails, End, After
<1>7. CASE WaitReturns(e) BY <1>7 DEF WaitReturns
<1>8. CASE TakeDone(e) BY <1>8 DEF TakeDone, End, After
<1>9. CASE TakeCtx(e) BY <1>9 DEF TakeCtx, KillProcessTree
<1>10. CASE Drain(e) BY <1>10 DEF Drain, End, After
<1>11. CASE Expire(e) BY <1>11 DEF Expire
<1>12. CASE RemoveWorktree(e) BY <1>12 DEF RemoveWorktree
<1>13. CASE DeleteBranch(e) BY <1>13 DEF DeleteBranch
<1>14. CASE Hook(e) BY <1>14 DEF Hook, HookDone, HookFails, End, After
<1>15. CASE Stop(e) BY <1>15 DEF Stop
<1>16. CASE CommandContext(e) BY <1>16 DEF CommandContext
<1>17. CASE ChildExits(e) BY <1>17 DEF ChildExits
<1>18. CASE ChildForks(e) BY <1>18 DEF ChildForks
<1>19. CASE HelperExits(e) BY <1>19 DEF HelperExits
<1>20. CASE Crash(e) BY <1>20 DEF Crash
<1> QED
  BY <1>2, <1>3, <1>4, <1>5, <1>6, <1>7, <1>8, <1>9, <1>10, <1>11, <1>12, <1>13,
     <1>14, <1>15, <1>16, <1>17, <1>18, <1>19, <1>20 DEF Own

Processes == TreeKilled /\ OutcomeTruthful /\ \A f \in Execs : Phase(f)
Checkouts == WorktreeKept /\ CleanedUp /\ \A f \in Execs : Checkout(f)

(* No step lets a process or a status of an execution go astray. *)
LEMMA StepProcesses ==
  ASSUME Inv, [Next]_vars PROVE Processes'
<1> USE HelperAssumption, PathsAssumption DEF gitVars, runVars, Goto, Processes, Phase, Alive, TreeKilled, OutcomeTruthful
<1>1. ASSUME UNCHANGED vars PROVE Processes'
  BY <1>1 DEF vars, Inv, TypeOK
<1> SUFFICES ASSUME NEW e \in Execs,
                    \/ Begin(e) \/ Own(e) \/ Hook(e) \/ Stop(e) \/ CommandContext(e)
                    \/ ChildExits(e) \/ ChildForks(e) \/ HelperExits(e) \/ Crash(e)
             PROVE  Processes'
  BY <1>1 DEF Next
<1>2. CASE Begin(e) BY <1>2 DEF Begin, Inv, TypeOK
<1>3. CASE AddWorktree(e) BY <1>3 DEF AddWorktree, Inv, TypeOK
<1>4. CASE AddFails(e) BY <1>4 DEF AddFails, Inv, TypeOK
<1>5. CASE StartChild(e) BY <1>5 DEF StartChild, Inv, TypeOK
<1>6. CASE StartFails(e) BY <1>6 DEF StartFails, End, After, Inv, TypeOK
<1>7. CASE WaitReturns(e) BY <1>7 DEF WaitReturns, Holds, Inv, TypeOK
<1>8. CASE TakeDone(e) BY <1>8 DEF TakeDone, End, After, Inv, TypeOK
<1>9. CASE TakeCtx(e) BY <1>9 DEF TakeCtx, KillProcessTree, Inv, TypeOK
<1>10. CASE Drain(e) BY <1>10 DEF Drain, End, After, Inv, TypeOK
<1>11. CASE Expire(e) BY <1>11 DEF Expire, Inv, TypeOK
<1>12. CASE RemoveWorktree(e) BY <1>12 DEF RemoveWorktree, Inv, TypeOK
<1>13. CASE DeleteBranch(e) BY <1>13 DEF DeleteBranch, Inv, TypeOK
<1>14. CASE Hook(e) BY <1>14 DEF Hook, HookDone, HookFails, End, After, Inv, TypeOK
<1>15. CASE Stop(e) BY <1>15 DEF Stop, Inv, TypeOK
<1>16. CASE CommandContext(e) BY <1>16 DEF CommandContext, Inv, TypeOK
<1>17. CASE ChildExits(e) BY <1>17 DEF ChildExits, Inv, TypeOK
<1>18. CASE ChildForks(e) BY <1>18 DEF ChildForks, Inv, TypeOK
<1>19. CASE HelperExits(e) BY <1>19 DEF HelperExits, Inv, TypeOK
<1>20. CASE Crash(e) BY <1>20 DEF Crash, Inv, TypeOK
<1> QED
  BY <1>2, <1>3, <1>4, <1>5, <1>6, <1>7, <1>8, <1>9, <1>10, <1>11, <1>12, <1>13,
     <1>14, <1>15, <1>16, <1>17, <1>18, <1>19, <1>20 DEF Own

(* No step takes or leaves a worktree that is not its own. *)
LEMMA StepCheckouts ==
  ASSUME Inv, [Next]_vars PROVE Checkouts'
<1> USE HelperAssumption, PathsAssumption DEF gitVars, runVars, Goto, Checkouts, Checkout, Clean, WorktreeKept, CleanedUp
<1>1. ASSUME UNCHANGED vars PROVE Checkouts'
  BY <1>1 DEF vars, Inv, TypeOK
<1> SUFFICES ASSUME NEW e \in Execs,
                    \/ Begin(e) \/ Own(e) \/ Hook(e) \/ Stop(e) \/ CommandContext(e)
                    \/ ChildExits(e) \/ ChildForks(e) \/ HelperExits(e) \/ Crash(e)
             PROVE  Checkouts'
  BY <1>1 DEF Next
<1>2. CASE Begin(e) BY <1>2 DEF Begin, Inv, TypeOK
<1>3. CASE AddWorktree(e) BY <1>3 DEF AddWorktree, Inv, TypeOK
<1>4. CASE AddFails(e) BY <1>4 DEF AddFails, Inv, TypeOK
<1>5. CASE StartChild(e) BY <1>5 DEF StartChild, Inv, TypeOK
<1>6. CASE StartFails(e) BY <1>6 DEF StartFails, End, After, Inv, TypeOK
<1>7. CASE WaitReturns(e) BY <1>7 DEF WaitReturns, Holds, Inv, TypeOK
<1>8. CASE TakeDone(e) BY <1>8 DEF TakeDone, End, After, Inv, TypeOK
<1>9. CASE TakeCtx(e) BY <1>9 DEF TakeCtx, KillProcessTree, Inv, TypeOK
<1>10. CASE Drain(e) BY <1>10 DEF Drain, End, After, Inv, TypeOK
<1>11. CASE Expire(e) BY <1>11 DEF Expire, Inv, TypeOK
<1>12. CASE RemoveWorktree(e) BY <1>12 DEF RemoveWorktree, Inv, TypeOK
<1>13. CASE DeleteBranch(e) BY <1>13 DEF DeleteBranch, Inv, TypeOK
<1>14. CASE Hook(e) BY <1>14 DEF Hook, HookDone, HookFails, End, After, Inv, TypeOK
<1>15. CASE Stop(e) BY <1>15 DEF Stop, Inv, TypeOK
<1>16. CASE CommandContext(e) BY <1>16 DEF CommandContext, Inv, TypeOK
<1>17. CASE ChildExits(e) BY <1>17 DEF ChildExits, Inv, TypeOK
<1>18. CASE ChildForks(e) BY <1>18 DEF ChildForks, Inv, TypeOK
<1>19. CASE HelperExits(e) BY <1>19 DEF HelperExits, Inv, TypeOK
<1>20. CASE Crash(e) BY <1>20 DEF Crash, Inv, TypeOK
<1> QED
  BY <1>2, <1>3, <1>4, <1>5, <1>6, <1>7, <1>8, <1>9, <1>10, <1>11, <1>12, <1>13,
     <1>14, <1>15, <1>16, <1>17, <1>18, <1>19, <1>20 DEF Own

(* The invariant holds throughout, with the properties that are its parts. *)
THEOREM Invariance == Spec => []Inv
<1>1. Inv /\ [Next]_vars => Inv'
  BY StepType, StepProcesses, StepCheckouts DEF Inv, Processes, Checkouts
<1> QED BY <1>1, InitInv, PTL DEF Spec

(* The variables keep their types.                                         *)
THEOREM TypeCorrect == Spec => []TypeOK
BY Invariance, PTL DEF Inv

(* No execution loses its worktree to another, whichever directories they  *)
(* want and whatever fails.                                                *)
THEOREM WorktreesKept == Spec => []WorktreeKept
BY Invariance, PTL DEF Inv

(* Nothing but a crash or git leaves a worktree or a branch behind.        *)
THEOREM ExecutionsCleanUp == Spec => []CleanedUp
BY Invariance, PTL DEF Inv

(* runCmd never returns while its child runs, and after a time-out leaves  *)
(* no process in the child's group.                                        *)
THEOREM TreesKilled == Spec => []TreeKilled
BY Invariance, PTL DEF Inv

(* The reported status is what happened, however the races go.             *)
THEOREM OutcomesTruthful == Spec => []OutcomeTruthful
BY Invariance, PTL DEF Inv
=============================================================================
