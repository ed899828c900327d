--------------------------- MODULE MCRoutineSpec ---------------------------
(* Every form of schedule in an otherwise plain routine, and every         *)
(* combination of the other fields; ints of eight bits, in which 11 days   *)
(* wrap around to 8 hours, and durations of at most 100 hours.             *)
EXTENDS RoutineSpec

Sched(k, x, y) == [kind |-> k, a |-> x, b |-> y]

EverySchedule ==
  {Sched("hourly", 0, 0), Sched("other", 0, 0), Sched("cron", 30, 0), Sched("cron", 60, 0),
   Sched("every", NoDays, -5)}
  \cup {Sched("daily", h, n) : h \in {-1, 0, 9, 23, 24}, n \in {-1, 0, 30, 59, 60}}
  \cup {Sched("every", d, h) : d \in {NoDays} \cup 0 .. 130, h \in {0, 12, 100}}

Plain(s) ==
  [schedule |-> s, agent |-> "claude", prompt |-> Var, command |-> FALSE,
   worktree |-> FALSE, workdir |-> "", timeout |-> 0, env |-> TRUE, sound |-> TRUE]

Files ==
  {Plain(s) : s \in EverySchedule} \cup
  [schedule : {Sched("hourly", 0, 0)}, agent : {"shell", "claude", "codex"},
   prompt : {"", Var}, command : BOOLEAN, worktree : BOOLEAN, workdir : {"", Var},
   timeout : {-1, 0, 5}, env : BOOLEAN, sound : BOOLEAN]
=============================================================================
