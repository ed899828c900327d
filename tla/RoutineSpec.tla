---------------------------- MODULE RoutineSpec ----------------------------
(***************************************************************************)
(* A spec file on its way from the directory to a child process: Parse and *)
(* Validate (internal/spec), the schedule's translation for cron           *)
(* (AddOrReplace), and the checks scheduler, worktree and adapters make    *)
(* again before they start it.                                             *)
(***************************************************************************)
EXTENDS Integers, Sequences

CONSTANTS
  Raws,      \* spec files
  MaxInt,    \* the largest int
  MaxHours   \* the longest time.Duration

Unset == "unset"   \* an environment variable that is not set
Bad   == "bad"     \* an env_file that cannot be parsed
Any   == -1        \* `*` in a cron field
NoDays == -1       \* `every` without a `d` part
Sources == {Unset, "", "r", "d", "p"}
Var     == "var"   \* the text ${V}

(* Of a schedule the two numbers: daily a:b, every <a>d<b>h, and a cron    *)
(* expression of five fields, the first of which is a.                     *)
Schedules ==
  {s \in [kind : {"hourly", "daily", "every", "cron", "other"}, a : Int, b : Int] :
     s.kind = "every" => s.a = NoDays \/ (s.a >= 0 /\ s.b >= 0)}

(* "sound": name, on_failure, retries and the keys of env are in order.    *)
Routines ==
  [schedule : Schedules, agent : STRING, prompt : {"", Var} \cup Sources,
   command : BOOLEAN, worktree : BOOLEAN, workdir : {"", Var} \cup Sources,
   timeout : Int, env : BOOLEAN, sound : BOOLEAN]

ASSUME RawsAssumption == Raws \subseteq Routines
ASSUME IntAssumption ==
  MaxInt \in Nat /\ MaxHours \in Nat /\ MaxHours <= MaxInt /\ MaxInt > 0

VARIABLES
  raw,      \* the file
  envFile,  \* what V is in the routine's env_file, ...
  daemon,   \* ... in the daemon's env file ...
  process,  \* ... and in the environment of the process
  stage,    \* how far it has come
  routine,  \* what Parse made of it
  value,    \* what ${V} was expanded to
  entry,    \* its cron entry
  child     \* what V is in the child's environment

given == <<raw, envFile, daemon, process>>
vars == <<given, stage, routine, value, entry, child>>

Agents == {"shell", "claude", "gemini"}
DefaultTimeout == 10
NoEntry == [every |-> 0, fields |-> <<>>]

-----------------------------------------------------------------------------
(* Schedules. *)

(* Two's complement: a product of ints that is too large wraps around.     *)
Wrap(x) == IF x <= MaxInt THEN x
           ELSE ((x + MaxInt + 1) % (2 * (MaxInt + 1))) - (MaxInt + 1)

Days(s) == IF s.a = NoDays THEN 0 ELSE Wrap(24 * s.a)

(* expandDays writes the product in front of the rest, which takes its sign. *)
Sum(s) == IF Days(s) < 0 THEN Days(s) - s.b ELSE Days(s) + s.b

(* Hours in `every <a>d<b>h`.  0 stands for the error of time.ParseDuration,*)
(* which is what a number of days that is no int comes to as well.         *)
Hours(s) ==
  IF s.a > MaxInt \/ Sum(s) > MaxHours \/ -Sum(s) > MaxHours THEN 0 ELSE Sum(s)

Fields(minute, hour) == [every |-> 0, fields |-> <<minute, hour, Any, Any, Any>>]

(* Seeded bug: hour and minute in the order they are written. *)
DailySwapped(h, m) == Fields(h, m)

Daily(h, m) == Fields(m, h)

Every(hours) == [every |-> hours, fields |-> <<>>]

(* A cron expression of five fields is passed on as it is.  NoEntry is an  *)
(* error.                                                                  *)
ParseSchedule(s) ==
  CASE s.kind = "hourly" -> Fields(0, Any)
    [] s.kind = "daily" /\ s.a \in 0 .. 23 /\ s.b \in 0 .. 59 -> Daily(s.a, s.b)
    [] s.kind = "every" /\ Hours(s) > 0 -> Every(Hours(s))
    [] s.kind = "cron" -> Fields(s.a, Any)
    [] OTHER -> NoEntry

(* Seeded bug: the seconds are left out. *)
CronExprBare(e) == e

(* AddOrReplace prepends the seconds. *)
CronExpr(e) == IF Len(e.fields) = 5 THEN [e EXCEPT !.fields = <<0>> \o @] ELSE e

(* What cron.WithSeconds takes. *)
CronAccepts(e) ==
  \/ e.every > 0
  \/ /\ Len(e.fields) = 6
     /\ \A i \in {1, 2} : e.fields[i] \in {Any} \cup 0 .. 59
     /\ e.fields[3] \in {Any} \cup 0 .. 23

-----------------------------------------------------------------------------
(* Environment variables. *)

(* Seeded bug: the parent's values first. *)
LookupParentFirst ==
  IF daemon # Unset THEN daemon
  ELSE IF process # Unset THEN process
  ELSE IF envFile # Unset THEN envFile ELSE Var

(* perRoutineVals, then MergeLookup: the daemon's env file, then os.LookupEnv.*)
Lookup ==
  IF envFile # Unset THEN envFile
  ELSE IF daemon # Unset THEN daemon
  ELSE IF process # Unset THEN process ELSE Var

Expand(s) == IF s = Var THEN Lookup ELSE s

(* mergeEnv: the routine's `env:` over the process's environment. *)
ChildEnv == IF routine.env THEN value ELSE process

-----------------------------------------------------------------------------
Init ==
  /\ raw \in Raws
  /\ envFile \in {Unset, "", "r", Bad}
  /\ daemon \in {Unset, "", "d"} /\ process \in {Unset, "", "p"}
  /\ stage = "file" /\ routine = raw /\ value = Unset
  /\ entry = NoEntry /\ child = Unset

TimeoutOf(t) == IF t = 0 THEN DefaultTimeout ELSE t

Parsed == [raw EXCEPT !.prompt = Expand(@), !.workdir = Expand(@), !.timeout = TimeoutOf(@)]

(* An env_file that is missing is empty; one that is malformed is an error.*)
Parse ==
  /\ stage = "file"
  /\ \/ /\ envFile = Bad
        /\ stage' = "rejected"
        /\ UNCHANGED <<routine, value>>
     \/ /\ envFile # Bad
        /\ stage' = "parsed"
        /\ value' = Lookup
        /\ routine' = Parsed
  /\ UNCHANGED <<given, entry, child>>

Valid(r) ==
  /\ r.sound /\ r.agent \in Agents
  /\ ParseSchedule(r.schedule) # NoEntry
  /\ IF r.agent = "shell" THEN r.command ELSE r.prompt # ""
  /\ r.timeout >= 0
  /\ r.worktree => r.workdir # ""

(* Seeded bug: the text of the file is validated, before expansion. *)
ValidateUnexpanded ==
  /\ stage = "parsed"
  /\ stage' = IF Valid(raw) THEN "valid" ELSE "rejected"
  /\ UNCHANGED <<given, routine, value, entry, child>>

Validate ==
  /\ stage = "parsed"
  /\ stage' = IF Valid(routine) THEN "valid" ELSE "rejected"
  /\ UNCHANGED <<given, routine, value, entry, child>>

(* AddOrReplace, which parses the schedule again, and c.AddFunc. *)
Add ==
  /\ stage = "valid"
  /\ LET e == CronExpr(ParseSchedule(routine.schedule))
     IN  IF CronAccepts(e) THEN stage' = "scheduled" /\ entry' = e
         ELSE stage' = "unscheduled" /\ UNCHANGED entry
  /\ UNCHANGED <<given, routine, value, child>>

(* executeOnce up to cmd.Start.  `routines run` comes here without Add.    *)
Execute ==
  /\ stage \in {"valid", "scheduled"}
  /\ IF /\ routine.agent \in Agents
        /\ routine.worktree => routine.workdir # ""
        /\ IF routine.agent = "shell" THEN routine.command ELSE routine.prompt # ""
     THEN stage' = "started" /\ child' = ChildEnv
     ELSE stage' = "broken" /\ UNCHANGED child
  /\ UNCHANGED <<given, routine, value, entry>>

Next == Parse \/ Validate \/ Add \/ Execute

Spec == Init /\ [][Next]_vars

-----------------------------------------------------------------------------
(* Properties. *)

TypeOK ==
  /\ raw \in Raws /\ routine \in Routines
  /\ stage \in {"file", "parsed", "rejected", "valid", "scheduled", "unscheduled",
                "started", "broken"}
  /\ entry.every \in 0 .. MaxHours /\ entry.fields \in Seq(Int)
  /\ value \in Sources \cup {Var} /\ child \in Sources \cup {Var}

(* Whatever the variables expand to, a routine Validate accepts is never   *)
(* refused by the scheduler, the worktree or its adapter, which make their *)
(* own checks at every fire; and it is never started without a time-out,   *)
(* which is what zero, Parse's word for the default, means to runCmd.      *)
AcceptedRuns == stage # "broken" /\ (stage = "started" => routine.timeout > 0)

(* Cron refuses an accepted routine only for fields its author wrote:      *)
(* what ParseSchedule makes of the other forms always parses.              *)
AcceptedScheduled == stage = "unscheduled" => raw.schedule.kind = "cron"

Fires(e, t) == \A i \in 1 .. 3 : e.fields[i] \in {Any, t[i]}

Times == {0, 1} \X {0, 30, 59} \X {0, 9, 23}

(* The entry fires when docs/spec.md's schedule grammar says: every day at *)
(* HH:MM, at every full hour, every Nd<H>h (if 24*N is an int).  However   *)
(* the days overflow, cron never gets a period that is no duration or not  *)
(* positive, which it would take for a second.                             *)
ScheduleMeant ==
  entry # NoEntry =>
    LET s == raw.schedule IN
    /\ s.kind = "daily" => \A t \in Times : Fires(entry, t) <=> t = <<0, s.b, s.a>>
    /\ s.kind = "hourly" => \A t \in Times : Fires(entry, t) <=> t[1] = 0 /\ t[2] = 0
    /\ s.kind = "every" => entry.every \in 1 .. MaxHours
    /\ s.kind = "every" /\ 24 * s.a <= MaxInt =>
         entry.every = (IF s.a = NoDays THEN 0 ELSE 24 * s.a) + s.b

(* "per-routine env_file > daemon env-file > process env" (daemoncfg.go:   *)
(* 172), also in the child's environment, for an empty value too; a variable*)
(* nobody sets stays as it is written.                                     *)
Precedence ==
  stage = "started" /\ raw.env =>
    /\ envFile # Unset => child = envFile
    /\ envFile = Unset /\ daemon # Unset => child = daemon
    /\ envFile = Unset /\ daemon = Unset =>
         child = IF process = Unset THEN Var ELSE process

-----------------------------------------------------------------------------
(* What the proofs need besides: how the file, what was made of it and its *)
(* entry hang together.                                                    *)
Linked ==
  /\ stage \notin {"file", "rejected"} => routine = Parsed /\ value = Lookup
  /\ stage \notin {"file", "parsed", "rejected"} => Valid(routine)
  /\ stage = "unscheduled" => ~CronAccepts(CronExpr(ParseSchedule(routine.schedule)))
  /\ stage = "started" => child = ChildEnv
  /\ entry # NoEntry => /\ CronAccepts(entry) /\ Valid(routine) /\ routine = Parsed
                        /\ entry = CronExpr(ParseSchedule(routine.schedule))

Inv == TypeOK /\ AcceptedRuns /\ Linked
=============================================================================
