------------------------- MODULE RoutineSpec_proofs -------------------------
(***************************************************************************)
(* Proofs, for ints and durations of any width and any spec files, that    *)
(* what validation accepts can be scheduled and run, when it fires, and    *)
(* what of the environment reaches the child.                              *)
(***************************************************************************)
EXTENDS RoutineSpec, TLAPS

(* Wrapping keeps a number an int, and changes none that fits.             *)
LEMMA WrapInt ==
  ASSUME NEW x \in Int PROVE Wrap(x) \in Int /\ (x <= MaxInt => Wrap(x) = x)
<1>1. 2 * (MaxInt + 1) \in Nat \ {0} /\ x + MaxInt + 1 \in Int
  BY IntAssumption
<1>2. (x + MaxInt + 1) % (2 * (MaxInt + 1)) \in Int
  BY <1>1
<1> QED BY <1>2, IntAssumption DEF Wrap

(* Hours are an int, and exact as long as 24*n does not overflow.          *)
LEMMA HoursInt ==
  ASSUME NEW s \in Schedules, s.kind = "every"
  PROVE  /\ Hours(s) \in Int /\ Hours(s) <= MaxHours
         /\ 24 * s.a <= MaxInt /\ Hours(s) > 0 =>
              Hours(s) = (IF s.a = NoDays THEN 0 ELSE 24 * s.a) + s.b
<1>1. s.a \in Int /\ s.b \in Int /\ (s.a = NoDays \/ (s.a >= 0 /\ s.b >= 0))
  BY DEF Schedules
<1>2. Days(s) \in Int /\ (24 * s.a <= MaxInt => Days(s) = IF s.a = NoDays THEN 0 ELSE 24 * s.a)
  BY <1>1, WrapInt DEF Days, NoDays
<1>3. Sum(s) \in Int
  BY <1>1, <1>2 DEF Sum
<1>4. Hours(s) \in Int /\ Hours(s) <= MaxHours
  BY <1>3, IntAssumption DEF Hours
<1>5. ASSUME 24 * s.a <= MaxInt, Hours(s) > 0
      PROVE  Hours(s) = (IF s.a = NoDays THEN 0 ELSE 24 * s.a) + s.b
  <2>1. Hours(s) = Sum(s)
    BY <1>5 DEF Hours
  <2>2. CASE Days(s) >= 0
    BY <2>1, <2>2, <1>1, <1>2, <1>5 DEF Sum
  <2>3. CASE Days(s) < 0
    BY <2>1, <2>3, <1>1, <1>2, <1>5 DEF Sum
  <2> QED BY <1>2, <2>2, <2>3
<1> QED BY <1>4, <1>5

(* An entry made of a schedule has the meaning docs/spec.md gives it.      *)
LEMMA Translation ==
  ASSUME NEW s \in Schedules, NEW e, e = CronExpr(ParseSchedule(s)), CronAccepts(e)
  PROVE  /\ e.every \in 0 .. MaxHours /\ e.fields \in Seq(Int)
         /\ s.kind = "daily" => \A t \in Times : Fires(e, t) <=> t = <<0, s.b, s.a>>
         /\ s.kind = "hourly" => \A t \in Times : Fires(e, t) <=> t[1] = 0 /\ t[2] = 0
         /\ s.kind = "every" => e.every \in 1 .. MaxHours
         /\ s.kind = "every" /\ 24 * s.a <= MaxInt =>
              e.every = (IF s.a = NoDays THEN 0 ELSE 24 * s.a) + s.b
<1> DEFINE p == ParseSchedule(s)
<1>0. \A t \in Times : Fires(e, t) <=> /\ e.fields[1] \in {Any, t[1]}
                                       /\ e.fields[2] \in {Any, t[2]}
                                       /\ e.fields[3] \in {Any, t[3]}
  BY DEF Fires
<1>1. s.a \in Int /\ s.b \in Int
      /\ s.kind \in {"hourly", "daily", "every", "cron", "other"}
  BY DEF Schedules
<1>2. CronExpr(NoEntry) = NoEntry /\ ~CronAccepts(NoEntry)
  BY DEF CronExpr, CronAccepts, NoEntry
<1>3. p # NoEntry
  BY <1>2
<1>4. \A x, y \in Int :
        CronExpr(Fields(x, y)) = [every |-> 0, fields |-> <<0, x, y, Any, Any, Any>>]
  BY DEF CronExpr, Fields, Any
<1>5. \A h \in Int : CronExpr(Every(h)) = [every |-> h, fields |-> <<>>]
  BY DEF CronExpr, Every
<1>6. CASE s.kind = "hourly"
  <2>1. e = [every |-> 0, fields |-> <<0, 0, Any, Any, Any, Any>>]
    BY <1>4, <1>6 DEF ParseSchedule, Any
  <2>2. \A t \in Times : Fires(e, t) <=> t[1] = 0 /\ t[2] = 0
    BY <2>1, <1>0 DEF Times, Any
  <2>3. e.every \in 0 .. MaxHours /\ e.fields \in Seq(Int)
    BY <2>1, IntAssumption DEF Any
  <2> QED BY <2>2, <2>3, <1>6
<1>7. CASE s.kind = "daily"
  <2>1. s.a \in 0 .. 23 /\ s.b \in 0 .. 59 /\ p = Fields(s.b, s.a)
    BY <1>3, <1>7 DEF ParseSchedule, Daily
  <2>2. e = [every |-> 0, fields |-> <<0, s.b, s.a, Any, Any, Any>>]
    BY <1>1, <1>4, <2>1
  <2>3. \A t \in Times : Fires(e, t) <=> t = <<0, s.b, s.a>>
    BY <2>1, <2>2, <1>0, <1>1 DEF Times, Any
  <2>4. e.every \in 0 .. MaxHours /\ e.fields \in Seq(Int)
    BY <2>2, <1>1, IntAssumption DEF Any
  <2> QED BY <2>3, <2>4, <1>7
<1>8. CASE s.kind = "every"
  <2>1. Hours(s) > 0 /\ p = Every(Hours(s))
    BY <1>3, <1>8 DEF ParseSchedule
  <2>2. Hours(s) \in Int /\ e = [every |-> Hours(s), fields |-> <<>>]
    BY <1>5, <1>8, <2>1, HoursInt
  <2>5. Hours(s) <= MaxHours
    BY <1>8, HoursInt
  <2>6. e.every = Hours(s) /\ e.fields = <<>>
    BY <2>2
  <2>3. e.every \in 0 .. MaxHours /\ e.every \in 1 .. MaxHours /\ e.fields \in Seq(Int)
    <3>1. e.every \in 0 .. MaxHours /\ e.every \in 1 .. MaxHours
      BY <2>1, <2>2, <2>5, <2>6, IntAssumption
    <3>2. e.fields \in Seq(Int)
      BY <2>6
    <3> QED BY <3>1, <3>2
  <2>4. 24 * s.a <= MaxInt => e.every = (IF s.a = NoDays THEN 0 ELSE 24 * s.a) + s.b
    BY <2>1, <2>2, <1>8, HoursInt
  <2> QED BY <2>3, <2>4, <1>8
<1>9. CASE s.kind = "cron"
  <2>1. e = [every |-> 0, fields |-> <<0, s.a, Any, Any, Any, Any>>]
    BY <1>1, <1>4, <1>9 DEF ParseSchedule, Any
  <2> QED BY <2>1, <1>1, <1>9, IntAssumption DEF Any
<1>10. CASE s.kind = "other"
  BY <1>3, <1>10 DEF ParseSchedule
<1> QED BY <1>1, <1>6, <1>7, <1>8, <1>9, <1>10

(* Cron takes everything ParseSchedule makes of the other forms.           *)
LEMMA Accepted ==
  ASSUME NEW s \in Schedules, s.kind # "cron", ParseSchedule(s) # NoEntry
  PROVE  CronAccepts(CronExpr(ParseSchedule(s)))
<1>1. s.a \in Int /\ s.b \in Int
      /\ s.kind \in {"hourly", "daily", "every", "other"}
  BY DEF Schedules
<1>2. \A x, y \in Int :
        CronExpr(Fields(x, y)) = [every |-> 0, fields |-> <<0, x, y, Any, Any, Any>>]
  BY DEF CronExpr, Fields, Any
<1>7. \A x \in 0 .. 59, y \in {Any} \cup 0 .. 23 : CronAccepts(CronExpr(Fields(x, y)))
  <2> TAKE x \in 0 .. 59, y \in {Any} \cup 0 .. 23
  <2> DEFINE c == CronExpr(Fields(x, y))
  <2>1. c = [every |-> 0, fields |-> <<0, x, y, Any, Any, Any>>]
    BY <1>2 DEF Any
  <2>2. Len(c.fields) = 6 /\ c.fields[1] = 0 /\ c.fields[2] = x /\ c.fields[3] = y
    BY <2>1
  <2> QED BY <2>2 DEF CronAccepts
<1>3. CASE s.kind = "hourly"
  <2>1. ParseSchedule(s) = Fields(0, Any)
    BY <1>3 DEF ParseSchedule
  <2>2. 0 \in 0 .. 59 /\ Any \in {Any} \cup 0 .. 23
    OBVIOUS
  <2> QED BY <2>1, <2>2, <1>7
<1>4. CASE s.kind = "daily"
  <2>1. s.a \in 0 .. 23 /\ s.b \in 0 .. 59 /\ ParseSchedule(s) = Fields(s.b, s.a)
    BY <1>4 DEF ParseSchedule, Daily
  <2> QED BY <2>1, <1>7
<1>5. CASE s.kind = "every"
  <2>1. Hours(s) > 0 /\ ParseSchedule(s) = Every(Hours(s))
    BY <1>5 DEF ParseSchedule
  <2>2. Hours(s) \in Int
    BY <1>5, HoursInt
  <2> QED BY <2>1, <2>2 DEF CronExpr, CronAccepts, Every
<1>6. CASE s.kind = "other"
  BY <1>6 DEF ParseSchedule
<1> QED BY <1>1, <1>3, <1>4, <1>5, <1>6

-----------------------------------------------------------------------------
(* Expansion leaves a routine a routine, and one of the variable's values. *)
LEMMA ParsedRoutine ==
  ASSUME TypeOK, envFile # Bad,
         envFile \in Sources, daemon \in Sources, process \in Sources
  PROVE  /\ Parsed \in Routines /\ Lookup \in Sources \cup {Var}
         /\ Parsed.schedule = raw.schedule /\ Parsed.env = raw.env
<1>1. raw \in Routines
  BY RawsAssumption DEF TypeOK
<1>2. Lookup \in Sources \cup {Var}
  BY DEF Lookup
<1>3. \A x \in {"", Var} \cup Sources : Expand(x) \in {"", Var} \cup Sources
  BY <1>2 DEF Expand
<1>8. raw.timeout \in Int
  BY <1>1 DEF Routines
<1>4. TimeoutOf(raw.timeout) \in Int
  BY <1>8 DEF TimeoutOf, DefaultTimeout
<1>5. Expand(raw.prompt) \in {"", Var} \cup Sources /\ Expand(raw.workdir) \in {"", Var} \cup Sources
  BY <1>1, <1>3 DEF Routines
<1>6. Parsed \in Routines
  BY <1>1, <1>4, <1>5 DEF Routines, Parsed
<1>7. Parsed.schedule = raw.schedule /\ Parsed.env = raw.env
  BY <1>1 DEF Routines, Parsed
<1> QED BY <1>2, <1>6, <1>7

(* The environment files and variables hold what Init gave them.           *)
Given == envFile \in Sources \cup {Bad} /\ daemon \in Sources /\ process \in Sources

(* After Parse the env_file was in order.                                  *)
WasRead == stage \notin {"file", "rejected"} \/ entry # NoEntry => envFile # Bad

IInv == Inv /\ Given /\ WasRead

(* A file nobody has looked at satisfies the invariant.                    *)
LEMMA InitInv == Init => IInv
<1> SUFFICES ASSUME Init PROVE IInv
  OBVIOUS
<1>1. raw \in Raws /\ stage = "file" /\ routine = raw /\ value = Unset /\ entry = NoEntry
      /\ child = Unset
  BY DEF Init
<1>2. Given /\ WasRead
  BY <1>1 DEF Init, Given, WasRead, Sources
<1>3. entry.every = 0 /\ entry.fields = <<>>
  BY <1>1 DEF NoEntry
<1>4. entry.every \in 0 .. MaxHours /\ entry.fields \in Seq(Int)
  BY <1>3, IntAssumption
<1>5. TypeOK
  BY <1>1, <1>4, RawsAssumption DEF TypeOK, Sources
<1>6. AcceptedRuns /\ Linked
  BY <1>1 DEF AcceptedRuns, Linked
<1> QED BY <1>2, <1>5, <1>6 DEF IInv, Inv

(* Parse leaves a routine that is what the file says, expanded.            *)
LEMMA ParseInv == IInv /\ Parse => IInv'
<1> SUFFICES ASSUME IInv, Parse PROVE IInv'
  OBVIOUS
<1>1. TypeOK /\ Linked /\ Given /\ WasRead /\ stage = "file"
  BY DEF IInv, Inv, Parse
<1>2. UNCHANGED <<raw, envFile, daemon, process, entry, child>>
  BY DEF Parse, given
<1>3. entry = NoEntry => entry' = NoEntry
  BY <1>2
<1>4. CASE envFile = Bad
  <2>1. stage' = "rejected" /\ UNCHANGED <<routine, value>>
    BY <1>4 DEF Parse
  <2>2. TypeOK'
    BY <1>1, <1>2, <2>1 DEF TypeOK
  <2>3. entry = NoEntry
    BY <1>1, <1>4 DEF WasRead
  <2>4. AcceptedRuns' /\ Linked' /\ Given' /\ WasRead'
    BY <1>1, <1>2, <2>1, <2>3 DEF AcceptedRuns, Linked, Given, WasRead
  <2> QED BY <2>2, <2>4 DEF IInv, Inv
<1>5. CASE envFile # Bad
  <2>1. stage' = "parsed" /\ value' = Lookup /\ routine' = Parsed
    BY <1>5 DEF Parse
  <2>2. envFile \in Sources /\ daemon \in Sources /\ process \in Sources
    BY <1>1, <1>5 DEF Given
  <2>3. Parsed \in Routines /\ Lookup \in Sources \cup {Var}
    BY <1>1, <1>5, <2>2, ParsedRoutine
  <2>4. TypeOK'
    BY <1>1, <1>2, <2>1, <2>3 DEF TypeOK
  <2>5. Parsed' = Parsed /\ Lookup' = Lookup
    BY <1>2 DEF Parsed, Lookup, Expand, TimeoutOf
  <2>6. entry # NoEntry => Valid(routine) /\ routine = Parsed
    BY <1>1 DEF Linked
  <2>7. Linked'
    BY <1>1, <1>2, <2>1, <2>5, <2>6 DEF Linked
  <2>8. AcceptedRuns' /\ Given' /\ WasRead'
    BY <1>1, <1>2, <1>5, <2>1 DEF AcceptedRuns, Given, WasRead
  <2> QED BY <2>4, <2>7, <2>8 DEF IInv, Inv
<1> QED BY <1>4, <1>5

(* Validate lets through what is valid, and changes nothing.               *)
LEMMA ValidateInv == IInv /\ Validate => IInv'
<1> SUFFICES ASSUME IInv, Validate PROVE IInv'
  OBVIOUS
<1>1. TypeOK /\ Linked /\ Given /\ WasRead /\ stage = "parsed"
  BY DEF IInv, Inv, Validate
<1>2. UNCHANGED <<raw, envFile, daemon, process, routine, value, entry, child>>
  BY DEF Validate, given
<1>3. stage' \in {"valid", "rejected"} /\ (stage' = "valid" => Valid(routine))
  BY DEF Validate
<1>4. Parsed' = Parsed /\ Lookup' = Lookup
  BY <1>2 DEF Parsed, Lookup, Expand, TimeoutOf
<1>5. TypeOK'
  BY <1>1, <1>2, <1>3 DEF TypeOK
<1>6. Linked'
  BY <1>1, <1>2, <1>3, <1>4 DEF Linked
<1>7. AcceptedRuns' /\ Given' /\ WasRead'
  BY <1>1, <1>2, <1>3 DEF AcceptedRuns, Given, WasRead
<1> QED BY <1>5, <1>6, <1>7 DEF IInv, Inv

(* Cron gets the translation of a valid routine, or nothing.               *)
LEMMA AddInv == IInv /\ Add => IInv'
<1> SUFFICES ASSUME IInv, Add PROVE IInv'
  OBVIOUS
<1> DEFINE e == CronExpr(ParseSchedule(routine.schedule))
<1>1. TypeOK /\ Linked /\ Given /\ WasRead /\ stage = "valid"
  BY DEF IInv, Inv, Add
<1>2. UNCHANGED <<raw, envFile, daemon, process, routine, value, child>>
  BY DEF Add, given
<1>3. Valid(routine) /\ routine = Parsed /\ value = Lookup
  BY <1>1 DEF Linked
<1>4. Parsed' = Parsed /\ Lookup' = Lookup
  BY <1>2 DEF Parsed, Lookup, Expand, TimeoutOf
<1>5. Given' /\ envFile # Bad
  BY <1>1, <1>2 DEF Given, WasRead
<1>6. CASE CronAccepts(e)
  <2>1. stage' = "scheduled" /\ entry' = e
    BY <1>6 DEF Add
  <2>2. routine.schedule \in Schedules
    BY <1>1 DEF TypeOK, Routines
  <2>3. e.every \in 0 .. MaxHours /\ e.fields \in Seq(Int)
    BY <1>6, <2>2, Translation
  <2>4. TypeOK'
    BY <1>1, <1>2, <2>1, <2>3 DEF TypeOK
  <2>5. Linked'
    BY <1>1, <1>2, <1>3, <1>4, <1>6, <2>1 DEF Linked
  <2>6. AcceptedRuns' /\ WasRead'
    BY <1>2, <1>5, <2>1 DEF AcceptedRuns, WasRead
  <2> QED BY <1>5, <2>4, <2>5, <2>6 DEF IInv, Inv
<1>7. CASE ~CronAccepts(e)
  <2>1. stage' = "unscheduled" /\ entry' = entry
    BY <1>7 DEF Add
  <2>2. TypeOK'
    BY <1>1, <1>2, <2>1 DEF TypeOK
  <2>3. Linked'
    BY <1>1, <1>2, <1>3, <1>4, <1>7, <2>1 DEF Linked
  <2>4. AcceptedRuns' /\ WasRead'
    BY <1>2, <1>5, <2>1 DEF AcceptedRuns, WasRead
  <2> QED BY <1>5, <2>2, <2>3, <2>4 DEF IInv, Inv
<1> QED BY <1>6, <1>7

(* Nothing Validate let through is refused when it is to be started.       *)
LEMMA ExecuteInv == IInv /\ Execute => IInv'
<1> SUFFICES ASSUME IInv, Execute PROVE IInv'
  OBVIOUS
<1>1. TypeOK /\ Linked /\ Given /\ WasRead /\ stage \in {"valid", "scheduled"}
  BY DEF IInv, Inv, Execute
<1>2. UNCHANGED <<raw, envFile, daemon, process, routine, value, entry>>
  BY DEF Execute, given
<1>3. Valid(routine) /\ routine = Parsed /\ value = Lookup
  BY <1>1 DEF Linked
<1>4. stage' = "started" /\ child' = ChildEnv
  BY <1>3 DEF Valid, Execute
<1>5. Parsed' = Parsed /\ Lookup' = Lookup /\ ChildEnv' = ChildEnv
  BY <1>2 DEF Parsed, Lookup, Expand, TimeoutOf, ChildEnv
<1>6. ChildEnv \in Sources \cup {Var}
  BY <1>1 DEF ChildEnv, TypeOK, Given
<1>7. TypeOK'
  BY <1>1, <1>2, <1>4, <1>6 DEF TypeOK
<1>8. Linked'
  BY <1>1, <1>2, <1>3, <1>4, <1>5 DEF Linked
<1>9. routine.timeout > 0
  <2>1. envFile # Bad /\ raw \in Routines /\ raw.timeout \in Int
    BY <1>1, RawsAssumption DEF TypeOK, Routines, WasRead
  <2>2. routine.timeout = TimeoutOf(raw.timeout)
    BY <1>3, <2>1 DEF Parsed, Routines
  <2>3. routine.timeout >= 0
    BY <1>3 DEF Valid
  <2> QED BY <2>1, <2>2, <2>3 DEF TimeoutOf, DefaultTimeout
<1>10. AcceptedRuns' /\ Given' /\ WasRead'
  BY <1>1, <1>2, <1>4, <1>9 DEF AcceptedRuns, Given, WasRead
<1> QED BY <1>7, <1>8, <1>10 DEF IInv, Inv

(* The invariant is inductive.                                             *)
LEMMA IInvInductive == IInv /\ [Next]_vars => IInv'
<1>1. IInv /\ UNCHANGED vars => IInv'
  <2> SUFFICES ASSUME IInv, UNCHANGED vars PROVE IInv'
    OBVIOUS
  <2>1. UNCHANGED <<raw, envFile, daemon, process, stage, routine, value, entry, child>>
    BY DEF vars, given
  <2> QED BY <2>1 DEF IInv, Inv, TypeOK, AcceptedRuns, Linked, Given, WasRead, Parsed,
                      Lookup, Expand, TimeoutOf, ChildEnv
<1> QED BY <1>1, ParseInv, ValidateInv, AddInv, ExecuteInv DEF Next

(* Every file, in every environment, keeps the invariant on its way.       *)
THEOREM Invariance == Spec => []IInv
BY InitInv, IInvInductive, PTL DEF Spec

(* Routines, entries and values keep their types, whatever overflows.      *)
THEOREM TypeCorrect == Spec => []TypeOK
BY Invariance, PTL DEF IInv, Inv

(* A routine Validate accepts is never refused when it is started, and has *)
(* a time-out.                                                             *)
THEOREM AcceptedRoutinesRun == Spec => []AcceptedRuns
BY Invariance, PTL DEF IInv, Inv

(* Of accepted routines cron refuses only those with fields of their own.  *)
THEOREM AcceptedRoutinesScheduled == Spec => []AcceptedScheduled
<1>1. IInv => AcceptedScheduled
  <2> SUFFICES ASSUME IInv, stage = "unscheduled", raw.schedule.kind # "cron" PROVE FALSE
    BY DEF AcceptedScheduled
  <2>1. TypeOK /\ Valid(routine) /\ routine = Parsed
        /\ ~CronAccepts(CronExpr(ParseSchedule(routine.schedule)))
    BY DEF IInv, Inv, Linked
  <2>2. envFile # Bad /\ envFile \in Sources /\ daemon \in Sources /\ process \in Sources
    BY DEF IInv, Given, WasRead
  <2>3. routine.schedule = raw.schedule
    BY <2>1, <2>2, ParsedRoutine
  <2>4. routine.schedule \in Schedules
    BY <2>1 DEF TypeOK, Routines
  <2> QED BY <2>1, <2>3, <2>4, Accepted DEF Valid
<1> QED BY <1>1, Invariance, PTL

(* An entry fires when its author meant it to, and never has a period that *)
(* is not positive.                                                        *)
THEOREM SchedulesMeant == Spec => []ScheduleMeant
<1>1. IInv => ScheduleMeant
  <2> SUFFICES ASSUME IInv, entry # NoEntry PROVE ScheduleMeant
    BY DEF ScheduleMeant
  <2> DEFINE s == routine.schedule
  <2>1. TypeOK /\ routine = Parsed /\ CronAccepts(entry) /\ entry = CronExpr(ParseSchedule(s))
    BY DEF IInv, Inv, Linked
  <2>2. envFile # Bad /\ envFile \in Sources /\ daemon \in Sources /\ process \in Sources
    BY DEF IInv, Given, WasRead
  <2>3. s = raw.schedule
    BY <2>1, <2>2, ParsedRoutine
  <2>4. s \in Schedules
    BY <2>1 DEF TypeOK, Routines
  <2>5. /\ s.kind = "daily" => \A t \in Times : Fires(entry, t) <=> t = <<0, s.b, s.a>>
        /\ s.kind = "hourly" => \A t \in Times : Fires(entry, t) <=> t[1] = 0 /\ t[2] = 0
        /\ s.kind = "every" => entry.every \in 1 .. MaxHours
        /\ s.kind = "every" /\ 24 * s.a <= MaxInt =>
             entry.every = (IF s.a = NoDays THEN 0 ELSE 24 * s.a) + s.b
    BY <2>1, <2>4, Translation
  <2> QED BY <2>3, <2>5 DEF ScheduleMeant
<1> QED BY <1>1, Invariance, PTL

(* The child sees the innermost of the values a variable was given.        *)
THEOREM PrecedenceKept == Spec => []Precedence
<1>1. IInv => Precedence
  <2> SUFFICES ASSUME IInv, stage = "started", raw.env PROVE Precedence
    BY DEF Precedence
  <2>1. TypeOK /\ routine = Parsed /\ value = Lookup /\ child = ChildEnv
    BY DEF IInv, Inv, Linked
  <2>2. envFile # Bad /\ envFile \in Sources /\ daemon \in Sources /\ process \in Sources
    BY DEF IInv, Given, WasRead
  <2>3. routine.env = raw.env
    BY <2>1, <2>2, ParsedRoutine
  <2>4. child = Lookup
    BY <2>1, <2>3 DEF ChildEnv
  <2> QED BY <2>4 DEF Lookup, Precedence
<1> QED BY <1>1, Invariance, PTL
=============================================================================
