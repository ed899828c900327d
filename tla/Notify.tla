------------------------------- MODULE Notify -------------------------------
(***************************************************************************)
(* What a run tells the notifiers when it is over: maybeNotify and its     *)
(* filter (internal/scheduler/scheduler.go), the sinks buildNotifier makes *)
(* of the configuration (cmd/routines/root.go), Multi, which asks them     *)
(* side by side, and the webhook's attempts (internal/notify).             *)
(***************************************************************************)
EXTENDS Naturals, FiniteSets

CONSTANTS
  Notifiers,  \* records [name, kind] a configuration may list
  Wanted,     \* names `outputs:` may give
  Fallback    \* the stdout sink made when there is no other

Kinds == {"webhook", "file", "stdout"}

ASSUME NotifiersAssumption ==
  /\ Notifiers \subseteq [name : STRING, kind : STRING]
  /\ Fallback \in [name : STRING, kind : {"stdout"}]

Sinks == {n \in Notifiers : n.kind \in Kinds} \cup {Fallback}

Attempts == 3

VARIABLES
  sinks,     \* what buildNotifier has made of the configuration
  outputs,   \* names in the routine's outputs
  alert,     \* its on_failure is alert
  canceled,  \* has Stop canceled runCtx?
  phase,     \* where runOnce is
  status,    \* what it reports
  picked,    \* the sinks it reports to
  pc,        \* where the sink's goroutine is
  attempt,   \* requests it has given up on
  copies,    \* times the event has arrived at its destination
  acked,     \* has it been told so?
  result,    \* what Notify has returned
  ret        \* what Multi.Notify has returned

spec == <<sinks, outputs, alert>>
sinkVars == <<pc, attempt, copies, acked, result>>
vars == <<spec, canceled, phase, status, picked, sinkVars, ret>>

(* buildNotifier.  More than one sink make a Multi. *)
BuildNotifier(config) ==
  LET known == {n \in config : n.kind \in Kinds}
  IN  IF known = {} THEN {Fallback} ELSE known

Init ==
  /\ \E config \in SUBSET Notifiers : sinks = BuildNotifier(config)
  /\ outputs \in SUBSET Wanted
  /\ alert \in BOOLEAN
  /\ canceled = FALSE
  /\ phase = "run" /\ status = "none" /\ picked = {}
  /\ pc = [s \in Sinks |-> "idle"]
  /\ attempt = [s \in Sinks |-> 0]
  /\ copies = [s \in Sinks |-> 0]
  /\ acked = [s \in Sinks |-> FALSE]
  /\ result = [s \in Sinks |-> "none"]
  /\ ret = "none"

-----------------------------------------------------------------------------
(* runOnce. *)

(* Seeded bug: no match, no sink. *)
FilterStrictly ==
  LET match == {s \in sinks : s.kind \in outputs}
  IN  IF outputs = {} THEN sinks ELSE match

(* filterNotifierByOutputs: the names in outputs are compared with Name(), *)
(* which is the sink's kind; without a match, or a Multi, all are asked.   *)
Filter ==
  LET match == {s \in sinks : s.kind \in outputs}
  IN  IF Cardinality(sinks) = 1 \/ match = {} THEN sinks ELSE match

(* maybeNotify, once the last execution has ended. *)
MaybeNotify(s) ==
  /\ phase = "run"
  /\ status' = s
  /\ \/ /\ s # "success" \/ alert
        /\ phase' = "notify"
        /\ picked' = Filter
        /\ pc' = [n \in Sinks |-> IF n \in Filter THEN "send" ELSE "idle"]
     \/ /\ s = "success" /\ ~alert
        /\ phase' = "over"
        /\ UNCHANGED <<picked, pc>>
  /\ UNCHANGED <<spec, canceled, attempt, copies, acked, result, ret>>

(* A failed run waits for its retry when runCtx is canceled.               *)
Abandon ==
  /\ phase = "run" /\ canceled /\ ~alert
  /\ phase' = "abandoned" /\ status' = "failed"
  /\ UNCHANGED <<spec, canceled, picked, sinkVars, ret>>

(* Stop. *)
Cancel ==
  /\ phase \in {"run", "notify"} /\ ~canceled
  /\ canceled' = TRUE
  /\ UNCHANGED <<spec, phase, status, picked, sinkVars, ret>>

Failed == \E s \in picked : result[s] = "error"

(* Seeded bug: the first error ends the fan-out. *)
ReturnEarly ==
  /\ phase = "notify"
  /\ Failed \/ \A s \in picked : pc[s] = "done"
  /\ phase' = "over"
  /\ ret' = IF Failed THEN "error" ELSE "ok"
  /\ UNCHANGED <<spec, canceled, status, picked, sinkVars>>

(* Seeded bug: the WaitGroup counts the sinks that were not picked. *)
ReturnForAll ==
  /\ phase = "notify"
  /\ \A s \in sinks : pc[s] = "done"
  /\ phase' = "over"
  /\ ret' = IF Failed THEN "error" ELSE "ok"
  /\ UNCHANGED <<spec, canceled, status, picked, sinkVars>>

(* Multi.Notify, after wg.Wait; a single sink is asked directly. *)
Return ==
  /\ phase = "notify"
  /\ \A s \in picked : pc[s] = "done"
  /\ phase' = "over"
  /\ ret' = IF Failed THEN "error" ELSE "ok"
  /\ UNCHANGED <<spec, canceled, status, picked, sinkVars>>

-----------------------------------------------------------------------------
(* One sink's Notify. *)

Goto(s, from, to) == pc[s] = from /\ pc' = [pc EXCEPT ![s] = to]

Give(s, from, r) == Goto(s, from, "done") /\ result' = [result EXCEPT ![s] = r]

Outside == UNCHANGED <<spec, canceled, phase, status, picked, ret>>

(* No URL, or none a request can be made of. *)
Unusable(s) ==
  /\ s.kind = "webhook" /\ attempt[s] = 0
  /\ Give(s, "send", "error")
  /\ UNCHANGED <<attempt, copies, acked>> /\ Outside

(* client.Do sends nothing once the context is canceled. *)
Send(s) ==
  /\ s.kind = "webhook" /\ ~canceled
  /\ Goto(s, "send", "flight")
  /\ UNCHANGED <<attempt, copies, acked, result>> /\ Outside

(* Seeded bug: an acknowledged request is tried again. *)
AckedAgain(s) ==
  /\ IF attempt[s] < Attempts - 1
     THEN Goto(s, "flight", "send") /\ UNCHANGED result
     ELSE Give(s, "flight", "ok")
  /\ attempt' = [attempt EXCEPT ![s] = @ + 1]
  /\ copies' = [copies EXCEPT ![s] = @ + 1]
  /\ acked' = [acked EXCEPT ![s] = TRUE]
  /\ Outside

(* Below 400. *)
Acked(s) ==
  /\ Give(s, "flight", "ok")
  /\ copies' = [copies EXCEPT ![s] = @ + 1]
  /\ acked' = [acked EXCEPT ![s] = TRUE]
  /\ UNCHANGED attempt /\ Outside

(* 4xx is terminal. *)
Rejected(s) ==
  /\ Give(s, "flight", "error")
  /\ UNCHANGED <<attempt, copies, acked>> /\ Outside

(* Seeded bug: the last attempt has no return of its own, and falls out of *)
(* the loop to `return nil`.                                               *)
GiveUpSilently(s, from) ==
  /\ IF attempt[s] = Attempts - 1
     THEN Give(s, from, "ok")
     ELSE Goto(s, from, "sleep") /\ UNCHANGED result
  /\ attempt' = [attempt EXCEPT ![s] = @ + 1]

(* Seeded bug: one attempt too many. *)
GiveUpLate(s, from) ==
  /\ IF attempt[s] = Attempts
     THEN Give(s, from, "error")
     ELSE Goto(s, from, "sleep") /\ UNCHANGED result
  /\ attempt' = [attempt EXCEPT ![s] = @ + 1]

GiveUp(s, from) ==
  /\ IF attempt[s] = Attempts - 1
     THEN Give(s, from, "error")
     ELSE Goto(s, from, "sleep") /\ UNCHANGED result
  /\ attempt' = [attempt EXCEPT ![s] = @ + 1]

(* Do fails or the answer is 5xx: no connection, the client's ten seconds  *)
(* are over, the answer is lost or runCtx canceled.  The event may have    *)
(* arrived all the same.                                                   *)
AttemptFails(s) ==
  /\ s.kind = "webhook"
  /\ \/ GiveUp(s, "send") /\ canceled /\ UNCHANGED copies
     \/ GiveUp(s, "flight") /\ UNCHANGED copies
     \/ GiveUp(s, "flight") /\ copies' = [copies EXCEPT ![s] = @ + 1]
  /\ UNCHANGED acked /\ Outside

(* sleepCtx.  When both are ready the select may take either. *)
Elapsed(s) ==
  /\ Goto(s, "sleep", "send")
  /\ UNCHANGED <<attempt, copies, acked, result>> /\ Outside

SleepCanceled(s) ==
  /\ canceled
  /\ Give(s, "sleep", "error")
  /\ UNCHANGED <<attempt, copies, acked>> /\ Outside

(* File and stdout write once, whatever the context. *)
Write(s) ==
  /\ s.kind # "webhook"
  /\ \/ /\ Give(s, "send", "ok")
        /\ copies' = [copies EXCEPT ![s] = @ + 1]
        /\ acked' = [acked EXCEPT ![s] = TRUE]
     \/ Give(s, "send", "error") /\ UNCHANGED <<copies, acked>>
  /\ UNCHANGED attempt /\ Outside

SinkNotify(s) ==
  \/ Unusable(s) \/ Send(s) \/ Acked(s) \/ Rejected(s) \/ AttemptFails(s)
  \/ Elapsed(s) \/ SleepCanceled(s) \/ Write(s)

Next ==
  \/ \E s \in {"success", "failed", "timeout"} : MaybeNotify(s)
  \/ Abandon \/ Cancel \/ Return
  \/ \E s \in Sinks : SinkNotify(s)

Spec == Init /\ [][Next]_vars

(* The client gives up after ten seconds, timers elapse, files are written.*)
FairSpec == Spec /\ WF_vars(Return) /\ \A s \in Sinks : WF_vars(SinkNotify(s))

-----------------------------------------------------------------------------
(* Properties. *)

TypeOK ==
  /\ sinks \subseteq Sinks /\ outputs \subseteq Wanted /\ picked \subseteq sinks
  /\ alert \in BOOLEAN /\ canceled \in BOOLEAN
  /\ phase \in {"run", "notify", "over", "abandoned"}
  /\ status \in {"none", "success", "failed", "timeout"}
  /\ pc \in [Sinks -> {"idle", "send", "flight", "sleep", "done"}]
  /\ attempt \in [Sinks -> 0 .. Attempts]
  /\ copies \in [Sinks -> 0 .. Attempts]
  /\ acked \in [Sinks -> BOOLEAN]
  /\ result \in [Sinks -> {"none", "ok", "error"}] /\ ret \in {"none", "ok", "error"}

(* Notify returns nil exactly when its destination has confirmed the event *)
(* (and so has it), through retries, lost answers and cancellation.        *)
ResultTruthful ==
  \A s \in Sinks :
    /\ pc[s] = "done" => (result[s] = "ok" <=> acked[s])
    /\ acked[s] => copies[s] > 0

(* "failures from one do not block others ... after all have been          *)
(* attempted" (notify.go:35): Multi returns when every sink has, with nil  *)
(* only if all of them confirmed.                                          *)
FanOutComplete ==
  ret # "none" =>
    /\ \A s \in picked : pc[s] = "done"
    /\ ret = "ok" <=> \A s \in picked : acked[s]

(* "so failures are still seen" (root.go:82): whatever is configured and   *)
(* whatever outputs say, a run that failed is put to some notifier, unless *)
(* Stop cut short its wait for a retry; a success only for an alert.       *)
FailureReported ==
  /\ phase \in {"notify", "over"} /\ status # "success" => picked # {}
  /\ \A s \in Sinks : copies[s] > 0 => status # "success" \/ alert

(* The event is repeated only as long as no answer says that it arrived.   *)
NoRepeat == [][\A s \in Sinks : acked[s] => copies'[s] = copies[s]]_vars

(* maybeNotify comes back: three attempts bound the webhook.               *)
NotifyReturns == phase = "notify" ~> phase = "over"

(* "Per-routine outputs[].notifier filters the daemon-wide notifier set by *)
(* name" (scheduler.go:396): where outputs name one that is configured, no *)
(* other hears of the run.  The code does not keep this: Name() is the     *)
(* sink's kind, and buildNotifier drops the configured name.               *)
OutputsSelect ==
  (\E s \in sinks : s.name \in outputs) => \A s \in picked : s.name \in outputs

-----------------------------------------------------------------------------
(* What the proofs need besides. *)

Progress(s) ==
  /\ pc[s] = "idle" <=> s \notin picked
  /\ pc[s] = "idle" => copies[s] = 0
  /\ pc[s] = "done" <=> result[s] # "none"
  /\ pc[s] # "done" => /\ ~acked[s] /\ copies[s] <= attempt[s] /\ attempt[s] < Attempts

Reporting ==
  /\ sinks # {}
  /\ phase \in {"run", "abandoned"} => picked = {}
  /\ phase = "notify" \/ picked # {} => status # "success" \/ alert
  /\ phase = "over" => \A s \in picked : pc[s] = "done"
  /\ ret # "none" => phase = "over"

Inv ==
  /\ TypeOK /\ ResultTruthful /\ FanOutComplete /\ FailureReported
  /\ Reporting /\ \A s \in Sinks : Progress(s)
=============================================================================
