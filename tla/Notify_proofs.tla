---------------------------- MODULE Notify_proofs ----------------------------
(***************************************************************************)
(* Proofs, for any notifiers, configuration and outputs, that nothing is   *)
(* taken for delivered that was not confirmed, that Multi waits for every  *)
(* sink, that failed runs are reported, and that what was confirmed is not *)
(* sent again.                                                             *)
(***************************************************************************)
EXTENDS Notify, TLAPS

(* A configuration gives at least one sink.                                *)
LEMMA SomeSink ==
  ASSUME NEW config \in SUBSET Notifiers
  PROVE  BuildNotifier(config) \in SUBSET Sinks /\ BuildNotifier(config) # {}
BY DEF BuildNotifier, Sinks

(* The filter leaves some of the sinks, and never none of them.            *)
LEMMA SomeMatch == sinks # {} => Filter \subseteq sinks /\ Filter # {}
BY DEF Filter

(* Nothing is picked or sent at the start.                                 *)
LEMMA InitInv == Init => Inv
<1> SUFFICES ASSUME Init PROVE Inv
  OBVIOUS
<1>1. sinks \in SUBSET Sinks /\ sinks # {}
  BY SomeSink DEF Init
<1>2. TypeOK
  <2>1. /\ sinks \subseteq Sinks /\ outputs \subseteq Wanted /\ picked \subseteq sinks
        /\ alert \in BOOLEAN /\ canceled \in BOOLEAN
        /\ phase = "run" /\ status = "none" /\ ret = "none"
    BY <1>1 DEF Init
  <2>2. /\ pc \in [Sinks -> {"idle", "send", "flight", "sleep", "done"}]
        /\ attempt \in [Sinks -> 0 .. 3] /\ copies \in [Sinks -> 0 .. 3]
        /\ acked \in [Sinks -> BOOLEAN] /\ result \in [Sinks -> {"none", "ok", "error"}]
    BY DEF Init
  <2> QED BY <2>1, <2>2 DEF TypeOK, Attempts
<1>3. ResultTruthful /\ FanOutComplete /\ FailureReported /\ Reporting
  BY <1>1 DEF Init, ResultTruthful, FanOutComplete, FailureReported, Reporting
<1>4. \A s \in Sinks : Progress(s)
  BY DEF Init, Progress, Attempts
<1> QED BY <1>2, <1>3, <1>4 DEF Inv

(* The steps of one sink's Notify.                                         *)
LEMMA SinkStep ==
  ASSUME Inv, NEW s \in Sinks, SinkNotify(s) PROVE Inv'
<1> USE DEF Goto, Give, Outside, spec, Attempts
<1>1. /\ pc[s] \in {"send", "flight", "sleep"} /\ s \in picked
      /\ phase = "notify" /\ ret = "none"
  BY DEF SinkNotify, Unusable, Send, Acked, Rejected, AttemptFails, GiveUp, Elapsed,
         SleepCanceled, Write, Inv, TypeOK, Progress, Reporting
<1>2. UNCHANGED <<sinks, outputs, alert, canceled, phase, status, picked, ret>>
  BY DEF SinkNotify, Unusable, Send, Acked, Rejected, AttemptFails, Elapsed,
         SleepCanceled, Write
<1>3. \E p \in {"send", "flight", "sleep", "done"} : pc' = [pc EXCEPT ![s] = p]
  BY DEF SinkNotify, Unusable, Send, Acked, Rejected, AttemptFails, GiveUp, Elapsed,
         SleepCanceled, Write
<1>4. /\ attempt' = attempt \/ attempt' = [attempt EXCEPT ![s] = @ + 1]
      /\ copies' = copies \/ copies' = [copies EXCEPT ![s] = @ + 1]
      /\ acked' = acked \/ acked' = [acked EXCEPT ![s] = TRUE]
      /\ result' = result \/ \E r \in {"ok", "error"} : result' = [result EXCEPT ![s] = r]
  BY DEF SinkNotify, Unusable, Send, Acked, Rejected, AttemptFails, GiveUp, Elapsed,
         SleepCanceled, Write
<1>5. /\ attempt'[s] \in 0 .. 3 /\ copies'[s] \in 0 .. 3
      /\ pc'[s] # "done" => /\ result'[s] = "none" /\ ~acked'[s]
                            /\ copies'[s] <= attempt'[s] /\ attempt'[s] < 3
      /\ pc'[s] = "done" => result'[s] # "none" /\ (result'[s] = "ok" <=> acked'[s])
      /\ acked'[s] => copies'[s] > 0
  <2>1. /\ attempt[s] \in 0 .. 2 /\ copies[s] \in 0 .. attempt[s]
        /\ result[s] = "none" /\ ~acked[s]
    BY <1>1 DEF Inv, TypeOK, Progress
  <2>2. /\ pc \in [Sinks -> {"idle", "send", "flight", "sleep", "done"}]
        /\ attempt \in [Sinks -> 0 .. 3] /\ copies \in [Sinks -> 0 .. 3]
        /\ acked \in [Sinks -> BOOLEAN] /\ result \in [Sinks -> {"none", "ok", "error"}]
    BY DEF Inv, TypeOK
  <2>3. CASE Unusable(s) BY <2>1, <2>2, <2>3 DEF Unusable
  <2>4. CASE Send(s) BY <2>1, <2>2, <2>4 DEF Send
  <2>5. CASE Acked(s) BY <2>1, <2>2, <2>5 DEF Acked
  <2>6. CASE Rejected(s) BY <2>1, <2>2, <2>6 DEF Rejected
  <2>7. CASE AttemptFails(s) BY <2>1, <2>2, <2>7 DEF AttemptFails, GiveUp
  <2>8. CASE Elapsed(s) BY <2>1, <2>2, <2>8 DEF Elapsed
  <2>9. CASE SleepCanceled(s) BY <2>1, <2>2, <2>9 DEF SleepCanceled
  <2>10. CASE Write(s) BY <2>1, <2>2, <2>10 DEF Write
  <2> QED BY <2>3, <2>4, <2>5, <2>6, <2>7, <2>8, <2>9, <2>10 DEF SinkNotify
<1>6. TypeOK'
  <2>1. /\ pc \in [Sinks -> {"idle", "send", "flight", "sleep", "done"}]
        /\ attempt \in [Sinks -> 0 .. 3] /\ copies \in [Sinks -> 0 .. 3]
        /\ acked \in [Sinks -> BOOLEAN] /\ result \in [Sinks -> {"none", "ok", "error"}]
    BY DEF Inv, TypeOK
  <2>2. pc' \in [Sinks -> {"idle", "send", "flight", "sleep", "done"}]
    BY <2>1, <1>3
  <2>3. attempt' \in [Sinks -> 0 .. 3] /\ copies' \in [Sinks -> 0 .. 3]
    BY <2>1, <1>4, <1>5
  <2>4. acked' \in [Sinks -> BOOLEAN] /\ result' \in [Sinks -> {"none", "ok", "error"}]
    BY <2>1, <1>4
  <2> QED BY <1>2, <2>2, <2>3, <2>4 DEF Inv, TypeOK
<1>7. \A t \in Sinks \ {s} :
        /\ pc'[t] = pc[t] /\ attempt'[t] = attempt[t] /\ copies'[t] = copies[t]
        /\ acked'[t] = acked[t] /\ result'[t] = result[t]
  BY <1>3, <1>4 DEF Inv, TypeOK
<1>8. ResultTruthful'
  BY <1>5, <1>7 DEF Inv, ResultTruthful
<1>9. pc'[s] # "idle"
  BY <1>3 DEF Inv, TypeOK
<1>10. \A t \in Sinks : Progress(t)'
  BY <1>1, <1>2, <1>5, <1>7, <1>9 DEF Inv, Progress
<1>11. FanOutComplete' /\ Reporting'
  BY <1>1, <1>2 DEF Inv, FanOutComplete, Reporting
<1>12. FailureReported'
  BY <1>1, <1>2, <1>7 DEF Inv, FailureReported, Reporting
<1> QED BY <1>6, <1>8, <1>10, <1>11, <1>12 DEF Inv

(* The steps of runOnce and of Stop.                                       *)
LEMMA RunStep ==
  ASSUME Inv, \/ \E s \in {"success", "failed", "timeout"} : MaybeNotify(s)
              \/ Abandon \/ Cancel \/ Return
  PROVE  Inv'
<1> USE DEF Inv, TypeOK, spec, sinkVars
<1>1. CASE \E s \in {"success", "failed", "timeout"} : MaybeNotify(s)
  <2>1. PICK s \in {"success", "failed", "timeout"} : MaybeNotify(s)
    BY <1>1
  <2>2. sinks # {} /\ picked = {} /\ Filter \subseteq sinks /\ Filter # {}
    BY <2>1, SomeMatch DEF MaybeNotify, Reporting
  <2>3. \A t \in Sinks : pc[t] = "idle" /\ copies[t] = 0 /\ ~acked[t] /\ ret = "none"
    BY <2>1, <2>2 DEF MaybeNotify, Progress, Reporting
  <2>4. TypeOK' /\ Reporting'
    BY <2>1, <2>2, <2>3 DEF MaybeNotify, Reporting
  <2>5. \A t \in Sinks : Progress(t)'
    BY <2>1, <2>2, <2>3 DEF MaybeNotify, Progress
  <2>6. ResultTruthful' /\ FanOutComplete' /\ FailureReported'
    BY <2>1, <2>2, <2>3 DEF MaybeNotify, ResultTruthful, FanOutComplete, FailureReported
  <2> QED BY <2>4, <2>5, <2>6
<1>2. CASE Abandon
  <2>1. picked = {} /\ \A t \in Sinks : copies[t] = 0
    BY <1>2 DEF Abandon, Reporting, Progress
  <2> QED
    BY <1>2, <2>1 DEF Abandon, ResultTruthful, FanOutComplete, FailureReported,
                      Reporting, Progress
<1>3. CASE Cancel
  BY <1>3 DEF Cancel, ResultTruthful, FanOutComplete, FailureReported, Reporting, Progress
<1>4. CASE Return
  <2>1. ret' = "ok" <=> \A s \in picked : acked[s]
    BY <1>4 DEF Return, Failed, ResultTruthful, Progress
  <2> QED
    BY <1>4, <2>1 DEF Return, ResultTruthful, FanOutComplete, FailureReported,
                      Reporting, Progress
<1> QED BY <1>1, <1>2, <1>3, <1>4

(* The invariant holds throughout, with the properties that are its parts. *)
THEOREM Invariance == Spec => []Inv
<1>1. Inv /\ [Next]_vars => Inv'
  <2>1. Inv /\ UNCHANGED vars => Inv'
    BY DEF vars, spec, sinkVars, Inv, TypeOK, ResultTruthful, FanOutComplete,
           FailureReported, Reporting, Progress
  <2> QED BY <2>1, SinkStep, RunStep DEF Next
<1> QED BY <1>1, InitInv, PTL DEF Spec

(* The variables keep their types; no webhook makes more than three        *)
(* attempts.                                                               *)
THEOREM TypeCorrect == Spec => []TypeOK
BY Invariance, PTL DEF Inv

(* A notifier reports success exactly for what was confirmed.              *)
THEOREM ResultsTruthful == Spec => []ResultTruthful
BY Invariance, PTL DEF Inv

(* Multi returns when all have been attempted, with nil if all confirmed.  *)
THEOREM FanOutsComplete == Spec => []FanOutComplete
BY Invariance, PTL DEF Inv

(* No configuration and no outputs keep a failure to themselves.           *)
THEOREM FailuresReported == Spec => []FailureReported
BY Invariance, PTL DEF Inv

(* What has been confirmed is not sent again.                              *)
THEOREM NothingRepeated == Spec => NoRepeat
<1>1. ASSUME Inv, [Next]_vars
      PROVE  [\A s \in Sinks : acked[s] => copies'[s] = copies[s]]_vars
  <2>1. SUFFICES ASSUME Next, NEW s \in Sinks, acked[s] PROVE copies'[s] = copies[s]
    BY <1>1
  <2>2. pc[s] = "done"
    BY <1>1, <2>1 DEF Inv, Progress
  <2>3. CASE \E t \in Sinks : SinkNotify(t)
    <3>1. PICK t \in Sinks : SinkNotify(t)
      BY <2>3
    <3>2. pc[t] # "done"
      BY <3>1 DEF SinkNotify, Unusable, Send, Acked, Rejected, AttemptFails, GiveUp, Elapsed,
                  SleepCanceled, Write, Goto, Give
    <3>3. copies' = copies \/ copies' = [copies EXCEPT ![t] = @ + 1]
      BY <3>1 DEF SinkNotify, Unusable, Send, Acked, Rejected, AttemptFails, Elapsed,
                  SleepCanceled, Write
    <3> QED BY <1>1, <2>2, <3>2, <3>3 DEF Inv, TypeOK
  <2>4. CASE ~ \E t \in Sinks : SinkNotify(t)
    BY <2>1, <2>4 DEF Next, MaybeNotify, Abandon, Cancel, Return, sinkVars
  <2> QED BY <2>3, <2>4
<1> QED BY <1>1, Invariance, PTL DEF Spec, NoRepeat
=============================================================================
