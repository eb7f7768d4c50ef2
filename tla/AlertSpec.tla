------------------------------ MODULE AlertSpec ------------------------------
(***************************************************************************)
(* What alert debouncing promises, without saying how: the windows seen    *)
(* since the process started, and an alert on exactly those windows that   *)
(* complete an episode. No streak counter and no arming flag: the verdict  *)
(* is a predicate of the predictions alone.                                *)
(***************************************************************************)
EXTENDS Integers, Sequences

CONSTANTS
  Classes,      \* class indices the model can predict
  Normal,       \* the index of the benign class
  Confidences,  \* confidences the model can report, in percent
  MinConf,      \* min_confidence, in percent
  Req           \* number of consecutive windows that confirm an episode

VARIABLE log    \* one record per window since the process started

Window == [cls : Classes, conf : Confidences, alert : BOOLEAN]

\* A prediction that counts towards an episode.
Qualifies(w) == w.cls # Normal /\ w.conf >= MinConf

\* Windows i..j of s are one unbroken run of qualifying predictions of a class.
IsRun(s, i, j) ==
  \A k \in i..j : Qualifies(s[k]) /\ s[k].cls = s[j].cls

\* Window n of s is the Req-th of its run: not earlier, not later.
ConfirmsAt(s, n) ==
  /\ n >= Req
  /\ IsRun(s, n - Req + 1, n)
  /\ n = Req \/ ~IsRun(s, n - Req, n)

Init == log = << >>

Observe(cls, conf) ==
  LET w == [cls |-> cls, conf |-> conf, alert |-> FALSE]
  IN  log' = Append(log, [w EXCEPT !.alert = ConfirmsAt(Append(log, w), Len(log) + 1)])

Restart == log' = << >>

Next ==
  \/ \E cls \in Classes, conf \in Confidences : Observe(cls, conf)
  \/ Restart

Spec == Init /\ [][Next]_log
=============================================================================
