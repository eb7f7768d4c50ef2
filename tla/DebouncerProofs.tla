--------------------------- MODULE DebouncerProofs ---------------------------
(***************************************************************************)
(* Proofs about the Debouncer for every set of classes, every confidence   *)
(* threshold, every configured streak and any number of windows.           *)
(*                                                                         *)
(* None of the properties is inductive: they speak of the windows seen,    *)
(* the code decides by cur_, streak_ and armed_. IInv ties the two         *)
(* together: the last streak_ windows are the longest run that ends at the *)
(* last window, and the debouncer is armed exactly while that run is       *)
(* shorter than required_.                                                 *)
(***************************************************************************)
EXTENDS Debouncer, TLAPS

\* The members describe the run that ends at the last window.
RunInv ==
  LET n == Len(log) IN
  /\ streak_ > 0 =>
       /\ IsRun(n - streak_ + 1, n)
       /\ log[n].cls = cur_
       /\ streak_ = n \/ ~IsRun(n - streak_, n)
  /\ streak_ = 0 =>
       /\ cur_ \in {NoClass, Normal}
       /\ n = 0 \/ ~Alerts!Qualifies(log[n])

ArmedInv == armed_ <=> streak_ < required_

\* Every verdict so far is the one AlertSpec asks for.
VerdictsInv == \A i \in DOMAIN log : log[i].alert <=> Alerts!ConfirmsAt(log, i)

IInv == TypeOK /\ RunInv /\ ArmedInv /\ VerdictsInv

-----------------------------------------------------------------------------
\* The constructor's clamp: a streak of at least one window.
LEMMA RequiredPositive == required_ \in Nat /\ required_ >= 1
BY DebouncerAssumption DEF required_

\* A run that ends at n and cannot be extended to the left contains exactly
\* the shorter ones.
LEMMA MaximalRun ==
  ASSUME NEW s \in Seq(Window), NEW n \in 1..Len(s), NEW k \in 1..n,
         Alerts!IsRun(s, n - k + 1, n), k = n \/ ~Alerts!IsRun(s, n - k, n),
         NEW m \in 1..n
  PROVE  Alerts!IsRun(s, n - m + 1, n) <=> m <= k
<1>1. ASSUME m <= k PROVE Alerts!IsRun(s, n - m + 1, n)
  BY <1>1 DEF Alerts!IsRun
<1>2. ASSUME m > k, Alerts!IsRun(s, n - m + 1, n) PROVE FALSE
  <2>1. k # n /\ ~Alerts!IsRun(s, n - k, n)
    BY <1>2
  <2>2. Alerts!IsRun(s, n - k, n)
    BY <1>2 DEF Alerts!IsRun
  <2> QED BY <2>1, <2>2
<1> QED BY <1>1, <1>2

\* Hence window n confirms exactly when its run is required_ windows long.
LEMMA ConfirmsIffLength ==
  ASSUME NEW s \in Seq(Window), NEW n \in 1..Len(s), NEW k \in 1..n,
         Alerts!IsRun(s, n - k + 1, n), k = n \/ ~Alerts!IsRun(s, n - k, n)
  PROVE  Alerts!ConfirmsAt(s, n) <=> k = required_
<1>1. required_ \in Nat /\ required_ >= 1
  BY RequiredPositive
<1>2. \A m \in 1..n : Alerts!IsRun(s, n - m + 1, n) <=> m <= k
  BY MaximalRun
<1>3. CASE n < required_
  BY <1>1, <1>3 DEF Alerts!ConfirmsAt
<1>4. CASE n = required_
  <2>1. Alerts!IsRun(s, n - required_ + 1, n) <=> required_ <= k
    BY <1>1, <1>2, <1>4
  <2> QED BY <2>1, <1>1, <1>4 DEF Alerts!ConfirmsAt
<1>5. CASE n > required_
  <2>1. Alerts!IsRun(s, n - required_ + 1, n) <=> required_ <= k
    BY <1>1, <1>2, <1>5
  <2>2. Alerts!IsRun(s, n - (required_ + 1) + 1, n) <=> required_ + 1 <= k
    BY <1>1, <1>2, <1>5
  <2>3. n - (required_ + 1) + 1 = n - required_
    BY <1>1
  <2> QED BY <2>1, <2>2, <2>3, <1>1, <1>5 DEF Alerts!ConfirmsAt
<1> QED BY <1>1, <1>3, <1>4, <1>5

\* A further window changes neither the runs nor the verdicts of the past.
LEMMA PastIsStable ==
  ASSUME NEW s \in Seq(Window), NEW w \in Window, NEW i \in 1..Len(s)
  PROVE  /\ Append(s, w)[i] = s[i]
         /\ \A j \in 1..i : Alerts!IsRun(Append(s, w), j, i) <=> Alerts!IsRun(s, j, i)
         /\ Alerts!ConfirmsAt(Append(s, w), i) <=> Alerts!ConfirmsAt(s, i)
<1> DEFINE t == Append(s, w)
<1>1. \A k \in 1..i : t[k] = s[k]
  OBVIOUS
<1>2. \A j \in 1..i : Alerts!IsRun(t, j, i) <=> Alerts!IsRun(s, j, i)
  BY <1>1 DEF Alerts!IsRun
<1>3. ASSUME i >= required_
      PROVE  Alerts!IsRun(t, i - required_ + 1, i) <=> Alerts!IsRun(s, i - required_ + 1, i)
  BY <1>2, <1>3, RequiredPositive
<1>4. ASSUME i >= required_, i # required_
      PROVE  Alerts!IsRun(t, i - required_, i) <=> Alerts!IsRun(s, i - required_, i)
  BY <1>2, <1>4, RequiredPositive
<1>5. Alerts!ConfirmsAt(t, i) <=> Alerts!ConfirmsAt(s, i)
  BY <1>3, <1>4, RequiredPositive DEF Alerts!ConfirmsAt
<1> QED BY <1>1, <1>2, <1>5

\* Whether a window confirms depends on the predictions, not on the verdicts.
LEMMA VerdictIgnoresVerdicts ==
  ASSUME NEW s \in Seq(Window), NEW t \in Seq(Window), NEW n \in Nat,
         Len(s) = n, Len(t) = n,
         \A k \in 1..n : s[k].cls = t[k].cls /\ s[k].conf = t[k].conf
  PROVE  Alerts!ConfirmsAt(s, n) <=> Alerts!ConfirmsAt(t, n)
<1>1. ASSUME NEW i \in 1..n PROVE Alerts!IsRun(s, i, n) <=> Alerts!IsRun(t, i, n)
  <2>1. i..n \subseteq 1..n /\ n \in 1..n
    OBVIOUS
  <2> QED BY <2>1 DEF Alerts!IsRun, Alerts!Qualifies
<1>2. ASSUME n >= required_
      PROVE  Alerts!IsRun(s, n - required_ + 1, n) <=> Alerts!IsRun(t, n - required_ + 1, n)
  BY <1>1, <1>2, RequiredPositive
<1>3. ASSUME n >= required_, n # required_
      PROVE  Alerts!IsRun(s, n - required_, n) <=> Alerts!IsRun(t, n - required_, n)
  BY <1>1, <1>3, RequiredPositive
<1> QED BY <1>2, <1>3, RequiredPositive DEF Alerts!ConfirmsAt

-----------------------------------------------------------------------------
\* The constructor establishes the invariant.
LEMMA InitIInv == Init => IInv
<1> SUFFICES ASSUME Init PROVE IInv
  OBVIOUS
<1>1. log \in Seq(Window) /\ Len(log) = 0 /\ DOMAIN log = {}
  BY DEF Init
<1>2. TypeOK
  BY <1>1 DEF Init, TypeOK
<1>3. RunInv
  BY <1>1 DEF Init, RunInv
<1>4. ArmedInv
  BY RequiredPositive DEF Init, ArmedInv
<1>5. VerdictsInv
  BY <1>1 DEF VerdictsInv
<1> QED BY <1>2, <1>3, <1>4, <1>5 DEF IInv

\* A quiet window ends every run.
LEMMA QuietIInv ==
  ASSUME IInv, NEW cls \in Classes, NEW conf \in Confidences, Quiet(cls, conf)
  PROVE  IInv'
<1> DEFINE w == [cls |-> cls, conf |-> conf, alert |-> FALSE]
           n == Len(log)
<1>1. /\ log \in Seq(Window) /\ w \in Window /\ log' = Append(log, w)
      /\ cur_' = Normal /\ streak_' = 0 /\ armed_' = TRUE
  BY DEF IInv, TypeOK, Quiet, IsQuiet, Return, Window, Alerts!Window
<1>2. /\ n \in Nat /\ log' \in Seq(Window) /\ Len(log') = n + 1
      /\ DOMAIN log' = 1..(n + 1) /\ log'[n + 1] = w
  BY <1>1
<1>3. ~Alerts!Qualifies(w)
  BY DebouncerAssumption DEF Quiet, IsQuiet, Alerts!Qualifies
<1>4. TypeOK'
  BY <1>1, <1>2, DebouncerAssumption DEF TypeOK
<1>5. RunInv'
  BY <1>1, <1>2, <1>3 DEF RunInv
<1>6. ArmedInv'
  BY <1>1, RequiredPositive DEF ArmedInv, required_
<1>7. VerdictsInv'
  <2>1. ~Alerts!ConfirmsAt(log', n + 1)
    BY <1>2, <1>3, RequiredPositive DEF Alerts!ConfirmsAt, Alerts!IsRun
  <2>2. ASSUME NEW i \in 1..n
        PROVE  log'[i].alert <=> Alerts!ConfirmsAt(log', i)
    BY <1>1, <1>2, PastIsStable DEF IInv, VerdictsInv
  <2> QED BY <2>1, <2>2, <1>2 DEF VerdictsInv
<1> QED BY <1>4, <1>5, <1>6, <1>7 DEF IInv

\* A suspect window extends the run of its class, or starts one.
LEMMA SuspectIInv ==
  ASSUME IInv, NEW cls \in Classes, NEW conf \in Confidences, Suspect(cls, conf)
  PROVE  IInv'
<1> DEFINE same   == cls = cur_
           streak == IF same THEN streak_ + 1 ELSE 1
           armed  == ~same \/ armed_
           fires  == armed /\ streak >= required_
           w      == [cls |-> cls, conf |-> conf, alert |-> fires]
           n      == Len(log)
<1>1. /\ log \in Seq(Window) /\ streak_ \in 0..n /\ armed_ \in BOOLEAN
      /\ cur_ \in Classes \cup {NoClass}
  BY DEF IInv, TypeOK
<1>2. /\ log' = Append(log, w) /\ cur_' = cls
      /\ streak_' = streak /\ armed_' = (armed /\ ~fires)
      /\ cls # Normal /\ ~(conf < MinConf)
  BY DEF Suspect, IsQuiet, Streak, Armed, Enough, Return
<1>3. w \in Window
  BY DEF Window, Alerts!Window
<1>4. /\ n \in Nat /\ log' \in Seq(Window) /\ Len(log') = n + 1
      /\ DOMAIN log' = 1..(n + 1) /\ log'[n + 1] = w
      /\ \A i \in 1..n : log'[i] = log[i]
  BY <1>1, <1>2, <1>3
<1>5. Alerts!Qualifies(w)
  BY <1>2, DebouncerAssumption DEF Alerts!Qualifies
<1>6. same => streak_ > 0
  BY <1>1, <1>2, DebouncerAssumption DEF IInv, RunInv, NoClass
<1>7. streak \in 1..(n + 1)
  BY <1>1, <1>4
<1>8. Alerts!IsRun(log', n + 1 - streak + 1, n + 1)
  <2>1. CASE same
    <3>1. Alerts!IsRun(log, n - streak_ + 1, n) /\ log[n].cls = cls
      BY <2>1, <1>6 DEF IInv, RunInv, IsRun
    <3>2. ASSUME NEW k \in (n + 1 - streak + 1)..(n + 1)
          PROVE  Alerts!Qualifies(log'[k]) /\ log'[k].cls = log'[n + 1].cls
      <4>1. CASE k = n + 1
        BY <4>1, <1>4, <1>5
      <4>2. CASE k # n + 1
        <5>1. k \in (n - streak_ + 1)..n /\ k \in 1..n
          BY <4>2, <2>1, <1>1, <1>4
        <5>2. Alerts!Qualifies(log[k]) /\ log[k].cls = log[n].cls
          BY <5>1, <3>1 DEF Alerts!IsRun
        <5> QED BY <5>1, <5>2, <3>1, <1>4
      <4> QED BY <4>1, <4>2
    <3> QED BY <3>2 DEF Alerts!IsRun
  <2>2. CASE ~same
    BY <2>2, <1>4, <1>5 DEF Alerts!IsRun
  <2> QED BY <2>1, <2>2
<1>9. streak = n + 1 \/ ~Alerts!IsRun(log', n + 1 - streak, n + 1)
  <2> SUFFICES ASSUME streak # n + 1, Alerts!IsRun(log', n + 1 - streak, n + 1)
               PROVE  FALSE
    OBVIOUS
  <2>1. CASE same
    <3>1. streak_ # n /\ ~Alerts!IsRun(log, n - streak_, n) /\ log[n].cls = cls
      BY <2>1, <1>1, <1>4, <1>6 DEF IInv, RunInv, IsRun
    <3>2. n - streak_ \in 1..n /\ n + 1 - streak = n - streak_
      BY <2>1, <3>1, <1>1, <1>4
    <3>3. ASSUME NEW k \in (n - streak_)..n
          PROVE  Alerts!Qualifies(log[k]) /\ log[k].cls = log[n].cls
      <4>1. k \in 1..n /\ k \in (n + 1 - streak)..(n + 1)
        BY <3>2, <1>4
      <4>2. Alerts!Qualifies(log'[k]) /\ log'[k].cls = log'[n + 1].cls
        BY <4>1 DEF Alerts!IsRun
      <4> QED BY <4>1, <4>2, <3>1, <1>4
    <3> QED BY <3>1, <3>3 DEF Alerts!IsRun
  <2>2. CASE ~same
    <3>1. n \in 1..n /\ n + 1 - streak = n
      BY <2>2, <1>4
    <3>2. Alerts!Qualifies(log[n]) /\ log[n].cls = cls
      BY <3>1, <1>4 DEF Alerts!IsRun
    <3>3. streak_ > 0 /\ log[n].cls = cur_
      BY <3>1, <3>2, <1>1 DEF IInv, RunInv
    <3> QED BY <2>2, <3>2, <3>3
  <2> QED BY <2>1, <2>2
<1>10. fires <=> streak = required_
  <2>1. same => (armed_ <=> streak_ < required_)
    BY DEF IInv, ArmedInv
  <2> QED BY <2>1, <1>1, RequiredPositive
<1>11. TypeOK'
  BY <1>1, <1>2, <1>4, <1>7 DEF TypeOK
<1>12. RunInv'
  <2>1. (streak_ > 0)'
    BY <1>2, <1>7
  <2>2. (IsRun(Len(log) - streak_ + 1, Len(log)) /\ log[Len(log)].cls = cur_)'
    BY <1>2, <1>4, <1>8 DEF IsRun
  <2>3. (streak_ = Len(log) \/ ~IsRun(Len(log) - streak_, Len(log)))'
    BY <1>2, <1>4, <1>9 DEF IsRun
  <2> QED BY <2>1, <2>2, <2>3, <1>2, <1>7 DEF RunInv
<1>13. ArmedInv'
  <2>1. armed_ <=> streak_ < required_
    BY DEF IInv, ArmedInv
  <2>2. (armed /\ ~fires) <=> streak < required_
    BY <2>1, <1>1, <1>10, RequiredPositive
  <2> QED BY <2>2, <1>2 DEF ArmedInv, required_
<1>14. VerdictsInv'
  <2>1. Alerts!ConfirmsAt(log', n + 1) <=> streak = required_
    <3>1. n + 1 \in 1..Len(log')
      BY <1>4
    <3> HIDE DEF streak, n
    <3> QED BY <3>1, <1>4, <1>7, <1>8, <1>9, ConfirmsIffLength
  <2>2. log'[n + 1].alert <=> Alerts!ConfirmsAt(log', n + 1)
    <3>1. log'[n + 1].alert = fires
      BY <1>4
    <3> HIDE DEF streak, n, fires
    <3> QED BY <3>1, <2>1, <1>10
  <2>3. ASSUME NEW i \in 1..n
        PROVE  log'[i].alert <=> Alerts!ConfirmsAt(log', i)
    BY <1>1, <1>2, <1>3, <1>4, PastIsStable DEF IInv, VerdictsInv
  <2> QED BY <2>2, <2>3, <1>4 DEF VerdictsInv
<1> QED BY <1>11, <1>12, <1>13, <1>14 DEF IInv

\* A new process starts from the constructor's state.
LEMMA RestartIInv == ASSUME Restart PROVE IInv'
<1>1. Init'
  BY DEF Restart, Init
<1> QED BY <1>1, InitIInv, PTL

\* IInv is inductive.
LEMMA NextIInv == IInv /\ [Next]_vars => IInv'
<1> SUFFICES ASSUME IInv, [Next]_vars PROVE IInv'
  OBVIOUS
<1>1. CASE UNCHANGED vars
  BY <1>1 DEF vars, IInv, TypeOK, RunInv, ArmedInv, VerdictsInv, IsRun, Window
<1>2. ASSUME NEW cls \in Classes, NEW conf \in Confidences, Update(cls, conf)
      PROVE  IInv'
  BY <1>2, QuietIInv, SuspectIInv DEF Update
<1>3. CASE Restart
  BY <1>3, RestartIInv
<1> QED BY <1>1, <1>2, <1>3 DEF Next

\* Hence it holds in every state of every behaviour.
LEMMA Invariance == Spec => []IInv
BY InitIInv, NextIInv, PTL DEF Spec

-----------------------------------------------------------------------------
\* Type correctness of cur_, streak_, armed_ and the history.
THEOREM TypeCorrect == Spec => []TypeOK
<1>1. IInv => TypeOK
  BY DEF IInv
<1> QED BY <1>1, Invariance, PTL

\* update() returns true only at the end of required_ consecutive confident
\* predictions of one attack class.
THEOREM Confirmed == Spec => []EpisodeConfirmed
<1>1. IInv => EpisodeConfirmed
  BY DEF IInv, VerdictsInv, EpisodeConfirmed, IsRun, Alerts!ConfirmsAt
<1> QED BY <1>1, Invariance, PTL

\* One alert per confirmed episode: an unbroken run holds at most one alert.
THEOREM AtMostOneAlert == Spec => []OneAlertPerEpisode
<1>1. IInv => OneAlertPerEpisode
  <2> SUFFICES ASSUME IInv, NEW i \in DOMAIN log, NEW j \in DOMAIN log,
                      i < j, log[i].alert, log[j].alert, IsRun(i, j)
               PROVE  FALSE
    BY DEF OneAlertPerEpisode
  <2>1. /\ log \in Seq(Window) /\ i \in 1..Len(log) /\ j \in 1..Len(log)
        /\ required_ \in Nat /\ required_ >= 1
    BY RequiredPositive DEF IInv, TypeOK
  <2>2. i >= required_ /\ Alerts!IsRun(log, i - required_ + 1, i)
    BY DEF IInv, VerdictsInv, Alerts!ConfirmsAt
  <2>3. j = required_ \/ ~Alerts!IsRun(log, j - required_, j)
    BY DEF IInv, VerdictsInv, Alerts!ConfirmsAt
  <2>4. Alerts!IsRun(log, i, j)
    BY DEF IsRun
  <2>5. Alerts!IsRun(log, j - required_, j)
    <3>1. ASSUME NEW k \in (j - required_)..j
          PROVE  Alerts!Qualifies(log[k]) /\ log[k].cls = log[j].cls
      <4>1. CASE k \in i..j
        BY <4>1, <2>4 DEF Alerts!IsRun
      <4>2. CASE k \notin i..j
        <5>1. k \in (i - required_ + 1)..i /\ i \in i..j
          BY <4>2, <2>1
        <5>2. Alerts!Qualifies(log[k]) /\ log[k].cls = log[i].cls
          BY <5>1, <2>2 DEF Alerts!IsRun
        <5>3. log[i].cls = log[j].cls
          BY <5>1, <2>4 DEF Alerts!IsRun
        <5> QED BY <5>2, <5>3
      <4> QED BY <4>1, <4>2
    <3> QED BY <3>1 DEF Alerts!IsRun
  <2> QED BY <2>1, <2>2, <2>3, <2>5
<1> QED BY <1>1, Invariance, PTL

\* The run that ends at the last window has raised its alert once it is long
\* enough: on its required_-th window.
LEMMA LastRunAlerted ==
  ASSUME IInv, Len(log) >= required_, IsRun(Len(log) - required_ + 1, Len(log))
  PROVE  \E i \in 1..Len(log) : log[i].alert /\ IsRun(i, Len(log))
<1> DEFINE n == Len(log)
           i == n - streak_ + required_
<1>1. /\ log \in Seq(Window) /\ n \in Nat /\ streak_ \in 0..n
      /\ required_ \in Nat /\ required_ >= 1 /\ n >= required_
      /\ Alerts!IsRun(log, n - required_ + 1, n)
  BY RequiredPositive DEF IInv, TypeOK, IsRun
<1>2. Alerts!Qualifies(log[n])
  BY <1>1 DEF Alerts!IsRun
<1>3. streak_ > 0
  BY <1>1, <1>2 DEF IInv, RunInv
<1>4. /\ Alerts!IsRun(log, n - streak_ + 1, n)
      /\ streak_ = n \/ ~Alerts!IsRun(log, n - streak_, n)
  BY <1>3 DEF IInv, RunInv, IsRun
<1>5. required_ <= streak_
  <2>1. n \in 1..Len(log) /\ streak_ \in 1..n /\ required_ \in 1..n
    BY <1>1, <1>3
  <2> HIDE DEF n
  <2> QED BY <2>1, <1>1, <1>4, MaximalRun
<1>6. i \in required_..n
  BY <1>1, <1>5
<1>7. \A k \in (n - streak_ + 1)..n : Alerts!Qualifies(log[k]) /\ log[k].cls = log[n].cls
  BY <1>4 DEF Alerts!IsRun
<1>8. IsRun(i, n)
  <2>1. \A k \in i..n : k \in (n - streak_ + 1)..n
    BY <1>1, <1>5
  <2> QED BY <2>1, <1>7 DEF IsRun, Alerts!IsRun
<1>9. Alerts!IsRun(log, i - required_ + 1, i)
  <2>1. /\ i \in (n - streak_ + 1)..n
        /\ \A k \in (i - required_ + 1)..i : k \in (n - streak_ + 1)..n
    BY <1>1, <1>5
  <2> HIDE DEF i, n
  <2> QED BY <2>1, <1>7 DEF Alerts!IsRun
<1>10. i = required_ \/ ~Alerts!IsRun(log, i - required_, i)
  <2> SUFFICES ASSUME i # required_, Alerts!IsRun(log, i - required_, i) PROVE FALSE
    OBVIOUS
  <2>1. /\ streak_ # n /\ i - required_ = n - streak_
        /\ i \in (n - streak_ + 1)..n /\ i - required_ \in (i - required_)..i
    BY <1>1, <1>5
  <2>2. Alerts!Qualifies(log[n - streak_]) /\ log[n - streak_].cls = log[i].cls
    BY <2>1 DEF Alerts!IsRun
  <2>3. log[i].cls = log[n].cls
    BY <2>1, <1>7
  <2>4. Alerts!IsRun(log, n - streak_, n)
    <3>1. ASSUME NEW k \in (n - streak_)..n
          PROVE  k = n - streak_ \/ k \in (n - streak_ + 1)..n
      BY <1>1
    <3> HIDE DEF i, n
    <3> QED BY <3>1, <2>2, <2>3, <1>7 DEF Alerts!IsRun
  <2> QED BY <2>1, <2>4, <1>4
<1>11. Alerts!ConfirmsAt(log, i)
  BY <1>6, <1>9, <1>10, <1>1 DEF Alerts!ConfirmsAt
<1>12. i \in 1..n /\ i \in DOMAIN log
  BY <1>1, <1>6
<1>13. log[i].alert
  BY <1>11, <1>12 DEF IInv, VerdictsInv
<1> QED BY <1>8, <1>12, <1>13

\* No history of classes, unconfident windows, alerts and restarts leaves the
\* debouncer unable to report an episode that lasts long enough.
THEOREM EveryEpisodeAlerted == Spec => []NoMissedEpisode
<1>1. Init => NoMissedEpisode
  BY DEF Init, NoMissedEpisode
<1>2. ASSUME IInv, IInv', NoMissedEpisode, [Next]_vars PROVE NoMissedEpisode'
  <2>1. CASE log' = log
    BY <1>2, <2>1 DEF NoMissedEpisode, IsRun
  <2>2. CASE log' = << >>
    BY <2>2 DEF NoMissedEpisode
  <2>3. ASSUME NEW w \in Window, log' = Append(log, w) PROVE NoMissedEpisode'
    <3> DEFINE n == Len(log)
    <3>1. /\ log \in Seq(Window) /\ n \in Nat /\ Len(log') = n + 1
          /\ DOMAIN log = 1..n /\ DOMAIN log' = 1..(n + 1)
          /\ required_ \in Nat /\ required_ >= 1
      BY <1>2, <2>3, RequiredPositive DEF IInv, TypeOK
    <3> SUFFICES ASSUME NEW j \in 1..(n + 1), j >= required_,
                        Alerts!IsRun(log', j - required_ + 1, j)
                 PROVE  \E i \in 1..j : log'[i].alert /\ Alerts!IsRun(log', i, j)
      BY <3>1 DEF NoMissedEpisode, IsRun, required_
    <3>2. CASE j = n + 1
      <4>1. (Len(log) >= required_ /\ IsRun(Len(log) - required_ + 1, Len(log)))'
        BY <3>1, <3>2 DEF IsRun, required_
      <4>2. (\E i \in 1..Len(log) : log[i].alert /\ IsRun(i, Len(log)))'
        BY <4>1, <1>2, LastRunAlerted, PTL
      <4> QED BY <4>2, <3>1, <3>2 DEF IsRun
    <3>3. CASE j # n + 1
      <4>1. j \in 1..n
        BY <3>1, <3>3
      <4>2. \A i \in 1..j : Alerts!IsRun(log', i, j) <=> Alerts!IsRun(log, i, j)
        BY <4>1, <3>1, <2>3, PastIsStable
      <4>3. Alerts!IsRun(log, j - required_ + 1, j)
        BY <4>1, <4>2, <3>1
      <4>4. PICK i \in 1..j : log[i].alert /\ Alerts!IsRun(log, i, j)
        BY <4>1, <4>3, <3>1, <1>2 DEF NoMissedEpisode, IsRun
      <4>5. log'[i] = log[i]
        BY <4>1, <3>1, <2>3
      <4> QED BY <4>2, <4>4, <4>5
    <3> QED BY <3>2, <3>3
  <2>4. ASSUME NEW cls \in Classes, NEW conf \in Confidences, Update(cls, conf)
        PROVE  \E w \in Window : log' = Append(log, w)
    BY <2>4 DEF Update, Quiet, IsQuiet, Suspect, Streak, Armed, Enough, Return, Window, Alerts!Window
  <2> QED BY <1>2, <2>1, <2>2, <2>3, <2>4 DEF Next, Restart, vars
<1> QED BY <1>1, <1>2, Invariance, PTL DEF Spec

\* Every step of the Debouncer is an Observe with the right verdict, a
\* Restart or a stutter.
LEMMA RefinementStep == ASSUME IInv, IInv', [Next]_vars PROVE [Alerts!Next]_log
<1>1. CASE UNCHANGED vars
  BY <1>1 DEF vars
<1>2. CASE Restart
  BY <1>2 DEF Restart, Alerts!Next, Alerts!Restart
<1>3. ASSUME NEW cls \in Classes, NEW conf \in Confidences, Update(cls, conf)
      PROVE  Alerts!Observe(cls, conf)
  <2> DEFINE n == Len(log)
             u == [cls |-> cls, conf |-> conf, alert |-> FALSE]
  <2>1. PICK a \in BOOLEAN : log' = Append(log, [cls |-> cls, conf |-> conf, alert |-> a])
    BY <1>3 DEF Update, Quiet, IsQuiet, Suspect, Streak, Armed, Enough, Return
  <2> DEFINE w == [cls |-> cls, conf |-> conf, alert |-> a]
  <2>2. /\ log \in Seq(Window) /\ n \in Nat /\ u \in Window /\ w \in Window
        /\ Append(log, u)[n + 1] = u /\ Append(log, w)[n + 1] = w
        /\ \A k \in 1..n : Append(log, u)[k] = log[k] /\ Append(log, w)[k] = log[k]
        /\ n + 1 \in DOMAIN log'
    BY <2>1 DEF IInv, TypeOK, Window, Alerts!Window
  <2>3. a <=> Alerts!ConfirmsAt(log', n + 1)
    BY <2>1, <2>2 DEF IInv, VerdictsInv
  <2>4. \A k \in 1..(n + 1) : /\ Append(log, u)[k].cls = Append(log, w)[k].cls
                              /\ Append(log, u)[k].conf = Append(log, w)[k].conf
    <3>1. ASSUME NEW k \in 1..(n + 1) PROVE k \in 1..n \/ k = n + 1
      BY <2>2
    <3> QED BY <3>1, <2>2
  <2>5. Len(Append(log, u)) = n + 1 /\ Len(Append(log, w)) = n + 1
    BY <2>2
  <2>6. Alerts!ConfirmsAt(Append(log, u), n + 1) <=> Alerts!ConfirmsAt(log', n + 1)
    <3>1. Append(log, u) \in Seq(Window) /\ Append(log, w) \in Seq(Window)
      BY <2>2
    <3>2. n + 1 \in Nat
      BY <2>2
    <3>3. log' = Append(log, w)
      BY <2>1
    <3> HIDE DEF n, u, w
    <3> QED BY <3>1, <3>2, <3>3, <2>4, <2>5, VerdictIgnoresVerdicts
  <2>7. a = Alerts!ConfirmsAt(Append(log, u), n + 1)
    BY <2>3, <2>6 DEF Alerts!ConfirmsAt
  <2>8. [u EXCEPT !.alert = a] = w
    OBVIOUS
  <2> QED BY <2>1, <2>7, <2>8 DEF Alerts!Observe
<1> QED BY <1>1, <1>2, <1>3 DEF Next, Alerts!Next

\* cur_, streak_ and armed_ implement the predicate of AlertSpec.
THEOREM Refinement == Spec => ImplementsAlertSpec
<1>1. Init => Alerts!Init
  BY DEF Init, Alerts!Init
<1>2. IInv /\ IInv' /\ [Next]_vars => [Alerts!Next]_log
  BY RefinementStep
<1> QED BY <1>1, <1>2, Invariance, PTL DEF Spec, ImplementsAlertSpec, Alerts!Spec
=============================================================================
