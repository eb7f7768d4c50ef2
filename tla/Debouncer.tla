------------------------------ MODULE Debouncer ------------------------------
(***************************************************************************)
(* class Debouncer (include/hids/debouncer.hpp): edge-triggered alert      *)
(* confirmation. One Update per window; Restart is the construction of a   *)
(* fresh object by a new process. log is a history variable: the inputs    *)
(* and the return value of every update() of this process.                 *)
(***************************************************************************)
EXTENDS Integers, Sequences

CONSTANTS
  Classes,      \* class indices Model::predict can return
  Normal,       \* constructor argument normal_class
  Confidences,  \* confidences Model::predict can report, in percent
  MinConf,      \* constructor argument min_confidence, in percent
  Required,     \* constructor argument required (cfg.alert_streak, any int)
  MaxWindows    \* bound: windows per process run

ASSUME DebouncerAssumption ==
  /\ Classes \subseteq Nat
  /\ Normal \in Classes
  /\ Confidences \subseteq Int
  /\ MinConf \in Int
  /\ Required \in Int
  /\ MaxWindows \in Nat

VARIABLES
  cur_,         \* class of the running streak, -1 before the first window
  streak_,      \* its length
  armed_,       \* may this streak still fire?
  log           \* history: one [cls, conf, alert] per update()

vars == <<cur_, streak_, armed_, log>>

NoClass == -1

\* The constructor clamps the configured streak to at least one window.
required_ == IF Required < 1 THEN 1 ELSE Required

Alerts == INSTANCE AlertSpec WITH Req <- required_

Init ==
  /\ cur_ = NoClass
  /\ streak_ = 0
  /\ armed_ = TRUE
  /\ log = << >>

Return(cls, conf, alert) ==
  log' = Append(log, [cls |-> cls, conf |-> conf, alert |-> alert])

\* Mutant of IsQuiet: the confidence is not looked at.
IsQuietNormalOnly(cls, conf) == cls = Normal

IsQuiet(cls, conf) == cls = Normal \/ conf < MinConf

\* A normal or an unconfident window: reset and re-arm.
Quiet(cls, conf) ==
  /\ IsQuiet(cls, conf)
  /\ cur_' = Normal
  /\ streak_' = 0
  /\ armed_' = TRUE
  /\ Return(cls, conf, FALSE)

\* Mutant of Streak: a switch to another class keeps counting.
StreakAnyClass(cls) == streak_ + 1

Streak(cls) == IF cls = cur_ THEN streak_ + 1 ELSE 1

\* Mutant of Armed: firing does not disarm.
ArmedAlways(cls) == TRUE

Armed(cls) == cls # cur_ \/ armed_

\* Mutant of Enough: `>` for `>='.
EnoughOffByOne(streak) == streak > required_

Enough(streak) == streak >= required_

\* A confident window of an attack class: extend or start the streak, and
\* fire once when it is long enough.
Suspect(cls, conf) ==
  LET fires == Armed(cls) /\ Enough(Streak(cls))
  IN  /\ ~IsQuiet(cls, conf)
      /\ cur_' = cls
      /\ streak_' = Streak(cls)
      /\ armed_' = (Armed(cls) /\ ~fires)
      /\ Return(cls, conf, fires)

Update(cls, conf) ==
  /\ Len(log) < MaxWindows
  /\ Quiet(cls, conf) \/ Suspect(cls, conf)

\* Mutant of Restart: the state of the previous process leaks into the new one.
RestartKeepsStreak == log' = << >> /\ UNCHANGED <<cur_, streak_, armed_>>

Restart ==
  /\ cur_' = NoClass
  /\ streak_' = 0
  /\ armed_' = TRUE
  /\ log' = << >>

Next ==
  \/ \E cls \in Classes, conf \in Confidences : Update(cls, conf)
  \/ Restart

Spec == Init /\ [][Next]_vars

-----------------------------------------------------------------------------
Window == Alerts!Window

IsRun(i, j) == Alerts!IsRun(log, i, j)

\* The members of Debouncer keep their types, and streak_ never counts more
\* windows than this process has classified.
TypeOK ==
  /\ cur_ \in Classes \cup {NoClass}
  /\ streak_ \in 0..Len(log)
  /\ armed_ \in BOOLEAN
  /\ log \in Seq(Window)

\* update() returns true only for a window that ends a run of at least
\* required_ consecutive confident predictions of one attack class.
EpisodeConfirmed ==
  \A i \in DOMAIN log :
    log[i].alert => i >= required_ /\ IsRun(i - required_ + 1, i)

\* "one alert per confirmed episode rather than one per window": two alerts
\* never belong to the same unbroken run.
OneAlertPerEpisode ==
  \A i, j \in DOMAIN log :
    i < j /\ log[i].alert /\ log[j].alert => ~IsRun(i, j)

\* A run that has reached required_ windows has raised its alert: whatever
\* came before it (another class, a quiet window, an earlier alert) cannot
\* leave the debouncer disarmed.
NoMissedEpisode ==
  \A j \in DOMAIN log :
    j >= required_ /\ IsRun(j - required_ + 1, j)
      => \E i \in 1..j : log[i].alert /\ IsRun(i, j)

\* "Returns true exactly on the window where a new episode is confirmed":
\* the streak counter and the arming flag implement the predicate of
\* AlertSpec, window by window.
ImplementsAlertSpec == Alerts!Spec
=============================================================================
