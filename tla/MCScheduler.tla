---------------------------- MODULE MCScheduler -----------------------------
(* Instances of the scheduler: days of three minutes, weeks of two days.    *)
EXTENDS SchedulerProperties

Everywhere == [u \in -1..Horizon |-> 0]

Plan(enabled, weekdays, startAt, stopAt, idle, hours) ==
  [enabled |-> enabled, zone |-> Everywhere, weekdays |-> weekdays,
   startAt |-> startAt, stopAt |-> stopAt, idleStopMinutes |-> idle,
   maxRuntimeHours |-> hours]

(* The first template is up by day, the second around the first midnight. *)
DayAndNight == <<Plan(TRUE, {0, 1}, 0, 2, 1, 0), Plan(TRUE, {0}, 2, 1, 1, 1)>>
BothModes == <<"recreate", "stopResume">>

(* In the night, two units after the window opened, the clocks go back. *)
BackAtThree == [u \in -1..Horizon |-> IF u < 3 THEN 2 ELSE 1]
ClocksGoBack == <<[Plan(TRUE, {0, 1}, 3, 2, 1, 0) EXCEPT !.zone = BackAtThree]>>

Recreating == <<"recreate">>

One == <<Plan(TRUE, {0, 1}, 0, 3, 1, 2)>>
Resuming == <<"stopResume">>
=============================================================================
