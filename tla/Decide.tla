------------------------------- MODULE Decide -------------------------------
(***************************************************************************)
(* What the scheduler should do about one template's pod: the pure         *)
(* functions of scheduler/decide.ts.  An instant is a number of units, so  *)
(* many to a minute; the clock a schedule is kept by shows minutes.        *)
(***************************************************************************)
EXTENDS Calendar

CONSTANT Minute     \* units in a minute

ASSUME MinuteAssumption == Minute \in Nat \ {0} /\ Day % Minute = 0

Minutes == Day \div Minute     \* in a day

(* localParts, hour and minute: what there is of seconds is dropped. *)
LocalMinute(zone, t) == SinceMidnight(zone, t) \div Minute

(* A window that crosses midnight belongs to the day its evening is on. *)
IsInsideWindow(s, now) ==
  LET m       == LocalMinute(s.zone, now)
      today   == Weekday(s.zone, now) \in s.weekdays
      evening == (Weekday(s.zone, now) + Week - 1) % Week \in s.weekdays
  IN  /\ s.startAt # Never
      /\ s.stopAt # Never
      /\ s.startAt # s.stopAt
      /\ IF s.startAt < s.stopAt
           THEN today /\ s.startAt <= m /\ m < s.stopAt
           ELSE \/ today /\ s.startAt <= m
                \/ evening /\ m < s.stopAt

(* When the window that `now` is inside opened: as many minutes ago as the *)
(* local clock shows, the seconds and the offset being those of now. *)
WindowOpenedAt(s, now) ==
  LET m == LocalMinute(s.zone, now) IN
  now - Minute * (IF m >= s.startAt THEN m - s.startAt ELSE m + Minutes - s.startAt)

StoppedIdleInThisWindow(s, pod, now) ==
  /\ pod.idleStoppedAt # Never
  /\ ~(pod.lastRequestAt > pod.idleStoppedAt)
  /\ IsInsideWindow(s, now)
  /\ pod.idleStoppedAt >= WindowOpenedAt(s, now)

ExceedsRuntimeCeiling(s, pod, now) ==
  /\ s.maxRuntimeHours > 0
  /\ pod.startedAt # Never
  /\ now - pod.startedAt >= s.maxRuntimeHours * Hour

(* Mutant: a request of the pod before counts. *)
HasEverBeenUsed(pod) == pod.lastRequestAt # Never /\ pod.startedAt # Never

HasBeenUsed(pod) ==
  pod.lastRequestAt # Never /\ pod.startedAt # Never /\ pod.lastRequestAt > pod.startedAt

IsIdle(s, pod, now) ==
  LET since == Later(pod.startedAt, pod.lastRequestAt) IN
  /\ s.idleStopMinutes > 0
  /\ pod.engineReady
  /\ since # Never
  /\ now - since >= s.idleStopMinutes * Minute

Do(what, because) == [do |-> what, because |-> because]

(* Mutant: a pod coming up is left alone before the limits are looked at. *)
DecideComingUpFirst(s, pod, limit, now) ==
  IF pod.status = "STARTING" THEN Do("nothing", "starting")
  ELSE IF pod.status = "RUNNING" /\ limit # "none" THEN Do("stop", limit)
  ELSE IF pod.status = "RUNNING" /\ ~IsInsideWindow(s, now) THEN Do("stop", "outside-schedule")
  ELSE Do("nothing", "already-correct")

(* decide.  `limit` is the spending limit that is reached, if one is:      *)
(* "daily-limit" before "monthly-limit", else "none".  STARTING stands for *)
(* PROVISIONING too, and any other status for a pod that is not up.        *)
Decide(s, pod, limit, now) ==
  LET isUp    == pod.status = "RUNNING"
      coming  == pod.status = "STARTING"
      wanted  == IsInsideWindow(s, now)
      ceiling == ExceedsRuntimeCeiling(s, pod, now)
  IN  CASE (isUp \/ coming) /\ limit # "none" -> Do("stop", limit)
        [] coming /\ limit = "none" -> Do("nothing", "starting")
        [] OTHER ->
             IF isUp /\ ~ceiling /\ pod.inFlightRequests > 0
               THEN Do("nothing", "serving-requests")
             ELSE IF isUp /\ ceiling THEN Do("stop", "max-runtime")
             ELSE IF isUp /\ IsIdle(s, pod, now) THEN Do("stop", "idle-timeout")
             ELSE IF ~s.enabled THEN Do("nothing", "schedule-disabled")
             ELSE IF wanted /\ ~isUp
               THEN IF StoppedIdleInThisWindow(s, pod, now)
                      THEN Do("nothing", "idle-until-requested")
                      ELSE Do("start", "inside-schedule")
             ELSE IF ~wanted /\ isUp
               THEN IF pod.startedManually /\ ~HasBeenUsed(pod)
                      THEN Do("nothing", "manual-start")
                      ELSE Do("stop", "outside-schedule")
             ELSE Do("nothing", "already-correct")
=============================================================================
