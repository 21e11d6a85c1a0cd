------------------------ MODULE SchedulerProperties -------------------------
(* What the scheduler promises about the pods it governs. *)
EXTENDS Scheduler

Current == Head(tick.todo)
Decides(phase) == tick.phase \in {"each", "ask"} /\ tick'.phase = phase

(* An idle shutdown is not undone by the schedule: a pod that was stopped  *)
(* for being idle is not started again while the window it was stopped in  *)
(* lasts, unless a person or a request started it in between, or a request *)
(* was still unanswered when it was stopped: that one's answer, be it the  *)
(* proxy's, is recorded after the stop and counts as somebody asking anew. *)
(* The window is taken here as the instants since the stop, not as the     *)
(* code does, and it has been open for a minute by then.                   *)
NoFlapping ==
  [][Decides("start") =>
       ~ /\ rested[Current] # Never
         /\ \A u \in (rested[Current] + 1 - Minute)..tick.at :
              IsInsideWindow(Schedule[Current], u)]_vars

(* The end of the hours does not take away a pod a person started and that *)
(* nobody could use yet: of what the schedule stops, a request sent to     *)
(* this very run, whose engine had come up then, has been answered.  Left  *)
(* out are a run that began while a request to an earlier one was          *)
(* unanswered, which is recorded as use of the template when its answer    *)
(* comes; a resumed pod, whose started_at is that of an earlier run; and a *)
(* pod that replaced the one the tick looked at.                           *)
ManualUntilUsed ==
  [][/\ Decides("stop")
     /\ tick'.because = "outside-schedule"
     /\ row[Current].run = tick.seen.run
     /\ row[Current].startedAt = row[Current].since
     /\ row[Current].by = "user" /\ row[Current].clean
     => row[Current].served]_vars

(* A spending limit that stays reached brings every pod down in the end,   *)
(* one that is still coming up included, although a stop may fail and take *)
(* the rest of its tick with it.                                           *)
LimitStops ==
  \A t \in Templates : (hasKey /\ Up(t) /\ spent # "none") ~> (~Up(t) \/ spent = "none")

OverHours(t) == Schedule[t].enabled /\ ~IsInsideWindow(Schedule[t], now)

(* A pod that runs past its hours is stopped in the end, when nobody is    *)
(* being served; only one a person started may stay.  A pod a request woke *)
(* may not.                                                                *)
HoursEnd ==
  \A t \in Templates :
    (/\ hasKey
     /\ row[t].status = "RUNNING" /\ row[t].by # "user"
     /\ OverHours(t) /\ requests = {})
      ~> (~Up(t) \/ row[t].by = "user" \/ ~OverHours(t) \/ requests # {})

(* The ceiling is on one run (decide.ts:111): a pod stopped for it has run *)
(* for that long since it was started or resumed.                          *)
CeilingIsOfThisRun ==
  [][Decides("stop") /\ tick'.because = "max-runtime" =>
       tick.at - row[Current].since >= Schedule[Current].maxRuntimeHours * Hour]_vars

(* The spending cap is "down, whatever else says" (README.md:134): the     *)
(* scheduler does not start a pod while its own snapshot has it reached.   *)
CapKeepsDown ==
  [][Decides("start") => tick.limit = "none"]_vars

(* A pod that was stopped for being idle inside the window "stays down     *)
(* until the window comes round again" (decide.ts:136): it is not started  *)
(* while one window lasts, however short it was open, and whatever becomes *)
(* of the clocks meanwhile.                                                *)
StaysDownInWindow ==
  [][Decides("start") =>
       ~ /\ rested[Current] # Never
         /\ \A u \in rested[Current]..tick.at : IsInsideWindow(Schedule[Current], u)]_vars

(* Work in progress is never cut off but by the ceiling and the limits     *)
(* (decide.ts:104): a pod that goes idle or out of hours serves nobody at  *)
(* the moment it is decided to stop it.                                    *)
WorkIsNotCut ==
  [][Decides("stop") /\ tick'.because \in {"idle-timeout", "outside-schedule"} =>
       \A r \in Asks(Current) : r.phase \notin {"sent", "answering"}]_vars
=============================================================================
