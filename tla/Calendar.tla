------------------------------ MODULE Calendar ------------------------------
(***************************************************************************)
(* Local time, as scheduler/decide.ts and scheduler/spend-report.ts read   *)
(* it out of Intl.  An instant is a number of units, Never the null date.  *)
(* A zone is a function from instants to the units its clocks are ahead,   *)
(* which may change from one instant to another: daylight saving is part   *)
(* of it.  Days, weeks and months may be shorter than ours, to keep        *)
(* instances small; a month is a fixed number of days.                     *)
(***************************************************************************)
EXTENDS Integers

CONSTANTS
  Day,     \* units in a day
  Week,    \* days in a week
  Month,   \* days in a month
  Hour     \* units in an hour, the length of a billing bucket

ASSUME CalendarAssumption ==
  /\ Day \in Nat \ {0} /\ Week \in Nat \ {0}
  /\ Month \in Nat \ {0} /\ Hour \in Nat \ {0}

Never == -1

Later(a, b) == IF a >= b THEN a ELSE b

(* localParts and localDayKey: the time of day, the weekday and the date. *)
SinceMidnight(zone, t) == (t + zone[t]) % Day
LocalDay(zone, t) == (t + zone[t]) \div Day
Weekday(zone, t) == LocalDay(zone, t) % Week

(* Two passes: the offset to subtract is the one in force at midnight. *)
Midnight(zone, t, day) == LET guess == day * Day - zone[t] IN day * Day - zone[guess]

StartOfLocalDay(zone, t) == Midnight(zone, t, LocalDay(zone, t))
StartOfLocalMonth(zone, t) == Midnight(zone, t, (LocalDay(zone, t) \div Month) * Month)
=============================================================================
