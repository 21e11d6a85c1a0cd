---------------------------- MODULE SpendReport -----------------------------
(***************************************************************************)
(* Folding RunPod's billing records into days and pods: the pure functions *)
(* of scheduler/spend-report.ts.  A record bills a pod for the bucket      *)
(* [start, end); amounts are whole numbers that the buckets' lengths       *)
(* divide, where the code has fractions.                                   *)
(***************************************************************************)
EXTENDS Calendar, Sequences, FiniteSets, FiniteSetsExt, Functions

(* The part of a record's amount that falls on some of its units. *)
Part(amount, r, units) == (amount * units) \div (r.end - r.start)

(* What rollUp looks at: buckets that have closed and reach the window. *)
Counted(records, from, now) ==
  {r \in records : r.start < r.end /\ from < r.end /\ r.end <= now}

InWindow(r, from) == r.end - Later(r.start, from)

(* Where the slice that begins at c ends: the midnight of the day that is  *)
(* a day's length later, unless that does not get on.                      *)
SliceEnd(zone, c, to) ==
  LET midnight == StartOfLocalDay(zone, c + Day)
  IN  IF midnight > c THEN Min({midnight, to}) ELSE to

(* localDaySlices *)
LocalDaySlices(zone, from, to) ==
  LET slices[c \in from..to] ==
        IF c >= to THEN {}
        ELSE {[day |-> LocalDay(zone, c), from |-> c, to |-> SliceEnd(zone, c, to)]}
               \cup slices[SliceEnd(zone, c, to)]
  IN  slices[from]

NextDay(zone, c) == StartOfLocalDay(zone, c + Day + Day \div 2)

(* The local midnights that localDaysBetween steps through. *)
Midnights(zone, from) ==
  LET cursor[i \in Nat] ==
        IF i = 0 THEN StartOfLocalDay(zone, from) ELSE NextDay(zone, cursor[i - 1])
  IN  cursor

Rounds == 400

(* localDaysBetween: every local day, the empty ones included.  The loop   *)
(* ends on the day of now, where it does not get on, or after its rounds.  *)
LocalDaysBetween(zone, from, now) ==
  LET cursor    == Midnights(zone, from)
      Breaks(i) == LocalDay(zone, cursor[i]) = LocalDay(zone, now) \/ cursor[i + 1] <= cursor[i]
      last      == CHOOSE i \in 0..Rounds - 1 :
                     /\ i = Rounds - 1 \/ Breaks(i)
                     /\ \A j \in 0..i - 1 : ~Breaks(j)
  IN  [i \in 1..last + 1 |-> LocalDay(zone, cursor[i - 1])]

Other(r) == Later(0, r.amount - r.gpu - r.disk)

(* The slices of the records, each with the record it is of. *)
Slices(counted, zone, from) ==
  UNION {{[rec |-> r, slice |-> s] : s \in LocalDaySlices(zone, Later(r.start, from), r.end)} :
           r \in counted}

(* What falls on a day of an amount that each record has. *)
OnDay(day, slices, amount) ==
  SumFunctionOnSet([x \in slices |->
                      Part(amount[x.rec], x.rec, x.slice.to - x.slice.from)],
                   {x \in slices : x.slice.day = day})

(* What falls on the window of each record. *)
Billed(counted, from) == [r \in counted |-> Part(r.amount, r, InWindow(r, from))]

(* rollUp *)
RollUp(records, zone, from, now) ==
  LET counted  == Counted(records, from, now)
      amounts  == Billed(counted, from)
      slices   == Slices(counted, zone, from)
      gpu      == [r \in counted |-> r.gpu]
      disk     == [r \in counted |-> r.disk]
      other    == [r \in counted |-> Other(r)]
      total    == [r \in counted |-> r.amount]
      billed   == {r.pod : r \in counted}
      By(p)    == {r \in counted : r.pod = p}
  IN  [total |-> SumFunction(amounts),
       byPod |-> [p \in billed |-> SumFunctionOnSet(amounts, By(p))],
       billedThrough |-> [p \in billed |-> Max({r.end : r \in By(p)})],
       days |-> [d \in {x.slice.day : x \in slices} |->
                   [gpu |-> OnDay(d, slices, gpu), disk |-> OnDay(d, slices, disk),
                    other |-> OnDay(d, slices, other), total |-> OnDay(d, slices, total)]]]
=============================================================================
