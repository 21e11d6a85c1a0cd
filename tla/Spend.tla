------------------------------- MODULE Spend --------------------------------
(***************************************************************************)
(* The spending figures (scheduler/spend.ts, SpendTracker): what RunPod    *)
(* has billed, read at most every CacheAge, and an estimate from each      *)
(* pod's last billed bucket on.  Several readers (the scheduler's tick,    *)
(* the app's polling) share one request that is on its way.                *)
(*                                                                         *)
(* Billing records are not kept one by one: a pod is billed Rate for every *)
(* unit it is up and DiskRate for every unit it is paused, in buckets of   *)
(* an hour that RunPod publishes some time after they close, so that the   *)
(* records of an answer follow from how far RunPod had published.          *)
(***************************************************************************)
EXTENDS SpendReport

CONSTANTS
  Pods,       \* pods with a row here; each is created once
  Foreign,    \* pods of the account without one; they are up throughout
  Rate,       \* what a pod costs per unit
  DiskRate,   \* what a paused pod does
  Zones,      \* the zones the settings may name
  Offset,     \* the clocks of each zone
  Readers,    \* who asks for the figures
  CacheAge,   \* CACHE_MS
  RetryAge,   \* RETRY_MS
  Horizon     \* bound: the clock stops here

ASSUME SpendAssumption ==
  /\ IsFiniteSet(Pods) /\ IsFiniteSet(Foreign) /\ Pods \cap Foreign = {}
  /\ Rate \in [Pods \cup Foreign -> Nat] /\ DiskRate \in Nat
  /\ CacheAge \in Nat /\ RetryAge \in Nat /\ Horizon \in Nat
  /\ Month <= Rounds

Instants == 0..Horizon
Instant == Instants \cup {Never}

VARIABLES
  now,
  rows,        \* the pods table: when a pod was created, whether it is up, or
               \* paused and could be resumed, and whether its template is
               \* still there (template_id)
  used,        \* the units each pod was up or paused
  published,   \* RunPod has published the buckets that end by then
  timezone,    \* the setting: the name of a zone
  cache,       \* SpendTracker.cache
  folded,      \* SpendTracker.folded: its key, and the instant it was made
  inFlight,    \* SpendTracker.inFlight: the instant and the zone it was asked with
  reading,     \* the instant each waiting reader asked with
  figure       \* the snapshot that the last step gave, if it gave one

vars == <<now, rows, used, published, timezone, cache, folded, inFlight, reading, figure>>
billing == <<cache, inFlight>>
facts == <<now, rows, used, published, timezone>>

NoCache == [records |-> {}, succeededAt |-> Never, lastAttemptAt |-> Never, failed |-> FALSE]
NoFold == [key |-> <<>>, at |-> Never]
NoRequest == [at |-> Never, zone |-> ""]
NoFigure == [at |-> Never, today |-> 0, month |-> 0, estimated |-> 0,
             estimatedMonth |-> 0, bars |-> 0, shares |-> 0]

TypeOK ==
  /\ now \in Instants
  /\ rows \in [Pods -> [startedAt : Instant, up : BOOLEAN, paused : BOOLEAN, owned : BOOLEAN]]
  /\ used \subseteq (Pods \cup Foreign) \X Instants \X {"gpu", "disk"}
  /\ published \in Instants
  /\ timezone \in Zones
  /\ cache.succeededAt \in Instant /\ cache.lastAttemptAt \in Instant
  /\ folded.at \in Instant
  /\ inFlight.at \in Instant
  /\ reading \in [Readers -> Instant]
  /\ figure.today \in Nat /\ figure.month \in Nat

Init ==
  /\ now = 0
  /\ rows = [p \in Pods |-> [startedAt |-> Never, up |-> FALSE, paused |-> FALSE, owned |-> TRUE]]
  /\ used = {}
  /\ published = 0
  /\ timezone \in Zones
  /\ cache = NoCache
  /\ folded = NoFold
  /\ inFlight = NoRequest
  /\ reading = [r \in Readers |-> Never]
  /\ figure = NoFigure

Zone == Offset[timezone]

-----------------------------------------------------------------------------
(* What RunPod answers: a record for each pod and closed bucket.           *)
Units(p, from, to, what) == Cardinality({u \in from..to - 1 : <<p, u, what>> \in used})

Bucket(p, start, end) ==
  LET gpu  == Rate[p] * Units(p, start, end, "gpu")
      disk == DiskRate * Units(p, start, end, "disk")
  IN  [pod |-> p, start |-> start, end |-> end, amount |-> gpu + disk, gpu |-> gpu, disk |-> disk]

Records(through) ==
  {rec \in {Bucket(p, b * Hour, (b + 1) * Hour) :
              p \in Pods \cup Foreign, b \in 0..(through \div Hour) - 1} : rec.amount > 0}

(* What the folds depend on. *)
FoldKey(at) == <<cache.succeededAt, timezone, LocalDay(Zone, at)>>

Fold(at) == IF folded.key = FoldKey(at) THEN folded ELSE [key |-> FoldKey(at), at |-> at]

MonthOf(f) == RollUp(cache.records, Zone, StartOfLocalMonth(Zone, f.at), f.at)
TodayOf(f) == RollUp(cache.records, Zone, StartOfLocalDay(Zone, f.at), f.at)

BilledThrough(p, through) == IF p \in DOMAIN through THEN through[p] ELSE 0

(* Mutant: from the pod's start, whatever has been billed since. *)
SeamAtStart(p, windowStart, through) == Later(rows[p].startedAt, windowStart)

(* Mutant: from when the billing was read. *)
SeamAtFetch(p, windowStart, through) ==
  Later(rows[p].startedAt, Later(cache.succeededAt, windowStart))

(* From when on a pod's cost is estimated. *)
Seam(p, windowStart, through) ==
  Later(rows[p].startedAt, Later(BilledThrough(p, through), windowStart))

UpRows == {p \in Pods : rows[p].up}

(* Mutant: a pod started while the request was on its way counts less than *)
(* nothing.                                                                *)
LiveCostUnclamped(at, windowStart, through) ==
  SumFunction([p \in UpRows |-> Rate[p] * (at - Seam(p, windowStart, through))])

(* liveCost *)
LiveCost(at, windowStart, through) ==
  SumFunction([p \in UpRows |-> Rate[p] * Later(0, at - Seam(p, windowStart, through))])

BilledOn(day, month) == IF day \in DOMAIN month.days THEN month.days[day].total ELSE 0

(* Mutant: today is what has been billed of it. *)
BarsBilled(at, month, estimated) ==
  LET days == LocalDaysBetween(Zone, StartOfLocalMonth(Zone, at), at)
  IN  SumFunction([i \in 1..Len(days) |-> BilledOn(days[i], month)])

(* report(): the bars of the days, today's with the estimate. *)
Bars(at, month, estimated) ==
  LET days == LocalDaysBetween(Zone, StartOfLocalMonth(Zone, at), at)
      Bar(i) == BilledOn(days[i], month)
                  + (IF days[i] = LocalDay(Zone, at) THEN estimated ELSE 0)
  IN  SumFunction([i \in 1..Len(days) |-> Bar(i)])

(* unbilledByTemplate: the estimate is split over the pods that are up and *)
(* whose template is still there, by their rates; with none, nothing is.   *)
Splits == \E p \in UpRows : rows[p].owned /\ Rate[p] > 0

(* report(): the shares of the templates, the deleted ones and the foreign *)
(* pods, all together. *)
Shares(month, estimatedMonth) ==
  SumFunction(month.byPod) + (IF Splits THEN estimatedMonth ELSE 0)

(* snapshot() and report() once the billing is there, with the instant     *)
(* they were asked with; the pods table is read now. *)
Answer(at) ==
  LET fold     == Fold(at)
      month    == MonthOf(fold)
      today    == TodayOf(fold)
      liveDay  == LiveCost(at, StartOfLocalDay(Zone, at), month.billedThrough)
      liveMonth == LiveCost(at, StartOfLocalMonth(Zone, at), month.billedThrough)
  IN  /\ folded' = fold
      /\ figure' =
           [at |-> at, today |-> today.total + liveDay, month |-> month.total + liveMonth,
            estimated |-> liveDay, estimatedMonth |-> liveMonth,
            bars |-> Bars(at, month, liveDay), shares |-> Shares(month, liveMonth)]

-----------------------------------------------------------------------------
(* The readers of an answer go on before anything else happens.            *)
Settled == inFlight # NoRequest \/ \A r \in Readers : reading[r] = Never

(* Mutant: only a success is remembered. *)
FreshByAge == cache.succeededAt # Never /\ now - cache.succeededAt <= CacheAge

(* ensureBilled: read recently, or tried recently and failed. *)
Fresh ==
  \/ cache.succeededAt # Never /\ now - cache.succeededAt <= CacheAge
  \/ cache.failed /\ now - cache.lastAttemptAt < RetryAge

ReadFresh(r) ==
  /\ Settled
  /\ reading[r] = Never
  /\ Fresh
  /\ Answer(now)
  /\ UNCHANGED <<facts, billing, reading>>

ReadStale(r) ==
  /\ Settled
  /\ reading[r] = Never
  /\ ~Fresh
  /\ reading' = [reading EXCEPT ![r] = now]
  /\ inFlight' = IF inFlight = NoRequest THEN [at |-> now, zone |-> timezone] ELSE inFlight
  /\ figure' = NoFigure
  /\ UNCHANGED <<facts, cache, folded>>

(* refreshBilled, answered: only the records the window can still need are *)
(* kept, two days before the month it was asked in.                        *)
BillingAnswers ==
  LET horizon == StartOfLocalMonth(Offset[inFlight.zone], inFlight.at) - 2 * Day IN
  /\ inFlight # NoRequest
  /\ cache' = [records |-> {rec \in Records(published) : rec.end > horizon},
               succeededAt |-> inFlight.at, lastAttemptAt |-> inFlight.at, failed |-> FALSE]
  /\ folded' = NoFold
  /\ inFlight' = NoRequest
  /\ figure' = NoFigure
  /\ UNCHANGED <<facts, reading>>

BillingFails ==
  /\ inFlight # NoRequest
  /\ cache' = [cache EXCEPT !.lastAttemptAt = inFlight.at, !.failed = TRUE]
  /\ inFlight' = NoRequest
  /\ figure' = NoFigure
  /\ UNCHANGED <<facts, folded, reading>>

(* A reader whose request has settled goes on, the first to wait first. *)
ReadOn(r) ==
  /\ reading[r] # Never
  /\ \A q \in Readers : reading[q] # Never => reading[r] <= reading[q]
  /\ inFlight = NoRequest
  /\ Answer(reading[r])
  /\ reading' = [reading EXCEPT ![r] = Never]
  /\ UNCHANGED <<facts, billing>>

-----------------------------------------------------------------------------
ClockMoves ==
  /\ Settled
  /\ now < Horizon
  /\ now' = now + 1
  /\ used' = used \cup {<<p, now, "gpu">> : p \in UpRows \cup Foreign}
                  \cup {<<p, now, "disk">> : p \in {q \in Pods : rows[q].paused}}
  /\ figure' = NoFigure
  /\ UNCHANGED <<rows, published, timezone, billing, folded, reading>>

PodStarts(p) ==
  /\ Settled
  /\ rows[p].startedAt = Never
  /\ rows' = [rows EXCEPT ![p] =
                [startedAt |-> now, up |-> TRUE, paused |-> FALSE, owned |-> TRUE]]
  /\ figure' = NoFigure
  /\ UNCHANGED <<now, used, published, timezone, billing, folded, reading>>

(* Paused, and its disk is kept, or terminated. *)
PodStops(p) ==
  /\ Settled
  /\ rows[p].up
  /\ \E paused \in BOOLEAN : rows' = [rows EXCEPT ![p].up = FALSE, ![p].paused = paused]
  /\ figure' = NoFigure
  /\ UNCHANGED <<now, used, published, timezone, billing, folded, reading>>

(* A resumed pod keeps its started_at.  Its template may be deleted while  *)
(* it is being woken, and the pod is then up without one.                  *)
PodResumes(p) ==
  /\ Settled
  /\ rows[p].paused /\ rows[p].owned
  /\ \E owned \in BOOLEAN :
       rows' = [rows EXCEPT ![p].up = TRUE, ![p].paused = FALSE, ![p].owned = owned]
  /\ figure' = NoFigure
  /\ UNCHANGED <<now, used, published, timezone, billing, folded, reading>>

(* RunPod's billing catches up with some of the buckets that have closed. *)
Publishes ==
  /\ Settled
  /\ \E b \in 1..(Horizon \div Hour) :
       /\ published < b * Hour /\ b * Hour <= now
       /\ published' = b * Hour
  /\ figure' = NoFigure
  /\ UNCHANGED <<now, rows, used, timezone, billing, folded, reading>>

SetTimezone ==
  /\ Settled
  /\ timezone' \in Zones \ {timezone}
  /\ figure' = NoFigure
  /\ UNCHANGED <<now, rows, used, published, billing, folded, reading>>

Next ==
  \/ \E r \in Readers : ReadFresh(r) \/ ReadStale(r) \/ ReadOn(r)
  \/ BillingAnswers \/ BillingFails
  \/ ClockMoves \/ Publishes \/ SetTimezone
  \/ \E p \in Pods : PodStarts(p) \/ PodStops(p) \/ PodResumes(p)

Spec == Init /\ [][Next]_vars
=============================================================================
