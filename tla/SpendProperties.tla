-------------------------- MODULE SpendProperties ---------------------------
(* What the spending figures promise. *)
EXTENDS Spend

(* What a pod and the pods of a set have cost in [from, to). *)
PodCost(p, from, to) ==
  Rate[p] * Units(p, from, to, "gpu") + DiskRate * Units(p, from, to, "disk")

Cost(pods, from, to) ==
  SumFunction([p \in pods |-> PodCost(p, from, to)])

(* A resumed pod counts as up since the last bucket that is billed of it.  *)
UnbilledPauses(from) ==
  LET through == MonthOf(folded).billedThrough IN
  SumFunction([p \in UpRows |->
                 Rate[p] * Units(p, Later(from, BilledThrough(p, through)), figure.at, "disk")])

(* A bucket the window's start cuts through is shared out evenly, which    *)
(* may be wrong by what a bucket costs.                                    *)
Slack(from) ==
  IF from % Hour = 0 THEN 0 ELSE SumFunction([p \in Pods \cup Foreign |-> Rate[p] * Hour])

DayStart(at) == StartOfLocalDay(Zone, at)
MonthStart(at) == StartOfLocalMonth(Zone, at)
Answered == figure.at # Never

(* The limits do not fire early: a figure is never more than what has been *)
(* spent, however old the billing is, however it is cut into days, and     *)
(* though a resumed pod keeps its started_at: of the time it was paused,   *)
(* only what is not billed yet may count as if it had been up.             *)
NeverInflated ==
  LET Most(from) == Cost(Pods \cup Foreign, from, figure.at) + Slack(from) + UnbilledPauses(from)
  IN  Answered => /\ figure.month <= Most(MonthStart(figure.at))
                  /\ figure.today <= Most(DayStart(figure.at))

(* Nor do they fire late: while our pods stay up the estimate covers what  *)
(* is not billed yet, a billing outage and midnight included.              *)
CoversWhatIsUp ==
  Answered /\ (\A p \in Pods : rows[p].startedAt # Never => rows[p].up) =>
    /\ figure.month >= Cost(Pods, MonthStart(figure.at), figure.at) - Slack(MonthStart(figure.at))
    /\ figure.today >= Cost(Pods, DayStart(figure.at), figure.at) - Slack(DayStart(figure.at))

(* RunPod is not asked again for the retry time after a failure, nor for   *)
(* the cache time after a success, whoever asks.                           *)
RequestsAreSpaced ==
  [][inFlight = NoRequest /\ inFlight' # NoRequest /\ cache.lastAttemptAt # Never =>
       inFlight'.at - cache.lastAttemptAt >= IF cache.failed THEN RetryAge ELSE CacheAge]_vars

(* What no share accounts for: the estimate, when every pod that is up and *)
(* costs something has lost its template.                                  *)
Unshared ==
  IF \E p \in UpRows : rows[p].owned /\ Rate[p] > 0 THEN 0 ELSE figure.estimatedMonth

(* The breakdowns add up: the bars of the month to the month's figure, but *)
(* for what is estimated of earlier days, and the shares too, but for what *)
(* pods are estimated to cost whose template was deleted, when no other    *)
(* runs that the estimate could be split over.                             *)
BreakdownsAddUp ==
  /\ figure.shares = figure.month - Unshared
  /\ figure.bars = figure.month - (figure.estimatedMonth - figure.estimated)

-----------------------------------------------------------------------------
(* The inductive invariants behind RequestsAreSpaced.                      *)

(* Whoever waits, and the request on its way, asked in the past, and no    *)
(* reader waits for a request made after it asked.                         *)
AskedBefore ==
  /\ now \in Instants
  /\ reading \in [Readers -> -1..now]
  /\ inFlight.at \in -1..now
  /\ inFlight # NoRequest =>
       /\ inFlight.at # Never
       /\ \A r \in Readers : reading[r] # Never => inFlight.at <= reading[r]

(* What was read last was asked for last, unless that failed; and the      *)
(* request on its way was not made too early.                              *)
CacheTold ==
  /\ cache.lastAttemptAt \in -1..now
  /\ cache.succeededAt \in -1..cache.lastAttemptAt
  /\ DOMAIN cache = DOMAIN NoCache /\ cache.failed \in BOOLEAN
  /\ ~cache.failed => cache.succeededAt = cache.lastAttemptAt
  /\ inFlight # NoRequest /\ cache.lastAttemptAt # Never =>
       inFlight.at - cache.lastAttemptAt >= IF cache.failed THEN RetryAge ELSE CacheAge

BillingInv == AskedBefore /\ CacheTold

-----------------------------------------------------------------------------
(* The inductive invariant behind the figures.                             *)

(* A unit that is over was spent up or paused, not both, and by a pod that *)
(* had started; a pod that is up or paused has been one of them since.     *)
UsageInv ==
  /\ used \subseteq (Pods \cup Foreign) \X (0..now - 1) \X {"gpu", "disk"}
  /\ \A p \in Foreign, u \in 0..now - 1 : <<p, u, "disk">> \notin used
  /\ \A p \in Pods :
       /\ rows[p].startedAt \in -1..now
       /\ rows[p].startedAt = Never => ~rows[p].up /\ ~rows[p].paused
       /\ ~(rows[p].up /\ rows[p].paused)
       /\ \A u \in 0..now - 1 :
            /\ ~(<<p, u, "gpu">> \in used /\ <<p, u, "disk">> \in used)
            /\ <<p, u, "gpu">> \in used \/ <<p, u, "disk">> \in used =>
                 rows[p].startedAt # Never /\ rows[p].startedAt <= u
            /\ (rows[p].up \/ rows[p].paused) /\ rows[p].startedAt <= u =>
                 <<p, u, "gpu">> \in used \/ <<p, u, "disk">> \in used

(* What is kept of what RunPod has published: all that ends after two days *)
(* before the month's start, as it was when RunPod was asked.              *)
Kept(through, zone) ==
  {rec \in Records(through) :
     rec.end > StartOfLocalMonth(Offset[zone], cache.succeededAt) - 2 * Day}

CacheInv ==
  /\ inFlight \in [at : Instant, zone : Zones \cup {""}]
  /\ inFlight # NoRequest => inFlight.zone \in Zones
  /\ published <= now
  /\ \E through \in 0..now, zone \in Zones : cache.records = Kept(through, zone)

(* A fold is of the day of its key, and no reader still waits who asked    *)
(* before it was made, or before what was read last was asked for.         *)
FoldInv ==
  /\ folded.at \in -1..now
  /\ folded.key # <<>> =>
       /\ folded.at # Never
       /\ \E zone \in Zones :
            folded.key = <<cache.succeededAt, zone, LocalDay(Offset[zone], folded.at)>>
  /\ \A r \in Readers : reading[r] # Never =>
       folded.at <= reading[r] /\ cache.succeededAt <= reading[r]
  /\ inFlight # NoRequest => ~Fresh

SpendInv == TypeOK /\ BillingInv /\ UsageInv /\ CacheInv /\ FoldInv
=============================================================================
