---------------------------- MODULE Spend_proofs ----------------------------
(***************************************************************************)
(* Proofs about the spending figures: how often RunPod is asked, and what  *)
(* an answer says.                                                         *)
(*                                                                         *)
(* An answer is compared with what the pods have cost pod by pod: up to    *)
(* the end of its last billed bucket with the records that were counted,   *)
(* from there on with the estimate.  The sums over the records, the pods,  *)
(* the slices and the days then follow from the lemmas of Sum_proofs.      *)
(***************************************************************************)
EXTENDS SpendProperties, Sum_proofs

Everyone == Pods \cup Foreign

(* Clocks that show a time at every instant, and clocks that are never     *)
(* changed.                                                                *)
Clock(zone) == \A t \in Int : zone[t] \in Int
Steady(zone) == Clock(zone) /\ \A t, u \in Int : zone[t] = zone[u]

(* What the theorems take of the constants.                                *)
ZonesTyped == \A zone \in Zones : Clock(Offset[zone])
SteadyClocks == \A zone \in Zones : Steady(Offset[zone])

PausedCostsLess == \A p \in Everyone : DiskRate <= Rate[p]

(* No zone's month begins more than two days after another's.              *)
MonthsOverlap ==
  \A zone, other \in Zones, t \in Instants :
    StartOfLocalMonth(Offset[zone], t) - 2 * Day <= StartOfLocalMonth(Offset[other], t)

(* The parts of an amount are whole: the code has fractions, the model     *)
(* rounds down.                                                            *)
WholeShares == DiskRate % Hour = 0 /\ \A p \in Everyone : Rate[p] % Hour = 0

-----------------------------------------------------------------------------
(* Arithmetic.                                                             *)

LEMMA Division ==
  ASSUME NEW a \in Int, NEW d \in Nat \ {0}
  PROVE  /\ a \div d \in Int /\ a % d \in 0..d - 1
         /\ a = (a \div d) * d + (a % d)
         /\ (a \div d) * d <= a /\ a < (a \div d) * d + d
OBVIOUS

(* The quotient is the one number with that property. *)
LEMMA Quotient ==
  ASSUME NEW a \in Int, NEW d \in Nat \ {0}, NEW q \in Int, q * d <= a, a < q * d + d
  PROVE  a \div d = q
<1> DEFINE r == a - q * d
<1>1. q * d \in Int
  OBVIOUS
<1>2. r \in Int /\ 0 <= r /\ r < d /\ a = q * d + r
  BY <1>1
<1> HIDE DEF r
<1> QED  BY <1>2

LEMMA Scaled ==
  ASSUME NEW a \in Int, NEW b \in Int, NEW d \in Nat, a <= b
  PROVE  a * d <= b * d
OBVIOUS

LEMMA Divided ==
  ASSUME NEW a \in Int, NEW b \in Int, NEW d \in Nat \ {0}, a <= b
  PROVE  a \div d <= b \div d
<1> DEFINE p == a \div d
           q == b \div d
<1>1. p \in Int /\ q \in Int /\ p * d <= a /\ b < q * d + d
  BY Division
<1> HIDE DEF p, q
<1>2. q * d + d = (q + 1) * d /\ p * d \in Int
  BY <1>1
<1>3. p < q + 1
  <2>1. q + 1 <= p => (q + 1) * d <= p * d
    BY <1>1, Scaled
  <2> QED  BY <1>1, <1>2, <2>1
<1> QED  BY <1>1, <1>3 DEF p, q

-----------------------------------------------------------------------------
(* Local time.                                                             *)

LEMMA Hours == Day \in Nat \ {0} /\ Month \in Nat \ {0} /\ Hour \in Nat \ {0}
BY CalendarAssumption

LEMMA StartsTyped ==
  ASSUME NEW zone, Clock(zone), NEW t \in Int
  PROVE  /\ LocalDay(zone, t) \in Int
         /\ StartOfLocalDay(zone, t) \in Int
         /\ StartOfLocalMonth(zone, t) \in Int
<1>1. ASSUME NEW day \in Int PROVE Midnight(zone, t, day) \in Int
  <2>1. day * Day \in Int /\ zone[t] \in Int
    BY Hours DEF Clock
  <2>2. day * Day - zone[t] \in Int
    BY <2>1
  <2>3. zone[day * Day - zone[t]] \in Int
    BY <2>2 DEF Clock
  <2> QED  BY <2>1, <2>3 DEF Midnight
<1>2. LocalDay(zone, t) \in Int
  BY Hours, Division DEF LocalDay, Clock
<1>3. (LocalDay(zone, t) \div Month) * Month \in Int
  <2> DEFINE d == LocalDay(zone, t)
  <2>1. d \in Int
    BY <1>2
  <2> HIDE DEF d
  <2>2. d \div Month \in Int
    BY <2>1, Hours, Division
  <2>3. (d \div Month) * Month \in Int
    BY <2>2, Hours
  <2> QED  BY <2>3 DEF d
<1> QED  BY <1>1, <1>2, <1>3 DEF StartOfLocalDay, StartOfLocalMonth

LEMMA SteadyMidnight ==
  ASSUME NEW zone, Steady(zone), NEW t \in Int, NEW day \in Int
  PROVE  Midnight(zone, t, day) = day * Day - zone[0] /\ day * Day \in Int /\ zone[0] \in Int
<1>1. day * Day \in Int /\ zone[t] \in Int /\ zone[0] \in Int /\ zone[t] = zone[0]
  BY Hours DEF Steady, Clock
<1>2. day * Day - zone[t] \in Int
  BY <1>1
<1>3. zone[day * Day - zone[t]] = zone[0]
  BY <1>2 DEF Steady
<1> QED  BY <1>1, <1>3 DEF Midnight

LEMMA SteadyDays ==
  ASSUME NEW zone, Steady(zone), NEW t \in Int
  PROVE  /\ StartOfLocalDay(zone, t) = LocalDay(zone, t) * Day - zone[0]
         /\ StartOfLocalDay(zone, t) \in Int /\ StartOfLocalDay(zone, t) <= t
         /\ t < StartOfLocalDay(zone, t) + Day
         /\ LocalDay(zone, t) = (t + zone[0]) \div Day
<1> DEFINE k == zone[0]
           d == (t + k) \div Day
<1>1. k \in Int /\ zone[t] = k
  BY DEF Steady, Clock
<1>2. LocalDay(zone, t) = d
  BY <1>1 DEF LocalDay
<1>3. d \in Int /\ d * Day <= t + k /\ t + k < d * Day + Day
  <2> HIDE DEF k
  <2> DEFINE a == t + k
  <2>1. a \in Int
    BY <1>1
  <2> HIDE DEF a
  <2>2. a \div Day \in Int /\ (a \div Day) * Day <= a /\ a < (a \div Day) * Day + Day
    BY <2>1, Hours, Division
  <2> QED  BY <2>2 DEF a
<1>4. StartOfLocalDay(zone, t) = d * Day - k /\ d * Day \in Int
  <2> HIDE DEF d
  <2> QED  BY <1>2, <1>3, SteadyMidnight DEF StartOfLocalDay
<1> HIDE DEF d, k
<1> QED  BY <1>1, <1>2, <1>3, <1>4, Hours DEF d, k

LEMMA SteadyMonths ==
  ASSUME NEW zone, Steady(zone), NEW t \in Int
  PROVE  /\ StartOfLocalMonth(zone, t)
               = ((LocalDay(zone, t) \div Month) * Month) * Day - zone[0]
         /\ StartOfLocalMonth(zone, t) \in Int
         /\ StartOfLocalMonth(zone, t) <= StartOfLocalDay(zone, t)
<1> DEFINE d == LocalDay(zone, t)
           m == (d \div Month) * Month
<1>1. d \in Int
  BY StartsTyped DEF Steady
<1>2. m \in Int /\ m <= d
  <2> HIDE DEF d
  <2>1. d \div Month \in Int /\ m <= d
    BY <1>1, Hours, Division
  <2> QED  BY <2>1, Hours
<1>3. StartOfLocalMonth(zone, t) = m * Day - zone[0] /\ m * Day \in Int /\ zone[0] \in Int
  <2> HIDE DEF m
  <2> QED  BY <1>2, SteadyMidnight DEF StartOfLocalMonth, m, d
<1>4. StartOfLocalDay(zone, t) = d * Day - zone[0]
  BY SteadyDays
<1> HIDE DEF d, m
<1>5. m * Day <= d * Day /\ d * Day \in Int
  BY <1>1, <1>2, Hours, Scaled
<1>6. StartOfLocalMonth(zone, t) \in Int /\ StartOfLocalMonth(zone, t) <= StartOfLocalDay(zone, t)
  BY <1>3, <1>4, <1>5
<1> QED  BY <1>3, <1>6 DEF m, d

(* The starts only depend on the day. *)
LEMMA SameDay ==
  ASSUME NEW zone, Steady(zone), NEW t \in Int, NEW u \in Int,
         LocalDay(zone, t) = LocalDay(zone, u)
  PROVE  /\ StartOfLocalDay(zone, t) = StartOfLocalDay(zone, u)
         /\ StartOfLocalMonth(zone, t) = StartOfLocalMonth(zone, u)
BY SteadyDays, SteadyMonths

LEMMA DaysInOrder ==
  ASSUME NEW zone, Steady(zone), NEW t \in Int, NEW u \in Int, t <= u
  PROVE  /\ LocalDay(zone, t) <= LocalDay(zone, u)
         /\ StartOfLocalMonth(zone, t) <= StartOfLocalMonth(zone, u)
<1> DEFINE k == zone[0]
           d == LocalDay(zone, t)
           e == LocalDay(zone, u)
<1>1. k \in Int /\ d = (t + k) \div Day /\ e = (u + k) \div Day
  BY SteadyDays DEF Steady, Clock
<1>2. d \in Int /\ e \in Int
  BY StartsTyped DEF Steady
<1>3. d <= e
  <2> HIDE DEF d, e, k
  <2>1. t + k \in Int /\ u + k \in Int /\ t + k <= u + k
    BY <1>1
  <2>2. (t + k) \div Day <= (u + k) \div Day
    BY <2>1, Hours, Divided
  <2> QED  BY <1>1, <2>2
<1>4. /\ StartOfLocalMonth(zone, t) = ((d \div Month) * Month) * Day - k
      /\ StartOfLocalMonth(zone, u) = ((e \div Month) * Month) * Day - k
  BY SteadyMonths
<1> HIDE DEF d, e, k
<1> DEFINE p == d \div Month
           q == e \div Month
<1>5. p \in Int /\ q \in Int /\ p <= q
  BY <1>2, <1>3, Hours, Division, Divided
<1> HIDE DEF p, q
<1>6. p * Month \in Int /\ q * Month \in Int /\ p * Month <= q * Month
  BY <1>5, Hours, Scaled
<1>7. /\ (p * Month) * Day \in Int /\ (q * Month) * Day \in Int
      /\ (p * Month) * Day <= (q * Month) * Day
  BY <1>6, Hours, Scaled
<1>8. StartOfLocalMonth(zone, t) <= StartOfLocalMonth(zone, u)
  BY <1>1, <1>4, <1>7 DEF p, q
<1> QED  BY <1>3, <1>8 DEF d, e

-----------------------------------------------------------------------------
(* The units a pod was up or paused.                                       *)

UsedIn(p, from, to, what) == {u \in from..to - 1 : <<p, u, what>> \in used}

LEMMA UsedFinite ==
  ASSUME NEW p, NEW what, NEW from \in Int, NEW to \in Int
  PROVE  /\ IsFiniteSet(UsedIn(p, from, to, what))
         /\ Units(p, from, to, what) = Cardinality(UsedIn(p, from, to, what))
         /\ Units(p, from, to, what) \in Nat
<1>1. IsFiniteSet(from..to - 1)
  BY FS_Interval
<1>2. IsFiniteSet(UsedIn(p, from, to, what))
  BY <1>1, FS_Subset DEF UsedIn
<1>3. Cardinality(UsedIn(p, from, to, what)) \in Nat
  BY <1>2, FS_CardinalityType
<1> QED  BY <1>2, <1>3 DEF Units, UsedIn

LEMMA UnitsSplit ==
  ASSUME NEW p, NEW what, NEW a \in Int, NEW b \in Int, NEW c \in Int, a <= b, b <= c
  PROVE  Units(p, a, c, what) = Units(p, a, b, what) + Units(p, b, c, what)
<1> DEFINE S == UsedIn(p, a, b, what)
           T == UsedIn(p, b, c, what)
<1>1. UsedIn(p, a, c, what) = S \cup T /\ S \cap T = {}
  BY DEF UsedIn
<1>2. /\ IsFiniteSet(S) /\ IsFiniteSet(T)
      /\ Units(p, a, b, what) = Cardinality(S) /\ Cardinality(S) \in Nat
      /\ Units(p, b, c, what) = Cardinality(T) /\ Cardinality(T) \in Nat
      /\ Units(p, a, c, what) = Cardinality(UsedIn(p, a, c, what))
  BY UsedFinite
<1>3. Cardinality(S \cap T) = 0
  BY <1>1, FS_EmptySet
<1>4. Units(p, a, c, what) = Cardinality(S \cup T)
  BY <1>1, <1>2
<1> HIDE DEF S, T
<1>5. Cardinality(S \cup T) = Cardinality(S) + Cardinality(T) - Cardinality(S \cap T)
  BY <1>2, FS_Union
<1> QED  BY <1>2, <1>3, <1>4, <1>5

LEMMA UnitsNone ==
  ASSUME NEW p, NEW what, NEW a \in Int, NEW b \in Int,
         \A u \in a..b - 1 : <<p, u, what>> \notin used
  PROVE  Units(p, a, b, what) = 0
<1>1. UsedIn(p, a, b, what) = {}
  BY DEF UsedIn
<1> QED  BY <1>1, UsedFinite, FS_EmptySet

LEMMA BothUses ==
  ASSUME NEW p, NEW a \in Int, NEW b \in Int, a <= b,
         \A u \in a..b - 1 : ~(<<p, u, "gpu">> \in used /\ <<p, u, "disk">> \in used)
  PROVE  /\ Units(p, a, b, "gpu") + Units(p, a, b, "disk") <= b - a
         /\ (\A u \in a..b - 1 : <<p, u, "gpu">> \in used \/ <<p, u, "disk">> \in used) =>
              Units(p, a, b, "gpu") + Units(p, a, b, "disk") = b - a
<1> DEFINE S == UsedIn(p, a, b, "gpu")
           T == UsedIn(p, a, b, "disk")
<1>1. S \cup T \subseteq a..b - 1 /\ S \cap T = {}
  BY DEF UsedIn
<1>2. /\ IsFiniteSet(S) /\ IsFiniteSet(T)
      /\ Units(p, a, b, "gpu") = Cardinality(S) /\ Cardinality(S) \in Nat
      /\ Units(p, a, b, "disk") = Cardinality(T) /\ Cardinality(T) \in Nat
  BY UsedFinite
<1>3. Cardinality(S \cap T) = 0
  BY <1>1, FS_EmptySet
<1>4. (\A u \in a..b - 1 : <<p, u, "gpu">> \in used \/ <<p, u, "disk">> \in used) =>
        S \cup T = a..b - 1
  BY DEF UsedIn
<1> HIDE DEF S, T
<1>5. Cardinality(S \cup T) = Cardinality(S) + Cardinality(T) - Cardinality(S \cap T)
  BY <1>2, FS_Union
<1>6. IsFiniteSet(a..b - 1) /\ Cardinality(a..b - 1) = b - a
  <2>1. Cardinality(a..b - 1) = IF a > b - 1 THEN 0 ELSE (b - 1) - a + 1
    BY FS_Interval
  <2>2. IsFiniteSet(a..b - 1)
    BY FS_Interval
  <2> QED  BY <2>1, <2>2
<1>7. Cardinality(S \cup T) <= b - a
  BY <1>1, <1>6, FS_Subset
<1>8. S \cup T = a..b - 1 => Cardinality(S \cup T) = b - a
  BY <1>6
<1>9. Cardinality(S) + Cardinality(T) = Cardinality(S \cup T)
  BY <1>2, <1>3, <1>5
<1> QED  BY <1>2, <1>4, <1>7, <1>8, <1>9

(* What a pod costs. *)
LEMMA CostTyped ==
  ASSUME NEW p \in Pods \cup Foreign, NEW a \in Int, NEW b \in Int
  PROVE  PodCost(p, a, b) \in Nat
<1>1. Rate[p] \in Nat /\ DiskRate \in Nat
  BY SpendAssumption
<1>2. Units(p, a, b, "gpu") \in Nat /\ Units(p, a, b, "disk") \in Nat
  BY UsedFinite
<1> QED  BY <1>1, <1>2 DEF PodCost

LEMMA CostSplit ==
  ASSUME NEW p \in Pods \cup Foreign, NEW a \in Int, NEW b \in Int, NEW c \in Int,
         a <= b, b <= c
  PROVE  PodCost(p, a, c) = PodCost(p, a, b) + PodCost(p, b, c)
<1>1. Rate[p] \in Nat /\ DiskRate \in Nat
  BY SpendAssumption
<1> DEFINE g == Units(p, a, b, "gpu")
           h == Units(p, b, c, "gpu")
           d == Units(p, a, b, "disk")
           e == Units(p, b, c, "disk")
<1>2. g \in Nat /\ h \in Nat /\ d \in Nat /\ e \in Nat
  BY UsedFinite
<1>3. Units(p, a, c, "gpu") = g + h /\ Units(p, a, c, "disk") = d + e
  BY UnitsSplit
<1> HIDE DEF g, h, d, e
<1>4. Rate[p] * (g + h) + DiskRate * (d + e)
        = (Rate[p] * g + DiskRate * d) + (Rate[p] * h + DiskRate * e)
  BY <1>1, <1>2
<1> QED  BY <1>3, <1>4 DEF PodCost, g, h, d, e

LEMMA CostMost ==
  ASSUME NEW p \in Pods \cup Foreign, DiskRate <= Rate[p],
         NEW a \in Int, NEW b \in Int, a <= b,
         \A u \in a..b - 1 : ~(<<p, u, "gpu">> \in used /\ <<p, u, "disk">> \in used)
  PROVE  PodCost(p, a, b) <= Rate[p] * (b - a)
<1> DEFINE g == Units(p, a, b, "gpu")
           d == Units(p, a, b, "disk")
           r == Rate[p]
<1>1. r \in Nat /\ DiskRate \in Nat /\ DiskRate <= r
  BY SpendAssumption
<1>2. g \in Nat /\ d \in Nat
  BY UsedFinite
<1>3. g + d <= b - a
  BY BothUses
<1> HIDE DEF g, d, r
<1>4. DiskRate * d <= r * d
  BY <1>1, <1>2
<1>5. r * (g + d) <= r * (b - a)
  BY <1>1, <1>2, <1>3
<1>6. r * (g + d) = r * g + r * d
  BY <1>1, <1>2
<1>7. r * g + DiskRate * d <= r * (b - a)
  <2>1. r * g \in Int /\ r * d \in Int /\ DiskRate * d \in Int /\ r * (b - a) \in Int
    BY <1>1, <1>2
  <2> QED  BY <2>1, <1>4, <1>5, <1>6
<1> QED  BY <1>7 DEF PodCost, g, d, r

LEMMA CostNone ==
  ASSUME NEW p \in Pods \cup Foreign, NEW a \in Int, NEW b \in Int,
         \A u \in a..b - 1 : <<p, u, "gpu">> \notin used /\ <<p, u, "disk">> \notin used
  PROVE  PodCost(p, a, b) = 0
<1>1. Rate[p] \in Nat /\ DiskRate \in Nat
  BY SpendAssumption
<1>2. Units(p, a, b, "gpu") = 0 /\ Units(p, a, b, "disk") = 0
  BY UnitsNone
<1> QED  BY <1>1, <1>2 DEF PodCost

LEMMA MaxIs ==
  ASSUME NEW S, IsFiniteSet(S), S \subseteq Int, S # {}
  PROVE  Max(S) \in S /\ \A y \in S : y <= Max(S)
<1>1. \E x \in S : \A y \in S : x >= y
  BY HasGreatest
<1>2. Max(S) \in S /\ \A y \in S : Max(S) >= y
  BY <1>1 DEF Max
<1> QED  BY <1>2

-----------------------------------------------------------------------------
(* RunPod's records.                                                       *)

BucketOf(p, b) == Bucket(p, b * Hour, (b + 1) * Hour)

LEMMA BucketFields ==
  ASSUME NEW p \in Pods \cup Foreign, NEW b \in Int, NEW r, r = BucketOf(p, b)
  PROVE  /\ r.pod = p /\ r.start = b * Hour /\ r.end = (b + 1) * Hour
         /\ r.start \in Int /\ r.end \in Int /\ r.end = r.start + Hour
         /\ r.gpu = Rate[p] * Units(p, r.start, r.end, "gpu") /\ r.gpu \in Nat
         /\ r.disk = DiskRate * Units(p, r.start, r.end, "disk") /\ r.disk \in Nat
         /\ r.amount = r.gpu + r.disk /\ r.amount \in Nat
         /\ r.amount = PodCost(p, r.start, r.end)
<1>1. b * Hour \in Int /\ (b + 1) * Hour \in Int /\ (b + 1) * Hour = b * Hour + Hour
  BY Hours
<1> DEFINE from == b * Hour
           to == (b + 1) * Hour
           gpu == Rate[p] * Units(p, from, to, "gpu")
           disk == DiskRate * Units(p, from, to, "disk")
<1>2. gpu \in Nat /\ disk \in Nat
  <2>1. Rate[p] \in Nat /\ DiskRate \in Nat
    BY SpendAssumption
  <2>2. Units(p, from, to, "gpu") \in Nat /\ Units(p, from, to, "disk") \in Nat
    <3> HIDE DEF from, to
    <3>1. from \in Int /\ to \in Int
      BY <1>1 DEF from, to
    <3> QED  BY <3>1, UsedFinite
  <2> QED  BY <2>1, <2>2
<1>3. r = [pod |-> p, start |-> from, end |-> to, amount |-> gpu + disk,
           gpu |-> gpu, disk |-> disk]
  BY DEF BucketOf, Bucket
<1> HIDE DEF gpu, disk, from, to
<1>4. /\ r.pod = p /\ r.start = from /\ r.end = to /\ r.gpu = gpu /\ r.disk = disk
      /\ r.amount = gpu + disk
  BY <1>3
<1>5. gpu + disk = PodCost(p, from, to)
  BY DEF PodCost, gpu, disk
<1>6. r.amount \in Nat
  BY <1>2, <1>4
<1>7. from \in Int /\ to \in Int /\ to = from + Hour /\ from = b * Hour /\ to = (b + 1) * Hour
  BY <1>1 DEF from, to
<1>8. gpu = Rate[p] * Units(p, from, to, "gpu") /\ disk = DiskRate * Units(p, from, to, "disk")
  BY DEF gpu, disk
<1> QED  BY <1>2, <1>4, <1>5, <1>6, <1>7, <1>8

LEMMA BucketOrder ==
  ASSUME NEW a \in Int, NEW b \in Int
  PROVE  /\ a * Hour \in Int /\ b * Hour \in Int
         /\ a * Hour <= b * Hour <=> a <= b
         /\ a * Hour < b * Hour <=> a < b
<1>1. a * Hour \in Int /\ b * Hour \in Int
  BY Hours
<1>2. a <= b => a * Hour <= b * Hour
  BY Hours, Scaled
<1>3. b < a => b * Hour < a * Hour
  <2>1. b + 1 <= a => (b + 1) * Hour <= a * Hour
    BY Hours, Scaled
  <2>2. (b + 1) * Hour = b * Hour + Hour
    BY Hours
  <2> QED  BY <1>1, <2>1, <2>2, Hours
<1>4. a < b => a * Hour < b * Hour
  <2>1. a + 1 <= b => (a + 1) * Hour <= b * Hour
    BY Hours, Scaled
  <2>2. (a + 1) * Hour = a * Hour + Hour
    BY Hours
  <2> QED  BY <1>1, <2>1, <2>2, Hours
<1>5. b <= a => b * Hour <= a * Hour
  BY Hours, Scaled
<1> QED  BY <1>1, <1>2, <1>3, <1>4, <1>5

(* What is kept of the records: buckets of pods that have been published.  *)
Ledger(recs, through) ==
  /\ IsFiniteSet(recs)
  /\ \A r \in recs : \E p \in Pods \cup Foreign, b \in Nat :
       r = BucketOf(p, b) /\ (b + 1) * Hour <= through

LEMMA KeptIsLedger ==
  ASSUME NEW through \in Nat, NEW zone
  PROVE  Ledger(Kept(through, zone), through)
<1> DEFINE n == (through \div Hour) - 1
           D == (Pods \cup Foreign) \X (0..n)
           f == [x \in D |-> BucketOf(x[1], x[2])]
           All == {f[x] : x \in DOMAIN f}
<1>1. n \in Int /\ (n + 1) * Hour <= through
  <2>1. through \div Hour \in Int /\ (through \div Hour) * Hour <= through
    BY Hours, Division
  <2>2. n + 1 = through \div Hour
    BY <2>1
  <2> QED  BY <2>1, <2>2
<1>2. ASSUME NEW r \in Records(through) PROVE r \in All
  <2>1. PICK p \in Pods \cup Foreign, b \in 0..n : r = BucketOf(p, b)
    BY DEF Records, BucketOf
  <2>2. <<p, b>> \in D /\ DOMAIN f = D
    BY <2>1
  <2>3. f[<<p, b>>] = BucketOf(p, b)
    BY <2>2
  <2> HIDE DEF f, D
  <2> QED  BY <2>1, <2>2, <2>3
<1>3. IsFiniteSet(All)
  <2>1. IsFiniteSet(0..n) /\ IsFiniteSet(Pods \cup Foreign)
    <3>1. IsFiniteSet(Pods \cup Foreign)
      BY FS_Union, SpendAssumption
    <3> HIDE DEF n
    <3>2. IsFiniteSet(0..n)
      BY <1>1, FS_Interval
    <3> QED  BY <3>1, <3>2
  <2>2. IsFiniteSet(D)
    <3> HIDE DEF n
    <3> QED  BY <2>1, FS_Product
  <2>3. IsFiniteSet(DOMAIN f)
    BY <2>2
  <2> HIDE DEF f
  <2> QED  BY <2>3, ImageIsFinite
<1>4. Kept(through, zone) \subseteq All
  BY <1>2 DEF Kept
<1>5. IsFiniteSet(Kept(through, zone))
  <2> HIDE DEF All
  <2> QED  BY <1>3, <1>4, FS_Subset
<1>6. ASSUME NEW r \in Kept(through, zone)
      PROVE  \E p \in Pods \cup Foreign, b \in Nat : r = BucketOf(p, b) /\ (b + 1) * Hour <= through
  <2>1. PICK p \in Pods \cup Foreign, b \in 0..n : r = BucketOf(p, b)
    BY <1>4, <1>6
  <2>2. b + 1 <= n + 1 /\ b \in Nat /\ b + 1 \in Int /\ n + 1 \in Int
    BY <1>1
  <2> HIDE DEF n
  <2>3. (b + 1) * Hour <= (n + 1) * Hour /\ (b + 1) * Hour \in Int /\ (n + 1) * Hour \in Int
    BY <2>2, BucketOrder
  <2>4. (b + 1) * Hour <= through
    BY <1>1, <2>3
  <2> QED  BY <2>1, <2>2, <2>4
<1> QED  BY <1>5, <1>6 DEF Ledger

-----------------------------------------------------------------------------
(* What is billed of a window.                                             *)

LEMMA PartBounds ==
  ASSUME NEW a \in Nat, NEW u \in Nat, NEW d \in Nat \ {0}, u <= d
  PROVE  /\ (a * u) \div d \in Nat /\ (a * u) \div d <= a
         /\ u = d => (a * u) \div d = a
<1>1. a * u \in Nat /\ a * d \in Nat /\ a * u <= a * d
  BY Scaled
<1>2. (a * d) \div d = a
  <2>1. a * d <= a * d /\ a * d < a * d + d
    BY <1>1
  <2> QED  BY <1>1, <2>1, Quotient
<1>3. (a * u) \div d <= (a * d) \div d /\ (a * u) \div d \in Int
  BY <1>1, Divided, Division
<1>4. 0 \div d <= (a * u) \div d
  BY <1>1, Divided
<1>5. 0 \div d = 0
  BY Quotient
<1> QED  BY <1>2, <1>3, <1>4, <1>5

LEMMA BilledTyped ==
  ASSUME NEW recs, NEW through \in Nat, Ledger(recs, through),
         NEW from \in Int, NEW at \in Int, NEW C, C = Counted(recs, from, at)
  PROVE  /\ IsFiniteSet(C)
         /\ \A r \in C :
              /\ \E p \in Pods \cup Foreign, b \in Nat : r = BucketOf(p, b)
              /\ from < r.end /\ r.end <= at /\ r.end <= through
              /\ Billed(C, from)[r] \in Nat /\ Billed(C, from)[r] <= r.amount
              /\ from <= r.start => Billed(C, from)[r] = r.amount
<1>1. IsFiniteSet(C)
  BY FS_Subset DEF Ledger, Counted
<1>2. ASSUME NEW r \in C
      PROVE  /\ \E p \in Pods \cup Foreign, b \in Nat : r = BucketOf(p, b)
             /\ from < r.end /\ r.end <= at /\ r.end <= through
             /\ Billed(C, from)[r] \in Nat /\ Billed(C, from)[r] <= r.amount
             /\ from <= r.start => Billed(C, from)[r] = r.amount
  <2>1. PICK p \in Pods \cup Foreign, b \in Nat : r = BucketOf(p, b) /\ (b + 1) * Hour <= through
    BY DEF Ledger, Counted
  <2>2. /\ r.start \in Int /\ r.end = r.start + Hour /\ r.amount \in Nat
        /\ r.end = (b + 1) * Hour
    BY <2>1, BucketFields
  <2>3. from < r.end /\ r.end <= at
    BY DEF Counted
  <2>4. Billed(C, from)[r] = (r.amount * InWindow(r, from)) \div (r.end - r.start)
    BY DEF Billed, Part
  <2>5. r.end - r.start = Hour
    BY <2>2, Hours
  <2>6. InWindow(r, from) \in Nat /\ InWindow(r, from) <= Hour
        /\ (from <= r.start => InWindow(r, from) = Hour)
    BY <2>2, <2>3, Hours DEF InWindow, Later
  <2>7. /\ Billed(C, from)[r] \in Nat /\ Billed(C, from)[r] <= r.amount
        /\ from <= r.start => Billed(C, from)[r] = r.amount
    <3> DEFINE u == InWindow(r, from)
               a == r.amount
    <3>1. u \in Nat /\ u <= Hour /\ a \in Nat
      BY <2>2, <2>6
    <3> HIDE DEF u, a
    <3>2. (a * u) \div Hour \in Nat /\ (a * u) \div Hour <= a /\ (u = Hour => (a * u) \div Hour = a)
      BY <3>1, Hours, PartBounds
    <3> QED  BY <2>4, <2>5, <2>6, <3>2 DEF u, a
  <2> QED  BY <2>1, <2>2, <2>3, <2>7
<1> QED  BY <1>1, <1>2

(* What a bucket that the window cuts is wrong by at most. *)
Edge(p, from) == IF from % Hour = 0 THEN 0 ELSE Rate[p] * Hour

(* The end of the bucket that the window begins in, or its beginning.      *)
FirstEnd(from) == (from \div Hour) + (IF from % Hour = 0 THEN 0 ELSE 1)

LEMMA FirstEndIs ==
  ASSUME NEW from \in Int
  PROVE  /\ FirstEnd(from) \in Int
         /\ from <= FirstEnd(from) * Hour /\ (FirstEnd(from) - 1) * Hour < from
         /\ from % Hour = 0 => from = FirstEnd(from) * Hour
         /\ from % Hour # 0 => FirstEnd(from) * Hour - from <= Hour
<1> DEFINE q == from \div Hour
           m == from % Hour
<1>1. q \in Int /\ m \in 0..Hour - 1 /\ from = q * Hour + m
  BY Hours, Division
<1>2. FirstEnd(from) = IF m = 0 THEN q ELSE q + 1
  BY <1>1 DEF FirstEnd
<1> HIDE DEF q, m
<1>3. (q + 1) * Hour = q * Hour + Hour /\ (q - 1) * Hour = q * Hour - Hour /\ q * Hour \in Int
  BY <1>1, Hours
<1>4. CASE m = 0
  BY <1>1, <1>2, <1>3, <1>4, Hours DEF m
<1>5. CASE m # 0
  <2>1. (q + 1) - 1 = q
    BY <1>1
  <2> QED  BY <1>1, <1>2, <1>3, <1>5, <2>1, Hours DEF m
<1> QED  BY <1>4, <1>5

(* The counted records of a pod, and those that end with the n-th bucket.  *)
RecordsOf(C, p) == {r \in C : r.pod = p}
Until(C, p, n) == {r \in RecordsOf(C, p) : r.end <= n * Hour}

LEMMA NextBucket ==
  ASSUME NEW recs, NEW through \in Nat, Ledger(recs, through),
         NEW from \in Int, NEW at \in Int, NEW C, C = Counted(recs, from, at),
         NEW p \in Pods \cup Foreign, NEW n \in Int, from <= n * Hour,
         NEW x, x = BucketOf(p, n)
  PROVE  /\ x \notin Until(C, p, n)
         /\ x \in C => Until(C, p, n + 1) = Until(C, p, n) \cup {x}
                       /\ Billed(C, from)[x] = PodCost(p, n * Hour, (n + 1) * Hour)
         /\ x \notin C => Until(C, p, n + 1) = Until(C, p, n)
<1>1. /\ x.pod = p /\ x.start = n * Hour /\ x.end = (n + 1) * Hour
      /\ x.amount = PodCost(p, n * Hour, (n + 1) * Hour)
  BY BucketFields
<1>2. /\ (n + 1) * Hour \in Int /\ n * Hour \in Int /\ n * Hour < (n + 1) * Hour
      /\ (n + 1) * Hour = n * Hour + Hour
  BY BucketOrder, Hours
<1>3. x \notin Until(C, p, n)
  BY <1>1, <1>2 DEF Until
<1>4. ASSUME NEW r \in RecordsOf(C, p), r # x
      PROVE  r.end \in Int /\ (r.end <= (n + 1) * Hour => r.end <= n * Hour)
  <2>1. r \in C /\ r.pod = p
    BY DEF RecordsOf
  <2>2. \E q \in Pods \cup Foreign, c \in Nat : r = BucketOf(q, c)
    BY <2>1, BilledTyped
  <2>3. PICK q \in Pods \cup Foreign, c \in Nat : r = BucketOf(q, c)
    BY <2>2
  <2>4. r.pod = q /\ r.end = (c + 1) * Hour
    BY <2>3, BucketFields
  <2>5. c # n
    BY <1>4, <2>1, <2>3, <2>4
  <2>6. c + 1 \in Int /\ n + 1 \in Int /\ (c + 1 <= n + 1 => c + 1 <= n)
    BY <2>5
  <2>7. /\ (c + 1) * Hour \in Int
        /\ (c + 1) * Hour <= (n + 1) * Hour <=> c + 1 <= n + 1
        /\ (c + 1) * Hour <= n * Hour <=> c + 1 <= n
    BY <2>6, BucketOrder
  <2> QED  BY <2>4, <2>6, <2>7
<1>5. ASSUME NEW r \in RecordsOf(C, p) PROVE r.end \in Int
  BY <1>1, <1>2, <1>4
<1>6. Until(C, p, n) \subseteq Until(C, p, n + 1)
  BY <1>2, <1>5 DEF Until
<1>7. Until(C, p, n + 1) \subseteq Until(C, p, n) \cup {x}
  BY <1>4 DEF Until
<1>8. x \in C => x \in Until(C, p, n + 1)
  BY <1>1, <1>2 DEF Until, RecordsOf
<1>9. x \notin C => x \notin Until(C, p, n + 1)
  BY DEF Until, RecordsOf
<1>10. x \in C => Billed(C, from)[x] = PodCost(p, n * Hour, (n + 1) * Hour)
  <2> SUFFICES ASSUME x \in C PROVE Billed(C, from)[x] = PodCost(p, n * Hour, (n + 1) * Hour)
    OBVIOUS
  <2>1. from <= x.start => Billed(C, from)[x] = x.amount
    BY BilledTyped
  <2> QED  BY <1>1, <2>1
<1> QED  BY <1>3, <1>6, <1>7, <1>8, <1>9, <1>10

LEMMA FirstBucket ==
  ASSUME NEW recs, NEW through \in Nat, Ledger(recs, through),
         NEW from \in Int, NEW at \in Int, NEW C, C = Counted(recs, from, at),
         NEW p \in Pods \cup Foreign, NEW n, n = FirstEnd(from)
  PROVE  /\ Until(C, p, n) \subseteq {BucketOf(p, n - 1)}
         /\ from % Hour = 0 => Until(C, p, n) = {}
<1>1. n \in Int /\ n - 1 \in Int /\ (n - 1) * Hour < from /\ (from % Hour = 0 => from = n * Hour)
  BY FirstEndIs
<1>2. ASSUME NEW r \in Until(C, p, n)
      PROVE  r = BucketOf(p, n - 1) /\ from % Hour # 0
  <2>1. r \in C /\ r.pod = p /\ r.end <= n * Hour
    BY DEF Until, RecordsOf
  <2>2. (\E q \in Pods \cup Foreign, c \in Nat : r = BucketOf(q, c)) /\ from < r.end
    BY <2>1, BilledTyped
  <2>3. PICK q \in Pods \cup Foreign, c \in Nat : r = BucketOf(q, c)
    BY <2>2
  <2>4. r.pod = q /\ r.end = (c + 1) * Hour
    BY <2>3, BucketFields
  <2>5. c + 1 \in Int /\ (c + 1) * Hour \in Int /\ (n - 1) * Hour \in Int /\ n * Hour \in Int
    BY <1>1, BucketOrder
  <2>6. (n - 1) * Hour < (c + 1) * Hour /\ (c + 1) * Hour <= n * Hour
    BY <1>1, <2>1, <2>2, <2>4, <2>5
  <2>7. n - 1 < c + 1 /\ c + 1 <= n
    <3>1. (n - 1) * Hour < (c + 1) * Hour => n - 1 < c + 1
      BY <1>1, <2>5, BucketOrder
    <3>2. (c + 1) * Hour <= n * Hour => c + 1 <= n
      BY <1>1, <2>5, BucketOrder
    <3> QED  BY <2>6, <3>1, <3>2
  <2>8. c = n - 1
    BY <1>1, <2>7
  <2>9. from % Hour # 0
    BY <1>1, <2>2, <2>4, <2>5, <2>6
  <2> QED  BY <2>1, <2>3, <2>4, <2>8, <2>9
<1> QED  BY <1>2

(* A unit is spent up or paused. *)
Exclusive(p) == \A u \in Int : ~(<<p, u, "gpu">> \in used /\ <<p, u, "disk">> \in used)

LEMMA UntilSummed ==
  ASSUME NEW recs, NEW through \in Nat, Ledger(recs, through),
         NEW from \in Int, NEW at \in Int, NEW C, C = Counted(recs, from, at),
         NEW p, NEW n
  PROVE  /\ IsFiniteSet(Until(C, p, n)) /\ IsFiniteSet(RecordsOf(C, p))
         /\ \A r \in RecordsOf(C, p) : Billed(C, from)[r] \in Nat
         /\ \A r \in Until(C, p, n) : Billed(C, from)[r] \in Nat
         /\ SumFunctionOnSet(Billed(C, from), Until(C, p, n)) \in Nat
<1>1. IsFiniteSet(C) /\ \A r \in C : Billed(C, from)[r] \in Nat
  BY BilledTyped
<1>2. RecordsOf(C, p) \subseteq C /\ Until(C, p, n) \subseteq C
  BY DEF RecordsOf, Until
<1>3. IsFiniteSet(Until(C, p, n)) /\ IsFiniteSet(RecordsOf(C, p))
  BY <1>1, <1>2, FS_Subset
<1>4. \A r \in Until(C, p, n) : Billed(C, from)[r] \in Nat
  BY <1>1, <1>2
<1>5. SumFunctionOnSet(Billed(C, from), Until(C, p, n)) \in Nat
  BY <1>3, <1>4, SumIsNat
<1> QED  BY <1>1, <1>2, <1>3, <1>4, <1>5

LEMMA NextSum ==
  ASSUME NEW recs, NEW through \in Nat, Ledger(recs, through),
         NEW from \in Int, NEW at \in Int, NEW C, C = Counted(recs, from, at),
         NEW p \in Pods \cup Foreign, NEW n \in Int, from <= n * Hour
  PROVE  SumFunctionOnSet(Billed(C, from), Until(C, p, n + 1))
           = SumFunctionOnSet(Billed(C, from), Until(C, p, n))
               + IF BucketOf(p, n) \in C THEN PodCost(p, n * Hour, (n + 1) * Hour) ELSE 0
<1> DEFINE x == BucketOf(p, n)
           S == Until(C, p, n)
           w == Billed(C, from)
<1>1. /\ x \notin S
      /\ x \in C => Until(C, p, n + 1) = S \cup {x} /\ w[x] = PodCost(p, n * Hour, (n + 1) * Hour)
      /\ x \notin C => Until(C, p, n + 1) = S
  <2>1. x = BucketOf(p, n)
    OBVIOUS
  <2> HIDE DEF x
  <2> QED  BY <2>1, NextBucket
<1>2. IsFiniteSet(S) /\ SumFunctionOnSet(w, S) \in Nat /\ \A r \in S : w[r] \in Nat
  BY UntilSummed
<1>3. x \in C => w[x] \in Nat
  BY BilledTyped
<1> HIDE DEF x, S, w
<1>4. CASE x \in C
  <2>1. \A r \in S \cup {x} : w[r] \in Nat
    BY <1>2, <1>3, <1>4
  <2>2. SumFunctionOnSet(w, S \cup {x}) = w[x] + SumFunctionOnSet(w, S)
    BY <1>1, <1>2, <2>1, SumAdd
  <2>3. SumFunctionOnSet(w, Until(C, p, n + 1)) = SumFunctionOnSet(w, S \cup {x})
    BY <1>1, <1>4
  <2>4. SumFunctionOnSet(w, Until(C, p, n + 1)) = SumFunctionOnSet(w, S) + w[x]
    BY <1>2, <1>3, <1>4, <2>2, <2>3
  <2> QED  BY <1>1, <1>4, <2>4 DEF x, S, w
<1>5. CASE x \notin C
  <2>1. SumFunctionOnSet(w, Until(C, p, n + 1)) = SumFunctionOnSet(w, S) + 0
    BY <1>1, <1>2, <1>5
  <2> QED  BY <1>5, <2>1 DEF x, S, w
<1> QED  BY <1>4, <1>5

(* What is billed of a pod is not more than it cost. *)
LEMMA BilledMost ==
  ASSUME NEW recs, NEW through \in Nat, Ledger(recs, through),
         NEW from \in Int, NEW at \in Int, NEW C, C = Counted(recs, from, at),
         NEW p \in Pods \cup Foreign, DiskRate <= Rate[p], Exclusive(p),
         NEW n \in Int, from <= n * Hour
  PROVE  SumFunctionOnSet(Billed(C, from), Until(C, p, n))
           <= PodCost(p, from, n * Hour) + Edge(p, from)
<1> DEFINE first == FirstEnd(from)
           sum(k) == SumFunctionOnSet(Billed(C, from), Until(C, p, k))
           G == {i \in Nat : sum(first + i) <= PodCost(p, from, (first + i) * Hour) + Edge(p, from)}
<1>0. /\ first \in Int /\ from <= first * Hour /\ (first - 1) * Hour < from
      /\ first * Hour \in Int /\ Rate[p] \in Nat
  <2>1. first \in Int
    BY FirstEndIs
  <2>2. first * Hour \in Int
    BY <2>1, Hours
  <2> QED  BY <2>1, <2>2, FirstEndIs, SpendAssumption
<1>1. Edge(p, from) \in Nat
  BY <1>0, Hours DEF Edge
<1>2. \A k \in Int : k * Hour \in Int /\ PodCost(p, from, k * Hour) \in Nat
  <2> TAKE k \in Int
  <2>1. k * Hour \in Int
    BY Hours
  <2> QED  BY <2>1, CostTyped
<1>3. 0 \in G
  <2>1. first + 0 = first
    BY <1>0
  <2>2. sum(first) <= PodCost(p, from, first * Hour) + Edge(p, from)
    <3>1. CASE from % Hour = 0
      <4>1. Until(C, p, first) = {}
        BY <3>1, FirstBucket
      <4>2. sum(first) = 0
        BY <4>1, SumEmpty
      <4> QED  BY <1>0, <1>1, <1>2, <4>2
    <3>2. CASE from % Hour # 0
      <4> DEFINE x == BucketOf(p, first - 1)
                 S == Until(C, p, first)
                 w == Billed(C, from)
      <4>1. Until(C, p, first) \subseteq {x}
        BY FirstBucket
      <4>2. x.amount <= Rate[p] * Hour /\ x.amount \in Nat
        <5>1. first - 1 \in Int
          BY <1>0
        <5>2. /\ x.amount = PodCost(p, x.start, x.end) /\ x.amount \in Nat
              /\ x.start \in Int /\ x.end \in Int /\ x.end = x.start + Hour
          BY <5>1, BucketFields
        <5> HIDE DEF x
        <5>3. x.start <= x.end /\ x.end - x.start = Hour
          BY <5>2, Hours
        <5>4. PodCost(p, x.start, x.end) <= Rate[p] * (x.end - x.start)
          <6>1. \A u \in x.start..x.end - 1 :
                  ~(<<p, u, "gpu">> \in used /\ <<p, u, "disk">> \in used)
            BY <5>2 DEF Exclusive
          <6> QED  BY <5>2, <5>3, <6>1, CostMost
        <5> QED  BY <5>2, <5>3, <5>4
      <4>3. \A r \in S : w[r] \in Nat /\ w[r] <= r.amount
        <5>1. S \subseteq C
          BY DEF Until, RecordsOf
        <5> HIDE DEF S
        <5> QED  BY <5>1, BilledTyped
      <4>4. S = {} \/ S = {x}
        BY <4>1
      <4> HIDE DEF x, S, w
      <4>5. SumFunctionOnSet(w, S) <= Rate[p] * Hour
        <5>1. CASE S = {}
          BY <1>0, <5>1, Hours, SumEmpty
        <5>2. CASE S = {x}
          <6>1. w[x] \in Nat /\ w[x] <= x.amount
            BY <4>3, <5>2
          <6>2. SumFunctionOnSet(w, S) = w[x]
            BY <5>2, <6>1, SumOne
          <6>3. Rate[p] * Hour \in Nat
            BY <1>0, Hours
          <6> QED  BY <4>2, <6>1, <6>2, <6>3
        <5> QED  BY <4>4, <5>1, <5>2
      <4>6. Edge(p, from) = Rate[p] * Hour
        BY <3>2 DEF Edge
      <4>7. SumFunctionOnSet(w, S) \in Nat
        BY UntilSummed DEF S, w
      <4>8. sum(first) = SumFunctionOnSet(w, S)
        BY DEF S, w
      <4> QED  BY <1>0, <1>1, <1>2, <4>5, <4>6, <4>7, <4>8
    <3> QED  BY <3>1, <3>2
  <2> HIDE DEF sum
  <2> QED  BY <2>1, <2>2
<1>4. ASSUME NEW i \in Nat, i \in G PROVE i + 1 \in G
  <2> DEFINE k == first + i
  <2>1. /\ k \in Int /\ from <= k * Hour /\ k * Hour \in Int
        /\ k * Hour <= (k + 1) * Hour /\ (k + 1) * Hour \in Int
    <3>1. k \in Int /\ first <= k /\ k + 1 \in Int /\ k <= k + 1
      BY <1>0
    <3> HIDE DEF k, first
    <3>2. first * Hour <= k * Hour /\ k * Hour \in Int
      BY <1>0, <3>1, BucketOrder
    <3>3. k * Hour <= (k + 1) * Hour /\ (k + 1) * Hour \in Int
      BY <3>1, BucketOrder
    <3> QED  BY <1>0, <3>1, <3>2, <3>3
  <2>2. sum(k) <= PodCost(p, from, k * Hour) + Edge(p, from)
    BY <1>4
  <2>3. first + (i + 1) = k + 1
    BY <1>0
  <2> HIDE DEF k
  <2>4. sum(k + 1) = sum(k)
          + IF BucketOf(p, k) \in C THEN PodCost(p, k * Hour, (k + 1) * Hour) ELSE 0
    BY <2>1, NextSum
  <2>5. PodCost(p, from, (k + 1) * Hour)
          = PodCost(p, from, k * Hour) + PodCost(p, k * Hour, (k + 1) * Hour)
    BY <2>1, CostSplit
  <2>6. PodCost(p, k * Hour, (k + 1) * Hour) \in Nat /\ PodCost(p, from, k * Hour) \in Nat
    BY <2>1, CostTyped
  <2>7. sum(k) \in Nat
    BY UntilSummed
  <2>8. sum(k + 1) <= PodCost(p, from, (k + 1) * Hour) + Edge(p, from)
    <3> HIDE DEF sum
    <3> QED  BY <1>1, <2>2, <2>4, <2>5, <2>6, <2>7
  <2> HIDE DEF sum, first
  <2> QED  BY <2>3, <2>8
<1>5. \A i \in Nat : i \in G
  <2> HIDE DEF G
  <2> QED  BY <1>3, <1>4, CountingUp
<1>6. n - first \in Nat /\ first + (n - first) = n
  <2>1. (first - 1) * Hour < n * Hour /\ first - 1 \in Int
    <3>1. first - 1 \in Int
      BY <1>0
    <3>2. (first - 1) * Hour \in Int /\ n * Hour \in Int
      BY <3>1, BucketOrder
    <3> HIDE DEF first
    <3> QED  BY <1>0, <3>1, <3>2
  <2> HIDE DEF first
  <2>2. first - 1 < n
    BY <2>1, BucketOrder
  <2> QED  BY <1>0, <2>2
<1>7. n - first \in G
  BY <1>5, <1>6
<1> HIDE DEF first
<1> QED  BY <1>6, <1>7

(* All that a pod cost up to a bucket's end has been published. *)
Published(C, p, from, n) ==
  \A b \in Int : from < (b + 1) * Hour /\ b < n /\ BucketOf(p, b).amount > 0 => BucketOf(p, b) \in C

(* And not less, if all of it is there. *)
LEMMA BilledLeast ==
  ASSUME NEW recs, NEW through \in Nat, Ledger(recs, through),
         NEW from \in Int, NEW at \in Int, NEW C, C = Counted(recs, from, at),
         NEW p \in Pods \cup Foreign, DiskRate <= Rate[p], Exclusive(p),
         NEW n \in Int, from <= n * Hour, Published(C, p, from, n)
  PROVE  PodCost(p, from, n * Hour)
           <= SumFunctionOnSet(Billed(C, from), Until(C, p, n)) + Edge(p, from)
<1> DEFINE first == FirstEnd(from)
           sum(k) == SumFunctionOnSet(Billed(C, from), Until(C, p, k))
           G == {i \in Nat : first + i <= n =>
                   PodCost(p, from, (first + i) * Hour) <= sum(first + i) + Edge(p, from)}
<1>0. /\ first \in Int /\ from <= first * Hour /\ (first - 1) * Hour < from
      /\ first * Hour \in Int /\ Rate[p] \in Nat
      /\ from % Hour = 0 => from = first * Hour
      /\ from % Hour # 0 => first * Hour - from <= Hour
  <2>1. first \in Int
    BY FirstEndIs
  <2>2. first * Hour \in Int
    BY <2>1, Hours
  <2> QED  BY <2>1, <2>2, FirstEndIs, SpendAssumption
<1>1. Edge(p, from) \in Nat
  BY <1>0, Hours DEF Edge
<1>2. \A k : sum(k) \in Nat
  BY UntilSummed
<1>8. ASSUME NEW k \in Int, from <= k * Hour
      PROVE  sum(k + 1) = sum(k)
               + IF BucketOf(p, k) \in C THEN PodCost(p, k * Hour, (k + 1) * Hour) ELSE 0
  BY <1>8, NextSum
<1>3. 0 \in G
  <2>1. first + 0 = first
    BY <1>0
  <2>2. PodCost(p, from, first * Hour) <= Edge(p, from)
    <3> DEFINE to == first * Hour
    <3>1. to \in Int /\ from <= to
      BY <1>0
    <3> HIDE DEF to
    <3>2. \A u \in from..to - 1 : ~(<<p, u, "gpu">> \in used /\ <<p, u, "disk">> \in used)
      BY <3>1 DEF Exclusive
    <3>3. PodCost(p, from, to) <= Rate[p] * (to - from)
      BY <3>1, <3>2, CostMost
    <3>4. to - from \in Nat /\ to - from <= IF from % Hour = 0 THEN 0 ELSE Hour
      BY <1>0, <3>1 DEF to
    <3>5. Rate[p] * (to - from) <= Edge(p, from)
      <4> DEFINE d == to - from
                 e == IF from % Hour = 0 THEN 0 ELSE Hour
      <4>1. d \in Nat /\ e \in Nat /\ d <= e
        BY <3>4, Hours
      <4>2. Edge(p, from) = Rate[p] * e
        BY <1>0 DEF Edge
      <4> HIDE DEF d, e
      <4>3. d * Rate[p] <= e * Rate[p]
        BY <1>0, <4>1, Scaled
      <4>4. d * Rate[p] = Rate[p] * d /\ e * Rate[p] = Rate[p] * e
        BY <1>0, <4>1
      <4> QED  BY <4>2, <4>3, <4>4 DEF d
    <3>6. PodCost(p, from, to) \in Nat /\ Rate[p] * (to - from) \in Int
      BY <1>0, <3>1, CostTyped
    <3>7. PodCost(p, from, to) <= Edge(p, from)
      BY <1>1, <3>3, <3>5, <3>6
    <3> QED  BY <3>7 DEF to
  <2>3. PodCost(p, from, first * Hour) \in Nat
    BY <1>0, CostTyped
  <2>4. PodCost(p, from, first * Hour) <= sum(first) + Edge(p, from)
    <3>1. sum(first) \in Nat
      BY <1>2
    <3> HIDE DEF sum
    <3> QED  BY <1>1, <2>2, <2>3, <3>1
  <2> HIDE DEF sum
  <2> QED  BY <2>1, <2>4
<1>4. ASSUME NEW i \in Nat, i \in G PROVE i + 1 \in G
  <2> DEFINE k == first + i
  <2>1. /\ k \in Int /\ from <= k * Hour /\ k * Hour \in Int
        /\ k * Hour <= (k + 1) * Hour /\ (k + 1) * Hour \in Int
        /\ k * Hour < (k + 1) * Hour
    <3>1. k \in Int /\ first <= k /\ k + 1 \in Int /\ k < k + 1
      BY <1>0
    <3> HIDE DEF k, first
    <3>2. first * Hour <= k * Hour /\ k * Hour \in Int
      BY <1>0, <3>1, BucketOrder
    <3>3. k * Hour < (k + 1) * Hour /\ (k + 1) * Hour \in Int
      BY <3>1, BucketOrder
    <3> QED  BY <1>0, <3>1, <3>2, <3>3
  <2>2. k <= n => PodCost(p, from, k * Hour) <= sum(k) + Edge(p, from)
    BY <1>4
  <2>3. first + (i + 1) = k + 1
    BY <1>0
  <2> HIDE DEF k
  <2>4. sum(k + 1) = sum(k)
          + IF BucketOf(p, k) \in C THEN PodCost(p, k * Hour, (k + 1) * Hour) ELSE 0
    BY <2>1, <1>8
  <2>5. PodCost(p, from, (k + 1) * Hour)
          = PodCost(p, from, k * Hour) + PodCost(p, k * Hour, (k + 1) * Hour)
    BY <2>1, CostSplit
  <2>6. PodCost(p, k * Hour, (k + 1) * Hour) \in Nat /\ PodCost(p, from, k * Hour) \in Nat
    BY <2>1, CostTyped
  <2>7. k + 1 <= n /\ BucketOf(p, k) \notin C => PodCost(p, k * Hour, (k + 1) * Hour) = 0
    <3> DEFINE x == BucketOf(p, k)
    <3>1. /\ x.amount = PodCost(p, x.start, x.end) /\ x.start = k * Hour /\ x.end = (k + 1) * Hour
          /\ x.amount \in Nat
      BY <2>1, BucketFields
    <3>2. x.amount = PodCost(p, k * Hour, (k + 1) * Hour)
      BY <3>1
    <3>3. from < (k + 1) * Hour
      BY <2>1
    <3>4. k + 1 <= n => k < n
      BY <2>1
    <3>5. k + 1 <= n /\ x.amount > 0 => x \in C
      BY <2>1, <3>3, <3>4 DEF Published
    <3> HIDE DEF x
    <3> QED  BY <3>1, <3>2, <3>5 DEF x
  <2>8. k + 1 <= n => k <= n
    BY <2>1
  <2>9. sum(k) \in Nat
    BY <1>2
  <2>10. k + 1 <= n => PodCost(p, from, (k + 1) * Hour) <= sum(k + 1) + Edge(p, from)
    <3> HIDE DEF sum
    <3> QED  BY <1>1, <2>2, <2>4, <2>5, <2>6, <2>7, <2>8, <2>9
  <2> HIDE DEF sum, first
  <2> QED  BY <2>3, <2>10
<1>5. \A i \in Nat : i \in G
  <2> HIDE DEF G
  <2> QED  BY <1>3, <1>4, CountingUp
<1>6. n - first \in Nat /\ first + (n - first) = n
  <2>1. (first - 1) * Hour < n * Hour /\ first - 1 \in Int
    <3>1. first - 1 \in Int
      BY <1>0
    <3>2. (first - 1) * Hour \in Int /\ n * Hour \in Int
      BY <3>1, BucketOrder
    <3> HIDE DEF first
    <3> QED  BY <1>0, <3>1, <3>2
  <2> HIDE DEF first
  <2>2. first - 1 < n
    BY <2>1, BucketOrder
  <2> QED  BY <1>0, <2>2
<1>7. n - first \in G
  BY <1>5, <1>6
<1> HIDE DEF first
<1> QED  BY <1>6, <1>7

-----------------------------------------------------------------------------
(* How far a pod is billed: to the end of a bucket.                        *)

BilledTo(C, p, n, through, at) ==
  /\ n * Hour <= through /\ n * Hour <= at
  /\ \A r \in RecordsOf(C, p) : r.end <= n * Hour

LEMMA ThroughIs ==
  ASSUME NEW recs, NEW through \in Nat, Ledger(recs, through), NEW zone,
         NEW from \in Int, NEW at \in Nat, NEW C, C = Counted(recs, from, at),
         NEW p \in Pods \cup Foreign,
         NEW bt, bt = RollUp(recs, zone, from, at).billedThrough
  PROVE  \E n \in Nat : BilledThrough(p, bt) = n * Hour /\ BilledTo(C, p, n, through, at)
<1> DEFINE billed == {r.pod : r \in C}
           ends == {r.end : r \in RecordsOf(C, p)}
<1>1. bt = [q \in billed |-> Max({r.end : r \in {x \in C : x.pod = q}})]
  BY DEF RollUp
<1>2. DOMAIN bt = billed
  BY <1>1
<1>3. p \in billed => bt[p] = Max(ends)
  BY <1>1 DEF RecordsOf
<1>4. IsFiniteSet(RecordsOf(C, p))
  <2>1. IsFiniteSet(C)
    BY BilledTyped
  <2>2. RecordsOf(C, p) \in SUBSET C
    BY DEF RecordsOf
  <2> QED  BY <2>1, <2>2, FS_Subset
<1>5. CASE p \notin billed
  <2>1. BilledThrough(p, bt) = 0
    BY <1>2, <1>5 DEF BilledThrough
  <2>2. RecordsOf(C, p) = {}
    BY <1>5 DEF RecordsOf
  <2>3. 0 * Hour = 0
    BY Hours
  <2>4. BilledTo(C, p, 0, through, at)
    BY <2>2, <2>3 DEF BilledTo
  <2> QED  BY <2>1, <2>3, <2>4
<1>6. CASE p \in billed
  <2>1. BilledThrough(p, bt) = Max(ends)
    BY <1>2, <1>3, <1>6 DEF BilledThrough
  <2>2. IsFiniteSet(ends)
    <3> DEFINE f == [r \in RecordsOf(C, p) |-> r.end]
    <3>1. IsFiniteSet({f[r] : r \in DOMAIN f})
      <4>1. IsFiniteSet(DOMAIN f)
        BY <1>4
      <4> HIDE DEF f
      <4> QED  BY <4>1, ImageIsFinite
    <3>2. ends = {f[r] : r \in DOMAIN f}
      OBVIOUS
    <3> QED  BY <3>1, <3>2
  <2>3. ASSUME NEW r \in RecordsOf(C, p)
        PROVE  \E n \in Nat : r.end = n * Hour /\ n * Hour <= through /\ n * Hour <= at
    <3>1. r \in C
      BY DEF RecordsOf
    <3>2. r.end <= at /\ r.end <= through
      BY <3>1, BilledTyped
    <3>3. PICK q \in Pods \cup Foreign, b \in Nat : r = BucketOf(q, b)
      BY <3>1, BilledTyped
    <3>4. r.end = (b + 1) * Hour
      BY <3>3, BucketFields
    <3>5. b + 1 \in Nat
      OBVIOUS
    <3> QED  BY <3>2, <3>4, <3>5
  <2>4. ends \subseteq Int
    <3>1. \A n \in Nat : n * Hour \in Int
      BY Hours
    <3> QED  BY <2>3, <3>1
  <2>5. ends # {}
    BY <1>6 DEF RecordsOf
  <2>6. Max(ends) \in ends /\ \A y \in ends : y <= Max(ends)
    <3> HIDE DEF ends
    <3> QED  BY <2>2, <2>4, <2>5, MaxIs
  <2>7. PICK r \in RecordsOf(C, p) : r.end = Max(ends)
    BY <2>6
  <2>8. PICK n \in Nat : r.end = n * Hour /\ n * Hour <= through /\ n * Hour <= at
    BY <2>3
  <2>9. \A x \in RecordsOf(C, p) : x.end <= n * Hour
    BY <2>6, <2>7, <2>8
  <2> QED  BY <2>1, <2>7, <2>8, <2>9 DEF BilledTo
<1> QED  BY <1>5, <1>6

(* What is billed of a pod, compared with what it cost up to there. *)
LEMMA PodMost ==
  ASSUME NEW recs, NEW through \in Nat, Ledger(recs, through),
         NEW from \in Int, NEW at \in Int, NEW C, C = Counted(recs, from, at),
         NEW p \in Pods \cup Foreign, DiskRate <= Rate[p], Exclusive(p),
         NEW n \in Nat, \A r \in RecordsOf(C, p) : r.end <= n * Hour,
         NEW m, m = Later(from, n * Hour)
  PROVE  /\ SumFunctionOnSet(Billed(C, from), RecordsOf(C, p)) \in Nat
         /\ m \in Int /\ from <= m
         /\ SumFunctionOnSet(Billed(C, from), RecordsOf(C, p)) <= PodCost(p, from, m) + Edge(p, from)
         /\ Published(C, p, from, n) =>
              PodCost(p, from, m) <= SumFunctionOnSet(Billed(C, from), RecordsOf(C, p)) + Edge(p, from)
<1> DEFINE sum == SumFunctionOnSet(Billed(C, from), RecordsOf(C, p))
<1>1. n \in Int /\ n * Hour \in Int
  BY Hours
<1>2. m \in Int /\ from <= m
  BY <1>1 DEF Later
<1>3. Until(C, p, n) = RecordsOf(C, p)
  BY DEF Until
<1>4. sum \in Nat
  BY <1>3, UntilSummed
<1>5. Edge(p, from) \in Nat
  BY Hours, SpendAssumption DEF Edge
<1>6. CASE from <= n * Hour
  <2>1. m = n * Hour
    BY <1>1, <1>6 DEF Later
  <2>2. sum <= PodCost(p, from, n * Hour) + Edge(p, from)
    BY <1>1, <1>3, <1>6, BilledMost
  <2>3. Published(C, p, from, n) => PodCost(p, from, n * Hour) <= sum + Edge(p, from)
    BY <1>1, <1>3, <1>6, BilledLeast
  <2> QED  BY <1>2, <1>4, <2>1, <2>2, <2>3
<1>7. CASE ~(from <= n * Hour)
  <2>1. m = from
    BY <1>1, <1>7 DEF Later
  <2>2. RecordsOf(C, p) = {}
    <3>1. \A r \in C : from < r.end /\ \E q \in Pods \cup Foreign, b \in Nat : r = BucketOf(q, b)
      BY BilledTyped
    <3>2. ASSUME NEW r \in C PROVE r.end \in Int
      <4>1. PICK q \in Pods \cup Foreign, b \in Nat : r = BucketOf(q, b)
        BY <3>1
      <4> QED  BY <4>1, BucketFields
    <3>3. \A r \in RecordsOf(C, p) : r \in C
      BY DEF RecordsOf
    <3> QED  BY <1>1, <1>7, <3>1, <3>2, <3>3
  <2>3. sum = 0
    BY <2>2, SumEmpty
  <2>4. PodCost(p, from, m) = 0
    BY <2>1, CostNone
  <2> QED  BY <1>2, <1>4, <1>5, <2>3, <2>4
<1> QED  BY <1>6, <1>7

-----------------------------------------------------------------------------
(* What is estimated.                                                      *)

LEMMA UsedApart ==
  ASSUME UsageInv, now \in Nat
  PROVE  \A p \in Pods \cup Foreign : Exclusive(p)
<1> SUFFICES ASSUME NEW p \in Pods \cup Foreign, NEW u \in Int,
                    <<p, u, "gpu">> \in used, <<p, u, "disk">> \in used
             PROVE  FALSE
  BY DEF Exclusive
<1>1. u \in 0..now - 1
  BY DEF UsageInv
<1> QED  BY <1>1 DEF UsageInv

LEMMA SeamMost ==
  ASSUME UsageInv, now \in Nat, NEW p \in Pods, rows[p].up, DiskRate <= Rate[p],
         NEW at \in Nat, at <= now, NEW m \in Int, m <= at,
         NEW s, s = Later(rows[p].startedAt, m)
  PROVE  /\ Rate[p] * Later(0, at - s) \in Nat
         /\ Rate[p] * Units(p, m, at, "disk") \in Nat
         /\ Rate[p] * Later(0, at - s) <= PodCost(p, m, at) + Rate[p] * Units(p, m, at, "disk")
         /\ PodCost(p, m, at) <= Rate[p] * Later(0, at - s)
<1> DEFINE S == rows[p].startedAt
           gpu == Units(p, s, at, "gpu")
           disk == Units(p, s, at, "disk")
<1>1. /\ S \in -1..now /\ S # Never /\ S \in Nat
      /\ \A u \in 0..now - 1 :
           /\ <<p, u, "gpu">> \in used \/ <<p, u, "disk">> \in used => S <= u
           /\ S <= u => <<p, u, "gpu">> \in used \/ <<p, u, "disk">> \in used
  BY DEF UsageInv, Never
<1>2. Rate[p] \in Nat /\ DiskRate \in Nat /\ p \in Pods \cup Foreign
  BY SpendAssumption
<1>3. s \in Int /\ m <= s /\ S <= s /\ (s = S \/ s = m)
  BY <1>1 DEF Later
<1>4. Exclusive(p)
  BY <1>2, UsedApart
<1>5. \A u \in m..s - 1 : <<p, u, "gpu">> \notin used /\ <<p, u, "disk">> \notin used
  <2> SUFFICES ASSUME NEW u \in m..s - 1, <<p, u, "gpu">> \in used \/ <<p, u, "disk">> \in used
               PROVE  FALSE
    OBVIOUS
  <2>1. u \in 0..now - 1
    BY DEF UsageInv
  <2>2. S <= u
    BY <1>1, <2>1
  <2> QED  BY <1>1, <1>3, <2>2
<1>6. /\ Units(p, m, at, "disk") \in Nat /\ gpu \in Nat /\ disk \in Nat
      /\ PodCost(p, m, at) \in Nat
  BY <1>2, <1>3, UsedFinite, CostTyped
<1>7. Rate[p] * Units(p, m, at, "disk") \in Nat
  BY <1>2, <1>6
<1>8. CASE at < s
  <2>1. Later(0, at - s) = 0
    BY <1>3, <1>8 DEF Later
  <2>2. Rate[p] * Later(0, at - s) = 0
    BY <1>2, <2>1
  <2>3. PodCost(p, m, at) = 0
    <3>1. \A u \in m..at - 1 : u \in m..s - 1
      BY <1>3, <1>8
    <3>2. \A u \in m..at - 1 : <<p, u, "gpu">> \notin used /\ <<p, u, "disk">> \notin used
      BY <1>5, <3>1
    <3> QED  BY <1>2, <3>2, CostNone
  <2> QED  BY <1>6, <1>7, <2>2, <2>3
<1>9. CASE s <= at
  <2>1. Later(0, at - s) = at - s /\ at - s \in Nat
    BY <1>3, <1>9 DEF Later
  <2>2. \A u \in s..at - 1 : <<p, u, "gpu">> \in used \/ <<p, u, "disk">> \in used
    BY <1>1, <1>3
  <2>3. \A u \in s..at - 1 : ~(<<p, u, "gpu">> \in used /\ <<p, u, "disk">> \in used)
    BY <1>3, <1>4 DEF Exclusive
  <2>4. gpu + disk = at - s
    BY <1>3, <1>9, <2>2, <2>3, BothUses
  <2>5. PodCost(p, m, at) = PodCost(p, m, s) + PodCost(p, s, at)
    BY <1>2, <1>3, <1>9, CostSplit
  <2>6. PodCost(p, m, s) = 0
    BY <1>2, <1>3, <1>5, CostNone
  <2>7. PodCost(p, s, at) <= Rate[p] * (at - s)
    BY <1>2, <1>3, <1>9, <2>3, CostMost
  <2>8. PodCost(p, s, at) = Rate[p] * gpu + DiskRate * disk
    BY DEF PodCost
  <2>9. Units(p, m, at, "disk") = Units(p, m, s, "disk") + disk /\ Units(p, m, s, "disk") \in Nat
    BY <1>3, <1>9, UnitsSplit, UsedFinite
  <2>10. /\ Rate[p] * (at - s) = Rate[p] * gpu + Rate[p] * disk
         /\ Rate[p] * Units(p, m, at, "disk") = Rate[p] * Units(p, m, s, "disk") + Rate[p] * disk
         /\ Rate[p] * gpu \in Nat /\ Rate[p] * disk \in Nat /\ DiskRate * disk \in Nat
         /\ Rate[p] * Units(p, m, s, "disk") \in Nat
    <3> DEFINE w == Rate[p]
               early == Units(p, m, s, "disk")
    <3>1. w \in Nat /\ gpu \in Nat /\ disk \in Nat /\ early \in Nat
      BY <1>2, <1>6, <2>9
    <3>2. at - s = gpu + disk /\ Units(p, m, at, "disk") = early + disk
      BY <2>4, <2>9
    <3> HIDE DEF w, gpu, disk, early
    <3>3. w * (gpu + disk) = w * gpu + w * disk /\ w * (early + disk) = w * early + w * disk
      BY <3>1
    <3>4. w * gpu \in Nat /\ w * disk \in Nat /\ DiskRate * disk \in Nat /\ w * early \in Nat
      BY <1>2, <3>1
    <3> QED  BY <3>2, <3>3, <3>4 DEF w, early
  <2>11. PodCost(p, s, at) \in Nat
    BY <1>2, <1>3, CostTyped
  <2> HIDE DEF gpu, disk
  <2>12. Rate[p] * (at - s) \in Nat
    BY <2>10
  <2> QED
    BY <2>1, <2>5, <2>6, <2>7, <2>8, <2>10, <2>11, <2>12, <1>7
<1> QED  BY <1>3, <1>8, <1>9

-----------------------------------------------------------------------------
(* All that has been published of the buckets that reach into a window. *)
Whole(recs, through, from) ==
  \A p \in Pods \cup Foreign, b \in Nat :
    from < (b + 1) * Hour /\ (b + 1) * Hour <= through /\ BucketOf(p, b).amount > 0 =>
      BucketOf(p, b) \in recs

LEMMA WholeIsPublished ==
  ASSUME UsageInv, now \in Nat, NEW recs, NEW through \in Nat, NEW from \in Int,
         Whole(recs, through, from), NEW at \in Int, NEW C, C = Counted(recs, from, at),
         NEW p \in Pods \cup Foreign, NEW n \in Nat, n * Hour <= through, n * Hour <= at
  PROVE  Published(C, p, from, n)
<1> SUFFICES ASSUME NEW b \in Int, from < (b + 1) * Hour, b < n, BucketOf(p, b).amount > 0
             PROVE  BucketOf(p, b) \in C
  BY DEF Published
<1> DEFINE x == BucketOf(p, b)
<1>1. /\ x.start = b * Hour /\ x.end = (b + 1) * Hour /\ x.start \in Int /\ x.end \in Int
      /\ x.end = x.start + Hour /\ x.amount = PodCost(p, x.start, x.end)
  BY BucketFields
<1>2. b + 1 \in Int /\ b + 1 <= n /\ n \in Int
  OBVIOUS
<1>3. (b + 1) * Hour <= n * Hour /\ n * Hour \in Int
  BY <1>2, BucketOrder
<1>4. b \in Nat
  <2> SUFFICES ASSUME ~(b \in Nat) PROVE FALSE
    OBVIOUS
  <2>1. b + 1 <= 0
    OBVIOUS
  <2>2. (b + 1) * Hour <= 0 * Hour /\ 0 * Hour = 0
    BY <1>2, <2>1, BucketOrder, Hours
  <2>3. x.end <= 0
    BY <1>1, <2>2
  <2>4. \A u \in x.start..x.end - 1 : <<p, u, "gpu">> \notin used /\ <<p, u, "disk">> \notin used
    <3> HIDE DEF x
    <3> QED  BY <1>1, <2>3 DEF UsageInv
  <2>5. PodCost(p, x.start, x.end) = 0
    <3> HIDE DEF x
    <3> QED  BY <1>1, <2>4, CostNone
  <2> QED  BY <1>1, <2>5
<1>5. x \in recs
  <2>1. (b + 1) * Hour <= through
    BY <1>1, <1>3
  <2> QED  BY <1>4, <2>1 DEF Whole
<1>6. x.start < x.end
  <2> HIDE DEF x
  <2> QED  BY <1>1, Hours
<1> HIDE DEF x
<1>7. x \in C
  BY <1>1, <1>3, <1>5, <1>6 DEF Counted
<1> QED  BY <1>7 DEF x

(* What the figure of a window holds of one pod. *)
LEMMA PodFigure ==
  ASSUME UsageInv, now \in Nat,
         NEW recs, NEW through \in Nat, Ledger(recs, through), NEW zone,
         NEW month \in Int, NEW from \in Int, NEW read \in Nat, NEW at \in Nat,
         month <= from, from <= at, read <= at, at <= now,
         NEW bt, bt = RollUp(recs, zone, month, read).billedThrough,
         NEW C, C = Counted(recs, from, read),
         NEW p \in Pods \cup Foreign, DiskRate <= Rate[p],
         NEW sum, sum = SumFunctionOnSet(Billed(C, from), RecordsOf(C, p)),
         NEW live, live = IF p \in UpRows THEN Rate[p] * Later(0, at - Seam(p, from, bt)) ELSE 0,
         NEW pause,
         pause = IF p \in UpRows
                   THEN Rate[p] * Units(p, Later(from, BilledThrough(p, bt)), at, "disk") ELSE 0
  PROVE  /\ sum \in Nat /\ live \in Nat /\ pause \in Nat /\ Edge(p, from) \in Nat
         /\ PodCost(p, from, at) \in Nat
         /\ sum + live <= PodCost(p, from, at) + Edge(p, from) + pause
         /\ Whole(recs, through, from) /\ p \in Pods
              /\ (rows[p].startedAt # Never => rows[p].up)
              => PodCost(p, from, at) <= sum + Edge(p, from) + live
<1> DEFINE all == Counted(recs, month, read)
<1>1. PICK n \in Nat : BilledThrough(p, bt) = n * Hour /\ BilledTo(all, p, n, through, read)
  BY ThroughIs
<1>2. /\ n * Hour <= through /\ n * Hour <= read /\ n * Hour \in Int /\ n * Hour <= at
      /\ \A r \in RecordsOf(all, p) : r.end <= n * Hour
  BY <1>1, Hours DEF BilledTo
<1>3. \A r \in RecordsOf(C, p) : r.end <= n * Hour
  <2> SUFFICES ASSUME NEW r \in RecordsOf(C, p) PROVE r \in RecordsOf(all, p)
    BY <1>2
  <2>1. r \in C /\ r.pod = p
    BY DEF RecordsOf
  <2>2. PICK q \in Pods \cup Foreign, b \in Nat : r = BucketOf(q, b)
    BY <2>1, BilledTyped
  <2>3. r.end \in Int
    BY <2>2, BucketFields
  <2>4. r \in all
    BY <2>1, <2>3 DEF Counted
  <2> QED  BY <2>1, <2>4 DEF RecordsOf
<1> HIDE DEF all
<1> DEFINE m == Later(from, n * Hour)
           cost == PodCost(p, from, at)
           early == PodCost(p, from, m)
           late == PodCost(p, m, at)
<1>4. Exclusive(p)
  BY UsedApart
<1>5. /\ sum \in Nat /\ m \in Int /\ from <= m /\ sum <= early + Edge(p, from)
      /\ Published(C, p, from, n) => early <= sum + Edge(p, from)
  BY <1>3, <1>4, PodMost
<1>6. m <= at
  BY <1>2 DEF Later
<1>7. cost = early + late /\ cost \in Nat /\ early \in Nat /\ late \in Nat
  BY <1>5, <1>6, CostSplit, CostTyped
<1>8. Edge(p, from) \in Nat
  BY Hours, SpendAssumption DEF Edge
<1>9. Whole(recs, through, from) => Published(C, p, from, n)
  BY <1>2, WholeIsPublished
<1>10. CASE p \in UpRows
  <2>1. p \in Pods /\ rows[p].up
    BY <1>10 DEF UpRows
  <2>2. Seam(p, from, bt) = Later(rows[p].startedAt, m)
    BY <1>1, <1>2 DEF Seam, Later
  <2>3. live = Rate[p] * Later(0, at - Later(rows[p].startedAt, m))
    BY <1>10, <2>2
  <2>4. pause = Rate[p] * Units(p, m, at, "disk")
    BY <1>1, <1>10
  <2> HIDE DEF m
  <2>5. live \in Nat /\ pause \in Nat /\ live <= late + pause /\ late <= live
    BY <1>5, <1>6, <2>1, <2>3, <2>4, SeamMost
  <2> HIDE DEF cost, early, late
  <2>6. sum + live <= cost + Edge(p, from) + pause
    BY <1>5, <1>7, <1>8, <2>5
  <2>7. Whole(recs, through, from) => cost <= sum + Edge(p, from) + live
    BY <1>5, <1>7, <1>8, <1>9, <2>5
  <2> QED  BY <1>5, <1>7, <1>8, <2>5, <2>6, <2>7 DEF cost
<1>11. CASE p \notin UpRows
  <2>1. live = 0 /\ pause = 0
    BY <1>11
  <2> HIDE DEF m, early, late
  <2>2. sum + live <= cost + Edge(p, from) + pause
    <3> HIDE DEF cost
    <3> QED  BY <1>5, <1>7, <1>8, <2>1
  <2>3. p \in Pods /\ (rows[p].startedAt # Never => rows[p].up) => cost = 0
    <3> SUFFICES ASSUME p \in Pods, rows[p].startedAt # Never => rows[p].up PROVE cost = 0
      OBVIOUS
    <3>1. rows[p].startedAt = Never
      BY <1>11 DEF UpRows
    <3>2. \A u \in Int : <<p, u, "gpu">> \notin used /\ <<p, u, "disk">> \notin used
      BY <3>1 DEF UsageInv
    <3> QED  BY <3>2, CostNone
  <2> HIDE DEF cost
  <2> QED  BY <1>5, <1>7, <1>8, <2>1, <2>2, <2>3 DEF cost
<1> QED  BY <1>10, <1>11

-----------------------------------------------------------------------------
(* What the figure of a window holds of all of them. *)

LEMMA EveryoneIsFinite ==
  /\ IsFiniteSet(Everyone) /\ IsFiniteSet(Pods)
  /\ IsFiniteSet(UpRows) /\ UpRows \in SUBSET Everyone /\ UpRows \in SUBSET Pods
<1>1. IsFiniteSet(Everyone)
  BY SpendAssumption, FS_Union DEF Everyone
<1>2. UpRows \in SUBSET Everyone /\ UpRows \in SUBSET Pods
  BY DEF UpRows, Everyone
<1> QED  BY <1>1, <1>2, SpendAssumption, FS_Subset

LEMMA TotalByPod ==
  ASSUME NEW recs, NEW through \in Nat, Ledger(recs, through), NEW zone,
         NEW from \in Int, NEW at \in Nat, NEW C, C = Counted(recs, from, at),
         NEW v, \A p \in Everyone : v[p] = SumFunctionOnSet(Billed(C, from), RecordsOf(C, p))
  PROVE  /\ RollUp(recs, zone, from, at).total = SumFunctionOnSet(v, Everyone)
         /\ RollUp(recs, zone, from, at).total \in Nat
<1> DEFINE w == Billed(C, from)
           k == [r \in C |-> r.pod]
<1>1. RollUp(recs, zone, from, at).total = SumFunctionOnSet(w, C)
  <2>1. RollUp(recs, zone, from, at).total = SumFunction(w)
    BY DEF RollUp
  <2>2. DOMAIN w = C
    BY DEF Billed
  <2> HIDE DEF w
  <2> QED  BY <2>1, <2>2 DEF SumFunction
<1>2. IsFiniteSet(C) /\ \A r \in C : w[r] \in Nat
  BY BilledTyped
<1>3. \A r \in C : k[r] \in Everyone
  <2> SUFFICES ASSUME NEW r \in C PROVE r.pod \in Everyone
    OBVIOUS
  <2>1. PICK q \in Pods \cup Foreign, b \in Nat : r = BucketOf(q, b)
    BY BilledTyped
  <2> QED  BY <2>1, BucketFields DEF Everyone
<1>4. \A p \in Everyone : v[p] = SumFunctionOnSet(w, Keyed(C, k, p))
  <2> SUFFICES ASSUME NEW p \in Everyone
               PROVE  RecordsOf(C, p) = Keyed(C, k, p)
    OBVIOUS
  <2> QED  BY DEF RecordsOf, Keyed
<1> HIDE DEF w, k
<1>5. SumFunctionOnSet(v, Everyone) = SumFunctionOnSet(w, C)
  BY <1>2, <1>3, <1>4, EveryoneIsFinite, SumByKey
<1>6. SumFunctionOnSet(w, C) \in Nat
  BY <1>2, SumIsNat
<1> QED  BY <1>1, <1>5, <1>6

(* A sum over the pods that are up, as one over all of them. *)
LEMMA UpSum ==
  ASSUME NEW w, \A p \in UpRows : w[p] \in Nat,
         NEW v, \A p \in Everyone : v[p] = IF p \in UpRows THEN w[p] ELSE 0,
         NEW T, T = Everyone \/ T = Pods
  PROVE  /\ SumFunctionOnSet(w, UpRows) = SumFunctionOnSet(v, T)
         /\ SumFunctionOnSet(w, UpRows) \in Nat
<1>1. /\ UpRows \in SUBSET T /\ IsFiniteSet(T) /\ IsFiniteSet(UpRows)
      /\ \A p \in T : p \in Everyone
  BY EveryoneIsFinite DEF Everyone
<1>2. (\A p \in UpRows : v[p] \in Nat /\ v[p] = w[p]) /\ \A p \in T \ UpRows : v[p] = 0
  BY <1>1
<1>3. SumFunctionOnSet(v, T) = SumFunctionOnSet(v, UpRows)
  BY <1>1, <1>2, SumSupport
<1>4. SumFunctionOnSet(v, UpRows) = SumFunctionOnSet(w, UpRows)
  BY <1>1, <1>2, SumSame
<1>5. SumFunctionOnSet(w, UpRows) \in Nat
  BY <1>1, SumIsNat
<1> QED  BY <1>3, <1>4, <1>5

Pauses(at, from, bt) ==
  SumFunction([p \in UpRows |->
                 Rate[p] * Units(p, Later(from, BilledThrough(p, bt)), at, "disk")])

LEMMA WindowFigure ==
  ASSUME UsageInv, now \in Nat, \A p \in Everyone : DiskRate <= Rate[p],
         NEW recs, NEW through \in Nat, Ledger(recs, through), NEW zone,
         NEW month \in Int, NEW from \in Int, NEW read \in Nat, NEW at \in Nat,
         month <= from, from <= at, read <= at, at <= now,
         NEW bt, bt = RollUp(recs, zone, month, read).billedThrough,
         NEW total, total = RollUp(recs, zone, from, read).total
  PROVE  /\ total \in Nat /\ LiveCost(at, from, bt) \in Nat /\ Pauses(at, from, bt) \in Nat
         /\ Cost(Everyone, from, at) \in Nat /\ Cost(Pods, from, at) \in Nat
         /\ Slack(from) \in Nat
         /\ total + LiveCost(at, from, bt)
              <= Cost(Everyone, from, at) + Slack(from) + Pauses(at, from, bt)
         /\ Whole(recs, through, from)
              /\ (\A p \in Pods : rows[p].startedAt # Never => rows[p].up) =>
              Cost(Pods, from, at) <= total + Slack(from) + LiveCost(at, from, bt)
<1> DEFINE C == Counted(recs, from, read)
           liveUp == [p \in UpRows |-> Rate[p] * Later(0, at - Seam(p, from, bt))]
           pauseUp == [p \in UpRows |->
                         Rate[p] * Units(p, Later(from, BilledThrough(p, bt)), at, "disk")]
           sum == [p \in Everyone |-> SumFunctionOnSet(Billed(C, from), RecordsOf(C, p))]
           live == [p \in Everyone |-> IF p \in UpRows THEN liveUp[p] ELSE 0]
           pause == [p \in Everyone |-> IF p \in UpRows THEN pauseUp[p] ELSE 0]
           edge == [p \in Everyone |-> Edge(p, from)]
           cost == [p \in Everyone |-> PodCost(p, from, at)]
           left == [p \in Everyone |-> sum[p] + live[p]]
           dear == [p \in Everyone |-> cost[p] + edge[p]]
           right == [p \in Everyone |-> dear[p] + pause[p]]
           have == [p \in Everyone |-> left[p] + edge[p]]
           whole == /\ Whole(recs, through, from)
                    /\ \A p \in Pods : rows[p].startedAt # Never => rows[p].up
<1>1. ASSUME NEW p \in Everyone
      PROVE  /\ sum[p] \in Nat /\ live[p] \in Nat /\ pause[p] \in Nat /\ edge[p] \in Nat
             /\ cost[p] \in Nat /\ left[p] \in Nat /\ right[p] \in Nat /\ have[p] \in Nat
             /\ dear[p] \in Nat /\ left[p] = sum[p] + live[p] /\ dear[p] = cost[p] + edge[p]
             /\ right[p] = dear[p] + pause[p] /\ have[p] = left[p] + edge[p]
             /\ left[p] <= right[p]
             /\ whole /\ p \in Pods => cost[p] <= have[p]
  <2> DEFINE s == SumFunctionOnSet(Billed(C, from), RecordsOf(C, p))
             l == IF p \in UpRows THEN Rate[p] * Later(0, at - Seam(p, from, bt)) ELSE 0
             u == IF p \in UpRows
                    THEN Rate[p] * Units(p, Later(from, BilledThrough(p, bt)), at, "disk") ELSE 0
             e == Edge(p, from)
             c == PodCost(p, from, at)
  <2>1. p \in Pods \cup Foreign /\ DiskRate <= Rate[p]
    BY DEF Everyone
  <2>2. /\ s \in Nat /\ l \in Nat /\ u \in Nat /\ e \in Nat /\ c \in Nat
        /\ s + l <= c + e + u
        /\ Whole(recs, through, from) /\ p \in Pods
             /\ (rows[p].startedAt # Never => rows[p].up) => c <= s + e + l
    <3>1. s = SumFunctionOnSet(Billed(C, from), RecordsOf(C, p)) /\ C = Counted(recs, from, read)
      OBVIOUS
    <3>2. l = IF p \in UpRows THEN Rate[p] * Later(0, at - Seam(p, from, bt)) ELSE 0
      OBVIOUS
    <3>3. u = IF p \in UpRows
                THEN Rate[p] * Units(p, Later(from, BilledThrough(p, bt)), at, "disk") ELSE 0
      OBVIOUS
    <3> HIDE DEF s, l, u, C
    <3> QED  BY <2>1, <3>1, <3>2, <3>3, PodFigure
  <2>3. sum[p] = s /\ live[p] = l /\ pause[p] = u /\ edge[p] = e /\ cost[p] = c
    OBVIOUS
  <2>4. /\ left[p] = sum[p] + live[p] /\ dear[p] = cost[p] + edge[p]
        /\ right[p] = dear[p] + pause[p] /\ have[p] = left[p] + edge[p]
    OBVIOUS
  <2>5. whole /\ p \in Pods => c <= s + e + l
    BY <2>2
  <2> HIDE DEF s, l, u, e, c, sum, live, pause, edge, cost, left, dear, right, have, whole
  <2> QED  BY <2>2, <2>3, <2>4, <2>5
<1>2. /\ \A p \in UpRows : liveUp[p] \in Nat /\ pauseUp[p] \in Nat
      /\ \A p \in Everyone : live[p] = IF p \in UpRows THEN liveUp[p] ELSE 0
      /\ \A p \in Everyone : pause[p] = IF p \in UpRows THEN pauseUp[p] ELSE 0
  <2>1. /\ \A p \in Everyone : live[p] = IF p \in UpRows THEN liveUp[p] ELSE 0
        /\ \A p \in Everyone : pause[p] = IF p \in UpRows THEN pauseUp[p] ELSE 0
    OBVIOUS
  <2>2. UpRows \in SUBSET Everyone
    BY EveryoneIsFinite
  <2> HIDE DEF liveUp, pauseUp, live, pause
  <2> QED  BY <1>1, <2>1, <2>2
<1>3. total = SumFunctionOnSet(sum, Everyone) /\ total \in Nat
  <2>1. \A p \in Everyone : sum[p] = SumFunctionOnSet(Billed(C, from), RecordsOf(C, p))
    OBVIOUS
  <2> HIDE DEF sum
  <2> QED  BY <2>1, TotalByPod
<1>4. /\ LiveCost(at, from, bt) = SumFunctionOnSet(liveUp, UpRows)
      /\ Pauses(at, from, bt) = SumFunctionOnSet(pauseUp, UpRows)
      /\ Cost(Everyone, from, at) = SumFunctionOnSet(cost, Everyone)
  <2>1. LiveCost(at, from, bt) = SumFunction(liveUp)
    BY DEF LiveCost
  <2>2. Pauses(at, from, bt) = SumFunction(pauseUp)
    BY DEF Pauses
  <2>3. Cost(Everyone, from, at) = SumFunction(cost)
    BY DEF Cost
  <2>4. DOMAIN liveUp = UpRows /\ DOMAIN pauseUp = UpRows /\ DOMAIN cost = Everyone
    OBVIOUS
  <2> HIDE DEF liveUp, pauseUp, cost
  <2> QED  BY <2>1, <2>2, <2>3, <2>4 DEF SumFunction
<1>5. Cost(Pods, from, at) = SumFunctionOnSet(cost, Pods)
  <2> DEFINE v == [p \in Pods |-> PodCost(p, from, at)]
  <2>1. Cost(Pods, from, at) = SumFunction(v) /\ DOMAIN v = Pods
    BY DEF Cost
  <2>2. \A p \in Pods : v[p] = cost[p] /\ cost[p] \in Nat
    BY <1>1 DEF Everyone
  <2> HIDE DEF v, cost
  <2>3. SumFunctionOnSet(v, Pods) = SumFunctionOnSet(cost, Pods)
    BY <2>2, EveryoneIsFinite, SumSame
  <2> QED  BY <2>1, <2>3 DEF SumFunction
<1>6. Slack(from) = SumFunctionOnSet(edge, Everyone)
  <2>1. CASE from % Hour = 0
    <3>1. \A p \in Everyone : edge[p] = 0
      BY <2>1 DEF Edge
    <3> HIDE DEF edge
    <3>2. SumFunctionOnSet(edge, Everyone) = 0
      BY <3>1, EveryoneIsFinite, SumZero
    <3> QED  BY <2>1, <3>2 DEF Slack
  <2>2. CASE from % Hour # 0
    <3> DEFINE v == [p \in Everyone |-> Rate[p] * Hour]
    <3>1. Slack(from) = SumFunction(v) /\ DOMAIN v = Everyone
      BY <2>2 DEF Slack, Everyone
    <3>2. \A p \in Everyone : v[p] = edge[p] /\ edge[p] \in Nat
      BY <1>1, <2>2 DEF Edge
    <3> HIDE DEF v, edge
    <3>3. SumFunctionOnSet(v, Everyone) = SumFunctionOnSet(edge, Everyone)
      BY <3>2, EveryoneIsFinite, SumSame
    <3> QED  BY <3>1, <3>3 DEF SumFunction
  <2> QED  BY <2>1, <2>2
<1> HIDE DEF liveUp, pauseUp, sum, live, pause, edge, cost, left, right, have, dear, whole
<1>7. /\ SumFunctionOnSet(liveUp, UpRows) = SumFunctionOnSet(live, Everyone)
      /\ SumFunctionOnSet(pauseUp, UpRows) = SumFunctionOnSet(pause, Everyone)
      /\ SumFunctionOnSet(liveUp, UpRows) \in Nat /\ SumFunctionOnSet(pauseUp, UpRows) \in Nat
  BY <1>2, UpSum
<1>8. /\ IsFiniteSet(Everyone) /\ IsFiniteSet(Pods) /\ \A p \in Pods : p \in Everyone
  BY EveryoneIsFinite DEF Everyone
<1>9. SumFunctionOnSet(left, Everyone)
        = SumFunctionOnSet(sum, Everyone) + SumFunctionOnSet(live, Everyone)
  BY <1>1, <1>8, SumPlus
<1>10. SumFunctionOnSet(dear, Everyone)
        = SumFunctionOnSet(cost, Everyone) + SumFunctionOnSet(edge, Everyone)
  BY <1>1, <1>8, SumPlus
<1>11. SumFunctionOnSet(right, Everyone)
        = SumFunctionOnSet(dear, Everyone) + SumFunctionOnSet(pause, Everyone)
  BY <1>1, <1>8, SumPlus
<1>12. SumFunctionOnSet(have, Everyone)
        = SumFunctionOnSet(left, Everyone) + SumFunctionOnSet(edge, Everyone)
  BY <1>1, <1>8, SumPlus
<1>13. SumFunctionOnSet(left, Everyone) <= SumFunctionOnSet(right, Everyone)
  BY <1>1, <1>8, SumMono
<1>14. whole => SumFunctionOnSet(cost, Pods) <= SumFunctionOnSet(have, Pods)
  BY <1>1, <1>8, SumMono
<1>15. SumFunctionOnSet(have, Pods) <= SumFunctionOnSet(have, Everyone)
  <2>1. Everyone = Pods \cup Foreign /\ Pods \cap Foreign = {} /\ IsFiniteSet(Foreign)
    BY SpendAssumption DEF Everyone
  <2>2. \A p \in Pods \cup Foreign : have[p] \in Nat
    BY <1>1, <2>1
  <2>3. SumFunctionOnSet(have, Pods \cup Foreign)
          = SumFunctionOnSet(have, Pods) + SumFunctionOnSet(have, Foreign)
    BY <1>8, <2>1, <2>2, SumUnion
  <2>4. SumFunctionOnSet(have, Pods) \in Nat /\ SumFunctionOnSet(have, Foreign) \in Nat
    BY <1>8, <2>1, <2>2, SumIsNat
  <2> QED  BY <2>1, <2>3, <2>4
<1>16. /\ SumFunctionOnSet(edge, Everyone) \in Nat /\ SumFunctionOnSet(cost, Everyone) \in Nat
       /\ SumFunctionOnSet(sum, Everyone) \in Nat
       /\ SumFunctionOnSet(cost, Pods) \in Nat /\ SumFunctionOnSet(have, Pods) \in Nat
  BY <1>1, <1>8, SumIsNat
<1>17. total + LiveCost(at, from, bt)
         <= Cost(Everyone, from, at) + Slack(from) + Pauses(at, from, bt)
  BY <1>3, <1>4, <1>6, <1>7, <1>9, <1>10, <1>11, <1>13, <1>16
<1>18. whole => Cost(Pods, from, at) <= total + Slack(from) + LiveCost(at, from, bt)
  BY <1>3, <1>4, <1>5, <1>6, <1>7, <1>9, <1>12, <1>14, <1>15, <1>16
<1> QED  BY <1>3, <1>4, <1>5, <1>6, <1>7, <1>16, <1>17, <1>18 DEF whole

-----------------------------------------------------------------------------
(* The billing, its request and its readers.                               *)

LEMMA BillingInit == Init => BillingInv
<1> USE SpendAssumption
<1> SUFFICES ASSUME Init PROVE BillingInv
  OBVIOUS
<1>1. /\ now = 0 /\ inFlight = NoRequest /\ inFlight.at = -1
      /\ reading = [r \in Readers |-> -1]
  BY DEF Init, NoRequest, Never
<1>2. /\ cache.lastAttemptAt = -1 /\ cache.succeededAt = -1
      /\ ~cache.failed /\ cache.failed \in BOOLEAN
      /\ DOMAIN cache = DOMAIN NoCache
  BY DEF Init, NoCache, Never
<1>3. -1 \in -1..0 /\ -1 \in -1..-1 /\ 0 \in Instants
  BY DEF Instants
<1>4. AskedBefore
  BY <1>1, <1>3 DEF AskedBefore
<1>5. CacheTold
  BY <1>1, <1>2, <1>3 DEF CacheTold
<1> QED
  BY <1>4, <1>5 DEF BillingInv

(* A step that leaves the billing, its request and its readers alone. *)
LEMMA BillingKept ==
  ASSUME BillingInv, now' \in Instants, now' >= now, UNCHANGED <<cache, inFlight, reading>>
  PROVE  BillingInv'
<1>1. now \in Int /\ now' \in Int
  BY SpendAssumption DEF BillingInv, AskedBefore, Instants
<1>2. \A k \in -1..now : k \in -1..now'
  BY <1>1
<1>3. reading \in [Readers -> -1..now']
  BY <1>2 DEF BillingInv, AskedBefore
<1>4. AskedBefore'
  BY <1>2, <1>3 DEF BillingInv, AskedBefore
<1>5. CacheTold'
  BY <1>2 DEF BillingInv, CacheTold
<1> QED
  BY <1>4, <1>5 DEF BillingInv

LEMMA BillingStep ==
  ASSUME BillingInv, [Next]_vars
  PROVE  BillingInv'
<1> USE SpendAssumption
<1>0. /\ now \in Instants /\ now \in Nat /\ now <= Horizon
      /\ reading \in [Readers -> -1..now] /\ inFlight.at \in -1..now
      /\ cache.lastAttemptAt \in -1..now /\ cache.succeededAt \in -1..cache.lastAttemptAt
  BY DEF BillingInv, AskedBefore, CacheTold, Instants
<1>9. NoRequest.at = -1 /\ NoRequest.at \in -1..now
  BY <1>0 DEF NoRequest, Never
<1>1. ASSUME NEW r \in Readers, ReadFresh(r) PROVE BillingInv'
  BY <1>0, <1>1, BillingKept DEF ReadFresh, facts, billing
<1>2. ASSUME NEW r \in Readers, ReadStale(r) PROVE BillingInv'
  <2>1. UNCHANGED <<now, cache>> /\ Settled /\ ~Fresh /\ reading[r] = Never
    BY <1>2 DEF ReadStale, facts
  <2>2. /\ reading' \in [Readers -> -1..now]
        /\ reading'[r] = now /\ \A q \in Readers : q # r => reading'[q] = reading[q]
    <3>1. reading' = [reading EXCEPT ![r] = now]
      BY <1>2 DEF ReadStale
    <3>2. now \in -1..now
      BY <1>0
    <3> QED
      BY <1>0, <3>1, <3>2
  <2>3. CASE inFlight = NoRequest
    <3>1. inFlight' = [at |-> now, zone |-> timezone]
      BY <1>2, <2>3 DEF ReadStale
    <3>2. inFlight'.at = now
      BY <3>1
    <3>3. \A q \in Readers : q # r => reading[q] = Never
      BY <2>1, <2>3 DEF Settled
    <3>4. AskedBefore'
      BY <1>0, <2>1, <2>2, <3>2, <3>3 DEF AskedBefore, Never
    <3>5. cache.lastAttemptAt # Never =>
            now - cache.lastAttemptAt >= IF cache.failed THEN RetryAge ELSE CacheAge
      <4>1. CASE cache.failed
        BY <1>0, <2>1, <4>1 DEF Fresh
      <4>2. CASE ~cache.failed
        <5>1. cache.succeededAt = cache.lastAttemptAt
          BY <4>2 DEF BillingInv, CacheTold
        <5> QED
          BY <1>0, <2>1, <4>2, <5>1 DEF Fresh
      <4> QED
        BY <4>1, <4>2
    <3>6. CacheTold'
      BY <2>1, <3>2, <3>5 DEF BillingInv, CacheTold
    <3> QED
      BY <3>4, <3>6 DEF BillingInv
  <2>4. CASE inFlight # NoRequest
    <3>1. inFlight' = inFlight
      BY <1>2, <2>4 DEF ReadStale
    <3>2. AskedBefore'
      BY <1>0, <2>1, <2>2, <2>4, <3>1 DEF BillingInv, AskedBefore
    <3>3. CacheTold'
      BY <2>1, <3>1 DEF BillingInv, CacheTold
    <3> QED
      BY <3>2, <3>3 DEF BillingInv
  <2> QED
    BY <2>3, <2>4
<1>3. ASSUME NEW r \in Readers, ReadOn(r) PROVE BillingInv'
  <2>1. inFlight = NoRequest /\ UNCHANGED <<now, cache, inFlight>>
        /\ reading' = [reading EXCEPT ![r] = Never]
    BY <1>3 DEF ReadOn, facts, billing
  <2>2. Never \in -1..now
    BY <1>0 DEF Never
  <2>3. AskedBefore'
    BY <1>0, <2>1, <2>2 DEF BillingInv, AskedBefore
  <2>4. CacheTold'
    BY <2>1 DEF BillingInv, CacheTold
  <2> QED
    BY <2>3, <2>4 DEF BillingInv
<1>4. ASSUME BillingAnswers PROVE BillingInv'
  <2>1. /\ inFlight # NoRequest /\ inFlight' = NoRequest /\ UNCHANGED <<now, reading>>
        /\ cache'.lastAttemptAt = inFlight.at /\ cache'.succeededAt = inFlight.at
        /\ cache'.failed = FALSE
    BY <1>4 DEF BillingAnswers, facts
  <2>2. AskedBefore'
    BY <1>0, <1>9, <2>1 DEF AskedBefore
  <2>3. CacheTold'
    <3>1. DOMAIN cache' = DOMAIN NoCache
      BY <1>4 DEF BillingAnswers, NoCache
    <3>2. inFlight.at \in -1..inFlight.at
      BY <1>0
    <3> QED
      BY <1>0, <2>1, <3>1, <3>2 DEF CacheTold
  <2> QED
    BY <2>2, <2>3 DEF BillingInv
<1>5. ASSUME BillingFails PROVE BillingInv'
  <2>1. /\ inFlight # NoRequest /\ inFlight' = NoRequest /\ UNCHANGED <<now, reading>>
        /\ cache' = [cache EXCEPT !.lastAttemptAt = inFlight.at, !.failed = TRUE]
    BY <1>5 DEF BillingFails, facts
  <2>2. /\ cache'.lastAttemptAt = inFlight.at /\ cache'.succeededAt = cache.succeededAt
        /\ cache'.failed = TRUE /\ DOMAIN cache' = DOMAIN NoCache
    BY <2>1 DEF BillingInv, CacheTold, NoCache
  <2>3. AskedBefore'
    BY <1>0, <1>9, <2>1 DEF AskedBefore
  <2>4. CacheTold'
    <3>1. cache.lastAttemptAt <= inFlight.at
      <4>1. CASE cache.lastAttemptAt = -1
        BY <1>0, <4>1
      <4>2. CASE cache.lastAttemptAt # -1
        <5>1. \/ inFlight.at - cache.lastAttemptAt >= RetryAge
              \/ inFlight.at - cache.lastAttemptAt >= CacheAge
          BY <2>1, <4>2 DEF BillingInv, CacheTold, Never
        <5> QED
          BY <1>0, <5>1
      <4> QED
        BY <4>1, <4>2
    <3> QED
      BY <1>0, <1>9, <2>1, <2>2, <3>1 DEF CacheTold
  <2> QED
    BY <2>3, <2>4 DEF BillingInv
<1>6. ASSUME ClockMoves PROVE BillingInv'
  <2>1. now' \in Instants /\ now' >= now
    BY <1>0, <1>6 DEF ClockMoves, Instants
  <2> QED
    BY <1>6, <2>1, BillingKept DEF ClockMoves, billing
<1>7. ASSUME Publishes \/ SetTimezone \/ UNCHANGED vars PROVE BillingInv'
  BY <1>0, <1>7, BillingKept DEF Publishes, SetTimezone, vars, billing
<1>8. ASSUME NEW p \in Pods, PodStarts(p) \/ PodStops(p) \/ PodResumes(p) PROVE BillingInv'
  BY <1>0, <1>8, BillingKept DEF PodStarts, PodStops, PodResumes, billing
<1> QED
  BY <1>1, <1>2, <1>3, <1>4, <1>5, <1>6, <1>7, <1>8 DEF Next

(* The inductive invariant behind RequestsAreSpaced. *)
THEOREM BillingInvariant == Spec => []BillingInv
  BY BillingInit, BillingStep, PTL DEF Spec

(* However many readers ask, RunPod's billing is not read again before the *)
(* cache time has passed since a success, nor before the retry time since  *)
(* a failure.                                                              *)
THEOREM RequestsAreSpacedAlways == Spec => RequestsAreSpaced
<1>1. BillingInv /\ BillingInv' /\ [Next]_vars =>
        [inFlight = NoRequest /\ inFlight' # NoRequest /\ cache.lastAttemptAt # Never =>
           inFlight'.at - cache.lastAttemptAt >= IF cache.failed THEN RetryAge ELSE CacheAge]_vars
  <2> SUFFICES ASSUME BillingInv', [Next]_vars, inFlight = NoRequest, inFlight' # NoRequest,
                      cache.lastAttemptAt # Never
               PROVE  inFlight'.at - cache.lastAttemptAt
                        >= IF cache.failed THEN RetryAge ELSE CacheAge
    OBVIOUS
  <2>1. PICK r \in Readers : ReadStale(r)
    BY DEF Next, ReadFresh, ReadOn, BillingAnswers, BillingFails, ClockMoves, Publishes,
       SetTimezone, PodStarts, PodStops, PodResumes, billing, vars
  <2>2. cache' = cache
    BY <2>1 DEF ReadStale
  <2> QED
    BY <2>2 DEF BillingInv, CacheTold
<1> QED
  BY <1>1, BillingInvariant, PTL DEF Spec, RequestsAreSpaced

-----------------------------------------------------------------------------
(* The invariant holds at first.                                           *)

LEMMA RecordsOfNothing ==
  ASSUME NEW zone
  PROVE  Records(0) = {} /\ Kept(0, zone) = {}
<1>1. 0 \div Hour = 0
  BY Hours
<1>2. 0..(0 \div Hour) - 1 = {}
  BY <1>1
<1>3. Records(0) = {}
  BY <1>2 DEF Records
<1> QED  BY <1>3 DEF Kept

LEMMA SpendInit ==
  ASSUME Init
  PROVE  SpendInv
<1> USE SpendAssumption
<1>1. /\ now = 0 /\ used = {} /\ published = 0 /\ timezone \in Zones
      /\ cache = NoCache /\ folded = NoFold /\ inFlight = NoRequest /\ figure = NoFigure
      /\ rows = [p \in Pods |->
                  [startedAt |-> Never, up |-> FALSE, paused |-> FALSE, owned |-> TRUE]]
      /\ reading = [r \in Readers |-> Never]
  BY DEF Init
<1>2. /\ cache.records = {} /\ cache.succeededAt = Never /\ cache.lastAttemptAt = Never
      /\ folded.at = Never /\ folded.key = <<>> /\ inFlight.at = Never /\ inFlight.zone = ""
      /\ figure.today = 0 /\ figure.month = 0
  BY <1>1 DEF NoCache, NoFold, NoRequest, NoFigure
<1>3. 0 \in Instants /\ Never \in Instant /\ 0 \in Instant /\ Never = -1
  BY DEF Instants, Instant, Never
<1>4. TypeOK
  <2>1. rows \in [Pods -> [startedAt : Instant, up : BOOLEAN, paused : BOOLEAN, owned : BOOLEAN]]
    BY <1>1, <1>3
  <2>2. reading \in [Readers -> Instant]
    BY <1>1, <1>3
  <2>3. /\ now \in Instants /\ published \in Instants /\ used = {} /\ timezone \in Zones
        /\ cache.succeededAt \in Instant /\ cache.lastAttemptAt \in Instant
        /\ folded.at \in Instant /\ inFlight.at \in Instant
        /\ figure.today \in Nat /\ figure.month \in Nat
    <3>1. now = 0 /\ published = 0 /\ used = {} /\ timezone \in Zones
      BY <1>1
    <3>2. now \in Instants /\ published \in Instants
      BY <3>1, <1>3
    <3>3. /\ cache.succeededAt \in Instant /\ cache.lastAttemptAt \in Instant
          /\ folded.at \in Instant /\ inFlight.at \in Instant
      BY <1>2, <1>3
    <3>4. figure.today \in Nat /\ figure.month \in Nat
      <4>1. figure.today = 0 /\ figure.month = 0
        BY <1>1 DEF NoFigure
      <4>2. 0 \in Nat
        OBVIOUS
      <4> QED  BY <4>1, <4>2
    <3> QED  BY <3>1, <3>2, <3>3, <3>4
  <2> QED  BY <2>1, <2>2, <2>3 DEF TypeOK
<1>5. BillingInv
  BY BillingInit
<1>6. UsageInv
  BY <1>1, <1>3 DEF UsageInv
<1>7. CacheInv
  <2>1. inFlight \in [at : Instant, zone : Zones \cup {""}]
    BY <1>1, <1>3 DEF NoRequest
  <2>2. cache.records = Kept(0, timezone)
    BY <1>2, RecordsOfNothing
  <2>3. 0 \in 0..now /\ published <= now
    BY <1>1
  <2>4. inFlight = NoRequest /\ timezone \in Zones
    BY <1>1
  <2>5. \E through \in 0..now, zone \in Zones : cache.records = Kept(through, zone)
    BY <2>2, <2>3, <2>4
  <2> QED  BY <2>1, <2>3, <2>4, <2>5 DEF CacheInv
<1>8. FoldInv
  <2>1. /\ folded.at \in -1..now /\ folded.key = <<>> /\ inFlight = NoRequest
        /\ \A r \in Readers : reading[r] = Never
    <3>1. now = 0 /\ inFlight = NoRequest /\ -1 \in -1..0
      BY <1>1
    <3>2. \A r \in Readers : reading[r] = Never
      BY <1>1
    <3> QED  BY <3>1, <3>2, <1>2, <1>3
  <2> QED  BY <2>1 DEF FoldInv
<1> QED  BY <1>4, <1>5, <1>6, <1>7, <1>8 DEF SpendInv

(* Two states with the same usage have the same records. *)
LEMMA KeptAgain ==
  ASSUME UNCHANGED used, cache'.succeededAt = cache.succeededAt, NEW through, NEW zone
  PROVE  Kept(through, zone)' = Kept(through, zone)
BY DEF Kept, Records, Bucket, Units

-----------------------------------------------------------------------------
(* What an answer is made of. *)

LEMMA FoldIs ==
  ASSUME SpendInv, NEW at \in 0..now, folded.at <= at
  PROVE  /\ Fold(at).at \in 0..at /\ Fold(at).key = FoldKey(at)
         /\ LocalDay(Zone, Fold(at).at) = LocalDay(Zone, at)
<1>1. /\ folded.at \in -1..now /\ now \in Nat
      /\ folded.key # <<>> =>
           /\ folded.at # Never
           /\ \E zone \in Zones :
                folded.key = <<cache.succeededAt, zone, LocalDay(Offset[zone], folded.at)>>
  BY SpendAssumption DEF SpendInv, FoldInv, TypeOK, Instants
<1>2. CASE folded.key = FoldKey(at)
  <2>1. Fold(at) = folded
    BY <1>2 DEF Fold
  <2>2. folded.key = <<cache.succeededAt, timezone, LocalDay(Zone, at)>>
    BY <1>2 DEF FoldKey
  <2>3. folded.key # <<>>
    BY <2>2
  <2>4. PICK zone \in Zones :
          folded.key = <<cache.succeededAt, zone, LocalDay(Offset[zone], folded.at)>>
    BY <1>1, <2>3
  <2>5. zone = timezone /\ LocalDay(Offset[zone], folded.at) = LocalDay(Zone, at)
    BY <2>2, <2>4
  <2>6. folded.at \in 0..at
    BY <1>1, <2>3 DEF Never
  <2> QED  BY <1>2, <2>1, <2>5, <2>6 DEF Zone
<1>3. CASE folded.key # FoldKey(at)
  <2>1. Fold(at).at = at /\ Fold(at).key = FoldKey(at)
    BY <1>3 DEF Fold
  <2>2. at \in 0..at
    BY <1>1
  <2> QED  BY <2>1, <2>2
<1> QED  BY <1>2, <1>3

LEMMA LedgerKept ==
  ASSUME SpendInv
  PROVE  \E through \in 0..now, zone \in Zones :
           through \in Nat /\ cache.records = Kept(through, zone) /\ Ledger(cache.records, through)
<1>1. PICK through \in 0..now, zone \in Zones : cache.records = Kept(through, zone)
  BY DEF SpendInv, CacheInv
<1>2. through \in Nat
  BY SpendAssumption DEF SpendInv, TypeOK, Instants
<1> QED  BY <1>1, <1>2, KeptIsLedger

LEMMA LiveTyped ==
  ASSUME SpendInv, NEW at \in Nat, NEW from \in Int,
         NEW zone, NEW month \in Int, NEW read \in Nat,
         NEW bt, bt = RollUp(cache.records, zone, month, read).billedThrough
  PROVE  LiveCost(at, from, bt) \in Nat
<1> DEFINE live == [p \in UpRows |-> Rate[p] * Later(0, at - Seam(p, from, bt))]
<1>1. PICK through \in Nat : Ledger(cache.records, through)
  BY LedgerKept
<1>2. ASSUME NEW p \in UpRows PROVE live[p] \in Nat
  <2>1. p \in Pods /\ p \in Pods \cup Foreign /\ Rate[p] \in Nat
    BY SpendAssumption DEF UpRows
  <2>2. rows[p].startedAt \in Int
    <3>1. now \in Nat
      BY SpendAssumption DEF SpendInv, TypeOK, Instants
    <3> QED  BY <2>1, <3>1 DEF SpendInv, UsageInv
  <2>3. BilledThrough(p, bt) \in Int
    <3>1. \E n \in Nat : BilledThrough(p, bt) = n * Hour
      BY <1>1, <2>1, ThroughIs
    <3> QED  BY <3>1, Hours
  <2>4. Seam(p, from, bt) \in Int
    BY <2>2, <2>3 DEF Seam, Later
  <2>5. Later(0, at - Seam(p, from, bt)) \in Nat
    BY <2>4 DEF Later
  <2> QED  BY <2>1, <2>5
<1>3. LiveCost(at, from, bt) = SumFunction(live) /\ DOMAIN live = UpRows
  BY DEF LiveCost
<1> HIDE DEF live
<1>4. SumFunctionOnSet(live, UpRows) \in Nat
  BY <1>2, EveryoneIsFinite, SumIsNat
<1> QED  BY <1>3, <1>4 DEF SumFunction

LEMMA TotalTyped ==
  ASSUME SpendInv, NEW zone, NEW from \in Int, NEW read \in Nat
  PROVE  RollUp(cache.records, zone, from, read).total \in Nat
<1>1. PICK through \in Nat : Ledger(cache.records, through)
  BY LedgerKept
<1> DEFINE C == Counted(cache.records, from, read)
           v == [p \in Everyone |-> SumFunctionOnSet(Billed(C, from), RecordsOf(C, p))]
<1>2. \A p \in Everyone : v[p] = SumFunctionOnSet(Billed(C, from), RecordsOf(C, p))
  OBVIOUS
<1> HIDE DEF v
<1> QED  BY <1>1, <1>2, TotalByPod

(* The windows of an answer. *)
LEMMA WindowsTyped ==
  ASSUME SpendInv, ZonesTyped, NEW at \in Int
  PROVE  /\ Clock(Zone) /\ LocalDay(Zone, at) \in Int
         /\ StartOfLocalDay(Zone, at) \in Int /\ StartOfLocalMonth(Zone, at) \in Int
<1>1. Clock(Zone)
  BY DEF SpendInv, TypeOK, ZonesTyped, Zone
<1> QED  BY <1>1, StartsTyped

LEMMA AnswerTyped ==
  ASSUME SpendInv, ZonesTyped, NEW at \in 0..now, folded.at <= at, Answer(at)
  PROVE  /\ figure'.today \in Nat /\ figure'.month \in Nat
         /\ folded'.at \in 0..at /\ folded'.key = FoldKey(at)
         /\ LocalDay(Zone, folded'.at) = LocalDay(Zone, at)
<1> DEFINE f == Fold(at)
           bt == MonthOf(f).billedThrough
           day == LiveCost(at, StartOfLocalDay(Zone, at), bt)
           month == LiveCost(at, StartOfLocalMonth(Zone, at), bt)
<1>1. /\ f.at \in 0..at /\ f.key = FoldKey(at) /\ LocalDay(Zone, f.at) = LocalDay(Zone, at)
  BY FoldIs
<1>2. at \in Nat /\ f.at \in Nat
  BY <1>1, SpendAssumption DEF SpendInv, TypeOK, Instants
<1>3. folded' = f
  BY DEF Answer
<1>4. figure'.today = TodayOf(f).total + day /\ figure'.month = MonthOf(f).total + month
  BY DEF Answer
<1> HIDE DEF f
<1>5. TodayOf(f).total \in Nat /\ MonthOf(f).total \in Nat
  <2>1. StartOfLocalDay(Zone, f.at) \in Int /\ StartOfLocalMonth(Zone, f.at) \in Int
    BY <1>2, WindowsTyped
  <2> QED  BY <1>2, <2>1, TotalTyped DEF TodayOf, MonthOf
<1>6. day \in Nat /\ month \in Nat
  <2>1. /\ StartOfLocalMonth(Zone, f.at) \in Int
        /\ StartOfLocalDay(Zone, at) \in Int /\ StartOfLocalMonth(Zone, at) \in Int
    BY <1>2, WindowsTyped
  <2>2. bt = RollUp(cache.records, Zone, StartOfLocalMonth(Zone, f.at), f.at).billedThrough
    BY DEF MonthOf
  <2> HIDE DEF bt
  <2> QED  BY <1>2, <2>1, <2>2, LiveTyped
<1> HIDE DEF day, month
<1> QED  BY <1>1, <1>3, <1>4, <1>5, <1>6

-----------------------------------------------------------------------------
(* Every step keeps the types.                                             *)

LEMMA NoFigureTyped == NoFigure.today = 0 /\ NoFigure.month = 0 /\ NoFigure.at = Never
BY DEF NoFigure

LEMMA InstantsAre ==
  /\ Horizon \in Nat /\ Instants = 0..Horizon /\ Never = -1 /\ Never \in Instant
  /\ \A t \in Instants : t \in Nat /\ t \in Instant
  /\ \A t \in Instants : 0..t \subseteq Instants /\ -1..t \subseteq Instant
<1>1. Horizon \in Nat /\ Instants = 0..Horizon /\ Never = -1 /\ Never \in Instant
  BY SpendAssumption DEF Instants, Instant, Never
<1>2. \A t \in Instants : t \in Nat /\ t \in Instant
  BY <1>1 DEF Instant
<1>3. ASSUME NEW t \in Instants PROVE 0..t \subseteq Instants /\ -1..t \subseteq Instant
  <2>1. 0..t \subseteq Instants
    BY <1>1, <1>2
  <2>2. \A u \in -1..t : u = -1 \/ u \in 0..t
    BY <1>2
  <2> QED  BY <1>1, <2>1, <2>2 DEF Instant
<1> QED  BY <1>1, <1>2, <1>3

(* Who answers, and with which instant. *)
LEMMA Answering ==
  ASSUME SpendInv, NEW r \in Readers, ReadFresh(r) \/ ReadOn(r)
  PROVE  \E at \in 0..now :
           /\ at \in Nat /\ Answer(at) /\ folded.at <= at /\ cache.succeededAt <= at
           /\ \A q \in Readers : reading[q] # Never => at <= reading[q]
           /\ \A q \in Readers : reading'[q] # Never => reading'[q] = reading[q]
           /\ reading' \in [Readers -> -1..now]
           /\ UNCHANGED <<facts, billing>> /\ inFlight = NoRequest
<1>1. /\ now \in Nat /\ folded.at \in -1..now /\ cache.succeededAt \in -1..now
      /\ reading \in [Readers -> -1..now]
  BY InstantsAre DEF SpendInv, TypeOK, FoldInv, BillingInv, AskedBefore, CacheTold
<1>2. CASE ReadFresh(r)
  <2>1. /\ Answer(now) /\ UNCHANGED <<facts, billing>> /\ reading' = reading
    BY <1>2 DEF ReadFresh
  <2>2. inFlight = NoRequest
    BY <1>2 DEF ReadFresh, SpendInv, FoldInv
  <2>3. \A q \in Readers : reading[q] = Never
    BY <1>2, <2>2 DEF ReadFresh, Settled
  <2>4. now \in 0..now /\ folded.at <= now /\ cache.succeededAt <= now
    BY <1>1
  <2> QED  BY <1>1, <2>1, <2>2, <2>3, <2>4
<1>3. CASE ReadOn(r)
  <2>1. /\ reading[r] # Never /\ Answer(reading[r]) /\ UNCHANGED <<facts, billing>>
        /\ inFlight = NoRequest /\ reading' = [reading EXCEPT ![r] = Never]
        /\ \A q \in Readers : reading[q] # Never => reading[r] <= reading[q]
    BY <1>3 DEF ReadOn
  <2>2. reading[r] \in 0..now /\ reading[r] \in Nat
    BY <1>1, <2>1 DEF Never
  <2>3. folded.at <= reading[r] /\ cache.succeededAt <= reading[r]
    BY <2>1 DEF SpendInv, FoldInv
  <2>4. -1 \in -1..now
    BY <1>1
  <2>5. /\ reading' \in [Readers -> -1..now]
        /\ \A q \in Readers : reading'[q] # Never => reading'[q] = reading[q]
    BY <1>1, <2>1, <2>4 DEF Never
  <2> QED  BY <2>1, <2>2, <2>3, <2>5
<1> QED  BY <1>2, <1>3

(* A step that gives no figure and leaves most alone. *)
LEMMA TypeStep ==
  ASSUME SpendInv, ZonesTyped, [Next]_vars
  PROVE  TypeOK'
<1> DEFINE Row == [startedAt : Instant, up : BOOLEAN, paused : BOOLEAN, owned : BOOLEAN]
<1>1. /\ now \in Instants /\ rows \in [Pods -> Row]
      /\ used \subseteq (Pods \cup Foreign) \X Instants \X {"gpu", "disk"}
      /\ published \in Instants /\ timezone \in Zones
      /\ cache.succeededAt \in Instant /\ cache.lastAttemptAt \in Instant
      /\ folded.at \in Instant /\ inFlight.at \in Instant /\ reading \in [Readers -> Instant]
      /\ figure.today \in Nat /\ figure.month \in Nat
  BY DEF SpendInv, TypeOK
<1>2. now \in Nat /\ now \in Instant /\ -1..now \subseteq Instant /\ 0..now \subseteq Instant
  <2>1. 0..now \subseteq -1..now
    BY <1>1, InstantsAre
  <2> QED  BY <1>1, <2>1, InstantsAre
<1>3. NoFigure.today \in Nat /\ NoFigure.month \in Nat /\ NoFold.at = Never /\ NoRequest.at = Never
  BY NoFigureTyped DEF NoFold, NoRequest
<1> HIDE DEF Row
<1>4. ASSUME NEW r \in Readers, ReadFresh(r) \/ ReadOn(r) PROVE TypeOK'
  <2>1. PICK at \in 0..now :
          /\ at \in Nat /\ Answer(at) /\ folded.at <= at
          /\ reading' \in [Readers -> -1..now] /\ UNCHANGED <<facts, billing>>
    BY <1>4, Answering
  <2>2. figure'.today \in Nat /\ figure'.month \in Nat /\ folded'.at \in 0..at
    BY <2>1, AnswerTyped
  <2>3. folded'.at \in Instant
    <3>1. folded'.at \in 0..now
      BY <1>2, <2>2
    <3> QED  BY <1>2, <3>1
  <2>4. reading' \in [Readers -> Instant]
    BY <1>2, <2>1
  <2> QED  BY <1>1, <2>1, <2>2, <2>3, <2>4 DEF TypeOK, facts, billing, Row
<1>5. ASSUME NEW r \in Readers, ReadStale(r) PROVE TypeOK'
  <2>1. /\ reading' = [reading EXCEPT ![r] = now] /\ figure' = NoFigure
        /\ inFlight' = IF inFlight = NoRequest THEN [at |-> now, zone |-> timezone] ELSE inFlight
        /\ UNCHANGED <<facts, cache, folded>>
    BY <1>5 DEF ReadStale
  <2>2. reading' \in [Readers -> Instant] /\ inFlight'.at \in Instant
    BY <1>1, <1>2, <2>1
  <2> QED  BY <1>1, <1>3, <2>1, <2>2 DEF TypeOK, facts, Row
<1>6. ASSUME BillingAnswers PROVE TypeOK'
  <2>1. /\ cache'.succeededAt = inFlight.at /\ cache'.lastAttemptAt = inFlight.at
        /\ folded' = NoFold /\ inFlight' = NoRequest /\ figure' = NoFigure
        /\ UNCHANGED <<facts, reading>>
    BY <1>6 DEF BillingAnswers
  <2> QED  BY <1>1, <1>3, <2>1, InstantsAre DEF TypeOK, facts, Row
<1>7. ASSUME BillingFails PROVE TypeOK'
  <2>1. /\ cache' = [cache EXCEPT !.lastAttemptAt = inFlight.at, !.failed = TRUE]
        /\ inFlight' = NoRequest /\ figure' = NoFigure /\ UNCHANGED <<facts, folded, reading>>
    BY <1>7 DEF BillingFails
  <2>2. DOMAIN cache = DOMAIN NoCache
    BY DEF SpendInv, BillingInv, CacheTold
  <2>3. cache'.lastAttemptAt = inFlight.at /\ cache'.succeededAt = cache.succeededAt
    BY <2>1, <2>2 DEF NoCache
  <2> QED  BY <1>1, <1>3, <2>1, <2>3, InstantsAre DEF TypeOK, facts, Row
<1>8. ASSUME ClockMoves PROVE TypeOK'
  <2>1. /\ now < Horizon /\ now' = now + 1 /\ figure' = NoFigure
        /\ used' = used \cup {<<p, now, "gpu">> : p \in UpRows \cup Foreign}
                        \cup {<<p, now, "disk">> : p \in {q \in Pods : rows[q].paused}}
        /\ UNCHANGED <<rows, published, timezone, billing, folded, reading>>
    BY <1>8 DEF ClockMoves
  <2>2. now' \in Instants
    BY <1>2, <2>1, InstantsAre
  <2>3. used' \subseteq (Pods \cup Foreign) \X Instants \X {"gpu", "disk"}
    BY <1>1, <2>1 DEF UpRows
  <2> QED  BY <1>1, <1>3, <2>1, <2>2, <2>3 DEF TypeOK, billing, Row
<1>9. ASSUME Publishes PROVE TypeOK'
  <2>1. PICK b \in 1..(Horizon \div Hour) :
          published < b * Hour /\ b * Hour <= now /\ published' = b * Hour
    BY <1>9 DEF Publishes
  <2>2. figure' = NoFigure /\ UNCHANGED <<now, rows, used, timezone, billing, folded, reading>>
    BY <1>9 DEF Publishes
  <2>3. published' \in Instants
    <3>1. b \in Int /\ b * Hour \in Int
      BY Hours
    <3>2. published \in Nat
      BY <1>1, InstantsAre
    <3> QED  BY <1>1, <1>2, <2>1, <3>1, <3>2, InstantsAre
  <2> QED  BY <1>1, <1>3, <2>2, <2>3 DEF TypeOK, billing, Row
<1>10. ASSUME SetTimezone PROVE TypeOK'
  <2>1. /\ timezone' \in Zones /\ figure' = NoFigure
        /\ UNCHANGED <<now, rows, used, published, billing, folded, reading>>
    BY <1>10 DEF SetTimezone
  <2> QED  BY <1>1, <1>3, <2>1 DEF TypeOK, billing, Row
<1>11. ASSUME NEW p \in Pods, PodStarts(p) \/ PodStops(p) \/ PodResumes(p) PROVE TypeOK'
  <2>1. figure' = NoFigure /\ UNCHANGED <<now, used, published, timezone, billing, folded, reading>>
    BY <1>11 DEF PodStarts, PodStops, PodResumes
  <2>2. rows' \in [Pods -> Row]
    <3>1. CASE PodStarts(p)
      BY <1>1, <1>2, <3>1 DEF PodStarts, Row
    <3>2. CASE PodStops(p)
      BY <1>1, <3>2, ZenonT(30) DEF PodStops, Row
    <3>3. CASE PodResumes(p)
      BY <1>1, <3>3 DEF PodResumes, Row
    <3> QED  BY <1>11, <3>1, <3>2, <3>3
  <2> QED  BY <1>1, <1>3, <2>1, <2>2 DEF TypeOK, billing, Row
<1>12. ASSUME UNCHANGED vars PROVE TypeOK'
  BY <1>1, <1>12 DEF TypeOK, vars, Row
<1> QED
  BY <1>4, <1>5, <1>6, <1>7, <1>8, <1>9, <1>10, <1>11, <1>12 DEF Next

-----------------------------------------------------------------------------
(* Every step keeps UsageInv.                                              *)

LEMMA UsageStep ==
  ASSUME SpendInv, [Next]_vars
  PROVE  UsageInv'
<1>1. /\ now \in Nat
      /\ used \subseteq (Pods \cup Foreign) \X (0..now - 1) \X {"gpu", "disk"}
      /\ \A p \in Foreign, u \in 0..now - 1 : <<p, u, "disk">> \notin used
      /\ \A p \in Pods :
           /\ rows[p].startedAt \in -1..now
           /\ rows[p].startedAt = Never => ~rows[p].up /\ ~rows[p].paused
           /\ ~(rows[p].up /\ rows[p].paused)
           /\ \A u \in 0..now - 1 :
                /\ ~(<<p, u, "gpu">> \in used /\ <<p, u, "disk">> \in used)
                /\ <<p, u, "gpu">> \in used \/ <<p, u, "disk">> \in used =>
                     rows[p].startedAt # Never /\ rows[p].startedAt <= u
                /\ (rows[p].up \/ rows[p].paused) /\ rows[p].startedAt <= u =>
                     <<p, u, "gpu">> \in used \/ <<p, u, "disk">> \in used
  BY InstantsAre DEF SpendInv, TypeOK, UsageInv
<1>2. ASSUME UNCHANGED <<now, rows, used>> PROVE UsageInv'
  BY <1>1, <1>2 DEF UsageInv
<1>3. ASSUME ClockMoves PROVE UsageInv'
  <2>1. /\ now' = now + 1 /\ UNCHANGED rows
        /\ used' = used \cup {<<p, now, "gpu">> : p \in UpRows \cup Foreign}
                        \cup {<<p, now, "disk">> : p \in {q \in Pods : rows[q].paused}}
    BY <1>3 DEF ClockMoves
  <2>2. ASSUME NEW p, NEW u, NEW what
        PROVE  <<p, u, what>> \in used' <=>
                 \/ <<p, u, what>> \in used
                 \/ u = now /\ what = "gpu" /\ p \in UpRows \cup Foreign
                 \/ u = now /\ what = "disk" /\ p \in Pods /\ rows[p].paused
    BY <2>1
  <2>3. \A p, what : <<p, now, what>> \notin used
    BY <1>1
  <2>4. used' \subseteq (Pods \cup Foreign) \X (0..now' - 1) \X {"gpu", "disk"}
    <3>1. 0..now - 1 \subseteq 0..now' - 1 /\ now \in 0..now' - 1
      BY <1>1, <2>1
    <3> QED  BY <1>1, <2>1, <3>1 DEF UpRows
  <2>5. \A u \in 0..now' - 1 : u \in 0..now - 1 \/ u = now
    BY <1>1, <2>1
  <2>6. ASSUME NEW p \in Foreign, NEW u \in 0..now' - 1 PROVE <<p, u, "disk">> \notin used'
    BY <1>1, <2>2, <2>3, <2>5, SpendAssumption
  <2>7. ASSUME NEW p \in Pods
        PROVE  /\ rows'[p].startedAt \in -1..now'
               /\ rows'[p].startedAt = Never => ~rows'[p].up /\ ~rows'[p].paused
               /\ ~(rows'[p].up /\ rows'[p].paused)
    <3>1. rows'[p] = rows[p] /\ \A t \in -1..now : t \in -1..now'
      BY <1>1, <2>1
    <3> QED  BY <1>1, <3>1
  <2>8. ASSUME NEW p \in Pods, NEW u \in 0..now' - 1
        PROVE  /\ ~(<<p, u, "gpu">> \in used' /\ <<p, u, "disk">> \in used')
               /\ <<p, u, "gpu">> \in used' \/ <<p, u, "disk">> \in used' =>
                    rows'[p].startedAt # Never /\ rows'[p].startedAt <= u
               /\ (rows'[p].up \/ rows'[p].paused) /\ rows'[p].startedAt <= u =>
                    <<p, u, "gpu">> \in used' \/ <<p, u, "disk">> \in used'
    <3>1. rows'[p] = rows[p]
      BY <2>1
    <3>2. CASE u = now
      <4>1. /\ <<p, u, "gpu">> \in used' <=> rows[p].up
            /\ <<p, u, "disk">> \in used' <=> rows[p].paused
        BY <2>2, <2>3, <3>2, SpendAssumption DEF UpRows
      <4>2. rows[p].startedAt <= u
        BY <1>1, <3>2
      <4> QED  BY <1>1, <3>1, <4>1, <4>2
    <3>3. CASE u \in 0..now - 1
      <4>1. u # now
        BY <1>1, <3>3
      <4>2. /\ <<p, u, "gpu">> \in used' <=> <<p, u, "gpu">> \in used
            /\ <<p, u, "disk">> \in used' <=> <<p, u, "disk">> \in used
        BY <2>2, <4>1
      <4> QED  BY <1>1, <3>1, <3>3, <4>2
    <3> QED  BY <2>5, <3>2, <3>3
  <2> QED  BY <2>4, <2>6, <2>7, <2>8 DEF UsageInv
<1>4. ASSUME NEW p \in Pods, PodStarts(p) \/ PodStops(p) \/ PodResumes(p) PROVE UsageInv'
  <2>1. UNCHANGED <<now, used>>
    BY <1>4 DEF PodStarts, PodStops, PodResumes
  <2>2. rows \in [Pods -> [startedAt : Instant, up : BOOLEAN, paused : BOOLEAN, owned : BOOLEAN]]
    BY DEF SpendInv, TypeOK
  <2>3. \A q \in Pods : q # p => rows'[q] = rows[q]
    BY <1>4, <2>2 DEF PodStarts, PodStops, PodResumes
  <2>4. \/ rows[p].startedAt = Never /\ rows'[p].startedAt = now /\ rows'[p].up /\ ~rows'[p].paused
        \/ rows[p].up /\ rows'[p].startedAt = rows[p].startedAt /\ ~rows'[p].up
        \/ rows[p].paused /\ rows'[p].startedAt = rows[p].startedAt /\ rows'[p].up /\ ~rows'[p].paused
    <3>1. CASE PodStarts(p)
      BY <2>2, <3>1 DEF PodStarts
    <3>2. CASE PodStops(p)
      BY <2>2, <3>2 DEF PodStops
    <3>3. CASE PodResumes(p)
      BY <2>2, <3>3 DEF PodResumes
    <3> QED  BY <1>4, <3>1, <3>2, <3>3
  <2>5. now # Never /\ now \in -1..now
    BY <1>1 DEF Never
  <2>6. /\ rows'[p].startedAt \in -1..now
        /\ rows'[p].startedAt = Never => ~rows'[p].up /\ ~rows'[p].paused
        /\ ~(rows'[p].up /\ rows'[p].paused)
    BY <1>1, <2>4, <2>5
  <2>7. ASSUME NEW u \in 0..now - 1
        PROVE  /\ <<p, u, "gpu">> \in used \/ <<p, u, "disk">> \in used =>
                    rows'[p].startedAt # Never /\ rows'[p].startedAt <= u
               /\ (rows'[p].up \/ rows'[p].paused) /\ rows'[p].startedAt <= u =>
                    <<p, u, "gpu">> \in used \/ <<p, u, "disk">> \in used
    <3>1. ~(now <= u)
      BY <1>1
    <3> QED  BY <1>1, <2>4, <3>1
  <2>8. ASSUME NEW q \in Pods
        PROVE  /\ rows'[q].startedAt \in -1..now
               /\ rows'[q].startedAt = Never => ~rows'[q].up /\ ~rows'[q].paused
               /\ ~(rows'[q].up /\ rows'[q].paused)
               /\ \A u \in 0..now - 1 :
                    /\ ~(<<q, u, "gpu">> \in used /\ <<q, u, "disk">> \in used)
                    /\ <<q, u, "gpu">> \in used \/ <<q, u, "disk">> \in used =>
                         rows'[q].startedAt # Never /\ rows'[q].startedAt <= u
                    /\ (rows'[q].up \/ rows'[q].paused) /\ rows'[q].startedAt <= u =>
                         <<q, u, "gpu">> \in used \/ <<q, u, "disk">> \in used
    <3>1. CASE q = p
      BY <1>1, <2>6, <2>7, <3>1
    <3>2. CASE q # p
      BY <1>1, <2>3, <3>2
    <3> QED  BY <3>1, <3>2
  <2> QED  BY <1>1, <2>1, <2>8 DEF UsageInv
<1>5. ASSUME NEW r \in Readers, ReadFresh(r) \/ ReadStale(r) \/ ReadOn(r) PROVE UsageInv'
  BY <1>2, <1>5 DEF ReadFresh, ReadStale, ReadOn, facts
<1>6. ASSUME BillingAnswers \/ BillingFails \/ Publishes \/ SetTimezone \/ UNCHANGED vars
      PROVE  UsageInv'
  BY <1>2, <1>6 DEF BillingAnswers, BillingFails, Publishes, SetTimezone, facts, vars
<1> QED
  BY <1>3, <1>4, <1>5, <1>6 DEF Next

(* The clock adds to the use of the unit that it leaves. *)
LEMMA UnitsKept ==
  ASSUME SpendInv, ClockMoves, NEW p, NEW what, NEW a \in Int, NEW b \in Int, b <= now
  PROVE  Units(p, a, b, what)' = Units(p, a, b, what)
<1>1. \A u \in a..b - 1 : u # now
  BY InstantsAre DEF SpendInv, TypeOK
<1>2. \A u \in a..b - 1 : <<p, u, what>> \in used' <=> <<p, u, what>> \in used
  BY <1>1 DEF ClockMoves
<1>3. {u \in a..b - 1 : <<p, u, what>> \in used'} = {u \in a..b - 1 : <<p, u, what>> \in used}
  BY <1>2
<1> QED  BY <1>3 DEF Units

LEMMA KeptThen ==
  ASSUME SpendInv, ClockMoves, NEW through \in 0..now, NEW zone
  PROVE  Kept(through, zone)' = Kept(through, zone)
<1>0. now \in Nat /\ through \in Nat /\ through <= now
  BY InstantsAre DEF SpendInv, TypeOK
<1> DEFINE S == 0..(through \div Hour) - 1
<1>1. ASSUME NEW p, NEW b \in S
      PROVE  Bucket(p, b * Hour, (b + 1) * Hour)' = Bucket(p, b * Hour, (b + 1) * Hour)
  <2>1. b * Hour \in Int /\ (b + 1) * Hour \in Int /\ (b + 1) * Hour <= now
    <3>1. /\ through \div Hour \in Int /\ b + 1 \in Int /\ b + 1 <= through \div Hour
          /\ (through \div Hour) * Hour <= through /\ (through \div Hour) * Hour \in Int
      <4>1. through \div Hour \in Int /\ (through \div Hour) * Hour <= through
        BY <1>0, Hours, Division
      <4> DEFINE q == through \div Hour
      <4>2. q \in Int /\ b \in 0..q - 1
        BY <4>1
      <4> HIDE DEF q
      <4>3. b + 1 \in Int /\ b + 1 <= q
        BY <4>2
      <4>4. q * Hour \in Int
        BY <4>2, Hours
      <4> QED  BY <4>1, <4>3, <4>4 DEF q
    <3> DEFINE q == through \div Hour
    <3>2. (b + 1) * Hour <= q * Hour
      BY <3>1, BucketOrder
    <3>3. b * Hour \in Int /\ (b + 1) * Hour \in Int
      BY Hours
    <3> HIDE DEF q
    <3> QED  BY <1>0, <3>1, <3>2, <3>3 DEF q
  <2>2. /\ Units(p, b * Hour, (b + 1) * Hour, "gpu")' = Units(p, b * Hour, (b + 1) * Hour, "gpu")
        /\ Units(p, b * Hour, (b + 1) * Hour, "disk")' = Units(p, b * Hour, (b + 1) * Hour, "disk")
    BY <2>1, UnitsKept
  <2> QED  BY <2>2 DEF Bucket
<1>2. {Bucket(p, b * Hour, (b + 1) * Hour) : p \in Pods \cup Foreign, b \in S}'
        = {Bucket(p, b * Hour, (b + 1) * Hour) : p \in Pods \cup Foreign, b \in S}
  BY <1>1
<1>3. Records(through)' = Records(through)
  BY <1>2 DEF Records
<1>4. cache' = cache
  BY DEF ClockMoves, billing
<1> QED  BY <1>3, <1>4 DEF Kept

-----------------------------------------------------------------------------
(* Every step keeps CacheInv and FoldInv.                                  *)

LEMMA CacheStep ==
  ASSUME SpendInv, [Next]_vars
  PROVE  CacheInv'
<1>1. /\ now \in Nat /\ now \in Instant /\ published \in Nat
      /\ timezone \in Zones /\ inFlight \in [at : Instant, zone : Zones \cup {""}]
      /\ inFlight # NoRequest => inFlight.zone \in Zones
      /\ published <= now /\ NoRequest \in [at : Instant, zone : Zones \cup {""}]
  BY InstantsAre DEF SpendInv, TypeOK, CacheInv, NoRequest
<1>2. PICK through \in 0..now, zone \in Zones : cache.records = Kept(through, zone)
  BY DEF SpendInv, CacheInv
<1>13. now \in Nat /\ published \in Nat /\ published <= now /\ published \in 0..now
  <2>1. now \in Nat /\ published \in Nat /\ published <= now
    BY <1>1
  <2> QED  BY <2>1
<1>3. ASSUME UNCHANGED <<now, used, published>>,
             cache'.records = cache.records, cache'.succeededAt = cache.succeededAt
      PROVE  /\ published' <= now'
             /\ \E t \in 0..now', z \in Zones : cache'.records = Kept(t, z)'
  <2>1. Kept(through, zone)' = Kept(through, zone)
    BY <1>3, KeptAgain
  <2> QED  BY <1>1, <1>2, <1>3, <2>1
<1>4. ASSUME UNCHANGED <<now, used, published, cache, inFlight>> PROVE CacheInv'
  <2>1. \E t \in 0..now', z \in Zones : cache'.records = Kept(t, z)'
    BY <1>3, <1>4
  <2> QED  BY <1>1, <1>4, <2>1 DEF CacheInv
<1>5. ASSUME NEW r \in Readers, ReadStale(r) PROVE CacheInv'
  <2>1. /\ UNCHANGED <<now, used, published, cache>>
        /\ inFlight' = IF inFlight = NoRequest THEN [at |-> now, zone |-> timezone] ELSE inFlight
    BY <1>5 DEF ReadStale, facts
  <2>2. /\ inFlight' \in [at : Instant, zone : Zones \cup {""}]
        /\ inFlight' # NoRequest => inFlight'.zone \in Zones
    BY <1>1, <2>1
  <2>3. \E t \in 0..now', z \in Zones : cache'.records = Kept(t, z)'
    BY <1>3, <2>1
  <2> QED  BY <1>1, <2>1, <2>2, <2>3 DEF CacheInv
<1>6. ASSUME BillingAnswers PROVE CacheInv'
  <2> DEFINE horizon == StartOfLocalMonth(Offset[inFlight.zone], inFlight.at) - 2 * Day
  <2>1. /\ inFlight # NoRequest /\ inFlight' = NoRequest /\ UNCHANGED facts
        /\ cache'.records = {rec \in Records(published) : rec.end > horizon}
        /\ cache'.succeededAt = inFlight.at
    BY <1>6 DEF BillingAnswers
  <2>2. UNCHANGED <<now, used, published>>
    BY <2>1 DEF facts
  <2>3. Records(published)' = Records(published)
    BY <2>2 DEF Records, Bucket, Units
  <2>4. ASSUME NEW t, NEW z, t = published, z = inFlight.zone
        PROVE  Kept(t, z)' = {rec \in Records(published) : rec.end > horizon}
    <3>1. Records(t)' = Records(published)
      BY <2>2, <2>4 DEF Records, Bucket, Units
    <3> QED  BY <2>1, <2>4, <3>1 DEF Kept
  <2>5. published \in 0..now' /\ inFlight.zone \in Zones
    <3>1. published \in 0..now'
      BY <1>13, <2>2
    <3> QED  BY <1>1, <2>1, <3>1
  <2>6. \E t \in 0..now', z \in Zones : cache'.records = Kept(t, z)'
    BY <2>1, <2>4, <2>5
  <2> QED  BY <1>1, <2>1, <2>2, <2>6 DEF CacheInv
<1>7. ASSUME BillingFails PROVE CacheInv'
  <2>1. /\ cache' = [cache EXCEPT !.lastAttemptAt = inFlight.at, !.failed = TRUE]
        /\ inFlight' = NoRequest /\ UNCHANGED <<now, used, published>>
    BY <1>7 DEF BillingFails, facts
  <2>2. DOMAIN cache = DOMAIN NoCache
    BY DEF SpendInv, BillingInv, CacheTold
  <2>3. cache'.records = cache.records /\ cache'.succeededAt = cache.succeededAt
    BY <2>1, <2>2 DEF NoCache
  <2>4. \E t \in 0..now', z \in Zones : cache'.records = Kept(t, z)'
    BY <1>3, <2>1, <2>3
  <2> QED  BY <1>1, <2>1, <2>4 DEF CacheInv
<1>8. ASSUME ClockMoves PROVE CacheInv'
  <2>1. now' = now + 1 /\ UNCHANGED <<published, cache, inFlight>>
    BY <1>8 DEF ClockMoves, billing
  <2>2. Kept(through, zone)' = Kept(through, zone)
    BY <1>8, KeptThen
  <2>3. through \in 0..now' /\ published' <= now'
    BY <1>13, <2>1
  <2>4. \E t \in 0..now', z \in Zones : cache'.records = Kept(t, z)'
    BY <1>2, <2>1, <2>2, <2>3
  <2> QED  BY <1>1, <2>1, <2>3, <2>4 DEF CacheInv
<1>9. ASSUME Publishes PROVE CacheInv'
  <2>1. published' <= now /\ UNCHANGED <<now, used, cache, inFlight>>
    BY <1>9 DEF Publishes, billing
  <2>2. Kept(through, zone)' = Kept(through, zone)
    BY <2>1, KeptAgain
  <2>3. \E t \in 0..now', z \in Zones : cache'.records = Kept(t, z)'
    BY <1>2, <2>1, <2>2
  <2> QED  BY <1>1, <2>1, <2>3 DEF CacheInv
<1>10. ASSUME NEW r \in Readers, ReadFresh(r) \/ ReadOn(r) PROVE CacheInv'
  BY <1>4, <1>10 DEF ReadFresh, ReadOn, facts, billing
<1>11. ASSUME SetTimezone \/ UNCHANGED vars PROVE CacheInv'
  BY <1>4, <1>11 DEF SetTimezone, vars, billing
<1>12. ASSUME NEW p \in Pods, PodStarts(p) \/ PodStops(p) \/ PodResumes(p) PROVE CacheInv'
  BY <1>4, <1>12 DEF PodStarts, PodStops, PodResumes, billing
<1> QED
  BY <1>5, <1>6, <1>7, <1>8, <1>9, <1>10, <1>11, <1>12 DEF Next

LEMMA FoldStep ==
  ASSUME SpendInv, ZonesTyped, [Next]_vars
  PROVE  FoldInv'
<1>1. /\ now \in Nat /\ folded.at \in -1..now /\ cache.succeededAt \in -1..now
      /\ reading \in [Readers -> -1..now] /\ inFlight.at \in -1..now /\ timezone \in Zones
      /\ folded.key # <<>> =>
           /\ folded.at # Never
           /\ \E zone \in Zones :
                folded.key = <<cache.succeededAt, zone, LocalDay(Offset[zone], folded.at)>>
      /\ \A r \in Readers : reading[r] # Never =>
           folded.at <= reading[r] /\ cache.succeededAt <= reading[r]
      /\ inFlight # NoRequest => ~Fresh
  BY InstantsAre DEF SpendInv, TypeOK, FoldInv, BillingInv, AskedBefore, CacheTold
<1>2. ASSUME now' \in Nat, now' >= now, UNCHANGED <<cache, folded, reading, inFlight>>
      PROVE  FoldInv'
  <2>1. folded'.at \in -1..now'
    BY <1>1, <1>2
  <2>2. inFlight' # NoRequest => ~Fresh'
    <3> SUFFICES ASSUME inFlight # NoRequest, Fresh' PROVE FALSE
      BY <1>2
    <3>1. ~Fresh
      BY <1>1
    <3>2. cache.lastAttemptAt \in Int /\ CacheAge \in Nat /\ RetryAge \in Nat
      <4>1. cache.lastAttemptAt \in -1..now
        BY DEF SpendInv, BillingInv, CacheTold
      <4> QED  BY <1>1, <4>1, SpendAssumption
    <3> QED  BY <1>1, <1>2, <3>1, <3>2 DEF Fresh
  <2> QED  BY <1>1, <1>2, <2>1, <2>2 DEF FoldInv
<1>3. ASSUME NEW r \in Readers, ReadFresh(r) \/ ReadOn(r) PROVE FoldInv'
  <2>1. PICK at \in 0..now :
           /\ at \in Nat /\ Answer(at) /\ folded.at <= at /\ cache.succeededAt <= at
           /\ \A q \in Readers : reading[q] # Never => at <= reading[q]
           /\ \A q \in Readers : reading'[q] # Never => reading'[q] = reading[q]
           /\ reading' \in [Readers -> -1..now]
           /\ UNCHANGED <<facts, billing>> /\ inFlight = NoRequest
    BY <1>3, Answering
  <2>2. /\ folded'.at \in 0..at /\ folded'.key = FoldKey(at)
        /\ LocalDay(Zone, folded'.at) = LocalDay(Zone, at)
    BY <2>1, AnswerTyped
  <2>3. folded'.at \in -1..now' /\ folded'.at # Never
    BY <1>1, <2>1, <2>2 DEF facts, Never
  <2>4. folded'.key = <<cache'.succeededAt, timezone, LocalDay(Offset[timezone], folded'.at)>>
    BY <2>1, <2>2 DEF FoldKey, Zone, billing
  <2>5. ASSUME NEW q \in Readers, reading'[q] # Never
        PROVE  folded'.at <= reading'[q] /\ cache'.succeededAt <= reading'[q]
    <3>1. reading'[q] = reading[q] /\ reading[q] # Never
      BY <2>1, <2>5
    <3>2. cache' = cache /\ at <= reading[q] /\ reading[q] \in Int
      BY <1>1, <2>1, <3>1 DEF billing
    <3>3. folded'.at <= at /\ folded'.at \in Int
      BY <2>1, <2>2
    <3> QED  BY <1>1, <2>1, <3>1, <3>2, <3>3
  <2>6. inFlight' = NoRequest
    BY <2>1 DEF billing
  <2> QED  BY <1>1, <2>3, <2>4, <2>5, <2>6 DEF FoldInv
<1>4. ASSUME NEW r \in Readers, ReadStale(r) PROVE FoldInv'
  <2>1. /\ ~Fresh /\ reading' = [reading EXCEPT ![r] = now]
        /\ UNCHANGED <<facts, cache, folded>>
    BY <1>4 DEF ReadStale
  <2>2. UNCHANGED now
    BY <2>1 DEF facts
  <2>3. ~Fresh'
    BY <2>1, <2>2 DEF Fresh
  <2>4. ASSUME NEW q \in Readers, reading'[q] # Never
        PROVE  folded'.at <= reading'[q] /\ cache'.succeededAt <= reading'[q]
    <3>1. CASE q = r
      <4>1. reading'[q] = now
        BY <1>1, <2>1, <3>1
      <4> QED  BY <1>1, <2>1, <4>1
    <3>2. CASE q # r
      <4>1. reading'[q] = reading[q]
        BY <1>1, <2>1, <3>2
      <4> QED  BY <1>1, <2>1, <2>4, <4>1
    <3> QED  BY <3>1, <3>2
  <2> QED  BY <1>1, <2>1, <2>2, <2>3, <2>4 DEF FoldInv
<1>5. ASSUME BillingAnswers PROVE FoldInv'
  <2>1. /\ inFlight # NoRequest /\ inFlight' = NoRequest /\ folded' = NoFold
        /\ cache'.succeededAt = inFlight.at /\ UNCHANGED <<now, reading>>
    BY <1>5 DEF BillingAnswers, facts
  <2>2. \A q \in Readers : reading[q] # Never => inFlight.at <= reading[q]
    BY <2>1 DEF SpendInv, BillingInv, AskedBefore
  <2>3. folded'.at = -1 /\ folded'.key = <<>>
    BY <2>1 DEF NoFold, Never
  <2>4. \A q \in Readers : reading[q] # Never => -1 <= reading[q]
    BY <1>1
  <2>5. -1 \in -1..now
    BY <1>1
  <2> QED  BY <1>1, <2>1, <2>2, <2>3, <2>4, <2>5 DEF FoldInv
<1>6. ASSUME BillingFails PROVE FoldInv'
  <2>1. /\ cache' = [cache EXCEPT !.lastAttemptAt = inFlight.at, !.failed = TRUE]
        /\ inFlight' = NoRequest /\ UNCHANGED <<now, folded, reading>>
    BY <1>6 DEF BillingFails, facts
  <2>2. DOMAIN cache = DOMAIN NoCache
    BY DEF SpendInv, BillingInv, CacheTold
  <2>3. cache'.succeededAt = cache.succeededAt
    BY <2>1, <2>2 DEF NoCache
  <2> QED  BY <1>1, <2>1, <2>3 DEF FoldInv
<1>7. ASSUME ClockMoves PROVE FoldInv'
  <2>1. now' = now + 1 /\ UNCHANGED <<cache, folded, reading, inFlight>>
    BY <1>7 DEF ClockMoves, billing
  <2> QED  BY <1>1, <1>2, <2>1
<1>8. ASSUME Publishes \/ SetTimezone \/ UNCHANGED vars PROVE FoldInv'
  <2>1. UNCHANGED <<now, cache, folded, reading, inFlight>>
    BY <1>8 DEF Publishes, SetTimezone, vars, billing
  <2> QED  BY <1>1, <1>2, <2>1
<1>9. ASSUME NEW p \in Pods, PodStarts(p) \/ PodStops(p) \/ PodResumes(p) PROVE FoldInv'
  <2>1. UNCHANGED <<now, cache, folded, reading, inFlight>>
    BY <1>9 DEF PodStarts, PodStops, PodResumes, billing
  <2> QED  BY <1>1, <1>2, <2>1
<1> QED
  BY <1>3, <1>4, <1>5, <1>6, <1>7, <1>8, <1>9 DEF Next

LEMMA SpendStep ==
  ASSUME SpendInv, ZonesTyped, [Next]_vars
  PROVE  SpendInv'
<1>1. BillingInv'
  BY BillingStep DEF SpendInv
<1> QED  BY <1>1, TypeStep, UsageStep, CacheStep, FoldStep DEF SpendInv

(* The inductive invariant behind the figures: what the pods used, the     *)
(* records that are kept, the fold and the readers hang together.          *)
THEOREM SpendInvariant == ZonesTyped => (Spec => []SpendInv)
<1> SUFFICES ASSUME ZonesTyped PROVE Spec => []SpendInv
  OBVIOUS
<1>1. Init => SpendInv
  BY SpendInit
<1>2. SpendInv /\ [Next]_vars => SpendInv'
  BY SpendStep
<1> QED  BY <1>1, <1>2, PTL DEF Spec

-----------------------------------------------------------------------------
(* What is kept covers the month.                                          *)

LEMMA SteadyAreTyped == SteadyClocks => ZonesTyped
BY DEF SteadyClocks, ZonesTyped, Steady

LEMMA KeptIsWhole ==
  ASSUME SpendInv, SteadyClocks, MonthsOverlap,
         NEW through \in 0..now, NEW zone \in Zones, cache.records = Kept(through, zone),
         NEW at \in 0..now, cache.succeededAt <= at,
         NEW from \in Int, StartOfLocalMonth(Zone, at) <= from
  PROVE  Whole(cache.records, through, from)
<1>1. /\ now \in Instants /\ now \in Nat /\ through \in Nat /\ at \in Instants /\ at \in Int
      /\ cache.succeededAt \in Int /\ timezone \in Zones
  <2>1. now \in Instants /\ timezone \in Zones
    BY DEF SpendInv, TypeOK
  <2>2. now \in Nat /\ at \in Instants
    BY <2>1, InstantsAre
  <2>3. cache.succeededAt \in -1..cache.lastAttemptAt /\ cache.lastAttemptAt \in -1..now
    BY DEF SpendInv, BillingInv, CacheTold
  <2> QED  BY <2>1, <2>2, <2>3
<1> SUFFICES ASSUME NEW p \in Pods \cup Foreign, NEW b \in Nat,
                    from < (b + 1) * Hour, (b + 1) * Hour <= through, BucketOf(p, b).amount > 0
             PROVE  BucketOf(p, b) \in cache.records
  BY DEF Whole
<1>2. BucketOf(p, b).end = (b + 1) * Hour /\ (b + 1) * Hour \in Int
  <2>1. b \in Int /\ b + 1 \in Int
    OBVIOUS
  <2> QED  BY <2>1, BucketFields, BucketOrder
<1>3. b \in 0..(through \div Hour) - 1
  <2> DEFINE q == through \div Hour
  <2>1. q \in Int /\ through < q * Hour + Hour
    BY <1>1, Hours, Division
  <2> HIDE DEF q
  <2>2. q * Hour + Hour = (q + 1) * Hour /\ q * Hour \in Int
    BY <2>1, Hours
  <2>3. (b + 1) * Hour < (q + 1) * Hour
    BY <1>1, <1>2, <2>1, <2>2, Hours
  <2>4. b + 1 < q + 1
    <3>1. b + 1 \in Int /\ q + 1 \in Int
      BY <2>1
    <3> QED  BY <2>3, <3>1, BucketOrder
  <2>5. b \in 0..q - 1
    BY <2>1, <2>4
  <2> QED  BY <2>5 DEF q
<1>4. BucketOf(p, b) \in Records(through)
  BY <1>3 DEF Records, BucketOf
<1>5. StartOfLocalMonth(Offset[zone], cache.succeededAt) - 2 * Day < (b + 1) * Hour
  <2> DEFINE s == StartOfLocalMonth(Offset[zone], cache.succeededAt)
             t == StartOfLocalMonth(Offset[zone], at)
             m == StartOfLocalMonth(Zone, at)
  <2>1. Steady(Offset[zone]) /\ Steady(Zone)
    BY <1>1 DEF SteadyClocks, Zone
  <2>2. s \in Int /\ t \in Int /\ m \in Int
    BY <1>1, <2>1, SteadyMonths
  <2>3. s <= t
    BY <1>1, <2>1, DaysInOrder
  <2>4. t - 2 * Day <= m
    BY <1>1 DEF MonthsOverlap, Zone
  <2>5. m <= from
    OBVIOUS
  <2> HIDE DEF s, t, m
  <2>6. s - 2 * Day < (b + 1) * Hour
    BY <1>2, <2>2, <2>3, <2>4, <2>5, Hours
  <2> QED  BY <2>6 DEF s
<1> QED  BY <1>2, <1>4, <1>5 DEF Kept

(* What an answer's figures are, compared with what was spent. *)
LEMMA AnswerFits ==
  ASSUME SpendInv, SteadyClocks, PausedCostsLess,
         NEW at \in 0..now, folded.at <= at, cache.succeededAt <= at,
         NEW f, f = Fold(at), NEW bt, bt = MonthOf(f).billedThrough,
         NEW day, day = StartOfLocalDay(Zone, at), NEW month, month = StartOfLocalMonth(Zone, at)
  PROVE  /\ TodayOf(f).total + LiveCost(at, day, bt)
              <= Cost(Everyone, day, at) + Slack(day) + Pauses(at, day, bt)
         /\ MonthOf(f).total + LiveCost(at, month, bt)
              <= Cost(Everyone, month, at) + Slack(month) + Pauses(at, month, bt)
         /\ MonthsOverlap /\ (\A p \in Pods : rows[p].startedAt # Never => rows[p].up) =>
              /\ TodayOf(f).total + LiveCost(at, day, bt) >= Cost(Pods, day, at) - Slack(day)
              /\ MonthOf(f).total + LiveCost(at, month, bt) >= Cost(Pods, month, at) - Slack(month)
<1>1. /\ now \in Nat /\ timezone \in Zones /\ UsageInv
  BY InstantsAre DEF SpendInv, TypeOK
<1>2. f.at \in 0..at /\ LocalDay(Zone, f.at) = LocalDay(Zone, at)
  BY FoldIs
<1>3. at \in Nat /\ f.at \in Nat /\ f.at <= at /\ at <= now /\ at \in Int /\ f.at \in Int
  BY <1>1, <1>2
<1>4. Steady(Zone)
  BY <1>1 DEF SteadyClocks, Zone
<1>5. StartOfLocalDay(Zone, f.at) = day /\ StartOfLocalMonth(Zone, f.at) = month
  BY <1>2, <1>3, <1>4, SameDay
<1>6. day \in Int /\ day <= at /\ month \in Int /\ month <= day /\ month <= at /\ month <= month
  <2>1. day \in Int /\ day <= at
    BY <1>3, <1>4, SteadyDays
  <2>2. month \in Int /\ month <= day
    BY <1>3, <1>4, SteadyMonths
  <2> QED  BY <1>3, <2>1, <2>2
<1>7. /\ bt = RollUp(cache.records, Zone, month, f.at).billedThrough
      /\ TodayOf(f).total = RollUp(cache.records, Zone, day, f.at).total
      /\ MonthOf(f).total = RollUp(cache.records, Zone, month, f.at).total
  BY <1>5 DEF MonthOf, TodayOf
<1>8. PICK through \in 0..now, zone \in Zones :
        through \in Nat /\ cache.records = Kept(through, zone) /\ Ledger(cache.records, through)
  BY LedgerKept
<1>9. \A p \in Everyone : DiskRate <= Rate[p]
  BY DEF PausedCostsLess
<1>10. ASSUME NEW from \in Int, month <= from, from <= at,
              NEW total, total = RollUp(cache.records, Zone, from, f.at).total
       PROVE  /\ total + LiveCost(at, from, bt)
                   <= Cost(Everyone, from, at) + Slack(from) + Pauses(at, from, bt)
              /\ MonthsOverlap /\ (\A p \in Pods : rows[p].startedAt # Never => rows[p].up) =>
                   total + LiveCost(at, from, bt) >= Cost(Pods, from, at) - Slack(from)
  <2>1. /\ total \in Nat /\ LiveCost(at, from, bt) \in Nat
        /\ Cost(Pods, from, at) \in Nat /\ Slack(from) \in Nat
        /\ total + LiveCost(at, from, bt)
             <= Cost(Everyone, from, at) + Slack(from) + Pauses(at, from, bt)
        /\ Whole(cache.records, through, from)
             /\ (\A p \in Pods : rows[p].startedAt # Never => rows[p].up) =>
             Cost(Pods, from, at) <= total + Slack(from) + LiveCost(at, from, bt)
    BY <1>1, <1>3, <1>6, <1>7, <1>8, <1>9, <1>10, WindowFigure
  <2>2. MonthsOverlap => Whole(cache.records, through, from)
    BY <1>8, <1>10, KeptIsWhole
  <2> QED  BY <2>1, <2>2
<1> QED
  BY <1>6, <1>7, <1>10

-----------------------------------------------------------------------------
(* The figures.                                                            *)

(* A step gives an answer, no figure, or nothing at all. *)
LEMMA FigureGiven ==
  ASSUME SpendInv, [Next]_vars
  PROVE  \/ figure' = NoFigure
         \/ UNCHANGED vars
         \/ \E at \in 0..now :
              /\ at \in Nat /\ Answer(at) /\ folded.at <= at /\ cache.succeededAt <= at
              /\ UNCHANGED <<facts, billing>>
<1>1. ASSUME NEW r \in Readers, ReadFresh(r) \/ ReadOn(r)
      PROVE  \E at \in 0..now :
               /\ at \in Nat /\ Answer(at) /\ folded.at <= at /\ cache.succeededAt <= at
               /\ UNCHANGED <<facts, billing>>
  BY <1>1, Answering
<1>2. ASSUME NEW r \in Readers, ReadStale(r) PROVE figure' = NoFigure
  BY <1>2 DEF ReadStale
<1>3. ASSUME BillingAnswers \/ BillingFails \/ ClockMoves \/ Publishes \/ SetTimezone
      PROVE  figure' = NoFigure
  BY <1>3 DEF BillingAnswers, BillingFails, ClockMoves, Publishes, SetTimezone
<1>4. ASSUME NEW p \in Pods, PodStarts(p) \/ PodStops(p) \/ PodResumes(p)
      PROVE  figure' = NoFigure
  BY <1>4 DEF PodStarts, PodStops, PodResumes
<1> QED  BY <1>1, <1>2, <1>3, <1>4 DEF Next

LEMMA NeverInflatedStep ==
  ASSUME SpendInv, SteadyClocks, PausedCostsLess, NeverInflated, [Next]_vars
  PROVE  NeverInflated'
<1>1. ASSUME figure' = NoFigure PROVE NeverInflated'
  BY <1>1, NoFigureTyped DEF NeverInflated, Answered
<1>2. ASSUME UNCHANGED vars PROVE NeverInflated'
  BY <1>2 DEF vars, NeverInflated, Answered, Cost, PodCost, Units, Slack, UnbilledPauses,
     MonthOf, BilledThrough, UpRows, MonthStart, DayStart, Zone
<1>3. ASSUME NEW at \in 0..now, at \in Nat, Answer(at), folded.at <= at,
             cache.succeededAt <= at, UNCHANGED <<facts, billing>>
      PROVE  NeverInflated'
  <2> DEFINE f == Fold(at)
             bt == MonthOf(f).billedThrough
             day == StartOfLocalDay(Zone, at)
             month == StartOfLocalMonth(Zone, at)
  <2>1. /\ figure'.at = at /\ folded' = f
        /\ figure'.today = TodayOf(f).total + LiveCost(at, day, bt)
        /\ figure'.month = MonthOf(f).total + LiveCost(at, month, bt)
    BY <1>3 DEF Answer
  <2>2. /\ TodayOf(f).total + LiveCost(at, day, bt)
             <= Cost(Everyone, day, at) + Slack(day) + Pauses(at, day, bt)
        /\ MonthOf(f).total + LiveCost(at, month, bt)
             <= Cost(Everyone, month, at) + Slack(month) + Pauses(at, month, bt)
    BY <1>3, AnswerFits
  <2>3. UNCHANGED <<now, rows, used, timezone, cache>>
    BY <1>3 DEF facts, billing
  <2>4. /\ MonthStart(figure.at)' = month /\ DayStart(figure.at)' = day
        /\ MonthOf(folded)'.billedThrough = bt
    BY <2>1, <2>3 DEF MonthStart, DayStart, Zone, MonthOf
  <2>5. ASSUME NEW from
        PROVE  /\ Cost(Pods \cup Foreign, from, figure.at)' = Cost(Everyone, from, at)
               /\ UnbilledPauses(from)' = Pauses(at, from, bt)
    <3>1. Cost(Pods \cup Foreign, from, figure.at)' = Cost(Everyone, from, at)
      BY <2>1, <2>3 DEF Cost, PodCost, Units, Everyone
    <3>2. UnbilledPauses(from)' = Pauses(at, from, bt)
      BY <2>1, <2>3, <2>4 DEF UnbilledPauses, Pauses, UpRows, Units, BilledThrough
    <3> QED  BY <3>1, <3>2
  <2> QED  BY <2>1, <2>2, <2>4, <2>5 DEF NeverInflated
<1> QED  BY <1>1, <1>2, <1>3, FigureGiven

LEMMA CoversStep ==
  ASSUME SpendInv, SteadyClocks, PausedCostsLess, MonthsOverlap, CoversWhatIsUp, [Next]_vars
  PROVE  CoversWhatIsUp'
<1>1. ASSUME figure' = NoFigure PROVE CoversWhatIsUp'
  BY <1>1, NoFigureTyped DEF CoversWhatIsUp, Answered
<1>2. ASSUME UNCHANGED vars PROVE CoversWhatIsUp'
  BY <1>2 DEF vars, CoversWhatIsUp, Answered, Cost, PodCost, Units, Slack, MonthStart, DayStart,
     Zone
<1>3. ASSUME NEW at \in 0..now, at \in Nat, Answer(at), folded.at <= at,
             cache.succeededAt <= at, UNCHANGED <<facts, billing>>
      PROVE  CoversWhatIsUp'
  <2> DEFINE f == Fold(at)
             bt == MonthOf(f).billedThrough
             day == StartOfLocalDay(Zone, at)
             month == StartOfLocalMonth(Zone, at)
  <2>1. /\ figure'.at = at
        /\ figure'.today = TodayOf(f).total + LiveCost(at, day, bt)
        /\ figure'.month = MonthOf(f).total + LiveCost(at, month, bt)
    BY <1>3 DEF Answer
  <2>2. (\A p \in Pods : rows[p].startedAt # Never => rows[p].up) =>
          /\ TodayOf(f).total + LiveCost(at, day, bt) >= Cost(Pods, day, at) - Slack(day)
          /\ MonthOf(f).total + LiveCost(at, month, bt) >= Cost(Pods, month, at) - Slack(month)
    BY <1>3, AnswerFits
  <2>3. UNCHANGED <<now, rows, used, timezone, cache>>
    BY <1>3 DEF facts, billing
  <2>4. /\ MonthStart(figure.at)' = month /\ DayStart(figure.at)' = day
    BY <2>1, <2>3 DEF MonthStart, DayStart, Zone
  <2>5. ASSUME NEW from
        PROVE  Cost(Pods, from, figure.at)' = Cost(Pods, from, at)
    BY <2>1, <2>3 DEF Cost, PodCost, Units
  <2> QED  BY <2>1, <2>2, <2>3, <2>4, <2>5 DEF CoversWhatIsUp
<1> QED  BY <1>1, <1>2, <1>3, FigureGiven

(* The figures are never negative and every field keeps its type, though a *)
(* pod may start while the request is on its way.                          *)
THEOREM SpendTypeCorrect == ZonesTyped => (Spec => []TypeOK)
<1> SUFFICES ASSUME ZonesTyped PROVE Spec => []TypeOK
  OBVIOUS
<1>1. Spec => []SpendInv
  BY SpendInvariant
<1>2. SpendInv => TypeOK
  BY DEF SpendInv
<1> QED  BY <1>1, <1>2, PTL

(* No answer is more than what has been spent, whatever the billing lacks, *)
(* however many readers ask and whenever the setting changes: neither the  *)
(* month's limit nor the day's fires early, but for a bucket that the      *)
(* window's start cuts and for a resumed pod's pause that is not billed.   *)
THEOREM NeverInflatedAlways ==
  SteadyClocks /\ PausedCostsLess => (Spec => []NeverInflated)
<1> SUFFICES ASSUME SteadyClocks, PausedCostsLess PROVE Spec => []NeverInflated
  OBVIOUS
<1>1. Spec => []SpendInv
  BY SpendInvariant, SteadyAreTyped
<1>2. Init => NeverInflated
  BY NoFigureTyped DEF Init, NeverInflated, Answered
<1>3. SpendInv /\ NeverInflated /\ [Next]_vars => NeverInflated'
  BY NeverInflatedStep
<1> QED  BY <1>1, <1>2, <1>3, PTL DEF Spec

(* While no pod of ours has stopped, no answer is less than what they have *)
(* cost, through outages of the billing, midnights and changes of the      *)
(* setting, as long as no zone's month begins while another's is old.      *)
THEOREM CoversWhatIsUpAlways ==
  SteadyClocks /\ PausedCostsLess /\ MonthsOverlap => (Spec => []CoversWhatIsUp)
<1> SUFFICES ASSUME SteadyClocks, PausedCostsLess, MonthsOverlap
             PROVE  Spec => []CoversWhatIsUp
  OBVIOUS
<1>1. Spec => []SpendInv
  BY SpendInvariant, SteadyAreTyped
<1>2. Init => CoversWhatIsUp
  BY NoFigureTyped DEF Init, CoversWhatIsUp, Answered
<1>3. SpendInv /\ CoversWhatIsUp /\ [Next]_vars => CoversWhatIsUp'
  BY CoversStep
<1> QED  BY <1>1, <1>2, <1>3, PTL DEF Spec

-----------------------------------------------------------------------------
(* Records cut at the midnights. *)

LEMMA MinOfTwo ==
  ASSUME NEW a \in Int, NEW b \in Int
  PROVE  Min({a, b}) = IF a <= b THEN a ELSE b
<1>1. \E x \in {a, b} : \A y \in {a, b} : x <= y
  OBVIOUS
<1>2. Min({a, b}) \in {a, b} /\ \A y \in {a, b} : Min({a, b}) <= y
  BY <1>1 DEF Min
<1> QED  BY <1>2

LEMMA SliceEndIs ==
  ASSUME NEW zone, Steady(zone), NEW c \in Int, NEW to \in Int, c < to
  PROVE  SliceEnd(zone, c, to) \in c + 1..to
<1> DEFINE midnight == StartOfLocalDay(zone, c + Day)
<1>1. c + Day \in Int
  BY Hours
<1>2. midnight \in Int /\ c + Day < midnight + Day
  BY <1>1, SteadyDays
<1> HIDE DEF midnight
<1>3. midnight > c
  BY <1>2, Hours
<1>4. SliceEnd(zone, c, to) = Min({midnight, to})
  BY <1>3 DEF SliceEnd, midnight
<1> QED  BY <1>2, <1>3, <1>4, MinOfTwo

SliceAt(zone, c, to) ==
  [day |-> LocalDay(zone, c), from |-> c, to |-> SliceEnd(zone, c, to)]

(* What the recursion of localDaySlices says of the slices f[c] from c on. *)
Cut(zone, from, to, f) ==
  [c \in from..to |->
     IF c >= to THEN {} ELSE {SliceAt(zone, c, to)} \cup f[SliceEnd(zone, c, to)]]

LEMMA CutExists ==
  ASSUME NEW zone, Steady(zone), NEW from \in Int, NEW to \in Int, from <= to
  PROVE  \E f : f = Cut(zone, from, to, f)
<1> DEFINE G == {n \in Nat : \E f : f = Cut(zone, to - n, to, f)}
<1>1. 0 \in G
  <2> DEFINE f == [c \in to - 0..to |-> {}]
  <2>1. \A c \in to - 0..to : c >= to
    OBVIOUS
  <2>2. f = Cut(zone, to - 0, to, f)
    BY <2>1 DEF Cut
  <2> HIDE DEF f
  <2> QED  BY <2>2
<1>2. ASSUME NEW n \in Nat, n \in G PROVE n + 1 \in G
  <2>1. PICK g : g = Cut(zone, to - n, to, g)
    BY <1>2
  <2> DEFINE b == to - (n + 1)
             f == [c \in b..to |->
                     IF c = b THEN {SliceAt(zone, c, to)} \cup g[SliceEnd(zone, c, to)] ELSE g[c]]
  <2>2. b \in Int /\ b < to /\ to - n = b + 1
    OBVIOUS
  <2> HIDE DEF b
  <2>3. ASSUME NEW c \in b..to
        PROVE  f[c] = IF c >= to THEN {}
                        ELSE {SliceAt(zone, c, to)} \cup f[SliceEnd(zone, c, to)]
    <3> DEFINE e == SliceEnd(zone, c, to)
    <3>1. c < to => e \in c + 1..to /\ e \in b..to /\ e # b
      <4> SUFFICES ASSUME c < to PROVE e \in c + 1..to /\ e \in b..to /\ e # b
        OBVIOUS
      <4>1. e \in c + 1..to
        BY <2>2, SliceEndIs
      <4> HIDE DEF e
      <4> QED  BY <2>2, <4>1
    <3> HIDE DEF e
    <3>2. c < to => f[e] = g[e]
      BY <3>1
    <3>3. CASE c = b
      <4>1. f[c] = {SliceAt(zone, c, to)} \cup g[e] /\ c < to
        BY <2>2, <3>3 DEF e
      <4> HIDE DEF f
      <4> QED  BY <2>2, <3>2, <4>1 DEF e
    <3>4. CASE c # b
      <4>1. c \in to - n..to
        BY <2>2, <3>4
      <4>2. f[c] = g[c]
        BY <3>4
      <4>3. g[c] = IF c >= to THEN {} ELSE {SliceAt(zone, c, to)} \cup g[e]
        BY <2>1, <4>1 DEF Cut, e
      <4> HIDE DEF f
      <4> QED  BY <2>2, <3>2, <4>2, <4>3 DEF e
    <3> QED  BY <3>3, <3>4
  <2>4. f = Cut(zone, b, to, f)
    <3>1. f = [c \in b..to |-> f[c]]
      OBVIOUS
    <3> HIDE DEF f
    <3> QED  BY <2>3, <3>1 DEF Cut
  <2> HIDE DEF f
  <2> QED  BY <2>4 DEF b
<1>3. \A n \in Nat : n \in G
  <2> HIDE DEF G
  <2> QED  BY <1>1, <1>2, CountingUp
<1>4. to - from \in Nat /\ to - (to - from) = from
  OBVIOUS
<1>5. to - from \in G
  <2> HIDE DEF G
  <2> QED  BY <1>3, <1>4
<1>6. \E f : f = Cut(zone, to - (to - from), to, f)
  BY <1>5
<1> QED  BY <1>4, <1>6

(* The slices of a record, each with the record. *)
Tagged(r, slices) == {[rec |-> r, slice |-> s] : s \in slices}

LEMMA TaggedFinite ==
  ASSUME NEW r, NEW S, IsFiniteSet(S)
  PROVE  IsFiniteSet(Tagged(r, S))
<1> DEFINE f == [s \in S |-> [rec |-> r, slice |-> s]]
<1>1. IsFiniteSet(DOMAIN f)
  OBVIOUS
<1>2. Tagged(r, S) = {f[s] : s \in DOMAIN f}
  BY DEF Tagged
<1> HIDE DEF f
<1> QED  BY <1>1, <1>2, ImageIsFinite

Weighs(w, X, k) == \A x \in X : w[x] = k * (x.slice.to - x.slice.from)

Laid(slices, zone, from, to) ==
  \A s \in slices : /\ s.from \in Int /\ s.to \in Int /\ from <= s.from
                    /\ s.from < s.to /\ s.to <= to /\ s.day = LocalDay(zone, s.from)

(* The slices lie between the ends, and add up to what is between them. *)
LEMMA CutSums ==
  ASSUME NEW zone, Steady(zone), NEW from \in Int, NEW to \in Int,
         NEW f, f = Cut(zone, from, to, f),
         NEW r, NEW k \in Nat, NEW w, from <= to, NEW S, S = f[from],
         NEW all, all = k * (to - from)
  PROVE  /\ IsFiniteSet(S) /\ Laid(S, zone, from, to)
         /\ Weighs(w, Tagged(r, S), k) => SumFunctionOnSet(w, Tagged(r, S)) = all
<1> DEFINE P(b) ==
             /\ IsFiniteSet(f[b])
             /\ \A s \in f[b] : /\ s.from \in Int /\ s.to \in Int /\ b <= s.from
                                /\ s.from < s.to /\ s.to <= to /\ s.day = LocalDay(zone, s.from)
             /\ Weighs(w, Tagged(r, f[b]), k) => SumFunctionOnSet(w, Tagged(r, f[b])) = k * (to - b)
           G == {n \in Nat : \A b \in from..to : to - b <= n => P(b)}
<1>1. ASSUME NEW b \in from..to, b >= to PROVE P(b)
  <2>1. f[b] = {} /\ b = to
    BY <1>1 DEF Cut
  <2>2. Tagged(r, {}) = {}
    BY DEF Tagged
  <2>3. SumFunctionOnSet(w, Tagged(r, f[b])) = 0
    BY <2>1, <2>2, SumEmpty
  <2>4. k * (to - b) = 0
    BY <2>1
  <2> QED  BY <2>1, <2>3, <2>4, FS_EmptySet
<1>2. 0 \in G
  <2>1. \A b \in from..to : to - b <= 0 => b >= to
    OBVIOUS
  <2> HIDE DEF P
  <2> QED  BY <1>1, <2>1
<1>3. ASSUME NEW n \in Nat, n \in G PROVE n + 1 \in G
  <2> SUFFICES ASSUME NEW b \in from..to, to - b <= n + 1, b < to PROVE P(b)
    <3> HIDE DEF P
    <3> QED  BY <1>1
  <2> DEFINE e == SliceEnd(zone, b, to)
             a == SliceAt(zone, b, to)
             x == [rec |-> r, slice |-> a]
             rest == Tagged(r, f[e])
  <2>1. e \in b + 1..to
    BY SliceEndIs
  <2>2. f[b] = {a} \cup f[e]
    <3>1. f[b] = IF b >= to THEN {} ELSE {SliceAt(zone, b, to)} \cup f[SliceEnd(zone, b, to)]
      BY DEF Cut
    <3> QED  BY <3>1
  <2>3. a.from = b /\ a.to = e /\ a.day = LocalDay(zone, b)
    BY DEF SliceAt
  <2> HIDE DEF e, a
  <2>4. e \in from..to /\ to - e <= n /\ e \in Int /\ b \in Int /\ b < e /\ e <= to
    BY <2>1
  <2>5. P(e)
    BY <1>3, <2>4
  <2>6. IsFiniteSet(f[b])
    BY <2>2, <2>5, FS_AddElement
  <2>7. \A s \in f[b] : /\ s.from \in Int /\ s.to \in Int /\ b <= s.from
                        /\ s.from < s.to /\ s.to <= to /\ s.day = LocalDay(zone, s.from)
    <3> SUFFICES ASSUME NEW s \in f[b]
                 PROVE  /\ s.from \in Int /\ s.to \in Int /\ b <= s.from
                        /\ s.from < s.to /\ s.to <= to /\ s.day = LocalDay(zone, s.from)
      OBVIOUS
    <3>1. CASE s = a
      BY <2>3, <2>4, <3>1
    <3>2. CASE s \in f[e]
      <4>1. /\ s.from \in Int /\ s.to \in Int /\ e <= s.from
            /\ s.from < s.to /\ s.to <= to /\ s.day = LocalDay(zone, s.from)
        BY <2>5, <3>2
      <4> QED  BY <2>4, <4>1
    <3> QED  BY <2>2, <3>1, <3>2
  <2>8. ASSUME Weighs(w, Tagged(r, f[b]), k)
        PROVE  SumFunctionOnSet(w, Tagged(r, f[b])) = k * (to - b)
    <3>1. Tagged(r, f[b]) = rest \cup {x}
      BY <2>2 DEF Tagged
    <3>2. x \notin rest
      <4> SUFFICES ASSUME NEW s \in f[e], x = [rec |-> r, slice |-> s] PROVE FALSE
        BY DEF Tagged
      <4>1. s = a
        OBVIOUS
      <4>2. e <= s.from /\ s.from \in Int
        BY <2>5
      <4> QED  BY <2>3, <2>4, <4>1, <4>2
    <3>3. x.slice = a
      OBVIOUS
    <3>4. /\ Weighs(w, rest, k) /\ x \in Tagged(r, f[b])
          /\ \A y \in rest : w[y] = k * (y.slice.to - y.slice.from)
      <4> HIDE DEF x, rest
      <4> QED  BY <2>8, <3>1 DEF Weighs
    <3>5. w[x] = k * (e - b)
      BY <2>3, <2>8, <3>3, <3>4 DEF Weighs
    <3>6. \A y \in rest : w[y] \in Nat
      <4> SUFFICES ASSUME NEW s \in f[e] PROVE w[[rec |-> r, slice |-> s]] \in Nat
        BY DEF Tagged
      <4> DEFINE y == [rec |-> r, slice |-> s]
      <4>1. y \in rest /\ y.slice = s
        BY DEF Tagged
      <4>2. w[y] = k * (s.to - s.from)
        BY <3>4, <4>1 DEF Weighs
      <4>3. s.to - s.from \in Nat
        <5>1. s.to \in Int /\ s.from \in Int /\ s.from < s.to
          BY <2>5
        <5> QED  BY <5>1
      <4> QED  BY <4>2, <4>3
    <3>7. SumFunctionOnSet(w, rest) = k * (to - e)
      BY <2>5, <3>4
    <3>8. IsFiniteSet(rest)
      BY <2>5, TaggedFinite
    <3>9. k * (e - b) \in Nat /\ k * (to - e) + k * (e - b) = k * (to - b)
      <4> DEFINE d == e - b
                 g == to - e
      <4>1. d \in Nat /\ g \in Nat /\ to - b = g + d
        BY <2>4
      <4> HIDE DEF d, g
      <4>2. k * d \in Nat /\ k * g \in Nat /\ k * (g + d) = k * g + k * d
        BY <4>1
      <4> QED  BY <4>1, <4>2 DEF d, g
    <3> HIDE DEF x, rest
    <3>10. \A y \in rest \cup {x} : w[y] \in Nat
      BY <3>5, <3>6, <3>9
    <3>11. SumFunctionOnSet(w, rest \cup {x}) = w[x] + SumFunctionOnSet(w, rest)
      BY <3>2, <3>8, <3>10, SumAdd
    <3>12. k * (to - e) \in Int
      BY <2>4
    <3> QED  BY <3>1, <3>5, <3>7, <3>9, <3>11, <3>12
  <2> QED  BY <2>6, <2>7, <2>8
<1>4. \A n \in Nat : n \in G
  <2> HIDE DEF G
  <2> QED  BY <1>2, <1>3, CountingUp
<1>5. to - from \in Nat /\ from \in from..to
  OBVIOUS
<1>6. to - from \in G
  <2> HIDE DEF G
  <2> QED  BY <1>4, <1>5
<1>7. P(from)
  <2> HIDE DEF P
  <2> QED  BY <1>5, <1>6
<1> QED  BY <1>7 DEF Laid

-----------------------------------------------------------------------------
(* What the slices of the records add up to.                               *)

LEMMA SlicesAre ==
  ASSUME NEW zone, Steady(zone), NEW from \in Int, NEW to \in Int, from <= to,
         NEW S, S = LocalDaySlices(zone, from, to), NEW r
  PROVE  /\ IsFiniteSet(S) /\ Laid(S, zone, from, to)
         /\ \A k \in Nat : \A w :
              Weighs(w, Tagged(r, S), k) => SumFunctionOnSet(w, Tagged(r, S)) = k * (to - from)
<1> DEFINE f == CHOOSE g : g = Cut(zone, from, to, g)
<1>1. f = Cut(zone, from, to, f)
  BY CutExists
<1>2. S = f[from]
  BY DEF LocalDaySlices, Cut, SliceAt
<1> HIDE DEF f
<1>3. ASSUME NEW k \in Nat, NEW w
      PROVE  /\ IsFiniteSet(S) /\ Laid(S, zone, from, to)
             /\ Weighs(w, Tagged(r, S), k) => SumFunctionOnSet(w, Tagged(r, S)) = k * (to - from)
  <2> DEFINE all == k * (to - from)
  <2>1. all = k * (to - from)
    OBVIOUS
  <2> HIDE DEF all
  <2>2. /\ IsFiniteSet(S) /\ Laid(S, zone, from, to)
        /\ Weighs(w, Tagged(r, S), k) => SumFunctionOnSet(w, Tagged(r, S)) = all
    BY <1>1, <1>2, <2>1, CutSums
  <2> QED  BY <2>1, <2>2
<1>4. IsFiniteSet(S) /\ Laid(S, zone, from, to)
  <2>1. 0 \in Nat
    OBVIOUS
  <2> QED  BY <1>3, <2>1
<1> QED  BY <1>3, <1>4

-----------------------------------------------------------------------------
(* Amounts of which every unit's part is whole.                            *)

LEMMA PartWhole ==
  ASSUME NEW k \in Nat, NEW u \in Nat, NEW d \in Nat \ {0}
  PROVE  ((k * d) * u) \div d = k * u
<1> DEFINE q == k * u
           a == (k * d) * u
<1>1. q \in Int /\ a \in Int /\ a = q * d
  OBVIOUS
<1> HIDE DEF q, a
<1>2. q * d <= a /\ a < q * d + d
  BY <1>1
<1>3. a \div d = q
  BY <1>1, <1>2, Quotient
<1> QED  BY <1>3 DEF q, a

LEMMA AmountIsWhole ==
  ASSUME WholeShares, NEW p \in Pods \cup Foreign, NEW b \in Int, NEW r, r = BucketOf(p, b)
  PROVE  \E k \in Nat : r.amount = k * Hour
<1> DEFINE g == Units(p, r.start, r.end, "gpu")
           d == Units(p, r.start, r.end, "disk")
           x == Rate[p] \div Hour
           y == DiskRate \div Hour
<1>1. /\ r.amount = r.gpu + r.disk /\ r.gpu = Rate[p] * g /\ r.disk = DiskRate * d
      /\ r.start \in Int /\ r.end \in Int
  BY BucketFields
<1>2. g \in Nat /\ d \in Nat
  BY <1>1, UsedFinite
<1>3. /\ Rate[p] \in Nat /\ DiskRate \in Nat /\ Rate[p] % Hour = 0 /\ DiskRate % Hour = 0
      /\ Hour \in Nat \ {0}
  BY SpendAssumption, Hours DEF WholeShares, Everyone
<1>4. x \in Nat /\ y \in Nat /\ Rate[p] = x * Hour /\ DiskRate = y * Hour
  <2>1. \A n \in Nat : n % Hour = 0 => n \div Hour \in Int /\ n = (n \div Hour) * Hour + 0
    <3> SUFFICES ASSUME NEW n \in Nat, n % Hour = 0
                 PROVE  n \div Hour \in Int /\ n = (n \div Hour) * Hour + 0
      OBVIOUS
    <3>1. n \in Int
      OBVIOUS
    <3>2. n \div Hour \in Int /\ n = (n \div Hour) * Hour + (n % Hour)
      BY <1>3, <3>1, Division
    <3> QED  BY <3>2
  <2>3. /\ x \in Int /\ Rate[p] = x * Hour + 0
        /\ y \in Int /\ DiskRate = y * Hour + 0
    BY <1>3, <2>1
  <2> HIDE DEF x, y
  <2>2. x >= 0 /\ y >= 0
    BY <1>3, <2>3
  <2> QED  BY <1>3, <2>2, <2>3
<1> HIDE DEF g, d, x, y
<1>5. (x * Hour) * g + (y * Hour) * d = (x * g + y * d) * Hour /\ x * g + y * d \in Nat
  BY <1>2, <1>3, <1>4
<1> QED  BY <1>1, <1>4, <1>5

SlicesWith(X, r) == {x \in X : x.rec = r}

LEMMA SumByRecord ==
  ASSUME NEW X, IsFiniteSet(X), NEW w, \A x \in X : w[x] \in Nat,
         NEW C, IsFiniteSet(C), \A x \in X : x.rec \in C,
         NEW v, \A r \in C : v[r] = SumFunctionOnSet(w, SlicesWith(X, r))
  PROVE  SumFunctionOnSet(v, C) = SumFunctionOnSet(w, X)
<1> DEFINE k == [x \in X |-> x.rec]
<1>1. \A x \in X : k[x] \in C
  OBVIOUS
<1>2. \A r \in C : SlicesWith(X, r) = Keyed(X, k, r)
  BY DEF Keyed, SlicesWith
<1> HIDE DEF k
<1>3. \A r \in C : v[r] = SumFunctionOnSet(w, Keyed(X, k, r))
  BY <1>2
<1> QED  BY <1>1, <1>3, SumByKey

(* Cut into days, the records add up to what is billed of the window. *)
LEMMA SlicesSummed ==
  ASSUME WholeShares, NEW zone, Steady(zone),
         NEW recs, NEW through \in Nat, Ledger(recs, through),
         NEW from \in Int, NEW at \in Nat, NEW C, C = Counted(recs, from, at),
         NEW X, X = Slices(C, zone, from), NEW w,
         \A x \in X : w[x] = Part(x.rec.amount, x.rec, x.slice.to - x.slice.from)
  PROVE  /\ IsFiniteSet(X) /\ \A x \in X : w[x] \in Nat
         /\ \A x \in X : /\ x.slice.from \in Int /\ from <= x.slice.from /\ x.slice.from < at
                         /\ x.slice.day = LocalDay(zone, x.slice.from)
         /\ SumFunctionOnSet(w, X) = SumFunctionOnSet(Billed(C, from), C)
<1> DEFINE c(r) == Later(r.start, from)
           cut(r) == LocalDaySlices(zone, c(r), r.end)
           of(r) == Tagged(r, cut(r))
<1>1. IsFiniteSet(C)
  BY BilledTyped
<1>2. X = UNION {of(r) : r \in C}
  BY DEF Slices, Tagged
<1>3. ASSUME NEW r \in C
      PROVE  /\ IsFiniteSet(of(r)) /\ from <= c(r)
             /\ \A x \in of(r) : /\ x.rec = r /\ x.slice.from \in Int /\ x.slice.to \in Int
                                 /\ c(r) <= x.slice.from /\ x.slice.from < x.slice.to
                                 /\ x.slice.to <= r.end
                                 /\ x.slice.day = LocalDay(zone, x.slice.from)
             /\ \E k \in Nat :
                  /\ \A x \in of(r) : w[x] = k * (x.slice.to - x.slice.from) /\ w[x] \in Nat
                  /\ SumFunctionOnSet(w, of(r)) = Billed(C, from)[r]
                  /\ Billed(C, from)[r] \in Nat
             /\ r.end <= at /\ r.end \in Int /\ c(r) \in Int
  <2>1. PICK p \in Pods \cup Foreign, b \in Nat : r = BucketOf(p, b)
    BY BilledTyped
  <2>2. /\ r.start \in Int /\ r.end \in Int /\ r.end = r.start + Hour
    BY <2>1, BucketFields
  <2>3. from < r.end /\ r.end <= at /\ Billed(C, from)[r] \in Nat
    BY BilledTyped
  <2>4. c(r) \in Int /\ from <= c(r) /\ r.start <= c(r) /\ c(r) < r.end
    BY <2>2, <2>3, Hours DEF Later
  <2>5. PICK k \in Nat : r.amount = k * Hour
    BY <2>1, AmountIsWhole
  <2> HIDE DEF c
  <2>6. /\ IsFiniteSet(cut(r)) /\ Laid(cut(r), zone, c(r), r.end)
        /\ \A m \in Nat : \A v :
             Weighs(v, Tagged(r, cut(r)), m) =>
               SumFunctionOnSet(v, Tagged(r, cut(r))) = m * (r.end - c(r))
    <3> DEFINE S == cut(r)
               a == c(r)
               z == r.end
    <3>1. S = LocalDaySlices(zone, a, z) /\ a \in Int /\ z \in Int /\ a <= z
      BY <2>2, <2>4
    <3> HIDE DEF S, a, z
    <3>2. /\ IsFiniteSet(S) /\ Laid(S, zone, a, z)
          /\ \A m \in Nat : \A v :
               Weighs(v, Tagged(r, S), m) => SumFunctionOnSet(v, Tagged(r, S)) = m * (z - a)
      BY <3>1, SlicesAre
    <3> QED  BY <3>2 DEF S, a, z
  <2> HIDE DEF cut
  <2>7. IsFiniteSet(of(r))
    BY <2>6, TaggedFinite
  <2>8. \A x \in of(r) : /\ x.rec = r /\ x.slice.from \in Int /\ x.slice.to \in Int
                         /\ c(r) <= x.slice.from /\ x.slice.from < x.slice.to
                         /\ x.slice.to <= r.end /\ x.slice.day = LocalDay(zone, x.slice.from)
    BY <2>6 DEF Tagged, Laid
  <2>9. \A u \in Nat : Part(r.amount, r, u) = k * u
    <3>1. r.end - r.start = Hour
      BY <2>2, Hours
    <3>2. \A u \in Nat : ((k * Hour) * u) \div Hour = k * u
      BY Hours, PartWhole
    <3> QED  BY <2>5, <3>1, <3>2 DEF Part
  <2> HIDE DEF of
  <2>10. ASSUME NEW x \in of(r)
         PROVE  w[x] = k * (x.slice.to - x.slice.from) /\ w[x] \in Nat
    <3>1. x \in X /\ x.rec = r
      BY <1>2, <2>8
    <3>2. w[x] = Part(r.amount, r, x.slice.to - x.slice.from)
      BY <3>1
    <3>3. x.slice.to - x.slice.from \in Nat
      <4>1. x.slice.to \in Int /\ x.slice.from \in Int /\ x.slice.from < x.slice.to
        BY <2>8
      <4> QED  BY <4>1
    <3>4. w[x] = k * (x.slice.to - x.slice.from)
      BY <2>9, <3>2, <3>3
    <3> QED  BY <3>3, <3>4
  <2>11. SumFunctionOnSet(w, of(r)) = k * (r.end - c(r))
    <3>1. Weighs(w, of(r), k)
      BY <2>10 DEF Weighs
    <3> QED  BY <2>6, <3>1 DEF of
  <2>12. Billed(C, from)[r] = k * (r.end - c(r))
    <3>1. Billed(C, from)[r] = Part(r.amount, r, InWindow(r, from))
      BY DEF Billed
    <3>2. InWindow(r, from) = r.end - c(r)
      BY DEF InWindow, c
    <3>3. r.end - c(r) \in Nat
      BY <2>2, <2>4
    <3> QED  BY <2>9, <3>1, <3>2, <3>3
  <2> QED  BY <2>2, <2>3, <2>4, <2>7, <2>8, <2>10, <2>11, <2>12
<1> HIDE DEF c, cut, of
<1>4. IsFiniteSet(X)
  <2> DEFINE F == [r \in C |-> of(r)]
             family == {F[r] : r \in DOMAIN F}
  <2>1. X = UNION family
    BY <1>2
  <2>2. IsFiniteSet(family)
    <3>1. IsFiniteSet(DOMAIN F)
      BY <1>1
    <3> HIDE DEF F
    <3> QED  BY <3>1, ImageIsFinite
  <2>3. \A T \in family : IsFiniteSet(T)
    BY <1>3
  <2> HIDE DEF family
  <2> QED  BY <2>1, <2>2, <2>3, FS_UNION
<1>5. ASSUME NEW x \in X
      PROVE  /\ w[x] \in Nat /\ x.rec \in C /\ x \in of(x.rec)
             /\ x.slice.from \in Int /\ from <= x.slice.from /\ x.slice.from < at
             /\ x.slice.day = LocalDay(zone, x.slice.from)
  <2>1. PICK r \in C : x \in of(r)
    BY <1>2
  <2>2. /\ x.rec = r /\ x.slice.from \in Int /\ x.slice.to \in Int
        /\ c(r) <= x.slice.from /\ x.slice.from < x.slice.to
        /\ x.slice.to <= r.end /\ x.slice.day = LocalDay(zone, x.slice.from)
        /\ r.end <= at /\ r.end \in Int /\ c(r) \in Int /\ from <= c(r)
    BY <1>3, <2>1
  <2>3. w[x] \in Nat
    BY <1>3, <2>1
  <2>4. from <= x.slice.from /\ x.slice.from < at
    BY <2>2
  <2> QED  BY <2>1, <2>2, <2>3, <2>4
<1>6. ASSUME NEW r \in C PROVE SlicesWith(X, r) = of(r)
  <2>1. \A x \in of(r) : x \in X /\ x.rec = r
    BY <1>2, <1>3
  <2>2. \A x \in X : x.rec = r => x \in of(r)
    BY <1>5
  <2> QED  BY <2>1, <2>2 DEF SlicesWith
<1>7. SumFunctionOnSet(w, X) = SumFunctionOnSet(Billed(C, from), C)
  <2> DEFINE v == Billed(C, from)
  <2>1. \A x \in X : w[x] \in Nat /\ x.rec \in C
    BY <1>5
  <2>2. \A r \in C : v[r] = SumFunctionOnSet(w, SlicesWith(X, r))
    BY <1>3, <1>6
  <2> HIDE DEF v
  <2>3. SumFunctionOnSet(v, C) = SumFunctionOnSet(w, X)
    BY <1>1, <1>4, <2>1, <2>2, SumByRecord
  <2> QED  BY <2>3 DEF v
<1> QED  BY <1>4, <1>5, <1>7

-----------------------------------------------------------------------------
(* The days of a month. *)

LEMMA DayStarts ==
  ASSUME NEW zone, Steady(zone), NEW d \in Int, NEW c, c = d * Day - zone[0]
  PROVE  c \in Int /\ LocalDay(zone, c) = d /\ NextDay(zone, c) = (d + 1) * Day - zone[0]
<1> DEFINE z == zone[0]
           half == Day \div 2
           t == c + Day + half
           a == d * Day
           b == (d + 1) * Day
<1>1. z \in Int /\ Day \in Nat \ {0} /\ a \in Int /\ b \in Int /\ b = a + Day /\ c = a - z
  BY Hours DEF Steady, Clock
<1>2. half \in Int /\ 0 <= half /\ half < Day
  <2>1. half \in Int /\ half * 2 <= Day /\ Day < half * 2 + 2
    <3>1. Day \in Int /\ 2 \in Nat \ {0}
      BY <1>1
    <3> QED  BY <3>1, Division
  <2> HIDE DEF half
  <2> QED  BY <1>1, <2>1
<1> HIDE DEF half
<1>3. c \in Int /\ t \in Int /\ c + z = a /\ t + z = b + half
  <2> HIDE DEF a, b, z
  <2> QED  BY <1>1, <1>2
<1>4. LocalDay(zone, c) = a \div Day /\ LocalDay(zone, t) = (b + half) \div Day
  <2>1. LocalDay(zone, c) = (c + zone[0]) \div Day
    BY <1>3, SteadyDays
  <2>2. LocalDay(zone, t) = (t + zone[0]) \div Day
    <3> HIDE DEF t
    <3> QED  BY <1>3, SteadyDays
  <2> QED  BY <1>3, <2>1, <2>2
<1>5. a \div Day = d
  <2>1. d * Day <= a /\ a < d * Day + Day
    BY <1>1
  <2> HIDE DEF a
  <2> QED  BY <1>1, <2>1, Quotient
<1>6. (b + half) \div Day = d + 1
  <2> DEFINE e == b + half
             q == d + 1
  <2>1. q \in Int /\ e \in Int /\ b = q * Day
    BY <1>1, <1>2
  <2> HIDE DEF b
  <2>2. q * Day <= e /\ e < q * Day + Day
    BY <1>1, <1>2, <2>1
  <2> HIDE DEF e, q
  <2>3. e \div Day = q
    BY <1>1, <2>1, <2>2, Quotient
  <2> QED  BY <2>3 DEF e, q
<1>7. NextDay(zone, c) = b - z
  <2>1. NextDay(zone, c) = StartOfLocalDay(zone, t)
    BY DEF NextDay, half
  <2>2. StartOfLocalDay(zone, t) = LocalDay(zone, t) * Day - zone[0]
    <3> HIDE DEF t
    <3> QED  BY <1>3, SteadyDays
  <2> QED  BY <1>4, <1>6, <2>1, <2>2
<1> QED  BY <1>3, <1>4, <1>5, <1>7

LEMMA MidnightsAre ==
  ASSUME NEW zone, Steady(zone), NEW from \in Int, NEW first, first = LocalDay(zone, from)
  PROVE  \A i \in Nat : Midnights(zone, from)[i] = (first + i) * Day - zone[0]
<1> DEFINE walk(f) == [i \in Nat |-> IF i = 0 THEN StartOfLocalDay(zone, from)
                                              ELSE NextDay(zone, f[i - 1])]
           at == [i \in Nat |-> (first + i) * Day - zone[0]]
           cursor == CHOOSE f : f = walk(f)
           G == {i \in Nat : cursor[i] = at[i]}
<1>1. first \in Int /\ StartOfLocalDay(zone, from) = first * Day - zone[0]
  BY SteadyDays, StartsTyped DEF Steady
<1>2. ASSUME NEW i \in Nat, i # 0 PROVE NextDay(zone, at[i - 1]) = at[i]
  <2> DEFINE d == first + (i - 1)
  <2>1. d \in Int /\ d + 1 = first + i /\ at[i - 1] = d * Day - zone[0]
    BY <1>1, <1>2
  <2>2. NextDay(zone, d * Day - zone[0]) = (d + 1) * Day - zone[0]
    <3> HIDE DEF d
    <3> QED  BY <2>1, DayStarts
  <2> QED  BY <2>1, <2>2
<1>3. at[0] = StartOfLocalDay(zone, from)
  BY <1>1
<1>4. at = walk(at)
  <2>1. \A i \in Nat : at[i] = IF i = 0 THEN StartOfLocalDay(zone, from)
                                        ELSE NextDay(zone, at[i - 1])
    BY <1>2, <1>3
  <2>2. at = [i \in Nat |-> at[i]]
    OBVIOUS
  <2> HIDE DEF at
  <2> QED  BY <2>1, <2>2
<1>5. cursor = walk(cursor)
  <2>1. \E f : f = walk(f)
    BY <1>4
  <2> HIDE DEF walk
  <2> QED  BY <2>1
<1>6. Midnights(zone, from) = cursor
  BY DEF Midnights
<1> HIDE DEF cursor
<1>7. 0 \in G
  <2>1. cursor[0] = StartOfLocalDay(zone, from)
    BY <1>5
  <2> QED  BY <1>3, <2>1
<1>8. ASSUME NEW i \in Nat, i \in G PROVE i + 1 \in G
  <2>1. cursor[i + 1] = NextDay(zone, cursor[i])
    <3>1. i + 1 \in Nat /\ i + 1 # 0 /\ (i + 1) - 1 = i
      OBVIOUS
    <3>2. cursor[i + 1] = NextDay(zone, cursor[(i + 1) - 1])
      BY <1>5, <3>1
    <3> QED  BY <3>1, <3>2
  <2>2. NextDay(zone, at[i]) = at[i + 1]
    <3>1. i + 1 \in Nat /\ i + 1 # 0 /\ (i + 1) - 1 = i
      OBVIOUS
    <3>2. NextDay(zone, at[(i + 1) - 1]) = at[i + 1]
      <4> HIDE DEF at
      <4> QED  BY <1>2, <3>1
    <3> QED  BY <3>1, <3>2
  <2>3. cursor[i] = at[i]
    BY <1>8
  <2>4. cursor[i + 1] = at[i + 1]
    <3> HIDE DEF at
    <3> QED  BY <2>1, <2>2, <2>3
  <2> HIDE DEF at
  <2> QED  BY <2>4
<1>9. \A i \in Nat : i \in G
  <2> HIDE DEF G
  <2> QED  BY <1>7, <1>8, CountingUp
<1> QED  BY <1>6, <1>9

LEMMA DaysAre ==
  ASSUME NEW zone, Steady(zone), NEW at \in Int, NEW from, from = StartOfLocalMonth(zone, at),
         NEW first, first = LocalDay(zone, from), NEW n, n = LocalDay(zone, at) - first
  PROVE  /\ from \in Int /\ first \in Int /\ n \in 0..Month - 1 /\ LocalDay(zone, at) = first + n
         /\ LocalDaysBetween(zone, from, at) = [i \in 1..n + 1 |-> first + (i - 1)]
<1> DEFINE day == LocalDay(zone, at)
           q == day \div Month
<1>1. day \in Int /\ Month \in Nat \ {0} /\ Day \in Nat \ {0} /\ Month <= Rounds
      /\ zone[0] \in Int /\ Rounds = 400
  BY StartsTyped, Hours, SpendAssumption DEF Steady, Clock, Rounds
<1> HIDE DEF day
<1>2. q \in Int /\ day % Month \in 0..Month - 1 /\ day = q * Month + (day % Month)
  BY <1>1, Division
<1>3. from = (q * Month) * Day - zone[0]
  BY SteadyMonths DEF day
<1> HIDE DEF q
<1>4. q * Month \in Int
  BY <1>1, <1>2
<1>5. from \in Int /\ first = q * Month
  <2> DEFINE m == q * Month
  <2>1. m \in Int /\ from = m * Day - zone[0]
    BY <1>3, <1>4
  <2> HIDE DEF m
  <2>2. from \in Int /\ LocalDay(zone, from) = m
    BY <2>1, DayStarts
  <2> QED  BY <2>2 DEF m
<1>6. first \in Int /\ n \in 0..Month - 1 /\ day = first + n
  <2>1. first \in Int /\ n = day - first
    BY <1>4, <1>5 DEF day
  <2>2. day = first + (day % Month)
    BY <1>2, <1>5
  <2> HIDE DEF day
  <2> QED  BY <1>1, <1>2, <2>1, <2>2
<1> DEFINE cursor == Midnights(zone, from)
           breaks(i) == LocalDay(zone, cursor[i]) = LocalDay(zone, at) \/ cursor[i + 1] <= cursor[i]
           ends(i) == /\ i = Rounds - 1 \/ breaks(i)
                      /\ \A j \in 0..i - 1 : ~breaks(j)
           last == CHOOSE i \in 0..Rounds - 1 : ends(i)
<1>7. ASSUME NEW i \in Nat
      PROVE  LocalDay(zone, cursor[i]) = first + i /\ (breaks(i) <=> i = n)
  <2> DEFINE d == first + i
             a == d * Day
  <2>1. i + 1 \in Nat /\ d \in Int /\ first + (i + 1) = d + 1
    BY <1>6
  <2>2. cursor[i] = d * Day - zone[0] /\ cursor[i + 1] = (d + 1) * Day - zone[0]
    <3>1. \A j \in Nat : cursor[j] = (first + j) * Day - zone[0]
      BY <1>5, MidnightsAre
    <3> HIDE DEF cursor
    <3> QED  BY <2>1, <3>1
  <2> HIDE DEF cursor, d
  <2>3. LocalDay(zone, cursor[i]) = d
    BY <2>1, <2>2, DayStarts
  <2> DEFINE b == (d + 1) * Day
  <2>4. a \in Int /\ b = a + Day
    BY <1>1, <2>1
  <2>5. ~(cursor[i + 1] <= cursor[i])
    <3>1. cursor[i] = a - zone[0] /\ cursor[i + 1] = b - zone[0]
      BY <2>2
    <3> HIDE DEF a, b
    <3> QED  BY <1>1, <2>4, <3>1
  <2>6. breaks(i) <=> d = day
    BY <2>3, <2>5 DEF day
  <2> HIDE DEF breaks
  <2> QED  BY <1>6, <2>3, <2>6 DEF d
<1> HIDE DEF breaks
<1>8. n \in 0..Rounds - 1 /\ ends(n)
  <2>1. n \in Nat /\ n \in 0..Rounds - 1
    BY <1>1, <1>6
  <2>2. \A j \in 0..n - 1 : j \in Nat /\ j # n
    BY <2>1
  <2> QED  BY <1>7, <2>1, <2>2
<1>9. ASSUME NEW i \in 0..Rounds - 1, ends(i) PROVE i = n
  <2>1. i \in Nat /\ n \in Nat /\ n <= Rounds - 1
    BY <1>1, <1>6
  <2>2. CASE n < i
    <3>1. n \in 0..i - 1
      BY <2>1, <2>2
    <3> QED  BY <1>7, <1>9, <2>1, <3>1
  <2>3. CASE i < n
    <3>1. i # Rounds - 1
      BY <1>1, <2>1, <2>3
    <3>2. breaks(i)
      BY <1>9, <3>1
    <3> QED  BY <1>7, <2>1, <3>2
  <2> QED  BY <2>1, <2>2, <2>3
<1>10. last = n
  <2>1. last \in 0..Rounds - 1 /\ ends(last)
    <3> HIDE DEF ends
    <3> QED  BY <1>8
  <2> HIDE DEF last, ends
  <2> QED  BY <1>9, <2>1
<1>11. LocalDaysBetween(zone, from, at) = [i \in 1..last + 1 |-> LocalDay(zone, cursor[i - 1])]
  BY DEF LocalDaysBetween, breaks
<1> HIDE DEF last, cursor
<1>12. \A i \in 1..n + 1 : LocalDay(zone, cursor[i - 1]) = first + (i - 1)
  <2>1. \A i \in 1..n + 1 : i - 1 \in Nat
    BY <1>6
  <2> QED  BY <1>7, <2>1
<1>13. LocalDaysBetween(zone, from, at) = [i \in 1..n + 1 |-> first + (i - 1)]
  BY <1>10, <1>11, <1>12
<1> QED  BY <1>5, <1>6, <1>13 DEF day

-----------------------------------------------------------------------------
(* The bars, day by day.                                                   *)

(* What a day of the month was billed is what its slices weigh. *)
LEMMA DayBilled ==
  ASSUME NEW recs, NEW zone, NEW from, NEW read, NEW month, month = RollUp(recs, zone, from, read),
         NEW C, C = Counted(recs, from, read), NEW X, X = Slices(C, zone, from),
         NEW w, w = [x \in X |-> Part([r \in C |-> r.amount][x.rec], x.rec,
                                      x.slice.to - x.slice.from)],
         NEW day
  PROVE  BilledOn(day, month) = SumFunctionOnSet(w, {x \in X : x.slice.day = day})
<1> DEFINE amount == [r \in C |-> r.amount]
           there == {x \in X : x.slice.day = day}
<1>1. /\ DOMAIN month.days = {x.slice.day : x \in X}
      /\ day \in DOMAIN month.days => month.days[day].total = OnDay(day, X, amount)
  BY DEF RollUp
<1>2. OnDay(day, X, amount) = SumFunctionOnSet(w, there)
  BY DEF OnDay
<1>3. CASE day \in DOMAIN month.days
  BY <1>1, <1>2, <1>3 DEF BilledOn
<1>4. CASE day \notin DOMAIN month.days
  <2>1. there = {}
    BY <1>1, <1>4
  <2>2. BilledOn(day, month) = 0
    BY <1>4 DEF BilledOn
  <2> QED  BY <2>1, <2>2, SumEmpty
<1> QED  BY <1>3, <1>4

(* The records' slices, and the days of the month they are on. *)
LEMMA DaysSummed ==
  ASSUME WholeShares, NEW zone, Steady(zone),
         NEW recs, NEW through \in Nat, Ledger(recs, through),
         NEW at \in Nat, NEW read \in Nat, read <= at,
         NEW from, from = StartOfLocalMonth(zone, at),
         NEW month, month = RollUp(recs, zone, from, read),
         NEW first, first = LocalDay(zone, from), NEW n, n = LocalDay(zone, at) - first,
         NEW v, \A i \in 1..n + 1 : v[i] = BilledOn(first + (i - 1), month)
  PROVE  /\ \A i \in 1..n + 1 : v[i] \in Nat
         /\ SumFunctionOnSet(v, 1..n + 1) = month.total
<1> DEFINE C == Counted(recs, from, read)
           X == Slices(C, zone, from)
           amount == [r \in C |-> r.amount]
           w == [x \in X |-> Part(amount[x.rec], x.rec, x.slice.to - x.slice.from)]
           K == 1..n + 1
           k == [x \in X |-> x.slice.day - first + 1]
<1>1. from \in Int /\ first \in Int /\ n \in Nat /\ LocalDay(zone, at) = first + n
  BY DaysAre, Hours
<1>2. \A x \in X : w[x] = Part(x.rec.amount, x.rec, x.slice.to - x.slice.from)
  <2>1. \A x \in X : x.rec \in C
    <3> HIDE DEF C
    <3> QED  BY DEF Slices
  <2>2. \A r \in C : amount[r] = r.amount
    <3> HIDE DEF C
    <3> QED  OBVIOUS
  <2> HIDE DEF C, X, amount
  <2> QED  BY <2>1, <2>2
<1>3. \A day : BilledOn(day, month) = SumFunctionOnSet(w, {x \in X : x.slice.day = day})
  BY DayBilled
<1>4. month.total = SumFunctionOnSet(Billed(C, from), C)
  <2> HIDE DEF C
  <2>1. month.total = SumFunction(Billed(C, from)) /\ DOMAIN Billed(C, from) = C
    BY DEF RollUp, Billed, C
  <2> QED  BY <2>1 DEF SumFunction, SumFunctionOnSet, FoldFunction
<1> HIDE DEF w
<1>5. /\ IsFiniteSet(X) /\ \A x \in X : w[x] \in Nat
      /\ \A x \in X : /\ x.slice.from \in Int /\ from <= x.slice.from /\ x.slice.from < read
                      /\ x.slice.day = LocalDay(zone, x.slice.from)
      /\ SumFunctionOnSet(w, X) = SumFunctionOnSet(Billed(C, from), C)
  <2> HIDE DEF C
  <2>1. X = Slices(C, zone, from)
    OBVIOUS
  <2> HIDE DEF X
  <2> QED  BY <1>1, <1>2, <2>1, SlicesSummed DEF C
<1> HIDE DEF C, X
<1>6. ASSUME NEW x \in X PROVE x.slice.day \in Int /\ k[x] \in K
  <2> DEFINE t == x.slice.from
             day == x.slice.day
  <2>1. t \in Int /\ from <= t /\ t < read /\ day = LocalDay(zone, t)
    BY <1>5
  <2>2. k[x] = day - first + 1
    OBVIOUS
  <2> HIDE DEF t, day, k
  <2>3. t <= at /\ at \in Int
    BY <2>1
  <2>4. first <= day /\ day <= first + n
    BY <1>1, <2>1, <2>3, DaysInOrder
  <2>5. day \in Int
    BY <2>1, StartsTyped DEF Steady
  <2>6. day - first + 1 \in 1..n + 1
    BY <1>1, <2>4, <2>5
  <2> QED  BY <2>2, <2>5, <2>6 DEF day
<1>7. ASSUME NEW i \in K
      PROVE  /\ {x \in X : x.slice.day = first + (i - 1)} = Keyed(X, k, i)
  <2>1. i \in Int
    BY <1>1
  <2>2. \A x \in X : x.slice.day = first + (i - 1) <=> k[x] = i
    <3> SUFFICES ASSUME NEW x \in X PROVE x.slice.day = first + (i - 1) <=> k[x] = i
      OBVIOUS
    <3> DEFINE day == x.slice.day
    <3>1. day \in Int /\ k[x] = day - first + 1
      BY <1>6
    <3> HIDE DEF day, k
    <3>2. day = first + (i - 1) <=> k[x] = i
      BY <1>1, <2>1, <3>1
    <3> QED  BY <3>2 DEF day
  <2> HIDE DEF k
  <2> QED  BY <2>2 DEF Keyed
<1> HIDE DEF k
<1>8. \A i \in K : v[i] = SumFunctionOnSet(w, Keyed(X, k, i))
  BY <1>3, <1>7
<1>9. \A i \in K : v[i] \in Nat
  <2> SUFFICES ASSUME NEW i \in K PROVE SumFunctionOnSet(w, Keyed(X, k, i)) \in Nat
    BY <1>8
  <2> DEFINE T == Keyed(X, k, i)
  <2>1. T \subseteq X
    BY DEF Keyed
  <2> HIDE DEF T
  <2>2. IsFiniteSet(T) /\ \A x \in T : w[x] \in Nat
    BY <1>5, <2>1, FS_Subset
  <2>3. SumFunctionOnSet(w, T) \in Nat
    BY <2>2, SumIsNat
  <2> QED  BY <2>3 DEF T
<1>10. IsFiniteSet(K)
  BY <1>1, FS_Interval
<1>11. \A x \in X : w[x] \in Nat /\ k[x] \in K
  BY <1>5, <1>6
<1>12. SumFunctionOnSet(v, K) = SumFunctionOnSet(w, X)
  <2> HIDE DEF K
  <2> QED  BY <1>5, <1>8, <1>10, <1>11, SumByKey
<1> QED  BY <1>4, <1>5, <1>9, <1>12

-----------------------------------------------------------------------------
(* The bars of a month, the estimate on top of the last. *)
LEMMA BarsSum ==
  ASSUME WholeShares, Steady(Zone), NEW recs, NEW through \in Nat, Ledger(recs, through),
         NEW at \in Nat, NEW read \in Nat, read <= at,
         NEW month, month = RollUp(recs, Zone, StartOfLocalMonth(Zone, at), read),
         NEW estimated \in Nat
  PROVE  Bars(at, month, estimated) = month.total + estimated
<1> DEFINE from == StartOfLocalMonth(Zone, at)
           first == LocalDay(Zone, from)
           n == LocalDay(Zone, at) - first
           days == LocalDaysBetween(Zone, from, at)
           K == 1..n + 1
           v == [i \in K |-> BilledOn(first + (i - 1), month)]
           e == [i \in K |-> IF i = n + 1 THEN estimated ELSE 0]
           bar == [i \in K |-> v[i] + e[i]]
<1>1. /\ first \in Int /\ n \in Nat /\ LocalDay(Zone, at) = first + n
      /\ days = [i \in K |-> first + (i - 1)]
  <2>1. /\ first \in Int /\ n \in 0..Month - 1 /\ LocalDay(Zone, at) = first + n
        /\ days = [i \in 1..n + 1 |-> first + (i - 1)]
    BY DaysAre
  <2> QED  BY <2>1, Hours
<1>2. Bars(at, month, estimated) =
        SumFunction([i \in 1..Len(days) |->
                       BilledOn(days[i], month)
                         + (IF days[i] = LocalDay(Zone, at) THEN estimated ELSE 0)])
  BY DEF Bars
<1>3. (\A i \in K : v[i] \in Nat) /\ SumFunctionOnSet(v, K) = month.total
  <2>1. \A i \in 1..n + 1 : v[i] = BilledOn(first + (i - 1), month)
    OBVIOUS
  <2> HIDE DEF v
  <2> QED  BY <2>1, DaysSummed
<1> HIDE DEF first, n, days
<1>4. Len(days) = n + 1
  <2>1. n + 1 \in Nat
    BY <1>1
  <2>2. days \in [1..n + 1 -> Int]
    BY <1>1
  <2> QED  BY <2>1, <2>2
<1>5. ASSUME NEW i \in K
      PROVE  BilledOn(days[i], month)
               + (IF days[i] = LocalDay(Zone, at) THEN estimated ELSE 0) = bar[i]
  <2>1. days[i] = first + (i - 1) /\ i \in Int
    BY <1>1
  <2>2. days[i] = LocalDay(Zone, at) <=> i = n + 1
    BY <1>1, <2>1
  <2>3. BilledOn(days[i], month) = v[i]
    BY <2>1
  <2> QED  BY <2>2, <2>3
<1>6. Bars(at, month, estimated) = SumFunction(bar)
  BY <1>2, <1>4, <1>5
<1>7. IsFiniteSet(K) /\ n + 1 \in K
  BY <1>1, FS_Interval
<1>8. SumFunctionOnSet(e, K) = estimated
  <2>1. /\ {n + 1} \in SUBSET K /\ (\A i \in {n + 1} : e[i] \in Nat)
        /\ (\A i \in K \ {n + 1} : e[i] = 0) /\ e[n + 1] = estimated
    BY <1>7
  <2> HIDE DEF e, K
  <2>2. SumFunctionOnSet(e, K) = SumFunctionOnSet(e, {n + 1})
    BY <1>7, <2>1, SumSupport
  <2>3. SumFunctionOnSet(e, {n + 1}) = e[n + 1]
    BY <2>1, SumOne
  <2> QED  BY <2>1, <2>2, <2>3
<1>9. \A i \in K : v[i] \in Nat /\ e[i] \in Nat /\ bar[i] = v[i] + e[i]
  BY <1>3
<1>10. DOMAIN bar = K
  OBVIOUS
<1> HIDE DEF K, v, e, bar
<1>11. SumFunctionOnSet(bar, K) = SumFunctionOnSet(v, K) + SumFunctionOnSet(e, K)
  BY <1>7, <1>9, SumPlus
<1> QED  BY <1>3, <1>6, <1>8, <1>10, <1>11 DEF SumFunction

(* The shares of the pods: what was billed of each, and the estimate when  *)
(* there is a pod whose template it is split to.                           *)
LEMMA SharesSum ==
  ASSUME NEW recs, NEW through \in Nat, Ledger(recs, through), NEW zone,
         NEW from \in Int, NEW read \in Nat,
         NEW month, month = RollUp(recs, zone, from, read),
         NEW estimated \in Nat
  PROVE  Shares(month, estimated) = month.total + (IF Splits THEN estimated ELSE 0)
<1> DEFINE C == Counted(recs, from, read)
           w == Billed(C, from)
           billed == {r.pod : r \in C}
           k == [r \in C |-> r.pod]
           v == month.byPod
<1>1. /\ IsFiniteSet(C) /\ \A r \in C : w[r] \in Nat
  <2>1. C = Counted(recs, from, read) /\ read \in Int
    OBVIOUS
  <2> HIDE DEF C
  <2> QED  BY <2>1, BilledTyped
<1>2. /\ month.total = SumFunction(w) /\ DOMAIN v = billed
      /\ \A p \in billed : v[p] = SumFunctionOnSet(w, {r \in C : r.pod = p})
  BY DEF RollUp
<1>3. SumFunction(w) = SumFunctionOnSet(w, C)
  <2>1. DOMAIN w = C
    BY DEF Billed
  <2> HIDE DEF w
  <2> QED  BY <2>1 DEF SumFunction
<1>4. IsFiniteSet(billed) /\ \A r \in C : k[r] \in billed
  <2>1. billed = {k[r] : r \in DOMAIN k} /\ DOMAIN k = C
    OBVIOUS
  <2>2. \A r \in C : k[r] \in billed
    OBVIOUS
  <2> HIDE DEF k, billed, C
  <2> QED  BY <1>1, <2>1, <2>2, ImageIsFinite
<1>5. \A p \in billed : v[p] = SumFunctionOnSet(w, Keyed(C, k, p))
  <2>1. \A p : {r \in C : r.pod = p} = Keyed(C, k, p)
    BY DEF Keyed
  <2> HIDE DEF k, w, v
  <2> QED  BY <1>2, <2>1
<1> HIDE DEF C, w, billed, k, v
<1>6. SumFunctionOnSet(v, billed) = SumFunctionOnSet(w, C)
  BY <1>1, <1>4, <1>5, SumByKey
<1>7. SumFunctionOnSet(w, C) \in Nat
  BY <1>1, SumIsNat
<1>8. SumFunction(month.byPod) = month.total
  BY <1>2, <1>3, <1>6 DEF SumFunction, v
<1> QED  BY <1>8 DEF Shares

-----------------------------------------------------------------------------
(* The breakdowns of one answer. *)
LEMMA AnswerAddsUp ==
  ASSUME SpendInv, SteadyClocks, WholeShares,
         NEW at \in 0..now, at \in Nat, folded.at <= at, Answer(at)
  PROVE  /\ figure'.shares = figure'.month - (IF Splits THEN 0 ELSE figure'.estimatedMonth)
         /\ figure'.bars = figure'.month - (figure'.estimatedMonth - figure'.estimated)
<1> DEFINE f == Fold(at)
           month == MonthOf(f)
           liveDay == LiveCost(at, StartOfLocalDay(Zone, at), month.billedThrough)
           liveMonth == LiveCost(at, StartOfLocalMonth(Zone, at), month.billedThrough)
<1>1. /\ figure'.month = month.total + liveMonth /\ figure'.bars = Bars(at, month, liveDay)
      /\ figure'.shares = Shares(month, liveMonth)
      /\ figure'.estimated = liveDay /\ figure'.estimatedMonth = liveMonth
  BY DEF Answer
<1>2. /\ Steady(Zone) /\ ZonesTyped
  BY SteadyAreTyped DEF SteadyClocks, SpendInv, TypeOK, Zone
<1>3. f.at \in Nat /\ f.at <= at /\ LocalDay(Zone, f.at) = LocalDay(Zone, at)
  <2>1. f.at \in 0..at /\ LocalDay(Zone, f.at) = LocalDay(Zone, at)
    BY FoldIs
  <2> HIDE DEF f
  <2> QED  BY <2>1
<1>4. PICK through \in Nat : Ledger(cache.records, through)
  BY LedgerKept
<1> DEFINE from == StartOfLocalMonth(Zone, at)
           read == f.at
<1> HIDE DEF f
<1>5. /\ month = RollUp(cache.records, Zone, from, read) /\ from \in Int
      /\ StartOfLocalDay(Zone, at) \in Int
  <2>1. StartOfLocalMonth(Zone, f.at) = from
    BY <1>2, <1>3, SameDay
  <2>2. month = RollUp(cache.records, Zone, StartOfLocalMonth(Zone, f.at), f.at)
    BY DEF MonthOf
  <2> HIDE DEF month
  <2> QED  BY <1>2, <2>1, <2>2, WindowsTyped
<1>6. month.total \in Nat /\ liveDay \in Nat /\ liveMonth \in Nat
  <2> DEFINE bt == month.billedThrough
  <2>1. bt = RollUp(cache.records, Zone, from, read).billedThrough
    BY <1>5
  <2>2. month.total \in Nat
    <3> HIDE DEF month, from
    <3> QED  BY <1>3, <1>5, TotalTyped
  <2> HIDE DEF bt
  <2>3. LiveCost(at, StartOfLocalDay(Zone, at), bt) \in Nat
    <3> HIDE DEF from
    <3> QED  BY <1>3, <1>5, <2>1, LiveTyped
  <2>4. LiveCost(at, from, bt) \in Nat
    <3> HIDE DEF from
    <3> QED  BY <1>3, <1>5, <2>1, LiveTyped
  <2> QED  BY <2>2, <2>3, <2>4 DEF bt
<1> HIDE DEF month, liveDay, liveMonth
<1>7. Bars(at, month, liveDay) = month.total + liveDay
  BY <1>2, <1>3, <1>4, <1>5, <1>6, BarsSum
<1>8. Shares(month, liveMonth) = month.total + (IF Splits THEN liveMonth ELSE 0)
  <2> HIDE DEF from
  <2> QED  BY <1>3, <1>4, <1>5, <1>6, SharesSum
<1> QED  BY <1>1, <1>6, <1>7, <1>8

LEMMA BreakdownsStep ==
  ASSUME SpendInv, SteadyClocks, WholeShares, BreakdownsAddUp, [Next]_vars
  PROVE  BreakdownsAddUp'
<1>1. ASSUME figure' = NoFigure PROVE BreakdownsAddUp'
  BY <1>1 DEF BreakdownsAddUp, Unshared, NoFigure
<1>2. ASSUME UNCHANGED vars PROVE BreakdownsAddUp'
  BY <1>2 DEF vars, BreakdownsAddUp, Unshared, Splits, UpRows
<1>3. ASSUME NEW at \in 0..now, at \in Nat, Answer(at), folded.at <= at, UNCHANGED rows
      PROVE  BreakdownsAddUp'
  <2>1. Splits' <=> Splits
    BY <1>3 DEF Splits, UpRows
  <2> QED  BY <1>3, <2>1, AnswerAddsUp DEF BreakdownsAddUp, Unshared, Splits
<1> QED  BY <1>1, <1>2, <1>3, FigureGiven DEF facts

(* What the app draws of an answer, day by day and pod by pod, is the      *)
(* month's figure, but for what is estimated of earlier days, and of pods  *)
(* left without a template when no others run.                             *)
THEOREM BreakdownsAddUpAlways ==
  SteadyClocks /\ WholeShares => (Spec => []BreakdownsAddUp)
<1> SUFFICES ASSUME SteadyClocks, WholeShares PROVE Spec => []BreakdownsAddUp
  OBVIOUS
<1>1. Spec => []SpendInv
  BY SpendInvariant, SteadyAreTyped
<1>2. Init => BreakdownsAddUp
  BY DEF Init, BreakdownsAddUp, Unshared, NoFigure
<1>3. SpendInv /\ BreakdownsAddUp /\ [Next]_vars => BreakdownsAddUp'
  BY BreakdownsStep
<1> QED  BY <1>1, <1>2, <1>3, PTL DEF Spec
=============================================================================
