-------------------------- MODULE Scheduler_proofs --------------------------
(***************************************************************************)
(* What the scheduler promises about the pods it governs, for any          *)
(* templates, schedules and horizon.                                       *)
(***************************************************************************)
EXTENDS SchedulerProperties, FiniteSetTheorems, SequenceTheorems, TLAPS

Injective(s) == \A i, j \in 1..Len(s) : i # j => s[i] # s[j]

(* A tick never has a template twice ahead of it, and whatever was stopped *)
(* for being idle among those was stopped before the tick began.           *)
Sound(k, stopped, clock) ==
  k.phase # "idle" =>
    /\ k.todo # <<>> /\ Injective(k.todo)
    /\ k.at # Never /\ k.at <= clock
    /\ \A i \in 1..Len(k.todo) : stopped[k.todo[i]] <= k.at

TickOK == Sound(tick, rested, now)

(* A template's newest use and its unanswered requests, against the run    *)
(* that is up, and against the stop: only a run that began with none        *)
(* unanswered can tell from the newest use whether it was used itself, and  *)
(* only a stop with none unanswered stays the newest thing that happened.   *)
Accounted(entry, open, used, idle, stopped) ==
  /\ entry.status # "none" /\ entry.clean =>
       /\ \A r \in open : r.run = entry.run
       /\ ~entry.served => used <= entry.since
  /\ entry.status = "none" /\ stopped # Never =>
       idle = stopped /\ used <= stopped /\ open = {}

RunsOK ==
  \A t \in Templates :
    /\ row[t].run <= runs
    /\ Up(t) => row[t].run > 0
    /\ lastRequestAt[t] <= now /\ rested[t] <= now
    /\ Accounted(row[t], Unanswered(t), lastRequestAt[t], idleStoppedAt[t], rested[t])

(* The row a tick has seen is that of its run, and the last request it has *)
(* read is not younger than the last one.                                  *)
SeenOK ==
  tick.phase = "ask" =>
    /\ tick.seen.status = "RUNNING" /\ tick.seen.run > 0 /\ tick.seen.run <= runs
    /\ tick.used <= lastRequestAt[Current]
    /\ row[Current].run = tick.seen.run =>
         /\ row[Current].by = tick.seen.by
         /\ row[Current].startedAt = tick.seen.startedAt
         /\ row[Current].since = tick.seen.since

IInv == TypeOK /\ TickOK /\ RunsOK /\ SeenOK

-----------------------------------------------------------------------------
(* What the clock, the figures and the limits are.                         *)
LEMMA Bounds ==
  /\ Horizon \in Nat /\ MaxRuns \in Nat /\ Instant \subseteq Int /\ Instants \subseteq Nat
  /\ Never = -1 /\ Never \in Instant /\ Instants \subseteq Instant
BY SchedulerAssumption DEF Instant, Instants, Never

LEMMA NoRowTyped == NoRow \in Row
BY SchedulerAssumption, Bounds DEF NoRow, Row, Origins

LEMMA NoTickTyped == NoTick \in Tick
<1>1. <<>> \in Seq(Templates)
  OBVIOUS
<1>2. "none" \in Limits /\ "none" \in Reasons /\ "scheduler" \in Origins /\ 0 \in 0..MaxRuns
  BY Bounds DEF Limits, Reasons, Origins
<1> QED BY <1>1, <1>2, NoRowTyped, Bounds DEF NoTick, Tick

LEMMA InitTyped == Init => TypeOK
<1> SUFFICES ASSUME Init PROVE TypeOK
  OBVIOUS
<1>1. now \in Instants /\ runs \in 0..MaxRuns
  BY Bounds DEF Init, Instants
<1>2. row \in [Templates -> Row] /\ tick \in Tick
  BY NoRowTyped, NoTickTyped DEF Init
<1>3. /\ paused \in [Templates -> Instant] /\ idleStoppedAt \in [Templates -> Instant]
      /\ lastRequestAt \in [Templates -> Instant] /\ rested \in [Templates -> Instant]
  BY Bounds DEF Init
<1>4. /\ engine \in [Templates -> BOOLEAN] /\ requests \subseteq Request
      /\ spent \in Limits /\ hasKey \in BOOLEAN
  BY DEF Init, Limits
<1> QED BY <1>1, <1>2, <1>3, <1>4 DEF TypeOK

LEMMA Base == Init => IInv
<1> SUFFICES ASSUME Init PROVE IInv
  OBVIOUS
<1>1. tick.phase = "idle"
  BY DEF Init, NoTick
<1>2. RunsOK
  BY Bounds DEF Init, RunsOK, Accounted, Up, NoRow
<1> QED BY <1>1, <1>2, InitTyped DEF IInv, TickOK, Sound, SeenOK

-----------------------------------------------------------------------------
(* What decide answers.                                                    *)
LEMMA DecisionTyped ==
  ASSUME NEW s, NEW pod, NEW limit \in Limits, NEW at
  PROVE  LET action == Decide(s, pod, limit, at) IN
         /\ action.do \in {"nothing", "stop", "start"}
         /\ action.do = "stop" => action.because \in Reasons
<1>1. /\ limit \in Reasons /\ "max-runtime" \in Reasons /\ "idle-timeout" \in Reasons
      /\ "outside-schedule" \in Reasons
  BY DEF Reasons
<1> QED BY <1>1 DEF Decide, Do

(* Where the tick goes from a template, and with what.                     *)
LEMMA NextTyped ==
  ASSUME TypeOK, tick.todo # <<>>
  PROVE  NextTemplate \in Tick
<1>1. PICK k \in Tick : k = tick
  BY DEF TypeOK
<1>2. k.todo \in Seq(Templates) /\ k.at \in Instant /\ k.limit \in Limits
  BY DEF Tick
<1>3. Tail(k.todo) \in Seq(Templates)
  BY <1>1, <1>2
<1>4. PICK n \in Tick : n = NoTick
  BY NoTickTyped
<1>5. [n EXCEPT !.phase = "each", !.at = k.at, !.limit = k.limit, !.todo = Tail(k.todo)] \in Tick
  BY <1>2, <1>3 DEF Tick
<1> QED BY <1>1, <1>4, <1>5 DEF NextTemplate

LEMMA AppliedTyped ==
  ASSUME TypeOK, tick.todo # <<>>, NEW t \in Templates, NEW action,
         action.do = "stop" => action.because \in Reasons
  PROVE  Apply(t, action) \in Tick
<1>1. PICK k \in Tick : k = tick
  BY DEF TypeOK
<1>2. CASE action.do = "stop" /\ Up(t)
  <2>1. row[t].run \in 0..MaxRuns
    BY DEF TypeOK, Row
  <2>2. [k EXCEPT !.phase = "stop", !.because = action.because, !.run = row[t].run] \in Tick
    BY <1>2, <2>1 DEF Tick
  <2> QED BY <1>1, <1>2, <2>2 DEF Apply
<1>3. CASE action.do = "start" /\ ~Up(t)
  <2>1. [k EXCEPT !.phase = "start"] \in Tick
    BY DEF Tick
  <2> QED BY <1>1, <1>3, <2>1 DEF Apply
<1>4. CASE ~(action.do = "stop" /\ Up(t)) /\ ~(action.do = "start" /\ ~Up(t))
  BY <1>4, NextTyped DEF Apply
<1> QED BY <1>2, <1>3, <1>4

(* Ticks that are sound.                                                   *)
LEMMA OrdersTyped ==
  ASSUME TypeOK, NEW set \in SUBSET Templates, NEW s \in Orders(set)
  PROVE  s \in Seq(Templates) /\ Injective(s)
<1> DEFINE n == Cardinality(set)
<1>1. n \in Nat
  <2>1. IsFiniteSet(set)
    BY SchedulerAssumption, FS_Subset
  <2> QED BY <2>1, FS_CardinalityType
<1> HIDE DEF n
<1>2. /\ s \in [1..n -> set]
      /\ \A i, j \in 1..n : i < j =>
           IF Up(s[i]) /\ Up(s[j]) THEN row[s[i]].run > row[s[j]].run
           ELSE Up(s[i]) \/ (~Up(s[j]) /\ s[i] < s[j])
  BY DEF Orders, n
<1>3. s \in Seq(Templates) /\ Len(s) = n
  BY <1>1, <1>2
<1>4. \A t \in Templates : t \in Nat /\ row[t].run \in Nat
  BY SchedulerAssumption, Bounds, FS_CardinalityType DEF TypeOK, Row
<1>5. ASSUME NEW i \in 1..n, NEW j \in 1..n, i < j PROVE s[i] # s[j]
  BY <1>2, <1>4, <1>5
<1>6. Injective(s)
  <2> SUFFICES ASSUME NEW i \in 1..n, NEW j \in 1..n, i # j PROVE s[i] # s[j]
    BY <1>3 DEF Injective
  <2>1. i < j \/ j < i
    BY <1>1
  <2> QED BY <1>5, <2>1
<1> QED BY <1>3, <1>6

LEMMA NextSound ==
  ASSUME TypeOK, TickOK, tick.phase # "idle", NEW stopped,
         \A t \in Templates : t # Current => stopped[t] = rested[t]
  PROVE  Sound(NextTemplate, stopped, now)
<1> DEFINE s == tick.todo
           rest == Tail(s)
<1>1. s \in Seq(Templates) /\ s # <<>> /\ Injective(s)
  BY DEF TypeOK, Tick, TickOK, Sound
<1>2. /\ tick.at # Never /\ tick.at <= now
      /\ \A i \in 1..Len(s) : rested[s[i]] <= tick.at
  BY DEF TickOK, Sound
<1>3. CASE rest = <<>>
  <2>1. NextTemplate.phase = "idle"
    BY <1>3 DEF NextTemplate, NoTick
  <2> QED BY <2>1 DEF Sound
<1>4. CASE rest # <<>>
  <2> DEFINE k == NextTemplate
  <2>1. k.todo = rest /\ k.at = tick.at
    BY <1>4 DEF NextTemplate, NoTick
  <2>2. /\ Len(rest) = Len(s) - 1 /\ Len(s) \in Nat
        /\ \A i \in 1..Len(rest) : rest[i] = s[i + 1] /\ i + 1 \in 1..Len(s)
    BY <1>1, <1>4
  <2>3. Injective(rest)
    BY <1>1, <2>2 DEF Injective
  <2>4. ASSUME NEW i \in 1..Len(rest) PROVE stopped[rest[i]] <= tick.at
    <3>1. rest[i] = s[i + 1] /\ i + 1 \in 1..Len(s) /\ i + 1 # 1 /\ 1 \in 1..Len(s)
      BY <2>2
    <3>2. s[i + 1] # s[1]
      BY <1>1, <3>1 DEF Injective
    <3>3. s[1] = Current /\ s[i + 1] \in Templates
      BY <1>1, <3>1 DEF Current
    <3> QED BY <1>2, <3>1, <3>2, <3>3
  <2> HIDE DEF k
  <2> QED BY <1>2, <1>4, <2>1, <2>3, <2>4 DEF Sound, k
<1> QED BY <1>3, <1>4

LEMMA AppliedSound ==
  ASSUME TypeOK, TickOK, tick.phase # "idle", NEW t, NEW action
  PROVE  Sound(Apply(t, action), rested, now)
<1>1. PICK k \in Tick : k = tick
  BY DEF TypeOK
<1>2. CASE Apply(t, action) = NextTemplate
  BY <1>2, NextSound
<1>3. ASSUME NEW a, a.todo = k.todo, a.at = k.at PROVE Sound(a, rested, now)
  BY <1>1, <1>3 DEF TickOK, Sound
<1>4. CASE action.do = "stop" /\ Up(t)
  <2> DEFINE a == [k EXCEPT !.phase = "stop", !.because = action.because, !.run = row[t].run]
  <2>1. a.todo = k.todo /\ a.at = k.at
    BY DEF Tick
  <2>2. Apply(t, action) = a
    BY <1>1, <1>4 DEF Apply
  <2> HIDE DEF a
  <2> QED BY <1>3, <2>1, <2>2
<1>5. CASE action.do = "start" /\ ~Up(t)
  <2> DEFINE a == [k EXCEPT !.phase = "start"]
  <2>1. a.todo = k.todo /\ a.at = k.at
    BY DEF Tick
  <2>2. Apply(t, action) = a
    BY <1>1, <1>5 DEF Apply
  <2> HIDE DEF a
  <2> QED BY <1>3, <2>1, <2>2
<1>6. CASE ~(action.do = "stop" /\ Up(t)) /\ ~(action.do = "start" /\ ~Up(t))
  BY <1>2, <1>6 DEF Apply
<1> QED BY <1>4, <1>5, <1>6

(* After a decision a tick no longer asks.                                 *)
LEMMA AppliedAsksNot ==
  ASSUME TypeOK, NEW t, NEW action
  PROVE  Apply(t, action).phase # "ask"
<1>1. PICK k \in Tick : k = tick
  BY DEF TypeOK
<1>2. /\ [k EXCEPT !.phase = "stop", !.because = action.because, !.run = row[t].run].phase = "stop"
      /\ [k EXCEPT !.phase = "start"].phase = "start"
  BY DEF Tick
<1>3. NextTemplate.phase \in {"idle", "each"}
  BY DEF NextTemplate, NoTick
<1> QED BY <1>1, <1>2, <1>3 DEF Apply

-----------------------------------------------------------------------------
(* What a start and a stop leave of the tables.                            *)
LEMMA StartTyped ==
  ASSUME TypeOK, NEW t \in Templates, NEW by \in Origins,
         NEW status \in {"STARTING", "RUNNING"}, Started(t, by, status)
  PROVE  /\ runs' \in 0..MaxRuns /\ row' \in [Templates -> Row]
         /\ paused' \in [Templates -> Instant] /\ idleStoppedAt' \in [Templates -> Instant]
         /\ engine' \in [Templates -> BOOLEAN] /\ lastRequestAt' \in [Templates -> Instant]
<1>1. runs' = runs + 1 /\ runs + 1 \in 0..MaxRuns
  BY Bounds DEF Started, TypeOK
<1>2. now \in Instant /\ paused[t] \in Instant
  BY Bounds DEF TypeOK
<1>3. [status |-> status, by |-> by, run |-> runs + 1, since |-> now,
       clean |-> Unanswered(t) = {}, served |-> FALSE,
       startedAt |-> IF paused[t] # Never THEN paused[t] ELSE now] \in Row
  BY <1>1, <1>2 DEF Row
<1>4. row' \in [Templates -> Row]
  BY <1>3 DEF Started, TypeOK
<1>5. /\ paused' \in [Templates -> Instant] /\ idleStoppedAt' \in [Templates -> Instant]
      /\ engine' \in [Templates -> BOOLEAN] /\ lastRequestAt' \in [Templates -> Instant]
  BY Bounds DEF Started, TypeOK
<1> QED BY <1>1, <1>4, <1>5

LEMMA StopTyped ==
  ASSUME TypeOK, NEW t \in Templates, NEW because, Stopped(t, because)
  PROVE  /\ runs' \in 0..MaxRuns /\ row' \in [Templates -> Row]
         /\ paused' \in [Templates -> Instant] /\ idleStoppedAt' \in [Templates -> Instant]
         /\ engine' \in [Templates -> BOOLEAN] /\ lastRequestAt' \in [Templates -> Instant]
<1>1. now \in Instant /\ row[t].startedAt \in Instant
  BY Bounds DEF TypeOK, Row
<1>2. row' \in [Templates -> Row]
  BY NoRowTyped DEF Stopped, TypeOK
<1> QED BY <1>1, <1>2, Bounds DEF Stopped, TypeOK

-----------------------------------------------------------------------------
(* The types are kept.                                                     *)
LEMMA ToTyped ==
  ASSUME TypeOK, NEW t \in Templates, NEW phase \in {"waiting", "sent", "answering"},
         NEW run \in 0..MaxRuns
  PROVE  To(t, phase, run) \subseteq Request
BY DEF TypeOK, To, Request

LEMMA SlowTickTyped ==
  ASSUME TypeOK, tick.phase = "each" \/ tick.phase = "ask", TickOK,
         ReadState \/ EngineAsked
  PROVE  tick' \in Tick
<1>1. PICK k \in Tick : k = tick
  BY DEF TypeOK
<1>2. tick.todo # <<>> /\ Current \in Templates
  BY DEF TickOK, Sound, TypeOK, Tick, Current
<1>3. tick.limit \in Limits
  BY DEF TypeOK, Tick
<1>4. ASSUME NEW s, NEW pod, tick' = Apply(Current, Decide(s, pod, tick.limit, tick.at))
      PROVE  tick' \in Tick
  BY <1>2, <1>3, <1>4, DecisionTyped, AppliedTyped
<1>5. CASE ReadState
  <2>1. CASE tick' = [tick EXCEPT !.phase = "ask", !.seen = row[Current],
                                  !.busy = requests # {}, !.used = lastRequestAt[Current]]
    <3>1. row[Current] \in Row /\ lastRequestAt[Current] \in Instant /\ (requests # {}) \in BOOLEAN
      BY <1>2 DEF TypeOK
    <3> QED BY <1>1, <2>1, <3>1 DEF Tick
  <2> QED BY <1>4, <1>5, <2>1 DEF ReadState, Current
<1>6. CASE EngineAsked
  BY <1>4, <1>6 DEF EngineAsked, Decided, Current
<1> QED BY <1>5, <1>6

LEMMA TypesKept == TypeOK /\ TickOK /\ [Next]_vars => TypeOK'
<1> SUFFICES ASSUME TypeOK, TickOK, Next PROVE TypeOK'
  BY DEF TypeOK, vars
<1> USE DEF tables, world
<1>0. tick.phase # "idle" => tick.todo # <<>> /\ Current \in Templates
  BY DEF TickOK, Sound, TypeOK, Tick, Current
<1>1. CASE TickBegin
  <2>1. PICK s \in Orders(ScheduledTemplates) :
          tick' = [NoTick EXCEPT !.phase = "each", !.at = now, !.limit = spent, !.todo = s]
    BY <1>1 DEF TickBegin
  <2>2. s \in Seq(Templates)
    BY OrdersTyped DEF ScheduledTemplates
  <2>3. PICK n \in Tick : n = NoTick
    BY NoTickTyped
  <2>4. now \in Instant /\ spent \in Limits
    BY Bounds DEF TypeOK
  <2>5. [n EXCEPT !.phase = "each", !.at = now, !.limit = spent, !.todo = s] \in Tick
    BY <2>2, <2>4 DEF Tick
  <2> QED BY <1>1, <2>1, <2>3, <2>5 DEF TickBegin, TypeOK
<1>2. CASE ReadState \/ EngineAsked
  <2>1. tick' \in Tick
    BY <1>2, SlowTickTyped DEF ReadState, EngineAsked
  <2> QED BY <1>2, <2>1 DEF ReadState, EngineAsked, TypeOK
<1>3. CASE StopCarriedOut
  <2>1. tick' \in Tick
    BY <1>0, <1>3, NextTyped DEF StopCarriedOut
  <2>2. CASE /\ Stopped(Current, tick.because)
             /\ rested' = [rested EXCEPT
                             ![Current] = IF /\ tick.because = "idle-timeout"
                                             /\ Unanswered(Current) = {}
                                            THEN now ELSE Never]
    <3>1. rested' \in [Templates -> Instant]
      BY <2>2, Bounds DEF TypeOK
    <3> QED BY <1>0, <1>3, <2>1, <2>2, <3>1, StopTyped DEF StopCarriedOut, TypeOK
  <2>3. CASE UNCHANGED tables
    BY <1>3, <2>1, <2>3 DEF StopCarriedOut, TypeOK
  <2> QED BY <1>3, <2>2, <2>3 DEF StopCarriedOut, Current
<1>4. CASE StopFails
  BY <1>4, NoTickTyped DEF StopFails, TypeOK
<1>5. CASE StartCarriedOut
  <2>1. tick' \in Tick /\ tick.by \in Origins
    BY <1>0, <1>5, NextTyped DEF StartCarriedOut, TypeOK, Tick
  <2>2. PICK status \in {"STARTING", "RUNNING"} : Started(Current, tick.by, status)
    BY <1>5 DEF StartCarriedOut, Current
  <2> QED BY <1>0, <1>5, <2>1, <2>2, StartTyped DEF StartCarriedOut, TypeOK
<1>6. CASE StartFails
  <2>1. tick' \in Tick
    BY <1>0, <1>6, NextTyped DEF StartFails
  <2> QED BY <1>6, <2>1 DEF StartFails, TypeOK
<1>7. ASSUME NEW t \in Templates, Serving(t) PROVE TypeOK'
  <2> DEFINE later == /\ UNCHANGED <<tables, world, tick>> /\ requests' \subseteq Request
  <2>1. CASE later
    BY <2>1 DEF TypeOK
  <2>0. row[t].run \in 0..MaxRuns /\ 0 \in 0..MaxRuns
    BY Bounds DEF TypeOK, Row
  <2>2. CASE ArriveServed(t) \/ Forward(t)
    <3>1. requests' = To(t, "sent", row[t].run) \/ requests' = To(t, "waiting", 0)
      BY <2>2 DEF ArriveServed, Forward
    <3>2. requests' \subseteq Request
      BY <2>0, <3>1, ToTyped
    <3> QED BY <2>1, <2>2, <3>2 DEF ArriveServed, Forward
  <2>3. CASE Finish(t)
    BY <2>1, <2>3 DEF Finish, TypeOK
  <2>4. CASE ArriveEarly(t)
    <3>1. requests' \subseteq Request
      BY <2>0, <2>4, ToTyped DEF ArriveEarly
    <3>2. PICK k \in Tick : k = tick
      BY DEF TypeOK
    <3>3. [k EXCEPT !.by = "client"] \in Tick
      BY DEF Tick, Origins
    <3>4. tick' \in Tick
      BY <2>4, <3>2, <3>3 DEF ArriveEarly
    <3> QED BY <2>4, <3>1, <3>4 DEF ArriveEarly, TypeOK
  <2>5. CASE ArriveAsleep(t)
    <3>1. PICK status \in {"STARTING", "RUNNING"} : Started(t, "client", status)
      BY <2>5 DEF ArriveAsleep
    <3>2. rested' \in [Templates -> Instant] /\ requests' \subseteq Request /\ "client" \in Origins
      BY <2>0, <2>5, Bounds, ToTyped DEF ArriveAsleep, TypeOK, Origins
    <3> QED BY <2>5, <3>1, <3>2, StartTyped DEF ArriveAsleep, TypeOK
  <2>6. CASE Poll(t)
    <3>1. PICK r \in Row : r = row[t]
      BY DEF TypeOK
    <3>2. [r EXCEPT !.status = "RUNNING"] \in Row
      BY DEF Row
    <3>3. row' \in [Templates -> Row]
      BY <2>6, <3>1, <3>2 DEF Poll, TypeOK
    <3> QED BY <2>6, <3>3 DEF Poll, TypeOK
  <2>7. CASE RecordUsage(t)
    <3>1. PICK entry \in Row : entry = row[t]
      BY DEF TypeOK
    <3>2. PICK yes \in BOOLEAN : row' = [row EXCEPT ![t].served = entry.served \/ yes]
      BY <2>7, <3>1 DEF RecordUsage
    <3>3. row' \in [Templates -> Row]
      <4>1. [entry EXCEPT !.served = entry.served \/ yes] \in Row
        BY <3>1 DEF Row
      <4> QED BY <3>1, <3>2, <4>1 DEF TypeOK
    <3>4. lastRequestAt' \in [Templates -> Instant] /\ requests' \subseteq Request
      BY <2>0, <2>7, Bounds, ToTyped DEF RecordUsage, TypeOK
    <3> QED BY <2>7, <3>3, <3>4 DEF RecordUsage, TypeOK
  <2> QED BY <1>7, <2>2, <2>3, <2>4, <2>5, <2>6, <2>7 DEF Serving
<1>8. ASSUME NEW t \in Templates, UserStarts(t) PROVE TypeOK'
  <2>1. CASE UNCHANGED tick
    <3>1. CASE UNCHANGED tables
      BY <1>8, <2>1, <3>1 DEF UserStarts, TypeOK
    <3>2. CASE ~ UNCHANGED tables
      <4>1. PICK status \in {"STARTING", "RUNNING"} : Started(t, "user", status)
        BY <1>8, <3>2 DEF UserStarts
      <4>2. rested' \in [Templates -> Instant] /\ "user" \in Origins
        BY <1>8, <3>2, Bounds DEF UserStarts, TypeOK, Origins
      <4> QED BY <1>8, <2>1, <4>1, <4>2, StartTyped DEF UserStarts, TypeOK
    <3> QED BY <3>1, <3>2
  <2>2. CASE tick' = [tick EXCEPT !.by = "user"] /\ UNCHANGED tables
    <3>1. PICK k \in Tick : k = tick
      BY DEF TypeOK
    <3>2. [k EXCEPT !.by = "user"] \in Tick
      BY DEF Tick, Origins
    <3> QED BY <1>8, <2>2, <3>1, <3>2 DEF UserStarts, TypeOK
  <2> QED BY <1>8, <2>1, <2>2 DEF UserStarts
<1>9. ASSUME NEW t \in Templates, UserStops(t) PROVE TypeOK'
  <2>1. rested' \in [Templates -> Instant]
    BY <1>9, Bounds DEF UserStops, TypeOK
  <2> QED BY <1>9, <2>1, StopTyped DEF UserStops, TypeOK
<1>10. ASSUME NEW t \in Templates, EngineMoves(t) PROVE TypeOK'
  <2>1. engine' \in [Templates -> BOOLEAN]
    BY <1>10 DEF EngineMoves, TypeOK
  <2> QED BY <1>10, <2>1 DEF EngineMoves, TypeOK
<1>11. CASE ClockMoves
  <2>1. now' \in Instants
    BY <1>11, Bounds DEF ClockMoves, TypeOK, Instants
  <2> QED BY <1>11, <2>1 DEF ClockMoves, TypeOK
<1>12. CASE SpendMoves \/ KeyEntered
  BY <1>12 DEF SpendMoves, KeyEntered, TypeOK
<1> QED
  BY <1>1, <1>2, <1>3, <1>4, <1>5, <1>6, <1>7, <1>8, <1>9, <1>10, <1>11, <1>12 DEF Next, TickStep

-----------------------------------------------------------------------------
(* Ticks stay sound.                                                       *)
LEMMA SoundStays ==
  ASSUME TypeOK, TickOK, tick.phase # "idle", NEW k, k.todo = tick.todo, k.at = tick.at,
         NEW stopped, \A t \in Templates : stopped[t] = rested[t] \/ stopped[t] = Never,
         NEW clock \in Int, now <= clock
  PROVE  Sound(k, stopped, clock)
<1> DEFINE s == tick.todo
<1>1. s \in Seq(Templates) /\ s # <<>> /\ Injective(s)
  BY DEF TypeOK, Tick, TickOK, Sound
<1>2. tick.at \in Int /\ tick.at >= 0 /\ tick.at <= now /\ now \in Int
  BY Bounds DEF TypeOK, Tick, TickOK, Sound, Instant, Instants
<1>3. ASSUME NEW i \in 1..Len(s) PROVE stopped[s[i]] <= tick.at
  <2>1. s[i] \in Templates /\ rested[s[i]] <= tick.at
    BY <1>1, <1>3 DEF TickOK, Sound
  <2> QED BY <1>2, <2>1, Bounds
<1>4. k.at # Never /\ k.at <= clock
  BY <1>2, Bounds
<1> QED BY <1>1, <1>3, <1>4 DEF Sound

LEMMA TicksKept == TypeOK /\ TickOK /\ RunsOK /\ [Next]_vars => TickOK'
<1> SUFFICES ASSUME TypeOK, TickOK, RunsOK, [Next]_vars PROVE Sound(tick', rested', now')
  BY DEF TickOK
<1> USE DEF tables, world
<1>0. now \in Int /\ now <= now /\ tick \in Tick
  BY Bounds DEF TypeOK
<1>1. CASE tick' = tick /\ rested' = rested /\ now' = now
  BY <1>1 DEF TickOK
<1>2. CASE TickBegin
  <2>1. PICK s \in Orders(ScheduledTemplates) :
          s # <<>> /\ tick' = [NoTick EXCEPT !.phase = "each", !.at = now, !.limit = spent, !.todo = s]
    BY <1>2 DEF TickBegin
  <2>2. s \in Seq(Templates) /\ Injective(s)
    BY OrdersTyped DEF ScheduledTemplates
  <2>3. tick'.todo = s /\ tick'.at = now
    BY <2>1 DEF NoTick
  <2>4. now # Never /\ now <= now
    BY Bounds DEF TypeOK
  <2>5. \A i \in 1..Len(s) : rested[s[i]] <= now
    BY <2>2 DEF RunsOK
  <2> QED BY <1>2, <2>1, <2>2, <2>3, <2>4, <2>5 DEF TickBegin, Sound
<1>3. CASE ReadState
  <2>1. CASE tick' = [tick EXCEPT !.phase = "ask", !.seen = row[Current],
                                  !.busy = requests # {}, !.used = lastRequestAt[Current]]
    <3>1. tick'.todo = tick.todo /\ tick'.at = tick.at
      BY <1>0, <2>1 DEF Tick
    <3> QED BY <1>0, <1>3, <3>1, SoundStays DEF ReadState
  <2> QED BY <1>3, <2>1, AppliedSound DEF ReadState, Current
<1>4. CASE EngineAsked
  BY <1>4, AppliedSound DEF EngineAsked
<1>5. CASE StopCarriedOut
  <2>1. \A t \in Templates : t # Current => rested'[t] = rested[t]
    BY <1>5 DEF StopCarriedOut, TypeOK, Current
  <2>2. Sound(NextTemplate, rested', now)
    BY <1>5, <2>1, NextSound DEF StopCarriedOut
  <2> QED BY <1>5, <2>2 DEF StopCarriedOut
<1>6. CASE StopFails
  BY <1>6 DEF StopFails, NoTick, Sound
<1>7. CASE StartCarriedOut \/ StartFails
  <2>1. Sound(NextTemplate, rested, now)
    BY <1>7, NextSound DEF StartCarriedOut, StartFails
  <2> QED BY <1>7, <2>1 DEF StartCarriedOut, StartFails
<1>8. ASSUME NEW by, tick.phase = "start", tick' = [tick EXCEPT !.by = by], rested' = rested, now' = now
      PROVE  Sound(tick', rested', now')
  <2>1. tick'.todo = tick.todo /\ tick'.at = tick.at
    BY <1>0, <1>8 DEF Tick
  <2>2. Sound(tick', rested, now)
    BY <1>0, <1>8, <2>1, SoundStays
  <2> QED BY <1>8, <2>2
<1>9. ASSUME NEW t, tick' = tick, rested' = [rested EXCEPT ![t] = Never], now' = now
      PROVE  Sound(tick', rested', now')
  <2>1. \A o \in Templates : rested'[o] = rested[o] \/ rested'[o] = Never
    BY <1>9 DEF TypeOK
  <2>2. CASE tick.phase = "idle"
    BY <1>9, <2>2 DEF Sound
  <2>3. CASE tick.phase # "idle"
    <3>1. Sound(tick, rested', now)
      BY <1>0, <2>1, <2>3, SoundStays
    <3> QED BY <1>9, <3>1
  <2> QED BY <2>2, <2>3
<1>10. ASSUME NEW t \in Templates, Serving(t) PROVE Sound(tick', rested', now')
  <2>1. CASE ArriveEarly(t)
    BY <1>1, <1>8, <2>1 DEF ArriveEarly
  <2>2. CASE ArriveAsleep(t)
    BY <1>9, <2>2 DEF ArriveAsleep
  <2> QED BY <1>1, <1>10, <2>1, <2>2 DEF Serving, ArriveServed, Poll, Forward, RecordUsage, Finish
<1>11. ASSUME NEW t \in Templates, UserStarts(t) PROVE Sound(tick', rested', now')
  BY <1>8, <1>9, <1>11 DEF UserStarts
<1>12. ASSUME NEW t \in Templates, UserStops(t) PROVE Sound(tick', rested', now')
  BY <1>9, <1>12 DEF UserStops
<1>13. CASE ClockMoves
  <2>1. CASE tick.phase = "idle"
    BY <1>13, <2>1 DEF ClockMoves, Sound
  <2>2. CASE tick.phase # "idle"
    BY <1>0, <1>13, <2>2, SoundStays DEF ClockMoves
  <2> QED BY <2>1, <2>2
<1>14. CASE SpendMoves \/ KeyEntered \/ (\E t \in Templates : EngineMoves(t)) \/ UNCHANGED vars
  BY <1>1, <1>14 DEF SpendMoves, KeyEntered, EngineMoves, vars
<1> QED
  BY <1>2, <1>3, <1>4, <1>5, <1>6, <1>7, <1>10, <1>11, <1>12, <1>13, <1>14 DEF Next, TickStep

-----------------------------------------------------------------------------
(* Runs and the usage table.                                               *)
LEMMA TableTypes ==
  ASSUME TypeOK
  PROVE  /\ now \in Int /\ now >= 0 /\ runs \in Int
         /\ \A t \in Templates :
              /\ row[t] \in Row /\ row[t].run \in Int /\ row[t].since \in Int
              /\ rested[t] \in Int /\ lastRequestAt[t] \in Int /\ idleStoppedAt[t] \in Int
<1>1. now \in Int /\ now >= 0 /\ runs \in Int
  BY Bounds DEF TypeOK, Instants
<1>2. ASSUME NEW t \in Templates
      PROVE  /\ row[t] \in Row
             /\ rested[t] \in Int /\ lastRequestAt[t] \in Int /\ idleStoppedAt[t] \in Int
  BY Bounds DEF TypeOK
<1>3. ASSUME NEW r \in Row PROVE r.run \in Int /\ r.since \in Int
  <2>1. r.run \in 0..MaxRuns /\ r.since \in Instant
    BY DEF Row
  <2>2. r.since \in Int
    BY <2>1, Bounds
  <2>3. r.run \in Int
    BY <2>1
  <2> QED BY <2>2, <2>3
<1> QED BY <1>1, <1>2, <1>3

(* Which requests are unanswered after one of a template has moved on.     *)
LEMMA OpenAfter ==
  ASSUME NEW t, NEW phase, NEW run,
         requests' = To(t, phase, run) \/ requests' = requests \ Asks(t)
  PROVE  /\ \A o : o # t => Unanswered(o)' = Unanswered(o)
         /\ \A r \in Unanswered(t)' : r.run = run /\ phase = "sent"
BY DEF To, Asks, Unanswered

LEMMA StartedRuns ==
  ASSUME TypeOK, RunsOK, NEW t \in Templates, NEW by, NEW status \in {"STARTING", "RUNNING"},
         Started(t, by, status), now' = now,
         \A o \in Templates : Unanswered(o)' \subseteq Unanswered(o),
         rested' = rested \/ rested' = [rested EXCEPT ![t] = Never]
  PROVE  RunsOK'
<1> SUFFICES ASSUME NEW o \in Templates
             PROVE  /\ row'[o].run <= runs'
                    /\ row'[o].status # "none" => row'[o].run > 0
                    /\ lastRequestAt'[o] <= now' /\ rested'[o] <= now'
                    /\ Accounted(row'[o], Unanswered(o)', lastRequestAt'[o], idleStoppedAt'[o],
                                 rested'[o])
  BY DEF RunsOK, Up
<1>1. /\ runs' = runs + 1 /\ lastRequestAt' = lastRequestAt
      /\ row[o].run <= runs /\ runs >= 0 /\ lastRequestAt[o] <= now /\ rested'[o] <= now
  BY TableTypes, Bounds DEF Started, RunsOK, TypeOK
<1>2. CASE o = t
  <2>1. /\ row'[o].run = runs + 1 /\ row'[o].status # "none" /\ row'[o].since = now
        /\ row'[o].clean => Unanswered(o) = {}
    BY <1>2 DEF Started, TypeOK
  <2>2. row'[o].clean => Unanswered(o)' = {}
    BY <2>1
  <2> QED BY <1>1, <2>1, <2>2, TableTypes DEF Accounted
<1>3. CASE o # t
  <2>1. row'[o] = row[o] /\ rested'[o] = rested[o] /\ idleStoppedAt'[o] = idleStoppedAt[o]
    BY <1>3 DEF Started, TypeOK
  <2> QED BY <1>1, <2>1, TableTypes DEF RunsOK, Up, Accounted
<1> QED BY <1>2, <1>3

LEMMA StoppedRuns ==
  ASSUME TypeOK, RunsOK, NEW t \in Templates, NEW because, Stopped(t, because), now' = now,
         requests' = requests,
         rested' = [rested EXCEPT ![t] =
                      IF because = "idle-timeout" /\ Unanswered(t) = {} THEN now ELSE Never]
  PROVE  RunsOK'
<1> SUFFICES ASSUME NEW o \in Templates
             PROVE  /\ row'[o].run <= runs'
                    /\ row'[o].status # "none" => row'[o].run > 0
                    /\ lastRequestAt'[o] <= now' /\ rested'[o] <= now'
                    /\ Accounted(row'[o], Unanswered(o)', lastRequestAt'[o], idleStoppedAt'[o],
                                 rested'[o])
  BY DEF RunsOK, Up
<1>1. /\ runs' = runs /\ lastRequestAt' = lastRequestAt /\ runs >= 0
      /\ row[o].run <= runs /\ lastRequestAt[o] <= now
  BY TableTypes, Bounds DEF Stopped, RunsOK, TypeOK
<1>2. CASE o = t
  <2>1. row'[o].run = 0 /\ row'[o].status = "none"
    BY <1>2 DEF Stopped, TypeOK, NoRow
  <2>2. \/ rested'[o] = Never
        \/ rested'[o] = now /\ idleStoppedAt'[o] = now /\ Unanswered(o)' = {}
    BY <1>2 DEF Stopped, TypeOK, Unanswered
  <2> QED BY <1>1, <2>1, <2>2, TableTypes, Bounds DEF Accounted
<1>3. CASE o # t
  <2>1. row'[o] = row[o] /\ rested'[o] = rested[o] /\ idleStoppedAt'[o] = idleStoppedAt[o]
    BY <1>3 DEF Stopped, TypeOK
  <2>2. Unanswered(o)' = Unanswered(o)
    BY DEF Unanswered
  <2> QED BY <1>1, <2>1, <2>2, TableTypes DEF RunsOK, Up
<1> QED BY <1>2, <1>3

LEMMA RunsKept == TypeOK /\ TickOK /\ RunsOK /\ [Next]_vars => RunsOK'
<1> SUFFICES ASSUME TypeOK, TickOK, RunsOK, [Next]_vars PROVE RunsOK'
  OBVIOUS
<1> USE DEF tables, world
<1>0. tick.phase # "idle" => Current \in Templates
  BY DEF TickOK, Sound, TypeOK, Tick, Current
<1>a. requests' = requests => \A o \in Templates : Unanswered(o)' = Unanswered(o)
  BY DEF Unanswered
<1>1. CASE /\ UNCHANGED tables /\ now' = now
           /\ \A o \in Templates : Unanswered(o)' \subseteq Unanswered(o)
  BY <1>1 DEF RunsOK, Up, Accounted
<1>2. CASE StopCarriedOut
  BY <1>0, <1>1, <1>2, <1>a, StoppedRuns DEF StopCarriedOut, Current
<1>3. CASE StartCarriedOut
  BY <1>0, <1>3, <1>a, StartedRuns DEF StartCarriedOut, Current
<1>4. ASSUME NEW t \in Templates, Poll(t) PROVE RunsOK'
  <2> SUFFICES ASSUME NEW o \in Templates
               PROVE  /\ row'[o].run = row[o].run /\ (row'[o].status = "none" <=> row[o].status = "none")
                      /\ row'[o].served = row[o].served /\ row'[o].since = row[o].since
                      /\ row'[o].clean = row[o].clean
    BY <1>4, <1>a DEF RunsOK, Up, Poll, Accounted
  <2>1. PICK r \in Row : r = row[o]
    BY TableTypes
  <2>2. CASE o = t
    <3>1. row'[o] = [r EXCEPT !.status = "RUNNING"]
      BY <1>4, <2>1, <2>2 DEF Poll, TypeOK
    <3> QED BY <1>4, <2>1, <2>2, <3>1 DEF Row, Poll
  <2>3. CASE o # t
    BY <1>4, <2>3 DEF Poll, TypeOK
  <2> QED BY <2>2, <2>3
<1>5. ASSUME NEW t \in Templates, RecordUsage(t) PROVE RunsOK'
  <2> SUFFICES ASSUME NEW o \in Templates
               PROVE  /\ row'[o].run <= runs'
                      /\ row'[o].status # "none" => row'[o].run > 0
                      /\ lastRequestAt'[o] <= now' /\ rested'[o] <= now'
                      /\ Accounted(row'[o], Unanswered(o)', lastRequestAt'[o], idleStoppedAt'[o],
                                   rested'[o])
    BY DEF RunsOK, Up
  <2>0. /\ runs' = runs /\ now' = now /\ rested' = rested /\ idleStoppedAt' = idleStoppedAt
        /\ requests' = To(t, "answering", 0)
    BY <1>5 DEF RecordUsage
  <2>1. PICK entry \in Row : entry = row[o]
    BY TableTypes
  <2>2. CASE o = t
    <3>1. PICK r \in Unanswered(t) :
            row' = [row EXCEPT ![t].served = @ \/ row[t].run = r.run]
      BY <1>5 DEF RecordUsage
    <3>2. row'[o] = [entry EXCEPT !.served = entry.served \/ entry.run = r.run]
      BY <2>1, <2>2, <3>1 DEF TypeOK
    <3>3. /\ row'[o].run = entry.run /\ row'[o].status = entry.status
          /\ row'[o].clean = entry.clean /\ (entry.run = r.run => row'[o].served)
      BY <3>2 DEF Row
    <3>4. lastRequestAt'[o] = now /\ Unanswered(o)' = {}
      BY <1>5, <2>0, <2>2, OpenAfter DEF RecordUsage, TypeOK
    <3>5. Accounted(entry, Unanswered(o), lastRequestAt[o], idleStoppedAt[o], rested[o])
      BY <2>1 DEF RunsOK
    <3>6. /\ entry.status # "none" /\ entry.clean => entry.run = r.run
          /\ entry.status = "none" => rested[o] = Never
      BY <2>2, <3>1, <3>5 DEF Accounted
    <3>7. Accounted(row'[o], Unanswered(o)', lastRequestAt'[o], idleStoppedAt'[o], rested'[o])
      BY <2>0, <3>3, <3>4, <3>6 DEF Accounted
    <3>8. entry.run <= runs /\ (entry.status # "none" => entry.run > 0) /\ rested[o] <= now
      BY <2>1 DEF RunsOK, Up
    <3> QED BY <2>0, <3>3, <3>4, <3>7, <3>8, TableTypes
  <2>3. CASE o # t
    <3>1. row'[o] = row[o] /\ lastRequestAt'[o] = lastRequestAt[o]
      BY <1>5, <2>3 DEF RecordUsage, TypeOK
    <3>2. Unanswered(o)' = Unanswered(o)
      BY <2>0, <2>3, OpenAfter
    <3> QED BY <2>0, <3>1, <3>2 DEF RunsOK, Up
  <2> QED BY <2>2, <2>3
<1>b. ASSUME NEW t \in Templates, NEW phase, NEW run, phase # "sent",
             requests' = To(t, phase, run) \/ requests' = requests \ Asks(t)
      PROVE  \A o \in Templates : Unanswered(o)' \subseteq Unanswered(o)
  <2>1. /\ \A o : o # t => Unanswered(o)' = Unanswered(o)
        /\ \A r \in Unanswered(t)' : phase = "sent"
    BY <1>b, OpenAfter
  <2> QED BY <1>b, <2>1
<1>6. ASSUME NEW t \in Templates, ArriveAsleep(t) PROVE RunsOK'
  <2>1. \A o \in Templates : Unanswered(o)' \subseteq Unanswered(o)
    BY <1>6, <1>b DEF ArriveAsleep
  <2> QED BY <1>6, <2>1, StartedRuns DEF ArriveAsleep
<1>7. ASSUME NEW t \in Templates, UserStarts(t) PROVE RunsOK'
  BY <1>1, <1>7, <1>a, StartedRuns DEF UserStarts
<1>8. ASSUME NEW t \in Templates, UserStops(t) PROVE RunsOK'
  BY <1>8, StoppedRuns DEF UserStops
<1>9. ASSUME NEW t \in Templates, EngineMoves(t) PROVE RunsOK'
  BY <1>9, <1>a DEF EngineMoves, RunsOK, Up
<1>10. CASE ClockMoves
  <2>1. \A t \in Templates : lastRequestAt[t] <= now' /\ rested[t] <= now'
    BY <1>10, TableTypes DEF ClockMoves, RunsOK
  <2> QED BY <1>10, <1>a, <2>1 DEF ClockMoves, RunsOK, Up
<1>11. CASE UNCHANGED vars
  BY <1>1, <1>11, <1>a DEF vars
<1>12. CASE TickBegin \/ ReadState \/ EngineAsked \/ StopFails \/ StartFails \/ SpendMoves \/ KeyEntered
  BY <1>1, <1>12, <1>a
    DEF TickBegin, ReadState, EngineAsked, StopFails, StartFails, SpendMoves, KeyEntered
<1>13. ASSUME NEW t \in Templates, ArriveEarly(t) \/ Finish(t) PROVE RunsOK'
  <2>1. \A o \in Templates : Unanswered(o)' \subseteq Unanswered(o)
    BY <1>13, <1>b DEF ArriveEarly, Finish
  <2> QED BY <1>1, <1>13, <2>1 DEF ArriveEarly, Finish
<1>14. ASSUME NEW t \in Templates, ArriveServed(t) \/ Forward(t) PROVE RunsOK'
  <2>1. UNCHANGED tables /\ now' = now
    BY <1>14 DEF ArriveServed, Forward
  <2>2. CASE requests' = To(t, "waiting", 0)
    BY <1>1, <1>b, <2>1, <2>2
  <2>3. CASE row[t].status = "RUNNING" /\ requests' = To(t, "sent", row[t].run)
    <3>1. /\ \A o : o # t => Unanswered(o)' = Unanswered(o)
          /\ \A r \in Unanswered(t)' : r.run = row[t].run
      BY <2>3, OpenAfter
    <3> QED BY <2>1, <2>3, <3>1 DEF RunsOK, Up, Accounted
  <2> QED BY <1>14, <2>2, <2>3 DEF ArriveServed, Forward, EngineAnswers
<1> QED
  BY <1>2, <1>3, <1>4, <1>5, <1>6, <1>7, <1>8, <1>9, <1>10, <1>11, <1>12, <1>13, <1>14
    DEF Next, TickStep, Serving

-----------------------------------------------------------------------------
(* What a tick has seen stays what it was, of the run it has seen.         *)
Seen(used, seen) ==
  /\ seen.status = "RUNNING" /\ seen.run > 0 /\ seen.run <= runs
  /\ used <= lastRequestAt[Current]
  /\ row[Current].run = seen.run =>
       /\ row[Current].by = seen.by
       /\ row[Current].startedAt = seen.startedAt
       /\ row[Current].since = seen.since

LEMMA SeenKept == TypeOK /\ TickOK /\ RunsOK /\ SeenOK /\ [Next]_vars => SeenOK'
<1> SUFFICES ASSUME TypeOK, TickOK, RunsOK, SeenOK, [Next]_vars PROVE SeenOK'
  OBVIOUS
<1> USE DEF tables, world
<1>0. /\ tick \in Tick
      /\ tick.phase # "idle" => Current \in Templates
  BY DEF TickOK, Sound, TypeOK, Tick, Current
<1>1. CASE tick'.phase # "ask"
  BY <1>1 DEF SeenOK
<1>2. CASE /\ tick' = tick /\ runs' = runs /\ lastRequestAt' = lastRequestAt
           /\ \A t \in Templates : /\ row'[t].run = row[t].run /\ row'[t].by = row[t].by
                                   /\ row'[t].startedAt = row[t].startedAt
                                   /\ row'[t].since = row[t].since
  BY <1>0, <1>2 DEF SeenOK, Current
<1>3. CASE tick' = tick /\ UNCHANGED tables
  BY <1>2, <1>3
<1>4. CASE ReadState /\ tick'.phase = "ask"
  <2>1. ASSUME NEW action PROVE tick' # Apply(Current, action)
    BY <1>4, AppliedAsksNot
  <2>2. /\ tick' = [tick EXCEPT !.phase = "ask", !.seen = row[Current],
                                !.busy = requests # {}, !.used = lastRequestAt[Current]]
        /\ row[Current].status = "RUNNING" /\ UNCHANGED tables /\ tick.phase = "each"
    BY <1>4, <2>1 DEF ReadState, Current
  <2>3. /\ tick'.todo = tick.todo /\ tick'.seen = row[Current] /\ tick'.used = lastRequestAt[Current]
    BY <1>0, <2>2 DEF Tick
  <2>4. Current' = Current /\ row' = row /\ lastRequestAt' = lastRequestAt /\ runs' = runs
    BY <2>2, <2>3 DEF Current
  <2>5. /\ row[Current].run > 0 /\ row[Current].run <= runs
        /\ lastRequestAt[Current] <= lastRequestAt[Current]
    BY <1>0, <2>2, TableTypes DEF RunsOK, Up
  <2> QED BY <2>2, <2>3, <2>4, <2>5 DEF SeenOK
<1>5. CASE TickBegin \/ StopFails
  <2>1. ASSUME NEW s, tick' = [NoTick EXCEPT !.phase = "each", !.at = now, !.limit = spent, !.todo = s]
        PROVE  tick'.phase = "each"
    BY <2>1 DEF NoTick
  <2>2. NoTick.phase = "idle"
    BY DEF NoTick
  <2> QED BY <1>1, <1>5, <2>1, <2>2 DEF TickBegin, StopFails
<1>6. CASE EngineAsked
  BY <1>1, <1>6, AppliedAsksNot DEF EngineAsked
<1>7. CASE StopCarriedOut \/ StartCarriedOut \/ StartFails
  <2>1. NextTemplate.phase # "ask"
    BY DEF NextTemplate, NoTick
  <2> QED BY <1>1, <1>7, <2>1 DEF StopCarriedOut, StartCarriedOut, StartFails
<1>8. ASSUME NEW t \in Templates, NEW by, NEW status, Started(t, by, status), tick' = tick
      PROVE  SeenOK'
  <2> SUFFICES ASSUME tick.phase = "ask" PROVE Seen(tick.used, tick.seen)'
    BY <1>8 DEF SeenOK, Seen
  <2>0. Current \in Templates /\ Current' = Current /\ Seen(tick.used, tick.seen)
    BY <1>0, <1>8 DEF Current, SeenOK, Seen
  <2>1. runs' = runs + 1 /\ lastRequestAt' = lastRequestAt /\ runs \in Int
    BY <1>8, TableTypes DEF Started
  <2>2. tick.seen.run \in Int
    <3>1. \A r \in Row : r.run \in Int
      BY Bounds DEF Row
    <3> QED BY <1>0, <3>1 DEF Tick
  <2>3. row'[Current] = row[Current] \/ row'[Current].run = runs + 1
    BY <1>8, <2>0 DEF Started, TypeOK
  <2> QED BY <1>8, <2>0, <2>1, <2>2, <2>3 DEF Seen
<1>9. ASSUME NEW t \in Templates, NEW because, Stopped(t, because), tick' = tick
      PROVE  SeenOK'
  <2> SUFFICES ASSUME tick.phase = "ask" PROVE Seen(tick.used, tick.seen)'
    BY <1>9 DEF SeenOK, Seen
  <2>0. Current \in Templates /\ Current' = Current /\ Seen(tick.used, tick.seen)
    BY <1>0, <1>9 DEF Current, SeenOK, Seen
  <2>1. runs' = runs /\ lastRequestAt' = lastRequestAt
    BY <1>9 DEF Stopped
  <2>2. row'[Current] = row[Current] \/ row'[Current].run = 0
    BY <1>9, <2>0 DEF Stopped, TypeOK, NoRow
  <2> QED BY <1>9, <2>0, <2>1, <2>2 DEF Seen
<1>10. ASSUME NEW t \in Templates, Poll(t) PROVE SeenOK'
  <2> SUFFICES ASSUME NEW o \in Templates
               PROVE  /\ row'[o].run = row[o].run /\ row'[o].by = row[o].by
                      /\ row'[o].startedAt = row[o].startedAt /\ row'[o].since = row[o].since
    BY <1>2, <1>10 DEF Poll
  <2>1. PICK r \in Row : r = row[o]
    BY TableTypes
  <2>2. row'[o] = r \/ row'[o] = [r EXCEPT !.status = "RUNNING"]
    BY <1>10, <2>1 DEF Poll, TypeOK
  <2> QED BY <2>1, <2>2 DEF Row
<1>11. ASSUME NEW t \in Templates, RecordUsage(t) PROVE SeenOK'
  <2> SUFFICES ASSUME tick.phase = "ask" PROVE Seen(tick.used, tick.seen)'
    BY <1>11 DEF SeenOK, Seen, RecordUsage
  <2>0. /\ Current \in Templates /\ Current' = Current /\ Seen(tick.used, tick.seen)
        /\ runs' = runs /\ tick' = tick
    BY <1>0, <1>11 DEF Current, SeenOK, Seen, RecordUsage
  <2>1. PICK r \in Row : r = row[Current]
    BY <2>0, TableTypes
  <2>2. \E yes : row'[Current] = r \/ row'[Current] = [r EXCEPT !.served = yes]
    <3>1. PICK q \in Unanswered(t) : row' = [row EXCEPT ![t].served = @ \/ row[t].run = q.run]
      BY <1>11 DEF RecordUsage
    <3>2. CASE t = Current
      <4>1. row'[Current] = [r EXCEPT !.served = r.served \/ r.run = q.run]
        BY <2>0, <2>1, <3>1, <3>2 DEF TypeOK
      <4> QED BY <4>1
    <3>3. CASE t # Current
      BY <2>0, <2>1, <3>1, <3>3 DEF TypeOK
    <3> QED BY <3>2, <3>3
  <2>3. lastRequestAt[Current] <= lastRequestAt'[Current]
    <3>1. lastRequestAt[Current] <= now /\ lastRequestAt[Current] \in Int
      BY <2>0, TableTypes DEF RunsOK
    <3>2. lastRequestAt'[Current] = lastRequestAt[Current] \/ lastRequestAt'[Current] = now
      BY <1>11, <2>0 DEF RecordUsage, TypeOK
    <3> QED BY <3>1, <3>2
  <2>4. tick.used <= lastRequestAt'[Current]
    <3>1. tick.used \in Int /\ lastRequestAt[Current] \in Int /\ lastRequestAt'[Current] \in Int
      <4>1. tick.used \in Int
        BY <1>0, Bounds DEF Tick
      <4>2. lastRequestAt[Current] \in Int /\ lastRequestAt'[Current] \in Int
        BY <1>11, <2>0, TableTypes DEF RecordUsage, TypeOK
      <4> QED BY <4>1, <4>2
    <3> QED BY <2>0, <2>3, <3>1 DEF Seen
  <2>5. /\ row'[Current].run = r.run /\ row'[Current].by = r.by
        /\ row'[Current].startedAt = r.startedAt /\ row'[Current].since = r.since
    BY <2>2 DEF Row
  <2> QED BY <2>0, <2>1, <2>4, <2>5 DEF Seen
<1>12. ASSUME NEW t \in Templates, ArriveAsleep(t) PROVE SeenOK'
  BY <1>8, <1>12 DEF ArriveAsleep
<1>13. ASSUME NEW t \in Templates, NEW by, tick.phase = "start", tick' = [tick EXCEPT !.by = by]
       PROVE  SeenOK'
  <2>1. tick'.phase = "start"
    BY <1>0, <1>13 DEF Tick
  <2> QED BY <1>1, <2>1
<1>14. ASSUME NEW t \in Templates, UserStarts(t) \/ ArriveEarly(t) PROVE SeenOK'
  BY <1>3, <1>8, <1>13, <1>14 DEF UserStarts, ArriveEarly
<1>15. ASSUME NEW t \in Templates, UserStops(t) PROVE SeenOK'
  BY <1>9, <1>15 DEF UserStops
<1>16. ASSUME NEW t \in Templates,
              EngineMoves(t) \/ ArriveServed(t) \/ Forward(t) \/ Finish(t)
       PROVE  SeenOK'
  BY <1>2, <1>16 DEF EngineMoves, ArriveServed, Forward, Finish
<1>17. CASE ClockMoves \/ SpendMoves \/ KeyEntered \/ UNCHANGED vars
  BY <1>3, <1>17 DEF ClockMoves, SpendMoves, KeyEntered, vars
<1> QED
  BY <1>1, <1>4, <1>5, <1>6, <1>7, <1>10, <1>11, <1>12, <1>14, <1>15, <1>16, <1>17
    DEF Next, TickStep, Serving

-----------------------------------------------------------------------------
LEMMA Inductive == Spec => []IInv
<1>1. IInv /\ [Next]_vars => IInv'
  BY TypesKept, TicksKept, RunsKept, SeenKept DEF IInv
<1> QED BY <1>1, Base, PTL DEF Spec

(* The tables and what a tick holds of them stay what the columns and the  *)
(* fields of scheduler.ts are for.                                         *)
THEOREM TypeCorrect == Spec => []TypeOK
<1>1. IInv => TypeOK
  BY DEF IInv
<1> QED BY <1>1, Inductive, PTL

-----------------------------------------------------------------------------
(* What is decided, and when.                                              *)
LEMMA Outcome ==
  ASSUME TypeOK, NEW t, NEW action
  PROVE  /\ Apply(t, action).phase = "stop" =>
              action.do = "stop" /\ Up(t) /\ Apply(t, action).because = action.because
         /\ Apply(t, action).phase = "start" => action.do = "start" /\ ~Up(t)
<1>1. PICK k \in Tick : k = tick
  BY DEF TypeOK
<1>2. /\ [k EXCEPT !.phase = "stop", !.because = action.because, !.run = row[t].run].phase = "stop"
      /\ [k EXCEPT !.phase = "stop", !.because = action.because, !.run = row[t].run].because
           = action.because
      /\ [k EXCEPT !.phase = "start"].phase = "start"
  BY DEF Tick
<1>3. NextTemplate.phase \in {"idle", "each"}
  BY DEF NextTemplate, NoTick
<1> QED BY <1>1, <1>2, <1>3 DEF Apply

LEMMA OnlyTicksDecide ==
  ASSUME TypeOK, Next, NEW phase \in {"stop", "start"}, Decides(phase)
  PROVE  ReadState \/ EngineAsked
<1>1. tick.phase \in {"each", "ask"} /\ tick' # tick
  BY DEF Decides
<1>2. ~TickBegin /\ ~StopCarriedOut /\ ~StopFails /\ ~StartCarriedOut /\ ~StartFails
  BY <1>1 DEF TickBegin, StopCarriedOut, StopFails, StartCarriedOut, StartFails
<1>3. ASSUME NEW t \in Templates
      PROVE  ~Serving(t) /\ ~UserStarts(t) /\ ~UserStops(t) /\ ~EngineMoves(t)
  BY <1>1 DEF Serving, ArriveServed, ArriveEarly, ArriveAsleep, Poll, Forward, RecordUsage,
              Finish, UserStarts, UserStops, EngineMoves
<1>4. ~ClockMoves /\ ~SpendMoves /\ ~KeyEntered
  BY <1>1 DEF ClockMoves, SpendMoves, KeyEntered
<1> QED BY <1>2, <1>3, <1>4 DEF Next, TickStep

(* The schedule stops no pod a person started before it was used.          *)
LEMMA HoursSpare ==
  ASSUME NEW s, NEW pod, NEW limit \in Limits, NEW at,
         Decide(s, pod, limit, at).do = "stop",
         Decide(s, pod, limit, at).because = "outside-schedule"
  PROVE  pod.status = "RUNNING" /\ (pod.startedManually => HasBeenUsed(pod))
<1>1. limit # "outside-schedule"
  BY SchedulerAssumption DEF Limits
<1> QED BY <1>1 DEF Decide, Do

LEMMA UsedIsServed ==
  ASSUME IInv, tick.phase = "ask", Up(Current), NEW ready, HasBeenUsed(
           PodState(tick.seen, tick.used, Never, ready, tick.busy)),
         row[Current].run = tick.seen.run, row[Current].startedAt = row[Current].since,
         row[Current].clean
  PROVE  row[Current].served
<1>1. Current \in Templates /\ tick \in Tick
  BY DEF IInv, TickOK, Sound, TypeOK, Tick, Current
<1>2. tick.used > row[Current].since
  BY DEF IInv, SeenOK, HasBeenUsed, PodState
<1>3. tick.used <= lastRequestAt[Current]
  BY DEF IInv, SeenOK
<1>4. tick.used \in Int /\ lastRequestAt[Current] \in Int /\ row[Current].since \in Int
  BY <1>1, Bounds, TableTypes DEF IInv, Tick
<1>5. ~row[Current].served => lastRequestAt[Current] <= row[Current].since
  BY <1>1 DEF IInv, RunsOK, Accounted, Up
<1> QED BY <1>2, <1>3, <1>4, <1>5

(* The end of the hours takes no pod that a person started, in the run the *)
(* tick has looked at, and that nobody could use yet: if no request to an  *)
(* earlier run was unanswered when it began, one recorded since then was   *)
(* sent to this run.                                                       *)
THEOREM ManualUntilUsedAlways == Spec => ManualUntilUsed
<1> DEFINE Kept ==
      /\ Decides("stop") /\ tick'.because = "outside-schedule"
      /\ row[Current].run = tick.seen.run
      /\ row[Current].startedAt = row[Current].since
      /\ row[Current].by = "user" /\ row[Current].clean
      => row[Current].served
<1>1. IInv /\ [Next]_vars => [Kept]_vars
  <2> SUFFICES ASSUME IInv, Next, Decides("stop"), tick'.because = "outside-schedule",
                      row[Current].run = tick.seen.run,
                      row[Current].startedAt = row[Current].since,
                      row[Current].by = "user", row[Current].clean
               PROVE  row[Current].served
    OBVIOUS
  <2>0. TypeOK /\ tick \in Tick /\ tick.limit \in Limits
    BY DEF IInv, TypeOK, Tick
  <2>1. tick'.phase = "stop"
    BY DEF Decides
  <2>2. CASE ReadState
    <3> DEFINE d == Decide(Schedule[Current],
                           PodState(row[Current], lastRequestAt[Current], idleStoppedAt[Current],
                                    FALSE, requests # {}), tick.limit, tick.at)
    <3>1. tick'.phase = "ask" \/ (tick' = Apply(Current, d) /\ row[Current].status # "RUNNING")
      BY <2>0, <2>2 DEF ReadState, Current, Tick
    <3>2. d.do = "stop" /\ d.because = "outside-schedule"
      <4> HIDE DEF d
      <4> QED BY <2>0, <2>1, <3>1, Outcome
    <3>3. PodState(row[Current], lastRequestAt[Current], idleStoppedAt[Current],
                   FALSE, requests # {}).status = "RUNNING"
      BY <2>0, <3>2, HoursSpare
    <3> QED BY <2>1, <3>1, <3>3 DEF PodState
  <2>3. CASE EngineAsked
    <3>1. PICK ready : tick' = Apply(Current, Decided(ready))
      BY <2>3 DEF EngineAsked, Current
    <3>2. Decided(ready).do = "stop" /\ Decided(ready).because = "outside-schedule" /\ Up(Current)
      BY <2>0, <2>1, <3>1, Outcome
    <3> DEFINE pod == PodState(tick.seen, tick.used, Never, ready, tick.busy)
    <3>3. pod.startedManually => HasBeenUsed(pod)
      BY <2>0, <3>2, HoursSpare DEF Decided
    <3>4. tick.phase = "ask"
      BY <2>3 DEF EngineAsked
    <3>5. tick.seen.by = "user"
      BY <3>4 DEF IInv, SeenOK
    <3>6. pod.startedManually
      BY <3>5 DEF PodState
    <3> QED BY <3>2, <3>3, <3>4, <3>6, UsedIsServed
  <2> QED BY <2>0, <2>2, <2>3, OnlyTicksDecide
<1> QED BY <1>1, Inductive, PTL DEF Spec, ManualUntilUsed

-----------------------------------------------------------------------------
(* The clock a schedule is kept by.                                        *)
LEMMA DayInMinutes ==
  /\ Day \in Nat \ {0} /\ Minute \in Nat \ {0} /\ Minutes \in Nat \ {0}
  /\ Day = Minute * Minutes
<1>1. Day \in Nat \ {0} /\ Minute \in Nat \ {0} /\ Day % Minute = 0
  BY CalendarAssumption, MinuteAssumption
<1>2. ASSUME NEW a \in Nat \ {0}, NEW d \in Nat \ {0}, a % d = 0
      PROVE  a \div d \in Nat \ {0} /\ a = d * (a \div d)
  <2>1. a \div d \in Int /\ (a \div d) * d + (a % d) = a
    OBVIOUS
  <2> QED BY <1>2, <2>1
<1> QED BY <1>1, <1>2 DEF Minutes

LEMMA ClockReads ==
  ASSUME NEW x \in Int
  PROVE  \E q \in Int, c \in 0..(Minutes - 1), e \in 0..(Minute - 1) :
           x = Day * q + (Minute * c + e) /\ (x % Day) \div Minute = c
<1> DEFINE q == x \div Day
           d == x % Day
           c == d \div Minute
           e == d % Minute
<1>1. q \in Int /\ d \in 0..(Day - 1) /\ x = Day * q + d
  <2>1. ASSUME NEW a \in Int, NEW n \in Nat \ {0}
        PROVE  a \div n \in Int /\ a % n \in 0..(n - 1) /\ (a \div n) * n + (a % n) = a
    OBVIOUS
  <2>2. q \in Int /\ d \in 0..(Day - 1) /\ q * Day + d = x
    BY <2>1, DayInMinutes
  <2> QED BY <2>2, DayInMinutes
<1>2. c \in Int /\ e \in 0..(Minute - 1) /\ d = Minute * c + e
  <2>1. ASSUME NEW a \in Int, NEW n \in Nat \ {0}
        PROVE  a \div n \in Int /\ a % n \in 0..(n - 1) /\ (a \div n) * n + (a % n) = a
    OBVIOUS
  <2> HIDE DEF d
  <2>2. d \in Int
    BY <1>1, DayInMinutes
  <2>3. c \in Int /\ e \in 0..(Minute - 1) /\ c * Minute + e = d
    BY <2>1, <2>2, DayInMinutes
  <2> QED BY <2>3, DayInMinutes
<1> HIDE DEF q, d, c, e
<1>3. c \in 0..(Minutes - 1)
  <2> DEFINE n == Minutes
             k == Minute
  <2>1. /\ k \in Nat \ {0} /\ n \in Nat \ {0} /\ c \in Int /\ e \in Int /\ 0 <= e /\ e < k
        /\ 0 <= k * c + e /\ k * c + e < k * n
    BY <1>1, <1>2, DayInMinutes
  <2> HIDE DEF n, k
  <2>2. c >= 0
    <3>1. c < 0 => k * c <= k * (-1)
      BY <2>1
    <3> QED BY <2>1, <3>1
  <2>3. c < n
    <3>1. c >= n => k * c >= k * n
      BY <2>1
    <3> QED BY <2>1, <3>1
  <2> QED BY <2>1, <2>2, <2>3 DEF n
<1> QED BY <1>1, <1>2, <1>3 DEF c, d

LEMMA ClockShows ==
  ASSUME NEW q \in Int, NEW c \in 0..(Minutes - 1), NEW e \in 0..(Minute - 1)
  PROVE  ((Day * q + (Minute * c + e)) % Day) \div Minute = c
<1>1. ASSUME NEW p \in Int, NEW r \in Int, NEW n \in Nat \ {0}, r >= 0, r < n
      PROVE  (n * p + r) \div n = p /\ (n * p + r) % n = r
  BY <1>1
<1> DEFINE d == Minute * c + e
<1>2. d \in Int /\ d >= 0 /\ d < Day
  <2> DEFINE n == Minutes
             k == Minute
  <2>1. k \in Nat \ {0} /\ n \in Nat \ {0} /\ c \in 0..(n - 1) /\ e \in 0..(k - 1) /\ Day = k * n
    BY DayInMinutes
  <2> HIDE DEF n, k
  <2>2. k * c >= 0 /\ k * c <= k * (n - 1)
    BY <2>1
  <2>3. k * (n - 1) = k * n - k
    BY <2>1
  <2>4. k * c + e >= 0 /\ k * c + e < k * n /\ k * c + e \in Int
    BY <2>1, <2>2, <2>3
  <2> QED BY <2>1, <2>4 DEF k
<1>3. d \div Minute = c
  BY <1>1, DayInMinutes
<1> HIDE DEF d
<1>4. (Day * q + d) % Day = d
  BY <1>1, <1>2, DayInMinutes
<1> QED BY <1>3, <1>4 DEF d

(* Outside the window: the minute before it opens.                         *)
LEMMA ShutBefore ==
  ASSUME NEW s, NEW u,
         s.startAt \in 0..(Minutes - 1), s.stopAt \in 0..(Minutes - 1),
         LocalMinute(s.zone, u) = IF s.startAt = 0 THEN Minutes - 1 ELSE s.startAt - 1
  PROVE  ~IsInsideWindow(s, u)
<1> DEFINE a == s.startAt
           b == s.stopAt
           m == LocalMinute(s.zone, u)
<1>1. a \in Int /\ b \in Int /\ a >= 0 /\ b < Minutes /\ Minutes \in Int
  BY DayInMinutes
<1>2. CASE a = b
  BY <1>2 DEF IsInsideWindow
<1>3. CASE a < b
  <2>1. ~(a <= m /\ m < b)
    BY <1>1, <1>3
  <2> QED BY <1>3, <2>1 DEF IsInsideWindow
<1>4. CASE a > b
  <2>1. ~(a <= m) /\ ~(m < b) /\ ~(a < b)
    BY <1>1, <1>4
  <2> QED BY <2>1 DEF IsInsideWindow
<1> QED BY <1>1, <1>2, <1>3, <1>4

(* While the clocks stay what they are, an instant at which a window has   *)
(* been open for a minute is not before the opening that is read off the   *)
(* clock at any later instant of that window.                              *)
LEMMA OpenedBefore ==
  ASSUME NEW s, NEW at \in Int, NEW r \in Int, r <= at, NEW z \in Int,
         s.startAt \in 0..(Minutes - 1), s.stopAt \in 0..(Minutes - 1),
         \A u \in (r + 1 - Minute)..at : s.zone[u] = z /\ IsInsideWindow(s, u)
  PROVE  WindowOpenedAt(s, at) <= r
<1>1. PICK q \in Int, c \in 0..(Minutes - 1), e \in 0..(Minute - 1) :
        at + z = Day * q + (Minute * c + e) /\ ((at + z) % Day) \div Minute = c
  <2> DEFINE x == at + z
  <2>1. x \in Int
    OBVIOUS
  <2> HIDE DEF x
  <2>2. \E q \in Int, c \in 0..(Minutes - 1), e \in 0..(Minute - 1) :
          x = Day * q + (Minute * c + e) /\ (x % Day) \div Minute = c
    BY <2>1, ClockReads
  <2> QED BY <2>2 DEF x
<1> DEFINE a == s.startAt
           k == IF c >= a THEN c - a ELSE c + Minutes - a
           u == at - Minute * k - e - 1
<1>2. at \in (r + 1 - Minute)..at
  BY DayInMinutes
<1>3. LocalMinute(s.zone, at) = c
  BY <1>1, <1>2 DEF LocalMinute, SinceMidnight
<1>4. WindowOpenedAt(s, at) = at - Minute * k
  BY <1>3 DEF WindowOpenedAt
<1>5. SUFFICES ASSUME r < at - Minute * k PROVE FALSE
  <2>1. k \in Int /\ Minute \in Int
    BY DayInMinutes
  <2>2. at - Minute * k \in Int
    BY <2>1
  <2> QED BY <1>4, <1>5, <2>2
<1>6. k \in Nat /\ a \in Int /\ e \in Int /\ c \in Int
  BY DayInMinutes
<1>7. u \in (r + 1 - Minute)..at
  <2> DEFINE o == Minute * k
  <2>1. o \in Nat
    BY <1>6, DayInMinutes
  <2> HIDE DEF o
  <2>2. r < at - o
    BY <1>5 DEF o
  <2>3. Minute \in Int /\ e <= Minute - 1 /\ e >= 0
    BY DayInMinutes
  <2>4. at - o - e - 1 \in (r + 1 - Minute)..at
    BY <1>6, <2>1, <2>2, <2>3
  <2> QED BY <2>4 DEF o
<1>8. LocalMinute(s.zone, u) = IF a = 0 THEN Minutes - 1 ELSE a - 1
  <2>1. s.zone[u] = z
    BY <1>7
  <2>2. u + z = Day * q + Minute * c - Minute * k - 1
    <3> DEFINE o == Minute * k
               w == Minute * c
               y == Day * q
    <3>1. o \in Int /\ w \in Int /\ y \in Int
      BY <1>6, DayInMinutes
    <3>2. at + z = y + (w + e)
      BY <1>1
    <3> HIDE DEF o, w, y
    <3>3. at - o - e - 1 + z = y + w - o - 1
      BY <1>6, <3>1, <3>2
    <3> QED BY <3>3 DEF o, w, y
  <2>3. CASE c >= a /\ a > 0
    <3>1. u + z = Day * q + (Minute * (a - 1) + (Minute - 1))
      BY <1>6, <2>2, <2>3, DayInMinutes
    <3>2. a - 1 \in 0..(Minutes - 1) /\ Minute - 1 \in 0..(Minute - 1)
      BY <2>3, DayInMinutes
    <3>3. ((u + z) % Day) \div Minute = a - 1
      BY <3>1, <3>2, ClockShows
    <3> QED BY <2>1, <2>3, <3>3 DEF LocalMinute, SinceMidnight
  <2>4. CASE c >= a /\ a = 0
    <3>1. u + z = Day * (q - 1) + (Minute * (Minutes - 1) + (Minute - 1))
      BY <1>6, <2>2, <2>4, DayInMinutes
    <3>2. Minutes - 1 \in 0..(Minutes - 1) /\ Minute - 1 \in 0..(Minute - 1) /\ q - 1 \in Int
      BY DayInMinutes
    <3>3. ((u + z) % Day) \div Minute = Minutes - 1
      BY <3>1, <3>2, ClockShows
    <3> QED BY <2>1, <2>4, <3>3 DEF LocalMinute, SinceMidnight
  <2>5. CASE ~(c >= a)
    <3>0. a > 0
      BY <1>6, <2>5
    <3>1. u + z = Day * (q - 1) + (Minute * (a - 1) + (Minute - 1))
      BY <1>6, <2>2, <2>5, DayInMinutes
    <3>2. a - 1 \in 0..(Minutes - 1) /\ Minute - 1 \in 0..(Minute - 1) /\ q - 1 \in Int
      BY <3>0, DayInMinutes
    <3>3. ((u + z) % Day) \div Minute = a - 1
      BY <3>1, <3>2, ClockShows
    <3> QED BY <2>1, <3>0, <3>3 DEF LocalMinute, SinceMidnight
  <2> QED BY <1>6, <2>3, <2>4, <2>5
<1> QED BY <1>7, <1>8, ShutBefore

(* What the schedule starts is down, inside its window, and was not        *)
(* stopped for being idle in it.                                           *)
LEMMA StartWanted ==
  ASSUME NEW s, NEW pod, NEW limit, NEW at, Decide(s, pod, limit, at).do = "start"
  PROVE  /\ IsInsideWindow(s, at) /\ ~StoppedIdleInThisWindow(s, pod, at)
         /\ pod.status # "RUNNING"
BY DEF Decide, Do

(* The clocks of no schedule change within the horizon: when they go back, *)
(* the opening is read off an hour late, see StaysDownInWindow.            *)
FixedClocks ==
  \A t \in Templates : \A u, v \in (1 - Minute)..Horizon : Schedule[t].zone[u] = Schedule[t].zone[v]

(* Hours are on the clock.  scheduleSchema takes "24:00" too, and a window *)
(* from "00:00" to it is one that never closes and opens every midnight.   *)
TimesOfDay ==
  \A t \in Templates : /\ Schedule[t].startAt \in 0..(Minutes - 1) \cup {Never}
                       /\ Schedule[t].stopAt \in 0..(Minutes - 1) \cup {Never}

(* In a window that had been open for a minute when the pod was stopped    *)
(* for being idle, the instant of the stop is not before the opening.      *)
LEMMA RestedInWindow ==
  ASSUME FixedClocks, TimesOfDay, NEW t \in Templates, NEW at \in Instants, NEW r \in Instants,
         r <= at, \A u \in (r + 1 - Minute)..at : IsInsideWindow(Schedule[t], u)
  PROVE  WindowOpenedAt(Schedule[t], at) <= r
<1> DEFINE s == Schedule[t]
           z == s.zone[at]
<1>1. at \in Int /\ r \in Int /\ r >= 0 /\ at <= Horizon /\ Horizon \in Int /\ Minute \in Nat \ {0}
  BY Bounds, DayInMinutes DEF Instants
<1>2. (r + 1 - Minute)..at \subseteq (1 - Minute)..Horizon /\ at \in (r + 1 - Minute)..at
  BY <1>1
<1>3. z \in Int
  BY <1>2, ScheduleAssumption
<1>4. \A u \in (r + 1 - Minute)..at : s.zone[u] = z
  BY <1>2 DEF FixedClocks
<1>5. s.startAt # Never /\ s.stopAt # Never
  BY <1>2 DEF IsInsideWindow
<1>6. s.startAt \in 0..(Minutes - 1) /\ s.stopAt \in 0..(Minutes - 1)
  BY <1>5 DEF TimesOfDay
<1> HIDE DEF z, s
<1> QED BY <1>1, <1>3, <1>4, <1>6, OpenedBefore DEF s

(* An idle shutdown is not undone by the schedule while its window lasts:  *)
(* whoever reads the opening off the clock finds the stop after it, and no *)
(* request that was unanswered at the stop is there to be recorded later.  *)
THEOREM NoFlappingAlways ==
  ASSUME FixedClocks, TimesOfDay
  PROVE  Spec => NoFlapping
<1> DEFINE Undone == /\ rested[Current] # Never
                     /\ \A u \in (rested[Current] + 1 - Minute)..tick.at :
                          IsInsideWindow(Schedule[Current], u)
<1>1. IInv /\ [Next]_vars => [Decides("start") => ~Undone]_vars
  <2> SUFFICES ASSUME IInv, Next, Decides("start"), Undone PROVE FALSE
    OBVIOUS
  <2>0. TypeOK /\ tick \in Tick /\ tick'.phase = "start" /\ tick.phase # "idle"
    BY DEF IInv, TypeOK, Decides
  <2>1. Current \in Templates /\ tick.at # Never /\ tick.todo # <<>>
    BY <2>0 DEF IInv, TickOK, Sound, Tick, Current
  <2> DEFINE r == rested[Current]
             d(pod) == Decide(Schedule[Current], pod, tick.limit, tick.at)
  <2>2. r \in Instants /\ tick.at \in Instants
    BY <2>0, <2>1 DEF TypeOK, Tick, Instant
  <2>3. r <= tick.at
    <3>1. 1 \in 1..Len(tick.todo) /\ tick.todo[1] = Current
      BY <2>0, <2>1 DEF Tick, Current
    <3> QED BY <2>0, <3>1 DEF IInv, TickOK, Sound
  <2>4. WindowOpenedAt(Schedule[Current], tick.at) <= r
    <3> HIDE DEF r
    <3>1. \A u \in (r + 1 - Minute)..tick.at : IsInsideWindow(Schedule[Current], u)
      BY DEF r
    <3> QED BY <2>1, <2>2, <2>3, <3>1, RestedInWindow
  <2>5. CASE EngineAsked
    <3>1. PICK ready : tick' = Apply(Current, Decided(ready))
      BY <2>5 DEF EngineAsked, Current
    <3>2. Decided(ready).do = "start" /\ ~Up(Current)
      BY <2>0, <3>1, Outcome
    <3>3. tick.seen.status # "RUNNING"
      BY <3>2, StartWanted DEF Decided, PodState
    <3> QED BY <2>5, <3>3 DEF EngineAsked, IInv, SeenOK
  <2>6. CASE ReadState
    <3> DEFINE pod == PodState(row[Current], lastRequestAt[Current], idleStoppedAt[Current],
                               FALSE, requests # {})
    <3>1. tick' = Apply(Current, d(pod))
      BY <2>0, <2>6 DEF ReadState, Current, Tick
    <3>2. d(pod).do = "start" /\ ~Up(Current)
      <4> HIDE DEF d
      <4> QED BY <2>0, <3>1, Outcome
    <3>3. IsInsideWindow(Schedule[Current], tick.at)
          /\ ~StoppedIdleInThisWindow(Schedule[Current], pod, tick.at)
      BY <3>2, StartWanted
    <3>4. idleStoppedAt[Current] = r /\ lastRequestAt[Current] <= r
      BY <2>1, <3>2 DEF IInv, RunsOK, Accounted, Up
    <3>5. pod.idleStoppedAt = r /\ pod.lastRequestAt = lastRequestAt[Current]
      BY <3>4 DEF PodState
    <3>6. r \in Int /\ lastRequestAt[Current] \in Int
      BY <2>1, <2>2, TableTypes DEF IInv
    <3>7. ~(lastRequestAt[Current] > r) /\ r # Never
      BY <3>4, <3>6
    <3>8. r >= WindowOpenedAt(Schedule[Current], tick.at)
      BY <2>4
    <3> QED BY <3>3, <3>5, <3>7, <3>8 DEF StoppedIdleInThisWindow
  <2> QED BY <2>0, <2>5, <2>6, OnlyTicksDecide DEF IInv
<1> QED BY <1>1, Inductive, PTL DEF Spec, NoFlapping
=============================================================================
