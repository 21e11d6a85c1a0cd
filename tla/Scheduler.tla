----------------------------- MODULE Scheduler ------------------------------
(***************************************************************************)
(* The scheduler's loop (scheduler/scheduler.ts) and what it runs against: *)
(* the client requests that wake a pod and keep it busy (gateway/routes.ts *)
(* proxy, gateway/resolve.ts, gateway/inflight.ts), the people who start   *)
(* and stop pods by hand, and the clock.                                   *)
(*                                                                         *)
(* A tick awaits the reaper, the spending snapshot, the engine of a pod    *)
(* that is up, and every stop and start it decides on; everything else     *)
(* goes on meanwhile.  What happens inside a start or a stop, and the      *)
(* reaper's pass, is in PodLifecycle; here a pod has one row at a time,    *)
(* and a run's number tells a pod from the one that replaces it.           *)
(***************************************************************************)
EXTENDS Decide, Sequences, FiniteSets

CONSTANTS
  Templates,   \* ids of the templates, in the order of creation: 1..n
  Schedule,    \* their schedules
  Mode,        \* their lifecycle modes
  Limit,       \* maxConcurrentPods
  Horizon,     \* bound: the clock stops here; ticks go on
  MaxRuns,     \* bound: pods started in one behaviour
  Users,       \* which templates people start and stop by hand
  Asked,       \* which templates clients ask for
  Caps         \* the limits that may be reached

ASSUME SchedulerAssumption ==
  /\ IsFiniteSet(Templates) /\ Templates = 1..Cardinality(Templates)
  /\ Mode \in [Templates -> {"stopResume", "recreate"}]
  /\ Limit \in Nat /\ Horizon \in Nat /\ MaxRuns \in Nat
  /\ Users \subseteq Templates /\ Asked \subseteq Templates
  /\ Caps \subseteq {"daily-limit", "monthly-limit"}

(* scheduleSchema: the hours are two pairs of digits, on the clock or not. *)
ASSUME ScheduleAssumption ==
  \A t \in Templates :
    /\ Schedule[t].startAt \in Nat \cup {Never} /\ Schedule[t].stopAt \in Nat \cup {Never}
    /\ Schedule[t].idleStopMinutes \in Nat /\ Schedule[t].maxRuntimeHours \in Nat
    /\ \A u \in (1 - Minute)..Horizon : Schedule[t].zone[u] \in Int

Instants == 0..Horizon
Instant == Instants \cup {Never}
Limits == {"none"} \cup Caps
Origins == {"user", "client", "scheduler"}

VARIABLES
  now,            \* the clock
  runs,           \* pods started so far
  row,            \* the live row of each template's pod
  paused,         \* started_at of the pod a resume would wake
  idleStoppedAt,  \* stopped_at of the last row stopped for being idle
  lastRequestAt,  \* the newest row of the usage table, by template
  engine,         \* whether the engine answers
  requests,       \* the requests being served, at most one per template
  spent,          \* the limit the figures have reached
  hasKey,         \* whether a RunPod key is configured
  tick,           \* the tick that is running
  rested          \* history: see NoFlapping

vars == <<now, runs, row, paused, idleStoppedAt, lastRequestAt, engine,
          requests, spent, hasKey, tick, rested>>

tables == <<runs, row, paused, idleStoppedAt, lastRequestAt, engine, rested>>
world  == <<now, spent, hasKey>>

Row == [status : {"none", "STARTING", "RUNNING"}, startedAt : Instant,
        by : Origins, run : 0..MaxRuns,
        since : Instant, clean : BOOLEAN, served : BOOLEAN]
        \* history: when this run began, whether every request to an earlier one
        \* had been answered by then, and whether one to this run has been since

NoRow == [status |-> "none", startedAt |-> Never, by |-> "user", run |-> 0,
          since |-> Never, clean |-> TRUE, served |-> FALSE]

(* A request that was sent was sent to one run of the pod. *)
Request == [template : Templates, phase : {"waiting", "sent", "answering"}, run : 0..MaxRuns]

Reasons == Limits \cup {"max-runtime", "idle-timeout", "outside-schedule"}

Tick == [phase : {"idle", "each", "ask", "stop", "start"}, at : Instant,
         todo : Seq(Templates), limit : Limits, seen : Row, busy : BOOLEAN,
         used : Instant, because : Reasons, run : 0..MaxRuns, by : Origins]

NoTick == [phase |-> "idle", at |-> Never, todo |-> <<>>, limit |-> "none",
           seen |-> NoRow, busy |-> FALSE, used |-> Never,
           because |-> "none", run |-> 0, by |-> "scheduler"]

TypeOK ==
  /\ now \in Instants
  /\ runs \in 0..MaxRuns
  /\ row \in [Templates -> Row]
  /\ paused \in [Templates -> Instant]
  /\ idleStoppedAt \in [Templates -> Instant]
  /\ lastRequestAt \in [Templates -> Instant]
  /\ engine \in [Templates -> BOOLEAN]
  /\ requests \subseteq Request
  /\ spent \in Limits
  /\ hasKey \in BOOLEAN
  /\ tick \in Tick
  /\ rested \in [Templates -> Instant]

Init ==
  /\ now = 0
  /\ runs = 0
  /\ row = [t \in Templates |-> NoRow]
  /\ paused = [t \in Templates |-> Never]
  /\ idleStoppedAt = [t \in Templates |-> Never]
  /\ lastRequestAt = [t \in Templates |-> Never]
  /\ engine = [t \in Templates |-> FALSE]
  /\ requests = {}
  /\ spent = "none"
  /\ hasKey = FALSE
  /\ tick = NoTick
  /\ rested = [t \in Templates |-> Never]

Up(t) == row[t].status # "none"

(* Sent to a pod of the template, and not answered yet. *)
Unanswered(t) == {r \in requests : r.template = t /\ r.phase = "sent"}

-----------------------------------------------------------------------------
(* The pods table, as a start or a stop leaves it.                         *)

(* start: a pod that is there already is handed back, unless there is no   *)
(* room.  A resumed pod keeps its started_at, and loses its stop_reason.   *)
Started(t, by, status) ==
  LET resumed == paused[t] # Never IN
  /\ runs < MaxRuns
  /\ Cardinality({o \in Templates \ {t} : Up(o)}) < Limit
  /\ runs' = runs + 1
  /\ row' = [row EXCEPT ![t] = [status |-> status, by |-> by, run |-> runs + 1,
               since |-> now, clean |-> Unanswered(t) = {}, served |-> FALSE,
               startedAt |-> IF resumed THEN paused[t] ELSE now]]
  /\ paused' = [paused EXCEPT ![t] = Never]
  /\ idleStoppedAt' = [idleStoppedAt EXCEPT ![t] = IF resumed THEN Never ELSE @]
  /\ engine' = [engine EXCEPT ![t] = FALSE]
  /\ UNCHANGED lastRequestAt

(* Mutant: a stop's reason is not kept. *)
StoppedWithoutReason(t, because) ==
  /\ row' = [row EXCEPT ![t] = NoRow]
  /\ paused' = [paused EXCEPT ![t] = IF Mode[t] = "stopResume" THEN row[t].startedAt
                                                              ELSE Never]
  /\ engine' = [engine EXCEPT ![t] = FALSE]
  /\ UNCHANGED <<runs, idleStoppedAt, lastRequestAt>>

(* act: the row is marked stopped with its reason. *)
Stopped(t, because) ==
  /\ row' = [row EXCEPT ![t] = NoRow]
  /\ paused' = [paused EXCEPT ![t] = IF Mode[t] = "stopResume" THEN row[t].startedAt
                                                              ELSE Never]
  /\ idleStoppedAt' = [idleStoppedAt EXCEPT
                         ![t] = IF because = "idle-timeout" THEN now ELSE @]
  /\ engine' = [engine EXCEPT ![t] = FALSE]
  /\ UNCHANGED <<runs, lastRequestAt>>

-----------------------------------------------------------------------------
(* One tick.                                                               *)

(* scheduledTemplates: those with a pod up, and those with a schedule. *)
ScheduledTemplates == {t \in Templates : Up(t) \/ Schedule[t].enabled}

(* The pods that are up come first, newest first, then by creation. *)
Orders(set) ==
  {s \in [1..Cardinality(set) -> set] :
     \A i, j \in 1..Cardinality(set) : i < j =>
       IF Up(s[i]) /\ Up(s[j]) THEN row[s[i]].run > row[s[j]].run
       ELSE Up(s[i]) \/ (~Up(s[j]) /\ s[i] < s[j])}

(* The timer fires, and a tick that is running is not overlapped.  Without *)
(* a key, or with nothing to look at, that was the tick.  The reaper's pass *)
(* and the reading of the figures are awaited here, before the first       *)
(* template; all decisions use the instant and the figures of now. *)
TickBegin ==
  /\ tick.phase = "idle"
  /\ hasKey
  /\ \E s \in Orders(ScheduledTemplates) :
       /\ s # <<>>
       /\ tick' = [NoTick EXCEPT !.phase = "each", !.at = now, !.limit = spent, !.todo = s]
  /\ UNCHANGED <<tables, requests, world>>

(* Mutant: a request that wakes a pod counts as a person at the keyboard. *)
PodStateOfAnyone(seen, used, stopped, ready, busy) ==
  [status |-> seen.status, startedAt |-> seen.startedAt, lastRequestAt |-> used,
   idleStoppedAt |-> stopped, engineReady |-> ready,
   startedManually |-> seen.by # "scheduler",
   inFlightRequests |-> IF busy THEN 1 ELSE 0]

(* podStateFor, of what was read. *)
PodState(seen, used, stopped, ready, busy) ==
  [status |-> seen.status, startedAt |-> seen.startedAt, lastRequestAt |-> used,
   idleStoppedAt |-> stopped, engineReady |-> ready,
   startedManually |-> seen.by = "user",
   inFlightRequests |-> IF busy THEN 1 ELSE 0]

NextTemplate ==
  IF Tail(tick.todo) = <<>> THEN NoTick
  ELSE [NoTick EXCEPT !.phase = "each", !.at = tick.at, !.limit = tick.limit,
                      !.todo = Tail(tick.todo)]

(* Mutant: a decision to do nothing is carried out like the others. *)
ApplyAnything(t, action) ==
  [tick EXCEPT !.phase = action.do, !.because = action.because, !.run = row[t].run]

(* applyTo once it has decided: pods.stop finds the template's pod as it   *)
(* is now, and pods.start runs up to its first await. *)
Apply(t, action) ==
  CASE action.do = "stop" /\ Up(t) ->
         [tick EXCEPT !.phase = "stop", !.because = action.because, !.run = row[t].run]
    [] action.do = "start" /\ ~Up(t) -> [tick EXCEPT !.phase = "start"]
    [] OTHER -> NextTemplate

(* podStateAsync up to its await: the row, the last request and the count  *)
(* of requests.  A pod that is not RUNNING is decided on at once. *)
ReadState ==
  LET t == Head(tick.todo)
      busy == requests # {}
      state == PodState(row[t], lastRequestAt[t], idleStoppedAt[t], FALSE, busy)
  IN  /\ tick.phase = "each"
      /\ \/ /\ row[t].status = "RUNNING"
            /\ tick' = [tick EXCEPT !.phase = "ask", !.seen = row[t], !.busy = busy,
                                    !.used = lastRequestAt[t]]
         \/ /\ row[t].status # "RUNNING"
            /\ tick' = Apply(t, Decide(Schedule[t], state, tick.limit, tick.at))
      /\ UNCHANGED <<tables, requests, world>>

(* The engine has been asked; an engine that is too slow does not answer. *)
Decided(ready) ==
  Decide(Schedule[Head(tick.todo)],
         PodState(tick.seen, tick.used, Never, ready, tick.busy),
         tick.limit, tick.at)

EngineAsked ==
  /\ tick.phase = "ask"
  /\ \E ready \in {FALSE, engine[Head(tick.todo)]} :
       tick' = Apply(Head(tick.todo), Decided(ready))
  /\ UNCHANGED <<tables, requests, world>>

(* RunPod carried the stop out: the pod that was asked about is down, if   *)
(* nobody else ended it meanwhile. *)
StopCarriedOut ==
  LET t == Head(tick.todo) IN
  /\ tick.phase = "stop"
  /\ tick' = NextTemplate
  /\ \/ /\ row[t].run = tick.run
        /\ Stopped(t, tick.because)
        /\ rested' = [rested EXCEPT ![t] =
                        IF tick.because = "idle-timeout" /\ Unanswered(t) = {}
                          THEN now ELSE Never]
     \/ /\ row[t].run # tick.run
        /\ UNCHANGED tables
  /\ UNCHANGED <<requests, world>>

(* RunPod refused: the error ends the tick, whatever was left of it. *)
StopFails ==
  /\ tick.phase = "stop"
  /\ tick' = NoTick
  /\ UNCHANGED <<tables, requests, world>>

(* The start was answered.  Whoever asked last is whom it is put down to. *)
StartCarriedOut ==
  LET t == Head(tick.todo) IN
  /\ tick.phase = "start"
  /\ ~Up(t)
  /\ \E status \in {"STARTING", "RUNNING"} : Started(t, tick.by, status)
  /\ tick' = NextTemplate
  /\ UNCHANGED <<rested, requests, world>>

(* No capacity, no room, or somebody else's start: reported, and on. *)
StartFails ==
  /\ tick.phase = "start"
  /\ tick' = NextTemplate
  /\ UNCHANGED <<tables, requests, world>>

-----------------------------------------------------------------------------
(* Client requests, from authenticated to answered.                        *)

Asks(t) == {r \in requests : r.template = t}
To(t, phase, run) ==
  (requests \ Asks(t)) \cup {[template |-> t, phase |-> phase, run |-> run]}

(* resolvePod: a pod that is down is not woken against its own schedule. *)
WithinHours(t) ==
  LET s == Schedule[t] IN
  s.enabled /\ s.startAt # Never /\ s.stopAt # Never => IsInsideWindow(s, now)

(* The gateway has found the pod's engine answering, seconds ago at most: by *)
(* the time the request reaches the pod both may be down. *)
EngineAnswers(t) == row[t].status = "RUNNING" /\ engine[t]

(* A pod is up: its engine is asked, and if it answers the request is      *)
(* forwarded; if not, it waits. *)
ArriveServed(t) ==
  /\ t \in Asked
  /\ Asks(t) = {}
  /\ row[t].status = "RUNNING"
  /\ \/ EngineAnswers(t) /\ requests' = To(t, "sent", row[t].run)
     \/ requests' = To(t, "waiting", 0)
  /\ UNCHANGED <<tables, world, tick>>

(* The pod is coming up, or a start is in flight: the request waits, and   *)
(* becomes the one the start is put down to. *)
ArriveEarly(t) ==
  /\ t \in Asked
  /\ Asks(t) = {}
  /\ WithinHours(t)
  /\ \/ row[t].status = "STARTING" /\ UNCHANGED tick
     \/ /\ ~Up(t)
        /\ tick.phase = "start"
        /\ tick' = [tick EXCEPT !.by = "client"]
  /\ requests' = To(t, "waiting", 0)
  /\ UNCHANGED <<tables, world>>

(* The pod sleeps: the request wakes it, and waits. *)
ArriveAsleep(t) ==
  /\ t \in Asked
  /\ Asks(t) = {}
  /\ WithinHours(t)
  /\ ~Up(t)
  /\ tick.phase # "start"
  /\ \E status \in {"STARTING", "RUNNING"} : Started(t, "client", status)
  /\ rested' = [rested EXCEPT ![t] = Never]
  /\ requests' = To(t, "waiting", 0)
  /\ UNCHANGED <<world, tick>>

(* waitUntilServing polls RunPod, which is what moves a row on from        *)
(* STARTING: nothing else does. *)
Poll(t) ==
  /\ \E r \in Asks(t) : r.phase = "waiting"
  /\ row[t].status = "STARTING"
  /\ row' = [row EXCEPT ![t].status = "RUNNING"]
  /\ UNCHANGED <<now, runs, paused, idleStoppedAt, lastRequestAt, engine, requests,
                 spent, hasKey, tick, rested>>

(* The engine answered after the wait: the request is forwarded. *)
Forward(t) ==
  /\ \E r \in Asks(t) : r.phase = "waiting"
  /\ EngineAnswers(t)
  /\ requests' = To(t, "sent", row[t].run)
  /\ UNCHANGED <<tables, world, tick>>

(* An answer begins, whoever gives it: RunPod's proxy answers in place of  *)
(* an engine that fell over and of a pod that is gone.  Only now is the    *)
(* request on record, as one of the template's and of this moment.         *)
RecordUsage(t) ==
  /\ \E r \in Unanswered(t) :
       row' = [row EXCEPT ![t].served = @ \/ row[t].run = r.run]
  /\ lastRequestAt' = [lastRequestAt EXCEPT ![t] = now]
  /\ requests' = To(t, "answering", 0)
  /\ UNCHANGED <<runs, paused, idleStoppedAt, engine, rested, world, tick>>

(* Answered, given up, or cut off with its pod: it is not counted any more. *)
Finish(t) ==
  /\ Asks(t) # {}
  /\ requests' = requests \ Asks(t)
  /\ UNCHANGED <<tables, world, tick>>

-----------------------------------------------------------------------------
(* People, RunPod and time.                                                *)

UserStarts(t) ==
  /\ t \in Users
  /\ ~Up(t)
  /\ \/ /\ tick.phase # "start"
        /\ \E status \in {"STARTING", "RUNNING"} : Started(t, "user", status)
        /\ rested' = [rested EXCEPT ![t] = Never]
        /\ UNCHANGED tick
     \/ /\ tick.phase = "start"
        /\ tick.by # "user"
        /\ tick' = [tick EXCEPT !.by = "user"]
        /\ UNCHANGED tables
  /\ UNCHANGED <<requests, world>>

UserStops(t) ==
  /\ t \in Users
  /\ Up(t)
  /\ Stopped(t, "manual")
  /\ rested' = [rested EXCEPT ![t] = Never]
  /\ UNCHANGED <<requests, world, tick>>

(* An engine comes up some time after its pod, and may fall over again. *)
EngineMoves(t) ==
  /\ Up(t)
  /\ engine' = [engine EXCEPT ![t] = ~@]
  /\ UNCHANGED <<now, runs, row, paused, idleStoppedAt, lastRequestAt, requests,
                 spent, hasKey, tick, rested>>

ClockMoves ==
  /\ now < Horizon
  /\ now' = now + 1
  /\ UNCHANGED <<tables, requests, spent, hasKey, tick>>

(* The figures move, and a new day or a raised limit takes one back. *)
SpendMoves ==
  /\ spent' \in Limits \ {spent}
  /\ UNCHANGED <<tables, requests, now, hasKey, tick>>

KeyEntered ==
  /\ ~hasKey
  /\ hasKey' = TRUE
  /\ UNCHANGED <<tables, requests, now, spent, tick>>

-----------------------------------------------------------------------------
TickStep ==
  ReadState \/ EngineAsked \/ StopCarriedOut
    \/ StopFails \/ StartCarriedOut \/ StartFails

Serving(t) ==
  ArriveServed(t) \/ ArriveEarly(t) \/ ArriveAsleep(t) \/ Poll(t) \/ Forward(t)
    \/ RecordUsage(t) \/ Finish(t)

Next ==
  \/ TickBegin \/ TickStep
  \/ \E t \in Templates :
       Serving(t) \/ UserStarts(t) \/ UserStops(t) \/ EngineMoves(t)
  \/ ClockMoves \/ SpendMoves \/ KeyEntered

Spec == Init /\ [][Next]_vars

(* setInterval fires again and again, every await is answered in the end,  *)
(* and stops do not fail for ever. *)
Fairness ==
  /\ WF_vars(TickBegin)
  /\ WF_vars(TickStep)
  /\ SF_vars(StopCarriedOut)

FairSpec == Spec /\ Fairness
=============================================================================
