------------------------------ MODULE Gateway -------------------------------
(***************************************************************************)
(* A request on its way through the gateway: authenticated by its token    *)
(* (gateway/routes.ts), resolved to the pod of the token's template or     *)
(* made to wait for one (gateway/resolve.ts and the waiting of             *)
(* pods/manager.ts), and forwarded.  Whatever happens to the pods          *)
(* meanwhile happens between two of its steps; how a start goes about it   *)
(* is the matter of PodLifecycle.                                          *)
(***************************************************************************)
EXTENDS Access

CONSTANTS
  Requests,
  Scheduled,     \* the templates that have a schedule
  Pods,          \* 1..n, in the order they are created
  Wait,          \* polls that fit into wakeWaitSeconds, 0 if it is 0
  CheckEvery     \* every how many health checks the log is looked at: 4

ASSUME GatewayAssumption ==
  /\ Wait \in Nat /\ CheckEvery \in Nat \ {0}
  /\ IsFiniteSet(Pods) /\ Pods = 1..Cardinality(Pods)

VARIABLES
  open,          \* templates whose schedule lets a request wake a pod now
  pods,          \* the pods table: template, recorded status and stopped_at
  cloud,         \* each pod at RunPod, and the engine in it; EXITED if it is gone
  readyCache,    \* PodManager.readyCache: what a health check said lately
  starting,      \* the template that PodManager.startInFlight is for
  requests       \* where each request stands, and how the last one ended

vars == <<accessVars, open, pods, cloud, readyCache, starting, requests>>
around == <<accessVars, open, cloud>>

Blank == [template |-> None, status |-> "none", stopped |-> FALSE]
Idle == [phase |-> "idle", target |-> None, pod |-> 0, base |-> 0, left |-> 0,
         checks |-> 0, answer |-> "none"]

Statuses == {"none", "STARTING", "RUNNING", "EXITED"}
Phases == {"idle", "probing", "starting", "running", "checking", "forwarded"}
Replies == {"none", "unauthorized", "unassigned", "no pod", "outside hours", "still starting",
            "upstream", "refused", "engine"}

TypeOK ==
  /\ AccessTypeOK
  /\ open \subseteq Templates
  /\ pods \in [Pods -> [template : Templates \cup {None}, status : Statuses, stopped : BOOLEAN]]
  /\ cloud \in [Pods -> {"none", "STARTING", "loading", "up", "broken", "EXITED"}]
  /\ readyCache \in [Pods -> {"unknown", "ready", "not ready"}]
  /\ starting \in Templates \cup {None}
  /\ requests \in [Requests -> [phase : Phases, target : Templates \cup {None},
                                pod : Pods \cup {0}, base : Pods \cup {0}, left : 0..Wait,
                                checks : 0..Wait, answer : Replies]]

Init ==
  /\ tokens \in [Tokens -> [state : {"active"}, target : Templates \cup {None}]]
  /\ templates = Templates
  /\ open = Templates
  /\ pods = [p \in Pods |-> Blank]
  /\ cloud = [p \in Pods |-> "none"]
  /\ readyCache = [p \in Pods |-> "unknown"]
  /\ starting = None
  /\ requests = [q \in Requests |-> Idle]

-----------------------------------------------------------------------------
(* currentFor, the newest first; 0 for null. *)
CurrentIn(rows, t) ==
  LET live == {p \in Pods : /\ rows[p].template = t /\ ~rows[p].stopped
                            /\ rows[p].status \in {"STARTING", "RUNNING"}}
  IN  IF live = {} THEN 0 ELSE CHOOSE p \in live : \A o \in live : o <= p

(* describeFor: the pod whose addresses it gives; 0 for null. *)
DescribedIn(rows, t) ==
  LET p == CurrentIn(rows, t) IN IF p # 0 /\ rows[p].status = "RUNNING" THEN p ELSE 0

CurrentFor(t) == CurrentIn(pods, t)
DescribedFor(t) == DescribedIn(pods, t)

Ended(answer) == [Idle EXCEPT !.answer = answer]

(* The request is sent to the pod, unless the pod has no such slot or does *)
(* not serve the model that is asked for. *)
Forwarded(r, p) ==
  {Ended("refused"), [Idle EXCEPT !.phase = "forwarded", !.target = r.target, !.pod = p]}

(* Mutant: whichever pod the start gave. *)
ServedByStarted(r) == r.pod

(* Mutant: the pod that was waited for, if it is the template's. *)
ServedWaitedFor(r) == IF DescribedFor(r.target) = r.pod THEN r.pod ELSE 0

(* Once something serves, the pod is looked up again. *)
ServedPod(r) == DescribedFor(r.target)

(* A pod that is up but does not answer is waited for, if at all. *)
Waiting(r) ==
  LET p == CurrentFor(r.target) IN
  IF Wait = 0 \/ p = 0 THEN Ended("still starting")
  ELSE [Idle EXCEPT !.phase = "running", !.target = r.target, !.pod = p, !.left = Wait]

-----------------------------------------------------------------------------
(* resolvePod, no pod being up: not against the schedule. *)
MayWake(t) == t \in templates /\ t \in open

TurnedAway(k) ==
  CASE ~Verified(k)                  -> {"unauthorized"}
    [] tokens[k].target = None       -> {"unassigned"}
    [] OTHER -> LET t == tokens[k].target IN
         IF DescribedFor(t) # 0 THEN {}
         ELSE IF t \notin templates THEN {"no pod"}
         ELSE IF ~MayWake(t) THEN {"outside hours"}
         ELSE IF Wait = 0 THEN {"still starting"} ELSE {}

Arrives(q, k, request) ==
  /\ requests[q].phase = "idle"
  /\ requests' = [requests EXCEPT ![q] = request]

ArriveInVain(q, k) ==
  /\ \E answer \in TurnedAway(k) : Arrives(q, k, Ended(answer))
  /\ UNCHANGED <<around, pods, readyCache, starting>>

(* The token's pod is up: is its engine, as far as is known? *)
ArriveAtPod(q, k) ==
  LET t == tokens[k].target
      p == DescribedFor(t)
      r == [Idle EXCEPT !.target = t, !.pod = p]
  IN
  /\ Verified(k) /\ t # None /\ p # 0
  /\ \/ readyCache[p] = "unknown" /\ Arrives(q, k, [r EXCEPT !.phase = "probing"])
     \/ readyCache[p] = "ready" /\ \E f \in Forwarded(r, p) : Arrives(q, k, f)
     \/ readyCache[p] = "not ready" /\ Arrives(q, k, Waiting(r))
  /\ UNCHANGED <<around, pods, readyCache, starting>>

(* The token's pod is asleep: it is started, or the start that is under    *)
(* way, whichever template it is for, is waited for. *)
ArriveToWake(q, k) ==
  LET t == tokens[k].target IN
  /\ Verified(k) /\ t # None /\ DescribedFor(t) = 0 /\ TurnedAway(k) = {}
  /\ Arrives(q, k, [Idle EXCEPT !.phase = "starting", !.target = t])
  /\ starting' = IF starting = None THEN t ELSE starting
  /\ UNCHANGED <<around, pods, readyCache>>

-----------------------------------------------------------------------------
(* engineAnswers: the health check of the pod described before it. *)
Probed(q) ==
  LET r == requests[q] IN
  /\ r.phase = "probing"
  /\ readyCache' = [readyCache EXCEPT ![r.pod] = IF cloud[r.pod] = "up" THEN "ready" ELSE "not ready"]
  /\ \E next \in (IF cloud[r.pod] = "up" THEN Forwarded(r, r.pod) ELSE {Waiting(r)}) :
       requests' = [requests EXCEPT ![q] = next]
  /\ UNCHANGED <<around, pods, starting>>

StartFailed ==
  /\ starting # None
  /\ starting' = None
  /\ requests' = [q \in Requests |-> IF requests[q].phase = "starting"
                                       THEN Ended("upstream") ELSE requests[q]]
  /\ UNCHANGED <<around, pods, readyCache>>

Awaited(p) ==
  [q \in Requests |-> IF requests[q].phase = "starting"
                        THEN [requests[q] EXCEPT !.phase = "running", !.pod = p, !.left = Wait]
                        ELSE requests[q]]

(* doStart gives the pod that is there after all, or a new one. *)
StartFound ==
  /\ starting # None /\ CurrentFor(starting) # 0
  /\ starting' = None
  /\ requests' = Awaited(CurrentFor(starting))
  /\ UNCHANGED <<around, pods, readyCache>>

StartCreated ==
  /\ starting # None /\ CurrentFor(starting) = 0
  /\ \E p \in Pods :
       /\ cloud[p] = "none" /\ \A o \in Pods : o < p => cloud[o] # "none"
       /\ \E status \in {"STARTING", "RUNNING"} :
            /\ pods' = [pods EXCEPT ![p] = [template |-> starting, status |-> status, stopped |-> FALSE]]
            /\ cloud' = [cloud EXCEPT ![p] = IF status = "RUNNING" THEN "loading" ELSE status]
       /\ requests' = Awaited(p)
  /\ starting' = None
  /\ UNCHANGED <<accessVars, open, readyCache>>

(* What a poll records of the pod. *)
RunpodSays(p) == IF cloud[p] \in {"STARTING", "EXITED"} THEN cloud[p] ELSE "RUNNING"

(* Mutant: the polling does not look at the deadline. *)
PollOnAndOn(q) ==
  LET r == requests[q]
      rows == [pods EXCEPT ![r.pod].status = RunpodSays(r.pod)]
      b == DescribedIn(rows, r.target)
  IN
  /\ r.phase = "running"
  /\ pods' = rows
  /\ requests' = [requests EXCEPT ![q] =
       IF RunpodSays(r.pod) # "RUNNING" THEN [r EXCEPT !.left = @ - 1]
       ELSE IF b = 0 THEN Ended("still starting")
       ELSE [r EXCEPT !.phase = "checking", !.base = b]]
  /\ UNCHANGED <<around, readyCache, starting>>

(* waitUntilRunning: a poll, before the deadline. *)
PollRunning(q) ==
  LET r == requests[q]
      rows == [pods EXCEPT ![r.pod].status = RunpodSays(r.pod)]
      b == DescribedIn(rows, r.target)
  IN
  /\ r.phase = "running"
  /\ r.left > 0
  /\ pods' = rows
  /\ requests' = [requests EXCEPT ![q] =
       IF RunpodSays(r.pod) # "RUNNING" THEN [r EXCEPT !.left = @ - 1]
       ELSE IF b = 0 THEN Ended("still starting")
       ELSE [r EXCEPT !.phase = "checking", !.base = b]]
  /\ UNCHANGED <<around, readyCache, starting>>

(* RunPod does not answer, or no longer knows a pod that has stopped. *)
PollFailed(q) ==
  /\ requests[q].phase = "running" /\ requests[q].left > 0
  /\ requests' = [requests EXCEPT ![q] = Ended("upstream")]
  /\ UNCHANGED <<around, pods, readyCache, starting>>

GiveUp(q) ==
  /\ requests[q].phase \in {"running", "checking"} /\ requests[q].left = 0
  /\ requests' = [requests EXCEPT ![q] = Ended("still starting")]
  /\ UNCHANGED <<around, pods, readyCache, starting>>

(* waitUntilServing: the health check of the template's pod; now and then  *)
(* the log of the pod that was waited for. *)
Healthy(q) ==
  LET r == requests[q]
      p == ServedPod(r)
  IN
  /\ r.phase = "checking" /\ r.left > 0 /\ cloud[r.base] = "up"
  /\ \E next \in (IF p # 0 THEN Forwarded(r, p) ELSE {Ended("still starting")}) :
       requests' = [requests EXCEPT ![q] = next]
  /\ UNCHANGED <<around, pods, readyCache, starting>>

(* Mutant: the time that is left does not run out. *)
UnhealthyForever(q) ==
  LET r == requests[q] IN
  /\ r.phase = "checking" /\ r.left > 0 /\ cloud[r.base] # "up"
  /\ requests' = [requests EXCEPT ![q].checks = (@ + 1) % Wait]
  /\ UNCHANGED <<around, pods, readyCache, starting>>

Unhealthy(q) ==
  LET r == requests[q]
      crashing == (r.checks + 1) % CheckEvery = 0 /\ cloud[r.pod] = "broken"
  IN
  /\ r.phase = "checking" /\ r.left > 0 /\ cloud[r.base] # "up"
  /\ requests' = [requests EXCEPT ![q] =
       IF crashing THEN Ended("upstream") ELSE [r EXCEPT !.checks = @ + 1, !.left = @ - 1]]
  /\ UNCHANGED <<around, pods, readyCache, starting>>

(* The engine answers, the connection fails, or RunPod's proxy answers     *)
(* that there is nothing behind the port. *)
AnswerOf(p) == IF cloud[p] = "up" THEN {"engine", "upstream"} ELSE {"still starting", "upstream"}

UpstreamAnswers(q) ==
  /\ requests[q].phase = "forwarded"
  /\ \E answer \in AnswerOf(requests[q].pod) :
       requests' = [requests EXCEPT ![q] = Ended(answer)]
  /\ UNCHANGED <<around, pods, readyCache, starting>>

-----------------------------------------------------------------------------
(* What others do meanwhile. *)
StartedByOthers(t) ==
  /\ starting = None
  /\ starting' = t
  /\ UNCHANGED <<around, pods, readyCache, requests>>

(* act and stop: what was known of the engines is forgotten. *)
Stopped(p) ==
  /\ pods[p].template # None /\ ~pods[p].stopped
  /\ pods' = [pods EXCEPT ![p].stopped = TRUE, ![p].status = "EXITED"]
  /\ cloud' = [cloud EXCEPT ![p] = "EXITED"]
  /\ readyCache' = [o \in Pods |-> "unknown"]
  /\ UNCHANGED <<accessVars, open, starting, requests>>

(* A pod comes up, its engine does or keeps exiting, falls over, or RunPod *)
(* takes the pod away. *)
CloudMoves(p) ==
  /\ \/ cloud[p] = "STARTING" /\ cloud' = [cloud EXCEPT ![p] = "loading"]
     \/ cloud[p] = "loading" /\ cloud' \in {[cloud EXCEPT ![p] = e] : e \in {"up", "broken"}}
     \/ cloud[p] = "up" /\ cloud' \in {[cloud EXCEPT ![p] = e] : e \in {"loading", "EXITED"}}
  /\ UNCHANGED <<accessVars, open, pods, readyCache, starting, requests>>

(* READY_CACHE_MS is over. *)
CacheExpires(p) ==
  /\ readyCache[p] # "unknown"
  /\ readyCache' = [readyCache EXCEPT ![p] = "unknown"]
  /\ UNCHANGED <<around, pods, starting, requests>>

ScheduleTurns(t) ==
  /\ t \in Scheduled
  /\ open' = IF t \in open THEN open \ {t} ELSE open \cup {t}
  /\ UNCHANGED <<accessVars, pods, cloud, readyCache, starting, requests>>

TokenChanges ==
  /\ \E k \in Tokens : RevokeToken(k) \/ \E t \in Templates : AssignToken(k, t)
  /\ UNCHANGED <<open, pods, cloud, readyCache, starting, requests>>

RequestSteps(q) ==
  Probed(q) \/ PollRunning(q) \/ PollFailed(q) \/ GiveUp(q) \/ Healthy(q) \/ Unhealthy(q)
    \/ UpstreamAnswers(q)

StartSteps == StartFailed \/ StartFound \/ StartCreated

Next ==
  \/ \E q \in Requests, k \in Tokens : ArriveInVain(q, k) \/ ArriveAtPod(q, k) \/ ArriveToWake(q, k)
  \/ \E q \in Requests : RequestSteps(q)
  \/ StartSteps
  \/ \E p \in Pods : Stopped(p) \/ CloudMoves(p) \/ CacheExpires(p)
  \/ \E t \in Templates : StartedByOthers(t) \/ ScheduleTurns(t)
  \/ TokenChanges

Spec == Init /\ [][Next]_vars

(* Every call a request or a start awaits is answered or times out, and    *)
(* the event loop then goes on with it. *)
FairSpec == Spec /\ WF_vars(StartSteps) /\ \A q \in Requests : WF_vars(RequestSteps(q))

-----------------------------------------------------------------------------
(* A request reaches no pod but one of the template its token was assigned *)
(* to, whichever starts it waited for and whichever pods came and went. *)
OwnPodOnly ==
  \A q \in Requests :
    requests[q].phase = "forwarded" => pods[requests[q].pod].template = requests[q].target

(* The template's pod is recorded as running, and its engine answers. *)
Served(t) == LET p == DescribedFor(t) IN p # 0 /\ cloud[p] = "up"

(* A client that has waited and still has time is never told to come back  *)
(* later while a pod of its template serves, though the start it waited    *)
(* for was another template's, or its pod was stopped and another took its *)
(* place.                                                                  *)
NotSentAwayWhileServed ==
  [][\A q \in Requests :
       /\ requests[q].phase \in {"running", "checking"} /\ requests[q].left > 0
       /\ requests'[q].phase = "idle" /\ requests'[q].answer = "still starting"
       => ~Served(requests[q].target)]_vars

(* Every request is answered, an engine that never comes up, a pod that is *)
(* taken away and a start that fails included. *)
RequestsAnswered == \A q \in Requests : requests[q].phase # "idle" ~> requests[q].phase = "idle"
=============================================================================
