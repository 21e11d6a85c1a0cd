--------------------------- MODULE Gateway_proofs ---------------------------
(***************************************************************************)
(* What a request may rely on at the gateway, for every number of tokens,  *)
(* templates, requests and pods and every time to wait.  A request that is *)
(* forwarded has looked its pod up in the table under its own template,    *)
(* and a row never changes its template: HeldRows says that the one action *)
(* that writes a template writes it into a row nobody refers to.           *)
(***************************************************************************)
EXTENDS Gateway, FiniteSetTheorems, WellFoundedInduction, TLAPS

PodRow == [template : Templates \cup {None}, status : Statuses, stopped : BOOLEAN]

Request == [phase : Phases, target : Templates \cup {None}, pod : Pods \cup {0},
            base : Pods \cup {0}, left : 0..Wait, checks : 0..Wait, answer : Replies]

(* A request is about a template, has not used up more than its time, none *)
(* of it while the start is under way, and a pod it is probing or has been *)
(* sent to is one of its template. *)
RequestOK(rows, r) ==
  /\ r \in Request
  /\ r.checks + r.left <= Wait
  /\ r.phase = "starting" => r.checks = 0
  /\ r.phase # "idle" => r.target \in Templates
  /\ r.phase \in {"probing", "forwarded"} => r.pod \in Pods /\ rows[r.pod].template = r.target

RequestsOK == \A q \in Requests : RequestOK(pods, requests[q])

(* A row with a template is of a pod that has been created. *)
HeldRows == \A p \in Pods : pods[p].template # None => cloud[p] # "none"

IInv == TypeOK /\ RequestsOK /\ HeldRows

USE DEF PodRow

-----------------------------------------------------------------------------
(* The newest of some pods is one of them.                                 *)
LEMMA NewestExists ==
  ASSUME NEW live \in SUBSET Pods, live # {}
  PROVE  \E p \in live : \A o \in live : o <= p
<1> DEFINE n == Cardinality(Pods)
           Older == OpToRel(<, Nat)
           T == {n - p : p \in live}
<1>1. n \in Nat /\ Pods = 1..n
  BY GatewayAssumption, FS_CardinalityType
<1> HIDE DEF n
<1>2. T \subseteq Nat /\ T # {}
  BY <1>1
<1>3. PICK x \in T : \A y \in T : ~ (<<y, x>> \in Older)
  BY <1>2, NatLessThanWellFounded, WFMin
<1>4. \A y \in T : ~ (y < x)
  BY <1>2, <1>3 DEF OpToRel
<1>5. PICK p \in live : x = n - p
  BY <1>3
<1> HIDE DEF Older
<1>6. ASSUME NEW o \in live PROVE o <= p
  <2>1. ~ (n - o < n - p)
    BY <1>4, <1>5
  <2> QED BY <1>1, <2>1
<1> QED BY <1>6

(* The pod looked up for a template is one of that template.               *)
LEMMA CurrentOK ==
  ASSUME NEW rows \in [Pods -> PodRow], NEW t, CurrentIn(rows, t) # 0
  PROVE  CurrentIn(rows, t) \in Pods /\ rows[CurrentIn(rows, t)].template = t
<1> DEFINE live == {p \in Pods : /\ rows[p].template = t /\ ~rows[p].stopped
                                 /\ rows[p].status \in {"STARTING", "RUNNING"}}
           best == CHOOSE p \in live : \A o \in live : o <= p
<1>1. live # {} /\ CurrentIn(rows, t) = best
  BY DEF CurrentIn
<1>2. \E p \in live : \A o \in live : o <= p
  BY <1>1, NewestExists
<1>3. best \in live
  BY <1>2
<1> QED BY <1>1, <1>3

LEMMA DescribedOK ==
  ASSUME NEW rows \in [Pods -> PodRow], NEW t, DescribedIn(rows, t) # 0
  PROVE  DescribedIn(rows, t) \in Pods /\ rows[DescribedIn(rows, t)].template = t
BY CurrentOK DEF DescribedIn

(* No pod is called 0. *)
LEMMA PodsArePositive == 0 \notin Pods /\ Pods \subseteq Nat
BY GatewayAssumption, FS_CardinalityType

-----------------------------------------------------------------------------
(* The requests an action leaves behind.                                   *)
LEMMA IdleOK ==
  /\ Idle \in Request
  /\ Idle.phase = "idle" /\ Idle.left = 0 /\ Idle.checks = 0
BY GatewayAssumption DEF Idle, Request, Phases, Replies

LEMMA EndedOK ==
  ASSUME NEW rows, NEW answer \in Replies
  PROVE  RequestOK(rows, Ended(answer))
<1>1. PICK r \in Request : r = Idle
  BY IdleOK
<1>2. r.phase = "idle" /\ r.left = 0 /\ r.checks = 0
  BY <1>1, IdleOK
<1>3. Ended(answer) = [r EXCEPT !.answer = answer]
  BY <1>1 DEF Ended
<1>4. RequestOK(rows, [r EXCEPT !.answer = answer])
  BY <1>2, GatewayAssumption DEF RequestOK, Request
<1> QED BY <1>3, <1>4

(* A request that comes in about a pod, or that goes on waiting for one.   *)
LEMMA EntersOK ==
  ASSUME NEW rows, NEW phase \in Phases, NEW t \in Templates, NEW p \in Pods,
         phase \in {"probing", "forwarded"}, rows[p].template = t
  PROVE  RequestOK(rows, [Idle EXCEPT !.phase = phase, !.target = t, !.pod = p])
<1>1. PICK r \in Request : r = Idle
  BY IdleOK
<1> DEFINE s == [r EXCEPT !.phase = phase, !.target = t, !.pod = p]
<1>2. r.left = 0 /\ r.checks = 0
  BY <1>1, IdleOK
<1>3. s \in Request
  BY DEF Request
<1>4. s.phase = phase /\ s.target = t /\ s.pod = p /\ s.left = r.left /\ s.checks = r.checks
  BY DEF Request
<1> HIDE DEF s
<1>5. RequestOK(rows, s)
  BY <1>2, <1>3, <1>4, GatewayAssumption DEF RequestOK
<1> QED BY <1>1, <1>5 DEF s

LEMMA EntersWaitingOK ==
  ASSUME NEW rows, NEW t \in Templates, NEW p \in Pods
  PROVE  RequestOK(rows, [Idle EXCEPT !.phase = "running", !.target = t, !.pod = p, !.left = Wait])
<1>1. PICK r \in Request : r = Idle
  BY IdleOK
<1> DEFINE s == [r EXCEPT !.phase = "running", !.target = t, !.pod = p, !.left = Wait]
<1>2. r.checks = 0
  BY <1>1, IdleOK
<1>3. s \in Request
  <2>1. "running" \in Phases /\ Wait \in 0..Wait
    BY GatewayAssumption DEF Phases
  <2> QED BY <2>1 DEF Request
<1>4. s.phase = "running" /\ s.target = t /\ s.left = Wait /\ s.checks = r.checks
  BY DEF Request
<1> HIDE DEF s
<1>5. RequestOK(rows, s)
  BY <1>2, <1>3, <1>4, GatewayAssumption DEF RequestOK
<1> QED BY <1>1, <1>5 DEF s

LEMMA ForwardedOK ==
  ASSUME NEW rows, NEW r, r.target \in Templates, NEW p \in Pods, rows[p].template = r.target,
         NEW f \in Forwarded(r, p)
  PROVE  RequestOK(rows, f)
<1>1. CASE f = Ended("refused")
  BY <1>1, EndedOK DEF Replies
<1>2. CASE f = [Idle EXCEPT !.phase = "forwarded", !.target = r.target, !.pod = p]
  BY <1>2, EntersOK DEF Phases
<1> QED BY <1>1, <1>2 DEF Forwarded

LEMMA WaitingOK ==
  ASSUME pods \in [Pods -> PodRow], NEW rows, NEW r, r.target \in Templates
  PROVE  RequestOK(rows, Waiting(r))
<1>1. CASE Wait = 0 \/ CurrentFor(r.target) = 0
  BY <1>1, EndedOK DEF Waiting, Replies
<1>2. CASE ~(Wait = 0 \/ CurrentFor(r.target) = 0)
  <2>1. CurrentFor(r.target) \in Pods
    BY <1>2, CurrentOK DEF CurrentFor
  <2>2. Waiting(r) = [Idle EXCEPT !.phase = "running", !.target = r.target,
                                  !.pod = CurrentFor(r.target), !.left = Wait]
    BY <1>2 DEF Waiting
  <2>3. RequestOK(rows, [Idle EXCEPT !.phase = "running", !.target = r.target,
                                     !.pod = CurrentFor(r.target), !.left = Wait])
    BY <2>1, EntersWaitingOK
  <2> QED BY <2>2, <2>3, Zenon
<1> QED BY <1>1, <1>2

(* The types apart from the requests.                                      *)
AroundOK ==
  /\ AccessTypeOK
  /\ open \subseteq Templates
  /\ pods \in [Pods -> PodRow]
  /\ cloud \in [Pods -> {"none", "STARTING", "loading", "up", "broken", "EXITED"}]
  /\ readyCache \in [Pods -> {"unknown", "ready", "not ready"}]
  /\ starting \in Templates \cup {None}

LEMMA Parts ==
  /\ TypeOK <=> AroundOK /\ requests \in [Requests -> Request]
  /\ TypeOK' <=> AroundOK' /\ requests' \in [Requests -> Request]
BY DEF TypeOK, AroundOK, Request

Rows == \A p \in Pods : pods'[p].template = pods[p].template

(* One request moves on, and no row changes its template.                  *)
LEMMA OneMoves ==
  ASSUME IInv, NEW q \in Requests, NEW r, RequestOK(pods', r),
         requests' = [requests EXCEPT ![q] = r], Rows, AroundOK', HeldRows'
  PROVE  IInv'
<1>1. requests \in [Requests -> Request] /\ r \in Request
  BY Parts DEF IInv, RequestOK
<1>2. \A x \in Requests : RequestOK(pods', requests[x])
  BY DEF IInv, RequestsOK, RequestOK, Rows
<1>3. requests' \in [Requests -> Request] /\ \A x \in Requests : RequestOK(pods', requests'[x])
  BY <1>1, <1>2
<1> QED BY <1>3, Parts DEF IInv, RequestsOK

(* Nobody moves on.                                                        *)
LEMMA NoneMoves ==
  ASSUME IInv, requests' = requests, Rows, AroundOK', HeldRows'
  PROVE  IInv'
<1>1. requests' \in [Requests -> Request]
  BY Parts DEF IInv
<1>2. \A x \in Requests : RequestOK(pods', requests[x])
  BY DEF IInv, RequestsOK, RequestOK, Rows
<1> QED BY <1>1, <1>2, Parts DEF IInv, RequestsOK

(* Nothing but a request moves on, and what is known of the engines.       *)
LEMMA Around ==
  ASSUME IInv, UNCHANGED <<around, pods, starting>>,
         readyCache' \in [Pods -> {"unknown", "ready", "not ready"}]
  PROVE  Rows /\ AroundOK' /\ HeldRows'
BY Parts DEF IInv, AroundOK, Rows, HeldRows, around, accessVars, AccessTypeOK

LEMMA AroundSame ==
  ASSUME IInv, UNCHANGED <<around, pods, readyCache, starting>>
  PROVE  Rows /\ AroundOK' /\ HeldRows'
BY Parts, Around DEF IInv, AroundOK

-----------------------------------------------------------------------------
(* A request comes in.                                                     *)
LEMMA ArriveStep ==
  ASSUME IInv, NEW q \in Requests, NEW k \in Tokens,
         ArriveInVain(q, k) \/ ArriveAtPod(q, k) \/ ArriveToWake(q, k)
  PROVE  IInv'
<1> DEFINE t == tokens[k].target
<1>0. t \in Templates \cup {None} /\ pods \in [Pods -> PodRow]
  BY Parts DEF IInv, AroundOK, AccessTypeOK
<1>1. CASE ArriveInVain(q, k)
  <2>1. PICK answer \in TurnedAway(k) : Arrives(q, k, Ended(answer))
    BY <1>1 DEF ArriveInVain
  <2>2. answer \in Replies
    BY DEF TurnedAway, Replies
  <2>3. RequestOK(pods', Ended(answer))
    BY <2>2, EndedOK
  <2>4. Rows /\ AroundOK' /\ HeldRows'
    BY <1>1, AroundSame DEF ArriveInVain
  <2> QED BY <2>1, <2>3, <2>4, OneMoves DEF Arrives
<1>2. CASE ArriveAtPod(q, k)
  <2> DEFINE p == DescribedFor(t)
             r == [Idle EXCEPT !.target = t, !.pod = p]
  <2>1. t \in Templates /\ p \in Pods /\ pods[p].template = t
    BY <1>0, <1>2, DescribedOK DEF ArriveAtPod, DescribedFor
  <2>2. pods' = pods /\ Rows /\ AroundOK' /\ HeldRows'
    BY <1>2, AroundSame DEF ArriveAtPod
  <2>3. r.target = t
    <3>1. PICK x \in Request : x = Idle
      BY IdleOK
    <3>2. [x EXCEPT !.target = t, !.pod = p].target = t
      BY DEF Request
    <3> QED BY <3>1, <3>2
  <2>4. CASE Arrives(q, k, [r EXCEPT !.phase = "probing"])
    <3>1. RequestOK(pods', [Idle EXCEPT !.phase = "probing", !.target = t, !.pod = p])
      BY <2>1, <2>2, EntersOK DEF Phases
    <3>2. [r EXCEPT !.phase = "probing"]
            = [Idle EXCEPT !.phase = "probing", !.target = t, !.pod = p]
      <4>1. PICK x \in Request : x = Idle
        BY IdleOK
      <4>2. [[x EXCEPT !.target = t, !.pod = p] EXCEPT !.phase = "probing"]
              = [x EXCEPT !.phase = "probing", !.target = t, !.pod = p]
        BY DEF Request
      <4> QED BY <4>1, <4>2
    <3> QED BY <2>2, <2>4, <3>1, <3>2, OneMoves DEF Arrives
  <2>5. CASE \E f \in Forwarded(r, p) : Arrives(q, k, f)
    <3>1. PICK f \in Forwarded(r, p) : Arrives(q, k, f)
      BY <2>5
    <3>2. RequestOK(pods', f)
      BY <2>1, <2>2, <2>3, ForwardedOK
    <3> QED BY <2>2, <3>1, <3>2, OneMoves DEF Arrives
  <2>6. CASE Arrives(q, k, Waiting(r))
    <3>1. RequestOK(pods', Waiting(r))
      BY <1>0, <2>1, <2>3, WaitingOK
    <3> QED BY <2>2, <2>6, <3>1, OneMoves DEF Arrives
  <2> QED BY <1>2, <2>4, <2>5, <2>6 DEF ArriveAtPod
<1>3. CASE ArriveToWake(q, k)
  <2> DEFINE r == [Idle EXCEPT !.phase = "starting", !.target = t]
  <2>1. t \in Templates
    BY <1>0, <1>3 DEF ArriveToWake
  <2>2. RequestOK(pods', r)
    <3>1. PICK x \in Request : x = Idle
      BY IdleOK
    <3> DEFINE y == [x EXCEPT !.phase = "starting", !.target = t]
    <3>2. "starting" \in Phases
      BY DEF Phases
    <3>3. y \in Request
      BY <2>1, <3>2 DEF Request
    <3>4. y.phase = "starting" /\ y.target = t /\ y.left = x.left /\ y.checks = x.checks
      BY DEF Request
    <3>5. x.left = 0 /\ x.checks = 0
      BY <3>1, IdleOK
    <3> HIDE DEF y
    <3>6. RequestOK(pods', y)
      BY <2>1, <3>3, <3>4, <3>5, GatewayAssumption DEF RequestOK
    <3> QED BY <3>1, <3>6 DEF y
  <2>3. UNCHANGED <<around, pods, readyCache>> /\ starting' \in Templates \cup {None}
    BY <1>3, <2>1, Parts DEF ArriveToWake, IInv, AroundOK
  <2>4. Rows /\ AroundOK' /\ HeldRows'
    BY <2>3, Parts DEF IInv, AroundOK, Rows, HeldRows, around, accessVars, AccessTypeOK
  <2>5. requests' = [requests EXCEPT ![q] = r]
    BY <1>3 DEF ArriveToWake, Arrives
  <2> HIDE DEF r
  <2> QED BY <2>2, <2>4, <2>5, OneMoves
<1> QED BY <1>1, <1>2, <1>3

-----------------------------------------------------------------------------
(* A poll writes a status into the row of the pod that is waited for.      *)
LEMMA PollStep ==
  ASSUME IInv, NEW q \in Requests, PollRunning(q)
  PROVE  IInv'
<1> DEFINE r == requests[q]
           rows == [pods EXCEPT ![r.pod].status = RunpodSays(r.pod)]
           b == DescribedIn(rows, r.target)
<1>0. /\ pods \in [Pods -> PodRow]
      /\ cloud \in [Pods -> {"none", "STARTING", "loading", "up", "broken", "EXITED"}]
      /\ r \in Request /\ RequestOK(pods, r)
  BY Parts DEF IInv, AroundOK, RequestsOK
<1>1. pods' = rows /\ r.phase = "running" /\ r.left > 0
  BY DEF PollRunning
<1>2. RunpodSays(r.pod) \in Statuses
  BY DEF RunpodSays, Statuses
<1>3. rows \in [Pods -> PodRow] /\ \A p \in Pods : rows[p].template = pods[p].template
  BY <1>0, <1>2
<1>4. Rows
  BY <1>1, <1>3 DEF Rows
<1>5. AroundOK' /\ HeldRows'
  BY <1>1, <1>3, Parts
    DEF PollRunning, IInv, AroundOK, HeldRows, around, accessVars, AccessTypeOK
<1>6. ASSUME NEW next, RequestOK(pods', next), requests' = [requests EXCEPT ![q] = next]
      PROVE  IInv'
  BY <1>4, <1>5, <1>6, OneMoves
<1>7. r.target \in Templates /\ r.left \in 0..Wait /\ r.checks \in 0..Wait /\ Wait \in Nat
  BY <1>0, <1>1, GatewayAssumption DEF RequestOK, Request
<1>8. CASE RunpodSays(r.pod) # "RUNNING"
  <2> DEFINE s == [r EXCEPT !.left = @ - 1]
  <2>1. r.left - 1 \in 0..Wait
    BY <1>1, <1>7
  <2>2. s \in Request
    BY <1>0, <2>1 DEF Request
  <2>3. s.phase = r.phase /\ s.target = r.target /\ s.left = r.left - 1 /\ s.checks = r.checks
    BY <1>0 DEF Request
  <2>4. requests' = [requests EXCEPT ![q] = s]
    BY <1>8 DEF PollRunning
  <2> HIDE DEF s, r
  <2>5. RequestOK(pods', s)
    BY <1>0, <1>1, <1>7, <2>2, <2>3 DEF RequestOK
  <2> QED BY <1>6, <2>4, <2>5
<1>9. CASE RunpodSays(r.pod) = "RUNNING" /\ b = 0
  <2>1. requests' = [requests EXCEPT ![q] = Ended("still starting")]
    BY <1>9 DEF PollRunning
  <2>2. RequestOK(pods', Ended("still starting"))
    BY EndedOK DEF Replies
  <2> QED BY <1>6, <2>1, <2>2
<1>10. CASE RunpodSays(r.pod) = "RUNNING" /\ b # 0
  <2> DEFINE s == [r EXCEPT !.phase = "checking", !.base = b]
  <2>1. b \in Pods /\ "checking" \in Phases
    BY <1>3, <1>10, DescribedOK DEF Phases
  <2>2. requests' = [requests EXCEPT ![q] = s]
    BY <1>10 DEF PollRunning
  <2> HIDE DEF b, r
  <2>3. s \in Request
    BY <1>0, <2>1 DEF Request
  <2>4. s.phase = "checking" /\ s.target = r.target /\ s.left = r.left /\ s.checks = r.checks
    BY <1>0 DEF Request
  <2> HIDE DEF s
  <2>5. RequestOK(pods', s)
    BY <1>0, <1>7, <2>3, <2>4 DEF RequestOK
  <2> QED BY <1>6, <2>2, <2>5
<1> QED BY <1>8, <1>9, <1>10

(* The other steps of a request change no row.                             *)
LEMMA RequestStep ==
  ASSUME IInv, NEW q \in Requests, RequestSteps(q)
  PROVE  IInv'
<1> DEFINE r == requests[q]
<1>0. /\ pods \in [Pods -> PodRow]
      /\ readyCache \in [Pods -> {"unknown", "ready", "not ready"}]
      /\ r \in Request /\ RequestOK(pods, r)
  BY Parts DEF IInv, AroundOK, RequestsOK
<1>1. r.phase # "idle" => r.target \in Templates
  BY <1>0 DEF RequestOK
<1>2. ASSUME NEW answer \in Replies, requests' = [requests EXCEPT ![q] = Ended(answer)],
             Rows, AroundOK', HeldRows'
      PROVE  IInv'
  BY <1>2, EndedOK, OneMoves
<1>3. CASE Probed(q)
  <2>1. r.phase = "probing" /\ r.pod \in Pods /\ pods[r.pod].template = r.target
    BY <1>0, <1>3 DEF Probed, RequestOK
  <2>2. readyCache' \in [Pods -> {"unknown", "ready", "not ready"}]
    BY <1>0, <1>3 DEF Probed
  <2>3. Rows /\ AroundOK' /\ HeldRows' /\ pods' = pods
    BY <1>3, <2>2, Around DEF Probed
  <2>4. PICK next \in (IF cloud[r.pod] = "up" THEN Forwarded(r, r.pod) ELSE {Waiting(r)}) :
          requests' = [requests EXCEPT ![q] = next]
    BY <1>3 DEF Probed
  <2>5. RequestOK(pods', next)
    <3>1. CASE cloud[r.pod] = "up"
      BY <1>1, <2>1, <2>3, <2>4, <3>1, ForwardedOK
    <3>2. CASE cloud[r.pod] # "up"
      <4>1. next = Waiting(r)
        BY <2>4, <3>2
      <4>2. r.target \in Templates
        BY <1>1, <2>1
      <4>3. RequestOK(pods', Waiting(r))
        BY <1>0, <4>2, WaitingOK
      <4> QED BY <4>1, <4>3, Zenon
    <3> QED BY <3>1, <3>2
  <2> QED BY <2>3, <2>4, <2>5, OneMoves
<1>4. CASE PollRunning(q)
  BY <1>4, PollStep
<1>5. CASE PollFailed(q) \/ GiveUp(q)
  <2>1. Rows /\ AroundOK' /\ HeldRows'
    BY <1>5, AroundSame DEF PollFailed, GiveUp
  <2>2. \E answer \in Replies : requests' = [requests EXCEPT ![q] = Ended(answer)]
    BY <1>5 DEF PollFailed, GiveUp, Replies
  <2> QED BY <1>2, <2>1, <2>2
<1>6. CASE Healthy(q)
  <2> DEFINE p == ServedPod(r)
  <2>1. Rows /\ AroundOK' /\ HeldRows' /\ pods' = pods /\ r.target \in Templates
    BY <1>1, <1>6, AroundSame DEF Healthy
  <2>2. PICK next \in (IF p # 0 THEN Forwarded(r, p) ELSE {Ended("still starting")}) :
          requests' = [requests EXCEPT ![q] = next]
    BY <1>6 DEF Healthy
  <2>3. CASE p # 0
    <3>1. p \in Pods /\ pods[p].template = r.target
      BY <1>0, <2>3, DescribedOK DEF ServedPod, DescribedFor
    <3>2. RequestOK(pods', next)
      BY <2>1, <2>2, <2>3, <3>1, ForwardedOK
    <3> QED BY <2>1, <2>2, <3>2, OneMoves
  <2>4. CASE p = 0
    <3>1. next = Ended("still starting")
      BY <2>2, <2>4
    <3>2. RequestOK(pods', next)
      BY <3>1, EndedOK DEF Replies
    <3> QED BY <2>1, <2>2, <3>2, OneMoves
  <2> QED BY <2>3, <2>4
<1>7. CASE Unhealthy(q)
  <2> DEFINE crashing == (r.checks + 1) % CheckEvery = 0 /\ cloud[r.pod] = "broken"
             s == [r EXCEPT !.checks = @ + 1, !.left = @ - 1]
  <2>1. Rows /\ AroundOK' /\ HeldRows' /\ pods' = pods
    BY <1>7, AroundSame DEF Unhealthy
  <2>2. CASE crashing
    BY <1>2, <1>7, <2>1, <2>2 DEF Unhealthy, Replies
  <2>3. CASE ~crashing
    <3>1. requests' = [requests EXCEPT ![q] = s]
      BY <1>7, <2>3 DEF Unhealthy
    <3>2. r.phase = "checking" /\ r.left > 0
      BY <1>7 DEF Unhealthy
    <3>3. /\ r.left \in 0..Wait /\ r.checks \in 0..Wait /\ Wait \in Nat
          /\ r.checks + r.left <= Wait
      BY <1>0, GatewayAssumption DEF RequestOK, Request
    <3>4. r.checks + 1 \in 0..Wait /\ r.left - 1 \in 0..Wait
          /\ (r.checks + 1) + (r.left - 1) <= Wait
      BY <3>2, <3>3
    <3>5. s \in Request
      BY <1>0, <3>4 DEF Request
    <3>6. /\ s.phase = r.phase /\ s.target = r.target
          /\ s.left = r.left - 1 /\ s.checks = r.checks + 1
      BY <1>0 DEF Request
    <3> HIDE DEF s, r
    <3>7. RequestOK(pods', s)
      BY <1>1, <3>2, <3>4, <3>5, <3>6 DEF RequestOK
    <3> QED BY <2>1, <3>1, <3>7, OneMoves
  <2> QED BY <2>2, <2>3
<1>8. CASE UpstreamAnswers(q)
  <2>1. Rows /\ AroundOK' /\ HeldRows'
    BY <1>8, AroundSame DEF UpstreamAnswers
  <2>2. \E answer \in Replies : requests' = [requests EXCEPT ![q] = Ended(answer)]
    BY <1>8 DEF UpstreamAnswers, AnswerOf, Replies
  <2> QED BY <1>2, <2>1, <2>2
<1> QED BY <1>3, <1>4, <1>5, <1>6, <1>7, <1>8 DEF RequestSteps

-----------------------------------------------------------------------------
(* Those who waited for the start go on waiting for the pod it gave.       *)
LEMMA AwaitedOK ==
  ASSUME IInv, NEW rows, NEW p \in Pods,
         \A x \in Requests : RequestOK(rows, requests[x])
  PROVE  /\ Awaited(p) \in [Requests -> Request]
         /\ \A x \in Requests : RequestOK(rows, Awaited(p)[x])
<1> SUFFICES ASSUME NEW x \in Requests
             PROVE  Awaited(p)[x] \in Request /\ RequestOK(rows, Awaited(p)[x])
  BY DEF Awaited
<1> DEFINE r == requests[x]
           s == [r EXCEPT !.phase = "running", !.pod = p, !.left = Wait]
<1>0. r \in Request /\ RequestOK(rows, r) /\ Wait \in Nat
  BY GatewayAssumption DEF RequestOK
<1>1. CASE r.phase # "starting"
  BY <1>0, <1>1 DEF Awaited
<1>2. CASE r.phase = "starting"
  <2>1. Awaited(p)[x] = s
    BY <1>2 DEF Awaited
  <2>2. "running" \in Phases /\ Wait \in 0..Wait
    BY <1>0 DEF Phases
  <2>3. s \in Request
    BY <1>0, <2>2 DEF Request
  <2>4. s.phase = "running" /\ s.target = r.target /\ s.left = Wait /\ s.checks = r.checks
    BY <1>0 DEF Request
  <2> HIDE DEF s, r
  <2>5. RequestOK(rows, s)
    BY <1>0, <1>2, <2>3, <2>4 DEF RequestOK
  <2> QED BY <2>1, <2>3, <2>5
<1> QED BY <1>1, <1>2

(* The start fails, gives the pod that is there, or a new one, into whose  *)
(* row nothing has been written before.                                    *)
LEMMA StartStep ==
  ASSUME IInv, StartSteps
  PROVE  IInv'
<1>0. /\ pods \in [Pods -> PodRow] /\ requests \in [Requests -> Request]
      /\ cloud \in [Pods -> {"none", "STARTING", "loading", "up", "broken", "EXITED"}]
      /\ starting \in Templates \cup {None}
      /\ \A x \in Requests : RequestOK(pods, requests[x])
  BY Parts DEF IInv, AroundOK, RequestsOK
<1>1. CASE StartFailed
  <2>1. pods' = pods /\ AroundOK' /\ HeldRows'
    BY <1>1, Parts DEF StartFailed, IInv, AroundOK, HeldRows, around, accessVars, AccessTypeOK
  <2>2. ASSUME NEW x \in Requests PROVE RequestOK(pods, requests'[x])
    <3>1. RequestOK(pods, Ended("upstream"))
      BY EndedOK DEF Replies
    <3>2. requests'[x] = Ended("upstream") \/ requests'[x] = requests[x]
      BY <1>1 DEF StartFailed
    <3> QED BY <1>0, <3>1, <3>2
  <2>3. requests' = [q \in Requests |-> requests'[q]]
    BY <1>1 DEF StartFailed
  <2>4. requests' \in [Requests -> Request]
    BY <2>2, <2>3 DEF RequestOK
  <2> QED BY <2>1, <2>2, <2>4, Parts DEF IInv, RequestsOK
<1>2. CASE StartFound
  <2> DEFINE p == CurrentFor(starting)
  <2>1. pods' = pods /\ AroundOK' /\ HeldRows'
    BY <1>2, Parts DEF StartFound, IInv, AroundOK, HeldRows, around, accessVars, AccessTypeOK
  <2>2. p \in Pods /\ requests' = Awaited(p)
    BY <1>0, <1>2, CurrentOK DEF StartFound, CurrentFor
  <2> HIDE DEF p
  <2>3. /\ requests' \in [Requests -> Request]
        /\ \A x \in Requests : RequestOK(pods, requests'[x])
    BY <1>0, <2>2, AwaitedOK
  <2> QED BY <2>1, <2>3, Parts DEF IInv, RequestsOK
<1>3. CASE StartCreated
  <2>1. PICK p \in Pods, status \in {"STARTING", "RUNNING"} :
          /\ cloud[p] = "none"
          /\ pods' = [pods EXCEPT ![p] = [template |-> starting, status |-> status, stopped |-> FALSE]]
          /\ cloud' = [cloud EXCEPT ![p] = IF status = "RUNNING" THEN "loading" ELSE status]
          /\ requests' = Awaited(p)
    BY <1>3 DEF StartCreated
  <2>2. /\ [template |-> starting, status |-> status, stopped |-> FALSE] \in PodRow
        /\ (IF status = "RUNNING" THEN "loading" ELSE status) \in {"loading", "STARTING"}
    BY <1>0 DEF Statuses
  <2>3. pods' \in [Pods -> PodRow]
    BY <1>0, <2>1, <2>2
  <2>4. cloud' \in [Pods -> {"none", "STARTING", "loading", "up", "broken", "EXITED"}]
    BY <1>0, <2>1, <2>2
  <2>5. AroundOK'
    BY <1>3, <2>3, <2>4, Parts DEF StartCreated, IInv, AroundOK, accessVars, AccessTypeOK
  <2>6. HeldRows'
    <3>1. ASSUME NEW o \in Pods, pods'[o].template # None PROVE cloud'[o] # "none"
      <4>1. CASE o = p
        BY <1>0, <2>1, <2>2, <4>1
      <4>2. CASE o # p
        BY <1>0, <2>1, <3>1, <4>2 DEF IInv, HeldRows
      <4> QED BY <4>1, <4>2
    <3> QED BY <3>1 DEF HeldRows
  <2>7. ASSUME NEW x \in Requests PROVE RequestOK(pods', requests[x])
    <3>1. ASSUME requests[x].phase \in {"probing", "forwarded"}
          PROVE  requests[x].pod \in Pods /\ pods'[requests[x].pod].template = requests[x].target
      <4>1. /\ requests[x].pod \in Pods /\ requests[x].target \in Templates
            /\ pods[requests[x].pod].template = requests[x].target
        BY <1>0, <3>1 DEF RequestOK
      <4>2. requests[x].pod # p
        BY <2>1, <4>1, AccessAssumption DEF IInv, HeldRows
      <4> QED BY <1>0, <2>1, <4>1, <4>2
    <3> QED BY <1>0, <3>1 DEF RequestOK
  <2>8. /\ requests' \in [Requests -> Request]
        /\ \A x \in Requests : RequestOK(pods', requests'[x])
    BY <2>1, <2>7, AwaitedOK
  <2> QED BY <2>5, <2>6, <2>8, Parts DEF IInv, RequestsOK
<1> QED BY <1>1, <1>2, <1>3 DEF StartSteps

-----------------------------------------------------------------------------
(* What others do meanwhile takes no row away from a request.              *)
LEMMA OthersStep ==
  ASSUME IInv,
         \/ \E p \in Pods : Stopped(p) \/ CloudMoves(p) \/ CacheExpires(p)
         \/ \E t \in Templates : StartedByOthers(t) \/ ScheduleTurns(t)
         \/ TokenChanges
  PROVE  IInv'
<1>0. /\ AccessTypeOK /\ open \subseteq Templates /\ pods \in [Pods -> PodRow]
      /\ cloud \in [Pods -> {"none", "STARTING", "loading", "up", "broken", "EXITED"}]
      /\ readyCache \in [Pods -> {"unknown", "ready", "not ready"}]
      /\ starting \in Templates \cup {None}
      /\ HeldRows
  BY Parts DEF IInv, AroundOK
<1>1. ASSUME NEW p \in Pods, Stopped(p) PROVE IInv'
  <2>1. Rows /\ pods' \in [Pods -> PodRow]
    BY <1>0, <1>1, ZenonT(30) DEF Stopped, Rows, Statuses
  <2>2. AroundOK'
    BY <1>0, <1>1, <2>1 DEF Stopped, AroundOK, accessVars, AccessTypeOK
  <2>3. HeldRows'
    BY <1>0, <1>1, <2>1 DEF Stopped, HeldRows, Rows
  <2>4. requests' = requests
    BY <1>1 DEF Stopped
  <2> QED BY <2>1, <2>2, <2>3, <2>4, NoneMoves
<1>2. ASSUME NEW p \in Pods, CloudMoves(p) PROVE IInv'
  <2>1. PICK e \in {"loading", "up", "broken", "EXITED"} : cloud' = [cloud EXCEPT ![p] = e]
    BY <1>2 DEF CloudMoves
  <2>2. UNCHANGED <<accessVars, open, pods, readyCache, starting, requests>>
    BY <1>2 DEF CloudMoves
  <2>3. AroundOK'
    BY <1>0, <2>1, <2>2 DEF AroundOK, accessVars, AccessTypeOK
  <2>4. HeldRows'
    BY <1>0, <2>1, <2>2 DEF HeldRows
  <2> QED BY <2>2, <2>3, <2>4, NoneMoves DEF Rows
<1>3. ASSUME NEW p \in Pods, CacheExpires(p) PROVE IInv'
  <2>1. /\ UNCHANGED <<around, pods, starting, requests>>
        /\ readyCache' \in [Pods -> {"unknown", "ready", "not ready"}]
    BY <1>0, <1>3 DEF CacheExpires
  <2> QED BY <2>1, Around, NoneMoves
<1>4. ASSUME NEW t \in Templates, StartedByOthers(t) PROVE IInv'
  <2>1. /\ UNCHANGED <<around, pods, readyCache, requests>> /\ starting' \in Templates
    BY <1>4 DEF StartedByOthers
  <2>2. Rows /\ AroundOK' /\ HeldRows'
    BY <1>0, <2>1 DEF Rows, AroundOK, HeldRows, around, accessVars, AccessTypeOK
  <2> QED BY <2>1, <2>2, NoneMoves
<1>5. ASSUME NEW t \in Templates, ScheduleTurns(t) PROVE IInv'
  <2>1. /\ UNCHANGED <<accessVars, pods, cloud, readyCache, starting, requests>>
        /\ open' \subseteq Templates
    BY <1>0, <1>5 DEF ScheduleTurns
  <2>2. Rows /\ AroundOK' /\ HeldRows'
    BY <1>0, <2>1 DEF Rows, AroundOK, HeldRows, accessVars, AccessTypeOK
  <2> QED BY <2>1, <2>2, NoneMoves
<1>6. CASE TokenChanges
  <2>1. UNCHANGED <<open, pods, cloud, readyCache, starting, requests>>
    BY <1>6 DEF TokenChanges
  <2>2. AccessTypeOK'
    <3>1. PICK k \in Tokens : RevokeToken(k) \/ \E t \in Templates : AssignToken(k, t)
      BY <1>6 DEF TokenChanges
    <3>2. templates' = templates
      BY <3>1 DEF RevokeToken, AssignToken
    <3>3. CASE RevokeToken(k)
      BY <1>0, <3>2, <3>3 DEF RevokeToken, AccessTypeOK
    <3>4. CASE \E t \in Templates : AssignToken(k, t)
      BY <1>0, <3>2, <3>4, ZenonT(30) DEF AssignToken, AccessTypeOK
    <3> QED BY <3>1, <3>3, <3>4
  <2>3. Rows /\ AroundOK' /\ HeldRows'
    BY <1>0, <2>1, <2>2 DEF Rows, AroundOK, HeldRows
  <2> QED BY <2>1, <2>3, NoneMoves
<1> QED BY <1>1, <1>2, <1>3, <1>4, <1>5, <1>6

-----------------------------------------------------------------------------
LEMMA InitOK == Init => IInv
<1> SUFFICES ASSUME Init PROVE IInv
  OBVIOUS
<1>1. AroundOK
  BY DEF Init, AroundOK, AccessTypeOK, Blank, Statuses
<1>2. requests \in [Requests -> Request] /\ \A q \in Requests : RequestOK(pods, requests[q])
  <2>1. PICK r \in Request : r = Idle
    BY IdleOK
  <2>2. RequestOK(pods, r)
    BY <2>1, IdleOK, GatewayAssumption DEF RequestOK
  <2> QED BY <2>1, <2>2 DEF Init
<1>3. HeldRows
  BY DEF Init, HeldRows, Blank
<1> QED BY <1>1, <1>2, <1>3, Parts DEF IInv, RequestsOK

LEMMA StepOK == IInv /\ [Next]_vars => IInv'
<1> SUFFICES ASSUME IInv, [Next]_vars PROVE IInv'
  OBVIOUS
<1>1. CASE UNCHANGED vars
  BY <1>1, AroundSame, NoneMoves DEF vars, around
<1>2. CASE Next
  BY <1>2, ArriveStep, RequestStep, StartStep, OthersStep DEF Next
<1> QED BY <1>1, <1>2

(* In every reachable state IInv holds.                                    *)
LEMMA Inductive == Spec => []IInv
BY InitOK, StepOK, PTL DEF Spec

(* Every value a request, a row or the caches of gateway/resolve.ts and    *)
(* pods/manager.ts ever hold is of its type: a wait never goes below its   *)
(* deadline, and its health checks never outnumber the polls it was given. *)
THEOREM TypeCorrect == Spec => []TypeOK
<1>1. IInv => TypeOK
  BY DEF IInv
<1> QED BY <1>1, Inductive, PTL

(* A request that routes.ts has sent to a pod is at a pod of the template  *)
(* its token was assigned to, however many starts, stops and tokens there  *)
(* are.                                                                    *)
THEOREM OwnPodOnlyAlways == Spec => []OwnPodOnly
<1>1. IInv => OwnPodOnly
  BY DEF IInv, RequestsOK, RequestOK, OwnPodOnly
<1> QED BY <1>1, Inductive, PTL

-----------------------------------------------------------------------------
(* The pod looked up is the newest live one, and one is found when there   *)
(* is one.                                                                 *)
Live(rows, t) == {p \in Pods : /\ rows[p].template = t /\ ~rows[p].stopped
                               /\ rows[p].status \in {"STARTING", "RUNNING"}}

LEMMA CurrentIsNewest ==
  ASSUME NEW rows, NEW t, Live(rows, t) # {}
  PROVE  /\ CurrentIn(rows, t) \in Live(rows, t) /\ CurrentIn(rows, t) # 0
         /\ \A o \in Live(rows, t) : o <= CurrentIn(rows, t)
<1> DEFINE live == Live(rows, t)
<1>1. CurrentIn(rows, t) = CHOOSE p \in live : \A o \in live : o <= p
  BY DEF CurrentIn, Live
<1>2. live \in SUBSET Pods
  BY DEF Live
<1> HIDE DEF live
<1>3. \E p \in live : \A o \in live : o <= p
  BY <1>2, NewestExists DEF live
<1>4. CurrentIn(rows, t) \in live /\ \A o \in live : o <= CurrentIn(rows, t)
  BY <1>1, <1>3
<1> QED BY <1>2, <1>4, PodsArePositive DEF live

LEMMA NothingLive ==
  ASSUME NEW rows, NEW t, CurrentIn(rows, t) # 0
  PROVE  Live(rows, t) # {}
BY DEF CurrentIn, Live

(* To record of any pod that it is running does not hide a pod that was    *)
(* looked up before.                                                       *)
LEMMA RunningHidesNone ==
  ASSUME NEW rows \in [Pods -> PodRow], NEW t, NEW o \in Pods, DescribedIn(rows, t) # 0
  PROVE  DescribedIn([rows EXCEPT ![o].status = "RUNNING"], t) # 0
<1> DEFINE after == [rows EXCEPT ![o].status = "RUNNING"]
           p == CurrentIn(rows, t)
           n == CurrentIn(after, t)
<1>1. p # 0 /\ rows[p].status = "RUNNING"
  BY DEF DescribedIn
<1>2. p \in Live(rows, t) /\ \A x \in Live(rows, t) : x <= p
  BY <1>1, NothingLive, CurrentIsNewest
<1>3. /\ \A x \in Pods : after[x].template = rows[x].template /\ after[x].stopped = rows[x].stopped
      /\ after[o].status = "RUNNING" /\ \A x \in Pods : x # o => after[x].status = rows[x].status
  OBVIOUS
<1> HIDE DEF after, p, n
<1>4. Live(rows, t) \subseteq Live(after, t) /\ Live(after, t) \subseteq Live(rows, t) \cup {o}
  BY <1>3 DEF Live
<1>5. n \in Live(after, t) /\ n # 0 /\ \A x \in Live(after, t) : x <= n
  BY <1>2, <1>4, CurrentIsNewest DEF n
<1>6. after[n].status = "RUNNING"
  <2>1. CASE n = o
    BY <1>3, <2>1
  <2>2. CASE n # o
    <3>1. n <= p /\ p <= n /\ n \in Pods /\ p \in Pods
      BY <1>2, <1>4, <1>5, <2>2 DEF Live
    <3>2. n = p
      BY <3>1, PodsArePositive
    <3> QED BY <1>1, <1>3, <2>2, <3>1, <3>2
  <2> QED BY <2>1, <2>2
<1> QED BY <1>5, <1>6 DEF DescribedIn, n, after

(* Time that is left is more than none.                                   *)
LEMMA TimeLeft == \A n : n > 0 => n # 0
OBVIOUS

(* Whoever waits and still has time is told to come back later only by the *)
(* poll or the health check that finds no pod of its template.             *)
LEMMA SentAwayByAStep ==
  ASSUME IInv, Next, NEW q \in Requests,
         requests[q].phase \in {"running", "checking"}, requests[q].left > 0,
         requests'[q].phase = "idle", requests'[q].answer = "still starting"
  PROVE  PollRunning(q) \/ Healthy(q)
<1>0. requests \in [Requests -> Request]
  BY Parts DEF IInv
<1>1. requests'[q] # requests[q]
  OBVIOUS
<1>2. ASSUME NEW x \in Requests, NEW r, requests' = [requests EXCEPT ![x] = r]
      PROVE  x = q /\ r = requests'[q]
  BY <1>0, <1>1, <1>2
<1>3. Ended("upstream").answer = "upstream"
  BY DEF Ended, Idle
<1>4. ASSUME NEW x \in Requests, NEW k \in Tokens,
             ArriveInVain(x, k) \/ ArriveAtPod(x, k) \/ ArriveToWake(x, k)
      PROVE  FALSE
  <2>1. requests[x].phase = "idle" /\ \E r : requests' = [requests EXCEPT ![x] = r]
    BY <1>4 DEF ArriveInVain, ArriveAtPod, ArriveToWake, Arrives
  <2> QED BY <1>2, <2>1
<1>5. ASSUME NEW x \in Requests, RequestSteps(x) PROVE PollRunning(q) \/ Healthy(q)
  <2>1. x = q
    <3>1. \E r : requests' = [requests EXCEPT ![x] = r]
      BY <1>5 DEF RequestSteps, Probed, PollRunning, PollFailed, GiveUp, Healthy, Unhealthy,
                  UpstreamAnswers
    <3> QED BY <1>2, <3>1
  <2>2. ~Probed(q) /\ ~GiveUp(q) /\ ~UpstreamAnswers(q)
    <3>1. ~GiveUp(q)
      BY TimeLeft DEF GiveUp
    <3>2. requests[q].phase # "probing" /\ requests[q].phase # "forwarded"
      OBVIOUS
    <3> QED BY <3>1, <3>2 DEF Probed, UpstreamAnswers
  <2>3. ~PollFailed(q)
    <3>1. SUFFICES ASSUME requests' = [requests EXCEPT ![q] = Ended("upstream")] PROVE FALSE
      BY DEF PollFailed
    <3> QED BY <1>2, <1>3, <3>1
  <2>4. ~Unhealthy(q)
    <3> DEFINE r == requests[q]
               s == [r EXCEPT !.checks = @ + 1, !.left = @ - 1]
    <3>1. SUFFICES ASSUME r.phase = "checking",
                          requests' = [requests EXCEPT ![q] = Ended("upstream")]
                            \/ requests' = [requests EXCEPT ![q] = s]
                   PROVE  FALSE
      BY DEF Unhealthy
    <3>2. s.phase = r.phase
      BY <1>0 DEF Request
    <3> HIDE DEF s
    <3> QED BY <1>2, <1>3, <3>1, <3>2
  <2> QED BY <1>5, <2>1, <2>2, <2>3, <2>4 DEF RequestSteps
<1>6. CASE StartSteps
  BY <1>0, <1>1, <1>6 DEF StartSteps, StartFailed, StartFound, StartCreated, Awaited
<1>7. CASE requests' = requests
  BY <1>1, <1>7
<1> QED
  BY <1>4, <1>5, <1>6, <1>7
    DEF Next, Stopped, CloudMoves, CacheExpires, StartedByOthers, ScheduleTurns, TokenChanges

(* A client that has waited and still has time is not told to come back    *)
(* while a pod of its template serves: a poll that makes the pod it waited *)
(* for look newer, another template's or its own, does not hide it.        *)
THEOREM NotSentAwayWhileServedAlways == Spec => NotSentAwayWhileServed
<1> DEFINE Step == \A q \in Requests :
       /\ requests[q].phase \in {"running", "checking"} /\ requests[q].left > 0
       /\ requests'[q].phase = "idle" /\ requests'[q].answer = "still starting"
       => ~Served(requests[q].target)
<1>1. IInv /\ [Next]_vars => Step
  <2> SUFFICES ASSUME IInv, [Next]_vars, NEW q \in Requests, Served(requests[q].target),
                      requests[q].phase \in {"running", "checking"}, requests[q].left > 0,
                      requests'[q].phase = "idle", requests'[q].answer = "still starting"
               PROVE  FALSE
    OBVIOUS
  <2>0. requests \in [Requests -> Request] /\ pods \in [Pods -> PodRow]
    BY Parts DEF IInv, AroundOK
  <2>1. Next
    BY DEF vars
  <2>2. PollRunning(q) \/ Healthy(q)
    BY <2>1, SentAwayByAStep
  <2> DEFINE r == requests[q]
             t == r.target
  <2>3. requests \in [Requests -> Request] /\ pods \in [Pods -> PodRow] /\ r \in Request
    BY <2>0
  <2>4. DescribedIn(pods, t) # 0
    BY DEF Served, DescribedFor
  <2>5. CASE PollRunning(q)
    <3> DEFINE rows == [pods EXCEPT ![r.pod].status = RunpodSays(r.pod)]
               waits == [r EXCEPT !.left = @ - 1]
               checks == [r EXCEPT !.phase = "checking", !.base = DescribedIn(rows, t)]
    <3>1. requests'[q] = IF RunpodSays(r.pod) # "RUNNING" THEN waits
                         ELSE IF DescribedIn(rows, t) = 0 THEN Ended("still starting") ELSE checks
      BY <2>3, <2>5 DEF PollRunning
    <3>2. waits.phase = r.phase /\ checks.phase = "checking"
      BY <2>3 DEF Request
    <3> HIDE DEF waits, checks, rows
    <3>3. RunpodSays(r.pod) = "RUNNING" /\ DescribedIn(rows, t) = 0
      BY <3>1, <3>2
    <3>4. CASE r.pod \in Pods
      BY <2>3, <2>4, <3>3, <3>4, RunningHidesNone DEF rows
    <3>5. CASE r.pod \notin Pods
      <4>1. rows = pods
        BY <2>3, <3>5 DEF rows
      <4> QED BY <2>4, <3>3, <4>1
    <3> QED BY <3>4, <3>5
  <2>6. CASE Healthy(q)
    <3>1. ServedPod(r) # 0
      BY <2>4 DEF ServedPod, DescribedFor
    <3>2. PICK next \in Forwarded(r, ServedPod(r)) : requests' = [requests EXCEPT ![q] = next]
      BY <2>6, <3>1 DEF Healthy
    <3> DEFINE e == Ended("refused")
               s == [Idle EXCEPT !.phase = "forwarded", !.target = r.target, !.pod = ServedPod(r)]
    <3>3. e.answer = "refused" /\ s.phase = "forwarded"
      BY DEF Ended, Idle
    <3>4. next = e \/ next = s
      BY <3>2 DEF Forwarded
    <3> HIDE DEF e, s
    <3>5. requests'[q] = next
      BY <2>3, <3>2
    <3> QED BY <3>3, <3>4, <3>5
  <2> QED BY <2>2, <2>5, <2>6
<1> QED BY <1>1, Inductive, PTL DEF Spec, NotSentAwayWhileServed
=============================================================================
