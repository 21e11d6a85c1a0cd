--------------------------- MODULE PodProperties ---------------------------
(***************************************************************************)
(* What the pod manager and the reaper promise.                            *)
(***************************************************************************)
EXTENDS PodLifecycle

(* Never more live pods than maxConcurrentPods, however starts, stops,     *)
(* polls, reaping and a restart interleave: assertRoomForAnotherPod looks  *)
(* once, before every await of doStart.                                    *)
LimitRespected == Cardinality(Live) <= Limit

(* "at most one per template": the class comment of PodManager. *)
OnePerTemplate ==
  \A t \in Templates : \A p, q \in RunningFor(pods, t) : p = q

(* What doStart checked before its first await still holds when it gets    *)
(* its answer, minutes later: there is room, and the template has no pod.  *)
StartKeepsItsRoom ==
  starting.phase # "idle" =>
    /\ Cardinality(Live) < Limit
    /\ RunningFor(pods, starting.template) = {}

(* A pod written off (terminated_at is set) bills nothing any more: it is  *)
(* gone at RunPod, so that no query needs to consider it again.            *)
TerminatedIsGone == \A p \in Pods : pods[p].terminated => cloud[p] = "gone"

(* Every pod RunPod bills has a row, but for the one a start is about to   *)
(* record: a pod without one cannot be routed to, reaped or scheduled.     *)
BilledIsRecorded ==
  \A p \in Pods :
    cloud[p] \in Listed /\ ~pods[p].recorded =>
      starting.phase = "create" /\ starting.answer = "ok" /\ starting.pod = p

(* The pods as the rest of the service sees them: who serves which         *)
(* template.                                                               *)
Serves == [p \in Pods |-> IF p \in Live THEN pods[p].template ELSE NoTemplate]

Allotment == INSTANCE PodAllotment
               WITH Nobody <- NoTemplate, serving <- Live, serves <- Serves

(* The pod manager implements the allotment: every step of any of its      *)
(* interleavings grants one pod, with room for it and to a template that   *)
(* has none, or releases one, or leaves the allotment alone.               *)
ImplementsAllotment == Allotment!Spec

(* The GPUs rented at RunPod, as opposed to the rows that say so.          *)
GpusWithinLimit == Cardinality({p \in Pods : cloud[p] = "running"}) <= Limit

(* The reaper never sets out to terminate a pod that is live: "Every       *)
(* running pod, not just the newest one" (reapSupersededPods).             *)
ReaperSparesLive ==
  [][\A p \in Live : reaping'.pod = p => reaping.pod = p]_vars

(* A start is answered with a pod of the template it asked for. *)
CallersGetTheirOwn == \A c \in callers : c.template = starting.template

(* A pod that a person asked for is recorded as started by a person. *)
PersonKeepsStart ==
  [][\A p \in RunningPods(pods') \ Live :
       [template |-> starting.template, by |-> "user"] \in callers =>
         pods'[p].by = "user"]_vars

(* args_fingerprint is what the pod was started with. *)
ArgsAsBuilt == \A p \in Pods : pods[p].recorded => pods[p].args = built[p]

(* A resume that comes back without a GPU is not handed out as a pod. *)
HandedOutWithGpu ==
  [][\A p \in RunningPods(pods') \ Live : cloud[p] # "hollow"]_vars

(* doStart always settles: the slot every start waits on is given back. *)
StartSettles == starting.phase # "idle" ~> starting.phase = "idle"

(* A pod nothing will use: RunPod holds it, its row is neither live nor    *)
(* the one its template would be woken from.                               *)
Leftover(p) ==
  /\ cloud[p] \in Listed
  /\ pods[p].recorded
  /\ pods[p].template # NoTemplate
  /\ p \notin Live
  /\ p \notin Resumable(pods, pods[p].template)

(* "Retried on the next pass": the reaper gets rid of leftover pods though *)
(* RunPod fails its calls now and then.                                    *)
LeftoversGo == \A p \in Pods : Leftover(p) ~> ~Leftover(p)

-----------------------------------------------------------------------------
(* The inductive invariants behind these properties.                       *)

(* An operation under way names the pod and the template it is about. *)
OperationsShape ==
  /\ starting.phase # "idle" =>
       starting.template \in Templates /\ starting.config \in Configs
  /\ starting.phase \in {"wake", "look", "hollow", "discard"} => starting.pod \in Pods
  /\ starting.phase = "create" /\ starting.answer = "ok" => starting.pod \in Pods
  /\ waking.phase # "idle" => waking.pod \in Pods /\ waking.template \in Templates
  /\ reaping.phase = "acting" => reaping.pod \in Pods
  /\ \A a \in acts : a.action = "getPod" => a.answer \in {"RUNNING", "EXITED"}

(* A benign answer to a termination, or a 404, is only given of a pod that *)
(* is gone; and gone is for good.                                          *)
AnswersTellTruth ==
  /\ \A a \in acts : a.action = "terminate" /\ a.answer \in Benign => cloud[a.pod] = "gone"
  /\ reaping.phase = "acting" /\ reaping.answer \in Benign => cloud[reaping.pod] = "gone"
  /\ starting.phase = "discard" /\ starting.answer \in Benign => cloud[starting.pod] = "gone"
  /\ starting.phase = "wake" /\ starting.answer = "absent" => cloud[starting.pod] = "gone"
  /\ waking.phase = "wake" /\ waking.answer = "absent" => cloud[waking.pod] = "gone"

(* Holds whatever an instance lets happen. *)
GoneInv == TypeOK /\ OperationsShape /\ AnswersTellTruth /\ TerminatedIsGone

(* The row of the pod a start wakes stays stopped, and its template's or   *)
(* nobody's, until that start records it; a pod just created has no row.   *)
StartOwnsItsRow ==
  /\ starting.phase \in {"wake", "look"} =>
       /\ pods[starting.pod].recorded
       /\ pods[starting.pod].stopped
       /\ pods[starting.pod].template \in {starting.template, NoTemplate}
  /\ starting.phase = "look" /\ starting.answer = "EXITED" =>
       cloud[starting.pod] \in {"exited", "gone"}
  /\ starting.phase = "create" /\ starting.answer = "ok" =>
       ~pods[starting.pod].recorded /\ cloud[starting.pod] # "none"

(* A row that is neither stopped nor running is of a pod that is down, so  *)
(* that no poll brings it back into the count.                             *)
UnliveIsDown ==
  \A p \in Pods :
    /\ pods[p].recorded => cloud[p] # "none"
    /\ pods[p].recorded /\ ~pods[p].stopped /\ pods[p].status = "EXITED" =>
         cloud[p] \in {"exited", "gone"}

(* No answer to a poll is on its way. *)
PollsOnTime == \A a \in acts : a.action # "getPod"

(* Holds where no administrator resumes a single pod and no answer to a    *)
(* poll arrives late.                                                      *)
RoomInv ==
  /\ TypeOK
  /\ OperationsShape
  /\ waking = NoWake
  /\ StartOwnsItsRow
  /\ UnliveIsDown
  /\ StartKeepsItsRoom
  /\ LimitRespected
  /\ OnePerTemplate

(* A template stays in the table while its pod starts, so that the pod can *)
(* be recorded.  Holds where no template is deleted.                       *)
StartKeepsTemplate ==
  starting.phase # "idle" => templates[starting.template] # NoConfig

RecordInv == StartKeepsTemplate /\ BilledIsRecorded

(* A pod with a GPU is live, but for the one a start is about to record.   *)
RentedIsCounted ==
  \A p \in Pods :
    cloud[p] = "running" =>
      \/ p \in Live
      \/ /\ starting.phase \in {"wake", "create"}
         /\ starting.answer = "ok"
         /\ starting.pod = p

(* A stop in flight is of a pod that was live: no start wakes it before    *)
(* the answer is used.                                                     *)
StopsStillHold ==
  \A a \in acts :
    /\ pods[a.pod].recorded
    /\ a.action = "stop" /\ pods[a.pod].stopped => cloud[a.pod] = "gone"
    /\ a.action = "stop" /\ a.answer \in Benign => cloud[a.pod] # "running"

(* The row of a pod that came back without a GPU is still stopped. *)
HollowIsStopped ==
  starting.phase = "hollow" => pods[starting.pod].recorded /\ pods[starting.pod].stopped

(* No pod is being stopped twice at once. *)
OneStopPerPod ==
  \A a, b \in acts : a.action = "stop" /\ b.action = "stop" /\ a.pod = b.pod => a = b

(* Holds where pods are only stopped by their template, one stop at a time *)
(* each, and RunPod's calls do what they answer.                           *)
RentInv == RentedIsCounted /\ StopsStillHold /\ HollowIsStopped
=============================================================================
