---------------------------- MODULE PodLifecycle ----------------------------
(***************************************************************************)
(* The life of pods: PodManager (start, stop, resume, act, the polling     *)
(* UPDATE), the reaper, the template routes that touch what they read, and *)
(* RunPod underneath.                                                      *)
(*                                                                         *)
(* The service is one Node process.  What runs between two awaits is one   *)
(* step here; an await on RunPod is two: RunPod doing its part (an action  *)
(* whose name ends in AtRunpod) and the service going on with the answer.  *)
(* Anything may happen in between.                                         *)
(*                                                                         *)
(* An operator introduced as a mutant is a plausible bug in the operator   *)
(* that follows it.  No specification uses it: it is there to show that a  *)
(* property would notice.                                                  *)
(***************************************************************************)
EXTENDS PodTable, RunPod

CONSTANTS
  Limit,        \* maxConcurrentPods
  MaxActs,      \* bound: stops, deletions and late polls in flight at once
  Askers,       \* which origins an instance lets ask for a start
  Enabled       \* which of the operations below an instance lets happen

Operations == {"resume", "act", "stop", "edit", "delete", "reap",
               "poll", "late", "lose", "fail", "crash"}

ASSUME LifecycleAssumption ==
  /\ Limit \in Nat
  /\ MaxActs \in Nat
  /\ Askers \subseteq Origins
  /\ Enabled \subseteq Operations

VARIABLES
  templates,    \* the templates table
  pods,         \* the pods table
  startedBy,    \* PodManager.startedBy, one field for every start
  starting,     \* PodManager.startInFlight: the doStart that is running
  callers,      \* who awaits it: the template asked for, and by whom
  waking,       \* the resume() an admin request is running
  acts,         \* the act() calls in flight, and the polls that take long
  reaping,      \* the reaper's pass
  cloud,        \* RunPod's pods
  built         \* the arguments each pod was created with, at RunPod

vars == <<templates, pods, startedBy, starting, callers, waking, acts,
          reaping, cloud, built>>

service == <<templates, pods, startedBy, callers>>

-----------------------------------------------------------------------------
(* The answer of a call that is still out is "none", getPod's a status. *)
Reply == Answers \cup {"none", "RUNNING", "EXITED"}

Start == [phase    : {"idle", "wake", "look", "hollow", "discard", "create"},
          template : Templates \cup {NoTemplate},
          config   : Configs \cup {NoConfig},
          pod      : Pods \cup {0},
          answer   : Reply]

NoStart == [phase |-> "idle", template |-> NoTemplate, config |-> NoConfig,
            pod |-> 0, answer |-> "none"]

Wake == [phase : {"idle", "wake", "look", "hollow"}, pod : Pods \cup {0},
         template : Templates \cup {NoTemplate}, answer : Reply]

NoWake == [phase |-> "idle", pod |-> 0, template |-> NoTemplate, answer |-> "none"]

Act == [pod : Pods, action : {"stop", "terminate", "getPod"}, answer : Reply]

Ours == [pod : Pods, template : Templates]

Reap == [phase : {"idle", "listed", "acting"}, listed : SUBSET Pods,
         running : SUBSET Pods, todo : SUBSET Ours, pod : Pods \cup {0},
         answer : Reply]

NoReap == [phase |-> "idle", listed |-> {}, running |-> {}, todo |-> {},
           pod |-> 0, answer |-> "none"]

Live == RunningPods(pods)

TypeOK ==
  /\ templates \in [Templates -> Configs \cup {NoConfig}]
  /\ pods \in [Pods -> Row]
  /\ startedBy \in Origins
  /\ starting \in Start
  /\ callers \subseteq [template : Templates, by : Origins]
  /\ waking \in Wake
  /\ acts \subseteq Act
  /\ reaping \in Reap
  /\ cloud \in [Pods -> PodStates]
  /\ built \in [Pods -> Args \cup {NoArgs}]

Init ==
  /\ templates \in [Templates -> Configs]
  /\ pods = [p \in Pods |-> Blank]
  /\ startedBy = "user"
  /\ starting = NoStart
  /\ callers = {}
  /\ waking = NoWake
  /\ acts = {}
  /\ reaping = NoReap
  /\ cloud = [p \in Pods |-> "none"]
  /\ built = [p \in Pods |-> NoArgs]

(* RunPod carries out, or fails, an action on a pod. *)
AtRunpod(action, p, answer) ==
  \E after \in PodStates :
    /\ \/ Performed(action, cloud[p], answer, after)
       \/ "fail" \in Enabled /\ Failed(action, cloud[p], answer, after)
    /\ cloud' = [cloud EXCEPT ![p] = after]

-----------------------------------------------------------------------------
(* start(): one slot for every template.                                   *)

(* Mutant: one pod too many. *)
HasRoomOrIsFull(t) == Cardinality({p \in Live : pods[p].template # t}) <= Limit

(* assertRoomForAnotherPod. *)
HasRoom(t) == Cardinality({p \in Live : pods[p].template # t}) < Limit

(* Mutant: the template's own pod is not looked for. *)
NeedsRoomOnly(t) == HasRoom(t)

(* The template's pod is not up, and there is room for it. *)
CanStart(t) == RunningFor(pods, t) = {} /\ HasRoom(t)

(* A start while another is in flight awaits that one, whatever it is for. *)
JoinStart(t, by) ==
  /\ templates[t] # NoConfig
  /\ starting.phase # "idle"
  /\ startedBy' = by
  /\ callers' = callers \cup {[template |-> t, by |-> by]}
  /\ UNCHANGED <<templates, pods, starting, waking, acts, reaping, cloud, built>>

(* The template's pod is up, or there is no room: doStart ends at once. *)
NoStartNeeded(t, by) ==
  /\ templates[t] # NoConfig
  /\ starting.phase = "idle"
  /\ ~CanStart(t)
  /\ startedBy' = by
  /\ UNCHANGED <<templates, pods, starting, callers, waking, acts, reaping,
                 cloud, built>>

(* doStart up to its first await. *)
BeginStart(t, by) ==
  LET config == templates[t]
      paused == IF config.mode = "stopResume" THEN Resumable(pods, t) ELSE {}
      Begun(phase, p) == [phase |-> phase, template |-> t, config |-> config,
                          pod |-> p, answer |-> "none"]
  IN  /\ config # NoConfig
      /\ starting.phase = "idle"
      /\ CanStart(t)
      /\ startedBy' = by
      /\ callers' = {[template |-> t, by |-> by]}
      /\ \/ /\ paused = {}
            /\ starting' = Begun("create", 0)
         \/ \E p \in paused :
              /\ pods[p].args # config.args
              /\ starting' = Begun("discard", p)
         \/ \E p \in paused :
              /\ pods[p].args = config.args
              /\ starting' = Begun("wake", p)
      /\ UNCHANGED <<templates, pods, waking, acts, reaping, cloud, built>>

StartAtRunpod ==
  /\ starting.phase \in {"wake", "hollow", "discard"}
  /\ starting.answer = "none"
  /\ \E answer \in Answers :
       /\ AtRunpod(IF starting.phase = "wake" THEN "start" ELSE "terminate",
                   starting.pod, answer)
       /\ starting' = [starting EXCEPT !.answer = answer]
  /\ UNCHANGED <<service, waking, acts, reaping, built>>

(* What getPod may answer now. *)
Described(p) ==
  (IF cloud[p] = "gone" THEN {"absent"} ELSE {StatusOf(cloud[p])})
    \cup (IF "fail" \in Enabled THEN {"failed"} ELSE {})

StartLookAtRunpod ==
  /\ starting.phase = "look"
  /\ starting.answer = "none"
  /\ \E answer \in Described(starting.pod) :
       starting' = [starting EXCEPT !.answer = answer]
  /\ UNCHANGED <<service, waking, acts, reaping, cloud, built>>

(* The next id RunPod hands out. *)
NextPod == {p \in Pods : cloud[p] = "none" /\ \A q \in Pods : q < p => cloud[q] # "none"}

(* createPod, the attempts of createWithFallback taken together: a pod, or *)
(* no capacity anywhere, or an error that may leave a pod behind.          *)
CreateAtRunpod ==
  /\ starting.phase = "create"
  /\ starting.answer = "none"
  /\ \/ \E p \in NextPod, answer \in {"ok", "failed"} :
          /\ answer = "failed" => "fail" \in Enabled
          /\ cloud' = [cloud EXCEPT ![p] = "running"]
          /\ built' = [built EXCEPT ![p] = starting.config.args]
          /\ starting' = [starting EXCEPT !.answer = answer,
                                          !.pod = IF answer = "ok" THEN p ELSE 0]
     \/ /\ starting' = [starting EXCEPT !.answer = "failed", !.pod = 0]
        /\ UNCHANGED <<cloud, built>>
  /\ UNCHANGED <<service, waking, acts, reaping>>

(* Mutant: the slot is not given back. *)
EndStartKeepingSlot ==
  /\ UNCHANGED starting
  /\ callers' = {}

(* The promise settles: the slot is cleared and every caller is answered. *)
EndStart ==
  /\ starting' = NoStart
  /\ callers' = {}

Proceed(phase) == starting' = [starting EXCEPT !.phase = phase, !.answer = "none"]

RecordStart(status) ==
  pods' = Recorded(pods, starting.pod, starting.template, status, startedBy,
                   templates[starting.template])

(* tryResume, called by doStart, with RunPod's answer to "start". *)
StartWoken ==
  LET p == starting.pod IN
  /\ starting.phase = "wake"
  /\ \/ /\ starting.answer = "ok"
        /\ RecordStart("RUNNING")
        /\ EndStart
     \/ /\ starting.answer = "hollow"
        /\ Proceed("hollow")
        /\ UNCHANGED <<pods, callers>>
     \/ /\ starting.answer = "noHost"
        /\ pods' = MarkStopped(pods, p)
        /\ Proceed("discard")
        /\ UNCHANGED callers
     \/ /\ starting.answer = "absent"
        /\ pods' = MarkTerminated(pods, p)
        /\ Proceed("discard")
        /\ UNCHANGED callers
     \/ /\ starting.answer = "redundant"
        /\ Proceed("look")
        /\ UNCHANGED <<pods, callers>>
     \/ /\ starting.answer = "failed"
        /\ EndStart
        /\ UNCHANGED pods
  /\ UNCHANGED <<templates, startedBy, waking, acts, reaping, cloud, built>>

(* tryResume after a 409: the pod as getPod describes it, or nothing. *)
StartLooked ==
  /\ starting.phase = "look"
  /\ \/ /\ starting.answer \in {"RUNNING", "EXITED"}
        /\ RecordStart(starting.answer)
        /\ EndStart
     \/ /\ starting.answer \in {"absent", "failed"}
        /\ Proceed("discard")
        /\ UNCHANGED <<pods, callers>>
  /\ UNCHANGED <<templates, startedBy, waking, acts, reaping, cloud, built>>

(* A pod that came back without a GPU: terminated, whatever RunPod says. *)
StartDroppedHollow ==
  /\ starting.phase = "hollow"
  /\ starting.answer # "none"
  /\ pods' = MarkStopped(pods, starting.pod)
  /\ Proceed("discard")
  /\ UNCHANGED <<templates, startedBy, callers, waking, acts, reaping, cloud, built>>

(* act(paused, 'terminate') before a new pod is built, its error ignored. *)
StartDiscarded ==
  /\ starting.phase = "discard"
  /\ starting.answer # "none"
  /\ pods' = IF starting.answer \in Benign THEN MarkTerminated(pods, starting.pod)
                                           ELSE pods
  /\ starting' = [starting EXCEPT !.phase = "create", !.pod = 0, !.answer = "none"]
  /\ UNCHANGED <<templates, startedBy, callers, waking, acts, reaping, cloud, built>>

(* record() of the pod created; without its template the INSERT throws. *)
StartCreated ==
  LET p == starting.pod IN
  /\ starting.phase = "create"
  /\ starting.answer # "none"
  /\ \/ /\ starting.answer = "ok"
        /\ Recordable(pods, p, templates[starting.template])
        /\ RecordStart("RUNNING")
     \/ /\ starting.answer = "ok" => ~Recordable(pods, p, templates[starting.template])
        /\ UNCHANGED pods
  /\ EndStart
  /\ UNCHANGED <<templates, startedBy, waking, acts, reaping, cloud, built>>

-----------------------------------------------------------------------------
(* resume(), which an administrator calls for one paused pod.              *)

BeginWake(p) ==
  /\ "resume" \in Enabled
  /\ waking.phase = "idle"
  /\ pods[p].recorded
  /\ pods[p].template # NoTemplate
  /\ waking' = [phase |-> "wake", pod |-> p, template |-> pods[p].template,
                answer |-> "none"]
  /\ UNCHANGED <<service, starting, acts, reaping, cloud, built>>

WakeAtRunpod ==
  /\ waking.phase \in {"wake", "hollow"}
  /\ waking.answer = "none"
  /\ \E answer \in Answers :
       /\ AtRunpod(IF waking.phase = "wake" THEN "start" ELSE "terminate",
                   waking.pod, answer)
       /\ waking' = [waking EXCEPT !.answer = answer]
  /\ UNCHANGED <<service, starting, acts, reaping, built>>

WakeLookAtRunpod ==
  /\ waking.phase = "look"
  /\ waking.answer = "none"
  /\ \E answer \in Described(waking.pod) : waking' = [waking EXCEPT !.answer = answer]
  /\ UNCHANGED <<service, starting, acts, reaping, cloud, built>>

RecordWake(status) ==
  pods' = Recorded(pods, waking.pod, waking.template, status, startedBy,
                   templates[waking.template])

WakeAnswered ==
  LET p == waking.pod IN
  /\ waking.phase = "wake"
  /\ \/ /\ waking.answer = "ok"
        /\ RecordWake("RUNNING")
        /\ waking' = NoWake
     \/ /\ waking.answer \in {"hollow", "redundant"}
        /\ waking' = [waking EXCEPT !.answer = "none",
                        !.phase = IF waking.answer = "hollow" THEN "hollow" ELSE "look"]
        /\ UNCHANGED pods
     \/ /\ waking.answer = "noHost"
        /\ pods' = MarkStopped(pods, p)
        /\ waking' = NoWake
     \/ /\ waking.answer = "absent"
        /\ pods' = MarkTerminated(pods, p)
        /\ waking' = NoWake
     \/ /\ waking.answer = "failed"
        /\ waking' = NoWake
        /\ UNCHANGED pods
  /\ UNCHANGED <<templates, startedBy, starting, callers, acts, reaping, cloud, built>>

WakeLooked ==
  /\ waking.phase = "look"
  /\ \/ /\ waking.answer \in {"RUNNING", "EXITED"}
        /\ RecordWake(waking.answer)
     \/ /\ waking.answer \in {"absent", "failed"}
        /\ UNCHANGED pods
  /\ waking' = NoWake
  /\ UNCHANGED <<templates, startedBy, starting, callers, acts, reaping, cloud, built>>

WakeDroppedHollow ==
  /\ waking.phase = "hollow"
  /\ waking.answer # "none"
  /\ pods' = MarkStopped(pods, waking.pod)
  /\ waking' = NoWake
  /\ UNCHANGED <<templates, startedBy, starting, callers, acts, reaping, cloud, built>>

-----------------------------------------------------------------------------
(* act() and stop(), and the polls of waitUntilRunning.                    *)

(* Mutant: the row is marked before RunPod is asked. *)
SendMarked(p, action) ==
  /\ Cardinality(acts) < MaxActs
  /\ acts' = acts \cup {[pod |-> p, action |-> action, answer |-> "none"]}
  /\ pods' = MarkStopped(pods, p)
  /\ UNCHANGED <<templates, startedBy, callers, starting, waking, reaping, cloud, built>>

Send(p, action) ==
  /\ Cardinality(acts) < MaxActs
  /\ acts' = acts \cup {[pod |-> p, action |-> action, answer |-> "none"]}
  /\ UNCHANGED <<service, starting, waking, reaping, cloud, built>>

(* An administrator pauses or deletes any pod RunPod lists. *)
ActOn(p, action) ==
  /\ "act" \in Enabled
  /\ cloud[p] \in Listed
  /\ Send(p, action)

(* stop() of a template's pod, by the schedule or a person. *)
StopTemplate(t) ==
  /\ "stop" \in Enabled
  /\ templates[t] # NoConfig
  /\ \E p \in RunningFor(pods, t) :
       /\ \A q \in RunningFor(pods, t) : q <= p
       /\ Send(p, IF templates[t].mode = "stopResume" THEN "stop" ELSE "terminate")

ActAtRunpod(a) ==
  /\ a.answer = "none"
  /\ \E answer \in Answers :
       /\ AtRunpod(a.action, a.pod, answer)
       /\ acts' = (acts \ {a}) \cup {[a EXCEPT !.answer = answer]}
  /\ UNCHANGED <<service, starting, waking, reaping, built>>

(* Mutant: an error is taken for an answer. *)
ActedAnyway(rows, p, action, answer) ==
  IF action = "terminate" THEN MarkTerminated(rows, p) ELSE MarkStopped(rows, p)

(* The rows after act() has its answer; an error changes none. *)
Acted(rows, p, action, answer) ==
  IF answer \notin Benign THEN rows
  ELSE IF action = "terminate" THEN MarkTerminated(rows, p)
                               ELSE MarkStopped(rows, p)

ActAnswered(a) ==
  /\ a.action # "getPod"
  /\ a.answer # "none"
  /\ pods' = Acted(pods, a.pod, a.action, a.answer)
  /\ acts' = acts \ {a}
  /\ UNCHANGED <<templates, startedBy, starting, callers, waking, reaping, cloud, built>>

(* waitUntilRunning: getPod and the UPDATE of the status.  An answer about *)
(* a pod that is gone is an error, which leaves the row, or its last       *)
(* status.  Here the answer is used before anything else happens ...       *)
Poll(p) ==
  /\ "poll" \in Enabled
  /\ pods[p].recorded
  /\ pods' = [pods EXCEPT ![p].status = StatusOf(cloud[p])]
  /\ UNCHANGED <<templates, startedBy, starting, callers, waking, acts, reaping,
                 cloud, built>>

(* ... and here it takes its time. *)
PollAtRunpod(p) ==
  /\ "late" \in Enabled
  /\ pods[p].recorded
  /\ Cardinality(acts) < MaxActs
  /\ acts' = acts \cup {[pod |-> p, action |-> "getPod", answer |-> StatusOf(cloud[p])]}
  /\ UNCHANGED <<service, starting, waking, reaping, cloud, built>>

PollAnswered(a) ==
  /\ a.action = "getPod"
  /\ pods' = [pods EXCEPT ![a.pod].status = a.answer]
  /\ acts' = acts \ {a}
  /\ UNCHANGED <<templates, startedBy, starting, callers, waking, reaping, cloud, built>>

-----------------------------------------------------------------------------
(* The reaper.                                                             *)

(* Mutant: only running pods are listed. *)
ReapListRunning ==
  /\ "reap" \in Enabled
  /\ reaping.phase = "idle"
  /\ reaping' = [NoReap EXCEPT !.phase = "listed",
                               !.listed = {p \in Pods : cloud[p] \in {"running", "hollow"}}]
  /\ UNCHANGED <<service, starting, waking, acts, cloud, built>>

ReapListAtRunpod ==
  /\ "reap" \in Enabled
  /\ reaping.phase = "idle"
  /\ reaping' = [NoReap EXCEPT !.phase = "listed",
                               !.listed = {p \in Pods : cloud[p] \in Listed}]
  /\ UNCHANGED <<service, starting, waking, acts, cloud, built>>

(* The loop from one await to the next, over what is left of `ours`: it    *)
(* skips the pods RunPod does not list, those in its set of running pods   *)
(* and those a resume would wake, and terminates the first other one.      *)
ReapFrom(rows, running, left) ==
  LET surplus == {o \in left : /\ o.pod \in reaping.listed
                               /\ o.pod \notin running
                               /\ o.pod \notin Resumable(rows, o.template)}
  IN  \/ /\ surplus = {}
         /\ reaping' = NoReap
      \/ \E o \in surplus :
           /\ \A other \in surplus : o.pod <= other.pod
           /\ reaping' = [reaping EXCEPT !.phase = "acting",
                                         !.running = running,
                                         !.todo = {r \in left : o.pod < r.pod},
                                         !.pod = o.pod,
                                         !.answer = "none"]

ReapScan ==
  LET ours == {o \in Ours : /\ pods[o.pod].recorded
                            /\ pods[o.pod].template = o.template}
  IN  /\ reaping.phase = "listed"
      /\ ReapFrom(pods, Live, ours)
      /\ UNCHANGED <<service, starting, waking, acts, cloud, built>>

ReapAtRunpod ==
  /\ reaping.phase = "acting"
  /\ reaping.answer = "none"
  /\ \E answer \in Answers :
       /\ AtRunpod("terminate", reaping.pod, answer)
       /\ reaping' = [reaping EXCEPT !.answer = answer]
  /\ UNCHANGED <<service, starting, waking, acts, built>>

(* A failure is logged and left to the next pass. *)
ReapAnswered ==
  /\ reaping.phase = "acting"
  /\ reaping.answer # "none"
  /\ pods' = Acted(pods, reaping.pod, "terminate", reaping.answer)
  /\ ReapFrom(pods', reaping.running, reaping.todo)
  /\ UNCHANGED <<templates, startedBy, starting, callers, waking, acts, cloud, built>>

-----------------------------------------------------------------------------
(* The other writers.                                                      *)

EditTemplate(t, config) ==
  /\ "edit" \in Enabled
  /\ templates[t] # NoConfig
  /\ templates' = [templates EXCEPT ![t] = config]
  /\ UNCHANGED <<pods, startedBy, starting, callers, waking, acts, reaping, cloud, built>>

DeleteTemplate(t) ==
  /\ "delete" \in Enabled
  /\ templates[t] # NoConfig
  /\ RunningFor(pods, t) = {}
  /\ templates' = [templates EXCEPT ![t] = NoConfig]
  /\ pods' = WithoutTemplate(pods, t)
  /\ UNCHANGED <<startedBy, starting, callers, waking, acts, reaping, cloud, built>>

(* RunPod stops or loses a pod; nobody but the launcher starts one. *)
LoseAtRunpod(p) ==
  /\ "lose" \in Enabled
  /\ \E after \in {"exited", "gone"} :
       /\ cloud[p] \in Listed \ {after}
       /\ cloud' = [cloud EXCEPT ![p] = after]
  /\ UNCHANGED <<service, starting, waking, acts, reaping, built>>

(* The process ends and starts again: the tables survive, nothing else. *)
Crash ==
  /\ "crash" \in Enabled
  /\ startedBy' = "user"
  /\ starting' = NoStart
  /\ callers' = {}
  /\ waking' = NoWake
  /\ acts' = {}
  /\ reaping' = NoReap
  /\ UNCHANGED <<templates, pods, cloud, built>>

-----------------------------------------------------------------------------
Starting ==
  \/ \E t \in Templates, by \in Askers :
       JoinStart(t, by) \/ NoStartNeeded(t, by) \/ BeginStart(t, by)
  \/ StartAtRunpod \/ StartLookAtRunpod \/ CreateAtRunpod
  \/ StartWoken \/ StartLooked \/ StartDroppedHollow \/ StartDiscarded \/ StartCreated

Waking ==
  \/ \E p \in Pods : BeginWake(p)
  \/ WakeAtRunpod \/ WakeLookAtRunpod \/ WakeAnswered \/ WakeLooked \/ WakeDroppedHollow

Acting ==
  \/ \E p \in Pods, action \in {"stop", "terminate"} : ActOn(p, action)
  \/ \E t \in Templates : StopTemplate(t)
  \/ \E a \in acts : ActAtRunpod(a) \/ ActAnswered(a) \/ PollAnswered(a)
  \/ \E p \in Pods : Poll(p) \/ PollAtRunpod(p)

Reaping == ReapListAtRunpod \/ ReapScan \/ ReapAtRunpod \/ ReapAnswered

Others ==
  \/ \E p \in Pods : LoseAtRunpod(p)
  \/ \E t \in Templates, config \in Configs : EditTemplate(t, config)
  \/ \E t \in Templates : DeleteTemplate(t)
  \/ Crash

Next == Starting \/ Waking \/ Acting \/ Reaping \/ Others

Spec == Init /\ [][Next]_vars

(* RunPod answers every call in the end (the client's fetch gives up after *)
(* its own timeout) and Node runs every continuation; the scheduler's      *)
(* timer starts a reaping pass again and again.                            *)
Fairness ==
  /\ WF_vars(StartAtRunpod \/ StartLookAtRunpod \/ CreateAtRunpod)
  /\ WF_vars(StartWoken \/ StartLooked \/ StartDroppedHollow \/ StartDiscarded \/ StartCreated)
  /\ WF_vars(ReapListAtRunpod \/ ReapScan)
  /\ WF_vars(ReapAtRunpod \/ ReapAnswered)

(* A termination that is tried again and again does work some time. *)
ReapWorks(p) == ReapAtRunpod /\ reaping.pod = p /\ cloud'[p] = "gone"

FairSpec == Spec /\ Fairness /\ \A p \in Pods : SF_vars(ReapWorks(p))
=============================================================================
