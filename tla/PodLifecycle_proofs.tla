------------------------ MODULE PodLifecycle_proofs ------------------------
(***************************************************************************)
(* Proofs about PodLifecycle, for every number of pods, templates and      *)
(* concurrent calls.                                                       *)
(***************************************************************************)
EXTENDS PodProperties, FiniteSetTheorems, TLAPS

-----------------------------------------------------------------------------
(* What a call does to RunPod's pods: only its own pod changes, gone is    *)
(* for good, ids are not handed out, nothing but "start" makes a pod run,  *)
(* and the answers that act() and tryResume rely on tell the truth.        *)
LEMMA CallAtRunpod ==
  ASSUME TypeOK, NEW action \in {"start", "stop", "terminate"},
         NEW p \in Pods, NEW answer \in Answers, AtRunpod(action, p, answer)
  PROVE  /\ cloud' \in [Pods -> PodStates]
         /\ \A q \in Pods : q # p => cloud'[q] = cloud[q]
         /\ \A q \in Pods : cloud[q] = "gone" => cloud'[q] = "gone"
         /\ \A q \in Pods : cloud[q] # "none" => cloud'[q] # "none"
         /\ action = "terminate" /\ answer \in Benign => cloud'[p] = "gone"
         /\ answer = "absent" => cloud'[p] = "gone"
         /\ action # "start" =>
              \A q \in Pods : cloud[q] \in {"exited", "gone"} => cloud'[q] \in {"exited", "gone"}
<1>1. PICK after \in PodStates :
        /\ \/ Performed(action, cloud[p], answer, after)
           \/ Failed(action, cloud[p], answer, after)
        /\ cloud' = [cloud EXCEPT ![p] = after]
  BY DEF AtRunpod
<1>2. cloud \in [Pods -> PodStates]
  BY DEF TypeOK
<1>3. cloud'[p] = after /\ \A q \in Pods : q # p => cloud'[q] = cloud[q]
  BY <1>1, <1>2
<1>4. /\ cloud[p] = "gone" => after = "gone"
      /\ cloud[p] # "none" => after # "none"
      /\ action = "terminate" /\ answer \in Benign => after = "gone"
      /\ answer = "absent" => after = "gone"
      /\ action # "start" /\ cloud[p] \in {"exited", "gone"} => after \in {"exited", "gone"}
  BY <1>1 DEF Performed, Failed, Benign, Answers, Listed
<1> QED
  BY <1>1, <1>2, <1>3, <1>4

(* What the table updates keep: the type, and terminated_at of every pod   *)
(* but the one that is written off.                                        *)
LEMMA RowsMarked ==
  ASSUME NEW rows \in [Pods -> Row], NEW p \in Pods
  PROVE  /\ MarkStopped(rows, p) \in [Pods -> Row]
         /\ MarkTerminated(rows, p) \in [Pods -> Row]
         /\ \A q \in Pods : MarkStopped(rows, p)[q].terminated = rows[q].terminated
         /\ \A q \in Pods : q # p => MarkTerminated(rows, p)[q] = rows[q]
  BY ZenonT(30) DEF MarkStopped, MarkTerminated, Row

LEMMA RowsRecorded ==
  ASSUME TablesAssumption, NEW rows \in [Pods -> Row], NEW p \in Pods,
         NEW t \in Templates, NEW by \in Origins,
         NEW status \in {"RUNNING", "EXITED"}, NEW config \in Configs \cup {NoConfig}
  PROVE  /\ Recorded(rows, p, t, status, by, config) \in [Pods -> Row]
         /\ \A q \in Pods : Recorded(rows, p, t, status, by, config)[q].terminated
                              = rows[q].terminated
<1>1. config # NoConfig => config.args \in Args
  BY DEF TablesAssumption
<1> QED
  BY <1>1 DEF Recorded, Row

LEMMA RowsActed ==
  ASSUME NEW rows \in [Pods -> Row], NEW p \in Pods,
         NEW action, NEW answer
  PROVE  /\ Acted(rows, p, action, answer) \in [Pods -> Row]
         /\ \A q \in Pods : Acted(rows, p, action, answer)[q].terminated =>
              \/ rows[q].terminated
              \/ q = p /\ action = "terminate" /\ answer \in Benign
  BY RowsMarked DEF Acted

-----------------------------------------------------------------------------
(* Every state is well formed and a pod written off is gone at RunPod.     *)

LEMMA GoneInit == Init => GoneInv
<1> SUFFICES ASSUME Init PROVE GoneInv
  OBVIOUS
<1>1. TypeOK
  BY TablesAssumption DEF Init, TypeOK, Blank, Row, NoStart, NoWake, NoReap, Start,
     Wake, Reap, Act, Reply, PodStates, Origins, Answers
<1>2. OperationsShape /\ AnswersTellTruth /\ TerminatedIsGone
  BY DEF Init, OperationsShape, AnswersTellTruth, TerminatedIsGone, NoStart, NoWake,
     NoReap, Blank
<1> QED
  BY <1>1, <1>2 DEF GoneInv

LEMMA GoneStarting ==
  ASSUME GoneInv, Starting
  PROVE  GoneInv'
<1> USE TablesAssumption, LifecycleAssumption
<1> USE DEF GoneInv, service
<1>1. ASSUME NEW t \in Templates, NEW by \in Askers,
             JoinStart(t, by) \/ NoStartNeeded(t, by)
      PROVE  GoneInv'
  BY <1>1 DEF JoinStart, NoStartNeeded, TypeOK, OperationsShape, AnswersTellTruth,
     TerminatedIsGone
<1>2. ASSUME NEW t \in Templates, NEW by \in Askers, BeginStart(t, by)
      PROVE  GoneInv'
  BY <1>2 DEF BeginStart, TypeOK, OperationsShape, AnswersTellTruth,
     TerminatedIsGone, Start, Reply, Resumable, Answers, Benign
<1>3. ASSUME StartAtRunpod PROVE GoneInv'
  <2>1. PICK answer \in Answers :
          /\ AtRunpod(IF starting.phase = "wake" THEN "start" ELSE "terminate",
                      starting.pod, answer)
          /\ starting' = [starting EXCEPT !.answer = answer]
    BY <1>3 DEF StartAtRunpod
  <2>2. /\ starting.pod \in Pods
        /\ starting.phase \in {"wake", "hollow", "discard"}
        /\ UNCHANGED <<templates, pods, startedBy, callers, waking, acts, reaping, built>>
    BY <1>3 DEF StartAtRunpod, OperationsShape
  <2>3. /\ cloud' \in [Pods -> PodStates]
        /\ \A q \in Pods : cloud[q] = "gone" => cloud'[q] = "gone"
        /\ starting.phase # "wake" /\ answer \in Benign => cloud'[starting.pod] = "gone"
        /\ answer = "absent" => cloud'[starting.pod] = "gone"
    <3>1. CASE starting.phase = "wake"
      BY <2>1, <2>2, <3>1, CallAtRunpod
    <3>2. CASE starting.phase # "wake"
      BY <2>1, <2>2, <3>2, CallAtRunpod
    <3> QED
      BY <3>1, <3>2
  <2>4. starting' \in Start /\ starting'.phase = starting.phase
        /\ starting'.pod = starting.pod /\ starting'.answer = answer
        /\ starting'.template = starting.template /\ starting'.config = starting.config
    BY <2>1 DEF TypeOK, Start, Reply
  <2>5. TypeOK'
    BY <2>2, <2>3, <2>4 DEF TypeOK
  <2>6. OperationsShape'
    BY <2>2, <2>4 DEF OperationsShape
  <2>7. AnswersTellTruth'
    BY <2>2, <2>3, <2>4 DEF AnswersTellTruth, OperationsShape, TypeOK, Act
  <2>8. TerminatedIsGone'
    BY <2>2, <2>3 DEF TerminatedIsGone
  <2> QED
    BY <2>5, <2>6, <2>7, <2>8
<1>7. ASSUME StartLookAtRunpod PROVE GoneInv'
  <2>1. PICK answer \in Described(starting.pod) : starting' = [starting EXCEPT !.answer = answer]
    BY <1>7 DEF StartLookAtRunpod
  <2>2. answer \in Reply
    BY DEF Described, StatusOf, Reply, Answers
  <2>3. /\ starting.phase = "look"
        /\ starting' \in Start /\ starting'.phase = starting.phase
        /\ starting'.pod = starting.pod
        /\ starting'.template = starting.template /\ starting'.config = starting.config
    BY <1>7, <2>1, <2>2 DEF StartLookAtRunpod, TypeOK, Start
  <2>4. UNCHANGED <<service, waking, acts, reaping, cloud, built>>
    BY <1>7 DEF StartLookAtRunpod
  <2>5. TypeOK' /\ OperationsShape' /\ TerminatedIsGone'
    BY <2>3, <2>4 DEF TypeOK, OperationsShape, TerminatedIsGone
  <2>6. AnswersTellTruth'
    BY <2>3, <2>4 DEF AnswersTellTruth
  <2> QED
    BY <2>5, <2>6
<1>4. ASSUME CreateAtRunpod PROVE GoneInv'
  <2>1. /\ cloud' \in [Pods -> PodStates]
        /\ built' \in [Pods -> Args \cup {NoArgs}]
        /\ \A q \in Pods : cloud[q] = "gone" => cloud'[q] = "gone"
    <3>1. starting.config.args \in Args
      BY <1>4 DEF CreateAtRunpod, OperationsShape, TablesAssumption
    <3> QED
      BY <1>4, <3>1 DEF CreateAtRunpod, NextPod, TypeOK, PodStates
  <2>2. /\ starting' \in Start
        /\ starting'.phase = "create"
        /\ starting'.answer = "ok" => starting'.pod \in Pods
        /\ starting'.template = starting.template /\ starting'.config = starting.config
    BY <1>4, ZenonT(30) DEF CreateAtRunpod, NextPod, TypeOK, Start, Reply, Answers
  <2>3. /\ starting.phase = "create"
        /\ UNCHANGED <<templates, pods, startedBy, callers, waking, acts, reaping>>
    BY <1>4 DEF CreateAtRunpod
  <2>4. TypeOK'
    BY <2>1, <2>2, <2>3 DEF TypeOK
  <2>5. OperationsShape'
    BY <2>2, <2>3 DEF OperationsShape
  <2>6. AnswersTellTruth'
    BY <2>1, <2>2, <2>3 DEF AnswersTellTruth, OperationsShape, TypeOK, Act
  <2>7. TerminatedIsGone'
    BY <2>1, <2>3 DEF TerminatedIsGone
  <2> QED
    BY <2>4, <2>5, <2>6, <2>7
<1>5. ASSUME NEW status \in {"RUNNING", "EXITED"}, starting.phase # "idle",
             starting.pod \in Pods, RecordStart(status)
      PROVE  /\ pods' \in [Pods -> Row]
             /\ \A q \in Pods : pods'[q].terminated = pods[q].terminated
  <2>1. templates[starting.template] \in Configs \cup {NoConfig}
    BY <1>5 DEF TypeOK, OperationsShape
  <2> QED
    BY <1>5, <2>1, RowsRecorded DEF RecordStart, TypeOK, OperationsShape
<1>6. ASSUME StartWoken \/ StartLooked \/ StartDroppedHollow \/ StartDiscarded \/ StartCreated
      PROVE  GoneInv'
  <2>1. /\ pods' \in [Pods -> Row]
        /\ \A q \in Pods : pods'[q].terminated => pods[q].terminated \/ cloud[q] = "gone"
    <3>0. starting.phase \in {"wake", "hollow", "discard"} =>
            /\ MarkStopped(pods, starting.pod) \in [Pods -> Row]
            /\ MarkTerminated(pods, starting.pod) \in [Pods -> Row]
            /\ \A q \in Pods : MarkStopped(pods, starting.pod)[q].terminated = pods[q].terminated
            /\ \A q \in Pods : q # starting.pod => MarkTerminated(pods, starting.pod)[q] = pods[q]
      BY RowsMarked DEF TypeOK, OperationsShape
    <3>1. CASE StartWoken
      <4>1. starting.phase = "wake" /\ starting.pod \in Pods
        BY <3>1 DEF StartWoken, OperationsShape
      <4>2. CASE pods' = pods
        BY <4>2 DEF TypeOK
      <4>3. CASE RecordStart("RUNNING")
        BY <1>5, <4>1, <4>3
      <4>4. CASE pods' = MarkStopped(pods, starting.pod)
        BY <3>0, <4>1, <4>4
      <4>5. CASE starting.answer = "absent" /\ pods' = MarkTerminated(pods, starting.pod)
        BY <3>0, <4>1, <4>5 DEF AnswersTellTruth
      <4> QED
        BY <3>1, <4>2, <4>3, <4>4, <4>5 DEF StartWoken
    <3>2. CASE StartLooked
      BY <1>5, <3>2 DEF StartLooked, TypeOK, OperationsShape
    <3>3. CASE StartDroppedHollow
      BY <3>0, <3>3 DEF StartDroppedHollow
    <3>4. CASE StartDiscarded
      <4>1. starting.phase = "discard"
        BY <3>4 DEF StartDiscarded
      <4>2. CASE pods' = pods
        BY <4>2 DEF TypeOK
      <4>3. CASE starting.answer \in Benign /\ pods' = MarkTerminated(pods, starting.pod)
        BY <3>0, <4>1, <4>3 DEF AnswersTellTruth
      <4> QED
        BY <3>4, <4>2, <4>3 DEF StartDiscarded
    <3>5. CASE StartCreated
      BY <1>5, <3>5 DEF StartCreated, TypeOK, OperationsShape
    <3> QED
      BY <1>6, <3>1, <3>2, <3>3, <3>4, <3>5
  <2>2. /\ starting' \in Start
        /\ starting'.answer = "none"
        /\ \/ starting' = NoStart
           \/ /\ starting'.template = starting.template
              /\ starting'.config = starting.config
              /\ starting.phase # "idle"
              /\ \/ starting'.phase = "create"
                 \/ starting'.pod = starting.pod /\ starting.pod \in Pods
        /\ callers' = {} \/ callers' = callers
    <3>1. ASSUME NEW phase \in {"look", "hollow", "discard"}, Proceed(phase)
          PROVE  /\ starting' \in Start
                 /\ starting'.answer = "none"
                 /\ starting'.pod = starting.pod
                 /\ starting'.template = starting.template
                 /\ starting'.config = starting.config
      BY <3>1 DEF Proceed, TypeOK, Start, Reply
    <3>2. ASSUME EndStart
          PROVE  starting' = NoStart /\ starting' \in Start /\ starting'.answer = "none"
                 /\ callers' = {}
      BY <3>2 DEF EndStart, NoStart, Start, Reply
    <3>3. CASE StartWoken
      BY <3>1, <3>2, <3>3 DEF StartWoken, OperationsShape
    <3>4. CASE StartLooked
      BY <3>1, <3>2, <3>4 DEF StartLooked, OperationsShape
    <3>5. CASE StartDroppedHollow
      BY <3>1, <3>5 DEF StartDroppedHollow, OperationsShape
    <3>6. CASE StartDiscarded
      BY <3>6 DEF StartDiscarded, TypeOK, Start, Reply, OperationsShape
    <3>7. CASE StartCreated
      BY <3>2, <3>7 DEF StartCreated
    <3> QED
      BY <1>6, <3>3, <3>4, <3>5, <3>6, <3>7
  <2>3. UNCHANGED <<templates, startedBy, waking, acts, reaping, cloud, built>>
    BY <1>6 DEF StartWoken, StartLooked, StartDroppedHollow, StartDiscarded, StartCreated
  <2>4. TypeOK'
    BY <2>1, <2>2, <2>3 DEF TypeOK
  <2>5. OperationsShape'
    BY <2>2, <2>3 DEF OperationsShape, NoStart
  <2>6. AnswersTellTruth'
    BY <2>2, <2>3 DEF AnswersTellTruth, Benign
  <2>7. TerminatedIsGone'
    BY <2>1, <2>3 DEF TerminatedIsGone
  <2> QED
    BY <2>4, <2>5, <2>6, <2>7
<1> QED
  BY <1>1, <1>2, <1>3, <1>4, <1>6, <1>7 DEF Starting

LEMMA GoneWaking ==
  ASSUME GoneInv, Waking
  PROVE  GoneInv'
<1> USE TablesAssumption, LifecycleAssumption
<1> USE DEF GoneInv, service
<1>1. ASSUME NEW p \in Pods, BeginWake(p) PROVE GoneInv'
  <2>1. /\ waking' \in Wake
        /\ waking'.pod \in Pods /\ waking'.template \in Templates
        /\ waking'.answer = "none"
    BY <1>1 DEF BeginWake, TypeOK, Row, Wake, Reply
  <2>2. UNCHANGED <<service, starting, acts, reaping, cloud, built>>
    BY <1>1 DEF BeginWake
  <2> QED
    BY <2>1, <2>2 DEF TypeOK, OperationsShape, AnswersTellTruth, TerminatedIsGone
<1>2. ASSUME WakeAtRunpod PROVE GoneInv'
  <2>1. PICK answer \in Answers :
          /\ AtRunpod(IF waking.phase = "wake" THEN "start" ELSE "terminate",
                      waking.pod, answer)
          /\ waking' = [waking EXCEPT !.answer = answer]
    BY <1>2 DEF WakeAtRunpod
  <2>2. waking.pod \in Pods /\ UNCHANGED <<service, starting, acts, reaping, built>>
    BY <1>2 DEF WakeAtRunpod, OperationsShape
  <2>3. /\ cloud' \in [Pods -> PodStates]
        /\ \A q \in Pods : cloud[q] = "gone" => cloud'[q] = "gone"
        /\ answer = "absent" => cloud'[waking.pod] = "gone"
    <3>1. CASE waking.phase = "wake"
      BY <2>1, <2>2, <3>1, CallAtRunpod
    <3>2. CASE waking.phase # "wake"
      BY <2>1, <2>2, <3>2, CallAtRunpod
    <3> QED
      BY <3>1, <3>2
  <2>4. /\ waking' \in Wake /\ waking'.phase = waking.phase /\ waking'.pod = waking.pod
        /\ waking'.template = waking.template /\ waking'.answer = answer
    BY <2>1 DEF TypeOK, Wake, Reply
  <2>5. TypeOK' /\ OperationsShape' /\ TerminatedIsGone'
    BY <2>2, <2>3, <2>4 DEF TypeOK, OperationsShape, TerminatedIsGone
  <2>6. AnswersTellTruth'
    BY <2>2, <2>3, <2>4 DEF AnswersTellTruth, OperationsShape, TypeOK, Act
  <2> QED
    BY <2>5, <2>6
<1>3. ASSUME WakeAnswered \/ WakeLooked \/ WakeDroppedHollow
      PROVE  GoneInv'
  <2>1. /\ MarkStopped(pods, waking.pod) \in [Pods -> Row]
        /\ MarkTerminated(pods, waking.pod) \in [Pods -> Row]
        /\ \A q \in Pods : MarkStopped(pods, waking.pod)[q].terminated = pods[q].terminated
        /\ \A q \in Pods : q # waking.pod => MarkTerminated(pods, waking.pod)[q] = pods[q]
    BY <1>3, RowsMarked DEF WakeAnswered, WakeLooked, WakeDroppedHollow, TypeOK, OperationsShape
  <2>2. ASSUME NEW status \in {"RUNNING", "EXITED"}, waking.phase # "idle", RecordWake(status)
        PROVE  /\ pods' \in [Pods -> Row]
               /\ \A q \in Pods : pods'[q].terminated = pods[q].terminated
    <3>1. waking.pod \in Pods /\ waking.template \in Templates
      BY <2>2 DEF OperationsShape
    <3>2. /\ templates[waking.template] \in Configs \cup {NoConfig}
          /\ pods \in [Pods -> Row] /\ startedBy \in Origins
      BY <3>1 DEF TypeOK
    <3> QED
      BY <2>2, <3>1, <3>2, RowsRecorded DEF RecordWake
  <2>3. /\ pods' \in [Pods -> Row]
        /\ \A q \in Pods : pods'[q].terminated => pods[q].terminated \/ cloud[q] = "gone"
    <3>1. CASE WakeAnswered
      <4>1. CASE pods' = pods
        BY <4>1 DEF TypeOK
      <4>2. CASE waking.phase = "wake" /\ RecordWake("RUNNING")
        BY <2>2, <4>2
      <4>3. CASE pods' = MarkStopped(pods, waking.pod)
        BY <2>1, <4>3
      <4>4. CASE /\ waking.phase = "wake" /\ waking.answer = "absent"
                 /\ pods' = MarkTerminated(pods, waking.pod)
        BY <2>1, <4>4 DEF AnswersTellTruth
      <4> QED
        BY <3>1, <4>1, <4>2, <4>3, <4>4 DEF WakeAnswered
    <3>2. CASE WakeLooked
      BY <2>2, <3>2 DEF WakeLooked, TypeOK
    <3>3. CASE WakeDroppedHollow
      BY <2>1, <3>3 DEF WakeDroppedHollow
    <3> QED
      BY <1>3, <3>1, <3>2, <3>3
  <2>4. /\ waking' \in Wake
        /\ \/ waking' = NoWake
           \/ /\ waking'.answer = "none" /\ waking'.pod = waking.pod
              /\ waking'.template = waking.template /\ waking.phase # "idle"
    <3>1. NoWake \in Wake
      BY DEF NoWake, Wake, Reply
    <3>2. ASSUME NEW phase \in {"hollow", "look"}, waking.phase = "wake",
                 waking' = [waking EXCEPT !.answer = "none", !.phase = phase]
          PROVE  /\ waking' \in Wake
                 /\ waking'.answer = "none" /\ waking'.pod = waking.pod
                 /\ waking'.template = waking.template
      BY <3>2 DEF TypeOK, Wake, Reply
    <3>3. CASE WakeAnswered
      BY <3>1, <3>2, <3>3 DEF WakeAnswered
    <3> QED
      BY <1>3, <3>1, <3>3 DEF WakeLooked, WakeDroppedHollow
  <2>5. UNCHANGED <<templates, startedBy, starting, callers, acts, reaping, cloud, built>>
    BY <1>3 DEF WakeAnswered, WakeLooked, WakeDroppedHollow
  <2>6. TypeOK' /\ TerminatedIsGone'
    BY <2>3, <2>4, <2>5 DEF TypeOK, TerminatedIsGone
  <2>7. OperationsShape' /\ AnswersTellTruth'
    BY <2>4, <2>5 DEF OperationsShape, AnswersTellTruth, NoWake
  <2> QED
    BY <2>6, <2>7
<1>4. ASSUME WakeLookAtRunpod PROVE GoneInv'
  <2>1. PICK answer \in Described(waking.pod) : waking' = [waking EXCEPT !.answer = answer]
    BY <1>4 DEF WakeLookAtRunpod
  <2>2. answer \in Reply
    BY DEF Described, StatusOf, Reply, Answers
  <2>3. /\ waking.phase = "look"
        /\ waking' \in Wake /\ waking'.phase = waking.phase
        /\ waking'.pod = waking.pod /\ waking'.template = waking.template
    BY <1>4, <2>1, <2>2 DEF WakeLookAtRunpod, TypeOK, Wake
  <2>4. UNCHANGED <<service, starting, acts, reaping, cloud, built>>
    BY <1>4 DEF WakeLookAtRunpod
  <2> QED
    BY <2>3, <2>4 DEF TypeOK, OperationsShape, AnswersTellTruth, TerminatedIsGone
<1> QED
  BY <1>1, <1>2, <1>3, <1>4 DEF Waking

LEMMA GoneActing ==
  ASSUME GoneInv, Acting
  PROVE  GoneInv'
<1> USE TablesAssumption, LifecycleAssumption
<1> USE DEF GoneInv, service
<1>1. ASSUME NEW p \in Pods, NEW action \in {"stop", "terminate"}, Send(p, action)
      PROVE  GoneInv'
  <2>1. /\ acts' \subseteq Act
        /\ \A a \in acts' : a \in acts \/ (a.answer = "none" /\ a.action # "getPod")
    <3> DEFINE call == [pod |-> p, action |-> action, answer |-> "none"]
    <3>1. call \in Act /\ call.answer = "none" /\ call.action # "getPod"
      BY DEF Act, Reply
    <3>2. acts' = acts \cup {call}
      BY <1>1 DEF Send
    <3> HIDE DEF call
    <3> QED
      BY <3>1, <3>2 DEF TypeOK
  <2>2. UNCHANGED <<service, starting, waking, reaping, cloud, built>>
    BY <1>1 DEF Send
  <2> QED
    BY <2>1, <2>2 DEF TypeOK, OperationsShape, AnswersTellTruth, TerminatedIsGone,
       Benign
<1>2. ASSUME NEW a \in acts, ActAtRunpod(a)
      PROVE  GoneInv'
  <2>1. PICK answer \in Answers :
          /\ AtRunpod(a.action, a.pod, answer)
          /\ acts' = (acts \ {a}) \cup {[a EXCEPT !.answer = answer]}
    BY <1>2 DEF ActAtRunpod
  <2>2. a.pod \in Pods /\ a.action \in {"stop", "terminate"}
    BY <1>2 DEF ActAtRunpod, TypeOK, OperationsShape, Act
  <2>3. /\ cloud' \in [Pods -> PodStates]
        /\ \A q \in Pods : cloud[q] = "gone" => cloud'[q] = "gone"
        /\ a.action = "terminate" /\ answer \in Benign => cloud'[a.pod] = "gone"
    BY <2>1, <2>2, CallAtRunpod
  <2>4. /\ acts' \subseteq Act
        /\ \A b \in acts' : b \in acts \/ (b.pod = a.pod /\ b.action = a.action /\ b.answer = answer)
    BY <2>1 DEF TypeOK, Act, Reply
  <2>5. UNCHANGED <<service, starting, waking, reaping, built>>
    BY <1>2 DEF ActAtRunpod
  <2>6. TypeOK' /\ OperationsShape' /\ TerminatedIsGone'
    BY <2>2, <2>3, <2>4, <2>5 DEF TypeOK, OperationsShape, TerminatedIsGone
  <2>7. AnswersTellTruth'
    BY <2>3, <2>4, <2>5 DEF AnswersTellTruth, OperationsShape, TypeOK, Act
  <2> QED
    BY <2>6, <2>7
<1>3. ASSUME NEW a \in acts, ActAnswered(a)
      PROVE  GoneInv'
  <2>1. a.pod \in Pods
    BY <1>3 DEF ActAnswered, TypeOK, Act
  <2>2. /\ pods' \in [Pods -> Row]
        /\ \A q \in Pods : pods'[q].terminated => pods[q].terminated \/ cloud[q] = "gone"
    BY <1>3, <2>1, RowsActed DEF ActAnswered, TypeOK, AnswersTellTruth
  <2> QED
    BY <1>3, <2>2 DEF ActAnswered, TypeOK, OperationsShape, AnswersTellTruth, TerminatedIsGone
<1>4. ASSUME NEW p \in Pods, Poll(p) PROVE GoneInv'
  <2>1. /\ pods' \in [Pods -> Row]
        /\ \A q \in Pods : pods'[q].terminated = pods[q].terminated
    BY <1>4 DEF Poll, TypeOK, Row, StatusOf
  <2> QED
    BY <1>4, <2>1 DEF Poll, TypeOK, OperationsShape, AnswersTellTruth, TerminatedIsGone
<1>5. ASSUME NEW p \in Pods, PollAtRunpod(p) PROVE GoneInv'
  <2>1. /\ acts' \subseteq Act
        /\ \A a \in acts' :
             \/ a \in acts
             \/ a.action = "getPod" /\ a.answer \in {"RUNNING", "EXITED"}
    BY <1>5 DEF PollAtRunpod, TypeOK, Act, Reply, StatusOf
  <2>2. UNCHANGED <<service, starting, waking, reaping, cloud, built>>
    BY <1>5 DEF PollAtRunpod
  <2> QED
    BY <2>1, <2>2 DEF TypeOK, OperationsShape, AnswersTellTruth, TerminatedIsGone,
       Benign
<1>6. ASSUME NEW a \in acts, PollAnswered(a) PROVE GoneInv'
  <2>1. a.pod \in Pods /\ a.answer \in {"RUNNING", "EXITED"}
    BY <1>6 DEF PollAnswered, TypeOK, OperationsShape, Act
  <2>2. /\ pods' \in [Pods -> Row]
        /\ \A q \in Pods : pods'[q].terminated = pods[q].terminated
    BY <1>6, <2>1 DEF PollAnswered, TypeOK, Row
  <2> QED
    BY <1>6, <2>2 DEF PollAnswered, TypeOK, OperationsShape, AnswersTellTruth, TerminatedIsGone
<1> QED
  BY <1>1, <1>2, <1>3, <1>4, <1>5, <1>6 DEF Acting, ActOn, StopTemplate, RunningFor, RunningPods

LEMMA GoneReaping ==
  ASSUME GoneInv, Reaping
  PROVE  GoneInv'
<1> USE TablesAssumption, LifecycleAssumption
<1> USE DEF GoneInv, service
<1>1. ASSUME NEW rows, NEW running \in SUBSET Pods, NEW left \in SUBSET Ours,
             ReapFrom(rows, running, left)
      PROVE  /\ reaping' \in Reap
             /\ reaping'.answer = "none"
             /\ reaping'.phase = "acting" => reaping'.pod \in Pods
  <2>1. CASE reaping' = NoReap
    BY <2>1 DEF NoReap, Reap, Reply
  <2>2. ASSUME NEW o \in left,
               reaping' = [reaping EXCEPT !.phase = "acting", !.running = running,
                                          !.todo = {r \in left : o.pod < r.pod},
                                          !.pod = o.pod, !.answer = "none"]
        PROVE  reaping' \in Reap /\ reaping'.answer = "none" /\ reaping'.pod \in Pods
    <3>1. o.pod \in Pods
      BY DEF Ours
    <3>2. {r \in left : o.pod < r.pod} \in SUBSET Ours
      OBVIOUS
    <3> QED
      BY <2>2, <3>1, <3>2 DEF TypeOK, Reap, Reply
  <2> QED
    BY <1>1, <2>1, <2>2 DEF ReapFrom
<1>2. ASSUME ReapListAtRunpod PROVE GoneInv'
  <2>1. reaping' \in Reap /\ reaping'.phase = "listed" /\ reaping'.answer = "none"
    BY <1>2 DEF ReapListAtRunpod, NoReap, Reap, Reply
  <2> QED
    BY <1>2, <2>1 DEF ReapListAtRunpod, TypeOK, OperationsShape, AnswersTellTruth,
       TerminatedIsGone
<1>3. ASSUME ReapScan PROVE GoneInv'
  <2>1. /\ reaping' \in Reap
        /\ reaping'.answer = "none"
        /\ reaping'.phase = "acting" => reaping'.pod \in Pods
    BY <1>1, <1>3 DEF ReapScan, Live, RunningPods
  <2> QED
    BY <1>3, <2>1 DEF ReapScan, TypeOK, OperationsShape, AnswersTellTruth,
       TerminatedIsGone, Benign
<1>4. ASSUME ReapAtRunpod PROVE GoneInv'
  <2>1. PICK answer \in Answers :
          /\ AtRunpod("terminate", reaping.pod, answer)
          /\ reaping' = [reaping EXCEPT !.answer = answer]
    BY <1>4 DEF ReapAtRunpod
  <2>2. reaping.pod \in Pods /\ UNCHANGED <<service, starting, waking, acts, built>>
    BY <1>4 DEF ReapAtRunpod, OperationsShape
  <2>3. /\ cloud' \in [Pods -> PodStates]
        /\ \A q \in Pods : cloud[q] = "gone" => cloud'[q] = "gone"
        /\ answer \in Benign => cloud'[reaping.pod] = "gone"
    BY <2>1, <2>2, CallAtRunpod
  <2>4. /\ reaping' \in Reap /\ reaping'.phase = reaping.phase
        /\ reaping'.pod = reaping.pod /\ reaping'.answer = answer
    BY <2>1 DEF TypeOK, Reap, Reply
  <2>5. TypeOK' /\ OperationsShape' /\ TerminatedIsGone'
    BY <2>2, <2>3, <2>4 DEF TypeOK, OperationsShape, TerminatedIsGone
  <2>6. AnswersTellTruth'
    BY <2>2, <2>3, <2>4 DEF AnswersTellTruth, OperationsShape, TypeOK, Act
  <2> QED
    BY <2>5, <2>6
<1>5. ASSUME ReapAnswered PROVE GoneInv'
  <2>1. reaping.pod \in Pods
    BY <1>5 DEF ReapAnswered, OperationsShape
  <2>2. /\ pods' \in [Pods -> Row]
        /\ \A q \in Pods : pods'[q].terminated => pods[q].terminated \/ cloud[q] = "gone"
    BY <1>5, <2>1, RowsActed DEF ReapAnswered, TypeOK, AnswersTellTruth
  <2>3. /\ reaping' \in Reap
        /\ reaping'.answer = "none"
        /\ reaping'.phase = "acting" => reaping'.pod \in Pods
    <3>1. reaping.running \in SUBSET Pods /\ reaping.todo \in SUBSET Ours
      BY DEF TypeOK, Reap
    <3> QED
      BY <1>1, <1>5, <3>1 DEF ReapAnswered
  <2> QED
    BY <1>5, <2>2, <2>3 DEF ReapAnswered, TypeOK, OperationsShape, AnswersTellTruth,
       TerminatedIsGone, Benign
<1> QED
  BY <1>2, <1>3, <1>4, <1>5 DEF Reaping

LEMMA GoneOthers ==
  ASSUME GoneInv, Others
  PROVE  GoneInv'
<1> USE TablesAssumption, LifecycleAssumption
<1> USE DEF GoneInv, service
<1>2. ASSUME NEW p \in Pods, LoseAtRunpod(p) PROVE GoneInv'
  <2>1. /\ cloud' \in [Pods -> PodStates]
        /\ \A q \in Pods : cloud[q] = "gone" => cloud'[q] = "gone"
        /\ UNCHANGED <<service, starting, waking, acts, reaping, built>>
    BY <1>2 DEF LoseAtRunpod, TypeOK, PodStates, Listed
  <2>2. TypeOK' /\ OperationsShape' /\ TerminatedIsGone'
    BY <2>1 DEF TypeOK, OperationsShape, TerminatedIsGone
  <2>3. AnswersTellTruth'
    BY <2>1 DEF AnswersTellTruth, OperationsShape, TypeOK, Act
  <2> QED
    BY <2>2, <2>3
<1>3. ASSUME NEW t \in Templates, NEW config \in Configs, EditTemplate(t, config)
      PROVE  GoneInv'
  BY <1>3 DEF EditTemplate, TypeOK, OperationsShape, AnswersTellTruth, TerminatedIsGone
<1>4. ASSUME NEW t \in Templates, DeleteTemplate(t) PROVE GoneInv'
  <2>1. /\ pods' \in [Pods -> Row]
        /\ \A q \in Pods : pods'[q].terminated = pods[q].terminated
    BY <1>4 DEF DeleteTemplate, WithoutTemplate, TypeOK, Row
  <2> QED
    BY <1>4, <2>1 DEF DeleteTemplate, TypeOK, OperationsShape, AnswersTellTruth,
       TerminatedIsGone
<1>5. ASSUME Crash PROVE GoneInv'
  BY <1>5 DEF Crash, TypeOK, OperationsShape, AnswersTellTruth, TerminatedIsGone,
     NoStart, NoWake, NoReap, Start, Wake, Reap, Reply, Origins
<1> QED
  BY <1>2, <1>3, <1>4, <1>5 DEF Others

(* The inductive invariant of every instance. *)
THEOREM GoneInvariant == Spec => []GoneInv
<1>1. Init => GoneInv
  BY GoneInit
<1>2. GoneInv /\ [Next]_vars => GoneInv'
  <2> SUFFICES ASSUME GoneInv, [Next]_vars PROVE GoneInv'
    OBVIOUS
  <2>1. CASE Next
    BY <2>1, GoneStarting, GoneWaking, GoneActing, GoneReaping, GoneOthers DEF Next
  <2>2. CASE UNCHANGED vars
    BY <2>2 DEF vars, GoneInv, TypeOK, OperationsShape, AnswersTellTruth, TerminatedIsGone
  <2> QED
    BY <2>1, <2>2
<1> QED
  BY <1>1, <1>2, PTL DEF Spec

(* The type invariant: every state the service and RunPod get into is well *)
(* formed, whatever is interleaved, lost or restarted.                     *)
THEOREM TypeCorrect == Spec => []TypeOK
<1>1. GoneInv => TypeOK
  BY DEF GoneInv
<1> QED
  BY <1>1, GoneInvariant, PTL

(* act(), tryResume, the reaper and a start's clean-up write terminated_at *)
(* only for a pod that RunPod no longer has.                               *)
THEOREM TerminatedPodsAreGone == Spec => []TerminatedIsGone
<1>1. GoneInv => TerminatedIsGone
  BY DEF GoneInv
<1> QED
  BY <1>1, GoneInvariant, PTL

-----------------------------------------------------------------------------
(* The limit and one pod per template, where nobody resumes single pods.   *)

(* An update of the rows that makes no pod live. *)
Quieter(old, new) ==
  \A p \in Pods :
    /\ new[p].recorded = old[p].recorded
    /\ old[p].stopped => new[p].stopped
    /\ new[p].template \in {old[p].template, NoTemplate}
    /\ p \in RunningPods(new) =>
         p \in RunningPods(old) /\ new[p].template = old[p].template
    /\ new[p].recorded /\ ~new[p].stopped /\ new[p].status = "EXITED" =>
         \/ ~old[p].stopped /\ old[p].status = "EXITED"
         \/ cloud[p] \in {"none", "exited", "gone"}

LEMMA LiveFinite ==
  ASSUME TablesAssumption, NEW rows
  PROVE  /\ IsFiniteSet(RunningPods(rows))
         /\ Cardinality(RunningPods(rows)) \in Nat
<1>1. IsFiniteSet(Pods)
  BY FS_Interval DEF Pods, TablesAssumption
<1>2. RunningPods(rows) \in SUBSET Pods
  BY DEF RunningPods
<1> QED
  BY <1>1, <1>2, FS_Subset, FS_CardinalityType

LEMMA QuieterRows ==
  ASSUME NEW rows \in [Pods -> Row], NEW p \in Pods
  PROVE  /\ Quieter(rows, rows)
         /\ Quieter(rows, MarkStopped(rows, p))
         /\ Quieter(rows, MarkTerminated(rows, p))
<1>1. Quieter(rows, rows)
  BY DEF Quieter, Row
<1>2. Quieter(rows, MarkStopped(rows, p))
  BY DEF Quieter, MarkStopped, RunningPods, Row
<1>3. Quieter(rows, MarkTerminated(rows, p))
  BY DEF Quieter, MarkTerminated, RunningPods, Row
<1> QED
  BY <1>1, <1>2, <1>3

(* With no pod made live the limit and the uniqueness cannot be lost.      *)
LEMMA FewerLive ==
  ASSUME TablesAssumption, LifecycleAssumption, Quieter(pods, pods')
  PROVE  /\ Cardinality(Live') <= Cardinality(Live)
         /\ OnePerTemplate => OnePerTemplate'
         /\ \A t \in Templates : RunningFor(pods', t) \subseteq RunningFor(pods, t)
<1>1. Live' \subseteq Live
  BY DEF Live, RunningPods, Quieter
<1>2. Cardinality(Live') <= Cardinality(Live)
  BY <1>1, LiveFinite, FS_Subset DEF Live
<1>3. \A t \in Templates : RunningFor(pods', t) \subseteq RunningFor(pods, t)
  BY DEF RunningFor, RunningPods, Quieter
<1>4. OnePerTemplate => OnePerTemplate'
  BY <1>3 DEF OnePerTemplate
<1> QED
  BY <1>2, <1>3, <1>4

(* A start that goes on, or ends, without recording a pod. *)
StartGoesOn ==
  \/ starting' = starting
  \/ starting'.phase = "idle"
  \/ /\ starting.phase # "idle"
     /\ starting'.template = starting.template
     /\ \/ starting'.phase \in {"hollow", "discard"}
        \/ starting'.phase = "create" /\ starting'.answer = "none"
        \/ starting.phase = "wake" /\ starting'.phase = "look" /\ starting'.pod = starting.pod
           /\ starting'.answer = "none"

LEMMA QuietStep ==
  ASSUME RoomInv, GoneInv', Quieter(pods, pods'), StartGoesOn,
         waking' = NoWake, cloud' = cloud
  PROVE  RoomInv'
<1> USE TablesAssumption, LifecycleAssumption
<1>1. TypeOK' /\ OperationsShape'
  BY DEF GoneInv
<1>2. StartOwnsItsRow'
  <2>1. CASE starting'.phase \in {"wake", "look"}
    <3>1. starting.phase \in {"wake", "look"} /\ starting'.pod = starting.pod
          /\ starting'.template = starting.template
      BY <2>1 DEF StartGoesOn
    <3>2. starting.pod \in Pods
      BY <3>1 DEF RoomInv, OperationsShape
    <3>3. /\ pods'[starting.pod].recorded
          /\ pods'[starting.pod].stopped
          /\ pods'[starting.pod].template \in {starting.template, NoTemplate}
      BY <3>1, <3>2 DEF RoomInv, StartOwnsItsRow, Quieter
    <3>4. ASSUME starting'.phase = "look", starting'.answer = "EXITED"
          PROVE  cloud[starting.pod] \in {"exited", "gone"}
      <4>1. starting' = starting
        BY <3>4 DEF StartGoesOn
      <4> QED
        BY <3>4, <4>1 DEF RoomInv, StartOwnsItsRow
    <3> QED
      BY <2>1, <3>1, <3>3, <3>4 DEF StartOwnsItsRow
  <2>2. CASE starting'.phase = "create" /\ starting'.answer = "ok"
    <3>1. starting' = starting
      BY <2>2 DEF StartGoesOn
    <3>2. starting.pod \in Pods
      BY <2>2, <3>1 DEF RoomInv, OperationsShape
    <3> QED
      BY <2>2, <3>1, <3>2 DEF RoomInv, StartOwnsItsRow, Quieter
  <2> QED
    BY <2>1, <2>2 DEF StartOwnsItsRow
<1>3. UnliveIsDown'
  BY DEF RoomInv, UnliveIsDown, Quieter, TypeOK, PodStates
<1>4. /\ Cardinality(Live') <= Cardinality(Live)
      /\ Cardinality(Live) \in Nat /\ Cardinality(Live') \in Nat
  BY FewerLive, LiveFinite DEF Live
<1>5. LimitRespected' /\ OnePerTemplate'
  BY <1>4, FewerLive DEF RoomInv, LimitRespected
<1>6. StartKeepsItsRoom'
  <2> SUFFICES ASSUME starting'.phase # "idle"
               PROVE  /\ Cardinality(Live') < Limit
                      /\ RunningFor(pods', starting'.template) = {}
    BY DEF StartKeepsItsRoom
  <2>1. starting.phase # "idle" /\ starting'.template = starting.template
    BY DEF StartGoesOn
  <2>2. starting.template \in Templates
    BY <2>1 DEF RoomInv, OperationsShape
  <2>3. Cardinality(Live) < Limit /\ RunningFor(pods, starting.template) = {}
    BY <2>1 DEF RoomInv, StartKeepsItsRoom
  <2> QED
    BY <1>4, <2>1, <2>2, <2>3, FewerLive
<1> QED
  BY <1>1, <1>2, <1>3, <1>5, <1>6 DEF RoomInv

(* RunPod's side of a call: the rows stay, and only the pod a start wakes  *)
(* or one not handed out before comes up.                                  *)
LEMMA CloudStep ==
  ASSUME RoomInv, GoneInv', pods' = pods, waking' = NoWake, cloud' \in [Pods -> PodStates],
         \/ starting' = starting
         \/ /\ starting'.phase = starting.phase
            /\ starting'.template = starting.template
            /\ starting.phase \in {"wake", "look", "hollow", "discard"} =>
                 starting'.pod = starting.pod
            /\ starting.phase # "idle"
            /\ starting.phase = "look" /\ starting'.answer = "EXITED" =>
                 cloud[starting.pod] \in {"exited", "gone"}
            /\ starting.phase = "create" /\ starting'.answer = "ok" =>
                 ~pods[starting'.pod].recorded /\ cloud'[starting'.pod] # "none",
         \A q \in Pods : cloud[q] # "none" => cloud'[q] # "none",
         \A q \in Pods : cloud[q] \in {"exited", "gone"} =>
           \/ cloud'[q] \in {"exited", "gone"}
           \/ starting.phase = "wake" /\ q = starting.pod
  PROVE  RoomInv'
<1> USE TablesAssumption, LifecycleAssumption
<1>1. TypeOK' /\ OperationsShape'
  BY DEF GoneInv
<1>2. Live' = Live
  BY DEF Live
<1>3. LimitRespected' /\ OnePerTemplate' /\ StartKeepsItsRoom'
  BY <1>2 DEF RoomInv, LimitRespected, OnePerTemplate, StartKeepsItsRoom
<1>4. StartOwnsItsRow'
  BY DEF RoomInv, StartOwnsItsRow, OperationsShape
<1>5. UnliveIsDown'
  <2> SUFFICES ASSUME NEW p \in Pods, pods[p].recorded
               PROVE  /\ cloud'[p] # "none"
                      /\ ~pods[p].stopped /\ pods[p].status = "EXITED" =>
                           cloud'[p] \in {"exited", "gone"}
    BY DEF UnliveIsDown
  <2>1. cloud'[p] # "none"
    BY DEF RoomInv, UnliveIsDown
  <2>2. ASSUME ~pods[p].stopped, pods[p].status = "EXITED"
        PROVE  cloud'[p] \in {"exited", "gone"}
    <3>1. cloud[p] \in {"exited", "gone"}
      BY <2>2 DEF RoomInv, UnliveIsDown
    <3>2. ~(starting.phase = "wake" /\ p = starting.pod)
      BY <2>2 DEF RoomInv, StartOwnsItsRow
    <3> QED
      BY <3>1, <3>2
  <2> QED
    BY <2>1, <2>2
<1> QED
  BY <1>1, <1>3, <1>4, <1>5 DEF RoomInv

(* A start records its pod and ends: the one step that makes a pod live.   *)
LEMMA RecordStep ==
  ASSUME RoomInv, GoneInv', waking' = NoWake, cloud' = cloud, starting' = NoStart,
         NEW status \in {"RUNNING", "EXITED"}, RecordStart(status),
         \/ starting.phase \in {"wake", "look"}
         \/ starting.phase = "create" /\ starting.answer = "ok",
         status = "EXITED" => cloud[starting.pod] \in {"none", "exited", "gone"}
  PROVE  RoomInv'
<1> USE TablesAssumption, LifecycleAssumption
<1> DEFINE p == starting.pod
<1>1. /\ TypeOK' /\ OperationsShape'
      /\ StartOwnsItsRow' /\ StartKeepsItsRoom'
  BY DEF GoneInv, StartOwnsItsRow, StartKeepsItsRoom, NoStart
<1>2. p \in Pods /\ starting.template \in Templates
  BY DEF RoomInv, OperationsShape
<1>3. /\ \A q \in Pods : q # p => pods'[q] = pods[q]
      /\ pods'[p].recorded /\ pods'[p].status = status
      /\ pods'[p].template = IF pods[p].recorded THEN pods[p].template ELSE starting.template
  BY <1>2 DEF RecordStart, Recorded, RoomInv, TypeOK
<1>4. pods'[p].template \in {starting.template, NoTemplate}
  BY <1>3 DEF RoomInv, StartOwnsItsRow
<1>5. UnliveIsDown'
  <2>1. cloud[p] # "none"
    BY <1>2 DEF RoomInv, StartOwnsItsRow, UnliveIsDown
  <2> QED
    BY <1>2, <1>3, <2>1 DEF RoomInv, UnliveIsDown
<1>6. Live' \subseteq Live \cup {p}
  BY <1>3 DEF Live, RunningPods
<1>7. Cardinality(Live) < Limit /\ RunningFor(pods, starting.template) = {}
  BY DEF RoomInv, StartKeepsItsRoom
<1>8. LimitRespected'
  <2>1. /\ IsFiniteSet(Live) /\ Cardinality(Live) \in Nat /\ Cardinality(Live') \in Nat
    BY LiveFinite DEF Live
  <2>2. /\ IsFiniteSet(Live \cup {p})
        /\ Cardinality(Live \cup {p}) <= Cardinality(Live) + 1
        /\ Cardinality(Live \cup {p}) \in Nat
    <3>1. /\ IsFiniteSet(Live \cup {p})
          /\ Cardinality(Live \cup {p}) =
               IF p \in Live THEN Cardinality(Live) ELSE Cardinality(Live) + 1
      BY <2>1, FS_AddElement
    <3>2. Cardinality(Live \cup {p}) \in Nat
      BY <3>1, FS_CardinalityType
    <3> QED
      BY <2>1, <3>1, <3>2
  <2>3. Cardinality(Live') <= Cardinality(Live \cup {p})
    BY <1>6, <2>2, FS_Subset
  <2> QED
    BY <1>7, <2>1, <2>2, <2>3 DEF LimitRespected
<1>9. OnePerTemplate'
  <2> SUFFICES ASSUME NEW t \in Templates,
                      NEW q \in RunningFor(pods', t), NEW r \in RunningFor(pods', t)
               PROVE  q = r
    BY DEF OnePerTemplate
  <2>1. \A x \in RunningFor(pods', t) : x = p \/ x \in RunningFor(pods, t)
    BY <1>3 DEF RunningFor, RunningPods
  <2>2. p \in RunningFor(pods', t) => RunningFor(pods, t) = {}
    BY <1>4, <1>7, <1>2 DEF RunningFor, TablesAssumption
  <2> QED
    BY <2>1, <2>2 DEF RoomInv, OnePerTemplate
<1> QED
  BY <1>1, <1>5, <1>8, <1>9 DEF RoomInv

LEMMA RoomInit == Init => RoomInv
<1> USE TablesAssumption, LifecycleAssumption
<1> SUFFICES ASSUME Init PROVE RoomInv
  OBVIOUS
<1>1. TypeOK /\ OperationsShape
  BY GoneInit DEF GoneInv
<1>2. Live = {} /\ \A t \in Templates : RunningFor(pods, t) = {}
  BY DEF Init, Live, RunningFor, RunningPods, Blank
<1>3. LimitRespected /\ OnePerTemplate
  BY <1>2, FS_EmptySet DEF LimitRespected, OnePerTemplate, LifecycleAssumption
<1>4. waking = NoWake /\ StartOwnsItsRow /\ UnliveIsDown /\ StartKeepsItsRoom
  BY DEF Init, StartOwnsItsRow, UnliveIsDown, StartKeepsItsRoom, NoStart, Blank
<1> QED
  BY <1>1, <1>3, <1>4 DEF RoomInv

LEMMA RoomStarting ==
  ASSUME RoomInv, GoneInv', Starting
  PROVE  RoomInv'
<1> USE TablesAssumption, LifecycleAssumption
<1> USE DEF service
<1>0. pods \in [Pods -> Row] /\ cloud \in [Pods -> PodStates] /\ waking = NoWake
  BY DEF RoomInv, TypeOK
<1>1. ASSUME NEW t \in Templates, NEW by \in Askers,
             JoinStart(t, by) \/ NoStartNeeded(t, by)
      PROVE  RoomInv'
  <2>1. pods' = pods /\ starting' = starting /\ waking' = NoWake /\ cloud' = cloud
    BY <1>0, <1>1 DEF JoinStart, NoStartNeeded
  <2> QED
    BY <1>0, <2>1, QuietStep DEF StartGoesOn, Quieter
<1>2. ASSUME NEW t \in Templates, NEW by \in Askers, BeginStart(t, by)
      PROVE  RoomInv'
  <2>1. /\ UNCHANGED <<pods, waking, cloud>>
        /\ starting'.template = t
        /\ RunningFor(pods, t) = {} /\ HasRoom(t)
    BY <1>2 DEF BeginStart, CanStart
  <2>2. {p \in Live : pods[p].template # t} = Live
    BY <2>1 DEF RunningFor, Live
  <2>3. LimitRespected' /\ OnePerTemplate' /\ StartKeepsItsRoom' /\ UnliveIsDown'
    BY <2>1, <2>2 DEF RoomInv, LimitRespected, OnePerTemplate, StartKeepsItsRoom,
       UnliveIsDown, HasRoom, Live
  <2>4. StartOwnsItsRow'
    BY <1>2, <2>1 DEF BeginStart, StartOwnsItsRow, Resumable
  <2> QED
    BY <1>0, <2>1, <2>3, <2>4 DEF RoomInv, GoneInv
<1>3. ASSUME StartAtRunpod PROVE RoomInv'
  <2>1. PICK answer \in Answers :
          /\ AtRunpod(IF starting.phase = "wake" THEN "start" ELSE "terminate",
                      starting.pod, answer)
          /\ starting' = [starting EXCEPT !.answer = answer]
    BY <1>3 DEF StartAtRunpod
  <2>2. /\ starting.pod \in Pods
        /\ starting.phase \in {"wake", "hollow", "discard"}
        /\ UNCHANGED <<pods, waking>>
    BY <1>3 DEF StartAtRunpod, RoomInv, OperationsShape
  <2>3. TypeOK
    BY DEF RoomInv
  <2>4. /\ cloud' \in [Pods -> PodStates]
        /\ \A q \in Pods : cloud[q] # "none" => cloud'[q] # "none"
        /\ \A q \in Pods : cloud[q] \in {"exited", "gone"} =>
             \/ cloud'[q] \in {"exited", "gone"}
             \/ starting.phase = "wake" /\ q = starting.pod
    <3>1. CASE starting.phase = "wake"
      BY <2>1, <2>2, <2>3, <3>1, CallAtRunpod
    <3>2. CASE starting.phase # "wake"
      BY <2>1, <2>2, <2>3, <3>2, CallAtRunpod
    <3> QED
      BY <3>1, <3>2
  <2>5. /\ starting'.phase = starting.phase /\ starting'.template = starting.template
        /\ starting'.pod = starting.pod
    BY <2>1, <2>3 DEF TypeOK, Start
  <2> QED
    BY <1>0, <2>2, <2>4, <2>5, CloudStep
<1>10. ASSUME StartLookAtRunpod PROVE RoomInv'
  <2>1. PICK answer \in Described(starting.pod) : starting' = [starting EXCEPT !.answer = answer]
    BY <1>10 DEF StartLookAtRunpod
  <2>2. /\ starting.phase = "look"
        /\ starting.pod \in Pods
        /\ UNCHANGED <<pods, waking, cloud>>
    BY <1>10 DEF StartLookAtRunpod, RoomInv, OperationsShape
  <2>3. /\ starting'.phase = starting.phase /\ starting'.template = starting.template
        /\ starting'.pod = starting.pod /\ starting'.answer = answer
    BY <2>1 DEF RoomInv, TypeOK, Start
  <2>4. cloud[starting.pod] # "none"
    BY <2>2 DEF RoomInv, StartOwnsItsRow, UnliveIsDown
  <2>5. answer = "EXITED" => cloud[starting.pod] \in {"exited", "gone"}
    BY <1>0, <2>2, <2>4 DEF Described, StatusOf, PodStates
  <2> QED
    BY <1>0, <2>2, <2>3, <2>5, CloudStep
<1>4. ASSUME CreateAtRunpod PROVE RoomInv'
  <2>1. /\ cloud' \in [Pods -> PodStates]
        /\ \A q \in Pods : cloud[q] # "none" => cloud'[q] = cloud[q]
    BY <1>0, <1>4 DEF CreateAtRunpod, NextPod, PodStates
  <2>2. /\ starting'.phase = "create" /\ starting.phase = "create"
        /\ starting'.template = starting.template
        /\ starting'.answer = "ok" =>
             /\ starting'.pod \in Pods
             /\ cloud[starting'.pod] = "none" /\ cloud'[starting'.pod] # "none"
    BY <1>0, <1>4, ZenonT(30) DEF CreateAtRunpod, NextPod, RoomInv, TypeOK, Start
  <2>3. starting'.answer = "ok" => ~pods[starting'.pod].recorded
    BY <2>2 DEF RoomInv, UnliveIsDown
  <2>4. pods' = pods /\ waking' = NoWake
    BY <1>0, <1>4 DEF CreateAtRunpod
  <2> QED
    BY <2>1, <2>2, <2>3, <2>4, CloudStep
<1>5. ASSUME StartWoken PROVE RoomInv'
  <2>1. starting.phase = "wake" /\ starting.pod \in Pods /\ waking' = NoWake /\ cloud' = cloud
    BY <1>0, <1>5 DEF StartWoken, RoomInv, OperationsShape
  <2>2. CASE RecordStart("RUNNING") /\ EndStart
    BY <2>1, <2>2, RecordStep DEF EndStart
  <2>3. CASE EndStart /\ pods' = pods
    BY <1>0, <2>1, <2>3, QuietStep, QuieterRows DEF EndStart, StartGoesOn, NoStart
  <2>4. CASE /\ \E phase \in {"hollow", "discard", "look"} : Proceed(phase)
             /\ \/ pods' = pods
                \/ pods' = MarkStopped(pods, starting.pod)
                \/ pods' = MarkTerminated(pods, starting.pod)
    <3>1. Quieter(pods, pods')
      BY <1>0, <2>1, <2>4, QuieterRows
    <3>2. StartGoesOn
      BY <2>1, <2>4 DEF StartGoesOn, Proceed, RoomInv, TypeOK, Start
    <3> QED
      BY <2>1, <3>1, <3>2, QuietStep
  <2> QED
    BY <1>5, <2>2, <2>3, <2>4 DEF StartWoken
<1>6. ASSUME StartLooked PROVE RoomInv'
  <2>1. starting.phase = "look" /\ starting.pod \in Pods /\ waking' = NoWake /\ cloud' = cloud
    BY <1>0, <1>6 DEF StartLooked, RoomInv, OperationsShape
  <2>2. CASE /\ starting.answer \in {"RUNNING", "EXITED"}
             /\ RecordStart(starting.answer)
             /\ EndStart
    <3>1. starting.answer = "EXITED" => cloud[starting.pod] \in {"exited", "gone"}
      BY <2>1 DEF RoomInv, StartOwnsItsRow
    <3> QED
      BY <2>1, <2>2, <3>1, RecordStep DEF EndStart
  <2>3. CASE Proceed("discard") /\ pods' = pods
    <3>1. StartGoesOn
      BY <2>1, <2>3 DEF StartGoesOn, Proceed, RoomInv, TypeOK, Start
    <3> QED
      BY <1>0, <2>1, <2>3, <3>1, QuietStep, QuieterRows
  <2> QED
    BY <1>6, <2>2, <2>3 DEF StartLooked
<1>7. ASSUME StartDroppedHollow PROVE RoomInv'
  <2>1. starting.pod \in Pods /\ pods' = MarkStopped(pods, starting.pod)
        /\ waking' = NoWake /\ cloud' = cloud
    BY <1>0, <1>7 DEF StartDroppedHollow, RoomInv, OperationsShape
  <2>2. StartGoesOn
    BY <1>7 DEF StartDroppedHollow, StartGoesOn, Proceed, RoomInv, TypeOK, Start
  <2> QED
    BY <1>0, <2>1, <2>2, QuietStep, QuieterRows
<1>8. ASSUME StartDiscarded PROVE RoomInv'
  <2>1. /\ starting.pod \in Pods
        /\ pods' = pods \/ pods' = MarkTerminated(pods, starting.pod)
        /\ waking' = NoWake /\ cloud' = cloud
    BY <1>0, <1>8 DEF StartDiscarded, RoomInv, OperationsShape
  <2>2. StartGoesOn
    BY <1>8 DEF StartDiscarded, StartGoesOn, RoomInv, TypeOK, Start
  <2> QED
    BY <1>0, <2>1, <2>2, QuietStep, QuieterRows
<1>9. ASSUME StartCreated PROVE RoomInv'
  <2>1. starting.phase = "create" /\ starting' = NoStart /\ waking' = NoWake /\ cloud' = cloud
    BY <1>0, <1>9 DEF StartCreated, EndStart
  <2>2. CASE starting.answer = "ok" /\ RecordStart("RUNNING")
    BY <2>1, <2>2, RecordStep
  <2>3. CASE pods' = pods
    BY <1>0, <2>1, <2>3, QuietStep, QuieterRows DEF StartGoesOn, NoStart, Quieter
  <2> QED
    BY <1>9, <2>2, <2>3 DEF StartCreated
<1> QED
  BY <1>1, <1>2, <1>3, <1>4, <1>5, <1>6, <1>7, <1>8, <1>9, <1>10 DEF Starting

LEMMA QuieterActed ==
  ASSUME NEW rows \in [Pods -> Row], NEW p \in Pods, NEW action, NEW answer
  PROVE  Quieter(rows, Acted(rows, p, action, answer))
  BY QuieterRows DEF Acted

LEMMA RoomActing ==
  ASSUME "late" \notin Enabled, PollsOnTime, RoomInv, GoneInv', Acting
  PROVE  RoomInv'
<1> USE TablesAssumption, LifecycleAssumption
<1> USE DEF service
<1>0. TypeOK /\ pods \in [Pods -> Row] /\ cloud \in [Pods -> PodStates] /\ waking = NoWake
  BY DEF RoomInv, TypeOK
<1>1. ASSUME NEW p \in Pods, NEW action \in {"stop", "terminate"}, Send(p, action)
      PROVE  RoomInv'
  BY <1>0, <1>1, QuietStep, QuieterRows DEF Send, StartGoesOn, Quieter
<1>2. ASSUME NEW a \in acts, ActAtRunpod(a)
      PROVE  RoomInv'
  <2>1. a.pod \in Pods /\ a.action \in {"stop", "terminate"}
    BY <1>0 DEF TypeOK, Act, PollsOnTime
  <2>2. PICK answer \in Answers : AtRunpod(a.action, a.pod, answer)
    BY <1>2 DEF ActAtRunpod
  <2>3. UNCHANGED <<pods, starting, waking>>
    BY <1>2 DEF ActAtRunpod
  <2> QED
    BY <1>0, <2>1, <2>2, <2>3, CallAtRunpod, CloudStep
<1>3. ASSUME NEW a \in acts, ActAnswered(a)
      PROVE  RoomInv'
  <2>1. a.pod \in Pods
    BY <1>0 DEF TypeOK, Act
  <2>2. Quieter(pods, pods')
    BY <1>0, <1>3, <2>1, QuieterActed DEF ActAnswered
  <2> QED
    BY <1>0, <1>3, <2>2, QuietStep DEF ActAnswered, StartGoesOn
<1>4. ASSUME NEW p \in Pods, Poll(p) PROVE RoomInv'
  <2>1. \A q \in Pods : q # p => pods'[q] = pods[q]
    BY <1>0, <1>4 DEF Poll
  <2>2. /\ pods[p].recorded
        /\ pods'[p].recorded = pods[p].recorded /\ pods'[p].stopped = pods[p].stopped
        /\ pods'[p].template = pods[p].template
        /\ pods'[p].status = StatusOf(cloud[p])
    BY <1>0, <1>4 DEF Poll, Row
  <2>3. StatusOf(cloud[p]) = "EXITED" => cloud[p] \in {"none", "exited", "gone"}
    BY <1>0 DEF StatusOf, PodStates
  <2>4. StatusOf(cloud[p]) = "RUNNING" /\ ~pods[p].stopped => pods[p].status = "RUNNING"
    BY <1>0, <2>2 DEF StatusOf, RoomInv, UnliveIsDown, Row
  <2>5. Quieter(pods, pods')
    BY <1>0, <2>1, <2>2, <2>3, <2>4 DEF Quieter, RunningPods, Row
  <2> QED
    BY <1>0, <1>4, <2>5, QuietStep DEF Poll, StartGoesOn
<1> QED
  BY <1>1, <1>2, <1>3, <1>4
     DEF Acting, ActOn, StopTemplate, RunningFor, RunningPods, PollAtRunpod, PollAnswered,
         PollsOnTime

LEMMA RoomReaping ==
  ASSUME RoomInv, GoneInv', Reaping
  PROVE  RoomInv'
<1> USE TablesAssumption, LifecycleAssumption
<1> USE DEF service
<1>0. TypeOK /\ pods \in [Pods -> Row] /\ waking = NoWake
  BY DEF RoomInv, TypeOK
<1>1. CASE ReapListAtRunpod \/ ReapScan
  <2>1. UNCHANGED <<pods, starting, waking, cloud>>
    BY <1>1 DEF ReapListAtRunpod, ReapScan
  <2> QED
    BY <1>0, <2>1, QuietStep, QuieterRows DEF StartGoesOn, Quieter
<1>2. CASE ReapAtRunpod
  <2>1. PICK answer \in Answers : AtRunpod("terminate", reaping.pod, answer)
    BY <1>2 DEF ReapAtRunpod
  <2>2. reaping.pod \in Pods /\ UNCHANGED <<pods, starting, waking>>
    BY <1>2 DEF ReapAtRunpod, RoomInv, OperationsShape
  <2> QED
    BY <1>0, <2>1, <2>2, CallAtRunpod, CloudStep
<1>3. CASE ReapAnswered
  <2>1. Quieter(pods, pods')
    BY <1>0, <1>3, QuieterActed DEF ReapAnswered, RoomInv, OperationsShape
  <2> QED
    BY <1>0, <1>3, <2>1, QuietStep DEF ReapAnswered, StartGoesOn
<1> QED
  BY <1>1, <1>2, <1>3 DEF Reaping

LEMMA RoomOthers ==
  ASSUME RoomInv, GoneInv', Others
  PROVE  RoomInv'
<1> USE TablesAssumption, LifecycleAssumption
<1> USE DEF service
<1>0. TypeOK /\ pods \in [Pods -> Row] /\ cloud \in [Pods -> PodStates] /\ waking = NoWake
  BY DEF RoomInv, TypeOK
<1>2. ASSUME NEW p \in Pods, LoseAtRunpod(p) PROVE RoomInv'
  <2>1. /\ cloud' \in [Pods -> PodStates]
        /\ \A q \in Pods : cloud[q] # "none" => cloud'[q] # "none"
        /\ \A q \in Pods : cloud[q] \in {"exited", "gone"} => cloud'[q] \in {"exited", "gone"}
        /\ UNCHANGED <<pods, starting, waking>>
    BY <1>0, <1>2 DEF LoseAtRunpod, PodStates, Listed
  <2> QED
    BY <1>0, <2>1, CloudStep
<1>3. ASSUME NEW t \in Templates, NEW config \in Configs, EditTemplate(t, config)
      PROVE  RoomInv'
  BY <1>0, <1>3, QuietStep, QuieterRows DEF EditTemplate, StartGoesOn, Quieter
<1>4. ASSUME NEW t \in Templates, DeleteTemplate(t) PROVE RoomInv'
  <2>1. Quieter(pods, pods')
    BY <1>0, <1>4 DEF DeleteTemplate, WithoutTemplate, Quieter, RunningFor, RunningPods, Row
  <2> QED
    BY <1>0, <1>4, <2>1, QuietStep DEF DeleteTemplate, StartGoesOn
<1>5. ASSUME Crash PROVE RoomInv'
  BY <1>0, <1>5, QuietStep, QuieterRows DEF Crash, StartGoesOn, Quieter, NoStart
<1> QED
  BY <1>2, <1>3, <1>4, <1>5 DEF Others

LEMMA OnTime ==
  ASSUME "late" \notin Enabled
  PROVE  Spec => []PollsOnTime
<1>1. Init => PollsOnTime
  BY DEF Init, PollsOnTime
<1>2. PollsOnTime /\ [Next]_vars => PollsOnTime'
  <2> SUFFICES ASSUME PollsOnTime, [Next]_vars PROVE PollsOnTime'
    OBVIOUS
  <2> USE DEF PollsOnTime
  <2>1. ASSUME acts' = acts PROVE PollsOnTime'
    BY <2>1
  <2>2. CASE Starting
    BY <2>1, <2>2 DEF Starting, JoinStart, NoStartNeeded, BeginStart, StartAtRunpod,
       StartLookAtRunpod, CreateAtRunpod, StartWoken, StartLooked, StartDroppedHollow,
       StartDiscarded, StartCreated
  <2>3. CASE Waking
    BY <2>1, <2>3 DEF Waking, BeginWake, WakeAtRunpod, WakeLookAtRunpod, WakeAnswered,
       WakeLooked, WakeDroppedHollow
  <2>4. CASE Acting
    <3>1. ASSUME NEW p, NEW action \in {"stop", "terminate"}, Send(p, action)
          PROVE  PollsOnTime'
      BY <3>1 DEF Send
    <3>2. ASSUME NEW a \in acts, ActAtRunpod(a) PROVE PollsOnTime'
      <4>1. PICK answer \in Answers : acts' = (acts \ {a}) \cup {[a EXCEPT !.answer = answer]}
        BY <3>2 DEF ActAtRunpod
      <4>2. [a EXCEPT !.answer = answer].action = a.action
        OBVIOUS
      <4> QED
        BY <4>1, <4>2
    <3>3. ASSUME NEW a \in acts, ActAnswered(a) \/ PollAnswered(a) PROVE PollsOnTime'
      BY <3>3 DEF ActAnswered, PollAnswered
    <3>4. ASSUME NEW p \in Pods, Poll(p) \/ PollAtRunpod(p) PROVE PollsOnTime'
      BY <2>1, <3>4 DEF Poll, PollAtRunpod
    <3> QED
      BY <2>4, <3>1, <3>2, <3>3, <3>4 DEF Acting, ActOn, StopTemplate
  <2>5. CASE Reaping
    BY <2>1, <2>5 DEF Reaping, ReapListAtRunpod, ReapScan, ReapAtRunpod, ReapAnswered
  <2>6. CASE Others
    BY <2>1, <2>6 DEF Others, LoseAtRunpod, EditTemplate, DeleteTemplate, Crash
  <2>7. CASE UNCHANGED vars
    BY <2>1, <2>7 DEF vars
  <2> QED
    BY <2>2, <2>3, <2>4, <2>5, <2>6, <2>7 DEF Next
<1> QED
  BY <1>1, <1>2, PTL DEF Spec

(* The inductive invariant where no administrator resumes a single pod and *)
(* no answer to a poll is overtaken:                                       *)
(* neither the limit nor the uniqueness is inductive alone, since a start  *)
(* makes its pod live long after it has looked at the table.               *)
THEOREM RoomInvariant ==
  ASSUME "resume" \notin Enabled, "late" \notin Enabled
  PROVE  Spec => []RoomInv
<1>1. Init => RoomInv
  BY RoomInit
<1>2. RoomInv /\ PollsOnTime /\ GoneInv' /\ [Next]_vars => RoomInv'
  <2> SUFFICES ASSUME RoomInv, PollsOnTime, GoneInv', [Next]_vars PROVE RoomInv'
    OBVIOUS
  <2>1. ~Waking
    BY DEF Waking, BeginWake, WakeAtRunpod, WakeLookAtRunpod, WakeAnswered, WakeLooked,
       WakeDroppedHollow, RoomInv, NoWake
  <2>2. CASE Next
    BY <2>1, <2>2, RoomStarting, RoomActing, RoomReaping, RoomOthers DEF Next
  <2>3. CASE UNCHANGED vars
    <3>1. UNCHANGED <<pods, starting, waking, cloud>> /\ waking = NoWake
          /\ pods \in [Pods -> Row]
      BY <2>3 DEF vars, RoomInv, TypeOK
    <3> QED
      BY <3>1, QuietStep, QuieterRows DEF StartGoesOn, Quieter
  <2> QED
    BY <2>2, <2>3
<1> QED
  BY <1>1, <1>2, GoneInvariant, OnTime, PTL DEF Spec

(* maxConcurrentPods holds of the pods the launcher considers live: what   *)
(* assertRoomForAnotherPod saw still holds when the pod is recorded, after *)
(* every await of doStart, whatever else was stopped, polled, reaped,      *)
(* edited, lost or restarted meanwhile.                                    *)
THEOREM LimitHolds ==
  ASSUME "resume" \notin Enabled, "late" \notin Enabled
  PROVE  Spec => []LimitRespected
<1>1. RoomInv => LimitRespected
  BY DEF RoomInv
<1> QED
  BY <1>1, RoomInvariant, PTL

(* At most one live pod per template. *)
THEOREM OnePodPerTemplate ==
  ASSUME "resume" \notin Enabled, "late" \notin Enabled
  PROVE  Spec => []OnePerTemplate
<1>1. RoomInv => OnePerTemplate
  BY DEF RoomInv
<1> QED
  BY <1>1, RoomInvariant, PTL

(* The check made before a start's awaits holds until the start ends. *)
THEOREM StartRoomHolds ==
  ASSUME "resume" \notin Enabled, "late" \notin Enabled
  PROVE  Spec => []StartKeepsItsRoom
<1>1. RoomInv => StartKeepsItsRoom
  BY DEF RoomInv
<1> QED
  BY <1>1, RoomInvariant, PTL

-----------------------------------------------------------------------------
(* PodLifecycle implements PodAllotment.                                   *)

Allotted == [Allotment!Next]_<<Live, Serves>>

(* An update of one row that makes no pod live releases it or nothing. *)
LEMMA QuietRow ==
  ASSUME NEW p \in Pods, Quieter(pods, pods'),
         \A q \in Pods : q # p => pods'[q] = pods[q]
  PROVE  Allotted
<1>1. \A q \in Pods : q # p => (q \in Live' <=> q \in Live)
  BY DEF Live, RunningPods
<1>2. p \in Live' => p \in Live /\ pods'[p].template = pods[p].template
  BY DEF Quieter, Live
<1>3. Live \subseteq Pods /\ Live' \subseteq Pods
  BY DEF Live, RunningPods
<1>4. CASE p \in Live' \/ p \notin Live
  <2>1. Live' = Live
    BY <1>1, <1>2, <1>3, <1>4
  <2>2. Serves' = Serves
    BY <1>2, <2>1 DEF Serves
  <2> QED
    BY <2>1, <2>2 DEF Allotted
<1>5. CASE p \in Live /\ p \notin Live'
  <2>1. Live' = Live \ {p}
    BY <1>1, <1>3, <1>5
  <2>2. Serves' = [Serves EXCEPT ![p] = NoTemplate]
    BY <1>1, <1>5 DEF Serves
  <2>3. Allotment!Release(p)
    BY <1>5, <2>1, <2>2 DEF Allotment!Release
  <2> QED
    BY <2>3 DEF Allotted, Allotment!Next
<1> QED
  BY <1>4, <1>5

(* PodAllotment counts as PodLifecycle does. *)
LEMMA SameCardinality ==
  \A S : Allotment!Cardinality(S) = Cardinality(S)
BY ZenonT(30) DEF Allotment!Cardinality, Cardinality

LEMMA RecordedRow ==
  ASSUME RoomInv, NEW status \in {"RUNNING", "EXITED"}, RecordStart(status),
         \/ starting.phase \in {"wake", "look"}
         \/ starting.phase = "create" /\ starting.answer = "ok"
  PROVE  Allotted
<1> USE TablesAssumption, LifecycleAssumption
<1> DEFINE p == starting.pod
<1>1. p \in Pods /\ starting.template \in Templates
  BY DEF RoomInv, OperationsShape
<1>2. p \notin Live
  BY DEF RoomInv, StartOwnsItsRow, Live, RunningPods
<1>3. /\ \A q \in Pods : q # p => pods'[q] = pods[q]
      /\ pods'[p].recorded /\ ~pods'[p].stopped /\ pods'[p].status = status
      /\ pods'[p].template = IF pods[p].recorded THEN pods[p].template ELSE starting.template
  BY <1>1 DEF RecordStart, Recorded, RoomInv, TypeOK
<1>4. pods'[p].template \in {starting.template, NoTemplate}
  BY <1>3 DEF RoomInv, StartOwnsItsRow
<1>5. \A q \in Pods : q # p => (q \in Live' <=> q \in Live)
  BY <1>3 DEF Live, RunningPods
<1>6. Live \subseteq Pods /\ Live' \subseteq Pods
  BY DEF Live, RunningPods
<1>7. CASE status = "RUNNING"
  <2>1. p \in Live'
    BY <1>1, <1>3, <1>7 DEF Live, RunningPods
  <2>2. Live' = Live \cup {p}
    BY <1>1, <1>5, <1>6, <2>1
  <2>3. Serves' = [Serves EXCEPT ![p] = pods'[p].template]
    BY <1>3, <1>5, <2>1 DEF Serves
  <2>4. \A q \in Live : Serves[q] # starting.template
    BY <1>6 DEF RoomInv, StartKeepsItsRoom, RunningFor, Live, Serves
  <2>5. Cardinality(Live) < Limit
    BY DEF RoomInv, StartKeepsItsRoom
  <2>6. PICK t \in {starting.template, NoTemplate} : t = pods'[p].template
    BY <1>4
  <2>7. t # NoTemplate => \A q \in Live : Serves[q] # t
    BY <2>4, <2>6
  <2>8. Allotment!Grant(p, t)
    BY <1>2, <2>2, <2>3, <2>5, <2>6, <2>7, SameCardinality DEF Allotment!Grant
  <2> QED
    BY <1>1, <2>6, <2>8 DEF Allotted, Allotment!Next
<1>8. CASE status = "EXITED"
  <2>1. p \notin Live'
    BY <1>3, <1>8 DEF Live, RunningPods
  <2>2. Live' = Live
    BY <1>2, <1>5, <1>6, <2>1
  <2>3. Serves' = Serves
    BY <1>2, <1>3, <2>2 DEF Serves
  <2> QED
    BY <2>2, <2>3 DEF Allotted
<1> QED
  BY <1>7, <1>8

(* Every interleaving of the pod manager, the reaper, the administrator's  *)
(* edits, the polls and RunPod's failures is one of the abstract           *)
(* allotment.                                                              *)
THEOREM AllotmentImplemented ==
  ASSUME "resume" \notin Enabled, "late" \notin Enabled
  PROVE  Spec => ImplementsAllotment
<1> USE TablesAssumption, LifecycleAssumption
<1> USE DEF service
<1>1. Init => Allotment!Init
  BY DEF Init, Allotment!Init, Live, Serves, RunningPods, Blank
<1>2. RoomInv /\ PollsOnTime /\ [Next]_vars => Allotted
  <2> SUFFICES ASSUME RoomInv, PollsOnTime, [Next]_vars PROVE Allotted
    OBVIOUS
  <2>0. pods \in [Pods -> Row] /\ TypeOK /\ cloud \in [Pods -> PodStates]
    BY DEF RoomInv, TypeOK
  <2>1. ASSUME pods' = pods PROVE Allotted
    BY <2>1 DEF Allotted, Live, Serves
  <2>2. CASE Starting
    <3>1. ASSUME NEW p \in Pods,
                 \/ pods' = MarkStopped(pods, p)
                 \/ pods' = MarkTerminated(pods, p)
          PROVE  Allotted
      <4>1. Quieter(pods, pods')
        BY <2>0, <3>1, QuieterRows
      <4>2. \A q \in Pods : q # p => pods'[q] = pods[q]
        BY <2>0, <3>1 DEF MarkStopped, MarkTerminated
      <4> QED
        BY <4>1, <4>2, QuietRow
    <3>2. CASE \E t \in Templates, by \in Askers :
                 JoinStart(t, by) \/ NoStartNeeded(t, by) \/ BeginStart(t, by)
      BY <2>1, <3>2 DEF JoinStart, NoStartNeeded, BeginStart
    <3>3. CASE StartAtRunpod \/ StartLookAtRunpod \/ CreateAtRunpod
      BY <2>1, <3>3 DEF StartAtRunpod, StartLookAtRunpod, CreateAtRunpod
    <3>4. CASE StartWoken
      <4>1. starting.phase = "wake" /\ starting.pod \in Pods
        BY <3>4 DEF StartWoken, RoomInv, OperationsShape
      <4> QED
        BY <2>1, <3>1, <3>4, <4>1, RecordedRow DEF StartWoken
    <3>5. CASE StartLooked
      BY <2>1, <3>5, RecordedRow DEF StartLooked
    <3>6. CASE StartDroppedHollow
      BY <3>1, <3>6 DEF StartDroppedHollow, RoomInv, OperationsShape
    <3>7. CASE StartDiscarded
      BY <2>1, <3>1, <3>7 DEF StartDiscarded, RoomInv, OperationsShape
    <3>8. CASE StartCreated
      BY <2>1, <3>8, RecordedRow DEF StartCreated
    <3> QED
      BY <2>2, <3>2, <3>3, <3>4, <3>5, <3>6, <3>7, <3>8 DEF Starting
  <2>3. ~Waking
    BY DEF Waking, BeginWake, WakeAtRunpod, WakeLookAtRunpod, WakeAnswered, WakeLooked,
       WakeDroppedHollow, RoomInv, NoWake
  <2>4. ASSUME NEW p \in Pods, NEW action, NEW answer, pods' = Acted(pods, p, action, answer)
        PROVE  Allotted
    <3>1. Quieter(pods, pods')
      BY <2>0, <2>4, QuieterActed
    <3>2. \A q \in Pods : q # p => pods'[q] = pods[q]
      BY <2>0, <2>4 DEF Acted, MarkStopped, MarkTerminated
    <3> QED
      BY <3>1, <3>2, QuietRow
  <2>5. CASE Acting
    <3>1. ASSUME NEW a \in acts, ActAnswered(a) PROVE Allotted
      BY <2>0, <2>4, <3>1 DEF ActAnswered, TypeOK, Act
    <3>2. ASSUME NEW a \in acts, ActAtRunpod(a) PROVE Allotted
      BY <2>1, <3>2 DEF ActAtRunpod
    <3>3. ASSUME NEW p \in Pods, Poll(p) PROVE Allotted
      <4>1. \A q \in Pods : q # p => pods'[q] = pods[q]
        BY <2>0, <3>3 DEF Poll
      <4>2. /\ pods[p].recorded
            /\ pods'[p].recorded = pods[p].recorded /\ pods'[p].stopped = pods[p].stopped
            /\ pods'[p].template = pods[p].template
            /\ pods'[p].status = StatusOf(cloud[p])
        BY <2>0, <3>3 DEF Poll, Row
      <4>3. StatusOf(cloud[p]) = "EXITED" => cloud[p] \in {"none", "exited", "gone"}
        BY <2>0 DEF StatusOf, PodStates
      <4>4. StatusOf(cloud[p]) = "RUNNING" /\ ~pods[p].stopped => pods[p].status = "RUNNING"
        BY <2>0, <4>2 DEF StatusOf, RoomInv, UnliveIsDown, Row
      <4>5. Quieter(pods, pods')
        BY <2>0, <4>1, <4>2, <4>3, <4>4 DEF Quieter, RunningPods, Row
      <4> QED
        BY <4>1, <4>5, QuietRow
    <3> QED
      BY <2>1, <2>5, <3>1, <3>2, <3>3
         DEF Acting, ActOn, StopTemplate, Send, PollAtRunpod, PollAnswered, PollsOnTime
  <2>6. CASE Reaping
    <3>1. CASE ReapAnswered
      BY <2>4, <3>1 DEF ReapAnswered, RoomInv, OperationsShape
    <3> QED
      BY <2>1, <2>6, <3>1 DEF Reaping, ReapListAtRunpod, ReapScan, ReapAtRunpod
  <2>7. CASE Others
    <3>2. ASSUME NEW t \in Templates, DeleteTemplate(t) PROVE Allotted
      <4>1. Live' = Live /\ \A p \in Live : pods'[p] = pods[p]
        BY <2>0, <3>2 DEF DeleteTemplate, WithoutTemplate, RunningFor, RunningPods, Live, Row
      <4> QED
        BY <4>1 DEF Allotted, Serves
    <3> QED
      BY <2>1, <2>7, <3>2 DEF Others, LoseAtRunpod, EditTemplate, Crash
  <2>8. CASE UNCHANGED vars
    BY <2>1, <2>8 DEF vars
  <2> QED
    BY <2>2, <2>3, <2>5, <2>6, <2>7, <2>8 DEF Next
<1> QED
  BY <1>1, <1>2, RoomInvariant, OnTime, PTL DEF Spec, ImplementsAllotment, Allotment!Spec, Allotted

-----------------------------------------------------------------------------
(* What RunPod bills, as opposed to the rows that say so: each pod it      *)
(* bills has a row, and it rents out no more GPUs than the limit.          *)

(* Where calls do what they answer, none makes RunPod bill a pod it did    *)
(* not, and only "start" brings a pod up.                                  *)
LEMMA CallBills ==
  ASSUME TypeOK, "fail" \notin Enabled, NEW action \in {"start", "stop", "terminate"},
         NEW p \in Pods, NEW answer \in Answers, AtRunpod(action, p, answer)
  PROVE  /\ \A q \in Pods : cloud'[q] \in Listed => cloud[q] \in Listed
         /\ \A q \in Pods : cloud'[q] = "running" =>
              \/ cloud[q] = "running"
              \/ action = "start" /\ answer = "ok" /\ q = p /\ cloud[p] = "exited"
         /\ action = "stop" /\ answer \in Benign => cloud'[p] # "running"
<1>1. PICK after \in PodStates :
        /\ Performed(action, cloud[p], answer, after)
        /\ cloud' = [cloud EXCEPT ![p] = after]
  BY DEF AtRunpod
<1>2. cloud \in [Pods -> PodStates]
  BY DEF TypeOK
<1>3. cloud'[p] = after /\ \A q \in Pods : q # p => cloud'[q] = cloud[q]
  BY <1>1, <1>2
<1>4. /\ after \in Listed => cloud[p] \in Listed
      /\ after = "running" =>
           \/ cloud[p] = "running"
           \/ action = "start" /\ answer = "ok" /\ cloud[p] = "exited"
      /\ action = "stop" /\ answer \in Benign => after # "running"
  BY <1>1 DEF Performed, Listed, Benign
<1> QED
  BY <1>3, <1>4

(* act() and the clean-up change no row but their own pod's. *)
LEMMA OwnRow ==
  ASSUME NEW rows \in [Pods -> Row], NEW p \in Pods
  PROVE  /\ \A q \in Pods : q # p => MarkStopped(rows, p)[q] = rows[q]
         /\ \A q \in Pods : q # p => MarkTerminated(rows, p)[q] = rows[q]
  BY DEF MarkStopped, MarkTerminated

-----------------------------------------------------------------------------
(* Every pod RunPod bills has a row.                                       *)

(* A step that neither begins a start nor brings its pod to the table.     *)
LEMMA RecordKept ==
  ASSUME GoneInv, RecordInv,
         \A t \in Templates : templates[t] # NoConfig => templates'[t] # NoConfig,
         \A p \in Pods : pods[p].recorded => pods'[p].recorded,
         \A p \in Pods : cloud'[p] \in Listed => cloud[p] \in Listed,
         \/ starting' = starting
         \/ /\ starting.phase # "create"
            /\ \/ starting'.phase = "idle"
               \/ starting.phase # "idle" /\ starting'.template = starting.template
  PROVE  RecordInv'
<1>1. StartKeepsTemplate'
  BY DEF RecordInv, StartKeepsTemplate, GoneInv, OperationsShape
<1>2. BilledIsRecorded'
  BY DEF RecordInv, BilledIsRecorded
<1> QED
  BY <1>1, <1>2 DEF RecordInv

LEMMA RecordStarting ==
  ASSUME "fail" \notin Enabled, GoneInv, RecordInv, Starting
  PROVE  RecordInv'
<1> USE TablesAssumption, LifecycleAssumption
<1> USE DEF service
<1>0. TypeOK /\ pods \in [Pods -> Row] /\ OperationsShape
  BY DEF GoneInv, TypeOK
<1>1. ASSUME NEW t \in Templates, NEW by \in Askers,
             JoinStart(t, by) \/ NoStartNeeded(t, by)
      PROVE  RecordInv'
  BY <1>1, RecordKept DEF JoinStart, NoStartNeeded
<1>2. ASSUME NEW t \in Templates, NEW by \in Askers, BeginStart(t, by)
      PROVE  RecordInv'
  <2>1. UNCHANGED <<templates, pods, cloud>> /\ starting.phase = "idle"
    BY <1>2 DEF BeginStart
  <2>2. starting'.template = t /\ templates[t] # NoConfig
    BY <1>2 DEF BeginStart
  <2> QED
    BY <2>1, <2>2 DEF RecordInv, StartKeepsTemplate, BilledIsRecorded
<1>3. ASSUME StartAtRunpod PROVE RecordInv'
  <2>1. PICK answer \in Answers :
          /\ AtRunpod(IF starting.phase = "wake" THEN "start" ELSE "terminate",
                      starting.pod, answer)
          /\ starting' = [starting EXCEPT !.answer = answer]
    BY <1>3 DEF StartAtRunpod
  <2>2. /\ starting.pod \in Pods
        /\ starting.phase \in {"wake", "hollow", "discard"}
        /\ UNCHANGED <<templates, pods>>
    BY <1>0, <1>3 DEF StartAtRunpod, OperationsShape
  <2>3. \A q \in Pods : cloud'[q] \in Listed => cloud[q] \in Listed
    <3>1. CASE starting.phase = "wake"
      BY <1>0, <2>1, <2>2, <3>1, CallBills
    <3>2. CASE starting.phase # "wake"
      BY <1>0, <2>1, <2>2, <3>2, CallBills
    <3> QED
      BY <3>1, <3>2
  <2>4. starting'.template = starting.template
    BY <1>0, <2>1 DEF TypeOK, Start
  <2> QED
    BY <2>2, <2>3, <2>4, RecordKept
<1>4. ASSUME StartLookAtRunpod PROVE RecordInv'
  <2>1. starting'.template = starting.template
    BY <1>0, <1>4 DEF StartLookAtRunpod, TypeOK, Start
  <2> QED
    BY <1>4, <2>1, RecordKept DEF StartLookAtRunpod
<1>5. ASSUME CreateAtRunpod PROVE RecordInv'
  <2>1. starting.phase = "create" /\ starting.answer = "none" /\ UNCHANGED <<templates, pods>>
    BY <1>5 DEF CreateAtRunpod
  <2>2. starting'.template = starting.template /\ starting'.phase = "create"
    BY <1>0, <1>5, <2>1 DEF CreateAtRunpod, TypeOK, Start
  <2>3. \A p \in Pods : cloud[p] \in Listed => pods[p].recorded
    BY <2>1 DEF RecordInv, BilledIsRecorded
  <2>4. \A p \in Pods : cloud'[p] \in Listed =>
          \/ cloud[p] \in Listed
          \/ starting'.answer = "ok" /\ starting'.pod = p
    BY <1>0, <1>5, ZenonT(30) DEF CreateAtRunpod, TypeOK, Start, NextPod
  <2> QED
    BY <2>1, <2>2, <2>3, <2>4 DEF RecordInv, BilledIsRecorded, StartKeepsTemplate
<1>6. ASSUME StartWoken \/ StartLooked \/ StartDroppedHollow \/ StartDiscarded
      PROVE  RecordInv'
  <2>1. /\ starting.phase \in {"wake", "look", "hollow", "discard"}
        /\ UNCHANGED <<templates, cloud>>
    BY <1>6 DEF StartWoken, StartLooked, StartDroppedHollow, StartDiscarded
  <2>2. starting.pod \in Pods
    BY <1>0, <2>1 DEF OperationsShape
  <2>3. starting'.phase = "idle" \/ starting'.template = starting.template
    <3>1. ASSUME NEW phase, Proceed(phase) PROVE starting'.template = starting.template
      BY <1>0, <3>1 DEF Proceed, TypeOK, Start
    <3>2. EndStart => starting'.phase = "idle"
      BY DEF EndStart, NoStart
    <3>3. CASE StartDiscarded
      BY <1>0, <3>3 DEF StartDiscarded, TypeOK, Start
    <3>4. CASE StartWoken \/ StartLooked \/ StartDroppedHollow
      BY <3>1, <3>2, <3>4 DEF StartWoken, StartLooked, StartDroppedHollow
    <3> QED
      BY <1>6, <3>3, <3>4
  <2>4. \/ pods' = pods
        \/ pods' = MarkStopped(pods, starting.pod)
        \/ pods' = MarkTerminated(pods, starting.pod)
        \/ \E status \in {"RUNNING", "EXITED"} : RecordStart(status)
    BY <1>6 DEF StartWoken, StartLooked, StartDroppedHollow, StartDiscarded
  <2>5. \A p \in Pods : pods[p].recorded => pods'[p].recorded
    <3>1. CASE \E status \in {"RUNNING", "EXITED"} : RecordStart(status)
      BY <1>0, <2>2, <3>1 DEF RecordStart, Recorded
    <3> QED
      BY <1>0, <2>2, <2>4, <3>1, QuieterRows DEF Quieter
  <2> QED
    BY <2>1, <2>3, <2>5, RecordKept
<1>7. ASSUME StartCreated PROVE RecordInv'
  <2>1. /\ starting.phase = "create" /\ starting' = NoStart
        /\ UNCHANGED <<templates, cloud>>
    BY <1>7 DEF StartCreated, EndStart
  <2>2. templates[starting.template] # NoConfig
    BY <2>1 DEF RecordInv, StartKeepsTemplate
  <2>3. CASE starting.answer = "ok"
    <3>1. starting.pod \in Pods
      BY <1>0, <2>1, <2>3 DEF OperationsShape
    <3>2. RecordStart("RUNNING")
      BY <1>7, <2>2, <2>3 DEF StartCreated, Recordable
    <3>3. /\ \A p \in Pods : pods[p].recorded => pods'[p].recorded
          /\ pods'[starting.pod].recorded
      BY <1>0, <3>1, <3>2 DEF RecordStart, Recorded
    <3> QED
      BY <2>1, <2>3, <3>3 DEF RecordInv, BilledIsRecorded, StartKeepsTemplate, NoStart
  <2>4. CASE starting.answer # "ok"
    BY <1>7, <2>1, <2>4 DEF StartCreated, RecordInv, BilledIsRecorded, StartKeepsTemplate,
       NoStart
  <2> QED
    BY <2>3, <2>4
<1> QED
  BY <1>1, <1>2, <1>3, <1>4, <1>5, <1>6, <1>7 DEF Starting

LEMMA RecordWaking ==
  ASSUME "fail" \notin Enabled, GoneInv, RecordInv, Waking
  PROVE  RecordInv'
<1> USE TablesAssumption, LifecycleAssumption
<1> USE DEF service
<1>0. TypeOK /\ pods \in [Pods -> Row] /\ OperationsShape
  BY DEF GoneInv, TypeOK
<1>1. ASSUME NEW p \in Pods, BeginWake(p) PROVE RecordInv'
  BY <1>1, RecordKept DEF BeginWake
<1>2. ASSUME WakeAtRunpod PROVE RecordInv'
  <2>1. PICK answer \in Answers :
          AtRunpod(IF waking.phase = "wake" THEN "start" ELSE "terminate", waking.pod, answer)
    BY <1>2 DEF WakeAtRunpod
  <2>2. waking.pod \in Pods /\ UNCHANGED <<templates, pods, starting>>
    BY <1>0, <1>2 DEF WakeAtRunpod, OperationsShape
  <2>3. \A q \in Pods : cloud'[q] \in Listed => cloud[q] \in Listed
    <3>1. CASE waking.phase = "wake"
      BY <1>0, <2>1, <2>2, <3>1, CallBills
    <3>2. CASE waking.phase # "wake"
      BY <1>0, <2>1, <2>2, <3>2, CallBills
    <3> QED
      BY <3>1, <3>2
  <2> QED
    BY <2>2, <2>3, RecordKept
<1>3. ASSUME WakeLookAtRunpod PROVE RecordInv'
  BY <1>3, RecordKept DEF WakeLookAtRunpod
<1>4. ASSUME WakeAnswered \/ WakeLooked \/ WakeDroppedHollow PROVE RecordInv'
  <2>1. waking.pod \in Pods /\ UNCHANGED <<templates, starting, cloud>>
    BY <1>0, <1>4 DEF WakeAnswered, WakeLooked, WakeDroppedHollow, OperationsShape
  <2>2. \/ pods' = pods
        \/ pods' = MarkStopped(pods, waking.pod)
        \/ pods' = MarkTerminated(pods, waking.pod)
        \/ \E status \in {"RUNNING", "EXITED"} : RecordWake(status)
    BY <1>4 DEF WakeAnswered, WakeLooked, WakeDroppedHollow
  <2>3. \A p \in Pods : pods[p].recorded => pods'[p].recorded
    <3>1. CASE \E status \in {"RUNNING", "EXITED"} : RecordWake(status)
      BY <1>0, <2>1, <3>1 DEF RecordWake, Recorded
    <3> QED
      BY <1>0, <2>1, <2>2, <3>1, QuieterRows DEF Quieter
  <2> QED
    BY <2>1, <2>3, RecordKept
<1> QED
  BY <1>1, <1>2, <1>3, <1>4 DEF Waking

LEMMA RecordActing ==
  ASSUME "fail" \notin Enabled, GoneInv, RecordInv, Acting
  PROVE  RecordInv'
<1> USE TablesAssumption, LifecycleAssumption
<1> USE DEF service
<1>0. TypeOK /\ pods \in [Pods -> Row] /\ OperationsShape
  BY DEF GoneInv, TypeOK
<1>1. ASSUME NEW p \in Pods, NEW action \in {"stop", "terminate"}, Send(p, action)
      PROVE  RecordInv'
  BY <1>1, RecordKept DEF Send
<1>2. ASSUME NEW a \in acts, ActAtRunpod(a) PROVE RecordInv'
  <2>1. PICK answer \in Answers : AtRunpod(a.action, a.pod, answer)
    BY <1>2 DEF ActAtRunpod
  <2>2. a.answer = "none" /\ UNCHANGED <<templates, pods, starting>>
    BY <1>2 DEF ActAtRunpod
  <2>3. a.pod \in Pods /\ a.action \in {"stop", "terminate"}
    BY <1>0, <2>2 DEF TypeOK, Act, OperationsShape
  <2>4. \A q \in Pods : cloud'[q] \in Listed => cloud[q] \in Listed
    BY <1>0, <2>1, <2>3, CallBills
  <2> QED
    BY <2>2, <2>4, RecordKept
<1>3. ASSUME NEW a \in acts, ActAnswered(a) PROVE RecordInv'
  <2>1. a.pod \in Pods
    BY <1>0 DEF TypeOK, Act
  <2>2. \A p \in Pods : pods[p].recorded => pods'[p].recorded
    BY <1>0, <1>3, <2>1, QuieterActed DEF ActAnswered, Quieter
  <2> QED
    BY <1>3, <2>2, RecordKept DEF ActAnswered
<1>4. ASSUME NEW p \in Pods, NEW status,
             pods' = [pods EXCEPT ![p].status = status],
             UNCHANGED <<templates, starting, cloud>>
      PROVE  RecordInv'
  <2>1. \A q \in Pods : pods[q].recorded => pods'[q].recorded
    BY <1>0, <1>4 DEF Row
  <2> QED
    BY <1>4, <2>1, RecordKept
<1>5. ASSUME NEW p \in Pods, Poll(p) PROVE RecordInv'
  BY <1>4, <1>5 DEF Poll
<1>6. ASSUME NEW a \in acts, PollAnswered(a) PROVE RecordInv'
  <2>1. a.pod \in Pods
    BY <1>0 DEF TypeOK, Act
  <2> QED
    BY <1>4, <1>6, <2>1 DEF PollAnswered
<1>7. ASSUME NEW p \in Pods, PollAtRunpod(p) PROVE RecordInv'
  BY <1>7, RecordKept DEF PollAtRunpod
<1> QED
  BY <1>1, <1>2, <1>3, <1>5, <1>6, <1>7 DEF Acting, ActOn, StopTemplate, RunningFor, RunningPods

LEMMA RecordReaping ==
  ASSUME "fail" \notin Enabled, GoneInv, RecordInv, Reaping
  PROVE  RecordInv'
<1> USE TablesAssumption, LifecycleAssumption
<1> USE DEF service
<1>0. TypeOK /\ pods \in [Pods -> Row] /\ OperationsShape
  BY DEF GoneInv, TypeOK
<1>1. ASSUME ReapListAtRunpod \/ ReapScan PROVE RecordInv'
  BY <1>1, RecordKept DEF ReapListAtRunpod, ReapScan
<1>2. ASSUME ReapAtRunpod PROVE RecordInv'
  <2>1. PICK answer \in Answers : AtRunpod("terminate", reaping.pod, answer)
    BY <1>2 DEF ReapAtRunpod
  <2>2. reaping.pod \in Pods /\ UNCHANGED <<templates, pods, starting>>
    BY <1>0, <1>2 DEF ReapAtRunpod, OperationsShape
  <2> QED
    BY <1>0, <2>1, <2>2, CallBills, RecordKept
<1>3. ASSUME ReapAnswered PROVE RecordInv'
  <2>1. reaping.pod \in Pods
    BY <1>0, <1>3 DEF ReapAnswered, OperationsShape
  <2>2. \A p \in Pods : pods[p].recorded => pods'[p].recorded
    BY <1>0, <1>3, <2>1, QuieterActed DEF ReapAnswered, Quieter
  <2> QED
    BY <1>3, <2>2, RecordKept DEF ReapAnswered
<1> QED
  BY <1>1, <1>2, <1>3 DEF Reaping

LEMMA RecordOthers ==
  ASSUME {"delete", "crash"} \cap Enabled = {}, GoneInv, RecordInv, Others
  PROVE  RecordInv'
<1> USE TablesAssumption, LifecycleAssumption
<1> USE DEF service
<1>1. ASSUME NEW p \in Pods, LoseAtRunpod(p) PROVE RecordInv'
  <2>1. \A q \in Pods : cloud'[q] \in Listed => cloud[q] \in Listed
    BY <1>1 DEF LoseAtRunpod, GoneInv, TypeOK
  <2> QED
    BY <1>1, <2>1, RecordKept DEF LoseAtRunpod
<1>2. ASSUME NEW t \in Templates, NEW config \in Configs, EditTemplate(t, config)
      PROVE  RecordInv'
  <2>1. \A u \in Templates : templates[u] # NoConfig => templates'[u] # NoConfig
    BY <1>2 DEF EditTemplate, GoneInv, TypeOK, TablesAssumption
  <2> QED
    BY <1>2, <2>1, RecordKept DEF EditTemplate
<1> QED
  BY <1>1, <1>2 DEF Others, DeleteTemplate, Crash

(* Every pod RunPod bills has a row, but for the one a start is about to   *)
(* record: so long as no template is deleted under a start that builds its *)
(* pod, no restart falls between RunPod's answer and the row, and RunPod   *)
(* does not create a pod whose answer is lost, nothing the service does    *)
(* leaves a pod behind that no query finds.                                *)
THEOREM BilledAreRecorded ==
  ASSUME {"delete", "crash", "fail"} \cap Enabled = {}
  PROVE  Spec => []BilledIsRecorded
<1>1. Init => RecordInv
  BY DEF Init, RecordInv, StartKeepsTemplate, BilledIsRecorded, NoStart, Listed
<1>2. GoneInv /\ RecordInv /\ [Next]_vars => RecordInv'
  <2> SUFFICES ASSUME GoneInv, RecordInv, [Next]_vars PROVE RecordInv'
    OBVIOUS
  <2>1. CASE Next
    BY <2>1, RecordStarting, RecordWaking, RecordActing, RecordReaping, RecordOthers DEF Next
  <2>2. CASE UNCHANGED vars
    BY <2>2, RecordKept DEF vars
  <2> QED
    BY <2>1, <2>2
<1>3. RecordInv => BilledIsRecorded
  BY DEF RecordInv
<1> QED
  BY <1>1, <1>2, <1>3, GoneInvariant, PTL DEF Spec

-----------------------------------------------------------------------------
(* No more GPUs are rented than the limit allows.                          *)

(* What keeps each part of RentInv: no pod comes up, no live pod with a    *)
(* GPU leaves the count, and no pod that RunPod has is marked stopped.     *)
LEMMA RentKept ==
  ASSUME GoneInv, RentInv,
         \A q \in Pods : cloud'[q] = "running" => cloud[q] = "running",
         \A q \in Pods : cloud[q] = "gone" => cloud'[q] = "gone",
         \A q \in Pods : pods[q].recorded => pods'[q].recorded,
         \A q \in Live : cloud[q] = "running" => q \in Live',
         \/ starting' = starting
         \/ ~(starting.phase \in {"wake", "create"} /\ starting.answer = "ok"),
         acts' \subseteq acts,
         \A a \in acts' : a.action = "stop" /\ pods'[a.pod].stopped =>
           pods[a.pod].stopped \/ cloud[a.pod] = "gone",
         \/ starting' = starting /\ \A q \in Pods : pods[q].stopped => pods'[q].stopped
         \/ starting'.phase # "hollow"
         \/ HollowIsStopped'
  PROVE  RentInv'
<1>1. RentedIsCounted'
  BY DEF RentInv, RentedIsCounted
<1>2. \A a \in acts : a.pod \in Pods
  BY DEF GoneInv, TypeOK, Act
<1>3. StopsStillHold'
  BY <1>2 DEF RentInv, StopsStillHold
<1>4. HollowIsStopped'
  BY DEF RentInv, HollowIsStopped, GoneInv, OperationsShape
<1> QED
  BY <1>1, <1>3, <1>4 DEF RentInv

(* What the updates that make no pod live do to the stopped rows.          *)
LEMMA RowsStopped ==
  ASSUME NEW rows \in [Pods -> Row], NEW p \in Pods
  PROVE  /\ rows[p].stopped => RunningPods(MarkStopped(rows, p)) = RunningPods(rows)
         /\ rows[p].stopped => RunningPods(MarkTerminated(rows, p)) = RunningPods(rows)
         /\ \A q \in Pods : rows[q].stopped =>
              MarkStopped(rows, p)[q].stopped /\ MarkTerminated(rows, p)[q].stopped
         /\ rows[p].stopped => \A q \in Pods :
              MarkStopped(rows, p)[q].stopped \/ MarkTerminated(rows, p)[q].stopped =>
                rows[q].stopped
  BY DEF MarkStopped, MarkTerminated, RunningPods, Row

LEMMA RentStarting ==
  ASSUME "fail" \notin Enabled, GoneInv, RoomInv, RecordInv, RentInv, Starting
  PROVE  RentInv'
<1> USE TablesAssumption, LifecycleAssumption
<1> USE DEF service
<1>0. /\ TypeOK /\ OperationsShape
      /\ pods \in [Pods -> Row] /\ cloud \in [Pods -> PodStates]
      /\ \A a \in acts : a.pod \in Pods
  BY DEF GoneInv, TypeOK, Act
<1>1. ASSUME NEW t \in Templates, NEW by \in Askers,
             JoinStart(t, by) \/ NoStartNeeded(t, by)
      PROVE  RentInv'
  <2>1. UNCHANGED <<pods, starting, acts, cloud>>
    BY <1>1 DEF JoinStart, NoStartNeeded
  <2> QED
    BY <2>1, RentKept DEF Live
<1>2. ASSUME NEW t \in Templates, NEW by \in Askers, BeginStart(t, by)
      PROVE  RentInv'
  <2>1. UNCHANGED <<pods, acts, cloud>> /\ starting.phase = "idle"
    BY <1>2 DEF BeginStart
  <2>2. starting'.phase # "hollow"
    BY <1>2 DEF BeginStart
  <2> QED
    BY <2>1, <2>2, RentKept DEF Live
<1>3. ASSUME StartAtRunpod PROVE RentInv'
  <2>1. PICK answer \in Answers :
          /\ AtRunpod(IF starting.phase = "wake" THEN "start" ELSE "terminate",
                      starting.pod, answer)
          /\ starting' = [starting EXCEPT !.answer = answer]
    BY <1>3 DEF StartAtRunpod
  <2>2. /\ starting.pod \in Pods
        /\ starting.phase \in {"wake", "hollow", "discard"} /\ starting.answer = "none"
        /\ UNCHANGED <<pods, acts>>
    BY <1>0, <1>3 DEF StartAtRunpod, OperationsShape
  <2>3. /\ starting'.phase = starting.phase /\ starting'.pod = starting.pod
        /\ starting'.answer = answer
    BY <1>0, <2>1 DEF TypeOK, Start
  <2>4. /\ \A q \in Pods : cloud[q] = "gone" => cloud'[q] = "gone"
        /\ \A q \in Pods : cloud'[q] = "running" =>
             \/ cloud[q] = "running"
             \/ /\ starting.phase = "wake" /\ answer = "ok"
                /\ q = starting.pod /\ cloud[q] = "exited"
    <3>1. CASE starting.phase = "wake"
      BY <1>0, <2>1, <2>2, <3>1, CallAtRunpod, CallBills
    <3>2. CASE starting.phase # "wake"
      BY <1>0, <2>1, <2>2, <3>2, CallAtRunpod, CallBills
    <3> QED
      BY <3>1, <3>2
  <2>5. RentedIsCounted'
    BY <2>2, <2>3, <2>4 DEF RentInv, RentedIsCounted, Live
  <2>6. StopsStillHold'
    <3> SUFFICES ASSUME NEW a \in acts
                 PROVE  /\ pods[a.pod].recorded
                        /\ a.action = "stop" /\ pods[a.pod].stopped => cloud'[a.pod] = "gone"
                        /\ a.action = "stop" /\ a.answer \in Benign => cloud'[a.pod] # "running"
      BY <2>2 DEF StopsStillHold
    <3>1. /\ pods[a.pod].recorded
          /\ a.action = "stop" /\ pods[a.pod].stopped => cloud[a.pod] = "gone"
          /\ a.action = "stop" /\ a.answer \in Benign => cloud[a.pod] # "running"
      BY DEF RentInv, StopsStillHold
    <3>2. starting.phase = "wake" => pods[starting.pod].stopped
      BY DEF RoomInv, StartOwnsItsRow
    <3> QED
      BY <1>0, <2>4, <3>1, <3>2
  <2>7. HollowIsStopped'
    BY <2>2, <2>3 DEF RentInv, HollowIsStopped
  <2> QED
    BY <2>5, <2>6, <2>7 DEF RentInv
<1>4. ASSUME StartLookAtRunpod PROVE RentInv'
  <2>1. starting.phase = "look" /\ UNCHANGED <<pods, acts, cloud>>
    BY <1>4 DEF StartLookAtRunpod
  <2>2. starting'.phase = "look"
    BY <1>0, <1>4, <2>1 DEF StartLookAtRunpod, TypeOK, Start
  <2> QED
    BY <2>1, <2>2, RentKept DEF Live
<1>5. ASSUME CreateAtRunpod PROVE RentInv'
  <2>1. /\ starting.phase = "create" /\ starting.answer = "none"
        /\ UNCHANGED <<pods, acts>>
    BY <1>5 DEF CreateAtRunpod
  <2>2. starting'.phase = "create"
    BY <1>0, <1>5, <2>1 DEF CreateAtRunpod, TypeOK, Start
  <2>3. /\ \A q \in Pods : cloud[q] # "none" => cloud'[q] = cloud[q]
        /\ \A q \in Pods : cloud[q] = "none" /\ cloud'[q] = "running" =>
             starting'.answer = "ok" /\ starting'.pod = q
    BY <1>0, <1>5, ZenonT(30) DEF CreateAtRunpod, TypeOK, Start, NextPod
  <2>4. RentedIsCounted'
    BY <2>1, <2>2, <2>3 DEF RentInv, RentedIsCounted, Live
  <2>5. \A a \in acts : cloud[a.pod] # "none"
    BY <1>0 DEF RentInv, StopsStillHold, RoomInv, UnliveIsDown
  <2>6. StopsStillHold'
    BY <1>0, <2>1, <2>3, <2>5 DEF RentInv, StopsStillHold
  <2>7. HollowIsStopped'
    BY <2>2 DEF HollowIsStopped
  <2> QED
    BY <2>4, <2>6, <2>7 DEF RentInv
<1>6. ASSUME NEW status \in {"RUNNING", "EXITED"}, RecordStart(status), EndStart,
             \/ starting.phase \in {"wake", "look"}
             \/ starting.phase = "create" /\ starting.answer = "ok",
             starting.phase # "look" => status = "RUNNING",
             UNCHANGED <<acts, cloud>>
      PROVE  RentInv'
  <2>1. starting.pod \in Pods /\ starting' = NoStart
    BY <1>0, <1>6 DEF OperationsShape, EndStart
  <2>2. /\ \A q \in Pods : q # starting.pod => pods'[q] = pods[q]
        /\ pods'[starting.pod].recorded /\ ~pods'[starting.pod].stopped
        /\ pods'[starting.pod].status = status
    BY <1>0, <1>6, <2>1 DEF RecordStart, Recorded
  <2>3. starting.pod \notin Live
    BY <1>6 DEF RoomInv, StartOwnsItsRow, Live, RunningPods
  <2>4. RentedIsCounted'
    BY <1>6, <2>1, <2>2, <2>3 DEF RentInv, RentedIsCounted, Live, RunningPods, NoStart
  <2>5. StopsStillHold'
    BY <1>0, <1>6, <2>2 DEF RentInv, StopsStillHold
  <2>6. HollowIsStopped'
    BY <2>1 DEF HollowIsStopped, NoStart
  <2> QED
    BY <2>4, <2>5, <2>6 DEF RentInv
<1>7. ASSUME StartWoken PROVE RentInv'
  <2>1. starting.phase = "wake" /\ starting.pod \in Pods /\ UNCHANGED <<acts, cloud>>
    BY <1>0, <1>7 DEF StartWoken, OperationsShape
  <2>2. pods[starting.pod].recorded /\ pods[starting.pod].stopped
    BY <2>1 DEF RoomInv, StartOwnsItsRow
  <2>3. CASE RecordStart("RUNNING") /\ EndStart
    BY <1>6, <2>1, <2>3
  <2>4. CASE /\ starting.answer # "ok"
             /\ \/ pods' = pods
                \/ pods' = MarkStopped(pods, starting.pod)
                \/ pods' = MarkTerminated(pods, starting.pod)
             /\ \/ EndStart
                \/ \E phase \in {"hollow", "discard", "look"} : Proceed(phase)
    <3>1. /\ Live' = Live
          /\ \A q \in Pods : pods[q].recorded => pods'[q].recorded
          /\ \A q \in Pods : pods'[q].stopped <=> pods[q].stopped
      <4>1. CASE pods' = pods
        BY <4>1 DEF Live
      <4>2. CASE pods' = MarkStopped(pods, starting.pod)
        BY <1>0, <2>1, <2>2, <4>2, RowsStopped, QuieterRows DEF Live, Quieter
      <4>3. CASE pods' = MarkTerminated(pods, starting.pod)
        BY <1>0, <2>1, <2>2, <4>3, RowsStopped, QuieterRows DEF Live, Quieter
      <4> QED
        BY <2>4, <4>1, <4>2, <4>3
    <3>2. HollowIsStopped'
      <4>1. CASE EndStart
        BY <4>1 DEF EndStart, NoStart, HollowIsStopped
      <4>2. CASE \E phase \in {"hollow", "discard", "look"} : Proceed(phase)
        <5>1. starting'.pod = starting.pod
          BY <1>0, <4>2 DEF Proceed, TypeOK, Start
        <5> QED
          BY <2>1, <2>2, <3>1, <5>1 DEF HollowIsStopped
      <4> QED
        BY <2>4, <4>1, <4>2
    <3> QED
      BY <1>0, <2>1, <2>4, <3>1, <3>2, RentKept
  <2> QED
    BY <1>7, <2>3, <2>4 DEF StartWoken
<1>8. ASSUME StartLooked PROVE RentInv'
  <2>1. starting.phase = "look" /\ UNCHANGED <<acts, cloud>>
    BY <1>8 DEF StartLooked
  <2>2. CASE starting.answer \in {"RUNNING", "EXITED"} /\ RecordStart(starting.answer) /\ EndStart
    BY <1>6, <2>1, <2>2
  <2>3. CASE Proceed("discard") /\ pods' = pods
    <3>1. starting'.phase = "discard"
      BY <1>0, <2>3 DEF Proceed, TypeOK, Start
    <3> QED
      BY <2>1, <2>3, <3>1, RentKept DEF Live
  <2> QED
    BY <1>8, <2>2, <2>3 DEF StartLooked
<1>9. ASSUME StartDroppedHollow PROVE RentInv'
  <2>1. /\ starting.phase = "hollow" /\ starting.pod \in Pods
        /\ pods' = MarkStopped(pods, starting.pod)
        /\ UNCHANGED <<acts, cloud>>
    BY <1>0, <1>9 DEF StartDroppedHollow, OperationsShape
  <2>2. pods[starting.pod].stopped
    BY <2>1 DEF RentInv, HollowIsStopped
  <2>3. starting'.phase = "discard"
    BY <1>0, <1>9 DEF StartDroppedHollow, Proceed, TypeOK, Start
  <2>4. /\ Live' = Live
        /\ \A q \in Pods : pods[q].recorded => pods'[q].recorded
        /\ \A q \in Pods : pods'[q].stopped => pods[q].stopped
    BY <1>0, <2>1, <2>2, RowsStopped, QuieterRows DEF Live, Quieter
  <2> QED
    BY <1>0, <2>1, <2>3, <2>4, RentKept
<1>10. ASSUME StartDiscarded PROVE RentInv'
  <2>1. /\ starting.phase = "discard" /\ starting.pod \in Pods
        /\ UNCHANGED <<acts, cloud>>
        /\ \/ pods' = pods
           \/ starting.answer \in Benign /\ pods' = MarkTerminated(pods, starting.pod)
    BY <1>0, <1>10 DEF StartDiscarded, OperationsShape
  <2>2. starting'.phase = "create"
    BY <1>0, <1>10 DEF StartDiscarded, TypeOK, Start
  <2>3. /\ \A q \in Pods : cloud[q] # "gone" => pods'[q] = pods[q]
        /\ \A q \in Pods : pods[q].recorded => pods'[q].recorded
    <3>1. CASE pods' = pods
      BY <3>1
    <3>2. CASE starting.answer \in Benign /\ pods' = MarkTerminated(pods, starting.pod)
      <4>1. cloud[starting.pod] = "gone"
        BY <2>1, <3>2 DEF GoneInv, AnswersTellTruth
      <4>2. \A q \in Pods : q # starting.pod => pods'[q] = pods[q]
        BY <1>0, <2>1, <3>2, OwnRow
      <4>3. \A q \in Pods : pods[q].recorded => pods'[q].recorded
        BY <1>0, <2>1, <3>2, QuieterRows DEF Quieter
      <4> QED
        BY <4>1, <4>2, <4>3
    <3> QED
      BY <2>1, <3>1, <3>2
  <2> QED
    BY <1>0, <2>1, <2>2, <2>3, RentKept DEF Live, RunningPods
<1>11. ASSUME StartCreated PROVE RentInv'
  <2>1. /\ starting.phase = "create" /\ EndStart /\ starting' = NoStart
        /\ UNCHANGED <<acts, cloud>>
    BY <1>11 DEF StartCreated, EndStart
  <2>2. CASE starting.answer = "ok"
    <3>1. RecordStart("RUNNING")
      BY <1>11, <2>1, <2>2 DEF StartCreated, Recordable, RecordInv, StartKeepsTemplate
    <3> QED
      BY <1>6, <2>1, <2>2, <3>1
  <2>3. CASE starting.answer # "ok"
    <3>1. pods' = pods
      BY <1>11, <2>3 DEF StartCreated
    <3> QED
      BY <2>1, <2>3, <3>1, RentKept DEF Live, NoStart
  <2> QED
    BY <2>2, <2>3
<1> QED
  BY <1>1, <1>2, <1>3, <1>4, <1>5, <1>7, <1>8, <1>9, <1>10, <1>11 DEF Starting

(* The rows after act() has its answer: none but its own pod's changes,    *)
(* and that only after the answer it takes for what it wanted.             *)
LEMMA ActedRow ==
  ASSUME NEW rows \in [Pods -> Row], NEW p \in Pods, NEW action, NEW answer
  PROVE  /\ \A q \in Pods : q # p \/ answer \notin Benign =>
              Acted(rows, p, action, answer)[q] = rows[q]
         /\ \A q \in Pods : rows[q].recorded => Acted(rows, p, action, answer)[q].recorded
         /\ \A q \in Pods : rows[q].stopped => Acted(rows, p, action, answer)[q].stopped
  BY DEF Acted, MarkStopped, MarkTerminated, Row

LEMMA RentActing ==
  ASSUME {"fail", "late", "act"} \cap Enabled = {}, GoneInv, RoomInv, RentInv,
         OneStopPerPod, PollsOnTime, Acting
  PROVE  RentInv'
<1> USE TablesAssumption, LifecycleAssumption
<1> USE DEF service
<1>0. /\ TypeOK /\ OperationsShape
      /\ pods \in [Pods -> Row] /\ cloud \in [Pods -> PodStates]
      /\ \A a \in acts : a.pod \in Pods
  BY DEF GoneInv, TypeOK, Act
<1>1. ASSUME NEW t \in Templates, StopTemplate(t) PROVE RentInv'
  <2>1. PICK p \in RunningFor(pods, t), action \in {"stop", "terminate"} : Send(p, action)
    BY <1>1 DEF StopTemplate
  <2>2. pods[p].recorded /\ ~pods[p].stopped
    BY DEF RunningFor, RunningPods
  <2>3. /\ UNCHANGED <<pods, starting, cloud>>
        /\ acts' = acts \cup {[pod |-> p, action |-> action, answer |-> "none"]}
    BY <2>1 DEF Send
  <2>4. StopsStillHold'
    BY <2>2, <2>3 DEF RentInv, StopsStillHold, Benign
  <2>5. RentedIsCounted' /\ HollowIsStopped'
    BY <2>3 DEF RentInv, RentedIsCounted, HollowIsStopped, Live
  <2> QED
    BY <2>4, <2>5 DEF RentInv
<1>2. ASSUME NEW a \in acts, ActAtRunpod(a) PROVE RentInv'
  <2>1. PICK answer \in Answers :
          /\ AtRunpod(a.action, a.pod, answer)
          /\ acts' = (acts \ {a}) \cup {[a EXCEPT !.answer = answer]}
    BY <1>2 DEF ActAtRunpod
  <2>2. UNCHANGED <<pods, starting>>
    BY <1>2 DEF ActAtRunpod
  <2>3. a.pod \in Pods /\ a.action \in {"stop", "terminate"} /\ a \in Act
    BY <1>0 DEF PollsOnTime, TypeOK, Act
  <2>4. /\ \A q \in Pods : cloud[q] = "gone" => cloud'[q] = "gone"
        /\ \A q \in Pods : cloud'[q] = "running" => cloud[q] = "running"
        /\ a.action = "stop" /\ answer \in Benign => cloud'[a.pod] # "running"
    BY <1>0, <2>1, <2>3, CallAtRunpod, CallBills
  <2>5. StopsStillHold'
    <3> DEFINE b == [a EXCEPT !.answer = answer]
    <3>1. b.pod = a.pod /\ b.action = a.action /\ b.answer = answer
      BY <2>3 DEF Act
    <3> HIDE DEF b
    <3>2. /\ pods[b.pod].recorded
          /\ b.action = "stop" /\ pods[b.pod].stopped => cloud'[b.pod] = "gone"
          /\ b.action = "stop" /\ b.answer \in Benign => cloud'[b.pod] # "running"
      BY <2>3, <2>4, <3>1 DEF RentInv, StopsStillHold
    <3>3. \A c \in acts :
            /\ pods[c.pod].recorded
            /\ c.action = "stop" /\ pods[c.pod].stopped => cloud'[c.pod] = "gone"
            /\ c.action = "stop" /\ c.answer \in Benign => cloud'[c.pod] # "running"
      BY <1>0, <2>4 DEF RentInv, StopsStillHold
    <3>4. acts' = (acts \ {a}) \cup {b}
      BY <2>1 DEF b
    <3> QED
      BY <2>2, <3>2, <3>3, <3>4 DEF StopsStillHold
  <2>6. RentedIsCounted' /\ HollowIsStopped'
    BY <2>2, <2>4 DEF RentInv, RentedIsCounted, HollowIsStopped, Live
  <2> QED
    BY <2>5, <2>6 DEF RentInv
<1>3. ASSUME NEW a \in acts, ActAnswered(a) PROVE RentInv'
  <2>1. /\ a.pod \in Pods /\ a.action \in {"stop", "terminate"}
        /\ acts' = acts \ {a} /\ UNCHANGED <<starting, cloud>>
        /\ pods' = Acted(pods, a.pod, a.action, a.answer)
    BY <1>0, <1>3 DEF ActAnswered, TypeOK, Act
  <2>2. /\ \A q \in Pods : q # a.pod \/ a.answer \notin Benign => pods'[q] = pods[q]
        /\ \A q \in Pods : pods[q].recorded => pods'[q].recorded
        /\ \A q \in Pods : pods[q].stopped => pods'[q].stopped
    BY <1>0, <2>1, ActedRow
  <2>3. a.answer \in Benign =>
          /\ cloud[a.pod] # "running"
          /\ a.action = "terminate" => cloud[a.pod] = "gone"
    BY <2>1 DEF RentInv, StopsStillHold, GoneInv, AnswersTellTruth
  <2>4. \A q \in Live : cloud[q] = "running" => q \in Live'
    BY <2>2, <2>3 DEF Live, RunningPods
  <2>5. ASSUME NEW b \in acts', b.action = "stop", pods'[b.pod].stopped
        PROVE  pods[b.pod].stopped \/ cloud[b.pod] = "gone"
    <3>1. b \in acts /\ b # a
      BY <2>1
    <3>2. b.pod = a.pod => a.action = "terminate"
      BY <2>1, <2>5, <3>1 DEF OneStopPerPod
    <3> QED
      BY <1>0, <2>2, <2>3, <2>5, <3>1, <3>2
  <2> QED
    BY <2>1, <2>2, <2>4, <2>5, RentKept
<1>4. ASSUME NEW p \in Pods, Poll(p) PROVE RentInv'
  <2>1. /\ pods' = [pods EXCEPT ![p].status = StatusOf(cloud[p])]
        /\ UNCHANGED <<starting, acts, cloud>>
    BY <1>4 DEF Poll
  <2>2. /\ \A q \in Pods : pods'[q].recorded = pods[q].recorded
        /\ \A q \in Pods : pods'[q].stopped = pods[q].stopped
        /\ \A q \in Pods : q # p => pods'[q] = pods[q]
        /\ pods'[p].status = StatusOf(cloud[p])
    BY <1>0, <2>1 DEF Row
  <2>3. \A q \in Live : cloud[q] = "running" => q \in Live'
    BY <2>2 DEF Live, RunningPods, StatusOf
  <2> QED
    BY <1>0, <2>1, <2>2, <2>3, RentKept
<1> QED
  BY <1>1, <1>2, <1>3, <1>4 DEF Acting, ActOn, PollAtRunpod, PollAnswered, PollsOnTime

LEMMA RentReaping ==
  ASSUME "fail" \notin Enabled, GoneInv, RentInv, Reaping
  PROVE  RentInv'
<1> USE TablesAssumption, LifecycleAssumption
<1> USE DEF service
<1>0. /\ TypeOK /\ OperationsShape
      /\ pods \in [Pods -> Row] /\ cloud \in [Pods -> PodStates]
      /\ \A a \in acts : a.pod \in Pods
  BY DEF GoneInv, TypeOK, Act
<1>1. ASSUME ReapListAtRunpod \/ ReapScan PROVE RentInv'
  <2>1. UNCHANGED <<pods, starting, acts, cloud>>
    BY <1>1 DEF ReapListAtRunpod, ReapScan
  <2> QED
    BY <2>1, RentKept DEF Live
<1>2. ASSUME ReapAtRunpod PROVE RentInv'
  <2>1. PICK answer \in Answers : AtRunpod("terminate", reaping.pod, answer)
    BY <1>2 DEF ReapAtRunpod
  <2>2. reaping.pod \in Pods /\ UNCHANGED <<pods, starting, acts>>
    BY <1>0, <1>2 DEF ReapAtRunpod, OperationsShape
  <2>3. /\ \A q \in Pods : cloud[q] = "gone" => cloud'[q] = "gone"
        /\ \A q \in Pods : cloud'[q] = "running" => cloud[q] = "running"
    BY <1>0, <2>1, <2>2, CallAtRunpod, CallBills
  <2> QED
    BY <2>2, <2>3, RentKept DEF Live
<1>3. ASSUME ReapAnswered PROVE RentInv'
  <2>1. /\ reaping.pod \in Pods /\ UNCHANGED <<starting, acts, cloud>>
        /\ pods' = Acted(pods, reaping.pod, "terminate", reaping.answer)
    BY <1>0, <1>3 DEF ReapAnswered, OperationsShape
  <2>2. /\ \A q \in Pods : q # reaping.pod \/ reaping.answer \notin Benign => pods'[q] = pods[q]
        /\ \A q \in Pods : pods[q].recorded => pods'[q].recorded
        /\ \A q \in Pods : pods[q].stopped => pods'[q].stopped
    BY <1>0, <2>1, ActedRow
  <2>3. reaping.answer \in Benign => cloud[reaping.pod] = "gone"
    BY <1>3 DEF ReapAnswered, GoneInv, AnswersTellTruth
  <2>4. \A q \in Live : cloud[q] = "running" => q \in Live'
    BY <2>2, <2>3 DEF Live, RunningPods
  <2>5. \A a \in acts : pods'[a.pod].stopped => pods[a.pod].stopped \/ cloud[a.pod] = "gone"
    BY <1>0, <2>2, <2>3
  <2> QED
    BY <2>1, <2>2, <2>4, <2>5, RentKept
<1> QED
  BY <1>1, <1>2, <1>3 DEF Reaping

LEMMA RentOthers ==
  ASSUME {"delete", "crash"} \cap Enabled = {}, GoneInv, RentInv, Others
  PROVE  RentInv'
<1> USE TablesAssumption, LifecycleAssumption
<1> USE DEF service
<1>1. ASSUME NEW p \in Pods, LoseAtRunpod(p) PROVE RentInv'
  <2>1. /\ \A q \in Pods : cloud[q] = "gone" => cloud'[q] = "gone"
        /\ \A q \in Pods : cloud'[q] = "running" => cloud[q] = "running"
    BY <1>1 DEF LoseAtRunpod, GoneInv, TypeOK, Listed
  <2> QED
    BY <1>1, <2>1, RentKept DEF LoseAtRunpod, Live
<1>2. ASSUME NEW t \in Templates, NEW config \in Configs, EditTemplate(t, config)
      PROVE  RentInv'
  <2>1. UNCHANGED <<pods, starting, acts, cloud>>
    BY <1>2 DEF EditTemplate
  <2> QED
    BY <2>1, RentKept DEF Live
<1> QED
  BY <1>1, <1>2 DEF Others, DeleteTemplate, Crash

(* What is rented is live or about to be, and a start that is about to     *)
(* record its pod has kept its room.                                       *)
LEMMA RentWithinLimit ==
  ASSUME RoomInv, RentInv
  PROVE  GpusWithinLimit
<1> USE TablesAssumption, LifecycleAssumption
<1> DEFINE R == {p \in Pods : cloud[p] = "running"}
<1>1. IsFiniteSet(Live) /\ Cardinality(Live) \in Nat
  BY LiveFinite DEF Live
<1>2. /\ IsFiniteSet(Live \cup {starting.pod})
      /\ Cardinality(Live \cup {starting.pod}) =
           IF starting.pod \in Live THEN Cardinality(Live) ELSE Cardinality(Live) + 1
  BY <1>1, FS_AddElement
<1>3. CASE starting.phase = "idle"
  <2>1. R \subseteq Live
    BY <1>3 DEF RentInv, RentedIsCounted
  <2>2. Cardinality(R) <= Cardinality(Live) /\ Cardinality(R) \in Nat
    BY <1>1, <2>1, FS_Subset, FS_CardinalityType
  <2> QED
    BY <1>1, <2>2 DEF RoomInv, LimitRespected, GpusWithinLimit
<1>4. CASE starting.phase # "idle"
  <2>1. R \subseteq Live \cup {starting.pod}
    BY DEF RentInv, RentedIsCounted
  <2>2. Cardinality(R) <= Cardinality(Live \cup {starting.pod}) /\ Cardinality(R) \in Nat
    BY <1>2, <2>1, FS_Subset, FS_CardinalityType
  <2>3. Cardinality(Live) < Limit
    BY <1>4 DEF RoomInv, StartKeepsItsRoom
  <2> QED
    BY <1>1, <1>2, <2>2, <2>3 DEF GpusWithinLimit
<1> QED
  BY <1>3, <1>4

(* No more GPUs are rented at RunPod than maxConcurrentPods, so long as no *)
(* pod is being stopped twice at once, pods are woken and stopped by their *)
(* templates alone, no template is deleted, and neither a restart nor a    *)
(* lost answer parts a call from its row.  Each of these can break it.     *)
THEOREM GpusHold ==
  ASSUME Enabled \subseteq {"stop", "edit", "reap", "poll", "lose"}
  PROVE  Spec /\ []OneStopPerPod => []GpusWithinLimit
<1>1. Init => RecordInv /\ RentInv
  BY DEF Init, RecordInv, StartKeepsTemplate, BilledIsRecorded, NoStart, Listed,
     RentInv, RentedIsCounted, StopsStillHold, HollowIsStopped
<1>2. GoneInv /\ RoomInv /\ RecordInv /\ RentInv /\ PollsOnTime /\ OneStopPerPod /\ [Next]_vars
        => RecordInv' /\ RentInv'
  <2> SUFFICES ASSUME GoneInv, RoomInv, RecordInv, RentInv, PollsOnTime, OneStopPerPod,
                      [Next]_vars
               PROVE  RecordInv' /\ RentInv'
    OBVIOUS
  <2>1. ~Waking
    BY DEF Waking, BeginWake, WakeAtRunpod, WakeLookAtRunpod, WakeAnswered, WakeLooked,
       WakeDroppedHollow, RoomInv, NoWake
  <2>2. CASE Next
    <3>1. RecordInv'
      BY <2>1, <2>2, RecordStarting, RecordActing, RecordReaping, RecordOthers DEF Next
    <3>2. RentInv'
      BY <2>1, <2>2, RentStarting, RentActing, RentReaping, RentOthers DEF Next
    <3> QED
      BY <3>1, <3>2
  <2>3. CASE UNCHANGED vars
    BY <2>3, RecordKept, RentKept DEF vars, Live
  <2> QED
    BY <2>2, <2>3
<1>3. RoomInv /\ RentInv => GpusWithinLimit
  BY RentWithinLimit
<1>4. "resume" \notin Enabled /\ "late" \notin Enabled
  OBVIOUS
<1> QED
  BY <1>1, <1>2, <1>3, <1>4, GoneInvariant, RoomInvariant, OnTime, PTL DEF Spec

(* No more calls are in flight than the bound.                             *)
ActsBounded == IsFiniteSet(acts) /\ Cardinality(acts) <= MaxActs

LEMMA ActsAreBounded == Spec => []ActsBounded
<1> USE LifecycleAssumption
<1>1. Init => ActsBounded
  BY FS_EmptySet DEF Init, ActsBounded
<1>2. ActsBounded /\ [Next]_vars => ActsBounded'
  <2> SUFFICES ASSUME ActsBounded, [Next]_vars PROVE ActsBounded'
    OBVIOUS
  <2>0. IsFiniteSet(acts) /\ Cardinality(acts) \in Nat /\ Cardinality(acts) <= MaxActs
    BY FS_CardinalityType DEF ActsBounded
  <2>1. ASSUME acts' = acts PROVE ActsBounded'
    BY <2>0, <2>1 DEF ActsBounded
  <2>2. ASSUME acts' = {} PROVE ActsBounded'
    BY <2>2, FS_EmptySet DEF ActsBounded
  <2>3. ASSUME NEW b, acts' = acts \cup {b}, Cardinality(acts) < MaxActs PROVE ActsBounded'
    <3>1. /\ IsFiniteSet(acts \cup {b})
          /\ \/ Cardinality(acts \cup {b}) = Cardinality(acts)
             \/ Cardinality(acts \cup {b}) = Cardinality(acts) + 1
      BY <2>0, FS_AddElement
    <3> QED
      BY <2>0, <2>3, <3>1 DEF ActsBounded
  <2>4. ASSUME NEW a \in acts, acts' = acts \ {a} PROVE ActsBounded'
    BY <2>0, <2>4, FS_RemoveElement DEF ActsBounded
  <2>5. ASSUME NEW a \in acts, NEW b, acts' = (acts \ {a}) \cup {b} PROVE ActsBounded'
    <3>1. /\ IsFiniteSet(acts \ {a}) /\ Cardinality(acts \ {a}) = Cardinality(acts) - 1
      BY <2>0, FS_RemoveElement
    <3>2. /\ IsFiniteSet((acts \ {a}) \cup {b})
          /\ \/ Cardinality((acts \ {a}) \cup {b}) = Cardinality(acts \ {a})
             \/ Cardinality((acts \ {a}) \cup {b}) = Cardinality(acts \ {a}) + 1
      BY <3>1, FS_AddElement
    <3> QED
      BY <2>0, <2>5, <3>1, <3>2 DEF ActsBounded
  <2>6. CASE Starting
    BY <2>1, <2>6 DEF Starting, JoinStart, NoStartNeeded, BeginStart, StartAtRunpod,
       StartLookAtRunpod, CreateAtRunpod, StartWoken, StartLooked, StartDroppedHollow,
       StartDiscarded, StartCreated
  <2>7. CASE Waking
    BY <2>1, <2>7 DEF Waking, BeginWake, WakeAtRunpod, WakeLookAtRunpod, WakeAnswered,
       WakeLooked, WakeDroppedHollow
  <2>8. CASE Acting
    <3>1. ASSUME NEW p, NEW action, Send(p, action) PROVE ActsBounded'
      BY <2>3, <3>1 DEF Send
    <3>2. ASSUME NEW a \in acts, ActAtRunpod(a) \/ ActAnswered(a) \/ PollAnswered(a)
          PROVE  ActsBounded'
      BY <2>4, <2>5, <3>2 DEF ActAtRunpod, ActAnswered, PollAnswered
    <3>3. ASSUME NEW p \in Pods, Poll(p) \/ PollAtRunpod(p) PROVE ActsBounded'
      BY <2>1, <2>3, <3>3 DEF Poll, PollAtRunpod
    <3> QED
      BY <2>8, <3>1, <3>2, <3>3 DEF Acting, ActOn, StopTemplate
  <2>9. CASE Reaping
    BY <2>1, <2>9 DEF Reaping, ReapListAtRunpod, ReapScan, ReapAtRunpod, ReapAnswered
  <2>10. CASE Others
    BY <2>1, <2>2, <2>10 DEF Others, LoseAtRunpod, EditTemplate, DeleteTemplate, Crash
  <2>11. CASE UNCHANGED vars
    BY <2>1, <2>11 DEF vars
  <2> QED
    BY <2>6, <2>7, <2>8, <2>9, <2>10, <2>11 DEF Next
<1> QED
  BY <1>1, <1>2, PTL DEF Spec

(* With one call in flight at a time no pod is stopped twice at once: the  *)
(* run that checks the GPUs, for any number of pods and templates.         *)
THEOREM GpusHoldWithOneStop ==
  ASSUME Enabled \subseteq {"stop", "edit", "reap", "poll", "lose"}, MaxActs <= 1
  PROVE  Spec => []GpusWithinLimit
<1>1. ActsBounded => OneStopPerPod
  <2> SUFFICES ASSUME ActsBounded, NEW a \in acts, NEW b \in acts, a # b PROVE FALSE
    BY DEF OneStopPerPod
  <2>1. IsFiniteSet({a} \cup {b}) /\ Cardinality({a} \cup {b}) = 2
    <3>1. IsFiniteSet({a}) /\ Cardinality({a}) = 1 /\ b \notin {a}
      BY FS_Singleton
    <3>2. /\ IsFiniteSet({a} \cup {b})
          /\ Cardinality({a} \cup {b}) =
               IF b \in {a} THEN Cardinality({a}) ELSE Cardinality({a}) + 1
      BY <3>1, FS_AddElement
    <3> QED
      BY <3>1, <3>2
  <2>2. Cardinality({a} \cup {b}) <= Cardinality(acts)
    BY FS_Subset DEF ActsBounded
  <2>3. Cardinality(acts) \in Nat
    BY FS_CardinalityType DEF ActsBounded
  <2> QED
    BY <2>1, <2>2, <2>3, LifecycleAssumption DEF ActsBounded
<1> QED
  BY <1>1, ActsAreBounded, GpusHold, PTL

=============================================================================
