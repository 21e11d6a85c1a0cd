-------------------------- MODULE CachedView_proofs --------------------------
(***************************************************************************)
(* The timer of a cached view asks only when the request made last has     *)
(* ended, for every number of screens, changes and requests on their way.  *)
(* The code looks into the map of running requests; NewestInMap says that  *)
(* the request made last is in there until it ends, though others are      *)
(* made, overtaken and ended around it.                                    *)
(***************************************************************************)
EXTENDS CachedView, SequenceTheorems, TLAPS

Request == [by : {"user", "poll"}, read : Nat \cup {None},
            entry : BOOLEAN, young : BOOLEAN, awaited : BOOLEAN]

RequestsOK ==
  /\ server \in Nat
  /\ out \in Seq(Request)
  /\ newestOut \in BOOLEAN

NewestInMap == newestOut => out # <<>> /\ out[Len(out)].entry

IInv == RequestsOK /\ NewestInMap

-----------------------------------------------------------------------------
(* A change of the elements leaves a sequence a sequence of its length.    *)
LEMMA SameLength ==
  ASSUME NEW S, NEW s \in Seq(S), NEW f \in [DOMAIN s -> S]
  PROVE  f \in Seq(S) /\ Len(f) = Len(s)
<1>1. Len(s) \in Nat /\ DOMAIN s = 1..Len(s)
  BY LenProperties
<1>2. f \in [1..Len(s) -> S]
  BY <1>1
<1>3. f \in Seq(S)
  BY <1>1, <1>2, SeqDef
<1>4. DOMAIN f = 1..Len(f) /\ Len(f) \in Nat
  BY <1>3, LenProperties
<1> QED BY <1>1, <1>2, <1>3, <1>4

(* Taking a request out keeps the others, and the last one its place.      *)
LEMMA WithoutOne ==
  ASSUME NEW i \in DOMAIN out, out \in Seq(Request)
  PROVE  /\ Without(i) \in Seq(Request)
         /\ Len(Without(i)) = Len(out) - 1
         /\ i # Len(out) => Without(i)[Len(Without(i))] = out[Len(out)]
<1>0. Len(out) \in Nat /\ i \in 1..Len(out) /\ \A j \in 1..Len(out) : out[j] \in Request
  BY LenProperties, ElementOfSeq
<1> DEFINE front == SubSeq(out, 1, i - 1)
           back == SubSeq(out, i + 1, Len(out))
<1>1. front \in Seq(Request) /\ Len(front) = i - 1
  <2>1. \A j \in 1..i - 1 : out[j] \in Request
    BY <1>0
  <2> QED BY <1>0, <2>1, SubSeqProperties
<1>2. /\ back \in Seq(Request) /\ Len(back) = Len(out) - i
      /\ i # Len(out) => back[Len(out) - i] = out[Len(out)]
  <2>1. \A j \in i + 1..Len(out) : out[j] \in Request
    BY <1>0
  <2>2. /\ back \in Seq(Request)
        /\ Len(back) = IF i + 1 <= Len(out) THEN Len(out) - (i + 1) + 1 ELSE 0
        /\ \A j \in 1..Len(out) - (i + 1) + 1 : back[j] = out[i + 1 + j - 1]
    BY <1>0, <2>1, SubSeqProperties
  <2> HIDE DEF back
  <2>3. i # Len(out) => Len(out) - i \in 1..Len(out) - (i + 1) + 1
    BY <1>0
  <2>4. i # Len(out) => back[Len(out) - i] = out[i + 1 + (Len(out) - i) - 1]
    BY <2>2, <2>3
  <2>5. Len(back) = Len(out) - i
    BY <1>0, <2>2
  <2>6. i + 1 + (Len(out) - i) - 1 = Len(out)
    BY <1>0
  <2> QED BY <2>2, <2>4, <2>5, <2>6, Zenon
<1> HIDE DEF front, back
<1>3. /\ front \o back \in Seq(Request)
      /\ Len(front \o back) = Len(front) + Len(back)
      /\ \A j \in 1..Len(front) + Len(back) : (front \o back)[j] =
            IF j <= Len(front) THEN front[j] ELSE back[j - Len(front)]
  BY <1>1, <1>2, ConcatProperties
<1>4. i # Len(out) => (front \o back)[Len(out) - 1] = out[Len(out)]
  <2>1. i # Len(out) => /\ Len(out) - 1 \in 1..Len(front) + Len(back)
                        /\ ~(Len(out) - 1 <= Len(front))
                        /\ Len(out) - 1 - Len(front) = Len(out) - i
    BY <1>0, <1>1, <1>2
  <2> QED BY <1>2, <1>3, <2>1
<1>5. Len(front \o back) = Len(out) - 1
  BY <1>0, <1>1, <1>2, <1>3
<1>6. Without(i) = front \o back
  BY DEF Without, RemoveAt, front, back
<1> QED BY <1>3, <1>4, <1>5, <1>6, Zenon

(* The newest request, where it was, or nothing on record.                 *)
LEMMA EndedStep ==
  ASSUME IInv, NEW i \in DOMAIN out, Ended(i)
  PROVE  /\ out' \in Seq(Request) /\ newestOut' \in BOOLEAN /\ NewestInMap'
         /\ Len(out') < Len(out)
<1>1. /\ Without(i) \in Seq(Request)
      /\ Len(Without(i)) = Len(out) - 1
      /\ i # Len(out) => Without(i)[Len(Without(i))] = out[Len(out)]
  BY WithoutOne DEF IInv, RequestsOK
<1>2. out' = Without(i) /\ newestOut' = (newestOut /\ i # Len(out))
  BY DEF Ended
<1>3. NewestInMap'
  <2> SUFFICES ASSUME newestOut' PROVE out' # <<>> /\ out'[Len(out')].entry
    BY DEF NewestInMap
  <2>1. newestOut /\ i # Len(out)
    BY <1>2
  <2>2. out[Len(out)].entry /\ Len(out) \in Nat /\ i \in 1..Len(out)
    BY <2>1 DEF IInv, NewestInMap, RequestsOK
  <2>3. Len(out') \in Nat /\ Len(out') # 0
    BY <1>1, <1>2, <2>1, <2>2
  <2> QED BY <1>1, <1>2, <2>1, <2>2, <2>3
<1> QED BY <1>1, <1>2, <1>3 DEF IInv, RequestsOK

(* A request that is made is the newest one and the one in the map.        *)
LEMMA MakeStep ==
  ASSUME NEW requests \in Seq(Request), NEW by \in {"user", "poll"}, Make(requests, by)
  PROVE  /\ out' \in Seq(Request) /\ newestOut' \in BOOLEAN /\ NewestInMap'
         /\ Len(out') = Len(requests) + 1
         /\ out'[Len(out')].by = by
<1> DEFINE others == Each(requests, LAMBDA r : [r EXCEPT !.entry = FALSE])
<1>1. others \in Seq(Request) /\ Len(others) = Len(requests)
  <2>1. others \in [DOMAIN requests -> Request]
    <3>1. \A i \in DOMAIN requests : requests[i] \in Request
      BY LenProperties, ElementOfSeq
    <3> QED BY <3>1 DEF Each, Request
  <2> HIDE DEF others
  <2> QED BY <2>1, SameLength
<1>2. Made(by) \in Request /\ Made(by).entry /\ Made(by).by = by
  BY DEF Made, Request
<1>3. out' = Append(others, Made(by)) /\ newestOut' = TRUE
  BY DEF Make
<1> HIDE DEF others
<1>4. out' \in Seq(Request) /\ Len(out') = Len(others) + 1 /\ out'[Len(out')] = Made(by)
  BY <1>1, <1>2, <1>3
<1> QED BY <1>1, <1>2, <1>3, <1>4 DEF NewestInMap

(* Changing what else is known of the requests leaves them in the map.     *)
LEMMA RefreshStep ==
  ASSUME NEW requests \in Seq(Request), RequestsOK,
         newestOut => requests # <<>> /\ requests[Len(requests)].entry,
         Refresh(requests)
  PROVE  /\ out' \in Seq(Request) /\ newestOut' \in BOOLEAN /\ NewestInMap'
         /\ \/ Len(out') = Len(requests)
            \/ Len(out') = Len(requests) + 1 /\ out'[Len(out')].by = "user"
<1>1. CASE \E i \in Pending : requests[i].young
  <2>1. /\ out' = Each(requests, LAMBDA r : [r EXCEPT !.awaited = @ \/ r.entry])
        /\ newestOut' = newestOut
    BY <1>1 DEF Refresh
  <2>2. /\ out' \in Seq(Request) /\ Len(out') = Len(requests)
        /\ \A i \in 1..Len(requests) : out'[i].entry = requests[i].entry
    <3>1. \A i \in DOMAIN requests : requests[i] \in Request
      BY LenProperties, ElementOfSeq
    <3>2. /\ out' \in [DOMAIN requests -> Request]
          /\ \A i \in DOMAIN requests : out'[i].entry = requests[i].entry
      BY <2>1, <3>1 DEF Each, Request
    <3> QED BY <3>2, SameLength, LenProperties
  <2>3. Len(requests) \in Nat /\ (requests # <<>> => Len(requests) \in 1..Len(requests))
    OBVIOUS
  <2> QED BY <2>1, <2>2, <2>3 DEF NewestInMap, RequestsOK
<1>2. CASE ~ \E i \in Pending : requests[i].young
  <2>1. Make(requests, "user")
    BY <1>2 DEF Refresh
  <2> QED BY <2>1, MakeStep
<1> QED BY <1>1, <1>2

(* The requests when the screen that waited for them is gone.              *)
LEMMA NotAwaited ==
  ASSUME RequestsOK, NEW requests,
         requests = Each(out, LAMBDA r : [r EXCEPT !.awaited = FALSE])
  PROVE  /\ requests \in Seq(Request)
         /\ Len(requests) = Len(out)
         /\ \A i \in 1..Len(out) : requests[i].entry = out[i].entry
<1>1. \A i \in DOMAIN out : out[i] \in Request
  BY LenProperties, ElementOfSeq DEF RequestsOK
<1>2. /\ requests \in [DOMAIN out -> Request]
      /\ \A i \in DOMAIN out : requests[i].entry = out[i].entry
  BY <1>1 DEF Each, Request
<1> QED BY <1>2, SameLength, LenProperties DEF RequestsOK

(* One field of one request changes, and not that it is in the map.        *)
LEMMA OneChanged ==
  ASSUME IInv, NEW i \in DOMAIN out, NEW r \in Request, r.entry = out[i].entry,
         out' = [out EXCEPT ![i] = r], newestOut' = newestOut
  PROVE  out' \in Seq(Request) /\ newestOut' \in BOOLEAN /\ NewestInMap' /\ Len(out') = Len(out)
<1>1. out' \in Seq(Request) /\ Len(out') = Len(out)
  BY DEF IInv, RequestsOK
<1>2. \A j \in DOMAIN out : out'[j].entry = out[j].entry
  BY DEF IInv, RequestsOK
<1>3. out # <<>> => Len(out) \in DOMAIN out
  BY DEF IInv, RequestsOK
<1> QED BY <1>1, <1>2, <1>3 DEF IInv, RequestsOK, NewestInMap

-----------------------------------------------------------------------------
(* What a step does to the requests: it keeps the invariant, and where it  *)
(* makes one for a timer, the one made last has ended.                     *)
QueueKept ==
  Len(out') > Len(out) /\ out'[Len(out')].by = "poll" => ~newestOut

LEMMA InitOK == Init => IInv
<1> SUFFICES ASSUME Init PROVE IInv
  OBVIOUS
<1>1. out \in Seq(Request)
  BY EmptySeq, Zenon DEF Init
<1>2. server \in Nat /\ newestOut = FALSE
  BY DEF Init
<1> QED BY <1>1, <1>2 DEF IInv, RequestsOK, NewestInMap

LEMMA StepOK ==
  ASSUME IInv, [Next]_vars
  PROVE  IInv' /\ QueueKept
<1> USE ViewAssumption
<1>0. out \in Seq(Request) /\ Len(out) \in Nat /\ server \in Nat
  BY DEF IInv, RequestsOK
<1>1. ASSUME NEW s \in Screens, Opens(s) PROVE IInv' /\ QueueKept
  <2> DEFINE requests == Each(out, LAMBDA r : [r EXCEPT !.awaited = FALSE])
  <2>1. /\ requests \in Seq(Request) /\ Len(requests) = Len(out)
        /\ \A i \in 1..Len(out) : requests[i].entry = out[i].entry
    BY NotAwaited DEF IInv
  <2>2. Refresh(requests) /\ server' = server
    BY <1>1 DEF Opens
  <2> HIDE DEF requests
  <2>3. newestOut => requests # <<>> /\ requests[Len(requests)].entry
    BY <1>0, <2>1 DEF IInv, NewestInMap
  <2>4. /\ out' \in Seq(Request) /\ newestOut' \in BOOLEAN /\ NewestInMap'
        /\ \/ Len(out') = Len(requests)
           \/ Len(out') = Len(requests) + 1 /\ out'[Len(out')].by = "user"
    BY <2>1, <2>2, <2>3, RefreshStep DEF IInv
  <2> QED BY <1>0, <2>1, <2>2, <2>4 DEF IInv, RequestsOK, QueueKept
<1>2. CASE Leaves
  <2>1. /\ out' \in Seq(Request) /\ Len(out') = Len(out)
        /\ \A i \in 1..Len(out) : out'[i].entry = out[i].entry
        /\ newestOut' = newestOut /\ server' = server
    BY <1>2, NotAwaited DEF Leaves, IInv
  <2> QED BY <1>0, <2>1 DEF IInv, RequestsOK, NewestInMap, QueueKept
<1>3. CASE Acted
  <2>1. Refresh(out) /\ server' = server
    BY <1>3 DEF Acted
  <2>2. /\ out' \in Seq(Request) /\ newestOut' \in BOOLEAN /\ NewestInMap'
        /\ \/ Len(out') = Len(out)
           \/ Len(out') = Len(out) + 1 /\ out'[Len(out')].by = "user"
    BY <1>0, <2>1, RefreshStep DEF IInv, NewestInMap
  <2> QED BY <1>0, <2>1, <2>2 DEF IInv, RequestsOK, QueueKept
<1>4. CASE Poll
  <2>1. Make(out, "poll") /\ server' = server /\ Pending = {}
    BY <1>4 DEF Poll
  <2>2. ~newestOut
    BY <1>0, <2>1 DEF IInv, NewestInMap, Pending
  <2>3. out' \in Seq(Request) /\ newestOut' \in BOOLEAN /\ NewestInMap'
    BY <1>0, <2>1, MakeStep
  <2> QED BY <1>0, <2>1, <2>2, <2>3 DEF IInv, RequestsOK, QueueKept
<1>5. CASE ServiceChanges
  BY <1>5 DEF ServiceChanges, shown, IInv, RequestsOK, NewestInMap, QueueKept
<1>6. ASSUME NEW i \in DOMAIN out, Ages(i) PROVE IInv' /\ QueueKept
  <2>0. out[i] \in Request
    BY <1>0, ElementOfSeq, LenProperties
  <2>1. /\ [out[i] EXCEPT !.young = FALSE] \in Request
        /\ [out[i] EXCEPT !.young = FALSE].entry = out[i].entry
    BY <1>0, <2>0 DEF Request
  <2>3. /\ out' = [out EXCEPT ![i] = [out[i] EXCEPT !.young = FALSE]]
        /\ newestOut' = newestOut /\ server' = server
    BY <1>6 DEF Ages
  <2>2. out' \in Seq(Request) /\ newestOut' \in BOOLEAN /\ NewestInMap' /\ Len(out') = Len(out)
    BY <2>1, <2>3, OneChanged
  <2> QED BY <1>0, <2>2, <2>3 DEF IInv, RequestsOK, QueueKept
<1>7. ASSUME NEW i \in DOMAIN out, Read(i) PROVE IInv' /\ QueueKept
  <2>0. out[i] \in Request
    BY <1>0, ElementOfSeq, LenProperties
  <2>1. /\ [out[i] EXCEPT !.read = server] \in Request
        /\ [out[i] EXCEPT !.read = server].entry = out[i].entry
    BY <1>0, <2>0 DEF Request
  <2>3. /\ out' = [out EXCEPT ![i] = [out[i] EXCEPT !.read = server]]
        /\ newestOut' = newestOut /\ server' = server
    BY <1>7 DEF Read
  <2>2. out' \in Seq(Request) /\ newestOut' \in BOOLEAN /\ NewestInMap' /\ Len(out') = Len(out)
    BY <2>1, <2>3, OneChanged
  <2> QED BY <1>0, <2>2, <2>3 DEF IInv, RequestsOK, QueueKept
<1>8. ASSUME NEW i \in DOMAIN out, Answered(i) \/ Failed(i) PROVE IInv' /\ QueueKept
  <2>1. Ended(i) /\ server' = server
    BY <1>8 DEF Answered, Failed
  <2>2. /\ out' \in Seq(Request) /\ newestOut' \in BOOLEAN /\ NewestInMap'
        /\ Len(out') < Len(out)
    BY <2>1, EndedStep
  <2> QED BY <1>0, <2>1, <2>2 DEF IInv, RequestsOK, QueueKept
<1>9. CASE UNCHANGED vars
  BY <1>9 DEF vars, IInv, RequestsOK, NewestInMap, QueueKept
<1> QED BY <1>1, <1>2, <1>3, <1>4, <1>5, <1>6, <1>7, <1>8, <1>9 DEF Next

(* The request made last is in the map of running requests as long as it   *)
(* is on its way (cached.ts, inFlight).                                    *)
THEOREM NewestInMapAlways == Spec => []IInv
<1>1. IInv /\ [Next]_vars => IInv'
  BY StepOK
<1> QED BY InitOK, <1>1, PTL DEF Spec

(* No timer adds to a queue: it asks only when the request made last has   *)
(* ended, whichever requests were overtaken or ended first (cached.ts:     *)
(* 40-43).                                                                 *)
THEOREM PollsDoNotQueueAlways == Spec => PollsDoNotQueue
<1>1. IInv /\ [Next]_vars =>
        [Len(out') > Len(out) /\ out'[Len(out')].by = "poll" => ~newestOut]_vars
  BY StepOK DEF QueueKept
<1> QED BY <1>1, NewestInMapAlways, PTL DEF Spec, PollsDoNotQueue
=============================================================================
