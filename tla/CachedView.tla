----------------------------- MODULE CachedView -----------------------------
(***************************************************************************)
(* What the screens of the desktop show of one thing the service knows     *)
(* (lib/cached.ts, useCached), such as the list of pods: the last value is *)
(* kept apart from the screens, a screen that opens shows it at once and   *)
(* asks anew, as it does after every action and on a timer.  One screen is *)
(* open at a time (App.tsx).  Requests overtake each other, fail, and      *)
(* outlive the screen that made them.                                      *)
(***************************************************************************)
EXTENDS Naturals, Sequences, SequencesExt

CONSTANTS
  Screens,       \* screens that show the value
  None,          \* no screen, no value, not read yet
  MaxChanges,    \* bound: changes at the service
  MaxOut         \* bound: requests on their way at once

ASSUME ViewAssumption == None \notin Screens /\ MaxChanges \in Nat /\ MaxOut \in Nat \ {0}

VARIABLES
  server,     \* what the service would answer now: the number of the last change
  values,     \* the value kept for the key
  screen,     \* the open screen
  data,       \* what it shows
  failed,     \* whether it shows an error
  out,        \* requests on their way, in the order they were made
  newestOut   \* history: whether the request made last is on its way

vars == <<server, values, screen, data, failed, out, newestOut>>
shown == <<values, screen, data, failed>>

(* entry: it is the one in the inFlight map, young: not longer than        *)
(* SHARE_WINDOW_MS; awaited: the open screen goes on when it is answered.  *)
Made(by) == [by |-> by, read |-> None, entry |-> TRUE, young |-> TRUE, awaited |-> TRUE]

Init ==
  /\ server = 0
  /\ values = None
  /\ screen = None
  /\ data = None
  /\ failed = FALSE
  /\ out = <<>>
  /\ newestOut = FALSE

Pending == {i \in DOMAIN out : out[i].entry}
Each(requests, Changed(_)) == [i \in DOMAIN requests |-> Changed(requests[i])]

(* A request that is made takes the place of the one in the map. *)
Make(requests, by) ==
  /\ Len(requests) < MaxOut
  /\ out' = Append(Each(requests, LAMBDA r : [r EXCEPT !.entry = FALSE]), Made(by))
  /\ newestOut' = TRUE

(* refresh('user'): a request made this instant is shared, no other. *)
Refresh(requests) ==
  /\ IF \E i \in Pending : requests[i].young
       THEN /\ out' = Each(requests, LAMBDA r : [r EXCEPT !.awaited = @ \/ r.entry])
            /\ UNCHANGED newestOut
       ELSE Make(requests, "user")

(* The effect of mounting; the screen before is gone. *)
Opens(s) ==
  /\ screen # s
  /\ screen' = s
  /\ data' = values
  /\ failed' = FALSE
  /\ Refresh(Each(out, LAMBDA r : [r EXCEPT !.awaited = FALSE]))
  /\ UNCHANGED <<server, values>>

(* A screen that does not show the value. *)
Leaves ==
  /\ screen # None
  /\ screen' = None
  /\ out' = Each(out, LAMBDA r : [r EXCEPT !.awaited = FALSE])
  /\ UNCHANGED <<server, values, data, failed, newestOut>>

(* Somebody did something about the value: it is asked for again. *)
Acted ==
  /\ screen # None
  /\ Refresh(out)
  /\ UNCHANGED <<server, shown>>

(* refresh('poll'): nothing is asked while a request is running. *)
Poll ==
  /\ screen # None
  /\ Pending = {}
  /\ Make(out, "poll")
  /\ UNCHANGED <<server, shown>>

Ages(i) ==
  /\ out[i].young
  /\ out' = [out EXCEPT ![i].young = FALSE]
  /\ UNCHANGED <<server, shown, newestOut>>

(* The service reads what it answers with. *)
Read(i) ==
  /\ out[i].read = None
  /\ out' = [out EXCEPT ![i].read = server]
  /\ UNCHANGED <<server, shown, newestOut>>

(* Mutant: whichever request ends, the map is emptied. *)
WithoutAny(i) == Each(RemoveAt(out, i), LAMBDA r : [r EXCEPT !.entry = FALSE])

(* finally: the request leaves the map if it is the one in there. *)
Without(i) == RemoveAt(out, i)

Ended(i) ==
  /\ out' = Without(i)
  /\ newestOut' = (newestOut /\ i # Len(out))

(* Mutant: what a timer asked for is kept and not shown. *)
AnsweredUnseen(i) ==
  /\ out[i].read # None
  /\ Ended(i)
  /\ values' = out[i].read
  /\ data' = IF out[i].awaited /\ out[i].by = "user" THEN out[i].read ELSE data
  /\ failed' = (failed /\ ~out[i].awaited)
  /\ UNCHANGED <<server, screen>>

Answered(i) ==
  /\ out[i].read # None
  /\ Ended(i)
  /\ values' = out[i].read
  /\ data' = IF out[i].awaited THEN out[i].read ELSE data
  /\ failed' = (failed /\ ~out[i].awaited)
  /\ UNCHANGED <<server, screen>>

(* What was shown stays. *)
Failed(i) ==
  /\ Ended(i)
  /\ failed' = (failed \/ out[i].awaited)
  /\ UNCHANGED <<server, values, screen, data>>

ServiceChanges ==
  /\ server < MaxChanges
  /\ server' = server + 1
  /\ UNCHANGED <<shown, out, newestOut>>

OldestRead == out # <<>> /\ Read(1)
OldestEnds == out # <<>> /\ (Answered(1) \/ Failed(1))
OldestAnswered == out # <<>> /\ Answered(1)

Next ==
  \/ \E s \in Screens : Opens(s)
  \/ Leaves \/ Acted \/ Poll \/ ServiceChanges
  \/ \E i \in DOMAIN out : Ages(i) \/ Read(i) \/ Answered(i) \/ Failed(i)

Spec == Init /\ [][Next]_vars

(* The timer goes on firing, every request ends one way or another, and    *)
(* not all of them fail. *)
FairSpec ==
  Spec /\ WF_vars(Poll) /\ WF_vars(OldestEnds) /\ SF_vars(OldestRead) /\ SF_vars(OldestAnswered)

-----------------------------------------------------------------------------
(* When nothing changes any more, the open screen comes to show what the   *)
(* service knows and goes on doing so, whatever was overtaken or failed.   *)
ViewSettles == <>[](screen # None => data = server)

(* A timer asks only when the request made last has ended: no tick adds to *)
(* a queue, whichever requests were overtaken or ended first (cached.ts:   *)
(* 40-43).                                                                 *)
PollsDoNotQueue ==
  [][Len(out') > Len(out) /\ out'[Len(out')].by = "poll" => ~newestOut]_vars

(* Once a screen shows a state it does not go back to an older one: the    *)
(* list would "go on showing the pod as running" (cached.ts:20-22).        *)
ViewNeverGoesBack ==
  [][screen' = screen /\ screen # None /\ data # None => data' >= data]_vars
=============================================================================
