------------------------------- MODULE RunPod -------------------------------
(***************************************************************************)
(* RunPod as the launcher's client sees it: what an API call may do to a   *)
(* pod and answer.  RunPod itself is outside this repository; the outcomes *)
(* are those runpod/client.ts and pods/manager.ts tell apart.              *)
(***************************************************************************)

(* "none": the id is not handed out yet; "running": the container runs;    *)
(* "hollow": it runs with zero GPUs; "exited": paused, stopped or failed,  *)
(* the disk still billed; "gone": terminated.                              *)
PodStates == {"none", "running", "hollow", "exited", "gone"}

(* States in which RunPod lists a pod, and bills something for it. *)
Listed == {"running", "hollow", "exited"}

(* Mutant: RunPod's own word. *)
StatusAsIs(state) == state

(* The status getPod reports, in the terms of the pods table. *)
StatusOf(state) == IF state \in {"running", "hollow"} THEN "RUNNING" ELSE "EXITED"

(* "redundant" is status 409, "absent" is 404, "noHost" the host GPU being *)
(* unavailable, "failed" any other error, a lost answer included.          *)
Answers == {"ok", "hollow", "noHost", "redundant", "absent", "failed"}

(* Mutant: any refusal is agreement. *)
BenignRefusals == Answers

(* The answers act() takes for what the caller wanted. *)
Benign == {"ok", "redundant", "absent"}

(* A call that works, or is refused for what the pod already is. *)
Performed(action, before, answer, after) ==
  \/ /\ action = "stop"
     /\ before \in {"running", "hollow"}
     /\ answer = "ok"
     /\ after = "exited"
  \/ /\ action = "stop"
     /\ before = "exited"
     /\ answer = "redundant"
     /\ after = before
  \/ /\ action = "terminate"
     /\ before \in Listed
     /\ answer = "ok"
     /\ after = "gone"
  \/ /\ action = "start"
     /\ before = "exited"
     /\ \/ answer = "ok" /\ after = "running"
        \/ answer = "hollow" /\ after = "hollow"
        \/ answer = "noHost" /\ after = before
  \/ /\ action = "start"
     /\ before \in {"running", "hollow"}
     /\ answer = "redundant"
     /\ after = before
  \/ /\ before = "gone"
     /\ answer = "absent"
     /\ after = before

(* A call that fails, or works and loses its answer on the way. *)
Failed(action, before, answer, after) ==
  /\ answer = "failed"
  /\ \/ after = before
     \/ /\ action = "stop"
        /\ before \in {"running", "hollow"}
        /\ after = "exited"
     \/ /\ action = "terminate"
        /\ before \in Listed
        /\ after = "gone"
     \/ /\ action = "start"
        /\ before = "exited"
        /\ after = "running"
=============================================================================
