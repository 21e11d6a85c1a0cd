------------------------------ MODULE PodTable ------------------------------
(***************************************************************************)
(* The `pods` and `templates` tables of the launcher's database and the    *)
(* queries and updates the pod manager makes on them, as operators on a    *)
(* table value.  A pod id is a number: RunPod hands out ids in the order   *)
(* of creation and rows are inserted in that order too (one start is in    *)
(* flight at a time), so ORDER BY created_at is the order of the ids.      *)
(*                                                                         *)
(* What is abstracted: PROVISIONING, STARTING and RUNNING are "RUNNING"    *)
(* and EXITED, ERROR and TERMINATED are "EXITED", the only distinction the *)
(* queries here make; costs, keys, timestamps and stop reasons are left    *)
(* out, a timestamp being modelled by whether it is set.                   *)
(***************************************************************************)
EXTENDS Integers, FiniteSets

CONSTANTS
  Templates,    \* ids of the templates that may exist
  NoTemplate,   \* the NULL of pods.template_id
  MaxPods,      \* bound: pods created in one behaviour
  Args,         \* the engine arguments a template can be saved with
  NoArgs,       \* the arguments of a pod that has no record
  Configs,      \* what a template can be saved as: its arguments and mode
  NoConfig      \* a template that is not in the table

ASSUME TablesAssumption ==
  /\ NoTemplate \notin Templates
  /\ NoArgs \notin Args
  /\ MaxPods \in Nat
  /\ Configs \subseteq [args : Args, mode : {"stopResume", "recreate"}]
  /\ NoConfig \notin Configs

Pods == 1..MaxPods

(* Who asked for a start: a person, a client request or the schedule. *)
Origins == {"user", "client", "scheduler"}

(* A row of the pods table; a pod without one has the blank row. *)
Row == [recorded   : BOOLEAN,
        template   : Templates \cup {NoTemplate},
        status     : {"RUNNING", "EXITED"},
        stopped    : BOOLEAN,
        terminated : BOOLEAN,
        by         : Origins,
        args       : Args \cup {NoArgs}]

Blank == [recorded |-> FALSE, template |-> NoTemplate, status |-> "EXITED",
          stopped |-> FALSE, terminated |-> FALSE, by |-> "user", args |-> NoArgs]

(* The pods the launcher considers live. *)
RunningPods(rows) ==
  {p \in Pods : /\ rows[p].recorded
                /\ ~rows[p].stopped
                /\ rows[p].status = "RUNNING"}

(* The live pods of one template; the code takes the newest. *)
RunningFor(rows, t) == {p \in RunningPods(rows) : rows[p].template = t}

(* Mutant: a pod that a poll found down can be woken too. *)
AnyDown(rows, t) ==
  {p \in Pods : /\ rows[p].recorded
                /\ rows[p].template = t
                /\ rows[p].status = "EXITED"
                /\ ~rows[p].terminated}

(* The pod a template could be woken from, if there is one: the newest     *)
(* that is stopped and not given up.                                       *)
Resumable(rows, t) ==
  LET paused == {p \in Pods : /\ rows[p].recorded
                              /\ rows[p].template = t
                              /\ rows[p].stopped
                              /\ ~rows[p].terminated}
  IN  {p \in paused : \A q \in paused : q <= p}

(* UPDATE pods SET stopped_at, status = 'EXITED'. *)
MarkStopped(rows, p) ==
  [rows EXCEPT ![p] = IF @.recorded
                        THEN [@ EXCEPT !.stopped = TRUE, !.status = "EXITED"]
                        ELSE @]

(* The same, and terminated_at. *)
MarkTerminated(rows, p) ==
  [rows EXCEPT ![p] = IF @.recorded
                        THEN [@ EXCEPT !.stopped = TRUE, !.status = "EXITED",
                                       !.terminated = TRUE]
                        ELSE @]

(* Mutant: UPDATE only. *)
Updated(rows, p, t, status, by, config) ==
  [rows EXCEPT ![p] = IF @.recorded
                        THEN [@ EXCEPT !.status = status, !.stopped = FALSE, !.by = by]
                        ELSE @]

(* INSERT ... ON CONFLICT DO UPDATE: a row that exists keeps its template  *)
(* and its terminated_at, and gets the arguments of the template as it is  *)
(* now, when there still is one.                                           *)
Recorded(rows, p, t, status, by, config) ==
  [rows EXCEPT ![p] =
     [recorded   |-> TRUE,
      template   |-> IF @.recorded THEN @.template ELSE t,
      status     |-> status,
      stopped    |-> FALSE,
      terminated |-> @.terminated,
      by         |-> by,
      args       |-> IF config = NoConfig THEN @.args ELSE config.args]]

(* The foreign key of pods.template_id: a new row needs its template. *)
Recordable(rows, p, config) == rows[p].recorded \/ config # NoConfig

(* DELETE FROM templates, with ON DELETE SET NULL on pods.template_id. *)
WithoutTemplate(rows, t) ==
  [p \in Pods |-> IF rows[p].template = t
                    THEN [rows[p] EXCEPT !.template = NoTemplate]
                    ELSE rows[p]]
=============================================================================
