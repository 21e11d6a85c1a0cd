---------------------------- MODULE PodAllotment ----------------------------
(***************************************************************************)
(* What the pod manager promises, without how: pods are allotted to        *)
(* templates one at a time, a template has at most one, and no pod is      *)
(* allotted unless fewer than Limit are.  A pod whose template has been    *)
(* deleted serves Nobody and still counts.                                 *)
(***************************************************************************)
EXTENDS Integers, FiniteSets

CONSTANTS Pods, Templates, Nobody, Limit

VARIABLES
  serving,    \* the pods allotted
  serves      \* the template each of them serves

Init ==
  /\ serving = {}
  /\ serves = [p \in Pods |-> Nobody]

Grant(p, t) ==
  /\ p \notin serving
  /\ Cardinality(serving) < Limit
  /\ t # Nobody => \A q \in serving : serves[q] # t
  /\ serving' = serving \cup {p}
  /\ serves' = [serves EXCEPT ![p] = t]

Release(p) ==
  /\ p \in serving
  /\ serving' = serving \ {p}
  /\ serves' = [serves EXCEPT ![p] = Nobody]

Next ==
  \E p \in Pods :
    \/ \E t \in Templates \cup {Nobody} : Grant(p, t)
    \/ Release(p)

Spec == Init /\ [][Next]_<<serving, serves>>
=============================================================================
