------------------------------ MODULE MCSpend -------------------------------
(* Instances of the spending figures: days of one billing bucket of two    *)
(* units, months of two days.  Rates are even, so that half a bucket has a *)
(* whole price.                                                            *)
EXTENDS SpendProperties, TLC

RateOf == [p \in Pods \cup Foreign |-> 4 * p]

Alike == Permutations(Readers)

(* A zone, and one whose days begin in the middle of a bucket. *)
OffsetOf == [utc |-> [u \in Int |-> 0], ahead |-> [u \in Int |-> 1]]
=============================================================================
