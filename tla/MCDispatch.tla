----------------------------- MODULE MCDispatch -----------------------------
(* Small instances of Dispatch.  An attempt has one id for its worker and   *)
(* its session row, so attempts are interchangeable.                        *)
EXTENDS Dispatch, TLC

CONSTANTS p1, t1, t2, a1, a2, a3

OnePlan   == [t \in Task |-> p1]
NoDeps    == [t \in Task |-> {}]
OwnOutput == [t \in Task |-> {t}]
OneProject == [p \in Plan |-> "project"]
SameId    == [w \in Worker |-> w]

AttemptSymmetry == Permutations(Worker)
=============================================================================
