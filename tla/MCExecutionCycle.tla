-------------------------- MODULE MCExecutionCycle --------------------------
(* Small instances of ExecutionCycle for TLC. *)
EXTENDS ExecutionCycle, TLC

CONSTANTS soxl, soxx, boxx

RiskFirst == <<soxl, boxx>>
SweepCheap == [s \in Symbol |-> IF s = Sweep THEN 1 ELSE 2]
ThreeToOne == [s \in Symbol |-> IF s = Sweep THEN 1 ELSE 3]

Values(a, b) == soxl :> a @@ boxx :> b
Retargets == {Values(a, b) : a \in {0, 2, 4}, b \in {0, 2}}
\* Of two shares held at 3, 5 gives up none and half of 5 one; 7 misses less than half a share more.
OddTargets == {Values(0, 0), Values(5, 0), Values(5, 2), Values(7, 0)}
HoldsBoth == Values(1, 2)
HoldsTwo == Values(2, 2)
HoldsRisk == [s \in Symbol |-> IF s = soxl THEN 2 ELSE IF s = Sweep THEN 0 ELSE 1]
MinusOne == -1
=============================================================================
