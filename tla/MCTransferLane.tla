--------------------------- MODULE MCTransferLane ---------------------------
(* Instances of TransferLane for TLC. *)
EXTENDS TransferLane, TLC

CONSTANTS w1, w2, a, b, r1, r2

\* Two objects, in two waves or in one.
WaveOfTwo == [o \in {a, b} |-> IF o = a THEN w1 ELSE w2]
WaveOfOne == [o \in {a, b} |-> w1]

\* The objects of w1 are released one by one, those of w2 together.
MixedInit == Init /\ db.eager = {w1}

\* Copies that never expire.
Lapses == \E o \in Objs : LeaseLapses(o)

\* The lane under an operator, with process death but no orderly stop.
OperatorSpec == MixedInit /\ [][Raiju \/ Crash \/ Lapses \/ Control \/ Operator]_vars

\* The lane under transient faults while waves are paused and resumed: with
\* copies that never expire, delivery is the only end of a restored object.
LiveSpec ==
    /\ MixedInit
    /\ [][\/ Raiju \/ Crash \/ Lapses \/ Control
          \/ \E w \in Waves : PauseWave(w) \/ ResumeWave(w)]_vars
    /\ Fairness

SlotSymmetry == Permutations(Slots)
=============================================================================
