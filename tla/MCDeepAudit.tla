----------------------------- MODULE MCDeepAudit -----------------------------
(* Instances of DeepAudit for TLC. *)
EXTENDS DeepAudit, TLC

CONSTANTS w1, w2, a, b, c

\* Three objects in two waves.
WaveOfThree == [o \in {a, b, c} |-> IF o = b THEN w2 ELSE w1]
=============================================================================
