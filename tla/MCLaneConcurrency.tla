------------------------- MODULE MCLaneConcurrency -------------------------
(* Instances of LaneConcurrency for TLC. *)
EXTENDS LaneConcurrency

=============================================================================
