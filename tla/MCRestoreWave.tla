--------------------------- MODULE MCRestoreWave ---------------------------
(* Instances of RestoreWave for TLC. *)
EXTENDS RestoreWave

CONSTANTS a, b, s

=============================================================================
