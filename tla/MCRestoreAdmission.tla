------------------------ MODULE MCRestoreAdmission ------------------------
(* Instances of RestoreAdmission for TLC. *)
EXTENDS RestoreAdmission

\* Two sources of one project.
OneProject == <<1, 1>>
LargeAndSmall == <<<<5, 1, 1>>, <<1>>>>
=============================================================================
