-------------------------- MODULE MCMultipartUpload --------------------------
(* Instances of MultipartUpload for TLC. *)
EXTENDS MultipartUpload, TLC

CONSTANTS u1, u2
=============================================================================
