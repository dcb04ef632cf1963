----------------------------- MODULE ObjectCopy -----------------------------
(***************************************************************************)
(* The copy of one object as the transfer lane sees it: a stream starts,   *)
(* the object appears in OCI at once and whole, and then the row says      *)
(* TRANSFERRED; or the stream ends early and a later one starts again.     *)
(* What OCI holds is never replaced by less.  MultipartUpload implements   *)
(* it (CopyIsAtomic).                                                      *)
(***************************************************************************)
VARIABLES
    row,      \* the state of the object
    copying,  \* a stream copies it
    whole     \* OCI holds every byte of it

vars == <<row, copying, whole>>

Init == row = "RESTORED" /\ copying = FALSE /\ whole = FALSE

Start ==
    /\ ~copying /\ row \in {"RESTORED", "TRANSFERRING"}
    /\ copying' = TRUE /\ row' = "TRANSFERRING"
    /\ UNCHANGED whole

Arrive ==
    /\ copying
    /\ whole' = TRUE
    /\ UNCHANGED <<row, copying>>

Deliver ==
    /\ copying /\ whole
    /\ copying' = FALSE /\ row' = "TRANSFERRED"
    /\ UNCHANGED whole

Fail ==
    /\ copying
    /\ copying' = FALSE
    /\ UNCHANGED <<row, whole>>

\* A deep audit refuses it and its wave is reprocessed.
Again ==
    /\ ~copying /\ row = "TRANSFERRED"
    /\ row' = "RESTORED"
    /\ UNCHANGED <<copying, whole>>

Next == Start \/ Arrive \/ Deliver \/ Fail \/ Again

Spec == Init /\ [][Next]_vars
=============================================================================
