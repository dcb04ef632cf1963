------------------------------ MODULE Delivery ------------------------------
(***************************************************************************)
(* What the transfer lane promises, without queue, tasks, leases, process  *)
(* or clock: objects are copied, each by one stream at a time, a delivery  *)
(* is the act of such a stream and is final, and the accounts kept of it   *)
(* by other transactions (settled items, completed waves) name delivered   *)
(* objects only.  TransferLane implements it (LaneDelivers).               *)
(***************************************************************************)
CONSTANTS Waves, Objs, WaveOf

VARIABLES
    copying,    \* the objects that a stream copies
    delivered,  \* the objects recorded as being in OCI
    settled,    \* the objects whose queue item says so
    complete    \* the waves shown as complete

vars == <<copying, delivered, settled, complete>>

Init == copying = {} /\ delivered = {} /\ settled = {} /\ complete = {}

Start(o) ==
    /\ o \notin copying \cup delivered
    /\ copying' = copying \cup {o}
    /\ UNCHANGED <<delivered, settled, complete>>

Deliver(o) ==
    /\ o \in copying \ delivered
    /\ copying' = copying \ {o}
    /\ delivered' = delivered \cup {o}
    /\ UNCHANGED <<settled, complete>>

\* A stream fails, or the process dies with all of its streams.
Abandon ==
    /\ copying' \subseteq copying
    /\ UNCHANGED <<delivered, settled, complete>>

Account ==
    /\ settled' \subseteq delivered
    /\ complete' \subseteq {w \in Waves : \A o \in Objs : WaveOf[o] = w => o \in delivered}
    /\ UNCHANGED <<copying, delivered>>

Next == (\E o \in Objs : Start(o) \/ Deliver(o)) \/ Abandon \/ Account

Spec == Init /\ [][Next]_vars
=============================================================================
