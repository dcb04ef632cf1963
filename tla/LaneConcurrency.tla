--------------------------- MODULE LaneConcurrency ---------------------------
(***************************************************************************)
(* The autoscaler of the physical lane: LaneConcurrencyController          *)
(* (real_worker.py), the row it is persisted to, and the dispatcher that   *)
(* creates it, restores it, samples the lane, asks it for a target and     *)
(* admits streams up to that target (transfer_continuous).                 *)
(*                                                                         *)
(* There is one row and one Raiju process; its dispatchers run one after   *)
(* the other.  Time is counted in sampling windows: a timer is the number  *)
(* of windows it still runs.  A rate is its place among the thresholds     *)
(* the controller compares it with, and whether a finished experiment      *)
(* gained enough is a choice of the environment: medians and noise are     *)
(* not computed.  An object is a unit of a counter, as the controller      *)
(* sees it.  Cooperative handoffs are left out.                            *)
(***************************************************************************)
EXTENDS Integers, Sequences, FiniteSets, TLC

CONSTANTS
    RaijuMin, RaijuMax,   \* RAIJU_MIN_WORKERS, RAIJU_MAX_WORKERS
    Bootstrap,            \* RAIJU_BOOTSTRAP_WORKERS
    Stable,               \* LANE_CONCURRENCY_STABLE_SAMPLES
    Validation,           \* LANE_EXPERIMENT_VALIDATION_SAMPLES
    Settling,             \* LANE_EXPERIMENT_SETTLE_SECONDS, in windows
    Cooldown,             \* LANE_EXPERIMENT_COOLDOWN_SECONDS, in windows
    Reprobe,              \* LANE_GROWTH_REPROBE_SECONDS, in windows
    Capacities,           \* values of RaijuHostCapacity.effective_cap
    Backlog               \* bound: objects READY or LEASED at one time

\* Host pressure lowers the capacity, never below the floor (_raiju_host_capacity).
HostCapacity == RaijuMin..RaijuMax

ASSUME WorkerAssumption == /\ {RaijuMin, RaijuMax, Bootstrap} \subseteq Nat \ {0}
                           /\ RaijuMin <= RaijuMax
                           /\ Capacities \subseteq HostCapacity
ASSUME WindowAssumption == /\ {Stable, Validation} \subseteq Nat \ {0}
                           /\ {Settling, Cooldown, Reprobe, Backlog} \subseteq Nat
                           /\ Cooldown <= Reprobe

VARIABLES
    ctl,        \* the controller in the memory of the dispatcher
    row,        \* RuntimeLaneControlState as the session holds it
    durable,    \* the same row as committed
    pc,         \* the dispatcher: "idle", "waiting" or "settled" (a stream ended)
    streams,    \* the executor slots in which this dispatcher copies an object
    orphans,    \* leases left by a process that died
    ready,      \* objects that can be claimed
    batch       \* worker_target of the latest dispatch batch, 0 before one

vars == <<ctl, row, durable, pc, streams, orphans, ready, batch>>

-----------------------------------------------------------------------------
(* Types *)

Least(m, n) == IF m <= n THEN m ELSE n
Most(m, n)  == IF m >= n THEN m ELSE n

Unset   == -1   \* cooldown_until is NULL; 0: it is set and over
Workers == 0..RaijuMax

\* A sample is under or over .90 of the configured link.  The decision ceiling
\* may be a lower, proven one, of which a window that is under reaches .90.
Level == {"under", "over"}

Gain == {"loss", "small", "enough"}

Controller ==
    [target   : Workers,
     approved : Workers,                          \* approved_target
     floor    : 1..RaijuMin,                      \* minimum_workers
     samples  : UNION {[1..n -> Level] : n \in 0..Stable},
     pending  : BOOLEAN,                          \* a growth baseline is kept
     settle   : 0..Settling,                      \* of a pending experiment
     post     : 0..Validation,                    \* its validation samples
     blocked  : BOOLEAN,                          \* growth_blocked
     cooldown : Unset..Reprobe,
     loss     : BOOLEAN,                          \* last_marginal_gain_mbps < 0
     held     : Unset..(Reprobe + Stable - 1)]  \* history: age of the block in force

Blank == [target |-> 0, approved |-> 0, floor |-> 1, samples |-> <<>>,
          pending |-> FALSE, settle |-> 0, post |-> 0, blocked |-> FALSE,
          cooldown |-> Unset, loss |-> FALSE, held |-> Unset]

\* One window passes.
Aged(c) == [c EXCEPT
    !.settle   = Most(0, c.settle - 1),
    !.cooldown = IF c.cooldown = Unset THEN Unset ELSE Most(0, c.cooldown - 1),
    !.held     = IF c.held = Unset THEN Unset ELSE Least(Reprobe + Stable - 1, c.held + 1)]

-----------------------------------------------------------------------------
(* desired_workers, one operator per stage, in the order of its returns *)

Drained(c) == [c EXCEPT !.target = 0, !.approved = 0, !.pending = FALSE, !.settle = 0,
                        !.post = 0, !.blocked = FALSE, !.held = Unset]

Limit(m) == Least(RaijuMax, Least(m.available, Most(1, m.cap)))

Clamped(c, m) ==
    LET within(n) == Least(Limit(m), Most(Least(c.floor, Limit(m)), n))
    IN  [c EXCEPT !.target = within(c.target), !.approved = within(c.approved)]

\* The lane has fallen below the cohort whose experiment was rejected.
Underfilled(c, m) ==
    c.blocked /\ m.active < Most(Least(c.floor, Limit(m)), Least(c.target, c.approved))

Invalidated(c) ==
    [c EXCEPT !.blocked = FALSE, !.cooldown = Unset, !.pending = FALSE, !.settle = 0,
              !.post = 0, !.samples = <<>>, !.loss = FALSE, !.held = Unset]

Latest(s, n) == IF Len(s) <= n THEN s ELSE SubSeq(s, Len(s) - n + 1, Len(s))

\* Mutant: the samples taken during the long cooldown are kept as evidence.
ObservedAll(c, m) ==
    [c EXCEPT !.samples  = Latest(Append(c.samples, m.level), Stable),
              !.cooldown = IF c.blocked /\ c.cooldown = 0 THEN Unset ELSE c.cooldown]

Observed(c, m) ==
    LET over == c.blocked /\ c.cooldown = 0
    IN  [c EXCEPT
           !.samples  = Latest(Append(IF over THEN <<>> ELSE c.samples, m.level), Stable),
           !.cooldown = IF over THEN Unset ELSE c.cooldown]

\* Mutant: the baseline of a finished experiment is kept.
JudgedOpen(c, m) ==
    IF m.gain = "enough" THEN [c EXCEPT !.approved = c.target, !.cooldown = Cooldown]
    ELSE [c EXCEPT !.blocked = TRUE, !.cooldown = Reprobe, !.held = 0]

Judged(c, m) ==
    LET done == [c EXCEPT !.pending = FALSE, !.settle = 0, !.post = 0, !.loss = (m.gain = "loss")]
    IN  IF m.gain = "enough"
        THEN [done EXCEPT !.approved = c.target, !.cooldown = Cooldown]
        ELSE [done EXCEPT !.blocked = TRUE, !.cooldown = Reprobe, !.held = 0,
                          !.target = IF m.saturated THEN c.target
                                     ELSE Least(c.target, c.approved)]

Validated(c, m) ==
    IF c.settle > 0 THEN c
    ELSE IF c.post + 1 < Validation THEN [c EXCEPT !.post = c.post + 1]
    ELSE Judged(c, m)

FullWindow(c, m) ==
    ~m.proven /\ Len(c.samples) = Stable /\ \A i \in 1..Stable : c.samples[i] = "under"

\* Mutant: growth does not look at the limit of the host.
ProbedUnlimited(c, m) ==
    IF c.cooldown > 0 \/ ~FullWindow(c, m) THEN c
    ELSE [c EXCEPT !.blocked = FALSE, !.held = Unset, !.target = c.target + 1,
                   !.pending = TRUE, !.settle = Settling, !.post = 0]

Probed(c, m) ==
    LET reopened == [c EXCEPT !.blocked = FALSE, !.held = Unset]
    IN  IF c.cooldown > 0 \/ ~FullWindow(c, m) THEN c
        ELSE IF c.target >= Limit(m) THEN reopened
        ELSE [reopened EXCEPT !.target = c.target + 1, !.pending = TRUE,
                              !.settle = Settling, !.post = 0]

Desired(c, m) ==
    LET k == IF Underfilled(Clamped(c, m), m) THEN Invalidated(Clamped(c, m)) ELSE Clamped(c, m)
        s == Observed(k, m)
    IN  CASE m.available = 0      -> Drained(c)
          [] m.available > 0 /\ ~m.fresh -> k
          [] m.available > 0 /\ m.fresh /\ m.active < s.target -> s
          [] m.available > 0 /\ m.fresh /\ m.active >= s.target /\ s.pending -> Validated(s, m)
          [] OTHER -> Probed(s, m)

-----------------------------------------------------------------------------
(* The dispatcher around the controller *)

Slots  == 1..RaijuMax
Leased == Cardinality(streams) + orphans

\* A drained lane is a new capacity epoch.
NewEpoch(r) ==
    IF Leased = 0 /\ r.blocked
    THEN [r EXCEPT !.blocked = FALSE, !.pending = FALSE, !.settle = 0, !.post = 0,
                   !.samples = <<>>, !.cooldown = Unset, !.loss = FALSE, !.held = Unset]
    ELSE r

\* restore, and the assignments of transfer_continuous after it.  left: what
\* remains of a reprobe interval that starts at updated_at.
Restored(r, target, floor, left) ==
    [r EXCEPT !.target = target, !.approved = target, !.floor = floor,
              !.cooldown = IF r.blocked /\ r.cooldown = Unset THEN left
                           ELSE IF ~r.blocked /\ r.loss THEN Unset
                           ELSE r.cooldown]

\* Mutant: a dispatcher starts from the whole host.
BootAtCapacity(available, cap) == Least(RaijuMax, Least(available, cap))

\* _continuous_raiju_worker_count, and the ceiling applied to it.
BootTarget(available, cap) ==
    LET floor    == Least(RaijuMin, available)
        previous == IF batch = 0 THEN floor ELSE batch
        resumed  == Least(previous, Most(floor, Bootstrap))
        chosen   == Most(floor, Least(RaijuMax, Least(available, Least(resumed, cap))))
    IN  Least(chosen, Least(available, cap))

Init ==
    /\ ctl = Blank /\ row = Blank /\ durable = Blank
    /\ pc = "idle"
    /\ streams = {} /\ orphans = 0 /\ batch = 0
    /\ ready \in 0..Backlog

\* The first claim takes n objects; those beyond the target go back.
Dispatch(n, cap, left) ==
    LET r       == NewEpoch(row)
        target  == BootTarget(orphans + ready, cap)
        ceiling == Most(0, target - Most(0, orphans - n))
    IN  /\ pc = "idle" /\ n \in 1..ready
        /\ ~row.blocked => left = 0   \* there is nothing to restart
        /\ pc' = "waiting"
        /\ row' = r /\ durable' = r
        /\ ctl' = Restored(r, target, Most(1, Least(RaijuMin, orphans + ready - n)), left)
        /\ streams' = 1..Least(n, ceiling)
        /\ ready' = ready - Least(n, ceiling)
        /\ batch' = target
        /\ UNCHANGED orphans

DispatchNothing ==
    /\ pc = "idle" /\ ready = 0
    /\ row' = NewEpoch(row) /\ durable' = NewEpoch(row)
    /\ UNCHANGED <<ctl, pc, streams, orphans, ready, batch>>

\* apply_critical_concurrency, and the slots that are filled after it; m is
\* what it measured.
Decide(m) ==
    \E new \in {Desired(IF m.fresh THEN Aged(ctl) ELSE ctl, m)} :
      LET target == Most(0, new.target - orphans)   \* local_target
          room   == IF pc = "waiting" THEN (1..target) \ streams ELSE Slots \ streams
          most   == IF pc = "waiting" THEN ready ELSE Least(ready, target - Cardinality(streams))
      IN  \E filled \in {S \in SUBSET room : S = {} \/ Cardinality(S) <= most} :
            /\ ctl' = new /\ row' = new
            \* After a settlement nothing commits the row unless a slot is filled.
            /\ durable' = IF pc = "waiting" \/ filled # {} THEN new
                          ELSE IF m.fresh THEN Aged(durable) ELSE durable
            /\ pc' = "waiting"
            /\ streams' = streams \cup filled /\ ready' = ready - Cardinality(filled)
            /\ batch' = IF filled # {} THEN new.target ELSE batch
            /\ UNCHANGED orphans

\* The gain is that of the experiment under way.
Lane(cap, fresh, level, proven, gain, saturated) ==
    [available |-> Leased + ready, active |-> Leased, cap |-> cap, fresh |-> fresh,
     level |-> level, proven |-> proven, gain |-> gain, saturated |-> saturated]

Heartbeat(cap) == pc # "idle" /\ Decide(Lane(cap, FALSE, "under", FALSE, "small", FALSE))

\* The lane is sampled over the streams that are at work.
Measure(cap, level, proven, gain, saturated) ==
    LET judging == ctl.pending /\ ctl.settle <= 1 /\ ctl.post + 1 >= Validation
    IN  /\ pc # "idle" /\ streams # {}
        \* What is not looked at has one value.
        /\ ~judging => gain = "small"
        /\ saturated => judging /\ gain # "enough"
        /\ proven => ~ctl.pending
        /\ Decide(Lane(cap, TRUE, level, proven, gain, saturated))

\* A stream ends: delivered, or returned for another try.
Settle ==
    /\ pc # "idle"
    /\ \E s \in streams : streams' = streams \ {s}
    /\ ready' \in {ready, ready + 1}
    /\ durable' = row
    /\ pc' = "settled"
    /\ UNCHANGED <<ctl, row, orphans, batch>>

Idle == pc' = "idle" /\ ctl' = Blank /\ streams' = {}

\* The dispatcher ends when its last stream has; a shutdown skips the decision.
Finish ==
    /\ pc # "idle" /\ streams = {}
    /\ durable' = row
    /\ Idle
    /\ UNCHANGED <<row, orphans, ready, batch>>

\* The process dies: its leases stay, what it had not committed is gone.
Death ==
    /\ pc # "idle"
    /\ row' = durable
    /\ orphans' = Leased
    /\ Idle
    /\ UNCHANGED <<durable, ready, batch>>

\* recover_expired_continuous_item_leases
Lapse ==
    /\ orphans > 0
    /\ ready' = ready + orphans /\ orphans' = 0
    /\ UNCHANGED <<ctl, row, durable, pc, streams, batch>>

\* Sei, or another source, makes an object eligible.
Arrive ==
    /\ Leased + ready < Backlog
    /\ ready' = ready + 1
    /\ UNCHANGED <<ctl, row, durable, pc, streams, orphans, batch>>

\* A window passes without a usable sample.
Wait ==
    /\ ctl' = Aged(ctl) /\ row' = Aged(row) /\ durable' = Aged(durable)
    /\ UNCHANGED <<pc, streams, orphans, ready, batch>>

Next ==
    \/ \E n \in 1..Backlog, cap \in Capacities, left \in 0..Reprobe :
          Dispatch(n, cap, left)
    \/ DispatchNothing
    \/ \E cap \in Capacities :
          \/ Heartbeat(cap)
          \/ \E level \in Level, proven \in BOOLEAN, gain \in Gain, saturated \in BOOLEAN :
                Measure(cap, level, proven, gain, saturated)
    \/ Settle \/ Finish \/ Death \/ Lapse \/ Arrive \/ Wait

Spec == Init /\ [][Next]_vars

-----------------------------------------------------------------------------
(* Properties *)

\* The controller, its row and the leases have their types, no dispatcher is
\* asked for more objects than there are, and only a block that is in force
\* has an age (LaneConcurrencyController, RuntimeLaneControlState).
TypeOK ==
    /\ {ctl, row, durable} \subseteq Controller
    /\ pc \in {"idle", "waiting", "settled"}
    /\ streams \subseteq Slots
    /\ {orphans, ready} \subseteq Nat /\ Leased + ready <= Backlog
    /\ batch \in Workers
    /\ pc = "idle" => streams = {} /\ ctl = Blank
    /\ \A r \in {ctl, row, durable} : r.blocked <=> r.held # Unset

\* "Run one durable, serial capacity experiment at a time": no memory of the
\* controller, volatile, written or committed, holds an experiment together
\* with a block or a timer that should keep it from being open, whatever
\* restart or lost commit it went through.
ExperimentIsSerial ==
    \A r \in {ctl, row, durable} :
        r.pending => ~r.blocked /\ r.cooldown <= 0 /\ r.post < Validation

\* A rejected experiment stops growth for the whole reprobe interval and a full
\* sequence of fresh samples after it, across restarts and lost commits, unless
\* the lane drained or fell below the cohort that produced the rejection.
BlockIsServed ==
    [][LET memory == IF pc = "idle" THEN row ELSE ctl
       IN  memory.blocked /\ pc' # "idle" /\ ~ctl'.blocked =>
             \/ Leased = 0
             \/ pc # "idle" /\ Leased < Most(ctl.floor, Least(ctl.target, ctl.approved))
             \/ memory.held + 1 >= Reprobe + Stable - 1]_vars

\* A dispatcher never starts above the last target that was used to admit work
\* and a running one asks for one more stream at a time, with a full cohort,
\* after a window of which no sample reached the scale-up threshold.
GrowthIsMeasured ==
    [][pc' # "idle" =>
         IF pc = "idle"
         THEN ctl'.target <= Most(RaijuMin, batch)
         ELSE ctl'.target > Most(ctl.target, ctl.floor) =>
                /\ ctl'.target = ctl.target + 1 /\ ctl'.pending
                /\ Leased >= ctl.target
                /\ Len(ctl'.samples) = Stable
                /\ \A i \in 1..Stable : ctl'.samples[i] = "under"]_vars
=============================================================================
