------------------------- MODULE RestoreAdmission -------------------------
(***************************************************************************)
(* The dynamic planner and the admission of restores: how the inventory    *)
(* of a source is cut into waves, how many of them are kept ahead of the   *)
(* lane, how the waves that AWS has not seen are packed again, and when    *)
(* Shin (raikou-shin) queues the charged restore of a wave within the      *)
(* slots of its pipeline and the budget of the host (src/app/main.py, the  *)
(* planner and raikou_governance of src/app/real_worker.py).               *)
(*                                                                         *)
(* Abstractions.  One pipeline per source, all of its objects archived.    *)
(* Sizes are small numbers and times are sizes over a rate.  A date is     *)
(* kept only as what the planner asks of it.  The planned restore of a     *)
(* wave has come (it is due) from the replanning after its creation on,    *)
(* which moves every plan that is not submitted to the present; a shift    *)
(* below the threshold of publication is not kept apart.  The deadline of  *)
(* its submission has come (late) when time passed, or when a replanning   *)
(* moved it to the present: both are Tick.  The restore worker (Sei) and   *)
(* the lane appear by the steps that this planner sees; RestoreWave and    *)
(* TransferLane model them.                                                *)
(***************************************************************************)
EXTENDS Integers, FiniteSets, Sequences, FiniteSetsExt

CONSTANTS
    Runs,            \* pipelines, numbered in the order of their creation
    Project,         \* the project of the source of each pipeline, 0 if none
    Sizes,           \* sizes of the objects of each source, in key order
    MaxWaves,        \* bound: waves ever created
    Rates,           \* rates the lane may be measured at
    ColdRate,        \* the configured rate, used without measurements
    MaxBytes, MaxObjects, TargetSeconds,   \* limits of a wave
    Horizon,         \* dynamic_restore_horizon_waves
    SlotSetting,     \* dynamic_restore_max_slots
    MinBuffer, TargetBuffer, MaxBuffer,    \* continuous_transfer_*_buffer_seconds
    Lead,            \* predicted_restore_first_seconds
    RestoreSeconds, Retention, Reserve,    \* tier window, restore_days, preflight reserve
    MaxUpsets        \* bound: failed restores and requests of the operator

ASSUME RestoreAdmissionAssumption ==
    /\ Runs \subseteq Nat \ {0} /\ IsFiniteSet(Runs)
    /\ Project \in [Runs -> Nat]
    /\ Sizes \in [Runs -> Seq(Nat \ {0})]
    /\ Rates \subseteq Nat \ {0} /\ ColdRate \in Nat \ {0}
    /\ {MaxWaves, MaxBytes, MaxObjects, TargetSeconds, Horizon} \subseteq Nat \ {0}
    /\ {SlotSetting, MinBuffer, TargetBuffer, MaxBuffer, Lead, RestoreSeconds,
        Retention, Reserve, MaxUpsets} \subseteq Nat
    /\ MinBuffer <= TargetBuffer /\ TargetBuffer <= MaxBuffer

VARIABLES
    db,       \* obj, wave, next: inventory and waves; run: status of the pipelines
    rate,     \* the measured rate of the lane of the host, 0 without samples
    fresh,    \* pipelines with an old packing model or enough new samples
    paused,   \* paused projects
    cycle,    \* parity of the cycles of Shin, for the fairness
    upsets    \* counter of the bound

vars == <<db, rate, fresh, paused, cycle, upsets>>

Objs     == UNION {{r} \X (1..Len(Sizes[r])) : r \in Runs}
WaveIds  == 1..MaxWaves
Projects == {Project[r] : r \in Runs} \ {0}
Last     == Max({0} \cup Runs)     \* a pass over the pipelines ends with this number
NoWave   == [run |-> 0, status |-> "NONE", task |-> "NONE",
             late |-> FALSE, executed |-> FALSE]

Active   == {"RESTORE_REQUESTED", "RESTORING"}
Failed   == {"FAILED", "RESTORE_REQUEST_FAILED"}
Statuses == Active \cup Failed \cup
            {"NONE", "RESTORE_SCHEDULED", "RESTORED", "RESTORE_DRAINING",
             "TRANSFER_DRAINING", "COMPLETED"}

Larger(a, b)  == IF a > b THEN a ELSE b
Smaller(a, b) == IF a < b THEN a ELSE b

\* x after Step for 1, ..., n in turn; CHOOSE makes TLC compute each step once.
Sweep(Step(_, _), x, n) ==
    LET it[k \in 0..n] == IF k = 0 THEN x ELSE CHOOSE y \in {Step(z, k) : z \in {it[k - 1]}} : TRUE
    IN  it[n]

WavesOf(d, r)   == {w \in WaveIds : d.wave[w].run = r}
Members(d, w)   == {o \in Objs : d.obj[o].wave = w}
InState(d, S)   == {o \in Objs : d.obj[o].state \in S}
Undiscovered(d, r) == {o \in InState(d, {"DISCOVERED"}) : o[1] = r}
Bytes(S)        == Cardinality(UNION {{o} \X (1..Sizes[o[1]][o[2]]) : o \in S})
Seconds(b)      == LET q == IF rate = 0 THEN ColdRate ELSE rate
                   IN  (b + q - 1) \div q
IsPaused(r)     == Project[r] \in paused

-----------------------------------------------------------------------------
(* Packing *)

\* A slice within the limits of a wave.
Fits(S) == /\ Bytes(S) <= MaxBytes
              /\ Cardinality(S) <= MaxObjects
              /\ Seconds(Bytes(S)) <= TargetSeconds

\* Mutant: an object beyond a limit is left for later.
NextSliceOfFitting(S) ==
    UNION {P \in {{o \in S : o[2] <= p[2]} : p \in S} : Fits(P)}

\* next_dynamic_wave_plan: the longest run of objects in key order that fits;
\* the first object is taken in any case.
NextSlice(S) ==
    UNION {P \in {{o \in S : o[2] <= p[2]} : p \in S} : Cardinality(P) = 1 \/ Fits(P)}

\* dynamic_wave_plan: the preview of all waves in one pass over the objects,
\* the slices closed so far and the open one.
Preview(r, S) ==
    LET step(p, i) ==
          LET o == <<r, i>>
              c == p.closed \cup {p.open}
          IN  IF o \notin S THEN p
              ELSE IF p.open # {} /\ Fits(p.open \cup {o})
                   THEN [p EXCEPT !.open = p.open \cup {o}]
              ELSE IF Bytes({o}) > MaxBytes \/ Seconds(Bytes({o})) > TargetSeconds
                   THEN [closed |-> c \cup {{o}}, open |-> {}]
              ELSE [closed |-> c, open |-> {o}]
        last == Sweep(step, [closed |-> {}, open |-> {}], Len(Sizes[r]))
    IN  (last.closed \cup {last.open}) \ {{}}

\* assign_dynamic_wave_objects.
Assign(d, w, S) ==
    [d EXCEPT !.obj = [o \in Objs |-> IF o \in S THEN [state |-> "WAVE_ASSIGNED", wave |-> w]
                                      ELSE d.obj[o]]]

\* Mutant: the objects keep the wave they leave.
UnassignState(d, W) ==
    [d EXCEPT !.obj = [o \in Objs |-> IF d.obj[o].wave \in W
                                      THEN [d.obj[o] EXCEPT !.state = "DISCOVERED"] ELSE d.obj[o]]]

Unassign(d, W) ==
    [d EXCEPT !.obj = [o \in Objs |-> IF d.obj[o].wave \in W
                                      THEN [state |-> "DISCOVERED", wave |-> 0] ELSE d.obj[o]]]

-----------------------------------------------------------------------------
(* Slots and budget *)

Queued(d, w)   == d.wave[w].status = "RESTORE_SCHEDULED" /\ d.wave[w].task = "SUBMIT"
Occupied(d, r) == {w \in WavesOf(d, r) : d.wave[w].status \in Active \/ Queued(d, w)}
SlotCeiling    == Larger(2, Smaller(4, SlotSetting))
Stock(d, r)    == {o \in InState(d, {"RESTORED"}) : o[1] = r}

\* adaptive_restore_slot_limit: a third slot when the stock of a measured lane,
\* with what its restores still owe, does not outlast one more restore.
SlotLimit(d, r) ==
    LET owed == {o \in InState(d, {"RESTORING"}) :
                    d.obj[o].wave \in {w \in WavesOf(d, r) : d.wave[w].status \in Active}}
        wanted == RestoreSeconds + TargetBuffer
    IN  IF /\ rate # 0
           /\ Retention > wanted
           /\ Seconds(Bytes(Stock(d, r) \cup owed)) < wanted
        THEN Smaller(SlotCeiling, 3) ELSE 2

\* adaptive_global_restore_slot_limit.
GlobalLimit(d) ==
    LET evidence == {SlotLimit(d, r) : r \in {s \in Runs :
                        d.run[s] \notin {"NONE", "COMPLETED", "NEEDS_ATTENTION"} /\ ~IsPaused(s)}}
    IN  Smaller(SlotCeiling, Max({2} \cup evidence))

\* project_restore_admission_allocations: the free slots of the host go round
\* the projects, in the order of their ids, that still have a scheduled wave.
\* The round restarts in each pass: the next slot is for the candidate with
\* the fewest grants and then the least id.
Grants(d) ==
    LET open      == Projects \ paused
        waves(P, S) == {w \in WaveIds : /\ d.wave[w].status \in S
                                        /\ Project[d.wave[w].run] \in P}
        demand    == [p \in open |-> Cardinality(waves({p}, {"RESTORE_SCHEDULED"}))]
        give(g, k) == LET wait == {p \in open : demand[p] > g[p]}
                         next == CHOOSE p \in wait : \A q \in wait :
                                    g[p] < g[q] \/ (g[p] = g[q] /\ p <= q)
                     IN  IF wait = {} THEN g ELSE [g EXCEPT ![next] = g[next] + 1]
    IN  Sweep(give, [p \in open |-> 0], Larger(0, GlobalLimit(d) - Cardinality(waves(open, Active))))

\* global_active_restore_slots, for the sources outside of projects.
FreeSlots(d) ==
    Larger(0, GlobalLimit(d) -
              Cardinality(UNION {Occupied(d, r) : r \in {s \in Runs : ~IsPaused(s)}}))

-----------------------------------------------------------------------------
(* The pipeline *)

\* refresh_dynamic_pipeline_run; IN_PROGRESS is SCHEDULED here.
Refresh(d, r) ==
    LET S == {d.wave[w].status : w \in WavesOf(d, r)}
    IN  [d EXCEPT !.run[r] =
           IF S = {"COMPLETED"}
           THEN IF Undiscovered(d, r) # {} THEN "SCHEDULED" ELSE "COMPLETED"
           ELSE IF d.run[r] = "COMPLETED" THEN "COMPLETED"
           ELSE IF S \cap Failed # {} THEN "NEEDS_ATTENTION" ELSE "SCHEDULED"]

Governed(d, r) == d.run[r] \notin {"NONE", "COMPLETED", "NEEDS_ATTENTION"}

\* Waves that count against the restore horizon.
Ahead(d, r) == {w \in WavesOf(d, r) : d.wave[w].status \in Active \cup {"RESTORE_SCHEDULED"}}

\* materialize_dynamic_pipeline_horizon: create waves up to the horizon.  The
\* first wave of a pipeline is late at once, a later one may be (soon).
Materialize(d, r, soon) ==
    LET slots   == SlotLimit(d, r)
        horizon == IF slots = 2 THEN Horizon ELSE Larger(Horizon, slots + 1)
        add(e, k) == LET S == NextSlice(Undiscovered(e, r))
                       now == soon \/ WavesOf(e, r) = {}
                   IN  IF \/ Cardinality(Ahead(e, r)) >= horizon
                          \/ S = {} \/ e.next > MaxWaves THEN e
                       ELSE Assign([e EXCEPT !.next = e.next + 1,
                                             !.wave[e.next] =
                              [NoWave EXCEPT !.run = r, !.status = "RESTORE_SCHEDULED",
                                             !.late = now]], e.next, S)
        e       == Refresh(d, r)
    IN  IF Governed(e, r) THEN Refresh(Sweep(add, e, horizon), r) ELSE e

\* Mutant: a wave with a queued submission is packed again.
MutableQueued(d, r) ==
    {w \in WavesOf(d, r) : /\ d.wave[w].status = "RESTORE_SCHEDULED"
                           /\ \A o \in Members(d, w) : d.obj[o].state = "WAVE_ASSIGNED"}

\* Waves that AWS has not seen.
Mutable(d, r) ==
    {w \in WavesOf(d, r) : /\ d.wave[w].status = "RESTORE_SCHEDULED"
                           /\ ~Queued(d, w)
                           /\ \A o \in Members(d, w) : d.obj[o].state = "WAVE_ASSIGNED"}

\* repackage_unsubmitted_dynamic_waves: their objects return to the inventory
\* and fill them again in order; a wave for which nothing is left stays empty.
Repack(d, r) ==
    LET M          == Mutable(d, r)
        fill(e, w) == IF w \in M THEN Assign(e, w, NextSlice(Undiscovered(e, r))) ELSE e
    IN  Sweep(fill, Unassign(d, M), MaxWaves)

\* replan_dynamic_pipeline for one pipeline.
ReplanRun(d, r) ==
    LET e == Refresh(d, r)
    IN  IF Governed(e, r) /\ r \in fresh THEN Repack(e, r) ELSE e

\* A pass of Shin skips a pipeline whose project is paused.
Awake(d, r) == r \in Runs /\ ~IsPaused(r) /\ d.run[r] # "NONE"

Replan(d) ==
    Sweep(LAMBDA e, r : IF Awake(e, r) THEN ReplanRun(e, r) ELSE e, d, Last)

\* global_restore_expiry_preflight: would the lane reach this wave in time?
Safe(d, w) ==
    LET ahead == InState(d, {"RESTORED"}) \cup (Members(d, w) \ InState(d, {"TRANSFERRED"}))
    IN  Seconds(Bytes(ahead)) + Reserve < Lead + Retention

\* The submission is queued; its deadline is of no more use.
Queue(d, w) == [d EXCEPT !.wave[w].task = "SUBMIT", !.wave[w].late = FALSE]

\* The submission is queued, takes a slot, and its bytes count as stock from the
\* end of its restore on.
Granted(a, w, post) == [a EXCEPT !.d = Queue(a.d, w), !.occupied = a.occupied + 1,
                                 !.projected = post, !.at = Larger(a.at, Lead)]

\* Mutant: no exemption for a wave above the maximum on an empty lane.
AdmitWithoutSeed(a, w, capacity) ==
    LET d       == a.d
        arrival == Larger(0, a.projected - Larger(0, Lead - a.at))
        post    == arrival + Larger(1, Seconds(Bytes(Members(d, w))))
    IN  IF a.occupied >= capacity \/ d.wave[w].status # "RESTORE_SCHEDULED" THEN a
        ELSE IF post > MaxBuffer THEN [a EXCEPT !.blocked = TRUE]
        ELSE IF (a.blocked /\ arrival >= MinBuffer) \/ Queued(d, w) THEN a
        ELSE Granted(a, w, post)

\* Mutant: the occupied slots are not asked for.
AdmitBeyondSlots(a, w, capacity) ==
    LET d       == a.d
        arrival == Larger(0, a.projected - Larger(0, Lead - a.at))
        post    == arrival + Larger(1, Seconds(Bytes(Members(d, w))))
    IN  IF d.wave[w].status # "RESTORE_SCHEDULED" \/ Queued(d, w) THEN a
        ELSE IF post > MaxBuffer /\ ~(arrival < MinBuffer) THEN [a EXCEPT !.blocked = TRUE]
        ELSE Granted(a, w, post)

\* The decision on one wave: a holds the database, the occupied slots, the
\* projected stock and the time it is projected to, and whether an older wave
\* was blocked by the maximum.  A wave created in this pass (from a.new on)
\* that is not late is not due either.
Admit(a, w, capacity) ==
    LET d       == a.d
        late    == d.wave[w].late
        arrival == Larger(0, a.projected - Larger(0, Lead - a.at))   \* backlog_at_first_file
        post    == arrival + Larger(1, Seconds(Bytes(Members(d, w))))
        hungry  == arrival < MinBuffer
    IN  IF a.occupied >= capacity \/ d.wave[w].status # "RESTORE_SCHEDULED" THEN a
        ELSE IF \/ arrival >= MaxBuffer /\ ~late
                \/ post > MaxBuffer /\ ~(hungry /\ (a.occupied = 0 \/ late))
             THEN [a EXCEPT !.blocked = TRUE]
        ELSE IF \/ a.blocked /\ ~hungry
                \/ w >= a.new /\ arrival >= TargetBuffer /\ ~late
                \/ Queued(d, w)
                \/ ~Safe(d, w) /\ ~hungry /\ ~late
             THEN a
        ELSE Granted(a, w, post)

\* release_dynamic_restore_horizon for one pipeline.  The planned restores of
\* its waves grow with their ids.
ReleaseRun(p, r) ==
    LET d        == Refresh(p.d, r)
        seats    == Cardinality(Occupied(d, r))
        grant    == IF Project[r] \in DOMAIN p.grants THEN p.grants[Project[r]] ELSE p.free
        capacity == Smaller(SlotLimit(d, r), seats + grant)
        empty    == [d |-> d, occupied |-> seats, at |-> 0, blocked |-> FALSE,
                     new |-> db.next, projected |-> Seconds(Bytes(Stock(d, r)))]
        a == Sweep(LAMBDA b, w : IF w \in WavesOf(d, r) THEN Admit(b, w, capacity) ELSE b,
                   empty, MaxWaves)
        used == a.occupied - seats
    IN  IF d.run[r] = "NEEDS_ATTENTION" THEN [p EXCEPT !.d = d]
        ELSE [d      |-> Refresh(a.d, r),
              free   |-> Larger(0, p.free - used),
              grants |-> [q \in DOMAIN p.grants |->
                            IF q = Project[r] THEN Larger(0, p.grants[q] - used) ELSE p.grants[q]]]

Release(d) ==
    Sweep(LAMBDA p, r : IF r \notin Runs \/ IsPaused(r) \/ p.d.run[r] \in {"NONE", "COMPLETED"}
                        THEN p ELSE ReleaseRun(p, r),
          [d |-> d, free |-> FreeSlots(d), grants |-> Grants(d)], Last).d

\* Mutant: the state that all of the objects share is taken for the status.
VerdictOfState(d, w) ==
    LET states == {d.obj[o].state : o \in Members(d, w)}
    IN  IF Cardinality(states) = 1 THEN CHOOSE s \in states : TRUE ELSE d.wave[w].status

\* reconcile_continuous_source_waves, as far as statuses go here.
Verdict(d, w) ==
    LET states == {d.obj[o].state : o \in Members(d, w)}
    IN  IF states \subseteq {"TRANSFERRED"} THEN "COMPLETED"
        ELSE IF "RESTORING" \in states
             THEN IF "RESTORED" \in states THEN "RESTORE_DRAINING" ELSE "RESTORING"
        ELSE IF "RESTORED" \in states THEN "TRANSFER_DRAINING"
        ELSE d.wave[w].status

Reconcile(d) ==
    [d EXCEPT !.wave = [w \in WaveIds |->
        IF d.wave[w].run = 0 \/ IsPaused(d.wave[w].run) THEN d.wave[w]
        ELSE [d.wave[w] EXCEPT !.status = Verdict(d, w)]]]

-----------------------------------------------------------------------------
(* Actions *)

Init ==
    /\ db = [obj  |-> [o \in Objs |-> [state |-> "DISCOVERED", wave |-> 0]],
             wave |-> [w \in WaveIds |-> NoWave],
             next |-> 1,
             run  |-> [r \in Runs |-> "NONE"]]
    /\ rate = 0
    /\ fresh = Runs /\ paused = {} /\ cycle = 0 /\ upsets = 0

Plannable(r) == \E o \in InState(db, {"DISCOVERED", "WAVE_ASSIGNED"}) : o[1] = r

\* One cycle of Shin: reconcile, replan, materialize, release, in one commit.
\* Only a pipeline with objects to plan can create a wave.
Govern ==
    /\ \E soon \in SUBSET {r \in Runs : Plannable(r)} :
         LET plan(e, r) == IF Awake(e, r) THEN Materialize(e, r, r \in soon) ELSE e
         IN  db' = Release(Sweep(plan, Replan(Reconcile(db)), Last))
    /\ fresh' = {r \in fresh : IsPaused(r) \/ ~Governed(db', r)}
    /\ cycle' = 1 - cycle
    /\ UNCHANGED <<rate, paused, upsets>>

\* create_dynamic_waves.
CreatePipeline(r) ==
    /\ db.run[r] = "NONE" /\ Undiscovered(db, r) # {}
    /\ \E soon \in BOOLEAN :
         db' = Replan(Release(Materialize([db EXCEPT !.run[r] = "SCHEDULED"], r, soon)))
    /\ fresh' = {s \in fresh : IsPaused(s) \/ ~Governed(db', s)}
    /\ UNCHANGED <<rate, paused, cycle, upsets>>

\* The calendar of a pipeline places a wave after the earlier ones in the lane:
\* no deadline comes before those of the older waves that wait.
OlderAreDue(w) ==
    \A v \in WavesOf(db, db.wave[w].run) :
        v < w /\ db.wave[v].status = "RESTORE_SCHEDULED" => db.wave[v].late \/ Queued(db, v)

\* The deadline of a submission comes, as time passes or is brought forward.
Tick(w) ==
    /\ db.wave[w].status = "RESTORE_SCHEDULED"
    /\ ~Queued(db, w) /\ ~db.wave[w].late
    /\ OlderAreDue(w)
    /\ db' = [db EXCEPT !.wave[w].late = TRUE]
    /\ UNCHANGED <<rate, fresh, paused, cycle, upsets>>

Claimable(w, kind) == db.wave[w].task = kind /\ ~IsPaused(db.wave[w].run)

SetState(S, state) ==
    [o \in Objs |-> IF o \in S THEN [db.obj[o] EXCEPT !.state = state] ELSE db.obj[o]]

\* submit_restore: the restore of what is assigned is ordered; a wave with
\* nothing to order is restored.
Submit(w) ==
    LET S == Members(db, w) \cap InState(db, {"WAVE_ASSIGNED"})
    IN  /\ Claimable(w, "SUBMIT")
        /\ db' = [db EXCEPT !.obj = SetState(S, "RESTORING"),
                            !.wave[w] = [db.wave[w] EXCEPT !.executed = TRUE,
                               !.status = IF S = {} THEN "RESTORED" ELSE "RESTORE_REQUESTED",
                               !.task   = IF S = {} THEN "NONE" ELSE "POLL"]]
        /\ UNCHANGED <<rate, fresh, paused, cycle, upsets>>

\* poll_restore finds some of the objects available.
Poll(w) ==
    /\ Claimable(w, "POLL")
    /\ LET P == Members(db, w) \cap InState(db, {"RESTORING"})
       IN  \E S \in SUBSET P \ {{}} :
             db' = [db EXCEPT !.obj = SetState(S, "RESTORED"),
                              !.wave[w].status = IF S = P THEN "RESTORED" ELSE "RESTORING",
                              !.wave[w].task   = IF S = P THEN "NONE" ELSE "POLL"]
    /\ UNCHANGED <<rate, fresh, paused, cycle, upsets>>

\* The submission fails for good.
SubmitFails(w) ==
    /\ Claimable(w, "SUBMIT") /\ upsets < MaxUpsets
    /\ db' = [db EXCEPT !.wave[w] = [db.wave[w] EXCEPT !.executed = TRUE,
                                        !.status = "FAILED", !.task = "NONE"]]
    /\ upsets' = upsets + 1
    /\ UNCHANGED <<rate, fresh, paused, cycle>>

\* fail_restore_attempt: AWS ends the Batch job, or reports refused objects;
\* the states of the objects are left as they are.
RestoreFails(w) ==
    /\ Claimable(w, "POLL") /\ upsets < MaxUpsets
    /\ \A o \in Members(db, w) : db.obj[o].state = "RESTORING"
    /\ db' = [db EXCEPT !.wave[w].status = "RESTORE_REQUEST_FAILED", !.wave[w].task = "NONE"]
    /\ upsets' = upsets + 1
    /\ UNCHANGED <<rate, fresh, paused, cycle>>

\* The lane delivers an object and its rate is measured anew.  Samples that
\* leave the rate as it is leave the packing as it is and are not counted.
Transfer(o) ==
    /\ db.obj[o].state = "RESTORED" /\ ~IsPaused(o[1])
    /\ db' = [db EXCEPT !.obj = SetState({o}, "TRANSFERRED")]
    /\ rate' \in Rates
    /\ fresh' = IF rate' = rate THEN fresh ELSE fresh \cup {o[1]}
    /\ UNCHANGED <<paused, cycle, upsets>>

\* A restore that ended without its objects, or was never accepted.
Stuck(w) ==
    \/ db.wave[w].status \in Failed
    \/ /\ db.wave[w].task = "NONE"
       /\ \E o \in Members(db, w) : db.obj[o].state = "RESTORING"

\* reprocess_wave of a pipeline: the unfinished objects wait for a new
\* admission; a live restore task refuses it.
Reprocess(w) ==
    LET S == Members(db, w) \cap InState(db, {"RESTORING", "RESTORED"})
    IN  /\ db.wave[w].task = "NONE" /\ S # {}
        /\ \/ Stuck(w) /\ UNCHANGED upsets
           \/ upsets < MaxUpsets /\ upsets' = upsets + 1
        /\ db' = [db EXCEPT !.obj = SetState(S, "WAVE_ASSIGNED"),
                            !.wave[w].status = "RESTORE_SCHEDULED"]
        /\ UNCHANGED <<rate, fresh, paused, cycle>>

\* delete_wave, before its first task was claimed.
DeleteWave(w) ==
    /\ db.wave[w].run # 0 /\ ~db.wave[w].executed /\ upsets < MaxUpsets
    /\ \A o \in Members(db, w) : db.obj[o].state = "WAVE_ASSIGNED"
    /\ db' = [Unassign(db, {w}) EXCEPT !.wave[w] = NoWave]
    /\ upsets' = upsets + 1
    /\ UNCHANGED <<rate, fresh, paused, cycle>>

PauseProject(p) ==
    /\ p \notin paused /\ upsets < MaxUpsets
    /\ paused' = paused \cup {p} /\ upsets' = upsets + 1
    /\ UNCHANGED <<db, rate, fresh, cycle>>

ResumeProject(p) ==
    /\ p \in paused
    /\ paused' = paused \ {p}
    /\ UNCHANGED <<db, rate, fresh, cycle, upsets>>

Sei  == \E w \in WaveIds : Submit(w) \/ Poll(w)
Fail == \E w \in WaveIds : SubmitFails(w) \/ RestoreFails(w)
Lane == \E o \in Objs : Transfer(o)
Time == \E w \in WaveIds : Tick(w)
Operator == \/ \E w \in WaveIds : Reprocess(w) \/ DeleteWave(w)
            \/ \E p \in Projects : PauseProject(p) \/ ResumeProject(p)
Create == \E r \in Runs : CreatePipeline(r)

Next == Govern \/ Create \/ Time \/ Sei \/ Fail \/ Lane \/ Operator

Spec == Init /\ [][Next]_vars

\* Shin, Sei and the lane are services that poll their work for ever, AWS ends
\* a restore that did not fail, and time passes.  Operators owe nothing.  Govern
\* is always enabled: that it is fair is that its parity keeps changing.
Fairness == /\ []<>(cycle = 0) /\ []<>(cycle = 1)
            /\ WF_vars(Sei) /\ WF_vars(Lane) /\ WF_vars(Time)

FairSpec == Spec /\ Fairness

-----------------------------------------------------------------------------
(* Properties *)

TypeOK ==
    /\ db.obj \in [Objs -> [state : {"DISCOVERED", "WAVE_ASSIGNED", "RESTORING", "RESTORED",
                                     "TRANSFERRED"}, wave : 0..MaxWaves]]
    /\ db.wave \in [WaveIds -> [run : Runs \cup {0}, status : Statuses,
                                task : {"NONE", "SUBMIT", "POLL"},
                                late : BOOLEAN, executed : BOOLEAN]]
    /\ db.next \in 1..MaxWaves + 1
    /\ db.run \in [Runs -> {"NONE", "SCHEDULED", "NEEDS_ATTENTION", "COMPLETED"}]
    /\ rate \in Rates \cup {0}
    /\ fresh \subseteq Runs /\ paused \subseteq Projects /\ cycle \in {0, 1}

\* Through creation, packing, packing again, deletion and reprocessing, an
\* object is in the inventory or in one wave of its own source, and a
\* pipeline that is complete left nothing behind.
PlanMatchesInventory ==
    /\ \A o \in Objs :
         /\ db.obj[o].state = "DISCOVERED" <=> db.obj[o].wave = 0
         /\ db.obj[o].wave # 0 => db.wave[db.obj[o].wave].run = o[1]
    /\ \A r \in Runs : db.run[r] = "COMPLETED" =>
         \A o \in Objs : o[1] = r => db.obj[o].state \in {"RESTORED", "RESTORING",
                                                          "WAVE_ASSIGNED", "TRANSFERRED"}

\* The waves that the operator is shown before the start are those that the
\* live planner packs one at a time (dynamic_wave_plan, next_dynamic_wave_plan).
PreviewIsThePlan ==
    \A r \in Runs :
        LET take(p, k) == LET S == NextSlice(p.rest)
                       IN  [rest |-> p.rest \ S, waves |-> p.waves \cup ({S} \ {{}})]
            S == Undiscovered(db, r)
        IN  Preview(r, S) = Sweep(take, [rest |-> S, waves |-> {}], Len(Sizes[r])).waves

\* A wave whose restore was handed to the queue keeps its objects: the plan is
\* never packed again under an order to AWS (repackage_unsubmitted_dynamic_waves).
SubmittedIsFrozen ==
    [][\A w \in WaveIds : db.wave[w].task # "NONE" /\ db'.wave[w].run # 0
                             => Members(db', w) = Members(db, w)]_vars

Admitted(r) == {w \in WavesOf(db', r) : Queued(db', w) /\ ~Queued(db, w)}

\* A charged restore is queued only for a pipeline that is neither paused nor
\* stopped by a failed submission, within its slots after it, and, with another
\* restore of the pipeline under way or a healthy lane, only while the stock at
\* hand and this wave stay within the maximum (release_dynamic_restore_horizon).
AdmissionIsJustified ==
    [][\A r \in Runs : Admitted(r) # {} =>
         /\ ~IsPaused(r)
         /\ \A w \in WavesOf(db, r) : db.wave[w].status = "FAILED" => Members(db, w) = {}
         /\ Cardinality(Occupied(db', r)) <= SlotLimit(db', r)
         /\ \A w \in Admitted(r) :
              LET stock == Larger(0, Seconds(Bytes(Stock(db', r))) - Lead)
              IN  stock >= MinBuffer =>
                    stock + Seconds(Bytes(Members(db', w))) <= MaxBuffer]_vars

\* A pipeline once started ends, or waits for the operator: its project is
\* paused or one of its restores failed.
PipelineEnds ==
    \A r \in Runs : db.run[r] # "NONE" ~>
        \/ db.run[r] = "COMPLETED" \/ IsPaused(r)
        \/ \E w \in WavesOf(db, r) : Stuck(w)
=============================================================================
