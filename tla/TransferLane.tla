---------------------------- MODULE TransferLane ----------------------------
(***************************************************************************)
(* The continuous transfer lane of one source: the Raiju dispatcher        *)
(* (real_worker.py transfer_continuous, transfer_execution.py run_once),   *)
(* the Shin controller's lease watchdog and governance cycle, the part of  *)
(* Sei that exposes restored objects to the lane, and the operator's       *)
(* pause and resume of a wave and of the project.                          *)
(*                                                                         *)
(* db is the PostgreSQL database: an action commits one transaction, and   *)
(* its new value is a composition of the operators named after the Python  *)
(* functions the handler calls.  The other variables are the memory of the *)
(* one Raiju process, lost when it dies.                                   *)
(*                                                                         *)
(* Abstractions.  The four pending restore states are one, "RESTORING".    *)
(* Retry delays and priority scores are nondeterministic choices.  A       *)
(* dispatcher task is its anchor wave: two READY tasks of one wave are one.*)
(* Every wave belongs to one source of one project.                        *)
(***************************************************************************)
EXTENDS FiniteSets

CONSTANTS
    Waves,       \* the waves of the source
    Objs,        \* its objects; each has at most one queue item
    WaveOf,      \* the wave an object is assigned to
    Slots,       \* Raiju worker slots (RAIJU_MAX_WORKERS)
    NoWave, NoObj

ASSUME WaveOfAssumption == WaveOf \in [Objs -> Waves]
ASSUME NullAssumption   == NoWave \notin Waves /\ NoObj \notin Objs

VARIABLES
    db,        \* the database, a record of type Database
    pc,        \* where the Raiju process is
    stream,    \* what each executor slot holds
    handoff,   \* pending_handoffs: at most one (target, successor) pair
    stopping   \* worker_shutdown_requested()

vars == <<db, pc, stream, handoff, stopping>>

-----------------------------------------------------------------------------
(* Types *)

ObjectState == {"RESTORING", "RESTORED", "TRANSFERRING", "TRANSFERRED"}
Queued      == {"READY", "RETRY_WAIT", "MULTIPART_RESUME"}
Outstanding == Queued \cup {"LEASED"}
ItemState   == Outstanding \cup
                 {"NONE", "TRANSFERRED", "REAPPROVAL_REQUIRED", "CANCELLED"}
WaveStatus  == {"RESTORING", "RESTORED", "RESTORE_DRAINING", "TRANSFER_DRAINING",
                "COMPLETED", "FAILED", "PAUSED", "READY_FOR_RESTORE",
                "RESTORE_REAPPROVAL_REQUIRED"}
Phase       == {"free", "reserved", "submitted", "copying",
                "returned", "failed", "unavailable"}

Database ==
    [obj        : [Objs -> ObjectState],
     item       : [Objs -> ItemState],
     lapsed     : SUBSET Objs,    \* leases whose lease_expires_at has passed
     expired    : SUBSET Objs,    \* copies whose restore_expires_at has passed
     wave       : [Waves -> WaveStatus],
     eager      : SUBSET Waves,   \* transfer_release_policy is
                                  \* AS_OBJECTS_AVAILABLE
     reapproval : SUBSET Waves,   \* restore_reapproval_required
     ready      : SUBSET Waves,   \* anchors of READY TRANSFER_CONTINUOUS tasks
     running    : Waves \cup {NoWave},   \* anchor of the RUNNING one
     revoked    : Waves \cup {NoWave},   \* anchor of the task Raiju holds that
                                         \* pause_wave has CANCELLED meanwhile
     sei        : [Waves -> {"NONE", "SUBMIT", "POLL"}],  \* live restore task
     paused     : BOOLEAN]        \* migration project status is PAUSED

Free      == [obj |-> NoObj, phase |-> "free"]
Stream    == [obj : Objs, phase : Phase \ {"free"}] \cup {Free}
NoHandoff == [target |-> NoObj, successor |-> NoObj]
Handoff   == [target : Objs, successor : Objs] \cup {NoHandoff}

ObjsOf(w)  == {o \in Objs : WaveOf[o] = w}
WavesOf(S) == {WaveOf[o] : o \in S}
Update(f, S, v) == [x \in DOMAIN f |-> IF x \in S THEN v ELSE f[x]]

-----------------------------------------------------------------------------
(* Transformations of the database, one per function of the code *)

DeliveredLeases(d) ==
    {o \in Objs : d.item[o] = "LEASED" /\ d.obj[o] = "TRANSFERRED"}

\* aged: the objects delivered longer ago than the settlement grace.
FinalizeDelivered(d, aged) ==
    LET S == aged \cap DeliveredLeases(d)
    IN  [d EXCEPT !.item = Update(d.item, S, "TRANSFERRED"), !.lapsed = d.lapsed \ S]

\* Mutant: a live lease is recovered too.
RecoverEveryLease(d, aged) ==
    LET gone == {o \in Objs \ aged : d.item[o] = "LEASED"}
        f    == FinalizeDelivered(d, aged)
    IN  [f EXCEPT !.item   = Update(f.item, gone, "MULTIPART_RESUME"),
                  !.obj    = Update(d.obj, {o \in gone : d.obj[o] = "TRANSFERRING"}, "RESTORED"),
                  !.lapsed = {}]

\* It finalizes first, and returns what still has a lapsed lease to the lane.
RecoverLeases(d, aged) ==
    LET gone == {o \in d.lapsed \ (aged \cap DeliveredLeases(d)) : d.item[o] = "LEASED"}
        f    == FinalizeDelivered(d, aged)
    IN  [f EXCEPT !.item   = Update(f.item, gone, "MULTIPART_RESUME"),
                  !.obj    = Update(d.obj, {o \in gone : d.obj[o] = "TRANSFERRING"}, "RESTORED"),
                  !.lapsed = {}]

RequireReapproval(d, S) ==
    LET lost == {o \in S : d.item[o] # "TRANSFERRED" /\ d.obj[o] # "TRANSFERRED"}
    IN  [d EXCEPT !.item       = Update(d.item, lost, "REAPPROVAL_REQUIRED"),
                  !.obj        = Update(d.obj, lost, "RESTORING"),
                  !.lapsed     = d.lapsed \ lost,
                  !.wave       = Update(d.wave, WavesOf(lost), "RESTORE_REAPPROVAL_REQUIRED"),
                  !.reapproval = d.reapproval \cup WavesOf(lost)]

RefreshPriorities(d) ==
    RequireReapproval(d, {o \in d.expired : d.item[o] \in Queued})

\* Mutant: the wave is complete when its queue is.
VerdictByQueue(d, w) ==
    IF d.wave[w] = "PAUSED" \/ \E o \in ObjsOf(w) : d.item[o] \in Outstanding
    THEN d.wave[w] ELSE "COMPLETED"

WaveVerdict(d, w) ==
    LET someItem(S)   == \E o \in ObjsOf(w) : d.item[o] \in S
        pendingRestore == \E o \in ObjsOf(w) : d.obj[o] = "RESTORING"
    IN  IF d.wave[w] = "PAUSED" THEN "PAUSED"
        ELSE IF someItem({"REAPPROVAL_REQUIRED"}) THEN "RESTORE_REAPPROVAL_REQUIRED"
        ELSE IF \A o \in ObjsOf(w) : d.obj[o] = "TRANSFERRED" THEN "COMPLETED"
        ELSE IF pendingRestore
             THEN IF someItem(Outstanding) THEN "RESTORE_DRAINING" ELSE "RESTORING"
        ELSE IF someItem(Outstanding) THEN "TRANSFER_DRAINING"
        ELSE d.wave[w]

\* Move the dispatcher of a completed wave to a wave that still has work; a
\* READY one is retired when there is none, a RUNNING one settles by itself.
ReconcileAnchors(d) ==
    LET done == {w \in Waves : d.wave[w] = "COMPLETED"}
        open == {w \in Waves : /\ d.wave[w] # "PAUSED"
                               /\ \E o \in ObjsOf(w) : d.item[o] \in Outstanding}
        next == CHOOSE w \in open : TRUE   \* first by planned start, then id
    IN  [d EXCEPT
           !.ready   = (d.ready \ done) \cup
                         (IF d.ready \cap done # {} /\ open # {} THEN {next} ELSE {}),
           !.running = IF d.running \in done /\ open # {} THEN next ELSE d.running]

ReconcileWaves(d) ==
    ReconcileAnchors([d EXCEPT !.wave = [w \in Waves |-> WaveVerdict(d, w)]])

\* Restored objects of the waves W without a queue item, or with a cancelled
\* one, become READY.
EnqueueAvailable(d, W) ==
    LET S == {o \in Objs : /\ WaveOf[o] \in W
                           /\ d.obj[o] = "RESTORED"
                           /\ d.item[o] \in {"NONE", "CANCELLED"}}
    IN  [d EXCEPT !.item = Update(d.item, S, "READY")]

DispatcherLive(d) ==
    \E w \in Waves : (w \in d.ready \/ w = d.running) /\ d.wave[w] # "PAUSED"

Eligible(d) == {o \in Objs : d.item[o] \in Queued /\ d.wave[WaveOf[o]] # "PAUSED"}

\* ensure_transfer_task commits one of these databases: the anchor of a new
\* dispatcher is the wave of the most urgent eligible item.
EnsureTransferTask(d, aged) ==
    \E r \in {RecoverLeases(d, aged)} :
       IF DispatcherLive(r) THEN db' = r
       ELSE \E f \in {RefreshPriorities(r)} :
              \/ Eligible(f) = {} /\ db' = f
              \/ \E w \in WavesOf(Eligible(f)) : db' = [f EXCEPT !.ready = f.ready \cup {w}]

\* claim_continuous_transfer_batch: what precedes the choice, and the claim.
PrepareClaim(d, aged) == RefreshPriorities(RecoverLeases(d, aged))

\* A RETRY_WAIT item may or may not be due; batch limits cut the selection.
ClaimChoices(d) ==
    {S \in SUBSET Eligible(d) :
        S = {} => \A o \in Eligible(d) : d.item[o] = "RETRY_WAIT"}

Lease(d, S) ==
    [d EXCEPT !.item   = Update(d.item, S, "LEASED"),
              !.obj    = Update(d.obj, {o \in S : d.obj[o] = "RESTORED"}, "TRANSFERRING"),
              !.lapsed = d.lapsed \ S]

Unstart(d, S) ==
    [d EXCEPT !.obj = Update(d.obj, {o \in S : d.obj[o] = "TRANSFERRING"}, "RESTORED")]

ReturnUnstarted(d, S) ==
    Unstart([d EXCEPT !.item = Update(d.item, S, "READY"), !.lapsed = d.lapsed \ S], S)

\* Mutant: any stream that ended without an S3 refusal counts as delivered.
SettleOptimist(d, o, phase) ==
    IF phase = "unavailable" THEN RequireReapproval(d, {o})
    ELSE [d EXCEPT !.item = Update(d.item, {o}, "TRANSFERRED"), !.lapsed = d.lapsed \ {o}]

\* Mutant: the item takes the state of its object.
SettleAsObject(d, o, phase) ==
    [d EXCEPT !.item = Update(d.item, {o}, d.obj[o]), !.lapsed = d.lapsed \ {o}]

\* settle: the outcome of one finished stream of object o.
Settle(d, o, phase) ==
    LET c == [d EXCEPT !.lapsed = d.lapsed \ {o}]
    IN  IF phase = "returned" /\ c.obj[o] = "TRANSFERRED"
        THEN [c EXCEPT !.item = Update(c.item, {o}, "TRANSFERRED")]
        ELSE IF phase = "unavailable" THEN RequireReapproval(c, {o})
        ELSE Unstart([c EXCEPT !.item = Update(c.item, {o}, "RETRY_WAIT")], {o})

RetireTask(d) == [d EXCEPT !.running = NoWave, !.revoked = NoWave]

\* retry() and the graceful shutdown write READY even over a task that
\* pause_wave cancelled meanwhile.
RequeueTask(d) ==
    [RetireTask(d) EXCEPT !.ready = d.ready \cup ({d.running, d.revoked} \ {NoWave})]

\* fail_permanently: the task is FAILED and its wave with it, unless gated.
FailTask(d) ==
    LET S == {w \in {d.running, d.revoked} \ {NoWave} :
                 d.wave[w] \notin {"PAUSED", "RESTORE_REAPPROVAL_REQUIRED"}}
    IN  [RetireTask(d) EXCEPT !.wave = Update(d.wave, S, "FAILED")]

\* How the exception handler of run_once leaves the task; the last outcome is
\* the handler's own transaction failing, which leaves the task RUNNING.
TaskAfterError(d) == {RequeueTask(d), FailTask(d), [d EXCEPT !.revoked = NoWave]}

\* Mutant: the pause also cancels what Raiju is copying.
PauseEverything(d, W, held) ==
    [d EXCEPT !.wave    = Update(d.wave, W, "PAUSED"),
              !.item    = Update(d.item, {o \in Objs : WaveOf[o] \in W /\
                                              d.item[o] \in Outstanding}, "CANCELLED"),
              !.ready   = d.ready \ W,
              !.running = IF d.running \in W THEN NoWave ELSE d.running,
              !.revoked = IF d.running \in W THEN held ELSE d.revoked,
              !.sei     = Update(d.sei, W, "NONE")]

\* pause_wave with cancel_active_wave_tasks: a LEASED item is left alone.
\* held: the anchor of the RUNNING task if Raiju has it, else NoWave.
PauseWaves(d, W, held) ==
    LET cut == {o \in Objs : WaveOf[o] \in W /\ d.item[o] \in Queued}
    IN  [d EXCEPT !.wave    = Update(d.wave, W, "PAUSED"),
                  !.item    = Update(d.item, cut, "CANCELLED"),
                  !.ready   = d.ready \ W,
                  !.running = IF d.running \in W THEN NoWave ELSE d.running,
                  !.revoked = IF d.running \in W THEN held ELSE d.revoked,
                  !.sei     = Update(d.sei, W, "NONE")]

\* Mutant: the resume restores the status and leaves the items cancelled.
ResumeStatusOnly(d, W) ==
    [d EXCEPT !.wave = Update(d.wave, W, "READY_FOR_RESTORE"), !.sei = Update(d.sei, W, "SUBMIT")]

\* resume_wave: cancelled items of still restored objects return to the lane;
\* with none cancelled, a live task decides the step, else a new submission.
ResumeWaves(d, W) ==
    LET cancelled(w) == {o \in ObjsOf(w) : d.item[o] = "CANCELLED"}
        back  == {o \in Objs : /\ WaveOf[o] \in W
                               /\ d.item[o] = "CANCELLED"
                               /\ d.obj[o] = "RESTORED"}
        drain == {w \in W : cancelled(w) # {} \/ w \in d.ready}
    IN  [d EXCEPT !.item = Update(d.item, back, "READY"),
                  !.wave = Update(Update(d.wave, W \ drain, "READY_FOR_RESTORE"),
                                  drain, "TRANSFER_DRAINING"),
                  !.sei  = Update(d.sei, W \ drain, "SUBMIT")]

Aged == SUBSET DeliveredLeases(db)

-----------------------------------------------------------------------------
(* The Raiju process *)

Busy      == {s \in Slots : stream[s].phase # "free"}
Finished  == {s \in Slots : stream[s].phase \in {"returned", "failed", "unavailable"}}
FreeSlots == Slots \ Busy

Init ==
    /\ \E eager \in SUBSET Waves :
         db = [obj        |-> [o \in Objs |-> "RESTORING"],
               item       |-> [o \in Objs |-> "NONE"],
               lapsed     |-> {},
               expired    |-> {},
               wave       |-> [w \in Waves |-> "RESTORING"],
               eager      |-> eager,
               reapproval |-> {},
               ready      |-> {},
               running    |-> NoWave,
               revoked    |-> NoWave,
               sei        |-> [w \in Waves |-> "POLL"],
               paused     |-> FALSE]
    /\ pc = "idle"
    /\ stream = [s \in Slots |-> Free]
    /\ handoff = NoHandoff
    /\ stopping = FALSE

\* Mutant: a worker does not take up the task it was running when it died.
ClaimReadyOnly ==
    /\ pc = "idle" /\ ~stopping /\ ~db.paused
    /\ \E aged \in Aged, w \in db.ready :
         LET d == FinalizeDelivered(db, aged)
         IN  /\ d.running = NoWave /\ Eligible(d) # {} /\ d.wave[w] # "PAUSED"
             /\ db' = [d EXCEPT !.running = w, !.ready = d.ready \ {w}]
    /\ pc' = "claimed"
    /\ UNCHANGED <<stream, handoff, stopping>>

\* run_once and claim_task: finalize old deliveries, then claim the own RUNNING
\* task, or a READY one if its source has an item the lane may take.
ClaimDispatcher ==
    /\ pc = "idle" /\ ~stopping /\ ~db.paused
    /\ \E aged \in Aged :
         LET d == FinalizeDelivered(db, aged)
         IN  \/ /\ d.running # NoWave
                /\ db' = d
             \/ /\ d.running = NoWave /\ Eligible(d) # {}
                /\ \E w \in d.ready :
                     /\ d.wave[w] # "PAUSED"
                     /\ db' = [d EXCEPT !.running = w, !.ready = d.ready \ {w}]
    /\ pc' = "claimed"
    /\ UNCHANGED <<stream, handoff, stopping>>

\* transfer_continuous finds nothing to claim and retires the dispatcher.
DispatchNothing ==
    /\ pc = "claimed"
    /\ \E aged \in Aged :
         \E c \in {PrepareClaim(db, aged)} :
            /\ {} \in ClaimChoices(c)
            /\ \E d \in {RetireTask(ReconcileWaves(c))} : EnsureTransferTask(d, aged)
    /\ pc' = "idle"
    /\ UNCHANGED <<stream, handoff, stopping>>

\* The first batch: claimed items beyond the worker ceiling go back before the
\* commit.  The ceiling is zero only while leases of an earlier run still count.
Dispatch(claimed, seat) ==
    LET active == {seat[s] : s \in Slots} \ {NoObj}
    IN  /\ claimed # {} /\ active \subseteq claimed
        /\ \A s, t \in Slots : seat[s] = seat[t] /\ seat[s] # NoObj => s = t
        /\ active = {} => \E o \in Objs : db.item[o] = "LEASED"
        /\ stream' = [s \in Slots |-> IF seat[s] = NoObj THEN Free
                                      ELSE [obj |-> seat[s], phase |-> "submitted"]]
        /\ \E aged \in Aged :
             \E c \in {PrepareClaim(db, aged)} :
                /\ claimed \in ClaimChoices(c)
                /\ db' = ReturnUnstarted(Lease(c, claimed), claimed \ active)

StartDispatch ==
    /\ pc = "claimed" /\ ~stopping
    /\ \E claimed \in SUBSET Objs : \E seat \in [Slots -> claimed \cup {NoObj}] :
          Dispatch(claimed, seat)
    /\ pc' = IF \A s \in Slots : stream'[s] = Free THEN "ending" ELSE "loop"
    /\ UNCHANGED <<handoff, stopping>>

\* SIGTERM before the executor starts: everything claimed goes back.
DispatchRefused ==
    /\ pc = "claimed" /\ stopping
    /\ \E aged \in Aged :
         \E c \in {PrepareClaim(db, aged)} :
             \E claimed \in ClaimChoices(c) \ {{}} :
                db' = RequeueTask(ReturnUnstarted(Lease(c, claimed), claimed))
    /\ pc' = "idle"
    /\ UNCHANGED <<stream, handoff, stopping>>

\* An exception after the claim and before the executor (AWS role, OCI
\* configuration): run_once commits the flushed leases along with the task.
DispatchAborts ==
    /\ pc = "claimed"
    /\ \E aged \in Aged :
         \E c \in {PrepareClaim(db, aged)} :
             \E claimed \in ClaimChoices(c) \ {{}} : \E active \in SUBSET claimed :
                db' \in {RequeueTask(ReturnUnstarted(Lease(c, claimed), claimed \ active)),
                         FailTask(ReturnUnstarted(Lease(c, claimed), claimed \ active))}
    /\ pc' = "idle"
    /\ UNCHANGED <<stream, handoff, stopping>>

\* transfer_object begins in its executor thread.
StreamStart(s) ==
    LET o == stream[s].obj
        becomes(phase) == stream' = [stream EXCEPT ![s].phase = phase]
    IN  /\ stream[s].phase = "submitted"
        /\ \/ stopping /\ becomes("failed") /\ UNCHANGED db
           \/ /\ ~stopping /\ db.obj[o] \notin {"RESTORED", "TRANSFERRING"}
              /\ becomes("returned") /\ UNCHANGED db
           \/ /\ ~stopping /\ db.obj[o] \in {"RESTORED", "TRANSFERRING"}
              /\ becomes("copying")
              /\ db' = [db EXCEPT !.obj = Update(db.obj, {o}, "TRANSFERRING")]
        /\ UNCHANGED <<pc, handoff, stopping>>

\* Its last commit, whatever the row says by then.
StreamDelivers(s) ==
    /\ stream[s].phase = "copying"
    /\ stream' = [stream EXCEPT ![s].phase = "returned"]
    /\ db' = [db EXCEPT !.obj = Update(db.obj, {stream[s].obj}, "TRANSFERRED")]
    /\ UNCHANGED <<pc, handoff, stopping>>

\* A transient error, or SIGTERM seen at a part checkpoint.
StreamFails(s) ==
    /\ stream[s].phase = "copying"
    /\ stream' = [stream EXCEPT ![s].phase = "failed"]
    /\ UNCHANGED <<db, pc, handoff, stopping>>

\* S3 answers that the temporary copy is gone.
StreamUnavailable(s) ==
    /\ stream[s].phase = "copying" /\ stream[s].obj \in db.expired
    /\ stream' = [stream EXCEPT ![s].phase = "unavailable"]
    /\ UNCHANGED <<db, pc, handoff, stopping>>

\* The loop settles a finished stream and commits; its reserved successor, if
\* any, holds the slot until Refill.
CollectDone(s) ==
    LET o == stream[s].obj
    IN  /\ pc = "loop" /\ s \in Finished
        /\ db' = ReconcileWaves(RefreshPriorities(Settle(db, o, stream[s].phase)))
        /\ stream' = [stream EXCEPT ![s] =
                        IF handoff.target = o
                        THEN [obj |-> handoff.successor, phase |-> "reserved"] ELSE Free]
        /\ handoff' = IF handoff.target = o THEN NoHandoff ELSE handoff
        /\ pc' = "collected"
        /\ UNCHANGED stopping

Unreserved == [s \in Slots |-> IF stream[s].phase = "reserved" THEN Free ELSE stream[s]]

Refill ==
    /\ pc = "collected" /\ ~stopping
    /\ stream' = [s \in Slots |->
                    IF stream[s].phase = "reserved" /\ db.item[stream[s].obj] = "LEASED"
                    THEN [stream[s] EXCEPT !.phase = "submitted"] ELSE Unreserved[s]]
    /\ pc' = "loop"
    /\ UNCHANGED <<db, handoff, stopping>>

\* SIGTERM: a popped successor is forgotten with its lease; the last stream
\* out returns the task to the queue.
StopAfterCollect ==
    /\ pc = "collected" /\ stopping
    /\ stream' = Unreserved
    /\ IF \E s \in Slots : stream'[s] # Free
       THEN pc' = "loop" /\ UNCHANGED <<db, handoff>>
       ELSE /\ pc' = "idle"
            /\ db' = RequeueTask(ReturnUnstarted(db, {handoff.successor} \ {NoObj}))
            /\ handoff' = NoHandoff
    /\ UNCHANGED stopping

\* A pass of the loop that admits nothing still refreshes priorities.
RefreshTick ==
    /\ pc = "loop" /\ ~stopping /\ Busy # {}
    /\ db' = RefreshPriorities(db)
    /\ UNCHANGED <<pc, stream, handoff, stopping>>

\* The autoscaler may or may not grant a free slot.
ClaimReplacement(s) ==
    /\ pc = "loop" /\ ~stopping /\ s \in FreeSlots
    /\ \E aged \in Aged :
         \E c \in {PrepareClaim(db, aged)} :
             \E o \in Eligible(c) :
                /\ db' = Lease(c, {o})
                /\ stream' = [stream EXCEPT ![s] = [obj |-> o, phase |-> "submitted"]]
    /\ UNCHANGED <<pc, handoff, stopping>>

\* choose_cooperative_preemption_target: a normal stream that holds its lease.
HandoffTargets(d) == {s \in Busy : d.item[stream[s].obj] = "LEASED"}

\* reserve_critical_handoff: the successor keeps its lease, not its slot, until
\* the target ends; with no safe target it goes back.
ReserveHandoff ==
    /\ pc = "loop" /\ ~stopping /\ Busy # {} /\ handoff = NoHandoff
    /\ \E aged \in Aged :
         \E c \in {PrepareClaim(db, aged)} :
             \E o \in Eligible(c) :
               \/ \E s \in HandoffTargets(c) :
                    /\ db' = Unstart(Lease(c, {o}), {o})
                    /\ handoff' = [target |-> stream[s].obj, successor |-> o]
               \/ /\ db' = ReturnUnstarted(Lease(c, {o}), {o})
                  /\ UNCHANGED handoff
    /\ UNCHANGED <<pc, stream, stopping>>

\* No stream left: retire this dispatcher and queue the next one.
LoopEnds ==
    /\ pc \in {"loop", "ending"} /\ Busy = {}
    /\ \E aged \in Aged :
         \E r \in {ReconcileWaves(db)} : \E d \in {RetireTask(RefreshPriorities(r))} :
            EnsureTransferTask(d, aged)
    /\ pc' = "idle"
    /\ UNCHANGED <<stream, handoff, stopping>>

\* An exception in the loop: the executor still waits for every stream, and
\* nothing renews or settles their leases.
LoopFails ==
    /\ pc \in {"loop", "collected"}
    /\ pc' = "draining"
    /\ stream' = Unreserved
    /\ handoff' = NoHandoff
    /\ UNCHANGED <<db, stopping>>

DrainDone ==
    /\ pc = "draining" /\ Busy = Finished
    /\ db' \in TaskAfterError(db)
    /\ pc' = "idle"
    /\ stream' = [s \in Slots |-> Free]
    /\ UNCHANGED <<handoff, stopping>>

\* The process dies (VM loss, os._exit of a stalled lane); its container is
\* restarted and the task stays RUNNING.
Crash ==
    /\ pc # "idle"
    /\ db' = [db EXCEPT !.revoked = NoWave]
    /\ pc' = "idle"
    /\ stream' = [s \in Slots |-> Free]
    /\ handoff' = NoHandoff
    /\ stopping' = FALSE

Terminate ==
    /\ ~stopping
    /\ stopping' = TRUE
    /\ UNCHANGED <<db, pc, stream, handoff>>

Restart ==
    /\ pc = "idle" /\ stopping
    /\ stopping' = FALSE
    /\ UNCHANGED <<db, pc, stream, handoff>>

-----------------------------------------------------------------------------
(* Time *)

\* The loop renews every few seconds what it streams or holds for a handoff,
\* and a submitted stream starts at once: only other leases lapse.
Renewed(o) ==
    \/ pc \in {"loop", "collected"} /\ handoff.successor = o
    \/ \E s \in Slots : /\ stream[s].obj = o
                        /\ pc \in {"loop", "collected"} \/ stream[s].phase = "submitted"

LeaseLapses(o) ==
    /\ db.item[o] = "LEASED" /\ o \notin db.lapsed /\ ~Renewed(o)
    /\ db' = [db EXCEPT !.lapsed = db.lapsed \cup {o}]
    /\ UNCHANGED <<pc, stream, handoff, stopping>>

CopyExpires(o) ==
    /\ db.obj[o] \in {"RESTORED", "TRANSFERRING"} /\ o \notin db.expired
    /\ db' = [db EXCEPT !.expired = db.expired \cup {o}]
    /\ UNCHANGED <<pc, stream, handoff, stopping>>

-----------------------------------------------------------------------------
(* Shin, the controller *)

\* recover_expired_continuous_lane_leases
WatchdogRecover ==
    /\ \E o \in db.lapsed : db.item[o] = "LEASED"
    /\ \E aged \in Aged :
         \E d \in {RecoverLeases(db, aged)} :
            IF \E w \in Waves : d.wave[w] # "PAUSED"
            THEN EnsureTransferTask(d, aged)
            ELSE db' = d
    /\ UNCHANGED <<pc, stream, handoff, stopping>>

LaneStatus == {"RESTORING", "RESTORE_DRAINING", "RESTORED", "TRANSFER_DRAINING"}

\* reconcile_restored_transfer_lane; its passes over the waves are one here,
\* because every pass after the first that ensures a dispatcher is idempotent.
ReconcileRestoredLane(d, aged) ==
    LET W     == {w \in Waves : d.wave[w] \in LaneStatus}
        whole == {w \in W : \A o \in ObjsOf(w) : d.obj[o] # "RESTORING"}
    IN  IF W = {} THEN db' = d
        ELSE \E e \in {EnqueueAvailable(d, (W \cap d.eager) \cup whole)} :
               EnsureTransferTask(e, aged)

\* The governance cycle of run_once; a paused project's waves keep their status.
Govern ==
    /\ \E aged \in Aged :
         \E d \in {IF db.paused THEN db ELSE ReconcileWaves(db)} :
            ReconcileRestoredLane(d, aged)
    /\ UNCHANGED <<pc, stream, handoff, stopping>>

-----------------------------------------------------------------------------
(* Sei, the restore worker, as far as the lane sees it *)

SeiMay(w, kind) == db.sei[w] = kind /\ db.wave[w] # "PAUSED" /\ ~db.paused

\* finish_superseded_restore_poll
PollSuperseded(w) ==
    /\ SeiMay(w, "POLL")
    /\ w \in db.reapproval \/ db.wave[w] = "RESTORE_REAPPROVAL_REQUIRED"
    /\ db' = [db EXCEPT !.sei[w] = "NONE"]
    /\ UNCHANGED <<pc, stream, handoff, stopping>>

\* poll_restore: the objects seen become RESTORED and enter the lane at once,
\* or with the last of the wave, as its release policy says.
PollRestore(w) ==
    LET pending == {o \in ObjsOf(w) : db.obj[o] = "RESTORING"}
        after(seen, status) == [db EXCEPT !.obj = Update(db.obj, seen, "RESTORED"),
                                          !.wave[w] = status]
    IN  /\ SeiMay(w, "POLL")
        /\ w \notin db.reapproval /\ db.wave[w] # "RESTORE_REAPPROVAL_REQUIRED"
        /\ \E seen \in SUBSET pending, aged \in Aged :
             IF seen = pending
             THEN \E d \in {EnqueueAvailable(after(seen, "RESTORED"), {w})} :
                     EnsureTransferTask([d EXCEPT !.sei[w] = "NONE"], aged)
             ELSE \E part \in {after(seen, "RESTORING")} :
                     \E queue \in {EnqueueAvailable(part, {w})} :
                        IF w \in db.eager /\ queue # part
                        THEN EnsureTransferTask(queue, aged)
                        ELSE db' = part
        /\ UNCHANGED <<pc, stream, handoff, stopping>>

\* submit_restore when no object of the wave waits for a restore request.
SubmitRestore(w) ==
    /\ SeiMay(w, "SUBMIT")
    /\ \E aged \in Aged :
         \E d \in {[db EXCEPT !.wave[w] = "RESTORED", !.sei[w] = "NONE"]} :
            EnsureTransferTask(EnqueueAvailable(d, {w}), aged)
    /\ UNCHANGED <<pc, stream, handoff, stopping>>

-----------------------------------------------------------------------------
(* The operator *)

PauseWave(w) ==
    /\ db.wave[w] # "PAUSED"
    /\ db' = PauseWaves(db, {w}, IF pc = "idle" THEN NoWave ELSE db.running)
    /\ UNCHANGED <<pc, stream, handoff, stopping>>

ResumeWave(w) ==
    /\ db.wave[w] = "PAUSED"
    /\ db' = ResumeWaves(db, {w})
    /\ UNCHANGED <<pc, stream, handoff, stopping>>

PauseProject ==
    /\ ~db.paused
    /\ db' = [db EXCEPT !.paused = TRUE]
    /\ UNCHANGED <<pc, stream, handoff, stopping>>

\* resume_migration_project also resumes every paused wave.
ResumeProject ==
    /\ db.paused
    /\ db' = [ResumeWaves(db, {w \in Waves : db.wave[w] = "PAUSED"}) EXCEPT !.paused = FALSE]
    /\ UNCHANGED <<pc, stream, handoff, stopping>>

-----------------------------------------------------------------------------

Raiju ==
    \/ ClaimDispatcher \/ DispatchNothing \/ StartDispatch
    \/ DispatchRefused \/ DispatchAborts
    \/ Refill \/ StopAfterCollect \/ RefreshTick \/ ReserveHandoff
    \/ LoopEnds \/ LoopFails \/ DrainDone
    \/ \E s \in Slots : \/ StreamStart(s) \/ StreamDelivers(s) \/ StreamFails(s)
                        \/ StreamUnavailable(s) \/ CollectDone(s) \/ ClaimReplacement(s)

Environment ==
    \/ Crash \/ Terminate \/ Restart
    \/ \E o \in Objs : LeaseLapses(o) \/ CopyExpires(o)

Control ==
    \/ WatchdogRecover \/ Govern
    \/ \E w \in Waves : PollSuperseded(w) \/ PollRestore(w) \/ SubmitRestore(w)

Operator ==
    \/ PauseProject \/ ResumeProject
    \/ \E w \in Waves : PauseWave(w) \/ ResumeWave(w)

Next == Raiju \/ Environment \/ Control \/ Operator

Spec == Init /\ [][Next]_vars

(***************************************************************************)
(* Fairness: every worker loops for ever and leases run out, so a step that *)
(* stays possible is taken; faults are transient.  Strong fairness per     *)
(* object says that the lane does not pass over one item for ever (urgency *)
(* order, growing retry delay), and that not every copy of it fails.       *)
(***************************************************************************)
Fault == Crash \/ Terminate \/ LoopFails \/ DispatchAborts

Serves(o) == StartDispatch /\ \E s \in Slots : stream'[s].obj = o
Copies(o) == \E s \in Slots : stream[s].obj = o /\ StreamDelivers(s)

Fairness ==
    /\ <>[][~Fault]_vars
    /\ WF_vars(ClaimDispatcher \/ DispatchNothing \/ StartDispatch \/ DispatchRefused)
    /\ WF_vars(\E s \in Slots : StreamStart(s)) /\ WF_vars(\E s \in Slots : CollectDone(s))
    /\ WF_vars(Refill \/ StopAfterCollect \/ LoopEnds \/ DrainDone \/ Restart)
    /\ WF_vars(\E o \in Objs : LeaseLapses(o))
    /\ WF_vars(WatchdogRecover) /\ WF_vars(Govern)
    /\ \A o \in Objs : SF_vars(Serves(o)) /\ SF_vars(Copies(o))

FairSpec == Spec /\ Fairness

-----------------------------------------------------------------------------
(* Properties *)

TypeOK ==
    /\ db \in Database
    /\ pc \in {"idle", "claimed", "loop", "collected", "ending", "draining"}
    /\ stream \in [Slots -> Stream]
    /\ handoff \in Handoff
    /\ stopping \in BOOLEAN

\* A queue item counts as transferred only for an object whose delivery is
\* committed (settle, reconcile_completed_continuous_item_leases).
SettledItemIsDelivered ==
    \A o \in Objs : db.item[o] = "TRANSFERRED" => db.obj[o] = "TRANSFERRED"

\* A COMPLETED wave has every object in OCI, although its status is derived by
\* Shin and Raiju in transactions other than the ones that deliver.
CompletedWaveIsDelivered ==
    \A w \in Waves : db.wave[w] = "COMPLETED" =>
        \A o \in ObjsOf(w) : db.obj[o] = "TRANSFERRED"

\* No recovery, refresh, claim, return or pause takes back a delivery.
DeliveredNeverRegresses ==
    [][\A o \in Objs : db.obj[o] = "TRANSFERRED" => db'.obj[o] = "TRANSFERRED"]_vars

\* While the dispatcher lives, the queue lease fences its streams: what a slot
\* copies is leased and TRANSFERRING, with a lease that has not run out, no
\* object is in two slots, and a reserved successor is leased and not streamed.
StreamLeaseFence ==
    pc \in {"loop", "collected"} =>
      /\ \A s \in Slots : stream[s].phase = "copying" =>
            LET o == stream[s].obj
            IN  db.item[o] = "LEASED" /\ o \notin db.lapsed /\ db.obj[o] = "TRANSFERRING"
      /\ \A s, t \in Busy : stream[s].obj = stream[t].obj => s = t
      /\ handoff # NoHandoff =>
            /\ db.item[handoff.successor] \in {"LEASED", "TRANSFERRED"}
            /\ \A s \in Busy : stream[s].obj # handoff.successor
            /\ \E s \in Busy : stream[s].obj = handoff.target

\* A restored object without a live queue item only waits for the rest of its
\* wave, unless the wave is paused or needs a new approval: pause, resume,
\* recovery and settlement lose none.
RestoredIsInLane ==
    \A o \in Objs :
        /\ db.obj[o] = "RESTORED" /\ db.item[o] \in {"NONE", "CANCELLED"}
        /\ db.wave[WaveOf[o]] # "PAUSED" /\ WaveOf[o] \notin db.reapproval
        => \E p \in ObjsOf(WaveOf[o]) : db.obj[p] = "RESTORING"

\* The live step of a wave survives pause and resume (main.py 12974): a wave
\* that waits for a restore has a Sei task to observe it.
PendingRestoreIsPolled ==
    \A w \in Waves :
        /\ db.wave[w] \notin {"PAUSED", "RESTORE_REAPPROVAL_REQUIRED"}
        /\ w \notin db.reapproval
        /\ \E o \in ObjsOf(w) : db.obj[o] = "RESTORING"
        => db.sei[w] # "NONE"

\* A restored object is delivered, unless it comes to need a new approval or
\* the operator holds its wave or project.
RestoredIsServed ==
    \A o \in Objs :
        db.obj[o] = "RESTORED" ~>
            \/ db.obj[o] = "TRANSFERRED"
            \/ WaveOf[o] \in db.reapproval
            \/ db.wave[WaveOf[o]] = "PAUSED" \/ db.paused

-----------------------------------------------------------------------------
(* The abstract specification *)

Copying   == {stream[s].obj : s \in {t \in Slots : stream[t].phase = "copying"}}
Delivered == {o \in Objs : db.obj[o] = "TRANSFERRED"}
Settled   == {o \in Objs : db.item[o] = "TRANSFERRED"}
Complete  == {w \in Waves : db.wave[w] = "COMPLETED"}

Promise == INSTANCE Delivery
    WITH copying <- Copying, delivered <- Delivered, settled <- Settled, complete <- Complete

\* The lane implements Delivery: only a stream delivers, one object at a time
\* and each object in one stream, also while an old stream outlives its loop and
\* its lease; every other transaction only keeps true accounts.
LaneDelivers == Promise!Spec
=============================================================================
