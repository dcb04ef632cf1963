------------------------------ MODULE DeepAudit ------------------------------
(***************************************************************************)
(* The deep audit of delivered waves: Kai, the one audit worker            *)
(* (audit_execution.py run_once, real_worker.py verify_wave), the          *)
(* operator's requests, pauses and resumes (main.py), and what Shin's wave *)
(* reconciliation and a reprocessing do to a wave under audit.             *)
(*                                                                         *)
(* task, obj and status are the database, queuePaused its setting          *)
(* deep_audit_queue_paused; pc, held, todo and reading are the memory of   *)
(* Kai, lost when it dies.  An ASKED task is an API request that has       *)
(* passed its check and has not committed its row.                         *)
(*                                                                         *)
(* Abstractions.  "TRANSFER" stands for every status of a wave whose       *)
(* restore or transfer is under way, "PENDING" for every state of an       *)
(* object that waits for one; "FAILED_BY_PAUSE" is FAILED with a pause in  *)
(* its integrity_error.  Whether a retried task is due is free, and a      *)
(* shutdown may be requested before any check for one.  A request for a    *)
(* whole source is the requests for its waves.                             *)
(***************************************************************************)
EXTENDS Naturals

CONSTANTS
    Waves, Objs,
    WaveOf,      \* the wave of an object
    Intact,      \* objects whose bytes in OCI are the ones that were copied
    Unproven,    \* objects delivered without SHA-256 evidence
    MaxTasks,    \* bound: VERIFY_WAVE tasks ever created
    NoTask, NoObj

ASSUME WaveOfAssumption == Waves # {} /\ WaveOf \in [Objs -> Waves]
ASSUME TaskAssumption   == MaxTasks \in Nat /\ NoTask \notin 1..MaxTasks /\ NoObj \notin Objs

VARIABLES
    task,         \* VERIFY_WAVE tasks in the order of their creation
    obj,          \* state of the objects
    status,       \* status of the waves
    queuePaused,
    pc, held, todo, reading

kai  == <<pc, held, todo, reading>>
vars == <<task, obj, status, queuePaused, kai>>

-----------------------------------------------------------------------------

Tasks     == 1..MaxTasks
Live      == {"READY", "RUNNING"}
Failed    == {"FAILED", "FAILED_BY_PAUSE"}
Auditable == {"COMPLETED", "VERIFICATION_FAILED"}
ObjsOf(w) == {o \in Objs : WaveOf[o] = w}
Null      == [wave |-> CHOOSE w \in Waves : TRUE, state |-> "NONE", late |-> FALSE, retried |-> FALSE]

\* late: available_at was moved past the task's creation; retried: there is a
\* TASK_RETRY_QUEUED event of the task.
Task == [wave  : Waves, late : BOOLEAN, retried : BOOLEAN,
         state : Live \cup {"NONE", "ASKED", "PAUSED", "SUCCEEDED", "FAILED", "CANCELLED"}]

TasksOf(w, S) == {t \in Tasks : task[t].wave = w /\ task[t].state \in S}
WavesIn(S)    == {task[t].wave : t \in S}
Update(f, S, v) == [x \in DOMAIN f |-> IF x \in S THEN v ELSE f[x]]
SetState(S, s)   == [t \in Tasks |-> IF t \in S THEN [task[t] EXCEPT !.state = s] ELSE task[t]]

Init ==
    /\ task = [t \in Tasks |-> Null]
    /\ obj = [o \in Objs |-> "TRANSFERRED"]
    /\ status = [w \in Waves |-> "COMPLETED"]
    /\ queuePaused = FALSE
    /\ pc = "idle" /\ held = NoTask /\ todo = {} /\ reading = NoObj

-----------------------------------------------------------------------------
(* The operator *)

\* POST /verify finds the wave eligible and without a live audit.
Ask(w) ==
    /\ status[w] \in Auditable /\ TasksOf(w, Live \cup {"PAUSED"}) = {}
    /\ \E t \in Tasks :
         /\ \A s \in Tasks : (s < t) <=> (task[s].state # "NONE")
         /\ task' = [task EXCEPT ![t] = [Null EXCEPT !.wave = w, !.state = "ASKED"]]
    /\ UNCHANGED <<obj, status, queuePaused, kai>>

\* The request commits; nothing has locked the wave since its check.
QueueAudit(t) ==
    /\ task[t].state = "ASKED"
    /\ task' = [task EXCEPT ![t].state = "READY"]
    /\ status' = [status EXCEPT ![task[t].wave] = "VERIFICATION_QUEUED"]
    /\ UNCHANGED <<obj, queuePaused, kai>>

\* pause_deep_audit_queue
PauseQueue ==
    /\ ~queuePaused
    /\ queuePaused' = TRUE
    /\ LET S == {t \in Tasks : task[t].state \in Live}
       IN  /\ task' = SetState(S, "PAUSED")
           /\ status' = Update(status, WavesIn(S), "VERIFICATION_QUEUED")
    /\ UNCHANGED <<obj, kai>>

\* resume_deep_audit_queue
ResumeQueue ==
    /\ queuePaused
    /\ queuePaused' = FALSE
    /\ LET S == {t \in Tasks : task[t].state = "PAUSED"}
       IN  /\ task' = SetState(S, "READY")
           /\ status' = Update(status, WavesIn(S), "VERIFICATION_QUEUED")
    /\ UNCHANGED <<obj, kai>>

\* pause_wave, with cancel_active_wave_tasks.
PauseWave(w) ==
    /\ status[w] # "PAUSED"
    /\ status' = [status EXCEPT ![w] = "PAUSED"]
    /\ task' = SetState(TasksOf(w, Live), "CANCELLED")
    /\ UNCHANGED <<obj, queuePaused, kai>>

\* resume_wave; a submission that finds nothing to restore is under way.
ResumeWave(w) ==
    /\ status[w] = "PAUSED"
    /\ status' = [status EXCEPT ![w] = IF TasksOf(w, Live) # {} THEN "VERIFICATION_QUEUED"
                                       ELSE "TRANSFER"]
    /\ UNCHANGED <<task, obj, queuePaused, kai>>

\* reprocess_wave: what is not delivered or failed its audit is copied again.
Reprocess(w) ==
    /\ status[w] # "PAUSED" /\ TasksOf(w, {"RUNNING"}) = {}
    /\ \E o \in ObjsOf(w) : obj[o] \in Failed
    /\ obj' = Update(obj, {o \in ObjsOf(w) : obj[o] \in Failed}, "PENDING")
    /\ status' = [status EXCEPT ![w] = "TRANSFER"]
    /\ UNCHANGED <<task, queuePaused, kai>>

-----------------------------------------------------------------------------
(* The transfer lane and Shin *)

\* transfer_object delivers an object again.
Deliver(o) ==
    /\ obj[o] = "PENDING"
    /\ obj' = [obj EXCEPT ![o] = "TRANSFERRED"]
    /\ UNCHANGED <<task, status, queuePaused, kai>>

\* reconcile_continuous_source_waves
Reconciled(w) ==
    IF status[w] = "PAUSED" THEN "PAUSED"
    ELSE IF TasksOf(w, Live) # {} THEN "VERIFICATION_QUEUED"
    ELSE IF \A o \in ObjsOf(w) : obj[o] = "VERIFIED" THEN "VERIFIED"
    ELSE IF \A o \in ObjsOf(w) : obj[o] \in {"TRANSFERRED", "VERIFIED"} THEN "COMPLETED"
    ELSE IF \E o \in ObjsOf(w) : obj[o] = "PENDING" THEN "TRANSFER"
    ELSE status[w]

Reconcile ==
    /\ status' = [w \in Waves |-> Reconciled(w)]
    /\ UNCHANGED <<task, obj, queuePaused, kai>>

-----------------------------------------------------------------------------
(* Kai *)

\* deep_audit_pause_requested
PauseRequested == queuePaused \/ task[held].state # "RUNNING"

Idle == pc' = "idle" /\ held' = NoTask /\ todo' = {} /\ reading' = NoObj

\* run_once reads the settings before it claims.
Poll ==
    /\ pc = "idle" /\ ~queuePaused
    /\ pc' = "polled"
    /\ UNCHANGED <<task, obj, status, queuePaused, held, todo, reading>>

\* Mutant: a worker does not take up the audit it was running when it died.
ClaimReady == {t \in Tasks : task[t].state = "READY" /\ status[task[t].wave] # "PAUSED"}

\* claim_task: READY, or RUNNING and its own.
Claimable == {t \in Tasks : task[t].state \in Live /\ status[task[t].wave] # "PAUSED"}

\* The first in the order of available_at and id; a late one may not be due.
First(t) == \A s \in Claimable : s < t => task[s].late

Claim ==
    /\ pc = "polled"
    /\ IF Claimable = {} THEN Idle /\ UNCHANGED task
       ELSE \E t \in {s \in Claimable : First(s)} :
              /\ task' = [task EXCEPT ![t].state = "RUNNING"]
              /\ pc' = "claimed" /\ held' = t
              /\ UNCHANGED <<todo, reading>>
    /\ UNCHANGED <<obj, status, queuePaused>>

\* Mutant: an audit reads again what an earlier run verified.
SelectAll(w) == {o \in ObjsOf(w) : obj[o] \in {"TRANSFERRED", "VERIFIED"}}

\* The objects verify_wave reads, listed once.
Selected(w) == {o \in ObjsOf(w) : obj[o] = "TRANSFERRED"}

Begin ==
    /\ pc = "claimed"
    /\ todo' = Selected(task[held].wave)
    /\ pc' = "boundary"
    /\ UNCHANGED <<task, obj, status, queuePaused, held, reading>>

\* DeepAuditQueuePaused reaches run_once, which rolls back.
StopForPause ==
    /\ pc = "boundary" /\ todo # {} /\ PauseRequested
    /\ Idle
    /\ UNCHANGED <<task, obj, status, queuePaused>>

\* Mutant: the released audit is available from now on, behind the others.
StopForShutdownLate ==
    /\ (pc = "boundary" /\ todo # {}) \/ pc = "reading"
    /\ task' = [task EXCEPT ![held].state = "READY", ![held].late = TRUE]
    /\ Idle
    /\ UNCHANGED <<obj, status, queuePaused>>

\* release_task_for_graceful_shutdown, before an object or during its read; a
\* pause that has come since the last check is overwritten.
StopForShutdown ==
    /\ (pc = "boundary" /\ todo # {}) \/ pc = "reading"
    /\ task' = [task EXCEPT ![held].state = "READY"]
    /\ Idle
    /\ UNCHANGED <<obj, status, queuePaused>>

Fails(o, how) == obj' = [obj EXCEPT ![o] = how]

\* Take the next object: without evidence it fails, else its read starts.
NextObject ==
    /\ pc = "boundary" /\ ~PauseRequested
    /\ \E o \in todo :
         /\ todo' = todo \ {o}
         /\ IF o \in Unproven
            THEN Fails(o, "FAILED") /\ UNCHANGED <<pc, reading>>
            ELSE /\ pc' = "reading" /\ reading' = o
                 /\ UNCHANGED obj
    /\ UNCHANGED <<task, status, queuePaused, held>>

\* Mutant: the object stays open.
PauseCaughtLeak ==
    /\ pc = "reading" /\ PauseRequested
    /\ Fails(reading, "FAILED_BY_PAUSE")
    /\ pc' = "boundary"
    /\ UNCHANGED <<task, status, queuePaused, held, todo, reading>>

\* The exception of a pause at a chunk is caught with the errors of the read.
PauseCaught ==
    /\ pc = "reading" /\ PauseRequested
    /\ Fails(reading, "FAILED_BY_PAUSE")
    /\ pc' = "boundary" /\ reading' = NoObj
    /\ UNCHANGED <<task, status, queuePaused, held, todo>>

ReadFails ==
    /\ pc = "reading"
    /\ Fails(reading, "FAILED")
    /\ pc' = "boundary" /\ reading' = NoObj
    /\ UNCHANGED <<task, status, queuePaused, held, todo>>

\* The last chunk was read; no check follows it.
ReadDone ==
    /\ pc = "reading" /\ ~PauseRequested
    /\ pc' = "read"
    /\ UNCHANGED <<task, obj, status, queuePaused, held, todo, reading>>

\* Mutant: a read that reached the end is a verification.
JudgeBlind ==
    /\ pc = "read"
    /\ obj' = [obj EXCEPT ![reading] = "VERIFIED"]
    /\ pc' = "boundary" /\ reading' = NoObj
    /\ UNCHANGED <<task, status, queuePaused, held, todo>>

Judge ==
    /\ pc = "read"
    /\ IF reading \in Intact
       THEN obj' = [obj EXCEPT ![reading] = "VERIFIED"]
       ELSE Fails(reading, "FAILED")
    /\ pc' = "boundary" /\ reading' = NoObj
    /\ UNCHANGED <<task, status, queuePaused, held, todo>>

\* Mutant: only the objects that failed count.
VerdictByFailures(w) ==
    IF \A o \in ObjsOf(w) : obj[o] \notin Failed THEN "VERIFIED" ELSE "VERIFICATION_FAILED"

Verdict(w) ==
    IF \A o \in ObjsOf(w) : obj[o] = "VERIFIED" THEN "VERIFIED" ELSE "VERIFICATION_FAILED"

\* The verdict of the wave and succeed(), which writes over a pause.
Finish ==
    /\ pc = "boundary" /\ todo = {}
    /\ status' = [status EXCEPT ![task[held].wave] = Verdict(task[held].wave)]
    /\ task' = [task EXCEPT ![held].state = "SUCCEEDED"]
    /\ Idle
    /\ UNCHANGED <<obj, queuePaused>>

\* An error outside the read of an object: retry(), or fail_permanently().
TaskError ==
    /\ pc \in {"claimed", "boundary"}
    /\ LET w == task[held].wave
       IN  \/ /\ task' = [task EXCEPT ![held].state = "READY", ![held].retried = TRUE,
                                      ![held].late = TRUE]
              /\ UNCHANGED status
           \/ /\ task' = [task EXCEPT ![held].state = "FAILED"]
              /\ status' = IF status[w] \in {"PAUSED", "VERIFIED"} THEN status
                           ELSE [status EXCEPT ![w] = "FAILED"]
    /\ Idle
    /\ UNCHANGED <<obj, queuePaused>>

\* Death without a task is a poll that finds none.
Crash ==
    /\ held # NoTask
    /\ Idle
    /\ UNCHANGED <<task, obj, status, queuePaused>>

\* repair_completed and repair_active_deep_audit_statuses, when the API starts.
ApiStart ==
    /\ status' = [w \in Waves |->
          IF TasksOf(w, Live \cup {"PAUSED"}) # {} THEN "VERIFICATION_QUEUED"
          ELSE IF /\ status[w] = "COMPLETED" /\ TasksOf(w, {"SUCCEEDED"}) # {}
                  /\ \A o \in ObjsOf(w) : obj[o] = "VERIFIED"
          THEN "VERIFIED" ELSE status[w]]
    /\ UNCHANGED <<task, obj, queuePaused, kai>>

-----------------------------------------------------------------------------

Audit == \/ Poll \/ Claim \/ Begin \/ StopForPause \/ StopForShutdown \/ NextObject
         \/ PauseCaught \/ ReadFails \/ ReadDone \/ Judge \/ Finish \/ TaskError

Operator == \/ PauseQueue \/ ResumeQueue \/ ApiStart
            \/ \E t \in Tasks : QueueAudit(t)
            \/ \E w \in Waves : Ask(w) \/ PauseWave(w) \/ ResumeWave(w) \/ Reprocess(w)

Next == \/ Audit \/ Operator \/ Reconcile \/ \E o \in Objs : Deliver(o)
        \/ Crash

Spec == Init /\ [][Next]_vars

\* Kai loops for ever and its container is restarted; errors, deaths
\* and shutdowns are transient.
Fairness == /\ WF_vars(Audit) /\ <>[][~(Crash \/ StopForShutdown \/ TaskError)]_vars

FairSpec == Spec /\ Fairness

-----------------------------------------------------------------------------
(* Properties *)

TypeOK ==
    /\ task \in [Tasks -> Task]
    /\ obj \in [Objs -> {"PENDING", "TRANSFERRED", "VERIFIED"} \cup Failed]
    /\ status \in [Waves -> Auditable \cup {"VERIFICATION_QUEUED", "VERIFIED", "FAILED",
                                            "PAUSED", "TRANSFER"}]
    /\ queuePaused \in BOOLEAN
    /\ pc \in {"idle", "polled", "claimed", "boundary", "reading", "read"}
    /\ held \in Tasks \cup {NoTask} /\ (held = NoTask <=> pc \in {"idle", "polled"})
    /\ todo \subseteq Objs
    /\ reading \in Objs \cup {NoObj} /\ (reading = NoObj <=> pc \notin {"reading", "read"})

\* A wave is VERIFIED only if every object of it is, and is what was copied,
\* though objects fail, are copied again and are audited in several runs.
VerifiedWaveIsProven ==
    \A w \in Waves : status[w] = "VERIFIED" =>
        \A o \in ObjsOf(w) : obj[o] = "VERIFIED" /\ o \in Intact \ Unproven

\* "completed objects stay VERIFIED" (real_worker.py 3917): no interruption,
\* retry, second audit or reprocessing gives up a verification.
VerificationIsKept ==
    [][\A o \in Objs : obj[o] = "VERIFIED" => obj'[o] = "VERIFIED"]_vars

\* "Preserve the task's original FIFO position" (real_worker.py 1106): after any
\* pause, shutdown or death, no audit starts before an earlier one that can run
\* and was never put back by a retry.
InterruptedAuditGoesFirst ==
    [][\A t \in Tasks : pc = "polled" /\ held' = t =>
         \A s \in Claimable : s < t => task[s].retried]_vars

\* A queued audit ends, unless its queue or its wave is paused.
AuditEnds ==
    \A t \in Tasks : task[t].state \in Live ~>
        task[t].state \notin Live \/ queuePaused \/ status[task[t].wave] = "PAUSED"
=============================================================================
