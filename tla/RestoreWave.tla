---------------------------- MODULE RestoreWave ----------------------------
(***************************************************************************)
(* The charged restore of one wave: Sei (raikou-sei) orders it from S3     *)
(* Batch Operations, reads the per-object evidence of the job, probes the  *)
(* availability of every copy and hands the objects to the transfer lane,  *)
(* while the operator pauses, resumes and approves, copies expire, and the *)
(* process dies between a call and its commit (submit_restore and          *)
(* poll_restore of src/app/real_worker.py, the wave requests of            *)
(* src/app/main.py).                                                       *)
(*                                                                         *)
(* Abstractions.  One wave of a source whose lane dispatcher is anchored   *)
(* to another wave: the lane appears by its leases, deliveries and         *)
(* refusals, each with its settlement; TransferLane models it.  Whether a  *)
(* pipeline has a free slot is a choice; RestoreAdmission models it.       *)
(* Delays between polls are not kept.  S3 and Batch Operations are         *)
(* external: a job is identified by the order of its creation, a manifest  *)
(* by its attempt, and create_job refuses a token it has seen with another *)
(* manifest.  RestoreAlreadyInProgress counts as an accepted request.      *)
(***************************************************************************)
EXTENDS Integers, FiniteSets, Sequences

CONSTANTS
    Objs,        \* the objects of the wave
    Archive,     \* those in an archive storage class
    Eager,       \* transfer_release_policy is AS_OBJECTS_AVAILABLE
    MaxUpsets    \* bound: faults, refusals, expiries and requests of the operator

ASSUME RestoreWaveAssumption ==
    /\ IsFiniteSet(Objs) /\ Archive \subseteq Objs
    /\ Eager \in BOOLEAN /\ MaxUpsets \in Nat

VARIABLES
    db,       \* obj, item: state of each object and queue item; task: the Sei tasks;
              \* status, gate, job, pipeline: columns of the wave (gate is
              \* restore_reapproval_required, job is batch_job_id);
              \* closed, report: completed_at and report key of the job's attempt
    aws,      \* jobs in the order of their creation; copy: temporary copies
    sei,      \* the worker: step, task, job, objects to go, objects seen ready
    copying,  \* objects that a stream of the lane copies
    upsets    \* counter of the bound

vars == <<db, aws, sei, copying, upsets>>

Pending     == {"RESTORE_REQUESTED", "RESTORE_REQUEST_ACCEPTED", "RESTORING"}
ResetStates == Pending \cup {"RESTORED", "TRANSFERRING", "FAILED"}
TaskEnds    == {"SUCCEEDED", "FAILED", "CANCELLED"}
LaneStatus  == {"RESTORING", "RESTORE_DRAINING", "RESTORED", "TRANSFER_DRAINING"}

InState(d, S)   == {o \in Objs : d.obj[o] \in S}
WithItem(d, S)  == {o \in Objs : d.item[o] \in S}
Put(f, S, v)    == [x \in DOMAIN f |-> IF x \in S THEN v ELSE f[x]]
Active(d, K)    == {t \in DOMAIN d.task : d.task[t].kind \in K /\ d.task[t].state \in {"READY", "RUNNING"}}
NewTask(d, k)   == [d EXCEPT !.task = Append(d.task, [kind |-> k, state |-> "READY"])]
Upset           == upsets < MaxUpsets /\ upsets' = upsets + 1

\* archive_objects
Archives(d) == Archive \cap InState(d, {"WAVE_ASSIGNED"})

\* restore_reapproval_is_required
Gated(d) == d.gate \/ d.status = "RESTORE_REAPPROVAL_REQUIRED"

\* enqueue_available_transfer_objects
Enqueue(d) ==
    [d EXCEPT !.item = Put(d.item, InState(d, {"RESTORED"}) \cap WithItem(d, {"NONE", "CANCELLED"}), "READY")]

\* mark_restore_reapproval_required: also over a pause.
RequireApproval(d, o) ==
    IF d.item[o] = "TRANSFERRED" \/ d.obj[o] = "TRANSFERRED" THEN d
    ELSE [d EXCEPT !.item[o] = "REAPPROVAL_REQUIRED", !.obj[o] = "RESTORE_REQUESTED",
                   !.status = "RESTORE_REAPPROVAL_REQUIRED", !.gate = TRUE]

\* fail_permanently
Fail(d, t) ==
    [d EXCEPT !.task[t].state = "FAILED",
              !.status = IF d.status \in {"PAUSED", "RESTORE_REQUEST_FAILED", "RESTORE_REAPPROVAL_REQUIRED"}
                         THEN d.status ELSE "FAILED"]

\* fail_restore_attempt: the objects stay RESTORE_REQUESTED.
FailAttempt(d, t) == Fail([d EXCEPT !.closed = TRUE, !.status = "RESTORE_REQUEST_FAILED"], t)

Idle == [step |-> "idle", task |-> 0, job |-> 0, left |-> {}, ready |-> {}]

Init ==
    /\ db \in {[obj |-> [o \in Objs |-> "WAVE_ASSIGNED"], item |-> [o \in Objs |-> "NONE"],
                task |-> <<>>, gate |-> FALSE, job |-> 0, closed |-> FALSE, report |-> FALSE,
                pipeline |-> p, status |-> IF p THEN "RESTORE_SCHEDULED" ELSE "PLANNED"] : p \in BOOLEAN}
    /\ aws = [jobs |-> <<>>, copy |-> [o \in Archive |-> "archived"]]
    /\ sei = Idle /\ copying = {} /\ upsets = 0

-----------------------------------------------------------------------------
(* Sei: claims *)

\* Mutant: a task whose worker died stays with it.
ClaimableReady(d, k) == {t \in Active(d, {k}) : d.task[t].state = "READY"}

\* claim_task: an own RUNNING task is taken again at once.
Claimable(d, k) == IF d.status = "PAUSED" THEN {} ELSE Active(d, {k})

Claim(k) ==
    /\ sei.step = "idle"
    /\ \E t \in Claimable(db, k) :
         /\ db' = [db EXCEPT !.task[t].state = "RUNNING"]
         /\ sei' = [Idle EXCEPT !.step = "claimed", !.task = t]
    /\ UNCHANGED <<aws, copying, upsets>>

Holds(step, k) == sei.step = step /\ db.task[sei.task].kind = k

\* The process dies, or an error is transient: the handler of run_once for
\* those fails itself on a name it does not import, and the task stays RUNNING.
Death ==
    /\ sei.step # "idle" /\ Upset
    /\ sei' = Idle /\ UNCHANGED <<db, aws, copying>>

-----------------------------------------------------------------------------
(* Sei: submit_restore *)

\* Nothing of the wave waits for an order.
SubmitNothing ==
    /\ Holds("claimed", "SUBMIT") /\ Archives(db) = {}
    /\ db' = Enqueue([db EXCEPT !.obj = Put(db.obj, InState(db, {"WAVE_ASSIGNED"}), "RESTORED"),
                                !.status = "RESTORED", !.task[sei.task].state = "SUCCEEDED"])
    /\ sei' = Idle /\ UNCHANGED <<aws, copying, upsets>>

\* Mutant: a token of its own for every attempt.
TokenPerAttempt(t) == FALSE

\* create_job of S3 Batch Operations: the token of the task was used.
TokenUsed(t) == \E j \in DOMAIN aws.jobs : aws.jobs[j].token = t

\* The manifest is put and the job created; nothing is committed yet.
Order ==
    /\ Holds("claimed", "SUBMIT") /\ Archives(db) # {} /\ ~TokenUsed(sei.task)
    /\ aws' = [aws EXCEPT !.jobs = Append(aws.jobs, [token |-> sei.task, objs |-> Archives(db),
                                                     state |-> "Active", refused |-> {}])]
    /\ sei' = [sei EXCEPT !.step = "ordered", !.job = Len(aws.jobs) + 1, !.left = Archives(db)]
    /\ UNCHANGED <<db, copying, upsets>>

\* Preflight, manifest or job refused: every error of this path is permanent,
\* and the attempt that stays behind has no job.
OrderRefused ==
    /\ Holds("claimed", "SUBMIT") /\ Archives(db) # {}
    /\ IF TokenUsed(sei.task) THEN UNCHANGED upsets ELSE Upset
    /\ db' = Fail(db, sei.task)
    /\ sei' = Idle /\ UNCHANGED <<aws, copying>>

\* The commit of the order: the rows that went into the manifest, as they were
\* read before it, become RESTORE_REQUESTED.
Record ==
    /\ sei.step = "ordered"
    /\ db' = NewTask([db EXCEPT !.obj = Put(db.obj, sei.left, "RESTORE_REQUESTED"),
                                !.status = "RESTORE_REQUESTED", !.job = sei.job,
                                !.closed = FALSE, !.report = FALSE,
                                !.task[sei.task].state = "SUCCEEDED"], "POLL")
    /\ sei' = Idle /\ UNCHANGED <<aws, copying, upsets>>

-----------------------------------------------------------------------------
(* Sei: poll_restore *)

\* finish_superseded_restore_poll
Supersede ==
    /\ Holds("claimed", "POLL") /\ Gated(db)
    /\ db' = [db EXCEPT !.task[sei.task].state = "CANCELLED"]
    /\ sei' = Idle /\ UNCHANGED <<aws, copying, upsets>>

\* retry: READY, also over a cancellation.
Retry(d, t) == [d EXCEPT !.task[t].state = "READY"]

\* Mutant: a complete job is taken for the evidence of its report.
PublishedWhenComplete(j) == aws.jobs[j].state \in {"Complete", "Reported"}

\* import_completion_report and restore_result_diagnostics of the job.
Published(j) == aws.jobs[j].state = "Reported"
Unaccepted(j) == aws.jobs[j].refused

StartProbe(d) ==
    [sei EXCEPT !.step = "probing", !.job = d.job, !.left = Archive \cap InState(d, Pending)]

\* Up to the probe: DescribeJob and the completion report, both read once.
Describe ==
    /\ Holds("claimed", "POLL") /\ ~Gated(db)
    /\ LET j == db.job
           t == sei.task
       IN  \/ /\ j = 0 \/ (db.closed /\ db.report)
              /\ db' = db /\ sei' = StartProbe(db)
           \/ /\ j # 0 /\ ~(db.closed /\ db.report)
              /\ \/ /\ aws.jobs[j].state = "Failed"
                    /\ db' = FailAttempt(db, t) /\ sei' = Idle
                 \/ /\ aws.jobs[j].state = "Active"
                    /\ db' = Retry([db EXCEPT !.status = "RESTORING"], t) /\ sei' = Idle
                 \/ /\ aws.jobs[j].state = "Complete" /\ ~Published(j)
                    /\ db' = Retry([db EXCEPT !.status = "RESTORE_REQUESTED"], t) /\ sei' = Idle
                 \/ /\ Published(j) /\ Unaccepted(j) # {}
                    /\ db' = FailAttempt([db EXCEPT !.report = TRUE], t) /\ sei' = Idle
                 \/ /\ Published(j) /\ Unaccepted(j) = {}
                    /\ db' = [db EXCEPT !.closed = TRUE, !.report = TRUE,
                                !.status = "RESTORE_REQUEST_ACCEPTED",
                                !.obj = Put(db.obj, Archive \cap InState(db, {"RESTORE_REQUESTED", "RESTORING"}),
                                            "RESTORE_REQUEST_ACCEPTED")]
                    /\ sei' = StartProbe(db')
    /\ UNCHANGED <<aws, copying, upsets>>

\* Mutant: any answer without an error is an available copy.
HeadAnswers(o) == aws.copy[o] # "archived"

\* restored_from_head_response
Available(o) == aws.copy[o] = "available"

\* Mutant: a checkpoint of the poll names the queue state.
PersistAsQueued(d, ready) == [d EXCEPT !.obj = Put(d.obj, ready \cap InState(d, Pending), "AVAILABLE")]

\* persist_poll_progress: everything this poll has seen ready.
Persist(d, ready) == [d EXCEPT !.obj = Put(d.obj, ready \cap InState(d, Pending), "RESTORED")]

\* One slice of restored_pending_archives_from_head and its commit.
Probe ==
    /\ sei.step = "probing"
    /\ \E o \in sei.left :
         \E ready \in {sei.ready \cup (IF Available(o) THEN {o} ELSE {})} :
            /\ sei' = [sei EXCEPT !.left = sei.left \ {o}, !.ready = ready]
            /\ db' = Persist(db, ready)
    /\ UNCHANGED <<aws, copying, upsets>>

\* A permanent error of AWS, or a report that cannot be read.
PollFails ==
    /\ \/ Holds("claimed", "POLL") /\ ~Gated(db)
       \/ sei.step = "probing" /\ sei.left # {}
    /\ Upset
    /\ db' = Fail(db, sei.task)
    /\ sei' = Idle /\ UNCHANGED <<aws, copying>>

\* The end of a poll, from fresh rows.  With pending objects and no job at its
\* start, poll_restore reads an attempt it never bound and the task fails.
Finish ==
    LET seen   == InState(db, Pending \cup {"WAVE_ASSIGNED"}) \cap ((Objs \ Archive) \cup sei.ready)
        waits  == InState(db, {"RESTORE_REQUESTED", "RESTORE_REQUEST_ACCEPTED"}) \ seen
        d      == [db EXCEPT !.obj = Put(Put(db.obj, seen, "RESTORED"), waits, "RESTORING")]
        partly == [d EXCEPT !.status = "RESTORING"]
    IN  /\ sei.step = "probing" /\ sei.left = {}
        /\ db' = IF InState(d, Pending) = {}
                 THEN Enqueue([d EXCEPT !.status = "RESTORED", !.task[sei.task].state = "SUCCEEDED"])
                 ELSE IF sei.job = 0 THEN Fail(partly, sei.task)
                 ELSE Retry(IF Eager THEN Enqueue(partly) ELSE partly, sei.task)
        /\ sei' = Idle /\ UNCHANGED <<aws, copying, upsets>>

-----------------------------------------------------------------------------
(* AWS: jobs, reports and temporary copies *)

\* A job completes with an outcome for each object, or fails on the way.
JobEnds(j) ==
    /\ aws.jobs[j].state = "Active"
    /\ \E done \in SUBSET aws.jobs[j].objs, end \in {"Complete", "Failed"} :
         /\ IF end = "Complete" /\ done = aws.jobs[j].objs THEN UNCHANGED upsets ELSE Upset
         /\ aws' = [jobs |-> [aws.jobs EXCEPT ![j].state = end,
                                              ![j].refused = aws.jobs[j].objs \ done],
                    copy |-> [o \in Archive |->
                                IF o \notin done \/ aws.copy[o] = "available" THEN aws.copy[o]
                                ELSE IF aws.copy[o] \in {"expired", "renewing"} THEN "renewing"
                                ELSE "restoring"]]
    /\ UNCHANGED <<db, sei, copying>>

ReportAppears(j) ==
    /\ aws.jobs[j].state = "Complete"
    /\ aws' = [aws EXCEPT !.jobs[j].state = "Reported"]
    /\ UNCHANGED <<db, sei, copying, upsets>>

CopyReady(o) ==
    /\ aws.copy[o] \in {"restoring", "renewing"}
    /\ aws' = [aws EXCEPT !.copy[o] = "available"]
    /\ UNCHANGED <<db, sei, copying, upsets>>

CopyExpires(o) ==
    /\ aws.copy[o] = "available" /\ Upset
    /\ aws' = [aws EXCEPT !.copy[o] = "expired"]
    /\ UNCHANGED <<db, sei, copying>>

-----------------------------------------------------------------------------
(* The lane, as far as a restore sees it *)

Readable(o) == o \in Archive => aws.copy[o] = "available"

\* The expiry of a queued copy, found by a refresh of priorities.
Refresh(o) ==
    /\ db.item[o] = "READY" /\ ~Readable(o)
    /\ db' = RequireApproval(db, o)
    /\ UNCHANGED <<aws, sei, copying, upsets>>

Lease(o) ==
    /\ db.item[o] = "READY" /\ db.status # "PAUSED" /\ o \notin copying
    /\ db' = [db EXCEPT !.item[o] = "LEASED",
                        !.obj[o] = IF db.obj[o] = "RESTORED" THEN "TRANSFERRING" ELSE db.obj[o]]
    /\ copying' = copying \cup {o}
    /\ UNCHANGED <<aws, sei, upsets>>

\* The last commit of a stream and its settlement, whatever the rows say.
Deliver(o) ==
    /\ o \in copying /\ Readable(o)
    /\ db' = [db EXCEPT !.obj[o] = "TRANSFERRED", !.item[o] = "TRANSFERRED"]
    /\ copying' = copying \ {o}
    /\ UNCHANGED <<aws, sei, upsets>>

Unavailable(o) ==
    /\ o \in copying /\ ~Readable(o)
    /\ db' = RequireApproval(db, o)
    /\ copying' = copying \ {o}
    /\ UNCHANGED <<aws, sei, upsets>>

-----------------------------------------------------------------------------
(* Shin, the controller *)

\* reconcile_continuous_source_waves
Verdict(d) ==
    LET queued == WithItem(d, {"READY", "LEASED"}) # {}
    IN  IF d.status = "PAUSED" THEN d.status
        ELSE IF WithItem(d, {"REAPPROVAL_REQUIRED"}) # {} THEN "RESTORE_REAPPROVAL_REQUIRED"
        ELSE IF InState(d, {"TRANSFERRED"}) = Objs THEN "COMPLETED"
        ELSE IF InState(d, Pending) # {} THEN IF queued THEN "RESTORE_DRAINING" ELSE "RESTORING"
        ELSE IF queued THEN "TRANSFER_DRAINING" ELSE d.status

\* reconcile_restored_transfer_lane
Restock(d) ==
    IF d.status \in LaneStatus /\ (Eager \/ InState(d, Pending) = {}) THEN Enqueue(d) ELSE d

\* A cycle of raikou_governance without and with a free slot for the wave.
Govern ==
    /\ db' = Restock([db EXCEPT !.status = Verdict(db)])
    /\ UNCHANGED <<aws, sei, copying, upsets>>

Admit ==
    LET d == [db EXCEPT !.status = Verdict(db)]
    IN  /\ d.pipeline /\ d.status = "RESTORE_SCHEDULED" /\ Active(d, {"SUBMIT"}) = {}
        /\ db' = Restock(NewTask(d, "SUBMIT"))
        /\ UNCHANGED <<aws, sei, copying, upsets>>

-----------------------------------------------------------------------------
(* The operator *)

\* queue_planned_wave
QueueWave ==
    /\ db.status = "PLANNED"
    /\ db' = NewTask([db EXCEPT !.status = "READY_FOR_RESTORE"], "SUBMIT")
    /\ UNCHANGED <<aws, sei, copying, upsets>>

\* cancel_active_wave_tasks
CancelWork(d) ==
    [d EXCEPT !.task = [t \in DOMAIN d.task |->
                          IF t \in Active(d, {"SUBMIT", "POLL"})
                          THEN [d.task[t] EXCEPT !.state = "CANCELLED"] ELSE d.task[t]],
              !.item = Put(d.item, WithItem(d, {"READY"}), "CANCELLED")]

Pause ==
    /\ db.status # "PAUSED" /\ Upset
    /\ db' = [CancelWork(db) EXCEPT !.status = "PAUSED"]
    /\ UNCHANGED <<aws, sei, copying>>

ResumedAt(k) == IF k = "POLL" THEN "RESTORING" ELSE "READY_FOR_RESTORE"

\* resume_wave
Resume ==
    LET back == WithItem(db, {"CANCELLED"})
        busy == Active(db, {"SUBMIT", "POLL"})
        last == CHOOSE t \in busy : \A u \in busy : u <= t
    IN  /\ db.status = "PAUSED"
        /\ db' = IF back # {}
                 THEN [db EXCEPT !.item = Put(db.item, back \cap InState(db, {"RESTORED"}), "READY"),
                                 !.status = "TRANSFER_DRAINING"]
                 ELSE IF busy # {} THEN [db EXCEPT !.status = ResumedAt(db.task[last].kind)]
                 ELSE NewTask([db EXCEPT !.status = "READY_FOR_RESTORE"], "SUBMIT")
        /\ UNCHANGED <<aws, sei, copying, upsets>>

\* Mutant: the queue items of the objects that are reset stay as they are.
WithdrawNothing(item, S) == item

\* The queue items of reset objects wait for a new observation.
Withdraw(item, S) == [o \in Objs |-> IF o \in S /\ item[o] # "NONE" THEN "CANCELLED" ELSE item[o]]

\* reprocess_wave, with the approval that a gated wave asks for.
Reprocess ==
    LET gated == WithItem(db, {"REAPPROVAL_REQUIRED"})
        reset == IF gated # {} \/ Gated(db)
                 THEN InState(db, ResetStates) \cap gated ELSE InState(db, ResetStates)
        d     == [db EXCEPT !.obj = Put(db.obj, reset, "WAVE_ASSIGNED"),
                            !.item = Withdraw(db.item, reset),
                            !.status = IF db.pipeline THEN "RESTORE_SCHEDULED" ELSE "READY_FOR_RESTORE",
                            !.job = 0, !.gate = FALSE]
    IN  /\ db.status # "PAUSED" /\ Active(db, {"SUBMIT", "POLL"}) = {} /\ reset # {} /\ Upset
        /\ db' = IF db.pipeline THEN d ELSE NewTask(d, "SUBMIT")
        /\ UNCHANGED <<aws, sei, copying>>

\* retry_restore_evidence: also of a paused wave.
RetryEvidence ==
    LET gated == WithItem(db, {"REAPPROVAL_REQUIRED"})
        again == gated \ InState(db, {"TRANSFERRED"})
    IN  /\ db.job # 0 /\ Active(db, {"SUBMIT", "POLL"}) = {} /\ gated # {} /\ Upset
        /\ db.report => Unaccepted(db.job) = {}
        /\ db' = NewTask([db EXCEPT !.obj = Put(db.obj, again, "RESTORE_REQUESTED"),
                                    !.item = Put(db.item, again, "CANCELLED"),
                                    !.status = "RESTORE_REQUESTED", !.gate = FALSE], "POLL")
        /\ UNCHANGED <<aws, sei, copying>>

-----------------------------------------------------------------------------

Sei ==
    \/ SubmitNothing \/ Order \/ OrderRefused \/ Record
    \/ Supersede \/ Describe \/ Probe \/ PollFails \/ Finish

Aws ==
    \/ \E j \in DOMAIN aws.jobs : JobEnds(j) \/ ReportAppears(j)
    \/ \E o \in Archive : CopyReady(o) \/ CopyExpires(o)

Lane     == \E o \in Objs : Refresh(o) \/ Lease(o) \/ Deliver(o) \/ Unavailable(o)
Operator == QueueWave \/ Pause \/ Resume \/ Reprocess \/ RetryEvidence

Next ==
    \/ Claim("SUBMIT") \/ Claim("POLL") \/ Sei \/ Death
    \/ Aws \/ Lane \/ Govern \/ Admit \/ Operator

Spec == Init /\ [][Next]_vars

\* Sei loops for ever and takes the oldest task that is due, AWS ends every job
\* and restores what it accepted; faults are bounded by Upset.
Fairness ==
    /\ SF_vars(Claim("SUBMIT")) /\ SF_vars(Claim("POLL")) /\ WF_vars(Sei)
    /\ WF_vars(\E j \in DOMAIN aws.jobs : JobEnds(j))
    /\ WF_vars(\E j \in DOMAIN aws.jobs : ReportAppears(j))
    /\ WF_vars(\E o \in Archive : CopyReady(o))

FairSpec == Spec /\ Fairness

-----------------------------------------------------------------------------
(* Properties *)

TypeOK ==
    /\ db.obj \in [Objs -> Pending \cup {"WAVE_ASSIGNED", "RESTORED", "TRANSFERRING", "TRANSFERRED"}]
    /\ db.item \in [Objs -> {"NONE", "READY", "LEASED", "CANCELLED", "REAPPROVAL_REQUIRED", "TRANSFERRED"}]
    /\ db.task \in Seq([kind : {"SUBMIT", "POLL"}, state : {"READY", "RUNNING"} \cup TaskEnds])
    /\ db.job \in 0..Len(aws.jobs)
    /\ aws.copy \in [Archive -> {"archived", "restoring", "available", "expired", "renewing"}]
    /\ sei.step \in {"idle", "claimed", "ordered", "probing"} /\ sei.job \in 0..Len(aws.jobs)
    /\ copying \subseteq Objs

\* An archived object is RESTORED or TRANSFERRING only when S3 has shown its
\* copy at least once: no order, acceptance, resume or late poll stands in for
\* the HeadObject.
RestoredIsObserved ==
    \A o \in Archive \cap InState(db, {"RESTORED", "TRANSFERRING"}) :
        aws.copy[o] \notin {"archived", "restoring"}

\* One submission task pays for one job, whatever deaths repeat it.
OneJobPerTask ==
    \A i, j \in DOMAIN aws.jobs : aws.jobs[i].token = aws.jobs[j].token => i = j

\* Sei waits for the copy of an object only on the report of a job that
\* accepted it, also after failed jobs, new approvals and revived polls.
WaitingIsAccepted ==
    \A o \in Archive \cap InState(db, {"RESTORE_REQUEST_ACCEPTED", "RESTORING"}) :
        \E j \in DOMAIN aws.jobs :
            aws.jobs[j].state = "Reported" /\ o \in aws.jobs[j].objs \ aws.jobs[j].refused

\* What the lane may lease is restored: approvals, pauses and resumes withdraw
\* or return items together with their objects.
QueuedIsRestored == \A o \in WithItem(db, {"READY"}) : db.obj[o] = "RESTORED"

\* A poll ends, unless the operator holds the wave or a copy that it waits for
\* has expired unseen.
PollEnds ==
    Active(db, {"POLL"}) # {} ~>
        \/ Active(db, {"POLL"}) = {} \/ db.status = "PAUSED"
        \/ \E o \in Archive \cap InState(db, Pending) : aws.copy[o] = "expired"

\* "can never roll back completed or verified delivery evidence" (main.py
\* 13127): what is in OCI is never sent back to be restored again.
DeliveredIsKept ==
    [][\A o \in Objs : db.obj[o] = "TRANSFERRED" => db'.obj[o] = "TRANSFERRED"]_vars
=============================================================================
