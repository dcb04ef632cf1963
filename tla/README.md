# Verification of the Raijin data-migration service

Raijin moves archived S3 objects (Glacier) to OCI Object Storage. A FastAPI
console (`src/app/main.py`) and a handful of single-purpose worker processes
(`src/app/real_worker.py` and the `*_execution.py` entry points) share one
PostgreSQL database; there is no other channel between them. Every worker is a
loop "claim a task, run it, record its end", every step is a transaction, and
the hard part of the program is what happens between two transactions: another
worker, the operator, a timer, or a deployment that stops the process.

The modules here follow the code: one action per transaction or remote effect,
named after the function it stands for. Line numbers below are those of the
files under `src/`. RW is `src/app/real_worker.py`, M is `src/app/main.py`.

| Module | What it is |
|---|---|
| `TransferLane` | the continuous transfer lane of one source: dispatcher, streams, leases, controller, restore hand-over, operator |
| `Delivery` | what the lane promises: each object in one stream, deliveries final, accounts that name delivered objects only |
| `TransferLaneProofs` | type correctness, three safety invariants and an action property of the lane, proved |
| `TransferLaneFence` | no database function takes a lease from a live stream; from it the lease fence, and that the lane implements `Delivery`, proved |
| `MultipartUpload` | the copy of one object: direct or multipart, checkpointed, resumable |
| `ObjectCopy` | the copy of one object as the lane takes it: it starts, it is whole in OCI at once, the row says so |
| `MultipartUploadProofs` | type correctness, two safety invariants, two action properties and the refinement of `ObjectCopy`, proved |
| `DeepAudit` | the audit queue, its worker, its operator, and what other components do to a wave under audit |
| `DeepAuditProofs` | type correctness, one safety invariant and two action properties, proved |
| `RestoreWave` | the charged restore of one wave: Sei, the Batch job, reports, probes, deaths, pauses and approvals |
| `RestoreWaveProofs` | type correctness and its four safety invariants, proved |
| `Discovery` | the inventory of one source: listings, manifests, resumption, rediscovery, imports |
| `DiscoveryProofs` | type correctness, two safety invariants and an action property, proved |
| `RestoreAdmission` | the dynamic planner and the admission of restores of several pipelines on one host |
| `RestoreAdmissionProofs` | type correctness, two safety invariants and two action properties, proved |
| `LaneConcurrency` | the autoscaler of the lane: its experiment, its row, its restarts, and the dispatcher that asks it |
| `LaneConcurrencyProofs` | its type correctness, one safety invariant and two action properties, proved |
| `MCTransferLane`, `MCMultipartUpload`, `MCDeepAudit`, `MCRestoreWave`, `MCDiscovery`, `MCRestoreAdmission`, `MCLaneConcurrency` | their instances for TLC |

## 1. Inventory

### Components that carry the program's logic

**Continuous transfer lane (Raiju).** `transfer_continuous` (RW 3243-3836), its
helpers from RW 2589, and `transfer_execution.py`. State: queue items
(`TransferQueueItem`: status, lease owner, lease expiry, retry delay) in the
database; in memory the executor's futures, the slots, `pending_handoffs` and
the shutdown flag. Operations: claim a batch, start streams, renew leases,
reserve a successor for a stream about to end, collect and settle, refill,
drain, return what was not started. Hard: a lease is settled from a result that
was produced before other transactions; the process may die between the commit
of a delivery and its settlement; the dispatcher task is *anchored* to one wave
and serves all of them. Correct when: no object is copied by two streams of one
dispatcher; nothing counts as transferred that is not; no restored object is
left outside the lane; every restored object is served in the end.

**Durable task queue.** `Task` rows, `claim_task` (RW 836), `succeed`, `retry`,
`fail_permanently`, `release_task_for_graceful_shutdown` (RW 938-1145). State:
task state, owner, `run_after`. Hard: two workers claiming, a task an operator
cancelled while it ran and whose owner then writes its end.

**Controller (Shin).** `raikou-shin`, RW 3969-4030: lease watchdog, wave
reconciliation, anchor reconciliation, release of restored objects into the
lane, planning. It runs at any time beside Raiju and writes the same rows.

**Restore worker (Sei).** `submit_restore`, `poll_restore` (RW 1421-1891),
`restore_execution.py`. State: restore batch, attempts, object restore states.
It exposes restored objects to the lane object by object or when the whole wave
is restored. Hard: a job is paid when it is created and recorded later; job
state, report and availability arrive in their own time; a poll writes the wave
at its end over what the operator did meanwhile. Correct when: one order is one
payment; nothing is waited for that AWS has not accepted; nothing counts as
restored that S3 has not shown.

**Multipart object transfer.** `transfer_object` (RW 1993-2277) and RW
1904-1990. State: the object row, `multipart_upload_id`, part size, checkpoint
rows, the evidence of the parts; in OCI the upload and its parts. Hard: every
remote effect and the commit that records it are two steps. Correct when: what
is called delivered is whole, and a restart repeats only what is missing.

**Deep audit (Kai).** `verify_wave` (RW 3839-3939), `audit_execution.py`, and the
audit routes of the console (M 7542-7641, 12879-12949). State: VERIFY_WAVE tasks,
object and wave states, the queue's pause flag. Hard: pauses at two levels,
interruptions within a read, several audits of one wave. Correct when: VERIFIED
is said only of what was read and matched, and is never given up.

**Wave and project operator API.** pause and resume of a wave, a project, a
queue; reprocess, delete, queue (M 8782-8822, 9279-9312, 12953-13190). It
interrupts all of the above between any two of their steps.

**Lane autoscaler** (RW 162-557, 3243-3480). `LaneConcurrencyController` runs one
growth experiment at a time, keeps a rejection for hours, and is persisted in a
row that other steps commit. Correct when: experiments, blocks and timers
exclude each other after any restart, and growth follows a full window.

**Discovery (Kō)** (RW 909-935, 1219-1418, M 1287-1420, 9482-9620). Inventories a
bucket page by page into prefixes and rows, with a durable cursor, or imports an S3
Inventory by shards and chunks. Correct when: a source shown as discovered
has every key, once, and a rediscovery rewrites nothing that a wave refers to.

**Dynamic planner and restore admission** (M 10450-11860, RW 3969-4030): groups
archives into waves, packs again what AWS has not seen, and decides when a wave
may be restored within slots, buffer and budget. Correct when: plan and
inventory agree, orders are frozen, admissions are justified, pipelines end.

**Source lifecycle** (deactivation and deletion) and **console authentication**
(sessions, MFA, lockout) are smaller parts of the console. **Project closure
reports** (M 8536-8580) collect the evidence of a finished project.

### Components without such logic

Console reads, inventory and estimates; schema migrations (idempotent
statements under an advisory lock); pricing; SDK constructors; host scripts;
Terraform; the browser console. `PROJECT.json` gives the status and the reason
for each of the twenty components.

### How they interact

    operator ─► API (main.py) ─┐                       ┌─► S3 (source, restore)
    Kō ── rows ──► planner ────┼──►  PostgreSQL  ◄─────┼── Sei: restore, expose
    Shin: watchdog, reconcile ─┘   tasks, items,       ├── Raiju: copy, settle ─► OCI
                                   objects, waves      └── Kai: reread OCI, verdict

The rows two components write without telling each other are where the hazards
are: wave status (Raiju, Shin, Sei, Kai and the operator), queue items (Raiju,
Shin, Sei and the operator), task state (its owner and the operator).
`PROJECT.json` lists the hazards at their lines, with the properties that cover
each one, or why none does yet.

## 2. TransferLane

The database is one record `db`; an action commits one transaction, and its new
value is a composition of operators named after the Python functions the handler
calls, so that the trailing calls of a handler are part of its action.

| Model | Code |
|---|---|
| `db.obj`, `db.item`, `db.lapsed`, `db.expired` | `ObjectRecord.state`, `TransferQueueItem.status`, "`lease_expires_at` has passed", "`restore_expires_at` has passed" |
| `db.wave`, `db.reapproval`, `db.eager` | `Wave.status`, `restore_reapproval_required`, the waves whose `transfer_release_policy` is AS_OBJECTS_AVAILABLE (fixed when a wave is created) |
| `db.ready`, `db.running`, `db.revoked` | TRANSFER_CONTINUOUS tasks by anchor wave; `revoked` is the task Raiju runs that a pause has cancelled meanwhile |
| `db.sei`, `db.paused` | the live restore task of a wave; the project's pause |
| `pc`, `stream`, `handoff`, `stopping` | where `transfer_continuous` is, futures and slots, `pending_handoffs`, `worker_shutdown_requested()` |
| `ClaimDispatcher`, `DispatchNothing`, `StartDispatch`, `DispatchRefused`, `DispatchAborts` | `claim_task`, and the entry of `transfer_continuous`, batch claim included |
| `StreamStart/Delivers/Fails/Unavailable` | `transfer_object` seen from the lane: its first commit, its last, and its two kinds of failure |
| `CollectDone`, `Refill`, `StopAfterCollect`, `RefreshTick`, `ReserveHandoff`, `ClaimReplacement`, `LoopEnds`, `LoopFails`, `DrainDone` | the branches of the loop |
| `WatchdogRecover`, `Govern` | Shin's two duties |
| `PollSuperseded`, `PollRestore`, `SubmitRestore` | Sei |
| `PauseWave`, `ResumeWave`, `PauseProject`, `ResumeProject` | the operator |
| `Crash`, `Terminate`, `Restart`, `LeaseLapses`, `CopyExpires` | process death, SIGTERM, container restart, the two clocks |

Abstractions: the four pending restore states are one; retry delays, urgency
scores and batch sizes are free choices, so that the model has every order in
which the code could serve the lane; a dispatcher task is its anchor wave (two
READY tasks of one wave are one); leases run out only while nobody renews them
(`Renewed`), because a renewal is a query of each refresh tick
and the lease is much longer than a tick. One Raiju process per source, as the
compose file runs it. What `UNCHANGED` does not say and the code does (progress,
rates, messages) is left out.

### Runs

| Run | Instance | Question |
|---|---|---|
| `lane` | one wave, released object by object or as a whole, two objects, two slots; Raiju, Sei, Shin, operator, death, SIGTERM, both clocks | is a delivery ever undone, invented, or copied by two streams? is a restored object lost to the queue? |
| `operator` | two waves, one of each release policy, two slots; pauses and resumes at both levels, death | does pausing one wave break what its dispatcher does for another? |
| `live` | one wave, two objects, one slot; pauses, transient death and lapses | is every restored object served? |
| `resume` | as `operator` | a statement of the code that does not hold (section 10) |

Two objects and two slots give every case that the properties tell apart: a
successor reserved behind a running stream, a stream and a recovered lease of
one object, one object of a wave settled and one not; two waves give an anchor
that differs from the wave of the stream. No counter is bounded: the state space
is finite as it is. `Slots` is a symmetry set in the safety runs, where slots
are used only as the domain of `stream`; the `live` run has none.

`StreamLeaseFence` holds while the dispatcher is in its loop (`pc` in "loop" or
"collected"). After an error of the loop (`LoopFails`) the executor waits for its
streams without renewing (`draining`), and a lease may then lapse under a stream:
this is what the code does, and the property does not claim the opposite.
That the stream which goes on after such a lapse does no harm is `LaneDelivers`:
the lane implements `Delivery`, in which an object is in one stream at a time and
a delivery is final. `copying` there are the objects of busy slots, `settled`
and `complete` the accounts in queue items and wave statuses. `Delivery` lets
`settled` shrink because the code does: `_return_unstarted_queue_items` sets
the item of a reserved successor back to READY even if a recovery settled it.

`RestoredIsInLane` excuses a wave that is paused, that still restores an object, or that needs
a new approval. The last is not a detail. When a copy of a paused wave expires while
another wave keeps Shin at work, the refresh of priorities takes the wave out of its pause
(section 10); a stream of a failed loop that still copies this object may then
deliver it, and its neighbours are left restored, with cancelled items, in a wave that no
longer restores anything. The new approval queues them again. The single wave of `lane` does
not reach this; the theorem covers it.

### Fairness

Every worker is a `while True` loop in a container that is restarted, so each
branch of it that stays possible is taken (`WF` of the dispatch, of the streams'
start and collection, of the loop's branches, of Shin's two duties), and clocks
run (`WF` of `LeaseLapses`). `<>[][~Fault]` says that faults are transient. Two
strong-fairness assumptions are made per object: the lane does not pass over one
item for ever although it could serve it again and again (the code orders by
urgency and by retry delay, and delays grow), and not every copy of an object
fails. Nothing is assumed of the operator or of the restore. The `live` run uses
copies that do not expire (`LiveSpec`), so that delivery is the only good end,
and `RestoredIsServed` excuses only an object whose wave or project is held.

## 3. MultipartUpload

| Model | Code |
|---|---|
| `obj` | the row of the object: `state`, `upload` (`multipart_upload_id`), `partSize`, `rows` (checkpoint parts), `json` (the evidence of the parts on the row), `checksum` (`source_checksum`) |
| `oci` | the destination: object, open uploads, accepted parts |
| `mem` | the locals of `transfer_object` |
| `Begin`, `PutDirect`, `Reconcile`, `CreateUpload`, `RecordUpload`, `ReusePart`, `UploadPart`, `RecordPart`, `CommitUpload`, `RecordDelivery` | its phases, split where a remote effect and its record are two steps |
| `Interrupt` | death, shutdown, S3, OCI or database error at any point |
| `AbortUpload` (external) | OCI or its administrator drops an incomplete upload |
| `Reprocess` | a delivered object is put back by the operator; its evidence stays |

A payload is a sequence of bytes and its digest is the payload itself, so that
two digests are equal exactly when the bytes are. Byte `i` of the source is `i`:
a part at a wrong place or of a wrong length is visible. The linear digest is
modelled as the code feeds it, in `read_part` and again in the part loop.
The pending deletion of merged checkpoint rows is flushed before the commit of a
new upload, so that `RecordUpload` has them gone.

`copy` uses sizes 1, 3 and 5, part sizes 1 to 3 and a limit of three parts. That
covers an object sent directly, one above the direct limit, a short last part, a
part size raised by OCI's limit (5 bytes in parts of 1 would be five parts), a part
size reconfigured between two runs, an upload aborted and replaced, and an upload
committed by OCI before the database learnt of it. Two upload ids suffice: the row
names at most one, and an upload that the row does not name may be created anew.
`CopyIsAtomic` says that all of this implements `ObjectCopy`, which is the copy that
`TransferLane` takes for one step: the row says TRANSFERRED only after OCI holds
every byte, and what OCI holds is not replaced by less. `linearaudit` is in section 10.

`CopyCompletes` assumes that the lane starts an interrupted copy again
(`WF(Stream)`; that is `RestoredIsServed` of `TransferLane`), that a call on an
upload OCI no longer has fails (`WF(Broken /\ Interrupt)`), and that aborts, other
interruptions and reprocessing cease.

## 4. DeepAudit

| Model | Code |
|---|---|
| `task` | VERIFY_WAVE tasks in creation order, with `late` (`run_after` lies in the future) and `retried` (`retry()` has moved it) |
| `obj`, `status`, `queuePaused` | object states, wave status, the setting `deep_audit_queue_paused` |
| `pc`, `held`, `todo`, `reading` | Kai: the task, the selection of `verify_wave`, the object under the read |
| `Ask`, `QueueAudit` | a request, its check and its insertion being two steps (no lock) |
| `Poll`, `Claim` | the pause flag is read, then a task is claimed |
| `Begin`, `NextObject`, `ReadDone`, `ReadFails`, `PauseCaught`, `Judge`, `Finish` | `verify_wave`, by chunk boundary, object boundary and end |
| `StopForPause`, `StopForShutdown`, `TaskError`, `Crash` | its other ends |
| `PauseQueue`, `ResumeQueue`, `PauseWave`, `ResumeWave`, `Reprocess`, `ApiStart` | the console |
| `Reconcile`, `Deliver` | what Shin and Raiju do to the wave meanwhile |

`Intact` and `Unproven` say which objects are in OCI as they were copied and which
have no evidence. The number of tasks ever created is bounded by `MaxTasks` = 2,
the first pair for which order and overlap mean something. `FAILED_BY_PAUSE` is
FAILED whose error text is the pause; the code does not distinguish them, and no
guard of the model does.

The run `audit` has two waves: `a` intact and `c` without evidence in the first, `b`
corrupted in the second, and two audits. It asks whether a wave is ever VERIFIED over
an object that is not, whether a verification is kept, whether an interrupted audit
keeps its place, and whether a queued audit ends.

Fairness is `WF(Audit)` (one worker that loops and is restarted) with transient
deaths, shutdowns and errors. `AuditEnds` excuses an audit that the operator holds.

`repair_completed_deep_audit_statuses` reads `integrity_verified_at`, which Kai sets
with VERIFIED and a new delivery clears; `ApiStart` reads the state. Two console
routes write verdicts beside Kai and are not in the model: `validate_destination`
(M 10003), which resets objects that a listing of OCI does not show, and
`record_integrity` (M 10158). The theorems speak of the modelled steps.

## 5. RestoreWave

| Model | Code |
|---|---|
| `db.obj`, `db.item`, `db.task` | states of objects and queue items, and the Sei tasks in creation order |
| `db.status`, `db.gate`, `db.job`, `db.pipeline` | `Wave.status`, `restore_reapproval_required`, `batch_job_id`, whether a pipeline owns the wave |
| `db.closed`, `db.report` | `completed_at` and the report key of the attempt |
| `aws` | external: Batch jobs in creation order with their token, manifest and refusals, and the temporary copies |
| `sei` | the worker: the task it holds, the job it read, the objects still to probe, those seen ready |
| `SubmitNothing`, `Order`, `OrderRefused`, `Record` | `submit_restore`, with the job and the commit of the order as two steps |
| `Supersede`, `Describe`, `Probe`, `PollFails`, `Finish` | `poll_restore`: gate, job and report, each slice of HeadObject with its commit, and the end from fresh rows |
| `Claim`, `Death` | `run_once` of `restore_execution.py`; a transient error is a death there, because its handler fails on a name it does not import (line 61) |
| `Refresh`, `Lease`, `Deliver`, `Unavailable` | the lane, as a restore sees it: another wave anchors its dispatcher |
| `Govern`, `Admit` | Shin's cycle for this wave, without and with a free slot |
| `QueueWave`, `Pause`, `Resume`, `Reprocess`, `RetryEvidence` | the console |

The run `restore` has two archived objects and a standard one, released object by object,
and any two *upsets* (`MaxUpsets` = 2 bounds faults, refusals, failures, expiries,
pauses and approvals together). Two are the first number with an interaction: a pause and
a late poll, a failed job and a new approval, a death and its repetition. It asks
whether what is paid, waited for, seen restored and given to the lane agree, and
whether a poll ends. `rollback` is in section 10. Delays between polls and the text of
manifests are left out; a token is its task, a manifest the set of its objects.

Fairness (`FairSpec`): Sei loops and takes the oldest due task, so each kind of claim is
strongly fair, its steps weakly; AWS ends every job, publishes every report and restores
what it accepted. Nothing is assumed of Shin, lane or operator. `PollEnds` excuses a
wave held by the operator and a wait for a copy that has expired unseen: such a
poll does go on for ever in the code.

## 6. Discovery

| Model | Code |
|---|---|
| `source` | status and cursor (`discovery_continuation_token`, prefix index) of the source |
| `job` | the latest `DiscoveryJob`: mode, merge or not, shard and row done, the manifest |
| `inventory`, `changes` | object rows per key with revision and state, MODIFIED changes per key |
| `bucket`, `oci`, `valid` | S3, the destination, and whether its last validation is valid |
| `ko` | Kō: cursor, rows not yet committed, pages |
| `QueueDiscovery`, `UploadInventory`, `ImportItem` | the four requests of the console and the two imports that go past the queue |
| `Recover`, `ClaimJob`, `Ineligible`, `Begin`, `ListPage`, `FinishListing`, `ImportChunk`, `NextShard`, `FinishImport`, `DiscoveryFails`, `Crash` | `run_once` and `discover` |
| `AssignWave`, `DeleteWave`, `Migrate`, `ValidateDestination`, `ReprocessModified`, `WriteObject` | what others do to rows and bucket meanwhile |

The run `inventory` has three keys under one prefix, an empty prefix and a key out of
scope (or a bucket that lacks the last key), pages of one key committed by two, two
shards read by two rows, two requests of any kind and one write of the customer
(`MaxRequests`, `MaxEdits`). That has a page end, a prefix end, a checkpoint in the middle
of a prefix, a chunk that ends within a shard, an empty page, a resumption, a rediscovery
over waves, and an import beside a listing. Bounded requests mean that the system may
stop, so this run does not check deadlock. `touched` and `mixed` are history
variables: completeness is claimed for keys that nobody wrote during the listing, and
`NoRowTwice` for sources whose plain insertions never meet rows of another origin;
where they do, the code inserts twice (section 10).

Fairness: the worker loops and is restarted (`WF(Work)`), and its deaths end.

## 7. RestoreAdmission

| Model | Code |
|---|---|
| `db.obj`, `db.wave`, `db.next`, `db.run` | state and wave of each object; run, status, restore task, deadline and "a task was executed" of each wave; status of each pipeline |
| `rate`, `fresh`, `paused` | the measured rate of the lane, pipelines whose packing is out of date, paused projects |
| `Govern` | one cycle of Shin: `reconcile_continuous_source_waves`, `replan_dynamic_pipeline`, `materialize_dynamic_pipeline_horizon`, `release_dynamic_restore_horizon`, in one commit |
| `CreatePipeline` | `create_dynamic_waves` with the calls it ends in |
| `Preview`, `NextSlice`, `Repack`, `SlotLimit`, `GlobalLimit`, `Grants`, `Admit` | the functions of the planner |
| `Tick` | time: the submission deadline of a wave comes |
| `Submit`, `Poll`, `SubmitFails`, `RestoreFails`, `Transfer` | Sei and the lane, as the planner sees them |
| `Reprocess`, `DeleteWave`, `PauseProject`, `ResumeProject` | the console |

The run `admission` has two pipelines of one project with four objects of sizes 5, 1, 1
and 1. A wave holds at most 4 bytes, 3 objects and one second of the lane, so that one object is
beyond every limit, two share a wave at the measured rate (2) and none at the
configured one (1). Horizon, slots, buffer and lead are such that a third slot opens and
closes, stock blocks an admission, and a late or starving wave passes it. `MaxWaves` = 6 leaves
room for packing anew after a deletion; `MaxUpsets` = 1 allows one failed restore or
one request of the operator. Waves and upsets being bounded, the system may stop: this run does
not check deadlock.

Dates are kept only as what the planner asks of them (the header of the module says how).
The fold over the waves of a pass is an ordinary recursive function (`Sweep`). Fairness:
Shin's cycle, which is always enabled, keeps changing its parity; Sei and the lane take what
they can take; time passes. Nothing is assumed of the operator: `PipelineEnds` excuses a paused
project and a wave stuck in a failed restore.

## 8. LaneConcurrency

| Model | Code |
|---|---|
| `ctl`, `row`, `durable` | `LaneConcurrencyController` in memory, its `RuntimeLaneControlState` in the session, and the same row as committed |
| `pc`, `streams`, `orphans`, `ready`, `batch` | the loop of `transfer_continuous`, its busy slots, leases of a dead process, eligible objects, the target of the latest dispatch batch |
| `Desired` | `desired_workers`, one operator for each of its stages |
| `Dispatch`, `BootTarget`, `NewEpoch`, `Restored` | the start of a dispatcher and `restore` |
| `Heartbeat`, `Measure`, `Decide` | `apply_critical_concurrency` without and with a new sample, and the slots filled after it |
| `Settle`, `Finish`, `Death`, `Lapse`, `Arrive`, `Wait` | the rest of the loop, process death, lease recovery, new objects, a window without a sample |

Time is counted in sampling windows, a sample is under or over the scale-up threshold, and
what an experiment gained is a choice. The run `autoscale` has up to three streams and
objects, a host whose cap moves between 2 and 3, windows of two samples, one window of settling and of
short cooldown, and two of reprobing. Every branch of the controller has
its turn, restarts fall in every phase, and a death may lose the last decision
(`durable` behind `row`) or leave leases (`orphans`). `held` is a history variable, the
age of the block in force. No liveness is claimed: growth is an option, not a promise.

## 9. What is proved

The proofs hold for every value of the constants allowed by the named
assumptions. These are as weak as the code justifies:
`WaveOf` maps objects to waves and the null values are not waves or objects
(`TransferLane`); sizes, part sizes, the direct limit and the part limit are
positive (`MultipartUpload`, `effective_multipart_part_size` divides by them);
there is a wave, and the null task and object are neither (`DeepAudit`); the minimum of
workers does not exceed the maximum, host pressure never goes below that minimum
(`_raiju_host_capacity`), sequences of samples are not empty, and the short cooldown is no
longer than the reprobe interval (`LaneConcurrency`); a wave has finitely many objects,
of which a subset is archived (`RestoreWave`); keys are finitely many positive numbers, in the
order S3 lists them, prefixes hold disjoint sets of keys, every shard lists keys of the bucket,
there is a revision of a key, and pages and batches are positive (`Discovery`); pipelines are
finitely many positive numbers (their ids), sizes, rates and the limits of a wave are positive, and the minimum,
target and maximum of the buffer are in this order (`RestoreAdmission`).

Two theorems have one more hypothesis, written in the theorem. `DiscoveredIsWhole` takes
`ListedWhole`: the files of an S3 Inventory list every key in scope. `RowsAreOnce` takes
`ListedOnce`: they list no key twice, which is so for the inventory that
`docs/aws-setup.md` (line 433) asks for, `"IncludedObjectVersions": "Current"`. The import
trusts both (RW 1243-1306 filters nothing); the instance that TLC checks satisfies both.

**TransferLane.** `TypeCorrect`, `SettlementIsTrue` and `CompletionIsTrue` come from
`IInv == TypeOK /\ SettledItemIsDelivered /\ CompletedWaveIsDelivered`. The two
safety properties need each other and the type only: a wave is completed from the
objects themselves, and an item settled from the object's row. What makes the
proof long is that every transaction composes several functions. So `Safe(d, e)`
says "`e` is a good database that takes back no delivery of `d`", there is one lemma
per database function (`FinalizeSafe`, `RecoverSafe`, `RefreshSafe`, `LeaseSafe`,
`PauseSafe`, `EnsureSafe`, ...), `SafeTransitive` composes them, and each
action is a chain of them. `DeliveryIsFinal` is the second half of `Safe`.
`ProcessType` carries the type of the in-memory variables.

`RestoredStaysInLane` uses a second relation, `Calm(d, e)`: from `d` to `e` no object
gets out of the lane (`Unqueued`), no pending restore ends, and one begins only under a new approval. It
composes like `Safe` and holds of every database function, with two conditions: what is put
back to RESTORED must have a live item (`UnstartCalm`), so a claim and its return are
one step of the argument; and the invariant must also cover paused waves for objects that never had an
item, because a resume requeues cancelled items only. Two steps are not calm. A poll ends restores:
either the wave still restores something after it, or its last transaction enqueues
everything (`PollKeepsLane`). A late delivery may end a restore that a reapproval began
meanwhile: `LateNeedsApproval` says that the wave then waits for that approval.

`LeasesFence` and `LaneImplementsDelivery` follow the same plan one level up.
`Held(d, o)` says that the queue holds `o` for a stream or has settled it, and
`Firm(d, e, S)` that from `d` to `e` no held object but those of `S` is let go, no
copy of one is reset and nothing is delivered. Its first part shows one lemma per
database function; `S` is what the caller gives back on purpose (the object it
settles, the part of a batch beyond the ceiling). `Fence` is the invariant:
`StreamLeaseFence` alone is not inductive, because a stream must hold its lease before it
copies and after it ends, a reserved successor must hold one before it has a slot,
one object must stay in one slot also while a failed loop drains, and
no stream may copy what is already delivered. The step that could break it is a
claim, which picks a queued object: `ClaimSound` shows that such an object is held
by nobody. A lease lapses only when nobody renews it, which is the guard of `LeaseLapses`.
For the refinement every step is sorted into what a stream does (`Start`, `Deliver`,
`Abandon`), a crash (`Abandon`), and the rest, which is `Quiet`: it starts and
delivers nothing, and `IInv` of the next state makes it an `Account`.

**MultipartUpload.** `CheckpointIsDurable` is from `IInv == Shape /\ Owned /\
RowsAreRanges`. `CheckpointSurvives` alone is not inductive: it needs that the stream
that is about to replace an id holds the row's own id (`Owned`) and that a row
already recorded would be rewritten by the same payload (`RowsAreRanges`).
`ResumeSendsMissingOnly` adds `KInv == Sizes0 /\ RecordedIsAccepted /\ SentIsNew /\
RecordedIsKnown`: what is recorded is in OCI, and the stream knows every record of
the parts it has still to visit. That a recorded part is recognised needs its
length, hence the lemmas `DivBounds`, `DivUpper`, `RangeLength` and `PartsFit`; the
last shows for every size and configured part size that an upload fits in OCI's
limit on parts.

`TypeCorrect`, `DeliveryIsWhole`, `EvidenceIsExact` and `StreamImplementsCopy` add `Typed` and
`DInv`, which follows the bytes: an accepted part is the source range of its number for the part size of
the row (`AcceptedIsRange`), a record equals the part it stands for (`EvidenceIsInRows`), the parts a
stream has visited are held by its upload (`VisitedIsHeld`), a resumed stream knows
every record and a fresh one has no record it did not make (`ResumedKnowsRows`,
`FreshHasDigest`), what OCI has assembled is the source, also before the row says so
(`AcceptedIsWhole`). That ranges in order concatenate to the source
is an induction over the number of parts. The library states induction with an operator
parameter, which the provers cannot instantiate, so the lemma takes a least
counterexample instead (`WellFoundedInduction`, the order on the naturals) and shows that there is
none. The refinement follows from `DInv`: each step of the stream is a step of
`ObjectCopy` or leaves its three variables alone.

**DeepAudit.** `IInv` is `TypeOK` with `VerifiedIsIntact`, `VerifiedWaveIsWhole`,
`ReadIsProven` (an object is read only if it has evidence), `LateIsRetried` (only a
retry moves a task behind others) and `OpenIsUnverified` (what an audit has still to
judge is not VERIFIED by anyone else). The last is the one that is not obvious: a
reprocessing or a second audit must not change the objects a running audit has
selected into something it would then overwrite. `VerdictIsTrue`,
`VerificationIsFinal` and `AuditsAreFIFO` follow.

**RestoreWave.** `IInv` has the type (`Typed`), and for each object in which order the three accounts
move: a copy is seen before the row says so (`ReadyIsSeen`, `RestoredIsObserved`), an order is
never placed for a restored one (`OrderedIsNotRestored`), an item is leasable only while its
object is restored (`QueuedIsRestored`), and a task makes one job (`OneJobPerTask`). `CopiesAreObserved`,
`TasksPayOnce` and `QueueIsRestored` follow. `WaitingIsAccepted` is the hard one: a poll that
a death, a pause and a resume have repeated may come back over a later order. Its argument is
one of phases, `AllAccepted \/ Together`: either some published report has accepted every
archived object, which no step undoes, or the archived objects still go through the
restore together, all assigned with nothing that polls, or all requested under a job that a
single live poll reads.

**Discovery.** A discovery is judged by what it has behind it: `Done` are the keys that a cursor has
passed, over prefixes and pages, and `Read` those an import has read. `Complete` says that every due key
behind either has a row, in the inventory or, behind the worker's own cursor, in the batch it
has not committed; `Held` ties that batch to the worker, so that a death which loses the batch also
loses the cursor that passed it. `DiscoveredIsWhole` is the case where everything is behind. `Once`
says the converse for plain insertions: the keys that have rows are those behind, so that
what the next page brings is new (`InsertedBehind`, `BatchIsAhead`). `EvidenceStays` needs the type,
and in it that a pending change is the newest of its key. The greatest key of a page is shown to exist by
the same kind of argument as for the parts, over the cardinality of finite sets.

**RestoreAdmission.** One cycle of Shin is a composition of passes, each a fold (`Sweep`) over pipelines
or over the waves of one. `IInv` is a database in `Good`: plan and inventory agree (`InPlan`), wave numbers
not yet given are blank (`Unborn`), a completed wave or pipeline holds delivered objects only (`Finished`), and
what waits for admission, failed to be ordered or is queued has no object in restore (`Ordered`).
The last is the strengthening: it is why packing anew finds nothing in flight to take.
As in the lane, relations between two databases compose: `Keeps` (a wave with a task keeps its objects, a failed
wave stays failed with its objects), `Plans` (and nothing is queued), `Moves` (packing
anew moves objects between inventory and waves only) and `Releases` (tasks are added, nothing else).
`Justified(d, e, r)` says of the restores that `e` queues beyond `d` what `AdmissionIsJustified` does; one lemma
per stage carries it through the order of the passes, and `Admissions` is what the inner loop
maintains: its count of slots is exact, and the stock of its projection never falls behind the
real stock, so that a refusal by the projection is a refusal by the buffer.

What a fold computes is an induction along it. The theorems on induction of the library need an operator
parameter, so `StepsExist` and `StepsAgree` show by a least counterexample that a fold
over `1..n` exists as a function and is what `Sweep` returns; a property of every stage then
holds of its end by `Upwards`.

`PlanAsShown` compares two algorithms: `dynamic_wave_plan`, which goes through the objects once and closes a
wave when the next does not fit, and `next_dynamic_wave_plan`, which takes the longest prefix that
fits. `Packed` is the invariant of the first: every closed run is the slice that begins
at its first object (`ClosedRun`, from `FitsPart`: what fits still fits with fewer objects), the
open one is an interval. `Taken` is that of the second: it has taken some of the slices of the
first, and what is left are the others. Both cover everything after as many steps as there are objects.

**LaneConcurrency.** The stages of `desired_workers` are pure functions, so each has a lemma of its own
(`ClampedSane`, `ObservedSane`, `ValidatedSane`, `ProbedSane`) about a controller that
is `Sane`, and `DesiredSane` composes them in the order of the returns. `BlockIsServed` alone is
not inductive: `Serves` says how much of a block has been served, by the age of the
block and what its timer still runs while the timer is set, and by the samples gathered once it
is over. `Ripe` is the same one window before a sample is appended. `Restored` is the
step that could break it, since a restart replaces the timer: it restarts an interval that
was served and never shortens one. `GrowthIsMeasured` needs `Short`: a target below the floor
belongs to a lane with fewer objects than the floor, so that raising it back to the floor
is no growth. `IInv` holds these of the controller in memory, of the row and of
the committed row alike; a death only replaces one by another.

**Only model-checked.** Every safety invariant and action property of the passing runs has a
theorem. Liveness (`RestoredIsServed`, `CopyCompletes`, `AuditEnds`,
`PollEnds`, `DiscoveryEnds`, `PipelineEnds`) and whatever rests on ENABLED stay with TLC.

## 10. What the code says and does not do

Three are `violation` runs with a counterexample; `PROJECT.json` quotes the lines.

1. **A paused and resumed restore is not polled** (`resume`). The pause cancels the
   poll; the resume finds no live task and queues a submission, which finds nothing
   to submit and ends.
2. **An uninterrupted multipart copy fails its audit** (`linearaudit`). Its linear
   digest has been fed twice.
3. **A delivery is rolled back** (`rollback`). An object that the lane copies under
   another anchor is reprocessed; it is delivered while its new restore is being
   ordered, and the commit of the order writes RESTORE_REQUESTED over it.

The following were seen while modelling. They have no run of their own; the models
contain the behaviour, and no property claims the opposite.

*Pauses and approvals.*
- An object of a paused wave that expires makes `mark_restore_reapproval_required` (M
  2951) write RESTORE_REAPPROVAL_REQUIRED over PAUSED. The selection excludes PAUSED only
  (RW 2602): a neighbour is leased and the pause is lost. Neighbours whose items the pause
  had cancelled stay out of the queue until the new approval, although their copies are there
  and `resume_wave`, which would queue them, does not accept a wave that is not PAUSED.
- The pause of a project is read when a task is claimed. `_continuous_item_query` (RW 2589)
  filters by wave status, so a dispatcher that already runs goes on claiming items.
- A pause of the audit within a read is caught by the handler of read errors (RW
  3921), and the object is committed as FAILED.
- A poll that still runs after a pause or a resume writes its own status at its end (RW 1858, 1885,
  before that RW 1754, 1790), and the next reconciliation derives another (RW 3236-3239). An
  approved wave of a pipeline may so lose RESTORE_SCHEDULED, and then nothing admits it.
  `restore_reapproval_is_required` (RW 1186-1193) promises that a stale poll does not do this;
  it is asked at the start of a poll only.
- `retry_restore_evidence` (M 13228) does not look at PAUSED, and on a copy that has
  really expired the poll it queues waits for ever.

*Restore.*
- A death between `create_job` and its commit is repeated with the same token and a new
  manifest; AWS refuses it and the wave is FAILED, with a paid job that no row names.
- A poll with pending objects and no job reads an attempt that was never bound and fails.
- `restore_execution.py:61` names `SimulatedNetworkRecoveryPending`, which the module
  does not import.

*Discovery.*
- `queue_discovery` (M 9545) resumes any failed source with a cursor, also after a failed
  rediscovery. The new job inserts and does not merge: keys after the cursor have two current rows.
- The search for a duplicate change (M 1355) ignores that the change was reprocessed.
  A key that goes A, B, A, B, reprocessed each time but the last, reports no change.

*Planner and admission.*
- A failed restore leaves its objects pending, the reconciliation shows the wave as
  RESTORING (RW 3236), and the pipeline does not stop, although M 11494 says it does.
- The allocation to projects (M 10751) counts neither queued submissions nor waves that
  are draining: two passes in a row may hand out the same slots.
- The maximum buffer is a cap within one pass only (M 11629-11636): stock of restores
  admitted earlier and not yet available is not in the projection.
- The round robin over projects restarts at the least id in every pass (M 10757-10782): with
  one free slot at a time, a later project waits for the end of the earlier ones.
- `resume_wave` queues a submission without asking for a slot.
- A wave left empty by a packing anew is shown VERIFIED (RW 3210-3215).
- A submission that fails for good leaves a wave FAILED that neither reprocess nor delete accepts.

*Autoscaler.*
- The target is not a ceiling of the streams at work (RW 3384): a heartbeat fills free
  slots numbered up to the target, whatever runs in the slots above it (RW 3696).
- After a drain that follows a rejected experiment with a small gain, `restore` keeps the
  long timer; it clears it only where the gain was negative (RW 277-283).
- A restart while fresh samples are being taken after the cooldown starts a new reprobe
  interval (RW 266-276); the comment at RW 374-377 says that it continues.
- A restart within an experiment approves the bootstrap target (RW 3334-3343) and
  judges the experiment with another cohort.
- At the start of a dispatcher `worker_ceiling` subtracts the objects just claimed from a
  count that was taken before they were claimed (RW 3346).

The hazards list holds weaker observations: a request for an audit that is checked and
inserted without a lock costs a second audit; a wave whose audit is paused is shown
COMPLETED until the next resume.

## 11. What is not modelled, and the plan

Next, in this order:

1. **Composition.** Facts about one component on which another relies, stated between the two modules and
   proved: a wave that `RestoreAdmission` has frozen is one whose manifest `RestoreWave` builds; an item
   that `RestoreWave` queues is one that `TransferLane` may lease.
2. **TaskQueue**: several workers on one queue, owners, recovery at start, and the two
   writers of a task's end. One process per queue, as deployed, is what the modules have.
3. `validate_destination` over the lane. It resets what a listing of OCI does not show,
   objects being restored or copied included, and its documentation does not say when it
   may be given; `Discovery` has it as it bears on the inventory.
4. The import of integrity evidence (`record_integrity`, M 10158), deactivation and deletion of sources.
5. A source that changes under a multipart copy: the ranges carry no If-Match.
6. `ContinuousBandwidthPlan`, whose rates are inputs of `LaneConcurrency`.
   `CriticalConcurrencyController` is used by its tests only.

Out of scope: rates, progress, wording and rendering; console reads; access control,
which is left to its tests; schema migrations; shell scripts; Terraform; the browser
console; pricing and closure reports. They keep no state that the properties could relate.

## 12. Running

    tlc -workers 2 -config TransferLane_lane.cfg MCTransferLane.tla
    tlapm TransferLaneFence.tla

| Run | Distinct states | Time on two workers |
|---|---|---|
| `operator` | 992 430 | 2 min |
| `lane` | 988 832 | 2 min |
| `live` | | 3 min, liveness |
| `audit` | | 3 min, liveness |
| `admission` | 243 930 | 2.5 min, liveness |
| `restore` | | 2.5 min, liveness |
| `autoscale` | 281 501 | 1 min |
| `inventory` | 192 648 | 0.5 min, liveness |
| `copy` | | 10 s, liveness |

Deadlock is checked in every run but `inventory` and `admission`.
