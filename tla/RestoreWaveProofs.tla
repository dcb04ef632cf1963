------------------------ MODULE RestoreWaveProofs ------------------------
(***************************************************************************)
(* Theorems of RestoreWave, for every set of objects, archive subset,      *)
(* release policy and bound.                                               *)
(*                                                                         *)
(* WaitingIsAccepted is the hard one: a poll that Death, Pause and Resume  *)
(* have repeated may come back over a later order.  Its argument is one of *)
(* phases.  Either some published report has accepted every archived       *)
(* object, which no step undoes (AllAccepted), or the archived objects     *)
(* still go through the steps of a restore all together (Together): they   *)
(* are all assigned and nothing polls, or all requested under a job that   *)
(* one single live poll reads.                                             *)
(***************************************************************************)
EXTENDS RestoreWave, SequenceTheorems, TLAPS

-----------------------------------------------------------------------------
(* The rows: what each operator of the wave returns *)

\* The types of the rows and, below, of the jobs and of the worker.
ObjState  == Pending \cup {"WAVE_ASSIGNED", "RESTORED", "TRANSFERRING", "TRANSFERRED"}
ItemState == {"NONE", "READY", "LEASED", "CANCELLED", "REAPPROVAL_REQUIRED", "TRANSFERRED"}
TaskState == {"READY", "RUNNING"} \cup TaskEnds
Task      == [kind : {"SUBMIT", "POLL"}, state : TaskState]
Status    == LaneStatus \cup {"PLANNED", "RESTORE_SCHEDULED", "READY_FOR_RESTORE", "RESTORE_REQUESTED",
               "RESTORE_REQUEST_ACCEPTED", "RESTORE_REQUEST_FAILED", "RESTORE_REAPPROVAL_REQUIRED",
               "PAUSED", "FAILED", "COMPLETED"}
Row == [obj : [Objs -> ObjState], item : [Objs -> ItemState], task : Seq(Task), gate : BOOLEAN,
        job : Nat, closed : BOOLEAN, report : BOOLEAN, pipeline : BOOLEAN, status : Status]

\* enqueue_available_transfer_objects queues restored objects and touches
\* nothing else.
LEMMA EnqueueRow ==
    ASSUME NEW d \in Row
    PROVE  /\ Enqueue(d) \in Row
           /\ Enqueue(d) = [d EXCEPT !.item = Enqueue(d).item]
           /\ \A o \in Objs : Enqueue(d).item[o] =
                IF d.obj[o] = "RESTORED" /\ d.item[o] \in {"NONE", "CANCELLED"}
                THEN "READY" ELSE d.item[o]
<1> DEFINE S == InState(d, {"RESTORED"}) \cap WithItem(d, {"NONE", "CANCELLED"})
           p == Put(d.item, S, "READY")
<1>1. d.item \in [Objs -> ItemState] /\ "READY" \in ItemState
      BY DEF Row, ItemState
<1>2. p \in [Objs -> ItemState] /\ \A o \in Objs : p[o] = IF o \in S THEN "READY" ELSE d.item[o]
      BY <1>1 DEF Put
<1>3. \A o \in Objs : o \in S <=> d.obj[o] = "RESTORED" /\ d.item[o] \in {"NONE", "CANCELLED"}
      BY DEF InState, WithItem
<1>4. Enqueue(d) = [d EXCEPT !.item = p]
      BY DEF Enqueue
<1> HIDE DEF p, S
<1>5. Enqueue(d) \in Row /\ Enqueue(d).item = p
      BY <1>2, <1>4 DEF Row
<1>. QED BY <1>2, <1>3, <1>4, <1>5

\* The commit of a task writes its state alone.
LEMMA SetTaskRow ==
    ASSUME NEW d \in Row, NEW t \in DOMAIN d.task, NEW s \in TaskState
    PROVE  /\ [d EXCEPT !.task[t].state = s] \in Row
           /\ [d EXCEPT !.task[t].state = s] = [d EXCEPT !.task = [d.task EXCEPT ![t].state = s]]
           /\ DOMAIN [d EXCEPT !.task[t].state = s].task = DOMAIN d.task
           /\ \A u \in DOMAIN d.task :
                [d EXCEPT !.task[t].state = s].task[u] =
                   IF u = t THEN [kind |-> d.task[t].kind, state |-> s] ELSE d.task[u]
<1> DEFINE q == d.task
           e == [q[t] EXCEPT !.state = s]
           r == [q EXCEPT ![t] = e]
<1>1. q \in Seq(Task) /\ DOMAIN q = 1..Len(q) /\ Len(q) \in Nat
      BY LenProperties DEF Row
<1>2. q[t] \in Task
      BY <1>1, ElementOfSeq
<1>3. e \in Task /\ e = [kind |-> q[t].kind, state |-> s]
      BY <1>2 DEF Task
<1>4. [d EXCEPT !.task[t].state = s] = [d EXCEPT !.task = r]
      BY DEF Row
<1>4a. [d EXCEPT !.task = [d.task EXCEPT ![t].state = s]] = [d EXCEPT !.task = r]
      OBVIOUS
<1> HIDE DEF e
<1>5. /\ r \in Seq(Task) /\ Len(r) = Len(q)
      /\ \A j \in 1..Len(q) : r[j] = IF j = t THEN e ELSE q[j]
      BY <1>1, <1>3, ExceptSeq
<1>6. DOMAIN r = 1..Len(q)
      BY <1>5, LenProperties
<1> HIDE DEF r
<1>7. [d EXCEPT !.task = r] \in Row /\ [d EXCEPT !.task = r].task = r
      BY <1>5 DEF Row
<1>8. \A u \in DOMAIN d.task :
         r[u] = IF u = t THEN [kind |-> d.task[t].kind, state |-> s] ELSE d.task[u]
      BY <1>1, <1>3, <1>5
<1>9. [d EXCEPT !.task[t].state = s].task = r
      BY <1>4, <1>7
<1>. QED BY <1>1, <1>4, <1>4a, <1>6, <1>7, <1>8, <1>9

\* A new task is READY at the end of the queue.
LEMMA NewTaskRow ==
    ASSUME NEW d \in Row, NEW k \in {"SUBMIT", "POLL"}
    PROVE  /\ NewTask(d, k) \in Row
           /\ NewTask(d, k) = [d EXCEPT !.task = NewTask(d, k).task]
           /\ DOMAIN NewTask(d, k).task = DOMAIN d.task \cup {Len(d.task) + 1}
           /\ Len(d.task) + 1 \notin DOMAIN d.task
           /\ \A u \in DOMAIN d.task : NewTask(d, k).task[u] = d.task[u]
           /\ NewTask(d, k).task[Len(d.task) + 1] = [kind |-> k, state |-> "READY"]
<1> DEFINE q == d.task
           e == [kind |-> k, state |-> "READY"]
           r == Append(q, e)
<1>1. q \in Seq(Task) /\ DOMAIN q = 1..Len(q) /\ Len(q) \in Nat
      BY LenProperties DEF Row
<1>2. e \in Task
      BY DEF Task, TaskState
<1>3. NewTask(d, k) = [d EXCEPT !.task = r]
      BY DEF NewTask
<1> HIDE DEF e
<1>4. /\ r \in Seq(Task) /\ Len(r) = Len(q) + 1 /\ r[Len(q) + 1] = e
      /\ \A j \in 1..Len(q) : r[j] = q[j]
      BY <1>1, <1>2
<1>5. DOMAIN r = 1..Len(q) + 1
      BY <1>4, LenProperties
<1> HIDE DEF r
<1>6. [d EXCEPT !.task = r] \in Row /\ [d EXCEPT !.task = r].task = r
      BY <1>4 DEF Row
<1>7. 1..Len(q) + 1 = 1..Len(q) \cup {Len(q) + 1} /\ Len(q) + 1 \notin 1..Len(q)
      BY <1>1
<1>. QED BY <1>1, <1>3, <1>4, <1>5, <1>6, <1>7 DEF e

\* Nothing but the queue items of d.
ItemsOnly(d, e) ==
    /\ e.obj = d.obj /\ e.task = d.task /\ e.gate = d.gate /\ e.job = d.job /\ e.closed = d.closed
    /\ e.report = d.report /\ e.pipeline = d.pipeline /\ e.status = d.status

LEMMA EnqueueKeeps == ASSUME NEW d \in Row PROVE ItemsOnly(d, Enqueue(d))
    BY EnqueueRow DEF ItemsOnly, Row

LEMMA RestockRow ==
    ASSUME NEW d \in Row
    PROVE  /\ Restock(d) \in Row /\ ItemsOnly(d, Restock(d))
           /\ \A o \in Objs : Restock(d).item[o] = d.item[o] \/
                 (d.obj[o] = "RESTORED" /\ d.item[o] \in {"NONE", "CANCELLED"}
                   /\ Restock(d).item[o] = "READY")
<1>1. CASE Restock(d) = d
      BY <1>1 DEF ItemsOnly
<1>2. CASE Restock(d) = Enqueue(d)
      BY <1>2, EnqueueRow, EnqueueKeeps
<1>. QED BY <1>1, <1>2 DEF Restock

\* An approval sends back one object, unless it is in OCI.
LEMMA RequireApprovalRow ==
    ASSUME NEW d \in Row, NEW o \in Objs
    PROVE  LET e == RequireApproval(d, o)
           IN  /\ e \in Row
               /\ e = d \/
                   /\ e.obj = [d.obj EXCEPT ![o] = "RESTORE_REQUESTED"]
                   /\ e.item = [d.item EXCEPT ![o] = "REAPPROVAL_REQUIRED"]
                   /\ e.task = d.task /\ e.job = d.job /\ e.closed = d.closed
                   /\ e.report = d.report /\ e.pipeline = d.pipeline
<1> DEFINE e == RequireApproval(d, o)
<1>1. CASE d.item[o] = "TRANSFERRED" \/ d.obj[o] = "TRANSFERRED"
      BY <1>1 DEF RequireApproval
<1>2. CASE ~(d.item[o] = "TRANSFERRED" \/ d.obj[o] = "TRANSFERRED")
  <2> DEFINE p == [d.obj EXCEPT ![o] = "RESTORE_REQUESTED"]
             q == [d.item EXCEPT ![o] = "REAPPROVAL_REQUIRED"]
  <2>1. p \in [Objs -> ObjState] /\ q \in [Objs -> ItemState]
        BY DEF Row, ObjState, ItemState, Pending
  <2>2. e = [d EXCEPT !.item = q, !.obj = p, !.status = "RESTORE_REAPPROVAL_REQUIRED", !.gate = TRUE]
        BY <1>2 DEF RequireApproval, Row
  <2> HIDE DEF p, q, e
  <2>3. e \in Row /\ e.obj = p /\ e.item = q /\ e.task = d.task /\ e.job = d.job /\ e.closed = d.closed
          /\ e.report = d.report /\ e.pipeline = d.pipeline
        BY <2>1, <2>2 DEF Row, Status
  <2>. QED BY <2>3 DEF p, q, e
<1>. QED BY <1>1, <1>2

\* e has the objects, items and job of d.
SameWork(d, e) ==
    /\ e.obj = d.obj /\ e.item = d.item /\ e.gate = d.gate /\ e.job = d.job
    /\ e.pipeline = d.pipeline /\ e.report = d.report

\* Of the tasks of d, e gives t the state s.
TaskSet(d, e, t, s) ==
    /\ DOMAIN e.task = DOMAIN d.task
    /\ \A u \in DOMAIN d.task :
          e.task[u] = IF u = t THEN [kind |-> d.task[t].kind, state |-> s] ELSE d.task[u]

LEMMA TaskSetRow ==
    ASSUME NEW d \in Row, NEW t \in DOMAIN d.task, NEW s \in TaskState
    PROVE  LET e == [d EXCEPT !.task[t].state = s]
           IN  e \in Row /\ SameWork(d, e) /\ TaskSet(d, e, t, s) /\ e.closed = d.closed
             /\ e.status = d.status
<1> DEFINE e == [d EXCEPT !.task[t].state = s]
           r == [d.task EXCEPT ![t].state = s]
<1>1. e \in Row /\ e = [d EXCEPT !.task = r] /\ TaskSet(d, e, t, s)
  <2>1. /\ e \in Row /\ e = [d EXCEPT !.task = r] /\ DOMAIN e.task = DOMAIN d.task
        /\ \A u \in DOMAIN d.task :
              e.task[u] = IF u = t THEN [kind |-> d.task[t].kind, state |-> s] ELSE d.task[u]
    <3>1. e \in Row
          BY SetTaskRow
    <3>2. e = [d EXCEPT !.task = r]
          BY SetTaskRow
    <3>3. DOMAIN e.task = DOMAIN d.task
          BY SetTaskRow
    <3>4. \A u \in DOMAIN d.task :
             e.task[u] = IF u = t THEN [kind |-> d.task[t].kind, state |-> s] ELSE d.task[u]
          BY SetTaskRow
    <3>. QED BY <3>1, <3>2, <3>3, <3>4
  <2> HIDE DEF e, r
  <2>. QED BY <2>1 DEF TaskSet
<1> HIDE DEF r
<1>2. SameWork(d, e) /\ e.closed = d.closed /\ e.status = d.status
      BY <1>1 DEF SameWork, Row
<1>. QED BY <1>1, <1>2

\* A retry and the failures of a task change no object and no item.
LEMMA RetryRow ==
    ASSUME NEW d \in Row, NEW t \in DOMAIN d.task
    PROVE  LET e == Retry(d, t)
           IN  e \in Row /\ SameWork(d, e) /\ TaskSet(d, e, t, "READY") /\ e.closed = d.closed
             /\ e.status = d.status
    BY TaskSetRow DEF Retry, TaskState

LEMMA FailRow ==
    ASSUME NEW d \in Row, NEW t \in DOMAIN d.task
    PROVE  LET e == Fail(d, t)
           IN  /\ e \in Row /\ SameWork(d, e) /\ TaskSet(d, e, t, "FAILED") /\ e.closed = d.closed
               /\ e.status \in {d.status, "FAILED"}
<1> DEFINE c == [d EXCEPT !.task[t].state = "FAILED"]
           s == IF d.status \in {"PAUSED", "RESTORE_REQUEST_FAILED", "RESTORE_REAPPROVAL_REQUIRED"}
                THEN d.status ELSE "FAILED"
           e == Fail(d, t)
<1>1. "FAILED" \in TaskState
      BY DEF TaskState, TaskEnds
<1>2. c \in Row /\ SameWork(d, c) /\ TaskSet(d, c, t, "FAILED") /\ c.closed = d.closed
        /\ c.status = d.status
      BY <1>1, TaskSetRow
<1>3. e = [c EXCEPT !.status = s]
      BY DEF Fail
<1>4. s \in Status /\ s \in {d.status, "FAILED"}
      BY DEF Row, Status
<1> HIDE DEF c, s, e
<1>5. e \in Row /\ e.task = c.task /\ e.obj = c.obj /\ e.item = c.item /\ e.gate = c.gate
        /\ e.job = c.job
        /\ e.pipeline = c.pipeline /\ e.report = c.report /\ e.closed = c.closed /\ e.status = s
      BY <1>2, <1>3, <1>4 DEF Row
<1>. QED BY <1>2, <1>4, <1>5 DEF e, SameWork, TaskSet

LEMMA FailAttemptRow ==
    ASSUME NEW d \in Row, NEW t \in DOMAIN d.task
    PROVE  LET e == FailAttempt(d, t)
           IN  /\ e \in Row /\ SameWork(d, e) /\ TaskSet(d, e, t, "FAILED") /\ e.closed = TRUE
               /\ e.status = "RESTORE_REQUEST_FAILED"
<1> DEFINE c == [d EXCEPT !.closed = TRUE, !.status = "RESTORE_REQUEST_FAILED"]
           e == Fail(c, t)
<1>1. /\ c \in Row /\ SameWork(d, c) /\ c.task = d.task /\ c.closed = TRUE
      /\ c.status = "RESTORE_REQUEST_FAILED"
      BY DEF Row, Status, SameWork
<1>2. FailAttempt(d, t) = e
      BY DEF FailAttempt
<1> HIDE DEF c
<1>3. e \in Row /\ SameWork(c, e) /\ TaskSet(c, e, t, "FAILED") /\ e.closed = c.closed
      BY <1>1, FailRow
<1>4. e.status = "RESTORE_REQUEST_FAILED"
      BY <1>1 DEF Fail, Row
<1>. QED BY <1>1, <1>2, <1>3, <1>4 DEF SameWork, TaskSet

\* A pause leaves no task active and no item ready.
LEMMA CancelWorkRow ==
    ASSUME NEW d \in Row
    PROVE  LET e == CancelWork(d)
           IN  /\ e \in Row /\ e.obj = d.obj /\ e.gate = d.gate /\ e.job = d.job /\ e.closed = d.closed
               /\ e.report = d.report /\ e.pipeline = d.pipeline /\ e.status = d.status
               /\ \A o \in Objs : e.item[o] = IF d.item[o] = "READY" THEN "CANCELLED" ELSE d.item[o]
               /\ DOMAIN e.task = DOMAIN d.task
               /\ \A t \in DOMAIN d.task : /\ e.task[t].kind = d.task[t].kind
                                           /\ e.task[t].state \notin {"READY", "RUNNING"}
<1> DEFINE q == d.task
           r == [t \in DOMAIN q |-> IF t \in Active(d, {"SUBMIT", "POLL"})
                                    THEN [q[t] EXCEPT !.state = "CANCELLED"] ELSE q[t]]
           p == Put(d.item, WithItem(d, {"READY"}), "CANCELLED")
           e == CancelWork(d)
<1>1. q \in Seq(Task) /\ DOMAIN q = 1..Len(q) /\ Len(q) \in Nat /\ \A t \in DOMAIN q : q[t] \in Task
      BY LenProperties, ElementOfSeq DEF Row
<1>2. \A t \in DOMAIN q : r[t] \in Task /\ r[t].kind = q[t].kind
                            /\ r[t].state \notin {"READY", "RUNNING"}
  <2>. SUFFICES ASSUME NEW t \in DOMAIN q
                PROVE  r[t] \in Task /\ r[t].kind = q[t].kind /\ r[t].state \notin {"READY", "RUNNING"}
       OBVIOUS
  <2>1. q[t] \in Task /\ q[t].kind \in {"SUBMIT", "POLL"}
        BY <1>1 DEF Task
  <2>2. CASE q[t].state \in {"READY", "RUNNING"}
    <3>1. r[t] = [q[t] EXCEPT !.state = "CANCELLED"]
          BY <2>1, <2>2 DEF Active
    <3>. QED BY <2>1, <3>1 DEF Task, TaskState, TaskEnds
  <2>3. CASE q[t].state \notin {"READY", "RUNNING"}
    <3>1. r[t] = q[t]
          BY <2>3 DEF Active
    <3>. QED BY <2>1, <2>3, <3>1
  <2>. QED BY <2>2, <2>3
<1>3. DOMAIN r = DOMAIN q
      OBVIOUS
<1>4. r \in Seq(Task)
  <2>1. r \in [1..Len(q) -> Task]
        BY <1>1, <1>2
  <2> HIDE DEF r, q
  <2>. QED BY <1>1, <2>1, SeqDef
<1>5. p \in [Objs -> ItemState]
        /\ \A o \in Objs : p[o] = IF d.item[o] = "READY" THEN "CANCELLED" ELSE d.item[o]
      BY DEF Put, WithItem, Row, ItemState
<1>6. e = [d EXCEPT !.task = r, !.item = p]
      BY DEF CancelWork
<1> HIDE DEF r, p, e
<1>7. /\ e \in Row /\ e.obj = d.obj /\ e.gate = d.gate /\ e.job = d.job /\ e.closed = d.closed
      /\ e.report = d.report /\ e.pipeline = d.pipeline /\ e.status = d.status
      /\ e.item = p /\ e.task = r
      BY <1>4, <1>5, <1>6 DEF Row
<1>. QED BY <1>2, <1>3, <1>5, <1>7 DEF e

-----------------------------------------------------------------------------
(* The inductive invariant *)

Job     == [token : Nat, objs : SUBSET Archive, refused : SUBSET Archive,
            state : {"Active", "Complete", "Failed", "Reported"}]
Copy    == {"archived", "restoring", "available", "expired", "renewing"}
AwsSet  == [jobs : Seq(Job), copy : [Archive -> Copy]]
Worker  == [step : {"idle", "claimed", "ordered", "probing"}, task : Nat, job : Nat,
            left : SUBSET Archive, ready : SUBSET Archive]

Typed ==
    /\ db \in Row /\ aws \in AwsSet /\ sei \in Worker /\ copying \subseteq Objs
    /\ db.job <= Len(aws.jobs) /\ sei.job <= Len(aws.jobs)
    /\ sei.step # "idle" => sei.task \in DOMAIN db.task
    /\ sei.step = "ordered" => sei.job # 0

\* S3 has shown the copy of o at least once.
Seen(o) == aws.copy[o] \notin {"archived", "restoring"}

ReadyIsSeen == \A o \in sei.ready : Seen(o)

\* Between the order and its commit nobody restores an object of it.
OrderedIsNotRestored ==
    sei.step = "ordered" => \A o \in sei.left : db.obj[o] # "RESTORED"

\* A published report says that S3 accepted the request for o.
Accepted(o) ==
    \E j \in DOMAIN aws.jobs :
        aws.jobs[j].state = "Reported" /\ o \in aws.jobs[j].objs \ aws.jobs[j].refused

AllAccepted == \A o \in Archive : Accepted(o)

\* The polls that may be claimed, and with them the one that Sei holds: its
\* retry revives it.
Polls(d, t) ==
    t \in DOMAIN d.task /\ d.task[t].kind = "POLL" /\ d.task[t].state \in {"READY", "RUNNING"}
Live(t) ==
    \/ Polls(db, t)
    \/ sei.step \in {"claimed", "probing"} /\ sei.task = t /\ db.task[t].kind = "POLL"

Unordered ==
    /\ db.job = 0
    /\ \A o \in Archive : db.obj[o] = "WAVE_ASSIGNED"
    /\ \A t \in DOMAIN db.task : ~Polls(db, t)
    /\ sei.step = "probing" => sei.left = {} /\ sei.job = 0

Ordered ==
    /\ db.job # 0
    /\ \A o \in Archive : db.obj[o] = "RESTORE_REQUESTED"
    /\ sei.step \notin {"ordered", "probing"}
    /\ \A t, u \in DOMAIN db.task : Live(t) /\ Live(u) => t = u
    /\ db.closed /\ db.report => \A t \in DOMAIN db.task : ~Live(t)

\* Until all archived objects are accepted they go through the steps of a
\* restore together, one job and one poll at a time.
Together ==
    /\ ~db.gate /\ db.status # "RESTORE_REAPPROVAL_REQUIRED"
    /\ \A o \in Archive : db.item[o] = "NONE" /\ o \notin copying
    /\ \A o \in Objs : db.item[o] # "REAPPROVAL_REQUIRED"
    /\ \A j \in DOMAIN aws.jobs : aws.jobs[j].objs = Archive
    /\ sei.ready = {}
    /\ sei.step = "ordered" => sei.left = Archive
    /\ Unordered \/ Ordered

IInv == /\ Typed /\ ReadyIsSeen /\ OrderedIsNotRestored
        /\ RestoredIsObserved /\ QueuedIsRestored /\ OneJobPerTask
        /\ AllAccepted \/ Together

\* From d to e no poll comes or comes back.
TaskQuiet(d, e) ==
    /\ DOMAIN d.task \subseteq DOMAIN e.task
    /\ \A t \in DOMAIN d.task : e.task[t].kind = d.task[t].kind
    /\ \A t \in DOMAIN e.task : Polls(e, t) => Polls(d, t)

LEMMA SetQuiet ==
    ASSUME NEW d \in Row, NEW e, NEW t \in DOMAIN d.task, NEW s, TaskSet(d, e, t, s),
           s \notin {"READY", "RUNNING"} \/ Polls(d, t) \/ d.task[t].kind # "POLL"
    PROVE  TaskQuiet(d, e)
    BY DEF TaskSet, TaskQuiet, Polls

LEMMA SubmitQuiet ==
    ASSUME NEW d \in Row
    PROVE  TaskQuiet(d, NewTask(d, "SUBMIT"))
<1> DEFINE e == NewTask(d, "SUBMIT")
           n == Len(d.task) + 1
<1>1. /\ DOMAIN e.task = DOMAIN d.task \cup {n} /\ \A u \in DOMAIN d.task : e.task[u] = d.task[u]
      /\ e.task[n] = [kind |-> "SUBMIT", state |-> "READY"]
      BY NewTaskRow
<1> HIDE DEF e, n
<1>2. \A t \in DOMAIN e.task : Polls(e, t) => Polls(d, t)
      BY <1>1 DEF Polls
<1>3. TaskQuiet(d, e)
      BY <1>1, <1>2 DEF TaskQuiet
<1>. QED BY <1>3 DEF e

\* What is said of AWS alone stays with it.
LEMMA SameAws ==
    ASSUME UNCHANGED aws
    PROVE  /\ \A o : Seen(o)' = Seen(o)
           /\ AllAccepted' = AllAccepted /\ OneJobPerTask' = OneJobPerTask
    BY DEF Seen, AllAccepted, Accepted, OneJobPerTask

\* The phase stays while archived objects and the attempt do and no poll comes.
LEMMA StayTogether ==
    ASSUME Typed, Together, UNCHANGED aws,
           \A o \in Archive : db'.obj[o] = db.obj[o] /\ db'.item[o] = "NONE" /\ o \notin copying',
           \A o \in Objs : db'.item[o] # "REAPPROVAL_REQUIRED",
           ~db'.gate, db'.status # "RESTORE_REAPPROVAL_REQUIRED", db'.job = db.job,
           db'.closed = db.closed, db'.report = db.report, TaskQuiet(db, db'),
           \/ sei' = sei
           \/ sei'.ready = {} /\ sei'.step = "idle"
           \/ sei'.ready = {} /\ sei'.step = "claimed"
                /\ (db.task[sei'.task].kind = "POLL" => Polls(db, sei'.task))
                /\ sei'.task \in DOMAIN db.task
    PROVE  Together'
<1>1. \A t \in DOMAIN db'.task : Live(t)' => t \in DOMAIN db.task /\ Live(t)
      BY DEF Live, TaskQuiet, Polls, Typed
<1>2. Unordered => Unordered'
      BY DEF Unordered, TaskQuiet, Polls
<1>3. Ordered => Ordered'
      BY <1>1 DEF Ordered
<1>4. sei'.ready = {} /\ (sei'.step = "ordered" => sei'.left = Archive)
      BY DEF Together
<1>. QED BY <1>2, <1>3, <1>4 DEF Together

LEMMA IdleWorker ==
    Idle \in Worker /\ Idle.step = "idle" /\ Idle.ready = {} /\ Idle.left = {} /\ Idle.job = 0
    BY DEF Idle, Worker

LEMMA InitInv == Init => IInv
<1> SUFFICES ASSUME Init PROVE IInv
    OBVIOUS
<1>1. db \in Row /\ aws \in AwsSet /\ sei \in Worker /\ copying \subseteq Objs
  <2>1. PICK p \in BOOLEAN :
          db = [obj |-> [o \in Objs |-> "WAVE_ASSIGNED"], item |-> [o \in Objs |-> "NONE"],
                task |-> <<>>, gate |-> FALSE, job |-> 0, closed |-> FALSE, report |-> FALSE,
                pipeline |-> p, status |-> IF p THEN "RESTORE_SCHEDULED" ELSE "PLANNED"]
        BY DEF Init
  <2>2. <<>> \in Seq(Task) /\ <<>> \in Seq(Job)
        OBVIOUS
  <2>3. db \in Row
        BY <2>1, <2>2 DEF Row, ObjState, ItemState, Status
  <2>. QED BY <2>2, <2>3, IdleWorker DEF Init, AwsSet, Copy
<1>2. db.job = 0 /\ sei.job = 0 /\ Len(aws.jobs) = 0 /\ aws.jobs = <<>> /\ db.task = <<>> /\ sei = Idle
      BY DEF Init, Idle
<1>3. Typed
      BY <1>1, <1>2, IdleWorker DEF Typed
<1>4. ReadyIsSeen /\ OrderedIsNotRestored /\ RestoredIsObserved /\ QueuedIsRestored /\ OneJobPerTask
      BY <1>2, IdleWorker
         DEF Init, ReadyIsSeen, OrderedIsNotRestored, RestoredIsObserved, QueuedIsRestored,
         OneJobPerTask,
          InState, WithItem
<1>5. Together
      BY <1>2, IdleWorker, RestoreWaveAssumption DEF Init, Together, Unordered, Polls
<1>. QED BY <1>3, <1>4, <1>5 DEF IInv

-----------------------------------------------------------------------------
(* Claims, deaths, and what ends a task and nothing else *)

\* Such a step: the rows of the wave stay, the worker starts or stops.
LEMMA EndOnly ==
    ASSUME IInv, UNCHANGED aws, copying' = copying, db' \in Row, SameWork(db, db'),
             db'.closed = db.closed,
           TaskQuiet(db, db'),
           db.status # "RESTORE_REAPPROVAL_REQUIRED" => db'.status # "RESTORE_REAPPROVAL_REQUIRED",
           sei' \in Worker, sei'.ready = {}, sei'.job = 0,
           \/ sei'.step = "idle"
           \/ sei'.step = "claimed" /\ (db.task[sei'.task].kind = "POLL" => Polls(db, sei'.task))
                /\ sei'.task \in DOMAIN db.task
    PROVE  IInv'
<1>1. Typed'
      BY DEF IInv, Typed, SameWork, TaskQuiet
<1>2. ReadyIsSeen' /\ OrderedIsNotRestored'
      BY DEF ReadyIsSeen, OrderedIsNotRestored
<1>3. RestoredIsObserved' /\ QueuedIsRestored'
      BY SameAws DEF IInv, RestoredIsObserved, QueuedIsRestored, InState, WithItem, SameWork
<1>4. Together => Together'
      BY StayTogether DEF IInv, SameWork, Together
<1>. QED BY <1>1, <1>2, <1>3, <1>4, SameAws DEF IInv

LEMMA ClaimStep == ASSUME IInv, NEW k \in {"SUBMIT", "POLL"}, Claim(k) PROVE IInv'
<1>1. PICK t \in Claimable(db, k) :
         /\ db' = [db EXCEPT !.task[t].state = "RUNNING"]
         /\ sei' = [Idle EXCEPT !.step = "claimed", !.task = t]
      BY DEF Claim
<1>2. t \in DOMAIN db.task /\ db.task[t].kind = k /\ db.task[t].state \in {"READY", "RUNNING"}
      BY DEF Claimable, Active
<1>3. db \in Row /\ "RUNNING" \in TaskState
      BY DEF IInv, Typed, TaskState
<1>4. db' \in Row /\ SameWork(db, db') /\ TaskSet(db, db', t, "RUNNING") /\ db'.closed = db.closed
        /\ db'.status = db.status
      BY <1>1, <1>2, <1>3, TaskSetRow
<1>5. TaskQuiet(db, db')
      BY <1>2, <1>3, <1>4, SetQuiet DEF Polls
<1>6. t \in Nat
      BY <1>2, <1>3, LenProperties DEF Row
<1>7. sei' \in Worker /\ sei'.ready = {} /\ sei'.job = 0 /\ sei'.step = "claimed" /\ sei'.task = t
      BY <1>1, <1>6 DEF Idle, Worker
<1>8. UNCHANGED aws /\ copying' = copying
      BY DEF Claim
<1>. QED BY <1>2, <1>4, <1>5, <1>7, <1>8, EndOnly DEF Polls

LEMMA DeathStep == ASSUME IInv, Death PROVE IInv'
<1>1. UNCHANGED <<db, aws, copying>> /\ sei' = Idle
      BY DEF Death
<1>2. SameWork(db, db') /\ TaskQuiet(db, db')
      BY <1>1 DEF SameWork, TaskQuiet, Polls
<1>. QED BY <1>1, <1>2, IdleWorker, EndOnly DEF IInv, Typed

LEMMA OrderRefusedStep == ASSUME IInv, OrderRefused PROVE IInv'
<1>1. UNCHANGED <<aws, copying>> /\ sei' = Idle /\ db' = Fail(db, sei.task)
        /\ sei.task \in DOMAIN db.task /\ db \in Row
      BY DEF OrderRefused, Holds, IInv, Typed
<1>2. db' \in Row /\ SameWork(db, db') /\ TaskSet(db, db', sei.task, "FAILED") /\ db'.closed = db.closed
        /\ db'.status \in {db.status, "FAILED"}
      BY <1>1, FailRow
<1>3. TaskQuiet(db, db')
      BY <1>1, <1>2, SetQuiet
<1>. QED BY <1>1, <1>2, <1>3, IdleWorker, EndOnly

LEMMA PollFailsStep == ASSUME IInv, PollFails PROVE IInv'
<1>1. UNCHANGED <<aws, copying>> /\ sei' = Idle /\ db' = Fail(db, sei.task)
        /\ sei.task \in DOMAIN db.task /\ db \in Row
      BY DEF PollFails, Holds, IInv, Typed
<1>2. db' \in Row /\ SameWork(db, db') /\ TaskSet(db, db', sei.task, "FAILED") /\ db'.closed = db.closed
        /\ db'.status \in {db.status, "FAILED"}
      BY <1>1, FailRow
<1>3. TaskQuiet(db, db')
      BY <1>1, <1>2, SetQuiet
<1>. QED BY <1>1, <1>2, <1>3, IdleWorker, EndOnly

LEMMA SupersedeStep == ASSUME IInv, Supersede PROVE IInv'
<1>1. UNCHANGED <<aws, copying>> /\ sei' = Idle
        /\ db' = [db EXCEPT !.task[sei.task].state = "CANCELLED"]
        /\ sei.task \in DOMAIN db.task /\ db \in Row /\ "CANCELLED" \in TaskState
      BY DEF Supersede, Holds, IInv, Typed, TaskState, TaskEnds
<1>2. db' \in Row /\ SameWork(db, db') /\ TaskSet(db, db', sei.task, "CANCELLED")
        /\ db'.closed = db.closed
        /\ db'.status = db.status
      BY <1>1, TaskSetRow
<1>3. TaskQuiet(db, db')
      BY <1>1, <1>2, SetQuiet
<1>. QED BY <1>1, <1>2, <1>3, IdleWorker, EndOnly

-----------------------------------------------------------------------------
(* Sei: the submission *)

LEMMA SubmitNothingStep == ASSUME IInv, SubmitNothing PROVE IInv'
<1> DEFINE p == Put(db.obj, InState(db, {"WAVE_ASSIGNED"}), "RESTORED")
           t == sei.task
           c == [db EXCEPT !.obj = p, !.status = "RESTORED"]
           d == [c EXCEPT !.task[t].state = "SUCCEEDED"]
<1>1. /\ UNCHANGED <<aws, copying>> /\ sei' = Idle /\ t \in DOMAIN db.task /\ db \in Row
      /\ \A o \in Archive : db.obj[o] # "WAVE_ASSIGNED"
      BY RestoreWaveAssumption DEF SubmitNothing, Holds, IInv, Typed, Archives, InState
<1>2. db' = Enqueue(d)
      BY DEF SubmitNothing, Row, IInv, Typed
<1>3. /\ p \in [Objs -> ObjState]
      /\ \A o \in Objs : p[o] = IF db.obj[o] = "WAVE_ASSIGNED" THEN "RESTORED" ELSE db.obj[o]
      BY <1>1 DEF Put, Row, InState, ObjState
<1> HIDE DEF p
<1>4. /\ c \in Row /\ c.obj = p /\ c.status = "RESTORED" /\ c.task = db.task /\ c.gate = db.gate
      /\ c.job = db.job /\ c.closed = db.closed /\ c.report = db.report /\ c.item = db.item
      BY <1>1, <1>3 DEF Row, Status, LaneStatus
<1> HIDE DEF c
<1>5. /\ d \in Row /\ SameWork(c, d) /\ TaskSet(c, d, t, "SUCCEEDED") /\ d.closed = c.closed
      /\ d.status = c.status
  <2>1. t \in DOMAIN c.task /\ "SUCCEEDED" \in TaskState
        BY <1>1, <1>4 DEF TaskState, TaskEnds
  <2>. QED BY <1>4, <2>1, TaskSetRow
<1> HIDE DEF d
<1>6. /\ db' \in Row /\ db'.obj = p /\ db'.status = "RESTORED" /\ db'.gate = db.gate /\ db'.job = db.job
      /\ db'.closed = db.closed /\ db'.report = db.report /\ db'.task = d.task
      BY <1>2, <1>4, <1>5, EnqueueRow, EnqueueKeeps DEF SameWork, ItemsOnly
<1>7. \A o \in Objs : db'.item[o] = IF p[o] = "RESTORED" /\ db.item[o] \in {"NONE", "CANCELLED"}
                                    THEN "READY" ELSE db.item[o]
      BY <1>2, <1>4, <1>5, EnqueueRow DEF SameWork
<1>8. TaskQuiet(db, db')
  <2>1. TaskQuiet(c, d)
        BY <1>1, <1>4, <1>5, SetQuiet
  <2>. QED BY <1>4, <1>6, <2>1 DEF TaskQuiet, Polls
<1>9. Typed'
      BY <1>1, <1>6, IdleWorker DEF IInv, Typed
<1>10. ReadyIsSeen' /\ OrderedIsNotRestored'
      BY <1>1, IdleWorker DEF ReadyIsSeen, OrderedIsNotRestored
<1>11. RestoredIsObserved'
      BY <1>1, <1>3, <1>6, RestoreWaveAssumption DEF IInv, RestoredIsObserved, InState
<1>12. QueuedIsRestored'
      BY <1>3, <1>6, <1>7 DEF IInv, QueuedIsRestored, WithItem
<1>13. Together => Together'
  <2>. SUFFICES ASSUME Together PROVE Together'
       OBVIOUS
  <2>1. \A o \in Archive : db.obj[o] = "RESTORE_REQUESTED" /\ db'.obj[o] = db.obj[o]
                             /\ db'.item[o] = "NONE"
        BY <1>1, <1>3, <1>6, <1>7, RestoreWaveAssumption DEF Together, Unordered, Ordered
  <2>2. \A o \in Objs : db'.item[o] # "REAPPROVAL_REQUIRED"
        BY <1>7 DEF Together
  <2>. QED BY <1>1, <1>6, <1>8, <2>1, <2>2, IdleWorker, StayTogether DEF Together, IInv
<1>. QED BY <1>1, <1>9, <1>10, <1>11, <1>12, <1>13, SameAws DEF IInv

LEMMA OrderStep == ASSUME IInv, Order PROVE IInv'
<1> DEFINE new == [token |-> sei.task, objs |-> Archives(db), state |-> "Active", refused |-> {}]
           jobs == aws.jobs
           n == Len(jobs) + 1
<1>1. /\ UNCHANGED <<db, copying>> /\ aws' = [aws EXCEPT !.jobs = Append(jobs, new)]
      /\ sei' = [sei EXCEPT !.step = "ordered", !.job = n, !.left = Archives(db)]
      /\ Archives(db) # {} /\ ~TokenUsed(sei.task) /\ sei.step = "claimed"
           /\ sei.task \in DOMAIN db.task
      BY DEF Order, Holds, IInv, Typed
<1>2. jobs \in Seq(Job) /\ DOMAIN jobs = 1..Len(jobs) /\ Len(jobs) \in Nat
      BY LenProperties DEF IInv, Typed, AwsSet
<1>3. new \in Job /\ Archives(db) \in SUBSET Archive
      BY <1>1 DEF Job, Archives, IInv, Typed, Worker
<1> HIDE DEF new
<1>4. /\ Append(jobs, new) \in Seq(Job) /\ Len(Append(jobs, new)) = n
      /\ Append(jobs, new)[n] = new /\ \A j \in 1..Len(jobs) : Append(jobs, new)[j] = jobs[j]
      BY <1>2, <1>3
<1>5. DOMAIN Append(jobs, new) = 1..n
      BY <1>4, LenProperties
<1> DEFINE r == Append(jobs, new)
<1> HIDE DEF r
<1>6. aws' \in AwsSet /\ aws'.jobs = r /\ aws'.copy = aws.copy
      BY <1>1, <1>4 DEF IInv, Typed, AwsSet, r
<1>7. sei' \in Worker /\ sei'.task = sei.task /\ sei'.left = Archives(db) /\ sei'.job = n
        /\ sei'.ready = sei.ready /\ sei'.step = "ordered"
  <2>1. sei \in Worker /\ n \in Nat
        BY <1>2 DEF IInv, Typed
  <2> DEFINE l == Archives(db)
  <2> HIDE DEF l, n
  <2>2. sei' = [sei EXCEPT !.step = "ordered", !.job = n, !.left = l] /\ l \in SUBSET Archive
        BY <1>1, <1>3 DEF l, n
  <2>3. sei' \in Worker /\ sei'.task = sei.task /\ sei'.left = l /\ sei'.job = n
        /\ sei'.ready = sei.ready /\ sei'.step = "ordered"
        BY <2>1, <2>2 DEF Worker
  <2>. QED BY <2>3 DEF l
<1>8. Typed'
  <2>1. Len(aws'.jobs) = n /\ db'.job = db.job /\ db.job \in Nat /\ db.job <= Len(jobs)
        BY <1>1, <1>4, <1>6 DEF r, IInv, Typed, Row
  <2>2. db'.job <= Len(aws'.jobs) /\ sei'.job <= Len(aws'.jobs) /\ n # 0
        BY <1>2, <1>7, <2>1
  <2>. QED BY <1>1, <1>6, <1>7, <2>2 DEF IInv, Typed
<1>9. \A o : Seen(o)' = Seen(o)
      BY <1>6 DEF Seen
<1>10. ReadyIsSeen' /\ OrderedIsNotRestored'
      BY <1>1, <1>7, <1>9 DEF IInv, ReadyIsSeen, OrderedIsNotRestored, Archives, InState
<1>11. RestoredIsObserved' /\ QueuedIsRestored'
      BY <1>1, <1>6 DEF IInv, RestoredIsObserved, QueuedIsRestored, InState, WithItem
<1>12. OneJobPerTask'
  <2>1. \A i \in 1..Len(jobs) : jobs[i].token # sei.task
        BY <1>1, <1>2 DEF TokenUsed
  <2>2. new.token = sei.task
        BY DEF new
  <2>3. \A i \in 1..n : i \in 1..Len(jobs) \/ i = n
        BY <1>2
  <2>4. \A i, j \in 1..n : r[i].token = r[j].token => i = j
        BY <1>2, <1>4, <2>1, <2>2, <2>3 DEF IInv, OneJobPerTask, r
  <2>. QED BY <1>5, <1>6, <2>4 DEF OneJobPerTask, r
<1>13. AllAccepted => AllAccepted'
  <2>1. \A j \in DOMAIN jobs : j \in DOMAIN r /\ r[j] = jobs[j]
        BY <1>2, <1>4, <1>5 DEF r
  <2>. QED BY <1>6, <2>1 DEF AllAccepted, Accepted
<1>14. Together => Together'
  <2>. SUFFICES ASSUME Together PROVE Together'
       OBVIOUS
  <2>1. Unordered
        BY <1>1 DEF Together, Ordered, Archives, InState
  <2>2. Archives(db) = Archive
        BY <2>1, RestoreWaveAssumption DEF Unordered, Archives, InState
  <2>3. \A j \in DOMAIN r : r[j].objs = Archive
    <3>1. new.objs = Archive
          BY <2>2 DEF new
    <3>2. \A i \in 1..n : i \in 1..Len(jobs) \/ i = n
          BY <1>2
    <3>. QED BY <1>2, <1>4, <1>5, <3>1, <3>2 DEF Together, r
  <2>4. Unordered'
        BY <1>1, <1>7, <2>1 DEF Unordered
  <2>. QED BY <1>1, <1>6, <1>7, <2>2, <2>3, <2>4 DEF Together
<1>. QED BY <1>8, <1>10, <1>11, <1>12, <1>13, <1>14 DEF IInv

LEMMA RecordStep == ASSUME IInv, Record PROVE IInv'
<1> DEFINE p == Put(db.obj, sei.left, "RESTORE_REQUESTED")
           t == sei.task
           c == [db EXCEPT !.obj = p, !.status = "RESTORE_REQUESTED", !.job = sei.job,
                           !.closed = FALSE, !.report = FALSE]
           d == [c EXCEPT !.task[t].state = "SUCCEEDED"]
           n == Len(d.task) + 1
<1>1. /\ UNCHANGED <<aws, copying>> /\ sei' = Idle /\ t \in DOMAIN db.task /\ db \in Row
      /\ sei.step = "ordered" /\ sei \in Worker
      BY DEF Record, IInv, Typed
<1>2. db' = NewTask(d, "POLL")
      BY DEF Record, Row, IInv, Typed
<1>3. /\ p \in [Objs -> ObjState]
      /\ \A o \in Objs : p[o] = IF o \in sei.left THEN "RESTORE_REQUESTED" ELSE db.obj[o]
      BY <1>1 DEF Put, Row, ObjState, Pending
<1> HIDE DEF p
<1>4. /\ c \in Row /\ c.obj = p /\ c.status = "RESTORE_REQUESTED" /\ c.task = db.task
           /\ c.gate = db.gate
      /\ c.job = sei.job /\ c.closed = FALSE /\ c.report = FALSE /\ c.item = db.item
      BY <1>1, <1>3 DEF Row, Status, Worker
<1> HIDE DEF c
<1>5. /\ d \in Row /\ SameWork(c, d) /\ TaskSet(c, d, t, "SUCCEEDED") /\ d.closed = c.closed
      /\ d.status = c.status
  <2>1. t \in DOMAIN c.task /\ "SUCCEEDED" \in TaskState
        BY <1>1, <1>4 DEF TaskState, TaskEnds
  <2>. QED BY <1>4, <2>1, TaskSetRow
<1> HIDE DEF d
<1>6. /\ db' \in Row /\ db'.obj = p /\ db'.status = "RESTORE_REQUESTED" /\ db'.gate = db.gate
           /\ db'.job = sei.job
      /\ db'.closed = FALSE /\ db'.report = FALSE /\ db'.item = db.item
  <2>1. NewTask(d, "POLL") \in Row /\ NewTask(d, "POLL") = [d EXCEPT !.task = NewTask(d, "POLL").task]
        BY <1>5, NewTaskRow
  <2>2. d.obj = p /\ d.status = "RESTORE_REQUESTED" /\ d.gate = db.gate /\ d.job = sei.job
          /\ d.closed = FALSE /\ d.report = FALSE /\ d.item = db.item
        BY <1>4, <1>5 DEF SameWork
  <2>. QED BY <1>2, <1>5, <2>1, <2>2 DEF Row
<1>7. /\ DOMAIN db'.task = DOMAIN db.task \cup {n}
      /\ \A u \in DOMAIN db.task : db'.task[u] = d.task[u]
      /\ db'.task[n] = [kind |-> "POLL", state |-> "READY"]
      BY <1>2, <1>4, <1>5, NewTaskRow DEF TaskSet
<1> HIDE DEF n
<1>8. Typed'
  <2>1. sei.job \in Nat /\ sei.job <= Len(aws.jobs)
        BY DEF IInv, Typed, Worker
  <2>. QED BY <1>1, <1>6, <2>1, IdleWorker DEF IInv, Typed
<1>9. ReadyIsSeen' /\ OrderedIsNotRestored'
      BY <1>1, IdleWorker DEF ReadyIsSeen, OrderedIsNotRestored
<1>10. RestoredIsObserved'
      BY <1>1, <1>3, <1>6, RestoreWaveAssumption DEF IInv, RestoredIsObserved, InState
<1>11. QueuedIsRestored'
  <2>1. \A o \in Objs : db.item[o] = "READY" => o \notin sei.left
        BY <1>1 DEF IInv, QueuedIsRestored, OrderedIsNotRestored, WithItem
  <2>. QED BY <1>3, <1>6, <2>1 DEF IInv, QueuedIsRestored, WithItem
<1>12. Together => Together'
  <2>. SUFFICES ASSUME Together PROVE Together'
       OBVIOUS
  <2>1. Unordered /\ sei.left = Archive
        BY <1>1 DEF Together, Ordered
  <2>2. \A o \in Archive : p[o] = "RESTORE_REQUESTED"
        BY <1>3, <2>1, RestoreWaveAssumption
  <2>3. \A u \in DOMAIN db'.task : Polls(db', u) => u = n
    <3>1. \A u \in DOMAIN db.task : ~Polls(db, u) /\ ~Polls(d, u)
          BY <1>1, <1>4, <1>5, <2>1 DEF Unordered, TaskSet, Polls
    <3>. QED BY <1>4, <1>5, <1>7, <3>1 DEF Polls, TaskSet
  <2>4. \A u \in DOMAIN db'.task : Live(u)' => u = n
        BY <1>1, <2>3, IdleWorker DEF Live
  <2>5. Ordered'
        BY <1>1, <1>6, <2>2, <2>4, IdleWorker DEF Ordered, IInv, Typed
  <2>. QED BY <1>1, <1>6, <2>5, IdleWorker DEF Together
<1>. QED BY <1>1, <1>8, <1>9, <1>10, <1>11, <1>12, SameAws DEF IInv

-----------------------------------------------------------------------------
(* Sei: the description of a job and the probes *)

\* A poll that changes no object ends.
LEMMA WorkSame ==
    ASSUME IInv, UNCHANGED <<aws, copying>>, sei' = Idle, db' \in Row,
           db'.obj = db.obj, db'.item = db.item, db'.job = db.job
    PROVE  /\ Typed' /\ ReadyIsSeen' /\ OrderedIsNotRestored' /\ RestoredIsObserved'
                /\ QueuedIsRestored'
           /\ OneJobPerTask' /\ (AllAccepted => AllAccepted')
<1>1. Typed'
      BY IdleWorker DEF IInv, Typed
<1>2. ReadyIsSeen' /\ OrderedIsNotRestored'
      BY IdleWorker DEF ReadyIsSeen, OrderedIsNotRestored
<1>3. RestoredIsObserved' /\ QueuedIsRestored'
      BY DEF IInv, RestoredIsObserved, QueuedIsRestored, InState, WithItem
<1>. QED BY <1>1, <1>2, <1>3, SameAws DEF IInv

\* The job is not decided: the task is READY again, and no second poll is.
LEMMA DescribeRetry ==
    ASSUME IInv, Holds("claimed", "POLL"), db.job # 0, UNCHANGED <<aws, copying>>, sei' = Idle,
           NEW s \in Status \ {"RESTORE_REAPPROVAL_REQUIRED"},
           db' = Retry([db EXCEPT !.status = s], sei.task)
    PROVE  IInv'
<1> DEFINE c == [db EXCEPT !.status = s]
           t == sei.task
<1>1. c \in Row /\ SameWork(db, c) /\ c.task = db.task /\ c.closed = db.closed /\ c.status = s
      BY DEF IInv, Typed, Row, SameWork
<1>2. t \in DOMAIN c.task /\ Live(t) /\ c.task[t].kind = "POLL"
      BY <1>1 DEF Holds, IInv, Typed, Live
<1> HIDE DEF c
<1>3. db' \in Row /\ SameWork(c, db') /\ TaskSet(c, db', t, "READY") /\ db'.closed = c.closed
        /\ db'.status = c.status
      BY <1>1, <1>2, RetryRow DEF c
<1>4. \A u \in DOMAIN db'.task : Polls(db', u) => u \in DOMAIN db.task /\ Live(u)
      BY <1>1, <1>2, <1>3 DEF TaskSet, Polls, Live
<1>5. Together => Together'
  <2>. SUFFICES ASSUME Together PROVE Together'
       OBVIOUS
  <2>1. Ordered
        BY DEF Together, Unordered
  <2>2. \A u \in DOMAIN db'.task : Live(u)' => u \in DOMAIN db.task /\ Live(u)
        BY <1>4, IdleWorker DEF Live
  <2>3. Ordered'
        BY <1>1, <1>3, <2>1, <2>2, IdleWorker DEF Ordered, SameWork
  <2>. QED BY <1>1, <1>3, <2>3, IdleWorker DEF Together, SameWork
<1>6. db'.obj = db.obj /\ db'.item = db.item /\ db'.job = db.job
      BY <1>1, <1>3 DEF SameWork
<1>. QED BY <1>3, <1>5, <1>6, WorkSame DEF IInv

\* The attempt is closed with its only poll.
LEMMA DescribeFailed ==
    ASSUME IInv, Holds("claimed", "POLL"), db.job # 0, UNCHANGED <<aws, copying>>, sei' = Idle,
           NEW r \in BOOLEAN, db' = FailAttempt([db EXCEPT !.report = r], sei.task)
    PROVE  IInv'
<1> DEFINE c == [db EXCEPT !.report = r]
           t == sei.task
<1>1. /\ c \in Row /\ c.obj = db.obj /\ c.item = db.item /\ c.gate = db.gate /\ c.job = db.job
      /\ c.task = db.task /\ c.closed = db.closed /\ c.status = db.status
      BY DEF IInv, Typed, Row
<1>2. t \in DOMAIN c.task /\ Live(t) /\ c.task[t].kind = "POLL"
      BY <1>1 DEF Holds, IInv, Typed, Live
<1> HIDE DEF c
<1>3. /\ db' \in Row /\ SameWork(c, db') /\ TaskSet(c, db', t, "FAILED") /\ db'.closed = TRUE
      /\ db'.status = "RESTORE_REQUEST_FAILED"
      BY <1>1, <1>2, FailAttemptRow DEF c
<1>4. \A u \in DOMAIN db'.task : Polls(db', u) => u \in DOMAIN db.task /\ Live(u) /\ u # t
      BY <1>1, <1>2, <1>3 DEF TaskSet, Polls, Live
<1>5. Together => Together'
  <2>. SUFFICES ASSUME Together PROVE Together'
       OBVIOUS
  <2>1. Ordered
        BY DEF Together, Unordered
  <2>2. \A u \in DOMAIN db'.task : ~Live(u)'
    <3>1. t \in DOMAIN db.task
          BY <1>1, <1>2
    <3>. QED BY <1>2, <1>4, <2>1, <3>1, IdleWorker DEF Live, Ordered
  <2>3. Ordered'
        BY <1>1, <1>3, <2>1, <2>2, IdleWorker DEF Ordered, SameWork
  <2>. QED BY <1>1, <1>3, <2>3, IdleWorker DEF Together, SameWork
<1>6. db'.obj = db.obj /\ db'.item = db.item /\ db'.job = db.job
      BY <1>1, <1>3 DEF SameWork
<1>. QED BY <1>3, <1>5, <1>6, WorkSame DEF IInv

\* The probe begins over an attempt whose report, when it is the first one
\* read, accepted everything; that ends the phase.
LEMMA DescribeProbes ==
    ASSUME IInv, Holds("claimed", "POLL"), UNCHANGED <<aws, copying>>, sei' = StartProbe(db'),
           \/ db' = db /\ (db.job = 0 \/ (db.closed /\ db.report))
           \/ /\ db.job # 0 /\ Published(db.job) /\ Unaccepted(db.job) = {}
              /\ db' = [db EXCEPT !.closed = TRUE, !.report = TRUE,
                                !.status = "RESTORE_REQUEST_ACCEPTED",
                                !.obj = Put(db.obj,
                                            Archive \cap InState(db, {"RESTORE_REQUESTED", "RESTORING"}),
                                            "RESTORE_REQUEST_ACCEPTED")]
    PROVE  IInv'
<1>1. sei \in Worker /\ db \in Row /\ sei.task \in DOMAIN db.task /\ sei.step = "claimed"
      BY DEF IInv, Typed, Holds
<1>2. /\ db' \in Row /\ db'.job = db.job /\ db'.item = db.item /\ db'.task = db.task
      /\ \A o \in Objs : db'.obj[o] = db.obj[o] \/ (db'.obj[o] \in Pending /\ db.obj[o] \in Pending)
  <2>1. CASE db' = db
        BY <1>1, <2>1
  <2>2. CASE db' # db
    <3> DEFINE p == Put(db.obj, Archive \cap InState(db, {"RESTORE_REQUESTED", "RESTORING"}),
                        "RESTORE_REQUEST_ACCEPTED")
    <3>0. db.obj \in [Objs -> ObjState] /\ "RESTORE_REQUEST_ACCEPTED" \in ObjState
          BY <1>1 DEF Row, ObjState, Pending
    <3>1. p \in [Objs -> ObjState]
          BY <3>0 DEF Put
    <3>1a. \A o \in Objs : p[o] = db.obj[o] \/ (p[o] \in Pending /\ db.obj[o] \in Pending)
          BY <3>0 DEF Put, Pending, InState
    <3>2. db' = [db EXCEPT !.closed = TRUE, !.report = TRUE,
                           !.status = "RESTORE_REQUEST_ACCEPTED", !.obj = p]
          BY <2>2
    <3> HIDE DEF p
    <3>. QED BY <1>1, <3>1, <3>1a, <3>2 DEF Row, Status
  <2>. QED BY <2>1, <2>2
<1>3. /\ sei' \in Worker /\ sei'.step = "probing" /\ sei'.job = db.job /\ sei'.ready = sei.ready
      /\ sei'.left = Archive \cap InState(db', Pending) /\ sei'.task = sei.task
  <2> DEFINE l == Archive \cap InState(db', Pending)
  <2>1. sei' = [sei EXCEPT !.step = "probing", !.job = db'.job, !.left = l] /\ l \in SUBSET Archive
        BY DEF StartProbe
  <2> HIDE DEF l
  <2>2. db.job \in Nat
        BY <1>1 DEF Row
  <2>3. /\ sei' \in Worker /\ sei'.step = "probing" /\ sei'.job = db.job /\ sei'.ready = sei.ready
        /\ sei'.left = l /\ sei'.task = sei.task
        BY <1>1, <1>2, <2>1, <2>2 DEF Worker
  <2>. QED BY <2>3 DEF l
<1>4. Typed'
      BY <1>1, <1>2, <1>3 DEF IInv, Typed
<1>5. ReadyIsSeen' /\ OrderedIsNotRestored'
      BY <1>3, SameAws DEF IInv, ReadyIsSeen, OrderedIsNotRestored
<1>6. RestoredIsObserved' /\ QueuedIsRestored'
      BY <1>2, RestoreWaveAssumption
         DEF IInv, RestoredIsObserved, QueuedIsRestored, InState, WithItem, Pending
<1>7. Together => AllAccepted' \/ Together'
  <2>. SUFFICES ASSUME Together PROVE AllAccepted' \/ Together'
       OBVIOUS
  <2>1. CASE db' = db /\ (db.job = 0 \/ (db.closed /\ db.report))
    <3>1. Live(sei.task)
          BY <1>1 DEF Live, Holds
    <3>2. Unordered
          BY <1>1, <2>1, <3>1 DEF Together, Ordered
    <3>3. sei'.left = {}
          BY <1>3, <2>1, <3>2 DEF Unordered, InState, Pending
    <3>4. Unordered'
          BY <1>3, <2>1, <3>2, <3>3 DEF Unordered
    <3>. QED BY <1>3, <2>1, <3>4 DEF Together
  <2>2. CASE db.job # 0 /\ Published(db.job) /\ Unaccepted(db.job) = {}
    <3>1. db.job \in DOMAIN aws.jobs
          BY <1>1, <2>2, LenProperties DEF IInv, Typed, Row, AwsSet
    <3>2. AllAccepted
          BY <2>2, <3>1 DEF Together, AllAccepted, Accepted, Published, Unaccepted
    <3>. QED BY <3>2, SameAws
  <2>. QED BY <2>1, <2>2
<1>. QED BY <1>4, <1>5, <1>6, <1>7, SameAws DEF IInv

LEMMA DescribeStep == ASSUME IInv, Describe PROVE IInv'
<1>1. Holds("claimed", "POLL") /\ UNCHANGED <<aws, copying>>
      BY DEF Describe
<1>2. CASE db.job = 0 \/ (db.closed /\ db.report)
      BY <1>1, <1>2, DescribeProbes DEF Describe
<1>3. CASE db.job # 0 /\ ~(db.closed /\ db.report)
  <2>1. CASE sei' = Idle /\ db' = FailAttempt(db, sei.task)
    <3>1. db = [db EXCEPT !.report = db.report] /\ db.report \in BOOLEAN
          BY DEF IInv, Typed, Row
    <3>. QED BY <1>1, <1>3, <2>1, <3>1, DescribeFailed
  <2>2. CASE sei' = Idle /\ db' = Retry([db EXCEPT !.status = "RESTORING"], sei.task)
        BY <1>1, <1>3, <2>2, DescribeRetry DEF Status, LaneStatus
  <2>3. CASE sei' = Idle /\ db' = Retry([db EXCEPT !.status = "RESTORE_REQUESTED"], sei.task)
        BY <1>1, <1>3, <2>3, DescribeRetry DEF Status, LaneStatus
  <2>4. CASE sei' = Idle /\ db' = FailAttempt([db EXCEPT !.report = TRUE], sei.task)
        BY <1>1, <1>3, <2>4, DescribeFailed
  <2>5. CASE /\ Published(db.job) /\ Unaccepted(db.job) = {} /\ sei' = StartProbe(db')
             /\ db' = [db EXCEPT !.closed = TRUE, !.report = TRUE,
                                !.status = "RESTORE_REQUEST_ACCEPTED",
                                !.obj = Put(db.obj,
                                            Archive \cap InState(db, {"RESTORE_REQUESTED", "RESTORING"}),
                                            "RESTORE_REQUEST_ACCEPTED")]
        BY <1>1, <1>3, <2>5, DescribeProbes
  <2>. QED BY <1>3, <2>1, <2>2, <2>3, <2>4, <2>5 DEF Describe
<1>. QED BY <1>2, <1>3

LEMMA ProbeStep == ASSUME IInv, Probe PROVE IInv'
<1>1. PICK o \in sei.left :
         \E ready \in {sei.ready \cup (IF Available(o) THEN {o} ELSE {})} :
            /\ sei' = [sei EXCEPT !.left = sei.left \ {o}, !.ready = ready]
            /\ db' = Persist(db, ready)
      BY DEF Probe
<1> DEFINE ready == sei.ready \cup (IF Available(o) THEN {o} ELSE {})
           p == Put(db.obj, ready \cap InState(db, Pending), "RESTORED")
<1>2. /\ sei' = [sei EXCEPT !.left = sei.left \ {o}, !.ready = ready]
      /\ db' = [db EXCEPT !.obj = p] /\ UNCHANGED <<aws, copying>> /\ sei.step = "probing"
      BY <1>1 DEF Persist, Probe
<1>3. ready \in SUBSET Archive /\ \A x \in ready : Seen(x)
      BY DEF IInv, Typed, Worker, ReadyIsSeen, Seen, Available
<1> HIDE DEF ready
<1>4. /\ p \in [Objs -> ObjState]
      /\ \A x \in Objs : p[x] = IF x \in ready /\ db.obj[x] \in Pending THEN "RESTORED" ELSE db.obj[x]
      BY DEF Put, IInv, Typed, Row, ObjState, InState
<1> HIDE DEF p
<1>5. /\ sei' \in Worker /\ sei'.step = "probing" /\ sei'.ready = ready /\ sei'.job = sei.job
      /\ sei'.task = sei.task
      BY <1>2, <1>3 DEF IInv, Typed, Worker
<1>6. db' \in Row /\ db'.obj = p /\ db'.item = db.item /\ db'.job = db.job /\ db'.task = db.task
      BY <1>2, <1>4 DEF IInv, Typed, Row
<1>7. Typed'
      BY <1>2, <1>5, <1>6 DEF IInv, Typed
<1>8. ReadyIsSeen' /\ OrderedIsNotRestored'
      BY <1>2, <1>3, <1>5, SameAws DEF ReadyIsSeen, OrderedIsNotRestored
<1>9. RestoredIsObserved'
      BY <1>2, <1>3, <1>4, <1>6, RestoreWaveAssumption DEF IInv, RestoredIsObserved, InState, Seen
<1>10. QueuedIsRestored'
      BY <1>4, <1>6 DEF IInv, QueuedIsRestored, WithItem, Pending
<1>11. ~Together
      BY <1>1, <1>2 DEF Together, Unordered, Ordered
<1>. QED BY <1>2, <1>7, <1>8, <1>9, <1>10, <1>11, SameAws DEF IInv

-----------------------------------------------------------------------------
(* Sei: the end of a poll *)

\* e is d with restored objects put into the queue.
Requeued(d, e) ==
    /\ ItemsOnly(d, e)
    /\ \A o \in Objs : \/ e.item[o] = d.item[o]
                       \/ d.obj[o] = "RESTORED" /\ d.item[o] \in {"NONE", "CANCELLED"}
                            /\ e.item[o] = "READY"

LEMMA EnqueueRequeues == ASSUME NEW d \in Row PROVE Enqueue(d) \in Row /\ Requeued(d, Enqueue(d))
    BY EnqueueRow, EnqueueKeeps DEF Requeued

LEMMA RestockRequeues == ASSUME NEW d \in Row PROVE Restock(d) \in Row /\ Requeued(d, Restock(d))
    BY RestockRow DEF Requeued

LEMMA SelfRequeues == ASSUME NEW d \in Row PROVE Requeued(d, d)
    BY DEF Requeued, ItemsOnly

\* Only what this poll has seen, or needs no restore, becomes RESTORED.
LEMMA FinishStep == ASSUME IInv, Finish PROVE IInv'
<1> DEFINE seen == InState(db, Pending \cup {"WAVE_ASSIGNED"}) \cap ((Objs \ Archive) \cup sei.ready)
           waits == InState(db, {"RESTORE_REQUESTED", "RESTORE_REQUEST_ACCEPTED"}) \ seen
           p == Put(Put(db.obj, seen, "RESTORED"), waits, "RESTORING")
           d == [db EXCEPT !.obj = p]
           whole == [d EXCEPT !.status = "RESTORED"]
           ended == [whole EXCEPT !.task[sei.task].state = "SUCCEEDED"]
           partly == [d EXCEPT !.status = "RESTORING"]
           t == sei.task
<1>1. /\ sei.step = "probing" /\ sei.left = {} /\ sei' = Idle /\ UNCHANGED <<aws, copying>>
      /\ db \in Row /\ sei \in Worker /\ t \in DOMAIN db.task
      BY DEF Finish, IInv, Typed
<1>2. /\ p \in [Objs -> ObjState]
      /\ \A o \in Objs : p[o] = IF o \in seen THEN "RESTORED"
                                ELSE IF o \in waits THEN "RESTORING" ELSE db.obj[o]
  <2>1. db.obj \in [Objs -> ObjState] /\ "RESTORED" \in ObjState /\ "RESTORING" \in ObjState
        BY <1>1 DEF Row, ObjState, Pending
  <2> DEFINE q == Put(db.obj, seen, "RESTORED")
  <2> HIDE DEF seen, waits
  <2>2. q \in [Objs -> ObjState] /\ \A o \in Objs : q[o] = IF o \in seen THEN "RESTORED" ELSE db.obj[o]
        BY <2>1 DEF Put
  <2> HIDE DEF q
  <2>3. /\ Put(q, waits, "RESTORING") \in [Objs -> ObjState]
        /\ \A o \in Objs : Put(q, waits, "RESTORING")[o] = IF o \in waits THEN "RESTORING" ELSE q[o]
        BY <2>1, <2>2 DEF Put
  <2>4. \A o \in Objs : o \in seen => o \notin waits
        BY DEF waits
  <2>. QED BY <2>2, <2>3, <2>4 DEF q
<1>3. \/ db' = Enqueue(ended)
      \/ sei.job = 0 /\ db' = Fail(partly, t)
      \/ sei.job # 0 /\ (db' = Retry(Enqueue(partly), t) \/ db' = Retry(partly, t))
  <2>1. [d EXCEPT !.status = "RESTORED", !.task[sei.task].state = "SUCCEEDED"] = ended
        BY <1>1 DEF Row
  <2>. QED BY <2>1 DEF Finish
<1>4. /\ \A o \in Objs : o \in seen => db.obj[o] \in Pending \cup {"WAVE_ASSIGNED"}
                           /\ (o \in Archive => o \in sei.ready)
      /\ \A o \in Objs : o \in waits => db.obj[o] \in {"RESTORE_REQUESTED", "RESTORE_REQUEST_ACCEPTED"}
      BY DEF InState
<1> HIDE DEF p, seen, waits
<1>5. /\ whole \in Row /\ whole.obj = p /\ whole.task = db.task /\ whole.status = "RESTORED"
      /\ partly \in Row /\ partly.obj = p /\ partly.task = db.task /\ partly.status = "RESTORING"
      /\ whole.item = db.item /\ whole.gate = db.gate /\ whole.job = db.job /\ whole.closed = db.closed
      /\ whole.report = db.report
      /\ partly.item = db.item /\ partly.gate = db.gate /\ partly.job = db.job
           /\ partly.closed = db.closed
      /\ partly.report = db.report
      BY <1>1, <1>2 DEF Row, Status, LaneStatus, SameWork
<1> HIDE DEF whole, partly
<1>6. /\ db' \in Row /\ db'.obj = p /\ db'.gate = db.gate /\ db'.job = db.job /\ db'.closed = db.closed
      /\ db'.report = db.report /\ db'.status # "RESTORE_REAPPROVAL_REQUIRED"
      /\ \A o \in Objs : \/ db'.item[o] = db.item[o]
                         \/ p[o] = "RESTORED" /\ db.item[o] \in {"NONE", "CANCELLED"}
                              /\ db'.item[o] = "READY"
      /\ DOMAIN db'.task = DOMAIN db.task
      /\ sei.job = 0 => TaskQuiet(db, db')
  <2>1. CASE db' = Enqueue(ended)
    <3>1. "SUCCEEDED" \in TaskState
          BY DEF TaskState, TaskEnds
    <3>2. /\ ended \in Row /\ SameWork(whole, ended) /\ TaskSet(whole, ended, t, "SUCCEEDED")
          /\ ended.closed = whole.closed /\ ended.status = whole.status
          BY <1>1, <1>5, <3>1, TaskSetRow
    <3> HIDE DEF ended
    <3>3. db' \in Row /\ Requeued(ended, db')
          BY <2>1, <3>2, EnqueueRequeues
    <3>4. TaskQuiet(whole, ended)
          BY <1>1, <1>5, <3>2, SetQuiet
    <3>. QED BY <1>5, <3>2, <3>3, <3>4 DEF Requeued, ItemsOnly, SameWork, TaskSet, TaskQuiet, Polls
  <2>2. CASE sei.job = 0 /\ db' = Fail(partly, t)
    <3>1. /\ db' \in Row /\ SameWork(partly, db') /\ TaskSet(partly, db', t, "FAILED")
               /\ db'.closed = partly.closed
          /\ db'.status \in {partly.status, "FAILED"}
          BY <1>1, <1>5, <2>2, FailRow
    <3>2. TaskQuiet(partly, db')
          BY <1>1, <1>5, <3>1, SetQuiet
    <3>. QED BY <1>5, <3>1, <3>2 DEF SameWork, TaskSet, TaskQuiet, Polls
  <2>3. ASSUME sei.job # 0, NEW e \in {Enqueue(partly), partly}, db' = Retry(e, t)
        PROVE  /\ db' \in Row /\ db'.obj = p /\ db'.gate = db.gate /\ db'.job = db.job
                    /\ db'.closed = db.closed
               /\ db'.report = db.report /\ db'.status # "RESTORE_REAPPROVAL_REQUIRED"
               /\ \A o \in Objs : \/ db'.item[o] = db.item[o]
                                  \/ p[o] = "RESTORED" /\ db.item[o] \in {"NONE", "CANCELLED"}
                                       /\ db'.item[o] = "READY"
               /\ DOMAIN db'.task = DOMAIN db.task
    <3>1. e \in Row /\ Requeued(partly, e)
          BY <1>5, EnqueueRequeues, SelfRequeues
    <3>2. t \in DOMAIN e.task
          BY <1>1, <1>5, <3>1 DEF Requeued, ItemsOnly
    <3>3. db' \in Row /\ SameWork(e, db') /\ TaskSet(e, db', t, "READY") /\ db'.closed = e.closed
            /\ db'.status = e.status
          BY <2>3, <3>1, <3>2, RetryRow
    <3>4. e.obj = p /\ e.task = db.task /\ e.gate = db.gate /\ e.job = db.job /\ e.closed = db.closed
            /\ e.report = db.report /\ e.status = "RESTORING"
          BY <1>5, <3>1 DEF Requeued, ItemsOnly
    <3>5. \A o \in Objs : \/ e.item[o] = db.item[o]
                          \/ p[o] = "RESTORED" /\ db.item[o] \in {"NONE", "CANCELLED"}
                               /\ e.item[o] = "READY"
          BY <1>5, <3>1 DEF Requeued
    <3>. QED BY <3>3, <3>4, <3>5 DEF SameWork, TaskSet
  <2>. QED BY <1>3, <2>1, <2>2, <2>3
<1>7. Typed'
      BY <1>1, <1>6, IdleWorker DEF IInv, Typed
<1>8. ReadyIsSeen' /\ OrderedIsNotRestored'
      BY <1>1, IdleWorker DEF ReadyIsSeen, OrderedIsNotRestored
<1>9. RestoredIsObserved'
  <2>1. \A o \in Archive : o \in seen => Seen(o)
        BY <1>4, RestoreWaveAssumption DEF IInv, ReadyIsSeen
  <2>. QED BY <1>1, <1>2, <1>6, <2>1, RestoreWaveAssumption DEF IInv, RestoredIsObserved, InState, Seen
<1>10. QueuedIsRestored'
  <2>1. \A o \in Objs : db.obj[o] = "RESTORED" => p[o] = "RESTORED"
        BY <1>2, <1>4 DEF Pending
  <2>. QED BY <1>6, <2>1 DEF IInv, QueuedIsRestored, WithItem
<1>11. Together => Together'
  <2>. SUFFICES ASSUME Together PROVE Together'
       OBVIOUS
  <2>1. Unordered /\ sei.job = 0 /\ sei.ready = {}
        BY <1>1 DEF Together, Unordered, Ordered
  <2>2. \A o \in Archive : db.obj[o] = "WAVE_ASSIGNED" /\ o \notin seen /\ o \notin waits
        BY <1>4, <2>1, RestoreWaveAssumption DEF Unordered
  <2>3. \A o \in Archive : p[o] = db.obj[o] /\ db'.item[o] = "NONE"
        BY <1>2, <1>6, <2>2, RestoreWaveAssumption DEF Together
  <2>4. \A o \in Objs : db'.item[o] # "REAPPROVAL_REQUIRED"
        BY <1>6 DEF Together
  <2>. QED BY <1>1, <1>6, <2>1, <2>3, <2>4, IdleWorker, StayTogether DEF Together, IInv
<1>. QED BY <1>1, <1>7, <1>8, <1>9, <1>10, <1>11, SameAws DEF IInv

-----------------------------------------------------------------------------
(* AWS *)

\* AWS forgets no outcome: what was shown stays shown, a published report as it is.
LEMMA AwsStep ==
    ASSUME IInv, UNCHANGED <<db, sei, copying>>, aws' \in AwsSet, Len(aws'.jobs) = Len(aws.jobs),
           \A o \in Archive : Seen(o) => Seen(o)',
           \A j \in DOMAIN aws.jobs :
               /\ aws'.jobs[j].token = aws.jobs[j].token /\ aws'.jobs[j].objs = aws.jobs[j].objs
               /\ aws.jobs[j].state = "Reported" => aws'.jobs[j] = aws.jobs[j]
    PROVE  IInv'
<1>1. DOMAIN aws'.jobs = DOMAIN aws.jobs
      BY LenProperties DEF IInv, Typed, AwsSet
<1>2. Typed'
      BY DEF IInv, Typed
<1>3. ReadyIsSeen' /\ OrderedIsNotRestored'
      BY DEF IInv, Typed, Worker, ReadyIsSeen, OrderedIsNotRestored
<1>4. RestoredIsObserved' /\ QueuedIsRestored'
      BY DEF IInv, RestoredIsObserved, QueuedIsRestored, InState, WithItem, Seen
<1>5. OneJobPerTask'
      BY <1>1 DEF IInv, OneJobPerTask
<1>6. AllAccepted => AllAccepted'
      BY <1>1 DEF AllAccepted, Accepted
<1>7. Together => Together'
  <2>1. (Unordered => Unordered') /\ (Ordered => Ordered')
        BY DEF Unordered, Ordered, Live
  <2>. QED BY <1>1, <2>1 DEF Together
<1>. QED BY <1>2, <1>3, <1>4, <1>5, <1>6, <1>7 DEF IInv

LEMMA JobEndsStep == ASSUME IInv, NEW j \in DOMAIN aws.jobs, JobEnds(j) PROVE IInv'
<1>1. PICK done \in SUBSET aws.jobs[j].objs, end \in {"Complete", "Failed"} :
         aws' = [jobs |-> [aws.jobs EXCEPT ![j].state = end, ![j].refused = aws.jobs[j].objs \ done],
                 copy |-> [o \in Archive |->
                             IF o \notin done \/ aws.copy[o] = "available" THEN aws.copy[o]
                             ELSE IF aws.copy[o] \in {"expired", "renewing"} THEN "renewing"
                             ELSE "restoring"]]
      BY DEF JobEnds
<1> DEFINE jobs == aws.jobs
           e == [jobs[j] EXCEPT !.state = end, !.refused = jobs[j].objs \ done]
           r == [jobs EXCEPT ![j] = e]
           c == aws'.copy
<1>2. jobs \in Seq(Job) /\ DOMAIN jobs = 1..Len(jobs) /\ aws \in AwsSet /\ jobs[j].state = "Active"
      BY LenProperties DEF IInv, Typed, AwsSet, JobEnds
<1>3. jobs[j] \in Job
      BY <1>2, ElementOfSeq
<1>4. e \in Job /\ e.token = jobs[j].token /\ e.objs = jobs[j].objs
      BY <1>3 DEF Job
<1>5. aws'.jobs = r
      BY <1>1
<1> HIDE DEF e
<1>6. r \in Seq(Job) /\ Len(r) = Len(jobs)
        /\ \A i \in 1..Len(jobs) : r[i] = IF i = j THEN e ELSE jobs[i]
      BY <1>2, <1>4, ExceptSeq
<1> HIDE DEF r
<1>7. /\ c \in [Archive -> Copy]
      /\ \A o \in Archive : Seen(o) => c[o] \notin {"archived", "restoring"}
      BY <1>1, <1>2 DEF AwsSet, Copy, Seen
<1>8. aws' \in AwsSet
      BY <1>1, <1>5, <1>6, <1>7 DEF AwsSet
<1>9. UNCHANGED <<db, sei, copying>>
      BY DEF JobEnds
<1>. QED BY <1>2, <1>4, <1>5, <1>6, <1>7, <1>8, <1>9, AwsStep DEF Seen

LEMMA ReportAppearsStep == ASSUME IInv, NEW j \in DOMAIN aws.jobs, ReportAppears(j) PROVE IInv'
<1> DEFINE jobs == aws.jobs
           e == [jobs[j] EXCEPT !.state = "Reported"]
           r == [jobs EXCEPT ![j] = e]
<1>1. UNCHANGED <<db, sei, copying>> /\ aws' = [aws EXCEPT !.jobs = r] /\ jobs[j].state = "Complete"
      BY DEF ReportAppears, IInv, Typed, AwsSet
<1>2. jobs \in Seq(Job) /\ DOMAIN jobs = 1..Len(jobs) /\ aws \in AwsSet
      BY LenProperties DEF IInv, Typed, AwsSet
<1>3. jobs[j] \in Job
      BY <1>2, ElementOfSeq
<1>4. e \in Job /\ e.token = jobs[j].token /\ e.objs = jobs[j].objs
      BY <1>3 DEF Job
<1> HIDE DEF e
<1>5. r \in Seq(Job) /\ Len(r) = Len(jobs)
        /\ \A i \in 1..Len(jobs) : r[i] = IF i = j THEN e ELSE jobs[i]
      BY <1>2, <1>4, ExceptSeq
<1> HIDE DEF r
<1>6. aws' \in AwsSet /\ aws'.jobs = r /\ aws'.copy = aws.copy
      BY <1>1, <1>2, <1>5 DEF AwsSet
<1>. QED BY <1>1, <1>2, <1>4, <1>5, <1>6, AwsStep DEF Seen

LEMMA CopyStep ==
    ASSUME IInv, UNCHANGED <<db, sei, copying>>, NEW o \in Archive, NEW v \in {"available", "expired"},
           aws' = [aws EXCEPT !.copy[o] = v]
    PROVE  IInv'
<1> DEFINE c == [aws.copy EXCEPT ![o] = v]
<1>1. aws' = [aws EXCEPT !.copy = c]
        /\ c \in [Archive -> Copy]
      BY DEF IInv, Typed, AwsSet, Copy
<1>2. \A x \in Archive : Seen(x) => c[x] \notin {"archived", "restoring"}
      BY DEF Seen, IInv, Typed, AwsSet
<1> HIDE DEF c
<1>3. aws' \in AwsSet /\ aws'.jobs = aws.jobs /\ aws'.copy = c
      BY <1>1 DEF AwsSet, IInv, Typed
<1>. QED BY <1>2, <1>3, AwsStep DEF Seen

LEMMA AwsKeeps == ASSUME IInv, Aws PROVE IInv'
<1>1. ASSUME NEW j \in DOMAIN aws.jobs, JobEnds(j) \/ ReportAppears(j) PROVE IInv'
      BY <1>1, JobEndsStep, ReportAppearsStep
<1>2. ASSUME NEW o \in Archive, CopyReady(o) \/ CopyExpires(o) PROVE IInv'
      BY <1>2, CopyStep DEF CopyReady, CopyExpires
<1>. QED BY <1>1, <1>2 DEF Aws

-----------------------------------------------------------------------------
(* The lane *)

\* A step of the lane over object o.
LEMMA LaneStep ==
    ASSUME IInv, NEW o \in Objs, UNCHANGED <<aws, sei>>, copying' \subseteq Objs, db' \in Row,
           \A x \in Objs \ {o} : db'.obj[x] = db.obj[x] /\ db'.item[x] = db.item[x],
           copying' \ {o} = copying \ {o},
           db'.task = db.task, db'.job = db.job, db'.closed = db.closed, db'.report = db.report,
           db'.obj[o] = "RESTORED" => db.obj[o] = "RESTORED",
           db'.obj[o] = "TRANSFERRING" => db.obj[o] \in {"RESTORED", "TRANSFERRING"},
           db'.item[o] = "READY" => db'.obj[o] = "RESTORED",
           Together => /\ o \notin Archive /\ db'.item[o] # "REAPPROVAL_REQUIRED" /\ ~db'.gate
                       /\ db'.status # "RESTORE_REAPPROVAL_REQUIRED"
    PROVE  IInv'
<1>1. Typed'
      BY DEF IInv, Typed
<1>2. ReadyIsSeen'
      BY SameAws DEF IInv, ReadyIsSeen
<1>3. OrderedIsNotRestored'
      BY RestoreWaveAssumption DEF IInv, Typed, Worker, OrderedIsNotRestored
<1>4. RestoredIsObserved'
      BY RestoreWaveAssumption DEF IInv, RestoredIsObserved, InState
<1>5. QueuedIsRestored'
      BY DEF IInv, QueuedIsRestored, WithItem
<1>6. Together => Together'
  <2>. SUFFICES ASSUME Together PROVE Together'
       OBVIOUS
  <2>1. \A x \in Archive : x \in Objs \ {o}
        BY RestoreWaveAssumption
  <2>2. \A x \in Archive : db'.obj[x] = db.obj[x] /\ db'.item[x] = "NONE" /\ x \notin copying'
        BY <2>1 DEF Together
  <2>3. \A x \in Objs : db'.item[x] # "REAPPROVAL_REQUIRED"
        BY DEF Together
  <2>4. TaskQuiet(db, db')
        BY DEF TaskQuiet, Polls
  <2>. QED BY <2>2, <2>3, <2>4, StayTogether DEF IInv
<1>. QED BY <1>1, <1>2, <1>3, <1>4, <1>5, <1>6, SameAws DEF IInv

\* An approval is asked for an unreadable copy: of an archived object whose
\* phase is over.
LEMMA ApprovalStep ==
    ASSUME IInv, NEW o \in Objs, UNCHANGED <<aws, sei>>, copying' \in {copying, copying \ {o}},
           ~Readable(o), o \in copying \/ db.item[o] = "READY", db' = RequireApproval(db, o)
    PROVE  IInv'
<1>1. db \in Row /\ copying \subseteq Objs
      BY DEF IInv, Typed
<1>2. db' \in Row /\ (db' = db \/ (/\ db'.obj = [db.obj EXCEPT ![o] = "RESTORE_REQUESTED"]
                                   /\ db'.item = [db.item EXCEPT ![o] = "REAPPROVAL_REQUIRED"]
                                   /\ db'.task = db.task /\ db'.job = db.job /\ db'.closed = db.closed
                                   /\ db'.report = db.report /\ db'.pipeline = db.pipeline))
      BY <1>1, RequireApprovalRow
<1>3. ~Together
      BY DEF Together, Readable
<1>4. /\ \A x \in Objs \ {o} : db'.obj[x] = db.obj[x] /\ db'.item[x] = db.item[x]
      /\ db'.task = db.task /\ db'.job = db.job /\ db'.closed = db.closed /\ db'.report = db.report
      /\ db'.obj[o] = "RESTORED" => db.obj[o] = "RESTORED"
      /\ db'.obj[o] = "TRANSFERRING" => db.obj[o] \in {"RESTORED", "TRANSFERRING"}
      /\ db'.item[o] = "READY" => db'.obj[o] = "RESTORED"
      BY <1>1, <1>2 DEF Row, IInv, QueuedIsRestored, WithItem
<1>5. copying' \subseteq Objs /\ copying' \ {o} = copying \ {o}
      BY <1>1
<1>. QED BY <1>2, <1>3, <1>4, <1>5, LaneStep

LEMMA LeaseStep == ASSUME IInv, NEW o \in Objs, Lease(o) PROVE IInv'
<1> DEFINE p == [db.item EXCEPT ![o] = "LEASED"]
           s == IF db.obj[o] = "RESTORED" THEN "TRANSFERRING" ELSE db.obj[o]
           q == [db.obj EXCEPT ![o] = s]
<1>1. /\ db \in Row /\ copying \subseteq Objs /\ UNCHANGED <<aws, sei>> /\ copying' = copying \cup {o}
      /\ db.item[o] = "READY"
      BY DEF IInv, Typed, Lease
<1>2. db' = [db EXCEPT !.item = p, !.obj = q]
      BY DEF Lease, IInv, Typed, Row
<1>3. p \in [Objs -> ItemState] /\ s \in ObjState /\ q \in [Objs -> ObjState]
      BY <1>1 DEF Row, ItemState, ObjState
<1>4. /\ \A x \in Objs \ {o} : p[x] = db.item[x] /\ q[x] = db.obj[x]
      /\ p[o] = "LEASED" /\ q[o] = s
      BY <1>1 DEF Row
<1> HIDE DEF p, q
<1>5. /\ db' \in Row /\ db'.item = p /\ db'.obj = q /\ db'.task = db.task /\ db'.job = db.job
           /\ db'.gate = db.gate
      /\ db'.closed = db.closed /\ db'.report = db.report /\ db'.status = db.status
      BY <1>1, <1>2, <1>3 DEF Row
<1>6. Together => o \notin Archive /\ ~db.gate /\ db.status # "RESTORE_REAPPROVAL_REQUIRED"
      BY <1>1 DEF Together
<1>. QED BY <1>1, <1>4, <1>5, <1>6, LaneStep

LEMMA DeliverStep == ASSUME IInv, NEW o \in Objs, Deliver(o) PROVE IInv'
<1> DEFINE p == [db.item EXCEPT ![o] = "TRANSFERRED"]
           q == [db.obj EXCEPT ![o] = "TRANSFERRED"]
<1>1. /\ db \in Row /\ copying \subseteq Objs /\ UNCHANGED <<aws, sei>> /\ copying' = copying \ {o}
      /\ o \in copying
      BY DEF IInv, Typed, Deliver
<1>2. db' = [db EXCEPT !.item = p, !.obj = q]
      BY DEF Deliver, IInv, Typed, Row
<1>3. p \in [Objs -> ItemState] /\ q \in [Objs -> ObjState]
      BY <1>1 DEF Row, ItemState, ObjState
<1>4. /\ \A x \in Objs \ {o} : p[x] = db.item[x] /\ q[x] = db.obj[x]
      /\ p[o] = "TRANSFERRED" /\ q[o] = "TRANSFERRED"
      BY <1>1 DEF Row
<1> HIDE DEF p, q
<1>5. /\ db' \in Row /\ db'.item = p /\ db'.obj = q /\ db'.task = db.task /\ db'.job = db.job
           /\ db'.gate = db.gate
      /\ db'.closed = db.closed /\ db'.report = db.report /\ db'.status = db.status
      BY <1>1, <1>2, <1>3 DEF Row
<1>6. Together => o \notin Archive /\ ~db.gate /\ db.status # "RESTORE_REAPPROVAL_REQUIRED"
      BY <1>1 DEF Together
<1>. QED BY <1>1, <1>4, <1>5, <1>6, LaneStep

LEMMA LaneKeeps == ASSUME IInv, Lane PROVE IInv'
<1>1. PICK o \in Objs : Refresh(o) \/ Lease(o) \/ Deliver(o) \/ Unavailable(o)
      BY DEF Lane
<1>2. CASE Refresh(o)
      BY <1>2, ApprovalStep DEF Refresh
<1>3. CASE Unavailable(o)
      BY <1>3, ApprovalStep DEF Unavailable
<1>. QED BY <1>1, <1>2, <1>3, LeaseStep, DeliverStep

-----------------------------------------------------------------------------
(* The controller and the operator *)

\* A transaction of the controller or of the operator.
LEMMA RequestStep ==
    ASSUME IInv, UNCHANGED <<aws, sei, copying>>, db' \in Row, db'.job <= Len(aws.jobs),
           DOMAIN db.task \subseteq DOMAIN db'.task,
           \A o \in Objs : db'.obj[o] \in {db.obj[o], "WAVE_ASSIGNED", "RESTORE_REQUESTED"},
           \A o \in Objs : db'.item[o] = "READY" => db'.obj[o] = "RESTORED",
           Together => Together'
    PROVE  IInv'
<1>1. Typed'
      BY DEF IInv, Typed
<1>2. ReadyIsSeen'
      BY SameAws DEF IInv, ReadyIsSeen
<1>3. OrderedIsNotRestored'
      BY RestoreWaveAssumption DEF IInv, Typed, Worker, OrderedIsNotRestored
<1>4. RestoredIsObserved'
      BY RestoreWaveAssumption DEF IInv, RestoredIsObserved, InState
<1>5. QueuedIsRestored'
      BY DEF QueuedIsRestored, WithItem
<1>. QED BY <1>1, <1>2, <1>3, <1>4, <1>5, SameAws DEF IInv

\* Such a transaction that leaves the objects and the attempt as they are.
LEMMA QuietStep ==
    ASSUME IInv, UNCHANGED <<aws, sei, copying>>, db' \in Row, TaskQuiet(db, db'),
           db'.obj = db.obj, db'.job = db.job, db'.closed = db.closed, db'.report = db.report,
             db'.gate = db.gate,
           \A o \in Objs : db'.item[o] \in {db.item[o], "READY", "CANCELLED"},
           \A o \in Objs : db'.item[o] = "READY" => db.obj[o] = "RESTORED",
           \A o \in Objs : db.item[o] = "NONE" => db'.item[o] \in {"NONE", "READY"},
           Together => db'.status # "RESTORE_REAPPROVAL_REQUIRED"
    PROVE  IInv'
<1>1. Together => Together'
  <2>. SUFFICES ASSUME Together PROVE Together'
       OBVIOUS
  <2>1. \A o \in Archive : o \in Objs /\ db.item[o] = "NONE" /\ db.obj[o] # "RESTORED"
        BY RestoreWaveAssumption DEF Together, Unordered, Ordered
  <2>2. \A o \in Archive : db'.item[o] = "NONE" /\ o \notin copying'
        BY <2>1 DEF Together
  <2>3. \A o \in Objs : db'.item[o] # "REAPPROVAL_REQUIRED"
        BY DEF Together
  <2>4. ~db'.gate /\ Typed
        BY DEF Together, IInv
  <2>. QED BY <2>2, <2>3, <2>4, StayTogether
<1>. QED BY <1>1, RequestStep DEF IInv, Typed, TaskQuiet

LEMMA QueuedObjs == IInv => \A o \in Objs : db.item[o] = "READY" => db.obj[o] = "RESTORED"
    BY DEF IInv, QueuedIsRestored, WithItem

LEMMA VerdictStatus ==
    ASSUME IInv
    PROVE  Verdict(db) \in Status /\ (Together => Verdict(db) # "RESTORE_REAPPROVAL_REQUIRED")
<1>1. db.status \in Status
      BY DEF IInv, Typed, Row
<1>2. Together => WithItem(db, {"REAPPROVAL_REQUIRED"}) = {}
        /\ db.status # "RESTORE_REAPPROVAL_REQUIRED"
      BY DEF Together, WithItem
<1>. QED BY <1>1, <1>2 DEF Verdict, Status, LaneStatus

\* The wave with the status of its reconciliation.
LEMMA JudgedRow ==
    ASSUME NEW d \in Row, NEW s \in Status
    PROVE  LET e == [d EXCEPT !.status = s]
           IN  /\ e \in Row /\ SameWork(d, e) /\ e.task = d.task /\ e.closed = d.closed /\ e.status = s
    BY DEF Row, SameWork

LEMMA GovernStep == ASSUME IInv, Govern PROVE IInv'
<1> DEFINE s == Verdict(db)
           d == [db EXCEPT !.status = s]
<1>1. db \in Row /\ s \in Status /\ (Together => s # "RESTORE_REAPPROVAL_REQUIRED")
      BY VerdictStatus DEF IInv, Typed
<1> HIDE DEF s
<1>2. d \in Row /\ SameWork(db, d) /\ d.task = db.task /\ d.closed = db.closed /\ d.status = s
      BY <1>1, JudgedRow
<1>3. db' = Restock(d) /\ UNCHANGED <<aws, sei, copying>>
      BY DEF Govern, s
<1> HIDE DEF d
<1>4. db' \in Row /\ Requeued(d, db')
      BY <1>2, <1>3, RestockRequeues
<1>5. TaskQuiet(db, db')
      BY <1>2, <1>4 DEF Requeued, ItemsOnly, TaskQuiet, Polls
<1>6. /\ db'.obj = db.obj /\ db'.job = db.job /\ db'.closed = db.closed /\ db'.report = db.report
      /\ db'.gate = db.gate /\ db'.status = s
      /\ \A o \in Objs : \/ db'.item[o] = db.item[o]
                         \/ db.obj[o] = "RESTORED" /\ db.item[o] \in {"NONE", "CANCELLED"}
                              /\ db'.item[o] = "READY"
      BY <1>2, <1>4 DEF Requeued, ItemsOnly, SameWork
<1>. QED BY <1>1, <1>3, <1>4, <1>5, <1>6, QueuedObjs, QuietStep

LEMMA SubmitRow ==
    ASSUME NEW d \in Row
    PROVE  LET e == NewTask(d, "SUBMIT")
           IN  e \in Row /\ SameWork(d, e) /\ TaskQuiet(d, e) /\ e.closed = d.closed
             /\ e.status = d.status
<1> DEFINE e == NewTask(d, "SUBMIT")
<1>1. e \in Row /\ e = [d EXCEPT !.task = e.task]
      BY NewTaskRow
<1>2. TaskQuiet(d, e)
      BY SubmitQuiet
<1> HIDE DEF e
<1>3. SameWork(d, e) /\ e.closed = d.closed /\ e.status = d.status
      BY <1>1 DEF Row, SameWork
<1>. QED BY <1>1, <1>2, <1>3 DEF e

LEMMA AdmitStep == ASSUME IInv, Admit PROVE IInv'
<1> DEFINE s == Verdict(db)
           d == [db EXCEPT !.status = s]
           e == NewTask(d, "SUBMIT")
<1>1. db \in Row /\ s \in Status /\ (Together => s # "RESTORE_REAPPROVAL_REQUIRED")
      BY VerdictStatus DEF IInv, Typed
<1>2. db' = Restock(e) /\ UNCHANGED <<aws, sei, copying>>
      BY DEF Admit
<1> HIDE DEF s
<1>3. d \in Row /\ SameWork(db, d) /\ d.task = db.task /\ d.closed = db.closed /\ d.status = s
      BY <1>1, JudgedRow
<1> HIDE DEF d
<1>4. e \in Row /\ SameWork(d, e) /\ TaskQuiet(d, e) /\ e.closed = d.closed /\ e.status = d.status
      BY <1>3, SubmitRow
<1> HIDE DEF e
<1>5. db' \in Row /\ Requeued(e, db')
      BY <1>2, <1>4, RestockRequeues
<1>6. TaskQuiet(db, db')
      BY <1>3, <1>4, <1>5 DEF Requeued, ItemsOnly, TaskQuiet, Polls
<1>7. /\ db'.obj = db.obj /\ db'.job = db.job /\ db'.closed = db.closed /\ db'.report = db.report
      /\ db'.gate = db.gate /\ db'.status = s
      /\ \A o \in Objs : \/ db'.item[o] = db.item[o]
                         \/ db.obj[o] = "RESTORED" /\ db.item[o] \in {"NONE", "CANCELLED"}
                              /\ db'.item[o] = "READY"
      BY <1>3, <1>4, <1>5 DEF Requeued, ItemsOnly, SameWork
<1>. QED BY <1>1, <1>2, <1>5, <1>6, <1>7, QueuedObjs, QuietStep

LEMMA QueueWaveStep == ASSUME IInv, QueueWave PROVE IInv'
<1> DEFINE d == [db EXCEPT !.status = "READY_FOR_RESTORE"]
<1>1. db \in Row /\ "READY_FOR_RESTORE" \in Status
      BY DEF IInv, Typed, Status
<1>2. db' = NewTask(d, "SUBMIT") /\ UNCHANGED <<aws, sei, copying>>
      BY DEF QueueWave
<1>3. d \in Row /\ SameWork(db, d) /\ d.task = db.task /\ d.closed = db.closed
        /\ d.status = "READY_FOR_RESTORE"
      BY <1>1, JudgedRow
<1> HIDE DEF d
<1>4. db' \in Row /\ SameWork(d, db') /\ TaskQuiet(d, db') /\ db'.closed = d.closed
        /\ db'.status = d.status
      BY <1>2, <1>3, SubmitRow
<1>5. TaskQuiet(db, db')
      BY <1>3, <1>4 DEF TaskQuiet, Polls
<1>. QED BY <1>2, <1>3, <1>4, <1>5, QueuedObjs, QuietStep DEF SameWork

LEMMA PauseStep == ASSUME IInv, Pause PROVE IInv'
<1> DEFINE c == CancelWork(db)
<1>1. db \in Row /\ "PAUSED" \in Status
      BY DEF IInv, Typed, Status
<1>2. db' = [c EXCEPT !.status = "PAUSED"] /\ UNCHANGED <<aws, sei, copying>>
      BY DEF Pause
<1>3. /\ c \in Row /\ c.obj = db.obj /\ c.gate = db.gate /\ c.job = db.job /\ c.closed = db.closed
      /\ c.report = db.report
      /\ \A o \in Objs : c.item[o] = IF db.item[o] = "READY" THEN "CANCELLED" ELSE db.item[o]
      /\ DOMAIN c.task = DOMAIN db.task
      /\ \A t \in DOMAIN db.task : /\ c.task[t].kind = db.task[t].kind
                                   /\ c.task[t].state \notin {"READY", "RUNNING"}
      BY <1>1, CancelWorkRow
<1> HIDE DEF c
<1>4. db' \in Row /\ SameWork(c, db') /\ db'.task = c.task /\ db'.closed = c.closed
        /\ db'.status = "PAUSED"
      BY <1>1, <1>2, <1>3, JudgedRow
<1>5. TaskQuiet(db, db')
      BY <1>3, <1>4 DEF TaskQuiet, Polls
<1>6. \A o \in Objs : db'.item[o] = IF db.item[o] = "READY" THEN "CANCELLED" ELSE db.item[o]
      BY <1>3, <1>4 DEF SameWork
<1>. QED BY <1>2, <1>3, <1>4, <1>5, <1>6, QueuedObjs, QuietStep DEF SameWork

LEMMA ResumeStep == ASSUME IInv, Resume PROVE IInv'
<1> DEFINE back == WithItem(db, {"CANCELLED"})
           p == Put(db.item, back \cap InState(db, {"RESTORED"}), "READY")
           d == [db EXCEPT !.status = "READY_FOR_RESTORE"]
<1>1. /\ db \in Row /\ UNCHANGED <<aws, sei, copying>>
      /\ {"READY_FOR_RESTORE", "RESTORING", "TRANSFER_DRAINING"} \subseteq Status
      BY DEF IInv, Typed, Status, LaneStatus, Resume
<1>2. \/ db' = [db EXCEPT !.item = p, !.status = "TRANSFER_DRAINING"]
      \/ \E s \in {"READY_FOR_RESTORE", "RESTORING"} : db' = [db EXCEPT !.status = s]
      \/ db' = NewTask(d, "SUBMIT")
      BY DEF Resume, ResumedAt
<1>3. CASE db' = [db EXCEPT !.item = p, !.status = "TRANSFER_DRAINING"]
  <2>1. /\ p \in [Objs -> ItemState]
        /\ \A o \in Objs : p[o] = IF db.item[o] = "CANCELLED" /\ db.obj[o] = "RESTORED"
                                  THEN "READY" ELSE db.item[o]
        BY <1>1 DEF Put, InState, WithItem, Row, ItemState
  <2> HIDE DEF p
  <2>2. /\ db' \in Row /\ db'.item = p /\ db'.obj = db.obj /\ db'.task = db.task /\ db'.job = db.job
        /\ db'.gate = db.gate /\ db'.closed = db.closed /\ db'.report = db.report
        /\ db'.status = "TRANSFER_DRAINING"
        BY <1>1, <1>3, <2>1 DEF Row
  <2>3. TaskQuiet(db, db')
        BY <2>2 DEF TaskQuiet, Polls
  <2>. QED BY <1>1, <2>1, <2>2, <2>3, QueuedObjs, QuietStep
<1>4. ASSUME NEW s \in {"READY_FOR_RESTORE", "RESTORING"}, db' = [db EXCEPT !.status = s] PROVE IInv'
  <2>1. db' \in Row /\ SameWork(db, db') /\ db'.task = db.task /\ db'.closed = db.closed
          /\ db'.status = s
        BY <1>1, <1>4, JudgedRow
  <2>2. TaskQuiet(db, db')
        BY <2>1 DEF TaskQuiet, Polls
  <2>. QED BY <1>1, <2>1, <2>2, QueuedObjs, QuietStep DEF SameWork
<1>5. CASE db' = NewTask(d, "SUBMIT")
  <2>1. d \in Row /\ SameWork(db, d) /\ d.task = db.task /\ d.closed = db.closed
          /\ d.status = "READY_FOR_RESTORE"
        BY <1>1, JudgedRow
  <2> HIDE DEF d
  <2>2. db' \in Row /\ SameWork(d, db') /\ TaskQuiet(d, db') /\ db'.closed = d.closed
          /\ db'.status = d.status
        BY <1>5, <2>1, SubmitRow
  <2>3. TaskQuiet(db, db')
        BY <2>1, <2>2 DEF TaskQuiet, Polls
  <2>. QED BY <1>1, <2>1, <2>2, <2>3, QueuedObjs, QuietStep DEF SameWork
<1>. QED BY <1>2, <1>3, <1>4, <1>5

-----------------------------------------------------------------------------
(* Reprocessing and the retry of the evidence *)

LEMMA NoneActive ==
    ASSUME IInv, Active(db, {"SUBMIT", "POLL"}) = {}
    PROVE  \A t \in DOMAIN db.task : ~Polls(db, t)
    BY DEF Active, Polls

LEMMA ReprocessStep == ASSUME IInv, Reprocess PROVE IInv'
<1> DEFINE gated == WithItem(db, {"REAPPROVAL_REQUIRED"})
           reset == IF gated # {} \/ Gated(db)
                    THEN InState(db, ResetStates) \cap gated ELSE InState(db, ResetStates)
           p == Put(db.obj, reset, "WAVE_ASSIGNED")
           q == Withdraw(db.item, reset)
           s == IF db.pipeline THEN "RESTORE_SCHEDULED" ELSE "READY_FOR_RESTORE"
           d == [db EXCEPT !.obj = p, !.item = q, !.status = s, !.job = 0, !.gate = FALSE]
<1>1. db \in Row /\ UNCHANGED <<aws, sei, copying>> /\ \A t \in DOMAIN db.task : ~Polls(db, t)
      BY NoneActive DEF IInv, Typed, Reprocess
<1>2. db' = d \/ db' = NewTask(d, "SUBMIT")
      BY DEF Reprocess
<1>3. p \in [Objs -> ObjState]
        /\ \A o \in Objs : p[o] = IF o \in reset THEN "WAVE_ASSIGNED" ELSE db.obj[o]
  <2>1. db.obj \in [Objs -> ObjState] /\ "WAVE_ASSIGNED" \in ObjState
        BY <1>1 DEF Row, ObjState
  <2> HIDE DEF reset
  <2>. QED BY <2>1 DEF Put
<1>4. /\ q \in [Objs -> ItemState]
      /\ \A o \in Objs : q[o] = IF o \in reset /\ db.item[o] # "NONE" THEN "CANCELLED" ELSE db.item[o]
  <2>1. db.item \in [Objs -> ItemState] /\ "CANCELLED" \in ItemState
        BY <1>1 DEF Row, ItemState
  <2> HIDE DEF reset
  <2>. QED BY <2>1 DEF Withdraw
<1>5. s \in Status /\ s # "RESTORE_REAPPROVAL_REQUIRED"
      BY DEF Status
<1>6. Together => reset = InState(db, ResetStates)
      BY DEF Together, WithItem, Gated
<1> HIDE DEF p, q, s, reset
<1>7. d \in Row /\ d.obj = p /\ d.item = q /\ d.status = s /\ d.job = 0 /\ d.gate = FALSE
        /\ d.task = db.task
      BY <1>1, <1>3, <1>4, <1>5 DEF Row
<1> HIDE DEF d
<1>8. /\ db' \in Row /\ db'.obj = p /\ db'.item = q /\ db'.status = s /\ db'.job = 0 /\ db'.gate = FALSE
      /\ TaskQuiet(db, db')
  <2>1. CASE db' = d
        BY <1>7, <2>1 DEF TaskQuiet, Polls
  <2>2. CASE db' = NewTask(d, "SUBMIT")
    <3>1. db' \in Row /\ SameWork(d, db') /\ TaskQuiet(d, db') /\ db'.status = d.status
          BY <1>7, <2>2, SubmitRow
    <3>. QED BY <1>7, <3>1 DEF SameWork, TaskQuiet, Polls
  <2>. QED BY <1>2, <2>1, <2>2
<1>9. \A o \in Objs : db'.item[o] = "READY" => db'.obj[o] = "RESTORED"
  <2>1. \A o \in Objs : q[o] = "READY" => o \notin reset /\ db.item[o] = "READY"
        BY <1>4
  <2>. QED BY <1>3, <1>8, <2>1, QueuedObjs
<1>10. Together => Together'
  <2>. SUFFICES ASSUME Together PROVE Together'
       OBVIOUS
  <2>1. \A o \in Archive : o \in Objs /\ p[o] = "WAVE_ASSIGNED" /\ q[o] = "NONE"
        BY <1>3, <1>4, <1>6, RestoreWaveAssumption
           DEF Together, Unordered, Ordered, InState, ResetStates, Pending
  <2>2. \A o \in Objs : q[o] # "REAPPROVAL_REQUIRED"
        BY <1>4 DEF Together
  <2>3. Unordered'
    <3>1. \A t \in DOMAIN db'.task : ~Polls(db', t)
          BY <1>1, <1>8 DEF TaskQuiet, Polls
    <3>2. sei.step = "probing" => sei.left = {} /\ sei.job = 0
          BY DEF Together, Unordered, Ordered
    <3>. QED BY <1>1, <1>8, <2>1, <3>1, <3>2 DEF Unordered
  <2>. QED BY <1>1, <1>5, <1>8, <2>1, <2>2, <2>3 DEF Together
<1>11. db'.job <= Len(aws.jobs)
      BY <1>8, LenProperties DEF IInv, Typed, AwsSet
<1>. QED BY <1>1, <1>3, <1>8, <1>9, <1>10, <1>11, RequestStep DEF TaskQuiet

LEMMA RetryEvidenceStep == ASSUME IInv, RetryEvidence PROVE IInv'
<1> DEFINE gated == WithItem(db, {"REAPPROVAL_REQUIRED"})
           again == gated \ InState(db, {"TRANSFERRED"})
           p == Put(db.obj, again, "RESTORE_REQUESTED")
           q == Put(db.item, again, "CANCELLED")
           d == [db EXCEPT !.obj = p, !.item = q, !.status = "RESTORE_REQUESTED", !.gate = FALSE]
<1>1. db \in Row /\ UNCHANGED <<aws, sei, copying>> /\ gated # {}
      BY DEF IInv, Typed, RetryEvidence
<1>2. db' = NewTask(d, "POLL")
      BY DEF RetryEvidence
<1>3. ~Together
      BY <1>1 DEF Together, WithItem
<1>4. p \in [Objs -> ObjState]
        /\ \A o \in Objs : p[o] = IF o \in again THEN "RESTORE_REQUESTED" ELSE db.obj[o]
  <2>1. db.obj \in [Objs -> ObjState] /\ "RESTORE_REQUESTED" \in ObjState
        BY <1>1 DEF Row, ObjState, Pending
  <2> HIDE DEF again
  <2>. QED BY <2>1 DEF Put
<1>5. q \in [Objs -> ItemState]
        /\ \A o \in Objs : q[o] = IF o \in again THEN "CANCELLED" ELSE db.item[o]
  <2>1. db.item \in [Objs -> ItemState] /\ "CANCELLED" \in ItemState
        BY <1>1 DEF Row, ItemState
  <2> HIDE DEF again
  <2>. QED BY <2>1 DEF Put
<1> HIDE DEF p, q, again
<1>6. d \in Row /\ d.obj = p /\ d.item = q /\ d.job = db.job /\ d.task = db.task
      BY <1>1, <1>4, <1>5 DEF Row, Status
<1> HIDE DEF d
<1>7. db' \in Row /\ db'.obj = p /\ db'.item = q /\ db'.job = db.job
        /\ DOMAIN db.task \subseteq DOMAIN db'.task
  <2>1. db' \in Row /\ db' = [d EXCEPT !.task = db'.task]
          /\ DOMAIN db'.task = DOMAIN d.task \cup {Len(d.task) + 1}
        BY <1>2, <1>6, NewTaskRow
  <2>2. db'.obj = d.obj /\ db'.item = d.item /\ db'.job = d.job
        BY <1>6, <2>1 DEF Row
  <2>. QED BY <1>6, <2>1, <2>2
<1>8. \A o \in Objs : db'.item[o] = "READY" => db'.obj[o] = "RESTORED"
      BY <1>4, <1>5, <1>7, QueuedObjs
<1>. QED BY <1>1, <1>3, <1>4, <1>7, <1>8, RequestStep DEF IInv, Typed

LEMMA SeiKeeps == ASSUME IInv, Sei PROVE IInv'
    BY SubmitNothingStep, OrderStep, OrderRefusedStep, RecordStep, SupersedeStep, DescribeStep,
       ProbeStep,
       PollFailsStep, FinishStep DEF Sei

\* Every step keeps the invariant.
LEMMA NextInv == IInv /\ [Next]_vars => IInv'
<1> SUFFICES ASSUME IInv, [Next]_vars PROVE IInv'
    OBVIOUS
<1>1. CASE Claim("SUBMIT") \/ Claim("POLL")
      BY <1>1, ClaimStep
<1>2. CASE Operator
      BY <1>2, QueueWaveStep, PauseStep, ResumeStep, ReprocessStep, RetryEvidenceStep DEF Operator
<1>3. CASE UNCHANGED vars
  <2>1. UNCHANGED <<db, aws, sei, copying>>
        BY <1>3 DEF vars
  <2>. QED BY <2>1
              DEF IInv, Typed, ReadyIsSeen, OrderedIsNotRestored, RestoredIsObserved, QueuedIsRestored,
              OneJobPerTask, AllAccepted, Accepted, Together, Unordered, Ordered, Live, Polls, Seen,
              InState, WithItem
<1>. QED BY <1>1, <1>2, <1>3, SeiKeeps, DeathStep, AwsKeeps, LaneKeeps, GovernStep, AdmitStep DEF Next

\* The inductive invariant holds in every behaviour of restore and operator.
THEOREM Invariance == Spec => []IInv
<1>. QED BY InitInv, NextInv, PTL DEF Spec

\* Type correctness: the state columns hold only the codes that the restore
\* writes, and the wave and the worker name jobs that exist.
THEOREM TypeCorrect == Spec => []TypeOK
<1>1. IInv => TypeOK
      BY LenProperties
         DEF IInv, Typed, TypeOK, Row, AwsSet, Copy, Worker, ObjState, ItemState, Task, TaskState
<1>. QED BY <1>1, Invariance, PTL

\* No object is handed to the lane before HeadObject has shown its copy, along
\* probe, late poll, resume and retry of the evidence.
THEOREM CopiesAreObserved == Spec => []RestoredIsObserved
<1>1. IInv => RestoredIsObserved
      BY DEF IInv
<1>. QED BY <1>1, Invariance, PTL

\* A submission task creates one job, although its worker may die between
\* create_job and the commit and take the task again.
THEOREM TasksPayOnce == Spec => []OneJobPerTask
<1>1. IInv => OneJobPerTask
      BY DEF IInv
<1>. QED BY <1>1, Invariance, PTL

\* poll_restore calls an object accepted or restoring only after a published
\* report accepted it, also when retry revived a poll that was cancelled.
THEOREM WaitsAreAccepted == Spec => []WaitingIsAccepted
<1>1. IInv => WaitingIsAccepted
  <2>1. AllAccepted => WaitingIsAccepted
        BY DEF AllAccepted, Accepted, WaitingIsAccepted
  <2>2. Together => WaitingIsAccepted
        BY DEF Together, Unordered, Ordered, WaitingIsAccepted, InState
  <2>. QED BY <2>1, <2>2 DEF IInv
<1>. QED BY <1>1, Invariance, PTL

\* Items and objects are withdrawn together: no approval, pause, resume,
\* reprocess or order leaves a leasable item of an object that is not restored.
THEOREM QueueIsRestored == Spec => []QueuedIsRestored
<1>1. IInv => QueuedIsRestored
      BY DEF IInv
<1>. QED BY <1>1, Invariance, PTL
=============================================================================
