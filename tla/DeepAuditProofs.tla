---------------------------- MODULE DeepAuditProofs ----------------------------
(***************************************************************************)
(* What the deep audit guarantees for any waves, objects and number of     *)
(* audits.  One invariant carries every result: the database and Kai are   *)
(* well formed, a verified object was read and found intact, a VERIFIED    *)
(* wave has only such objects, and only a retry moves an audit back.       *)
(***************************************************************************)
EXTENDS DeepAudit, TLAPS

ObjState   == {"PENDING", "TRANSFERRED", "VERIFIED"} \cup Failed
WaveStatus == Auditable \cup {"VERIFICATION_QUEUED", "VERIFIED", "FAILED", "PAUSED", "TRANSFER"}

VerifiedIsIntact == \A o \in Objs : obj[o] = "VERIFIED" => o \in Intact \ Unproven
VerifiedWaveIsWhole ==
    \A w \in Waves : status[w] = "VERIFIED" => \A o \in ObjsOf(w) : obj[o] = "VERIFIED"
ReadIsProven == reading # NoObj => reading \notin Unproven
LateIsRetried == \A t \in Tasks : task[t].late => task[t].retried

\* todo and reading are not VERIFIED: an audit has selected them TRANSFERRED,
\* and only itself verifies.
OpenIsUnverified ==
    /\ \A o \in todo : obj[o] # "VERIFIED"
    /\ reading # NoObj => obj[reading] # "VERIFIED" /\ reading \notin todo

IInv == /\ TypeOK /\ VerifiedIsIntact /\ VerifiedWaveIsWhole /\ ReadIsProven
        /\ LateIsRetried /\ OpenIsUnverified

Kept == \A o \in Objs : obj[o] = "VERIFIED" => obj'[o] = "VERIFIED"

LEMMA SetStateMap ==
    ASSUME task \in [Tasks -> Task], NEW S, NEW s,
           s \in Live \cup {"NONE", "ASKED", "PAUSED", "SUCCEEDED", "FAILED", "CANCELLED"}
    PROVE  /\ SetState(S, s) \in [Tasks -> Task]
           /\ \A t \in Tasks : /\ SetState(S, s)[t].late = task[t].late
                               /\ SetState(S, s)[t].retried = task[t].retried
    BY DEF SetState, Task

-----------------------------------------------------------------------------
(* Initial states *)

LEMMA InitInv == Init => IInv
<1> SUFFICES ASSUME Init PROVE IInv
    OBVIOUS
<1>1. Null \in Task /\ ~Null.late
      BY WaveOfAssumption DEF Null, Task
<1>2. TypeOK
      BY <1>1, TaskAssumption DEF Init, TypeOK, Failed, Auditable
<1>3. LateIsRetried
      BY <1>1 DEF Init, LateIsRetried
<1>. QED BY <1>2, <1>3 DEF Init, IInv, VerifiedIsIntact, VerifiedWaveIsWhole, ReadIsProven,
                           OpenIsUnverified

-----------------------------------------------------------------------------
(* The operator, the lane and Shin: none of them takes a verification back *)

\* What leaves the objects and Kai alone has only tasks and statuses to justify.
LEMMA OutsideInv ==
    ASSUME IInv, UNCHANGED <<obj, kai>>, queuePaused' \in BOOLEAN,
           task' \in [Tasks -> Task], LateIsRetried',
           status' \in [Waves -> WaveStatus],
           \A w \in Waves : status'[w] = "VERIFIED" =>
               status[w] = "VERIFIED" \/ \A o \in ObjsOf(w) : obj[o] = "VERIFIED"
    PROVE  IInv' /\ Kept
<1>1. TypeOK'
      BY DEF IInv, TypeOK, kai, WaveStatus
<1>2. VerifiedWaveIsWhole'
      BY DEF IInv, VerifiedWaveIsWhole, ObjsOf
<1>. QED BY <1>1, <1>2 DEF IInv, kai, VerifiedIsIntact, ReadIsProven, OpenIsUnverified, Kept

LEMMA AskInv == ASSUME IInv, NEW w \in Waves, Ask(w) PROVE IInv' /\ Kept
<1> PICK t \in Tasks : task' = [task EXCEPT ![t] = [Null EXCEPT !.wave = w, !.state = "ASKED"]]
    BY DEF Ask
<1> DEFINE new == [Null EXCEPT !.wave = w, !.state = "ASKED"]
<1>1. new \in Task /\ ~new.late
      BY DEF Null, Task
<1>2. task \in [Tasks -> Task] /\ LateIsRetried /\ TypeOK
      BY DEF IInv, TypeOK
<1>3. task' = [task EXCEPT ![t] = new]
      OBVIOUS
<1> HIDE DEF new
<1>4. task' \in [Tasks -> Task] /\ LateIsRetried'
      BY <1>1, <1>2, <1>3 DEF LateIsRetried
<1>. QED BY <1>2, <1>4, OutsideInv DEF Ask, TypeOK, WaveStatus

LEMMA QueueInv == ASSUME IInv, NEW t \in Tasks, QueueAudit(t) PROVE IInv' /\ Kept
<1>1. task \in [Tasks -> Task] /\ LateIsRetried /\ TypeOK
      BY DEF IInv, TypeOK
<1>2. task' \in [Tasks -> Task] /\ LateIsRetried'
      BY <1>1 DEF QueueAudit, LateIsRetried, Task, Live
<1>3. task[t].wave \in Waves
      BY <1>1 DEF Task
<1>. QED BY <1>1, <1>2, <1>3, OutsideInv DEF QueueAudit, TypeOK, WaveStatus

\* Several tasks change state, and some waves come to wait for their audit.
LEMMA StatesInv ==
    ASSUME IInv, UNCHANGED <<obj, kai>>, queuePaused' \in BOOLEAN,
           NEW S, NEW W, NEW s \in {"READY", "PAUSED", "CANCELLED"},
           NEW v \in WaveStatus \ {"VERIFIED"},
           task' = SetState(S, s), status' = Update(status, W, v)
    PROVE  IInv' /\ Kept
<1>1. task \in [Tasks -> Task] /\ LateIsRetried /\ status \in [Waves -> WaveStatus]
      BY DEF IInv, TypeOK, WaveStatus
<1>2. task' \in [Tasks -> Task] /\ LateIsRetried'
      BY <1>1, SetStateMap DEF LateIsRetried, Live
<1>3. /\ status' \in [Waves -> WaveStatus]
      /\ \A w \in Waves : status'[w] = "VERIFIED" => status[w] = "VERIFIED"
      BY <1>1 DEF Update
<1>. QED BY <1>2, <1>3, OutsideInv

LEMMA PauseQueueInv == ASSUME IInv, PauseQueue PROVE IInv' /\ Kept
    BY StatesInv DEF PauseQueue, WaveStatus

LEMMA ResumeQueueInv == ASSUME IInv, ResumeQueue PROVE IInv' /\ Kept
    BY StatesInv DEF ResumeQueue, WaveStatus

LEMMA PauseWaveInv == ASSUME IInv, NEW w \in Waves, PauseWave(w) PROVE IInv' /\ Kept
<1>1. task \in [Tasks -> Task] /\ LateIsRetried /\ TypeOK
      BY DEF IInv, TypeOK
<1>2. task' \in [Tasks -> Task] /\ LateIsRetried'
      BY <1>1, SetStateMap DEF PauseWave, LateIsRetried, Live
<1>. QED BY <1>1, <1>2, OutsideInv DEF PauseWave, TypeOK, WaveStatus

LEMMA ResumeWaveInv == ASSUME IInv, NEW w \in Waves, ResumeWave(w) PROVE IInv' /\ Kept
<1>1. task' \in [Tasks -> Task] /\ LateIsRetried' /\ TypeOK
      BY DEF IInv, TypeOK, ResumeWave, LateIsRetried
<1>. QED BY <1>1, OutsideInv DEF ResumeWave, TypeOK, WaveStatus

LEMMA ReconcileInv == ASSUME IInv, Reconcile PROVE IInv' /\ Kept
<1>1. task' \in [Tasks -> Task] /\ LateIsRetried' /\ TypeOK
      BY DEF IInv, TypeOK, Reconcile, LateIsRetried
<1>2. \A w \in Waves : /\ Reconciled(w) \in WaveStatus
                       /\ Reconciled(w) = "VERIFIED" =>
                            status[w] = "VERIFIED" \/ \A o \in ObjsOf(w) : obj[o] = "VERIFIED"
      BY <1>1 DEF Reconciled, WaveStatus, TypeOK, Auditable
<1>. QED BY <1>1, <1>2, OutsideInv DEF Reconcile, TypeOK

LEMMA ApiStartInv == ASSUME IInv, ApiStart PROVE IInv' /\ Kept
<1>1. task' \in [Tasks -> Task] /\ LateIsRetried' /\ TypeOK
      BY DEF IInv, TypeOK, ApiStart, LateIsRetried
<1>2. \A w \in Waves : /\ status'[w] \in WaveStatus
                       /\ status'[w] = "VERIFIED" =>
                            status[w] = "VERIFIED" \/ \A o \in ObjsOf(w) : obj[o] = "VERIFIED"
      BY <1>1 DEF ApiStart, WaveStatus, TypeOK
<1>3. status' \in [Waves -> WaveStatus]
      BY <1>2 DEF ApiStart
<1>. QED BY <1>1, <1>2, <1>3, OutsideInv DEF ApiStart, TypeOK

\* What changes unverified objects to unverified ones.
LEMMA ReprocessInv == ASSUME IInv, NEW w \in Waves, Reprocess(w) PROVE IInv' /\ Kept
<1> DEFINE S == {o \in ObjsOf(w) : obj[o] \in Failed}
<1>1. obj \in [Objs -> ObjState] /\ TypeOK
      BY DEF IInv, TypeOK, ObjState
<1>2. /\ obj' \in [Objs -> ObjState]
      /\ \A o \in Objs : obj'[o] = IF o \in S THEN "PENDING" ELSE obj[o]
      BY <1>1 DEF Reprocess, ObjState, Update
<1>3. \A o \in Objs : obj'[o] = "VERIFIED" <=> obj[o] = "VERIFIED"
      BY <1>1, <1>2 DEF Failed
<1>4. TypeOK'
      BY <1>1, <1>2 DEF Reprocess, TypeOK, kai, ObjState, WaveStatus
<1>5. VerifiedWaveIsWhole'
      BY <1>1, <1>3 DEF IInv, VerifiedWaveIsWhole, Reprocess, TypeOK, ObjsOf
<1>6. OpenIsUnverified' /\ ReadIsProven' /\ LateIsRetried' /\ VerifiedIsIntact' /\ Kept
      BY <1>1, <1>3 DEF IInv, Reprocess, kai, TypeOK, OpenIsUnverified, ReadIsProven, LateIsRetried,
                  VerifiedIsIntact, Kept
<1>. QED BY <1>4, <1>5, <1>6 DEF IInv

LEMMA DeliverInv == ASSUME IInv, NEW o \in Objs, Deliver(o) PROVE IInv' /\ Kept
<1>1. TypeOK
      BY DEF IInv
<1>2. \A p \in Objs : obj'[p] = "VERIFIED" <=> obj[p] = "VERIFIED"
      BY <1>1 DEF Deliver, TypeOK
<1>3. TypeOK'
      BY <1>1 DEF Deliver, TypeOK, kai
<1>4. VerifiedWaveIsWhole'
      BY <1>1, <1>2 DEF IInv, VerifiedWaveIsWhole, Deliver, ObjsOf
<1>5. OpenIsUnverified' /\ ReadIsProven' /\ LateIsRetried' /\ VerifiedIsIntact' /\ Kept
      BY <1>1, <1>2 DEF IInv, Deliver, kai, TypeOK, OpenIsUnverified, ReadIsProven, LateIsRetried,
                  VerifiedIsIntact, Kept
<1>. QED BY <1>3, <1>4, <1>5 DEF IInv

-----------------------------------------------------------------------------
(* Kai *)

\* What leaves the objects and the waves alone: a claim, a stop, a death.
LEMMA KaiInv ==
    ASSUME IInv, UNCHANGED <<obj, status, queuePaused>>,
           task' \in [Tasks -> Task], LateIsRetried',
           pc' \in {"idle", "polled", "claimed", "boundary"},
           held' \in Tasks \cup {NoTask}, held' = NoTask <=> pc' \in {"idle", "polled"},
           todo' \subseteq {o \in Objs : obj[o] # "VERIFIED"}, reading' = NoObj
    PROVE  IInv' /\ Kept
<1>1. TypeOK'
      BY DEF IInv, TypeOK
<1>2. VerifiedWaveIsWhole' /\ VerifiedIsIntact' /\ Kept
      BY DEF IInv, VerifiedWaveIsWhole, VerifiedIsIntact, Kept, ObjsOf
<1>3. ReadIsProven' /\ OpenIsUnverified'
      BY DEF ReadIsProven, OpenIsUnverified
<1>. QED BY <1>1, <1>2, <1>3 DEF IInv

LEMMA StopInv ==
    ASSUME IInv, Idle, UNCHANGED <<obj, status, queuePaused>>,
           task' \in [Tasks -> Task], LateIsRetried'
    PROVE  IInv' /\ Kept
    BY KaiInv DEF Idle

LEMMA PollInv == ASSUME IInv, Poll PROVE IInv' /\ Kept
    BY KaiInv DEF Poll, IInv, TypeOK, LateIsRetried, OpenIsUnverified

LEMMA ClaimInv == ASSUME IInv, Claim PROVE IInv' /\ Kept
<1>1. TypeOK /\ LateIsRetried /\ OpenIsUnverified
      BY DEF IInv
<1>2. CASE Claimable = {}
      BY <1>1, <1>2, StopInv DEF Claim, TypeOK, LateIsRetried
<1>3. CASE Claimable # {}
  <2>1. PICK t \in Tasks : /\ task' = [task EXCEPT ![t].state = "RUNNING"]
                          /\ pc' = "claimed" /\ held' = t /\ UNCHANGED <<todo, reading>>
        BY <1>3 DEF Claim, Claimable
  <2>2. task' \in [Tasks -> Task] /\ LateIsRetried'
        BY <1>1, <2>1 DEF TypeOK, Task, LateIsRetried, Live
  <2>3. t # NoTask
        BY TaskAssumption DEF Tasks
  <2>4. reading' = NoObj /\ todo' \subseteq {o \in Objs : obj[o] # "VERIFIED"}
        BY <1>1, <2>1 DEF Claim, TypeOK, OpenIsUnverified
  <2>. QED BY <2>1, <2>2, <2>3, <2>4, KaiInv DEF Claim
<1>. QED BY <1>2, <1>3

LEMMA BeginInv == ASSUME IInv, Begin PROVE IInv' /\ Kept
<1>1. TypeOK /\ LateIsRetried
      BY DEF IInv
<1>2. todo' \subseteq {o \in Objs : obj[o] # "VERIFIED"}
      BY DEF Begin, Selected, ObjsOf
<1>. QED BY <1>1, <1>2, KaiInv DEF Begin, TypeOK, LateIsRetried

LEMMA StopForPauseInv == ASSUME IInv, StopForPause PROVE IInv' /\ Kept
    BY StopInv DEF StopForPause, IInv, TypeOK, LateIsRetried

LEMMA CrashInv == ASSUME IInv, Crash PROVE IInv' /\ Kept
    BY StopInv DEF Crash, IInv, TypeOK, LateIsRetried

LEMMA StopForShutdownInv == ASSUME IInv, StopForShutdown PROVE IInv' /\ Kept
<1>1. TypeOK /\ LateIsRetried
      BY DEF IInv
<1>2. task' \in [Tasks -> Task] /\ LateIsRetried'
      BY <1>1 DEF StopForShutdown, TypeOK, Task, LateIsRetried, Live
<1>. QED BY <1>2, StopInv DEF StopForShutdown

\* A failed object leaves the audit unverified as it came.
LEMMA FailsInv ==
    ASSUME IInv, NEW o \in Objs, obj[o] # "VERIFIED", NEW how \in Failed, Fails(o, how),
           UNCHANGED <<task, status, queuePaused, held>>, held # NoTask,
           pc' = "boundary", todo' \subseteq todo, reading' = NoObj
    PROVE  IInv' /\ Kept
<1>1. TypeOK
      BY DEF IInv
<1>2. \A p \in Objs : obj'[p] = "VERIFIED" <=> obj[p] = "VERIFIED"
      BY <1>1 DEF Fails, TypeOK, Failed
<1>3. TypeOK'
      BY <1>1 DEF Fails, TypeOK
<1>4. VerifiedWaveIsWhole' /\ VerifiedIsIntact' /\ Kept
      BY <1>2 DEF IInv, VerifiedWaveIsWhole, VerifiedIsIntact, Kept, ObjsOf
<1>5. ReadIsProven' /\ LateIsRetried'
      BY DEF IInv, ReadIsProven, LateIsRetried
<1>6. OpenIsUnverified'
      BY <1>1, <1>2 DEF IInv, OpenIsUnverified, TypeOK
<1>. QED BY <1>3, <1>4, <1>5, <1>6 DEF IInv

LEMMA NextObjectInv == ASSUME IInv, NextObject PROVE IInv' /\ Kept
<1>1. TypeOK /\ OpenIsUnverified /\ LateIsRetried /\ VerifiedIsIntact /\ VerifiedWaveIsWhole
      BY DEF IInv
<1>2. PICK o \in todo : /\ todo' = todo \ {o}
                       /\ IF o \in Unproven
                          THEN Fails(o, "FAILED") /\ UNCHANGED <<pc, reading>>
                          ELSE /\ pc' = "reading" /\ reading' = o
                               /\ UNCHANGED obj
      BY DEF NextObject
<1>3. o \in Objs /\ obj[o] # "VERIFIED" /\ held # NoTask /\ reading = NoObj
      BY <1>1 DEF NextObject, TypeOK, OpenIsUnverified
<1>4. CASE o \in Unproven
      BY <1>2, <1>3, <1>4, FailsInv DEF NextObject, Failed
<1>5. CASE o \notin Unproven
  <2>1. TypeOK'
        BY <1>1, <1>2, <1>3, <1>5, TaskAssumption DEF NextObject, TypeOK
  <2>2. VerifiedWaveIsWhole' /\ VerifiedIsIntact' /\ Kept /\ LateIsRetried'
        BY <1>1, <1>2, <1>5 DEF NextObject, VerifiedWaveIsWhole, VerifiedIsIntact, Kept, LateIsRetried, ObjsOf
  <2>3. ReadIsProven' /\ OpenIsUnverified'
        BY <1>1, <1>2, <1>3, <1>5 DEF ReadIsProven, OpenIsUnverified
  <2>. QED BY <2>1, <2>2, <2>3 DEF IInv
<1>. QED BY <1>4, <1>5

\* What is being read is an unverified object of the held audit.
LEMMA ReadingFacts ==
    ASSUME IInv, pc \in {"reading", "read"}
    PROVE  /\ reading \in Objs /\ reading \notin Unproven /\ held # NoTask
           /\ obj[reading] # "VERIFIED" /\ reading \notin todo
    BY DEF IInv, TypeOK, OpenIsUnverified, ReadIsProven

LEMMA PauseCaughtInv == ASSUME IInv, PauseCaught PROVE IInv' /\ Kept
    BY ReadingFacts, FailsInv DEF PauseCaught, Failed

LEMMA ReadFailsInv == ASSUME IInv, ReadFails PROVE IInv' /\ Kept
    BY ReadingFacts, FailsInv DEF ReadFails, Failed

LEMMA ReadDoneInv == ASSUME IInv, ReadDone PROVE IInv' /\ Kept
<1>1. TypeOK'
      BY DEF IInv, ReadDone, TypeOK
<1>2. VerifiedWaveIsWhole' /\ VerifiedIsIntact' /\ Kept /\ LateIsRetried' /\ ReadIsProven'
        /\ OpenIsUnverified'
      BY DEF IInv, ReadDone, VerifiedWaveIsWhole, VerifiedIsIntact, Kept, LateIsRetried, ReadIsProven,
             OpenIsUnverified, ObjsOf
<1>. QED BY <1>1, <1>2 DEF IInv

LEMMA JudgeInv == ASSUME IInv, Judge PROVE IInv' /\ Kept
<1>1. TypeOK /\ OpenIsUnverified /\ VerifiedIsIntact /\ VerifiedWaveIsWhole /\ LateIsRetried
      BY DEF IInv
<1>2. /\ reading \in Objs /\ reading \notin Unproven /\ held # NoTask
      /\ obj[reading] # "VERIFIED" /\ reading \notin todo
      BY ReadingFacts DEF Judge
<1>3. CASE reading \in Intact
  <2>1. obj' = [obj EXCEPT ![reading] = "VERIFIED"]
        BY <1>3 DEF Judge
  <2>2. \A o \in Objs : obj'[o] = "VERIFIED" <=> obj[o] = "VERIFIED" \/ o = reading
        BY <1>1, <2>1 DEF TypeOK
  <2>3. TypeOK'
        BY <1>1, <1>2, <2>1 DEF Judge, TypeOK
  <2>4. VerifiedIsIntact' /\ Kept
        BY <1>1, <1>2, <1>3, <2>2 DEF VerifiedIsIntact, Kept
  <2>5. VerifiedWaveIsWhole'
        BY <1>1, <2>2 DEF Judge, VerifiedWaveIsWhole, ObjsOf
  <2>6. OpenIsUnverified' /\ ReadIsProven' /\ LateIsRetried'
        BY <1>1, <1>2, <2>2 DEF Judge, TypeOK, OpenIsUnverified, ReadIsProven, LateIsRetried
  <2>. QED BY <2>3, <2>4, <2>5, <2>6 DEF IInv
<1>4. CASE reading \notin Intact
      BY <1>2, <1>4, FailsInv DEF Judge, Failed
<1>. QED BY <1>3, <1>4

LEMMA FinishInv == ASSUME IInv, Finish PROVE IInv' /\ Kept
<1> DEFINE w == task[held].wave
<1>1. TypeOK /\ LateIsRetried /\ VerifiedWaveIsWhole /\ VerifiedIsIntact
      BY DEF IInv
<1>2. held \in Tasks /\ w \in Waves
      BY <1>1 DEF Finish, TypeOK, Task
<1>3. task' \in [Tasks -> Task] /\ LateIsRetried'
      BY <1>1 DEF Finish, TypeOK, Task, LateIsRetried, Live
<1>4. status' = [status EXCEPT ![w] = Verdict(w)]
      BY DEF Finish
<1>5. /\ Verdict(w) \in {"VERIFIED", "VERIFICATION_FAILED"}
      /\ Verdict(w) = "VERIFIED" => \A o \in ObjsOf(w) : obj[o] = "VERIFIED"
      BY DEF Verdict
<1>6. status' \in [Waves -> WaveStatus]
      BY <1>1, <1>2, <1>4, <1>5 DEF TypeOK, WaveStatus, Auditable
<1>7. TypeOK'
      BY <1>1, <1>3, <1>6 DEF Finish, Idle, TypeOK, WaveStatus
<1>8. VerifiedWaveIsWhole'
  <2>1. \A v \in Waves : status'[v] = IF v = w THEN Verdict(w) ELSE status[v]
        BY <1>1, <1>2, <1>4 DEF TypeOK
  <2>. QED BY <1>1, <1>5, <2>1 DEF VerifiedWaveIsWhole, Finish, ObjsOf
<1>9. VerifiedIsIntact' /\ Kept /\ OpenIsUnverified' /\ ReadIsProven'
      BY <1>1 DEF Finish, Idle, VerifiedIsIntact, Kept, OpenIsUnverified, ReadIsProven
<1>. QED BY <1>3, <1>7, <1>8, <1>9 DEF IInv

LEMMA TaskErrorInv == ASSUME IInv, TaskError PROVE IInv' /\ Kept
<1> DEFINE w == task[held].wave
<1>1. TypeOK /\ LateIsRetried /\ VerifiedWaveIsWhole /\ VerifiedIsIntact
      BY DEF IInv
<1>2. held \in Tasks /\ w \in Waves
      BY <1>1 DEF TaskError, TypeOK, Task
<1>3. CASE /\ task' = [task EXCEPT ![held].state = "READY", ![held].retried = TRUE,
                                   ![held].late = TRUE]
           /\ UNCHANGED status
  <2> DEFINE back == [task[held] EXCEPT !.state = "READY", !.retried = TRUE, !.late = TRUE]
  <2>1. back \in Task /\ back.retried
        BY <1>1, <1>2 DEF TypeOK, Task, Live
  <2>2. task' = [task EXCEPT ![held] = back]
        BY <1>1, <1>2, <1>3 DEF TypeOK, Task
  <2> HIDE DEF back
  <2>3. task' \in [Tasks -> Task] /\ LateIsRetried'
        BY <1>1, <1>2, <2>1, <2>2 DEF TypeOK, LateIsRetried
  <2>. QED BY <1>3, <2>3, StopInv DEF TaskError
<1>4. CASE /\ task' = [task EXCEPT ![held].state = "FAILED"]
           /\ status' = IF status[w] \in {"PAUSED", "VERIFIED"} THEN status
                        ELSE [status EXCEPT ![w] = "FAILED"]
  <2>1. task' \in [Tasks -> Task] /\ LateIsRetried'
        BY <1>1, <1>2, <1>4 DEF TypeOK, Task, LateIsRetried, Live
  <2>2. /\ status' \in [Waves -> WaveStatus]
        /\ \A v \in Waves : status'[v] = "VERIFIED" => status[v] = "VERIFIED"
        BY <1>1, <1>2, <1>4 DEF TypeOK, WaveStatus
  <2>3. TypeOK'
        BY <1>1, <2>1, <2>2 DEF TaskError, Idle, TypeOK, WaveStatus
  <2>4. VerifiedWaveIsWhole'
        BY <1>1, <2>2 DEF VerifiedWaveIsWhole, TaskError, ObjsOf
  <2>5. VerifiedIsIntact' /\ Kept /\ OpenIsUnverified' /\ ReadIsProven'
        BY <1>1 DEF TaskError, Idle, VerifiedIsIntact, Kept, OpenIsUnverified, ReadIsProven
  <2>. QED BY <2>1, <2>3, <2>4, <2>5 DEF IInv
<1>. QED BY <1>3, <1>4 DEF TaskError

-----------------------------------------------------------------------------
(* The specification *)

LEMMA NextInv == IInv /\ [Next]_vars => IInv' /\ Kept
<1> SUFFICES ASSUME IInv, [Next]_vars PROVE IInv' /\ Kept
    OBVIOUS
<1>1. CASE Audit
      BY <1>1, PollInv, ClaimInv, BeginInv, StopForPauseInv, StopForShutdownInv, NextObjectInv,
         PauseCaughtInv, ReadFailsInv, ReadDoneInv, JudgeInv, FinishInv, TaskErrorInv DEF Audit
<1>2. CASE Operator
      BY <1>2, PauseQueueInv, ResumeQueueInv, ApiStartInv, QueueInv, AskInv, PauseWaveInv,
         ResumeWaveInv, ReprocessInv DEF Operator
<1>3. CASE Reconcile
      BY <1>3, ReconcileInv
<1>4. CASE \E o \in Objs : Deliver(o)
      BY <1>4, DeliverInv
<1>5. CASE Crash
      BY <1>5, CrashInv
<1>6. CASE UNCHANGED vars
  <2>1. TypeOK' /\ VerifiedIsIntact' /\ VerifiedWaveIsWhole'
        BY <1>6 DEF vars, kai, IInv, TypeOK, VerifiedIsIntact, VerifiedWaveIsWhole, ObjsOf
  <2>2. ReadIsProven' /\ LateIsRetried' /\ OpenIsUnverified' /\ Kept
        BY <1>6 DEF vars, kai, IInv, ReadIsProven, LateIsRetried, OpenIsUnverified, Kept
  <2>. QED BY <2>1, <2>2 DEF IInv
<1>. QED BY <1>1, <1>2, <1>3, <1>4, <1>5, <1>6 DEF Next

LEMMA Invariance == Spec => []IInv
    BY InitInv, NextInv, PTL DEF Spec

\* Every reachable state of the audit is well formed.
THEOREM TypeCorrect == Spec => []TypeOK
<1>1. IInv => TypeOK
      BY DEF IInv
<1>. QED BY <1>1, Invariance, PTL

\* Whatever fails, is copied again, is audited twice or reconciled meanwhile, a
\* wave is VERIFIED only if a read found every object of it intact.
THEOREM VerdictIsTrue == Spec => []VerifiedWaveIsProven
<1>1. IInv => VerifiedWaveIsProven
      BY DEF IInv, VerifiedIsIntact, VerifiedWaveIsWhole, VerifiedWaveIsProven, ObjsOf
<1>. QED BY <1>1, Invariance, PTL

\* No step of Kai, the operator, the lane or Shin gives up a verification.
THEOREM VerificationIsFinal == Spec => VerificationIsKept
<1>1. IInv /\ [Next]_vars => [Kept]_vars
      BY NextInv
<1>. QED BY <1>1, Invariance, PTL DEF Spec, VerificationIsKept, Kept

\* An interrupted audit is taken up before every later one.
THEOREM AuditsAreFIFO == Spec => InterruptedAuditGoesFirst
<1> DEFINE A == \A t \in Tasks : pc = "polled" /\ held' = t =>
                  \A s \in Claimable : s < t => task[s].retried
<1>1. IInv /\ [Next]_vars => [A]_vars
  <2> SUFFICES ASSUME IInv, [Next]_vars, NEW t \in Tasks, pc = "polled", held' = t,
                      NEW s \in Claimable, s < t
               PROVE  task[s].retried
      OBVIOUS
  <2>1. held = NoTask /\ held # t /\ LateIsRetried /\ s \in Tasks
        BY TaskAssumption DEF IInv, TypeOK, Tasks, Claimable
  <2>2. ~UNCHANGED kai
        BY <2>1 DEF kai
  <2>3. Claim
    <3>1. ~Operator /\ ~Reconcile /\ ~(\E o \in Objs : Deliver(o)) /\ ~UNCHANGED vars
          BY <2>2 DEF Operator, PauseQueue, ResumeQueue, ApiStart, QueueAudit, Ask, PauseWave,
                      ResumeWave, Reprocess, Reconcile, Deliver, vars
    <3>2. ~Crash
          BY <2>1 DEF Crash
    <3>3. Audit
          BY <3>1, <3>2 DEF Next
    <3>. QED BY <3>3 DEF Audit, Poll, Begin, StopForPause, StopForShutdown, NextObject,
                         PauseCaught, ReadFails, ReadDone, Judge, Finish, TaskError
  <2>4. First(t)
        BY <2>1, <2>3, TaskAssumption DEF Claim, Idle
  <2>. QED BY <2>1, <2>4 DEF First, LateIsRetried
<1>. QED BY <1>1, Invariance, PTL DEF Spec, InterruptedAuditGoesFirst

================================================================================
