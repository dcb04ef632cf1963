------------------------- MODULE TransferLaneProofs -------------------------
(***************************************************************************)
(* What the transfer lane guarantees for any waves, objects and slots.     *)
(* The database operators are treated first, one lemma each: every one     *)
(* keeps the database good and takes no delivery back.  The steps of the   *)
(* specification compose them.                                             *)
(***************************************************************************)
EXTENDS TransferLane, TLAPS

\* The inductive part: a database of the right type in which TRANSFERRED items
\* and COMPLETED waves have delivered objects.
Good(d) ==
    /\ d \in Database
    /\ \A o \in Objs : d.item[o] = "TRANSFERRED" => d.obj[o] = "TRANSFERRED"
    /\ \A o \in Objs : d.wave[WaveOf[o]] = "COMPLETED" => d.obj[o] = "TRANSFERRED"

Keeps(d, e) == \A o \in Objs : d.obj[o] = "TRANSFERRED" => e.obj[o] = "TRANSFERRED"
Safe(d, e)  == Good(e) /\ Keeps(d, e)

LEMMA UpdateMap ==
    ASSUME NEW X, NEW Y, NEW f \in [X -> Y], NEW S, NEW v \in Y
    PROVE  /\ Update(f, S, v) \in [X -> Y]
           /\ \A x \in X : Update(f, S, v)[x] = IF x \in S THEN v ELSE f[x]
    BY DEF Update

LEMMA SafeTransitive ==
    ASSUME NEW d, NEW e, NEW f, Safe(d, e), Safe(e, f)
    PROVE  Safe(d, f)
    BY DEF Safe, Keeps

LEMMA SafeReflexive == ASSUME NEW d, Good(d) PROVE Safe(d, d)
    BY DEF Safe, Keeps

-----------------------------------------------------------------------------
(* The operators on the database *)

LEMMA FinalizeSafe ==
    ASSUME NEW d, Good(d), NEW aged
    PROVE  Safe(d, FinalizeDelivered(d, aged))
<1> DEFINE S == aged \cap DeliveredLeases(d)
           i == Update(d.item, S, "TRANSFERRED")
           e == FinalizeDelivered(d, aged)
<1>1. d \in Database /\ S \subseteq Objs
      BY DEF Good, DeliveredLeases
<1>2. i \in [Objs -> ItemState] /\ \A o \in Objs : i[o] = IF o \in S THEN "TRANSFERRED" ELSE d.item[o]
      <2>1. d.item \in [Objs -> ItemState] /\ "TRANSFERRED" \in ItemState
            BY <1>1 DEF Database, ItemState
      <2>. QED BY <2>1 DEF Update
<1>3. e = [d EXCEPT !.item = i, !.lapsed = d.lapsed \ S]
      BY DEF FinalizeDelivered
<1>. HIDE DEF e, i, S
<1>4. e \in Database /\ e.item = i /\ e.obj = d.obj /\ e.wave = d.wave
      BY <1>1, <1>2, <1>3 DEF Database
<1>5. \A o \in S : d.obj[o] = "TRANSFERRED"
      BY DEF S, DeliveredLeases
<1>6. Good(e) /\ Keeps(d, e)
      BY <1>2, <1>4, <1>5 DEF Good, Keeps
<1>. QED BY <1>6 DEF Safe, e

\* What it takes to change a good database safely.
LEMMA FrameSafe ==
    ASSUME NEW d, Good(d), NEW e \in Database, Keeps(d, e),
           \A o \in Objs : e.item[o] = "TRANSFERRED" =>
               d.item[o] = "TRANSFERRED" \/ e.obj[o] = "TRANSFERRED",
           \A w \in Waves : e.wave[w] = "COMPLETED" =>
               d.wave[w] = "COMPLETED" \/ \A o \in ObjsOf(w) : e.obj[o] = "TRANSFERRED"
    PROVE  Safe(d, e)
<1>1. \A o \in Objs : WaveOf[o] \in Waves /\ o \in ObjsOf(WaveOf[o])
      BY WaveOfAssumption DEF ObjsOf
<1>. QED BY <1>1 DEF Safe, Good, Keeps

LEMMA RecoverSafe ==
    ASSUME NEW d, Good(d), NEW aged
    PROVE  Safe(d, RecoverLeases(d, aged))
<1> DEFINE f    == FinalizeDelivered(d, aged)
           gone == {o \in d.lapsed \ (aged \cap DeliveredLeases(d)) : d.item[o] = "LEASED"}
           torn == {o \in gone : d.obj[o] = "TRANSFERRING"}
           i    == Update(f.item, gone, "MULTIPART_RESUME")
           b    == Update(d.obj, torn, "RESTORED")
           e    == RecoverLeases(d, aged)
<1>1. Good(f) /\ Keeps(d, f) /\ d \in Database /\ f \in Database
      BY FinalizeSafe DEF Safe, Good
<1>2. e = [f EXCEPT !.item = i, !.obj = b, !.lapsed = {}]
      BY DEF RecoverLeases
<1>3. \A o \in torn : d.obj[o] # "TRANSFERRED"
      OBVIOUS
<1>4. f.obj = d.obj
      BY <1>1 DEF FinalizeDelivered, Database
<1>. HIDE DEF f, gone, torn, e
<1>5. /\ i \in [Objs -> ItemState]
      /\ \A o \in Objs : i[o] = "TRANSFERRED" => f.item[o] = "TRANSFERRED"
      BY <1>1 DEF Update, Database, ItemState, Outstanding, Queued
<1>6. /\ b \in [Objs -> ObjectState]
      /\ \A o \in Objs : d.obj[o] = "TRANSFERRED" => b[o] = "TRANSFERRED"
      BY <1>1, <1>3 DEF Update, Database, ObjectState
<1>. HIDE DEF i, b
<1>7. e \in Database /\ e.item = i /\ e.obj = b /\ e.wave = f.wave
      BY <1>1, <1>2, <1>5, <1>6 DEF Database
<1>8. Keeps(f, e)
      BY <1>4, <1>6, <1>7 DEF Keeps
<1>9. Safe(f, e)
      BY <1>1, <1>5, <1>7, <1>8, FrameSafe
<1>. QED BY <1>1, <1>9, SafeTransitive DEF Safe, e

LEMMA ReapprovalSafe ==
    ASSUME NEW d, Good(d), NEW S, S \subseteq Objs
    PROVE  Safe(d, RequireReapproval(d, S))
<1> DEFINE lost == {o \in S : d.item[o] # "TRANSFERRED" /\ d.obj[o] # "TRANSFERRED"}
           i    == Update(d.item, lost, "REAPPROVAL_REQUIRED")
           b    == Update(d.obj, lost, "RESTORING")
           v    == Update(d.wave, WavesOf(lost), "RESTORE_REAPPROVAL_REQUIRED")
           e    == RequireReapproval(d, S)
<1>1. d \in Database
      BY DEF Good
<1>2. e = [d EXCEPT !.item = i, !.obj = b, !.lapsed = d.lapsed \ lost, !.wave = v,
                    !.reapproval = d.reapproval \cup WavesOf(lost)]
      BY DEF RequireReapproval
<1>3. \A o \in lost : d.obj[o] # "TRANSFERRED"
      OBVIOUS
<1>4. WavesOf(lost) \subseteq Waves
      BY WaveOfAssumption DEF WavesOf
<1>. HIDE DEF lost, e
<1>5. /\ i \in [Objs -> ItemState]
      /\ \A o \in Objs : i[o] = "TRANSFERRED" => d.item[o] = "TRANSFERRED"
      BY <1>1 DEF Update, Database, ItemState
<1>6. /\ b \in [Objs -> ObjectState]
      /\ \A o \in Objs : d.obj[o] = "TRANSFERRED" => b[o] = "TRANSFERRED"
      BY <1>1, <1>3 DEF Update, Database, ObjectState
<1>7. /\ v \in [Waves -> WaveStatus]
      /\ \A w \in Waves : v[w] = "COMPLETED" => d.wave[w] = "COMPLETED"
      BY <1>1 DEF Update, Database, WaveStatus
<1>. HIDE DEF i, b, v
<1>8. e \in Database /\ e.item = i /\ e.obj = b /\ e.wave = v
      BY <1>1, <1>2, <1>4, <1>5, <1>6, <1>7 DEF Database
<1>9. Keeps(d, e)
      BY <1>6, <1>8 DEF Keeps
<1>. QED BY <1>5, <1>7, <1>8, <1>9, FrameSafe DEF e

LEMMA RefreshSafe ==
    ASSUME NEW d, Good(d)
    PROVE  Safe(d, RefreshPriorities(d))
<1> DEFINE S == {o \in d.expired : d.item[o] \in Queued}
<1>1. S \subseteq Objs
      BY DEF Good, Database
<1>. QED BY <1>1, ReapprovalSafe DEF RefreshPriorities

LEMMA AnchorsSafe ==
    ASSUME NEW d, Good(d)
    PROVE  Safe(d, ReconcileAnchors(d))
<1> DEFINE done == {w \in Waves : d.wave[w] = "COMPLETED"}
           open == {w \in Waves : /\ d.wave[w] # "PAUSED"
                                  /\ \E o \in ObjsOf(w) : d.item[o] \in Outstanding}
           next == CHOOSE w \in open : TRUE
           r    == (d.ready \ done) \cup
                     (IF d.ready \cap done # {} /\ open # {} THEN {next} ELSE {})
           u    == IF d.running \in done /\ open # {} THEN next ELSE d.running
           e    == ReconcileAnchors(d)
<1>1. d \in Database
      BY DEF Good
<1>2. e = [d EXCEPT !.ready = r, !.running = u]
      BY DEF ReconcileAnchors
<1>3. open # {} => next \in Waves
      OBVIOUS
<1>. HIDE DEF done, open, next, e
<1>4. r \in SUBSET Waves /\ u \in Waves \cup {NoWave}
      BY <1>1, <1>3 DEF Database
<1>. HIDE DEF r, u
<1>5. e \in Database /\ e.item = d.item /\ e.obj = d.obj /\ e.wave = d.wave
      BY <1>1, <1>2, <1>4 DEF Database
<1>. QED BY <1>5 DEF Safe, Good, Keeps, e

LEMMA WavesSafe ==
    ASSUME NEW d, Good(d)
    PROVE  Safe(d, ReconcileWaves(d))
<1> DEFINE v == [w \in Waves |-> WaveVerdict(d, w)]
           e == [d EXCEPT !.wave = v]
<1>1. d \in Database
      BY DEF Good
<1>2. \A w \in Waves : WaveVerdict(d, w) \in WaveStatus
      BY <1>1 DEF WaveVerdict, Database, WaveStatus
<1>3. ASSUME NEW w \in Waves, WaveVerdict(d, w) = "COMPLETED"
      PROVE  d.wave[w] = "COMPLETED" \/ \A o \in ObjsOf(w) : d.obj[o] = "TRANSFERRED"
      BY <1>3 DEF WaveVerdict
<1>4. v \in [Waves -> WaveStatus]
      BY <1>2
<1>5. e \in Database /\ e.item = d.item /\ e.obj = d.obj /\ e.wave = v
      BY <1>1, <1>4 DEF Database
<1>6. Safe(d, e)
      <2>1. Keeps(d, e)
            BY <1>5 DEF Keeps
      <2>2. \A w \in Waves : e.wave[w] = "COMPLETED" =>
                d.wave[w] = "COMPLETED" \/ \A o \in ObjsOf(w) : e.obj[o] = "TRANSFERRED"
            BY <1>3, <1>5
      <2>. HIDE DEF e
      <2>. QED BY <1>5, <2>1, <2>2, FrameSafe
<1>7. Safe(e, ReconcileAnchors(e))
      BY <1>6, AnchorsSafe DEF Safe
<1>. QED BY <1>6, <1>7, SafeTransitive DEF ReconcileWaves

LEMMA EnqueueSafe ==
    ASSUME NEW d, Good(d), NEW W
    PROVE  Safe(d, EnqueueAvailable(d, W))
<1> DEFINE S == {o \in Objs : /\ WaveOf[o] \in W
                              /\ d.obj[o] = "RESTORED"
                              /\ d.item[o] \in {"NONE", "CANCELLED"}}
           i == Update(d.item, S, "READY")
           e == EnqueueAvailable(d, W)
<1>1. d \in Database
      BY DEF Good
<1>2. e = [d EXCEPT !.item = i]
      BY DEF EnqueueAvailable
<1>. HIDE DEF S, e
<1>3. /\ i \in [Objs -> ItemState]
      /\ \A o \in Objs : i[o] = "TRANSFERRED" => d.item[o] = "TRANSFERRED"
      BY <1>1 DEF Update, Database, ItemState, Outstanding, Queued
<1>. HIDE DEF i
<1>4. e \in Database /\ e.item = i /\ e.obj = d.obj /\ e.wave = d.wave
      BY <1>1, <1>2, <1>3 DEF Database
<1>. QED BY <1>3, <1>4 DEF Safe, Good, Keeps, e

LEMMA PrepareSafe ==
    ASSUME NEW d, Good(d), NEW aged
    PROVE  Safe(d, PrepareClaim(d, aged))
    BY RecoverSafe, RefreshSafe, SafeTransitive DEF PrepareClaim, Safe

LEMMA LeaseSafe ==
    ASSUME NEW d, Good(d), NEW S
    PROVE  Safe(d, Lease(d, S))
<1> DEFINE i == Update(d.item, S, "LEASED")
           b == Update(d.obj, {o \in S : d.obj[o] = "RESTORED"}, "TRANSFERRING")
           e == Lease(d, S)
<1>1. d \in Database
      BY DEF Good
<1>2. /\ i \in [Objs -> ItemState]
      /\ \A o \in Objs : i[o] = "TRANSFERRED" => d.item[o] = "TRANSFERRED"
      BY <1>1 DEF Update, Database, ItemState, Outstanding
<1>3. /\ b \in [Objs -> ObjectState]
      /\ \A o \in Objs : d.obj[o] = "TRANSFERRED" => b[o] = "TRANSFERRED"
      BY <1>1 DEF Update, Database, ObjectState
<1>4. e = [d EXCEPT !.item = i, !.obj = b, !.lapsed = d.lapsed \ S]
      BY DEF Lease
<1>. HIDE DEF i, b, e
<1>5. e \in Database /\ e.item = i /\ e.obj = b /\ e.wave = d.wave
      BY <1>1, <1>2, <1>3, <1>4 DEF Database
<1>. QED BY <1>2, <1>3, <1>5 DEF Safe, Good, Keeps, e

LEMMA UnstartSafe ==
    ASSUME NEW d, Good(d), NEW S
    PROVE  Safe(d, Unstart(d, S))
<1> DEFINE b == Update(d.obj, {o \in S : d.obj[o] = "TRANSFERRING"}, "RESTORED")
           e == Unstart(d, S)
<1>1. d \in Database
      BY DEF Good
<1>2. /\ b \in [Objs -> ObjectState]
      /\ \A o \in Objs : d.obj[o] = "TRANSFERRED" => b[o] = "TRANSFERRED"
      BY <1>1 DEF Update, Database, ObjectState
<1>3. e = [d EXCEPT !.obj = b]
      BY DEF Unstart
<1>. HIDE DEF b, e
<1>4. e \in Database /\ e.item = d.item /\ e.obj = b /\ e.wave = d.wave
      BY <1>1, <1>2, <1>3 DEF Database
<1>. QED BY <1>2, <1>4 DEF Safe, Good, Keeps, e

\* A new state for the items of the objects S, whose leases end.
LEMMA ItemSafe ==
    ASSUME NEW d, Good(d), NEW S, NEW v \in ItemState,
           v = "TRANSFERRED" => \A o \in S : d.obj[o] = "TRANSFERRED"
    PROVE  Safe(d, [d EXCEPT !.item = Update(d.item, S, v), !.lapsed = d.lapsed \ S])
<1> DEFINE i == Update(d.item, S, v)
           e == [d EXCEPT !.item = i, !.lapsed = d.lapsed \ S]
<1>1. d \in Database
      BY DEF Good
<1>2. /\ i \in [Objs -> ItemState]
      /\ \A o \in Objs : i[o] = "TRANSFERRED" => d.item[o] = "TRANSFERRED" \/ d.obj[o] = "TRANSFERRED"
      BY <1>1 DEF Update, Database
<1>. HIDE DEF i
<1>3. e \in Database /\ e.item = i /\ e.obj = d.obj /\ e.wave = d.wave
      BY <1>1, <1>2 DEF Database
<1>. HIDE DEF e
<1>4. Safe(d, e)
      BY <1>2, <1>3 DEF Safe, Good, Keeps
<1>. QED BY <1>4 DEF e, i

LEMMA ReturnSafe ==
    ASSUME NEW d, Good(d), NEW S
    PROVE  Safe(d, ReturnUnstarted(d, S))
<1> DEFINE e == [d EXCEPT !.item = Update(d.item, S, "READY"), !.lapsed = d.lapsed \ S]
<1>1. Safe(d, e)
      BY ItemSafe DEF ItemState, Outstanding, Queued
<1>2. ReturnUnstarted(d, S) = Unstart(e, S)
      BY DEF ReturnUnstarted
<1>. HIDE DEF e
<1>. QED BY <1>1, <1>2, UnstartSafe, SafeTransitive DEF Safe

LEMMA SettleSafe ==
    ASSUME NEW d, Good(d), NEW o \in Objs, NEW phase
    PROVE  Safe(d, Settle(d, o, phase))
<1> DEFINE c == [d EXCEPT !.lapsed = d.lapsed \ {o}]
           i == Update(c.item, {o}, "RETRY_WAIT")
           e == [c EXCEPT !.item = i]
           j == Update(c.item, {o}, "TRANSFERRED")
           t == [c EXCEPT !.item = j]
<1>1. d \in Database
      BY DEF Good
<1>2. c \in Database /\ c.item = d.item /\ c.obj = d.obj /\ c.wave = d.wave
      BY <1>1 DEF Database
<1>. HIDE DEF c
<1>3. Safe(d, c)
      BY <1>2 DEF Safe, Good, Keeps
<1>4. Good(c)
      BY <1>3 DEF Safe
<1>5. CASE phase = "returned" /\ c.obj[o] = "TRANSFERRED"
      <2>1. /\ j \in [Objs -> ItemState]
            /\ \A p \in Objs : j[p] = "TRANSFERRED" => c.item[p] = "TRANSFERRED" \/ c.obj[p] = "TRANSFERRED"
            BY <1>2, <1>5 DEF Update, Database, ItemState
      <2>. HIDE DEF j
      <2>2. t \in Database /\ t.item = j /\ t.obj = c.obj /\ t.wave = c.wave
            BY <1>2, <2>1 DEF Database
      <2>. HIDE DEF t
      <2>3. Safe(c, t)
            BY <1>4, <2>1, <2>2 DEF Safe, Good, Keeps
      <2>4. Settle(d, o, phase) = t
            BY <1>5 DEF Settle, c, t, j
      <2>. QED BY <1>3, <2>3, <2>4, SafeTransitive
<1>6. CASE ~(phase = "returned" /\ c.obj[o] = "TRANSFERRED") /\ phase = "unavailable"
      <2>1. Settle(d, o, phase) = RequireReapproval(c, {o})
            BY <1>6 DEF Settle, c
      <2>2. Safe(c, RequireReapproval(c, {o}))
            BY <1>4, ReapprovalSafe
      <2>. QED BY <1>3, <2>1, <2>2, SafeTransitive
<1>7. CASE ~(phase = "returned" /\ c.obj[o] = "TRANSFERRED") /\ phase # "unavailable"
      <2>1. /\ i \in [Objs -> ItemState]
            /\ \A p \in Objs : i[p] = "TRANSFERRED" => c.item[p] = "TRANSFERRED"
            BY <1>2 DEF Update, Database, ItemState, Outstanding, Queued
      <2>. HIDE DEF i
      <2>2. e \in Database /\ e.item = i /\ e.obj = c.obj /\ e.wave = c.wave
            BY <1>2, <2>1 DEF Database
      <2>. HIDE DEF e
      <2>3. Safe(c, e)
            BY <1>4, <2>1, <2>2 DEF Safe, Good, Keeps
      <2>4. Settle(d, o, phase) = Unstart(e, {o})
            BY <1>7 DEF Settle, c, e, i
      <2>5. Safe(e, Unstart(e, {o}))
            BY <2>3, UnstartSafe DEF Safe
      <2>. QED BY <1>3, <2>3, <2>4, <2>5, SafeTransitive
<1>. QED BY <1>5, <1>6, <1>7

LEMMA RetireSafe ==
    ASSUME NEW d, Good(d)
    PROVE  Safe(d, RetireTask(d))
<1> DEFINE e == RetireTask(d)
<1>1. e \in Database /\ e.item = d.item /\ e.obj = d.obj /\ e.wave = d.wave
      BY DEF RetireTask, Good, Database
<1>. QED BY <1>1 DEF Safe, Good, Keeps

LEMMA RequeueSafe ==
    ASSUME NEW d, Good(d)
    PROVE  Safe(d, RequeueTask(d))
<1> DEFINE c == RetireTask(d)
           r == d.ready \cup ({d.running, d.revoked} \ {NoWave})
           e == [c EXCEPT !.ready = r]
<1>1. c \in Database /\ Safe(d, c)
      BY RetireSafe DEF Safe, Good
<1>2. r \in SUBSET Waves
      BY DEF Good, Database
<1>. HIDE DEF c, r
<1>3. e \in Database /\ e.item = c.item /\ e.obj = c.obj /\ e.wave = c.wave
      BY <1>1, <1>2 DEF Database
<1>4. Safe(c, e)
      BY <1>1, <1>3 DEF Safe, Good, Keeps
<1>5. RequeueTask(d) = e
      BY DEF RequeueTask, c, r
<1>. QED BY <1>1, <1>4, <1>5, SafeTransitive

LEMMA FailSafe ==
    ASSUME NEW d, Good(d)
    PROVE  Safe(d, FailTask(d))
<1> DEFINE c == RetireTask(d)
           S == {w \in {d.running, d.revoked} \ {NoWave} :
                    d.wave[w] \notin {"PAUSED", "RESTORE_REAPPROVAL_REQUIRED"}}
           v == Update(d.wave, S, "FAILED")
           e == [c EXCEPT !.wave = v]
<1>1. c \in Database /\ Safe(d, c) /\ d \in Database
      BY RetireSafe DEF Safe, Good
<1>2. c.wave = d.wave
      BY <1>1 DEF RetireTask, Database
<1>. HIDE DEF c, S
<1>3. /\ v \in [Waves -> WaveStatus]
      /\ \A w \in Waves : v[w] = "COMPLETED" => d.wave[w] = "COMPLETED"
      BY <1>1 DEF Update, Database, WaveStatus
<1>. HIDE DEF v
<1>4. e \in Database /\ e.item = c.item /\ e.obj = c.obj /\ e.wave = v
      BY <1>1, <1>3 DEF Database
<1>5. FailTask(d) = e
      BY DEF FailTask, c, v, S
<1>. HIDE DEF e
<1>6. Keeps(c, e)
      BY <1>4 DEF Keeps
<1>7. Safe(c, e)
      BY <1>1, <1>2, <1>3, <1>4, <1>6, FrameSafe DEF Safe
<1>. QED BY <1>1, <1>5, <1>7, SafeTransitive

LEMMA AfterErrorSafe ==
    ASSUME NEW d, Good(d), NEW e \in TaskAfterError(d)
    PROVE  Safe(d, e)
<1> DEFINE f == [d EXCEPT !.revoked = NoWave]
<1>1. f \in Database /\ f.item = d.item /\ f.obj = d.obj /\ f.wave = d.wave
      BY DEF Good, Database
<1>. HIDE DEF f
<1>2. Safe(d, f)
      BY <1>1 DEF Safe, Good, Keeps
<1>3. e \in {RequeueTask(d), FailTask(d), f}
      BY DEF TaskAfterError, f
<1>. QED BY <1>2, <1>3, RequeueSafe, FailSafe

LEMMA PauseSafe ==
    ASSUME NEW d, Good(d), NEW W, W \subseteq Waves, NEW held \in Waves \cup {NoWave}
    PROVE  Safe(d, PauseWaves(d, W, held))
<1> DEFINE cut == {o \in Objs : WaveOf[o] \in W /\ d.item[o] \in Queued}
           v   == Update(d.wave, W, "PAUSED")
           i   == Update(d.item, cut, "CANCELLED")
           k   == Update(d.sei, W, "NONE")
           u   == IF d.running \in W THEN NoWave ELSE d.running
           x   == IF d.running \in W THEN held ELSE d.revoked
           e   == PauseWaves(d, W, held)
<1>1. d \in Database
      BY DEF Good
<1>2. e = [d EXCEPT !.wave = v, !.item = i, !.ready = d.ready \ W,
                    !.running = u, !.revoked = x, !.sei = k]
      BY DEF PauseWaves
<1>. HIDE DEF cut, e
<1>3. /\ v \in [Waves -> WaveStatus]
      /\ \A w \in Waves : v[w] = "COMPLETED" => d.wave[w] = "COMPLETED"
      BY <1>1 DEF Update, Database, WaveStatus
<1>4. /\ i \in [Objs -> ItemState]
      /\ \A o \in Objs : i[o] = "TRANSFERRED" => d.item[o] = "TRANSFERRED"
      BY <1>1 DEF Update, Database, ItemState
<1>5. k \in [Waves -> {"NONE", "SUBMIT", "POLL"}]
      BY <1>1 DEF Update, Database
<1>6. u \in Waves \cup {NoWave} /\ x \in Waves \cup {NoWave}
      BY <1>1 DEF Database
<1>. HIDE DEF v, i, k, u, x
<1>7. e \in Database /\ e.item = i /\ e.obj = d.obj /\ e.wave = v
      BY <1>1, <1>2, <1>3, <1>4, <1>5, <1>6 DEF Database
<1>8. Keeps(d, e)
      BY <1>7 DEF Keeps
<1>. QED BY <1>3, <1>4, <1>7, <1>8, FrameSafe DEF e

LEMMA ResumeSafe ==
    ASSUME NEW d, Good(d), NEW W, W \subseteq Waves
    PROVE  Safe(d, ResumeWaves(d, W))
<1> DEFINE cancelled(w) == {o \in ObjsOf(w) : d.item[o] = "CANCELLED"}
           back  == {o \in Objs : /\ WaveOf[o] \in W
                                  /\ d.item[o] = "CANCELLED"
                                  /\ d.obj[o] = "RESTORED"}
           drain == {w \in W : cancelled(w) # {} \/ w \in d.ready}
           v == Update(Update(d.wave, W \ drain, "READY_FOR_RESTORE"), drain, "TRANSFER_DRAINING")
           i == Update(d.item, back, "READY")
           k == Update(d.sei, W \ drain, "SUBMIT")
           e == ResumeWaves(d, W)
<1>1. d \in Database
      BY DEF Good
<1>2. e = [d EXCEPT !.item = i, !.wave = v, !.sei = k]
      BY DEF ResumeWaves
<1>. HIDE DEF back, drain, e
<1>3. /\ v \in [Waves -> WaveStatus]
      /\ \A w \in Waves : v[w] = "COMPLETED" => d.wave[w] = "COMPLETED"
      BY <1>1 DEF Update, Database, WaveStatus
<1>4. /\ i \in [Objs -> ItemState]
      /\ \A o \in Objs : i[o] = "TRANSFERRED" => d.item[o] = "TRANSFERRED"
      BY <1>1 DEF Update, Database, ItemState, Outstanding, Queued
<1>5. k \in [Waves -> {"NONE", "SUBMIT", "POLL"}]
      BY <1>1 DEF Update, Database
<1>. HIDE DEF v, i, k
<1>6. e \in Database /\ e.item = i /\ e.obj = d.obj /\ e.wave = v
      BY <1>1, <1>2, <1>3, <1>4, <1>5 DEF Database
<1>7. Keeps(d, e)
      BY <1>6 DEF Keeps
<1>. QED BY <1>3, <1>4, <1>6, <1>7, FrameSafe DEF e

LEMMA EnsureSafe ==
    ASSUME NEW d, Good(d), NEW aged, EnsureTransferTask(d, aged)
    PROVE  Safe(d, db')
<1> DEFINE r == RecoverLeases(d, aged)
           f == RefreshPriorities(r)
<1>1. Safe(d, r) /\ Safe(r, f) /\ Safe(d, f)
      BY RecoverSafe, RefreshSafe, SafeTransitive DEF Safe
<1>2. \/ db' = r
      \/ db' = f
      \/ \E w \in WavesOf(Eligible(f)) : db' = [f EXCEPT !.ready = f.ready \cup {w}]
      BY DEF EnsureTransferTask
<1>. HIDE DEF r, f
<1>3. ASSUME NEW w \in WavesOf(Eligible(f)), db' = [f EXCEPT !.ready = f.ready \cup {w}]
      PROVE  Safe(f, db')
      <2>1. f \in Database /\ w \in Waves
            BY <1>1, WaveOfAssumption DEF Safe, Good, WavesOf, Eligible
      <2>2. db' \in Database /\ db'.item = f.item /\ db'.obj = f.obj /\ db'.wave = f.wave
            BY <1>3, <2>1 DEF Database
      <2>. QED BY <1>1, <2>2 DEF Safe, Good, Keeps
<1>. QED BY <1>1, <1>2, <1>3, SafeTransitive

LEMMA RestoredLaneSafe ==
    ASSUME NEW d, Good(d), NEW aged, ReconcileRestoredLane(d, aged)
    PROVE  Safe(d, db')
<1> DEFINE W     == {w \in Waves : d.wave[w] \in LaneStatus}
           whole == {w \in W : \A o \in ObjsOf(w) : d.obj[o] # "RESTORING"}
           e     == EnqueueAvailable(d, (W \cap d.eager) \cup whole)
<1>1. db' = d \/ EnsureTransferTask(e, aged)
      BY DEF ReconcileRestoredLane
<1>2. Safe(d, e)
      BY EnqueueSafe
<1>. HIDE DEF e
<1>. QED BY <1>1, <1>2, EnsureSafe, SafeReflexive, SafeTransitive DEF Safe

-----------------------------------------------------------------------------
(* The steps *)

\* A step that gives the database a new delivery, a start, a lapse or an expiry.
LEMMA ObjectSafe ==
    ASSUME NEW d, Good(d), NEW S, NEW v \in ObjectState,
           v = "TRANSFERRED" \/ \A o \in S : d.obj[o] # "TRANSFERRED"
    PROVE  Safe(d, [d EXCEPT !.obj = Update(d.obj, S, v)])
<1> DEFINE b == Update(d.obj, S, v)
           e == [d EXCEPT !.obj = b]
<1>1. d \in Database
      BY DEF Good
<1>2. /\ b \in [Objs -> ObjectState]
      /\ \A o \in Objs : d.obj[o] = "TRANSFERRED" => b[o] = "TRANSFERRED"
      BY <1>1 DEF Update, Database
<1>. HIDE DEF b
<1>3. e \in Database /\ e.item = d.item /\ e.obj = b /\ e.wave = d.wave
      BY <1>1, <1>2 DEF Database
<1>. HIDE DEF e
<1>4. Safe(d, e)
      BY <1>2, <1>3 DEF Safe, Good, Keeps
<1>. QED BY <1>4 DEF e, b

\* Changes of the fields that Good does not constrain beyond their type.
LEMMA AsideSafe ==
    ASSUME NEW d, Good(d), NEW e \in Database,
           e.item = d.item, e.obj = d.obj, e.wave = d.wave
    PROVE  Safe(d, e)
    BY DEF Safe, Good, Keeps

LEMMA RaijuSafe ==
    ASSUME Good(db), TypeOK, Raiju
    PROVE  Safe(db, db')
<1>. USE DEF Safe
<1>1. CASE ClaimDispatcher
      <2>1. PICK aged \in Aged :
               LET d == FinalizeDelivered(db, aged)
               IN  \/ d.running # NoWave /\ db' = d
                   \/ /\ d.running = NoWave /\ Eligible(d) # {}
                      /\ \E w \in d.ready : /\ d.wave[w] # "PAUSED"
                                            /\ db' = [d EXCEPT !.running = w, !.ready = d.ready \ {w}]
            BY <1>1 DEF ClaimDispatcher
      <2> DEFINE d == FinalizeDelivered(db, aged)
      <2>2. Safe(db, d) /\ d \in Database
            BY FinalizeSafe DEF Good
      <2>3. db' = d \/ \E w \in d.ready : db' = [d EXCEPT !.running = w, !.ready = d.ready \ {w}]
            BY <2>1
      <2>. HIDE DEF d
      <2>4. ASSUME NEW w \in d.ready, db' = [d EXCEPT !.running = w, !.ready = d.ready \ {w}]
            PROVE  Safe(d, db')
            <3>1. db' \in Database /\ db'.item = d.item /\ db'.obj = d.obj /\ db'.wave = d.wave
                  BY <2>2, <2>4 DEF Database
            <3>. QED BY <2>2, <3>1, AsideSafe
      <2>. QED BY <2>2, <2>3, <2>4, SafeTransitive
<1>2. CASE DispatchNothing
      <2>1. PICK aged \in Aged :
               EnsureTransferTask(RetireTask(ReconcileWaves(PrepareClaim(db, aged))), aged)
            BY <1>2 DEF DispatchNothing
      <2> DEFINE c == PrepareClaim(db, aged)
                 d == RetireTask(ReconcileWaves(c))
      <2>2. Safe(db, c) /\ Safe(db, ReconcileWaves(c)) /\ Safe(db, d)
            BY PrepareSafe, WavesSafe, RetireSafe, SafeTransitive
      <2>. HIDE DEF d
      <2>. QED BY <2>1, <2>2, EnsureSafe, SafeTransitive DEF d
<1>3. CASE StartDispatch
      <2>1. PICK claimed \in SUBSET Objs : \E seat : Dispatch(claimed, seat)
            BY <1>3 DEF StartDispatch
      <2>2. PICK aged \in Aged, back \in SUBSET Objs :
               db' = ReturnUnstarted(Lease(PrepareClaim(db, aged), claimed), back)
            BY <2>1 DEF Dispatch
      <2>. QED BY <2>2, PrepareSafe, LeaseSafe, ReturnSafe, SafeTransitive
<1>4. CASE DispatchRefused
      <2>1. PICK aged \in Aged, claimed \in SUBSET Objs :
               db' = RequeueTask(ReturnUnstarted(Lease(PrepareClaim(db, aged), claimed), claimed))
            BY <1>4 DEF DispatchRefused, ClaimChoices, Eligible
      <2>. QED BY <2>1, PrepareSafe, LeaseSafe, ReturnSafe, RequeueSafe, SafeTransitive
<1>5. CASE DispatchAborts
      <2>1. PICK aged \in Aged, claimed \in SUBSET Objs, back \in SUBSET Objs :
               db' \in {RequeueTask(ReturnUnstarted(Lease(PrepareClaim(db, aged), claimed), back)),
                        FailTask(ReturnUnstarted(Lease(PrepareClaim(db, aged), claimed), back))}
            BY <1>5 DEF DispatchAborts, ClaimChoices, Eligible
      <2> DEFINE d == ReturnUnstarted(Lease(PrepareClaim(db, aged), claimed), back)
      <2>2. Safe(db, d)
            BY PrepareSafe, LeaseSafe, ReturnSafe, SafeTransitive
      <2>3. db' = RequeueTask(d) \/ db' = FailTask(d)
            BY <2>1
      <2>. HIDE DEF d
      <2>. QED BY <2>2, <2>3, RequeueSafe, FailSafe, SafeTransitive
<1>6. CASE Refill
      BY <1>6, SafeReflexive DEF Refill
<1>7. CASE StopAfterCollect
      <2>1. db' = db \/ \E S : db' = RequeueTask(ReturnUnstarted(db, S))
            BY <1>7 DEF StopAfterCollect
      <2>. QED BY <2>1, SafeReflexive, ReturnSafe, RequeueSafe, SafeTransitive
<1>8. CASE RefreshTick
      BY <1>8, RefreshSafe DEF RefreshTick
<1>9. CASE ReserveHandoff
      <2>1. PICK aged \in Aged, S \in SUBSET Objs :
               \/ db' = Unstart(Lease(PrepareClaim(db, aged), S), S)
               \/ db' = ReturnUnstarted(Lease(PrepareClaim(db, aged), S), S)
            BY <1>9 DEF ReserveHandoff, HandoffTargets, Eligible
      <2>2. Safe(db, Lease(PrepareClaim(db, aged), S))
            BY PrepareSafe, LeaseSafe, SafeTransitive
      <2>. QED BY <2>1, <2>2, UnstartSafe, ReturnSafe, SafeTransitive
<1>10. CASE LoopEnds
      <2>1. PICK aged \in Aged :
               EnsureTransferTask(RetireTask(RefreshPriorities(ReconcileWaves(db))), aged)
            BY <1>10 DEF LoopEnds
      <2> DEFINE r == ReconcileWaves(db)
                 d == RetireTask(RefreshPriorities(r))
      <2>2. Safe(db, r) /\ Safe(db, RefreshPriorities(r)) /\ Safe(db, d)
            BY WavesSafe, RefreshSafe, RetireSafe, SafeTransitive
      <2>. HIDE DEF d
      <2>. QED BY <2>1, <2>2, EnsureSafe, SafeTransitive DEF d
<1>11. CASE LoopFails
      BY <1>11, SafeReflexive DEF LoopFails
<1>12. CASE DrainDone
      BY <1>12, AfterErrorSafe DEF DrainDone
<1>13. ASSUME NEW s \in Slots, StreamStart(s)
       PROVE  Safe(db, db')
      <2> DEFINE S == {stream[s].obj}
      <2>1. \/ db' = db
            \/ /\ \A o \in S : db.obj[o] # "TRANSFERRED"
               /\ db' = [db EXCEPT !.obj = Update(db.obj, S, "TRANSFERRING")]
            BY <1>13 DEF StreamStart
      <2>2. "TRANSFERRING" \in ObjectState
            BY DEF ObjectState
      <2>. HIDE DEF S
      <2>. QED BY <2>1, <2>2, SafeReflexive, ObjectSafe
<1>14. ASSUME NEW s \in Slots, StreamDelivers(s)
       PROVE  Safe(db, db')
       BY <1>14, ObjectSafe DEF StreamDelivers, ObjectState
<1>15. ASSUME NEW s \in Slots, StreamFails(s) \/ StreamUnavailable(s)
       PROVE  Safe(db, db')
       BY <1>15, SafeReflexive DEF StreamFails, StreamUnavailable
<1>16. ASSUME NEW s \in Slots, CollectDone(s)
       PROVE  Safe(db, db')
      <2> DEFINE o == stream[s].obj
                 c == Settle(db, o, stream[s].phase)
      <2>1. o \in Objs /\ db' = ReconcileWaves(RefreshPriorities(c))
            BY <1>16 DEF CollectDone, Finished, TypeOK, Stream, Free
      <2>2. Safe(db, c)
            BY <2>1, SettleSafe
      <2>. HIDE DEF c
      <2>. QED BY <2>1, <2>2, RefreshSafe, WavesSafe, SafeTransitive
<1>17. ASSUME NEW s \in Slots, ClaimReplacement(s)
       PROVE  Safe(db, db')
      <2>1. PICK aged \in Aged, S \in SUBSET Objs : db' = Lease(PrepareClaim(db, aged), S)
            BY <1>17 DEF ClaimReplacement, Eligible
      <2>. QED BY <2>1, PrepareSafe, LeaseSafe, SafeTransitive
<1>. QED BY <1>1, <1>2, <1>3, <1>4, <1>5, <1>6, <1>7, <1>8, <1>9, <1>10, <1>11, <1>12,
            <1>13, <1>14, <1>15, <1>16, <1>17 DEF Raiju

LEMMA EnvironmentSafe ==
    ASSUME Good(db), TypeOK, Environment
    PROVE  Safe(db, db')
<1>1. CASE Crash
      <2>1. /\ db' \in Database /\ db'.item = db.item
            /\ db'.obj = db.obj /\ db'.wave = db.wave
            BY <1>1 DEF Crash, Good, Database
      <2>. QED BY <2>1, AsideSafe
<1>2. CASE Terminate \/ Restart
      BY <1>2, SafeReflexive DEF Terminate, Restart
<1>3. ASSUME NEW o \in Objs, LeaseLapses(o) \/ CopyExpires(o)
      PROVE  Safe(db, db')
      <2>1. /\ db' \in Database /\ db'.item = db.item
            /\ db'.obj = db.obj /\ db'.wave = db.wave
            BY <1>3 DEF LeaseLapses, CopyExpires, Good, Database
      <2>. QED BY <2>1, AsideSafe
<1>. QED BY <1>1, <1>2, <1>3 DEF Environment

LEMMA ControlSafe ==
    ASSUME Good(db), Control
    PROVE  Safe(db, db')
<1>1. CASE WatchdogRecover
      <2>1. PICK aged \in Aged : \/ db' = RecoverLeases(db, aged)
                                 \/ EnsureTransferTask(RecoverLeases(db, aged), aged)
            BY <1>1 DEF WatchdogRecover
      <2>. QED BY <2>1, RecoverSafe, EnsureSafe, SafeTransitive DEF Safe
<1>2. CASE Govern
      <2>1. PICK aged \in Aged : \/ ReconcileRestoredLane(db, aged)
                                 \/ ReconcileRestoredLane(ReconcileWaves(db), aged)
            BY <1>2 DEF Govern
      <2>. QED BY <2>1, WavesSafe, RestoredLaneSafe, SafeTransitive DEF Safe
<1>3. ASSUME NEW w \in Waves, PollSuperseded(w)
      PROVE  Safe(db, db')
      <2>1. /\ db' \in Database /\ db'.item = db.item
            /\ db'.obj = db.obj /\ db'.wave = db.wave
            BY <1>3 DEF PollSuperseded, Good, Database
      <2>. QED BY <2>1, AsideSafe
<1>4. ASSUME NEW w \in Waves, PollRestore(w)
      PROVE  Safe(db, db')
      <2> DEFINE pending == {o \in ObjsOf(w) : db.obj[o] = "RESTORING"}
                 after(seen, status) == [db EXCEPT !.obj = Update(db.obj, seen, "RESTORED"),
                                                   !.wave[w] = status]
      <2>1. ASSUME NEW seen, seen \subseteq pending, NEW status \in {"RESTORED", "RESTORING"}
            PROVE  Safe(db, after(seen, status))
            <3> DEFINE b == Update(db.obj, seen, "RESTORED")
                       v == [db.wave EXCEPT ![w] = status]
                       e == [db EXCEPT !.obj = b, !.wave = v]
            <3>1. db \in Database
                  BY DEF Good
            <3>2. /\ b \in [Objs -> ObjectState]
                  /\ \A o \in Objs : db.obj[o] = "TRANSFERRED" => b[o] = "TRANSFERRED"
                  BY <2>1, <3>1 DEF Update, Database, ObjectState
            <3>3. /\ v \in [Waves -> WaveStatus]
                  /\ \A x \in Waves : v[x] = "COMPLETED" => db.wave[x] = "COMPLETED"
                  BY <2>1, <3>1 DEF Database, WaveStatus
            <3>4. after(seen, status) = e
                  BY <3>1 DEF Database
            <3>. HIDE DEF b, v, after
            <3>5. e \in Database /\ e.item = db.item /\ e.obj = b /\ e.wave = v
                  BY <3>1, <3>2, <3>3 DEF Database
            <3>6. Keeps(db, e)
                  BY <3>2, <3>5 DEF Keeps
            <3>. HIDE DEF e
            <3>. QED BY <3>3, <3>4, <3>5, <3>6, FrameSafe
      <2>2. PICK seen \in SUBSET pending, aged \in Aged :
               IF seen = pending
               THEN EnsureTransferTask([EnqueueAvailable(after(seen, "RESTORED"), {w})
                                           EXCEPT !.sei[w] = "NONE"], aged)
               ELSE \E part \in {after(seen, "RESTORING")} :
                       \E queue \in {EnqueueAvailable(part, {w})} :
                          IF w \in db.eager /\ queue # part
                          THEN EnsureTransferTask(queue, aged)
                          ELSE db' = part
            BY <1>4 DEF PollRestore
      <2>. HIDE DEF pending, after
      <2>3. CASE seen = pending
            <3> DEFINE q == EnqueueAvailable(after(seen, "RESTORED"), {w})
                       e == [q EXCEPT !.sei[w] = "NONE"]
            <3>1. Safe(db, q)
                  BY <2>1, EnqueueSafe, SafeTransitive DEF Safe
            <3>2. EnsureTransferTask(e, aged)
                  BY <2>2, <2>3
            <3>. HIDE DEF q
            <3>3. e \in Database /\ e.item = q.item /\ e.obj = q.obj /\ e.wave = q.wave
                  BY <3>1 DEF Safe, Good, Database
            <3>. HIDE DEF e
            <3>4. Safe(db, e)
                  BY <3>1, <3>3, AsideSafe, SafeTransitive DEF Safe
            <3>. QED BY <3>2, <3>4, EnsureSafe, SafeTransitive DEF Safe
      <2>4. CASE seen # pending
            <3> DEFINE p == after(seen, "RESTORING")
                       q == EnqueueAvailable(p, {w})
            <3>1. Safe(db, p) /\ Safe(db, q)
                  BY <2>1, EnqueueSafe, SafeTransitive DEF Safe
            <3>2. EnsureTransferTask(q, aged) \/ db' = p
                  BY <2>2, <2>4
            <3>. HIDE DEF p, q
            <3>. QED BY <3>1, <3>2, EnsureSafe, SafeTransitive DEF Safe
      <2>. QED BY <2>3, <2>4
<1>5. ASSUME NEW w \in Waves, SubmitRestore(w)
      PROVE  Safe(db, db')
      <2> DEFINE v == [db.wave EXCEPT ![w] = "RESTORED"]
                 k == [db.sei EXCEPT ![w] = "NONE"]
                 e == [db EXCEPT !.wave = v, !.sei = k]
                 q == EnqueueAvailable(e, {w})
      <2>1. PICK aged \in Aged :
               EnsureTransferTask(EnqueueAvailable(
                   [db EXCEPT !.wave[w] = "RESTORED", !.sei[w] = "NONE"], {w}), aged)
            BY <1>5 DEF SubmitRestore
      <2>2. db \in Database
            BY DEF Good
      <2>3. [db EXCEPT !.wave[w] = "RESTORED", !.sei[w] = "NONE"] = e
            BY <2>2 DEF Database
      <2>4. /\ v \in [Waves -> WaveStatus] /\ k \in [Waves -> {"NONE", "SUBMIT", "POLL"}]
            /\ \A x \in Waves : v[x] = "COMPLETED" => db.wave[x] = "COMPLETED"
            BY <2>2 DEF Database, WaveStatus
      <2>. HIDE DEF v, k
      <2>5. e \in Database /\ e.item = db.item /\ e.obj = db.obj /\ e.wave = v
            BY <2>2, <2>4 DEF Database
      <2>. HIDE DEF e
      <2>6. Keeps(db, e)
            BY <2>5 DEF Keeps
      <2>7. Safe(db, e)
            BY <2>4, <2>5, <2>6, FrameSafe
      <2>8. Safe(db, q)
            BY <2>7, EnqueueSafe, SafeTransitive DEF Safe
      <2>9. EnsureTransferTask(q, aged)
            BY <2>1, <2>3
      <2>. HIDE DEF q
      <2>. QED BY <2>8, <2>9, EnsureSafe, SafeTransitive DEF Safe
<1>. QED BY <1>1, <1>2, <1>3, <1>4, <1>5 DEF Control

LEMMA OperatorSafe ==
    ASSUME Good(db), Operator
    PROVE  Safe(db, db')
<1>1. CASE PauseProject
      <2>1. /\ db' \in Database /\ db'.item = db.item
            /\ db'.obj = db.obj /\ db'.wave = db.wave
            BY <1>1 DEF PauseProject, Good, Database
      <2>. QED BY <2>1, AsideSafe
<1>2. CASE ResumeProject
      <2> DEFINE W == {w \in Waves : db.wave[w] = "PAUSED"}
                 r == ResumeWaves(db, W)
      <2>1. Safe(db, r) /\ db' = [r EXCEPT !.paused = FALSE]
            BY <1>2, ResumeSafe DEF ResumeProject
      <2>. HIDE DEF r
      <2>2. db' \in Database /\ db'.item = r.item /\ db'.obj = r.obj /\ db'.wave = r.wave
            BY <2>1 DEF Safe, Good, Database
      <2>. QED BY <2>1, <2>2, AsideSafe, SafeTransitive DEF Safe
<1>3. ASSUME NEW w \in Waves, PauseWave(w)
      PROVE  Safe(db, db')
      <2> DEFINE held == IF pc = "idle" THEN NoWave ELSE db.running
      <2>1. held \in Waves \cup {NoWave} /\ db' = PauseWaves(db, {w}, held)
            BY <1>3 DEF PauseWave, Good, Database
      <2>. HIDE DEF held
      <2>. QED BY <2>1, PauseSafe
<1>4. ASSUME NEW w \in Waves, ResumeWave(w)
      PROVE  Safe(db, db')
      BY <1>4, ResumeSafe DEF ResumeWave
<1>. QED BY <1>1, <1>2, <1>3, <1>4 DEF Operator

LEMMA NextSafe ==
    ASSUME Good(db), TypeOK, [Next]_vars
    PROVE  Safe(db, db')
<1>1. CASE UNCHANGED vars
      BY <1>1, SafeReflexive DEF vars
<1>. QED BY <1>1, RaijuSafe, EnvironmentSafe, ControlSafe, OperatorSafe DEF Next

-----------------------------------------------------------------------------
(* The process: its slots and its handoff stay well formed *)

LEMMA ProcessType ==
    ASSUME TypeOK, [Next]_vars
    PROVE  /\ pc' \in {"idle", "claimed", "loop", "collected", "ending", "draining"}
           /\ stream' \in [Slots -> Stream]
           /\ handoff' \in Handoff
           /\ stopping' \in BOOLEAN
<1>. USE DEF TypeOK
<1>1. /\ Free \in Stream /\ NoHandoff \in Handoff /\ NoObj \notin Objs
      /\ \A s \in Slots : stream[s].phase # "free" =>
             stream[s] \in [obj : Objs, phase : Phase \ {"free"}]
      BY NullAssumption DEF Stream, Free, Handoff
<1>2. \A s \in Slots, ph \in Phase \ {"free"} : stream[s].phase # "free" =>
          [stream EXCEPT ![s].phase = ph] \in [Slots -> Stream]
      BY <1>1 DEF Stream
<1>3. Unreserved \in [Slots -> Stream] /\ [s \in Slots |-> Free] \in [Slots -> Stream]
      BY <1>1 DEF Unreserved
<1>4. CASE UNCHANGED vars
      BY <1>4 DEF vars
<1>5. CASE ClaimDispatcher
      BY <1>5 DEF ClaimDispatcher
<1>6. CASE DispatchNothing
      BY <1>6 DEF DispatchNothing
<1>7. CASE StartDispatch
      <2>1. PICK claimed \in SUBSET Objs : \E seat \in [Slots -> claimed \cup {NoObj}] :
               Dispatch(claimed, seat)
            BY <1>7 DEF StartDispatch
      <2>2. PICK seat \in [Slots -> claimed \cup {NoObj}] :
               stream' = [s \in Slots |-> IF seat[s] = NoObj THEN Free
                                          ELSE [obj |-> seat[s], phase |-> "submitted"]]
            BY <2>1 DEF Dispatch
      <2>3. stream' \in [Slots -> Stream]
            BY <1>1, <2>2 DEF Stream, Phase
      <2>. QED BY <1>7, <2>3 DEF StartDispatch
<1>8. CASE DispatchRefused \/ DispatchAborts
      BY <1>8 DEF DispatchRefused, DispatchAborts
<1>9. CASE Refill
      <2>1. \A s \in Slots : stream'[s] \in Stream
            <3>. TAKE s \in Slots
            <3>1. stream'[s] \in {[stream[s] EXCEPT !.phase = "submitted"], Unreserved[s]}
                  BY <1>9 DEF Refill
            <3>2. stream[s].phase = "reserved" => [stream[s] EXCEPT !.phase = "submitted"] \in Stream
                  BY <1>1 DEF Stream, Phase
            <3>3. stream[s].phase # "reserved" => stream'[s] = Unreserved[s]
                  BY <1>9 DEF Refill
            <3>. QED BY <1>3, <3>1, <3>2, <3>3
      <2>2. stream' = [s \in Slots |-> stream'[s]]
            BY <1>9 DEF Refill
      <2>. QED BY <1>9, <2>1, <2>2 DEF Refill
<1>10. CASE StopAfterCollect
      BY <1>1, <1>3, <1>10 DEF StopAfterCollect
<1>11. CASE RefreshTick
      BY <1>11 DEF RefreshTick
<1>12. CASE ReserveHandoff
      <2>1. handoff' = handoff \/ \E o \in Objs, s \in Busy :
               handoff' = [target |-> stream[s].obj, successor |-> o]
            BY <1>12 DEF ReserveHandoff, HandoffTargets, Eligible
      <2>2. \A s \in Busy : stream[s].obj \in Objs
            BY <1>1 DEF Busy
      <2>3. handoff' \in Handoff
            BY <2>1, <2>2 DEF Handoff
      <2>. QED BY <1>12, <2>3 DEF ReserveHandoff, HandoffTargets
<1>13. CASE LoopEnds
      BY <1>13 DEF LoopEnds
<1>14. CASE LoopFails
      BY <1>1, <1>3, <1>14 DEF LoopFails
<1>15. CASE DrainDone
      BY <1>3, <1>15 DEF DrainDone
<1>16. ASSUME NEW s \in Slots, StreamStart(s)
       PROVE  stream' \in [Slots -> Stream] /\ UNCHANGED <<pc, handoff, stopping>>
      <2>1. \E ph \in Phase \ {"free"} : stream' = [stream EXCEPT ![s].phase = ph]
            BY <1>16 DEF StreamStart, Phase
      <2>2. stream[s].phase # "free"
            BY <1>16 DEF StreamStart
      <2>. QED BY <1>2, <1>16, <2>1, <2>2 DEF StreamStart
<1>17. ASSUME NEW s \in Slots, StreamDelivers(s) \/ StreamFails(s) \/ StreamUnavailable(s)
       PROVE  stream' \in [Slots -> Stream] /\ UNCHANGED <<pc, handoff, stopping>>
      <2>1. \E ph \in Phase \ {"free"} : stream' = [stream EXCEPT ![s].phase = ph]
            BY <1>17 DEF StreamDelivers, StreamFails, StreamUnavailable, Phase
      <2>2. stream[s].phase # "free"
            BY <1>17 DEF StreamDelivers, StreamFails, StreamUnavailable
      <2>. QED BY <1>2, <1>17, <2>1, <2>2 DEF StreamDelivers, StreamFails, StreamUnavailable
<1>18. ASSUME NEW s \in Slots, CollectDone(s)
       PROVE  /\ stream' \in [Slots -> Stream] /\ handoff' \in Handoff
              /\ pc' = "collected" /\ UNCHANGED stopping
      <2>1. stream[s].obj \in Objs
            BY <1>1, <1>18 DEF CollectDone, Finished
      <2>2. handoff.target = stream[s].obj => handoff.successor \in Objs
            BY <1>1, <2>1 DEF Handoff, NoHandoff
      <2>3. PICK v : v \in Stream /\ stream' = [stream EXCEPT ![s] = v]
            BY <1>1, <1>18, <2>2 DEF CollectDone, Stream, Phase
      <2>. QED BY <1>1, <1>18, <2>3 DEF CollectDone
<1>19. ASSUME NEW s \in Slots, ClaimReplacement(s)
       PROVE  stream' \in [Slots -> Stream] /\ UNCHANGED <<pc, handoff, stopping>>
      <2>1. PICK o \in Objs : stream' = [stream EXCEPT ![s] = [obj |-> o, phase |-> "submitted"]]
            BY <1>19 DEF ClaimReplacement, Eligible
      <2>. QED BY <1>19, <2>1 DEF ClaimReplacement, Stream, Phase
<1>20. CASE Environment
      BY <1>1, <1>3, <1>20 DEF Environment, Crash, Terminate, Restart, LeaseLapses, CopyExpires
<1>21. CASE Control
      BY <1>21 DEF Control, WatchdogRecover, Govern, PollSuperseded, PollRestore, SubmitRestore
<1>22. CASE Operator
      BY <1>22 DEF Operator, PauseWave, ResumeWave, PauseProject, ResumeProject
<1>. QED BY <1>4, <1>5, <1>6, <1>7, <1>8, <1>9, <1>10, <1>11, <1>12, <1>13, <1>14, <1>15,
            <1>16, <1>17, <1>18, <1>19, <1>20, <1>21, <1>22 DEF Next, Raiju

-----------------------------------------------------------------------------
(* The theorems *)

IInv == TypeOK /\ SettledItemIsDelivered /\ CompletedWaveIsDelivered

LEMMA GoodIsInv ==
    db \in Database => (Good(db) <=> SettledItemIsDelivered /\ CompletedWaveIsDelivered)
<1>1. \A o \in Objs : WaveOf[o] \in Waves
      BY WaveOfAssumption
<1>. QED BY <1>1 DEF Good, SettledItemIsDelivered, CompletedWaveIsDelivered, ObjsOf

LEMMA InitInv == Init => IInv
<1>. SUFFICES ASSUME Init PROVE IInv
     OBVIOUS
<1>1. db \in Database
      BY DEF Init, Database, ObjectState, ItemState, WaveStatus, Outstanding, Queued
<1>2. /\ \A o \in Objs : db.item[o] = "NONE"
      /\ \A w \in Waves : db.wave[w] = "RESTORING"
      BY DEF Init
<1>3. SettledItemIsDelivered /\ CompletedWaveIsDelivered
      BY <1>2 DEF SettledItemIsDelivered, CompletedWaveIsDelivered
<1>. QED BY <1>1, <1>3 DEF Init, IInv, TypeOK, Stream, Handoff

LEMMA NextInv == IInv /\ [Next]_vars => IInv' /\ Keeps(db, db')
<1>. SUFFICES ASSUME IInv, [Next]_vars PROVE IInv' /\ Keeps(db, db')
     OBVIOUS
<1>1. Good(db) /\ TypeOK
      BY GoodIsInv DEF IInv, TypeOK
<1>2. Good(db') /\ Keeps(db, db')
      BY <1>1, NextSafe DEF Safe
<1>3. TypeOK'
      BY <1>1, <1>2, ProcessType DEF TypeOK, Good
<1>4. (SettledItemIsDelivered /\ CompletedWaveIsDelivered)'
      BY <1>2, WaveOfAssumption
         DEF Good, SettledItemIsDelivered, CompletedWaveIsDelivered, ObjsOf
<1>. QED BY <1>2, <1>3, <1>4 DEF IInv

LEMMA Invariance == Spec => []IInv
<1>1. IInv /\ [Next]_vars => IInv'
      BY NextInv
<1>. QED BY InitInv, <1>1, PTL DEF Spec

\* Every reachable state is well formed, for any waves, objects and slots.
THEOREM TypeCorrect == Spec => []TypeOK
<1>1. IInv => TypeOK
      BY DEF IInv
<1>. QED BY Invariance, <1>1, PTL

\* No interleaving of the dispatcher, its streams, recovery, time, the
\* controller and the operator settles an item whose object is not delivered.
THEOREM SettlementIsTrue == Spec => []SettledItemIsDelivered
<1>1. IInv => SettledItemIsDelivered
      BY DEF IInv
<1>. QED BY Invariance, <1>1, PTL

\* No such interleaving completes a wave with an object missing in OCI.
THEOREM CompletionIsTrue == Spec => []CompletedWaveIsDelivered
<1>1. IInv => CompletedWaveIsDelivered
      BY DEF IInv
<1>. QED BY Invariance, <1>1, PTL

\* No step, of dispatcher, streams, timers, Shin, Sei or the operator, takes a
\* committed delivery back.
THEOREM DeliveryIsFinal == Spec => DeliveredNeverRegresses
<1>1. IInv /\ [Next]_vars =>
         [\A o \in Objs : db.obj[o] = "TRANSFERRED" => db'.obj[o] = "TRANSFERRED"]_vars
      BY NextInv DEF Keeps
<1>. QED BY Invariance, <1>1, PTL DEF Spec, DeliveredNeverRegresses

-----------------------------------------------------------------------------
(* No restored object leaves the lane.  A step of the database is calm if it  *)
(* keeps that true by itself: all operators are, in every composition the     *)
(* handlers make of them.  The steps that are not are a poll, which ends      *)
(* restores and enqueues what it restored, and a delivery.                    *)

\* A restored object that no live item carries, in a wave that may proceed.
Unqueued(d, o) ==
    /\ d.obj[o] = "RESTORED" /\ WaveOf[o] \notin d.reapproval
    /\ \/ d.item[o] = "NONE"
       \/ d.item[o] = "CANCELLED" /\ d.wave[WaveOf[o]] # "PAUSED"

InLane(d) == \A o \in Objs :
    Unqueued(d, o) => \E p \in ObjsOf(WaveOf[o]) : d.obj[p] = "RESTORING"

\* What nearly every change of the database does: it takes no object out of the
\* lane, ends no pending restore, and begins one only under a new approval.
Calm(d, e) ==
    /\ d.reapproval \subseteq e.reapproval
    /\ \A o \in Objs :
         /\ Unqueued(e, o) => Unqueued(d, o)
         /\ d.obj[o] = "RESTORING" => e.obj[o] = "RESTORING"
         /\ e.obj[o] = "RESTORING" => d.obj[o] = "RESTORING" \/ WaveOf[o] \in e.reapproval

LEMMA CalmReflexive == ASSUME NEW d PROVE Calm(d, d)
    BY DEF Calm

LEMMA CalmTransitive ==
    ASSUME NEW d, NEW e, NEW f, Calm(d, e), Calm(e, f)
    PROVE  Calm(d, f)
<1>1. d.reapproval \subseteq f.reapproval
      BY DEF Calm
<1>2. ASSUME NEW o \in Objs
      PROVE  /\ Unqueued(f, o) => Unqueued(d, o)
             /\ d.obj[o] = "RESTORING" => f.obj[o] = "RESTORING"
             /\ f.obj[o] = "RESTORING" => d.obj[o] = "RESTORING" \/ WaveOf[o] \in f.reapproval
      BY DEF Calm
<1>. QED BY <1>1, <1>2 DEF Calm

LEMMA CalmKeepsLane ==
    ASSUME NEW d, NEW e, InLane(d), Calm(d, e)
    PROVE  InLane(e)
<1>1. \A o \in Objs : ObjsOf(WaveOf[o]) \subseteq Objs
      BY DEF ObjsOf
<1>. QED BY <1>1 DEF InLane, Calm

\* A change of the items that ends with live ones.
LEMMA ItemsCalm ==
    ASSUME NEW d, NEW e,
           e.obj = d.obj, e.wave = d.wave, e.reapproval = d.reapproval,
           \A o \in Objs : e.item[o] = d.item[o] \/ e.item[o] \notin {"NONE", "CANCELLED"}
    PROVE  Calm(d, e)
    BY DEF Calm, Unqueued

\* A change of the objects that restores none without a live item.
LEMMA ObjectsCalm ==
    ASSUME NEW d, NEW e,
           e.item = d.item, e.wave = d.wave, e.reapproval = d.reapproval,
           \A o \in Objs : \/ e.obj[o] = d.obj[o]
                           \/ /\ d.obj[o] # "RESTORING" /\ e.obj[o] # "RESTORING"
                              /\ \/ e.obj[o] # "RESTORED"
                                 \/ d.item[o] \notin {"NONE", "CANCELLED"}
    PROVE  Calm(d, e)
    BY DEF Calm, Unqueued

-----------------------------------------------------------------------------

LEMMA FinalizeCalm ==
    ASSUME NEW d \in Database, NEW aged
    PROVE  Calm(d, FinalizeDelivered(d, aged))
<1> DEFINE S == aged \cap DeliveredLeases(d)
           i == Update(d.item, S, "TRANSFERRED")
           e == FinalizeDelivered(d, aged)
<1>1. \A o \in Objs : i[o] = d.item[o] \/ i[o] \notin {"NONE", "CANCELLED"}
      BY DEF Update, Database
<1>2. e = [d EXCEPT !.item = i, !.lapsed = d.lapsed \ S]
      BY DEF FinalizeDelivered
<1>. HIDE DEF i, S, e
<1>3. e.item = i /\ e.obj = d.obj /\ e.wave = d.wave /\ e.reapproval = d.reapproval
      BY <1>2 DEF Database
<1>. QED BY <1>1, <1>3, ItemsCalm DEF e

LEMMA UnstartCalm ==
    ASSUME NEW d \in Database, NEW S,
           \A o \in S \cap Objs : d.item[o] \notin {"NONE", "CANCELLED"}
    PROVE  Calm(d, Unstart(d, S))
<1> DEFINE torn == {o \in S : d.obj[o] = "TRANSFERRING"}
           b    == Update(d.obj, torn, "RESTORED")
           e    == Unstart(d, S)
<1>1. \A o \in Objs : \/ b[o] = d.obj[o]
                      \/ /\ d.obj[o] = "TRANSFERRING" /\ b[o] = "RESTORED"
                         /\ d.item[o] \notin {"NONE", "CANCELLED"}
      BY DEF Update, Database
<1>2. e = [d EXCEPT !.obj = b]
      BY DEF Unstart
<1>. HIDE DEF b, torn, e
<1>3. e.item = d.item /\ e.obj = b /\ e.wave = d.wave /\ e.reapproval = d.reapproval
      BY <1>2 DEF Database
<1>. QED BY <1>1, <1>3, ObjectsCalm DEF e

LEMMA RecoverCalm ==
    ASSUME NEW d, Good(d), NEW aged
    PROVE  Calm(d, RecoverLeases(d, aged))
<1> DEFINE f    == FinalizeDelivered(d, aged)
           gone == {o \in d.lapsed \ (aged \cap DeliveredLeases(d)) : d.item[o] = "LEASED"}
           torn == {o \in gone : d.obj[o] = "TRANSFERRING"}
           i    == Update(f.item, gone, "MULTIPART_RESUME")
           b    == Update(d.obj, torn, "RESTORED")
           e    == RecoverLeases(d, aged)
<1>1. d \in Database /\ f \in Database
      BY FinalizeSafe DEF Safe, Good
<1>2. Calm(d, f)
      BY <1>1, FinalizeCalm
<1>3. f.obj = d.obj
      BY <1>1 DEF FinalizeDelivered, Database
<1>4. e = [f EXCEPT !.item = i, !.obj = b, !.lapsed = {}]
      BY DEF RecoverLeases
<1>5. \A o \in torn : o \in gone /\ d.obj[o] = "TRANSFERRING"
      OBVIOUS
<1>. HIDE DEF f, gone, torn, e
<1>6. \A o \in Objs : i[o] = IF o \in gone THEN "MULTIPART_RESUME" ELSE f.item[o]
      BY <1>1 DEF Update, Database
<1>7. \A o \in Objs : b[o] = IF o \in torn THEN "RESTORED" ELSE f.obj[o]
      BY <1>1, <1>3 DEF Update, Database
<1>. HIDE DEF i, b
<1>8. e.item = i /\ e.obj = b /\ e.wave = f.wave /\ e.reapproval = f.reapproval
      BY <1>1, <1>4 DEF Database
<1>9. Calm(f, e)
      BY <1>3, <1>5, <1>6, <1>7, <1>8 DEF Calm, Unqueued
<1>. QED BY <1>2, <1>9, CalmTransitive DEF e

LEMMA ReapprovalCalm ==
    ASSUME NEW d \in Database, NEW S, S \subseteq Objs
    PROVE  Calm(d, RequireReapproval(d, S))
<1> DEFINE lost == {o \in S : d.item[o] # "TRANSFERRED" /\ d.obj[o] # "TRANSFERRED"}
           i    == Update(d.item, lost, "REAPPROVAL_REQUIRED")
           b    == Update(d.obj, lost, "RESTORING")
           v    == Update(d.wave, WavesOf(lost), "RESTORE_REAPPROVAL_REQUIRED")
           e    == RequireReapproval(d, S)
<1>1. e = [d EXCEPT !.item = i, !.obj = b, !.lapsed = d.lapsed \ lost, !.wave = v,
                    !.reapproval = d.reapproval \cup WavesOf(lost)]
      BY DEF RequireReapproval
<1>2. \A o \in lost : WaveOf[o] \in WavesOf(lost)
      BY DEF WavesOf
<1>. HIDE DEF lost, e
<1>3. \A o \in Objs : WaveOf[o] \in Waves
      BY WaveOfAssumption
<1>4. \A o \in Objs : i[o] = IF o \in lost THEN "REAPPROVAL_REQUIRED" ELSE d.item[o]
      BY DEF Update, Database
<1>5. \A o \in Objs : b[o] = IF o \in lost THEN "RESTORING" ELSE d.obj[o]
      BY DEF Update, Database
<1>6. \A w \in Waves : v[w] = IF w \in WavesOf(lost) THEN "RESTORE_REAPPROVAL_REQUIRED" ELSE d.wave[w]
      BY DEF Update, Database
<1>. HIDE DEF i, b, v
<1>7. /\ e.item = i /\ e.obj = b /\ e.wave = v
      /\ e.reapproval = d.reapproval \cup WavesOf(lost)
      BY <1>1 DEF Database
<1>8. \A o \in Objs : Unqueued(e, o) => Unqueued(d, o)
      BY <1>2, <1>3, <1>4, <1>5, <1>6, <1>7 DEF Unqueued
<1>9. \A o \in Objs : /\ d.obj[o] = "RESTORING" => e.obj[o] = "RESTORING"
                      /\ e.obj[o] = "RESTORING" => d.obj[o] = "RESTORING" \/ WaveOf[o] \in e.reapproval
      BY <1>2, <1>5, <1>7
<1>. QED BY <1>7, <1>8, <1>9 DEF Calm, e

LEMMA RefreshCalm ==
    ASSUME NEW d \in Database
    PROVE  Calm(d, RefreshPriorities(d))
<1> DEFINE S == {o \in d.expired : d.item[o] \in Queued}
<1>1. S \subseteq Objs
      BY DEF Database
<1>. QED BY <1>1, ReapprovalCalm DEF RefreshPriorities

LEMMA PrepareCalm ==
    ASSUME NEW d, Good(d), NEW aged
    PROVE  Calm(d, PrepareClaim(d, aged))
<1>1. Good(RecoverLeases(d, aged)) /\ Calm(d, RecoverLeases(d, aged))
      BY RecoverSafe, RecoverCalm DEF Safe
<1>. QED BY <1>1, RefreshCalm, CalmTransitive DEF PrepareClaim, Good

LEMMA WavesCalm ==
    ASSUME NEW d \in Database
    PROVE  Calm(d, ReconcileWaves(d))
<1> DEFINE v == [w \in Waves |-> WaveVerdict(d, w)]
           c == [d EXCEPT !.wave = v]
           e == ReconcileWaves(d)
<1>1. \A w \in Waves : d.wave[w] = "PAUSED" => v[w] = "PAUSED"
      BY DEF WaveVerdict
<1>2. \A w \in Waves : v[w] = "PAUSED" => d.wave[w] = "PAUSED"
      BY DEF WaveVerdict
<1>. HIDE DEF v
<1>3. /\ c.item = d.item /\ c.obj = d.obj /\ c.wave = v /\ c.reapproval = d.reapproval
      /\ DOMAIN c = DOMAIN d
      BY DEF Database
<1>. HIDE DEF c
<1>4. /\ e.item = c.item /\ e.obj = c.obj /\ e.wave = c.wave /\ e.reapproval = c.reapproval
      BY <1>3 DEF ReconcileWaves, ReconcileAnchors, Database, c, v
<1>. HIDE DEF e
<1>5. \A o \in Objs : WaveOf[o] \in Waves
      BY WaveOfAssumption
<1>6. Calm(d, e)
      BY <1>1, <1>3, <1>4, <1>5 DEF Calm, Unqueued
<1>. QED BY <1>6 DEF e

LEMMA EnqueueCalm ==
    ASSUME NEW d \in Database, NEW W
    PROVE  Calm(d, EnqueueAvailable(d, W))
<1> DEFINE S == {o \in Objs : /\ WaveOf[o] \in W
                              /\ d.obj[o] = "RESTORED"
                              /\ d.item[o] \in {"NONE", "CANCELLED"}}
           i == Update(d.item, S, "READY")
           e == EnqueueAvailable(d, W)
<1>1. \A o \in Objs : i[o] = d.item[o] \/ i[o] \notin {"NONE", "CANCELLED"}
      BY DEF Update, Database
<1>2. e = [d EXCEPT !.item = i]
      BY DEF EnqueueAvailable
<1>. HIDE DEF i, S, e
<1>3. e.item = i /\ e.obj = d.obj /\ e.wave = d.wave /\ e.reapproval = d.reapproval
      BY <1>2 DEF Database
<1>. QED BY <1>1, <1>3, ItemsCalm DEF e

LEMMA LeaseCalm ==
    ASSUME NEW d \in Database, NEW S
    PROVE  /\ Calm(d, Lease(d, S))
           /\ \A o \in S \cap Objs : Lease(d, S).item[o] = "LEASED"
<1> DEFINE i == Update(d.item, S, "LEASED")
           b == Update(d.obj, {o \in S : d.obj[o] = "RESTORED"}, "TRANSFERRING")
           e == Lease(d, S)
<1>1. \A o \in Objs : i[o] = IF o \in S THEN "LEASED" ELSE d.item[o]
      BY DEF Update, Database
<1>2. \A o \in Objs : b[o] = d.obj[o] \/ (d.obj[o] = "RESTORED" /\ b[o] = "TRANSFERRING")
      BY DEF Update, Database
<1>3. e = [d EXCEPT !.item = i, !.obj = b, !.lapsed = d.lapsed \ S]
      BY DEF Lease
<1>. HIDE DEF i, b, e
<1>4. e.item = i /\ e.obj = b /\ e.wave = d.wave /\ e.reapproval = d.reapproval
      BY <1>3 DEF Database
<1>5. Calm(d, e)
      BY <1>1, <1>2, <1>4 DEF Calm, Unqueued
<1>. QED BY <1>1, <1>4, <1>5 DEF e

\* The items of S become v while their leases end.
Become(d, S, v) == [d EXCEPT !.item = Update(d.item, S, v), !.lapsed = d.lapsed \ S]

LEMMA ItemCalm ==
    ASSUME NEW d, Good(d), NEW S, NEW v \in ItemState \ {"NONE", "CANCELLED"}
    PROVE  /\ Calm(d, Become(d, S, v)) /\ Become(d, S, v) \in Database
           /\ \A o \in S \cap Objs : Become(d, S, v).item[o] = v
<1> DEFINE i == Update(d.item, S, v)
           e == Become(d, S, v)
<1>1. d \in Database
      BY DEF Good
<1>2. i \in [Objs -> ItemState] /\ \A o \in Objs : i[o] = IF o \in S THEN v ELSE d.item[o]
      BY <1>1 DEF Update, Database
<1>3. e = [d EXCEPT !.item = i, !.lapsed = d.lapsed \ S]
      BY DEF Become
<1>. HIDE DEF i, e
<1>4. e \in Database
      BY <1>1, <1>2, <1>3 DEF Database
<1>5. e.item = i /\ e.obj = d.obj /\ e.wave = d.wave /\ e.reapproval = d.reapproval
      BY <1>1, <1>3 DEF Database
<1>6. \A o \in Objs : e.item[o] = d.item[o] \/ e.item[o] \notin {"NONE", "CANCELLED"}
      BY <1>2, <1>5
<1>7. Calm(d, e)
      BY <1>5, <1>6, ItemsCalm
<1>. QED BY <1>2, <1>4, <1>5, <1>7 DEF e

LEMMA ReturnCalm ==
    ASSUME NEW d, Good(d), NEW S
    PROVE  Calm(d, ReturnUnstarted(d, S))
<1> DEFINE e == Become(d, S, "READY")
<1>1. "READY" \in ItemState \ {"NONE", "CANCELLED"}
      BY DEF ItemState, Outstanding, Queued
<1>2. Calm(d, e) /\ e \in Database /\ \A o \in S \cap Objs : e.item[o] = "READY"
      BY <1>1, ItemCalm
<1>3. ReturnUnstarted(d, S) = Unstart(e, S)
      BY DEF ReturnUnstarted, Become
<1>. HIDE DEF e
<1>4. Calm(e, Unstart(e, S))
      BY <1>2, UnstartCalm
<1>. QED BY <1>2, <1>3, <1>4, CalmTransitive

LEMMA SettleCalm ==
    ASSUME NEW d, Good(d), NEW o \in Objs, NEW phase
    PROVE  Calm(d, Settle(d, o, phase))
<1> DEFINE c == [d EXCEPT !.lapsed = d.lapsed \ {o}]
           t == Become(d, {o}, "TRANSFERRED")
           e == Become(d, {o}, "RETRY_WAIT")
<1>1. c \in Database /\ c.item = d.item
      BY DEF Good, Database
<1>2. c.obj = d.obj /\ c.wave = d.wave /\ c.reapproval = d.reapproval
      BY DEF Good, Database
<1>3. Calm(d, c)
      BY <1>1, <1>2, ItemsCalm
<1>4. {"TRANSFERRED", "RETRY_WAIT"} \subseteq ItemState \ {"NONE", "CANCELLED"}
      BY DEF ItemState, Outstanding, Queued
<1>5. Calm(d, t)
      BY <1>4, ItemCalm
<1>6. Calm(d, e) /\ e \in Database /\ \A p \in {o} \cap Objs : e.item[p] = "RETRY_WAIT"
      BY <1>4, ItemCalm
<1>7. /\ [c EXCEPT !.item = Update(c.item, {o}, "TRANSFERRED")] = t
      /\ [c EXCEPT !.item = Update(c.item, {o}, "RETRY_WAIT")] = e
      BY DEF Good, Database, Become
<1>8. \/ Settle(d, o, phase) = [c EXCEPT !.item = Update(c.item, {o}, "TRANSFERRED")]
      \/ Settle(d, o, phase) = RequireReapproval(c, {o})
      \/ Settle(d, o, phase) = Unstart([c EXCEPT !.item = Update(c.item, {o}, "RETRY_WAIT")], {o})
      BY DEF Settle
<1>. HIDE DEF c, e, t
<1>9. Calm(c, RequireReapproval(c, {o}))
      BY <1>1, ReapprovalCalm
<1>10. Calm(e, Unstart(e, {o}))
      BY <1>6, UnstartCalm
<1>. QED BY <1>3, <1>5, <1>6, <1>7, <1>8, <1>9, <1>10, CalmTransitive

LEMMA AsideCalm ==
    ASSUME NEW d, NEW e,
           e.item = d.item, e.obj = d.obj, e.wave = d.wave, e.reapproval = d.reapproval
    PROVE  Calm(d, e)
    BY ItemsCalm

LEMMA RetireCalm ==
    ASSUME NEW d \in Database
    PROVE  Calm(d, RetireTask(d)) /\ Calm(d, RequeueTask(d))
<1> DEFINE e == RetireTask(d)
           f == RequeueTask(d)
<1>1. e.item = d.item /\ e.obj = d.obj /\ e.wave = d.wave /\ e.reapproval = d.reapproval
      BY DEF RetireTask, Database
<1>2. f.item = d.item /\ f.obj = d.obj /\ f.wave = d.wave /\ f.reapproval = d.reapproval
      BY DEF RequeueTask, RetireTask, Database
<1>. QED BY <1>1, <1>2, AsideCalm

LEMMA FailCalm ==
    ASSUME NEW d \in Database
    PROVE  Calm(d, FailTask(d))
<1> DEFINE S == {w \in {d.running, d.revoked} \ {NoWave} :
                    d.wave[w] \notin {"PAUSED", "RESTORE_REAPPROVAL_REQUIRED"}}
           v == Update(d.wave, S, "FAILED")
           e == FailTask(d)
<1>1. \A w \in Waves : v[w] = "PAUSED" <=> d.wave[w] = "PAUSED"
      BY DEF Update, Database
<1>2. e = [d EXCEPT !.running = NoWave, !.revoked = NoWave, !.wave = v]
      BY DEF FailTask, RetireTask, Database
<1>. HIDE DEF S, v, e
<1>3. e.item = d.item /\ e.obj = d.obj /\ e.wave = v /\ e.reapproval = d.reapproval
      BY <1>2 DEF Database
<1>4. \A o \in Objs : WaveOf[o] \in Waves
      BY WaveOfAssumption
<1>5. Calm(d, e)
      BY <1>1, <1>3, <1>4 DEF Calm, Unqueued
<1>. QED BY <1>5 DEF e

LEMMA AfterErrorCalm ==
    ASSUME NEW d \in Database, NEW e \in TaskAfterError(d)
    PROVE  Calm(d, e)
<1> DEFINE f == [d EXCEPT !.revoked = NoWave]
<1>1. Calm(d, f)
      BY AsideCalm DEF Database
<1>2. e \in {RequeueTask(d), FailTask(d), f}
      BY DEF TaskAfterError
<1>. HIDE DEF f
<1>. QED BY <1>1, <1>2, RetireCalm, FailCalm

LEMMA PauseCalm ==
    ASSUME NEW d \in Database, NEW W, NEW held
    PROVE  Calm(d, PauseWaves(d, W, held))
<1> DEFINE cut == {o \in Objs : WaveOf[o] \in W /\ d.item[o] \in Queued}
           v   == Update(d.wave, W, "PAUSED")
           i   == Update(d.item, cut, "CANCELLED")
           k   == Update(d.sei, W, "NONE")
           u   == IF d.running \in W THEN NoWave ELSE d.running
           x   == IF d.running \in W THEN held ELSE d.revoked
           e   == PauseWaves(d, W, held)
<1>1. e = [d EXCEPT !.wave = v, !.item = i, !.ready = d.ready \ W,
                    !.running = u, !.revoked = x, !.sei = k]
      BY DEF PauseWaves
<1>2. \A o \in cut : WaveOf[o] \in W
      OBVIOUS
<1>. HIDE DEF cut, e
<1>3. \A w \in Waves : v[w] = IF w \in W THEN "PAUSED" ELSE d.wave[w]
      BY DEF Update, Database
<1>4. \A o \in Objs : i[o] = IF o \in cut THEN "CANCELLED" ELSE d.item[o]
      BY DEF Update, Database
<1>. HIDE DEF v, i, k, u, x
<1>5. e.item = i /\ e.obj = d.obj /\ e.wave = v /\ e.reapproval = d.reapproval
      BY <1>1 DEF Database
<1>6. \A o \in Objs : WaveOf[o] \in Waves
      BY WaveOfAssumption
<1>7. Calm(d, e)
      BY <1>2, <1>3, <1>4, <1>5, <1>6 DEF Calm, Unqueued
<1>. QED BY <1>7 DEF e

LEMMA ResumeCalm ==
    ASSUME NEW d \in Database, NEW W
    PROVE  Calm(d, ResumeWaves(d, W))
<1> DEFINE cancelled(w) == {o \in ObjsOf(w) : d.item[o] = "CANCELLED"}
           back  == {o \in Objs : /\ WaveOf[o] \in W
                                  /\ d.item[o] = "CANCELLED"
                                  /\ d.obj[o] = "RESTORED"}
           drain == {w \in W : cancelled(w) # {} \/ w \in d.ready}
           v == Update(Update(d.wave, W \ drain, "READY_FOR_RESTORE"), drain, "TRANSFER_DRAINING")
           i == Update(d.item, back, "READY")
           k == Update(d.sei, W \ drain, "SUBMIT")
           e == ResumeWaves(d, W)
<1>1. e = [d EXCEPT !.item = i, !.wave = v, !.sei = k]
      BY DEF ResumeWaves
<1>2. drain \subseteq W
      OBVIOUS
<1>. HIDE DEF drain, e
<1>3. \A o \in Objs :
         i[o] = IF /\ WaveOf[o] \in W
                   /\ d.item[o] = "CANCELLED"
                   /\ d.obj[o] = "RESTORED" THEN "READY" ELSE d.item[o]
      BY DEF Update, Database
<1>4. \A w \in Waves : w \notin W => v[w] = d.wave[w]
      BY <1>2 DEF Update, Database
<1>. HIDE DEF back, v, i, k
<1>5. e.item = i /\ e.obj = d.obj /\ e.wave = v /\ e.reapproval = d.reapproval
      BY <1>1 DEF Database
<1>6. \A o \in Objs : WaveOf[o] \in Waves
      BY WaveOfAssumption
<1>7. Calm(d, e)
      BY <1>3, <1>4, <1>5, <1>6 DEF Calm, Unqueued
<1>. QED BY <1>7 DEF e

LEMMA EnsureCalm ==
    ASSUME NEW d, Good(d), NEW aged, EnsureTransferTask(d, aged)
    PROVE  Calm(d, db')
<1> DEFINE r == RecoverLeases(d, aged)
           f == RefreshPriorities(r)
<1>1. Good(r) /\ r \in Database /\ f \in Database
      BY RecoverSafe, RefreshSafe DEF Safe, Good
<1>2. Calm(d, r) /\ Calm(d, f)
      BY <1>1, RecoverCalm, RefreshCalm, CalmTransitive
<1>3. \/ db' = r
      \/ db' = f
      \/ \E w \in WavesOf(Eligible(f)) : db' = [f EXCEPT !.ready = f.ready \cup {w}]
      BY DEF EnsureTransferTask
<1>. HIDE DEF r, f
<1>4. ASSUME NEW w, db' = [f EXCEPT !.ready = f.ready \cup {w}]
      PROVE  Calm(f, db')
      BY <1>1, <1>4, AsideCalm DEF Database
<1>. QED BY <1>2, <1>3, <1>4, CalmTransitive

LEMMA RestoredLaneCalm ==
    ASSUME NEW d, Good(d), NEW aged, ReconcileRestoredLane(d, aged)
    PROVE  Calm(d, db')
<1> DEFINE W     == {w \in Waves : d.wave[w] \in LaneStatus}
           whole == {w \in W : \A o \in ObjsOf(w) : d.obj[o] # "RESTORING"}
           e     == EnqueueAvailable(d, (W \cap d.eager) \cup whole)
<1>1. db' = d \/ EnsureTransferTask(e, aged)
      BY DEF ReconcileRestoredLane
<1>2. Good(e) /\ Calm(d, e)
      BY EnqueueSafe, EnqueueCalm DEF Safe, Good
<1>. HIDE DEF e
<1>. QED BY <1>1, <1>2, EnsureCalm, CalmReflexive, CalmTransitive

-----------------------------------------------------------------------------
(* The steps: all are calm but a poll that observes copies, and a delivery.  *)

LEMMA RaijuCalm ==
    ASSUME Good(db), TypeOK, Raiju, \A s \in Slots : ~StreamDelivers(s)
    PROVE  Calm(db, db')
<1>. USE DEF Safe
<1>1. db \in Database
      BY DEF Good
<1>2. \A aged : Good(PrepareClaim(db, aged)) /\ PrepareClaim(db, aged) \in Database
      BY PrepareSafe DEF Good
<1>3. \A aged, S : LET c == Lease(PrepareClaim(db, aged), S)
                   IN  /\ Good(c) /\ c \in Database /\ Calm(db, c)
                       /\ \A o \in S \cap Objs : c.item[o] = "LEASED"
      BY <1>2, PrepareCalm, LeaseSafe, LeaseCalm, CalmTransitive DEF Good
<1>4. \A aged, S, T : LET c == ReturnUnstarted(Lease(PrepareClaim(db, aged), S), T)
                      IN  Good(c) /\ c \in Database /\ Calm(db, c)
      BY <1>3, ReturnSafe, ReturnCalm, CalmTransitive DEF Good
<1>5. CASE ClaimDispatcher
      <2>1. PICK aged \in Aged :
               LET d == FinalizeDelivered(db, aged)
               IN  db' = d \/ \E w \in d.ready : db' = [d EXCEPT !.running = w, !.ready = d.ready \ {w}]
            BY <1>5 DEF ClaimDispatcher
      <2> DEFINE d == FinalizeDelivered(db, aged)
      <2>2. Calm(db, d) /\ d \in Database
            BY <1>1, FinalizeCalm, FinalizeSafe DEF Good
      <2>3. db' = d \/ \E w \in d.ready : db' = [d EXCEPT !.running = w, !.ready = d.ready \ {w}]
            BY <2>1
      <2>. HIDE DEF d
      <2>4. ASSUME NEW w \in d.ready, db' = [d EXCEPT !.running = w, !.ready = d.ready \ {w}]
            PROVE  Calm(d, db')
            <3>1. /\ db'.item = d.item /\ db'.obj = d.obj
                  /\ db'.wave = d.wave /\ db'.reapproval = d.reapproval
                  BY <2>2, <2>4 DEF Database
            <3>. QED BY <3>1, AsideCalm
      <2>5. Calm(d, db')
            BY <2>3, <2>4, CalmReflexive
      <2>. QED BY <2>2, <2>5, CalmTransitive
<1>6. CASE DispatchNothing
      <2>1. PICK aged \in Aged :
               EnsureTransferTask(RetireTask(ReconcileWaves(PrepareClaim(db, aged))), aged)
            BY <1>6 DEF DispatchNothing
      <2> DEFINE c == PrepareClaim(db, aged)
                 r == ReconcileWaves(c)
                 d == RetireTask(r)
      <2>2. Good(c) /\ Good(r) /\ Good(d)
            BY <1>2, WavesSafe, RetireSafe
      <2>3. Calm(db, c) /\ Calm(c, r) /\ Calm(r, d)
            BY <2>2, PrepareCalm, WavesCalm, RetireCalm DEF Good
      <2>. HIDE DEF c, r, d
      <2>4. Calm(d, db')
            BY <2>1, <2>2, EnsureCalm DEF c, r, d
      <2>. QED BY <2>3, <2>4, CalmTransitive
<1>7. CASE StartDispatch
      <2>1. PICK claimed \in SUBSET Objs : \E seat : Dispatch(claimed, seat)
            BY <1>7 DEF StartDispatch
      <2>2. PICK aged \in Aged, back \in SUBSET Objs :
               db' = ReturnUnstarted(Lease(PrepareClaim(db, aged), claimed), back)
            BY <2>1 DEF Dispatch
      <2>. QED BY <1>4, <2>2
<1>8. CASE DispatchRefused
      <2>1. PICK aged \in Aged, claimed \in SUBSET Objs :
               db' = RequeueTask(ReturnUnstarted(Lease(PrepareClaim(db, aged), claimed), claimed))
            BY <1>8 DEF DispatchRefused, ClaimChoices, Eligible
      <2>. QED BY <1>4, <2>1, RetireCalm, CalmTransitive
<1>9. CASE DispatchAborts
      <2>1. PICK aged \in Aged, claimed \in SUBSET Objs, back \in SUBSET Objs :
               db' \in {RequeueTask(ReturnUnstarted(Lease(PrepareClaim(db, aged), claimed), back)),
                        FailTask(ReturnUnstarted(Lease(PrepareClaim(db, aged), claimed), back))}
            BY <1>9 DEF DispatchAborts, ClaimChoices, Eligible
      <2> DEFINE d == ReturnUnstarted(Lease(PrepareClaim(db, aged), claimed), back)
      <2>2. d \in Database /\ Calm(db, d)
            BY <1>4
      <2>3. db' = RequeueTask(d) \/ db' = FailTask(d)
            BY <2>1
      <2>. HIDE DEF d
      <2>. QED BY <2>2, <2>3, RetireCalm, FailCalm, CalmTransitive
<1>10. CASE Refill \/ LoopFails
      BY <1>10, CalmReflexive DEF Refill, LoopFails
<1>11. CASE StopAfterCollect
      <2>1. db' = db \/ \E S : db' = RequeueTask(ReturnUnstarted(db, S))
            BY <1>11 DEF StopAfterCollect
      <2>2. \A S : ReturnUnstarted(db, S) \in Database /\ Calm(db, ReturnUnstarted(db, S))
            BY ReturnSafe, ReturnCalm DEF Good
      <2>. QED BY <2>1, <2>2, RetireCalm, CalmReflexive, CalmTransitive
<1>12. CASE RefreshTick
      BY <1>1, <1>12, RefreshCalm DEF RefreshTick
<1>13. CASE ReserveHandoff
      <2>1. PICK aged \in Aged, S \in SUBSET Objs :
               \/ db' = Unstart(Lease(PrepareClaim(db, aged), S), S)
               \/ db' = ReturnUnstarted(Lease(PrepareClaim(db, aged), S), S)
            BY <1>13 DEF ReserveHandoff, HandoffTargets, Eligible
      <2> DEFINE c == Lease(PrepareClaim(db, aged), S)
      <2>2. c \in Database /\ Calm(db, c) /\ \A o \in S \cap Objs : c.item[o] = "LEASED"
            BY <1>3
      <2>3. db' = Unstart(c, S) \/ db' = ReturnUnstarted(c, S)
            BY <2>1
      <2>4. Calm(db, ReturnUnstarted(c, S))
            BY <1>4
      <2>. HIDE DEF c
      <2>5. Calm(c, Unstart(c, S))
            BY <2>2, UnstartCalm
      <2>. QED BY <2>2, <2>3, <2>4, <2>5, CalmTransitive
<1>14. CASE LoopEnds
      <2>1. PICK aged \in Aged :
               EnsureTransferTask(RetireTask(RefreshPriorities(ReconcileWaves(db))), aged)
            BY <1>14 DEF LoopEnds
      <2> DEFINE r == ReconcileWaves(db)
                 f == RefreshPriorities(r)
                 d == RetireTask(f)
      <2>2. Good(r) /\ Good(f) /\ Good(d)
            BY WavesSafe, RefreshSafe, RetireSafe
      <2>3. Calm(db, r) /\ Calm(r, f) /\ Calm(f, d)
            BY <1>1, <2>2, WavesCalm, RefreshCalm, RetireCalm DEF Good
      <2>. HIDE DEF r, f, d
      <2>4. Calm(d, db')
            BY <2>1, <2>2, EnsureCalm DEF r, f, d
      <2>. QED BY <2>3, <2>4, CalmTransitive
<1>15. CASE DrainDone
      BY <1>1, <1>15, AfterErrorCalm DEF DrainDone
<1>16. ASSUME NEW s \in Slots, StreamStart(s)
       PROVE  Calm(db, db')
      <2> DEFINE o == stream[s].obj
                 b == Update(db.obj, {o}, "TRANSFERRING")
      <2>1. \/ db' = db
            \/ /\ db.obj[o] \in {"RESTORED", "TRANSFERRING"}
               /\ db' = [db EXCEPT !.obj = b]
            BY <1>16 DEF StreamStart
      <2>2. ASSUME db.obj[o] \in {"RESTORED", "TRANSFERRING"}, db' = [db EXCEPT !.obj = b]
            PROVE  Calm(db, db')
            <3>1. \A p \in Objs : \/ b[p] = db.obj[p]
                                  \/ db.obj[p] # "RESTORING" /\ b[p] = "TRANSFERRING"
                  BY <1>1, <2>2 DEF Update, Database
            <3>. HIDE DEF b
            <3>2. /\ db'.item = db.item /\ db'.obj = b
                  /\ db'.wave = db.wave /\ db'.reapproval = db.reapproval
                  BY <1>1, <2>2 DEF Database
            <3>. QED BY <3>1, <3>2, ObjectsCalm
      <2>. QED BY <2>1, <2>2, CalmReflexive
<1>17. ASSUME NEW s \in Slots, StreamFails(s) \/ StreamUnavailable(s)
       PROVE  Calm(db, db')
       BY <1>17, CalmReflexive DEF StreamFails, StreamUnavailable
<1>18. ASSUME NEW s \in Slots, CollectDone(s)
       PROVE  Calm(db, db')
      <2> DEFINE o == stream[s].obj
                 c == Settle(db, o, stream[s].phase)
                 f == RefreshPriorities(c)
      <2>1. o \in Objs /\ db' = ReconcileWaves(f)
            BY <1>18 DEF CollectDone, Finished, TypeOK, Stream, Free
      <2>2. Good(c) /\ Good(f)
            BY <2>1, SettleSafe, RefreshSafe
      <2>3. Calm(db, c) /\ Calm(c, f) /\ Calm(f, ReconcileWaves(f))
            BY <2>1, <2>2, SettleCalm, RefreshCalm, WavesCalm DEF Good
      <2>. HIDE DEF c, f
      <2>. QED BY <2>1, <2>3, CalmTransitive
<1>19. ASSUME NEW s \in Slots, ClaimReplacement(s)
       PROVE  Calm(db, db')
      <2>1. PICK aged \in Aged, S \in SUBSET Objs : db' = Lease(PrepareClaim(db, aged), S)
            BY <1>19 DEF ClaimReplacement, Eligible
      <2>. QED BY <1>3, <2>1
<1>. QED BY <1>5, <1>6, <1>7, <1>8, <1>9, <1>10, <1>11, <1>12, <1>13, <1>14, <1>15, <1>16,
            <1>17, <1>18, <1>19 DEF Raiju

LEMMA EnvironmentCalm ==
    ASSUME db \in Database, Environment
    PROVE  Calm(db, db')
<1>1. /\ db'.item = db.item /\ db'.obj = db.obj
      /\ db'.wave = db.wave /\ db'.reapproval = db.reapproval
      BY DEF Environment, Crash, Terminate, Restart, LeaseLapses, CopyExpires, Database
<1>. QED BY <1>1, AsideCalm

LEMMA OperatorCalm ==
    ASSUME db \in Database, Operator
    PROVE  Calm(db, db')
<1>1. CASE PauseProject
      <2>1. /\ db'.item = db.item /\ db'.obj = db.obj
            /\ db'.wave = db.wave /\ db'.reapproval = db.reapproval
            BY <1>1 DEF PauseProject, Database
      <2>. QED BY <2>1, AsideCalm
<1>2. CASE ResumeProject
      <2> DEFINE r == ResumeWaves(db, {w \in Waves : db.wave[w] = "PAUSED"})
      <2>1. db' = [r EXCEPT !.paused = FALSE] /\ Calm(db, r)
            BY <1>2, ResumeCalm DEF ResumeProject
      <2>2. DOMAIN r = DOMAIN db
            BY DEF ResumeWaves, Database
      <2>. HIDE DEF r
      <2>3. db'.item = r.item /\ db'.obj = r.obj /\ db'.wave = r.wave /\ db'.reapproval = r.reapproval
            BY <2>1, <2>2 DEF Database
      <2>. QED BY <2>1, <2>3, AsideCalm, CalmTransitive
<1>3. ASSUME NEW w \in Waves, PauseWave(w) \/ ResumeWave(w)
      PROVE  Calm(db, db')
      BY <1>3, PauseCalm, ResumeCalm DEF PauseWave, ResumeWave
<1>. QED BY <1>1, <1>2, <1>3 DEF Operator

\* A restore begins only under a new approval.
Asks(d, e) ==
    /\ d.reapproval \subseteq e.reapproval
    /\ \A o \in Objs : e.obj[o] = "RESTORING" => d.obj[o] = "RESTORING" \/ WaveOf[o] \in e.reapproval

LEMMA CalmAsks == ASSUME NEW d, NEW e, Calm(d, e) PROVE Asks(d, e)
    BY DEF Calm, Asks

LEMMA AsksTransitive ==
    ASSUME NEW d, NEW e, NEW f, Asks(d, e), Asks(e, f)
    PROVE  Asks(d, f)
<1>1. d.reapproval \subseteq f.reapproval
      BY DEF Asks
<1>2. ASSUME NEW o \in Objs, f.obj[o] = "RESTORING"
      PROVE  d.obj[o] = "RESTORING" \/ WaveOf[o] \in f.reapproval
      BY <1>2 DEF Asks
<1>. QED BY <1>1, <1>2 DEF Asks

\* What a poll of wave w observed: objects of w become RESTORED.
Observed(d, w, seen, status) ==
    [d EXCEPT !.obj = Update(d.obj, seen, "RESTORED"), !.wave[w] = status]

LEMMA ObservedLane ==
    ASSUME NEW d, Good(d), NEW w \in Waves, NEW status \in {"RESTORED", "RESTORING"},
           NEW seen, seen \subseteq {o \in ObjsOf(w) : d.obj[o] = "RESTORING"}
    PROVE  /\ Good(Observed(d, w, seen, status)) /\ Asks(d, Observed(d, w, seen, status))
           /\ \A o \in Objs \ seen : Observed(d, w, seen, status).obj[o] = d.obj[o]
           /\ InLane(d) =>
                \A o \in Objs :
                   WaveOf[o] # w /\ Unqueued(Observed(d, w, seen, status), o) =>
                      \E p \in ObjsOf(WaveOf[o]) : Observed(d, w, seen, status).obj[p] = "RESTORING"
<1> DEFINE b == Update(d.obj, seen, "RESTORED")
           v == [d.wave EXCEPT ![w] = status]
           e == [d EXCEPT !.obj = b, !.wave = v]
<1>1. d \in Database
      BY DEF Good
<1>2. Observed(d, w, seen, status) = e
      BY <1>1 DEF Observed, Database
<1>3. \A o \in seen : o \in ObjsOf(w) /\ d.obj[o] = "RESTORING"
      OBVIOUS
<1>4. \A o \in Objs : b[o] = IF o \in seen THEN "RESTORED" ELSE d.obj[o]
      BY <1>1 DEF Update, Database
<1>5. b \in [Objs -> ObjectState]
      BY <1>1, <1>4 DEF Update, Database, ObjectState
<1>6. /\ v \in [Waves -> WaveStatus]
      /\ \A x \in Waves : x # w => v[x] = d.wave[x]
      /\ \A x \in Waves : v[x] = "COMPLETED" => d.wave[x] = "COMPLETED"
      BY <1>1 DEF Database, WaveStatus
<1>. HIDE DEF b, v
<1>7. e \in Database
      BY <1>1, <1>5, <1>6 DEF Database
<1>8. e.item = d.item /\ e.obj = b /\ e.wave = v /\ e.reapproval = d.reapproval
      BY <1>1 DEF Database
<1>. HIDE DEF e
<1>9. Good(e)
      <2>1. \A o \in Objs : WaveOf[o] \in Waves
            BY WaveOfAssumption
      <2>2. \A o \in Objs : d.obj[o] = "TRANSFERRED" => e.obj[o] = "TRANSFERRED"
            BY <1>3, <1>4, <1>8
      <2>. QED BY <1>6, <1>7, <1>8, <2>1, <2>2 DEF Good
<1>10. Asks(d, e)
      BY <1>4, <1>8 DEF Asks
<1>11. \A o \in Objs \ seen : e.obj[o] = d.obj[o]
      BY <1>4, <1>8
<1>12. ASSUME InLane(d), NEW o \in Objs, WaveOf[o] # w, Unqueued(e, o)
       PROVE  \E p \in ObjsOf(WaveOf[o]) : e.obj[p] = "RESTORING"
      <2>1. WaveOf[o] \in Waves /\ \A x \in seen : WaveOf[x] = w
            BY <1>3, WaveOfAssumption DEF ObjsOf
      <2>2. Unqueued(d, o)
            BY <1>6, <1>8, <1>11, <1>12, <2>1 DEF Unqueued
      <2>3. PICK p \in ObjsOf(WaveOf[o]) : d.obj[p] = "RESTORING"
            BY <1>12, <2>2 DEF InLane
      <2>4. p \in Objs \ seen
            BY <1>12, <2>1 DEF ObjsOf
      <2>. QED BY <1>11, <2>3, <2>4
<1>. QED BY <1>2, <1>9, <1>10, <1>11, <1>12

LEMMA PollKeepsLane ==
    ASSUME Good(db), NEW w \in Waves, PollRestore(w)
    PROVE  Asks(db, db') /\ (InLane(db) => InLane(db'))
<1> DEFINE pending == {o \in ObjsOf(w) : db.obj[o] = "RESTORING"}
<1>1. PICK seen \in SUBSET pending, aged \in Aged :
         IF seen = pending
         THEN EnsureTransferTask([EnqueueAvailable(Observed(db, w, seen, "RESTORED"), {w})
                                     EXCEPT !.sei[w] = "NONE"], aged)
         ELSE \E part \in {Observed(db, w, seen, "RESTORING")} :
                 \E queue \in {EnqueueAvailable(part, {w})} :
                    IF w \in db.eager /\ queue # part
                    THEN EnsureTransferTask(queue, aged)
                    ELSE db' = part
      BY DEF PollRestore, Observed
<1>2. CASE seen = pending
      <2> DEFINE p == Observed(db, w, seen, "RESTORED")
                 q == EnqueueAvailable(p, {w})
                 e == [q EXCEPT !.sei[w] = "NONE"]
      <2>1. /\ Good(p) /\ Asks(db, p)
            /\ InLane(db) => \A o \in Objs : WaveOf[o] # w /\ Unqueued(p, o) =>
                  \E x \in ObjsOf(WaveOf[o]) : p.obj[x] = "RESTORING"
            BY ObservedLane
      <2>2. EnsureTransferTask(e, aged)
            BY <1>1, <1>2
      <2>. HIDE DEF p
      <2>3. Good(q) /\ Calm(p, q)
            BY <2>1, EnqueueSafe, EnqueueCalm DEF Safe, Good
      <2>4. /\ q.obj = p.obj
            /\ \A o \in Objs : WaveOf[o] = w /\ p.obj[o] = "RESTORED" =>
                  q.item[o] \notin {"NONE", "CANCELLED"}
            BY <2>1 DEF EnqueueAvailable, Good, Database, Update
      <2>. HIDE DEF q
      <2>5. e \in Database
            BY <2>3 DEF Good, Database
      <2>6. e.item = q.item /\ e.obj = q.obj /\ e.wave = q.wave /\ e.reapproval = q.reapproval
            BY <2>3 DEF Good, Database
      <2>. HIDE DEF e
      <2>7. Good(e) /\ Calm(q, e)
            BY <2>3, <2>5, <2>6, AsideSafe, AsideCalm DEF Safe
      <2>8. Calm(e, db')
            BY <2>2, <2>7, EnsureCalm
      <2>9. Asks(db, db')
            BY <2>1, <2>3, <2>7, <2>8, CalmAsks, AsksTransitive
      <2>10. ASSUME InLane(db) PROVE InLane(q)
            <3>. SUFFICES ASSUME NEW o \in Objs, Unqueued(q, o)
                          PROVE  \E x \in ObjsOf(WaveOf[o]) : q.obj[x] = "RESTORING"
                 BY DEF InLane
            <3>1. WaveOf[o] # w
                  BY <2>4 DEF Unqueued
            <3>2. Unqueued(p, o)
                  BY <2>3 DEF Calm
            <3>. QED BY <2>1, <2>4, <2>10, <3>1, <3>2
      <2>. QED BY <2>7, <2>8, <2>9, <2>10, CalmKeepsLane
<1>3. CASE seen # pending
      <2> DEFINE p == Observed(db, w, seen, "RESTORING")
                 q == EnqueueAvailable(p, {w})
      <2>1. /\ Good(p) /\ Asks(db, p)
            /\ InLane(db) => \A o \in Objs : WaveOf[o] # w /\ Unqueued(p, o) =>
                  \E x \in ObjsOf(WaveOf[o]) : p.obj[x] = "RESTORING"
            BY ObservedLane
      <2>2. \E x \in ObjsOf(w) : p.obj[x] = "RESTORING"
            <3>1. PICK x \in pending : x \notin seen
                  BY <1>3
            <3>2. p.obj[x] = db.obj[x]
                  BY <3>1, ObservedLane DEF ObjsOf
            <3>. QED BY <3>1, <3>2
      <2>3. EnsureTransferTask(q, aged) \/ db' = p
            BY <1>1, <1>3
      <2>. HIDE DEF p
      <2>4. Good(q) /\ Calm(p, q)
            BY <2>1, EnqueueSafe, EnqueueCalm DEF Safe, Good
      <2>. HIDE DEF q
      <2>5. Calm(p, db')
            BY <2>3, <2>4, EnsureCalm, CalmReflexive, CalmTransitive
      <2>6. ASSUME InLane(db) PROVE InLane(p)
            BY <2>1, <2>2, <2>6 DEF InLane
      <2>. QED BY <2>1, <2>5, <2>6, CalmAsks, AsksTransitive, CalmKeepsLane
<1>. QED BY <1>2, <1>3

LEMMA SubmitCalm ==
    ASSUME Good(db), NEW w \in Waves, SubmitRestore(w)
    PROVE  Calm(db, db')
<1> DEFINE v == [db.wave EXCEPT ![w] = "RESTORED"]
           k == [db.sei EXCEPT ![w] = "NONE"]
           e == [db EXCEPT !.wave = v, !.sei = k]
           q == EnqueueAvailable(e, {w})
<1>1. PICK aged \in Aged :
         EnsureTransferTask(EnqueueAvailable(
             [db EXCEPT !.wave[w] = "RESTORED", !.sei[w] = "NONE"], {w}), aged)
      BY DEF SubmitRestore
<1>2. db \in Database /\ db.wave[w] # "PAUSED"
      BY DEF Good, SubmitRestore, SeiMay
<1>3. [db EXCEPT !.wave[w] = "RESTORED", !.sei[w] = "NONE"] = e
      BY <1>2 DEF Database
<1>4. /\ v \in [Waves -> WaveStatus] /\ k \in [Waves -> {"NONE", "SUBMIT", "POLL"}]
      /\ \A x \in Waves : v[x] = "COMPLETED" => db.wave[x] = "COMPLETED"
      /\ \A x \in Waves : v[x] = "PAUSED" <=> db.wave[x] = "PAUSED"
      BY <1>2 DEF Database, WaveStatus
<1>. HIDE DEF v, k
<1>5. e \in Database
      BY <1>2, <1>4 DEF Database
<1>6. e.item = db.item /\ e.obj = db.obj /\ e.wave = v /\ e.reapproval = db.reapproval
      BY <1>2 DEF Database
<1>. HIDE DEF e
<1>7. \A o \in Objs : WaveOf[o] \in Waves
      BY WaveOfAssumption
<1>8. Good(e)
      BY <1>4, <1>5, <1>6, <1>7 DEF Good
<1>9. Calm(db, e)
      BY <1>4, <1>6, <1>7 DEF Calm, Unqueued
<1>10. Good(q) /\ Calm(e, q)
      BY <1>8, EnqueueSafe, EnqueueCalm DEF Safe, Good
<1>11. EnsureTransferTask(q, aged)
      BY <1>1, <1>3
<1>. HIDE DEF q
<1>12. Calm(q, db')
      BY <1>10, <1>11, EnsureCalm
<1>. QED BY <1>9, <1>10, <1>12, CalmTransitive

LEMMA ControlCalm ==
    ASSUME Good(db), Control, \A w \in Waves : ~PollRestore(w)
    PROVE  Calm(db, db')
<1>1. CASE WatchdogRecover
      <2>1. PICK aged \in Aged : \/ db' = RecoverLeases(db, aged)
                                 \/ EnsureTransferTask(RecoverLeases(db, aged), aged)
            BY <1>1 DEF WatchdogRecover
      <2>2. Good(RecoverLeases(db, aged)) /\ Calm(db, RecoverLeases(db, aged))
            BY RecoverSafe, RecoverCalm DEF Safe
      <2>. QED BY <2>1, <2>2, EnsureCalm, CalmTransitive
<1>2. CASE Govern
      <2>1. PICK aged \in Aged : \/ ReconcileRestoredLane(db, aged)
                                 \/ ReconcileRestoredLane(ReconcileWaves(db), aged)
            BY <1>2 DEF Govern
      <2>2. Good(ReconcileWaves(db)) /\ Calm(db, ReconcileWaves(db))
            BY WavesSafe, WavesCalm DEF Safe, Good
      <2>. QED BY <2>1, <2>2, RestoredLaneCalm, CalmTransitive
<1>3. ASSUME NEW w \in Waves, PollSuperseded(w)
      PROVE  Calm(db, db')
      <2>1. /\ db'.item = db.item /\ db'.obj = db.obj
            /\ db'.wave = db.wave /\ db'.reapproval = db.reapproval
            BY <1>3 DEF PollSuperseded, Good, Database
      <2>. QED BY <2>1, AsideCalm
<1>4. ASSUME NEW w \in Waves, SubmitRestore(w)
      PROVE  Calm(db, db')
      BY <1>4, SubmitCalm
<1>. QED BY <1>1, <1>2, <1>3, <1>4 DEF Control

\* A copy that outlives its lease may deliver an object that is RESTORING again:
\* its wave then needs a new approval.
LateNeedsApproval ==
    \A s \in Slots : stream[s].phase = "copying" /\ db.obj[stream[s].obj] = "RESTORING" =>
        WaveOf[stream[s].obj] \in db.reapproval

LEMMA DeliveryKeepsLane ==
    ASSUME Good(db), TypeOK, LateNeedsApproval, NEW s \in Slots, StreamDelivers(s)
    PROVE  Asks(db, db') /\ (InLane(db) => InLane(db'))
<1> DEFINE x == stream[s].obj
           b == Update(db.obj, {x}, "TRANSFERRED")
<1>1. \A o \in Objs : b[o] = IF o = x THEN "TRANSFERRED" ELSE db.obj[o]
      BY DEF Good, Database, Update
<1>2. db' = [db EXCEPT !.obj = b]
      BY DEF StreamDelivers
<1>3. db.obj[x] = "RESTORING" => WaveOf[x] \in db.reapproval
      BY DEF LateNeedsApproval, StreamDelivers
<1>. HIDE DEF b, x
<1>4. /\ db'.item = db.item /\ db'.obj = b
      /\ db'.wave = db.wave /\ db'.reapproval = db.reapproval
      BY <1>2 DEF Good, Database
<1>5. Asks(db, db')
      BY <1>1, <1>4 DEF Asks
<1>6. ASSUME InLane(db), NEW o \in Objs, Unqueued(db', o)
      PROVE  \E p \in ObjsOf(WaveOf[o]) : db'.obj[p] = "RESTORING"
      <2>1. Unqueued(db, o) /\ WaveOf[o] \notin db.reapproval
            BY <1>1, <1>4, <1>6 DEF Unqueued
      <2>2. PICK p \in ObjsOf(WaveOf[o]) : db.obj[p] = "RESTORING"
            BY <1>6, <2>1 DEF InLane
      <2>3. p # x /\ p \in Objs
            BY <1>3, <2>1, <2>2 DEF ObjsOf
      <2>. QED BY <1>1, <1>4, <2>2, <2>3
<1>. QED BY <1>5, <1>6 DEF InLane

LEMMA NextLane ==
    ASSUME Good(db), TypeOK, LateNeedsApproval, [Next]_vars
    PROVE  Asks(db, db') /\ (InLane(db) => InLane(db'))
<1>1. CASE \E w \in Waves : PollRestore(w)
      BY <1>1, PollKeepsLane
<1>2. CASE \E s \in Slots : StreamDelivers(s)
      BY <1>2, DeliveryKeepsLane
<1>3. CASE UNCHANGED vars
      BY <1>3, CalmReflexive, CalmAsks, CalmKeepsLane DEF vars
<1>4. CASE /\ Next
           /\ \A w \in Waves : ~PollRestore(w)
           /\ \A s \in Slots : ~StreamDelivers(s)
      <2>1. Calm(db, db')
            BY <1>4, RaijuCalm, EnvironmentCalm, ControlCalm, OperatorCalm DEF Next, Good
      <2>. QED BY <2>1, CalmAsks, CalmKeepsLane
<1>. QED BY <1>1, <1>2, <1>3, <1>4

\* A stream that copies has just started or was copying before.
\* A stream that copies has just started or was copying before.
LEMMA CopyingStarts ==
    ASSUME TypeOK, [Next]_vars, NEW s \in Slots, stream'[s].phase = "copying"
    PROVE  \/ StreamStart(s) /\ stream'[s].obj = stream[s].obj
           \/ stream[s].phase = "copying" /\ stream'[s].obj = stream[s].obj
<1> DEFINE Kept == stream[s].phase = "copying" /\ stream'[s] = stream[s]
<1>1. ASSUME NEW t \in Slots, NEW ph, stream' = [stream EXCEPT ![t].phase = ph]
      PROVE  /\ stream'[t].obj = stream[t].obj /\ stream'[t].phase = ph
             /\ t # s => stream'[s] = stream[s]
      BY <1>1 DEF TypeOK, Stream, Free
<1>2. stream' = Unreserved => Kept
      BY DEF Unreserved, Free
<1>3. stream' # [t \in Slots |-> Free]
      BY DEF Free
<1>4. UNCHANGED stream => Kept
      OBVIOUS
<1>5. CASE ClaimDispatcher \/ DispatchNothing \/ DispatchRefused \/ DispatchAborts
      BY <1>4, <1>5 DEF ClaimDispatcher, DispatchNothing, DispatchRefused, DispatchAborts
<1>6. CASE RefreshTick \/ ReserveHandoff \/ LoopEnds
      BY <1>4, <1>6 DEF RefreshTick, ReserveHandoff, LoopEnds
<1>7. ~StartDispatch
      <2>1. ASSUME NEW claimed, NEW seat, Dispatch(claimed, seat) PROVE FALSE
            BY <2>1 DEF Dispatch, Free
      <2>. QED BY <2>1 DEF StartDispatch
<1>8. CASE Refill
      <2>1. \/ stream'[s] = [stream[s] EXCEPT !.phase = "submitted"] /\ stream[s].phase = "reserved"
            \/ stream'[s] = Unreserved[s]
            BY <1>8 DEF Refill
      <2>2. stream[s].phase = "reserved" => [stream[s] EXCEPT !.phase = "submitted"].phase = "submitted"
            BY DEF TypeOK, Stream, Free
      <2>3. stream'[s] = Unreserved[s]
            BY <2>1, <2>2
      <2>. QED BY <2>3 DEF Unreserved, Free
<1>9. CASE StopAfterCollect \/ LoopFails
      BY <1>2, <1>9 DEF StopAfterCollect, LoopFails
<1>10. ~DrainDone /\ ~Crash
      BY <1>3 DEF DrainDone, Crash
<1>11. ASSUME NEW t \in Slots, StreamStart(t)
       PROVE  t = s \/ Kept
      <2>1. PICK ph : stream' = [stream EXCEPT ![t].phase = ph]
            BY <1>11 DEF StreamStart
      <2>. QED BY <1>1, <2>1
<1>12. ASSUME NEW t \in Slots, StreamDelivers(t) \/ StreamFails(t) \/ StreamUnavailable(t)
       PROVE  Kept
      <2>1. PICK ph \in {"returned", "failed", "unavailable"} : stream' = [stream EXCEPT ![t].phase = ph]
            BY <1>12 DEF StreamDelivers, StreamFails, StreamUnavailable
      <2>. QED BY <1>1, <2>1
<1>13. ASSUME NEW t \in Slots, CollectDone(t) \/ ClaimReplacement(t)
       PROVE  Kept
      <2>1. ASSUME NEW x, x.phase # "copying", stream' = [stream EXCEPT ![t] = x]
            PROVE  Kept
            BY <2>1 DEF TypeOK
      <2>2. CASE CollectDone(t)
            <3> DEFINE x == IF handoff.target = stream[t].obj
                            THEN [obj |-> handoff.successor, phase |-> "reserved"] ELSE Free
            <3>1. x.phase # "copying"
                  BY DEF Free
            <3>2. stream' = [stream EXCEPT ![t] = x]
                  BY <2>2 DEF CollectDone
            <3>. HIDE DEF x
            <3>. QED BY <2>1, <3>1, <3>2
      <2>3. CASE ClaimReplacement(t)
            <3>1. PICK o : stream' = [stream EXCEPT ![t] = [obj |-> o, phase |-> "submitted"]]
                  BY <2>3 DEF ClaimReplacement
            <3>. QED BY <2>1, <3>1
      <2>. QED BY <1>13, <2>2, <2>3
<1>14. CASE Environment
      BY <1>4, <1>10, <1>14 DEF Environment, Terminate, Restart, LeaseLapses, CopyExpires
<1>15. CASE Control
      BY <1>4, <1>15 DEF Control, WatchdogRecover, Govern, PollSuperseded, PollRestore, SubmitRestore
<1>16. CASE Operator
      BY <1>4, <1>16 DEF Operator, PauseWave, ResumeWave, PauseProject, ResumeProject
<1>17. CASE UNCHANGED vars
      BY <1>4, <1>17 DEF vars
<1>18. StreamStart(s) => stream'[s].obj = stream[s].obj
      <2>1. StreamStart(s) => \E ph : stream' = [stream EXCEPT ![s].phase = ph]
            BY DEF StreamStart
      <2>. QED BY <1>1, <2>1
<1>. QED BY <1>5, <1>6, <1>7, <1>8, <1>9, <1>10, <1>11, <1>12, <1>13, <1>14, <1>15, <1>16,
            <1>17, <1>18 DEF Next, Raiju

LEMMA NextLate ==
    ASSUME Good(db), TypeOK, LateNeedsApproval, [Next]_vars, Asks(db, db')
    PROVE  LateNeedsApproval'
<1>. SUFFICES ASSUME NEW s \in Slots, stream'[s].phase = "copying",
                     db'.obj[stream'[s].obj] = "RESTORING"
              PROVE  WaveOf[stream'[s].obj] \in db'.reapproval
     BY DEF LateNeedsApproval
<1> DEFINE o == stream[s].obj
<1>1. \/ StreamStart(s) /\ stream'[s].obj = o
      \/ stream[s].phase = "copying" /\ stream'[s].obj = o
      BY CopyingStarts
<1>2. stream[s].phase # "free"
      BY <1>1 DEF StreamStart
<1>3. o \in Objs
      BY <1>2 DEF TypeOK, Stream, Free
<1>4. ~StreamStart(s)
      <2>. SUFFICES ASSUME StreamStart(s) PROVE FALSE
           OBVIOUS
      <2>1. db' = [db EXCEPT !.obj = Update(db.obj, {o}, "TRANSFERRING")]
            <3>1. ASSUME NEW ph, stream' = [stream EXCEPT ![s].phase = ph]
                  PROVE  stream'[s].phase = ph
                  BY <3>1 DEF TypeOK, Stream, Free
            <3>2. \/ stream' = [stream EXCEPT ![s].phase = "failed"]
                  \/ stream' = [stream EXCEPT ![s].phase = "returned"]
                  \/ db' = [db EXCEPT !.obj = Update(db.obj, {o}, "TRANSFERRING")]
                  BY DEF StreamStart
            <3>. QED BY <3>1, <3>2
      <2>2. db'.obj = Update(db.obj, {o}, "TRANSFERRING")
            BY <2>1 DEF Good, Database
      <2>3. db'.obj[o] = "TRANSFERRING"
            BY <1>3, <2>2 DEF Good, Database, Update
      <2>. QED BY <1>1, <2>3
<1>5. db.obj[o] = "RESTORING" \/ WaveOf[o] \in db'.reapproval
      BY <1>1, <1>3 DEF Asks
<1>. QED BY <1>1, <1>4, <1>5 DEF Asks, LateNeedsApproval

\* No pause, resume, recovery, settlement, expiry or late delivery leaves a
\* restored object with nothing to carry it to OCI: it has a live queue item,
\* or waits for its wave, the end of a pause or a new approval.
THEOREM RestoredStaysInLane == Spec => []RestoredIsInLane
<1> DEFINE Inv == IInv /\ LateNeedsApproval /\ InLane(db)
<1>1. Init => LateNeedsApproval /\ InLane(db)
      BY DEF Init, LateNeedsApproval, InLane, Unqueued, Free
<1>2. Init => Inv
      BY <1>1, InitInv
<1>3. Inv /\ [Next]_vars => Inv'
      <2>. SUFFICES ASSUME Inv, [Next]_vars PROVE Inv'
           OBVIOUS
      <2>1. Good(db) /\ TypeOK
            BY GoodIsInv DEF IInv, TypeOK
      <2>2. Asks(db, db') /\ InLane(db')
            BY <2>1, NextLane
      <2>3. LateNeedsApproval'
            BY <2>1, <2>2, NextLate
      <2>. QED BY <2>2, <2>3, NextInv
<1>4. Inv => RestoredIsInLane
      BY DEF InLane, Unqueued, RestoredIsInLane
<1>. QED BY <1>2, <1>3, <1>4, PTL DEF Spec
=============================================================================
