------------------------- MODULE TransferLaneFence -------------------------
(***************************************************************************)
(* The lease fence of the transfer lane, for any waves, objects and slots, *)
(* and from it that the lane implements Delivery.  Like the safety proofs, *)
(* the argument takes the database operators first: none of them touches a *)
(* held lease, but for the objects it is told to settle or to return.      *)
(* Fence strengthens StreamLeaseFence: it also says what the streams hold  *)
(* before they copy, after they end, and when their loop has failed.       *)
(***************************************************************************)
EXTENDS TransferLaneProofs

-----------------------------------------------------------------------------
(* Leases under the database operators *)

\* The queue holds o for a stream, or has settled it.
Held(d, o) == d.item[o] \in {"LEASED", "TRANSFERRED"} /\ o \notin d.lapsed

\* From d to e no lease is lost, no held copy reset, except for the objects S,
\* and nothing is delivered.
Firm(d, e, S) ==
    \A o \in Objs :
        /\ e.obj[o] = "TRANSFERRED" => d.obj[o] = "TRANSFERRED"
        /\ o \notin S /\ Held(d, o) =>
              /\ Held(e, o)
              /\ d.obj[o] = "TRANSFERRING" => e.obj[o] = "TRANSFERRING"

Sound(d, e, S) == Safe(d, e) /\ Firm(d, e, S)

LEMMA SoundTransitive ==
    ASSUME NEW d, NEW e, NEW f, NEW S, Sound(d, e, S), Sound(e, f, S)
    PROVE  Sound(d, f, S)
<1>1. Safe(d, f)
      BY SafeTransitive DEF Sound
<1>. QED BY <1>1 DEF Sound, Firm

LEMMA SoundWiden ==
    ASSUME NEW d, NEW e, NEW S, Sound(d, e, {})
    PROVE  Sound(d, e, S)
    BY DEF Sound, Firm

LEMMA SoundReflexive == ASSUME NEW d, Good(d), NEW S PROVE Sound(d, d, S)
    BY SafeReflexive DEF Sound, Firm

\* Changes of other fields than the items, objects, leases and wave states.
LEMMA AsideSound ==
    ASSUME NEW d, Good(d), NEW e \in Database, e.item = d.item, e.obj = d.obj,
           e.wave = d.wave, e.lapsed = d.lapsed
    PROVE  Sound(d, e, {})
    BY AsideSafe DEF Sound, Firm, Held

LEMMA UpdateAt ==
    ASSUME NEW f, DOMAIN f = Objs, NEW S, NEW v
    PROVE  \A o \in Objs : Update(f, S, v)[o] = IF o \in S THEN v ELSE f[o]
    BY DEF Update

-----------------------------------------------------------------------------
(* The operators on the database *)

LEMMA FinalizeSound ==
    ASSUME NEW d, Good(d), NEW aged
    PROVE  Sound(d, FinalizeDelivered(d, aged), {})
<1> DEFINE S == aged \cap DeliveredLeases(d)
           e == FinalizeDelivered(d, aged)
<1>1. d \in Database /\ DOMAIN d.item = Objs /\ DOMAIN d.obj = Objs
      BY DEF Good, Database
<1>2. e.item = Update(d.item, S, "TRANSFERRED") /\ e.obj = d.obj /\ e.lapsed = d.lapsed \ S
      BY <1>1 DEF FinalizeDelivered, Database
<1>3. \A o \in Objs : e.item[o] = IF o \in S THEN "TRANSFERRED" ELSE d.item[o]
      BY <1>1, <1>2, UpdateAt
<1>4. Safe(d, e)
      BY FinalizeSafe
<1>. HIDE DEF e, S
<1>5. Firm(d, e, {})
      BY <1>2, <1>3 DEF Firm, Held
<1>. QED BY <1>4, <1>5 DEF Sound, e

LEMMA RecoverSound ==
    ASSUME NEW d, Good(d), NEW aged
    PROVE  Sound(d, RecoverLeases(d, aged), {})
<1> DEFINE f    == FinalizeDelivered(d, aged)
           gone == {o \in d.lapsed \ (aged \cap DeliveredLeases(d)) : d.item[o] = "LEASED"}
           torn == {o \in gone : d.obj[o] = "TRANSFERRING"}
           e    == RecoverLeases(d, aged)
<1>1. /\ d \in Database /\ f \in Database /\ Sound(d, f, {})
      /\ DOMAIN f.item = Objs /\ DOMAIN d.obj = Objs
      BY FinalizeSound DEF Sound, Safe, Good, Database
<1>2. /\ e.item = Update(f.item, gone, "MULTIPART_RESUME")
      /\ e.obj = Update(d.obj, torn, "RESTORED") /\ e.lapsed = {}
      BY <1>1 DEF RecoverLeases, Database
<1>3. \A o \in Objs : /\ e.item[o] = IF o \in gone THEN "MULTIPART_RESUME" ELSE f.item[o]
                      /\ e.obj[o] = IF o \in torn THEN "RESTORED" ELSE d.obj[o]
      BY <1>1, <1>2, UpdateAt
<1>4. \A o \in gone : o \in d.lapsed
      OBVIOUS
<1>5. Safe(d, e)
      BY RecoverSafe
<1>. HIDE DEF e, f, gone, torn
<1>6. Firm(d, e, {})
      BY <1>1, <1>2, <1>3, <1>4 DEF Sound, Firm, Held, torn
<1>. QED BY <1>5, <1>6 DEF Sound, e

LEMMA ReapprovalSound ==
    ASSUME NEW d, Good(d), NEW S, S \subseteq Objs
    PROVE  Sound(d, RequireReapproval(d, S), S)
<1> DEFINE lost == {o \in S : d.item[o] # "TRANSFERRED" /\ d.obj[o] # "TRANSFERRED"}
           e    == RequireReapproval(d, S)
<1>1. d \in Database /\ DOMAIN d.item = Objs /\ DOMAIN d.obj = Objs
      BY DEF Good, Database
<1>2. /\ e.item = Update(d.item, lost, "REAPPROVAL_REQUIRED")
      /\ e.obj = Update(d.obj, lost, "RESTORING") /\ e.lapsed = d.lapsed \ lost
      BY <1>1 DEF RequireReapproval, Database
<1>3. \A o \in Objs : /\ e.item[o] = IF o \in lost THEN "REAPPROVAL_REQUIRED" ELSE d.item[o]
                      /\ e.obj[o] = IF o \in lost THEN "RESTORING" ELSE d.obj[o]
      BY <1>1, <1>2, UpdateAt
<1>4. Safe(d, e)
      BY ReapprovalSafe
<1>5. lost \subseteq S
      OBVIOUS
<1>. HIDE DEF e, lost
<1>6. Firm(d, e, S)
      BY <1>2, <1>3, <1>5 DEF Firm, Held
<1>. QED BY <1>4, <1>6 DEF Sound, e

\* Only queued items lose their copy to the clock.
LEMMA RefreshSound ==
    ASSUME NEW d, Good(d)
    PROVE  Sound(d, RefreshPriorities(d), {})
<1> DEFINE S == {o \in d.expired : d.item[o] \in Queued}
           e == RequireReapproval(d, S)
<1>1. S \subseteq Objs /\ \A o \in S : ~Held(d, o)
      BY DEF Good, Database, Held, Queued
<1>2. Sound(d, e, S) /\ e = RefreshPriorities(d)
      BY <1>1, ReapprovalSound DEF RefreshPriorities
<1>. HIDE DEF S, e
<1>3. Firm(d, e, {})
      BY <1>1, <1>2 DEF Sound, Firm
<1>. QED BY <1>2, <1>3 DEF Sound

LEMMA WavesSound ==
    ASSUME NEW d, Good(d)
    PROVE  Sound(d, ReconcileWaves(d), {})
<1> DEFINE v == [w \in Waves |-> WaveVerdict(d, w)]
           c == [d EXCEPT !.wave = v]
           e == ReconcileWaves(d)
<1>1. d \in Database /\ DOMAIN d.item = Objs /\ DOMAIN d.obj = Objs
      BY DEF Good, Database
<1>2. /\ c.item = d.item /\ c.obj = d.obj /\ c.lapsed = d.lapsed
      /\ DOMAIN c = DOMAIN d
      BY <1>1 DEF Database
<1>3. e = ReconcileAnchors(c)
      BY DEF ReconcileWaves
<1>. HIDE DEF c, v
<1>4. e.item = c.item /\ e.obj = c.obj /\ e.lapsed = c.lapsed
      BY <1>1, <1>2, <1>3 DEF ReconcileAnchors, Database
<1>5. Safe(d, e)
      BY WavesSafe
<1>. HIDE DEF e
<1>6. Firm(d, e, {})
      BY <1>2, <1>4 DEF Firm, Held
<1>. QED BY <1>5, <1>6 DEF Sound, e

LEMMA EnqueueSound ==
    ASSUME NEW d, Good(d), NEW W
    PROVE  Sound(d, EnqueueAvailable(d, W), {})
<1> DEFINE S == {o \in Objs : /\ WaveOf[o] \in W
                              /\ d.obj[o] = "RESTORED"
                              /\ d.item[o] \in {"NONE", "CANCELLED"}}
           e == EnqueueAvailable(d, W)
<1>1. d \in Database /\ DOMAIN d.item = Objs /\ DOMAIN d.obj = Objs
      BY DEF Good, Database
<1>2. e.item = Update(d.item, S, "READY") /\ e.obj = d.obj /\ e.lapsed = d.lapsed
      BY <1>1 DEF EnqueueAvailable, Database
<1>3. \A o \in Objs : e.item[o] = IF o \in S THEN "READY" ELSE d.item[o]
      BY <1>1, <1>2, UpdateAt
<1>4. Safe(d, e)
      BY EnqueueSafe
<1>5. \A o \in S : ~Held(d, o)
      BY DEF Held
<1>. HIDE DEF e, S
<1>6. Firm(d, e, {})
      BY <1>2, <1>3, <1>5 DEF Firm, Held
<1>. QED BY <1>4, <1>6 DEF Sound, e

LEMMA PrepareSound ==
    ASSUME NEW d, Good(d), NEW aged
    PROVE  Sound(d, PrepareClaim(d, aged), {})
<1>1. Sound(d, RecoverLeases(d, aged), {})
      BY RecoverSound
<1>. HIDE DEF Sound
<1>2. Good(RecoverLeases(d, aged))
      BY <1>1 DEF Sound, Safe
<1>. QED BY <1>1, <1>2, RefreshSound, SoundTransitive DEF PrepareClaim

\* A claim loses no lease, and holds what it claims.
LEMMA LeaseSound ==
    ASSUME NEW d, Good(d), NEW S
    PROVE  /\ Sound(d, Lease(d, S), {})
           /\ \A o \in S \cap Objs : Held(Lease(d, S), o)
<1> DEFINE T == {o \in S : d.obj[o] = "RESTORED"}
           e == Lease(d, S)
<1>1. d \in Database /\ DOMAIN d.item = Objs /\ DOMAIN d.obj = Objs
      BY DEF Good, Database
<1>2. /\ e.item = Update(d.item, S, "LEASED") /\ e.obj = Update(d.obj, T, "TRANSFERRING")
      /\ e.lapsed = d.lapsed \ S
      BY <1>1 DEF Lease, Database
<1>3. \A o \in Objs : /\ e.item[o] = IF o \in S THEN "LEASED" ELSE d.item[o]
                      /\ e.obj[o] = IF o \in T THEN "TRANSFERRING" ELSE d.obj[o]
      BY <1>1, <1>2, UpdateAt
<1>4. Safe(d, e)
      BY LeaseSafe
<1>. HIDE DEF e, T
<1>5. Firm(d, e, {}) /\ \A o \in S \cap Objs : Held(e, o)
      BY <1>2, <1>3 DEF Firm, Held
<1>. QED BY <1>4, <1>5 DEF Sound, e

\* Unstart keeps every lease, also those of S.
LEMMA UnstartSound ==
    ASSUME NEW d, Good(d), NEW S
    PROVE  /\ Sound(d, Unstart(d, S), S)
           /\ \A o \in Objs : Held(d, o) => Held(Unstart(d, S), o)
<1> DEFINE T == {o \in S : d.obj[o] = "TRANSFERRING"}
           e == Unstart(d, S)
<1>1. d \in Database /\ DOMAIN d.item = Objs /\ DOMAIN d.obj = Objs
      BY DEF Good, Database
<1>2. e.item = d.item /\ e.obj = Update(d.obj, T, "RESTORED") /\ e.lapsed = d.lapsed
      BY <1>1 DEF Unstart, Database
<1>3. \A o \in Objs : e.obj[o] = IF o \in T THEN "RESTORED" ELSE d.obj[o]
      BY <1>1, <1>2, UpdateAt
<1>4. Safe(d, e)
      BY UnstartSafe
<1>5. T \subseteq S
      OBVIOUS
<1>. HIDE DEF e, T
<1>6. Firm(d, e, S) /\ \A o \in Objs : Held(d, o) => Held(e, o)
      BY <1>2, <1>3, <1>5 DEF Firm, Held
<1>. QED BY <1>4, <1>6 DEF Sound, e

LEMMA ReturnSound ==
    ASSUME NEW d, Good(d), NEW S
    PROVE  Sound(d, ReturnUnstarted(d, S), S)
<1> DEFINE c == [d EXCEPT !.item = Update(d.item, S, "READY"), !.lapsed = d.lapsed \ S]
<1>1. d \in Database /\ DOMAIN d.item = Objs /\ DOMAIN d.obj = Objs
      BY DEF Good, Database
<1>2. Safe(d, c)
      BY ItemSafe DEF ItemState, Outstanding, Queued
<1>3. c.item = Update(d.item, S, "READY") /\ c.obj = d.obj /\ c.lapsed = d.lapsed \ S
      BY <1>1 DEF Database
<1>4. \A o \in Objs : c.item[o] = IF o \in S THEN "READY" ELSE d.item[o]
      BY <1>1, <1>3, UpdateAt
<1>5. ReturnUnstarted(d, S) = Unstart(c, S)
      BY DEF ReturnUnstarted
<1>. HIDE DEF c
<1>6. Sound(d, c, S)
      BY <1>2, <1>3, <1>4 DEF Sound, Firm, Held
<1>7. Sound(c, Unstart(c, S), S)
      BY <1>2, UnstartSound DEF Safe
<1>. QED BY <1>5, <1>6, <1>7, SoundTransitive

LEMMA SettleSound ==
    ASSUME NEW d, Good(d), NEW o \in Objs, NEW phase
    PROVE  Sound(d, Settle(d, o, phase), {o})
<1> DEFINE c == [d EXCEPT !.lapsed = d.lapsed \ {o}]
           g(v) == [c EXCEPT !.item = Update(c.item, {o}, v)]
<1>1. d \in Database /\ DOMAIN d.item = Objs /\ DOMAIN d.obj = Objs
      BY DEF Good, Database
<1>2. /\ c \in Database /\ DOMAIN c.item = Objs /\ c.item = d.item /\ c.obj = d.obj /\ c.wave = d.wave
      /\ c.lapsed = d.lapsed \ {o}
      BY <1>1 DEF Database
<1>3. Safe(d, Settle(d, o, phase))
      BY SettleSafe
<1>4. \/ Settle(d, o, phase) = g("TRANSFERRED")
      \/ Settle(d, o, phase) = RequireReapproval(c, {o})
      \/ Settle(d, o, phase) = Unstart(g("RETRY_WAIT"), {o})
      BY DEF Settle
<1>. HIDE DEF c
<1>5. Sound(d, c, {o})
      BY <1>2 DEF Sound, Safe, Good, Keeps, Firm, Held
<1>6. ASSUME NEW v \in {"TRANSFERRED", "RETRY_WAIT"}
      PROVE  g(v) \in Database /\ Firm(c, g(v), {o}) /\ g(v).obj = c.obj /\ g(v).wave = c.wave
             /\ g(v).item = Update(c.item, {o}, v) /\ g(v).lapsed = c.lapsed
      <2> DEFINE i == Update(c.item, {o}, v)
      <2>1. i \in [Objs -> ItemState]
            BY <1>2 DEF Update, Database, ItemState, Outstanding, Queued
      <2>2. \A p \in Objs : i[p] = IF p \in {o} THEN v ELSE c.item[p]
            BY <1>2, UpdateAt
      <2>. HIDE DEF i
      <2> DEFINE e == [c EXCEPT !.item = i]
      <2>3. e \in Database /\ e.item = i /\ e.obj = c.obj /\ e.wave = c.wave /\ e.lapsed = c.lapsed
            BY <1>2, <2>1 DEF Database
      <2>. HIDE DEF e
      <2>4. Firm(c, e, {o})
            BY <2>2, <2>3 DEF Firm, Held
      <2>. QED BY <2>3, <2>4 DEF e, i
<1>7. CASE Settle(d, o, phase) = g("TRANSFERRED")
      <2>1. Firm(d, g("TRANSFERRED"), {o})
            BY <1>5, <1>6 DEF Sound, Firm
      <2>. QED BY <1>3, <1>7, <2>1 DEF Sound
<1>8. CASE Settle(d, o, phase) = RequireReapproval(c, {o})
      <2>1. Sound(c, RequireReapproval(c, {o}), {o})
            BY <1>5, ReapprovalSound DEF Sound, Safe
      <2>. QED BY <1>5, <1>8, <2>1, SoundTransitive
<1>9. CASE Settle(d, o, phase) = Unstart(g("RETRY_WAIT"), {o})
      <2> DEFINE e == g("RETRY_WAIT")
      <2>1. /\ e \in Database /\ Firm(c, e, {o}) /\ e.obj = c.obj /\ e.wave = c.wave
            /\ e.item = Update(c.item, {o}, "RETRY_WAIT")
            BY <1>6
      <2>2. \A p \in Objs : e.item[p] = IF p \in {o} THEN "RETRY_WAIT" ELSE c.item[p]
            BY <1>2, <2>1, UpdateAt
      <2>. HIDE DEF e
      <2>3. Safe(c, e)
            BY <1>5, <2>1, <2>2 DEF Sound, Safe, Good, Keeps
      <2>4. Sound(c, e, {o}) /\ Sound(e, Unstart(e, {o}), {o})
            BY <2>1, <2>3, UnstartSound DEF Sound, Safe
      <2>5. Settle(d, o, phase) = Unstart(e, {o})
            BY <1>9 DEF e
      <2>. QED BY <1>5, <2>4, <2>5, SoundTransitive
<1>. QED BY <1>4, <1>7, <1>8, <1>9

LEMMA TaskSound ==
    ASSUME NEW d, Good(d)
    PROVE  /\ Sound(d, RetireTask(d), {})
           /\ Sound(d, RequeueTask(d), {})
           /\ \A e \in TaskAfterError(d) : Sound(d, e, {})
<1> DEFINE f == [d EXCEPT !.revoked = NoWave]
           Same(e) == e.item = d.item /\ e.obj = d.obj /\ e.lapsed = d.lapsed
<1>1. d \in Database /\ DOMAIN d.item = Objs /\ DOMAIN d.obj = Objs
      BY DEF Good, Database
<1>2. Same(RetireTask(d)) /\ Same(RequeueTask(d)) /\ Same(FailTask(d)) /\ Same(f)
      BY <1>1 DEF RetireTask, RequeueTask, FailTask, Database
<1>3. Safe(d, RetireTask(d)) /\ Safe(d, RequeueTask(d)) /\ Safe(d, FailTask(d))
      BY RetireSafe, RequeueSafe, FailSafe
<1>4. \A e \in TaskAfterError(d) : Safe(d, e) /\ e \in {RequeueTask(d), FailTask(d), f}
      BY AfterErrorSafe DEF TaskAfterError
<1>5. ASSUME NEW e, Same(e)
      PROVE  Firm(d, e, {})
      BY <1>5 DEF Firm, Held
<1>. HIDE DEF f, Same
<1>. QED BY <1>2, <1>3, <1>4, <1>5 DEF Sound

\* A pause cancels queued items, never what a stream holds.
LEMMA PauseSound ==
    ASSUME NEW d, Good(d), NEW W, W \subseteq Waves, NEW held \in Waves \cup {NoWave}
    PROVE  Sound(d, PauseWaves(d, W, held), {})
<1> DEFINE cut == {o \in Objs : WaveOf[o] \in W /\ d.item[o] \in Queued}
           e   == PauseWaves(d, W, held)
<1>1. d \in Database /\ DOMAIN d.item = Objs /\ DOMAIN d.obj = Objs
      BY DEF Good, Database
<1>2. e.item = Update(d.item, cut, "CANCELLED") /\ e.obj = d.obj /\ e.lapsed = d.lapsed
      BY <1>1 DEF PauseWaves, Database
<1>3. \A o \in Objs : e.item[o] = IF o \in cut THEN "CANCELLED" ELSE d.item[o]
      BY <1>1, <1>2, UpdateAt
<1>4. Safe(d, e)
      BY PauseSafe
<1>5. \A o \in cut : ~Held(d, o)
      BY DEF Held, Queued
<1>. HIDE DEF e, cut
<1>6. Firm(d, e, {})
      BY <1>2, <1>3, <1>5 DEF Firm, Held
<1>. QED BY <1>4, <1>6 DEF Sound, e

LEMMA ResumeSound ==
    ASSUME NEW d, Good(d), NEW W, W \subseteq Waves
    PROVE  Sound(d, ResumeWaves(d, W), {})
<1> DEFINE back == {o \in Objs : /\ WaveOf[o] \in W
                                 /\ d.item[o] = "CANCELLED"
                                 /\ d.obj[o] = "RESTORED"}
           e    == ResumeWaves(d, W)
<1>1. d \in Database /\ DOMAIN d.item = Objs /\ DOMAIN d.obj = Objs
      BY DEF Good, Database
<1>2. e.item = Update(d.item, back, "READY") /\ e.obj = d.obj /\ e.lapsed = d.lapsed
      BY <1>1 DEF ResumeWaves, Database
<1>3. \A o \in Objs : e.item[o] = IF o \in back THEN "READY" ELSE d.item[o]
      BY <1>1, <1>2, UpdateAt
<1>4. Safe(d, e)
      BY ResumeSafe
<1>5. \A o \in back : ~Held(d, o)
      BY DEF Held
<1>. HIDE DEF e, back
<1>6. Firm(d, e, {})
      BY <1>2, <1>3, <1>5 DEF Firm, Held
<1>. QED BY <1>4, <1>6 DEF Sound, e

LEMMA EnsureSound ==
    ASSUME NEW d, Good(d), NEW aged, EnsureTransferTask(d, aged)
    PROVE  Sound(d, db', {})
<1> DEFINE r == RecoverLeases(d, aged)
           f == RefreshPriorities(r)
<1>1. Sound(d, r, {}) /\ Good(r)
      BY RecoverSound DEF Sound, Safe
<1>2. Sound(r, f, {}) /\ Good(f)
      BY <1>1, RefreshSound DEF Sound, Safe
<1>3. \/ db' = r
      \/ db' = f
      \/ \E w \in WavesOf(Eligible(f)) : db' = [f EXCEPT !.ready = f.ready \cup {w}]
      BY DEF EnsureTransferTask
<1>. HIDE DEF r, f
<1>4. ASSUME NEW w \in WavesOf(Eligible(f)), db' = [f EXCEPT !.ready = f.ready \cup {w}]
      PROVE  Sound(f, db', {})
      <2>1. f \in Database /\ w \in Waves
            BY <1>2, WaveOfAssumption DEF Good, WavesOf, Eligible
      <2>2. /\ db' \in Database /\ db'.item = f.item /\ db'.obj = f.obj /\ db'.wave = f.wave
            /\ db'.lapsed = f.lapsed
            BY <1>4, <2>1 DEF Database
      <2>. QED BY <1>2, <2>2, AsideSound
<1>. QED BY <1>1, <1>2, <1>3, <1>4, SoundTransitive

LEMMA RestoredLaneSound ==
    ASSUME NEW d, Good(d), NEW aged, ReconcileRestoredLane(d, aged)
    PROVE  Sound(d, db', {})
<1> DEFINE W     == {w \in Waves : d.wave[w] \in LaneStatus}
           whole == {w \in W : \A o \in ObjsOf(w) : d.obj[o] # "RESTORING"}
           e     == EnqueueAvailable(d, (W \cap d.eager) \cup whole)
<1>1. db' = d \/ EnsureTransferTask(e, aged)
      BY DEF ReconcileRestoredLane
<1>2. Sound(d, e, {}) /\ Good(e)
      BY EnqueueSound DEF Sound, Safe
<1>. HIDE DEF e
<1>. QED BY <1>1, <1>2, EnsureSound, SoundReflexive, SoundTransitive

LEMMA ControlSound ==
    ASSUME Good(db), Control
    PROVE  Sound(db, db', {})
<1>. USE DEF Sound
<1>1. CASE WatchdogRecover
      <2>1. PICK aged \in Aged : \/ db' = RecoverLeases(db, aged)
                                 \/ EnsureTransferTask(RecoverLeases(db, aged), aged)
            BY <1>1 DEF WatchdogRecover
      <2>. HIDE DEF Sound
      <2>2. Sound(db, RecoverLeases(db, aged), {}) /\ Good(RecoverLeases(db, aged))
            BY RecoverSound DEF Sound, Safe
      <2>. QED BY <2>1, <2>2, EnsureSound, SoundTransitive
<1>2. CASE Govern
      <2>1. PICK aged \in Aged : \/ ReconcileRestoredLane(db, aged)
                                 \/ ReconcileRestoredLane(ReconcileWaves(db), aged)
            BY <1>2 DEF Govern
      <2>. HIDE DEF Sound
      <2>2. Sound(db, ReconcileWaves(db), {}) /\ Good(ReconcileWaves(db))
            BY WavesSound DEF Sound, Safe
      <2>. QED BY <2>1, <2>2, RestoredLaneSound, SoundTransitive
<1>3. ASSUME NEW w \in Waves, PollSuperseded(w)
      PROVE  Sound(db, db', {})
      <2>1. /\ db' \in Database /\ db'.item = db.item
            /\ db'.obj = db.obj /\ db'.wave = db.wave /\ db'.lapsed = db.lapsed
            BY <1>3 DEF PollSuperseded, Good, Database
      <2>. QED BY <2>1, AsideSound
<1>4. ASSUME NEW w \in Waves, PollRestore(w)
      PROVE  Firm(db, db', {})
      <2> DEFINE pending == {o \in ObjsOf(w) : db.obj[o] = "RESTORING"}
                 after(seen, status) == [db EXCEPT !.obj = Update(db.obj, seen, "RESTORED"),
                                                   !.wave[w] = status]
      <2>1. ASSUME NEW seen, seen \subseteq pending, NEW status \in {"RESTORED", "RESTORING"}
            PROVE  Sound(db, after(seen, status), {})
            <3> DEFINE b == Update(db.obj, seen, "RESTORED")
                       v == [db.wave EXCEPT ![w] = status]
                       e == [db EXCEPT !.obj = b, !.wave = v]
            <3>1. db \in Database
                  BY DEF Good
            <3>2. /\ b \in [Objs -> ObjectState]
                  /\ \A o \in Objs : b[o] = db.obj[o] \/ (db.obj[o] = "RESTORING" /\ b[o] = "RESTORED")
                  BY <2>1, <3>1 DEF Update, Database, ObjectState
            <3>3. /\ v \in [Waves -> WaveStatus]
                  /\ \A x \in Waves : v[x] = "COMPLETED" => db.wave[x] = "COMPLETED"
                  BY <2>1, <3>1 DEF Database, WaveStatus
            <3>4. after(seen, status) = e
                  BY <3>1 DEF Database
            <3>. HIDE DEF b, v, after
            <3>5. /\ e \in Database /\ e.item = db.item /\ e.obj = b /\ e.wave = v
                  /\ e.lapsed = db.lapsed
                  BY <3>1, <3>2, <3>3 DEF Database
            <3>. HIDE DEF e, Sound
            <3>6. Keeps(db, e) /\ Firm(db, e, {})
                  BY <3>2, <3>5 DEF Keeps, Firm, Held
            <3>7. Safe(db, e)
                  BY <3>3, <3>5, <3>6, FrameSafe
            <3>. QED BY <3>4, <3>6, <3>7 DEF Sound
      <2>2. PICK seen \in SUBSET pending, aged \in Aged :
               IF seen = pending
               THEN EnsureTransferTask([EnqueueAvailable(after(seen, "RESTORED"), {w})
                                           EXCEPT !.sei[w] = "NONE"], aged)
               ELSE \E part \in {after(seen, "RESTORING")} :
                       \E queue \in {EnqueueAvailable(part, {w})} :
                          IF w \in db.eager /\ queue # part
                          THEN EnsureTransferTask(queue, aged)
                          ELSE db' = part
            BY <1>4 DEF PollRestore
      <2>. HIDE DEF pending, after, Sound
      <2>3. ASSUME NEW status \in {"RESTORED", "RESTORING"}
            PROVE  LET p == after(seen, status)
                       q == EnqueueAvailable(p, {w})
                   IN  Sound(db, p, {}) /\ Sound(db, q, {}) /\ Good(q)
            <3> DEFINE p == after(seen, status)
                       q == EnqueueAvailable(p, {w})
            <3>1. Sound(db, p, {}) /\ Good(p)
                  BY <2>1 DEF Sound, Safe
            <3>. HIDE DEF p
            <3>2. Sound(p, q, {}) /\ Good(q)
                  BY <3>1, EnqueueSound DEF Sound, Safe
            <3>. QED BY <3>1, <3>2, SoundTransitive DEF p
      <2>4. CASE seen = pending
            <3> DEFINE q == EnqueueAvailable(after(seen, "RESTORED"), {w})
                       e == [q EXCEPT !.sei[w] = "NONE"]
            <3>1. Sound(db, q, {}) /\ Good(q)
                  BY <2>3
            <3>2. EnsureTransferTask(e, aged)
                  BY <2>2, <2>4
            <3>. HIDE DEF q
            <3>3. /\ e \in Database /\ e.item = q.item /\ e.obj = q.obj
                  /\ e.wave = q.wave /\ e.lapsed = q.lapsed
                  BY <3>1 DEF Good, Database
            <3>. HIDE DEF e
            <3>4. Sound(q, e, {}) /\ Good(e)
                  BY <3>1, <3>3, AsideSound DEF Sound, Safe
            <3>5. Sound(db, db', {})
                  BY <3>1, <3>2, <3>4, EnsureSound, SoundTransitive
            <3>. QED BY <3>5 DEF Sound
      <2>5. CASE seen # pending
            <3> DEFINE p == after(seen, "RESTORING")
                       q == EnqueueAvailable(p, {w})
            <3>1. Sound(db, p, {}) /\ Sound(db, q, {}) /\ Good(q)
                  BY <2>3
            <3>2. EnsureTransferTask(q, aged) \/ db' = p
                  BY <2>2, <2>5
            <3>. HIDE DEF p, q
            <3>3. Sound(db, db', {})
                  BY <3>1, <3>2, EnsureSound, SoundTransitive
            <3>. QED BY <3>3 DEF Sound
      <2>. QED BY <2>4, <2>5
<1>5. ASSUME NEW w \in Waves, SubmitRestore(w)
      PROVE  Sound(db, db', {})
      <2> DEFINE v == [db.wave EXCEPT ![w] = "RESTORED"]
                 k == [db.sei EXCEPT ![w] = "NONE"]
                 e == [db EXCEPT !.wave = v, !.sei = k]
                 q == EnqueueAvailable(e, {w})
      <2>1. PICK aged \in Aged :
               EnsureTransferTask(EnqueueAvailable(
                   [db EXCEPT !.wave[w] = "RESTORED", !.sei[w] = "NONE"], {w}), aged)
            BY <1>5 DEF SubmitRestore
      <2>2. db \in Database
            BY DEF Good
      <2>3. [db EXCEPT !.wave[w] = "RESTORED", !.sei[w] = "NONE"] = e
            BY <2>2 DEF Database
      <2>4. /\ v \in [Waves -> WaveStatus] /\ k \in [Waves -> {"NONE", "SUBMIT", "POLL"}]
            /\ \A x \in Waves : v[x] = "COMPLETED" => db.wave[x] = "COMPLETED"
            BY <2>2 DEF Database, WaveStatus
      <2>. HIDE DEF v, k, Sound
      <2>5. e \in Database /\ e.item = db.item /\ e.obj = db.obj /\ e.wave = v /\ e.lapsed = db.lapsed
            BY <2>2, <2>4 DEF Database
      <2>. HIDE DEF e
      <2>6. Keeps(db, e) /\ Firm(db, e, {})
            BY <2>5 DEF Keeps, Firm, Held
      <2>7. Sound(db, e, {}) /\ Good(e)
            BY <2>4, <2>5, <2>6, FrameSafe DEF Sound, Safe
      <2>8. Sound(e, q, {}) /\ Good(q)
            BY <2>7, EnqueueSound DEF Sound, Safe
      <2>9. EnsureTransferTask(q, aged)
            BY <2>1, <2>3
      <2>. HIDE DEF q
      <2>. QED BY <2>7, <2>8, <2>9, EnsureSound, SoundTransitive
<1>6. Safe(db, db')
      BY ControlSafe
<1>. QED BY <1>1, <1>2, <1>3, <1>4, <1>5, <1>6 DEF Control

LEMMA OperatorSound ==
    ASSUME Good(db), Operator
    PROVE  Sound(db, db', {})
<1>1. CASE PauseProject
      <2>1. /\ db' \in Database /\ db'.item = db.item
            /\ db'.obj = db.obj /\ db'.wave = db.wave /\ db'.lapsed = db.lapsed
            BY <1>1 DEF PauseProject, Good, Database
      <2>. QED BY <2>1, AsideSound
<1>2. CASE ResumeProject
      <2> DEFINE W == {w \in Waves : db.wave[w] = "PAUSED"}
                 r == ResumeWaves(db, W)
      <2>1. Sound(db, r, {}) /\ Good(r) /\ db' = [r EXCEPT !.paused = FALSE]
            BY <1>2, ResumeSound DEF ResumeProject, Sound, Safe
      <2>. HIDE DEF r
      <2>2. /\ db' \in Database /\ db'.item = r.item /\ db'.obj = r.obj
            /\ db'.wave = r.wave /\ db'.lapsed = r.lapsed
            BY <2>1 DEF Good, Database
      <2>. QED BY <2>1, <2>2, AsideSound, SoundTransitive
<1>3. ASSUME NEW w \in Waves, PauseWave(w)
      PROVE  Sound(db, db', {})
      <2> DEFINE held == IF pc = "idle" THEN NoWave ELSE db.running
      <2>1. held \in Waves \cup {NoWave} /\ db' = PauseWaves(db, {w}, held)
            BY <1>3 DEF PauseWave, Good, Database
      <2>. HIDE DEF held
      <2>. QED BY <2>1, PauseSound
<1>4. ASSUME NEW w \in Waves, ResumeWave(w)
      PROVE  Sound(db, db', {})
      BY <1>4, ResumeSound DEF ResumeWave
<1>. QED BY <1>1, <1>2, <1>3, <1>4 DEF Operator

-----------------------------------------------------------------------------
(* The fence *)

Looping == pc \in {"loop", "collected"}

Fence ==
    /\ ~Looping => handoff = NoHandoff
    /\ pc \in {"idle", "claimed", "ending"} => Busy = {}
    /\ \A s, t \in Busy : stream[s].obj = stream[t].obj => s = t
    /\ \A s \in Slots : stream[s].phase = "copying" => db.obj[stream[s].obj] # "TRANSFERRED"
    /\ \A s \in Slots : stream[s].phase = "reserved" => pc = "collected" /\ handoff = NoHandoff
    /\ Looping => \A s \in Busy : Held(db, stream[s].obj)
    /\ Looping => \A s \in Slots : stream[s].phase = "copying" =>
                                      db.obj[stream[s].obj] = "TRANSFERRING"
    /\ handoff # NoHandoff => /\ Held(db, handoff.successor)
                              /\ \A s \in Busy : stream[s].obj # handoff.successor
                              /\ \E s \in Busy : stream[s].obj = handoff.target

\* A step of the queue's bookkeeping: it starts and ends no copy.
Quiet == Copying' = Copying /\ Delivered' \subseteq Delivered

LEMMA StreamFacts ==
    ASSUME TypeOK
    PROVE  /\ \A s \in Slots : stream[s].phase # "free" => stream[s].obj \in Objs
           /\ \A s \in Slots : stream[s].phase = "free" => stream[s] = Free
           /\ handoff # NoHandoff => handoff.target \in Objs /\ handoff.successor \in Objs
           /\ DOMAIN stream = Slots
           /\ \A ph : \A s \in Slots : [stream[s] EXCEPT !.phase = ph] = [obj |-> stream[s].obj, phase |-> ph]
<1>1. /\ \A s \in Slots : stream[s] \in [obj : Objs, phase : Phase \ {"free"}] \/ stream[s] = Free
      /\ handoff \in [target : Objs, successor : Objs] \/ handoff = NoHandoff
      /\ DOMAIN stream = Slots
      BY DEF TypeOK, Stream, Handoff
<1>. QED BY <1>1 DEF Free

LEMMA FirmQuiet ==
    ASSUME NEW S, Firm(db, db', S),
           \A s \in Slots : stream[s].phase = "copying" \/ stream'[s].phase = "copying" =>
                               stream'[s] = stream[s]
    PROVE  Quiet
<1>1. \A s \in Slots : /\ stream[s].phase = "copying" <=> stream'[s].phase = "copying"
                       /\ stream[s].phase = "copying" => stream'[s].obj = stream[s].obj
      OBVIOUS
<1>2. Copying' = Copying
      BY <1>1 DEF Copying
<1>. QED BY <1>2 DEF Firm, Quiet, Delivered

\* Nothing the process holds changes, and no lease is lost.
LEMMA FenceCalm ==
    ASSUME TypeOK, Fence, Firm(db, db', {}), UNCHANGED <<pc, stream, handoff>>
    PROVE  Fence' /\ Quiet
<1>1. Quiet
      BY FirmQuiet
<1>2. \A s \in Busy : stream[s].obj \in Objs
      BY StreamFacts DEF Busy
<1>3. handoff # NoHandoff => handoff.successor \in Objs
      BY StreamFacts
<1>4. \A o \in Objs : /\ Held(db, o) => Held(db', o)
                      /\ Held(db, o) /\ db.obj[o] = "TRANSFERRING" => db'.obj[o] = "TRANSFERRING"
                      /\ db'.obj[o] = "TRANSFERRED" => db.obj[o] = "TRANSFERRED"
      BY DEF Firm
<1>5. \A s \in Slots : stream[s].phase = "copying" => s \in Busy
      BY DEF Busy
<1>. HIDE DEF Held
<1>6. Busy' = Busy /\ Looping' = Looping
      BY DEF Busy, Looping
<1>7. Fence'
      BY <1>2, <1>3, <1>4, <1>5, <1>6 DEF Fence
<1>. QED BY <1>1, <1>7

\* No stream, and no handoff.
LEMMA FenceEmpty ==
    ASSUME Busy' = {}, handoff' = NoHandoff
    PROVE  Fence'
<1>1. \A s \in Slots : stream'[s].phase = "free"
      BY DEF Busy
<1>. QED BY <1>1 DEF Fence

LEMMA FreeIsEmpty ==
    ASSUME stream' = [s \in Slots |-> Free]
    PROVE  Busy' = {}
    BY DEF Busy, Free

-----------------------------------------------------------------------------
(* The streams *)

\* A stream changes its own phase, and at most the object it holds.
LEMMA PhaseFence ==
    ASSUME TypeOK, Fence, NEW s \in Slots, NEW ph \in Phase \ {"free", "reserved"},
           stream[s].phase \notin {"free", "reserved"},
           stream' = [stream EXCEPT ![s].phase = ph],
           pc' = pc, handoff' = handoff,
           db'.item = db.item, db'.lapsed = db.lapsed,
           \A o \in Objs : o # stream[s].obj => db'.obj[o] = db.obj[o],
           ph = "copying" => db'.obj[stream[s].obj] = "TRANSFERRING"
    PROVE  Fence'
<1> DEFINE o == stream[s].obj
<1>1. /\ \A t \in Slots : t # s => stream'[t] = stream[t]
      /\ stream'[s].obj = o /\ stream'[s].phase = ph
      BY StreamFacts
<1>2. Busy' = Busy /\ \A t \in Busy : stream'[t].obj = stream[t].obj
      BY <1>1 DEF Busy
<1>3. s \in Busy /\ \A t \in Slots : stream[t].phase = "copying" => t \in Busy
      BY DEF Busy
<1>4. /\ \A t \in Busy : stream[t].obj \in Objs
      /\ \A p \in Objs : Held(db', p) <=> Held(db, p)
      /\ handoff # NoHandoff => handoff.successor \in Objs
      BY StreamFacts DEF Busy, Held
<1>5. \A t \in Slots : stream[t].phase = "copying" /\ t # s => db'.obj[stream[t].obj] = db.obj[stream[t].obj]
      BY <1>3, <1>4 DEF Fence
<1>6. Looping' = Looping
      BY DEF Looping
<1>. HIDE DEF Held, o
<1>7. pc' \in {"idle", "claimed", "ending"} => Busy' = {}
      BY <1>2 DEF Fence
<1>8. \A t, u \in Busy' : stream'[t].obj = stream'[u].obj => t = u
      BY <1>2 DEF Fence
<1>9. \A t \in Slots : stream'[t].phase = "copying" => db'.obj[stream'[t].obj] # "TRANSFERRED"
      BY <1>1, <1>5 DEF Fence, o
<1>10. \A t \in Slots : stream'[t].phase = "reserved" => pc' = "collected" /\ handoff' = NoHandoff
      BY <1>1 DEF Fence
<1>11. Looping' => \A t \in Busy' : Held(db', stream'[t].obj)
      BY <1>2, <1>4, <1>6 DEF Fence
<1>12. Looping' => \A t \in Slots : stream'[t].phase = "copying" => db'.obj[stream'[t].obj] = "TRANSFERRING"
      BY <1>1, <1>5, <1>6 DEF Fence, o
<1>13. handoff' # NoHandoff =>
          /\ Held(db', handoff'.successor)
          /\ \A t \in Busy' : stream'[t].obj # handoff'.successor
          /\ \E t \in Busy' : stream'[t].obj = handoff'.target
      BY <1>2, <1>4 DEF Fence
<1>. QED BY <1>6, <1>7, <1>8, <1>9, <1>10, <1>11, <1>12, <1>13 DEF Fence

LEMMA StreamFence ==
    ASSUME TypeOK, Fence, NEW s \in Slots,
           StreamStart(s) \/ StreamDelivers(s) \/ StreamFails(s) \/ StreamUnavailable(s)
    PROVE  Fence'
<1>1. ASSUME NEW o \in Objs, NEW v, db' = [db EXCEPT !.obj = Update(db.obj, {o}, v)]
      PROVE  /\ db'.item = db.item /\ db'.lapsed = db.lapsed /\ db'.obj[o] = v
             /\ \A p \in Objs : p # o => db'.obj[p] = db.obj[p]
      <2>1. DOMAIN db.obj = Objs /\ "obj" \in DOMAIN db
            BY DEF TypeOK, Database
      <2>2. db'.item = db.item /\ db'.lapsed = db.lapsed /\ db'.obj = Update(db.obj, {o}, v)
            BY <1>1, <2>1
      <2>. QED BY <2>1, <2>2, UpdateAt
<1>2. stream[s].phase # "free" => stream[s].obj \in Objs
      BY StreamFacts
<1>3. CASE StreamStart(s)
      <2>1. \/ /\ db' = db
               /\ \E ph \in {"failed", "returned"} : stream' = [stream EXCEPT ![s].phase = ph]
            \/ /\ stream' = [stream EXCEPT ![s].phase = "copying"]
               /\ db' = [db EXCEPT !.obj = Update(db.obj, {stream[s].obj}, "TRANSFERRING")]
            BY <1>3 DEF StreamStart
      <2>2. stream[s].phase = "submitted" /\ UNCHANGED <<pc, handoff>>
            BY <1>3 DEF StreamStart
      <2>3. ASSUME NEW ph \in {"failed", "returned"}, stream' = [stream EXCEPT ![s].phase = ph], db' = db
            PROVE  Fence'
            BY <2>2, <2>3, PhaseFence DEF Phase
      <2>4. ASSUME stream' = [stream EXCEPT ![s].phase = "copying"],
                   db' = [db EXCEPT !.obj = Update(db.obj, {stream[s].obj}, "TRANSFERRING")]
            PROVE  Fence'
            BY <1>1, <1>2, <2>2, <2>4, PhaseFence DEF Phase
      <2>. QED BY <2>1, <2>3, <2>4
<1>4. CASE StreamDelivers(s)
      <2>1. /\ stream[s].phase = "copying" /\ UNCHANGED <<pc, handoff>>
            /\ stream' = [stream EXCEPT ![s].phase = "returned"]
            /\ db' = [db EXCEPT !.obj = Update(db.obj, {stream[s].obj}, "TRANSFERRED")]
            BY <1>4 DEF StreamDelivers
      <2>. QED BY <1>1, <1>2, <2>1, PhaseFence DEF Phase
<1>5. CASE StreamFails(s) \/ StreamUnavailable(s)
      <2>1. /\ stream[s].phase = "copying" /\ UNCHANGED <<db, pc, handoff>>
            /\ \E ph \in {"failed", "unavailable"} : stream' = [stream EXCEPT ![s].phase = ph]
            BY <1>5 DEF StreamFails, StreamUnavailable
      <2>. QED BY <2>1, PhaseFence DEF Phase
<1>. QED BY <1>3, <1>4, <1>5

-----------------------------------------------------------------------------
(* The loop *)

\* A queued object is nobody's: claiming it takes no lease from a stream.
LEMMA ClaimSound ==
    ASSUME Good(db), NEW aged, NEW o \in Eligible(PrepareClaim(db, aged))
    PROVE  LET c == PrepareClaim(db, aged)
               l == Lease(c, {o})
           IN  /\ o \in Objs /\ ~Held(db, o)
               /\ Firm(db, l, {}) /\ Held(l, o)
               /\ Firm(db, Unstart(l, {o}), {}) /\ Held(Unstart(l, {o}), o)
               /\ Firm(db, ReturnUnstarted(l, {o}), {})
<1> DEFINE c == PrepareClaim(db, aged)
           l == Lease(c, {o})
<1>1. Sound(db, c, {}) /\ Good(c)
      BY PrepareSound DEF Sound, Safe
<1>2. o \in Objs /\ ~Held(c, o)
      BY DEF Eligible, Queued, Held
<1>. HIDE DEF c
<1>3. ~Held(db, o)
      BY <1>1, <1>2 DEF Sound, Firm
<1>4. Sound(c, l, {}) /\ Good(l) /\ Held(l, o)
      BY <1>1, <1>2, LeaseSound DEF Sound, Safe
<1>. HIDE DEF l
<1>5. Sound(db, l, {})
      BY <1>1, <1>4, SoundTransitive
<1>6. Sound(l, Unstart(l, {o}), {o}) /\ Held(Unstart(l, {o}), o)
      BY <1>2, <1>4, UnstartSound
<1>7. Sound(l, ReturnUnstarted(l, {o}), {o})
      BY <1>4, ReturnSound
<1>8. ASSUME NEW e, Sound(l, e, {o})
      PROVE  Firm(db, e, {})
      <2>1. Sound(db, e, {o})
            BY <1>5, <1>8, SoundWiden, SoundTransitive
      <2>. QED BY <1>3, <2>1 DEF Sound, Firm
<1>9. Firm(db, l, {})
      BY <1>5 DEF Sound
<1>10. Firm(db, Unstart(l, {o}), {}) /\ Firm(db, ReturnUnstarted(l, {o}), {})
      BY <1>6, <1>7, <1>8
<1>. QED BY <1>2, <1>3, <1>4, <1>6, <1>9, <1>10 DEF l, c

LEMMA ReplacementFence ==
    ASSUME Good(db), TypeOK, Fence, NEW s \in Slots, ClaimReplacement(s)
    PROVE  Fence' /\ Quiet
<1>1. PICK aged \in Aged, o \in Objs :
         /\ o \in Eligible(PrepareClaim(db, aged))
         /\ db' = Lease(PrepareClaim(db, aged), {o})
         /\ stream' = [stream EXCEPT ![s] = [obj |-> o, phase |-> "submitted"]]
      BY DEF ClaimReplacement, Eligible
<1>2. o \in Objs /\ ~Held(db, o) /\ Firm(db, db', {}) /\ Held(db', o)
      BY <1>1, ClaimSound
<1>3. /\ pc = "loop" /\ s \notin Busy /\ stream[s].phase = "free"
      /\ UNCHANGED <<pc, handoff>> /\ Looping /\ Looping'
      BY DEF ClaimReplacement, FreeSlots, Busy, Looping
<1>4. /\ \A t \in Slots : t # s => stream'[t] = stream[t]
      /\ stream'[s].obj = o /\ stream'[s].phase = "submitted"
      BY <1>1, StreamFacts
<1>5. Busy' = Busy \cup {s}
      BY <1>3, <1>4 DEF Busy
<1>6. Quiet
      BY <1>2, <1>3, <1>4, FirmQuiet
<1>7. /\ \A t \in Busy : t \in Slots /\ stream[t].obj \in Objs /\ Held(db, stream[t].obj)
      /\ handoff # NoHandoff => handoff.successor \in Objs
      BY <1>3, StreamFacts DEF Fence, Busy
<1>8. \A t \in Slots : stream[t].phase = "copying" => t \in Busy
      BY DEF Busy
<1>. HIDE DEF Held
<1>9. \A p \in Objs : Held(db, p) => Held(db', p)
      BY <1>2 DEF Firm
<1>10. \A p \in Objs : Held(db, p) /\ db.obj[p] = "TRANSFERRING" => db'.obj[p] = "TRANSFERRING"
      BY <1>2 DEF Firm
<1>11. \A t, u \in Busy' : stream'[t].obj = stream'[u].obj => t = u
      BY <1>2, <1>3, <1>4, <1>5, <1>7 DEF Fence
<1>12. \A t \in Slots : stream'[t].phase = "copying" => db'.obj[stream'[t].obj] = "TRANSFERRING"
      BY <1>3, <1>4, <1>7, <1>8, <1>10 DEF Fence
<1>13. \A t \in Busy' : Held(db', stream'[t].obj)
      BY <1>2, <1>3, <1>4, <1>5, <1>7, <1>9
<1>14. \A t \in Slots : stream'[t].phase # "reserved"
      BY <1>3, <1>4 DEF Fence
<1>15. handoff' # NoHandoff =>
          /\ Held(db', handoff'.successor)
          /\ \A t \in Busy' : stream'[t].obj # handoff'.successor
          /\ \E t \in Busy' : stream'[t].obj = handoff'.target
      BY <1>2, <1>3, <1>4, <1>5, <1>7, <1>9 DEF Fence
<1>. QED BY <1>3, <1>6, <1>11, <1>12, <1>13, <1>14, <1>15 DEF Fence

LEMMA HandoffFence ==
    ASSUME Good(db), TypeOK, Fence, ReserveHandoff
    PROVE  Fence' /\ Quiet
<1>1. PICK aged \in Aged, o \in Objs :
         /\ o \in Eligible(PrepareClaim(db, aged))
         /\ \/ \E s \in Busy :
                 /\ db' = Unstart(Lease(PrepareClaim(db, aged), {o}), {o})
                 /\ handoff' = [target |-> stream[s].obj, successor |-> o]
            \/ /\ db' = ReturnUnstarted(Lease(PrepareClaim(db, aged), {o}), {o})
               /\ UNCHANGED handoff
      BY DEF ReserveHandoff, HandoffTargets, Eligible
<1>2. /\ o \in Objs /\ ~Held(db, o) /\ Firm(db, db', {})
      /\ handoff' = handoff \/ Held(db', o)
      BY <1>1, ClaimSound
<1>3. pc = "loop" /\ Looping /\ Looping' /\ handoff = NoHandoff /\ UNCHANGED <<pc, stream>>
      BY DEF ReserveHandoff, Looping
<1>4. CASE handoff' = handoff
      BY <1>2, <1>3, <1>4, FenceCalm
<1>5. CASE handoff' # handoff
      <2>1. PICK s \in Busy : handoff' = [target |-> stream[s].obj, successor |-> o]
            BY <1>1, <1>5
      <2>2. Held(db', o) /\ Quiet
            BY <1>2, <1>3, <1>5, FirmQuiet
      <2>3. \A t \in Busy : t \in Slots /\ stream[t].obj \in Objs /\ Held(db, stream[t].obj)
            BY <1>3, StreamFacts DEF Fence, Busy
      <2>4. \A t \in Slots : stream[t].phase = "copying" => t \in Busy
            BY DEF Busy
      <2>. HIDE DEF Held
      <2>5. \A p \in Objs : Held(db, p) => Held(db', p)
            BY <1>2 DEF Firm
      <2>6. \A p \in Objs : Held(db, p) /\ db.obj[p] = "TRANSFERRING" => db'.obj[p] = "TRANSFERRING"
            BY <1>2 DEF Firm
      <2>7. Busy' = Busy
            BY <1>3 DEF Busy
      <2>8. \A t \in Busy' : Held(db', stream'[t].obj)
            BY <1>3, <2>3, <2>5, <2>7
      <2>9. \A t \in Slots : stream'[t].phase = "copying" => db'.obj[stream'[t].obj] = "TRANSFERRING"
            BY <1>3, <2>3, <2>4, <2>6 DEF Fence
      <2>10. \A t \in Slots : stream'[t].phase # "reserved"
            BY <1>3 DEF Fence
      <2>11. /\ handoff'.successor = o
             /\ \A t \in Busy : stream[t].obj # o
             /\ \E t \in Busy : stream[t].obj = handoff'.target
            BY <1>2, <2>1, <2>3
      <2>12. \A t, u \in Busy' : stream'[t].obj = stream'[u].obj => t = u
            BY <1>3, <2>7 DEF Fence
      <2>. QED BY <1>3, <2>2, <2>7, <2>8, <2>9, <2>10, <2>11, <2>12 DEF Fence
<1>. QED BY <1>4, <1>5

\* Settling the stream in slot s releases its object, which no other stream
\* and no successor is; the successor of a handoff takes the slot.
LEMMA CollectFence ==
    ASSUME Good(db), TypeOK, Fence, NEW s \in Slots, CollectDone(s)
    PROVE  Fence' /\ Quiet
<1> DEFINE o == stream[s].obj
           c == Settle(db, o, stream[s].phase)
           next == handoff.successor
           handed == handoff.target = o
<1>1. /\ pc = "loop" /\ pc' = "collected" /\ Looping /\ Looping'
      /\ stream[s].phase \in {"returned", "failed", "unavailable"}
      /\ db' = ReconcileWaves(RefreshPriorities(c))
      BY DEF CollectDone, Finished, Looping
<1>2. s \in Busy /\ o \in Objs
      BY <1>1, StreamFacts DEF Busy
<1>3. Firm(db, db', {o})
      <2>1. Sound(db, c, {o}) /\ Good(c)
            BY <1>2, SettleSound DEF Sound, Safe
      <2>. HIDE DEF c, o
      <2>2. Sound(c, RefreshPriorities(c), {o}) /\ Good(RefreshPriorities(c))
            BY <2>1, RefreshSound, SoundWiden DEF Sound, Safe
      <2>3. Sound(RefreshPriorities(c), db', {o})
            BY <1>1, <2>2, WavesSound, SoundWiden
      <2>4. Sound(db, db', {o})
            BY <2>1, <2>2, <2>3, SoundTransitive
      <2>. QED BY <2>4 DEF Sound
<1>4. handed => /\ handoff # NoHandoff /\ handoff' = NoHandoff
                /\ stream' = [stream EXCEPT ![s] = [obj |-> next, phase |-> "reserved"]]
      BY <1>2, NullAssumption DEF CollectDone, NoHandoff
<1>5. ~handed => handoff' = handoff /\ stream' = [stream EXCEPT ![s] = Free]
      BY DEF CollectDone
<1>6. /\ \A t \in Slots : t # s => stream'[t] = stream[t]
      /\ handed => stream'[s].obj = next /\ stream'[s].phase = "reserved"
      /\ ~handed => stream'[s].phase = "free"
      BY <1>4, <1>5, StreamFacts DEF Free
<1>7. /\ \A t \in Busy : t \in Slots /\ stream[t].obj \in Objs
      /\ \A t \in Slots : stream[t].phase = "copying" => t \in Busy
      /\ handoff # NoHandoff => next \in Objs
      BY StreamFacts DEF Busy
<1>8. \A t \in Busy : t # s => stream[t].obj # o
      BY <1>2 DEF Fence
<1>9. handoff # NoHandoff => next # o /\ \A t \in Busy : stream[t].obj # next
      BY <1>2 DEF Fence
<1>10. Busy' = IF handed THEN Busy ELSE Busy \ {s}
      BY <1>2, <1>6 DEF Busy
<1>11. Quiet
      BY <1>1, <1>3, <1>6, FirmQuiet
<1>. HIDE DEF Held, o, c, next, handed
<1>12. \A p \in Objs : p # o /\ Held(db, p) => Held(db', p)
      BY <1>3 DEF Firm
<1>13. \A p \in Objs : p # o /\ Held(db, p) /\ db.obj[p] = "TRANSFERRING" => db'.obj[p] = "TRANSFERRING"
      BY <1>3 DEF Firm
<1>14. \A t \in Busy : Held(db, stream[t].obj)
      BY <1>1 DEF Fence
<1>15. handoff # NoHandoff => Held(db', next)
      BY <1>7, <1>9, <1>12 DEF Fence, next
<1>16. \A t, u \in Busy' : stream'[t].obj = stream'[u].obj => t = u
      <2>1. CASE handed
            BY <1>4, <1>6, <1>7, <1>9, <1>10, <2>1 DEF Fence
      <2>2. CASE ~handed
            BY <1>6, <1>7, <1>10, <2>2 DEF Fence
      <2>. QED BY <2>1, <2>2
<1>17. \A t \in Slots : stream'[t].phase = "copying" => db'.obj[stream'[t].obj] = "TRANSFERRING"
      <2>. SUFFICES ASSUME NEW t \in Slots, stream'[t].phase = "copying"
                    PROVE  db'.obj[stream'[t].obj] = "TRANSFERRING"
           OBVIOUS
      <2>1. t # s /\ stream'[t] = stream[t] /\ t \in Busy
            BY <1>6, <1>7
      <2>2. db.obj[stream[t].obj] = "TRANSFERRING"
            BY <1>1, <2>1 DEF Fence
      <2>. QED BY <1>7, <1>8, <1>13, <1>14, <2>1, <2>2
<1>18. \A t \in Slots : stream'[t].phase = "reserved" => pc' = "collected" /\ handoff' = NoHandoff
      BY <1>1, <1>4, <1>6 DEF Fence
<1>19. \A t \in Busy' : Held(db', stream'[t].obj)
      <2>. SUFFICES ASSUME NEW t \in Busy' PROVE Held(db', stream'[t].obj)
           OBVIOUS
      <2>1. CASE t = s
            BY <1>4, <1>6, <1>10, <1>15, <2>1
      <2>2. CASE t # s
            <3>1. t \in Busy /\ stream'[t] = stream[t]
                  BY <1>6, <1>7, <1>10, <2>2
            <3>. QED BY <1>7, <1>8, <1>12, <1>14, <2>2, <3>1
      <2>. QED BY <2>1, <2>2
<1>20. handoff' # NoHandoff =>
          /\ Held(db', handoff'.successor)
          /\ \A t \in Busy' : stream'[t].obj # handoff'.successor
          /\ \E t \in Busy' : stream'[t].obj = handoff'.target
      <2>. SUFFICES ASSUME handoff' # NoHandoff
                    PROVE  /\ Held(db', handoff'.successor)
                           /\ \A t \in Busy' : stream'[t].obj # handoff'.successor
                           /\ \E t \in Busy' : stream'[t].obj = handoff'.target
           OBVIOUS
      <2>1. ~handed /\ handoff' = handoff /\ Busy' = Busy \ {s}
            BY <1>4, <1>5, <1>10
      <2>2. PICK t \in Busy : stream[t].obj = handoff.target
            BY <2>1 DEF Fence
      <2>3. t \in Busy' /\ stream'[t] = stream[t]
            BY <1>6, <1>7, <2>1, <2>2 DEF handed, o
      <2>. QED BY <1>6, <1>7, <1>9, <1>15, <2>1, <2>2, <2>3 DEF next
<1>. QED BY <1>1, <1>11, <1>16, <1>17, <1>18, <1>19, <1>20 DEF Fence

\* What is left of the slots when reservations are dropped or started.
LEMMA SlotsAfterCollect ==
    ASSUME TypeOK, Fence,
           \A s \in Slots : \/ stream[s].phase = "reserved" /\ stream'[s] = Free
                            \/ /\ stream[s].phase = "reserved" /\ stream'[s].phase = "submitted"
                               /\ stream'[s].obj = stream[s].obj
                            \/ stream[s].phase # "reserved" /\ stream'[s] = stream[s]
    PROVE  /\ Busy' \subseteq Busy
           /\ \A s \in Busy' : stream'[s].obj = stream[s].obj
           /\ \A s \in Slots : stream'[s].phase # "reserved"
           /\ \A s \in Slots : stream'[s].phase = "copying" \/ stream[s].phase = "copying" =>
                                   stream'[s] = stream[s]
           /\ handoff # NoHandoff => Busy' = Busy
<1>1. \A s \in Slots : /\ stream'[s].phase # "free" => stream[s].phase # "free"
                       /\ stream'[s].phase # "free" => stream'[s].obj = stream[s].obj
                       /\ stream[s].phase # "reserved" => stream'[s] = stream[s]
                       /\ stream'[s].phase # "reserved"
                       /\ stream'[s].phase = "copying" => stream'[s] = stream[s]
      BY DEF Free
<1>2. handoff # NoHandoff => \A s \in Slots : stream[s].phase # "reserved"
      BY DEF Fence
<1>. QED BY <1>1, <1>2 DEF Busy

LEMMA UnreservedSlots ==
    ASSUME TypeOK, stream' = Unreserved, NEW s \in Slots
    PROVE  \/ stream[s].phase = "reserved" /\ stream'[s] = Free
           \/ stream[s].phase # "reserved" /\ stream'[s] = stream[s]
    BY DEF Unreserved

\* Fewer slots of the same loop, and the same handoff.
LEMMA FewerFence ==
    ASSUME TypeOK, Fence, Looping, Looping', UNCHANGED <<db, handoff>>,
           Busy' \subseteq Busy,
           \A s \in Busy' : stream'[s].obj = stream[s].obj,
           \A s \in Slots : stream'[s].phase # "reserved",
           \A s \in Slots : stream'[s].phase = "copying" => stream'[s] = stream[s],
           handoff # NoHandoff => Busy' = Busy
    PROVE  Fence'
<1>. HIDE DEF Held
<1>1. pc' \notin {"idle", "claimed", "ending"}
      BY DEF Looping
<1>2. \A t, u \in Busy' : stream'[t].obj = stream'[u].obj => t = u
      BY DEF Fence
<1>3. \A t \in Slots : stream'[t].phase = "copying" => db'.obj[stream'[t].obj] = "TRANSFERRING"
      BY DEF Fence
<1>4. \A t \in Busy' : Held(db', stream'[t].obj)
      BY DEF Fence
<1>5. handoff' # NoHandoff =>
          /\ Held(db', handoff'.successor)
          /\ \A t \in Busy' : stream'[t].obj # handoff'.successor
          /\ \E t \in Busy' : stream'[t].obj = handoff'.target
      BY DEF Fence
<1>. QED BY <1>1, <1>2, <1>3, <1>4, <1>5 DEF Fence

LEMMA RefillFence ==
    ASSUME Good(db), TypeOK, Fence, Refill
    PROVE  Fence' /\ Quiet
<1>1. Looping /\ Looping' /\ UNCHANGED <<db, handoff>>
      BY DEF Refill, Looping
<1>2. \A s \in Slots : \/ stream[s].phase = "reserved" /\ stream'[s] = Free
                       \/ /\ stream[s].phase = "reserved" /\ stream'[s].phase = "submitted"
                          /\ stream'[s].obj = stream[s].obj
                       \/ stream[s].phase # "reserved" /\ stream'[s] = stream[s]
      <2>. SUFFICES ASSUME NEW s \in Slots
                    PROVE  \/ stream[s].phase = "reserved" /\ stream'[s] = Free
                           \/ /\ stream[s].phase = "reserved" /\ stream'[s].phase = "submitted"
                              /\ stream'[s].obj = stream[s].obj
                           \/ stream[s].phase # "reserved" /\ stream'[s] = stream[s]
           OBVIOUS
      <2>1. stream'[s] = IF stream[s].phase = "reserved" /\ db.item[stream[s].obj] = "LEASED"
                         THEN [obj |-> stream[s].obj, phase |-> "submitted"] ELSE Unreserved[s]
            BY StreamFacts DEF Refill
      <2>. QED BY <2>1 DEF Unreserved
<1>3. /\ Busy' \subseteq Busy
      /\ \A s \in Busy' : stream'[s].obj = stream[s].obj
      /\ \A s \in Slots : stream'[s].phase # "reserved"
      /\ \A s \in Slots : stream'[s].phase = "copying" \/ stream[s].phase = "copying" =>
                               stream'[s] = stream[s]
      /\ handoff # NoHandoff => Busy' = Busy
      BY <1>2, SlotsAfterCollect
<1>4. Firm(db, db', {})
      BY <1>1 DEF Firm
<1>. QED BY <1>1, <1>3, <1>4, FewerFence, FirmQuiet

LEMMA StopFence ==
    ASSUME Good(db), TypeOK, Fence, StopAfterCollect
    PROVE  Fence' /\ Quiet
<1>1. stream' = Unreserved /\ Looping
      BY DEF StopAfterCollect, Looping
<1>2. /\ Busy' \subseteq Busy
      /\ \A s \in Busy' : stream'[s].obj = stream[s].obj
      /\ \A s \in Slots : stream'[s].phase # "reserved"
      /\ \A s \in Slots : stream'[s].phase = "copying" \/ stream[s].phase = "copying" =>
                               stream'[s] = stream[s]
      /\ handoff # NoHandoff => Busy' = Busy
      BY <1>1, UnreservedSlots, SlotsAfterCollect
<1>3. CASE \E s \in Slots : stream'[s] # Free
      <2>1. Looping' /\ UNCHANGED <<db, handoff>>
            BY <1>3 DEF StopAfterCollect, Looping
      <2>2. Firm(db, db', {})
            BY <2>1 DEF Firm
      <2>. QED BY <1>1, <1>2, <2>1, <2>2, FewerFence, FirmQuiet
<1>4. CASE ~ \E s \in Slots : stream'[s] # Free
      <2> DEFINE S == {handoff.successor} \ {NoObj}
      <2>1. handoff' = NoHandoff /\ db' = RequeueTask(ReturnUnstarted(db, S))
            BY <1>4 DEF StopAfterCollect
      <2>2. Busy' = {}
            BY <1>4 DEF Busy, Free
      <2>. HIDE DEF S
      <2>3. Sound(db, ReturnUnstarted(db, S), S) /\ Good(ReturnUnstarted(db, S))
            BY ReturnSound DEF Sound, Safe
      <2>4. Sound(db, db', S)
            BY <2>1, <2>3, TaskSound, SoundWiden, SoundTransitive
      <2>. QED BY <1>2, <2>1, <2>2, <2>4, FenceEmpty, FirmQuiet DEF Sound
<1>. QED BY <1>3, <1>4

LEMMA LoopFailsFence ==
    ASSUME Good(db), TypeOK, Fence, LoopFails
    PROVE  Fence' /\ Quiet
<1>1. stream' = Unreserved /\ handoff' = NoHandoff /\ pc' = "draining" /\ db' = db
      BY DEF LoopFails
<1>2. /\ Busy' \subseteq Busy
      /\ \A s \in Busy' : stream'[s].obj = stream[s].obj
      /\ \A s \in Slots : stream'[s].phase # "reserved"
      /\ \A s \in Slots : stream'[s].phase = "copying" \/ stream[s].phase = "copying" =>
                               stream'[s] = stream[s]
      BY <1>1, UnreservedSlots, SlotsAfterCollect
<1>3. Firm(db, db', {})
      BY <1>1 DEF Firm
<1>4. Quiet
      BY <1>2, <1>3, FirmQuiet
<1>5. ~Looping'
      BY <1>1 DEF Looping
<1>6. \A t, u \in Busy' : stream'[t].obj = stream'[u].obj => t = u
      BY <1>2 DEF Fence
<1>7. \A t \in Slots : stream'[t].phase = "copying" => db'.obj[stream'[t].obj] # "TRANSFERRED"
      BY <1>1, <1>2 DEF Fence
<1>. QED BY <1>1, <1>2, <1>4, <1>5, <1>6, <1>7 DEF Fence

-----------------------------------------------------------------------------
(* The dispatcher *)

\* The first batch: what gets a seat keeps its lease.
LEMMA StartFence ==
    ASSUME Good(db), TypeOK, Fence, StartDispatch
    PROVE  Fence' /\ Quiet
<1>1. PICK claimed \in SUBSET Objs :
         \E seat \in [Slots -> claimed \cup {NoObj}] : Dispatch(claimed, seat)
      BY DEF StartDispatch
<1>2. PICK seat \in [Slots -> claimed \cup {NoObj}] : Dispatch(claimed, seat)
      BY <1>1
<1> DEFINE active == {seat[s] : s \in Slots} \ {NoObj}
<1>3. /\ \A s, t \in Slots : seat[s] = seat[t] /\ seat[s] # NoObj => s = t
      /\ stream' = [s \in Slots |-> IF seat[s] = NoObj THEN Free
                                    ELSE [obj |-> seat[s], phase |-> "submitted"]]
      BY <1>2 DEF Dispatch
<1>4. PICK aged \in Aged :
         db' = ReturnUnstarted(Lease(PrepareClaim(db, aged), claimed), claimed \ active)
      BY <1>2 DEF Dispatch
<1>5. /\ handoff = NoHandoff /\ handoff' = NoHandoff /\ Busy = {}
      /\ pc' = IF \A s \in Slots : stream'[s] = Free THEN "ending" ELSE "loop"
      BY DEF StartDispatch, Fence, Looping
<1>6. \A s \in Slots : \/ seat[s] = NoObj /\ stream'[s] = Free /\ stream'[s].phase = "free"
                       \/ seat[s] # NoObj /\ stream'[s].obj = seat[s] /\ stream'[s].phase = "submitted"
      BY <1>3 DEF Free
<1> DEFINE c == PrepareClaim(db, aged)
           l == Lease(c, claimed)
<1>7. Sound(db, c, {}) /\ Good(c)
      BY PrepareSound DEF Sound, Safe
<1>. HIDE DEF c, active
<1>8. Sound(c, l, {}) /\ Good(l) /\ \A o \in claimed : Held(l, o)
      BY <1>7, LeaseSound DEF Sound, Safe
<1>. HIDE DEF l
<1>9. Sound(l, db', claimed \ active)
      BY <1>4, <1>8, ReturnSound DEF l, c
<1>10. Sound(db, db', claimed \ active)
      BY <1>7, <1>8, <1>9, SoundWiden, SoundTransitive
<1>11. Quiet
      <2>1. \A s \in Slots : stream[s].phase # "copying" /\ stream'[s].phase # "copying"
            BY <1>5, <1>6 DEF Busy
      <2>. QED BY <1>10, <2>1, FirmQuiet DEF Sound
<1>12. \A s \in Slots : seat[s] # NoObj => Held(db', seat[s])
      <2>1. \A s \in Slots : seat[s] # NoObj => seat[s] \in claimed /\ seat[s] \in active
            BY DEF active
      <2>. QED BY <1>8, <1>9, <2>1 DEF Sound, Firm
<1>13. \A s \in Busy' : s \in Slots /\ seat[s] # NoObj /\ stream'[s].obj = seat[s]
      BY <1>6 DEF Busy
<1>. HIDE DEF Held
<1>14. \A s \in Busy' : Held(db', stream'[s].obj)
      BY <1>12, <1>13
<1>15. \A s, t \in Busy' : stream'[s].obj = stream'[t].obj => s = t
      BY <1>3, <1>13
<1>16. pc' \in {"idle", "claimed", "ending"} => Busy' = {}
      BY <1>5, <1>6, <1>13 DEF Free
<1>17. \A s \in Slots : stream'[s].phase \notin {"copying", "reserved"}
      BY <1>6
<1>. QED BY <1>5, <1>11, <1>14, <1>15, <1>16, <1>17 DEF Fence

\* Where the process is between two tasks, it has no stream and no handoff.
LEMMA BetweenFence ==
    ASSUME TypeOK, Fence, Busy = {}, handoff' = NoHandoff, NEW S, Firm(db, db', S),
           stream' = stream \/ stream' = [s \in Slots |-> Free]
    PROVE  Fence' /\ Quiet
<1>1. \A s \in Slots : stream[s].phase = "free" /\ stream'[s].phase = "free"
      BY DEF Busy, Free
<1>2. Busy' = {}
      BY <1>1 DEF Busy
<1>. QED BY <1>1, <1>2, FenceEmpty, FirmQuiet

LEMMA DispatcherFence ==
    ASSUME Good(db), TypeOK, Fence,
           ClaimDispatcher \/ DispatchNothing \/ DispatchRefused \/ DispatchAborts \/ LoopEnds
    PROVE  Fence' /\ Quiet
<1>1. /\ Busy = {} /\ UNCHANGED <<stream, handoff>> /\ handoff' = NoHandoff
      <2>1. Busy = {} /\ UNCHANGED <<stream, handoff>>
            BY DEF ClaimDispatcher, DispatchNothing, DispatchRefused, DispatchAborts, LoopEnds, Fence
      <2>. QED BY <2>1 DEF Fence
<1>2. ASSUME NEW aged
      PROVE  Sound(db, FinalizeDelivered(db, aged), {}) /\ Sound(db, PrepareClaim(db, aged), {})
      BY FinalizeSound, PrepareSound
<1>. USE DEF Safe
<1>3. CASE ClaimDispatcher
      <2>1. PICK aged \in Aged :
               LET d == FinalizeDelivered(db, aged)
               IN  db' = d \/ \E w \in d.ready : db' = [d EXCEPT !.running = w, !.ready = d.ready \ {w}]
            BY <1>3 DEF ClaimDispatcher
      <2> DEFINE d == FinalizeDelivered(db, aged)
      <2>2. Sound(db, d, {}) /\ Good(d) /\ d \in Database
            BY <1>2 DEF Sound, Good
      <2>3. db' = d \/ \E w \in d.ready : db' = [d EXCEPT !.running = w, !.ready = d.ready \ {w}]
            BY <2>1
      <2>. HIDE DEF d
      <2>4. db'.item = d.item /\ db'.obj = d.obj /\ db'.lapsed = d.lapsed
            BY <2>2, <2>3 DEF Database
      <2>5. Firm(db, db', {})
            BY <2>2, <2>4 DEF Sound, Firm, Held
      <2>. QED BY <1>1, <2>5, BetweenFence
<1>4. CASE DispatchNothing
      <2>1. PICK aged \in Aged :
               EnsureTransferTask(RetireTask(ReconcileWaves(PrepareClaim(db, aged))), aged)
            BY <1>4 DEF DispatchNothing
      <2> DEFINE c == PrepareClaim(db, aged)
                 d == RetireTask(ReconcileWaves(c))
      <2>2. Sound(db, c, {}) /\ Good(c)
            BY <1>2 DEF Sound
      <2>. HIDE DEF c
      <2>3. Sound(c, ReconcileWaves(c), {}) /\ Good(ReconcileWaves(c))
            BY <2>2, WavesSound DEF Sound
      <2>4. Sound(db, d, {}) /\ Good(d)
            BY <2>2, <2>3, TaskSound, SoundTransitive DEF Sound
      <2>5. EnsureTransferTask(d, aged)
            BY <2>1 DEF c
      <2>. HIDE DEF d
      <2>6. Sound(db, db', {})
            BY <2>4, <2>5, EnsureSound, SoundTransitive
      <2>. QED BY <1>1, <2>6, BetweenFence DEF Sound
<1>5. CASE DispatchRefused \/ DispatchAborts
      <2>1. PICK aged \in Aged, claimed \in SUBSET Objs, back \in SUBSET Objs :
               db' \in {RequeueTask(ReturnUnstarted(Lease(PrepareClaim(db, aged), claimed), back)),
                        FailTask(ReturnUnstarted(Lease(PrepareClaim(db, aged), claimed), back))}
            BY <1>5 DEF DispatchRefused, DispatchAborts, ClaimChoices, Eligible
      <2> DEFINE c == PrepareClaim(db, aged)
                 l == Lease(c, claimed)
                 d == ReturnUnstarted(l, back)
      <2>2. Sound(db, c, back) /\ Good(c)
            BY <1>2, SoundWiden DEF Sound
      <2>. HIDE DEF c
      <2>3. Sound(c, l, back) /\ Good(l)
            BY <2>2, LeaseSound, SoundWiden DEF Sound
      <2>. HIDE DEF l
      <2>4. Sound(l, d, back) /\ Good(d)
            BY <2>3, ReturnSound DEF Sound
      <2>5. db' \in TaskAfterError(d)
            BY <2>1 DEF TaskAfterError, d, l, c
      <2>. HIDE DEF d
      <2>6. Sound(d, db', back)
            BY <2>4, <2>5, TaskSound, SoundWiden
      <2>7. Sound(db, db', back)
            BY <2>2, <2>3, <2>4, <2>6, SoundTransitive
      <2>. QED BY <1>1, <2>7, BetweenFence DEF Sound
<1>6. CASE LoopEnds
      <2>1. PICK aged \in Aged :
               EnsureTransferTask(RetireTask(RefreshPriorities(ReconcileWaves(db))), aged)
            BY <1>6 DEF LoopEnds
      <2> DEFINE r == ReconcileWaves(db)
                 f == RefreshPriorities(r)
                 d == RetireTask(f)
      <2>2. Sound(db, r, {}) /\ Good(r)
            BY WavesSound DEF Sound
      <2>. HIDE DEF r
      <2>3. Sound(r, f, {}) /\ Good(f)
            BY <2>2, RefreshSound DEF Sound
      <2>. HIDE DEF f
      <2>4. Sound(f, d, {}) /\ Good(d)
            BY <2>3, TaskSound DEF Sound
      <2>5. EnsureTransferTask(d, aged)
            BY <2>1 DEF d, f, r
      <2>. HIDE DEF d
      <2>6. Sound(db, db', {})
            BY <2>2, <2>3, <2>4, <2>5, EnsureSound, SoundTransitive
      <2>. QED BY <1>1, <2>6, BetweenFence DEF Sound
<1>. QED BY <1>3, <1>4, <1>5, <1>6

LEMMA DrainFence ==
    ASSUME Good(db), TypeOK, Fence, DrainDone
    PROVE  Fence' /\ Quiet
<1>1. /\ handoff = NoHandoff /\ handoff' = NoHandoff /\ stream' = [s \in Slots |-> Free]
      /\ \A s \in Slots : stream[s].phase # "copying"
      BY DEF DrainDone, Fence, Looping, Busy, Finished
<1>2. Firm(db, db', {})
      BY TaskSound DEF DrainDone, Sound
<1>3. Busy' = {} /\ \A s \in Slots : stream'[s].phase # "copying"
      BY <1>1 DEF Busy, Free
<1>. QED BY <1>1, <1>2, <1>3, FenceEmpty, FirmQuiet

-----------------------------------------------------------------------------
(* Time, and all together *)

\* Only a lease that nobody renews lapses, and the loop renews what it holds.
LEMMA LapseFence ==
    ASSUME TypeOK, Fence, NEW o \in Objs, LeaseLapses(o)
    PROVE  Fence' /\ Quiet
<1>1. /\ db'.item = db.item /\ db'.obj = db.obj /\ db'.lapsed = db.lapsed \cup {o}
      /\ UNCHANGED <<pc, stream, handoff>> /\ ~Renewed(o)
      BY DEF LeaseLapses, TypeOK, Database
<1>2. Looping => /\ \A s \in Busy : stream[s].obj # o
                 /\ handoff.successor # o
      BY <1>1 DEF Renewed, Looping, Busy
<1>3. Firm(db, db', {o}) /\ \A p \in Objs : p # o /\ Held(db, p) => Held(db', p)
      BY <1>1 DEF Firm, Held
<1>4. Quiet
      BY <1>1, <1>3, FirmQuiet
<1>5. /\ Busy' = Busy /\ Looping' = Looping
      /\ \A s \in Busy : stream[s].obj \in Objs
      /\ handoff # NoHandoff => handoff.successor \in Objs
      BY <1>1, StreamFacts DEF Busy, Looping
<1>. HIDE DEF Held
<1>6. Looping' => \A s \in Busy' : Held(db', stream'[s].obj)
      BY <1>1, <1>2, <1>3, <1>5 DEF Fence
<1>7. handoff' # NoHandoff => Held(db', handoff'.successor)
      BY <1>1, <1>2, <1>3, <1>5 DEF Fence
<1>. QED BY <1>1, <1>4, <1>5, <1>6, <1>7 DEF Fence

LEMMA CrashFence ==
    ASSUME TypeOK, Crash
    PROVE  /\ Fence' /\ Copying' = {}
           /\ Delivered' = Delivered /\ Settled' = Settled /\ Complete' = Complete
<1>1. /\ handoff' = NoHandoff /\ stream' = [s \in Slots |-> Free]
      /\ db'.obj = db.obj /\ db'.item = db.item /\ db'.wave = db.wave
      BY DEF Crash, TypeOK, Database
<1>2. Busy' = {} /\ Copying' = {}
      BY <1>1 DEF Busy, Free, Copying
<1>. QED BY <1>1, <1>2, FenceEmpty DEF Delivered, Settled, Complete

\* What a stream does by itself.
StreamStep ==
    \E s \in Slots : \/ StreamStart(s) \/ StreamDelivers(s)
                     \/ StreamFails(s) \/ StreamUnavailable(s)

LEMMA RaijuFence ==
    ASSUME Good(db), TypeOK, Fence, Raiju
    PROVE  Fence' /\ (Quiet \/ StreamStep)
<1>1. CASE RefreshTick
      <2>1. Sound(db, db', {}) /\ UNCHANGED <<pc, stream, handoff>>
            BY <1>1, RefreshSound DEF RefreshTick
      <2>. QED BY <2>1, FenceCalm DEF Sound
<1>2. CASE StreamStep
      BY <1>2, StreamFence DEF StreamStep
<1>3. ASSUME NEW s \in Slots, CollectDone(s) \/ ClaimReplacement(s)
      PROVE  Fence' /\ Quiet
      BY <1>3, CollectFence, ReplacementFence
<1>4. CASE \/ ClaimDispatcher \/ DispatchNothing \/ DispatchRefused \/ DispatchAborts
           \/ LoopEnds \/ StartDispatch \/ DrainDone
      BY <1>4, DispatcherFence, StartFence, DrainFence
<1>5. CASE Refill \/ StopAfterCollect \/ ReserveHandoff \/ LoopFails
      BY <1>5, RefillFence, StopFence, HandoffFence, LoopFailsFence
<1>. QED BY <1>1, <1>2, <1>3, <1>4, <1>5 DEF Raiju, StreamStep

LEMMA EnvironmentFence ==
    ASSUME Good(db), TypeOK, Fence, Environment
    PROVE  Fence' /\ (Quiet \/ Crash)
<1>1. CASE Terminate \/ Restart
      <2>1. UNCHANGED <<db, pc, stream, handoff>>
            BY <1>1 DEF Terminate, Restart
      <2>. QED BY <2>1, FenceCalm DEF Firm
<1>2. ASSUME NEW o \in Objs, CopyExpires(o)
      PROVE  Fence' /\ Quiet
      <2>1. /\ db'.item = db.item /\ db'.obj = db.obj /\ db'.lapsed = db.lapsed
            /\ UNCHANGED <<pc, stream, handoff>>
            BY <1>2 DEF CopyExpires, TypeOK, Database
      <2>2. Firm(db, db', {})
            BY <2>1 DEF Firm, Held
      <2>. QED BY <2>1, <2>2, FenceCalm
<1>. QED BY <1>1, <1>2, CrashFence, LapseFence DEF Environment

LEMMA NextFence ==
    ASSUME Good(db), TypeOK, Fence, [Next]_vars
    PROVE  Fence' /\ (Quiet \/ Crash \/ StreamStep)
<1>1. CASE UNCHANGED vars
      <2>1. UNCHANGED <<db, pc, stream, handoff>>
            BY <1>1 DEF vars
      <2>. QED BY <2>1, FenceCalm DEF Firm
<1>2. CASE Control
      <2>1. UNCHANGED <<pc, stream, handoff>>
            BY <1>2 DEF Control, WatchdogRecover, Govern, PollSuperseded, PollRestore, SubmitRestore
      <2>. QED BY <1>2, <2>1, ControlSound, FenceCalm DEF Sound
<1>3. CASE Operator
      <2>1. UNCHANGED <<pc, stream, handoff>>
            BY <1>3 DEF Operator, PauseProject, ResumeProject, PauseWave, ResumeWave
      <2>. QED BY <1>3, <2>1, OperatorSound, FenceCalm DEF Sound
<1>. QED BY <1>1, <1>2, <1>3, RaijuFence, EnvironmentFence DEF Next

-----------------------------------------------------------------------------
(* The theorems *)

FencedInv == IInv /\ Fence

LEMMA FencedInit == Init => FencedInv
<1>. SUFFICES ASSUME Init PROVE Fence
     BY InitInv DEF FencedInv
<1>1. handoff = NoHandoff /\ Busy = {} /\ \A s \in Slots : stream[s].phase = "free"
      BY DEF Init, Busy, Free
<1>. QED BY <1>1 DEF Fence

LEMMA FencedNext ==
    FencedInv /\ [Next]_vars => FencedInv' /\ (Quiet \/ Crash \/ StreamStep) /\ Keeps(db, db')
<1>. SUFFICES ASSUME FencedInv, [Next]_vars
              PROVE  FencedInv' /\ (Quiet \/ Crash \/ StreamStep) /\ Keeps(db, db')
     OBVIOUS
<1>1. IInv /\ Fence /\ Good(db) /\ TypeOK
      BY GoodIsInv DEF FencedInv, IInv, TypeOK
<1>2. IInv' /\ Keeps(db, db')
      BY <1>1, NextInv
<1>3. Fence' /\ (Quiet \/ Crash \/ StreamStep)
      BY <1>1, NextFence
<1>. QED BY <1>2, <1>3 DEF FencedInv

LEMMA FencedAlways == Spec => []FencedInv
<1>1. FencedInv /\ [Next]_vars => FencedInv'
      BY FencedNext
<1>. QED BY FencedInit, <1>1, PTL DEF Spec

\* The queue lease fences every live stream, whatever recovery, the clock, the
\* handoff, the controller and the operator do meanwhile.
THEOREM LeasesFence == Spec => []StreamLeaseFence
<1>1. ASSUME FencedInv PROVE StreamLeaseFence
      <2>1. TypeOK /\ Fence /\ SettledItemIsDelivered
            BY <1>1 DEF FencedInv, IInv
      <2>2. ASSUME pc \in {"loop", "collected"}, NEW s \in Slots, stream[s].phase = "copying"
            PROVE  LET o == stream[s].obj
                   IN  db.item[o] = "LEASED" /\ o \notin db.lapsed /\ db.obj[o] = "TRANSFERRING"
            <3>1. /\ stream[s].obj \in Objs /\ Held(db, stream[s].obj)
                  /\ db.obj[stream[s].obj] = "TRANSFERRING"
                  BY <2>1, <2>2, StreamFacts DEF Fence, Looping, Busy
            <3>. QED BY <2>1, <3>1 DEF Held, SettledItemIsDelivered
      <2>3. handoff # NoHandoff =>
              /\ db.item[handoff.successor] \in {"LEASED", "TRANSFERRED"}
              /\ \A s \in Busy : stream[s].obj # handoff.successor
              /\ \E s \in Busy : stream[s].obj = handoff.target
            BY <2>1 DEF Fence, Held
      <2>4. \A s, t \in Busy : stream[s].obj = stream[t].obj => s = t
            BY <2>1 DEF Fence
      <2>. QED BY <2>2, <2>3, <2>4 DEF StreamLeaseFence
<1>. QED BY FencedAlways, <1>1, PTL

LEMMA StreamPromise ==
    ASSUME FencedInv, FencedInv', StreamStep
    PROVE  Promise!Next
<1>1. TypeOK /\ Fence /\ db \in Database
      BY DEF FencedInv, IInv, TypeOK
<1>2. PICK s \in Slots : \/ StreamStart(s) \/ StreamDelivers(s)
                        \/ StreamFails(s) \/ StreamUnavailable(s)
      BY DEF StreamStep
<1> DEFINE o == stream[s].obj
<1>3. stream[s].phase # "free" /\ o \in Objs
      BY <1>1, <1>2, StreamFacts DEF StreamStart, StreamDelivers, StreamFails, StreamUnavailable
<1>4. ASSUME NEW t \in Slots, t # s, stream[t].phase = "copying"
      PROVE  stream[t].obj # o
      BY <1>1, <1>3, <1>4 DEF Fence, Busy
<1>5. ASSUME NEW ph, stream' = [stream EXCEPT ![s].phase = ph]
      PROVE  /\ \A t \in Slots : t # s => stream'[t] = stream[t]
             /\ stream'[s].obj = o /\ stream'[s].phase = ph
      BY <1>1, <1>5, StreamFacts
<1>6. ASSUME NEW ph, stream' = [stream EXCEPT ![s].phase = ph]
      PROVE  Copying' = IF ph = "copying" THEN Copying \cup {o} ELSE Copying \ {o}
      <2>1. /\ \A t \in Slots : t # s => stream'[t] = stream[t]
            /\ stream'[s].obj = o /\ stream'[s].phase = ph
            BY <1>5, <1>6
      <2>2. \A x : /\ x \in Copying  <=> \E t \in Slots : stream[t].phase  = "copying" /\ stream[t].obj  = x
                   /\ x \in Copying' <=> \E t \in Slots : stream'[t].phase = "copying" /\ stream'[t].obj = x
            BY DEF Copying
      <2>. HIDE DEF Copying, o
      <2>3. \A x : x # o => (x \in Copying' <=> x \in Copying)
            BY <2>1, <2>2 DEF o
      <2>4. o \in Copying' <=> ph = "copying"
            BY <1>4, <2>1, <2>2
      <2>. QED BY <2>3, <2>4 DEF Copying
<1>7. ASSUME NEW v, db' = [db EXCEPT !.obj = Update(db.obj, {o}, v)]
      PROVE  /\ Settled' = Settled /\ Complete' = Complete
             /\ Delivered' = IF v = "TRANSFERRED" THEN Delivered \cup {o} ELSE Delivered \ {o}
      <2>1. DOMAIN db.obj = Objs /\ db'.item = db.item /\ db'.wave = db.wave
            /\ db'.obj = Update(db.obj, {o}, v)
            BY <1>1, <1>7 DEF Database
      <2>2. \A p \in Objs : db'.obj[p] = IF p = o THEN v ELSE db.obj[p]
            BY <2>1, UpdateAt
      <2>. QED BY <1>3, <2>1, <2>2 DEF Settled, Complete, Delivered
<1>8. ASSUME db' = db PROVE Delivered' = Delivered /\ Settled' = Settled /\ Complete' = Complete
      BY <1>8 DEF Delivered, Settled, Complete
<1>9. CASE db' = db /\ \E ph \in Phase \ {"copying"} : stream' = [stream EXCEPT ![s].phase = ph]
      <2>1. Copying' \subseteq Copying
            BY <1>6, <1>9
      <2>. QED BY <1>8, <1>9, <2>1 DEF Promise!Next, Promise!Abandon
<1>10. CASE /\ stream[s].phase = "submitted" /\ db.obj[o] # "TRANSFERRED"
            /\ stream' = [stream EXCEPT ![s].phase = "copying"]
            /\ db' = [db EXCEPT !.obj = Update(db.obj, {o}, "TRANSFERRING")]
      <2>1. o \notin Copying /\ o \notin Delivered
            BY <1>4, <1>10 DEF Copying, Delivered
      <2>2. /\ Copying' = Copying \cup {o} /\ Delivered' = Delivered
            /\ Settled' = Settled /\ Complete' = Complete
            <3>1. Copying' = Copying \cup {o}
                  BY <1>6, <1>10
            <3>2. /\ Settled' = Settled /\ Complete' = Complete
                  /\ Delivered' = IF "TRANSFERRING" = "TRANSFERRED" THEN Delivered \cup {o} ELSE Delivered \ {o}
                  BY <1>7, <1>10
            <3>. QED BY <2>1, <3>1, <3>2
      <2>3. Promise!Start(o)
            BY <2>1, <2>2 DEF Promise!Start
      <2>. QED BY <1>3, <2>3 DEF Promise!Next
<1>11. CASE StreamDelivers(s)
      <2>1. o \in Copying /\ o \notin Delivered
            BY <1>1, <1>11 DEF StreamDelivers, Fence, Copying, Delivered
      <2>2. /\ Copying' = Copying \ {o} /\ Delivered' = Delivered \cup {o}
            /\ Settled' = Settled /\ Complete' = Complete
            <3>1. /\ stream' = [stream EXCEPT ![s].phase = "returned"]
                  /\ db' = [db EXCEPT !.obj = Update(db.obj, {o}, "TRANSFERRED")]
                  BY <1>11 DEF StreamDelivers
            <3>2. Copying' = IF "returned" = "copying" THEN Copying \cup {o} ELSE Copying \ {o}
                  BY <1>6, <3>1
            <3>3. /\ Settled' = Settled /\ Complete' = Complete
                  /\ Delivered' = IF "TRANSFERRED" = "TRANSFERRED" THEN Delivered \cup {o} ELSE Delivered \ {o}
                  BY <1>7, <3>1
            <3>. QED BY <3>2, <3>3
      <2>3. Promise!Deliver(o)
            BY <2>1, <2>2 DEF Promise!Deliver
      <2>. QED BY <1>3, <2>3 DEF Promise!Next
<1>12. CASE StreamStart(s)
      BY <1>9, <1>10, <1>12 DEF StreamStart, Phase
<1>13. CASE StreamFails(s) \/ StreamUnavailable(s)
      BY <1>9, <1>13 DEF StreamFails, StreamUnavailable, Phase
<1>. QED BY <1>2, <1>11, <1>12, <1>13

\* The lane implements Delivery: only the one stream of an object delivers it,
\* and no other transaction counts an object that no stream has delivered.
THEOREM LaneImplementsDelivery == Spec => LaneDelivers
<1>1. Init => Promise!Init
      <2>. SUFFICES ASSUME Init PROVE Promise!Init
           OBVIOUS
      <2>1. /\ \A o \in Objs : db.obj[o] = "RESTORING" /\ db.item[o] = "NONE"
            /\ \A w \in Waves : db.wave[w] = "RESTORING"
            /\ \A s \in Slots : stream[s].phase = "free"
            BY DEF Init, Free
      <2>. QED BY <2>1 DEF Promise!Init, Copying, Delivered, Settled, Complete
<1>2. ASSUME FencedInv, [Next]_vars
      PROVE  [Promise!Next]_(Promise!vars)
      <2>1. FencedInv' /\ (Quiet \/ Crash \/ StreamStep) /\ Keeps(db, db')
            BY <1>2, FencedNext
      <2>2. CASE Quiet
            <3>1. Copying' = Copying /\ Delivered' = Delivered
                  BY <2>1, <2>2 DEF Quiet, Keeps, Delivered
            <3>2. Settled' \subseteq Delivered' /\
                  Complete' \subseteq {w \in Waves : \A o \in Objs : WaveOf[o] = w => o \in Delivered'}
                  BY <2>1 DEF FencedInv, IInv, SettledItemIsDelivered, CompletedWaveIsDelivered,
                              ObjsOf, Settled, Complete, Delivered
            <3>. QED BY <3>1, <3>2 DEF Promise!Next, Promise!Account
      <2>3. CASE Crash
            <3>1. TypeOK
                  BY <1>2 DEF FencedInv, IInv
            <3>. QED BY <2>3, <3>1, CrashFence DEF Promise!Next, Promise!Abandon
      <2>. QED BY <1>2, <2>1, <2>2, <2>3, StreamPromise
<1>. QED BY FencedAlways, <1>1, <1>2, PTL DEF Spec, LaneDelivers, Promise!Spec
=============================================================================
