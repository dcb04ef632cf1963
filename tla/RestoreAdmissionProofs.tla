---------------------- MODULE RestoreAdmissionProofs ----------------------
(***************************************************************************)
(* Theorems of RestoreAdmission, for any pipelines, projects, objects,     *)
(* rates and limits.                                                       *)
(***************************************************************************)
EXTENDS RestoreAdmission, FiniteSetTheorems, SequenceTheorems, WellFoundedInduction, TLAPS

-----------------------------------------------------------------------------
(* Induction along a sweep *)

\* Every set of numbers that is not empty has a least one.
LEMMA LeastNumber ==
    ASSUME NEW T \in SUBSET Nat, T # {}
    PROVE  \E n \in T : \A m \in T : n <= m
<1> DEFINE R == {p \in Nat \X Nat : p[1] < p[2]}
<1>1. IsWellFoundedOn(R, Nat)
      BY NatLessThanWellFounded DEF OpToRel
<1>2. PICK n \in T : \A m \in T : <<m, n>> \notin R
      BY <1>1, WFMin
<1>3. \A m \in T : ~(m < n)
      BY <1>2
<1>. QED BY <1>3

\* A set of numbers that has 0, and k with k - 1, has every number up to n.
LEMMA Upwards ==
    ASSUME NEW n \in Nat, NEW T, 0 \in T, \A k \in 1..n : k - 1 \in T => k \in T
    PROVE  0..n \subseteq T
<1> DEFINE Bad == {k \in 0..n : k \notin T}
<1>. SUFFICES ASSUME Bad # {} PROVE FALSE
     OBVIOUS
<1>0. Bad \in SUBSET Nat
      OBVIOUS
<1>1. PICK k \in Bad : \A m \in Bad : k <= m
      BY <1>0, LeastNumber
<1>2. k \in 1..n /\ k - 1 \in 0..n /\ k - 1 \notin Bad
      BY <1>1
<1>. QED BY <1>2

Starts(g, F, x, m) == g[0] = x /\ \A k \in 1..m : g[k] = F[<<g[k - 1], k>>]

\* The steps of F from x up to n are the values of a function.
LEMMA StepsExist ==
    ASSUME NEW n \in Nat, NEW T, NEW x \in T, NEW F \in [T \X (1..n) -> T]
    PROVE  \E g \in [0..n -> T] : Starts(g, F, x, n)
<1> DEFINE Known == {m \in 0..n : \E g \in [0..n -> T] : Starts(g, F, x, m)}
<1>1. 0 \in Known
  <2> DEFINE g == [k \in 0..n |-> x]
  <2>1. g \in [0..n -> T] /\ Starts(g, F, x, 0)
        BY DEF Starts
  <2>. QED BY <2>1
<1>2. ASSUME NEW m \in 1..n, m - 1 \in Known PROVE m \in Known
  <2>1. PICK g \in [0..n -> T] : Starts(g, F, x, m - 1)
        BY <1>2
  <2> DEFINE h == [g EXCEPT ![m] = F[<<g[m - 1], m>>]]
  <2>2. h \in [0..n -> T]
    <3>1. g[m - 1] \in T
          OBVIOUS
    <3>2. F[<<g[m - 1], m>>] \in T
          BY <3>1
    <3>. QED BY <3>2
  <2>3. Starts(h, F, x, m)
    <3>1. h[m] = F[<<g[m - 1], m>>] /\ \A k \in 0..m - 1 : h[k] = g[k]
          OBVIOUS
    <3>2. h[0] = x
          BY <2>1, <3>1 DEF Starts
    <3>3. ASSUME NEW k \in 1..m PROVE h[k] = F[<<h[k - 1], k>>]
      <4>1. h[k - 1] = g[k - 1]
            BY <3>1
      <4>2. k # m => k \in 1..m - 1 /\ h[k] = g[k]
            BY <3>1
      <4>. QED BY <2>1, <3>1, <4>1, <4>2 DEF Starts
    <3>. QED BY <3>2, <3>3 DEF Starts
  <2>. HIDE DEF h
  <2>. QED BY <2>2, <2>3
<1>3. n \in Known
  <2>. HIDE DEF Known
  <2>1. 0..n \subseteq Known
        BY <1>1, <1>2, Upwards
  <2>. QED BY <2>1
<1>. QED BY <1>3

\* Two functions that start alike, and go on alike from equal values, end alike.
Alike(g, h, n) == g[0] = h[0] /\ \A k \in 1..n : g[k - 1] = h[k - 1] => g[k] = h[k]

LEMMA StepsAgree ==
    ASSUME NEW n \in Nat, NEW g, NEW h, Alike(g, h, n)
    PROVE  g[n] = h[n]
<1> DEFINE Same == {k \in 0..n : g[k] = h[k]}
<1>1. 0 \in Same /\ \A k \in 1..n : k - 1 \in Same => k \in Same
      BY DEF Alike
<1>2. 0..n \subseteq Same
  <2>. HIDE DEF Same
  <2>. QED BY <1>1, Upwards
<1>. QED BY <1>2

HasMax(S) == \E x \in S : \A y \in S : x >= y

\* A finite set of numbers that is not empty has a greatest one: a smallest
\* set without would lose an element and have one.
LEMMA GreatestNumber ==
    ASSUME NEW S \in SUBSET Nat, S # {}, IsFiniteSet(S)
    PROVE  HasMax(S)
<1> DEFINE Bad == {T \in SUBSET S : T # {} /\ ~HasMax(T)}
           Counts == {Cardinality(T) : T \in Bad}
<1>. SUFFICES ASSUME Bad # {} PROVE FALSE
     OBVIOUS
<1>1. \A T \in SUBSET S : IsFiniteSet(T) /\ Cardinality(T) \in Nat
      BY FS_Subset, FS_CardinalityType
<1>2. Counts \in SUBSET Nat /\ Counts # {}
      BY <1>1
<1>3. PICK n \in Counts : \A m \in Counts : n <= m
      BY <1>2, LeastNumber
<1>4. PICK T \in Bad : Cardinality(T) = n
      OBVIOUS
<1>5. PICK x \in T : TRUE
      OBVIOUS
<1> DEFINE U == T \ {x}
<1>6. U \in SUBSET S /\ Cardinality(U) = n - 1 /\ n \in Nat
      BY <1>1, <1>2, <1>4, FS_RemoveElement
<1>7. ~(n <= n - 1)
      BY <1>6
<1>8. U \notin Bad
      BY <1>3, <1>6, <1>7
<1>9. CASE U = {}
  <2>1. T = {x} /\ x \in Nat
        BY <1>9
  <2>2. HasMax(T)
        BY <2>1 DEF HasMax
  <2>. QED BY <2>2
<1>10. CASE U # {}
  <2>1. PICK m \in U : \A y \in U : m >= y
        BY <1>6, <1>8, <1>10 DEF HasMax
  <2>2. m \in Nat /\ x \in Nat /\ \A y \in T : y \in Nat /\ (y = x \/ y \in U)
        OBVIOUS
  <2>3. CASE m >= x
    <3>1. m \in T /\ \A y \in T : m >= y
          BY <2>1, <2>2, <2>3
    <3>. QED BY <3>1 DEF HasMax
  <2>4. CASE ~(m >= x)
    <3>1. x \in T /\ \A y \in T : x >= y
          BY <2>1, <2>2, <2>4
    <3>. QED BY <3>1 DEF HasMax
  <2>. QED BY <2>3, <2>4
<1>. QED BY <1>9, <1>10

-----------------------------------------------------------------------------
(* Databases *)

ObjRec  == [state : {"DISCOVERED", "WAVE_ASSIGNED", "RESTORING", "RESTORED", "TRANSFERRED"},
            wave  : 0..MaxWaves]
WaveRec == [run : Runs \cup {0}, status : Statuses, task : {"NONE", "SUBMIT", "POLL"},
            late : BOOLEAN, executed : BOOLEAN]
Dbs     == [obj  : [Objs -> ObjRec],
            wave : [WaveIds -> WaveRec],
            next : 1..MaxWaves + 1,
            run  : [Runs -> {"NONE", "SCHEDULED", "NEEDS_ATTENTION", "COMPLETED"}]]

\* An object is in the inventory or in a wave of its source.
InPlan(d) ==
    \A o \in Objs :
        /\ d.obj[o].state = "DISCOVERED" <=> d.obj[o].wave = 0
        /\ d.obj[o].wave # 0 => d.wave[d.obj[o].wave].run = o[1]

Unborn(d) == \A w \in WaveIds : w >= d.next => d.wave[w] = NoWave

\* What is complete is transferred.
Finished(d) ==
    /\ \A o \in Objs : d.obj[o].wave # 0 /\ d.wave[d.obj[o].wave].status = "COMPLETED" =>
                           d.obj[o].state = "TRANSFERRED"
    /\ \A o \in Objs : d.run[o[1]] = "COMPLETED" => d.obj[o].state = "TRANSFERRED"

\* A wave that waits for its submission, or whose submission failed, has
\* nothing on order.
Untouched(d, w) ==
    /\ \A o \in Members(d, w) : d.obj[o].state \in {"WAVE_ASSIGNED", "TRANSFERRED"}
    /\ Members(d, w) = {} \/ \E o \in Members(d, w) : d.obj[o].state = "WAVE_ASSIGNED"

Ordered(d) ==
    \A w \in WaveIds :
        /\ d.wave[w].task = "POLL" => d.wave[w].status # "RESTORE_SCHEDULED"
        /\ d.wave[w].status \in {"RESTORE_SCHEDULED", "FAILED"} \/ d.wave[w].task = "SUBMIT" =>
              Untouched(d, w)

Good  == {d \in Dbs : InPlan(d) /\ Unborn(d) /\ Finished(d) /\ Ordered(d)}

\* From d to e the waves that have a task keep it and their objects, and a
\* failed submission stays failed.
Keeps(d, e) ==
    \A w \in WaveIds :
        /\ d.wave[w].task # "NONE" => /\ e.wave[w].task = d.wave[w].task
                                      /\ Members(e, w) = Members(d, w)
        /\ d.wave[w].status = "FAILED" /\ Members(d, w) # {} =>
              /\ e.wave[w].status = "FAILED" /\ e.wave[w].run = d.wave[w].run
              /\ Members(d, w) \subseteq Members(e, w)

\* And no submission is queued.
Plans(d, e) == Keeps(d, e) /\ \A w \in WaveIds : Queued(e, w) => Queued(d, w)

LEMMA PlansTransitive ==
    ASSUME NEW d, NEW e, NEW f, Plans(d, e), Plans(e, f)
    PROVE  Plans(d, f)
<1>1. ASSUME NEW w \in WaveIds, d.wave[w].task # "NONE"
      PROVE  f.wave[w].task = d.wave[w].task /\ Members(f, w) = Members(d, w)
      BY <1>1 DEF Plans, Keeps
<1>2. ASSUME NEW w \in WaveIds, d.wave[w].status = "FAILED", Members(d, w) # {}
      PROVE  /\ f.wave[w].status = "FAILED" /\ f.wave[w].run = d.wave[w].run
             /\ Members(d, w) \subseteq Members(f, w)
  <2>1. /\ e.wave[w].status = "FAILED" /\ e.wave[w].run = d.wave[w].run
        /\ Members(d, w) \subseteq Members(e, w) /\ Members(e, w) # {}
        BY <1>2 DEF Plans, Keeps
  <2>2. /\ f.wave[w].status = "FAILED" /\ f.wave[w].run = e.wave[w].run
        /\ Members(e, w) \subseteq Members(f, w)
        BY <2>1 DEF Plans, Keeps
  <2>. QED BY <2>1, <2>2
<1>. QED BY <1>1, <1>2 DEF Plans, Keeps

LEMMA PlansReflexive == ASSUME NEW d PROVE Plans(d, d)
    BY DEF Plans, Keeps

\* A pipeline has objects and waves, which have numbers.
LEMMA Shapes ==
    /\ \A o \in Objs : o[1] \in Runs /\ o[1] # 0
    /\ \A w \in WaveIds : w \in Nat /\ w # 0 /\ w \in 0..MaxWaves
    /\ MaxWaves \in Nat \ {0}
<1>1. MaxWaves \in Nat \ {0} /\ Runs \subseteq Nat \ {0}
      BY RestoreAdmissionAssumption
<1>2. \A o \in Objs : o[1] \in Runs
      BY DEF Objs
<1>. QED BY <1>1, <1>2 DEF WaveIds

LEMMA Fields ==
    ASSUME NEW d \in Good
    PROVE  /\ d \in Dbs
           /\ \A o \in Objs : d.obj[o] \in ObjRec
           /\ \A o \in Objs : d.obj[o].wave # 0 => d.obj[o].wave \in WaveIds
           /\ \A w \in WaveIds : d.wave[w] \in WaveRec
<1>1. d \in Dbs
      BY DEF Good
<1>2. d.obj \in [Objs -> ObjRec] /\ d.wave \in [WaveIds -> WaveRec]
      BY <1>1 DEF Dbs
<1>3. \A o \in Objs : d.obj[o] \in ObjRec
      BY <1>2
<1>4. \A o \in Objs : d.obj[o].wave \in 0..MaxWaves
      BY <1>3 DEF ObjRec
<1>5. \A o \in Objs : d.obj[o].wave # 0 => d.obj[o].wave \in WaveIds
      BY <1>4, Shapes DEF WaveIds
<1>. QED BY <1>1, <1>2, <1>3, <1>5

LEMMA RefreshGood ==
    ASSUME NEW d \in Good, NEW r \in Runs
    PROVE  Refresh(d, r) \in Good /\ Plans(d, Refresh(d, r))
<1>. DEFINE e == Refresh(d, r)
<1>1. PICK s \in {"NONE", "SCHEDULED", "NEEDS_ATTENTION", "COMPLETED"} :
           /\ e = [d EXCEPT !.run[r] = s]
           /\ s = "COMPLETED" => \/ d.run[r] = "COMPLETED"
                                 \/ /\ \A w \in WavesOf(d, r) : d.wave[w].status = "COMPLETED"
                                    /\ Undiscovered(d, r) = {}
      BY DEF Refresh
<1>2. e \in Dbs /\ e.obj = d.obj /\ e.wave = d.wave /\ e.next = d.next
      /\ e.run = [d.run EXCEPT ![r] = s]
      BY <1>1, Fields DEF Dbs
<1>3. InPlan(e) /\ Unborn(e) /\ Ordered(e)
      BY <1>2 DEF Good, InPlan, Unborn, Ordered, Untouched, Members
<1>4. ASSUME NEW o \in Objs, e.run[o[1]] = "COMPLETED" PROVE d.obj[o].state = "TRANSFERRED"
  <2>1. CASE d.run[o[1]] = "COMPLETED"
        BY <2>1 DEF Good, Finished
  <2>2. CASE d.run[o[1]] # "COMPLETED"
    <3>1. o[1] = r /\ s = "COMPLETED" /\ d.run[r] # "COMPLETED"
          BY <1>2, <1>4, <2>2, Shapes, Fields DEF Dbs
    <3>2. d.obj[o].state # "DISCOVERED"
          BY <1>1, <3>1 DEF Undiscovered, InState
    <3>3. d.obj[o].wave \in WavesOf(d, r) /\ d.obj[o].wave # 0
          BY <3>1, <3>2, Fields DEF Good, InPlan, WavesOf
    <3>. QED BY <1>1, <3>1, <3>3 DEF Good, Finished
  <2>. QED BY <2>1, <2>2
<1>5. Finished(e)
      BY <1>2, <1>4 DEF Good, Finished
<1>6. Plans(d, e)
      BY <1>2 DEF Plans, Keeps, Queued, Members
<1>. QED BY <1>2, <1>3, <1>5, <1>6 DEF Good

\* Waves with nothing but assigned objects give them back.
LEMMA UnassignGood ==
    ASSUME NEW d \in Good, NEW M \in SUBSET WaveIds,
           \A w \in M : \A o \in Members(d, w) : d.obj[o].state = "WAVE_ASSIGNED"
    PROVE  /\ Unassign(d, M) \in Good
           /\ \A w \in M : Members(Unassign(d, M), w) = {}
           /\ \A w \in WaveIds \ M : Members(Unassign(d, M), w) = Members(d, w)
<1>. DEFINE e == Unassign(d, M)
<1>1. /\ e.wave = d.wave /\ e.next = d.next /\ e.run = d.run
      /\ \A o \in Objs : e.obj[o] = IF d.obj[o].wave \in M
                                    THEN [state |-> "DISCOVERED", wave |-> 0] ELSE d.obj[o]
      BY Fields DEF Unassign, Dbs
<1>2. \A o \in Objs : e.obj[o] \in ObjRec
      BY <1>1, Fields, Shapes DEF ObjRec
<1>3. e \in Dbs
      BY <1>2, Fields DEF Unassign, Dbs
<1>4. \A o \in Objs : d.obj[o].wave \in M =>
            d.obj[o].state = "WAVE_ASSIGNED" /\ e.obj[o].state = "DISCOVERED" /\ e.obj[o].wave = 0
      BY <1>1 DEF Members
<1>5. \A o \in Objs : d.obj[o].wave \notin M => e.obj[o] = d.obj[o]
      BY <1>1
<1>6. InPlan(e) /\ Unborn(e)
      BY <1>1, <1>4, <1>5 DEF Good, InPlan, Unborn
<1>7. Finished(e)
      BY <1>1, <1>4, <1>5 DEF Good, Finished
<1>8. /\ \A w \in M : Members(e, w) = {}
      /\ \A w \in WaveIds \ M : Members(e, w) = Members(d, w)
      BY <1>4, <1>5, Shapes DEF Members
<1>9. \A w \in WaveIds : Untouched(d, w) => Untouched(e, w)
      BY <1>1, <1>8 DEF Untouched, Members
<1>10. Ordered(e)
      BY <1>1, <1>9 DEF Good, Ordered
<1>. QED BY <1>3, <1>6, <1>7, <1>8, <1>10 DEF Good

\* Objects of the inventory go to a scheduled wave of their source.
LEMMA AssignGood ==
    ASSUME NEW d \in Good, NEW w \in WaveIds, NEW r \in Runs, NEW S \in SUBSET Undiscovered(d, r),
           d.wave[w].run = r, d.wave[w].status = "RESTORE_SCHEDULED"
    PROVE  /\ Assign(d, w, S) \in Good
           /\ Assign(d, w, S).wave = d.wave
           /\ Members(Assign(d, w, S), w) = Members(d, w) \cup S
           /\ \A v \in WaveIds \ {w} : Members(Assign(d, w, S), v) = Members(d, v)
<1>. DEFINE e == Assign(d, w, S)
<1>1. /\ e.wave = d.wave /\ e.next = d.next /\ e.run = d.run
      /\ \A o \in Objs : e.obj[o] = IF o \in S THEN [state |-> "WAVE_ASSIGNED", wave |-> w]
                                    ELSE d.obj[o]
      BY Fields DEF Assign, Dbs
<1>2. \A o \in Objs : e.obj[o] \in ObjRec
      BY <1>1, Fields, Shapes DEF ObjRec
<1>3. e \in Dbs
      BY <1>2, Fields DEF Assign, Dbs
<1>4. \A o \in S : /\ o \in Objs /\ o[1] = r /\ d.obj[o].state = "DISCOVERED" /\ d.obj[o].wave = 0
                   /\ e.obj[o].state = "WAVE_ASSIGNED" /\ e.obj[o].wave = w
      BY <1>1 DEF Undiscovered, InState, Good, InPlan
<1>5. \A o \in Objs \ S : e.obj[o] = d.obj[o]
      BY <1>1
<1>6. InPlan(e) /\ Unborn(e)
      BY <1>1, <1>4, <1>5, Shapes DEF Good, InPlan, Unborn
<1>7. Finished(e)
      BY <1>1, <1>4, <1>5 DEF Good, Finished
<1>8. /\ Members(e, w) = Members(d, w) \cup S
      /\ \A v \in WaveIds \ {w} : Members(e, v) = Members(d, v)
      BY <1>4, <1>5, Shapes DEF Members
<1>9. \A v \in WaveIds \ {w} : Untouched(d, v) => Untouched(e, v)
  <2>. SUFFICES ASSUME NEW v \in WaveIds \ {w}, Untouched(d, v) PROVE Untouched(e, v)
       OBVIOUS
  <2>1. \A o \in Members(e, v) : o \in Members(d, v) /\ e.obj[o] = d.obj[o]
        BY <1>4, <1>5, <1>8 DEF Members
  <2>. QED BY <1>8, <2>1 DEF Untouched
<1>10. Untouched(e, w)
  <2>1. Untouched(d, w)
        BY DEF Good, Ordered
  <2>2. \A o \in Members(d, w) : o \notin S /\ e.obj[o] = d.obj[o]
        BY <1>4, <1>5, Shapes DEF Members
  <2>. QED BY <1>4, <1>8, <2>1, <2>2 DEF Untouched
<1>11. Ordered(e)
      BY <1>1, <1>9, <1>10 DEF Good, Ordered
<1>. QED BY <1>1, <1>3, <1>6, <1>7, <1>8, <1>11 DEF Good

-----------------------------------------------------------------------------
(* The plan *)

LEMMA ReconcileGood ==
    ASSUME NEW d \in Good
    PROVE  Reconcile(d) \in Good /\ Plans(d, Reconcile(d))
<1>. DEFINE e == Reconcile(d)
            Judged(w) == IF d.wave[w].run = 0 \/ IsPaused(d.wave[w].run) THEN d.wave[w]
                         ELSE [d.wave[w] EXCEPT !.status = Verdict(d, w)]
<1>1. /\ e.obj = d.obj /\ e.next = d.next /\ e.run = d.run
      /\ \A w \in WaveIds : e.wave[w] = Judged(w)
      BY Fields DEF Reconcile, Dbs
<1>2. ASSUME NEW w \in WaveIds
      PROVE  /\ Verdict(d, w) \in Statuses
             /\ Verdict(d, w) = "COMPLETED" =>
                   \A o \in Members(d, w) : d.obj[o].state = "TRANSFERRED"
             /\ Verdict(d, w) \in {"RESTORE_SCHEDULED", "FAILED"} => d.wave[w].status = Verdict(d, w)
             /\ d.wave[w].status = "FAILED" /\ Members(d, w) # {} => Verdict(d, w) = "FAILED"
  <2>. DEFINE states == {d.obj[o].state : o \in Members(d, w)}
  <2>1. \/ states \subseteq {"TRANSFERRED"} /\ Verdict(d, w) = "COMPLETED"
        \/ "RESTORING" \in states /\ Verdict(d, w) \in {"RESTORE_DRAINING", "RESTORING"}
        \/ "RESTORED" \in states /\ Verdict(d, w) = "TRANSFER_DRAINING"
        \/ ~(states \subseteq {"TRANSFERRED"}) /\ Verdict(d, w) = d.wave[w].status
        BY DEF Verdict
  <2>2. d.wave[w].status \in Statuses
        BY Fields DEF WaveRec
  <2>3. d.wave[w].status = "COMPLETED" => states \subseteq {"TRANSFERRED"}
        BY Shapes DEF Good, Finished, Members
  <2>4. ASSUME d.wave[w].status = "FAILED", Members(d, w) # {}
        PROVE  "WAVE_ASSIGNED" \in states /\ states \subseteq {"WAVE_ASSIGNED", "TRANSFERRED"}
        BY <2>4 DEF Good, Ordered, Untouched
  <2>. HIDE DEF states
  <2>5. Verdict(d, w) \in Statuses
        BY <2>1, <2>2 DEF Statuses, Active
  <2>6. Verdict(d, w) = "COMPLETED" => states \subseteq {"TRANSFERRED"}
        BY <2>1, <2>3
  <2>7. Verdict(d, w) \in {"RESTORE_SCHEDULED", "FAILED"} => d.wave[w].status = Verdict(d, w)
        BY <2>1
  <2>8. d.wave[w].status = "FAILED" /\ Members(d, w) # {} => Verdict(d, w) = "FAILED"
        BY <2>1, <2>4
  <2>. QED BY <2>5, <2>6, <2>7, <2>8 DEF states
<1>. HIDE DEF e
<1>3. \A w \in WaveIds : /\ Judged(w) \in WaveRec /\ Judged(w).run = d.wave[w].run
                         /\ Judged(w).task = d.wave[w].task
                         /\ Judged(w).status \in {d.wave[w].status, Verdict(d, w)}
      BY <1>2, Fields DEF WaveRec
<1>4. e \in Dbs
  <2>1. e = [d EXCEPT !.wave = [w \in WaveIds |-> Judged(w)]]
        BY DEF Reconcile, e
  <2>2. [w \in WaveIds |-> Judged(w)] \in [WaveIds -> WaveRec]
        BY <1>3
  <2>. HIDE DEF Judged
  <2>. QED BY <2>1, <2>2, Fields DEF Dbs
<1>5. \A w \in WaveIds : /\ e.wave[w].run = d.wave[w].run /\ e.wave[w].task = d.wave[w].task
                         /\ e.wave[w].status \in {d.wave[w].status, Verdict(d, w)}
                         /\ Members(e, w) = Members(d, w)
      BY <1>1, <1>3 DEF Members
<1>6. InPlan(e)
      BY <1>1, <1>5, Fields DEF Good, InPlan
<1>7. Unborn(e)
  <2>1. \A w \in WaveIds : w >= d.next => Judged(w) = d.wave[w]
        BY DEF Good, Unborn, NoWave
  <2>. QED BY <1>1, <2>1 DEF Good, Unborn
<1>8. Finished(e)
  <2>1. ASSUME NEW o \in Objs, d.obj[o].wave # 0, e.wave[d.obj[o].wave].status = "COMPLETED"
        PROVE  d.obj[o].state = "TRANSFERRED"
    <3>. DEFINE w == d.obj[o].wave
    <3>1. w \in WaveIds /\ o \in Members(d, w)
          BY <2>1, Fields DEF Members
    <3>2. d.wave[w].status = "COMPLETED" \/ Verdict(d, w) = "COMPLETED"
          BY <1>5, <2>1, <3>1
    <3>. QED BY <1>2, <2>1, <3>1, <3>2 DEF Good, Finished
  <2>. QED BY <1>1, <2>1 DEF Good, Finished
<1>9. \A w \in WaveIds : e.wave[w].status \in {"RESTORE_SCHEDULED", "FAILED"} =>
                            d.wave[w].status = e.wave[w].status
      BY <1>2, <1>5
<1>10. \A w \in WaveIds : Untouched(d, w) => Untouched(e, w)
      BY <1>1, <1>5 DEF Untouched
<1>11. Ordered(e)
      BY <1>5, <1>9, <1>10 DEF Good, Ordered
<1>12. Plans(d, e)
      BY <1>2, <1>5, <1>9 DEF Plans, Keeps, Queued
<1>. QED BY <1>4, <1>6, <1>7, <1>8, <1>11, <1>12 DEF Good, e

\* Replanning moves objects between the inventory and the waves, and no more.
Moves(d, e) ==
    /\ e.wave = d.wave
    /\ \A o \in Objs : \/ e.obj[o] = d.obj[o]
                       \/ {d.obj[o].state, e.obj[o].state} \subseteq {"DISCOVERED", "WAVE_ASSIGNED"}

LEMMA MovesTransitive ==
    ASSUME NEW d, NEW e, NEW f, Moves(d, e), Moves(e, f)
    PROVE  Moves(d, f)
    BY DEF Moves

LEMMA RefreshMoves ==
    ASSUME NEW d \in Good, NEW r \in Runs
    PROVE  Moves(d, Refresh(d, r))
    BY Fields DEF Refresh, Moves, Dbs

Replanned(d) == {e \in Good : Plans(d, e) /\ Moves(d, e)}

\* A mutable wave has no task.
LEMMA MutableIsFree ==
    ASSUME NEW d \in Good, NEW r \in Runs, NEW w \in Mutable(d, r)
    PROVE  /\ w \in WaveIds /\ d.wave[w].task = "NONE"
           /\ d.wave[w].run = r /\ d.wave[w].status = "RESTORE_SCHEDULED"
           /\ \A o \in Members(d, w) : d.obj[o].state = "WAVE_ASSIGNED"
<1>1. w \in WaveIds /\ d.wave[w].status = "RESTORE_SCHEDULED" /\ ~Queued(d, w) /\ d.wave[w].run = r
      BY DEF Mutable, WavesOf
<1>2. d.wave[w].task \in {"NONE", "SUBMIT", "POLL"}
      BY <1>1, Fields DEF WaveRec
<1>. QED BY <1>1, <1>2 DEF Mutable, Queued, Good, Ordered

LEMMA SliceIsPart == ASSUME NEW S PROVE NextSlice(S) \subseteq S
    BY DEF NextSlice

LEMMA UnassignReplanned ==
    ASSUME NEW d \in Good, NEW r \in Runs
    PROVE  Unassign(d, Mutable(d, r)) \in Replanned(d)
<1>. DEFINE M == Mutable(d, r)
            e == Unassign(d, M)
<1>1. \A w \in M : /\ w \in WaveIds /\ d.wave[w].task = "NONE"
                   /\ d.wave[w].status = "RESTORE_SCHEDULED"
                   /\ \A o \in Members(d, w) : d.obj[o].state = "WAVE_ASSIGNED"
      BY MutableIsFree
<1>. HIDE DEF M
<1>2. /\ e \in Good /\ \A w \in M : Members(e, w) = {}
      /\ \A w \in WaveIds \ M : Members(e, w) = Members(d, w)
      BY <1>1, UnassignGood
<1>3. /\ e.wave = d.wave
      /\ \A o \in Objs : e.obj[o] = IF d.obj[o].wave \in M
                                    THEN [state |-> "DISCOVERED", wave |-> 0] ELSE d.obj[o]
      BY Fields DEF Unassign, Dbs
<1>4. Moves(d, e)
      BY <1>1, <1>3 DEF Moves, Members
<1>5. Plans(d, e)
      BY <1>1, <1>2, <1>3 DEF Plans, Keeps, Queued
<1>. QED BY <1>2, <1>4, <1>5 DEF Replanned, M

LEMMA FillReplanned ==
    ASSUME NEW d \in Good, NEW r \in Runs, NEW e \in Replanned(d), NEW w \in Mutable(d, r)
    PROVE  Assign(e, w, NextSlice(Undiscovered(e, r))) \in Replanned(d)
<1>. DEFINE S == NextSlice(Undiscovered(e, r))
            f == Assign(e, w, S)
<1>1. e \in Good /\ Plans(d, e) /\ Moves(d, e) /\ e.wave = d.wave
      BY DEF Replanned, Moves
<1>2. /\ w \in WaveIds /\ e.wave[w].task = "NONE"
      /\ e.wave[w].run = r /\ e.wave[w].status = "RESTORE_SCHEDULED"
      BY <1>1, MutableIsFree
<1>3. S \in SUBSET Undiscovered(e, r)
      BY SliceIsPart
<1>. HIDE DEF S
<1>4. /\ f \in Good /\ f.wave = e.wave
      /\ \A v \in WaveIds \ {w} : Members(f, v) = Members(e, v)
      BY <1>1, <1>2, <1>3, AssignGood
<1>5. Plans(e, f)
      BY <1>2, <1>4 DEF Plans, Keeps, Queued
<1>6. \A o \in Objs : \/ f.obj[o] = e.obj[o]
                      \/ e.obj[o].state = "DISCOVERED" /\ f.obj[o].state = "WAVE_ASSIGNED"
      BY <1>1, <1>3, Fields DEF Assign, Dbs, Undiscovered, InState
<1>7. Moves(e, f)
      BY <1>4, <1>6 DEF Moves
<1>. QED BY <1>1, <1>4, <1>5, <1>7, PlansTransitive, MovesTransitive DEF Replanned, S

LEMMA RepackReplanned ==
    ASSUME NEW d \in Good, NEW r \in Runs
    PROVE  Repack(d, r) \in Replanned(d)
<1>. DEFINE M == Mutable(d, r)
            u == Unassign(d, M)
            St(e, w) == IF w \in M THEN Assign(e, w, NextSlice(Undiscovered(e, r))) ELSE e
            T == Replanned(d)
<1>1. MaxWaves \in Nat /\ u \in T
      BY UnassignReplanned, Shapes
<1>2. Repack(d, r) = Sweep(St, u, MaxWaves)
      BY DEF Repack
<1>3. \A e \in T, w \in 1..MaxWaves : St(e, w) \in T
      BY FillReplanned
<1>. HIDE DEF u, T
<1>. DEFINE Run(g) == [k \in 0..MaxWaves |-> IF k = 0 THEN u
                      ELSE CHOOSE y \in {St(z, k) : z \in {g[k - 1]}} : TRUE]
            it == CHOOSE g : g = Run(g)
            F  == [pair \in T \X (1..MaxWaves) |-> St(pair[1], pair[2])]
<1>4. Sweep(St, u, MaxWaves) = it[MaxWaves]
      BY DEF Sweep
<1>. HIDE DEF St
<1>5. \A z, k : (CHOOSE y \in {St(v, k) : v \in {z}} : TRUE) = St(z, k)
  <2>1. \A z, k : {St(v, k) : v \in {z}} = {St(z, k)}
        OBVIOUS
  <2>. QED BY <2>1
<1>6. PICK g \in [0..MaxWaves -> T] : Starts(g, F, u, MaxWaves)
      BY <1>1, <1>3, StepsExist
<1>7. ASSUME NEW k \in 1..MaxWaves PROVE g[k - 1] \in T /\ g[k] = St(g[k - 1], k)
  <2>1. k - 1 \in 0..MaxWaves
        BY <1>1
  <2>. QED BY <1>6, <2>1 DEF Starts
<1>8. g = Run(g)
      BY <1>5, <1>6, <1>7 DEF Starts
<1>9. it = Run(it)
      BY <1>8
<1>. HIDE DEF it
<1>10. it[0] = u /\ \A k \in 1..MaxWaves : it[k] = St(it[k - 1], k)
      BY <1>1, <1>5, <1>9
<1>11. Alike(g, it, MaxWaves)
      BY <1>6, <1>7, <1>10 DEF Starts, Alike
<1>. HIDE DEF F, Run
<1>12. g[MaxWaves] = it[MaxWaves]
      BY <1>1, <1>11, StepsAgree
<1>13. Sweep(St, u, MaxWaves) \in T
      BY <1>1, <1>4, <1>6, <1>12
<1>. QED BY <1>2, <1>13 DEF T

LEMMA LastIsNumber == Last \in Nat /\ Runs \subseteq 1..Last
<1>. DEFINE S == {0} \cup Runs
<1>0. IsFiniteSet(Runs) /\ Runs \subseteq Nat \ {0}
      BY RestoreAdmissionAssumption
<1>1. S \in SUBSET Nat /\ IsFiniteSet(S) /\ S # {} /\ Runs \subseteq Nat \ {0}
  <2>1. IsFiniteSet({0})
        BY FS_Singleton
  <2>2. IsFiniteSet(S)
        BY <1>0, <2>1, FS_Union
  <2>. QED BY <1>0, <2>2
<1>2. PICK x \in S : \A y \in S : x >= y
      BY <1>1, GreatestNumber DEF HasMax
<1>3. Last \in S /\ \A y \in S : Last >= y
      BY <1>2 DEF Last, Max
<1>. QED BY <1>1, <1>3

LEMMA ReplanRunReplanned ==
    ASSUME NEW d \in Good, NEW r \in Runs
    PROVE  ReplanRun(d, r) \in Replanned(d)
<1>. DEFINE e == Refresh(d, r)
<1>1. e \in Good /\ Plans(d, e) /\ Moves(d, e)
      BY RefreshGood, RefreshMoves
<1>2. Repack(e, r) \in Replanned(e)
      BY <1>1, RepackReplanned
<1>. QED BY <1>1, <1>2, PlansTransitive, MovesTransitive DEF ReplanRun, Replanned

LEMMA ReplanReplanned ==
    ASSUME NEW d \in Good
    PROVE  Replan(d) \in Replanned(d)
<1>. DEFINE St(e, r) == IF Awake(e, r) THEN ReplanRun(e, r) ELSE e
            T == Replanned(d)
<1>1. Last \in Nat /\ d \in T
      BY LastIsNumber, PlansReflexive DEF Replanned, Moves
<1>2. Replan(d) = Sweep(St, d, Last)
      BY DEF Replan
<1>3. ASSUME NEW e \in T, NEW r \in 1..Last PROVE St(e, r) \in T
  <2>1. CASE Awake(e, r)
    <3>1. r \in Runs /\ e \in Good /\ Plans(d, e) /\ Moves(d, e)
          BY <2>1 DEF Awake, Replanned
    <3>2. ReplanRun(e, r) \in Replanned(e)
          BY <3>1, ReplanRunReplanned
    <3>. QED BY <2>1, <3>1, <3>2, PlansTransitive, MovesTransitive DEF Replanned
  <2>. QED BY <2>1
<1>. HIDE DEF T
<1>. DEFINE Run(g) == [k \in 0..Last |-> IF k = 0 THEN d
                      ELSE CHOOSE y \in {St(z, k) : z \in {g[k - 1]}} : TRUE]
            it == CHOOSE g : g = Run(g)
            F  == [pair \in T \X (1..Last) |-> St(pair[1], pair[2])]
<1>4. Sweep(St, d, Last) = it[Last]
      BY DEF Sweep
<1>. HIDE DEF St
<1>5. \A z, k : (CHOOSE y \in {St(v, k) : v \in {z}} : TRUE) = St(z, k)
  <2>1. \A z, k : {St(v, k) : v \in {z}} = {St(z, k)}
        OBVIOUS
  <2>. QED BY <2>1
<1>6. PICK g \in [0..Last -> T] : Starts(g, F, d, Last)
      BY <1>1, <1>3, StepsExist
<1>7. ASSUME NEW k \in 1..Last PROVE g[k - 1] \in T /\ g[k] = St(g[k - 1], k)
  <2>1. k - 1 \in 0..Last
        BY <1>1
  <2>. QED BY <1>6, <2>1 DEF Starts
<1>8. g = Run(g)
      BY <1>5, <1>6, <1>7 DEF Starts
<1>9. it = Run(it)
      BY <1>8
<1>. HIDE DEF it
<1>10. it[0] = d /\ \A k \in 1..Last : it[k] = St(it[k - 1], k)
      BY <1>1, <1>5, <1>9
<1>11. Alike(g, it, Last)
      BY <1>6, <1>7, <1>10 DEF Starts, Alike
<1>. HIDE DEF F, Run
<1>12. g[Last] = it[Last]
      BY <1>1, <1>11, StepsAgree
<1>13. Sweep(St, d, Last) \in T
      BY <1>1, <1>4, <1>6, <1>12
<1>. QED BY <1>2, <1>13 DEF T

LEMMA SlotNumbers ==
    /\ SlotCeiling \in Nat
    /\ \A d, r : SlotLimit(d, r) \in Nat
<1>1. SlotSetting \in Nat
      BY RestoreAdmissionAssumption
<1>2. SlotCeiling \in Nat
      BY <1>1 DEF SlotCeiling, Larger, Smaller
<1>3. Smaller(SlotCeiling, 3) \in Nat
      BY <1>2 DEF Smaller
<1>4. \A d, r : SlotLimit(d, r) \in {2, Smaller(SlotCeiling, 3)}
      BY DEF SlotLimit
<1>. QED BY <1>2, <1>3, <1>4

Planned(d) == {e \in Good : Plans(d, e)}

\* A new wave takes the next number, which no object has yet.
Born(e, r, now) ==
    [e EXCEPT !.next = e.next + 1,
              !.wave[e.next] = [NoWave EXCEPT !.run = r, !.status = "RESTORE_SCHEDULED",
                                              !.late = now]]

LEMMA BirthGood ==
    ASSUME NEW d \in Good, NEW r \in Runs, NEW now \in BOOLEAN, d.next <= MaxWaves
    PROVE  LET e == Born(d, r, now)
           IN  /\ e \in Good /\ Plans(d, e) /\ d.next \in WaveIds
               /\ e.wave[d.next].run = r /\ e.wave[d.next].task = "NONE"
               /\ e.wave[d.next].status = "RESTORE_SCHEDULED"
               /\ Undiscovered(e, r) = Undiscovered(d, r)
<1>. DEFINE e == Born(d, r, now)
            n == d.next
            new == [NoWave EXCEPT !.run = r, !.status = "RESTORE_SCHEDULED", !.late = now]
<1>1. n \in WaveIds /\ n + 1 \in 1..MaxWaves + 1 /\ d.wave[n] = NoWave
      BY Fields, Shapes DEF Dbs, WaveIds, Good, Unborn
<1>2. new.run = r /\ new.status = "RESTORE_SCHEDULED" /\ new.task = "NONE"
      BY DEF NoWave
<1>3. new \in WaveRec
  <2>1. NoWave \in WaveRec
        BY DEF NoWave, WaveRec, Statuses
  <2>2. "RESTORE_SCHEDULED" \in Statuses
        BY DEF Statuses
  <2>. HIDE DEF NoWave, Statuses
  <2>. QED BY <2>1, <2>2 DEF WaveRec
<1>. HIDE DEF new
<1>4. /\ e.obj = d.obj /\ e.next = n + 1 /\ e.run = d.run /\ e.wave = [d.wave EXCEPT ![n] = new]
      /\ e = [d EXCEPT !.next = n + 1, !.wave = [d.wave EXCEPT ![n] = new]]
      BY Fields DEF Born, Dbs, new
<1>. HIDE DEF e
<1>5. e \in Dbs
  <2>1. [d.wave EXCEPT ![n] = new] \in [WaveIds -> WaveRec]
        BY <1>3, Fields DEF Dbs
  <2>. QED BY <1>1, <1>4, <2>1, Fields DEF Dbs
<1>6. \A w \in WaveIds : e.wave[w] = IF w = n THEN new ELSE d.wave[w]
      BY <1>4, Fields DEF Dbs
<1>7. \A o \in Objs : d.obj[o].wave # n
      BY <1>1, Shapes DEF Good, InPlan, NoWave
<1>8. /\ \A w \in WaveIds : Members(e, w) = Members(d, w)
      /\ Members(e, n) = {}
      BY <1>4, <1>7 DEF Members
<1>9. InPlan(e)
      BY <1>4, <1>6, <1>7, Fields DEF Good, InPlan
<1>10. Unborn(e)
      BY <1>1, <1>4, <1>6, Shapes DEF Good, Unborn, WaveIds
<1>11. Finished(e)
      BY <1>4, <1>6, <1>7, Fields DEF Good, Finished
<1>12. Ordered(e)
  <2>1. \A w \in WaveIds : Untouched(d, w) => Untouched(e, w)
        BY <1>4, <1>8 DEF Untouched
  <2>2. Untouched(e, n)
        BY <1>8 DEF Untouched
  <2>. QED BY <1>2, <1>6, <2>1, <2>2 DEF Good, Ordered
<1>13. Plans(d, e)
      BY <1>1, <1>2, <1>6, <1>8 DEF Plans, Keeps, Queued, NoWave
<1>14. Undiscovered(e, r) = Undiscovered(d, r)
      BY <1>4 DEF Undiscovered, InState
<1>. QED BY <1>1, <1>2, <1>5, <1>6, <1>9, <1>10, <1>11, <1>12, <1>13, <1>14 DEF Good, e

LEMMA BornPlanned ==
    ASSUME NEW d \in Good, NEW r \in Runs, NEW now \in BOOLEAN, d.next <= MaxWaves
    PROVE  Assign(Born(d, r, now), d.next, NextSlice(Undiscovered(d, r))) \in Planned(d)
<1>. DEFINE e == Born(d, r, now)
            w == d.next
            S == NextSlice(Undiscovered(d, r))
            f == Assign(e, w, S)
<1>1. /\ e \in Good /\ Plans(d, e) /\ w \in WaveIds
      /\ e.wave[w].run = r /\ e.wave[w].task = "NONE"
      /\ e.wave[w].status = "RESTORE_SCHEDULED"
      /\ Undiscovered(e, r) = Undiscovered(d, r)
      BY BirthGood
<1>2. S \in SUBSET Undiscovered(e, r)
      BY <1>1, SliceIsPart
<1>. HIDE DEF e, S
<1>3. /\ f \in Good /\ f.wave = e.wave
      /\ \A v \in WaveIds \ {w} : Members(f, v) = Members(e, v)
      BY <1>1, <1>2, AssignGood
<1>4. Plans(e, f)
      BY <1>1, <1>3 DEF Plans, Keeps, Queued
<1>. QED BY <1>1, <1>3, <1>4, PlansTransitive DEF Planned, e, S

LEMMA MaterializePlanned ==
    ASSUME NEW d \in Good, NEW r \in Runs, NEW soon \in BOOLEAN
    PROVE  Materialize(d, r, soon) \in Planned(d)
<1>. DEFINE slots   == SlotLimit(d, r)
            horizon == IF slots = 2 THEN Horizon ELSE Larger(Horizon, slots + 1)
            St(e, k) ==
                LET S   == NextSlice(Undiscovered(e, r))
                    now == soon \/ WavesOf(e, r) = {}
                IN  IF \/ Cardinality(Ahead(e, r)) >= horizon
                       \/ S = {} \/ e.next > MaxWaves THEN e
                    ELSE Assign([e EXCEPT !.next = e.next + 1,
                                          !.wave[e.next] =
                           [NoWave EXCEPT !.run = r, !.status = "RESTORE_SCHEDULED",
                                          !.late = now]], e.next, S)
            s == Refresh(d, r)
            T == Planned(d)
<1>1. horizon \in Nat /\ s \in T
  <2>1. Horizon \in Nat /\ slots \in Nat
        BY SlotNumbers, RestoreAdmissionAssumption
  <2>2. s \in T
        BY RefreshGood DEF Planned
  <2>. HIDE DEF slots
  <2>. QED BY <2>1, <2>2 DEF Larger
<1>2. Materialize(d, r, soon) = IF Governed(s, r) THEN Refresh(Sweep(St, s, horizon), r) ELSE s
      BY DEF Materialize
<1>. HIDE DEF slots, horizon
<1>3. ASSUME NEW e \in T, NEW k \in 1..horizon PROVE St(e, k) \in T
  <2>. DEFINE now == soon \/ WavesOf(e, r) = {}
  <2>1. e \in Good /\ Plans(d, e) /\ e.next \in Nat /\ MaxWaves \in Nat
        BY Fields, Shapes DEF Planned, Dbs
  <2>2. now \in BOOLEAN
        OBVIOUS
  <2>3. \/ St(e, k) = e
        \/ e.next <= MaxWaves
           /\ St(e, k) = Assign(Born(e, r, now), e.next, NextSlice(Undiscovered(e, r)))
        BY <2>1 DEF Born
  <2>. HIDE DEF now, St
  <2>4. ASSUME e.next <= MaxWaves,
               St(e, k) = Assign(Born(e, r, now), e.next, NextSlice(Undiscovered(e, r)))
        PROVE  St(e, k) \in T
    <3>1. St(e, k) \in Planned(e)
          BY <2>1, <2>2, <2>4, BornPlanned
    <3>. QED BY <2>1, <3>1, PlansTransitive DEF Planned
  <2>. QED BY <2>3, <2>4
<1>. HIDE DEF s, T
<1>. DEFINE Run(g) == [k \in 0..horizon |-> IF k = 0 THEN s
                      ELSE CHOOSE y \in {St(z, k) : z \in {g[k - 1]}} : TRUE]
            it == CHOOSE g : g = Run(g)
            F  == [pair \in T \X (1..horizon) |-> St(pair[1], pair[2])]
<1>4. Sweep(St, s, horizon) = it[horizon]
      BY DEF Sweep
<1>. HIDE DEF St
<1>5. \A z, k : (CHOOSE y \in {St(v, k) : v \in {z}} : TRUE) = St(z, k)
  <2>1. \A z, k : {St(v, k) : v \in {z}} = {St(z, k)}
        OBVIOUS
  <2>. QED BY <2>1
<1>6. PICK g \in [0..horizon -> T] : Starts(g, F, s, horizon)
      BY <1>1, <1>3, StepsExist
<1>7. ASSUME NEW k \in 1..horizon PROVE g[k - 1] \in T /\ g[k] = St(g[k - 1], k)
  <2>1. k - 1 \in 0..horizon
        BY <1>1
  <2>. QED BY <1>6, <2>1 DEF Starts
<1>8. g = Run(g)
      BY <1>5, <1>6, <1>7 DEF Starts
<1>9. it = Run(it)
      BY <1>8
<1>. HIDE DEF it
<1>10. it[0] = s /\ \A k \in 1..horizon : it[k] = St(it[k - 1], k)
      BY <1>1, <1>5, <1>9
<1>11. Alike(g, it, horizon)
      BY <1>6, <1>7, <1>10 DEF Starts, Alike
<1>. HIDE DEF F, Run
<1>12. g[horizon] = it[horizon]
      BY <1>1, <1>11, StepsAgree
<1>13. Sweep(St, s, horizon) \in T
      BY <1>1, <1>4, <1>6, <1>12
<1>14. Refresh(Sweep(St, s, horizon), r) \in T
  <2>. DEFINE f == Sweep(St, s, horizon)
  <2>1. f \in Good /\ Plans(d, f)
        BY <1>13 DEF T, Planned
  <2>. HIDE DEF f
  <2>2. Refresh(f, r) \in Good /\ Plans(f, Refresh(f, r))
        BY <2>1, RefreshGood
  <2>. QED BY <2>1, <2>2, PlansTransitive DEF f, T, Planned
<1>. QED BY <1>1, <1>2, <1>14 DEF T

\* The planning half of a cycle of Shin.
LEMMA PlanPlanned ==
    ASSUME NEW d \in Good, NEW soon
    PROVE  LET plan(e, r) == IF Awake(e, r) THEN Materialize(e, r, r \in soon) ELSE e
           IN  Sweep(plan, Replan(Reconcile(d)), Last) \in Planned(d)
<1>. DEFINE St(e, r) == IF Awake(e, r) THEN Materialize(e, r, r \in soon) ELSE e
            s == Replan(Reconcile(d))
            T == Planned(d)
<1>1. Last \in Nat /\ s \in T
  <2>1. Reconcile(d) \in Good /\ Plans(d, Reconcile(d))
        BY ReconcileGood
  <2>2. s \in Good /\ Plans(Reconcile(d), s)
        BY <2>1, ReplanReplanned DEF Replanned
  <2>. QED BY <2>1, <2>2, LastIsNumber, PlansTransitive DEF Planned
<1>2. ASSUME NEW e \in T, NEW r \in 1..Last PROVE St(e, r) \in T
  <2>1. CASE Awake(e, r)
    <3>1. r \in Runs /\ e \in Good /\ Plans(d, e) /\ (r \in soon) \in BOOLEAN
          BY <2>1 DEF Awake, Planned
    <3>2. Materialize(e, r, r \in soon) \in Planned(e)
          BY <3>1, MaterializePlanned
    <3>. QED BY <2>1, <3>1, <3>2, PlansTransitive DEF Planned
  <2>. QED BY <2>1
<1>. HIDE DEF T, s
<1>. DEFINE Run(g) == [k \in 0..Last |-> IF k = 0 THEN s
                      ELSE CHOOSE y \in {St(z, k) : z \in {g[k - 1]}} : TRUE]
            it == CHOOSE g : g = Run(g)
            F  == [pair \in T \X (1..Last) |-> St(pair[1], pair[2])]
<1>3. Sweep(St, s, Last) = it[Last]
      BY DEF Sweep
<1>. HIDE DEF St
<1>4. \A z, k : (CHOOSE y \in {St(v, k) : v \in {z}} : TRUE) = St(z, k)
  <2>1. \A z, k : {St(v, k) : v \in {z}} = {St(z, k)}
        OBVIOUS
  <2>. QED BY <2>1
<1>5. PICK g \in [0..Last -> T] : Starts(g, F, s, Last)
      BY <1>1, <1>2, StepsExist
<1>6. ASSUME NEW k \in 1..Last PROVE g[k - 1] \in T /\ g[k] = St(g[k - 1], k)
  <2>1. k - 1 \in 0..Last
        BY <1>1
  <2>. QED BY <1>5, <2>1 DEF Starts
<1>7. g = Run(g)
      BY <1>4, <1>5, <1>6 DEF Starts
<1>8. it = Run(it)
      BY <1>7
<1>. HIDE DEF it
<1>9. it[0] = s /\ \A k \in 1..Last : it[k] = St(it[k - 1], k)
      BY <1>1, <1>4, <1>8
<1>10. Alike(g, it, Last)
      BY <1>5, <1>6, <1>9 DEF Starts, Alike
<1>. HIDE DEF F, Run
<1>11. g[Last] = it[Last]
      BY <1>1, <1>10, StepsAgree
<1>12. Sweep(St, s, Last) \in T
      BY <1>1, <1>3, <1>5, <1>11
<1>. QED BY <1>12 DEF T, s, St

-----------------------------------------------------------------------------
(* Bytes, slots and grants are numbers *)

LEMMA WavesAreFew ==
    ASSUME NEW W \in SUBSET WaveIds
    PROVE  IsFiniteSet(W) /\ Cardinality(W) \in Nat
<1>1. IsFiniteSet(WaveIds)
      BY Shapes, FS_Interval DEF WaveIds
<1>. QED BY <1>1, FS_Subset, FS_CardinalityType

LEMMA CountIsFinite == ASSUME NEW n \in Nat PROVE IsFiniteSet(1..n)
    BY FS_Interval

LEMMA FamilyIsFinite ==
    ASSUME NEW S, IsFiniteSet(S), NEW f, DOMAIN f = S
    PROVE  IsFiniteSet({f[x] : x \in S})
<1>. DEFINE g == [x \in S |-> f[x]]
            T == {f[x] : x \in S}
<1>1. g \in Surjection(S, T)
      BY DEF Surjection
<1>. QED BY <1>1, FS_Surjection

LEMMA ObjsAreFew == IsFiniteSet(Objs)
<1>. DEFINE of(r) == {r} \X (1..Len(Sizes[r]))
            f == [r \in Runs |-> of(r)]
            All == {f[r] : r \in Runs}
<1>1. IsFiniteSet(Runs) /\ Sizes \in [Runs -> Seq(Nat \ {0})]
      BY RestoreAdmissionAssumption
<1>2. ASSUME NEW r \in Runs PROVE IsFiniteSet(of(r))
  <2>1. Len(Sizes[r]) \in Nat
        BY <1>1, LenProperties
  <2>2. IsFiniteSet({r}) /\ IsFiniteSet(1..Len(Sizes[r]))
        BY <2>1, FS_Singleton, CountIsFinite
  <2>. QED BY <2>2, FS_Product
<1>3. IsFiniteSet(All)
  <2>. HIDE DEF of
  <2>1. DOMAIN f = Runs
        OBVIOUS
  <2>. HIDE DEF f
  <2>. QED BY <1>1, <2>1, FamilyIsFinite
<1>4. IsFiniteSet(UNION All)
      BY <1>2, <1>3, FS_UNION
<1>. QED BY <1>4 DEF Objs

LEMMA BytesAreFew ==
    ASSUME NEW S \in SUBSET Objs
    PROVE  IsFiniteSet(UNION {{o} \X (1..Sizes[o[1]][o[2]]) : o \in S})
<1>. DEFINE of(o) == {o} \X (1..Sizes[o[1]][o[2]])
            f == [o \in S |-> of(o)]
            All == {f[o] : o \in S}
<1>1. IsFiniteSet(S)
      BY ObjsAreFew, FS_Subset
<1>2. ASSUME NEW o \in S PROVE IsFiniteSet(of(o))
  <2>1. Sizes[o[1]][o[2]] \in Nat
    <3>1. o[1] \in Runs /\ o[2] \in 1..Len(Sizes[o[1]])
          BY DEF Objs
    <3>2. Sizes[o[1]] \in Seq(Nat \ {0})
          BY <3>1, RestoreAdmissionAssumption
    <3>. QED BY <3>1, <3>2, ElementOfSeq
  <2>2. IsFiniteSet({o}) /\ IsFiniteSet(1..Sizes[o[1]][o[2]])
        BY <2>1, FS_Singleton, CountIsFinite
  <2>. QED BY <2>2, FS_Product
<1>3. IsFiniteSet(All)
  <2>. HIDE DEF of
  <2>1. DOMAIN f = S
        OBVIOUS
  <2>. HIDE DEF f
  <2>. QED BY <1>1, <2>1, FamilyIsFinite
<1>4. IsFiniteSet(UNION All)
      BY <1>2, <1>3, FS_UNION
<1>. QED BY <1>4

LEMMA BytesNumber == ASSUME NEW S \in SUBSET Objs PROVE Bytes(S) \in Nat
    BY BytesAreFew, FS_CardinalityType DEF Bytes

LEMMA SecondsNumber ==
    ASSUME rate \in Nat, NEW b \in Nat
    PROVE  Seconds(b) \in Int
<1>. DEFINE q == IF rate = 0 THEN ColdRate ELSE rate
<1>1. q \in Nat /\ q > 0
      BY RestoreAdmissionAssumption
<1>2. Seconds(b) = (b + q - 1) \div q
      BY DEF Seconds
<1>. HIDE DEF q
<1>. QED BY <1>1, <1>2

LEMMA GlobalNumber == ASSUME NEW d PROVE GlobalLimit(d) \in Nat
<1>. DEFINE c == Smaller(SlotCeiling, 3)
            S == {2} \cup {SlotLimit(d, r) : r \in {s \in Runs :
                        d.run[s] \notin {"NONE", "COMPLETED", "NEEDS_ATTENTION"} /\ ~IsPaused(s)}}
<1>1. c \in Nat /\ SlotCeiling \in Nat
      BY SlotNumbers DEF Smaller
<1>2. S \subseteq {2, c} /\ 2 \in S
      BY DEF SlotLimit
<1>. HIDE DEF c, S
<1>3. PICK x \in S : \A y \in S : x >= y
  <2>1. CASE c \in S /\ c >= 2
        BY <1>1, <1>2, <2>1
  <2>2. CASE ~(c \in S /\ c >= 2)
    <3>1. \A y \in S : 2 >= y
          BY <1>1, <1>2, <2>2
    <3>. QED BY <1>2, <3>1
  <2>. QED BY <2>1, <2>2
<1>4. Max(S) \in {2, c}
      BY <1>2, <1>3 DEF Max
<1>5. GlobalLimit(d) = Smaller(SlotCeiling, Max(S))
      BY DEF GlobalLimit, S
<1>. QED BY <1>1, <1>4, <1>5 DEF Smaller

LEMMA FreeNumber == ASSUME NEW d PROVE FreeSlots(d) \in Nat
<1>. DEFINE W == UNION {Occupied(d, r) : r \in {s \in Runs : ~IsPaused(s)}}
<1>1. W \in SUBSET WaveIds
      BY DEF Occupied, WavesOf
<1>. HIDE DEF W
<1>2. Cardinality(W) \in Nat
      BY <1>1, WavesAreFew
<1>. QED BY <1>2, GlobalNumber DEF FreeSlots, Larger, W

GrantTable == [Projects \ paused -> Nat]

LEMMA GrantNumbers == ASSUME NEW d PROVE Grants(d) \in GrantTable
<1>. DEFINE open == Projects \ paused
            waves(P, S) == {w \in WaveIds : /\ d.wave[w].status \in S
                                            /\ Project[d.wave[w].run] \in P}
            demand == [p \in open |-> Cardinality(waves({p}, {"RESTORE_SCHEDULED"}))]
            St(g, k) == LET wait == {p \in open : demand[p] > g[p]}
                            next == CHOOSE p \in wait : \A q \in wait :
                                       g[p] < g[q] \/ (g[p] = g[q] /\ p <= q)
                        IN  IF wait = {} THEN g ELSE [g EXCEPT ![next] = g[next] + 1]
            n == Larger(0, GlobalLimit(d) - Cardinality(waves(open, Active)))
            s == [p \in open |-> 0]
            T == GrantTable
<1>1. n \in Nat /\ s \in T
  <2>. DEFINE W == waves(open, Active)
  <2>1. W \in SUBSET WaveIds
        OBVIOUS
  <2>. HIDE DEF W
  <2>2. Cardinality(W) \in Nat
        BY <2>1, WavesAreFew
  <2>3. n \in Nat
        BY <2>2, GlobalNumber DEF Larger, W
  <2>. QED BY <2>3 DEF GrantTable
<1>2. Grants(d) = Sweep(St, s, n)
      BY DEF Grants
<1>. HIDE DEF demand, n
<1>3. ASSUME NEW g \in T, NEW k \in 1..n PROVE St(g, k) \in T
  <2>. DEFINE wait == {p \in open : demand[p] > g[p]}
              next == CHOOSE p \in wait : \A q \in wait :
                         g[p] < g[q] \/ (g[p] = g[q] /\ p <= q)
  <2>1. St(g, k) = g \/ St(g, k) = [g EXCEPT ![next] = g[next] + 1]
        OBVIOUS
  <2>. HIDE DEF next, St
  <2>. QED BY <2>1 DEF GrantTable
<1>. HIDE DEF s, T
<1>. DEFINE Run(g) == [k \in 0..n |-> IF k = 0 THEN s
                      ELSE CHOOSE y \in {St(z, k) : z \in {g[k - 1]}} : TRUE]
            it == CHOOSE g : g = Run(g)
            F  == [pair \in T \X (1..n) |-> St(pair[1], pair[2])]
<1>4. Sweep(St, s, n) = it[n]
      BY DEF Sweep
<1>. HIDE DEF St
<1>5. \A z, k : (CHOOSE y \in {St(v, k) : v \in {z}} : TRUE) = St(z, k)
  <2>1. \A z, k : {St(v, k) : v \in {z}} = {St(z, k)}
        OBVIOUS
  <2>. QED BY <2>1
<1>6. PICK g \in [0..n -> T] : Starts(g, F, s, n)
      BY <1>1, <1>3, StepsExist
<1>7. ASSUME NEW k \in 1..n PROVE g[k - 1] \in T /\ g[k] = St(g[k - 1], k)
  <2>1. k - 1 \in 0..n
        BY <1>1
  <2>. QED BY <1>6, <2>1 DEF Starts
<1>8. g = Run(g)
      BY <1>5, <1>6, <1>7 DEF Starts
<1>9. it = Run(it)
      BY <1>8
<1>. HIDE DEF it
<1>10. it[0] = s /\ \A k \in 1..n : it[k] = St(it[k - 1], k)
      BY <1>1, <1>5, <1>9
<1>11. Alike(g, it, n)
      BY <1>6, <1>7, <1>10 DEF Starts, Alike
<1>. HIDE DEF F, Run
<1>12. g[n] = it[n]
      BY <1>1, <1>11, StepsAgree
<1>13. Sweep(St, s, n) \in T
      BY <1>1, <1>4, <1>6, <1>12
<1>. QED BY <1>2, <1>13 DEF T

-----------------------------------------------------------------------------
(* The admission *)

\* A release queues submissions of scheduled waves and does no more to them.
Releases(d, e) ==
    /\ e.obj = d.obj
    /\ \A w \in WaveIds :
          /\ e.wave[w].run = d.wave[w].run /\ e.wave[w].status = d.wave[w].status
          /\ \/ e.wave[w].task = d.wave[w].task
             \/ /\ d.wave[w].status = "RESTORE_SCHEDULED"
                /\ d.wave[w].task = "NONE" /\ e.wave[w].task = "SUBMIT"

LEMMA ReleasesTransitive ==
    ASSUME NEW d, NEW e, NEW f, Releases(d, e), Releases(e, f)
    PROVE  Releases(d, f)
    BY DEF Releases

NewlyQueued(d, e, r) == {w \in WavesOf(e, r) : Queued(e, w) /\ ~Queued(d, w)}

Stopped(d, r) == \E w \in WavesOf(d, r) : d.wave[w].status = "FAILED" /\ Members(d, w) # {}

StockAtRestore(d, r) == Larger(0, Seconds(Bytes(Stock(d, r))) - Lead)

WithinBuffer(d, r, w) ==
    StockAtRestore(d, r) >= MinBuffer =>
        StockAtRestore(d, r) + Seconds(Bytes(Members(d, w))) <= MaxBuffer

\* What AdmissionIsJustified asks of the pipeline r between d and e.
Justified(d, e, r) ==
    NewlyQueued(d, e, r) # {} =>
        /\ ~IsPaused(r) /\ ~Stopped(d, r)
        /\ Cardinality(Occupied(e, r)) <= SlotLimit(e, r)
        /\ \A w \in NewlyQueued(d, e, r) : WithinBuffer(e, r, w)

\* Slots and stock depend on what is restored or being restored.
LEMMA ReleaseKeepsSlots ==
    ASSUME NEW d, NEW e, Releases(d, e), NEW r
    PROVE  /\ SlotLimit(e, r) = SlotLimit(d, r)
           /\ StockAtRestore(e, r) = StockAtRestore(d, r)
           /\ WavesOf(e, r) = WavesOf(d, r)
           /\ \A w : Members(e, w) = Members(d, w)
<1>1. /\ Stock(e, r) = Stock(d, r) /\ WavesOf(e, r) = WavesOf(d, r)
      /\ \A w : Members(e, w) = Members(d, w)
      BY DEF Releases, Stock, InState, WavesOf, Members
<1>. DEFINE owed(f) == {o \in InState(f, {"RESTORING"}) :
                           f.obj[o].wave \in {w \in WavesOf(f, r) : f.wave[w].status \in Active}}
<1>2. {w \in WavesOf(e, r) : e.wave[w].status \in Active} =
      {w \in WavesOf(d, r) : d.wave[w].status \in Active}
      BY <1>1 DEF Releases, WavesOf
<1>3. owed(e) = owed(d)
      BY <1>2 DEF Releases, InState
<1>4. \A f : SlotLimit(f, r) =
                IF /\ rate # 0
                   /\ Retention > RestoreSeconds + TargetBuffer
                   /\ Seconds(Bytes(Stock(f, r) \cup owed(f))) < RestoreSeconds + TargetBuffer
                THEN Smaller(SlotCeiling, 3) ELSE 2
      BY DEF SlotLimit
<1>. HIDE DEF owed
<1>. QED BY <1>1, <1>3, <1>4 DEF StockAtRestore

LEMMA QueueGood ==
    ASSUME NEW d \in Good, NEW w \in WaveIds,
           d.wave[w].status = "RESTORE_SCHEDULED", ~Queued(d, w)
    PROVE  /\ Queue(d, w) \in Good /\ Releases(d, Queue(d, w))
           /\ \A v \in WaveIds \ {w} : Queue(d, w).wave[v] = d.wave[v]
           /\ Queued(Queue(d, w), w)
<1>. DEFINE e == Queue(d, w)
            new == [d.wave[w] EXCEPT !.task = "SUBMIT", !.late = FALSE]
<1>1. d.wave[w] \in WaveRec /\ d.wave[w].task = "NONE"
  <2>1. d.wave[w] \in WaveRec /\ d.wave[w].task \in {"NONE", "SUBMIT", "POLL"}
        BY Fields DEF WaveRec
  <2>. QED BY <2>1 DEF Queued, Good, Ordered
<1>2. /\ new \in WaveRec /\ new.run = d.wave[w].run /\ new.status = d.wave[w].status
      /\ new.task = "SUBMIT"
      BY <1>1 DEF WaveRec
<1>3. e = [d EXCEPT !.wave = [d.wave EXCEPT ![w] = new]]
      BY <1>1, Fields DEF Queue, Dbs, WaveRec
<1>. HIDE DEF new, e
<1>4. /\ [d.wave EXCEPT ![w] = new] \in [WaveIds -> WaveRec]
      /\ \A v \in WaveIds : [d.wave EXCEPT ![w] = new][v] = IF v = w THEN new ELSE d.wave[v]
      BY <1>2, Fields DEF Dbs
<1>5. e \in Dbs /\ e.obj = d.obj /\ e.next = d.next /\ e.run = d.run
      /\ \A v \in WaveIds : e.wave[v] = IF v = w THEN new ELSE d.wave[v]
      BY <1>3, <1>4, Fields DEF Dbs
<1>6. Releases(d, e)
      BY <1>1, <1>2, <1>5 DEF Releases
<1>7. w < d.next
      BY Fields, Shapes DEF Good, Unborn, NoWave, Dbs
<1>8. Unborn(e)
      BY <1>5, <1>7, Shapes, Fields DEF Good, Unborn, Dbs
<1>9. InPlan(e)
      BY <1>2, <1>5, Fields DEF Good, InPlan
<1>10. Finished(e)
      BY <1>2, <1>5, Fields DEF Good, Finished
<1>11. Ordered(e)
  <2>1. \A v \in WaveIds : Untouched(d, v) => Untouched(e, v)
        BY <1>5 DEF Untouched, Members
  <2>. QED BY <1>2, <1>5, <2>1 DEF Good, Ordered
<1>. QED BY <1>2, <1>5, <1>6, <1>8, <1>9, <1>10, <1>11 DEF Good, Queued, e

\* The decisions on the waves of one pipeline, from the database s on.
Admissions(s, r, capacity) ==
    {a \in [d : Good, occupied : Nat, at : Int, blocked : BOOLEAN, new : {db.next},
            projected : Int] :
        /\ Releases(s, a.d)
        /\ \A w \in WaveIds : a.d.wave[w] # s.wave[w] => w \in WavesOf(s, r)
        /\ a.occupied = Cardinality(Occupied(a.d, r))
        /\ NewlyQueued(s, a.d, r) # {} => a.occupied <= capacity
        /\ Larger(0, a.projected - Larger(0, Lead - a.at)) >= StockAtRestore(s, r)
        /\ \A w \in NewlyQueued(s, a.d, r) : WithinBuffer(s, r, w)}

LEMMA GrantedAdmitted ==
    ASSUME rate \in Nat, NEW s \in Good, NEW r \in Runs, NEW capacity \in Int,
           NEW a \in Admissions(s, r, capacity), NEW w \in WavesOf(s, r),
           a.d.wave[w].status = "RESTORE_SCHEDULED", ~Queued(a.d, w), a.occupied < capacity,
           NEW arrival, arrival = Larger(0, a.projected - Larger(0, Lead - a.at)),
           NEW post, post = arrival + Larger(1, Seconds(Bytes(Members(a.d, w)))),
           post > MaxBuffer => arrival < MinBuffer
    PROVE  Granted(a, w, post) \in Admissions(s, r, capacity)
<1>. DEFINE b == Granted(a, w, post)
            stock == StockAtRestore(s, r)
            seconds == Seconds(Bytes(Members(s, w)))
<1>1. /\ a.d \in Good /\ a.occupied \in Nat /\ a.at \in Int /\ a.projected \in Int
      /\ Releases(s, a.d) /\ a.occupied = Cardinality(Occupied(a.d, r))
      /\ a \in [d : Good, occupied : Nat, at : Int, blocked : BOOLEAN, new : {db.next},
                projected : Int]
      /\ arrival >= stock /\ w \in WaveIds
      BY DEF Admissions, WavesOf
<1>2. Queue(a.d, w) \in Good /\ Releases(a.d, Queue(a.d, w)) /\ Queued(Queue(a.d, w), w)
      /\ \A v \in WaveIds \ {w} : Queue(a.d, w).wave[v] = a.d.wave[v]
      BY <1>1, QueueGood
<1>3. \A f \in {Queue(a.d, w), a.d} : /\ WavesOf(f, r) = WavesOf(s, r)
                                      /\ \A v : Members(f, v) = Members(s, v)
      BY <1>1, <1>2, ReleaseKeepsSlots
<1>4. /\ Lead \in Nat /\ MinBuffer \in Nat /\ MaxBuffer \in Nat
      /\ stock \in Int /\ seconds \in Int
  <2>1. Stock(s, r) \in SUBSET Objs /\ Members(s, w) \in SUBSET Objs
        BY DEF Stock, InState, Members
  <2>2. Bytes(Stock(s, r)) \in Nat /\ Bytes(Members(s, w)) \in Nat
        BY <2>1, BytesNumber
  <2>3. Seconds(Bytes(Stock(s, r))) \in Int /\ seconds \in Int
        BY <2>2, SecondsNumber
  <2>4. Lead \in Nat /\ MinBuffer \in Nat /\ MaxBuffer \in Nat
        BY RestoreAdmissionAssumption
  <2>. QED BY <2>3, <2>4 DEF StockAtRestore, Larger
<1>5. arrival \in Int /\ post = arrival + Larger(1, seconds)
      BY <1>1, <1>3, <1>4 DEF Larger
<1>6. post \in Int /\ post >= stock /\ post >= 0 /\ post >= arrival + seconds
  <2>. HIDE DEF stock, seconds
  <2>1. arrival >= 0
        BY <1>1, <1>4 DEF Larger
  <2>. QED BY <1>1, <1>4, <1>5, <2>1 DEF Larger
<1>7. /\ b.d = Queue(a.d, w) /\ b.occupied = a.occupied + 1
      /\ b.projected = post /\ b.at = Larger(a.at, Lead)
      /\ b \in [d : Good, occupied : Nat, at : Int, blocked : BOOLEAN, new : {db.next},
                projected : Int]
  <2>1. Larger(a.at, Lead) \in Int
        BY <1>1, <1>4 DEF Larger
  <2>. DEFINE q == Queue(a.d, w)
              l == Larger(a.at, Lead)
  <2>2. b = [a EXCEPT !.d = q, !.occupied = a.occupied + 1, !.projected = post, !.at = l]
        BY DEF Granted
  <2>3. q \in Good /\ l \in Int /\ post \in Int /\ a.occupied + 1 \in Nat
        BY <1>1, <1>2, <1>6, <2>1
  <2>. HIDE DEF q, l, b
  <2>4. /\ b.d = q /\ b.occupied = a.occupied + 1 /\ b.projected = post /\ b.at = l
        /\ b \in [d : Good, occupied : Nat, at : Int, blocked : BOOLEAN, new : {db.next},
                  projected : Int]
        BY <1>1, <2>2, <2>3
  <2>. QED BY <2>4 DEF q, l
<1>8. Larger(0, post - Larger(0, Lead - Larger(a.at, Lead))) >= stock
  <2>. HIDE DEF stock
  <2>. QED BY <1>1, <1>4, <1>6 DEF Larger
<1>9. Cardinality(Occupied(b.d, r)) = a.occupied + 1
  <2>. DEFINE O == Occupied(a.d, r)
  <2>1. w \notin O /\ O \in SUBSET WaveIds
        BY DEF Occupied, Active, WavesOf
  <2>2. Occupied(b.d, r) = O \cup {w}
    <3>1. \A v \in WavesOf(s, r) : v # w => b.d.wave[v] = a.d.wave[v]
          BY <1>2, <1>7 DEF WavesOf
    <3>2. WavesOf(b.d, r) = WavesOf(s, r) /\ WavesOf(a.d, r) = WavesOf(s, r)
          BY <1>3, <1>7
    <3>3. Queued(b.d, w)
          BY <1>2, <1>7
    <3>. QED BY <3>1, <3>2, <3>3 DEF Occupied, Queued
  <2>. HIDE DEF O
  <2>3. IsFiniteSet(O)
        BY <2>1, WavesAreFew
  <2>. QED BY <1>1, <2>1, <2>2, <2>3, FS_AddElement DEF O
<1>10. \A v \in WaveIds : b.d.wave[v] # s.wave[v] => v \in WavesOf(s, r)
  <2>1. \A v \in WaveIds : a.d.wave[v] # s.wave[v] => v \in WavesOf(s, r)
        BY DEF Admissions
  <2>. QED BY <1>2, <1>7, <2>1
<1>11. WithinBuffer(s, r, w)
  <2>. HIDE DEF stock, seconds
  <2>1. stock >= MinBuffer => stock + seconds <= MaxBuffer
        BY <1>1, <1>4, <1>5, <1>6
  <2>. QED BY <2>1 DEF WithinBuffer, stock, seconds
<1>12. \A v \in NewlyQueued(s, b.d, r) : v = w \/ v \in NewlyQueued(s, a.d, r)
  <2>1. \A v \in WavesOf(s, r) : v # w => b.d.wave[v] = a.d.wave[v]
        BY <1>2, <1>7 DEF WavesOf
  <2>2. WavesOf(b.d, r) = WavesOf(s, r) /\ WavesOf(a.d, r) = WavesOf(s, r)
        BY <1>3, <1>7
  <2>. HIDE DEF b
  <2>. QED BY <2>1, <2>2 DEF NewlyQueued, Queued
<1>13. \A v \in NewlyQueued(s, b.d, r) : WithinBuffer(s, r, v)
      BY <1>11, <1>12 DEF Admissions
<1>14. Releases(s, b.d)
      BY <1>1, <1>2, <1>7, ReleasesTransitive
<1>15. b.occupied <= capacity /\ b.occupied = Cardinality(Occupied(b.d, r))
      BY <1>1, <1>7, <1>9
<1>. HIDE DEF b
<1>. QED BY <1>7, <1>8, <1>10, <1>13, <1>14, <1>15 DEF Admissions, b

LEMMA AdmitAdmitted ==
    ASSUME rate \in Nat, NEW s \in Good, NEW r \in Runs, NEW capacity \in Int,
           NEW a \in Admissions(s, r, capacity), NEW w \in WavesOf(s, r)
    PROVE  Admit(a, w, capacity) \in Admissions(s, r, capacity)
<1>. DEFINE arrival == Larger(0, a.projected - Larger(0, Lead - a.at))
            post    == arrival + Larger(1, Seconds(Bytes(Members(a.d, w))))
            b       == Admit(a, w, capacity)
<1>1. \/ b = a
      \/ b = [a EXCEPT !.blocked = TRUE]
      \/ /\ b = Granted(a, w, post)
         /\ ~(a.occupied >= capacity) /\ a.d.wave[w].status = "RESTORE_SCHEDULED"
         /\ ~Queued(a.d, w)
         /\ ~(post > MaxBuffer /\ ~(arrival < MinBuffer))
      BY DEF Admit
<1>. HIDE DEF b
<1>2. CASE b = [a EXCEPT !.blocked = TRUE]
  <2>1. /\ b.d = a.d /\ b.occupied = a.occupied /\ b.projected = a.projected /\ b.at = a.at
        /\ b \in [d : Good, occupied : Nat, at : Int, blocked : BOOLEAN, new : {db.next},
                  projected : Int]
        BY <1>2 DEF Admissions
  <2>. QED BY <2>1 DEF Admissions, b
<1>3. ASSUME b = Granted(a, w, post), ~(a.occupied >= capacity),
             a.d.wave[w].status = "RESTORE_SCHEDULED", ~Queued(a.d, w),
             ~(post > MaxBuffer /\ ~(arrival < MinBuffer))
      PROVE  b \in Admissions(s, r, capacity)
  <2>1. a.occupied < capacity
        BY <1>3 DEF Admissions
  <2>2. post > MaxBuffer => arrival < MinBuffer
        BY <1>3
  <2>. HIDE DEF arrival, post
  <2>3. Granted(a, w, post) \in Admissions(s, r, capacity)
        BY <1>3, <2>1, <2>2, GrantedAdmitted DEF arrival, post
  <2>. QED BY <1>3, <2>3
<1>. QED BY <1>1, <1>2, <1>3 DEF b

LEMMA RefreshSame ==
    ASSUME NEW d \in Good, NEW r \in Runs
    PROVE  /\ Refresh(d, r).obj = d.obj /\ Refresh(d, r).wave = d.wave
           /\ Stopped(d, r) /\ d.run[r] # "COMPLETED" => Refresh(d, r).run[r] = "NEEDS_ATTENTION"
<1>1. Refresh(d, r).obj = d.obj /\ Refresh(d, r).wave = d.wave
      BY Fields DEF Refresh, Dbs
<1>2. ASSUME Stopped(d, r), d.run[r] # "COMPLETED"
      PROVE  Refresh(d, r).run[r] = "NEEDS_ATTENTION"
  <2>. DEFINE S == {d.wave[w].status : w \in WavesOf(d, r)}
  <2>1. "FAILED" \in S
        BY <1>2 DEF Stopped
  <2>2. S # {"COMPLETED"} /\ S \cap Failed # {}
        BY <2>1 DEF Failed
  <2>3. Refresh(d, r) =
          [d EXCEPT !.run[r] =
             IF S = {"COMPLETED"}
             THEN IF Undiscovered(d, r) # {} THEN "SCHEDULED" ELSE "COMPLETED"
             ELSE IF d.run[r] = "COMPLETED" THEN "COMPLETED"
             ELSE IF S \cap Failed # {} THEN "NEEDS_ATTENTION" ELSE "SCHEDULED"]
        BY DEF Refresh
  <2>. HIDE DEF S
  <2>4. Refresh(d, r) = [d EXCEPT !.run[r] = "NEEDS_ATTENTION"]
        BY <1>2, <2>2, <2>3
  <2>. QED BY <2>4, Fields DEF Dbs
<1>. QED BY <1>1, <1>2

\* Releases and what they are judged by see objects and waves only.
LEMMA SameJudgement ==
    ASSUME NEW d, NEW e, NEW f, f.obj = e.obj, f.wave = e.wave, NEW r
    PROVE  /\ Releases(d, e) => Releases(d, f)
           /\ Justified(d, e, r) => Justified(d, f, r)
<1>1. Releases(e, f) /\ Releases(f, e)
      BY DEF Releases
<1>2. /\ SlotLimit(f, r) = SlotLimit(e, r) /\ StockAtRestore(f, r) = StockAtRestore(e, r)
      /\ \A w : Members(f, w) = Members(e, w)
      BY <1>1, ReleaseKeepsSlots
<1>3. Occupied(f, r) = Occupied(e, r) /\ NewlyQueued(d, f, r) = NewlyQueued(d, e, r)
      BY DEF Occupied, NewlyQueued, WavesOf, Queued
<1>. QED BY <1>1, <1>2, <1>3, ReleasesTransitive DEF Justified, WithinBuffer

LEMMA NoneAdmitted ==
    ASSUME rate \in Nat, NEW s \in Good, NEW r \in Runs, NEW capacity \in Int
    PROVE  [d |-> s, occupied |-> Cardinality(Occupied(s, r)), at |-> 0, blocked |-> FALSE,
            new |-> db.next, projected |-> Seconds(Bytes(Stock(s, r)))]
              \in Admissions(s, r, capacity)
<1>. DEFINE p == Seconds(Bytes(Stock(s, r)))
            c == Cardinality(Occupied(s, r))
            a == [d |-> s, occupied |-> c, at |-> 0, blocked |-> FALSE,
                  new |-> db.next, projected |-> p]
<1>1. c \in Nat
  <2>1. Occupied(s, r) \in SUBSET WaveIds
        BY DEF Occupied, WavesOf
  <2>. QED BY <2>1, WavesAreFew
<1>2. p \in Int
  <2>1. Stock(s, r) \in SUBSET Objs
        BY DEF Stock, InState
  <2>. QED BY <2>1, BytesNumber, SecondsNumber
<1>3. Lead \in Nat
      BY RestoreAdmissionAssumption
<1>4. Releases(s, s) /\ NewlyQueued(s, s, r) = {}
      BY DEF Releases, NewlyQueued
<1>5. StockAtRestore(s, r) = Larger(0, p - Lead)
      BY DEF StockAtRestore
<1>. HIDE DEF p, c
<1>6. a \in [d : Good, occupied : Nat, at : Int, blocked : BOOLEAN, new : {db.next},
             projected : Int]
      BY <1>1, <1>2
<1>7. Larger(0, p - Larger(0, Lead - 0)) >= StockAtRestore(s, r)
      BY <1>2, <1>3, <1>5 DEF Larger
<1>. QED BY <1>4, <1>6, <1>7 DEF Admissions, c, p

\* The decisions on one pipeline leave the judgement on all of them.
LEMMA AdmissionsJustified ==
    ASSUME NEW d, NEW s \in Good, Releases(d, s), NEW r \in Runs, NEW capacity \in Int,
           capacity <= SlotLimit(s, r), ~IsPaused(r), ~Stopped(s, r),
           \A q \in Runs : Justified(d, s, q), NEW a \in Admissions(s, r, capacity)
    PROVE  Releases(d, a.d) /\ \A q \in Runs : Justified(d, a.d, q)
<1>1. Releases(s, a.d) /\ Releases(d, a.d) /\ a.d \in Good
      BY ReleasesTransitive DEF Admissions
<1>2. \A q : /\ SlotLimit(a.d, q) = SlotLimit(s, q)
             /\ StockAtRestore(a.d, q) = StockAtRestore(s, q)
             /\ WavesOf(a.d, q) = WavesOf(s, q) /\ WavesOf(s, q) = WavesOf(d, q)
             /\ \A w : Members(a.d, w) = Members(s, w) /\ Members(s, w) = Members(d, w)
      BY <1>1, ReleaseKeepsSlots
<1>3. \A q, w : WithinBuffer(a.d, q, w) <=> WithinBuffer(s, q, w)
      BY <1>2 DEF WithinBuffer
<1>4. ASSUME NEW q \in Runs, \A w \in WavesOf(s, q) : a.d.wave[w].task = s.wave[w].task
      PROVE  Justified(d, a.d, q)
  <2>1. \A w \in WavesOf(s, q) : /\ a.d.wave[w].status = s.wave[w].status
                                 /\ a.d.wave[w].task = s.wave[w].task
        BY <1>1, <1>4 DEF Releases, WavesOf
  <2>2. Occupied(a.d, q) = Occupied(s, q) /\ NewlyQueued(d, a.d, q) = NewlyQueued(d, s, q)
        BY <1>2, <2>1 DEF Occupied, NewlyQueued, Queued
  <2>. QED BY <1>2, <1>3, <2>2 DEF Justified
<1>5. ASSUME NEW q \in Runs, q # r PROVE Justified(d, a.d, q)
  <2>1. \A w \in WavesOf(s, q) : w \in WaveIds /\ w \notin WavesOf(s, r)
        BY <1>5 DEF WavesOf
  <2>2. \A w \in WavesOf(s, q) : a.d.wave[w] = s.wave[w]
        BY <2>1 DEF Admissions
  <2>. QED BY <1>4, <2>2
<1>6. CASE NewlyQueued(s, a.d, r) = {}
  <2>1. \A w \in WavesOf(s, r) : a.d.wave[w].task = s.wave[w].task
    <3>. SUFFICES ASSUME NEW w \in WavesOf(s, r), a.d.wave[w].task # s.wave[w].task PROVE FALSE
         OBVIOUS
    <3>1. /\ w \in WaveIds /\ w \in WavesOf(a.d, r)
          /\ a.d.wave[w].status = "RESTORE_SCHEDULED" /\ a.d.wave[w].task = "SUBMIT"
          /\ s.wave[w].task = "NONE"
          BY <1>1, <1>2 DEF Releases, WavesOf
    <3>. QED BY <1>6, <3>1 DEF NewlyQueued, Queued
  <2>2. Justified(d, a.d, r)
        BY <1>4, <2>1
  <2>. QED BY <1>1, <1>5, <2>2
<1>7. CASE NewlyQueued(s, a.d, r) # {}
  <2>1. ~Stopped(d, r)
        BY <1>2 DEF Stopped, Releases, WavesOf
  <2>2. Cardinality(Occupied(a.d, r)) <= SlotLimit(a.d, r)
    <3>1. /\ a.occupied = Cardinality(Occupied(a.d, r)) /\ a.occupied <= capacity
          /\ a.occupied \in Nat
          BY <1>7 DEF Admissions
    <3>2. SlotLimit(s, r) \in Nat
          BY SlotNumbers
    <3>. QED BY <1>2, <3>1, <3>2
  <2>3. ASSUME NEW w \in NewlyQueued(d, a.d, r) PROVE WithinBuffer(a.d, r, w)
    <3>1. CASE w \in NewlyQueued(s, a.d, r)
          BY <1>3, <3>1 DEF Admissions
    <3>2. CASE w \notin NewlyQueued(s, a.d, r)
      <4>1. w \in NewlyQueued(d, s, r)
            BY <1>2, <3>2 DEF NewlyQueued
      <4>. QED BY <1>3, <4>1 DEF Justified
    <3>. QED BY <3>1, <3>2
  <2>4. Justified(d, a.d, r)
        BY <2>1, <2>2, <2>3 DEF Justified
  <2>. QED BY <1>1, <1>5, <2>4
<1>. QED BY <1>6, <1>7

Releasing(d) ==
    {p \in [d : Good, free : Nat, grants : GrantTable] :
        Releases(d, p.d) /\ \A r \in Runs : Justified(d, p.d, r)}

LEMMA ReleaseRunReleasing ==
    ASSUME rate \in Nat, NEW d \in Good, NEW p \in Releasing(d), NEW r \in Runs, ~IsPaused(r),
           p.d.run[r] # "COMPLETED"
    PROVE  ReleaseRun(p, r) \in Releasing(d)
<1>. DEFINE s        == Refresh(p.d, r)
            seats    == Cardinality(Occupied(s, r))
            grant    == IF Project[r] \in DOMAIN p.grants THEN p.grants[Project[r]] ELSE p.free
            capacity == Smaller(SlotLimit(s, r), seats + grant)
            empty    == [d |-> s, occupied |-> seats, at |-> 0, blocked |-> FALSE,
                         new |-> db.next, projected |-> Seconds(Bytes(Stock(s, r)))]
            St(b, w) == IF w \in WavesOf(s, r) THEN Admit(b, w, capacity) ELSE b
            a        == Sweep(St, empty, MaxWaves)
            used     == a.occupied - seats
            rest     == [d |-> Refresh(a.d, r), free |-> Larger(0, p.free - used),
                         grants |-> [q \in DOMAIN p.grants |->
                                       IF q = Project[r] THEN Larger(0, p.grants[q] - used)
                                       ELSE p.grants[q]]]
            T        == Admissions(s, r, capacity)
<1>0. /\ p \in [d : Good, free : Nat, grants : GrantTable] /\ p.d \in Good
      /\ Releases(d, p.d) /\ \A q \in Runs : Justified(d, p.d, q)
      /\ p.free \in Nat /\ p.grants \in GrantTable
      BY DEF Releasing
<1>1. MaxWaves \in Nat /\ s \in Good /\ empty \in T /\ capacity \in Int
      /\ capacity <= SlotLimit(s, r) /\ seats \in Nat
  <2>1. s \in Good
        BY <1>0, RefreshGood
  <2>2. seats \in Nat
    <3>1. Occupied(s, r) \in SUBSET WaveIds
          BY DEF Occupied, WavesOf
    <3>. QED BY <3>1, WavesAreFew
  <2>3. grant \in Nat
        BY <1>0 DEF GrantTable
  <2>4. capacity \in Int /\ capacity <= SlotLimit(s, r)
    <3>1. SlotLimit(s, r) \in Nat
          BY SlotNumbers
    <3>. HIDE DEF seats, grant, s
    <3>. QED BY <2>2, <2>3, <3>1 DEF Smaller
  <2>. HIDE DEF capacity, s
  <2>5. empty \in T
        BY <2>1, <2>4, NoneAdmitted
  <2>. QED BY <2>1, <2>2, <2>4, <2>5, Shapes
<1>2. /\ s.obj = p.d.obj /\ s.wave = p.d.wave
      /\ Stopped(p.d, r) => s.run[r] = "NEEDS_ATTENTION"
      BY <1>0, RefreshSame
<1>3. Releases(d, s) /\ \A q \in Runs : Justified(d, s, q)
      BY <1>0, <1>2, SameJudgement
<1>4. ReleaseRun(p, r) = IF s.run[r] = "NEEDS_ATTENTION" THEN [p EXCEPT !.d = s] ELSE rest
      BY DEF ReleaseRun
<1>5. ASSUME NEW b \in T, NEW w \in 1..MaxWaves PROVE St(b, w) \in T
  <2>. HIDE DEF capacity, s
  <2>. QED BY <1>1, AdmitAdmitted
<1>. HIDE DEF s, capacity, empty, T
<1>. DEFINE Run(g) == [k \in 0..MaxWaves |-> IF k = 0 THEN empty
                      ELSE CHOOSE y \in {St(z, k) : z \in {g[k - 1]}} : TRUE]
            it == CHOOSE g : g = Run(g)
            F  == [pair \in T \X (1..MaxWaves) |-> St(pair[1], pair[2])]
<1>6. Sweep(St, empty, MaxWaves) = it[MaxWaves]
      BY DEF Sweep
<1>. HIDE DEF St
<1>7. \A z, k : (CHOOSE y \in {St(v, k) : v \in {z}} : TRUE) = St(z, k)
  <2>1. \A z, k : {St(v, k) : v \in {z}} = {St(z, k)}
        OBVIOUS
  <2>. QED BY <2>1
<1>8. PICK g \in [0..MaxWaves -> T] : Starts(g, F, empty, MaxWaves)
      BY <1>1, <1>5, StepsExist
<1>9. ASSUME NEW k \in 1..MaxWaves PROVE g[k - 1] \in T /\ g[k] = St(g[k - 1], k)
  <2>1. k - 1 \in 0..MaxWaves
        BY <1>1
  <2>. QED BY <1>8, <2>1 DEF Starts
<1>10. g = Run(g)
      BY <1>7, <1>8, <1>9 DEF Starts
<1>11. it = Run(it)
      BY <1>10
<1>. HIDE DEF it
<1>12. it[0] = empty /\ \A k \in 1..MaxWaves : it[k] = St(it[k - 1], k)
      BY <1>1, <1>7, <1>11
<1>13. Alike(g, it, MaxWaves)
      BY <1>8, <1>9, <1>12 DEF Starts, Alike
<1>. HIDE DEF F, Run
<1>14. g[MaxWaves] = it[MaxWaves]
      BY <1>1, <1>13, StepsAgree
<1>15. Sweep(St, empty, MaxWaves) \in T
      BY <1>1, <1>6, <1>8, <1>14
<1>16. ASSUME s.run[r] # "NEEDS_ATTENTION" PROVE rest \in Releasing(d)
  <2>. HIDE DEF a
  <2>1. a \in T
        BY <1>15 DEF a
  <2>2. ~Stopped(s, r)
        BY <1>2, <1>16 DEF Stopped, WavesOf, Members
  <2>3. /\ Releases(d, a.d) /\ \A q \in Runs : Justified(d, a.d, q)
        /\ a.d \in Good /\ a.occupied \in Nat
    <3>1. a \in Admissions(s, r, capacity)
          BY <2>1 DEF T
    <3>2. Releases(d, a.d) /\ \A q \in Runs : Justified(d, a.d, q)
          BY <1>1, <1>3, <2>2, <3>1, AdmissionsJustified
    <3>3. a.d \in Good /\ a.occupied \in Nat
          BY <3>1 DEF Admissions
    <3>. QED BY <3>2, <3>3
  <2>4. /\ Refresh(a.d, r) \in Good /\ Refresh(a.d, r).obj = a.d.obj
        /\ Refresh(a.d, r).wave = a.d.wave
        BY <2>3, RefreshGood, RefreshSame
  <2>5. /\ Releases(d, Refresh(a.d, r))
        /\ \A q \in Runs : Justified(d, Refresh(a.d, r), q)
        BY <2>3, <2>4, SameJudgement
  <2>6. rest \in [d : Good, free : Nat, grants : GrantTable]
    <3>1. used \in Int
          BY <1>1, <2>3
    <3>. HIDE DEF used
    <3>2. Larger(0, p.free - used) \in Nat
          BY <1>0, <3>1 DEF Larger
    <3>3. [q \in DOMAIN p.grants |-> IF q = Project[r] THEN Larger(0, p.grants[q] - used)
                                     ELSE p.grants[q]] \in GrantTable
      <4>1. \A q \in DOMAIN p.grants : p.grants[q] \in Nat /\ DOMAIN p.grants = Projects \ paused
            BY <1>0 DEF GrantTable
      <4>2. \A q \in DOMAIN p.grants : Larger(0, p.grants[q] - used) \in Nat
            BY <3>1, <4>1 DEF Larger
      <4>3. DOMAIN p.grants = Projects \ paused
            BY <1>0 DEF GrantTable
      <4>. QED BY <4>1, <4>2, <4>3 DEF GrantTable
    <3>. QED BY <2>4, <3>2, <3>3
  <2>7. rest.d = Refresh(a.d, r)
        OBVIOUS
  <2>. HIDE DEF rest
  <2>. QED BY <2>5, <2>6, <2>7 DEF Releasing
<1>17. [p EXCEPT !.d = s] \in Releasing(d)
  <2>. DEFINE e == [p EXCEPT !.d = s]
  <2>1. e \in [d : Good, free : Nat, grants : GrantTable] /\ e.d = s
        BY <1>0, <1>1
  <2>. HIDE DEF e
  <2>. QED BY <1>3, <2>1 DEF Releasing, e
<1>. QED BY <1>4, <1>16, <1>17

LEMMA ReleaseReleasing ==
    ASSUME rate \in Nat, NEW d \in Good
    PROVE  /\ Release(d) \in Good /\ Releases(d, Release(d))
           /\ \A r \in Runs : Justified(d, Release(d), r)
<1>. DEFINE St(p, r) == IF r \notin Runs \/ IsPaused(r) \/ p.d.run[r] \in {"NONE", "COMPLETED"}
                        THEN p ELSE ReleaseRun(p, r)
            s == [d |-> d, free |-> FreeSlots(d), grants |-> Grants(d)]
            T == Releasing(d)
<1>1. Last \in Nat /\ s \in T
  <2>1. FreeSlots(d) \in Nat /\ Grants(d) \in GrantTable
        BY FreeNumber, GrantNumbers
  <2>2. Releases(d, d) /\ \A r \in Runs : Justified(d, d, r)
        BY DEF Releases, Justified, NewlyQueued
  <2>. QED BY <2>1, <2>2, LastIsNumber DEF Releasing
<1>2. Release(d) = Sweep(St, s, Last).d
      BY DEF Release
<1>3. \A p \in T, r \in 1..Last : St(p, r) \in T
      BY ReleaseRunReleasing
<1>. HIDE DEF s, T
<1>. DEFINE Run(g) == [k \in 0..Last |-> IF k = 0 THEN s
                      ELSE CHOOSE y \in {St(z, k) : z \in {g[k - 1]}} : TRUE]
            it == CHOOSE g : g = Run(g)
            F  == [pair \in T \X (1..Last) |-> St(pair[1], pair[2])]
<1>4. Sweep(St, s, Last) = it[Last]
      BY DEF Sweep
<1>. HIDE DEF St
<1>5. \A z, k : (CHOOSE y \in {St(v, k) : v \in {z}} : TRUE) = St(z, k)
  <2>1. \A z, k : {St(v, k) : v \in {z}} = {St(z, k)}
        OBVIOUS
  <2>. QED BY <2>1
<1>6. PICK g \in [0..Last -> T] : Starts(g, F, s, Last)
      BY <1>1, <1>3, StepsExist
<1>7. ASSUME NEW k \in 1..Last PROVE g[k - 1] \in T /\ g[k] = St(g[k - 1], k)
  <2>1. k - 1 \in 0..Last
        BY <1>1
  <2>. QED BY <1>6, <2>1 DEF Starts
<1>8. g = Run(g)
      BY <1>5, <1>6, <1>7 DEF Starts
<1>9. it = Run(it)
      BY <1>8
<1>. HIDE DEF it
<1>10. it[0] = s /\ \A k \in 1..Last : it[k] = St(it[k - 1], k)
      BY <1>1, <1>5, <1>9
<1>11. Alike(g, it, Last)
      BY <1>6, <1>7, <1>10 DEF Starts, Alike
<1>. HIDE DEF F, Run
<1>12. g[Last] = it[Last]
      BY <1>1, <1>11, StepsAgree
<1>13. Sweep(St, s, Last) \in T
      BY <1>1, <1>4, <1>6, <1>12
<1>. QED BY <1>2, <1>13 DEF T, Releasing

-----------------------------------------------------------------------------
(* The steps *)

\* The objects S of the wave w take a state, and w another record.
Changed(d, S, state, w, new) ==
    [d EXCEPT !.obj  = [o \in Objs |-> IF o \in S THEN [d.obj[o] EXCEPT !.state = state]
                                       ELSE d.obj[o]],
              !.wave = [d.wave EXCEPT ![w] = new]]

States == {"DISCOVERED", "WAVE_ASSIGNED", "RESTORING", "RESTORED", "TRANSFERRED"}

\* The waves with a task keep their objects, or are deleted.
Frozen(d, e) ==
    \A w \in WaveIds : d.wave[w].task # "NONE" /\ e.wave[w].run # 0 =>
                          Members(e, w) = Members(d, w)

\* A step of a good database that freezes the waves with a task and queues nothing.
Steps(d, e) == e \in Good /\ Frozen(d, e) /\ \A w \in WaveIds : Queued(e, w) => Queued(d, w)

LEMMA ChangedSteps ==
    ASSUME NEW d \in Good, NEW w \in WaveIds, d.wave[w] # NoWave,
           NEW S \in SUBSET Members(d, w), \A o \in S : d.obj[o].state # "TRANSFERRED",
           NEW state \in States \ {"DISCOVERED"},
           NEW new \in WaveRec, new.run = d.wave[w].run,
           new.status = "COMPLETED" => S = {} /\ d.wave[w].status = "COMPLETED",
           new.task = "POLL" => new.status # "RESTORE_SCHEDULED",
           NEW e, e = Changed(d, S, state, w, new),
           new.status \in {"RESTORE_SCHEDULED", "FAILED"} \/ new.task = "SUBMIT" =>
               Untouched(e, w),
           new.status = "RESTORE_SCHEDULED" /\ new.task = "SUBMIT" => Queued(d, w)
    PROVE  Steps(d, e)
<1>. DEFINE obj == [o \in Objs |-> IF o \in S THEN [d.obj[o] EXCEPT !.state = state] ELSE d.obj[o]]
<1>1. obj \in [Objs -> ObjRec] /\ \A o \in Objs : obj[o].wave = d.obj[o].wave
      BY Fields DEF ObjRec, States
<1>2. \A o \in Objs : obj[o].state = IF o \in S THEN state ELSE d.obj[o].state
      BY Fields DEF ObjRec
<1>3. [d.wave EXCEPT ![w] = new] \in [WaveIds -> WaveRec]
      BY Fields DEF Dbs
<1>. HIDE DEF obj
<1>4. /\ e.obj = obj /\ e.next = d.next /\ e.run = d.run /\ e.wave = [d.wave EXCEPT ![w] = new]
      /\ e \in Dbs
      BY <1>1, <1>3, Fields DEF Changed, Dbs, obj
<1>5. \A v \in WaveIds : e.wave[v] = IF v = w THEN new ELSE d.wave[v]
      BY <1>4, Fields DEF Dbs
<1>6. \A v \in WaveIds : Members(e, v) = Members(d, v)
      BY <1>1, <1>4 DEF Members
<1>7. \A o \in S : o \in Objs /\ d.obj[o].wave = w /\ w # 0 /\ d.obj[o].state # "TRANSFERRED"
      BY Shapes DEF Members
<1>8. InPlan(e)
      BY <1>1, <1>2, <1>4, <1>5, <1>7, Fields DEF Good, InPlan
<1>9. Unborn(e)
  <2>1. ~(w >= d.next)
        BY DEF Good, Unborn, NoWave
  <2>. QED BY <1>4, <1>5, <2>1 DEF Good, Unborn
<1>10. Finished(e)
  <2>1. ASSUME NEW o \in Objs, e.obj[o].wave # 0, e.wave[e.obj[o].wave].status = "COMPLETED"
        PROVE  e.obj[o].state = "TRANSFERRED"
    <3>1. d.obj[o].wave \in WaveIds /\ e.obj[o].wave = d.obj[o].wave
          BY <1>1, <1>4, <2>1, Fields
    <3>2. d.wave[d.obj[o].wave].status = "COMPLETED" /\ o \notin S
          BY <1>5, <1>7, <2>1, <3>1
    <3>. QED BY <1>2, <1>4, <3>1, <3>2, Shapes DEF Good, Finished
  <2>2. ASSUME NEW o \in Objs, e.run[o[1]] = "COMPLETED" PROVE e.obj[o].state = "TRANSFERRED"
    <3>1. d.obj[o].state = "TRANSFERRED"
          BY <1>4, <2>2 DEF Good, Finished
    <3>. QED BY <1>2, <1>4, <1>7, <3>1
  <2>. QED BY <2>1, <2>2 DEF Finished
<1>11. Ordered(e)
  <2>1. ASSUME NEW v \in WaveIds, v # w, Untouched(d, v) PROVE Untouched(e, v)
    <3>1. \A o \in Members(d, v) : o \notin S /\ o \in Objs /\ e.obj[o].state = d.obj[o].state
          BY <1>2, <1>4, <1>7, <2>1 DEF Members
    <3>. QED BY <1>6, <2>1, <3>1 DEF Untouched
  <2>. QED BY <1>5, <2>1 DEF Good, Ordered
<1>12. Frozen(d, e) /\ \A v \in WaveIds : Queued(e, v) => Queued(d, v)
      BY <1>5, <1>6 DEF Frozen, Queued
<1>. QED BY <1>4, <1>8, <1>9, <1>10, <1>11, <1>12 DEF Good, Steps

LEMMA SubmitSteps ==
    ASSUME db \in Good, NEW w \in WaveIds, Submit(w)
    PROVE  Steps(db, db')
<1>. DEFINE S   == Members(db, w) \cap InState(db, {"WAVE_ASSIGNED"})
            new == [db.wave[w] EXCEPT !.executed = TRUE,
                       !.status = IF S = {} THEN "RESTORED" ELSE "RESTORE_REQUESTED",
                       !.task   = IF S = {} THEN "NONE" ELSE "POLL"]
<1>1. db.wave[w] \in WaveRec /\ db.wave[w].task = "SUBMIT" /\ db.wave[w] # NoWave
      BY Fields DEF Submit, Claimable, NoWave
<1>2. /\ new \in WaveRec /\ new.run = db.wave[w].run
      /\ new.status \in {"RESTORED", "RESTORE_REQUESTED"} /\ new.task \in {"NONE", "POLL"}
  <2>. HIDE DEF S
  <2>. QED BY <1>1 DEF WaveRec, Statuses, Active
<1>3. S \in SUBSET Members(db, w) /\ \A o \in S : db.obj[o].state # "TRANSFERRED"
      BY DEF InState
<1>4. db' = [db EXCEPT !.obj = SetState(S, "RESTORING"), !.wave[w] = new]
      BY DEF Submit
<1>. HIDE DEF S, new
<1>5. db' = Changed(db, S, "RESTORING", w, new)
      BY <1>4, Fields DEF Changed, SetState, Dbs
<1>. QED BY <1>1, <1>2, <1>3, <1>5, ChangedSteps DEF States

LEMMA PollSteps ==
    ASSUME db \in Good, NEW w \in WaveIds, Poll(w)
    PROVE  Steps(db, db')
<1>. DEFINE P == Members(db, w) \cap InState(db, {"RESTORING"})
<1>1. db.wave[w] \in WaveRec /\ db.wave[w].task = "POLL" /\ db.wave[w] # NoWave
      BY Fields DEF Poll, Claimable, NoWave
<1>2. PICK S \in SUBSET P :
         db' = [db EXCEPT !.obj = SetState(S, "RESTORED"),
                          !.wave[w].status = IF S = P THEN "RESTORED" ELSE "RESTORING",
                          !.wave[w].task   = IF S = P THEN "NONE" ELSE "POLL"]
      BY DEF Poll
<1>. DEFINE new == [db.wave[w] EXCEPT !.status = IF S = P THEN "RESTORED" ELSE "RESTORING",
                                      !.task   = IF S = P THEN "NONE" ELSE "POLL"]
<1>3. S \in SUBSET Members(db, w) /\ \A o \in S : db.obj[o].state # "TRANSFERRED"
      BY DEF InState
<1>. HIDE DEF P
<1>4. /\ new \in WaveRec /\ new.run = db.wave[w].run
      /\ new.status \in {"RESTORED", "RESTORING"} /\ new.task \in {"NONE", "POLL"}
      BY <1>1 DEF WaveRec, Statuses, Active
<1>5. db' = Changed(db, S, "RESTORED", w, new)
  <2>. DEFINE x == IF S = P THEN "RESTORED" ELSE "RESTORING"
              y == IF S = P THEN "NONE" ELSE "POLL"
  <2>1. db \in Dbs /\ db.wave[w] \in WaveRec
        BY Fields
  <2>2. db' = [db EXCEPT !.obj = SetState(S, "RESTORED"), !.wave[w].status = x, !.wave[w].task = y]
        BY <1>2
  <2>3. new = [db.wave[w] EXCEPT !.status = x, !.task = y]
        OBVIOUS
  <2>. HIDE DEF x, y, new
  <2>4. db'.wave = [db.wave EXCEPT ![w] = new]
        BY <2>1, <2>2, <2>3 DEF Dbs
  <2>. QED BY <2>1, <2>2, <2>4 DEF Changed, SetState, Dbs
<1>. HIDE DEF new
<1>. QED BY <1>1, <1>3, <1>4, <1>5, ChangedSteps DEF States

\* A change of the record of a wave only.
LEMMA RecordSteps ==
    ASSUME db \in Good, NEW w \in WaveIds, db.wave[w] # NoWave,
           NEW new \in WaveRec, new.run = db.wave[w].run, new.status # "COMPLETED",
           new.task = "POLL" => new.status # "RESTORE_SCHEDULED",
           new.status \in {"RESTORE_SCHEDULED", "FAILED"} \/ new.task = "SUBMIT" =>
               Untouched(db, w),
           new.status = "RESTORE_SCHEDULED" /\ new.task = "SUBMIT" => Queued(db, w),
           NEW e, e = [db EXCEPT !.wave = [db.wave EXCEPT ![w] = new]]
    PROVE  Steps(db, e)
<1>1. e = Changed(db, {}, "RESTORING", w, new) /\ e.obj = db.obj
      BY Fields DEF Changed, Dbs
<1>2. Untouched(db, w) => Untouched(e, w)
      BY <1>1 DEF Untouched, Members
<1>. QED BY <1>1, <1>2, ChangedSteps DEF States

LEMMA FailSteps ==
    ASSUME db \in Good, NEW w \in WaveIds, SubmitFails(w) \/ RestoreFails(w)
    PROVE  Steps(db, db')
<1>1. db.wave[w] \in WaveRec
      BY Fields
<1>2. CASE SubmitFails(w)
  <2>. DEFINE new == [db.wave[w] EXCEPT !.executed = TRUE, !.status = "FAILED", !.task = "NONE"]
  <2>1. db.wave[w].task = "SUBMIT" /\ db.wave[w] # NoWave
        BY <1>2 DEF SubmitFails, Claimable, NoWave
  <2>2. new \in WaveRec /\ new.run = db.wave[w].run /\ new.status = "FAILED" /\ new.task = "NONE"
        BY <1>1 DEF WaveRec, Statuses, Failed
  <2>3. Untouched(db, w)
        BY <2>1 DEF Good, Ordered
  <2>4. db' = [db EXCEPT !.wave = [db.wave EXCEPT ![w] = new]]
        BY <1>2, Fields DEF SubmitFails, Dbs
  <2>. HIDE DEF new
  <2>. QED BY <2>1, <2>2, <2>3, <2>4, RecordSteps
<1>3. CASE RestoreFails(w)
  <2>. DEFINE new == [db.wave[w] EXCEPT !.status = "RESTORE_REQUEST_FAILED", !.task = "NONE"]
  <2>1. db.wave[w].task = "POLL" /\ db.wave[w] # NoWave
        BY <1>3 DEF RestoreFails, Claimable, NoWave
  <2>2. /\ new \in WaveRec /\ new.run = db.wave[w].run
        /\ new.status = "RESTORE_REQUEST_FAILED" /\ new.task = "NONE"
        BY <1>1 DEF WaveRec, Statuses, Failed
  <2>3. db' = [db EXCEPT !.wave = [db.wave EXCEPT ![w] = new]]
        BY <1>1, <1>3, Fields DEF RestoreFails, Dbs, WaveRec
  <2>. HIDE DEF new
  <2>. QED BY <2>1, <2>2, <2>3, RecordSteps
<1>. QED BY <1>2, <1>3

LEMMA TickSteps ==
    ASSUME db \in Good, NEW w \in WaveIds, Tick(w)
    PROVE  Steps(db, db')
<1>. DEFINE new == [db.wave[w] EXCEPT !.late = TRUE]
<1>1. /\ db.wave[w] \in WaveRec /\ db.wave[w] # NoWave
      /\ db.wave[w].status = "RESTORE_SCHEDULED" /\ ~Queued(db, w)
      BY Fields DEF Tick, NoWave
<1>2. /\ new \in WaveRec /\ new.run = db.wave[w].run
      /\ new.status = db.wave[w].status /\ new.task = db.wave[w].task
      BY <1>1 DEF WaveRec
<1>3. db' = [db EXCEPT !.wave = [db.wave EXCEPT ![w] = new]]
      BY <1>1, Fields DEF Tick, Dbs, WaveRec
<1>. HIDE DEF new
<1>4. Untouched(db, w) /\ db.wave[w].task # "POLL" /\ db.wave[w].task # "SUBMIT"
      BY <1>1 DEF Good, Ordered, Queued
<1>. QED BY <1>1, <1>2, <1>3, <1>4, RecordSteps

LEMMA TransferSteps ==
    ASSUME db \in Good, NEW o \in Objs, Transfer(o)
    PROVE  Steps(db, db')
<1>. DEFINE w == db.obj[o].wave
            new == db.wave[w]
<1>1. /\ db.obj[o].state = "RESTORED" /\ w \in WaveIds /\ o \in Members(db, w)
      /\ new.run = o[1] /\ new \in WaveRec
  <2>1. db.obj[o].state = "RESTORED" /\ w # 0 /\ w \in WaveIds /\ new.run = o[1]
        BY Fields DEF Transfer, Good, InPlan
  <2>. QED BY <2>1, Fields DEF Members
<1>2. new # NoWave /\ new.status # "COMPLETED"
      BY <1>1, Shapes DEF NoWave, Good, Finished
<1>3. new.status \notin {"RESTORE_SCHEDULED", "FAILED"} /\ new.task # "SUBMIT"
      BY <1>1 DEF Good, Ordered, Untouched
<1>4. db' = Changed(db, {o}, "TRANSFERRED", w, new)
      BY Fields DEF Transfer, Changed, SetState, Dbs
<1>. HIDE DEF w, new
<1>5. {o} \in SUBSET Members(db, w) /\ \A q \in {o} : db.obj[q].state # "TRANSFERRED"
      BY <1>1
<1>. QED BY <1>1, <1>2, <1>3, <1>4, <1>5, ChangedSteps DEF States, new

LEMMA ReprocessSteps ==
    ASSUME db \in Good, NEW w \in WaveIds, Reprocess(w)
    PROVE  Steps(db, db')
<1>. DEFINE S   == Members(db, w) \cap InState(db, {"RESTORING", "RESTORED"})
            new == [db.wave[w] EXCEPT !.status = "RESTORE_SCHEDULED"]
<1>1. /\ db.wave[w] \in WaveRec /\ db.wave[w].task = "NONE" /\ S # {}
      /\ db' = [db EXCEPT !.obj = SetState(S, "WAVE_ASSIGNED"),
                          !.wave[w].status = "RESTORE_SCHEDULED"]
      BY Fields DEF Reprocess
<1>2. /\ S \in SUBSET Members(db, w) /\ S \subseteq Objs
      /\ \A o \in S : db.obj[o].state # "TRANSFERRED"
      BY DEF InState, Members
<1>3. db.wave[w] # NoWave
  <2>1. \A o \in Members(db, w) : db.wave[w].run = o[1] /\ o[1] # 0
        BY Shapes DEF Good, InPlan, Members
  <2>. QED BY <1>1, <1>2, <2>1 DEF NoWave
<1>4. /\ new \in WaveRec /\ new.run = db.wave[w].run
      /\ new.status = "RESTORE_SCHEDULED" /\ new.task = "NONE"
      BY <1>1 DEF WaveRec, Statuses
<1>5. \A o \in Members(db, w) \ S : db.obj[o].state \in {"WAVE_ASSIGNED", "TRANSFERRED"}
  <2>1. \A o \in Members(db, w) : o \in Objs /\ db.obj[o].wave # 0 /\ db.obj[o] \in ObjRec
        BY Shapes, Fields DEF Members
  <2>2. \A o \in Members(db, w) : db.obj[o].state \in States \ {"DISCOVERED"}
        BY <2>1 DEF Good, InPlan, ObjRec, States
  <2>. QED BY <2>1, <2>2 DEF InState, States
<1>. HIDE DEF S, new
<1>6. db' = Changed(db, S, "WAVE_ASSIGNED", w, new)
      BY <1>1, Fields DEF Changed, SetState, Dbs, WaveRec, new
<1>7. \A o \in Objs : /\ db'.obj[o].wave = db.obj[o].wave
                      /\ db'.obj[o].state = IF o \in S THEN "WAVE_ASSIGNED" ELSE db.obj[o].state
      BY <1>6, Fields DEF Changed, Dbs, ObjRec
<1>8. Untouched(db', w)
  <2>1. Members(db', w) = Members(db, w)
        BY <1>7 DEF Members
  <2>. QED BY <1>1, <1>2, <1>5, <1>7, <2>1 DEF Untouched, Members
<1>. QED BY <1>2, <1>3, <1>4, <1>6, <1>8, ChangedSteps DEF States

LEMMA DeleteSteps ==
    ASSUME db \in Good, NEW w \in WaveIds, DeleteWave(w)
    PROVE  Steps(db, db')
<1>. DEFINE u == Unassign(db, {w})
<1>1. /\ u \in Good /\ Members(u, w) = {}
      /\ \A v \in WaveIds \ {w} : Members(u, v) = Members(db, v)
      BY UnassignGood DEF DeleteWave
<1>2. u.wave = db.wave
      BY Fields DEF Unassign, Dbs
<1>3. NoWave \in WaveRec
      BY DEF NoWave, WaveRec, Statuses
<1>4. db' = [u EXCEPT !.wave[w] = NoWave]
      BY DEF DeleteWave
<1>. HIDE DEF u
<1>5. /\ db' \in Dbs /\ db'.obj = u.obj /\ db'.next = u.next /\ db'.run = u.run
      /\ \A v \in WaveIds : db'.wave[v] = IF v = w THEN NoWave ELSE u.wave[v]
  <2>1. /\ [u.wave EXCEPT ![w] = NoWave] \in [WaveIds -> WaveRec]
        /\ \A v \in WaveIds : [u.wave EXCEPT ![w] = NoWave][v] =
                                  IF v = w THEN NoWave ELSE u.wave[v]
        BY <1>1, <1>3, Fields DEF Dbs
  <2>. QED BY <1>1, <1>4, <2>1, Fields DEF Dbs
<1>6. \A v \in WaveIds : Members(db', v) = Members(u, v)
      BY <1>5 DEF Members
<1>7. \A o \in Objs : u.obj[o].wave # w
      BY <1>1 DEF Members
<1>8. InPlan(db') /\ Finished(db')
  <2>1. \A o \in Objs : u.obj[o].wave # 0 =>
            u.obj[o].wave \in WaveIds /\ db'.wave[u.obj[o].wave] = u.wave[u.obj[o].wave]
        BY <1>1, <1>5, <1>7, Fields
  <2>2. InPlan(db')
        BY <1>1, <1>5, <2>1 DEF Good, InPlan
  <2>3. Finished(db')
        BY <1>1, <1>5, <2>1 DEF Good, Finished
  <2>. QED BY <2>2, <2>3
<1>9. Unborn(db')
      BY <1>1, <1>5 DEF Good, Unborn
<1>10. Ordered(db')
  <2>1. \A v \in WaveIds : Untouched(u, v) => Untouched(db', v)
        BY <1>5 DEF Untouched, Members
  <2>2. NoWave.task = "NONE" /\ NoWave.status = "NONE" /\ NoWave.run = 0
        BY DEF NoWave
  <2>. QED BY <1>1, <1>5, <2>1, <2>2 DEF Good, Ordered
<1>11. Frozen(db, db') /\ \A v \in WaveIds : Queued(db', v) => Queued(db, v)
      BY <1>1, <1>2, <1>5, <1>6 DEF Frozen, Queued, NoWave
<1>. QED BY <1>5, <1>8, <1>9, <1>10, <1>11 DEF Good, Steps

\* Replanning takes no slot and no stock.
LEMMA MoveKeepsSlots ==
    ASSUME NEW d, NEW e, Moves(d, e), NEW r
    PROVE  /\ SlotLimit(e, r) = SlotLimit(d, r)
           /\ StockAtRestore(e, r) = StockAtRestore(d, r)
           /\ Occupied(e, r) = Occupied(d, r) /\ WavesOf(e, r) = WavesOf(d, r)
<1>. DEFINE owed(f) == {o \in InState(f, {"RESTORING"}) :
                           f.obj[o].wave \in {w \in WavesOf(f, r) : f.wave[w].status \in Active}}
<1>1. WavesOf(e, r) = WavesOf(d, r) /\ Occupied(e, r) = Occupied(d, r)
      BY DEF Moves, WavesOf, Occupied, Queued
<1>2. \A o \in Objs, s \in {"RESTORING", "RESTORED"} :
          e.obj[o].state = s \/ d.obj[o].state = s => e.obj[o] = d.obj[o]
      BY DEF Moves
<1>3. Stock(e, r) = Stock(d, r)
      BY <1>2 DEF Stock, InState
<1>4. owed(e) = owed(d)
      BY <1>1, <1>2 DEF InState, Moves
<1>5. \A f : SlotLimit(f, r) =
                IF /\ rate # 0
                   /\ Retention > RestoreSeconds + TargetBuffer
                   /\ Seconds(Bytes(Stock(f, r) \cup owed(f))) < RestoreSeconds + TargetBuffer
                THEN Smaller(SlotCeiling, 3) ELSE 2
      BY DEF SlotLimit
<1>. HIDE DEF owed
<1>. QED BY <1>1, <1>3, <1>4, <1>5 DEF StockAtRestore

LEMMA PlanThenRelease ==
    ASSUME rate \in Nat, NEW d \in Good, NEW m \in Planned(d)
    PROVE  /\ Release(m) \in Good /\ Keeps(d, Release(m))
           /\ \A r \in Runs : Justified(d, Release(m), r)
<1>. DEFINE e == Release(m)
<1>1. /\ m \in Good /\ Plans(d, m) /\ e \in Good /\ Releases(m, e)
      /\ \A r \in Runs : Justified(m, e, r)
      BY ReleaseReleasing DEF Planned
<1>. HIDE DEF e
<1>2. Keeps(m, e)
      BY <1>1 DEF Releases, Keeps, Members
<1>3. Keeps(d, e)
  <2>1. ASSUME NEW w \in WaveIds, d.wave[w].task # "NONE"
        PROVE  e.wave[w].task = d.wave[w].task /\ Members(e, w) = Members(d, w)
        BY <1>1, <1>2, <2>1 DEF Plans, Keeps
  <2>2. ASSUME NEW w \in WaveIds, d.wave[w].status = "FAILED", Members(d, w) # {}
        PROVE  /\ e.wave[w].status = "FAILED" /\ e.wave[w].run = d.wave[w].run
               /\ Members(d, w) \subseteq Members(e, w)
    <3>1. /\ m.wave[w].status = "FAILED" /\ m.wave[w].run = d.wave[w].run
          /\ Members(d, w) \subseteq Members(m, w) /\ Members(m, w) # {}
          BY <1>1, <2>2 DEF Plans, Keeps
    <3>. QED BY <1>2, <3>1 DEF Keeps
  <2>. QED BY <2>1, <2>2 DEF Keeps
<1>4. ASSUME NEW r \in Runs PROVE Justified(d, e, r)
  <2>1. NewlyQueued(d, e, r) \subseteq NewlyQueued(m, e, r)
        BY <1>1 DEF NewlyQueued, Plans, WavesOf
  <2>2. Stopped(d, r) => Stopped(m, r)
    <3>. SUFFICES ASSUME NEW w \in WavesOf(d, r), d.wave[w].status = "FAILED", Members(d, w) # {}
                  PROVE  Stopped(m, r)
         BY DEF Stopped
    <3>1. w \in WavesOf(m, r) /\ m.wave[w].status = "FAILED" /\ Members(m, w) # {}
          BY <1>1 DEF Plans, Keeps, WavesOf
    <3>. QED BY <3>1 DEF Stopped
  <2>. QED BY <1>1, <2>1, <2>2 DEF Justified
<1>. QED BY <1>1, <1>3, <1>4 DEF e

LEMMA GovernJustified ==
    ASSUME rate \in Nat, db \in Good, Govern
    PROVE  /\ db' \in Good /\ Frozen(db, db')
           /\ \A r \in Runs : Justified(db, db', r)
<1>. DEFINE Plan(soon) == Sweep(LAMBDA e, r : IF Awake(e, r) THEN Materialize(e, r, r \in soon)
                                              ELSE e,
                                Replan(Reconcile(db)), Last)
<1>1. \E soon \in SUBSET {r \in Runs : Plannable(r)} : db' = Release(Plan(soon))
      BY DEF Govern
<1>2. \A soon : Plan(soon) \in Planned(db)
      BY PlanPlanned
<1>. HIDE DEF Plan
<1>3. PICK m \in Planned(db) : db' = Release(m)
      BY <1>1, <1>2
<1>4. db' \in Good /\ Keeps(db, db') /\ \A r \in Runs : Justified(db, db', r)
      BY <1>3, PlanThenRelease
<1>. QED BY <1>4 DEF Frozen, Keeps

LEMMA CreateJustified ==
    ASSUME rate \in Nat, db \in Good, NEW r \in Runs, CreatePipeline(r)
    PROVE  /\ db' \in Good /\ Frozen(db, db')
           /\ \A q \in Runs : Justified(db, db', q)
<1>. DEFINE d == [db EXCEPT !.run[r] = "SCHEDULED"]
<1>1. PICK soon \in BOOLEAN : db' = Replan(Release(Materialize(d, r, soon)))
      BY DEF CreatePipeline
<1>2. d \in Good /\ Plans(db, d)
  <2>1. /\ d \in Dbs /\ d.obj = db.obj /\ d.wave = db.wave /\ d.next = db.next
        /\ \A q \in Runs : d.run[q] = "COMPLETED" => db.run[q] = "COMPLETED"
        BY Fields DEF Dbs
  <2>. HIDE DEF d
  <2>2. InPlan(d) /\ Unborn(d) /\ Ordered(d)
        BY <2>1 DEF Good, InPlan, Unborn, Ordered, Untouched, Members
  <2>3. Finished(d)
        BY <2>1, Shapes DEF Good, Finished
  <2>. QED BY <2>1, <2>2, <2>3 DEF Good, Plans, Keeps, Queued, Members
<1>. DEFINE m   == Materialize(d, r, soon)
            rel == Release(m)
<1>. HIDE DEF d
<1>3. m \in Planned(db)
  <2>1. m \in Planned(d)
        BY <1>2, MaterializePlanned
  <2>. QED BY <1>2, <2>1, PlansTransitive DEF Planned
<1>. HIDE DEF m
<1>4. rel \in Good /\ Keeps(db, rel) /\ \A q \in Runs : Justified(db, rel, q)
      BY <1>3, PlanThenRelease
<1>. HIDE DEF rel
<1>5. db' \in Good /\ Plans(rel, db') /\ Moves(rel, db')
  <2>1. db' = Replan(rel)
        BY <1>1 DEF m, rel
  <2>. QED BY <1>4, <2>1, ReplanReplanned DEF Replanned
<1>6. Frozen(db, db')
      BY <1>4, <1>5 DEF Frozen, Plans, Keeps
<1>7. ASSUME NEW q \in Runs PROVE Justified(db, db', q)
  <2>1. /\ SlotLimit(db', q) = SlotLimit(rel, q)
        /\ StockAtRestore(db', q) = StockAtRestore(rel, q)
        /\ Occupied(db', q) = Occupied(rel, q) /\ WavesOf(db', q) = WavesOf(rel, q)
        BY <1>5, MoveKeepsSlots
  <2>2. NewlyQueued(db, db', q) = NewlyQueued(db, rel, q)
        BY <1>5, <2>1 DEF Moves, NewlyQueued, Queued
  <2>3. \A w \in NewlyQueued(db, rel, q) : Members(db', w) = Members(rel, w)
        BY <1>5 DEF NewlyQueued, Queued, WavesOf, Plans, Keeps
  <2>. QED BY <1>4, <2>1, <2>2, <2>3 DEF Justified, WithinBuffer
<1>. QED BY <1>5, <1>6, <1>7

-----------------------------------------------------------------------------
(* Theorems *)

IInv ==
    /\ db \in Good
    /\ rate \in Rates \cup {0}
    /\ fresh \subseteq Runs /\ paused \subseteq Projects /\ cycle \in {0, 1}

LEMMA IInvInit == Init => IInv
<1>. SUFFICES ASSUME Init PROVE IInv
     OBVIOUS
<1>1. /\ db.obj = [o \in Objs |-> [state |-> "DISCOVERED", wave |-> 0]]
      /\ db.wave = [w \in WaveIds |-> NoWave]
      /\ db.next = 1 /\ db.run = [r \in Runs |-> "NONE"]
      BY DEF Init
<1>2. NoWave \in WaveRec /\ NoWave.status = "NONE" /\ NoWave.task = "NONE"
      BY DEF NoWave, WaveRec, Statuses
<1>3. [state |-> "DISCOVERED", wave |-> 0] \in ObjRec
      BY Shapes DEF ObjRec
<1>4. db \in Dbs
  <2>1. db.obj \in [Objs -> ObjRec] /\ db.wave \in [WaveIds -> WaveRec]
        BY <1>1, <1>2, <1>3
  <2>2. db.next \in 1..MaxWaves + 1
        BY <1>1, Shapes
  <2>3. db.run \in [Runs -> {"NONE", "SCHEDULED", "NEEDS_ATTENTION", "COMPLETED"}]
        BY <1>1
  <2>4. db = [obj |-> db.obj, wave |-> db.wave, next |-> db.next, run |-> db.run]
        BY DEF Init
  <2>. QED BY <2>1, <2>2, <2>3, <2>4 DEF Dbs
<1>5. InPlan(db) /\ Unborn(db) /\ Finished(db)
      BY <1>1, Shapes DEF InPlan, Unborn, Finished
<1>6. Ordered(db)
      BY <1>1, <1>2 DEF Ordered
<1>. QED BY <1>4, <1>5, <1>6 DEF Init, IInv, Good

\* What a step does to the database, and whom it admits.
LEMMA NextJudged ==
    ASSUME IInv, [Next]_vars
    PROVE  /\ db' \in Good /\ Frozen(db, db')
           /\ \A r \in Runs : Justified(db, db', r)
<1>1. db \in Good /\ rate \in Nat
  <2>1. Rates \subseteq Nat
        BY RestoreAdmissionAssumption
  <2>. QED BY <2>1 DEF IInv
<1>2. ASSUME db' = db \/ Steps(db, db')
      PROVE  /\ db' \in Good /\ Frozen(db, db')
             /\ \A r \in Runs : Justified(db, db', r)
      BY <1>1, <1>2 DEF Steps, Frozen, Justified, NewlyQueued, WavesOf
<1>3. CASE Govern
      BY <1>1, <1>3, GovernJustified
<1>4. CASE Create
      BY <1>1, <1>4, CreateJustified DEF Create
<1>5. CASE Time \/ Sei \/ Fail
      BY <1>1, <1>2, <1>5, TickSteps, SubmitSteps, PollSteps, FailSteps DEF Time, Sei, Fail
<1>6. CASE Lane
      BY <1>1, <1>2, <1>6, TransferSteps DEF Lane
<1>7. CASE Operator
  <2>1. CASE \E w \in WaveIds : Reprocess(w) \/ DeleteWave(w)
        BY <1>1, <1>2, <2>1, ReprocessSteps, DeleteSteps
  <2>2. CASE \E p \in Projects : PauseProject(p) \/ ResumeProject(p)
        BY <1>2, <2>2 DEF PauseProject, ResumeProject
  <2>. QED BY <1>7, <2>1, <2>2 DEF Operator
<1>8. CASE UNCHANGED vars
      BY <1>2, <1>8 DEF vars
<1>. QED BY <1>3, <1>4, <1>5, <1>6, <1>7, <1>8 DEF Next

LEMMA IInvNext == IInv /\ [Next]_vars => IInv'
<1>. SUFFICES ASSUME IInv, [Next]_vars PROVE IInv'
     OBVIOUS
<1>1. db' \in Good
      BY NextJudged
<1>2. rate' \in Rates \cup {0} /\ cycle' \in {0, 1}
  <2>1. CASE Govern
    <3>1. rate' = rate /\ cycle' = 1 - cycle
          BY <2>1 DEF Govern
    <3>. QED BY <3>1 DEF IInv
  <2>2. CASE Create
    <3>1. rate' = rate /\ cycle' = cycle
          BY <2>2 DEF Create, CreatePipeline
    <3>. QED BY <3>1 DEF IInv
  <2>3. CASE Time \/ Lane
        BY <2>3 DEF IInv, Time, Tick, Lane, Transfer
  <2>4. CASE Sei
        BY <2>4 DEF IInv, Sei, Submit, Poll
  <2>5. CASE Fail
        BY <2>5 DEF IInv, Fail, SubmitFails, RestoreFails
  <2>6. CASE Operator
        BY <2>6 DEF IInv, Operator, Reprocess, DeleteWave, PauseProject, ResumeProject
  <2>7. CASE UNCHANGED vars
        BY <2>7 DEF IInv, vars
  <2>. QED BY <2>1, <2>2, <2>3, <2>4, <2>5, <2>6, <2>7 DEF Next
<1>3. fresh' \subseteq Runs /\ paused' \subseteq Projects
  <2>1. CASE Govern
        BY <2>1 DEF IInv, Govern
  <2>2. CASE Create
        BY <2>2 DEF IInv, Create, CreatePipeline
  <2>3. CASE Time
        BY <2>3 DEF IInv, Time, Tick
  <2>4. CASE Lane
        BY <2>4, Shapes DEF IInv, Lane, Transfer
  <2>5. CASE Sei
        BY <2>5 DEF IInv, Sei, Submit, Poll
  <2>6. CASE Fail
        BY <2>6 DEF IInv, Fail, SubmitFails, RestoreFails
  <2>7. CASE Operator
        BY <2>7 DEF IInv, Operator, Reprocess, DeleteWave, PauseProject, ResumeProject
  <2>8. CASE UNCHANGED vars
        BY <2>8 DEF IInv, vars
  <2>. QED BY <2>1, <2>2, <2>3, <2>4, <2>5, <2>6, <2>7, <2>8 DEF Next
<1>. QED BY <1>1, <1>2, <1>3 DEF IInv

LEMMA IInvAlways == Spec => []IInv
    BY IInvInit, IInvNext, PTL DEF Spec

\* The variables keep their types: no planning, admission, restore, delivery or
\* operator call takes the database out of its domain.
THEOREM TypeCorrect == Spec => []TypeOK
<1>1. IInv => TypeOK
  <2>. SUFFICES ASSUME IInv PROVE TypeOK
       OBVIOUS
  <2>1. db \in Dbs
        BY DEF IInv, Good
  <2>. QED BY <2>1 DEF IInv, TypeOK, Dbs, ObjRec, WaveRec
<1>. QED BY <1>1, IInvAlways, PTL

\* An object is in the inventory or in one wave of its own source, and a
\* complete pipeline left none behind, however waves were packed, packed again,
\* deleted and reprocessed (assign_dynamic_wave_objects,
\* repackage_unsubmitted_dynamic_waves, delete_wave, reprocess_wave).
THEOREM PlanIsWhole == Spec => []PlanMatchesInventory
<1>1. IInv => PlanMatchesInventory
  <2>. SUFFICES ASSUME IInv PROVE PlanMatchesInventory
       OBVIOUS
  <2>1. InPlan(db) /\ Finished(db)
        BY DEF IInv, Good
  <2>. QED BY <2>1 DEF PlanMatchesInventory, InPlan, Finished
<1>. QED BY <1>1, IInvAlways, PTL

\* No step packs a wave again under a queued or running restore.
THEOREM SubmissionsAreFrozen == Spec => SubmittedIsFrozen
<1>1. IInv /\ [Next]_vars =>
        [\A w \in WaveIds : db.wave[w].task # "NONE" /\ db'.wave[w].run # 0
                               => Members(db', w) = Members(db, w)]_vars
      BY NextJudged DEF Frozen
<1>. QED BY <1>1, IInvAlways, PTL DEF Spec, SubmittedIsFrozen

\* Every charged restore that a step queues is within the slots and the buffer
\* of a pipeline that is neither paused nor stopped, in a cycle of Shin and in
\* the creation of a pipeline (release_dynamic_restore_horizon).
THEOREM AdmissionsAreJustified == Spec => AdmissionIsJustified
<1>. DEFINE Fair(r) ==
         Admitted(r) # {} =>
           /\ ~IsPaused(r)
           /\ \A w \in WavesOf(db, r) : db.wave[w].status = "FAILED" => Members(db, w) = {}
           /\ Cardinality(Occupied(db', r)) <= SlotLimit(db', r)
           /\ \A w \in Admitted(r) :
                LET stock == Larger(0, Seconds(Bytes(Stock(db', r))) - Lead)
                IN  stock >= MinBuffer =>
                      stock + Seconds(Bytes(Members(db', w))) <= MaxBuffer
<1>1. ASSUME IInv, [Next]_vars, NEW r \in Runs PROVE Fair(r)
  <2>1. Justified(db, db', r)
        BY <1>1, NextJudged
  <2>2. Admitted(r) = NewlyQueued(db, db', r)
        BY DEF Admitted, NewlyQueued
  <2>. QED BY <2>1, <2>2 DEF Justified, Stopped, WithinBuffer, StockAtRestore
<1>2. IInv /\ [Next]_vars => [\A r \in Runs : Fair(r)]_vars
      BY <1>1
<1>. QED BY <1>2, IInvAlways, PTL DEF Spec, AdmissionIsJustified

-----------------------------------------------------------------------------
(* Slices *)

LEMMA DivisionGrows ==
    ASSUME NEW a \in Nat, NEW b \in Nat, a <= b, NEW q \in Nat, q > 0
    PROVE  a \div q <= b \div q
<1>. DEFINE x == a \div q
            y == b \div q
<1>1. x \in Int /\ y \in Int /\ q * x <= a /\ b < q * (y + 1)
      OBVIOUS
<1>. HIDE DEF x, y
<1>2. SUFFICES ASSUME x >= y + 1 PROVE FALSE
      BY <1>1
<1>3. q * x >= q * (y + 1)
      BY <1>1, <1>2
<1>4. q * x \in Int /\ q * (y + 1) \in Int
      BY <1>1
<1>. QED BY <1>1, <1>3, <1>4

LEMMA FitsPart ==
    ASSUME rate \in Nat, NEW T \in SUBSET Objs, NEW S \in SUBSET T, Fits(T)
    PROVE  Fits(S)
<1>. DEFINE of(A) == UNION {{o} \X (1..Sizes[o[1]][o[2]]) : o \in A}
            q == IF rate = 0 THEN ColdRate ELSE rate
<1>1. IsFiniteSet(T) /\ IsFiniteSet(S) /\ S \in SUBSET Objs
      BY ObjsAreFew, FS_Subset
<1>2. Cardinality(S) <= Cardinality(T) /\ Cardinality(S) \in Nat /\ Cardinality(T) \in Nat
      BY <1>1, FS_Subset, FS_CardinalityType
<1>3. Bytes(S) \in Nat /\ Bytes(T) \in Nat
      BY <1>1, BytesNumber
<1>4. Bytes(S) <= Bytes(T)
  <2>1. of(S) \subseteq of(T)
        OBVIOUS
  <2>2. IsFiniteSet(of(T))
        BY BytesAreFew
  <2>. HIDE DEF of
  <2>3. Cardinality(of(S)) <= Cardinality(of(T))
        BY <2>1, <2>2, FS_Subset
  <2>. QED BY <2>3 DEF Bytes, of
<1>5. Seconds(Bytes(S)) <= Seconds(Bytes(T))
  <2>1. q \in Nat /\ q > 0
        BY RestoreAdmissionAssumption
  <2>2. \A b : Seconds(b) = (b + q - 1) \div q
        BY DEF Seconds
  <2>. HIDE DEF q
  <2>3. Bytes(S) + q - 1 \in Nat /\ Bytes(T) + q - 1 \in Nat /\ Bytes(S) + q - 1 <= Bytes(T) + q - 1
        BY <1>3, <1>4, <2>1
  <2>. QED BY <2>1, <2>2, <2>3, DivisionGrows
<1>6. /\ MaxBytes \in Nat /\ MaxObjects \in Nat /\ TargetSeconds \in Nat
      /\ Seconds(Bytes(S)) \in Int /\ Seconds(Bytes(T)) \in Int
      BY <1>3, SecondsNumber, RestoreAdmissionAssumption
<1>. QED BY <1>2, <1>3, <1>4, <1>5, <1>6 DEF Fits

\* An object does not fit alone when it is too large.
LEMMA FitsAlone ==
    ASSUME rate \in Nat, NEW o \in Objs
    PROVE  Fits({o}) <=> ~(Bytes({o}) > MaxBytes \/ Seconds(Bytes({o})) > TargetSeconds)
<1>1. Bytes({o}) \in Nat /\ Seconds(Bytes({o})) \in Int
      BY BytesNumber, SecondsNumber
<1>2. MaxBytes \in Nat /\ TargetSeconds \in Nat /\ MaxObjects \in Nat \ {0}
      BY RestoreAdmissionAssumption
<1>3. Cardinality({o}) <= MaxObjects
      BY <1>2, FS_Singleton
<1>. QED BY <1>1, <1>2, <1>3 DEF Fits

\* The objects S of a pipeline r, with their numbers up to n.
InOrder(S, r, n) == \A o \in S : o = <<r, o[2]>> /\ o[2] \in 1..n

From(S, k) == {o \in S : o[2] >= k}

\* C is the slice that begins where it begins.
IsSlice(S, C) == \E m \in C : C = NextSlice(From(S, m[2])) /\ \A o \in C : o[2] >= m[2]

\* A run of objects that cannot be continued is the slice from its first object.
LEMMA ClosedRun ==
    ASSUME rate \in Nat, NEW r, NEW n \in Nat, NEW S \in SUBSET Objs, InOrder(S, r, n),
           NEW m \in S, NEW l \in S, NEW C, C = {o \in S : m[2] <= o[2] /\ o[2] <= l[2]},
           m[2] <= l[2], m = l \/ Fits(C),
           \A p \in S : p[2] > l[2] =>
               \E o \in S : l[2] < o[2] /\ o[2] <= p[2] /\ ~Fits(C \cup {o})
    PROVE  IsSlice(S, C)
<1>. DEFINE R == From(S, m[2])
            Part(p) == {o \in R : o[2] <= p[2]}
<1>1. \A o \in S : o[2] \in Nat /\ o = <<r, o[2]>>
      BY DEF InOrder
<1>2. m \in C /\ l \in C /\ l \in R /\ Part(l) = C
      BY <1>1 DEF From
<1>3. Cardinality(C) = 1 \/ Fits(C)
  <2>1. m = l => C = {m}
        BY <1>1
  <2>. QED BY <2>1, FS_Singleton
<1>4. ASSUME NEW p \in R, Cardinality(Part(p)) = 1 \/ Fits(Part(p)) PROVE Part(p) \subseteq C
  <2>. SUFFICES ASSUME p[2] > l[2] PROVE FALSE
       BY <1>1 DEF From
  <2>1. C \cup {p} \subseteq Part(p) /\ Part(p) \in SUBSET Objs /\ p \in S
        BY <1>1 DEF From
  <2>2. ~Fits(Part(p))
    <3>1. PICK o \in S : l[2] < o[2] /\ o[2] <= p[2] /\ ~Fits(C \cup {o})
          BY <2>1
    <3>2. o \in Part(p)
          BY <1>1, <3>1 DEF From
    <3>. HIDE DEF Part
    <3>. QED BY <2>1, <3>1, <3>2, FitsPart
  <2>3. m \in Part(p) /\ p \in Part(p) /\ m # p
        BY <1>1, <1>2, <2>1
  <2>4. Cardinality(Part(p)) # 1
    <3>1. IsFiniteSet(Part(p))
          BY <2>1, ObjsAreFew, FS_Subset
    <3>2. IsFiniteSet({m, p}) /\ Cardinality({m, p}) = 2
      <4>1. IsFiniteSet({m}) /\ Cardinality({m}) = 1 /\ {m, p} = {m} \cup {p} /\ p \notin {m}
            BY <2>3, FS_Singleton
      <4>2. IsFiniteSet({m} \cup {p}) /\ Cardinality({m} \cup {p}) = 1 + 1
            BY <4>1, FS_AddElement
      <4>. QED BY <4>1, <4>2
    <3>3. Cardinality({m, p}) <= Cardinality(Part(p))
          BY <2>3, <3>1, FS_Subset
    <3>. QED BY <3>2, <3>3
  <2>. QED BY <1>4, <2>2, <2>4
<1>5. NextSlice(R) = UNION {P \in {Part(p) : p \in R} : Cardinality(P) = 1 \/ Fits(P)}
      BY DEF NextSlice
<1>. HIDE DEF Part, R
<1>6. NextSlice(R) = C
      BY <1>2, <1>3, <1>4, <1>5
<1>. QED BY <1>1, <1>2, <1>6 DEF IsSlice, R

-----------------------------------------------------------------------------
(* The preview *)

\* The step of dynamic_wave_plan at the object i of the pipeline r.
Pack(p, r, S, i) ==
    LET o == <<r, i>>
        c == p.closed \cup {p.open}
    IN  IF o \notin S THEN p
        ELSE IF p.open # {} /\ Fits(p.open \cup {o})
             THEN [p EXCEPT !.open = p.open \cup {o}]
        ELSE IF Bytes({o}) > MaxBytes \/ Seconds(Bytes({o})) > TargetSeconds
             THEN [closed |-> c \cup {{o}}, open |-> {}]
        ELSE [closed |-> c, open |-> {o}]

Packings == [closed : SUBSET SUBSET Objs, open : SUBSET Objs]

\* The open run from m to l, up to the object i.
OpenRun(p, S, i, m, l) ==
    /\ p.open = {o \in S : m[2] <= o[2] /\ o[2] <= l[2]} /\ m[2] <= l[2]
    /\ \A o \in S : o[2] > l[2] => o[2] > i

Apart(W) == \A C, D \in W : C = D \/ C \cap D = {}

\* Up to the object i the objects are in slices and in the open run.
Packed(p, S, i) ==
    /\ p.open \cup UNION p.closed = {o \in S : o[2] <= i}
    /\ Apart(p.closed)
    /\ \A C \in p.closed : C \cap p.open = {} /\ (C # {} => IsSlice(S, C))
    /\ p.open # {} => Fits(p.open) /\ \E m, l \in S : OpenRun(p, S, i, m, l)

\* The open run ends at the object o, with which it does not fit.
LEMMA CloseRun ==
    ASSUME rate \in Nat, NEW r, NEW n \in Nat, NEW S \in SUBSET Objs, InOrder(S, r, n),
           NEW i \in 1..n, <<r, i>> \in S, NEW p \in Packings, Packed(p, S, i - 1),
           p.open # {} => ~Fits(p.open \cup {<<r, i>>})
    PROVE  /\ Apart(p.closed \cup {p.open})
           /\ \A C \in p.closed \cup {p.open} :
                 /\ <<r, i>> \notin C /\ C \subseteq S
                 /\ C # {} => IsSlice(S, C)
           /\ UNION (p.closed \cup {p.open}) = {q \in S : q[2] <= i - 1}
<1>1. UNION (p.closed \cup {p.open}) = {q \in S : q[2] <= i - 1}
      BY DEF Packed
<1>2. \A C \in p.closed \cup {p.open} : <<r, i>> \notin C /\ C \subseteq S
  <2>1. \A C \in p.closed \cup {p.open} : C \subseteq {q \in S : q[2] <= i - 1}
        BY <1>1
  <2>2. <<r, i>>[2] = i /\ ~(i <= i - 1)
        OBVIOUS
  <2>. QED BY <2>1, <2>2
<1>3. Apart(p.closed \cup {p.open})
      BY DEF Packed, Apart
<1>4. ASSUME p.open # {} PROVE IsSlice(S, p.open)
  <2>. DEFINE o == <<r, i>>
  <2>1. PICK m \in S, l \in S : OpenRun(p, S, i - 1, m, l)
        BY <1>4 DEF Packed
  <2>2. l[2] < o[2]
    <3>1. l \in p.open
          BY <2>1 DEF OpenRun, InOrder
    <3>2. l[2] <= i - 1 /\ l[2] \in Nat
          BY <1>1, <3>1 DEF InOrder
    <3>. QED BY <3>2
  <2>3. \A q \in S : q[2] > l[2] => o[2] <= q[2]
        BY <2>1 DEF OpenRun, InOrder
  <2>4. Fits(p.open)
        BY <1>4 DEF Packed
  <2>5. /\ p.open = {q \in S : m[2] <= q[2] /\ q[2] <= l[2]} /\ m[2] <= l[2]
        /\ \A q \in S : q[2] > l[2] =>
               \E s \in S : l[2] < s[2] /\ s[2] <= q[2] /\ ~Fits(p.open \cup {s})
        BY <1>4, <2>1, <2>2, <2>3 DEF OpenRun
  <2>. QED BY <2>4, <2>5, ClosedRun
<1>5. \A C \in p.closed : C # {} => IsSlice(S, C)
      BY DEF Packed
<1>. QED BY <1>1, <1>2, <1>3, <1>4, <1>5

LEMMA PackPacked ==
    ASSUME rate \in Nat, NEW r, NEW n \in Nat, NEW S \in SUBSET Objs, InOrder(S, r, n),
           NEW i \in 1..n, NEW p \in Packings, Packed(p, S, i - 1)
    PROVE  Packed(Pack(p, r, S, i), S, i)
<1>. DEFINE o == <<r, i>>
            f == Pack(p, r, S, i)
            c == p.closed \cup {p.open}
<1>1. \A q \in S : q = <<r, q[2]>> /\ q[2] \in Nat
      BY DEF InOrder
<1>2. o[2] = i /\ i \in Nat
      OBVIOUS
<1>3. CASE o \notin S
  <2>1. f = p
        BY <1>3 DEF Pack
  <2>2. \A q \in S : q[2] # i
        BY <1>1, <1>3
  <2>3. {q \in S : q[2] <= i} = {q \in S : q[2] <= i - 1}
        BY <1>1, <1>2, <2>2
  <2>4. \A m, l \in S : OpenRun(p, S, i - 1, m, l) => OpenRun(p, S, i, m, l)
        BY <1>1, <1>2, <2>2 DEF OpenRun
  <2>. QED BY <2>1, <2>3, <2>4 DEF Packed
<1>4. ASSUME o \in S PROVE {q \in S : q[2] <= i} = {q \in S : q[2] <= i - 1} \cup {o}
      BY <1>1, <1>2, <1>4
<1>5. CASE o \in S /\ p.open # {} /\ Fits(p.open \cup {o})
  <2>1. f.open = p.open \cup {o} /\ f.closed = p.closed
        BY <1>5 DEF Pack, Packings
  <2>2. f.open \cup UNION f.closed = {q \in S : q[2] <= i}
        BY <1>4, <1>5, <2>1 DEF Packed
  <2>3. \A C \in f.closed : C \cap f.open = {} /\ (C # {} => IsSlice(S, C))
    <3>1. \A C \in p.closed : o \notin C
      <4>1. \A C \in p.closed : C \subseteq {q \in S : q[2] <= i - 1}
            BY DEF Packed
      <4>2. ~(o[2] <= i - 1)
            BY <1>2
      <4>. QED BY <4>1, <4>2
    <3>. QED BY <2>1, <3>1 DEF Packed
  <2>4. PICK m \in S, l \in S : OpenRun(p, S, i - 1, m, l)
        BY <1>5 DEF Packed
  <2>5. OpenRun(f, S, i, m, o)
    <3>1. l \in p.open /\ l[2] <= i - 1
      <4>1. l \in p.open
            BY <1>1, <2>4 DEF OpenRun
      <4>. QED BY <4>1 DEF Packed
    <3>2. m[2] \in Nat /\ l[2] \in Nat /\ m[2] <= l[2]
          BY <1>1, <2>4 DEF OpenRun
    <3>3. m[2] <= o[2]
          BY <1>2, <3>1, <3>2
    <3>4. \A q \in S : q[2] <= i /\ q # o => q[2] <= l[2]
          BY <1>1, <1>2, <2>4, <3>2 DEF OpenRun
    <3>5. \A q \in S : q[2] <= l[2] => q[2] <= i
          BY <1>1, <1>2, <3>1, <3>2
    <3>6. f.open = {q \in S : m[2] <= q[2] /\ q[2] <= o[2]}
      <4>1. ASSUME NEW q \in S PROVE q \in f.open <=> m[2] <= q[2] /\ q[2] <= i
            BY <1>2, <2>1, <2>4, <3>3, <3>4, <3>5 DEF OpenRun
      <4>2. f.open \subseteq S
            BY <1>5, <2>1, <2>4 DEF OpenRun
      <4>. QED BY <1>2, <4>1, <4>2
    <3>. QED BY <1>2, <3>3, <3>6 DEF OpenRun
  <2>. QED BY <1>5, <2>1, <2>2, <2>3, <2>5 DEF Packed
<1>6. ASSUME o \in S, ~(p.open # {} /\ Fits(p.open \cup {o}))
      PROVE  /\ Apart(c) /\ UNION c = {q \in S : q[2] <= i - 1}
             /\ \A C \in c : o \notin C /\ C \subseteq S /\ (C # {} => IsSlice(S, C))
  <2>1. p.open # {} => ~Fits(p.open \cup {<<r, i>>})
        BY <1>6
  <2>2. <<r, i>> \in S
        BY <1>6
  <2>. HIDE DEF c
  <2>3. /\ Apart(p.closed \cup {p.open})
        /\ \A C \in p.closed \cup {p.open} :
              /\ <<r, i>> \notin C /\ C \subseteq S
              /\ C # {} => IsSlice(S, C)
        /\ UNION (p.closed \cup {p.open}) = {q \in S : q[2] <= i - 1}
        BY <2>1, <2>2, CloseRun
  <2>. QED BY <2>3 DEF c
<1>7. CASE /\ o \in S /\ ~(p.open # {} /\ Fits(p.open \cup {o}))
           /\ Bytes({o}) > MaxBytes \/ Seconds(Bytes({o})) > TargetSeconds
  <2>1. f = [closed |-> c \cup {{o}}, open |-> {}]
        BY <1>7 DEF Pack
  <2>2. IsSlice(S, {o})
    <3>1. {o} = {q \in S : o[2] <= q[2] /\ q[2] <= o[2]}
          BY <1>1, <1>2, <1>7
    <3>2. ~Fits({o})
          BY <1>7, FitsAlone
    <3>3. \A q \in S : q[2] > o[2] => ~Fits({o} \cup {q})
      <4>1. \A q \in S : {o} \in SUBSET ({o} \cup {q}) /\ {o} \cup {q} \in SUBSET Objs
            BY <1>7
      <4>. QED BY <3>2, <4>1, FitsPart
    <3>4. \A q \in S : q[2] > o[2] =>
              \E s \in S : o[2] < s[2] /\ s[2] <= q[2] /\ ~Fits({o} \cup {s})
          BY <1>1, <1>2, <3>3
    <3>. HIDE DEF o
    <3>5. o \in S /\ o[2] <= o[2]
          BY <1>1, <1>7
    <3>. QED BY <3>1, <3>4, <3>5, ClosedRun
  <2>3. Apart(f.closed) /\ \A C \in f.closed : C # {} => IsSlice(S, C)
    <3>. HIDE DEF c, o, f
    <3>1. f.closed = c \cup {{o}}
          BY <2>1
    <3>2. Apart(c) /\ \A C \in c : o \notin C /\ (C # {} => IsSlice(S, C))
          BY <1>6, <1>7
    <3>3. \A C \in c : C \cap {o} = {} /\ {o} \cap C = {}
          BY <3>2
    <3>4. Apart(f.closed)
          BY <3>1, <3>2, <3>3 DEF Apart
    <3>. QED BY <2>2, <3>1, <3>2, <3>4
  <2>4. f.open \cup UNION f.closed = {q \in S : q[2] <= i}
        BY <1>4, <1>6, <1>7, <2>1
  <2>. QED BY <2>1, <2>3, <2>4 DEF Packed
<1>8. CASE /\ o \in S /\ ~(p.open # {} /\ Fits(p.open \cup {o}))
           /\ ~(Bytes({o}) > MaxBytes \/ Seconds(Bytes({o})) > TargetSeconds)
  <2>1. f = [closed |-> c, open |-> {o}]
        BY <1>8 DEF Pack
  <2>2. Fits({o})
        BY <1>8, FitsAlone
  <2>3. OpenRun(f, S, i, o, o)
        BY <1>1, <1>2, <1>8, <2>1 DEF OpenRun
  <2>4. f.open \cup UNION f.closed = {q \in S : q[2] <= i}
        BY <1>4, <1>6, <1>8, <2>1
  <2>5. Apart(f.closed) /\ \A C \in f.closed : C \cap f.open = {} /\ (C # {} => IsSlice(S, C))
        BY <1>6, <1>8, <2>1
  <2>. QED BY <1>8, <2>1, <2>2, <2>3, <2>4, <2>5 DEF Packed
<1>. QED BY <1>3, <1>5, <1>7, <1>8

\* The slices that the preview ends with: each is the slice from its first
\* object, none overlap, and together they are all of the objects.
Sliced(P, S) ==
    /\ \A C \in P : C # {} /\ IsSlice(S, C)
    /\ Apart(P) /\ UNION P = S

LEMMA PackedSliced ==
    ASSUME rate \in Nat, NEW r, NEW n \in Nat, NEW S \in SUBSET Objs, InOrder(S, r, n),
           NEW p \in Packings, Packed(p, S, n)
    PROVE  Sliced((p.closed \cup {p.open}) \ {{}}, S)
<1>. DEFINE P == (p.closed \cup {p.open}) \ {{}}
<1>1. UNION P = S
  <2>1. p.open \cup UNION p.closed = S
        BY DEF Packed, InOrder
  <2>. QED BY <2>1
<1>2. Apart(P)
      BY DEF Packed, Apart
<1>3. ASSUME p.open # {} PROVE IsSlice(S, p.open)
  <2>1. PICK m \in S, l \in S : OpenRun(p, S, n, m, l)
        BY <1>3 DEF Packed
  <2>2. \A q \in S : ~(q[2] > l[2])
        BY <2>1 DEF OpenRun, InOrder
  <2>3. Fits(p.open)
        BY <1>3 DEF Packed
  <2>. QED BY <2>1, <2>2, <2>3, ClosedRun DEF OpenRun
<1>4. \A C \in P : C # {} /\ IsSlice(S, C)
      BY <1>3 DEF Packed
<1>. QED BY <1>1, <1>2, <1>4 DEF Sliced

LEMMA PreviewSliced ==
    ASSUME rate \in Nat, NEW r \in Runs, NEW S \in SUBSET Objs, InOrder(S, r, Len(Sizes[r]))
    PROVE  Sliced(Preview(r, S), S)
<1>. DEFINE St(p, i) ==
                LET o == <<r, i>>
                    c == p.closed \cup {p.open}
                IN  IF o \notin S THEN p
                    ELSE IF p.open # {} /\ Fits(p.open \cup {o})
                         THEN [p EXCEPT !.open = p.open \cup {o}]
                    ELSE IF Bytes({o}) > MaxBytes \/ Seconds(Bytes({o})) > TargetSeconds
                         THEN [closed |-> c \cup {{o}}, open |-> {}]
                    ELSE [closed |-> c, open |-> {o}]
            n == Len(Sizes[r])
            s == [closed |-> {}, open |-> {}]
            T == Packings
            last == Sweep(St, s, n)
<1>1. n \in Nat /\ s \in T
  <2>1. n \in Nat
        BY RestoreAdmissionAssumption, LenProperties
  <2>. QED BY <2>1 DEF Packings
<1>2. Preview(r, S) = (last.closed \cup {last.open}) \ {{}}
      BY DEF Preview
<1>. HIDE DEF n, s
<1>3. ASSUME NEW p \in T, NEW i \in 1..n PROVE St(p, i) = Pack(p, r, S, i) /\ St(p, i) \in T
  <2>1. St(p, i) = Pack(p, r, S, i)
        BY DEF Pack
  <2>. HIDE DEF St
  <2>2. Pack(p, r, S, i) \in T
        BY DEF Pack, Packings
  <2>. QED BY <2>1, <2>2
<1>. HIDE DEF T
<1>. DEFINE Run(g) == [k \in 0..n |-> IF k = 0 THEN s
                      ELSE CHOOSE y \in {St(z, k) : z \in {g[k - 1]}} : TRUE]
            it == CHOOSE g : g = Run(g)
            F  == [pair \in T \X (1..n) |-> St(pair[1], pair[2])]
<1>4. Sweep(St, s, n) = it[n]
      BY DEF Sweep
<1>. HIDE DEF St
<1>5. \A z, k : (CHOOSE y \in {St(v, k) : v \in {z}} : TRUE) = St(z, k)
  <2>1. \A z, k : {St(v, k) : v \in {z}} = {St(z, k)}
        OBVIOUS
  <2>. QED BY <2>1
<1>6. PICK g \in [0..n -> T] : Starts(g, F, s, n)
      BY <1>1, <1>3, StepsExist
<1>7. ASSUME NEW k \in 1..n PROVE g[k - 1] \in T /\ g[k] = St(g[k - 1], k)
  <2>1. k - 1 \in 0..n
        BY <1>1
  <2>. QED BY <1>6, <2>1 DEF Starts
<1>8. g = Run(g)
      BY <1>5, <1>6, <1>7 DEF Starts
<1>9. it = Run(it)
      BY <1>8
<1>. HIDE DEF it
<1>10. it[0] = s /\ \A k \in 1..n : it[k] = St(it[k - 1], k)
      BY <1>1, <1>5, <1>9
<1>11. Alike(g, it, n)
      BY <1>6, <1>7, <1>10 DEF Starts, Alike
<1>. HIDE DEF F, Run
<1>12. g[n] = it[n]
      BY <1>1, <1>11, StepsAgree
<1>13. Sweep(St, s, n) \in T
      BY <1>1, <1>4, <1>6, <1>12
<1>. DEFINE Known == {k \in 0..n : Packed(g[k], S, k)}
<1>14. 0 \in Known
  <2>1. g[0] = s
        BY <1>6 DEF Starts
  <2>2. {o \in S : o[2] <= 0} = {}
        BY DEF InOrder
  <2>. QED BY <1>1, <2>1, <2>2 DEF s, Packed, Apart
<1>15. ASSUME NEW k \in 1..n, k - 1 \in Known PROVE k \in Known
  <2>1. g[k - 1] \in T /\ g[k] = Pack(g[k - 1], r, S, k)
        BY <1>3, <1>7
  <2>2. Packed(g[k - 1], S, k - 1) /\ InOrder(S, r, n)
        BY <1>15 DEF n
  <2>3. Packed(g[k], S, k)
        BY <1>1, <2>1, <2>2, PackPacked DEF T
  <2>. QED BY <1>1, <2>3
<1>. HIDE DEF Known
<1>16. n \in Known
  <2>1. 0..n \subseteq Known
        BY <1>1, <1>14, <1>15, Upwards
  <2>. QED BY <1>1, <2>1
<1>17. last = g[n] /\ last \in Packings /\ Packed(last, S, n)
  <2>1. last = g[n]
        BY <1>4, <1>12
  <2>2. Packed(g[n], S, n)
        BY <1>16 DEF Known
  <2>. QED BY <1>13, <2>1, <2>2 DEF T
<1>. HIDE DEF last
<1>18. InOrder(S, r, n)
      BY DEF n
<1>. QED BY <1>1, <1>2, <1>17, <1>18, PackedSliced

-----------------------------------------------------------------------------
(* The live planner *)

Takings == [rest : SUBSET Objs, waves : SUBSET SUBSET Objs]

\* The live planner has taken slices of P, in order, and at least k objects.
Taken(t, P, S, k) ==
    /\ t.waves \subseteq P /\ t.rest = UNION (P \ t.waves)
    /\ \A o \in t.rest : o[2] > k /\ From(S, o[2]) \subseteq t.rest

Take(t) == LET C == NextSlice(t.rest)
           IN  [rest |-> t.rest \ C, waves |-> t.waves \cup ({C} \ {{}})]

LEMMA TakeTaken ==
    ASSUME NEW r, NEW n \in Nat, NEW S \in SUBSET Objs, InOrder(S, r, n),
           NEW P, Sliced(P, S), NEW i \in 1..n, NEW t \in Takings, Taken(t, P, S, i - 1)
    PROVE  Taken(Take(t), P, S, i)
<1>. DEFINE R == t.rest
            u == Take(t)
<1>1. \A o \in S : o = <<r, o[2]>> /\ o[2] \in Nat
      BY DEF InOrder
<1>2. R \subseteq S /\ UNION P = S
      BY DEF Taken, Sliced
<1>3. CASE R = {}
  <2>1. NextSlice(R) = {}
        BY <1>3, SliceIsPart
  <2>2. u.rest = t.rest /\ u.waves = t.waves
        BY <2>1 DEF Take
  <2>. QED BY <1>3, <2>2 DEF Taken
<1>4. CASE R # {}
  <2>. DEFINE N == {o[2] : o \in R}
  <2>1. N \in SUBSET Nat /\ N # {}
        BY <1>1, <1>2, <1>4
  <2>2. PICK a \in R : \A o \in R : a[2] <= o[2]
    <3>. HIDE DEF N
    <3>1. PICK k \in N : \A m \in N : k <= m
          BY <2>1, LeastNumber
    <3>. QED BY <3>1 DEF N
  <2>3. PICK C \in P \ t.waves : a \in C
        BY DEF Taken
  <2>4. C \subseteq R
        BY <2>3 DEF Taken
  <2>5. PICK m \in C : C = NextSlice(From(S, m[2])) /\ \A o \in C : o[2] >= m[2]
        BY <2>3 DEF Sliced, IsSlice
  <2>6. m = a
    <3>1. m[2] <= a[2] /\ a[2] <= m[2] /\ m \in S /\ a \in S
          BY <1>2, <2>2, <2>3, <2>4, <2>5
    <3>. QED BY <1>1, <3>1
  <2>7. From(S, a[2]) = R
    <3>1. From(S, a[2]) \subseteq R
          BY DEF Taken
    <3>2. R \subseteq From(S, a[2])
          BY <1>1, <1>2, <2>2 DEF From
    <3>. QED BY <3>1, <3>2
  <2>8. C = NextSlice(R) /\ C # {}
        BY <2>3, <2>5, <2>6, <2>7
  <2>9. u.rest = R \ C /\ u.waves = t.waves \cup {C}
        BY <2>8 DEF Take
  <2>10. u.rest = UNION (P \ u.waves)
        BY <2>3, <2>9 DEF Taken, Sliced, Apart
  <2>11. \A p \in C : \A o \in R : o[2] <= p[2] => o \in C
    <3>. DEFINE Q == {X \in {{o \in R : o[2] <= p[2]} : p \in R} : Cardinality(X) = 1 \/ Fits(X)}
    <3>1. C = UNION Q
          BY <2>8 DEF NextSlice
    <3>2. ASSUME NEW p \in C, NEW o \in R, o[2] <= p[2] PROVE o \in C
      <4>1. PICK X \in Q : p \in X
            BY <3>1
      <4>2. PICK l \in R : X = {q \in R : q[2] <= l[2]}
            OBVIOUS
      <4>3. o[2] \in Nat /\ p[2] \in Nat /\ l[2] \in Nat /\ p[2] <= l[2]
            BY <1>1, <1>2, <2>4, <4>1, <4>2
      <4>4. o \in X
            BY <3>2, <4>2, <4>3
      <4>. QED BY <3>1, <4>4
    <3>. QED BY <3>2
  <2>12. ASSUME NEW o \in u.rest PROVE o[2] > i /\ From(S, o[2]) \subseteq u.rest
    <3>1. o \in R /\ o \notin C /\ o # a /\ o \in S /\ a \in S
          BY <1>2, <2>3, <2>9
    <3>2. a[2] > i - 1 /\ a[2] <= o[2] /\ a[2] # o[2] /\ a[2] \in Nat /\ o[2] \in Nat
          BY <1>1, <2>2, <3>1 DEF Taken
    <3>3. ASSUME NEW q \in From(S, o[2]) PROVE q \in u.rest
      <4>1. q \in R /\ o[2] <= q[2]
            BY <1>1, <3>1, <3>2 DEF Taken, From
      <4>2. q \notin C
            BY <2>11, <3>1, <4>1
      <4>. QED BY <2>9, <4>1, <4>2
    <3>. QED BY <3>2, <3>3
  <2>13. u.waves \subseteq P
        BY <2>3, <2>9 DEF Taken
  <2>14. Taken(u, P, S, i)
    <3>. HIDE DEF u
    <3>. QED BY <2>10, <2>12, <2>13 DEF Taken
  <2>. QED BY <2>14
<1>. QED BY <1>3, <1>4

LEMMA TakesAll ==
    ASSUME NEW r \in Runs, NEW S \in SUBSET Objs, InOrder(S, r, Len(Sizes[r])),
           NEW P, Sliced(P, S)
    PROVE  LET take(p, k) == LET C == NextSlice(p.rest)
                             IN  [rest |-> p.rest \ C, waves |-> p.waves \cup ({C} \ {{}})]
           IN  Sweep(take, [rest |-> S, waves |-> {}], Len(Sizes[r])).waves = P
<1>. DEFINE St(p, k) == LET C == NextSlice(p.rest)
                        IN  [rest |-> p.rest \ C, waves |-> p.waves \cup ({C} \ {{}})]
            n == Len(Sizes[r])
            s == [rest |-> S, waves |-> {}]
            T == Takings
            last == Sweep(St, s, n)
<1>1. n \in Nat /\ s \in T
  <2>1. n \in Nat
        BY RestoreAdmissionAssumption, LenProperties
  <2>. QED BY <2>1 DEF Takings
<1>2. InOrder(S, r, n)
      OBVIOUS
<1>. HIDE DEF n, s
<1>3. ASSUME NEW p \in T, NEW i \in 1..n PROVE St(p, i) = Take(p) /\ St(p, i) \in T
  <2>1. St(p, i) = Take(p)
        BY DEF Take
  <2>. HIDE DEF St
  <2>2. NextSlice(p.rest) \in SUBSET Objs /\ p \in Takings
        BY SliceIsPart DEF Takings
  <2>3. Take(p) \in T
        BY <2>2 DEF Take, Takings
  <2>. QED BY <2>1, <2>3
<1>. HIDE DEF T
<1>. DEFINE Run(g) == [k \in 0..n |-> IF k = 0 THEN s
                      ELSE CHOOSE y \in {St(z, k) : z \in {g[k - 1]}} : TRUE]
            it == CHOOSE g : g = Run(g)
            F  == [pair \in T \X (1..n) |-> St(pair[1], pair[2])]
<1>4. Sweep(St, s, n) = it[n]
      BY DEF Sweep
<1>. HIDE DEF St
<1>5. \A z, k : (CHOOSE y \in {St(v, k) : v \in {z}} : TRUE) = St(z, k)
  <2>1. \A z, k : {St(v, k) : v \in {z}} = {St(z, k)}
        OBVIOUS
  <2>. QED BY <2>1
<1>6. PICK g \in [0..n -> T] : Starts(g, F, s, n)
      BY <1>1, <1>3, StepsExist
<1>7. ASSUME NEW k \in 1..n PROVE g[k - 1] \in T /\ g[k] = St(g[k - 1], k)
  <2>1. k - 1 \in 0..n
        BY <1>1
  <2>. QED BY <1>6, <2>1 DEF Starts
<1>8. g = Run(g)
      BY <1>5, <1>6, <1>7 DEF Starts
<1>9. it = Run(it)
      BY <1>8
<1>. HIDE DEF it
<1>10. it[0] = s /\ \A k \in 1..n : it[k] = St(it[k - 1], k)
      BY <1>1, <1>5, <1>9
<1>11. Alike(g, it, n)
      BY <1>6, <1>7, <1>10 DEF Starts, Alike
<1>. HIDE DEF F, Run
<1>12. g[n] = it[n]
      BY <1>1, <1>11, StepsAgree
<1>13. Sweep(St, s, n) \in T
      BY <1>1, <1>4, <1>6, <1>12
<1>. DEFINE Known == {k \in 0..n : Taken(g[k], P, S, k)}
<1>14. 0 \in Known
  <2>1. g[0] = s
        BY <1>6 DEF Starts
  <2>2. \A o \in S : o[2] > 0
        BY <1>2 DEF InOrder
  <2>3. Taken(s, P, S, 0)
        BY <2>2 DEF s, Taken, Sliced, From
  <2>. QED BY <1>1, <2>1, <2>3
<1>15. ASSUME NEW k \in 1..n, k - 1 \in Known PROVE k \in Known
  <2>1. g[k - 1] \in T /\ g[k] = Take(g[k - 1])
        BY <1>3, <1>7
  <2>2. Taken(g[k - 1], P, S, k - 1)
        BY <1>15
  <2>3. Taken(g[k], P, S, k)
        BY <1>1, <1>2, <2>1, <2>2, TakeTaken DEF T
  <2>. QED BY <1>1, <2>3
<1>. HIDE DEF Known
<1>16. n \in Known
  <2>1. 0..n \subseteq Known
        BY <1>1, <1>14, <1>15, Upwards
  <2>. QED BY <1>1, <2>1
<1>17. last = g[n] /\ Taken(last, P, S, n)
  <2>1. last = g[n]
        BY <1>4, <1>12
  <2>2. Taken(g[n], P, S, n)
        BY <1>16 DEF Known
  <2>. QED BY <2>1, <2>2
<1>. HIDE DEF last
<1>18. last.rest = {}
  <2>1. last.rest \subseteq S /\ \A o \in last.rest : o[2] > n
        BY <1>17 DEF Taken, Sliced
  <2>2. \A o \in S : ~(o[2] > n)
        BY <1>1, <1>2 DEF InOrder
  <2>. QED BY <2>1, <2>2
<1>19. last.waves = P
  <2>1. last.waves \subseteq P /\ UNION (P \ last.waves) = {}
        BY <1>17, <1>18 DEF Taken
  <2>2. \A C \in P \ last.waves : C # {} /\ C \subseteq UNION (P \ last.waves)
        BY DEF Sliced
  <2>3. P \ last.waves = {}
        BY <2>1, <2>2
  <2>. QED BY <2>1, <2>3
<1>. QED BY <1>19 DEF last, n, s, St

\* The preview before the start shows the waves that the live planner packs one
\* at a time, whatever was taken, given back and measured since
\* (dynamic_wave_plan, next_dynamic_wave_plan).
THEOREM PlanAsShown == Spec => []PreviewIsThePlan
<1>1. IInv => PreviewIsThePlan
  <2>. SUFFICES ASSUME IInv, NEW r \in Runs
                PROVE  LET take(p, k) == LET C == NextSlice(p.rest)
                                         IN  [rest |-> p.rest \ C, waves |-> p.waves \cup ({C} \ {{}})]
                           S == Undiscovered(db, r)
                       IN  Preview(r, S) =
                             Sweep(take, [rest |-> S, waves |-> {}], Len(Sizes[r])).waves
       BY DEF PreviewIsThePlan
  <2>. DEFINE S == Undiscovered(db, r)
  <2>1. S \in SUBSET Objs /\ InOrder(S, r, Len(Sizes[r]))
        BY DEF Undiscovered, InState, Objs, InOrder
  <2>2. rate \in Nat
    <3>1. Rates \subseteq Nat
          BY RestoreAdmissionAssumption
    <3>. QED BY <3>1 DEF IInv
  <2>. HIDE DEF S
  <2>3. Sliced(Preview(r, S), S)
        BY <2>1, <2>2, PreviewSliced
  <2>. DEFINE P == Preview(r, S)
  <2>. HIDE DEF P
  <2>4. LET take(p, k) == LET C == NextSlice(p.rest)
                          IN  [rest |-> p.rest \ C, waves |-> p.waves \cup ({C} \ {{}})]
        IN  Sweep(take, [rest |-> S, waves |-> {}], Len(Sizes[r])).waves = P
        BY <2>1, <2>3, TakesAll DEF P
  <2>. QED BY <2>4 DEF P, S
<1>. QED BY <1>1, IInvAlways, PTL
=============================================================================
