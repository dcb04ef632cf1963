----------------------- MODULE LaneConcurrencyProofs -----------------------
(***************************************************************************)
(* The autoscaler for any bounds, windows and backlog.  The stages of      *)
(* desired_workers are treated first, as functions of a controller; then   *)
(* the dispatcher, which only restores, ages and stores what they return.  *)
(***************************************************************************)
EXTENDS LaneConcurrency, FiniteSetTheorems, SequenceTheorems, TLAPS

Samples == UNION {[1..n -> Level] : n \in 0..Stable}

Measurement ==
    [available : Nat, active : Nat, cap : HostCapacity, fresh : BOOLEAN, level : Level,
     proven : BOOLEAN, gain : Gain, saturated : BOOLEAN]

\* What of a block has been served: the timer's windows, then the fresh samples.
Serves(c) ==
    c.blocked => /\ c.cooldown # Unset => c.held + c.cooldown >= Reprobe
                 /\ c.cooldown = Unset => /\ Len(c.samples) >= 1
                                          /\ c.held >= Reprobe + Len(c.samples) - 1

\* The same, one window before the next sample.
Ripe(c) == c.blocked /\ c.cooldown = Unset => c.held >= Reprobe + Least(Len(c.samples), Stable - 1)

Serial(c) == c.pending => ~c.blocked /\ c.cooldown <= 0 /\ c.post < Validation

Sane(c) ==
    /\ c \in Controller
    /\ c.blocked <=> c.held # Unset
    /\ Serves(c) /\ Serial(c)

LEMMA Bounds ==
    /\ RaijuMin \in Nat \ {0} /\ RaijuMax \in Nat \ {0} /\ Bootstrap \in Nat \ {0}
    /\ RaijuMin <= RaijuMax
    /\ Stable \in Nat \ {0} /\ Validation \in Nat \ {0}
    /\ Settling \in Nat /\ Cooldown \in Nat /\ Reprobe \in Nat /\ Backlog \in Nat
    /\ Cooldown <= Reprobe
    BY WorkerAssumption, WindowAssumption

LEMMA SamplesAre == \A s : s \in Samples <=> s \in Seq(Level) /\ Len(s) <= Stable
<1>1. ASSUME NEW s \in Samples PROVE s \in Seq(Level) /\ Len(s) <= Stable
      <2>1. PICK n \in 0..Stable : s \in [1..n -> Level]
            BY DEF Samples
      <2>2. n \in Nat /\ s \in Seq(Level)
            BY <2>1, Bounds, SeqDef
      <2>3. Len(s) = n
            BY <2>1, <2>2, LenProperties
      <2>. QED BY <2>1, <2>2, <2>3, Bounds
<1>2. ASSUME NEW s \in Seq(Level), Len(s) <= Stable PROVE s \in Samples
      <2>1. Len(s) \in 0..Stable /\ s \in [1..Len(s) -> Level]
            BY <1>2, LenProperties, Bounds
      <2>. QED BY <2>1 DEF Samples
<1>. QED BY <1>1, <1>2

LEMMA IsSamples == ASSUME NEW s \in Seq(Level), Len(s) <= Stable PROVE s \in Samples
    BY SamplesAre

LEMMA LatestSamples ==
    ASSUME NEW s \in Samples, NEW l \in Level
    PROVE  /\ Latest(Append(s, l), Stable) \in Samples
           /\ Len(Latest(Append(s, l), Stable)) = IF Len(s) < Stable THEN Len(s) + 1 ELSE Stable
<1> DEFINE t == Append(s, l)
<1>1. /\ s \in Seq(Level) /\ Len(s) \in Nat /\ Len(s) <= Stable
      /\ t \in Seq(Level) /\ Len(t) = Len(s) + 1
      BY SamplesAre, LenProperties
<1>. HIDE DEF t
<1>. SUFFICES /\ Latest(t, Stable) \in Samples
              /\ Len(Latest(t, Stable)) = IF Len(s) < Stable THEN Len(s) + 1 ELSE Stable
     BY DEF t
<1>2. CASE Len(t) <= Stable
      BY <1>1, <1>2, SamplesAre, Bounds DEF Latest
<1>3. CASE Len(t) > Stable
      <2> DEFINE u == SubSeq(t, 2, Stable + 1)
      <2>1. Len(t) = Stable + 1 /\ Latest(t, Stable) = u
            BY <1>1, <1>3, Bounds DEF Latest
      <2>2. \A i \in 2..(Stable + 1) : t[i] \in Level
            BY <1>1, <2>1, Bounds, ElementOfSeq
      <2>3. u \in Seq(Level) /\ Len(u) = Stable
            BY <2>2, Bounds, SubSeqProperties
      <2>. HIDE DEF u
      <2>4. u \in Samples
            BY <2>3, Bounds, IsSamples
      <2>. QED BY <1>1, <2>1, <2>3, <2>4, Bounds
<1>. QED BY <1>1, <1>2, <1>3, Bounds

LEMMA Members ==
    /\ 0 \in Workers /\ 0 \in 0..Settling /\ 0 \in 0..Validation /\ <<>> \in Samples
    /\ Settling \in 0..Settling /\ Least(1, RaijuMin) = 1
    /\ Unset \in Unset..Reprobe /\ Cooldown \in Unset..Reprobe /\ Reprobe \in Unset..Reprobe
    /\ Unset \in Unset..(Reprobe + Stable - 1) /\ 0 \in Unset..(Reprobe + Stable - 1)
<1>1. <<>> \in Samples
      <2>1. <<>> \in Seq(Level) /\ Len(<<>>) = 0
            BY EmptySeq
      <2>2. 0 <= Stable
            BY Bounds
      <2>. QED BY <2>1, <2>2, IsSamples
<1>. QED BY <1>1, Bounds DEF Workers, Unset, Least

\* The type of a controller, with the samples as one set.
LEMMA ControllerIs ==
    Controller =
        [target : Workers, approved : Workers, floor : 1..RaijuMin, samples : Samples,
         pending : BOOLEAN, settle : 0..Settling, post : 0..Validation, blocked : BOOLEAN,
         cooldown : Unset..Reprobe, loss : BOOLEAN, held : Unset..(Reprobe + Stable - 1)]
    BY DEF Controller, Samples

-----------------------------------------------------------------------------
(* The controller *)

LEMMA AgedSane ==
    ASSUME NEW c, Sane(c)
    PROVE  /\ Sane(Aged(c)) /\ Aged(c).target = c.target /\ Aged(c).approved = c.approved
           /\ Aged(c).floor = c.floor /\ Aged(c).samples = c.samples
           /\ Aged(c).blocked = c.blocked /\ Aged(c).pending = c.pending
           /\ c.blocked => Aged(c).held = Least(Reprobe + Stable - 1, c.held + 1)
           /\ Ripe(Aged(c))
<1>1. c \in Controller /\ (c.held \in Int) /\ c.cooldown \in Int /\ c.settle \in Int
      BY Bounds DEF Sane, Controller
<1> DEFINE e == Aged(c)
<1>2. /\ e.target = c.target /\ e.approved = c.approved
      /\ e.floor = c.floor /\ e.samples = c.samples
      /\ e.blocked = c.blocked /\ e.pending = c.pending /\ e.post = c.post
      /\ e.settle = Most(0, c.settle - 1)
      /\ e.cooldown = IF c.cooldown = Unset THEN Unset ELSE Most(0, c.cooldown - 1)
      /\ e.held = IF c.held = Unset THEN Unset ELSE Least(Reprobe + Stable - 1, c.held + 1)
      BY <1>1 DEF Aged, Controller
<1>3. /\ Most(0, c.settle - 1) \in 0..Settling
      /\ (IF c.cooldown = Unset THEN Unset ELSE Most(0, c.cooldown - 1)) \in Unset..Reprobe
      /\ (IF c.held = Unset THEN Unset ELSE Least(Reprobe + Stable - 1, c.held + 1))
            \in Unset..(Reprobe + Stable - 1)
      BY <1>1, Bounds DEF Controller, Most, Least, Unset
<1>4. e \in Controller
      BY <1>1, <1>3 DEF Aged, Controller
<1>5. c.samples \in Samples /\ Len(c.samples) \in Nat /\ Len(c.samples) <= Stable
      BY <1>1, SamplesAre, LenProperties DEF Controller, Samples
<1>. HIDE DEF e
<1>6. Serves(e)
      <2>. SUFFICES ASSUME c.blocked PROVE Serves(e)
           BY <1>2 DEF Serves
      <2>1. /\ e.held = Least(Reprobe + Stable - 1, c.held + 1)
            /\ c.cooldown # Unset => c.held + c.cooldown >= Reprobe
            /\ c.cooldown = Unset => Len(c.samples) >= 1 /\ c.held >= Reprobe + Len(c.samples) - 1
            BY <1>2 DEF Sane, Serves
      <2>2. CASE c.cooldown = Unset
            BY <1>1, <1>2, <1>5, <2>1, <2>2, Bounds DEF Serves, Least
      <2>3. CASE c.cooldown # Unset
            <3>1. e.cooldown = Most(0, c.cooldown - 1) /\ e.cooldown # Unset
                  BY <1>1, <1>2, <2>3 DEF Most, Unset
            <3>2. e.held + e.cooldown >= Reprobe
                  BY <1>1, <2>1, <2>3, <3>1, Bounds DEF Least, Most
            <3>. QED BY <3>1, <3>2 DEF Serves
      <2>. QED BY <2>2, <2>3
<1>7. Serial(e)
      BY <1>1, <1>2 DEF Sane, Serial, Most, Unset
<1>8. e.blocked <=> e.held # Unset
      BY <1>1, <1>2, Bounds DEF Sane, Least, Unset, Controller
<1>9. c.blocked => c.held # Unset
      BY DEF Sane
<1>10. Ripe(e)
      <2>. SUFFICES ASSUME c.blocked, e.cooldown = Unset PROVE Ripe(e)
           BY <1>2 DEF Ripe
      <2>1. c.cooldown = Unset
            BY <1>1, <1>2 DEF Most, Unset
      <2>2. /\ c.held >= Reprobe + Len(c.samples) - 1
            /\ e.held = Least(Reprobe + Stable - 1, c.held + 1)
            BY <1>2, <1>9, <2>1 DEF Sane, Serves
      <2>3. e.held >= Reprobe + Least(Len(c.samples), Stable - 1)
            BY <1>1, <1>5, <2>2, Bounds DEF Least
      <2>. QED BY <1>2, <2>3 DEF Ripe
<1>. QED BY <1>2, <1>4, <1>6, <1>7, <1>8, <1>9, <1>10 DEF Sane, e

LEMMA DrainedSane ==
    ASSUME NEW c, Sane(c)
    PROVE  /\ Sane(Drained(c)) /\ Drained(c).target = 0 /\ Drained(c).floor = c.floor
           /\ ~Drained(c).blocked /\ ~Drained(c).pending
<1> DEFINE e == Drained(c)
<1>1. c \in Controller
      BY DEF Sane
<1>2. /\ e \in Controller /\ e.target = 0 /\ e.floor = c.floor
      /\ e.blocked = FALSE /\ e.pending = FALSE /\ e.held = Unset
      BY <1>1, Members, ControllerIs DEF Drained
<1>. HIDE DEF e
<1>3. Sane(e)
      BY <1>2 DEF Sane, Serves, Serial
<1>. QED BY <1>2, <1>3 DEF e

LEMMA LimitType ==
    ASSUME NEW m \in Measurement, m.available > 0
    PROVE  /\ Limit(m) \in 1..RaijuMax /\ Limit(m) <= m.available
           /\ m.available >= RaijuMin => RaijuMin <= Limit(m)
           /\ m.available < RaijuMin => Limit(m) = m.available
<1>1. m.available \in Nat /\ m.cap \in RaijuMin..RaijuMax
      BY DEF Measurement, HostCapacity
<1>. QED BY <1>1, Bounds DEF Limit, Least, Most

\* Clamping moves targets into the limits and leaves the experiment alone.
LEMMA ClampedSane ==
    ASSUME NEW c, Sane(c), NEW m \in Measurement, m.available > 0
    PROVE  LET e == Clamped(c, m)
           IN  /\ Sane(e)
               /\ e.floor = c.floor /\ e.samples = c.samples /\ e.blocked = c.blocked
               /\ e.pending = c.pending /\ e.cooldown = c.cooldown /\ e.held = c.held
               /\ Ripe(c) => Ripe(e)
               /\ e.target <= Limit(m) /\ e.target <= Most(c.target, c.floor)
               /\ e.target >= Least(c.floor, Limit(m)) /\ e.approved >= Least(c.floor, Limit(m))
               /\ Least(e.target, e.approved) <= Most(c.floor, Least(c.target, c.approved))
<1> DEFINE L == Limit(m)
           within(n) == Least(L, Most(Least(c.floor, L), n))
           e == Clamped(c, m)
<1>1. /\ c \in Controller /\ L \in Nat /\ L >= 1 /\ L <= RaijuMax
      /\ c.floor \in Nat /\ c.floor >= 1 /\ c.floor <= RaijuMin
      /\ c.target \in Nat /\ c.approved \in Nat
      BY LimitType, ControllerIs, Bounds DEF Sane, Workers
<1>. HIDE DEF L
<1>2. ASSUME NEW n \in Nat
      PROVE  /\ within(n) \in Nat /\ within(n) <= L /\ within(n) >= Least(c.floor, L)
             /\ within(n) <= Most(n, c.floor)
      BY <1>1 DEF Least, Most
<1>3. /\ e = [c EXCEPT !.target = within(c.target), !.approved = within(c.approved)]
      /\ within(c.target) \in Workers /\ within(c.approved) \in Workers
      BY <1>1, <1>2, Bounds DEF Clamped, Workers, L
<1>4. Least(within(c.target), within(c.approved)) <= Most(c.floor, Least(c.target, c.approved))
      BY <1>1, <1>2 DEF Least, Most
<1>5. Most(c.target, c.floor) >= within(c.target)
      BY <1>1, <1>2 DEF Most
<1>. HIDE DEF within, e
<1>6. /\ e \in Controller /\ e.target = within(c.target) /\ e.approved = within(c.approved)
      /\ e.floor = c.floor /\ e.samples = c.samples /\ e.blocked = c.blocked
      /\ e.pending = c.pending /\ e.cooldown = c.cooldown /\ e.held = c.held /\ e.post = c.post
      BY <1>1, <1>3 DEF Controller
<1>7. Sane(e) /\ (Ripe(c) => Ripe(e))
      BY <1>6 DEF Sane, Serves, Serial, Ripe
<1>. QED BY <1>1, <1>2, <1>4, <1>5, <1>6, <1>7 DEF e, L

LEMMA InvalidatedSane ==
    ASSUME NEW c, Sane(c)
    PROVE  LET e == Invalidated(c)
           IN  /\ Sane(e) /\ e.target = c.target /\ e.approved = c.approved /\ e.floor = c.floor
               /\ ~e.blocked /\ ~e.pending
<1> DEFINE e == Invalidated(c)
<1>1. c \in Controller
      BY DEF Sane
<1>2. /\ e \in Controller /\ e.target = c.target /\ e.approved = c.approved /\ e.floor = c.floor
      /\ e.blocked = FALSE /\ e.pending = FALSE /\ e.held = Unset
      BY <1>1, Members, ControllerIs DEF Invalidated
<1>. HIDE DEF e
<1>3. Sane(e)
      BY <1>2 DEF Sane, Serves, Serial
<1>. QED BY <1>2, <1>3 DEF e

\* A sample keeps a served block served: the first one after the timer starts
\* the sequence anew.
LEMMA ObservedSane ==
    ASSUME NEW c, Sane(c), Ripe(c), NEW m \in Measurement
    PROVE  LET e == Observed(c, m)
           IN  /\ Sane(e) /\ e.target = c.target /\ e.approved = c.approved /\ e.floor = c.floor
               /\ e.blocked = c.blocked /\ e.pending = c.pending /\ e.held = c.held
               /\ e.blocked => e.cooldown # 0
<1> DEFINE over == c.blocked /\ c.cooldown = 0
           base == IF over THEN <<>> ELSE c.samples
           t    == Latest(Append(base, m.level), Stable)
           e    == Observed(c, m)
<1>1. c \in Controller /\ m.level \in Level
      BY DEF Sane, Measurement
<1>2. base \in Samples /\ Len(base) \in Nat /\ Len(base) <= Stable
      <2>1. base \in Samples
            BY <1>1, Members, ControllerIs
      <2>. QED BY <2>1, SamplesAre, LenProperties
<1>. HIDE DEF base
<1>3. t \in Samples /\ Len(t) = IF Len(base) < Stable THEN Len(base) + 1 ELSE Stable
      BY <1>1, <1>2, LatestSamples
<1>4. e = [c EXCEPT !.samples = t, !.cooldown = IF over THEN Unset ELSE c.cooldown]
      BY DEF Observed, base
<1>. HIDE DEF t, e
<1>5. /\ e \in Controller /\ e.target = c.target /\ e.approved = c.approved /\ e.floor = c.floor
      /\ e.blocked = c.blocked /\ e.pending = c.pending /\ e.held = c.held /\ e.post = c.post
      /\ e.samples = t /\ e.cooldown = IF over THEN Unset ELSE c.cooldown
      BY <1>1, <1>3, <1>4, Members, ControllerIs
<1>6. Serial(e)
      BY <1>5 DEF Sane, Serial
<1>7. Serves(e)
      <2>. SUFFICES ASSUME c.blocked PROVE Serves(e)
           BY <1>5 DEF Serves
      <2>1. /\ c.cooldown \in Int /\ c.held \in Int
            /\ c.cooldown # Unset => c.held + c.cooldown >= Reprobe
            /\ c.cooldown = Unset => Len(c.samples) >= 1 /\ c.held >= Reprobe + Len(c.samples) - 1
            BY <1>1, Bounds DEF Sane, Serves, Controller
      <2>2. CASE over
            <3>1. e.cooldown = Unset /\ Len(base) = 0 /\ c.held >= Reprobe
                  BY <1>5, <2>1, <2>2, EmptySeq DEF base, Unset
            <3>2. Len(t) = 1
                  BY <1>3, <3>1, Bounds
            <3>. QED BY <1>5, <2>1, <3>1, <3>2, Bounds DEF Serves
      <2>3. CASE ~over
            <3>1. e.cooldown = c.cooldown /\ base = c.samples
                  BY <1>5, <2>3 DEF base
            <3>2. CASE c.cooldown # Unset
                  BY <1>5, <2>1, <3>1, <3>2 DEF Serves
            <3>3. CASE c.cooldown = Unset
                  <4>1. c.held >= Reprobe + Least(Len(c.samples), Stable - 1) /\ Len(base) >= 1
                        BY <2>1, <3>1, <3>3 DEF Ripe
                  <4>2. Len(t) >= 1 /\ Len(t) - 1 <= Least(Len(base), Stable - 1)
                        BY <1>2, <1>3, <4>1, Bounds DEF Least
                  <4>3. Len(t) \in Nat /\ Least(Len(base), Stable - 1) \in Int
                        BY <1>2, <1>3, Bounds DEF Least
                  <4>. QED BY <1>5, <2>1, <3>1, <3>3, <4>1, <4>2, <4>3, Bounds DEF Serves
            <3>. QED BY <3>2, <3>3
      <2>. QED BY <2>2, <2>3
<1>8. e.blocked => e.cooldown # 0
      BY <1>5 DEF Unset
<1>. QED BY <1>5, <1>6, <1>7, <1>8 DEF Sane, e

\* The verdict on an experiment ends it: growth is open, or blocked with the
\* whole interval to serve.
LEMMA ValidatedSane ==
    ASSUME NEW c, Sane(c), c.pending, NEW m \in Measurement
    PROVE  LET e == Validated(c, m)
           IN  /\ Sane(e) /\ e.floor = c.floor
               /\ e.target <= c.target /\ e.target >= Least(c.target, c.approved)
               /\ c.blocked => e.blocked
<1> DEFINE rest == IF m.saturated THEN c.target ELSE Least(c.target, c.approved)
           up   == [c EXCEPT !.pending = FALSE, !.settle = 0, !.post = 0, !.loss = (m.gain = "loss"),
                             !.approved = c.target, !.cooldown = Cooldown]
           down == [c EXCEPT !.pending = FALSE, !.settle = 0, !.post = 0, !.loss = (m.gain = "loss"),
                             !.blocked = TRUE, !.cooldown = Reprobe, !.held = 0, !.target = rest]
           more == [c EXCEPT !.post = c.post + 1]
           e    == Validated(c, m)
<1>1. /\ c \in Controller /\ ~c.blocked /\ c.cooldown <= 0 /\ c.held = Unset
      /\ c.target \in Nat /\ c.approved \in Nat /\ c.target \in Workers
      /\ c.post \in Nat
      BY Bounds DEF Sane, Serial, Controller, Workers
<1>2. /\ rest \in Workers /\ rest <= c.target /\ (m.gain = "loss") \in BOOLEAN
      /\ rest >= Least(c.target, c.approved) /\ c.target >= Least(c.target, c.approved)
      BY <1>1, Bounds DEF Least, Workers
<1>. HIDE DEF rest
<1>3. \/ e = c
      \/ c.post + 1 < Validation /\ e = more
      \/ e = up
      \/ e = down
      BY <1>1, ControllerIs DEF Validated, Judged, rest
<1>. HIDE DEF e
<1>4. CASE e = c
      BY <1>1, <1>2, <1>4 DEF e
<1>5. CASE c.post + 1 < Validation /\ e = more
      <2>1. c.post + 1 \in 0..Validation
            BY <1>1, <1>5, Bounds
      <2>2. /\ e \in Controller /\ e.target = c.target /\ e.floor = c.floor
            /\ e.blocked = c.blocked /\ e.pending = c.pending /\ e.held = c.held
            /\ e.cooldown = c.cooldown /\ e.post = c.post + 1
            BY <1>1, <1>5, <2>1, ControllerIs
      <2>3. Sane(e)
            BY <1>1, <1>5, <2>2 DEF Sane, Serves, Serial
      <2>. QED BY <1>1, <1>2, <2>2, <2>3 DEF e
<1>6. CASE e = up
      <2>1. /\ e \in Controller /\ e.target = c.target /\ e.floor = c.floor
            /\ e.blocked = c.blocked /\ e.pending = FALSE /\ e.held = c.held
            BY <1>1, <1>2, <1>6, Members, ControllerIs
      <2>2. Sane(e)
            BY <1>1, <2>1 DEF Sane, Serves, Serial
      <2>. QED BY <1>1, <1>2, <2>1, <2>2 DEF e
<1>7. CASE e = down
      <2>1. /\ e \in Controller /\ e.target = rest /\ e.floor = c.floor
            /\ e.blocked = TRUE /\ e.pending = FALSE /\ e.held = 0 /\ e.cooldown = Reprobe
            BY <1>1, <1>2, <1>7, Members, ControllerIs
      <2>2. Sane(e)
            BY <1>1, <2>1, Bounds DEF Sane, Serves, Serial, Unset
      <2>. QED BY <1>2, <2>1, <2>2 DEF e
<1>. QED BY <1>3, <1>4, <1>5, <1>6, <1>7

\* A probe opens growth only after the timer and a full sequence, and asks for
\* one more stream.
LEMMA ProbedSane ==
    ASSUME NEW c, Sane(c), ~c.pending, NEW m \in Measurement,
           Limit(m) \in 1..RaijuMax
    PROVE  LET e == Probed(c, m)
           IN  /\ Sane(e) /\ e.floor = c.floor
               /\ c.target <= Limit(m) => e.target <= Limit(m)
               /\ e.target >= c.target
               /\ e.target > c.target =>
                     /\ e.target = c.target + 1 /\ e.pending
                     /\ Len(e.samples) = Stable /\ \A i \in 1..Stable : e.samples[i] = "under"
               /\ c.blocked /\ ~e.blocked => c.cooldown <= 0 /\ Len(c.samples) = Stable
<1> DEFINE over == [c EXCEPT !.blocked = FALSE, !.held = Unset]
           grow == [c EXCEPT !.blocked = FALSE, !.held = Unset, !.target = c.target + 1,
                             !.pending = TRUE, !.settle = Settling, !.post = 0]
           e    == Probed(c, m)
<1>1. /\ c \in Controller /\ c.target \in Nat /\ c.cooldown \in Int /\ Limit(m) \in Nat
      BY Bounds DEF Sane, Controller, Workers
<1>2. \/ e = c
      \/ c.cooldown <= 0 /\ FullWindow(c, m) /\ e = over
      \/ c.cooldown <= 0 /\ FullWindow(c, m) /\ c.target < Limit(m) /\ e = grow
      BY <1>1, ControllerIs DEF Probed
<1>3. FullWindow(c, m) => Len(c.samples) = Stable /\ \A i \in 1..Stable : c.samples[i] = "under"
      BY DEF FullWindow
<1>. HIDE DEF e
<1>4. CASE e = c
      BY <1>1, <1>4 DEF e
<1>5. CASE c.cooldown <= 0 /\ FullWindow(c, m) /\ e = over
      <2>1. /\ e \in Controller /\ e.target = c.target /\ e.floor = c.floor
            /\ e.blocked = FALSE /\ e.pending = c.pending /\ e.held = Unset
            BY <1>1, <1>5, Members, ControllerIs
      <2>2. Sane(e)
            BY <2>1 DEF Sane, Serves, Serial
      <2>. QED BY <1>1, <1>3, <1>5, <2>1, <2>2 DEF e
<1>6. CASE c.cooldown <= 0 /\ FullWindow(c, m) /\ c.target < Limit(m) /\ e = grow
      <2>1. c.target + 1 \in Workers /\ c.target + 1 <= Limit(m)
            BY <1>1, <1>6, Bounds DEF Workers
      <2>2. /\ e \in Controller /\ e.target = c.target + 1 /\ e.floor = c.floor
            /\ e.blocked = FALSE /\ e.pending = TRUE /\ e.held = Unset /\ e.post = 0
            /\ e.cooldown = c.cooldown /\ e.samples = c.samples
            BY <1>1, <1>6, <2>1, Members, ControllerIs
      <2>3. Sane(e)
            BY <1>6, <2>2, Bounds DEF Sane, Serves, Serial
      <2>. QED BY <1>1, <1>3, <1>6, <2>1, <2>2, <2>3 DEF e
<1>. QED BY <1>2, <1>4, <1>5, <1>6

LEMMA DesiredSane ==
    ASSUME NEW c, Sane(c), NEW m \in Measurement, m.fresh => Ripe(c)
    PROVE  LET e == Desired(c, m)
           IN  /\ Sane(e) /\ e.floor = c.floor
               /\ e.target <= m.available
               /\ e.target < e.floor => m.available < e.floor
               /\ c.blocked /\ ~e.blocked =>
                     \/ m.available = 0
                     \/ m.active < Most(c.floor, Least(c.target, c.approved))
                     \/ m.fresh /\ c.held >= Reprobe + Stable - 1
               /\ e.target > Most(c.target, c.floor) =>
                     /\ e.target = Most(c.target, c.floor) + 1 /\ e.pending
                     /\ m.active >= Most(c.target, c.floor)
                     /\ Len(e.samples) = Stable /\ \A i \in 1..Stable : e.samples[i] = "under"
<1> DEFINE k == IF Underfilled(Clamped(c, m), m) THEN Invalidated(Clamped(c, m)) ELSE Clamped(c, m)
           s == Observed(k, m)
           e == Desired(c, m)
<1>1. /\ m.available \in Nat /\ m.active \in Nat /\ m.fresh \in BOOLEAN
      /\ c.floor \in Nat /\ c.floor >= 1 /\ c.floor <= RaijuMin
      /\ c.target \in Nat /\ c.approved \in Nat
      BY Bounds DEF Measurement, Sane, Controller, Workers
<1>2. CASE m.available = 0
      <2>1. e = Drained(c)
            BY <1>2 DEF Desired
      <2>2. Sane(e) /\ e.target = 0 /\ e.floor = c.floor
            BY <2>1, DrainedSane
      <2>3. ~(0 > Most(c.target, c.floor))
            BY <1>1 DEF Most
      <2>. QED BY <1>1, <1>2, <2>2, <2>3
<1>3. CASE m.available > 0
      <2> DEFINE L == Limit(m)
                 b == Clamped(c, m)
      <2>1. /\ L \in Nat /\ L >= 1 /\ L <= m.available /\ L \in 1..RaijuMax
            /\ L < c.floor => m.available < c.floor
            <3>1. /\ L \in 1..RaijuMax /\ L <= m.available
                  /\ m.available >= RaijuMin => RaijuMin <= L
                  /\ m.available < RaijuMin => L = m.available
                  BY <1>3, LimitType
            <3>. HIDE DEF L
            <3>. QED BY <1>1, <3>1, Bounds
      <2>2. /\ Sane(b) /\ b.floor = c.floor /\ b.blocked = c.blocked /\ b.held = c.held
            /\ Ripe(c) => Ripe(b)
            /\ b.target <= L /\ b.target <= Most(c.target, c.floor)
            /\ b.target >= Least(c.floor, L) /\ b.approved >= Least(c.floor, L)
            /\ Least(b.target, b.approved) <= Most(c.floor, Least(c.target, c.approved))
            BY <1>3, ClampedSane
      <2>. HIDE DEF L, b
      <2>3. /\ Sane(k) /\ k.floor = c.floor /\ k.target = b.target /\ k.approved = b.approved
            /\ m.fresh => Ripe(k)
            /\ c.blocked /\ k.blocked => k.held = c.held
            /\ c.blocked /\ ~k.blocked => m.active < Most(c.floor, Least(c.target, c.approved))
            <3>1. CASE Underfilled(b, m)
                  <4>1. k = Invalidated(b)
                        BY <3>1 DEF b
                  <4>2. /\ Sane(k) /\ k.floor = b.floor /\ k.target = b.target /\ k.approved = b.approved
                        /\ ~k.blocked
                        BY <2>2, <4>1, InvalidatedSane
                  <4>3. m.active < Most(Least(c.floor, L), Least(b.target, b.approved))
                        BY <2>2, <3>1 DEF Underfilled, L
                  <4>4. b.target \in Nat /\ b.approved \in Nat
                        BY <2>2, Bounds DEF Sane, Controller, Workers
                  <4>5. m.active < Most(c.floor, Least(c.target, c.approved))
                        BY <1>1, <2>1, <2>2, <4>3, <4>4 DEF Most, Least
                  <4>. QED BY <2>2, <4>2, <4>5 DEF Ripe
            <3>2. CASE ~Underfilled(b, m)
                  <4>1. k = b
                        BY <3>2 DEF b
                  <4>. QED BY <2>2, <4>1
            <3>. QED BY <3>1, <3>2
      <2>. HIDE DEF k
      <2>4. m.fresh => /\ Sane(s) /\ s.target = k.target /\ s.approved = k.approved /\ s.floor = k.floor
                       /\ s.blocked = k.blocked /\ s.pending = k.pending /\ s.held = k.held
                       /\ s.blocked => s.cooldown # 0
            BY <2>3, ObservedSane
      <2>5. \/ ~m.fresh /\ e = k
            \/ m.fresh /\ e = s
            \/ m.fresh /\ s.pending /\ e = Validated(s, m)
            \/ m.fresh /\ m.active >= s.target /\ ~s.pending /\ e = Probed(s, m)
            <3>1. s.target \in Nat \/ ~m.fresh
                  BY <2>4, Bounds DEF Sane, Controller, Workers
            <3>. QED BY <1>1, <1>3, <3>1 DEF Desired, k
      <2>. HIDE DEF s, e
      <2>6. /\ k.target \in Nat /\ k.approved \in Nat
            /\ k.target <= m.available /\ k.target <= L /\ k.target <= Most(c.target, c.floor)
            /\ k.target < c.floor => L < c.floor
            /\ Least(k.target, k.approved) < c.floor => L < c.floor
            <3>1. k \in Controller
                  BY <2>3 DEF Sane
            <3>2. k.target \in Nat /\ k.approved \in Nat
                  BY <3>1, Bounds, ControllerIs DEF Workers
            <3>3. k.target = b.target /\ k.approved = b.approved
                  BY <2>3
            <3>. QED BY <1>1, <2>1, <2>2, <3>2, <3>3 DEF Least
      <2>7. Most(c.target, c.floor) \in Nat
            BY <1>1 DEF Most
      <2>8. CASE e = k
            BY <1>1, <2>1, <2>3, <2>6, <2>7, <2>8 DEF e
      <2>9. CASE m.fresh /\ e = s
            BY <1>1, <2>1, <2>3, <2>4, <2>6, <2>7, <2>9 DEF e
      <2>10. CASE m.fresh /\ s.pending /\ e = Validated(s, m)
            <3>1. /\ Sane(e) /\ e.floor = c.floor /\ e.target <= k.target
                  /\ e.target >= Least(k.target, k.approved)
                  /\ k.blocked => e.blocked
                  BY <2>3, <2>4, <2>10, ValidatedSane
            <3>2. e.target \in Nat /\ Least(k.target, k.approved) \in Nat
                  BY <2>6, <3>1, Bounds DEF Sane, Controller, Workers, Least
            <3>. QED BY <1>1, <2>1, <2>3, <2>6, <2>7, <3>1, <3>2 DEF e
      <2>11. CASE m.fresh /\ m.active >= s.target /\ ~s.pending /\ e = Probed(s, m)
            <3>1. /\ Sane(e) /\ e.floor = c.floor
                  /\ e.target <= L /\ e.target >= k.target
                  /\ e.target > k.target =>
                        /\ e.target = k.target + 1 /\ e.pending
                        /\ Len(e.samples) = Stable /\ \A i \in 1..Stable : e.samples[i] = "under"
                  /\ s.blocked /\ ~e.blocked => s.cooldown <= 0 /\ Len(s.samples) = Stable
                  BY <2>1, <2>3, <2>4, <2>6, <2>11, ProbedSane DEF L
            <3>2. e.target \in Nat /\ s.cooldown \in Int
                  BY <2>4, <2>11, <3>1, Bounds DEF Sane, Controller, Workers
            <3>3. s.blocked /\ ~e.blocked => s.held >= Reprobe + Stable - 1
                  <4>. SUFFICES ASSUME s.blocked, ~e.blocked PROVE s.held >= Reprobe + Stable - 1
                       OBVIOUS
                  <4>1. s.cooldown \in Unset..Reprobe
                        BY <2>4, <2>11 DEF Sane, Controller
                  <4>2. s.cooldown = Unset
                        BY <2>4, <2>11, <3>1, <3>2, <4>1 DEF Unset
                  <4>. QED BY <2>4, <2>11, <3>1, <4>2 DEF Sane, Serves
            <3>. QED BY <1>1, <2>1, <2>3, <2>4, <2>6, <2>7, <2>11, <3>1, <3>2, <3>3 DEF e
      <2>. QED BY <2>5, <2>8, <2>9, <2>10, <2>11
<1>. QED BY <1>1, <1>2, <1>3
-----------------------------------------------------------------------------
(* The dispatcher *)

\* A target under the floor is that of a lane with no more objects than it.
Short == pc # "idle" /\ ctl.target < ctl.floor => Leased < ctl.floor

\* The leases, and what an idle dispatcher leaves.
Leases ==
    /\ pc \in {"idle", "waiting", "settled"}
    /\ streams \subseteq Slots
    /\ orphans \in Nat /\ ready \in Nat /\ Leased + ready <= Backlog
    /\ batch \in Workers
    /\ pc = "idle" => streams = {} /\ ctl = Blank

IInv ==
    /\ Sane(ctl) /\ Sane(row) /\ Sane(durable)
    /\ Leases
    /\ Short

LEMMA SlotSets ==
    /\ \A S \in SUBSET Slots : IsFiniteSet(S) /\ Cardinality(S) \in Nat
    /\ \A S \in SUBSET Slots, T \in SUBSET Slots :
          S \cap T = {} => Cardinality(S \cup T) = Cardinality(S) + Cardinality(T)
    /\ \A n \in Nat : Cardinality(1..n) = n
    /\ Cardinality({}) = 0
<1>1. IsFiniteSet(Slots)
      BY Bounds, FS_Interval DEF Slots
<1>2. ASSUME NEW S \in SUBSET Slots PROVE IsFiniteSet(S) /\ Cardinality(S) \in Nat
      BY <1>1, FS_Subset, FS_CardinalityType
<1>3. Cardinality({}) = 0
      BY FS_EmptySet
<1>4. ASSUME NEW S \in SUBSET Slots, NEW T \in SUBSET Slots, S \cap T = {}
      PROVE  Cardinality(S \cup T) = Cardinality(S) + Cardinality(T)
      <2>1. Cardinality(S \cup T) = Cardinality(S) + Cardinality(T) - Cardinality(S \cap T)
            BY <1>2, FS_Union
      <2>2. Cardinality(S \cap T) = 0
            BY <1>3, <1>4
      <2>3. Cardinality(S) \in Nat /\ Cardinality(T) \in Nat
            BY <1>2
      <2>. QED BY <2>1, <2>2, <2>3
<1>5. ASSUME NEW n \in Nat PROVE Cardinality(1..n) = n
      <2>1. Cardinality(1..n) = IF 1 > n THEN 0 ELSE n - 1 + 1
            BY FS_Interval
      <2>. QED BY <2>1
<1>. QED BY <1>2, <1>3, <1>4, <1>5

LEMMA BlankSane == Sane(Blank) /\ Aged(Blank) = Blank
<1>1. 1 \in 1..RaijuMin
      BY Bounds
<1>2. Blank \in Controller
      BY <1>1, Members, ControllerIs DEF Blank
<1>3. Sane(Blank)
      BY <1>2 DEF Sane, Serves, Serial, Blank
<1>4. Aged(Blank) = Blank
      <2>1. Most(0, Blank.settle - 1) = 0 /\ Blank.settle = 0
            BY DEF Blank, Most
      <2>2. Blank.cooldown = Unset /\ Blank.held = Unset
            BY DEF Blank
      <2>3. Aged(Blank) = [Blank EXCEPT !.settle = 0, !.cooldown = Unset, !.held = Unset]
            BY <2>1, <2>2 DEF Aged
      <2>. QED BY <2>3 DEF Blank
<1>. QED BY <1>3, <1>4

LEMMA NewEpochSane ==
    ASSUME NEW r, Sane(r)
    PROVE  /\ Sane(NewEpoch(r))
           /\ r.blocked /\ ~NewEpoch(r).blocked => Leased = 0
<1> DEFINE e == [r EXCEPT !.blocked = FALSE, !.pending = FALSE, !.settle = 0, !.post = 0,
                   !.samples = <<>>, !.cooldown = Unset, !.loss = FALSE, !.held = Unset]
<1>1. r \in Controller
      BY DEF Sane
<1>2. e \in Controller /\ e.blocked = FALSE /\ e.pending = FALSE /\ e.held = Unset
      BY <1>1, Members, ControllerIs
<1>. HIDE DEF e
<1>3. Sane(e)
      BY <1>2 DEF Sane, Serves, Serial
<1>4. NewEpoch(r) = IF Leased = 0 /\ r.blocked THEN e ELSE r
      BY DEF NewEpoch, e
<1>. QED BY <1>3, <1>4

\* A reprobe interval that is served is restarted, never shortened.
LEMMA RestoredSane ==
    ASSUME NEW r, Sane(r), NEW target \in Workers, NEW floor \in 1..RaijuMin,
           NEW left \in 0..Reprobe
    PROVE  LET e == Restored(r, target, floor, left)
           IN  Sane(e) /\ e.target = target /\ e.floor = floor /\ e.blocked = r.blocked
<1> DEFINE timer == IF r.blocked /\ r.cooldown = Unset THEN left
                    ELSE IF ~r.blocked /\ r.loss THEN Unset
                    ELSE r.cooldown
           e == Restored(r, target, floor, left)
<1>1. /\ r \in Controller /\ r.held \in Int /\ r.cooldown \in Unset..Reprobe
      /\ Len(r.samples) \in Nat
      <2>1. r \in Controller
            BY DEF Sane
      <2>2. r.samples \in Samples
            BY <2>1, ControllerIs
      <2>3. r.held \in Int /\ r.cooldown \in Unset..Reprobe
            BY <2>1, ControllerIs, Bounds DEF Unset
      <2>. QED BY <2>1, <2>2, <2>3, SamplesAre, LenProperties
<1>2. timer \in Unset..Reprobe
      BY <1>1, Bounds DEF Unset
<1>3. e = [r EXCEPT !.target = target, !.approved = target, !.floor = floor, !.cooldown = timer]
      BY DEF Restored
<1>. HIDE DEF timer, e
<1>4. /\ e \in Controller /\ e.target = target /\ e.floor = floor /\ e.blocked = r.blocked
      /\ e.held = r.held /\ e.pending = r.pending /\ e.post = r.post /\ e.samples = r.samples
      /\ e.cooldown = timer
      BY <1>1, <1>2, <1>3, ControllerIs
<1>5. Serves(e)
      <2>. SUFFICES ASSUME r.blocked PROVE Serves(e)
           BY <1>4 DEF Serves
      <2>1. CASE r.cooldown = Unset
            <3>1. e.cooldown = left /\ left # Unset /\ r.held >= Reprobe
                  BY <1>1, <1>4, <2>1, Bounds DEF Sane, Serves, timer, Unset
            <3>. QED BY <1>1, <1>4, <3>1, Bounds DEF Serves
      <2>2. CASE r.cooldown # Unset
            BY <1>4, <2>2 DEF Sane, Serves, timer
      <2>. QED BY <2>1, <2>2
<1>6. Serial(e)
      BY <1>4, <1>1 DEF Sane, Serial, timer, Unset
<1>. QED BY <1>4, <1>5, <1>6 DEF Sane, e

\* A dispatcher starts at the floor or at the last target, whichever is more.
LEMMA BootTargetIs ==
    ASSUME NEW available \in Nat, available > 0, NEW cap \in HostCapacity, batch \in Workers
    PROVE  LET t == BootTarget(available, cap)
           IN  /\ t \in Workers /\ t <= available
               /\ t >= Least(RaijuMin, available)
               /\ t <= Most(RaijuMin, batch)
<1> DEFINE floor == Least(RaijuMin, available)
           top == Least(available, cap)
           previous == IF batch = 0 THEN floor ELSE batch
           resumed == Least(previous, Most(floor, Bootstrap))
           chosen == Most(floor, Least(RaijuMax, Least(available, Least(resumed, cap))))
<1>1. /\ cap \in Nat /\ batch \in Nat /\ RaijuMin <= cap /\ cap <= RaijuMax
      BY Bounds DEF HostCapacity, Workers
<1>2. /\ floor \in Nat /\ floor >= 1 /\ floor <= RaijuMin /\ floor <= available
      /\ top \in Nat /\ top <= available /\ top <= RaijuMax /\ floor <= top
      BY <1>1, Bounds DEF Least
<1>. HIDE DEF floor, top
<1>3. /\ previous \in Nat /\ previous <= Most(RaijuMin, batch)
      BY <1>1, <1>2, Bounds DEF Most
<1>. HIDE DEF previous
<1>4. resumed \in Nat /\ resumed <= previous
      BY <1>2, <1>3, Bounds DEF Most, Least
<1>. HIDE DEF resumed
<1>5. /\ Least(RaijuMax, Least(available, Least(resumed, cap))) \in Nat
      /\ Least(RaijuMax, Least(available, Least(resumed, cap))) <= resumed
      BY <1>1, <1>4, Bounds DEF Least
<1>6. chosen \in Nat /\ chosen >= floor /\ chosen <= Most(RaijuMin, batch)
      BY <1>1, <1>2, <1>3, <1>4, <1>5, Bounds DEF Most
<1>7. BootTarget(available, cap) = Least(chosen, top)
      BY DEF BootTarget, chosen, resumed, previous, floor, top
<1>. HIDE DEF chosen
<1>8. /\ Least(chosen, top) \in 0..RaijuMax /\ Least(chosen, top) <= available
      /\ Least(chosen, top) >= floor /\ Least(chosen, top) <= Most(RaijuMin, batch)
      BY <1>1, <1>2, <1>6, Bounds DEF Least, Most
<1>. QED BY <1>7, <1>8 DEF Workers, floor
-----------------------------------------------------------------------------
(* The steps *)

\* What BlockIsServed and GrowthIsMeasured say of a step.
Served ==
    LET memory == IF pc = "idle" THEN row ELSE ctl
    IN  memory.blocked /\ pc' # "idle" /\ ~ctl'.blocked =>
          \/ Leased = 0
          \/ pc # "idle" /\ Leased < Most(ctl.floor, Least(ctl.target, ctl.approved))
          \/ memory.held + 1 >= Reprobe + Stable - 1

Measured ==
    pc' # "idle" =>
      IF pc = "idle"
      THEN ctl'.target <= Most(RaijuMin, batch)
      ELSE ctl'.target > Most(ctl.target, ctl.floor) =>
             /\ ctl'.target = ctl.target + 1 /\ ctl'.pending
             /\ Leased >= ctl.target
             /\ Len(ctl'.samples) = Stable
             /\ \A i \in 1..Stable : ctl'.samples[i] = "under"

LEMMA LeasedType == Leases => Leased \in Nat /\ Cardinality(streams) \in Nat
    BY SlotSets DEF Leases, Leased

LEMMA SaneNumbers ==
    ASSUME NEW c, Sane(c)
    PROVE  /\ c.target \in Workers /\ c.target \in Nat /\ c.target <= RaijuMax
           /\ c.approved \in Nat /\ c.held \in Int
           /\ c.floor \in Nat /\ c.floor >= 1 /\ c.floor <= RaijuMin /\ c.floor \in 1..RaijuMin
<1>1. c \in Controller
      BY DEF Sane
<1>. QED BY <1>1, ControllerIs, Bounds DEF Workers, Unset

LEMMA DispatchStep ==
    ASSUME IInv, NEW n \in 1..Backlog, NEW cap \in HostCapacity, NEW left \in 0..Reprobe,
           Dispatch(n, cap, left)
    PROVE  IInv' /\ Served /\ Measured
<1> DEFINE r       == NewEpoch(row)
           target  == BootTarget(orphans + ready, cap)
           ceiling == Most(0, target - Most(0, orphans - n))
           floor   == Most(1, Least(RaijuMin, orphans + ready - n))
           taken   == Least(n, ceiling)
<1>1. /\ pc = "idle" /\ n \in Nat /\ n >= 1 /\ n <= ready
      /\ pc' = "waiting" /\ row' = r /\ durable' = r
      /\ ctl' = Restored(r, target, floor, left)
      /\ streams' = 1..taken /\ ready' = ready - taken /\ batch' = target
      /\ orphans' = orphans
      BY Bounds DEF Dispatch, IInv, Leases
<1>2. /\ orphans \in Nat /\ ready \in Nat /\ streams = {} /\ Leased = orphans
      /\ orphans + ready <= Backlog /\ batch \in Workers
      <2>1. /\ orphans \in Nat /\ ready \in Nat /\ streams = {} /\ batch \in Workers
            /\ Leased + ready <= Backlog
            BY <1>1 DEF IInv, Leases
      <2>2. Leased = 0 + orphans
            BY <2>1, SlotSets DEF Leased
      <2>. QED BY <2>1, <2>2
<1>3. Sane(r) /\ (row.blocked /\ ~r.blocked => Leased = 0)
      BY NewEpochSane DEF IInv
<1>4. /\ target \in Workers /\ target \in Nat /\ target <= RaijuMax
      /\ target >= Least(RaijuMin, orphans + ready)
      /\ target <= Most(RaijuMin, batch)
      <2>1. orphans + ready \in Nat /\ orphans + ready > 0
            BY <1>1, <1>2
      <2>2. /\ target \in Workers /\ target >= Least(RaijuMin, orphans + ready)
            /\ target <= Most(RaijuMin, batch)
            BY <1>2, <2>1, BootTargetIs
      <2>. QED BY <2>2, Bounds DEF Workers
<1>. HIDE DEF r, target
<1>5. floor \in 1..RaijuMin /\ floor \in Nat /\ floor <= target
      BY <1>1, <1>2, <1>4, Bounds DEF Most, Least
<1>6. taken \in Nat /\ taken <= ready /\ taken <= RaijuMax
      BY <1>1, <1>2, <1>4, Bounds DEF Most, Least
<1>. HIDE DEF floor, taken
<1>7. /\ Sane(ctl') /\ ctl'.target = target /\ ctl'.floor = floor /\ ctl'.blocked = r.blocked
      BY <1>1, <1>3, <1>4, <1>5, RestoredSane
<1>8. Leases'
      <2>1. streams' \subseteq Slots
            BY <1>1, <1>6, Bounds DEF Slots
      <2>2. Cardinality(streams') = taken
            BY <1>1, <1>6, SlotSets
      <2>3. Leased' = taken + orphans
            BY <1>1, <2>2 DEF Leased
      <2>4. Leased' + ready' <= Backlog /\ ready' \in Nat /\ orphans' \in Nat
            BY <1>1, <1>2, <1>6, <2>3
      <2>. QED BY <1>1, <1>4, <2>1, <2>4 DEF Leases
<1>9. Short'
      BY <1>4, <1>5, <1>7 DEF Short
<1>10. Sane(row') /\ Sane(durable')
      BY <1>1, <1>3
<1>11. Served
      BY <1>1, <1>3, <1>7 DEF Served
<1>12. Measured
      BY <1>1, <1>4, <1>7 DEF Measured
<1>. QED BY <1>7, <1>8, <1>9, <1>10, <1>11, <1>12 DEF IInv

LEMMA DecideStep ==
    ASSUME IInv, pc # "idle", NEW m \in Measurement,
           m.available = Leased + ready, m.active = Leased, Decide(m)
    PROVE  IInv' /\ Served /\ Measured
<1> DEFINE c   == IF m.fresh THEN Aged(ctl) ELSE ctl
           new == Desired(c, m)
<1>1. PICK filled :
        LET target == Most(0, new.target - orphans)
            room   == IF pc = "waiting" THEN (1..target) \ streams ELSE Slots \ streams
            most   == IF pc = "waiting" THEN ready ELSE Least(ready, target - Cardinality(streams))
        IN  /\ filled \in SUBSET room /\ (filled = {} \/ Cardinality(filled) <= most)
            /\ ctl' = new /\ row' = new
            /\ durable' = IF pc = "waiting" \/ filled # {} THEN new
                          ELSE IF m.fresh THEN Aged(durable) ELSE durable
            /\ pc' = "waiting"
            /\ streams' = streams \cup filled /\ ready' = ready - Cardinality(filled)
            /\ batch' = IF filled # {} THEN new.target ELSE batch
            /\ UNCHANGED orphans
      BY DEF Decide
<1>2. /\ Sane(ctl) /\ Sane(durable)
      /\ streams \in SUBSET Slots /\ orphans \in Nat /\ ready \in Nat
      /\ Leased + ready <= Backlog /\ Leased = Cardinality(streams) + orphans
      /\ Leased \in Nat /\ Cardinality(streams) \in Nat /\ batch \in Workers
      BY LeasedType DEF IInv, Leases, Leased
<1>3. /\ Sane(c) /\ (m.fresh => Ripe(c))
      /\ c.target = ctl.target /\ c.approved = ctl.approved /\ c.floor = ctl.floor
      /\ c.blocked = ctl.blocked
      /\ c.blocked /\ m.fresh => c.held = Least(Reprobe + Stable - 1, ctl.held + 1)
      BY <1>2, AgedSane
<1>. HIDE DEF c
<1>4. /\ Sane(new) /\ new.floor = c.floor
      /\ new.target < new.floor => m.available < new.floor
      /\ c.blocked /\ ~new.blocked =>
            \/ m.available = 0
            \/ m.active < Most(c.floor, Least(c.target, c.approved))
            \/ m.fresh /\ c.held >= Reprobe + Stable - 1
      /\ new.target > Most(c.target, c.floor) =>
            /\ new.target = Most(c.target, c.floor) + 1 /\ new.pending
            /\ m.active >= Most(c.target, c.floor)
            /\ Len(new.samples) = Stable /\ \A i \in 1..Stable : new.samples[i] = "under"
      BY <1>3, DesiredSane
<1>. HIDE DEF new
<1>5. /\ new.target \in Workers /\ new.target \in Nat /\ new.target <= RaijuMax
      /\ new.floor \in Nat
      BY <1>4, SaneNumbers
<1>6. /\ ctl.target \in Nat /\ ctl.approved \in Nat /\ ctl.floor \in Nat /\ ctl.held \in Int
      BY <1>2, SaneNumbers
<1>7. /\ filled \in SUBSET Slots /\ streams \cap filled = {}
      /\ Cardinality(filled) \in Nat /\ Cardinality(filled) <= ready
      <2> DEFINE target == Most(0, new.target - orphans)
      <2>1. target \in Nat /\ target <= RaijuMax
            BY <1>2, <1>5, Bounds DEF Most
      <2>. HIDE DEF target
      <2>2. filled \in SUBSET Slots /\ streams \cap filled = {}
            <3>1. 1..target \subseteq Slots
                  BY <2>1, Bounds DEF Slots
            <3>. QED BY <1>1, <3>1 DEF target
      <2>3. Cardinality(filled) \in Nat
            BY <2>2, SlotSets
      <2>4. filled = {} => Cardinality(filled) = 0
            BY SlotSets
      <2>5. Least(ready, target - Cardinality(streams)) <= ready
            BY <1>2, <2>1 DEF Least
      <2>6. Least(ready, target - Cardinality(streams)) \in Int
            BY <1>2, <2>1 DEF Least
      <2>7. \/ filled = {}
            \/ Cardinality(filled) <= ready
            \/ Cardinality(filled) <= Least(ready, target - Cardinality(streams))
            BY <1>1 DEF target
      <2>. QED BY <1>2, <2>2, <2>3, <2>4, <2>5, <2>6, <2>7
<1>8. /\ ctl' = new /\ row' = new /\ pc' = "waiting"
      /\ durable' \in {new, Aged(durable), durable}
      /\ streams' = streams \cup filled /\ ready' = ready - Cardinality(filled)
      /\ batch' \in {new.target, batch} /\ orphans' = orphans
      BY <1>1
<1>9. Leased' + ready' = Leased + ready /\ Leased' \in Nat
      <2>1. Cardinality(streams') = Cardinality(streams) + Cardinality(filled)
            BY <1>2, <1>7, <1>8, SlotSets
      <2>2. Leased' = Cardinality(streams') + orphans
            BY <1>8 DEF Leased
      <2>. QED BY <1>2, <1>7, <1>8, <2>1, <2>2
<1>10. Leases'
      <2>1. /\ streams' \subseteq Slots /\ orphans' \in Nat /\ ready' \in Nat
            /\ Leased' + ready' <= Backlog /\ batch' \in Workers
            BY <1>2, <1>5, <1>7, <1>8, <1>9
      <2>. QED BY <1>8, <2>1 DEF Leases
<1>11. Short'
      <2>1. Leased' <= m.available /\ m.available \in Nat
            BY <1>2, <1>7, <1>8, <1>9
      <2>. QED BY <1>4, <1>5, <1>8, <1>9, <2>1 DEF Short
<1>12. Sane(ctl') /\ Sane(row') /\ Sane(durable')
      BY <1>2, <1>4, <1>8, AgedSane
<1>13. Served
      <2>. SUFFICES ASSUME ctl.blocked, ~new.blocked
                    PROVE  \/ Leased = 0
                           \/ Leased < Most(ctl.floor, Least(ctl.target, ctl.approved))
                           \/ ctl.held + 1 >= Reprobe + Stable - 1
           BY <1>8 DEF Served
      <2>1. CASE m.available = 0
            BY <1>2, <2>1
      <2>2. CASE m.active < Most(c.floor, Least(c.target, c.approved))
            BY <1>3, <2>2
      <2>3. CASE m.fresh /\ c.held >= Reprobe + Stable - 1
            <3>1. Least(Reprobe + Stable - 1, ctl.held + 1) >= Reprobe + Stable - 1
                  BY <1>3, <2>3
            <3>. QED BY <1>6, <3>1, Bounds DEF Least
      <2>. QED BY <1>3, <1>4, <2>1, <2>2, <2>3
<1>14. Measured
      <2>. SUFFICES ASSUME new.target > Most(ctl.target, ctl.floor)
                    PROVE  /\ new.target = ctl.target + 1 /\ new.pending
                           /\ Leased >= ctl.target
                           /\ Len(new.samples) = Stable
                           /\ \A i \in 1..Stable : new.samples[i] = "under"
           BY <1>8 DEF Measured
      <2>1. /\ new.target = Most(ctl.target, ctl.floor) + 1 /\ new.pending
            /\ Leased >= Most(ctl.target, ctl.floor)
            /\ Len(new.samples) = Stable /\ \A i \in 1..Stable : new.samples[i] = "under"
            BY <1>3, <1>4
      <2>2. Most(ctl.target, ctl.floor) = ctl.target
            BY <1>2, <1>6, <2>1 DEF IInv, Short, Most
      <2>. QED BY <2>1, <2>2
<1>. QED BY <1>10, <1>11, <1>12, <1>13, <1>14 DEF IInv
LEMMA HeartbeatStep ==
    ASSUME IInv, NEW cap \in HostCapacity, Heartbeat(cap)
    PROVE  IInv' /\ Served /\ Measured
<1> DEFINE m == Lane(cap, FALSE, "under", FALSE, "small", FALSE)
<1>1. Leased \in Nat /\ ready \in Nat
      BY LeasedType DEF IInv, Leases
<1>2. m \in Measurement /\ m.available = Leased + ready /\ m.active = Leased
      BY <1>1 DEF Lane, Measurement, Level, Gain
<1>3. pc # "idle" /\ Decide(m)
      BY DEF Heartbeat
<1>. HIDE DEF m
<1>. QED BY <1>2, <1>3, DecideStep

LEMMA MeasureStep ==
    ASSUME IInv, NEW cap \in HostCapacity, NEW level \in Level, NEW proven \in BOOLEAN,
           NEW gain \in Gain, NEW saturated \in BOOLEAN,
           Measure(cap, level, proven, gain, saturated)
    PROVE  IInv' /\ Served /\ Measured
<1> DEFINE m == Lane(cap, TRUE, level, proven, gain, saturated)
<1>1. Leased \in Nat /\ ready \in Nat
      BY LeasedType DEF IInv, Leases
<1>2. m \in Measurement /\ m.available = Leased + ready /\ m.active = Leased
      BY <1>1 DEF Lane, Measurement
<1>3. pc # "idle" /\ Decide(m)
      BY DEF Measure
<1>. HIDE DEF m
<1>. QED BY <1>2, <1>3, DecideStep

\* A step that keeps the controller, or forgets it, says nothing of growth.
LEMMA Unmoved ==
    ASSUME IInv, \/ pc' = "idle"
                 \/ /\ pc # "idle" /\ ctl'.blocked = ctl.blocked
                    /\ ctl'.target = ctl.target
    PROVE  Served /\ Measured
<1>1. CASE pc' = "idle"
      BY <1>1 DEF Served, Measured
<1>2. CASE pc # "idle" /\ ctl'.blocked = ctl.blocked /\ ctl'.target = ctl.target
      <2>1. Served
            BY <1>2 DEF Served
      <2>2. ctl.target \in Nat /\ ctl.floor \in Nat
            BY SaneNumbers DEF IInv
      <2>3. ~(ctl'.target > Most(ctl.target, ctl.floor))
            BY <1>2, <2>2 DEF Most
      <2>. QED BY <1>2, <2>1, <2>3 DEF Measured
<1>. QED BY <1>1, <1>2

LEMMA SettleStep ==
    ASSUME IInv, Settle
    PROVE  IInv' /\ Served /\ Measured
<1>1. PICK s \in streams : streams' = streams \ {s}
      BY DEF Settle
<1>2. /\ pc # "idle" /\ pc' = "settled" /\ durable' = row /\ ctl' = ctl /\ row' = row
      /\ orphans' = orphans /\ batch' = batch /\ ready' \in {ready, ready + 1}
      BY DEF Settle
<1>3. /\ streams \in SUBSET Slots /\ orphans \in Nat /\ ready \in Nat /\ batch \in Workers
      /\ Leased + ready <= Backlog /\ Leased \in Nat /\ Cardinality(streams) \in Nat
      BY LeasedType DEF IInv, Leases
<1>4. Cardinality(streams') = Cardinality(streams) - 1
      <2>1. IsFiniteSet(streams)
            BY <1>3, SlotSets
      <2>2. Cardinality(streams \ {s}) = Cardinality(streams) - 1
            BY <2>1, FS_RemoveElement
      <2>. QED BY <1>1, <2>2
<1>5. Leased' = Leased - 1
      BY <1>2, <1>3, <1>4 DEF Leased
<1>6. Leases'
      <2>1. streams' \subseteq Slots
            BY <1>1, <1>3
      <2>2. orphans' \in Nat /\ ready' \in Nat /\ Leased' + ready' <= Backlog
            <3>1. CASE ready' = ready
                  BY <1>2, <1>3, <1>5, <3>1, Bounds
            <3>2. CASE ready' = ready + 1
                  BY <1>2, <1>3, <1>5, <3>2, Bounds
            <3>. QED BY <1>2, <3>1, <3>2
      <2>. QED BY <1>2, <1>3, <2>1, <2>2 DEF Leases
<1>7. ctl.floor \in Nat
      BY SaneNumbers DEF IInv
<1>8. Short'
      BY <1>2, <1>3, <1>5, <1>7 DEF Short, IInv
<1>9. Served /\ Measured
      BY <1>2, Unmoved
<1>. QED BY <1>2, <1>6, <1>8, <1>9 DEF IInv

\* Lapse, Arrive and Wait: the dispatcher does not move.
LEMMA EnvironmentStep ==
    ASSUME IInv, \/ ctl' = ctl /\ row' = row /\ durable' = durable
                 \/ ctl' = Aged(ctl) /\ row' = Aged(row) /\ durable' = Aged(durable),
           UNCHANGED <<pc, streams, batch>>,
           orphans' \in Nat, ready' \in Nat, orphans' <= orphans,
           Leased' + ready' <= Backlog
    PROVE  IInv' /\ Served /\ Measured
<1>1. /\ Sane(ctl') /\ Sane(row') /\ Sane(durable')
      /\ ctl'.target = ctl.target /\ ctl'.floor = ctl.floor /\ ctl'.blocked = ctl.blocked
      BY AgedSane DEF IInv
<1>2. pc = "idle" => ctl' = Blank
      BY BlankSane DEF IInv, Leases
<1>3. Leases'
      BY <1>2 DEF IInv, Leases
<1>4. Short'
      <2>1. Leased \in Nat /\ Cardinality(streams) \in Nat /\ ctl.floor \in Nat /\ orphans \in Nat
            BY LeasedType, SaneNumbers DEF IInv, Leases
      <2>2. Leased' = Cardinality(streams) + orphans'
            BY DEF Leased
      <2>3. Leased = Cardinality(streams) + orphans
            BY DEF Leased
      <2>. QED BY <1>1, <2>1, <2>2, <2>3 DEF Short, IInv
<1>5. Served /\ Measured
      BY <1>1, Unmoved
<1>. QED BY <1>1, <1>3, <1>4, <1>5 DEF IInv

\* Finish, Death and DispatchNothing leave no dispatcher.
LEMMA IdleStep ==
    ASSUME IInv, pc' = "idle", ctl' = Blank, streams' = {}, batch' = batch,
           Sane(row'), Sane(durable'), orphans' \in Nat, ready' = ready,
           orphans' = orphans \/ orphans' = Leased
    PROVE  IInv' /\ Served /\ Measured
<1>1. /\ Leased \in Nat /\ Cardinality(streams) \in Nat /\ orphans \in Nat /\ ready \in Nat
      /\ Leased + ready <= Backlog /\ Leased = Cardinality(streams) + orphans
      /\ batch \in Workers
      BY LeasedType DEF IInv, Leases, Leased
<1>2. Cardinality(streams') = 0
      BY SlotSets
<1>3. Leased' = 0 + orphans'
      BY <1>2 DEF Leased
<1>4. Leases'
      <2>1. ready' \in Nat /\ Leased' + ready' <= Backlog
            <3>1. CASE orphans' = orphans
                  BY <1>1, <1>3, <3>1, Bounds
            <3>2. CASE orphans' = Leased
                  BY <1>1, <1>3, <3>2, Bounds
            <3>. QED BY <3>1, <3>2
      <2>. QED BY <1>1, <2>1 DEF Leases
<1>5. Served /\ Measured
      BY Unmoved
<1>. QED BY <1>4, <1>5, BlankSane DEF IInv, Short

LEMMA InvStep == IInv /\ [Next]_vars => IInv' /\ [Served /\ Measured]_vars
<1>. SUFFICES ASSUME IInv, [Next]_vars PROVE IInv' /\ (UNCHANGED vars \/ (Served /\ Measured))
     OBVIOUS
<1>1. /\ Leases /\ Leased \in Nat /\ Cardinality(streams) \in Nat
      /\ orphans \in Nat /\ ready \in Nat /\ Leased = Cardinality(streams) + orphans
      /\ Leased + ready <= Backlog
      BY LeasedType DEF IInv, Leases, Leased
<1>2. \A cap \in Capacities : cap \in HostCapacity
      BY WorkerAssumption
<1>3. ASSUME NEW n \in 1..Backlog, NEW cap \in Capacities, NEW left \in 0..Reprobe,
             Dispatch(n, cap, left)
      PROVE  IInv' /\ Served /\ Measured
      BY <1>2, <1>3, DispatchStep
<1>4. CASE DispatchNothing
      <2>1. /\ pc' = "idle" /\ ctl' = Blank /\ streams' = {} /\ batch' = batch
            /\ orphans' = orphans /\ ready' = ready
            BY <1>1, <1>4 DEF DispatchNothing, Leases
      <2>2. Sane(row') /\ Sane(durable')
            BY <1>4, NewEpochSane DEF DispatchNothing, IInv
      <2>. QED BY <1>1, <2>1, <2>2, IdleStep
<1>5. ASSUME NEW cap \in Capacities, Heartbeat(cap)
      PROVE  IInv' /\ Served /\ Measured
      BY <1>2, <1>5, HeartbeatStep
<1>6. ASSUME NEW cap \in Capacities, NEW level \in Level, NEW proven \in BOOLEAN,
             NEW gain \in Gain, NEW saturated \in BOOLEAN,
             Measure(cap, level, proven, gain, saturated)
      PROVE  IInv' /\ Served /\ Measured
      BY <1>2, <1>6, MeasureStep
<1>7. CASE Settle
      BY <1>7, SettleStep
<1>8. CASE Finish
      <2>1. /\ pc' = "idle" /\ ctl' = Blank /\ streams' = {} /\ batch' = batch
            /\ orphans' = orphans /\ ready' = ready /\ row' = row /\ durable' = row
            BY <1>8 DEF Finish, Idle
      <2>2. Sane(row') /\ Sane(durable')
            BY <2>1 DEF IInv
      <2>. QED BY <1>1, <2>1, <2>2, IdleStep
<1>9. CASE Death
      <2>1. /\ pc' = "idle" /\ ctl' = Blank /\ streams' = {} /\ batch' = batch
            /\ orphans' = Leased /\ ready' = ready /\ row' = durable /\ durable' = durable
            BY <1>9 DEF Death, Idle
      <2>2. Sane(row') /\ Sane(durable')
            BY <2>1 DEF IInv
      <2>. QED BY <1>1, <2>1, <2>2, IdleStep
<1>10. CASE Lapse
      <2>1. /\ UNCHANGED <<ctl, row, durable, pc, streams, batch>>
            /\ ready' = ready + orphans /\ orphans' = 0
            BY <1>10 DEF Lapse
      <2>2. Leased' = Cardinality(streams)
            BY <1>1, <2>1 DEF Leased
      <2>. QED BY <1>1, <2>1, <2>2, EnvironmentStep
<1>11. CASE Arrive
      <2>1. /\ UNCHANGED <<ctl, row, durable, pc, streams, orphans, batch>>
            /\ ready' = ready + 1 /\ Leased + ready < Backlog
            BY <1>11 DEF Arrive
      <2>2. Leased' = Leased
            BY <2>1 DEF Leased
      <2>. QED BY <1>1, <2>1, <2>2, Bounds, EnvironmentStep
<1>12. CASE Wait
      <2>1. /\ ctl' = Aged(ctl) /\ row' = Aged(row) /\ durable' = Aged(durable)
            /\ UNCHANGED <<pc, streams, orphans, ready, batch>>
            BY <1>12 DEF Wait
      <2>2. Leased' = Leased
            BY <2>1 DEF Leased
      <2>. QED BY <1>1, <2>1, <2>2, EnvironmentStep
<1>13. CASE UNCHANGED vars
      <2>1. UNCHANGED <<ctl, row, durable, pc, streams, orphans, ready, batch>>
            BY <1>13 DEF vars
      <2>2. Leased' = Leased
            BY <2>1 DEF Leased
      <2>. QED BY <1>1, <1>13, <2>1, <2>2, EnvironmentStep
<1>. QED BY <1>3, <1>4, <1>5, <1>6, <1>7, <1>8, <1>9, <1>10, <1>11, <1>12, <1>13 DEF Next

LEMMA InitInv == Init => IInv
<1>. SUFFICES ASSUME Init PROVE IInv
     OBVIOUS
<1>1. Leased = 0 + 0
      BY SlotSets DEF Init, Leased
<1>2. Leases
      BY <1>1, Bounds DEF Init, Leases, Workers
<1>. QED BY <1>2, BlankSane DEF Init, IInv, Short

LEMMA Inductive == Spec => []IInv /\ [][Served /\ Measured]_vars
    BY InitInv, InvStep, PTL DEF Spec

\* The controller, its row and the leases have their types, and the lease count
\* stays within the backlog, whatever windows, limits and capacities are configured.
THEOREM Typing == Spec => []TypeOK
<1>1. IInv => TypeOK
      BY DEF IInv, Sane, Leases, TypeOK
<1>. QED BY <1>1, Inductive, PTL

\* No memory of the controller holds an open experiment together with a block,
\* a timer or a finished validation, whatever restart or lost commit it went through.
THEOREM SerialExperiments == Spec => []ExperimentIsSerial
<1>1. IInv => ExperimentIsSerial
      BY DEF IInv, Sane, Serial, ExperimentIsSerial
<1>. QED BY <1>1, Inductive, PTL

\* A rejected experiment stops growth for the whole interval and the sequence of
\* samples after it, for any length of both.
THEOREM ServedBlocks == Spec => BlockIsServed
<1>1. [Served /\ Measured]_vars => [Served]_vars
      OBVIOUS
<1>. QED BY <1>1, Inductive, PTL DEF BlockIsServed, Served

\* A dispatcher starts within its last admitted target and grows by one measured
\* step, for any limits of the host.
THEOREM MeasuredGrowth == Spec => GrowthIsMeasured
<1>1. [Served /\ Measured]_vars => [Measured]_vars
      OBVIOUS
<1>. QED BY <1>1, Inductive, PTL DEF GrowthIsMeasured, Measured
=============================================================================
