-------------------------- MODULE DiscoveryProofs --------------------------
(***************************************************************************)
(* Theorems of Discovery, for every set of keys, prefixes, shards, page    *)
(* and batch size and bound.                                               *)
(*                                                                         *)
(* A discovery is judged by what it has behind it.  Done are the keys that *)
(* a cursor has passed and Read those that an import has read.  Complete   *)
(* says that every key due there has a row, in the inventory or, behind    *)
(* the cursor of the worker, in the batch it holds; Once says that a plain *)
(* insertion has rows for no other key, so that what it brings is new.     *)
(***************************************************************************)
EXTENDS Discovery, FiniteSetTheorems, SequenceTheorems, WellFoundedInduction, TLAPS

-----------------------------------------------------------------------------
(* Numbers: least and greatest *)

\* Every set of numbers that is not empty has a least one.
LEMMA LeastNumber ==
    ASSUME NEW T \in SUBSET Nat, T # {}
    PROVE  \E n \in T : \A m \in T : n <= m
<1> DEFINE R == {p \in Nat \X Nat : p[1] < p[2]}
<1>1. IsWellFoundedOn(R, Nat)
      BY NatLessThanWellFounded DEF OpToRel
<1>2. PICK n \in T : \A m \in T : <<m, n>> \notin R
      BY <1>1, WFMin
<1>3. \A m \in T : ~(m < n)
      BY <1>2
<1>. QED BY <1>3

HasMax(S) == \E x \in S : \A y \in S : x >= y

\* A finite set of numbers that is not empty has a greatest one: a smallest
\* set without would lose an element and have one.
LEMMA GreatestNumber ==
    ASSUME NEW S \in SUBSET Nat, S # {}, IsFiniteSet(S)
    PROVE  HasMax(S)
<1> DEFINE Bad == {T \in SUBSET S : T # {} /\ ~HasMax(T)}
           Sizes == {Cardinality(T) : T \in Bad}
<1>. SUFFICES ASSUME Bad # {} PROVE FALSE
     OBVIOUS
<1>1. \A T \in SUBSET S : IsFiniteSet(T) /\ Cardinality(T) \in Nat
      BY FS_Subset, FS_CardinalityType
<1>2. Sizes \in SUBSET Nat /\ Sizes # {}
      BY <1>1
<1>3. PICK n \in Sizes : \A m \in Sizes : n <= m
      BY <1>2, LeastNumber
<1>4. PICK T \in Bad : Cardinality(T) = n
      OBVIOUS
<1>5. PICK x \in T : TRUE
      OBVIOUS
<1> DEFINE U == T \ {x}
<1>6. U \in SUBSET S /\ Cardinality(U) = n - 1 /\ n \in Nat
      BY <1>1, <1>2, <1>4, FS_RemoveElement
<1>7. ~(n <= n - 1)
      BY <1>6
<1>8. U \notin Bad
      BY <1>3, <1>6, <1>7
<1>9. CASE U = {}
  <2>1. T = {x} /\ x \in Nat
        BY <1>9
  <2>2. HasMax(T)
        BY <2>1 DEF HasMax
  <2>. QED BY <2>2
<1>10. CASE U # {}
  <2>1. PICK m \in U : \A y \in U : m >= y
        BY <1>6, <1>8, <1>10 DEF HasMax
  <2>2. m \in Nat /\ x \in Nat /\ \A y \in T : y \in Nat /\ (y = x \/ y \in U)
        OBVIOUS
  <2>3. CASE m >= x
    <3>1. m \in T /\ \A y \in T : m >= y
          BY <2>1, <2>2, <2>3
    <3>. QED BY <3>1 DEF HasMax
  <2>4. CASE ~(m >= x)
    <3>1. x \in T /\ \A y \in T : x >= y
          BY <2>1, <2>2, <2>4
    <3>. QED BY <3>1 DEF HasMax
  <2>. QED BY <2>3, <2>4
<1>. QED BY <1>9, <1>10

LEMMA MaxIsGreatest ==
    ASSUME NEW S \in SUBSET Nat, S # {}, IsFiniteSet(S)
    PROVE  Max(S) \in S /\ \A y \in S : y <= Max(S)
<1>1. \E x \in S : \A y \in S : x >= y
      BY GreatestNumber DEF HasMax
<1>2. Max(S) \in S /\ \A y \in S : Max(S) >= y
      BY <1>1 DEF Max
<1>. QED BY <1>2

LEMMA MinIsLeast ==
    ASSUME NEW S \in SUBSET Nat, S # {}
    PROVE  Min(S) \in S /\ \A y \in S : Min(S) <= y
<1>1. \E x \in S : \A y \in S : x =< y
      BY LeastNumber
<1>. QED BY <1>1 DEF Min

LEMMA MinOfTwo ==
    ASSUME NEW a \in Nat, NEW b \in Nat
    PROVE  Min({a, b}) \in Nat /\ Min({a, b}) = IF a <= b THEN a ELSE b
<1>1. Min({a, b}) \in {a, b} /\ \A y \in {a, b} : Min({a, b}) <= y
      BY MinIsLeast
<1>. QED BY <1>1

-----------------------------------------------------------------------------
(* Types, rows and pages *)

Changes == [Keys -> Seq([rev : Revs, done : BOOLEAN])]
Rows == [Keys -> Revision]
Worker == [pc : {"idle", "claimed", "LIST", "MANIFEST"}, token : Keys \cup {0},
           prefix : 1..(Len(Prefixes) + 1), rows : Rows, pages : Nat]

\* The changes that await a decision are the newest ones.
NewestPend ==
    \A k \in Keys : \A i, j \in DOMAIN changes[k] : i < j /\ changes[k][j].done => changes[k][i].done

Typed == TypeOK /\ NewestPend

LEMMA Constants ==
    /\ Keys \subseteq Nat /\ 0 \notin Keys /\ IsFiniteSet(Keys)
    /\ Revs \subseteq Nat /\ 0 \notin Revs /\ Revs # {}
    /\ MaxKeys \in Nat \ {0} /\ CheckpointPages \in Nat \ {0} /\ ChunkRows \in Nat \ {0}
    /\ Len(Prefixes) \in Nat /\ DOMAIN Prefixes = 1..Len(Prefixes)
    /\ \A i \in DOMAIN Prefixes : Prefixes[i] \in SUBSET Keys
    /\ Len(Shards) \in Nat /\ DOMAIN Shards = 1..Len(Shards)
<1>1. Prefixes \in Seq(SUBSET Keys) /\ Shards \in Seq(Seq(Keys))
      BY PrefixAssumption, ShardsAssumption
<1>2. /\ Len(Prefixes) \in Nat /\ DOMAIN Prefixes = 1..Len(Prefixes)
      /\ \A i \in DOMAIN Prefixes : Prefixes[i] \in SUBSET Keys
      BY <1>1, LenProperties, ElementOfSeq
<1>3. /\ Len(Shards) \in Nat /\ DOMAIN Shards = 1..Len(Shards)
      BY <1>1, LenProperties
<1>. QED BY <1>2, <1>3, KeysAssumption, RevsAssumption, SizesAssumption

LEMMA ShardRows ==
    \A i \in DOMAIN Shards :
        /\ i \in Nat /\ Len(Shards[i]) \in Nat /\ DOMAIN Shards[i] = 1..Len(Shards[i])
        /\ \A j \in DOMAIN Shards[i] : Shards[i][j] \in Keys /\ j \in Nat /\ j > 0 /\ j <= Len(Shards[i])
<1>1. Shards \in Seq(Seq(Keys))
      BY ShardsAssumption
<1>2. \A i \in DOMAIN Shards : i \in Nat /\ Shards[i] \in Seq(Keys)
      BY <1>1, LenProperties, ElementOfSeq
<1>3. \A i \in DOMAIN Shards : /\ Len(Shards[i]) \in Nat /\ DOMAIN Shards[i] = 1..Len(Shards[i])
                               /\ \A j \in DOMAIN Shards[i] : Shards[i][j] \in Keys
      BY <1>2, LenProperties, ElementOfSeq
<1>. QED BY <1>2, <1>3

LEMMA NoneType == None \in Rows /\ \A k \in Keys : None[k] = 0
    BY DEF None, Rows, Revision

LEMMA IdleType ==
    Idle \in Worker /\ Idle.pc = "idle" /\ Idle.token = 0 /\ Idle.prefix = 1 /\ Idle.rows = None
<1>1. 1 \in 1..(Len(Prefixes) + 1)
      BY Constants
<1>. QED BY <1>1, NoneType DEF Idle, Worker

LEMMA NewJobType ==
    ASSUME NEW mode \in {"LIST", "MANIFEST"}, NEW merge \in BOOLEAN, NEW m \in Rows
    PROVE  NewJob(mode, merge, m) \in Job
<1>1. 1 \in 1..(Len(Shards) + 1)
      BY Constants
<1>. QED BY <1>1 DEF NewJob, Job, Rows

\* The rows of a key: sequences with their bounds and elements.
LEMMA RowsOf ==
    ASSUME NEW inv \in [Keys -> Seq(Row)], NEW k \in Keys
    PROVE  /\ inv[k] \in Seq(Row) /\ Len(inv[k]) \in Nat /\ DOMAIN inv[k] = 1..Len(inv[k])
           /\ \A i \in DOMAIN inv[k] : inv[k][i] \in Row
           /\ Current(inv, k) \in SUBSET (1..Len(inv[k]))
           /\ IsFiniteSet(Current(inv, k))
           /\ Current(inv, k) # {} => Found(inv, k) \in Current(inv, k)
<1>1. inv[k] \in Seq(Row)
      OBVIOUS
<1>2. Len(inv[k]) \in Nat /\ DOMAIN inv[k] = 1..Len(inv[k]) /\ \A i \in DOMAIN inv[k] : inv[k][i] \in Row
      BY <1>1, LenProperties, ElementOfSeq
<1>3. Current(inv, k) \in SUBSET (1..Len(inv[k]))
      BY <1>2 DEF Current
<1>4. IsFiniteSet(Current(inv, k))
  <2>1. IsFiniteSet(1..Len(inv[k]))
        BY <1>2, FS_Interval
  <2>. QED BY <1>3, <2>1, FS_Subset
<1>5. Current(inv, k) \in SUBSET Nat
      BY <1>2, <1>3
<1>6. Current(inv, k) # {} => Found(inv, k) \in Current(inv, k)
      BY <1>4, <1>5, MaxIsGreatest DEF Found
<1>. QED BY <1>1, <1>2, <1>3, <1>4, <1>6

LEMMA NewRowType == ASSUME NEW rev \in Revs PROVE NewRow(rev) \in Row /\ NewRow(rev).rev = rev
    BY DEF NewRow, Row

LEMMA PagesOf ==
    ASSUME Typed, NEW p \in DOMAIN Prefixes, NEW t \in Keys \cup {0}
    PROVE  /\ Page(p, t) \subseteq After(p, t) /\ After(p, t) \subseteq Prefixes[p]
           /\ Page(p, t) \subseteq Keys
           /\ NextToken(p, t) \in Keys \cup {0}
           /\ Page(p, t) # After(p, t) => 
                /\ NextToken(p, t) \in Page(p, t)
                /\ \A k \in After(p, t) : k <= NextToken(p, t) => k \in Page(p, t)
                /\ \A k \in Page(p, t) : k <= NextToken(p, t)
           /\ Page(p, t) = After(p, t) => NextToken(p, t) = 0
<1> DEFINE A == After(p, t)
           P == Page(p, t)
           Below(k) == {j \in A : j < k}
<1>1. A \subseteq Prefixes[p] /\ A \subseteq Keys /\ A \in SUBSET Nat /\ IsFiniteSet(A)
      BY Constants, FS_Subset DEF After
<1>2. P = {k \in A : Cardinality(Below(k)) < MaxKeys}
      BY DEF Page
<1>3. P \subseteq A /\ P \in SUBSET Nat /\ IsFiniteSet(P)
      BY <1>1, <1>2, FS_Subset
<1> HIDE DEF A, P
<1>4. ASSUME P # A
      PROVE  /\ Max(P) \in P /\ \A k \in P : k <= Max(P)
             /\ \A k \in A : k <= Max(P) => k \in P
  <2>1. A # {}
        BY <1>3, <1>4
  <2>2. PICK m \in A : \A k \in A : m <= k
        BY <1>1, <2>1, LeastNumber
  <2>3. Below(m) = {}
    <3>1. \A j \in A : j \in Nat /\ m \in Nat /\ m <= j
          BY <1>1, <2>2
    <3>2. \A j \in A : ~(j < m)
          BY <3>1
    <3>. QED BY <3>2
  <2>4. Cardinality(Below(m)) = 0
        BY <2>3, FS_EmptySet
  <2>5. m \in P
        BY <1>2, <2>4, Constants
  <2>6. Max(P) \in P /\ \A k \in P : k <= Max(P)
        BY <1>3, <2>5, MaxIsGreatest
  <2>7. ASSUME NEW k \in A, k <= Max(P) PROVE k \in P
    <3>1. Below(k) \in SUBSET Below(Max(P)) /\ IsFiniteSet(Below(Max(P)))
          BY <1>1, <1>3, <2>6, <2>7, FS_Subset
    <3>2. Cardinality(Below(k)) <= Cardinality(Below(Max(P)))
          BY <3>1, FS_Subset
    <3>3. Cardinality(Below(Max(P))) < MaxKeys
          BY <1>2, <2>6
    <3>4. Cardinality(Below(k)) \in Nat /\ Cardinality(Below(Max(P))) \in Nat
          BY <3>1, FS_Subset, FS_CardinalityType
    <3>. QED BY <1>2, <3>2, <3>3, <3>4, Constants
  <2>. QED BY <2>6, <2>7
<1>5. NextToken(p, t) = IF P = A THEN 0 ELSE Max(P)
      BY DEF NextToken, P, A
<1>. QED BY <1>1, <1>3, <1>4, <1>5 DEF A, P

-----------------------------------------------------------------------------
(* What the operators make of the rows *)

\* What the rows of one key may become: none disappears, and one that a wave
\* refers to keeps its revision.
KeepsRows(s, e) ==
    \A i \in DOMAIN s : i \in DOMAIN e /\ (s[i].state # "DISCOVERED" => e[i].rev = s[i].rev)

LiveRows(s) == {i \in DOMAIN s : s[i].current}

\* At most one row of a key is current.
Lone(s) == \A i, j \in LiveRows(s) : i = j

LEMMA CurrentIsLive == \A inv, k : Current(inv, k) = LiveRows(inv[k])
    BY DEF Current, LiveRows

LEMMA LoneIsOne ==
    ASSUME NEW S, IsFiniteSet(S)
    PROVE  Cardinality(S) <= 1 <=> \A i, j \in S : i = j
<1>1. ASSUME Cardinality(S) <= 1, NEW i \in S, NEW j \in S PROVE i = j
  <2>1. Cardinality(S) = 0 \/ Cardinality(S) = 1
        BY <1>1, FS_CardinalityType
  <2>. QED BY <1>1, <2>1, FS_EmptySet, FS_Singleton
<1>2. ASSUME \A i, j \in S : i = j PROVE Cardinality(S) <= 1
  <2>1. S = {} \/ \E x : S = {x}
        BY <1>2
  <2>. QED BY <2>1, FS_EmptySet, FS_Singleton
<1>. QED BY <1>1, <1>2

LEMMA AppendRow ==
    ASSUME NEW s \in Seq(Row), NEW rev \in Revs
    PROVE  LET e == Append(s, NewRow(rev))
           IN  /\ e \in Seq(Row) /\ KeepsRows(s, e) /\ e # <<>>
               /\ LiveRows(s) = {} => Lone(e)
<1> DEFINE r == NewRow(rev)
           e == Append(s, r)
<1>1. r \in Row
      BY NewRowType
<1>2. DOMAIN s = 1..Len(s) /\ Len(s) \in Nat
      BY LenProperties
<1> HIDE DEF r
<1>3. /\ e \in Seq(Row) /\ Len(e) = Len(s) + 1
      /\ \A i \in 1..Len(s) : e[i] = s[i]
      BY <1>1, <1>2
<1>4. DOMAIN e = 1..(Len(s) + 1)
      BY <1>3, LenProperties
<1> HIDE DEF e
<1>5. KeepsRows(s, e)
      BY <1>2, <1>3, <1>4 DEF KeepsRows
<1>6. LiveRows(s) = {} => Lone(e)
  <2>1. \A i \in DOMAIN e : i \in DOMAIN s \/ i = Len(s) + 1
        BY <1>2, <1>4
  <2>. QED BY <1>2, <1>3, <2>1 DEF LiveRows, Lone
<1>7. e # <<>>
      BY <1>2, <1>3
<1>. QED BY <1>3, <1>5, <1>6, <1>7 DEF e, r

LEMMA MergeKeyRows ==
    ASSUME inventory \in [Keys -> Seq(Row)], NEW k \in Keys, NEW rev \in Revs
    PROVE  LET e == MergeKey(k, rev)
           IN  /\ e \in Seq(Row) /\ KeepsRows(inventory[k], e) /\ e # <<>>
               /\ Lone(inventory[k]) => Lone(e)
<1> DEFINE s == inventory[k]
           e == MergeKey(k, rev)
           f == Found(inventory, k)
<1>1. /\ s \in Seq(Row) /\ Len(s) \in Nat /\ DOMAIN s = 1..Len(s)
      /\ \A i \in DOMAIN s : s[i] \in Row
      /\ LiveRows(s) # {} => f \in LiveRows(s)
      BY RowsOf, CurrentIsLive
<1>2. CASE LiveRows(s) = {}
  <2>1. e = Append(s, NewRow(rev))
        BY <1>2, CurrentIsLive DEF MergeKey
  <2>. QED BY <1>1, <1>2, <2>1, AppendRow
<1>3. CASE LiveRows(s) # {} /\ Differs(k, rev) /\ ~Assigned(k)
  <2> DEFINE r == [s[f] EXCEPT !.rev = rev]
             n == [s EXCEPT ![f] = r]
  <2>1. f \in DOMAIN s /\ s[f] \in Row /\ s[f].state = "DISCOVERED"
        BY <1>1, <1>3 DEF LiveRows, Assigned
  <2>2. r \in Row /\ r.current = s[f].current
        BY <2>1 DEF Row
  <2>3. e = n
        BY <1>3, CurrentIsLive DEF MergeKey
  <2> HIDE DEF r, f
  <2>4. n \in Seq(Row) /\ Len(n) = Len(s) /\ \A i \in 1..Len(s) : n[i] = IF i = f THEN r ELSE s[i]
        BY <1>1, <2>1, <2>2, ExceptSeq
  <2>5. DOMAIN n = DOMAIN s
        OBVIOUS
  <2> HIDE DEF n
  <2>6. KeepsRows(s, n)
        BY <1>1, <2>1, <2>4, <2>5 DEF KeepsRows
  <2>7. LiveRows(n) = LiveRows(s)
        BY <1>1, <2>1, <2>2, <2>4, <2>5 DEF LiveRows
  <2>8. n # <<>>
        BY <1>1, <2>1, <2>4
  <2>. QED BY <2>3, <2>4, <2>6, <2>7, <2>8 DEF Lone
<1>4. CASE LiveRows(s) # {} /\ ~(Differs(k, rev) /\ ~Assigned(k))
  <2>1. e = s
        BY <1>4, CurrentIsLive DEF MergeKey
  <2>2. s # <<>>
        BY <1>1, <1>4 DEF LiveRows
  <2>. QED BY <1>1, <2>1, <2>2 DEF KeepsRows
<1>. QED BY <1>2, <1>3, <1>4

\* What a batch does to the inventory.
LEMMA AbsorbRows ==
    ASSUME Typed, NEW rows \in Rows, NEW merge \in BOOLEAN, Absorb(rows, merge)
    PROVE  /\ inventory' \in [Keys -> Seq(Row)] /\ changes' \in Changes /\ valid' \in BOOLEAN
           /\ NewestPend'
           /\ \A k \in Keys : /\ KeepsRows(inventory[k], inventory'[k])
                              /\ inventory[k] # <<>> \/ rows[k] # 0 => inventory'[k] # <<>>
                              /\ rows[k] = 0 => inventory'[k] = inventory[k]
                              /\ Lone(inventory[k]) /\ (merge \/ inventory[k] = <<>>) =>
                                    Lone(inventory'[k])
<1>1. inventory \in [Keys -> Seq(Row)] /\ changes \in Changes /\ valid \in BOOLEAN
      BY DEF Typed, TypeOK, Changes
<1>2. \A k \in Keys : rows[k] # 0 => rows[k] \in Revs
      BY DEF Rows, Revision
<1>3. inventory' = IF merge THEN Merge(rows) ELSE Insert(inventory, rows)
      BY DEF Absorb
<1>4. /\ inventory' \in [Keys -> Seq(Row)]
      /\ \A k \in Keys : /\ KeepsRows(inventory[k], inventory'[k])
                         /\ inventory[k] # <<>> \/ rows[k] # 0 => inventory'[k] # <<>>
                         /\ rows[k] = 0 => inventory'[k] = inventory[k]
                         /\ Lone(inventory[k]) /\ (merge \/ inventory[k] = <<>>) => Lone(inventory'[k])
  <2>1. ASSUME NEW k \in Keys
        PROVE  /\ inventory'[k] \in Seq(Row)
               /\ KeepsRows(inventory[k], inventory'[k])
               /\ inventory[k] # <<>> \/ rows[k] # 0 => inventory'[k] # <<>>
               /\ rows[k] = 0 => inventory'[k] = inventory[k]
               /\ Lone(inventory[k]) /\ (merge \/ inventory[k] = <<>>) => Lone(inventory'[k])
    <3>1. CASE rows[k] = 0
      <4>1. inventory'[k] = inventory[k]
            BY <1>3, <3>1 DEF Merge, Insert
      <4>. QED BY <1>1, <3>1, <4>1 DEF KeepsRows
    <3>2. CASE rows[k] # 0 /\ merge
      <4>1. inventory'[k] = MergeKey(k, rows[k])
            BY <1>3, <3>2 DEF Merge
      <4>. QED BY <1>1, <1>2, <3>2, <4>1, MergeKeyRows
    <3>3. CASE rows[k] # 0 /\ ~merge
      <4>1. inventory'[k] = Append(inventory[k], NewRow(rows[k]))
            BY <1>3, <3>3 DEF Insert
      <4>2. inventory[k] = <<>> => LiveRows(inventory[k]) = {}
            BY DEF LiveRows
      <4>. QED BY <1>1, <1>2, <3>3, <4>1, <4>2, AppendRow
    <3>. QED BY <3>1, <3>2, <3>3
  <2>2. inventory' = [k \in Keys |-> inventory'[k]]
        BY <1>3 DEF Merge, Insert
  <2>. QED BY <2>1, <2>2
<1>5. changes' \in Changes /\ NewestPend'
  <2>1. ASSUME NEW k \in Keys
        PROVE  /\ changes'[k] \in Seq([rev : Revs, done : BOOLEAN])
               /\ \A i, j \in DOMAIN changes'[k] :
                     i < j /\ changes'[k][j].done => changes'[k][i].done
    <3> DEFINE c == changes[k]
               n == [rev |-> rows[k], done |-> FALSE]
               e == Append(c, n)
    <3>1. c \in Seq([rev : Revs, done : BOOLEAN]) /\ Len(c) \in Nat /\ DOMAIN c = 1..Len(c)
          BY <1>1, LenProperties DEF Changes
    <3>2. \A i, j \in DOMAIN c : i < j /\ c[j].done => c[i].done
          BY DEF Typed, NewestPend
    <3>3. CASE ~(merge /\ k \in Modified(rows))
      <4>1. changes'[k] = c
            BY <3>3 DEF Absorb
      <4>. QED BY <3>1, <3>2, <4>1
    <3>4. CASE merge /\ k \in Modified(rows)
      <4>1. changes'[k] = e
            BY <3>4 DEF Absorb
      <4>2. n \in [rev : Revs, done : BOOLEAN] /\ n.done = FALSE
            BY <1>2, <3>4 DEF Modified, Listed
      <4> HIDE DEF n
      <4>3. /\ e \in Seq([rev : Revs, done : BOOLEAN]) /\ Len(e) = Len(c) + 1 /\ e[Len(c) + 1] = n
            /\ \A i \in 1..Len(c) : e[i] = c[i]
            BY <3>1, <4>2
      <4>4. DOMAIN e = 1..(Len(c) + 1)
            BY <4>3, LenProperties
      <4> HIDE DEF e, c
      <4>5. \A i, j \in 1..(Len(c) + 1) : i < j /\ e[j].done => e[i].done
        <5>. SUFFICES ASSUME NEW i \in 1..(Len(c) + 1), NEW j \in 1..(Len(c) + 1), i < j, e[j].done
                      PROVE  e[i].done
             OBVIOUS
        <5>1. j # Len(c) + 1
              BY <4>2, <4>3
        <5>2. i \in 1..Len(c) /\ j \in 1..Len(c)
              BY <3>1, <5>1
        <5>. QED BY <3>1, <3>2, <4>3, <5>2
      <4>. QED BY <4>1, <4>3, <4>4, <4>5
    <3>. QED BY <3>3, <3>4
  <2>2. changes' = [k \in Keys |-> changes'[k]]
        BY DEF Absorb
  <2>. QED BY <2>1, <2>2 DEF Changes, NewestPend
<1>6. valid' \in BOOLEAN
      BY <1>1 DEF Absorb
<1>. QED BY <1>4, <1>5, <1>6

\* Waves and validations change the states of rows, and nothing else of them.
LEMMA SetRowsRows ==
    ASSUME inventory \in [Keys -> Seq(Row)], NEW S,
           NEW state \in {"DISCOVERED", "WAVE_ASSIGNED", "TRANSFERRED"},
           SetRows(S, state)
    PROVE  /\ inventory' \in [Keys -> Seq(Row)]
           /\ \A k \in Keys : /\ KeepsRows(inventory[k], inventory'[k])
                              /\ inventory[k] # <<>> <=> inventory'[k] # <<>>
                              /\ Lone(inventory[k]) => Lone(inventory'[k])
<1>1. ASSUME NEW k \in Keys
      PROVE  /\ inventory'[k] \in Seq(Row)
             /\ KeepsRows(inventory[k], inventory'[k])
             /\ inventory[k] # <<>> <=> inventory'[k] # <<>>
             /\ Lone(inventory[k]) => Lone(inventory'[k])
  <2> DEFINE s == inventory[k]
             e == [i \in DOMAIN s |-> IF <<k, i>> \in S THEN [s[i] EXCEPT !.state = state] ELSE s[i]]
  <2>1. s \in Seq(Row) /\ Len(s) \in Nat /\ DOMAIN s = 1..Len(s) /\ \A i \in DOMAIN s : s[i] \in Row
        BY RowsOf
  <2>2. inventory'[k] = e
        BY DEF SetRows
  <2>3. \A i \in DOMAIN s : e[i] \in Row /\ e[i].rev = s[i].rev /\ e[i].current = s[i].current
        BY <2>1 DEF Row
  <2>4. DOMAIN e = DOMAIN s
        OBVIOUS
  <2>5. e \in [1..Len(s) -> Row]
        BY <2>1, <2>3
  <2>6. e \in Seq(Row) /\ Len(e) = Len(s)
        BY <2>1, <2>5
  <2> HIDE DEF e, s
  <2>7. KeepsRows(s, e) /\ LiveRows(e) = LiveRows(s)
        BY <2>3, <2>4 DEF KeepsRows, LiveRows
  <2>8. s # <<>> <=> e # <<>>
        BY <2>1, <2>6
  <2>. QED BY <2>2, <2>6, <2>7, <2>8 DEF Lone, s
<1>2. inventory' = [k \in Keys |-> inventory'[k]]
      BY DEF SetRows
<1>. QED BY <1>1, <1>2

LEMMA PendingTail ==
    ASSUME Typed, NEW k \in Keys, Pending(k) # {}
    PROVE  /\ Cardinality(Pending(k)) \in Nat \ {0}
           /\ \A i \in 1..Cardinality(Pending(k)) : changes[k][Min(Pending(k)) + i - 1].rev \in Revs
<1> DEFINE c == changes[k]
           P == Pending(k)
           m == Min(P)
           n == Len(c)
<1>1. c \in Seq([rev : Revs, done : BOOLEAN]) /\ n \in Nat /\ DOMAIN c = 1..n
      BY LenProperties DEF Typed, TypeOK
<1>2. \A i \in DOMAIN c : c[i] \in [rev : Revs, done : BOOLEAN]
      BY <1>1, ElementOfSeq
<1>3. P = {i \in 1..n : ~c[i].done}
      BY <1>1 DEF Pending
<1>4. \A i, j \in 1..n : i < j /\ c[j].done => c[i].done
      BY <1>1 DEF Typed, NewestPend
<1> HIDE DEF c, P, m, n
<1>5. P \in SUBSET Nat /\ P # {}
      BY <1>1, <1>3 DEF P
<1>6. m \in P /\ \A i \in P : m <= i
      BY <1>5, MinIsLeast DEF m
<1>7. m \in 1..n
      BY <1>3, <1>6
<1>8. P = m..n
  <2>1. \A i \in P : i \in m..n
        BY <1>1, <1>3, <1>6, <1>7
  <2>2. \A i \in m..n : i \in P
    <3>. SUFFICES ASSUME NEW i \in m..n, i \notin P PROVE FALSE
         OBVIOUS
    <3>1. i \in 1..n /\ c[i].done /\ m < i
          BY <1>1, <1>3, <1>6, <1>7
    <3>. QED BY <1>3, <1>4, <1>6, <1>7, <3>1
  <2>. QED BY <2>1, <2>2
<1>9. Cardinality(P) = n - m + 1
      BY <1>1, <1>7, <1>8, FS_Interval
<1>10. \A i \in 1..Cardinality(P) : m + i - 1 \in 1..n
      BY <1>1, <1>7, <1>9
<1>11. \A i \in 1..Cardinality(P) : c[m + i - 1].rev \in Revs
      BY <1>1, <1>2, <1>10
<1>12. Cardinality(P) \in Nat \ {0}
      BY <1>1, <1>7, <1>9
<1>. QED BY <1>11, <1>12 DEF c, P, m

\* A successor supersedes the current row of its key, and the newest one is
\* current in its place.
LEMMA SuccessorRows ==
    ASSUME Typed, NEW k \in Keys
    PROVE  /\ Successors(k) \in Seq(Row) /\ KeepsRows(inventory[k], Successors(k))
           /\ inventory[k] # <<>> <=> Successors(k) # <<>>
           /\ Lone(inventory[k]) => Lone(Successors(k))
<1> DEFINE s == inventory[k]
           f == Found(inventory, k)
           P == Pending(k)
           c == Cardinality(P)
           old == [i \in DOMAIN s |-> IF i = f THEN [s[i] EXCEPT !.current = FALSE] ELSE s[i]]
           row(i) == [NewRow(changes[k][Min(P) + i - 1].rev) EXCEPT !.current = (i = c)]
           new == [i \in 1..c |-> row(i)]
           e == old \o new
<1>1. /\ s \in Seq(Row) /\ Len(s) \in Nat /\ DOMAIN s = 1..Len(s)
      /\ \A i \in DOMAIN s : s[i] \in Row
      /\ LiveRows(s) # {} => f \in LiveRows(s)
      BY RowsOf, CurrentIsLive DEF Typed, TypeOK
<1>2. CASE P = {} \/ LiveRows(s) = {}
  <2>1. Successors(k) = s
        BY <1>2, CurrentIsLive DEF Successors
  <2>. QED BY <1>1, <2>1 DEF KeepsRows
<1>3. CASE P # {} /\ LiveRows(s) # {}
  <2>1. Successors(k) = e
        BY <1>3, CurrentIsLive DEF Successors
  <2>2. \A i \in DOMAIN s : /\ old[i] \in Row /\ old[i].rev = s[i].rev
                            /\ old[i].current = (s[i].current /\ i # f)
        BY <1>1 DEF Row
  <2>3. c \in Nat \ {0} /\ \A i \in 1..c : changes[k][Min(P) + i - 1].rev \in Revs
        BY <1>3, PendingTail
  <2>4. \A i \in 1..c : new[i] \in Row /\ new[i].current = (i = c)
    <3>. SUFFICES ASSUME NEW i \in 1..c PROVE row(i) \in Row /\ row(i).current = (i = c)
         OBVIOUS
    <3> DEFINE rev == changes[k][Min(P) + i - 1].rev
    <3>1. rev \in Revs
          BY <2>3
    <3> HIDE DEF rev, c
    <3>2. NewRow(rev) \in Row
          BY <3>1, NewRowType
    <3>3. row(i) = [NewRow(rev) EXCEPT !.current = (i = c)]
          BY DEF rev
    <3>. QED BY <3>2, <3>3 DEF Row
  <2>5. old \in Seq(Row) /\ Len(old) = Len(s)
    <3>1. old \in [1..Len(s) -> Row]
          BY <1>1, <2>2
    <3>. QED BY <1>1, <3>1
  <2>6. new \in Seq(Row) /\ Len(new) = c
    <3>1. new \in [1..c -> Row]
          BY <2>4
    <3> HIDE DEF new, c
    <3>. QED BY <2>3, <3>1
  <2> HIDE DEF old, new, c, row
  <2>7. /\ e \in Seq(Row) /\ Len(e) = Len(s) + c
        /\ \A i \in 1..(Len(s) + c) : e[i] = IF i <= Len(s) THEN old[i] ELSE new[i - Len(s)]
    <3>1. /\ e \in Seq(Row) /\ Len(e) = Len(old) + Len(new)
          /\ \A i \in 1..(Len(old) + Len(new)) :
                e[i] = IF i <= Len(old) THEN old[i] ELSE new[i - Len(old)]
          BY <2>5, <2>6, ConcatProperties
    <3>. QED BY <2>5, <2>6, <3>1
  <2>8. DOMAIN e = 1..(Len(s) + c)
        BY <2>7, LenProperties
  <2> HIDE DEF e, f
  <2>9. KeepsRows(s, e)
        BY <1>1, <2>2, <2>3, <2>7, <2>8 DEF KeepsRows
  <2>10. e # <<>> /\ s # <<>>
        BY <1>1, <1>3, <2>3, <2>7 DEF LiveRows
  <2>11. Lone(s) => Lone(e)
    <3>. SUFFICES ASSUME Lone(s), NEW i \in LiveRows(e) PROVE i = Len(s) + c
         BY DEF Lone
    <3>1. i \in 1..(Len(s) + c) /\ e[i].current
          BY <2>8 DEF LiveRows
    <3>2. CASE i <= Len(s)
      <4>1. i \in DOMAIN s /\ old[i].current
            BY <1>1, <2>7, <3>1, <3>2
      <4>2. i \in LiveRows(s) /\ i # f
            BY <2>2, <4>1 DEF LiveRows
      <4>. QED BY <1>1, <1>3, <4>2 DEF Lone
    <3>3. CASE ~(i <= Len(s))
      <4>1. i - Len(s) \in 1..c /\ new[i - Len(s)].current
            BY <1>1, <2>3, <2>7, <3>1, <3>3
      <4>2. i - Len(s) = c
            BY <2>4, <4>1
      <4>. QED BY <1>1, <2>3, <3>1, <4>2
    <3>. QED BY <3>2, <3>3
  <2>. QED BY <2>1, <2>7, <2>9, <2>10, <2>11
<1>. QED BY <1>2, <1>3

-----------------------------------------------------------------------------
(* Type correctness and evidence *)

RowsKept == \A k \in Keys : KeepsRows(inventory[k], inventory'[k])

LEMMA SameRows == ASSUME UNCHANGED inventory PROVE RowsKept
    BY DEF RowsKept, KeepsRows

Mixed == [foreign : BOOLEAN, inserts : BOOLEAN]

LEMMA Parts ==
    ASSUME Typed
    PROVE  /\ source \in Source /\ job \in Job /\ ko \in Worker /\ mixed \in Mixed
           /\ inventory \in [Keys -> Seq(Row)] /\ bucket \in Rows /\ oci \in Rows
           /\ valid \in BOOLEAN /\ asked \in Nat /\ edits \in Nat /\ touched \subseteq Keys
    BY DEF Typed, TypeOK, Worker, Rows, Mixed

LEMMA InitTyped == Init => Typed
<1> SUFFICES ASSUME Init PROVE Typed
    OBVIOUS
<1>1. Min(Revs) \in Revs
      BY Constants, MinIsLeast
<1>2. InitialBucket \in Rows /\ bucket \in Rows
      BY <1>1 DEF Init, InitialBucket, Rows, Revision
<1>3. 1 \in 1..(Len(Prefixes) + 1)
      BY Constants
<1>4. job \in Job
  <2>1. NewJob("LIST", FALSE, None) \in Job
        BY NoneType, NewJobType
  <2>. QED BY <2>1 DEF Init, Job
<1>5. source \in Source /\ ko \in Worker
      BY <1>3, IdleType DEF Init, Source, Status
<1>6. inventory \in [Keys -> Seq(Row)] /\ changes \in Changes /\ oci \in Rows /\ NewestPend
      BY NoneType DEF Init, Changes, NewestPend
<1>. QED BY <1>2, <1>4, <1>5, <1>6 DEF Init, Typed, TypeOK, Worker, Rows, Changes

\* Steps of requests and of the worker that touch no row.
LEMMA ControlTyped ==
    ASSUME Typed, UNCHANGED <<inventory, changes, bucket, oci, edits>>,
           source' \in Source, job' \in Job, ko' \in Worker, valid' \in BOOLEAN, asked' \in Nat,
           touched' \subseteq Keys, mixed' \in [foreign : BOOLEAN, inserts : BOOLEAN]
    PROVE  Typed' /\ RowsKept
    BY SameRows DEF Typed, TypeOK, NewestPend, Worker, Rows

LEMMA QueueTyped ==
    ASSUME Typed, NEW mode \in {"LIST", "MANIFEST"}, NEW merge \in BOOLEAN, QueueDiscovery(mode, merge)
    PROVE  Typed' /\ RowsKept
<1> DEFINE m == IF mode = "MANIFEST" THEN bucket ELSE None
           resume == Resumes(mode, merge)
<1>1. m \in Rows
      BY NoneType DEF Typed, TypeOK, Rows
<1>2. job' = NewJob(mode, merge, m)
      BY DEF QueueDiscovery
<1>3. job' \in Job
      BY <1>1, <1>2, NewJobType
<1>4. source' \in Source
  <2>1. 1 \in 1..(Len(Prefixes) + 1) /\ "DISCOVERY_QUEUED" \in Status
        BY Constants DEF Status
  <2>. QED BY <2>1 DEF QueueDiscovery, Typed, TypeOK, Source
<1>5. touched' \subseteq Keys /\ asked' \in Nat
      BY Parts DEF QueueDiscovery
<1>7. mixed' \in [foreign : BOOLEAN, inserts : BOOLEAN]
  <2>1. mixed \in Mixed
        BY Parts
  <2>2. \/ mixed' = mixed
        \/ mixed' = [mixed EXCEPT !.inserts = mixed.inserts \/ mixed.foreign]
        \/ mixed' = [mixed EXCEPT !.foreign = TRUE]
        BY DEF QueueDiscovery
  <2>3. (mixed.inserts \/ mixed.foreign) \in BOOLEAN
        OBVIOUS
  <2>4. \A b \in BOOLEAN : /\ [mixed EXCEPT !.inserts = b] \in Mixed
                         /\ [mixed EXCEPT !.foreign = b] \in Mixed
        BY <2>1 DEF Mixed
  <2>. QED BY <2>1, <2>2, <2>3, <2>4 DEF Mixed
<1>6. UNCHANGED <<inventory, changes, bucket, oci, edits, valid, ko>>
      BY DEF QueueDiscovery
<1>. QED BY <1>3, <1>4, <1>5, <1>6, <1>7, Parts, ControlTyped

\* Steps that bring a batch of rows.
LEMMA BatchTyped ==
    ASSUME Typed, NEW rows \in Rows, NEW merge \in BOOLEAN, Absorb(rows, merge),
           UNCHANGED <<bucket, oci, edits>>, source' \in Source, job' \in Job, ko' \in Worker,
           asked' \in Nat,
           touched' \subseteq Keys, mixed' \in [foreign : BOOLEAN, inserts : BOOLEAN]
    PROVE  Typed' /\ RowsKept
<1>1. /\ inventory' \in [Keys -> Seq(Row)] /\ changes' \in Changes /\ valid' \in BOOLEAN /\ NewestPend'
      /\ RowsKept
      BY AbsorbRows DEF RowsKept
<1>2. bucket' \in Rows /\ oci' \in Rows /\ edits' \in Nat
      BY Parts
<1>. QED BY <1>1, <1>2 DEF Typed, TypeOK, Worker, Rows, Changes

ScopeRows == [k \in Keys |-> IF k \in Scope THEN bucket[k] ELSE 0]

LEMMA UploadTyped ==
    ASSUME Typed, NEW merge \in BOOLEAN, UploadInventory(merge)
    PROVE  Typed' /\ RowsKept
<1>1. ScopeRows \in Rows
      BY DEF ScopeRows, Rows, Revision, Typed, TypeOK
<1>2. Absorb(ScopeRows, merge)
      BY DEF UploadInventory, ScopeRows
<1>3. UNCHANGED <<job, bucket, oci, ko, edits>> /\ touched' = {} /\ asked' \in Nat
      BY Parts DEF UploadInventory
<1>5. source' \in Source
  <2>1. source' = [source EXCEPT !.status = "DISCOVERED", !.token = 0]
        BY DEF UploadInventory
  <2>2. source \in Source /\ "DISCOVERED" \in Status
        BY Parts DEF Status
  <2>. QED BY <2>1, <2>2 DEF Source
<1>4. mixed' \in [foreign : BOOLEAN, inserts : BOOLEAN]
      BY DEF UploadInventory, Foreign, Inserting, Active, Typed, TypeOK, Job
<1>6. job' \in Job /\ ko' \in Worker /\ touched' \subseteq Keys
      BY <1>3, Parts
<1>. QED BY <1>1, <1>2, <1>3, <1>4, <1>5, <1>6, BatchTyped

LEMMA ImportItemRows ==
    ASSUME Typed, NEW k \in Keys, ImportItem(k)
    PROVE  /\ inventory' \in [Keys -> Seq(Row)]
           /\ inventory[k] = <<>> /\ inventory'[k] # <<>> /\ Lone(inventory'[k])
           /\ \A x \in Keys \ {k} : inventory'[x] = inventory[x]
<1> DEFINE r == NewRow(bucket[k])
<1>1. bucket[k] \in Revs /\ inventory' = [inventory EXCEPT ![k] = <<r>>] /\ inventory[k] = <<>>
      BY DEF ImportItem, Typed, TypeOK, Revision
<1>2. r \in Row
      BY <1>1, NewRowType
<1> HIDE DEF r
<1>3. <<r>> \in Seq(Row) /\ <<r>> # <<>> /\ Lone(<<r>>)
      BY <1>2 DEF Lone, LiveRows
<1>. QED BY <1>1, <1>3 DEF Typed, TypeOK

LEMMA ImportItemTyped ==
    ASSUME Typed, NEW k \in Keys, ImportItem(k)
    PROVE  Typed' /\ RowsKept
<1>1. /\ inventory' \in [Keys -> Seq(Row)] /\ inventory[k] = <<>>
      /\ \A x \in Keys \ {k} : inventory'[x] = inventory[x]
      BY ImportItemRows
<1>2. RowsKept
      BY <1>1 DEF RowsKept, KeepsRows
<1>3. mixed' \in [foreign : BOOLEAN, inserts : BOOLEAN]
      BY DEF ImportItem, Foreign, Inserting, Active, Typed, TypeOK, Job
<1>4. asked' \in Nat /\ UNCHANGED <<source, job, changes, valid, bucket, oci, ko, edits, touched>>
      BY DEF ImportItem, Typed, TypeOK
<1>. QED BY <1>1, <1>2, <1>3, <1>4 DEF Typed, TypeOK, NewestPend

-----------------------------------------------------------------------------
(* The worker *)

LEMMA WorkerTyped ==
    ASSUME Typed,
           Recover \/ ClaimJob \/ Ineligible \/ Begin \/ FinishListing \/ NextShard \/ FinishImport
              \/ DiscoveryFails \/ Crash
    PROVE  Typed' /\ RowsKept
<1>1. source \in Source /\ job \in Job /\ ko \in Worker
      BY DEF Typed, TypeOK, Worker, Rows
<1>2. /\ 1 \in 1..(Len(Prefixes) + 1)
      /\ Status = {"CREATED", "DISCOVERY_QUEUED", "DISCOVERING", "DISCOVERED", "DISCOVERY_FAILED"}
      BY Constants DEF Status
<1>3. source' \in Source
  <2>1. \A st \in Status : [source EXCEPT !.status = st] \in Source
        BY <1>1 DEF Source
  <2>2. [status |-> "DISCOVERED", token |-> 0, prefix |-> 1] \in Source
        BY <1>2 DEF Source
  <2>3. /\ "DISCOVERY_QUEUED" \in Status /\ "DISCOVERING" \in Status
        /\ "DISCOVERED" \in Status /\ "DISCOVERY_FAILED" \in Status
        BY DEF Status
  <2>. QED BY <1>1, <2>1, <2>2, <2>3
           DEF Recover, ClaimJob, Ineligible, Begin, FinishListing, NextShard, FinishImport,
               DiscoveryFails, Crash
<1>4. job' \in Job
  <2>1. CASE NextShard
    <3>1. job.file + 1 \in 1..(Len(Shards) + 1) /\ job' = [job EXCEPT !.file = job.file + 1, !.rows = 0]
          BY <1>1, <2>1, Constants DEF NextShard, Job
    <3>. QED BY <1>1, <3>1 DEF Job
  <2>2. CASE Recover
    <3>1. NewJob("LIST", FALSE, None) \in Job
          BY NoneType, NewJobType
    <3>2. [job EXCEPT !.state = "READY"] \in Job
          BY <1>1 DEF Job
    <3>. QED BY <2>2, <3>1, <3>2 DEF Recover
  <2>3. CASE ClaimJob \/ Ineligible \/ Begin \/ FinishListing \/ FinishImport \/ DiscoveryFails \/ Crash
        BY <1>1, <2>3 DEF ClaimJob, Ineligible, Begin, FinishListing, FinishImport, DiscoveryFails,
                          Crash, Job
  <2>. QED BY <2>1, <2>2, <2>3
<1>5. ko' \in Worker
  <2>1. CASE Begin
    <3> DEFINE w == [Idle EXCEPT !.pc = job.mode, !.token = source.token, !.prefix = source.prefix]
    <3>1. ko' = w
          BY <2>1 DEF Begin
    <3>2. /\ job.mode \in {"LIST", "MANIFEST"} /\ source.token \in Keys \cup {0}
          /\ source.prefix \in 1..(Len(Prefixes) + 1)
          BY <1>1 DEF Job, Source
    <3>3. w \in Worker
          BY <3>2, IdleType DEF Worker
    <3>. QED BY <3>1, <3>3
  <2>2. CASE ClaimJob
        BY <2>2, IdleType DEF ClaimJob, Worker
  <2>. QED BY <1>1, <2>1, <2>2, IdleType DEF Recover, Ineligible, FinishListing, NextShard,
                                             FinishImport, DiscoveryFails, Crash
<1>6. UNCHANGED <<inventory, changes, valid, bucket, oci, asked, edits, touched, mixed>>
      BY DEF Recover, ClaimJob, Ineligible, Begin, FinishListing, NextShard, FinishImport,
             DiscoveryFails, Crash
<1>. QED BY <1>3, <1>4, <1>5, <1>6, ControlTyped DEF Typed, TypeOK

\* The page that the worker has just listed, and what it then holds.
PageRows == [k \in Keys |-> IF k \in Page(ko.prefix, ko.token) THEN bucket[k] ELSE ko.rows[k]]
PageToken == NextToken(ko.prefix, ko.token)
PagePrefix == IF PageToken = 0 THEN ko.prefix + 1 ELSE ko.prefix

\* A page either is the last one of a batch, whose rows and cursor are then
\* committed, or is kept.
LEMMA ListPageCases ==
    ASSUME Typed, ListPage
    PROVE  /\ PageRows \in Rows /\ PageToken \in Keys \cup {0} /\ PagePrefix \in 1..(Len(Prefixes) + 1)
           /\ ko.pc = "LIST" /\ ko.prefix \in DOMAIN Prefixes
           /\ UNCHANGED <<job, bucket, oci, asked, edits, touched, mixed>>
           /\ ko' \in Worker /\ ko'.pc = "LIST" /\ ko'.token = PageToken /\ ko'.prefix = PagePrefix
           /\ \/ /\ Absorb(PageRows, job.merge) /\ ko'.rows = None
                 /\ source' = [source EXCEPT !.token = PageToken, !.prefix = PagePrefix]
              \/ /\ UNCHANGED <<source, inventory, changes, valid>> /\ ko'.rows = PageRows
                 /\ PageToken # 0
<1>1. ko \in Worker /\ ko.pc = "LIST" /\ ko.prefix \in DOMAIN Prefixes /\ bucket \in Rows
      BY Constants DEF ListPage, Typed, TypeOK, Worker, Rows
<1>2. PageToken \in Keys \cup {0}
  <2>1. ko.token \in Keys \cup {0}
        BY <1>1 DEF Worker
  <2>. QED BY <1>1, <2>1, PagesOf DEF PageToken
<1>3. PageRows \in Rows
      BY <1>1 DEF PageRows, Rows, Worker
<1>4. PagePrefix \in 1..(Len(Prefixes) + 1)
      BY <1>1, Constants DEF PagePrefix
<1> DEFINE n == [ko EXCEPT !.rows = PageRows, !.pages = ko.pages + 1, !.token = PageToken,
                             !.prefix = PagePrefix]
           c == [n EXCEPT !.rows = None, !.pages = 0]
<1>9. ko.pages + 1 \in Nat
      BY <1>1 DEF Worker
<1>5. n \in Worker /\ n.pc = "LIST" /\ n.token = PageToken /\ n.prefix = PagePrefix /\ n.rows = PageRows
      BY <1>1, <1>2, <1>3, <1>4, <1>9 DEF Worker
<1>6. c \in Worker /\ c.pc = "LIST" /\ c.token = PageToken /\ c.prefix = PagePrefix /\ c.rows = None
      BY <1>5, NoneType DEF Worker
<1>7. IF n.pages >= CheckpointPages \/ PageToken = 0
      THEN /\ Absorb(n.rows, job.merge) /\ ko' = c
           /\ source' = [source EXCEPT !.token = PageToken, !.prefix = n.prefix]
      ELSE ko' = n /\ UNCHANGED <<source, inventory, changes, valid>>
      BY DEF ListPage, PageRows, PageToken, PagePrefix
<1>8. UNCHANGED <<job, bucket, oci, asked, edits, touched, mixed>>
      BY DEF ListPage
<1> HIDE DEF n, c
<1>. QED BY <1>1, <1>2, <1>3, <1>4, <1>5, <1>6, <1>7, <1>8

LEMMA ListPageTyped == ASSUME Typed, ListPage PROVE Typed' /\ RowsKept
<1>1. CASE /\ Absorb(PageRows, job.merge)
           /\ source' = [source EXCEPT !.token = PageToken, !.prefix = PagePrefix]
  <2>1. source' \in Source /\ job \in Job /\ job.merge \in BOOLEAN
        BY <1>1, ListPageCases DEF Typed, TypeOK, Source, Job
  <2>2. /\ UNCHANGED <<bucket, oci, edits>> /\ job' \in Job /\ ko' \in Worker /\ asked' \in Nat
        /\ touched' \subseteq Keys /\ mixed' \in Mixed
        BY ListPageCases, Parts
  <2>. QED BY <1>1, <2>1, <2>2, ListPageCases, BatchTyped DEF Mixed
<1>2. CASE UNCHANGED <<source, inventory, changes, valid>>
      BY <1>2, ListPageCases, ControlTyped DEF Typed, TypeOK
<1>. QED BY <1>1, <1>2, ListPageCases

\* The chunk of an import: rows first to last of the shard.
ChunkEnd == Min({job.rows + ChunkRows, Len(Shards[job.file])})
Chunk == {Shards[job.file][i] : i \in (job.rows + 1)..ChunkEnd} \cap Scope
ChunkOf == [k \in Keys |-> IF k \in Chunk THEN job.manifest[k] ELSE 0]

LEMMA ImportChunkCases ==
    ASSUME Typed, ImportChunk
    PROVE  /\ ChunkOf \in Rows /\ job.file \in DOMAIN Shards /\ job.rows \in Nat
           /\ ChunkEnd \in Nat /\ job.rows < ChunkEnd /\ ChunkEnd <= Len(Shards[job.file])
           /\ ko.pc = "MANIFEST" /\ Absorb(ChunkOf, job.merge) /\ job' = [job EXCEPT !.rows = ChunkEnd]
           /\ UNCHANGED <<source, bucket, oci, ko, asked, edits, touched, mixed>>
<1>1. job \in Job /\ job.file \in DOMAIN Shards /\ job.rows \in Nat /\ job.rows < Len(Shards[job.file])
      BY Constants DEF ImportChunk, Typed, TypeOK, Job
<1>2. Len(Shards[job.file]) \in Nat /\ ChunkRows \in Nat \ {0}
      BY <1>1, Constants, ShardRows
<1>3. ChunkEnd \in Nat /\ job.rows < ChunkEnd /\ ChunkEnd <= Len(Shards[job.file])
  <2> DEFINE a == job.rows + ChunkRows
             b == Len(Shards[job.file])
  <2>1. a \in Nat /\ b \in Nat /\ job.rows < a /\ job.rows < b
        BY <1>1, <1>2
  <2>2. ChunkEnd = Min({a, b})
        BY DEF ChunkEnd
  <2> HIDE DEF a, b
  <2>3. ChunkEnd \in Nat /\ ChunkEnd = IF a <= b THEN a ELSE b
        BY <2>1, <2>2, MinOfTwo
  <2>4. job.rows < ChunkEnd /\ ChunkEnd <= b
        BY <2>1, <2>3
  <2>. QED BY <2>3, <2>4 DEF b
<1>4. ChunkOf \in Rows
      BY <1>1 DEF ChunkOf, Rows, Job, Revision
<1>5. /\ Absorb(ChunkOf, job.merge) /\ job' = [job EXCEPT !.rows = ChunkEnd] /\ ko.pc = "MANIFEST"
      /\ UNCHANGED <<source, bucket, oci, ko, asked, edits, touched, mixed>>
      BY DEF ImportChunk, ChunkOf, Chunk, ChunkEnd
<1>. QED BY <1>1, <1>3, <1>4, <1>5

LEMMA ImportChunkTyped == ASSUME Typed, ImportChunk PROVE Typed' /\ RowsKept
<1>1. job' \in Job /\ job.merge \in BOOLEAN
      BY ImportChunkCases DEF Typed, TypeOK, Job
<1>2. /\ source' \in Source /\ ko' \in Worker /\ asked' \in Nat
      /\ touched' \subseteq Keys /\ mixed' \in Mixed
      BY ImportChunkCases, Parts
<1>. QED BY <1>1, <1>2, ImportChunkCases, BatchTyped DEF Mixed

-----------------------------------------------------------------------------
(* What becomes of the rows *)

LEMMA UseTyped == ASSUME Typed, Use PROVE Typed' /\ RowsKept
<1>1. inventory \in [Keys -> Seq(Row)] /\ bucket \in Rows /\ oci \in Rows
      BY DEF Typed, TypeOK, Rows
<1>2. CASE AssignWave \/ DeleteWave
  <2>1. inventory' \in [Keys -> Seq(Row)] /\ RowsKept
        BY <1>1, <1>2, SetRowsRows DEF AssignWave, DeleteWave, RowsKept
  <2>2. UNCHANGED <<source, job, changes, valid, bucket, oci, ko, asked, edits, touched, mixed>>
        BY <1>2 DEF AssignWave, DeleteWave
  <2>. QED BY <2>1, <2>2 DEF Typed, TypeOK, NewestPend
<1>3. CASE Migrate
  <2>1. inventory' \in [Keys -> Seq(Row)] /\ RowsKept
        BY <1>1, <1>3, SetRowsRows DEF Migrate, RowsKept
  <2>2. /\ oci' \in Rows
        /\ UNCHANGED <<source, job, changes, valid, bucket, ko, asked, edits, touched, mixed>>
        BY <1>1, <1>3 DEF Migrate, Rows
  <2>. QED BY <2>1, <2>2 DEF Typed, TypeOK, NewestPend, Rows
<1>4. CASE ValidateDestination
  <2>1. inventory' \in [Keys -> Seq(Row)] /\ RowsKept
        BY <1>1, <1>4, SetRowsRows DEF ValidateDestination, RowsKept
  <2>2. /\ valid' \in BOOLEAN
        /\ UNCHANGED <<source, job, changes, bucket, oci, ko, asked, edits, touched, mixed>>
        BY <1>4 DEF ValidateDestination
  <2>. QED BY <2>1, <2>2 DEF Typed, TypeOK, NewestPend
<1>5. CASE ReprocessModified
  <2>1. inventory' \in [Keys -> Seq(Row)] /\ RowsKept
        BY <1>5, SuccessorRows DEF ReprocessModified, RowsKept
  <2>2. ASSUME NEW k \in Keys
        PROVE  /\ changes'[k] \in Seq([rev : Revs, done : BOOLEAN])
               /\ \A i \in DOMAIN changes'[k] : changes'[k][i].done
    <3> DEFINE c == changes[k]
               e == [i \in DOMAIN c |-> [c[i] EXCEPT !.done = TRUE]]
    <3>1. c \in Seq([rev : Revs, done : BOOLEAN]) /\ Len(c) \in Nat /\ DOMAIN c = 1..Len(c)
          BY LenProperties DEF Typed, TypeOK
    <3>2. \A i \in DOMAIN c : c[i] \in [rev : Revs, done : BOOLEAN]
          BY <3>1, ElementOfSeq
    <3>3. changes'[k] = e
          BY <1>5 DEF ReprocessModified
    <3>4. \A i \in DOMAIN c : e[i] \in [rev : Revs, done : BOOLEAN] /\ e[i].done
          BY <3>2
    <3>5. e \in [1..Len(c) -> [rev : Revs, done : BOOLEAN]] /\ DOMAIN e = DOMAIN c
          BY <3>1, <3>4
    <3> HIDE DEF e, c
    <3>6. e \in Seq([rev : Revs, done : BOOLEAN])
          BY <3>1, <3>5
    <3>. QED BY <3>3, <3>4, <3>5, <3>6
  <2>3. changes' = [k \in Keys |-> changes'[k]]
        BY <1>5 DEF ReprocessModified
  <2>4. changes' \in Changes /\ NewestPend'
        BY <2>2, <2>3 DEF Changes, NewestPend
  <2>5. UNCHANGED <<source, job, valid, bucket, oci, ko, asked, edits, touched, mixed>>
        BY <1>5 DEF ReprocessModified
  <2>. QED BY <2>1, <2>4, <2>5 DEF Typed, TypeOK, Changes
<1>6. ASSUME NEW k \in Scope, NEW rev \in Revs, WriteObject(k, rev) PROVE Typed' /\ RowsKept
  <2>1. k \in Keys
        BY Constants DEF Scope
  <2>2. bucket' \in Rows /\ edits' \in Nat /\ touched' \subseteq Keys
        BY <1>1, <1>6, <2>1 DEF WriteObject, Rows, Revision, Typed, TypeOK
  <2>3. UNCHANGED <<source, job, inventory, changes, valid, oci, ko, asked, mixed>>
        BY <1>6 DEF WriteObject
  <2>. QED BY <2>2, <2>3, SameRows DEF Typed, TypeOK, NewestPend, Rows
<1>. QED BY <1>2, <1>3, <1>4, <1>5, <1>6 DEF Use

LEMMA NextTyped == ASSUME Typed, [Next]_vars PROVE Typed' /\ RowsKept
<1>1. CASE UNCHANGED vars
      BY <1>1, SameRows DEF vars, Typed, TypeOK, NewestPend
<1>2. CASE Ask
      BY <1>2, QueueTyped DEF Ask
<1>3. CASE Import
      BY <1>3, UploadTyped, ImportItemTyped DEF Import
<1>4. CASE Work \/ DiscoveryFails \/ Crash
      BY <1>4, WorkerTyped, ListPageTyped, ImportChunkTyped DEF Work
<1>. QED BY <1>1, <1>2, <1>3, <1>4, UseTyped DEF Next

\* The source, its job, the rows of every key, their changes and the worker
\* keep their types, and decided changes come before pending ones.
THEOREM TypeCorrect == Spec => []TypeOK
<1>1. Spec => []Typed
      BY InitTyped, NextTyped, PTL DEF Spec
<1>2. Typed => TypeOK
      BY DEF Typed
<1>. QED BY <1>1, <1>2, PTL

\* No row disappears, and one that a wave refers to keeps its revision, through
\* merges, imports, reprocessing and waves (merge_discovery_rows).
THEOREM EvidenceStays == Spec => EvidenceIsKept
<1>1. Spec => []Typed
      BY InitTyped, NextTyped, PTL DEF Spec
<1>2. Typed /\ [Next]_vars =>
         [\A k \in Keys : \A i \in DOMAIN inventory[k] :
            /\ i \in DOMAIN inventory'[k]
            /\ inventory[k][i].state # "DISCOVERED" => inventory'[k][i].rev = inventory[k][i].rev]_vars
      BY NextTyped DEF RowsKept, KeepsRows
<1>. QED BY <1>1, <1>2, PTL DEF Spec, EvidenceIsKept

-----------------------------------------------------------------------------
(* What the job, the source and the worker hold *)

\* What a job, a source and the worker hold of each other.
Held ==
    /\ ko.pc # "idle" => job.state = "RUNNING"
    /\ ko.pc = "claimed" => source.status # "DISCOVERING"
    /\ source.status = "DISCOVERING" => job.state = "RUNNING"
    /\ ko.pc \in {"LIST", "MANIFEST"} => ko.pc = job.mode
    /\ ko.token = 0 => ko.rows = None
    /\ source.prefix > Len(Prefixes) => source.token = 0
    /\ ko.prefix > Len(Prefixes) => ko.token = 0

LEMMA InitHeld == Init => Held
<1> SUFFICES ASSUME Init PROVE Held
    OBVIOUS
<1>. QED BY IdleType DEF Init, Held, NewJob

\* Steps that leave the worker idle or its work alone.
LEMMA IdleHeld ==
    ASSUME Typed, Held, ko' = Idle, source'.status # "DISCOVERING",
           source'.prefix > Len(Prefixes) => source'.token = 0
    PROVE  Held'
    BY IdleType, Constants DEF Held

LEMMA HeldStep == ASSUME Typed, Held, [Next]_vars PROVE Held'
<1>1. CASE UNCHANGED <<source, job, ko>>
      BY <1>1 DEF Held
<1>2. ASSUME NEW mode \in {"LIST", "MANIFEST"}, NEW merge \in BOOLEAN, QueueDiscovery(mode, merge)
      PROVE  Held'
  <2>1. ko.pc = "idle" /\ ko' = ko
        BY <1>2, Parts DEF QueueDiscovery, Active, Held, Worker
  <2>2. /\ source'.status = "DISCOVERY_QUEUED"
        /\ source'.prefix = (IF Resumes(mode, merge) THEN source.prefix ELSE 1)
        /\ source'.token = (IF Resumes(mode, merge) THEN source.token ELSE 0)
        BY <1>2 DEF QueueDiscovery
  <2>. QED BY <2>1, <2>2 DEF Held
<1>3. ASSUME NEW merge \in BOOLEAN, UploadInventory(merge) PROVE Held'
  <2>1. source'.status = "DISCOVERED" /\ source'.token = 0 /\ UNCHANGED <<job, ko>>
        BY <1>3, Parts DEF UploadInventory, Source
  <2>. QED BY <2>1 DEF Held
<1>4. CASE Recover
  <2>1. /\ source'.status = "DISCOVERY_QUEUED"
        /\ source'.prefix = source.prefix /\ source'.token = source.token
        BY <1>4, Parts DEF Recover, Source
  <2>2. ko.pc = "idle" /\ ko' = ko
        BY <1>4 DEF Recover
  <2>. QED BY <2>1, <2>2 DEF Held
<1>5. CASE ClaimJob
  <2>1. job'.state = "RUNNING" /\ UNCHANGED source /\ source.status # "DISCOVERING"
        BY <1>5, Parts DEF ClaimJob, Job
  <2>2. ko' = [Idle EXCEPT !.pc = "claimed"]
        BY <1>5 DEF ClaimJob
  <2>3. ko'.pc = "claimed" /\ ko'.rows = None /\ ko'.token = 0
        BY <2>2 DEF Idle
  <2>. QED BY <2>1, <2>3 DEF Held
<1>6. CASE Ineligible
  <2>1. source.status # "DISCOVERING" /\ UNCHANGED source /\ ko' = Idle
        BY <1>6 DEF Ineligible, Held
  <2>. QED BY <2>1, IdleHeld DEF Held
<1>7. CASE Begin
  <2> DEFINE w == [Idle EXCEPT !.pc = job.mode, !.token = source.token, !.prefix = source.prefix]
  <2>1. ko' = w /\ UNCHANGED job /\ job.state = "RUNNING"
        BY <1>7 DEF Begin, Held
  <2>2. w.pc = job.mode /\ w.token = source.token /\ w.prefix = source.prefix /\ w.rows = None
        BY DEF Idle
  <2>3. source'.prefix = source.prefix /\ source'.token = source.token
        BY <1>7, Parts DEF Begin, Source
  <2>4. job.mode # "claimed"
        BY Parts DEF Job
  <2> HIDE DEF w
  <2>. QED BY <2>1, <2>2, <2>3, <2>4 DEF Held
<1>8. CASE ListPage
  <2>1. PagePrefix > Len(Prefixes) => PageToken = 0
        BY <1>8, ListPageCases, Constants DEF PagePrefix
  <2>2. /\ ko.pc = "LIST" /\ ko'.pc = "LIST" /\ UNCHANGED job
        /\ ko'.token = PageToken /\ ko'.prefix = PagePrefix
        /\ \/ /\ ko'.rows = None
              /\ source' = [source EXCEPT !.token = PageToken, !.prefix = PagePrefix]
           \/ UNCHANGED source /\ PageToken # 0
        BY <1>8, ListPageCases
  <2>3. \/ /\ ko'.rows = None /\ source'.status = source.status
           /\ source'.token = PageToken /\ source'.prefix = PagePrefix
        \/ UNCHANGED source /\ PageToken # 0
        BY <2>2, Parts DEF Source
  <2>. QED BY <2>1, <2>2, <2>3 DEF Held
<1>9. CASE FinishListing
  <2>1. ko' = Idle /\ source' = [status |-> "DISCOVERED", token |-> 0, prefix |-> 1]
        BY <1>9 DEF FinishListing
  <2>. QED BY <2>1, IdleHeld
<1>10. CASE ImportChunk
  <2>1. job' = [job EXCEPT !.rows = ChunkEnd] /\ UNCHANGED <<source, ko>>
        BY <1>10, ImportChunkCases
  <2>2. job'.state = job.state /\ job'.mode = job.mode
        BY <2>1, Parts DEF Job
  <2>. QED BY <2>1, <2>2 DEF Held
<1>11. CASE NextShard
  <2>1. job'.state = job.state /\ job'.mode = job.mode /\ UNCHANGED <<source, ko>>
        BY <1>11, Parts DEF NextShard, Job
  <2>. QED BY <2>1 DEF Held
<1>12. CASE FinishImport \/ DiscoveryFails
  <2>1. /\ ko' = Idle /\ source'.status # "DISCOVERING"
        /\ source'.prefix = source.prefix /\ source'.token = source.token
        BY <1>12, Parts DEF FinishImport, DiscoveryFails, Source
  <2>. QED BY <2>1, IdleHeld DEF Held
<1>13. CASE Crash
  <2>1. ko' = Idle /\ UNCHANGED <<source, job>>
        BY <1>13 DEF Crash
  <2>. QED BY <2>1, IdleType, Constants DEF Held
<1>14. CASE Use
  <2>1. UNCHANGED <<source, job, ko>>
        BY <1>14 DEF Use, AssignWave, DeleteWave, Migrate, ValidateDestination, ReprocessModified,
                     WriteObject
  <2>. QED BY <1>1, <2>1
<1>15. ASSUME NEW k \in Keys, ImportItem(k) PROVE Held'
  <2>1. UNCHANGED <<source, job, ko>>
        BY <1>15 DEF ImportItem
  <2>. QED BY <1>1, <2>1
<1>16. CASE UNCHANGED vars
      BY <1>1, <1>16 DEF vars
<1>. QED BY <1>2, <1>3, <1>4, <1>5, <1>6, <1>7, <1>8, <1>9, <1>10, <1>11, <1>12, <1>13, <1>14,
            <1>15, <1>16
         DEF Next, Ask, Import, Work

-----------------------------------------------------------------------------
(* The inventory is complete *)

\* The keys that a cursor has left behind, and those that an import has read.
Done(p, t) ==
    {k \in Keys : \E i \in DOMAIN Prefixes : k \in Prefixes[i] /\ (i < p \/ (i = p /\ k <= t))}
Read(f, r) ==
    {k \in Keys : \E i \in DOMAIN Shards : \E j \in DOMAIN Shards[i] :
                     Shards[i][j] = k /\ (i < f \/ (i = f /\ j <= r))}
Known(k) == inventory[k] # <<>>
Due(k) == k \in Scope /\ k \notin touched /\ bucket[k] # 0

DoneIsKnown == \A k \in Keys : Due(k) /\ k \in Done(source.prefix, source.token) => Known(k)
HeldIsKnown ==
    ko.pc = "LIST" =>
        \A k \in Keys : Due(k) /\ k \in Done(ko.prefix, ko.token) => Known(k) \/ ko.rows[k] # 0
ReadIsKnown ==
    job.mode = "MANIFEST" /\ Active =>
        \A k \in Keys : Due(k) => /\ Known(k) \/ job.manifest[k] # 0
                                  /\ k \in Read(job.file, job.rows) => Known(k)
AllKnown == \A k \in Keys : Due(k) => Known(k)

Complete == DoneIsKnown /\ HeldIsKnown /\ ReadIsKnown /\ (source.status = "DISCOVERED" => AllKnown)

KnownKept == \A k \in Keys : Known(k) => Known(k)'
DueKept == \A k \in Keys : Due(k)' => Due(k)

LEMMA KnownStays == ASSUME Typed, [Next]_vars PROVE KnownKept
<1>1. Typed' /\ RowsKept
      BY NextTyped
<1>2. ASSUME NEW k \in Keys, Known(k) PROVE Known(k)'
  <2>1. inventory[k] \in Seq(Row) /\ KeepsRows(inventory[k], inventory'[k])
        BY <1>1, Parts DEF RowsKept
  <2>2. Len(inventory[k]) \in Nat /\ Len(inventory[k]) # 0 /\ DOMAIN inventory[k] = 1..Len(inventory[k])
        BY <1>2, <2>1, EmptySeq, LenProperties DEF Known
  <2>3. 1 \in DOMAIN inventory'[k]
        BY <2>1, <2>2 DEF KeepsRows
  <2>. QED BY <2>3 DEF Known
<1>. QED BY <1>2 DEF KnownKept

LEMMA DueStays == ASSUME UNCHANGED bucket, touched \subseteq touched' PROVE DueKept
    BY DEF DueKept, Due

\* Steps that leave the discovery where it is.
LEMMA FrameComplete ==
    ASSUME Complete, KnownKept, DueKept, UNCHANGED <<source, job, ko>>
    PROVE  Complete'
    BY DEF Complete, KnownKept, DueKept, DoneIsKnown, HeldIsKnown, ReadIsKnown, AllKnown, Active

LEMMA AllKnownComplete == AllKnown => Complete
    BY DEF Complete, DoneIsKnown, HeldIsKnown, ReadIsKnown, AllKnown

\* A cursor at the start has left nothing behind, an import neither.
LEMMA StartIsEmpty == Done(1, 0) = {} /\ Read(1, 0) = {}
<1>1. \A k \in Keys : ~(k <= 0)
      BY Constants
<1>2. \A i \in DOMAIN Prefixes : ~(i < 1)
      BY Constants
<1>3. \A i \in DOMAIN Shards : ~(i < 1)
      BY Constants
<1>4. \A i \in DOMAIN Shards : \A j \in DOMAIN Shards[i] : ~(j <= 0)
      BY Constants, ShardRows
<1>5. Done(1, 0) = {}
      BY <1>1, <1>2 DEF Done
<1>6. Read(1, 0) = {}
      BY <1>3, <1>4 DEF Read
<1>. QED BY <1>5, <1>6

LEMMA InitComplete == Init => Complete
<1> SUFFICES ASSUME Init PROVE Complete
    OBVIOUS
<1>1. DoneIsKnown
      BY StartIsEmpty DEF Init, DoneIsKnown
<1>2. ko.pc = "idle" /\ job.mode = "LIST" /\ source.status = "CREATED"
      BY IdleType DEF Init, NewJob
<1>. QED BY <1>1, <1>2 DEF Complete, HeldIsKnown, ReadIsKnown

LEMMA QueueComplete ==
    ASSUME Typed, Held, Complete, KnownKept,
           NEW mode \in {"LIST", "MANIFEST"}, NEW merge \in BOOLEAN, QueueDiscovery(mode, merge)
    PROVE  Complete'
<1>1. /\ ko.pc = "idle" /\ ko' = ko
      /\ source'.status = "DISCOVERY_QUEUED"
      /\ source'.prefix = (IF Resumes(mode, merge) THEN source.prefix ELSE 1)
      /\ source'.token = (IF Resumes(mode, merge) THEN source.token ELSE 0)
      /\ job' = NewJob(mode, merge, IF mode = "MANIFEST" THEN bucket ELSE None)
      /\ touched' = (IF Resumes(mode, merge) THEN touched ELSE {})
      /\ bucket' = bucket
      BY Parts DEF QueueDiscovery, Active, Held, Worker
<1>2. DoneIsKnown'
  <2>1. CASE Resumes(mode, merge)
    <3>1. DueKept
          BY <1>1, <2>1, DueStays
    <3>. QED BY <1>1, <2>1, <3>1 DEF Complete, DoneIsKnown, DueKept, KnownKept
  <2>2. CASE ~Resumes(mode, merge)
        BY <1>1, <2>2, StartIsEmpty DEF DoneIsKnown
  <2>. QED BY <2>1, <2>2
<1>3. ReadIsKnown'
  <2>. SUFFICES ASSUME mode = "MANIFEST" PROVE ReadIsKnown'
       BY <1>1 DEF NewJob, ReadIsKnown
  <2>1. job'.manifest = bucket /\ job'.file = 1 /\ job'.rows = 0
        BY <1>1 DEF NewJob
  <2>. QED BY <1>1, <2>1, StartIsEmpty DEF ReadIsKnown, Due
<1>4. HeldIsKnown'
      BY <1>1 DEF HeldIsKnown
<1>. QED BY <1>1, <1>2, <1>3, <1>4 DEF Complete

LEMMA UploadComplete == ASSUME Typed, NEW merge \in BOOLEAN, UploadInventory(merge) PROVE Complete'
<1>1. ScopeRows \in Rows
      BY Parts DEF ScopeRows, Rows, Revision
<1>2. Absorb(ScopeRows, merge) /\ bucket' = bucket
      BY DEF UploadInventory, ScopeRows
<1>3. \A k \in Keys : ScopeRows[k] # 0 => inventory'[k] # <<>>
      BY <1>1, <1>2, AbsorbRows
<1>4. \A k \in Keys : k \in Scope => ScopeRows[k] = bucket[k]
      BY DEF ScopeRows
<1>5. AllKnown'
      BY <1>2, <1>3, <1>4 DEF AllKnown, Due, Known
<1>6. (AllKnown => Complete)'
      BY <1>5 DEF AllKnown, Complete, DoneIsKnown, HeldIsKnown, ReadIsKnown
<1>. QED BY <1>5, <1>6

-----------------------------------------------------------------------------
\* A page covers what the cursor passes over.
LEMMA PageCovers ==
    ASSUME Typed, HeldIsKnown, ListPage, NEW k \in Keys, Due(k), k \in Done(PagePrefix, PageToken)
    PROVE  Known(k) \/ PageRows[k] # 0
<1> DEFINE p == ko.prefix
           t == ko.token
<1>1. /\ p \in DOMAIN Prefixes /\ p \in Nat /\ t \in Keys \cup {0} /\ ko.pc = "LIST"
      /\ t \in Nat /\ k \in Nat /\ k # 0
  <2>1. p \in DOMAIN Prefixes /\ ko.pc = "LIST"
        BY ListPageCases
  <2>2. t \in Keys \cup {0}
        BY Parts DEF Worker
  <2> HIDE DEF p, t
  <2>3. p \in Nat
        BY <2>1, Constants
  <2>4. t \in Nat /\ k \in Nat /\ k # 0
        BY <2>2, Constants
  <2>. QED BY <2>1, <2>2, <2>3, <2>4
<1>2. PICK i \in DOMAIN Prefixes :
            k \in Prefixes[i] /\ (i < PagePrefix \/ (i = PagePrefix /\ k <= PageToken))
      BY DEF Done
<1>3. i \in Nat
      BY Constants
<1>4. /\ Page(p, t) \subseteq After(p, t)
      /\ Page(p, t) # After(p, t) =>
            PageToken \in Keys /\ \A x \in After(p, t) : x <= PageToken => x \in Page(p, t)
      /\ Page(p, t) = After(p, t) => PageToken = 0
      BY <1>1, PagesOf DEF PageToken
<1>5. k \in Done(p, t) => Known(k) \/ ko.rows[k] # 0
      BY <1>1 DEF HeldIsKnown
<1>6. k \in Page(p, t) => PageRows[k] # 0
      BY DEF PageRows, Due
<1>7. k \notin Page(p, t) => PageRows[k] = ko.rows[k]
      BY DEF PageRows
<1>8. k \in After(p, t) <=> k \in Prefixes[p] /\ k > t
      BY DEF After, Due
<1> HIDE DEF p, t
<1>9. i < p \/ (i = p /\ k <= t) => k \in Done(p, t)
      BY <1>2 DEF Done
<1>10. i = p /\ k > t => k \in Page(p, t)
  <2>. SUFFICES ASSUME i = p, k > t PROVE k \in Page(p, t)
       OBVIOUS
  <2>1. k \in After(p, t)
        BY <1>2, <1>8
  <2>2. CASE Page(p, t) = After(p, t)
        BY <2>1, <2>2
  <2>3. CASE Page(p, t) # After(p, t)
    <3>1. PageToken # 0
          BY <1>4, <2>3, Constants
    <3>2. PagePrefix = p
          BY <3>1 DEF PagePrefix, p
    <3>3. k <= PageToken
          BY <1>1, <1>2, <3>2
    <3>. QED BY <1>4, <2>1, <2>3, <3>3
  <2>. QED BY <2>2, <2>3
<1>11. i < p \/ i = p
  <2>1. CASE PageToken = 0
    <3>1. PagePrefix = p + 1
          BY <2>1 DEF PagePrefix, p
    <3>2. ~(k <= PageToken)
          BY <1>1, <2>1
    <3>. QED BY <1>1, <1>2, <1>3, <3>1, <3>2
  <2>2. CASE PageToken # 0
    <3>1. PagePrefix = p
          BY <2>2 DEF PagePrefix, p
    <3>. QED BY <1>2, <3>1
  <2>. QED BY <2>1, <2>2
<1>12. k <= t \/ k > t
      BY <1>1
<1>. QED BY <1>5, <1>6, <1>7, <1>9, <1>10, <1>11, <1>12

LEMMA ListPageComplete == ASSUME Typed, Held, Complete, KnownKept, ListPage PROVE Complete'
<1>1. /\ ko.pc = "LIST" /\ ko'.token = PageToken /\ ko'.prefix = PagePrefix
      /\ UNCHANGED <<job, bucket, touched>> /\ PageRows \in Rows
      /\ \/ /\ Absorb(PageRows, job.merge)
            /\ source' = [source EXCEPT !.token = PageToken, !.prefix = PagePrefix]
         \/ UNCHANGED source /\ ko'.rows = PageRows
      BY ListPageCases
<1>2. DueKept
      BY <1>1, DueStays
<1>3. \A k \in Keys : Due(k) /\ k \in Done(PagePrefix, PageToken) => Known(k) \/ PageRows[k] # 0
      BY PageCovers DEF Complete
<1>4. ReadIsKnown' /\ (AllKnown => AllKnown')
  <2>1. job.mode = "LIST"
        BY <1>1 DEF Held
  <2>. QED BY <1>1, <1>2, <2>1 DEF ReadIsKnown, AllKnown, DueKept, KnownKept
<1>5. CASE /\ Absorb(PageRows, job.merge)
           /\ source' = [source EXCEPT !.token = PageToken, !.prefix = PagePrefix]
  <2>1. \A k \in Keys : Known(k) \/ PageRows[k] # 0 => Known(k)'
        BY <1>1, <1>5, AbsorbRows, Parts DEF Known, Job
  <2>2. source'.token = PageToken /\ source'.prefix = PagePrefix /\ source'.status = source.status
        BY <1>5, Parts DEF Source
  <2>3. DoneIsKnown' /\ HeldIsKnown'
        BY <1>1, <1>2, <1>3, <2>1, <2>2 DEF DoneIsKnown, HeldIsKnown, DueKept
  <2>. QED BY <1>4, <2>2, <2>3 DEF Complete
<1>6. CASE UNCHANGED source /\ ko'.rows = PageRows
  <2>1. DoneIsKnown'
        BY <1>2, <1>6 DEF Complete, DoneIsKnown, DueKept, KnownKept
  <2>2. HeldIsKnown'
        BY <1>1, <1>2, <1>3, <1>6 DEF HeldIsKnown, DueKept, KnownKept
  <2>. QED BY <1>4, <1>6, <2>1, <2>2 DEF Complete
<1>. QED BY <1>1, <1>5, <1>6

LEMMA ListedAreKnown ==
    ASSUME Typed, Held, Complete, ko.pc = "LIST", ko.prefix > Len(Prefixes)
    PROVE  AllKnown
<1>1. ko.rows = None
      BY DEF Held
<1>2. ASSUME NEW k \in Keys, Due(k) PROVE Known(k)
  <2>1. PICK i \in DOMAIN Prefixes : k \in Prefixes[i]
        BY <1>2 DEF Due, Scope
  <2>2. i < ko.prefix
        BY Constants, Parts DEF Worker
  <2>3. k \in Done(ko.prefix, ko.token)
        BY <2>1, <2>2 DEF Done
  <2>. QED BY <1>1, <1>2, <2>3, NoneType DEF Complete, HeldIsKnown
<1>. QED BY <1>2 DEF AllKnown

\* What the inventory files of the source bucket hold: every key in scope.
ListedWhole == \A k \in Scope : \E i \in DOMAIN Shards : \E j \in DOMAIN Shards[i] : Shards[i][j] = k

LEMMA ImportChunkComplete == ASSUME Typed, Held, Complete, KnownKept, ImportChunk PROVE Complete'
<1>1. /\ ChunkOf \in Rows /\ job.file \in DOMAIN Shards /\ job.rows \in Nat /\ ChunkEnd \in Nat
      /\ ko.pc = "MANIFEST" /\ Absorb(ChunkOf, job.merge) /\ job' = [job EXCEPT !.rows = ChunkEnd]
      /\ UNCHANGED <<source, bucket, ko, touched>>
      BY ImportChunkCases
<1>2. /\ job'.mode = "MANIFEST" /\ job'.mode = job.mode /\ job'.state = job.state
      /\ job'.file = job.file /\ job'.rows = ChunkEnd /\ job'.manifest = job.manifest
      BY <1>1, Parts DEF Job, Held
<1>3. DueKept
      BY <1>1, DueStays
<1>4. \A k \in Keys : Known(k) \/ ChunkOf[k] # 0 => Known(k)'
      BY <1>1, AbsorbRows, Parts DEF Known, Job
<1>5. DoneIsKnown' /\ HeldIsKnown' /\ (AllKnown => AllKnown')
      BY <1>1, <1>3 DEF Complete, DoneIsKnown, HeldIsKnown, AllKnown, DueKept, KnownKept
<1>6. ReadIsKnown'
  <2>. SUFFICES ASSUME Active, NEW k \in Keys, Due(k)'
                PROVE  /\ (Known(k) \/ job.manifest[k] # 0)'
                       /\ k \in Read(job.file, ChunkEnd) => Known(k)'
       BY <1>2 DEF ReadIsKnown, Active
  <2>1. Due(k) /\ k \in Scope
        BY <1>3 DEF DueKept, Due
  <2>2. Known(k) \/ job.manifest[k] # 0
        BY <1>2, <2>1 DEF Complete, ReadIsKnown
  <2>3. k \in Read(job.file, job.rows) => Known(k)
        BY <1>2, <2>1 DEF Complete, ReadIsKnown
  <2>4. (Known(k) \/ job.manifest[k] # 0)'
        BY <1>2, <1>4, <2>2
  <2>5. ASSUME k \in Read(job.file, ChunkEnd) PROVE Known(k)'
    <3>1. PICK i \in DOMAIN Shards : \E j \in DOMAIN Shards[i] :
                  Shards[i][j] = k /\ (i < job.file \/ (i = job.file /\ j <= ChunkEnd))
          BY <2>5 DEF Read
    <3>2. PICK j \in DOMAIN Shards[i] :
                  Shards[i][j] = k /\ (i < job.file \/ (i = job.file /\ j <= ChunkEnd))
          BY <3>1
    <3>3. j \in Nat
          BY Constants, ShardRows
    <3>4. CASE i < job.file \/ j <= job.rows
      <4>1. k \in Read(job.file, job.rows)
            BY <3>2, <3>4 DEF Read
      <4>. QED BY <1>4, <2>3, <4>1
    <3>5. CASE i = job.file /\ job.rows < j
      <4>1. j \in (job.rows + 1)..ChunkEnd
        <5>1. job.file \in Nat
              BY <1>1, Constants, ShardRows
        <5>2. j <= ChunkEnd
              BY <3>2, <3>5, <5>1
        <5>3. job.rows + 1 <= j
              BY <1>1, <3>3, <3>5
        <5>. QED BY <1>1, <3>3, <5>2, <5>3
      <4>2. k \in Chunk
            BY <2>1, <3>2, <3>5, <4>1 DEF Chunk
      <4>3. ChunkOf[k] = job.manifest[k]
            BY <4>2 DEF ChunkOf
      <4>. QED BY <1>4, <2>2, <4>3
    <3>. QED BY <1>1, <3>2, <3>3, <3>4, <3>5
  <2>. QED BY <2>4, <2>5
<1>. QED BY <1>1, <1>5, <1>6 DEF Complete

LEMMA NextShardComplete == ASSUME Typed, Held, Complete, KnownKept, NextShard PROVE Complete'
<1>1. /\ job.file \in 1..Len(Shards) /\ job.rows \in Nat /\ job.rows >= Len(Shards[job.file])
      /\ job' = [job EXCEPT !.file = job.file + 1, !.rows = 0]
      /\ UNCHANGED <<source, inventory, bucket, ko, touched>>
      BY Constants, ShardRows, Parts DEF NextShard, Job
<1>2. /\ job'.mode = job.mode /\ job'.state = job.state /\ job'.manifest = job.manifest
      /\ job'.file = job.file + 1 /\ job'.rows = 0
      BY <1>1, Parts DEF Job
<1>3. \A k \in Keys : k \in Read(job.file + 1, 0) => k \in Read(job.file, job.rows)
  <2>. SUFFICES ASSUME NEW k \in Keys, NEW i \in DOMAIN Shards, NEW j \in DOMAIN Shards[i],
                       Shards[i][j] = k, i < job.file + 1 \/ (i = job.file + 1 /\ j <= 0)
                PROVE  k \in Read(job.file, job.rows)
       BY DEF Read
  <2>1. /\ i \in Nat /\ j \in Nat /\ j > 0 /\ job.file \in Nat
        /\ j <= Len(Shards[i]) /\ Len(Shards[i]) \in Nat
        BY <1>1, Constants, ShardRows
  <2>2. i < job.file \/ i = job.file
        BY <2>1
  <2>3. i = job.file => j <= job.rows
        BY <1>1, <2>1
  <2>. QED BY <2>2, <2>3 DEF Read
<1>4. DueKept
      BY <1>1, DueStays
<1>5. ReadIsKnown'
      BY <1>1, <1>2, <1>3, <1>4 DEF Complete, ReadIsKnown, Active, DueKept, Known
<1>. QED BY <1>1, <1>4, <1>5 DEF Complete, DoneIsKnown, HeldIsKnown, AllKnown, DueKept, KnownKept

LEMMA ReadAreKnown ==
    ASSUME ListedWhole, Typed, Held, Complete, ko.pc = "MANIFEST", job.file > Len(Shards)
    PROVE  AllKnown
<1>1. job.mode = "MANIFEST" /\ Active
      BY DEF Held, Active
<1>2. ASSUME NEW k \in Keys, Due(k) PROVE Known(k)
  <2>1. PICK i \in DOMAIN Shards : \E j \in DOMAIN Shards[i] : Shards[i][j] = k
        BY <1>2 DEF Due, ListedWhole
  <2>2. i < job.file
        BY Constants, Parts DEF Job
  <2>3. k \in Read(job.file, job.rows)
        BY <2>1, <2>2 DEF Read
  <2>. QED BY <1>1, <1>2, <2>3 DEF Complete, ReadIsKnown
<1>. QED BY <1>2 DEF AllKnown

LEMMA WorkerComplete ==
    ASSUME ListedWhole, Typed, Held, Complete, KnownKept,
           Recover \/ ClaimJob \/ Ineligible \/ Begin \/ FinishListing \/ FinishImport
              \/ DiscoveryFails \/ Crash
    PROVE  Complete'
<1>1. UNCHANGED <<inventory, bucket, touched>>
      BY DEF Recover, ClaimJob, Ineligible, Begin, FinishListing, FinishImport, DiscoveryFails, Crash
<1>2. DueKept
      BY <1>1, DueStays
<1>3. CASE FinishListing \/ FinishImport
  <2>1. AllKnown
        BY <1>3, ListedAreKnown, ReadAreKnown DEF FinishListing, FinishImport
  <2>2. AllKnown'
        BY <1>2, <2>1 DEF AllKnown, DueKept, KnownKept
  <2>. QED BY <2>2 DEF AllKnown, Complete, DoneIsKnown, HeldIsKnown, ReadIsKnown
<1>4. CASE Recover \/ ClaimJob \/ Ineligible \/ DiscoveryFails \/ Crash
  <2>1. ko'.pc # "LIST"
    <3>1. CASE Recover
          BY <3>1 DEF Recover
    <3>2. CASE ClaimJob
          BY <3>2 DEF ClaimJob, Idle
    <3>3. CASE Ineligible \/ DiscoveryFails \/ Crash
          BY <3>3, IdleType DEF Ineligible, DiscoveryFails, Crash
    <3>. QED BY <1>4, <3>1, <3>2, <3>3
  <2>2. /\ source'.prefix = source.prefix /\ source'.token = source.token
        /\ source'.status = "DISCOVERED" => source.status = "DISCOVERED"
        BY <1>4, Parts DEF Recover, ClaimJob, Ineligible, DiscoveryFails, Crash, Source
  <2>3. \/ UNCHANGED job
        \/ job'.state = "FAILED"
        \/ /\ Active /\ job'.mode = job.mode /\ job'.file = job.file /\ job'.rows = job.rows
           /\ job'.manifest = job.manifest
        \/ job'.mode = "LIST"
        BY <1>4, Parts DEF Recover, ClaimJob, Ineligible, DiscoveryFails, Crash, Job, Active, NewJob
  <2>4. ReadIsKnown'
        BY <1>1, <1>2, <2>3 DEF Complete, ReadIsKnown, Active, DueKept, Known
  <2>5. DoneIsKnown' /\ HeldIsKnown' /\ (AllKnown => AllKnown')
        BY <1>1, <1>2, <2>1, <2>2 DEF Complete, DoneIsKnown, HeldIsKnown, AllKnown, DueKept, Known
  <2>. QED BY <2>2, <2>4, <2>5 DEF Complete
<1>5. CASE Begin
  <2> DEFINE w == [Idle EXCEPT !.pc = job.mode, !.token = source.token, !.prefix = source.prefix]
  <2>1. ko' = w /\ UNCHANGED job
        BY <1>5 DEF Begin
  <2>2. w.token = source.token /\ w.prefix = source.prefix
        BY DEF Idle
  <2>3. source'.prefix = source.prefix /\ source'.token = source.token /\ source'.status = "DISCOVERING"
        BY <1>5, Parts DEF Begin, Source
  <2> HIDE DEF w
  <2>4. DoneIsKnown' /\ HeldIsKnown'
        BY <1>1, <1>2, <2>1, <2>2, <2>3 DEF Complete, DoneIsKnown, HeldIsKnown, DueKept, Known
  <2>5. ReadIsKnown'
        BY <1>1, <1>2, <2>1 DEF Complete, ReadIsKnown, Active, DueKept, Known
  <2>. QED BY <2>3, <2>4, <2>5 DEF Complete
<1>. QED BY <1>3, <1>4, <1>5

LEMMA UseDue == ASSUME Use PROVE DueKept /\ UNCHANGED <<source, job, ko>>
<1>1. CASE AssignWave \/ DeleteWave \/ Migrate \/ ValidateDestination \/ ReprocessModified
  <2>1. UNCHANGED <<bucket, touched, source, job, ko>>
        BY <1>1 DEF AssignWave, DeleteWave, Migrate, ValidateDestination, ReprocessModified
  <2>. QED BY <2>1, DueStays
<1>2. ASSUME NEW k \in Scope, NEW rev \in Revs, WriteObject(k, rev)
      PROVE  DueKept /\ UNCHANGED <<source, job, ko>>
  <2>1. /\ bucket' = [bucket EXCEPT ![k] = rev] /\ touched' = touched \cup {k}
        /\ UNCHANGED <<source, job, ko>>
        BY <1>2 DEF WriteObject
  <2>2. \A x \in Keys : x # k => bucket'[x] = bucket[x]
        BY <2>1
  <2>. QED BY <2>1, <2>2 DEF DueKept, Due
<1>. QED BY <1>1, <1>2 DEF Use

LEMMA CompleteStep ==
    ASSUME ListedWhole, Typed, Held, Complete, [Next]_vars
    PROVE  Complete'
<1>1. KnownKept
      BY KnownStays
<1>2. CASE UNCHANGED vars
  <2>1. DueKept
        BY <1>2 DEF vars, DueKept, Due
  <2>. QED BY <1>1, <1>2, <2>1, FrameComplete DEF vars
<1>3. CASE Ask
      BY <1>1, <1>3, QueueComplete DEF Ask
<1>4. CASE Import
  <2>1. ASSUME NEW k \in Keys, ImportItem(k) PROVE Complete'
    <3>1. UNCHANGED <<bucket, touched, source, job, ko>>
          BY <2>1 DEF ImportItem
    <3>. QED BY <1>1, <3>1, DueStays, FrameComplete
  <2>. QED BY <1>4, <2>1, UploadComplete DEF Import
<1>5. CASE Work \/ DiscoveryFails \/ Crash
      BY <1>1, <1>5, WorkerComplete, ListPageComplete, ImportChunkComplete, NextShardComplete DEF Work
<1>6. CASE Use
      BY <1>1, <1>6, UseDue, FrameComplete
<1>. QED BY <1>2, <1>3, <1>4, <1>5, <1>6 DEF Next

\* A source is DISCOVERED only when every key that was in its scope all along
\* has a row, whatever deaths, errors and resumptions its discovery had,
\* provided that the files of an inventory manifest list the whole scope.
THEOREM DiscoveredIsWhole == ASSUME ListedWhole PROVE Spec => []InventoryIsComplete
<1> DEFINE IInv == Typed /\ Held /\ Complete
<1>1. Init => IInv
      BY InitTyped, InitHeld, InitComplete
<1>2. IInv /\ [Next]_vars => IInv'
      BY NextTyped, HeldStep, CompleteStep
<1>3. IInv => InventoryIsComplete
  <2>1. \A k \in Scope : k \in Keys
        BY Constants DEF Scope
  <2>. QED BY <2>1 DEF Complete, AllKnown, Due, Known, InventoryIsComplete
<1> HIDE DEF IInv
<1>. QED BY <1>1, <1>2, <1>3, PTL DEF Spec

-----------------------------------------------------------------------------
(* No key twice *)

\* No key twice in the inventory files of the source bucket.
ListedOnce ==
    \A i, x \in DOMAIN Shards : \A j \in DOMAIN Shards[i], y \in DOMAIN Shards[x] :
        Shards[i][j] = Shards[x][y] => i = x /\ j = y

LoneRows == \A k \in Keys : Lone(inventory[k])
\* While a plain insertion is under way or may be resumed, the keys that have
\* rows are those it has behind it.
InsertedBehind ==
    Inserting => \A k \in Keys : Known(k) =>
        IF job.mode = "LIST" THEN k \in Done(source.prefix, source.token)
        ELSE k \in Read(job.file, job.rows)
NativeJob ==
    ~mixed.foreign => ~job.merge /\ (job.mode = "MANIFEST" => source.token = 0 /\ source.prefix = 1)
\* The rows that the worker holds are between its committed cursor and its own.
Ahead(k) == k \in Prefixes[ko.prefix] /\ source.token < k /\ k <= ko.token
BatchIsAhead ==
    ko.pc = "LIST" /\ ~job.merge =>
        /\ source.prefix = ko.prefix /\ source.token <= ko.token
        /\ \A k \in Keys : ko.rows[k] # 0 => Ahead(k)

Once == ~mixed.inserts => LoneRows /\ InsertedBehind /\ NativeJob /\ BatchIsAhead

OldKeys == \A k \in Keys : Known(k)' => Known(k)
StaysLone == \A k \in Keys : Lone(inventory[k]) => Lone(inventory[k])'

LEMMA InitOnce == Init => Once
<1> SUFFICES ASSUME Init PROVE Once
    OBVIOUS
<1>1. LoneRows
      BY DEF Init, LoneRows, Lone, LiveRows
<1>2. ko.pc = "idle" /\ job.mode = "LIST" /\ ~job.merge /\ \A k \in Keys : ~Known(k)
      BY IdleType DEF Init, NewJob, Known
<1>. QED BY <1>1, <1>2 DEF Once, InsertedBehind, NativeJob, BatchIsAhead

LEMMA QueueOnce ==
    ASSUME Typed, Held, Once, NEW mode \in {"LIST", "MANIFEST"}, NEW merge \in BOOLEAN,
           QueueDiscovery(mode, merge)
    PROVE  Once'
<1> SUFFICES ASSUME ~mixed'.inserts PROVE (LoneRows /\ InsertedBehind /\ NativeJob /\ BatchIsAhead)'
    BY DEF Once
<1> DEFINE resume == Resumes(mode, merge)
<1>1. /\ ko.pc = "idle" /\ UNCHANGED <<ko, inventory>>
      /\ source'.status = "DISCOVERY_QUEUED"
      /\ source'.prefix = (IF resume THEN source.prefix ELSE 1)
      /\ source'.token = (IF resume THEN source.token ELSE 0)
      /\ merge \/ resume \/ ~HasRows
      BY Parts DEF QueueDiscovery, Active, Held, Worker
<1>2. job'.mode = mode /\ job'.merge = merge
      BY DEF QueueDiscovery, NewJob
<1>3. /\ ~mixed.inserts
      /\ resume => ~mixed.foreign /\ mixed'.foreign = mixed.foreign
      /\ ~resume /\ merge => mixed'.foreign
  <2>1. mixed' = IF resume THEN [mixed EXCEPT !.inserts = mixed.inserts \/ mixed.foreign]
                 ELSE IF merge THEN [mixed EXCEPT !.foreign = TRUE] ELSE mixed
        BY DEF QueueDiscovery
  <2>2. mixed \in Mixed
        BY Parts
  <2> HIDE DEF resume
  <2>3. CASE resume
    <3>1. mixed'.inserts = (mixed.inserts \/ mixed.foreign) /\ mixed'.foreign = mixed.foreign
          BY <2>1, <2>2, <2>3 DEF Mixed
    <3>. QED BY <2>3, <3>1
  <2>4. CASE ~resume /\ merge
    <3>1. mixed'.inserts = mixed.inserts /\ mixed'.foreign = TRUE
          BY <2>1, <2>2, <2>4 DEF Mixed
    <3>. QED BY <2>4, <3>1
  <2>5. CASE ~resume /\ ~merge
        BY <2>1, <2>5
  <2>. QED BY <2>3, <2>4, <2>5
<1>4. LoneRows /\ InsertedBehind /\ NativeJob
      BY <1>3 DEF Once
<1>5. resume => /\ ~merge /\ mode = "LIST" /\ source.status = "DISCOVERY_FAILED"
                /\ (source.token # 0 \/ source.prefix # 1)
      BY DEF Resumes
<1> HIDE DEF resume
<1>6. LoneRows' /\ BatchIsAhead'
      BY <1>1, <1>4 DEF LoneRows, BatchIsAhead
<1>7. InsertedBehind'
  <2>1. CASE merge
        BY <1>2, <2>1 DEF InsertedBehind, Inserting
  <2>2. CASE ~merge /\ ~resume
    <3>1. \A k \in Keys : ~Known(k)'
          BY <1>1, <2>2 DEF HasRows, Known
    <3>. QED BY <3>1 DEF InsertedBehind
  <2>3. CASE resume
    <3>1. Inserting /\ job.mode # "MANIFEST"
          BY <1>3, <1>4, <1>5, <2>3 DEF NativeJob, Inserting
    <3>2. job.mode = "LIST"
          BY <3>1, Parts DEF Job
    <3>. QED BY <1>1, <1>2, <1>4, <1>5, <2>3, <3>1, <3>2 DEF InsertedBehind, Known
  <2>. QED BY <2>1, <2>2, <2>3
<1>8. NativeJob'
      BY <1>1, <1>2, <1>3, <1>5 DEF NativeJob
<1>. QED BY <1>6, <1>7, <1>8

\* Inventories given from outside, while no plain insertion is under way.
LEMMA ForeignOnce ==
    ASSUME Typed, Held, Once, Foreign, UNCHANGED <<job, ko>>,
           source'.status = "DISCOVERED" \/ UNCHANGED source,
           LoneRows => LoneRows'
    PROVE  Once'
<1> SUFFICES ASSUME ~mixed'.inserts PROVE (LoneRows /\ InsertedBehind /\ NativeJob /\ BatchIsAhead)'
    BY DEF Once
<1>1. ~mixed.inserts /\ ~Inserting /\ mixed'.foreign
      BY DEF Foreign
<1>2. LoneRows'
      BY <1>1 DEF Once
<1>3. ~Inserting'
      BY <1>1 DEF Inserting, Active
<1>4. ko.pc = "LIST" => job.merge
      BY <1>1 DEF Held, Inserting, Active
<1>. QED BY <1>1, <1>2, <1>3, <1>4 DEF InsertedBehind, NativeJob, BatchIsAhead

LEMMA UploadOnce == ASSUME Typed, Held, Once, NEW merge \in BOOLEAN, UploadInventory(merge) PROVE Once'
<1>1. ScopeRows \in Rows
      BY Parts DEF ScopeRows, Rows, Revision
<1>2. Absorb(ScopeRows, merge)
      BY DEF UploadInventory, ScopeRows
<1>3. merge \/ ~HasRows
      BY DEF UploadInventory
<1>4. \A k \in Keys : Lone(inventory[k]) => Lone(inventory'[k])
      BY <1>1, <1>2, <1>3, AbsorbRows DEF HasRows
<1>5. Foreign /\ UNCHANGED <<job, ko>> /\ source'.status = "DISCOVERED"
      BY Parts DEF UploadInventory, Source
<1>. QED BY <1>4, <1>5, ForeignOnce DEF LoneRows

LEMMA ImportItemOnce == ASSUME Typed, Held, Once, NEW k \in Keys, ImportItem(k) PROVE Once'
<1>1. Foreign /\ UNCHANGED <<source, job, ko>>
      BY DEF ImportItem
<1>2. LoneRows => LoneRows'
      BY ImportItemRows DEF LoneRows
<1>. QED BY <1>1, <1>2, ForeignOnce

-----------------------------------------------------------------------------
\* Steps that bring no key and leave the cursor.
LEMMA FrameOnce ==
    ASSUME Once, OldKeys, StaysLone, UNCHANGED mixed,
           source'.prefix = source.prefix, source'.token = source.token,
           job'.merge = job.merge, job'.mode = job.mode, job'.file = job.file, job'.rows = job.rows,
           Inserting' => Inserting,
           ko' = ko \/ ko'.pc # "LIST"
    PROVE  Once'
<1> SUFFICES ASSUME ~mixed.inserts PROVE (LoneRows /\ InsertedBehind /\ NativeJob /\ BatchIsAhead)'
    BY DEF Once
<1>1. LoneRows /\ InsertedBehind /\ NativeJob /\ BatchIsAhead
      BY DEF Once
<1>2. LoneRows' /\ InsertedBehind'
      BY <1>1 DEF LoneRows, InsertedBehind, OldKeys, StaysLone
<1>3. NativeJob'
      BY <1>1 DEF NativeJob
<1>4. BatchIsAhead'
      BY <1>1 DEF BatchIsAhead, Ahead
<1>. QED BY <1>2, <1>3, <1>4

LEMMA SameKeys == ASSUME UNCHANGED inventory PROVE OldKeys /\ StaysLone
    BY DEF OldKeys, StaysLone, Known

LEMMA UseOnce == ASSUME Typed, Once, Use PROVE Once'
<1>1. OldKeys /\ StaysLone
  <2>1. CASE AssignWave \/ DeleteWave \/ Migrate \/ ValidateDestination
        BY <2>1, SetRowsRows, Parts DEF AssignWave, DeleteWave, Migrate, ValidateDestination,
                                        OldKeys, StaysLone, Known
  <2>2. CASE ReprocessModified
        BY <2>2, SuccessorRows DEF ReprocessModified, OldKeys, StaysLone, Known
  <2>3. CASE \E k \in Scope, rev \in Revs : WriteObject(k, rev)
        BY <2>3, SameKeys DEF WriteObject
  <2>. QED BY <2>1, <2>2, <2>3 DEF Use
<1>2. UNCHANGED <<source, job, ko, mixed>>
      BY DEF Use, AssignWave, DeleteWave, Migrate, ValidateDestination, ReprocessModified, WriteObject
<1>3. Inserting' => Inserting
      BY <1>2 DEF Inserting, Active
<1>. QED BY <1>1, <1>2, <1>3, FrameOnce

LEMMA WorkerOnce ==
    ASSUME Typed, Held, Once,
           Recover \/ ClaimJob \/ Ineligible \/ DiscoveryFails \/ Crash \/ FinishImport
    PROVE  Once'
<1>1. OldKeys /\ StaysLone /\ UNCHANGED mixed
  <2>1. UNCHANGED <<inventory, mixed>>
        BY DEF Recover, ClaimJob, Ineligible, DiscoveryFails, Crash, FinishImport
  <2>. QED BY <2>1, SameKeys
<1>2. source'.prefix = source.prefix /\ source'.token = source.token
      BY Parts DEF Recover, ClaimJob, Ineligible, DiscoveryFails, Crash, FinishImport, Source
<1>3. job.state = "RUNNING" /\ Recover => job' = [job EXCEPT !.state = "READY"]
      BY DEF Recover
<1>4. Recover => job.state = "RUNNING"
      BY DEF Recover, Held
<1>5. job'.merge = job.merge /\ job'.mode = job.mode /\ job'.file = job.file /\ job'.rows = job.rows
      BY <1>3, <1>4, Parts DEF Recover, ClaimJob, Ineligible, DiscoveryFails, Crash, FinishImport, Job
<1>6. Inserting' => Inserting
  <2>1. CASE Recover \/ ClaimJob
    <3>1. Active
          BY <1>4, <2>1 DEF ClaimJob, Active
    <3>. QED BY <1>5, <3>1 DEF Inserting
  <2>2. CASE Ineligible \/ Crash
    <3>1. source' = source /\ (Active' => Active)
          BY <2>2, Parts DEF Ineligible, Crash, Active, Job
    <3>. QED BY <1>5, <3>1 DEF Inserting
  <2>3. CASE DiscoveryFails \/ FinishImport
    <3>1. Active
          BY <2>3 DEF DiscoveryFails, FinishImport, Held, Active
    <3>. QED BY <1>5, <3>1 DEF Inserting
  <2>. QED BY <2>1, <2>2, <2>3
<1>7. ko' = ko \/ ko'.pc # "LIST"
  <2>1. CASE ClaimJob
        BY <2>1 DEF ClaimJob, Idle
  <2>2. CASE Recover \/ Ineligible \/ DiscoveryFails \/ Crash \/ FinishImport
        BY <2>2, IdleType DEF Recover, Ineligible, DiscoveryFails, Crash, FinishImport
  <2>. QED BY <2>1, <2>2
<1>. QED BY <1>1, <1>2, <1>5, <1>6, <1>7, FrameOnce

LEMMA FinishListingOnce == ASSUME Typed, Held, Once, FinishListing PROVE Once'
<1> SUFFICES ASSUME ~mixed'.inserts PROVE (LoneRows /\ InsertedBehind /\ NativeJob /\ BatchIsAhead)'
    BY DEF Once
<1>1. /\ UNCHANGED <<inventory, mixed>> /\ ko' = Idle
      /\ source'.status = "DISCOVERED" /\ job' = [job EXCEPT !.state = "SUCCEEDED"] /\ job.mode = "LIST"
      BY DEF FinishListing, Held
<1>2. job'.state = "SUCCEEDED" /\ job'.merge = job.merge /\ job'.mode = "LIST"
      BY <1>1, Parts DEF Job
<1>3. LoneRows /\ NativeJob
      BY <1>1 DEF Once
<1>. QED BY <1>1, <1>2, <1>3, IdleType DEF LoneRows, InsertedBehind, NativeJob, BatchIsAhead,
                                           Inserting, Active

LEMMA BeginOnce == ASSUME Typed, Held, Once, Begin PROVE Once'
<1> SUFFICES ASSUME ~mixed'.inserts PROVE (LoneRows /\ InsertedBehind /\ NativeJob /\ BatchIsAhead)'
    BY DEF Once
<1> DEFINE w == [Idle EXCEPT !.pc = job.mode, !.token = source.token, !.prefix = source.prefix]
<1>1. ko' = w /\ UNCHANGED <<job, inventory, mixed>> /\ Active
      BY DEF Begin, Held, Active
<1>2. w.token = source.token /\ w.prefix = source.prefix /\ w.rows = None
      BY DEF Idle
<1>3. source'.prefix = source.prefix /\ source'.token = source.token /\ source.token \in Nat
      BY Parts, Constants DEF Begin, Source
<1>4. LoneRows /\ InsertedBehind /\ NativeJob
      BY <1>1 DEF Once
<1> HIDE DEF w
<1>5. LoneRows' /\ InsertedBehind' /\ NativeJob'
      BY <1>1, <1>3, <1>4 DEF LoneRows, InsertedBehind, NativeJob, Inserting, Known
<1>6. BatchIsAhead'
      BY <1>1, <1>2, <1>3, NoneType DEF BatchIsAhead
<1>. QED BY <1>5, <1>6

LEMMA NextShardOnce == ASSUME Typed, Once, NextShard PROVE Once'
<1> SUFFICES ASSUME ~mixed'.inserts PROVE (LoneRows /\ InsertedBehind /\ NativeJob /\ BatchIsAhead)'
    BY DEF Once
<1>1. /\ job.file \in Nat /\ job' = [job EXCEPT !.file = job.file + 1, !.rows = 0]
      /\ UNCHANGED <<source, inventory, ko, mixed>> /\ ko.pc = "MANIFEST"
      BY Constants, Parts DEF NextShard, Job
<1>2. /\ job'.mode = job.mode /\ job'.state = job.state /\ job'.merge = job.merge
      /\ job'.file = job.file + 1 /\ job'.rows = 0
      BY <1>1, Parts DEF Job
<1>3. \A i \in DOMAIN Shards : i < job.file \/ i = job.file => i < job.file + 1
      BY <1>1, Constants
<1>4. \A k \in Keys : k \in Read(job.file, job.rows) => k \in Read(job.file + 1, 0)
      BY <1>3 DEF Read
<1>5. LoneRows /\ InsertedBehind /\ NativeJob
      BY <1>1 DEF Once
<1>6. LoneRows' /\ NativeJob' /\ BatchIsAhead'
      BY <1>1, <1>2, <1>5 DEF LoneRows, NativeJob, BatchIsAhead
<1>7. InsertedBehind'
      BY <1>1, <1>2, <1>4, <1>5 DEF InsertedBehind, Inserting, Active, Known
<1>. QED BY <1>6, <1>7

\* The keys of a chunk are past those that the import has read.
LEMMA ChunkIsNew ==
    ASSUME ListedOnce, Typed, ImportChunk, NEW k \in Keys, ChunkOf[k] # 0
    PROVE  k \notin Read(job.file, job.rows) /\ k \in Read(job.file, ChunkEnd)
<1>1. /\ job.file \in DOMAIN Shards /\ job.file \in Nat /\ job.rows \in Nat
      /\ ChunkEnd \in Nat /\ ChunkEnd <= Len(Shards[job.file])
      BY ImportChunkCases, Constants, ShardRows
<1>2. k \in Chunk
      BY DEF ChunkOf
<1>3. PICK j \in (job.rows + 1)..ChunkEnd : Shards[job.file][j] = k
      BY <1>2 DEF Chunk
<1>4. j \in Nat /\ j > job.rows /\ j <= ChunkEnd /\ j \in DOMAIN Shards[job.file]
      BY <1>1, <1>3, Constants, ShardRows
<1>5. k \in Read(job.file, ChunkEnd)
      BY <1>1, <1>3, <1>4 DEF Read
<1>6. ASSUME k \in Read(job.file, job.rows) PROVE FALSE
  <2>1. PICK i \in DOMAIN Shards : \E y \in DOMAIN Shards[i] :
                Shards[i][y] = k /\ (i < job.file \/ (i = job.file /\ y <= job.rows))
        BY <1>6 DEF Read
  <2>2. PICK y \in DOMAIN Shards[i] :
                Shards[i][y] = k /\ (i < job.file \/ (i = job.file /\ y <= job.rows))
        BY <2>1
  <2>3. i = job.file /\ y = j
        BY <1>1, <1>3, <1>4, <2>2 DEF ListedOnce
  <2>. QED BY <1>1, <1>4, <2>2, <2>3
<1>. QED BY <1>5, <1>6

LEMMA ImportChunkOnce == ASSUME ListedOnce, Typed, Held, Once, ImportChunk PROVE Once'
<1> SUFFICES ASSUME ~mixed'.inserts PROVE (LoneRows /\ InsertedBehind /\ NativeJob /\ BatchIsAhead)'
    BY DEF Once
<1>1. /\ ChunkOf \in Rows /\ job.rows \in Nat /\ ChunkEnd \in Nat /\ job.rows < ChunkEnd
      /\ ko.pc = "MANIFEST" /\ Absorb(ChunkOf, job.merge) /\ job' = [job EXCEPT !.rows = ChunkEnd]
      /\ UNCHANGED <<source, ko, mixed>>
      BY ImportChunkCases
<1>2. /\ job.mode = "MANIFEST" /\ job.merge \in BOOLEAN /\ Active
      /\ job'.mode = job.mode /\ job'.state = job.state /\ job'.merge = job.merge
      /\ job'.file = job.file /\ job'.rows = ChunkEnd
      BY <1>1, Parts DEF Job, Held, Active
<1>3. LoneRows /\ InsertedBehind /\ NativeJob
      BY <1>1 DEF Once
<1>4. ~job.merge => \A k \in Keys : Known(k) => k \in Read(job.file, job.rows)
      BY <1>2, <1>3 DEF InsertedBehind, Inserting
<1>5. /\ \A k \in Keys : ChunkOf[k] = 0 => inventory'[k] = inventory[k]
      /\ \A k \in Keys : Lone(inventory[k]) /\ (job.merge \/ inventory[k] = <<>>) => Lone(inventory'[k])
      BY <1>1, <1>2, AbsorbRows
<1>6. \A k \in Keys : ~job.merge /\ ChunkOf[k] # 0 => inventory[k] = <<>>
      BY <1>4, ChunkIsNew DEF Known
<1>7. LoneRows'
      BY <1>3, <1>5, <1>6 DEF LoneRows
<1>8. InsertedBehind'
  <2>1. \A k \in Keys : k \in Read(job.file, job.rows) => k \in Read(job.file, ChunkEnd)
    <3>1. \A i \in DOMAIN Shards : \A j \in DOMAIN Shards[i] : j <= job.rows => j <= ChunkEnd
          BY <1>1, Constants, ShardRows
    <3>. QED BY <3>1 DEF Read
  <2>2. \A k \in Keys : ~job.merge /\ Known(k)' => k \in Read(job.file, ChunkEnd)
        BY <1>4, <1>5, <2>1, ChunkIsNew DEF Known
  <2>. QED BY <1>2, <2>2 DEF InsertedBehind, Inserting
<1>9. NativeJob' /\ BatchIsAhead'
      BY <1>1, <1>2, <1>3 DEF NativeJob, BatchIsAhead
<1>. QED BY <1>7, <1>8, <1>9

LEMMA TokenIsNumber == \A t \in Keys \cup {0} : t \in Nat
    BY KeysAssumption

\* The rows of a batch lie between the committed cursor and the one that the
\* page leaves, and so do not meet the rows that are behind.
LEMMA PageIsAhead ==
    ASSUME Typed, Held, ListPage, BatchIsAhead, ~job.merge, NEW k \in Keys, PageRows[k] # 0
    PROVE  /\ k \in Prefixes[ko.prefix] /\ source.token < k
           /\ PageToken # 0 => k <= PageToken
           /\ k \notin Done(source.prefix, source.token)
           /\ k \in Done(PagePrefix, PageToken)
<1> DEFINE p == ko.prefix
           t == ko.token
<1>1. p \in DOMAIN Prefixes /\ t \in Keys \cup {0} /\ ko.pc = "LIST"
      BY ListPageCases, Parts DEF Worker
<1>2. source.prefix = p /\ source.token <= t /\ source.token \in Nat
  <2>1. source.prefix = p /\ source.token <= t
        BY <1>1 DEF BatchIsAhead
  <2>2. source.token \in Keys \cup {0}
        BY Parts DEF Source
  <2> HIDE DEF p, t
  <2>3. source.token \in Nat
        BY <2>2, TokenIsNumber
  <2>. QED BY <2>1, <2>3
<1>3. ko.rows[k] # 0 => k \in Prefixes[p] /\ source.token < k /\ k <= t
      BY <1>1 DEF BatchIsAhead, Ahead
<1>4. k \in Page(p, t) \/ ko.rows[k] # 0
      BY DEF PageRows
<1>5. /\ Page(p, t) \subseteq After(p, t)
      /\ PageToken # 0 => PageToken \in After(p, t) /\ \A x \in Page(p, t) : x <= PageToken
      BY <1>1, PagesOf DEF PageToken
<1>6. \A x \in After(p, t) : x \in Prefixes[p] /\ x > t
      BY DEF After
<1>7. PagePrefix = IF PageToken = 0 THEN p + 1 ELSE p
      BY DEF PagePrefix
<1>8. \A i, j \in DOMAIN Prefixes : i # j => Prefixes[i] \cap Prefixes[j] = {}
      BY PrefixAssumption
<1> HIDE DEF p, t
<1>9. p \in Nat /\ t \in Nat /\ k \in Nat /\ PageToken \in Nat
      BY <1>1, ListPageCases, Constants
<1>10. k \in Prefixes[p] /\ source.token < k
  <2>1. CASE k \in Page(p, t)
    <3>1. k \in Prefixes[p] /\ k > t
          BY <1>5, <1>6, <2>1
    <3>. QED BY <1>2, <1>9, <3>1
  <2>. QED BY <1>3, <1>4, <2>1
<1>11. PageToken # 0 => k <= PageToken
  <2>. SUFFICES ASSUME PageToken # 0 PROVE k <= PageToken
       OBVIOUS
  <2>1. PageToken > t
        BY <1>5, <1>6
  <2>. QED BY <1>3, <1>4, <1>5, <1>9, <2>1
<1>12. k \notin Done(p, source.token)
  <2>. SUFFICES ASSUME NEW i \in DOMAIN Prefixes, k \in Prefixes[i],
                       i < p \/ (i = p /\ k <= source.token)
                PROVE  FALSE
       BY DEF Done
  <2>1. i = p
        BY <1>1, <1>8, <1>10
  <2>. QED BY <1>2, <1>9, <1>10, <2>1
<1>13. k \in Done(PagePrefix, PageToken)
  <2>1. CASE PageToken = 0
    <3>1. p < PagePrefix
          BY <1>7, <1>9, <2>1
    <3>. QED BY <1>1, <1>10, <3>1 DEF Done
  <2>2. CASE PageToken # 0
    <3>1. p = PagePrefix /\ k <= PageToken
          BY <1>7, <1>11, <2>2
    <3>. QED BY <1>1, <1>10, <3>1 DEF Done
  <2>. QED BY <2>1, <2>2
<1>. QED BY <1>2, <1>10, <1>11, <1>12, <1>13 DEF p

\* The cursor only moves forward.
LEMMA PageGoesOn ==
    ASSUME Typed, ListPage, BatchIsAhead, ~job.merge
    PROVE  /\ PageToken # 0 => PagePrefix = ko.prefix /\ ko.token < PageToken
           /\ \A k \in Keys :
                 k \in Done(source.prefix, source.token) => k \in Done(PagePrefix, PageToken)
<1> DEFINE p == ko.prefix
           t == ko.token
<1>1. p \in DOMAIN Prefixes /\ t \in Keys \cup {0} /\ ko.pc = "LIST"
      BY ListPageCases, Parts DEF Worker
<1>2. source.prefix = p /\ source.token <= t /\ source.token \in Nat
  <2>1. source.prefix = p /\ source.token <= t
        BY <1>1 DEF BatchIsAhead
  <2>2. source.token \in Keys \cup {0}
        BY Parts DEF Source
  <2> HIDE DEF p, t
  <2>3. source.token \in Nat
        BY <2>2, TokenIsNumber
  <2>. QED BY <2>1, <2>3
<1>3. PageToken # 0 => PageToken \in After(p, t)
      BY <1>1, PagesOf DEF PageToken
<1>4. \A x \in After(p, t) : x > t
      BY DEF After
<1>5. PagePrefix = IF PageToken = 0 THEN p + 1 ELSE p
      BY DEF PagePrefix
<1> HIDE DEF p, t
<1>6. p \in Nat /\ t \in Nat /\ PageToken \in Nat
      BY <1>1, ListPageCases, Constants
<1>7. PageToken # 0 => PagePrefix = p /\ t < PageToken
      BY <1>3, <1>4, <1>5
<1>8. ASSUME NEW k \in Keys, k \in Done(p, source.token) PROVE k \in Done(PagePrefix, PageToken)
  <2>1. PICK i \in DOMAIN Prefixes : k \in Prefixes[i] /\ (i < p \/ (i = p /\ k <= source.token))
        BY <1>8 DEF Done
  <2>2. i \in Nat /\ k \in Nat
    <3>1. i \in Nat
          BY Constants
    <3>. QED BY <3>1, TokenIsNumber
  <2>3. i < PagePrefix \/ (i = PagePrefix /\ k <= PageToken)
    <3>1. CASE PageToken = 0
          BY <1>5, <1>6, <2>1, <2>2, <3>1
    <3>2. CASE PageToken # 0
          BY <1>2, <1>6, <1>7, <2>1, <2>2, <3>2
    <3>. QED BY <3>1, <3>2
  <2>. QED BY <2>1, <2>3 DEF Done
<1>. QED BY <1>2, <1>7, <1>8 DEF p, t

LEMMA ListPageOnce == ASSUME Typed, Held, Once, ListPage PROVE Once'
<1> SUFFICES ASSUME ~mixed'.inserts PROVE (LoneRows /\ InsertedBehind /\ NativeJob /\ BatchIsAhead)'
    BY DEF Once
<1>1. /\ ko.pc = "LIST" /\ ko'.token = PageToken /\ ko'.prefix = PagePrefix
      /\ UNCHANGED <<job, mixed>> /\ PageRows \in Rows /\ PageToken \in Keys \cup {0}
      /\ \/ /\ Absorb(PageRows, job.merge) /\ ko'.rows = None
            /\ source' = [source EXCEPT !.token = PageToken, !.prefix = PagePrefix]
         \/ UNCHANGED <<source, inventory>> /\ ko'.rows = PageRows /\ PageToken # 0
      BY ListPageCases
<1>2. job.mode = "LIST" /\ Active /\ job.merge \in BOOLEAN
      BY <1>1, Parts DEF Held, Active, Job
<1>3. LoneRows /\ InsertedBehind /\ NativeJob /\ BatchIsAhead
      BY <1>1 DEF Once
<1>4. NativeJob'
      BY <1>1, <1>2, <1>3 DEF NativeJob
<1>5. CASE /\ Absorb(PageRows, job.merge) /\ ko'.rows = None
           /\ source' = [source EXCEPT !.token = PageToken, !.prefix = PagePrefix]
  <2>1. source'.token = PageToken /\ source'.prefix = PagePrefix
        BY <1>5, Parts DEF Source
  <2>2. /\ \A k \in Keys : PageRows[k] = 0 => inventory'[k] = inventory[k]
        /\ \A k \in Keys :
              Lone(inventory[k]) /\ (job.merge \/ inventory[k] = <<>>) => Lone(inventory'[k])
        BY <1>1, <1>2, <1>5, AbsorbRows
  <2>3. ~job.merge => \A k \in Keys : Known(k) => k \in Done(source.prefix, source.token)
        BY <1>2, <1>3 DEF InsertedBehind, Inserting
  <2>4. \A k \in Keys : ~job.merge /\ PageRows[k] # 0 => inventory[k] = <<>>
        BY <1>3, <2>3, PageIsAhead DEF Known
  <2>5. LoneRows'
        BY <1>3, <2>2, <2>4 DEF LoneRows
  <2>6. InsertedBehind'
    <3>1. \A k \in Keys : ~job.merge /\ Known(k)' => k \in Done(PagePrefix, PageToken)
          BY <1>3, <2>2, <2>3, PageIsAhead, PageGoesOn DEF Known
    <3>. QED BY <1>1, <1>2, <2>1, <3>1 DEF InsertedBehind, Inserting
  <2>7. BatchIsAhead'
    <3>1. PageToken \in Nat
          BY <1>1, Constants
    <3>. QED BY <1>1, <1>5, <2>1, <3>1, NoneType DEF BatchIsAhead
  <2>. QED BY <1>4, <2>5, <2>6, <2>7
<1>6. CASE UNCHANGED <<source, inventory>> /\ ko'.rows = PageRows /\ PageToken # 0
  <2>1. LoneRows' /\ InsertedBehind'
        BY <1>1, <1>3, <1>6 DEF LoneRows, InsertedBehind, Inserting, Active, Known
  <2>2. BatchIsAhead'
    <3>. SUFFICES ASSUME ~job.merge PROVE BatchIsAhead'
         BY <1>1 DEF BatchIsAhead
    <3>1. source.prefix = ko.prefix /\ source.token <= ko.token
          BY <1>1, <1>3 DEF BatchIsAhead
    <3>2. PagePrefix = ko.prefix /\ ko.token < PageToken
          BY <1>3, <1>6, PageGoesOn
    <3>3. source.token \in Nat /\ ko.token \in Nat /\ PageToken \in Nat
      <4>1. source.token \in Keys \cup {0} /\ ko.token \in Keys \cup {0}
            BY Parts DEF Source, Worker
      <4>. QED BY <1>1, <4>1, TokenIsNumber
    <3>4. source.token <= PageToken
          BY <3>1, <3>2, <3>3
    <3>5. \A k \in Keys :
             PageRows[k] # 0 => k \in Prefixes[ko.prefix] /\ source.token < k /\ k <= PageToken
          BY <1>3, <1>6, PageIsAhead
    <3>. QED BY <1>1, <1>6, <3>1, <3>2, <3>4, <3>5 DEF BatchIsAhead, Ahead
  <2>. QED BY <1>4, <2>1, <2>2
<1>. QED BY <1>1, <1>5, <1>6

LEMMA OnceStep == ASSUME ListedOnce, Typed, Held, Once, [Next]_vars PROVE Once'
<1>1. CASE UNCHANGED vars
      BY <1>1 DEF vars, Once, LoneRows, InsertedBehind, Inserting, Active, Known, NativeJob,
                  BatchIsAhead, Ahead
<1>2. CASE Ask
      BY <1>2, QueueOnce DEF Ask
<1>3. CASE Import
      BY <1>3, UploadOnce, ImportItemOnce DEF Import
<1>4. CASE Work \/ DiscoveryFails \/ Crash
      BY <1>4, WorkerOnce, FinishListingOnce, BeginOnce, NextShardOnce, ImportChunkOnce,
         ListPageOnce DEF Work
<1>. QED BY <1>1, <1>2, <1>3, <1>4, UseOnce DEF Next

\* No death, error, resumption or rediscovery gives a key two current rows, as
\* long as plain insertions do not meet rows of another origin, and provided
\* that the files of an inventory manifest list a key once.
THEOREM RowsAreOnce == ASSUME ListedOnce PROVE Spec => []NoRowTwice
<1> DEFINE IInv == Typed /\ Held /\ Once
<1>1. Init => IInv
      BY InitTyped, InitHeld, InitOnce
<1>2. IInv /\ [Next]_vars => IInv'
      BY NextTyped, HeldStep, OnceStep
<1>3. IInv => NoRowTwice
  <2>. SUFFICES ASSUME Typed, LoneRows PROVE OneRowPerKey
       BY DEF Once, NoRowTwice
  <2>1. ASSUME NEW k \in Keys PROVE Cardinality(Current(inventory, k)) <= 1
    <3>1. IsFiniteSet(Current(inventory, k))
          BY RowsOf, Parts
    <3>2. \A i, j \in Current(inventory, k) : i = j
          BY CurrentIsLive DEF LoneRows, Lone
    <3>. QED BY <3>1, <3>2, LoneIsOne
  <2>. QED BY <2>1 DEF OneRowPerKey
<1> HIDE DEF IInv
<1>. QED BY <1>1, <1>2, <1>3, PTL DEF Spec
=============================================================================
