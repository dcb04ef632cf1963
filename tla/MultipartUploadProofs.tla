------------------------ MODULE MultipartUploadProofs ------------------------
(***************************************************************************)
(* For any size, part size and bound, and whatever is interrupted, aborted *)
(* or configured anew: no copy gives up the checkpoint of an upload that   *)
(* OCI still holds (IInv), none sends again a part that is accepted and    *)
(* recorded (KInv), and what a copy reports as delivered is the source,    *)
(* with the digests of its parts (DInv), so that the stream implements the *)
(* one-step copy of ObjectCopy.                                            *)
(***************************************************************************)
EXTENDS MultipartUpload, SequenceTheorems, WellFoundedInduction, TLAPS

\* The variables are records; nothing is said of payloads.
Shape ==
    /\ obj = [state |-> obj.state, upload |-> obj.upload, partSize |-> obj.partSize,
              rows |-> obj.rows, json |-> obj.json, checksum |-> obj.checksum]
    /\ obj.rows = [n \in Parts |-> obj.rows[n]]
    /\ oci = [object |-> oci.object, open |-> oci.open, part |-> oci.part]
    /\ mem = [upload |-> mem.upload, persisted |-> mem.persisted, remote |-> mem.remote,
              next |-> mem.next, digest |-> mem.digest]
    /\ oci.open \subseteq Uploads

\* What the stream works on is what the row names, until the row names nothing
\* or OCI has closed it.
Owned ==
    /\ pc \in {"reconcile", "parts", "uploaded"} => mem.upload = obj.upload
    /\ pc \in {"create", "created"} => obj.upload = NoUpload
    /\ pc = "put" => size <= DirectLimit
    /\ pc = "accepted" => size <= DirectLimit \/ obj.upload \notin oci.open

\* A part is recorded with the digest of its source range.
RowsAreRanges ==
    \A n \in Parts : obj.rows[n] # Absent => obj.rows[n] = SourceRange(n, obj.partSize)

IInv == Shape /\ Owned /\ RowsAreRanges

Survives ==
    obj.upload \in oci.open =>
      /\ obj'.upload = obj.upload /\ obj'.partSize = obj.partSize
      /\ \A n \in Parts : obj.rows[n] # Absent => obj'.rows[n] = obj.rows[n]

\* The source range of a part depends on the object's size only.
LEMMA SameRange ==
    ASSUME UNCHANGED size, NEW n, NEW ps
    PROVE  SourceRange(n, ps)' = SourceRange(n, ps)
    BY DEF SourceRange, ExpectedPartSize, Bytes, LeastOf

LEMMA InitInv == Init => IInv
    BY DEF Init, IInv, Shape, Owned, RowsAreRanges, Empty, Absent, NoMem

LEMMA BeginStep == ASSUME IInv, Begin PROVE IInv' /\ Survives
<1>1. Shape' /\ obj'.upload = obj.upload /\ obj'.partSize = obj.partSize /\ obj'.rows = obj.rows
        /\ mem'.upload = obj.upload
      BY DEF IInv, Shape, Begin, NoMem
<1>2. Owned' /\ Survives
      BY <1>1 DEF Begin, Owned, Survives
<1>3. RowsAreRanges'
      BY <1>1, SameRange DEF IInv, RowsAreRanges, Begin
<1>. QED BY <1>1, <1>2, <1>3 DEF IInv

\* A step that leaves the row alone and opens no upload.
LEMMA RowUntouched ==
    ASSUME IInv, UNCHANGED <<size, obj>>, Shape', Owned'
    PROVE  IInv' /\ Survives
<1>1. RowsAreRanges'
      BY SameRange DEF IInv, RowsAreRanges
<1>. QED BY <1>1 DEF IInv, Survives

LEMMA PutDirectStep == ASSUME IInv, PutDirect PROVE IInv' /\ Survives
<1>1. Shape' /\ Owned'
      BY DEF IInv, Shape, Owned, PutDirect
<1>. QED BY <1>1, RowUntouched DEF PutDirect

LEMMA ReconcileStep == ASSUME IInv, Reconcile PROVE IInv' /\ Survives
<1>1. CASE mem.upload \in oci.open
  <2>1. Shape' /\ Owned'
        BY <1>1 DEF IInv, Shape, Owned, Reconcile
  <2>. QED BY <1>1, <2>1, RowUntouched DEF Reconcile
<1>2. CASE mem.upload \notin oci.open
  <2>1. Survives
        BY <1>2 DEF IInv, Owned, Reconcile, Survives
  <2>2. Shape' /\ Owned' /\ obj'.rows = Empty
        BY <1>2 DEF IInv, Shape, Owned, Reconcile, Empty
  <2>. QED BY <2>1, <2>2 DEF IInv, RowsAreRanges, Empty
<1>. QED BY <1>1, <1>2

LEMMA CreateUploadStep == ASSUME IInv, CreateUpload PROVE IInv' /\ Survives
<1>1. PICK u \in Uploads :
        /\ oci' = [oci EXCEPT !.open = oci.open \cup {u}, !.part[u] = Empty]
        /\ mem' = [mem EXCEPT !.upload = u]
      BY DEF CreateUpload
<1>2. /\ oci' = [object |-> oci'.object, open |-> oci'.open, part |-> oci'.part]
      /\ oci'.open = oci.open \cup {u}
      BY <1>1 DEF IInv, Shape
<1>3. mem' = [upload |-> mem'.upload, persisted |-> mem'.persisted, remote |-> mem'.remote,
              next |-> mem'.next, digest |-> mem'.digest]
      BY <1>1 DEF IInv, Shape
<1>4. Shape'
      BY <1>2, <1>3 DEF IInv, Shape, CreateUpload
<1>5. Owned'
      BY DEF IInv, Owned, CreateUpload
<1>. QED BY <1>4, <1>5, RowUntouched DEF CreateUpload

LEMMA RecordUploadStep == ASSUME IInv, RecordUpload PROVE IInv' /\ Survives
<1>1. Survives
      BY UploadAssumption DEF IInv, Shape, Owned, RecordUpload, Survives
<1>2. Shape' /\ Owned' /\ obj'.rows = Empty
      BY DEF IInv, Shape, Owned, RecordUpload, Empty
<1>. QED BY <1>1, <1>2 DEF IInv, RowsAreRanges, Empty

LEMMA ReusePartStep == ASSUME IInv, ReusePart PROVE IInv' /\ Survives
<1>1. Shape' /\ Owned'
      BY DEF IInv, Shape, Owned, ReusePart
<1>. QED BY <1>1, RowUntouched DEF ReusePart

LEMMA UploadPartStep == ASSUME IInv, UploadPart PROVE IInv' /\ Survives
<1>1. Shape' /\ Owned'
      BY DEF IInv, Shape, Owned, UploadPart, MorePart
<1>. QED BY <1>1, RowUntouched DEF UploadPart

LEMMA RecordPartStep == ASSUME IInv, RecordPart PROVE IInv' /\ Survives
<1> DEFINE payload == SourceRange(mem.next, obj.partSize)
<1>1. obj' = [obj EXCEPT !.rows[mem.next] = payload]
      BY DEF RecordPart
<1>2. RowsAreRanges /\ Shape
      BY DEF IInv
<1> HIDE DEF payload
<1>3. \A n \in Parts : obj'.rows[n] = IF n = mem.next THEN payload ELSE obj.rows[n]
      BY <1>1, <1>2 DEF Shape
<1>4. obj'.upload = obj.upload /\ obj'.partSize = obj.partSize
      BY <1>1, <1>2 DEF Shape
<1>5. Shape' /\ Owned'
      BY <1>1, <1>2 DEF IInv, Shape, Owned, RecordPart
<1>6. Survives
      BY <1>2, <1>3, <1>4 DEF Survives, RowsAreRanges, payload
<1>7. RowsAreRanges'
      BY <1>2, <1>3, <1>4, SameRange DEF RowsAreRanges, payload, RecordPart
<1>. QED BY <1>5, <1>6, <1>7 DEF IInv

LEMMA CommitUploadStep == ASSUME IInv, CommitUpload PROVE IInv' /\ Survives
<1>1. Shape' /\ Owned'
      BY DEF IInv, Shape, Owned, CommitUpload
<1>. QED BY <1>1, RowUntouched DEF CommitUpload

LEMMA RecordDeliveryStep == ASSUME IInv, RecordDelivery PROVE IInv' /\ Survives
<1>1. Shape' /\ Owned' /\ Survives
      BY DEF IInv, Shape, Owned, RecordDelivery, Survives, NoMem, Empty
<1>2. obj'.partSize = obj.partSize /\ (obj'.rows = obj.rows \/ obj'.rows = Empty)
      BY DEF IInv, Shape, RecordDelivery
<1>3. RowsAreRanges'
      BY <1>2, SameRange DEF IInv, RowsAreRanges, RecordDelivery, Empty
<1>. QED BY <1>1, <1>3 DEF IInv

LEMMA FaultStep == ASSUME IInv, Fault PROVE IInv' /\ Survives
<1>1. CASE Interrupt
  <2>1. Shape' /\ Owned'
        BY <1>1 DEF IInv, Shape, Owned, Interrupt, NoMem
  <2>. QED BY <1>1, <2>1, RowUntouched DEF Interrupt
<1>2. CASE AbortUpload
  <2>1. Shape' /\ Owned'
        BY <1>2 DEF IInv, Shape, Owned, AbortUpload
  <2>. QED BY <1>2, <2>1, RowUntouched DEF AbortUpload
<1>3. CASE Reprocess
  <2>1. /\ Shape' /\ obj'.upload = obj.upload /\ obj'.partSize = obj.partSize
        /\ obj'.rows = obj.rows
        BY <1>3 DEF IInv, Shape, Reprocess
  <2>2. Owned' /\ Survives
        BY <1>3, <2>1 DEF IInv, Owned, Reprocess, Survives
  <2>3. RowsAreRanges'
        BY <1>3, <2>1, SameRange DEF IInv, RowsAreRanges, Reprocess
  <2>. QED BY <2>1, <2>2, <2>3 DEF IInv
<1>. QED BY <1>1, <1>2, <1>3 DEF Fault

LEMMA NextInv == IInv /\ [Next]_vars => IInv' /\ Survives
<1> SUFFICES ASSUME IInv, [Next]_vars PROVE IInv' /\ Survives
    OBVIOUS
<1>1. CASE Stream
      BY <1>1, BeginStep, PutDirectStep, ReconcileStep, CreateUploadStep, RecordUploadStep,
         ReusePartStep, UploadPartStep, RecordPartStep, CommitUploadStep, RecordDeliveryStep
         DEF Stream
<1>2. CASE Fault
      BY <1>2, FaultStep
<1>3. CASE UNCHANGED vars
  <2>1. Shape' /\ Owned'
        BY <1>3 DEF vars, IInv, Shape, Owned
  <2>. QED BY <1>3, <2>1, RowUntouched DEF vars
<1>. QED BY <1>1, <1>2, <1>3 DEF Next

LEMMA Invariance == Spec => []IInv
    BY InitInv, NextInv, PTL DEF Spec

\* While OCI holds an upload, no step of a stream, no failure and no second
\* copy drops its id, changes its part size or rewrites a recorded part.
THEOREM CheckpointIsDurable == Spec => CheckpointSurvives
<1>1. IInv /\ [Next]_vars => [Survives]_vars
      BY NextInv
<1>. QED BY <1>1, Invariance, PTL DEF Spec, CheckpointSurvives, Survives
-----------------------------------------------------------------------------
(* Arithmetic of parts *)

LEMMA DivBounds ==
    ASSUME NEW a \in Nat, NEW b \in Nat \ {0}
    PROVE  /\ a \div b \in Nat
           /\ b * (a \div b) <= a /\ a < b * (a \div b) + b
    BY SMT

LEMMA DivUpper ==
    ASSUME NEW a \in Nat, NEW b \in Nat \ {0}, NEW m \in Nat, a < b * (m + 1)
    PROVE  a \div b <= m
<1>1. a \div b \in Nat /\ b * (a \div b) <= a
      BY DivBounds
<1>2. SUFFICES ASSUME a \div b >= m + 1 PROVE FALSE
      BY <1>1
<1>3. b * (a \div b) >= b * (m + 1)
      BY <1>1, <1>2
<1>. QED BY <1>1, <1>3

LEMMA RangeLength ==
    ASSUME size \in Nat, NEW n \in Parts, NEW ps \in Nat
    PROVE  Len(SourceRange(n, ps)) = ExpectedPartSize(n, ps)
<1> DEFINE before == (n - 1) * ps
<1>1. before \in Nat
      BY SMT DEF Parts
<1> HIDE DEF before
<1>2. ExpectedPartSize(n, ps) = IF before >= size THEN 0 ELSE LeastOf(ps, size - before)
      BY DEF ExpectedPartSize, before
<1>3. SourceRange(n, ps) = SubSeq(Bytes, before + 1, before + ExpectedPartSize(n, ps))
      BY DEF SourceRange, before
<1>4. Bytes \in Seq(Nat) /\ Len(Bytes) = size
      BY DEF Bytes
<1>5. ExpectedPartSize(n, ps) \in Nat
      BY <1>1, <1>2 DEF LeastOf
<1>6. ExpectedPartSize(n, ps) = 0 \/ before + ExpectedPartSize(n, ps) <= size
      BY <1>1, <1>2 DEF LeastOf
<1> DEFINE e == ExpectedPartSize(n, ps)
           b == Bytes
<1> HIDE DEF e, b
<1>7. Len(SubSeq(b, before + 1, before + e)) = e
  <2>1. b \in Seq(Nat) /\ e \in Nat /\ (e = 0 \/ before + e <= Len(b))
        BY <1>4, <1>5, <1>6 DEF e, b
  <2>. QED BY <1>1, <2>1
<1>. QED BY <1>3, <1>7 DEF e, b

\* effective_multipart_part_size: no more parts than OCI takes.
LEMMA PartsFit ==
    ASSUME size \in Nat \ {0}, NEW configured \in PartSizes
    PROVE  /\ EffectivePartSize(configured) \in Nat \ {0}
           /\ PartsOf(EffectivePartSize(configured)) <= MaxParts
<1> DEFINE c == CeilDiv(size, MaxParts)
           p == EffectivePartSize(configured)
<1>1. configured \in Nat \ {0} /\ DirectLimit \in Nat \ {0} /\ MaxParts \in Nat \ {0}
      BY SizeAssumption
<1>2. c \in Nat /\ size + MaxParts - 1 < MaxParts * c + MaxParts
      BY <1>1, DivBounds DEF CeilDiv
<1>3. p \in Nat \ {0} /\ p >= c
      BY <1>1, <1>2 DEF EffectivePartSize, GreatestOf
<1> HIDE DEF c, p
<1>4. size <= MaxParts * c
      BY <1>1, <1>2
<1>5. MaxParts * c <= MaxParts * p
      BY <1>1, <1>2, <1>3
<1>6. size + p - 1 < p * (MaxParts + 1)
      BY <1>1, <1>2, <1>3, <1>4, <1>5
<1>7. (size + p - 1) \div p <= MaxParts
      BY <1>1, <1>3, <1>6, DivUpper
<1>. QED BY <1>3, <1>7 DEF PartsOf, CeilDiv, p

-----------------------------------------------------------------------------
(* What was accepted and recorded is not sent again *)

Sizes0 ==
    /\ size \in Nat \ {0} /\ mem.next \in Nat \ {0}
    /\ oci.part = [u \in Uploads |-> [n \in Parts |-> oci.part[u][n]]]
    /\ obj.upload \in Uploads \cup {NoUpload}
    /\ obj.upload # NoUpload =>
         obj.partSize \in Nat \ {0} /\ PartsOf(obj.partSize) <= MaxParts
    /\ pc \in {"reconcile", "parts", "uploaded"} => obj.upload # NoUpload
    /\ pc = "created" => mem.upload \in Uploads

\* OCI holds every part that the checkpoint records.
RecordedIsAccepted ==
    obj.upload # NoUpload =>
      \A n \in Parts : obj.rows[n] # Absent => oci.part[obj.upload][n] = obj.rows[n]

\* The part under way is not recorded.
SentIsNew ==
    pc = "uploaded" =>
      /\ mem.next \in Parts /\ obj.rows[mem.next] = Absent
      /\ oci.part[obj.upload][mem.next] = SourceRange(mem.next, obj.partSize)

\* The stream knows every record of the parts it has still to visit.
RecordedIsKnown ==
    /\ pc = "reconcile" =>
         \A n \in Parts : obj.rows[n] # Absent => mem.persisted[n] = obj.rows[n]
    /\ pc \in {"parts", "uploaded"} =>
         \A n \in Parts : n >= mem.next /\ obj.rows[n] # Absent =>
             mem.persisted[n] = obj.rows[n] /\ mem.remote[n] = obj.rows[n]

KInv  == Sizes0 /\ RecordedIsAccepted /\ SentIsNew /\ RecordedIsKnown
Sends == pc' = "uploaded" => obj.rows[mem.next] = Absent

LEMMA KInit == Init => KInv
<1> SUFFICES ASSUME Init PROVE KInv
    OBVIOUS
<1>1. size \in Nat \ {0}
      BY SizeAssumption DEF Init
<1>2. Sizes0
      BY <1>1 DEF Init, Sizes0, NoMem, Empty
<1>. QED BY <1>2 DEF Init, KInv, RecordedIsAccepted, SentIsNew, RecordedIsKnown

LEMMA KBegin == ASSUME IInv, KInv, Begin PROVE KInv' /\ Sends
<1>1. /\ obj'.upload = obj.upload /\ obj'.partSize = obj.partSize /\ obj'.rows = obj.rows
      /\ mem'.next = 1 /\ mem'.persisted = IF obj.rows # Empty THEN obj.rows ELSE obj.json
      BY DEF IInv, Shape, Begin, NoMem
<1>2. \A n \in Parts : obj.rows[n] # Absent => obj.rows # Empty
      BY DEF Empty
<1>3. Sizes0'
      BY <1>1 DEF KInv, Sizes0, Begin, PartsOf
<1>4. RecordedIsAccepted' /\ SentIsNew' /\ RecordedIsKnown' /\ Sends
      BY <1>1, <1>2 DEF KInv, Begin, RecordedIsAccepted, SentIsNew, RecordedIsKnown, Sends
<1>. QED BY <1>3, <1>4 DEF KInv

LEMMA KReconcile == ASSUME IInv, KInv, Reconcile PROVE KInv' /\ Sends
<1>1. CASE mem.upload \in oci.open
  <2>1. mem'.persisted = mem.persisted /\ mem'.next = mem.next
          /\ mem'.remote = oci.part[obj.upload] /\ pc' = "parts" /\ UNCHANGED <<size, obj, oci>>
        BY <1>1 DEF IInv, Shape, Owned, Reconcile
  <2>2. Sizes0'
        BY <2>1 DEF KInv, Sizes0, Reconcile, PartsOf
  <2>3. RecordedIsKnown'
        BY <2>1 DEF KInv, Sizes0, Reconcile, RecordedIsKnown, RecordedIsAccepted
  <2>. QED BY <2>1, <2>2, <2>3 DEF KInv, RecordedIsAccepted, SentIsNew, Sends
<1>2. CASE mem.upload \notin oci.open
  <2>1. obj'.upload = NoUpload /\ mem'.next = mem.next /\ pc' = "create" /\ UNCHANGED <<size, oci>>
        BY <1>2 DEF IInv, Shape, Reconcile
  <2>2. Sizes0'
        BY <2>1 DEF KInv, Sizes0
  <2>. QED BY <2>1, <2>2 DEF KInv, RecordedIsAccepted, SentIsNew, RecordedIsKnown, Sends
<1>. QED BY <1>1, <1>2

LEMMA KCreateUpload == ASSUME IInv, KInv, CreateUpload PROVE KInv' /\ Sends
<1>1. PICK u \in Uploads :
        /\ oci' = [oci EXCEPT !.open = oci.open \cup {u}, !.part[u] = Empty]
        /\ mem' = [mem EXCEPT !.upload = u]
      BY DEF CreateUpload
<1>2. mem'.next = mem.next /\ mem'.upload = u
      BY <1>1 DEF IInv, Shape
<1>3. oci'.part = [oci.part EXCEPT ![u] = Empty]
      BY <1>1 DEF IInv, Shape
<1>4. oci'.part = [v \in Uploads |-> [n \in Parts |-> oci'.part[v][n]]]
      BY <1>3 DEF KInv, Sizes0, Empty
<1>5. obj.upload = NoUpload
      BY DEF IInv, Owned, CreateUpload
<1>6. Sizes0'
      BY <1>2, <1>4, <1>5 DEF KInv, Sizes0, CreateUpload
<1>. QED BY <1>5, <1>6 DEF KInv, CreateUpload, RecordedIsAccepted, SentIsNew, RecordedIsKnown, Sends

LEMMA KRecordUpload == ASSUME IInv, KInv, RecordUpload PROVE KInv' /\ Sends
<1>1. PICK configured \in PartSizes :
        obj' = [obj EXCEPT !.upload = mem.upload, !.partSize = EffectivePartSize(configured),
                           !.rows = Empty, !.json = Empty]
      BY DEF RecordUpload
<1>2. /\ obj'.upload = mem.upload /\ obj'.partSize = EffectivePartSize(configured)
      /\ obj'.rows = Empty
      BY <1>1 DEF IInv, Shape
<1>3. obj'.partSize \in Nat \ {0} /\ PartsOf(obj'.partSize) <= MaxParts
      BY <1>2, PartsFit DEF KInv, Sizes0
<1>4. PartsOf(obj.partSize)' = PartsOf(obj'.partSize)
      BY DEF RecordUpload, PartsOf
<1>5. Sizes0'
      BY <1>2, <1>3, <1>4, UploadAssumption DEF KInv, Sizes0, RecordUpload
<1>6. \A n \in Parts : obj'.rows[n] = Absent
      BY <1>2 DEF Empty
<1>. QED BY <1>5, <1>6 DEF KInv, RecordUpload, RecordedIsAccepted, SentIsNew, RecordedIsKnown, Sends

LEMMA KReusePart == ASSUME IInv, KInv, ReusePart PROVE KInv' /\ Sends
<1>1. /\ mem'.next = mem.next + 1 /\ mem'.upload = mem.upload /\ mem'.persisted = mem.persisted
      /\ mem'.remote = mem.remote /\ pc = "parts" /\ UNCHANGED <<size, obj, oci, pc>>
      BY DEF IInv, Shape, ReusePart, MorePart
<1>2. Sizes0'
      BY <1>1 DEF KInv, Sizes0, PartsOf
<1>3. RecordedIsKnown'
  <2>1. \A n \in Parts : n >= mem.next + 1 => n >= mem.next
        BY DEF KInv, Sizes0, Parts
  <2>. QED BY <1>1, <2>1 DEF KInv, RecordedIsKnown
<1>. QED BY <1>1, <1>2, <1>3 DEF KInv, RecordedIsAccepted, SentIsNew, Sends

\* A recorded part of a live upload would have been reused.
LEMMA NextIsNew ==
    ASSUME IInv, KInv, MorePart, ~ReuseNext
    PROVE  mem.next \in Parts /\ obj.rows[mem.next] = Absent
<1>1. mem.next \in Parts
      BY SizeAssumption DEF KInv, Sizes0, MorePart, Parts, PartsOf, CeilDiv
<1>2. SUFFICES ASSUME obj.rows[mem.next] # Absent PROVE FALSE
      BY <1>1
<1>3. /\ mem.persisted[mem.next] = obj.rows[mem.next]
      /\ mem.remote[mem.next] = obj.rows[mem.next]
      BY <1>1, <1>2 DEF KInv, Sizes0, RecordedIsKnown, MorePart
<1>4. obj.rows[mem.next] = SourceRange(mem.next, obj.partSize)
      BY <1>1, <1>2 DEF IInv, RowsAreRanges
<1>5. Len(obj.rows[mem.next]) = ExpectedPartSize(mem.next, obj.partSize)
      BY <1>1, <1>4, RangeLength DEF KInv, Sizes0, MorePart
<1>. QED BY <1>2, <1>3, <1>5 DEF ReuseNext, Reusable

LEMMA KUploadPart == ASSUME IInv, KInv, UploadPart PROVE KInv' /\ Sends
<1> DEFINE payload == SourceRange(mem.next, obj.partSize)
<1>1. mem.next \in Parts /\ obj.rows[mem.next] = Absent
      BY NextIsNew DEF UploadPart
<1>2. /\ pc = "parts" /\ pc' = "uploaded" /\ UNCHANGED <<size, obj>>
      /\ mem.upload = obj.upload /\ obj.upload \in Uploads
      BY DEF IInv, Owned, KInv, Sizes0, UploadPart, MorePart
<1>3. /\ mem'.next = mem.next /\ mem'.upload = mem.upload /\ mem'.persisted = mem.persisted
      /\ mem'.remote = mem.remote
      BY DEF IInv, Shape, UploadPart
<1>4. oci' = [oci EXCEPT !.part[mem.upload][mem.next] = payload]
      BY DEF UploadPart
<1> HIDE DEF payload
<1>5. oci'.part = [oci.part EXCEPT ![obj.upload][mem.next] = payload]
      BY <1>2, <1>4 DEF IInv, Shape
<1>6. /\ oci'.part = [u \in Uploads |-> [n \in Parts |-> oci'.part[u][n]]]
      /\ \A n \in Parts : oci'.part[obj.upload][n] =
            IF n = mem.next THEN payload ELSE oci.part[obj.upload][n]
  <2> DEFINE held == [oci.part[obj.upload] EXCEPT ![mem.next] = payload]
  <2>1. oci.part = [u \in Uploads |-> [n \in Parts |-> oci.part[u][n]]]
        BY DEF KInv, Sizes0
  <2>2. held = [n \in Parts |-> IF n = mem.next THEN payload ELSE oci.part[obj.upload][n]]
        BY <1>2, <2>1
  <2>3. oci'.part = [oci.part EXCEPT ![obj.upload] = held]
        BY <1>5
  <2> HIDE DEF held
  <2>4. oci'.part = [u \in Uploads |-> IF u = obj.upload THEN held ELSE oci.part[u]]
        BY <1>2, <2>1, <2>3
  <2>5. oci'.part[obj.upload] = held
        BY <1>2, <2>4
  <2>6. \A u \in Uploads : u # obj.upload => oci'.part[u] = oci.part[u]
        BY <2>4
  <2>7. \A u \in Uploads : oci'.part[u] = [n \in Parts |-> oci'.part[u][n]]
        BY <1>2, <2>1, <2>2, <2>5, <2>6
  <2>8. oci'.part = [u \in Uploads |-> oci'.part[u]]
        BY <2>4
  <2>. QED BY <2>2, <2>5, <2>7, <2>8
<1>7. Sizes0'
      BY <1>2, <1>3, <1>6 DEF KInv, Sizes0, PartsOf
<1>8. RecordedIsAccepted' /\ RecordedIsKnown'
      BY <1>1, <1>2, <1>3, <1>6 DEF KInv, RecordedIsAccepted, RecordedIsKnown
<1>9. SentIsNew' /\ Sends
      BY <1>1, <1>2, <1>3, <1>6, SameRange DEF SentIsNew, Sends, payload
<1>. QED BY <1>7, <1>8, <1>9 DEF KInv

LEMMA KRecordPart == ASSUME IInv, KInv, RecordPart PROVE KInv' /\ Sends
<1> DEFINE payload == SourceRange(mem.next, obj.partSize)
<1>1. /\ mem.next \in Parts /\ oci.part[obj.upload][mem.next] = payload
      /\ pc = "uploaded" /\ pc' = "parts" /\ UNCHANGED <<size, oci>>
      BY DEF KInv, SentIsNew, RecordPart
<1>2. /\ obj' = [obj EXCEPT !.rows[mem.next] = payload]
      /\ mem' = [mem EXCEPT !.persisted[mem.next] = payload, !.next = mem.next + 1]
      BY DEF RecordPart
<1> HIDE DEF payload
<1>3. /\ obj'.upload = obj.upload /\ obj'.partSize = obj.partSize
      /\ \A n \in Parts : obj'.rows[n] = IF n = mem.next THEN payload ELSE obj.rows[n]
      BY <1>2 DEF IInv, Shape
<1>4. /\ mem'.next = mem.next + 1 /\ mem'.remote = mem.remote
      /\ \A n \in Parts : n # mem.next => mem'.persisted[n] = mem.persisted[n]
      BY <1>2 DEF IInv, Shape
<1>5. Sizes0'
      BY <1>1, <1>3, <1>4 DEF KInv, Sizes0, PartsOf
<1>6. RecordedIsAccepted' /\ SentIsNew' /\ Sends
      BY <1>1, <1>3 DEF KInv, RecordedIsAccepted, SentIsNew, Sends
<1>7. RecordedIsKnown'
  <2>1. \A n \in Parts : n >= mem.next + 1 => n >= mem.next /\ n # mem.next
        BY DEF KInv, Sizes0, Parts
  <2>. QED BY <1>1, <1>3, <1>4, <2>1 DEF KInv, RecordedIsKnown
<1>. QED BY <1>5, <1>6, <1>7 DEF KInv

LEMMA KRecordDelivery == ASSUME IInv, KInv, RecordDelivery PROVE KInv' /\ Sends
<1>1. /\ obj'.upload = NoUpload \/ (obj'.upload = obj.upload /\ obj'.rows = obj.rows)
      /\ obj'.partSize = obj.partSize /\ mem'.next = 1 /\ pc' = "idle"
      /\ UNCHANGED <<size, oci>>
      BY DEF IInv, Shape, RecordDelivery, NoMem
<1>2. Sizes0'
      BY <1>1 DEF KInv, Sizes0, PartsOf
<1>. QED BY <1>1, <1>2 DEF KInv, RecordedIsAccepted, SentIsNew, RecordedIsKnown, Sends

\* What only moves the stream on, ends it, or closes an upload.
LEMMA KRest ==
    ASSUME IInv, KInv, PutDirect \/ CommitUpload \/ Fault \/ UNCHANGED vars
    PROVE  KInv' /\ Sends
<1>1. /\ UNCHANGED size /\ mem'.next \in Nat \ {0} /\ oci'.part = oci.part
      /\ obj'.upload = obj.upload /\ obj'.partSize = obj.partSize /\ obj'.rows = obj.rows
  <2>1. Shape /\ mem.next \in Nat \ {0}
        BY DEF IInv, KInv, Sizes0
  <2>2. CASE PutDirect
        BY <2>1, <2>2 DEF PutDirect, Shape
  <2>3. CASE CommitUpload
        BY <2>1, <2>3 DEF CommitUpload, Shape
  <2>4. CASE Interrupt
        BY <2>1, <2>4 DEF Interrupt, Shape, NoMem
  <2>5. CASE AbortUpload
        BY <2>1, <2>5 DEF AbortUpload, Shape
  <2>6. CASE Reprocess
        BY <2>1, <2>6 DEF Reprocess, Shape
  <2>7. CASE UNCHANGED vars
        BY <2>1, <2>7 DEF vars
  <2>. QED BY <2>2, <2>3, <2>4, <2>5, <2>6, <2>7 DEF Fault
<1>2. pc' \in {"idle", "accepted"} \/ UNCHANGED <<pc, mem>>
      BY DEF PutDirect, CommitUpload, Fault, Interrupt, AbortUpload, Reprocess, vars
<1>3. Sizes0'
      BY <1>1, <1>2 DEF KInv, Sizes0, PartsOf
<1>4. RecordedIsAccepted' /\ RecordedIsKnown' /\ Sends
      BY <1>1, <1>2 DEF KInv, RecordedIsAccepted, RecordedIsKnown, SentIsNew, Sends
<1>5. SentIsNew'
      BY <1>1, <1>2, SameRange DEF KInv, SentIsNew
<1>. QED BY <1>3, <1>4, <1>5 DEF KInv

LEMMA KNext == IInv /\ KInv /\ [Next]_vars => KInv' /\ Sends
    BY KBegin, KReconcile, KCreateUpload, KRecordUpload, KReusePart, KUploadPart, KRecordPart,
       KRecordDelivery, KRest DEF Next, Stream

LEMMA KInvariance == Spec => [](IInv /\ KInv)
    BY InitInv, NextInv, KInit, KNext, PTL DEF Spec

\* No stream sends again a part that OCI accepted and the checkpoint records,
\* wherever earlier streams were interrupted and whatever part size was
\* configured meanwhile.
THEOREM ResumeSendsMissingOnly == Spec => OnlyMissingIsSent
<1> DEFINE A == pc' = "uploaded" =>
                  obj.rows[mem.next] = Absent \/ oci.part[obj.upload][mem.next] = Absent
<1>1. IInv /\ KInv /\ [Next]_vars => [A]_vars
      BY KNext DEF Sends
<1>. QED BY <1>1, KInvariance, PTL DEF Spec, OnlyMissingIsSent

-----------------------------------------------------------------------------
(* Sequences: adjoining ranges make up the whole *)

\* Every set of numbers that is not empty has a least one.
LEMMA LeastNumber ==
    ASSUME NEW T \in SUBSET Nat, T # {}
    PROVE  \E n \in T : \A m \in T : n <= m
<1> DEFINE R == {p \in Nat \X Nat : p[1] < p[2]}
<1>1. IsWellFoundedOn(R, Nat)
      BY NatLessThanWellFounded DEF OpToRel
<1>2. PICK n \in T : \A m \in T : <<m, n>> \notin R
      BY <1>1, WFMin
<1>3. \A m \in T : ~(m < n)
      BY <1>2
<1>. QED BY <1>3

\* f is the running concatenation of s.
Concatenates(f, s, n) == \A i \in 1..n : f[i] = IF i = 1 THEN s[i] ELSE f[i - 1] \o s[i]

\* Two solutions of the recursion that FlattenSeq takes the last value of agree.
LEMMA SameConcat ==
    ASSUME NEW n \in Nat, NEW s, NEW f, NEW g, Concatenates(f, s, n), Concatenates(g, s, n)
    PROVE  \A i \in 1..n : g[i] = f[i]
<1> DEFINE T == {i \in 1..n : g[i] # f[i]}
<1>. SUFFICES ASSUME T # {} PROVE FALSE
     OBVIOUS
<1>1. T \in SUBSET Nat /\ \A i \in 1..n : g[i] # f[i] <=> i \in T
      OBVIOUS
<1>2. \A i \in T : i \in 1..n
      OBVIOUS
<1>. HIDE DEF T
<1>3. PICK i \in T : \A j \in T : i <= j
      BY <1>1, LeastNumber
<1>4. i \in 1..n /\ g[i] # f[i]
      BY <1>1, <1>2
<1>5. i # 1
      BY <1>4 DEF Concatenates
<1>6. i - 1 \in 1..n /\ ~(i <= i - 1)
      BY <1>4, <1>5
<1>7. g[i - 1] = f[i - 1]
      BY <1>1, <1>3, <1>6
<1>8. g[i] = g[i - 1] \o s[i] /\ f[i] = f[i - 1] \o s[i]
      BY <1>4, <1>5 DEF Concatenates
<1>. QED BY <1>4, <1>7, <1>8

\* s cuts b at the bounds in upto, without gap or overlap.
Slices(s, b, upto, n) ==
    /\ upto[0] = 0 /\ upto[n] = Len(b)
    /\ \A i \in 0..n : upto[i] \in 0..Len(b)
    /\ \A i \in 1..n : upto[i - 1] <= upto[i]
    /\ \A i \in 1..n : s[i] = SubSeq(b, upto[i - 1] + 1, upto[i])

\* Ranges that adjoin make one range.
LEMMA FlattenRanges ==
    ASSUME NEW b \in Seq(Nat), NEW n \in Nat \ {0}, NEW upto, NEW s,
           Len(s) = n, Slices(s, b, upto, n)
    PROVE  FlattenSeq(s) = b
<1> DEFINE len == Len(b)
<1>a. /\ len \in Nat /\ upto[0] = 0 /\ upto[n] = len
      /\ \A i \in 0..n : upto[i] \in 0..len
      /\ \A i \in 1..n : upto[i - 1] <= upto[i]
      /\ \A i \in 1..n : s[i] = SubSeq(b, upto[i - 1] + 1, upto[i])
      BY DEF Slices
<1> HIDE DEF len
<1> DEFINE f == [i \in 1..n |-> SubSeq(b, 1, upto[i])]
           P(h) == h = [i \in 1..n |-> IF i = 1 THEN s[i] ELSE h[i - 1] \o s[i]]
           g == CHOOSE h : P(h)
<1>1. \A i \in 1..n : f[i] = IF i = 1 THEN s[i] ELSE f[i - 1] \o s[i]
  <2>. SUFFICES ASSUME NEW i \in 1..n PROVE f[i] = IF i = 1 THEN s[i] ELSE f[i - 1] \o s[i]
       OBVIOUS
  <2>1. CASE i = 1
    <3>1. s[1] = SubSeq(b, upto[1 - 1] + 1, upto[1])
          BY <1>a, <2>1
    <3>2. 1 - 1 = 0 /\ 0 + 1 = 1
          OBVIOUS
    <3>3. s[1] = SubSeq(b, 1, upto[1])
          BY <1>a, <3>1, <3>2
    <3>. QED BY <1>a, <2>1, <3>3
  <2>2. CASE i # 1
    <3>1. i - 1 \in 1..n /\ i - 1 \in 0..n
          BY <2>2
    <3>2. f[i - 1] = SubSeq(b, 1, upto[i - 1])
          BY <3>1
    <3>3. SubSeq(b, 1, upto[i - 1]) \o SubSeq(b, upto[i - 1] + 1, upto[i]) = SubSeq(b, 1, upto[i])
      <4>1. upto[i - 1] \in 0..len /\ upto[i] \in 0..len /\ upto[i - 1] <= upto[i]
        <5>1. i \in 0..n
              OBVIOUS
        <5>2. upto[i - 1] <= upto[i]
              BY <1>a
        <5>. QED BY <1>a, <3>1, <5>1, <5>2
      <4>2. /\ 1 \in 1..Len(b) + 1 /\ upto[i - 1] \in 1 - 1..Len(b)
            /\ upto[i] \in upto[i - 1]..Len(b)
            BY <1>a, <4>1 DEF len
      <4>. QED BY <4>2, ConcatAdjacentSubSeq
    <3>. QED BY <1>a, <2>2, <3>2, <3>3
  <2>. QED BY <2>1, <2>2
<1>2. P(f)
      BY <1>1
<1>3. P(g)
      BY <1>2
<1>4. FlattenSeq(s) = g[n]
      BY DEF FlattenSeq
<1>5. f[n] = SubSeq(b, 1, len)
      BY <1>a
<1>6. Concatenates(f, s, n) /\ Concatenates(g, s, n)
  <2>1. \A i \in 1..n : g[i] = IF i = 1 THEN s[i] ELSE g[i - 1] \o s[i]
        BY <1>3
  <2> HIDE DEF f, g
  <2>. QED BY <1>1, <2>1 DEF Concatenates
<1> HIDE DEF f, g
<1>7. \A i \in 1..n : g[i] = f[i]
      BY <1>6, SameConcat
<1>8. SubSeq(b, 1, len) = b
      BY SubSeqFull DEF len
<1>9. n \in 1..n
      OBVIOUS
<1>10. g[n] = f[n]
      BY <1>7, <1>9
<1>. QED BY <1>4, <1>5, <1>8, <1>10

\* The parts cover the object, and the last one is not empty.
LEMMA PartsCover ==
    ASSUME size \in Nat \ {0}, NEW ps \in Nat \ {0}
    PROVE  /\ PartsOf(ps) \in Nat \ {0}
           /\ size <= PartsOf(ps) * ps
           /\ \A n \in 1..PartsOf(ps) : (n - 1) * ps \in Nat /\ (n - 1) * ps < size
<1> DEFINE N == PartsOf(ps)
<1>1. size + ps - 1 \in Nat
      OBVIOUS
<1>2. N \in Nat /\ ps * N <= size + ps - 1 /\ size + ps - 1 < ps * N + ps
      BY <1>1, DivBounds DEF PartsOf, CeilDiv
<1> HIDE DEF N
<1>3. ps * N \in Nat /\ ps * N = N * ps
      BY <1>2
<1>4. size <= N * ps
      BY <1>2, <1>3
<1>5. N # 0
      BY <1>2, <1>4
<1>6. \A n \in 1..N : (n - 1) * ps \in Nat /\ (n - 1) * ps < size
  <2>. SUFFICES ASSUME NEW n \in 1..N PROVE (n - 1) * ps \in Nat /\ (n - 1) * ps < size
       OBVIOUS
  <2>1. n \in Nat /\ N - n \in Nat /\ n - 1 \in Nat
        BY <1>2
  <2>2. N * ps = (n - 1) * ps + ps + (N - n) * ps
        BY <1>2, <2>1
  <2>3. (N - n) * ps \in Nat /\ (n - 1) * ps \in Nat
        BY <2>1
  <2>. QED BY <1>2, <1>3, <2>2, <2>3
<1>. QED BY <1>2, <1>4, <1>5, <1>6 DEF N

\* The source range of a part of the object, between the end of the part before
\* it and its own end.
LEMMA RangeIsSlice ==
    ASSUME size \in Nat \ {0}, NEW ps \in Nat \ {0}, NEW n \in 1..PartsOf(ps)
    PROVE  /\ SourceRange(n, ps) = SubSeq(Bytes, (n - 1) * ps + 1, LeastOf(n * ps, size))
           /\ (n - 1) * ps < LeastOf(n * ps, size) /\ LeastOf(n * ps, size) <= size
           /\ LeastOf((n - 1) * ps, size) = (n - 1) * ps
           /\ SourceRange(n, ps) # Absent
           /\ SourceRange(n, ps) \in Seq(1..size)
<1> DEFINE before == (n - 1) * ps
           e == LeastOf(n * ps, size)
<1>1. before \in Nat /\ before < size
      BY PartsCover
<1>2. n * ps = before + ps
      BY PartsCover
<1> HIDE DEF before
<1>3. e \in Nat /\ before < e /\ e <= size /\ LeastOf(before, size) = before
      BY <1>1, <1>2 DEF LeastOf
<1>4. before + ExpectedPartSize(n, ps) = e
  <2>1. ExpectedPartSize(n, ps) = IF before >= size THEN 0 ELSE LeastOf(ps, size - before)
        BY DEF ExpectedPartSize, before
  <2>. QED BY <1>1, <1>2, <2>1 DEF LeastOf
<1>5. SourceRange(n, ps) = SubSeq(Bytes, before + 1, before + ExpectedPartSize(n, ps))
      BY DEF SourceRange, before
<1> HIDE DEF e
<1> DEFINE b == Bytes
<1>6. b \in Seq(1..size) /\ Len(b) = size
      BY DEF Bytes
<1> HIDE DEF b
<1>7. SubSeq(b, before + 1, e) \in Seq(1..size) /\ Len(SubSeq(b, before + 1, e)) = e - before
      BY <1>1, <1>3, <1>6
<1>8. SubSeq(b, before + 1, e) # <<>>
  <2>1. e - before # 0 /\ Len(<<>>) = 0
        BY <1>1, <1>3
  <2>. QED BY <1>7, <2>1
<1>. QED BY <1>3, <1>4, <1>5, <1>7, <1>8 DEF e, b, before, Absent

\* OCI assembles the source ranges of the parts into the source.
LEMMA RangesMakeTheObject ==
    ASSUME size \in Nat \ {0}, NEW ps \in Nat \ {0}
    PROVE  FlattenSeq([n \in 1..PartsOf(ps) |-> SourceRange(n, ps)]) = Bytes
<1> DEFINE N == PartsOf(ps)
           upto == [n \in 0..N |-> LeastOf(n * ps, size)]
           s == [n \in 1..N |-> SourceRange(n, ps)]
           b == Bytes
<1>1. N \in Nat \ {0} /\ size <= N * ps
      BY PartsCover
<1>2. \A n \in 1..N : /\ upto[n - 1] = (n - 1) * ps
                      /\ upto[n - 1] <= upto[n]
                      /\ s[n] = SubSeq(Bytes, upto[n - 1] + 1, upto[n])
  <2>. SUFFICES ASSUME NEW n \in 1..N
                PROVE  /\ upto[n - 1] = (n - 1) * ps
                       /\ upto[n - 1] <= upto[n]
                       /\ s[n] = SubSeq(Bytes, upto[n - 1] + 1, upto[n])
       OBVIOUS
  <2>1. n \in 0..N /\ n - 1 \in 0..N
        BY <1>1
  <2>2. upto[n - 1] = LeastOf((n - 1) * ps, size) /\ upto[n] = LeastOf(n * ps, size)
        BY <2>1
  <2>3. /\ LeastOf((n - 1) * ps, size) = (n - 1) * ps
        /\ (n - 1) * ps < LeastOf(n * ps, size)
        /\ SourceRange(n, ps) = SubSeq(Bytes, (n - 1) * ps + 1, LeastOf(n * ps, size))
        BY RangeIsSlice
  <2>4. (n - 1) * ps \in Nat /\ LeastOf(n * ps, size) \in Nat
        BY PartsCover DEF LeastOf
  <2>5. s[n] = SourceRange(n, ps)
        OBVIOUS
  <2> HIDE DEF upto, s
  <2>6. upto[n - 1] = (n - 1) * ps /\ upto[n - 1] <= upto[n]
        BY <2>2, <2>3, <2>4
  <2>7. s[n] = SubSeq(Bytes, upto[n - 1] + 1, upto[n])
        BY <2>2, <2>3, <2>5
  <2>. QED BY <2>6, <2>7
<1>3. \A n \in 0..N : upto[n] \in 0..size
  <2>. SUFFICES ASSUME NEW n \in 0..N PROVE LeastOf(n * ps, size) \in 0..size
       OBVIOUS
  <2>1. n * ps \in Nat
        BY <1>1
  <2>. QED BY <2>1 DEF LeastOf
<1>4. upto[0] = 0 /\ upto[N] = size
  <2>1. upto[0] = LeastOf(0 * ps, size) /\ upto[N] = LeastOf(N * ps, size)
        BY <1>1
  <2>2. 0 * ps = 0 /\ N * ps \in Nat
        BY <1>1
  <2> HIDE DEF upto, N
  <2>. QED BY <1>1, <2>1, <2>2 DEF LeastOf
<1>5. DOMAIN upto = 0..N /\ DOMAIN s = 1..N /\ Len(s) = N
      BY <1>1
<1>6. b \in Seq(Nat) /\ Len(b) = size
      BY DEF Bytes
<1>7. \A n \in 1..N : upto[n - 1] <= upto[n]
      BY <1>2
<1>8. \A n \in 1..N : s[n] = SubSeq(b, upto[n - 1] + 1, upto[n])
      BY <1>2
<1> HIDE DEF upto, s, N, b
<1>9. FlattenSeq(s) = b
  <2>1. Slices(s, b, upto, N)
        BY <1>3, <1>4, <1>6, <1>7, <1>8 DEF Slices
  <2>. QED BY <1>1, <1>5, <1>6, <2>1, FlattenRanges
<1>. QED BY <1>9 DEF s, b, N

-----------------------------------------------------------------------------
(* What the stream, the destination and the row hold at each point of a copy *)

\* While the row names an upload, its evidence is in the rows only, of parts that
\* the object has.
EvidenceIsInRows ==
    obj.upload # NoUpload =>
      /\ obj.json = Empty
      /\ \A n \in Parts : obj.rows[n] # Absent => n <= PartsOf(obj.partSize)

\* OCI holds nothing but whole source ranges of an upload that the row names.
AcceptedIsRange ==
    obj.upload # NoUpload =>
      \A n \in Parts : oci.part[obj.upload][n] \in {Absent, SourceRange(n, obj.partSize)}

\* A stream that has listed no parts knows of none, and its new upload has none.
NothingListed ==
    /\ pc \in {"put", "reconcile", "create", "created"} => mem.remote = Empty /\ mem.next = 1
    /\ pc = "created" => oci.part[mem.upload] = Empty

Copying == pc \in {"parts", "uploaded"}

\* OCI still holds what it listed, and every part the stream is past.
VisitedIsHeld ==
    Copying =>
      /\ mem.next <= PartsOf(obj.partSize) + 1
      /\ pc = "uploaded" => mem.next <= PartsOf(obj.partSize)
      /\ \A n \in Parts : mem.remote[n] # Absent => oci.part[obj.upload][n] # Absent
      /\ \A n \in Parts : n < mem.next => oci.part[obj.upload][n] = SourceRange(n, obj.partSize)

\* A resumed stream has the rows in memory, one for every part it is past.
ResumedKnowsRows ==
    /\ pc = "reconcile" => mem.persisted = obj.rows
    /\ Copying /\ mem.remote # Empty =>
         /\ mem.persisted = obj.rows
         /\ \A n \in Parts : n < mem.next => obj.rows[n] # Absent

\* A stream that found no parts has digested what it sent.
FreshHasDigest ==
    Copying /\ mem.remote = Empty /\ (mem.next > 1 \/ pc = "uploaded") => mem.digest # Absent

\* What RecordDelivery is about to write is true of the destination.
AcceptedIsWhole ==
    pc = "accepted" =>
      /\ oci.object = Bytes
      /\ size > DirectLimit =>
           IF mem.remote = Empty THEN mem.digest # Absent
           ELSE AuditMatches(mem.persisted, Bytes, obj.partSize)

DeliveredIsExact ==
    obj.state = "TRANSFERRED" =>
      /\ pc = "idle" /\ oci.object = Bytes
      /\ size > DirectLimit /\ obj.checksum = Absent =>
           AuditMatches(obj.json, Bytes, obj.partSize)

DInv == /\ EvidenceIsInRows /\ AcceptedIsRange /\ NothingListed /\ VisitedIsHeld
        /\ ResumedKnowsRows /\ FreshHasDigest /\ AcceptedIsWhole /\ DeliveredIsExact

-----------------------------------------------------------------------------
(* The row, the destination and the stream are well formed *)

\* TypeOK, one name for each record set.
Evidence == [Parts -> Seq(1..size)]
TObj == [state : {"RESTORED", "TRANSFERRING", "TRANSFERRED"},
         upload : Uploads \cup {NoUpload}, partSize : Nat,
         rows : Evidence, json : Evidence, checksum : Seq(1..size)]
TOci == [object : Seq(1..size), open : SUBSET Uploads, part : [Uploads -> Evidence]]
TMem == [upload : Uploads \cup {NoUpload}, persisted : Evidence,
         remote : Evidence, next : 1..(MaxParts + 1), digest : Seq(1..size)]
Typed ==
    /\ size \in Sizes
    /\ obj.partSize = 0 \/ PartsOf(obj.partSize) <= MaxParts
    /\ obj \in TObj /\ oci \in TOci /\ mem \in TMem
    /\ pc \in {"idle", "put", "reconcile", "create", "created", "parts", "uploaded", "accepted"}

LEMMA TypedIsTypeOK == Typed <=> TypeOK
    BY DEF Typed, TypeOK, TObj, TOci, TMem, Evidence

LEMMA EmptyIsEvidence == Empty \in Evidence /\ Absent \in Seq(1..size)
    BY DEF Empty, Evidence, Absent

LEMMA TInit == Init => Typed
<1> SUFFICES ASSUME Init PROVE Typed
    OBVIOUS
<1>1. obj.partSize = 0 /\ size \in Sizes /\ pc = "idle"
      BY DEF Init
<1>2. obj \in TObj
      BY EmptyIsEvidence DEF Init, TObj
<1>3. oci \in TOci
      BY EmptyIsEvidence DEF Init, TOci
<1>4. mem \in TMem
      BY EmptyIsEvidence, SizeAssumption DEF Init, TMem, NoMem
<1>. QED BY <1>1, <1>2, <1>3, <1>4 DEF Typed

LEMMA SameTypes ==
    ASSUME UNCHANGED size
    PROVE  /\ TObj' = TObj /\ TOci' = TOci /\ TMem' = TMem /\ Evidence' = Evidence
           /\ Bytes' = Bytes /\ \A ps : PartsOf(ps)' = PartsOf(ps)
    BY DEF TObj, TOci, TMem, Evidence, Bytes, PartsOf

LEMMA TBegin == ASSUME Typed, Begin PROVE Typed'
<1>1. UNCHANGED <<size, oci>> /\ pc' \in {"put", "reconcile", "create"}
      BY DEF Begin
<1>2. obj' \in TObj /\ obj'.partSize = obj.partSize
      BY DEF Typed, Begin, TObj
<1>3. mem' \in TMem
  <2> DEFINE held == IF obj.rows # Empty THEN obj.rows ELSE obj.json
  <2>1. held \in Evidence /\ obj.upload \in Uploads \cup {NoUpload}
        BY DEF Typed, TObj
  <2>2. mem' = [upload |-> obj.upload, persisted |-> held, remote |-> Empty, next |-> 1, digest |-> Absent]
        BY DEF Begin, NoMem
  <2>3. 1 \in 1..(MaxParts + 1)
        BY SizeAssumption
  <2> HIDE DEF held
  <2>. QED BY <2>1, <2>2, <2>3, EmptyIsEvidence DEF TMem
<1>. QED BY <1>1, <1>2, <1>3, SameTypes DEF Typed, PartsOf

LEMMA TPut == ASSUME Typed, PutDirect PROVE Typed'
<1>1. UNCHANGED <<size, obj>> /\ pc' = "accepted"
      BY DEF PutDirect
<1>2. Bytes \in Seq(1..size)
      BY SizeAssumption DEF Typed, Bytes
<1>3. mem' \in TMem /\ oci' \in TOci
      BY <1>2 DEF Typed, PutDirect, TMem, TOci
<1>. QED BY <1>1, <1>3, SameTypes DEF Typed, PartsOf

LEMMA TReconcile == ASSUME Typed, Reconcile PROVE Typed'
<1>1. UNCHANGED <<size, oci>> /\ pc' \in {"parts", "create"}
      BY DEF Reconcile
<1>2. obj' \in TObj /\ obj'.partSize = obj.partSize
      BY EmptyIsEvidence DEF Typed, Reconcile, TObj
<1>3. mem' \in TMem
      BY EmptyIsEvidence DEF Typed, Reconcile, TMem, TOci
<1>. QED BY <1>1, <1>2, <1>3, SameTypes DEF Typed, PartsOf

LEMMA TCreate == ASSUME Typed, CreateUpload PROVE Typed'
<1>1. UNCHANGED <<size, obj>> /\ pc' = "created"
      BY DEF CreateUpload
<1>2. mem' \in TMem
      BY DEF Typed, CreateUpload, TMem
<1>3. oci' \in TOci
  <2>1. PICK u \in Uploads : oci' = [oci EXCEPT !.open = oci.open \cup {u}, !.part[u] = Empty]
        BY DEF CreateUpload
  <2>2. oci.part \in [Uploads -> Evidence] /\ oci.open \in SUBSET Uploads
        BY DEF Typed, TOci
  <2>3. [oci.part EXCEPT ![u] = Empty] \in [Uploads -> Evidence] /\ oci.open \cup {u} \in SUBSET Uploads
        BY <2>2, EmptyIsEvidence
  <2>4. oci' = [oci EXCEPT !.open = oci.open \cup {u}, !.part = [oci.part EXCEPT ![u] = Empty]]
        BY <2>1 DEF Typed, TOci
  <2>. QED BY <2>3, <2>4 DEF Typed, TOci
<1>. QED BY <1>1, <1>2, <1>3, SameTypes DEF Typed, PartsOf

LEMMA TRecord == ASSUME Typed, RecordUpload PROVE Typed'
<1>1. UNCHANGED <<size, oci, mem>> /\ pc' = "parts"
      BY DEF RecordUpload
<1>2. PICK configured \in PartSizes :
        obj' = [obj EXCEPT !.upload = mem.upload, !.partSize = EffectivePartSize(configured),
                           !.rows = Empty, !.json = Empty]
      BY DEF RecordUpload
<1>3. size \in Nat \ {0}
      BY SizeAssumption DEF Typed
<1>4. EffectivePartSize(configured) \in Nat \ {0} /\ PartsOf(EffectivePartSize(configured)) <= MaxParts
      BY <1>3, PartsFit
<1>5. obj' \in TObj /\ obj'.partSize = EffectivePartSize(configured)
      BY <1>2, <1>4, EmptyIsEvidence DEF Typed, TObj, TMem
<1>. QED BY <1>1, <1>4, <1>5, SameTypes DEF Typed, PartsOf

\* What is copied of a part is a sequence of bytes of the object.
LEMMA RangeIsBytes ==
    ASSUME size \in Nat \ {0}, NEW ps \in Nat \ {0}, NEW n \in 1..PartsOf(ps)
    PROVE  SourceRange(n, ps) \in Seq(1..size) /\ SourceRange(n, ps) # Absent
    BY RangeIsSlice

\* The row's part size while a stream uploads parts, and the part it is at.
LEMMA CopyingFacts ==
    ASSUME IInv, KInv, Typed
    PROVE  /\ size \in Nat \ {0}
           /\ Copying => /\ mem.upload = obj.upload /\ obj.upload \in Uploads
                         /\ obj.partSize \in Nat \ {0} /\ PartsOf(obj.partSize) \in Nat \ {0}
                         /\ PartsOf(obj.partSize) <= MaxParts
           /\ mem.next \in Nat \ {0}
<1>1. size \in Nat \ {0} /\ mem.next \in Nat \ {0}
      BY SizeAssumption DEF Typed, KInv, Sizes0
<1>2. Copying => /\ mem.upload = obj.upload /\ obj.upload \in Uploads
                 /\ obj.partSize \in Nat \ {0} /\ PartsOf(obj.partSize) <= MaxParts
      BY DEF IInv, Owned, KInv, Sizes0, Copying
<1>. QED BY <1>1, <1>2, PartsCover

LEMMA TReuse == ASSUME IInv, KInv, Typed, ReusePart PROVE Typed'
<1>1. UNCHANGED <<size, obj, oci, pc>> /\ mem' = [mem EXCEPT !.next = mem.next + 1]
      BY DEF ReusePart
<1>2. mem.next <= PartsOf(obj.partSize) /\ Copying
      BY DEF ReusePart, MorePart, Copying
<1>3. mem.next + 1 \in 1..(MaxParts + 1)
      BY <1>2, CopyingFacts, SizeAssumption
<1>4. mem' \in TMem
      BY <1>1, <1>3 DEF Typed, TMem
<1>. QED BY <1>1, <1>4, SameTypes DEF Typed, PartsOf

LEMMA TUpload == ASSUME IInv, KInv, Typed, UploadPart PROVE Typed'
<1> DEFINE payload == SourceRange(mem.next, obj.partSize)
<1>1. UNCHANGED <<size, obj>> /\ pc' = "uploaded"
      /\ mem' = [mem EXCEPT !.digest = mem.digest \o payload \o payload]
      /\ oci' = [oci EXCEPT !.part[mem.upload][mem.next] = payload]
      BY DEF UploadPart
<1>2. mem.next <= PartsOf(obj.partSize) /\ Copying
      BY DEF UploadPart, MorePart, Copying
<1>3. mem.next \in 1..PartsOf(obj.partSize) /\ mem.next \in Parts /\ mem.upload \in Uploads
      BY <1>2, CopyingFacts, SizeAssumption DEF Parts
<1>4. payload \in Seq(1..size)
      BY <1>2, <1>3, CopyingFacts, RangeIsBytes
<1> HIDE DEF payload
<1>5. mem' \in TMem
  <2>1. mem.digest \in Seq(1..size)
        BY DEF Typed, TMem
  <2>2. mem.digest \o payload \in Seq(1..size)
        BY <1>4, <2>1
  <2>3. mem.digest \o payload \o payload \in Seq(1..size)
        BY <1>4, <2>2
  <2>. QED BY <1>1, <2>3 DEF Typed, TMem
<1>6. oci' \in TOci
  <2> DEFINE held == [oci.part[mem.upload] EXCEPT ![mem.next] = payload]
  <2>1. oci.part \in [Uploads -> Evidence]
        BY DEF Typed, TOci
  <2>2. held \in Evidence
        BY <1>3, <1>4, <2>1 DEF Evidence
  <2>3. oci' = [oci EXCEPT !.part = [oci.part EXCEPT ![mem.upload] = held]]
        BY <1>1 DEF Typed, TOci
  <2> HIDE DEF held
  <2>4. [oci.part EXCEPT ![mem.upload] = held] \in [Uploads -> Evidence]
        BY <2>1, <2>2
  <2>. QED BY <2>3, <2>4 DEF Typed, TOci
<1>. QED BY <1>1, <1>5, <1>6, SameTypes DEF Typed, PartsOf

LEMMA TRecordPart == ASSUME IInv, KInv, Typed, VisitedIsHeld, RecordPart PROVE Typed'
<1> DEFINE payload == SourceRange(mem.next, obj.partSize)
<1>1. /\ UNCHANGED <<size, oci>> /\ pc' = "parts" /\ pc = "uploaded"
      /\ obj' = [obj EXCEPT !.rows[mem.next] = payload]
      /\ mem' = [mem EXCEPT !.persisted[mem.next] = payload, !.next = mem.next + 1]
      BY DEF RecordPart
<1>2. mem.next <= PartsOf(obj.partSize) /\ Copying
      BY <1>1 DEF VisitedIsHeld, Copying
<1>3. mem.next \in 1..PartsOf(obj.partSize) /\ mem.next \in Parts /\ mem.next + 1 \in 1..(MaxParts + 1)
      BY <1>2, CopyingFacts, SizeAssumption DEF Parts
<1>4. payload \in Seq(1..size)
      BY <1>2, <1>3, CopyingFacts, RangeIsBytes
<1> HIDE DEF payload
<1>5. obj' \in TObj /\ obj'.partSize = obj.partSize
  <2>1. obj.rows \in Evidence
        BY DEF Typed, TObj
  <2>2. [obj.rows EXCEPT ![mem.next] = payload] \in Evidence
        BY <1>3, <1>4, <2>1 DEF Evidence
  <2>3. obj' = [obj EXCEPT !.rows = [obj.rows EXCEPT ![mem.next] = payload]]
        BY <1>1 DEF Typed, TObj
  <2>. QED BY <2>2, <2>3 DEF Typed, TObj
<1>6. mem' \in TMem
  <2>1. mem.persisted \in Evidence
        BY DEF Typed, TMem
  <2>2. [mem.persisted EXCEPT ![mem.next] = payload] \in Evidence
        BY <1>3, <1>4, <2>1 DEF Evidence
  <2>3. mem' = [mem EXCEPT !.persisted = [mem.persisted EXCEPT ![mem.next] = payload], !.next = mem.next + 1]
        BY <1>1 DEF Typed, TMem
  <2>. QED BY <1>3, <2>2, <2>3 DEF Typed, TMem
<1>. QED BY <1>1, <1>5, <1>6, SameTypes DEF Typed, PartsOf

\* OCI assembles the source.
LEMMA Assembled ==
    ASSUME IInv, KInv, Typed, VisitedIsHeld, CommitUpload
    PROVE  /\ oci'.object = Bytes /\ UNCHANGED <<size, obj, mem>> /\ pc' = "accepted"
           /\ oci'.part = oci.part /\ oci'.open = oci.open \ {mem.upload}
           /\ oci' \in TOci
<1>1. /\ UNCHANGED <<size, obj, mem>> /\ pc' = "accepted" /\ Copying
      /\ ~(mem.next <= PartsOf(obj.partSize))
      /\ oci' = [oci EXCEPT !.object = FlattenSeq([n \in 1..PartsOf(obj.partSize) |-> oci.part[mem.upload][n]]),
                            !.open = oci.open \ {mem.upload}]
      BY DEF CommitUpload, MorePart, Copying
<1> DEFINE N == PartsOf(obj.partSize)
<1>2. /\ N \in Nat \ {0} /\ N <= MaxParts /\ mem.upload = obj.upload /\ mem.next \in Nat
      /\ obj.partSize \in Nat \ {0} /\ size \in Nat \ {0}
      BY <1>1, CopyingFacts
<1>3. ~(mem.next <= N)
      BY <1>1
<1>4. \A n \in Parts : n < mem.next => oci.part[obj.upload][n] = SourceRange(n, obj.partSize)
      BY <1>1 DEF VisitedIsHeld
<1> HIDE DEF N
<1>5. \A n \in 1..N : oci.part[mem.upload][n] = SourceRange(n, obj.partSize)
  <2>1. \A n \in 1..N : n \in Parts /\ n < mem.next
        BY <1>2, <1>3, SizeAssumption DEF Parts
  <2>. QED BY <1>2, <1>4, <2>1
<1>6. [n \in 1..N |-> oci.part[mem.upload][n]] = [n \in 1..N |-> SourceRange(n, obj.partSize)]
      BY <1>5
<1>7. FlattenSeq([n \in 1..N |-> SourceRange(n, obj.partSize)]) = Bytes
      BY <1>2, RangesMakeTheObject DEF N
<1>8. oci' = [oci EXCEPT !.object = Bytes, !.open = oci.open \ {mem.upload}]
      BY <1>1, <1>6, <1>7 DEF N
<1>9. Bytes \in Seq(1..size)
      BY <1>2 DEF Bytes
<1>. QED BY <1>1, <1>8, <1>9 DEF Typed, TOci

LEMMA TCommit == ASSUME IInv, KInv, Typed, VisitedIsHeld, CommitUpload PROVE Typed'
    BY Assembled, SameTypes DEF Typed, PartsOf

LEMMA TDelivery == ASSUME Typed, RecordDelivery PROVE Typed'
<1>1. UNCHANGED <<size, oci>> /\ pc' = "idle" /\ mem' = NoMem
      BY DEF RecordDelivery
<1>2. obj' \in TObj /\ obj'.partSize = obj.partSize
      BY EmptyIsEvidence DEF Typed, RecordDelivery, TObj, TMem
<1>3. mem' \in TMem
      BY <1>1, EmptyIsEvidence, SizeAssumption DEF NoMem, TMem
<1>. QED BY <1>1, <1>2, <1>3, SameTypes DEF Typed, PartsOf

LEMMA TFault == ASSUME Typed, Fault \/ UNCHANGED vars PROVE Typed'
<1>1. CASE Interrupt
  <2>1. mem' \in TMem
        BY <1>1, EmptyIsEvidence, SizeAssumption DEF Interrupt, NoMem, TMem
  <2>. QED BY <1>1, <2>1, SameTypes DEF Interrupt, Typed, PartsOf
<1>2. CASE AbortUpload
  <2>1. oci' \in TOci
        BY <1>2 DEF Typed, AbortUpload, TOci
  <2>. QED BY <1>2, <2>1, SameTypes DEF AbortUpload, Typed, PartsOf
<1>3. CASE Reprocess
  <2>1. obj' \in TObj /\ obj'.partSize = obj.partSize
        BY <1>3 DEF Typed, Reprocess, TObj
  <2>. QED BY <1>3, <2>1, SameTypes DEF Reprocess, Typed, PartsOf
<1>4. CASE UNCHANGED vars
      BY <1>4, SameTypes DEF vars, Typed, PartsOf
<1>. QED BY <1>1, <1>2, <1>3, <1>4 DEF Fault

LEMMA TNext == IInv /\ KInv /\ Typed /\ VisitedIsHeld /\ [Next]_vars => Typed'
    BY TBegin, TPut, TReconcile, TCreate, TRecord, TReuse, TUpload, TRecordPart, TCommit, TDelivery, TFault
       DEF Next, Stream


-----------------------------------------------------------------------------
(* DInv: no step records more than the destination holds *)

LEMMA DInit == Init => DInv
<1> SUFFICES ASSUME Init PROVE DInv
    OBVIOUS
<1>. QED BY DEF Init, DInv, EvidenceIsInRows, AcceptedIsRange, NothingListed, VisitedIsHeld, Copying,
        ResumedKnowsRows, FreshHasDigest, AcceptedIsWhole, DeliveredIsExact, NoMem

LEMMA DBegin == ASSUME IInv, KInv, Typed, DInv, Begin PROVE DInv'
<1>1. /\ obj'.upload = obj.upload /\ obj'.partSize = obj.partSize /\ obj'.rows = obj.rows
      /\ obj'.json = obj.json /\ obj'.state = "TRANSFERRING" /\ UNCHANGED <<size, oci>>
      /\ mem'.persisted = (IF obj.rows # Empty THEN obj.rows ELSE obj.json)
      /\ mem'.remote = Empty /\ mem'.next = 1
      BY DEF IInv, Shape, Begin, NoMem
<1>2. pc' \in {"put", "reconcile", "create"} /\ (pc' = "reconcile" => obj.upload # NoUpload)
      BY DEF Begin
<1>3. EvidenceIsInRows' /\ AcceptedIsRange'
      BY <1>1, SameRange, SameTypes DEF DInv, EvidenceIsInRows, AcceptedIsRange, PartsOf
<1>4. ResumedKnowsRows'
      BY <1>1, <1>2 DEF DInv, EvidenceIsInRows, ResumedKnowsRows, Copying
<1>. QED BY <1>1, <1>2, <1>3, <1>4 DEF DInv, NothingListed, VisitedIsHeld, Copying,
        FreshHasDigest, AcceptedIsWhole, DeliveredIsExact

LEMMA DPut == ASSUME IInv, KInv, Typed, DInv, PutDirect PROVE DInv'
<1>1. /\ UNCHANGED <<size, obj>> /\ oci'.part = oci.part /\ oci'.object = Bytes /\ pc' = "accepted" /\ pc = "put"
      BY DEF IInv, Shape, PutDirect
<1>2. size <= DirectLimit /\ size \in Nat /\ DirectLimit \in Nat
      BY <1>1, SizeAssumption DEF IInv, Owned, Typed
<1>3. EvidenceIsInRows' /\ AcceptedIsRange'
      BY <1>1, SameRange, SameTypes DEF DInv, EvidenceIsInRows, AcceptedIsRange, PartsOf
<1>4. AcceptedIsWhole'
      BY <1>1, <1>2, SameTypes DEF AcceptedIsWhole
<1>5. DeliveredIsExact'
      BY <1>1 DEF DInv, DeliveredIsExact
<1>. QED BY <1>1, <1>3, <1>4, <1>5 DEF DInv, NothingListed, VisitedIsHeld, Copying,
        FreshHasDigest, ResumedKnowsRows

LEMMA DReconcile == ASSUME IInv, KInv, Typed, DInv, Reconcile PROVE DInv'
<1>1. UNCHANGED <<size, oci>> /\ pc = "reconcile" /\ mem.upload = obj.upload /\ obj.upload # NoUpload
      BY DEF IInv, Owned, KInv, Sizes0, Reconcile
<1>2. obj.state # "TRANSFERRED" /\ obj'.state = obj.state
      BY <1>1 DEF DInv, DeliveredIsExact, IInv, Shape, Reconcile
<1>3. mem.next = 1 /\ mem.remote = Empty /\ mem.persisted = obj.rows
      BY <1>1 DEF DInv, NothingListed, ResumedKnowsRows
<1>4. CASE mem.upload \in oci.open
  <2>1. mem'.persisted = mem.persisted /\ mem'.next = mem.next
          /\ mem'.remote = oci.part[obj.upload] /\ pc' = "parts" /\ UNCHANGED obj
        BY <1>1, <1>4 DEF IInv, Shape, Reconcile
  <2>2. EvidenceIsInRows' /\ AcceptedIsRange'
        BY <1>1, <2>1, SameRange, SameTypes DEF DInv, EvidenceIsInRows, AcceptedIsRange, PartsOf
  <2>3. \A n \in Parts : ~(n < 1)
        BY DEF Parts
  <2>4. PartsOf(obj.partSize) \in Nat /\ PartsOf(obj.partSize)' = PartsOf(obj.partSize)
        BY <1>1, <2>1, PartsCover, SizeAssumption DEF KInv, Sizes0, PartsOf
  <2>5. mem'.next <= PartsOf(obj.partSize)' + 1
        BY <1>3, <2>1, <2>4
  <2>6. VisitedIsHeld'
        BY <1>1, <1>3, <2>1, <2>3, <2>5 DEF VisitedIsHeld, Copying
  <2>7. ResumedKnowsRows' /\ FreshHasDigest'
        BY <1>3, <2>1, <2>3 DEF ResumedKnowsRows, FreshHasDigest
  <2>. QED BY <1>2, <2>1, <2>2, <2>6, <2>7 DEF DInv, NothingListed, AcceptedIsWhole, DeliveredIsExact
<1>5. CASE mem.upload \notin oci.open
  <2>1. obj'.upload = NoUpload /\ mem'.remote = mem.remote /\ mem'.next = mem.next /\ pc' = "create"
        BY <1>1, <1>5 DEF IInv, Shape, Reconcile
  <2>. QED BY <1>2, <1>3, <2>1 DEF DInv, EvidenceIsInRows, AcceptedIsRange, NothingListed, VisitedIsHeld, Copying,
        ResumedKnowsRows, FreshHasDigest, AcceptedIsWhole, DeliveredIsExact
<1>. QED BY <1>4, <1>5

LEMMA DCreate == ASSUME IInv, KInv, Typed, DInv, CreateUpload PROVE DInv'
<1>1. PICK u \in Uploads :
        /\ oci' = [oci EXCEPT !.open = oci.open \cup {u}, !.part[u] = Empty]
        /\ mem' = [mem EXCEPT !.upload = u]
      BY DEF CreateUpload
<1>2. /\ pc = "create" /\ pc' = "created" /\ UNCHANGED <<size, obj>>
      /\ obj.upload = NoUpload /\ obj.state # "TRANSFERRED"
      BY DEF CreateUpload, IInv, Owned, DInv, DeliveredIsExact
<1>3. mem'.upload = u /\ mem'.remote = mem.remote /\ mem'.next = mem.next
      BY <1>1 DEF IInv, Shape
<1>4. oci'.part[u] = Empty
      BY <1>1 DEF KInv, Sizes0, IInv, Shape
<1>5. mem.remote = Empty /\ mem.next = 1
      BY <1>2 DEF DInv, NothingListed
<1>. QED BY <1>2, <1>3, <1>4, <1>5 DEF DInv, EvidenceIsInRows, AcceptedIsRange, NothingListed, VisitedIsHeld, Copying,
        ResumedKnowsRows, FreshHasDigest, AcceptedIsWhole, DeliveredIsExact

LEMMA DRecordUpload == ASSUME IInv, KInv, Typed, DInv, RecordUpload PROVE DInv'
<1>1. PICK configured \in PartSizes :
        obj' = [obj EXCEPT !.upload = mem.upload, !.partSize = EffectivePartSize(configured),
                           !.rows = Empty, !.json = Empty]
      BY DEF RecordUpload
<1>2. /\ obj'.upload = mem.upload /\ obj'.partSize = EffectivePartSize(configured)
      /\ obj'.rows = Empty /\ obj'.json = Empty /\ obj'.state = obj.state
      BY <1>1 DEF IInv, Shape
<1>3. /\ pc = "created" /\ pc' = "parts" /\ UNCHANGED <<size, oci, mem>>
      /\ mem.remote = Empty /\ mem.next = 1 /\ oci.part[mem.upload] = Empty
      /\ obj.state # "TRANSFERRED"
      BY DEF RecordUpload, DInv, NothingListed, DeliveredIsExact
<1>4. size \in Nat \ {0}
      BY CopyingFacts
<1>5. EffectivePartSize(configured) \in Nat \ {0}
      BY <1>4, PartsFit
<1>6. PartsOf(obj.partSize)' = PartsOf(EffectivePartSize(configured)) /\ PartsOf(EffectivePartSize(configured)) \in Nat
      BY <1>2, <1>3, <1>4, <1>5, PartsCover DEF PartsOf
<1>7. mem'.next <= PartsOf(obj.partSize)' + 1
      BY <1>3, <1>6
<1>8. \A n \in Parts : ~(n < 1) /\ Empty[n] = Absent
      BY DEF Parts, Empty
<1>9. EvidenceIsInRows' /\ AcceptedIsRange'
      BY <1>2, <1>3, <1>8 DEF EvidenceIsInRows, AcceptedIsRange
<1>10. VisitedIsHeld'
      BY <1>2, <1>3, <1>7, <1>8 DEF VisitedIsHeld
<1>11. NothingListed' /\ ResumedKnowsRows' /\ FreshHasDigest' /\ AcceptedIsWhole' /\ DeliveredIsExact'
      BY <1>2, <1>3 DEF NothingListed, ResumedKnowsRows, FreshHasDigest, AcceptedIsWhole, DeliveredIsExact
<1>. QED BY <1>9, <1>10, <1>11 DEF DInv

LEMMA DReuse == ASSUME IInv, KInv, Typed, DInv, ReusePart PROVE DInv'
<1>1. /\ UNCHANGED <<size, obj, oci, pc>> /\ pc = "parts" /\ Copying
      /\ mem'.next = mem.next + 1 /\ mem'.remote = mem.remote /\ mem'.persisted = mem.persisted
      /\ mem'.digest = mem.digest /\ mem'.upload = mem.upload
      BY DEF ReusePart, MorePart, Copying, IInv, Shape
<1>2. mem.next <= PartsOf(obj.partSize)
      BY DEF ReusePart, MorePart
<1>3. /\ mem.next \in Parts /\ PartsOf(obj.partSize) \in Nat /\ mem.next \in Nat
      /\ obj.upload \in Uploads
      BY <1>1, <1>2, CopyingFacts, SizeAssumption DEF Parts
<1>4. mem.remote[mem.next] # Absent /\ mem.persisted[mem.next] # Absent
      BY DEF ReusePart, ReuseNext, Reusable
<1>5. mem.remote # Empty
      BY <1>3, <1>4 DEF Empty
<1>6. oci.part[obj.upload][mem.next] = SourceRange(mem.next, obj.partSize)
      BY <1>1, <1>3, <1>4, UploadAssumption DEF DInv, VisitedIsHeld, AcceptedIsRange
<1>7. \A n \in Parts : n < mem.next + 1 => n < mem.next \/ n = mem.next
      BY <1>3 DEF Parts
<1>8. EvidenceIsInRows' /\ AcceptedIsRange'
      BY <1>1, SameRange, SameTypes DEF DInv, EvidenceIsInRows, AcceptedIsRange, PartsOf
<1>9. PartsOf(obj.partSize)' = PartsOf(obj.partSize)
      BY <1>1 DEF PartsOf
<1>10. mem.next + 1 <= PartsOf(obj.partSize) + 1
      BY <1>2, <1>3
<1>11. \A n \in Parts : n < mem.next + 1 => oci.part[obj.upload][n] = SourceRange(n, obj.partSize)
      BY <1>1, <1>6, <1>7 DEF DInv, VisitedIsHeld
<1>12. \A n \in Parts : SourceRange(n, obj.partSize)' = SourceRange(n, obj.partSize)
      BY <1>1 DEF SourceRange, ExpectedPartSize, Bytes, LeastOf
<1>13. VisitedIsHeld'
      BY <1>1, <1>9, <1>10, <1>11, <1>12 DEF DInv, VisitedIsHeld, Copying
<1>14. ResumedKnowsRows' /\ FreshHasDigest'
      BY <1>1, <1>4, <1>5, <1>7 DEF DInv, ResumedKnowsRows, FreshHasDigest, Copying
<1>. QED BY <1>1, <1>8, <1>13, <1>14 DEF DInv, NothingListed, AcceptedIsWhole, DeliveredIsExact

\* The length of the part size in parts and the ranges do not change in a step
\* that leaves the size and the part size alone.
LEMMA SameParts ==
    ASSUME UNCHANGED size, obj'.partSize = obj.partSize
    PROVE  /\ PartsOf(obj.partSize)' = PartsOf(obj.partSize) /\ Bytes' = Bytes
           /\ \A n \in Parts : SourceRange(n, obj.partSize)' = SourceRange(n, obj.partSize)
    BY DEF PartsOf, SourceRange, ExpectedPartSize, Bytes, LeastOf

LEMMA DUpload == ASSUME IInv, KInv, Typed, DInv, UploadPart PROVE DInv'
<1> DEFINE payload == SourceRange(mem.next, obj.partSize)
<1>1. /\ UNCHANGED <<size, obj>> /\ pc = "parts" /\ pc' = "uploaded" /\ Copying
      /\ mem'.next = mem.next /\ mem'.remote = mem.remote /\ mem'.persisted = mem.persisted
      /\ mem'.digest = mem.digest \o payload \o payload /\ mem'.upload = mem.upload
      BY DEF UploadPart, MorePart, Copying, IInv, Shape
<1>2. mem.next <= PartsOf(obj.partSize)
      BY DEF UploadPart, MorePart
<1>3. /\ mem.next \in Parts /\ mem.next \in 1..PartsOf(obj.partSize) /\ mem.upload = obj.upload
      /\ obj.upload \in Uploads /\ size \in Nat \ {0} /\ obj.partSize \in Nat \ {0}
      /\ PartsOf(obj.partSize) \in Nat
      BY <1>1, <1>2, CopyingFacts, SizeAssumption DEF Parts
<1>4. payload \in Seq(1..size) /\ payload # Absent
      BY <1>3, RangeIsBytes
<1>5. oci' = [oci EXCEPT !.part[mem.upload][mem.next] = payload]
      BY DEF UploadPart
<1> HIDE DEF payload
<1>6. \A n \in Parts : oci'.part[obj.upload][n] = IF n = mem.next THEN payload ELSE oci.part[obj.upload][n]
  <2> DEFINE held == [oci.part[obj.upload] EXCEPT ![mem.next] = payload]
  <2>1. oci.part \in [Uploads -> Evidence]
        BY DEF Typed, TOci
  <2>2. \A n \in Parts : held[n] = IF n = mem.next THEN payload ELSE oci.part[obj.upload][n]
        BY <1>3, <2>1 DEF Evidence
  <2>3. oci'.part = [oci.part EXCEPT ![obj.upload] = held]
        BY <1>3, <1>5 DEF IInv, Shape
  <2> HIDE DEF held
  <2>4. oci'.part[obj.upload] = held
        BY <1>3, <2>1, <2>3
  <2>. QED BY <2>2, <2>4
<1>7. /\ PartsOf(obj.partSize)' = PartsOf(obj.partSize) /\ payload = SourceRange(mem.next, obj.partSize)
      /\ \A n \in Parts : SourceRange(n, obj.partSize)' = SourceRange(n, obj.partSize)
      BY <1>1, SameParts DEF payload
<1>8. EvidenceIsInRows' /\ AcceptedIsRange'
      BY <1>1, <1>6, <1>7 DEF DInv, EvidenceIsInRows, AcceptedIsRange
<1>9. VisitedIsHeld'
  <2>1. mem'.next <= PartsOf(obj.partSize)' + 1
        BY <1>1, <1>2, <1>3, <1>7
  <2>. QED BY <1>1, <1>2, <1>4, <1>6, <1>7, <2>1 DEF DInv, VisitedIsHeld, Copying
<1>10. mem'.digest # Absent
  <2>1. mem.digest \in Seq(1..size)
        BY DEF Typed, TMem
  <2> DEFINE d == mem.digest
  <2> HIDE DEF d
  <2>2. d \o payload \in Seq(1..size)
        BY <1>4, <2>1 DEF d
  <2>3. d \o payload \o payload # <<>>
    <3>1. Len(payload) # 0
          BY <1>4, EmptySeq DEF Absent
    <3>2. Len(d \o payload \o payload) = Len(d \o payload) + Len(payload)
          BY <1>4, <2>2
    <3>3. Len(d \o payload \o payload) # 0 /\ Len(<<>>) = 0
          BY <1>4, <2>2, <3>1, <3>2
    <3>. QED BY <3>3
  <2>. QED BY <1>1, <2>3 DEF d, Absent
<1>11. ResumedKnowsRows' /\ FreshHasDigest'
      BY <1>1, <1>10 DEF DInv, ResumedKnowsRows, FreshHasDigest, Copying
<1>. QED BY <1>1, <1>8, <1>9, <1>11 DEF DInv, NothingListed, AcceptedIsWhole, DeliveredIsExact

LEMMA DRecordPart == ASSUME IInv, KInv, Typed, DInv, RecordPart PROVE DInv'
<1> DEFINE payload == SourceRange(mem.next, obj.partSize)
<1>1. /\ UNCHANGED <<size, oci>> /\ pc = "uploaded" /\ pc' = "parts" /\ Copying
      /\ obj' = [obj EXCEPT !.rows[mem.next] = payload]
      /\ mem' = [mem EXCEPT !.persisted[mem.next] = payload, !.next = mem.next + 1]
      BY DEF RecordPart, Copying
<1>2. mem.next <= PartsOf(obj.partSize)
      BY <1>1 DEF DInv, VisitedIsHeld
<1>3. /\ mem.next \in Parts /\ mem.next \in 1..PartsOf(obj.partSize) /\ obj.upload \in Uploads
      /\ size \in Nat \ {0} /\ obj.partSize \in Nat \ {0} /\ PartsOf(obj.partSize) \in Nat
      BY <1>1, <1>2, CopyingFacts, SizeAssumption DEF Parts
<1>4. payload # Absent
      BY <1>3, RangeIsBytes
<1>5. oci.part[obj.upload][mem.next] = payload
      BY <1>1 DEF KInv, SentIsNew
<1> HIDE DEF payload
<1>6. /\ obj'.upload = obj.upload /\ obj'.partSize = obj.partSize /\ obj'.json = obj.json
      /\ obj'.state = obj.state /\ obj'.rows = [obj.rows EXCEPT ![mem.next] = payload]
      /\ \A n \in Parts : obj'.rows[n] = IF n = mem.next THEN payload ELSE obj.rows[n]
      BY <1>1 DEF IInv, Shape
<1>7. /\ mem'.next = mem.next + 1 /\ mem'.remote = mem.remote /\ mem'.upload = mem.upload
      /\ mem'.digest = mem.digest
      /\ mem'.persisted = [mem.persisted EXCEPT ![mem.next] = payload]
      BY <1>1 DEF IInv, Shape
<1>8. /\ PartsOf(obj.partSize)' = PartsOf(obj.partSize) /\ payload = SourceRange(mem.next, obj.partSize)
      /\ \A n \in Parts : SourceRange(n, obj.partSize)' = SourceRange(n, obj.partSize)
      BY <1>1, <1>6, SameParts DEF payload
<1>9. EvidenceIsInRows' /\ AcceptedIsRange'
      BY <1>1, <1>2, <1>6, <1>8 DEF DInv, EvidenceIsInRows, AcceptedIsRange
<1>10. \A n \in Parts : n < mem.next + 1 => n < mem.next \/ n = mem.next
      BY <1>3 DEF Parts
<1>11. mem'.next <= PartsOf(obj.partSize)' + 1
      BY <1>2, <1>3, <1>7, <1>8 DEF Parts
<1>12. VisitedIsHeld'
      BY <1>1, <1>5, <1>6, <1>7, <1>8, <1>10, <1>11 DEF DInv, VisitedIsHeld, Copying
<1>13. ResumedKnowsRows' /\ FreshHasDigest'
  <2>1. mem.remote = Empty => mem.digest # Absent
        BY <1>1 DEF DInv, FreshHasDigest
  <2>2. mem.remote # Empty => mem.persisted = obj.rows
        BY <1>1 DEF DInv, ResumedKnowsRows
  <2>3. mem.remote # Empty => \A n \in Parts : n < mem.next + 1 => obj'.rows[n] # Absent
        BY <1>1, <1>4, <1>6, <1>10 DEF DInv, ResumedKnowsRows
  <2>. QED BY <1>1, <1>6, <1>7, <2>1, <2>2, <2>3 DEF ResumedKnowsRows, FreshHasDigest, Copying
<1>14. DeliveredIsExact'
      BY <1>1, <1>6 DEF DInv, DeliveredIsExact
<1>. QED BY <1>1, <1>9, <1>12, <1>13, <1>14 DEF DInv, NothingListed, AcceptedIsWhole

LEMMA DCommit == ASSUME IInv, KInv, Typed, DInv, CommitUpload PROVE DInv'
<1>1. /\ oci'.object = Bytes /\ UNCHANGED <<size, obj, mem>> /\ pc' = "accepted" /\ pc = "parts" /\ Copying
      /\ oci'.part = oci.part /\ ~(mem.next <= PartsOf(obj.partSize))
      BY Assembled DEF DInv, CommitUpload, MorePart, Copying
<1>2. /\ PartsOf(obj.partSize)' = PartsOf(obj.partSize) /\ Bytes' = Bytes
      /\ \A n \in Parts : SourceRange(n, obj.partSize)' = SourceRange(n, obj.partSize)
      BY <1>1, SameParts
<1>3. /\ PartsOf(obj.partSize) \in Nat \ {0} /\ PartsOf(obj.partSize) <= MaxParts /\ mem.next \in Nat
      /\ obj.partSize \in Nat \ {0} /\ size \in Nat \ {0} /\ obj.upload \in Uploads
      BY <1>1, CopyingFacts
<1>4. EvidenceIsInRows' /\ AcceptedIsRange'
      BY <1>1, <1>2 DEF DInv, EvidenceIsInRows, AcceptedIsRange
<1>5. mem.next > 1
      BY <1>1, <1>3
<1>6. mem.remote = Empty => mem.digest # Absent
      BY <1>1, <1>5 DEF DInv, FreshHasDigest
<1>7. ASSUME mem.remote # Empty PROVE AuditMatches(mem.persisted, Bytes, obj.partSize)
  <2>1. mem.persisted = obj.rows /\ \A n \in Parts : n < mem.next => obj.rows[n] # Absent
        BY <1>1, <1>7 DEF DInv, ResumedKnowsRows
  <2>2. \A n \in Parts : obj.rows[n] # Absent => n <= PartsOf(obj.partSize) /\ obj.rows[n] = SourceRange(n, obj.partSize)
        BY <1>3, UploadAssumption DEF DInv, EvidenceIsInRows, IInv, RowsAreRanges
  <2>3. Len(Bytes) = size
        BY <1>3 DEF Bytes
  <2>4. \A n \in Parts : n > PartsOf(obj.partSize) => mem.persisted[n] = Absent
        BY <1>3, <2>1, <2>2 DEF Parts
  <2>5. \A n \in Parts : ~(n > PartsOf(obj.partSize)) =>
           mem.persisted[n] = SubSeq(Bytes, (n - 1) * obj.partSize + 1, LeastOf(n * obj.partSize, size))
    <3>. SUFFICES ASSUME NEW n \in Parts, ~(n > PartsOf(obj.partSize))
                  PROVE  mem.persisted[n] = SubSeq(Bytes, (n - 1) * obj.partSize + 1, LeastOf(n * obj.partSize, size))
         OBVIOUS
    <3>1. n \in 1..PartsOf(obj.partSize) /\ n < mem.next
          BY <1>1, <1>3 DEF Parts
    <3>2. mem.persisted[n] = SourceRange(n, obj.partSize)
          BY <2>1, <2>2, <3>1
    <3>. QED BY <1>3, <3>1, <3>2, RangeIsSlice
  <2>. QED BY <2>3, <2>4, <2>5 DEF AuditMatches
<1>8. AuditMatches(mem.persisted, Bytes, obj.partSize)' = AuditMatches(mem.persisted, Bytes, obj.partSize)
      BY <1>1, <1>2 DEF AuditMatches
<1>9. AcceptedIsWhole'
      BY <1>1, <1>2, <1>6, <1>7, <1>8 DEF AcceptedIsWhole
<1>10. DeliveredIsExact'
      BY <1>1 DEF DInv, DeliveredIsExact
<1>. QED BY <1>1, <1>4, <1>9, <1>10 DEF DInv, NothingListed, VisitedIsHeld, ResumedKnowsRows, FreshHasDigest, Copying

LEMMA DDelivery == ASSUME IInv, KInv, Typed, DInv, RecordDelivery PROVE DInv'
<1>1. UNCHANGED <<size, oci>> /\ pc = "accepted" /\ pc' = "idle" /\ mem' = NoMem
      BY DEF RecordDelivery
<1>2. /\ obj'.partSize = obj.partSize /\ obj'.state = "TRANSFERRED"
      /\ size <= DirectLimit => obj'.upload = obj.upload /\ obj'.rows = obj.rows /\ obj'.json = obj.json
      /\ ~(size <= DirectLimit) => /\ obj'.upload = NoUpload /\ obj'.json = mem.persisted
                                   /\ obj'.checksum = IF mem.remote = Empty THEN mem.digest ELSE Absent
      BY DEF IInv, Shape, RecordDelivery
<1>3. /\ PartsOf(obj.partSize)' = PartsOf(obj.partSize) /\ Bytes' = Bytes
      /\ \A n \in Parts : SourceRange(n, obj.partSize)' = SourceRange(n, obj.partSize)
      BY <1>1, <1>2, SameParts
<1>4. EvidenceIsInRows' /\ AcceptedIsRange'
      BY <1>1, <1>2, <1>3 DEF DInv, EvidenceIsInRows, AcceptedIsRange
<1>5. size > DirectLimit <=> ~(size <= DirectLimit)
      BY SizeAssumption DEF Typed
<1>6. DeliveredIsExact'
  <2>1. oci'.object = Bytes'
        BY <1>1, <1>3 DEF DInv, AcceptedIsWhole
  <2>2. ASSUME size > DirectLimit, obj'.checksum = Absent
        PROVE  AuditMatches(obj.json, Bytes, obj.partSize)'
    <3>1. mem.remote # Empty /\ obj'.json = mem.persisted
          BY <1>1, <1>2, <1>5, <2>2 DEF DInv, AcceptedIsWhole
    <3>2. AuditMatches(mem.persisted, Bytes, obj.partSize)
          BY <1>1, <2>2, <3>1 DEF DInv, AcceptedIsWhole
    <3>. QED BY <1>1, <1>2, <1>3, <3>1, <3>2 DEF AuditMatches
  <2>. QED BY <1>1, <2>1, <2>2 DEF DeliveredIsExact
<1>. QED BY <1>1, <1>4, <1>6 DEF DInv, NothingListed, VisitedIsHeld, ResumedKnowsRows, FreshHasDigest, Copying,
        AcceptedIsWhole

LEMMA DFault == ASSUME IInv, KInv, Typed, DInv, Fault \/ UNCHANGED vars PROVE DInv'
<1>1. CASE Interrupt
  <2>1. UNCHANGED <<size, obj, oci>> /\ pc # "idle" /\ pc' = "idle"
        BY <1>1 DEF Interrupt
  <2>2. PartsOf(obj.partSize)' = PartsOf(obj.partSize)
          /\ \A n \in Parts : SourceRange(n, obj.partSize)' = SourceRange(n, obj.partSize)
        BY <2>1, SameParts
  <2>. QED BY <2>1, <2>2 DEF DInv, EvidenceIsInRows, AcceptedIsRange, NothingListed, VisitedIsHeld, Copying,
        ResumedKnowsRows, FreshHasDigest, AcceptedIsWhole, DeliveredIsExact
<1>2. CASE AbortUpload \/ Reprocess \/ UNCHANGED vars
  <2>1. /\ UNCHANGED <<size, pc, mem>> /\ oci'.part = oci.part /\ oci'.object = oci.object
        /\ obj'.upload = obj.upload /\ obj'.partSize = obj.partSize /\ obj'.rows = obj.rows
        /\ obj'.json = obj.json /\ obj'.checksum = obj.checksum
        /\ obj'.state = obj.state \/ obj'.state = "RESTORED"
    <3>1. CASE AbortUpload
          BY <3>1 DEF AbortUpload, IInv, Shape
    <3>2. CASE Reprocess
          BY <3>2 DEF Reprocess, IInv, Shape
    <3>3. CASE UNCHANGED vars
          BY <3>3 DEF vars
    <3>. QED BY <1>2, <3>1, <3>2, <3>3
  <2>2. /\ PartsOf(obj.partSize)' = PartsOf(obj.partSize) /\ Bytes' = Bytes
        /\ \A n \in Parts : SourceRange(n, obj.partSize)' = SourceRange(n, obj.partSize)
        BY <2>1, SameParts
  <2>3. /\ AuditMatches(mem.persisted, Bytes, obj.partSize)' = AuditMatches(mem.persisted, Bytes, obj.partSize)
        /\ AuditMatches(obj.json, Bytes, obj.partSize)' = AuditMatches(obj.json, Bytes, obj.partSize)
        BY <2>1, <2>2 DEF AuditMatches
  <2>4. EvidenceIsInRows' /\ AcceptedIsRange' /\ NothingListed'
        BY <2>1, <2>2 DEF DInv, EvidenceIsInRows, AcceptedIsRange, NothingListed
  <2>5. VisitedIsHeld' /\ ResumedKnowsRows' /\ FreshHasDigest'
        BY <2>1, <2>2 DEF DInv, VisitedIsHeld, ResumedKnowsRows, FreshHasDigest, Copying
  <2>6. AcceptedIsWhole' /\ DeliveredIsExact'
        BY <2>1, <2>2, <2>3 DEF DInv, AcceptedIsWhole, DeliveredIsExact
  <2>. QED BY <2>4, <2>5, <2>6 DEF DInv
<1>. QED BY <1>1, <1>2 DEF Fault

LEMMA DNext == IInv /\ KInv /\ Typed /\ DInv /\ [Next]_vars => DInv'
    BY DBegin, DPut, DReconcile, DCreate, DRecordUpload, DReuse, DUpload, DRecordPart, DCommit,
       DDelivery, DFault DEF Next, Stream

LEMMA DInvariance == Spec => [](IInv /\ KInv /\ Typed /\ DInv)
<1>1. IInv /\ KInv /\ Typed /\ DInv /\ [Next]_vars => Typed'
      BY TNext DEF DInv
<1>. QED BY <1>1, InitInv, NextInv, KInit, KNext, TInit, DInit, DNext, PTL DEF Spec

\* The row, the destination and the stream stay well formed, and no part size
\* ever asks for more parts than OCI takes.
THEOREM TypeCorrect == Spec => []TypeOK
<1>1. Typed => TypeOK
      BY TypedIsTypeOK
<1>. QED BY <1>1, DInvariance, PTL

\* However often a copy was interrupted, aborted or reconfigured, and whichever
\* parts came from which run, what a TRANSFERRED row stands for is the source.
THEOREM DeliveryIsWhole == Spec => []DeliveredIsWhole
<1>1. DInv => DeliveredIsWhole
      BY DEF DInv, DeliveredIsExact, DeliveredIsWhole
<1>. QED BY <1>1, DInvariance, PTL

\* The digests that a resumed delivery leaves for the audit are those of the
\* parts of the destination, for the part size of its row, and no others.
THEOREM EvidenceIsExact == Spec => []PartEvidenceIsExact
<1>1. DInv => PartEvidenceIsExact
      BY DEF DInv, DeliveredIsExact, PartEvidenceIsExact
<1>. QED BY <1>1, DInvariance, PTL

-----------------------------------------------------------------------------
(* The stream implements ObjectCopy *)

LEMMA CopyInit == Init => Copy!Init
<1> SUFFICES ASSUME Init PROVE Copy!Init
    OBVIOUS
<1>1. obj.state = "RESTORED" /\ ~(pc # "idle") /\ oci.object = <<>>
      BY DEF Init, Absent
<1>2. Len(Bytes) = size /\ size # 0
      BY SizeAssumption DEF Init, Bytes
<1>3. Bytes # <<>>
      BY <1>2
<1>. QED BY <1>1, <1>3 DEF Copy!Init

LEMMA CopyStep ==
    ASSUME IInv, KInv, Typed, DInv, [Next]_vars
    PROVE  [Copy!Next]_(Copy!vars)
<1> USE DEF Copy!Next, Copy!vars
<1>1. CASE Begin
  <2>1. obj'.state = "TRANSFERRING" /\ UNCHANGED <<size, oci>> /\ pc = "idle" /\ pc' # "idle"
          /\ obj.state \in {"RESTORED", "TRANSFERRING"}
        BY <1>1 DEF Begin, IInv, Shape
  <2>2. (oci.object = Bytes)' = (oci.object = Bytes)
        BY <2>1, SameTypes
  <2>. QED BY <2>1, <2>2 DEF Copy!Start
<1>2. CASE PutDirect \/ CommitUpload
  <2>1. obj' = obj /\ oci'.object = Bytes /\ UNCHANGED size /\ pc # "idle" /\ pc' # "idle"
        BY <1>2, Assembled DEF PutDirect, IInv, Shape, DInv, CommitUpload, MorePart
  <2>2. (oci.object = Bytes)'
        BY <2>1, SameTypes
  <2>. QED BY <2>1, <2>2 DEF Copy!Arrive
<1>3. CASE RecordDelivery
  <2>1. /\ obj'.state = "TRANSFERRED" /\ UNCHANGED <<size, oci>> /\ pc # "idle" /\ pc' = "idle"
        /\ oci.object = Bytes
        BY <1>3 DEF RecordDelivery, IInv, Shape, DInv, AcceptedIsWhole
  <2>2. (oci.object = Bytes)' = (oci.object = Bytes)
        BY <2>1, SameTypes
  <2>. QED BY <2>1, <2>2 DEF Copy!Deliver
<1>4. CASE Interrupt
  <2>1. UNCHANGED <<size, obj, oci>> /\ pc # "idle" /\ pc' = "idle"
        BY <1>4 DEF Interrupt
  <2>2. (oci.object = Bytes)' = (oci.object = Bytes)
        BY <2>1, SameTypes
  <2>. QED BY <2>1, <2>2 DEF Copy!Fail
<1>5. CASE Reprocess
  <2>1. obj.state = "TRANSFERRED" /\ obj'.state = "RESTORED" /\ UNCHANGED <<size, oci, pc>> /\ pc = "idle"
        BY <1>5 DEF Reprocess, IInv, Shape
  <2>2. (oci.object = Bytes)' = (oci.object = Bytes)
        BY <2>1, SameTypes
  <2>. QED BY <2>1, <2>2 DEF Copy!Again
<1>6. CASE \/ Reconcile \/ CreateUpload \/ RecordUpload \/ ReusePart \/ UploadPart \/ RecordPart
           \/ AbortUpload \/ UNCHANGED vars
  <2>1. obj'.state = obj.state /\ oci'.object = oci.object /\ UNCHANGED size
          /\ (pc' # "idle") = (pc # "idle")
    <3>1. CASE Reconcile
          BY <3>1 DEF Reconcile, IInv, Shape
    <3>2. CASE CreateUpload
          BY <3>2 DEF CreateUpload, IInv, Shape
    <3>3. CASE RecordUpload
          BY <3>3 DEF RecordUpload, IInv, Shape
    <3>4. CASE ReusePart
          BY <3>4 DEF ReusePart, MorePart
    <3>5. CASE UploadPart
          BY <3>5 DEF UploadPart, MorePart, IInv, Shape
    <3>6. CASE RecordPart
          BY <3>6 DEF RecordPart, IInv, Shape
    <3>7. CASE AbortUpload
          BY <3>7 DEF AbortUpload, IInv, Shape
    <3>8. CASE UNCHANGED vars
          BY <3>8 DEF vars
    <3>. QED BY <1>6, <3>1, <3>2, <3>3, <3>4, <3>5, <3>6, <3>7, <3>8
  <2>2. (oci.object = Bytes)' = (oci.object = Bytes)
        BY <2>1, SameTypes
  <2>. QED BY <2>1, <2>2
<1>. QED BY <1>1, <1>2, <1>3, <1>4, <1>5, <1>6 DEF Next, Stream, Fault

\* The stream implements the one-step copy that the transfer lane sees: its
\* steps are steps of ObjectCopy or leave it alone.
THEOREM StreamImplementsCopy == Spec => CopyIsAtomic
<1>1. IInv /\ KInv /\ Typed /\ DInv /\ [Next]_vars => [Copy!Next]_(Copy!vars)
      BY CopyStep
<1>. QED BY <1>1, CopyInit, DInvariance, PTL DEF Spec, CopyIsAtomic, Copy!Spec
=============================================================================
