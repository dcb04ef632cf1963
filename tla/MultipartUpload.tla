--------------------------- MODULE MultipartUpload ---------------------------
(***************************************************************************)
(* transfer_object (real_worker.py): the copy of one object from S3 to OCI *)
(* by a stream that may be interrupted between any two effects and started *)
(* again.  A small object is one PutObject; a large one is an OCI          *)
(* multipart upload whose id and accepted parts are checkpointed in the    *)
(* database.                                                               *)
(*                                                                         *)
(* obj is the object's database row with its checkpoint rows, oci the      *)
(* destination; both survive.  mem is what the stream knows and is lost    *)
(* with it.  A remote call and the commit that records it are two steps.   *)
(*                                                                         *)
(* Abstractions.  A payload is a sequence of bytes and its SHA-256 is the  *)
(* payload itself; byte i of the source is i.  The source does not change. *)
(* TransferLane shows that at most one stream copies an object.            *)
(***************************************************************************)
EXTENDS Naturals, Sequences, SequencesExt

CONSTANTS
    Sizes,        \* sizes the object may have
    PartSizes,    \* values the operator may configure for the part size
    DirectLimit,  \* DIRECT_SHA_LIMIT: up to it an object is one PutObject
    MaxParts,     \* MAX_MULTIPART_PARTS
    Uploads,      \* OCI upload ids
    NoUpload

ASSUME SizeAssumption ==
    /\ Sizes \subseteq Nat \ {0} /\ PartSizes \subseteq Nat \ {0}
    /\ DirectLimit \in Nat \ {0} /\ MaxParts \in Nat \ {0}
ASSUME UploadAssumption == NoUpload \notin Uploads

VARIABLES
    size,  \* size_bytes
    obj,   \* the row of the object
    oci,   \* the destination: its object and its open multipart uploads
    pc,    \* where the stream is; "idle" between streams
    mem    \* the local variables of the stream

vars == <<size, obj, oci, pc, mem>>

-----------------------------------------------------------------------------
(* Parts and evidence *)

Parts  == 1..MaxParts
Absent == <<>>    \* no such part, no digest
Empty  == [n \in Parts |-> Absent]
Bytes  == [i \in 1..size |-> i]

LeastOf(a, b)    == IF a < b THEN a ELSE b
GreatestOf(a, b) == IF a > b THEN a ELSE b
CeilDiv(a, b)    == (a + b - 1) \div b
PartsOf(ps)      == CeilDiv(size, ps)

\* Mutant: the OCI limit on the number of parts is forgotten.
PartSizeAsConfigured(configured) == GreatestOf(configured, DirectLimit)

\* effective_multipart_part_size
EffectivePartSize(configured) ==
    GreatestOf(GreatestOf(configured, CeilDiv(size, MaxParts)), DirectLimit)

\* expected_part_size, and the source range of the part.
ExpectedPartSize(n, ps) ==
    IF (n - 1) * ps >= size THEN 0 ELSE LeastOf(ps, size - (n - 1) * ps)
SourceRange(n, ps) == SubSeq(Bytes, (n - 1) * ps + 1, (n - 1) * ps + ExpectedPartSize(n, ps))

\* reusable_multipart_part
Reusable(remote, evidence, expected) ==
    remote # Absent /\ Len(remote) = expected /\ evidence # Absent

\* multipart_audit_matches: one digest per part of the destination, no more.
AuditMatches(evidence, object, ps) ==
    \A n \in Parts : evidence[n] = IF n > PartsOf(ps) THEN Absent
                                   ELSE SubSeq(object, (n - 1) * ps + 1, LeastOf(n * ps, Len(object)))

\* verify_wave: a linear source checksum decides alone, else the parts do.
AuditAccepts ==
    IF obj.checksum # Absent THEN obj.checksum = oci.object
    ELSE AuditMatches(obj.json, oci.object, obj.partSize)

-----------------------------------------------------------------------------

NoMem == [upload |-> NoUpload, persisted |-> Empty, remote |-> Empty,
          next |-> 1, digest |-> Absent]

Init ==
    /\ size \in Sizes
    /\ obj = [state |-> "RESTORED", upload |-> NoUpload, partSize |-> 0,
              rows |-> Empty, json |-> Empty, checksum |-> Absent]
    /\ oci = [object |-> Absent, open |-> {}, part |-> [u \in Uploads |-> Empty]]
    /\ pc = "idle"
    /\ mem = NoMem

\* Mutant: the checkpoint rows are not read.
BeginFromJson ==
    /\ pc = "idle" /\ obj.state \in {"RESTORED", "TRANSFERRING"}
    /\ obj' = [obj EXCEPT !.state = "TRANSFERRING"]
    /\ mem' = [NoMem EXCEPT !.upload = obj.upload, !.persisted = obj.json]
    /\ pc' = IF size <= DirectLimit THEN "put"
             ELSE IF obj.upload # NoUpload THEN "reconcile" ELSE "create"
    /\ UNCHANGED <<size, oci>>

\* The stream starts: it reads the checkpoint, the rows before the JSON.
Begin ==
    /\ pc = "idle" /\ obj.state \in {"RESTORED", "TRANSFERRING"}
    /\ obj' = [obj EXCEPT !.state = "TRANSFERRING"]
    /\ mem' = [NoMem EXCEPT !.upload    = obj.upload,
                            !.persisted = IF obj.rows # Empty THEN obj.rows ELSE obj.json]
    /\ pc' = IF size <= DirectLimit THEN "put"
             ELSE IF obj.upload # NoUpload THEN "reconcile" ELSE "create"
    /\ UNCHANGED <<size, oci>>

\* PutObject with the payload's digest, then the final commit.
PutDirect ==
    /\ pc = "put"
    /\ mem' = [mem EXCEPT !.digest = Bytes]
    /\ oci' = [oci EXCEPT !.object = Bytes]
    /\ pc' = "accepted"
    /\ UNCHANGED <<size, obj>>

\* Mutant: any listing error counts as a missing upload.
ReconcileAnyError ==
    /\ pc = "reconcile"
    /\ mem' = [mem EXCEPT !.upload = NoUpload, !.persisted = Empty]
    /\ obj' = [obj EXCEPT !.upload = NoUpload, !.rows = Empty, !.json = Empty]
    /\ pc' = "create"
    /\ UNCHANGED <<size, oci>>

\* Mutant: a resumed upload takes the part size configured now.
ReconcileResized ==
    /\ pc = "reconcile" /\ mem.upload \in oci.open
    /\ \E configured \in PartSizes : obj' = [obj EXCEPT !.partSize = EffectivePartSize(configured)]
    /\ mem' = [mem EXCEPT !.remote = oci.part[mem.upload]]
    /\ pc' = "parts"
    /\ UNCHANGED <<size, oci>>

\* Mutant: a missing upload is taken for one without parts.
ReconcileMissingAsEmpty ==
    /\ pc = "reconcile"
    /\ mem' = [mem EXCEPT !.remote = IF mem.upload \in oci.open
                                     THEN oci.part[mem.upload] ELSE Empty]
    /\ pc' = "parts"
    /\ UNCHANGED <<size, obj, oci>>

\* OCI lists the parts it holds, or answers 404 and the checkpoint is cleared;
\* any other error interrupts the stream.
Reconcile ==
    /\ pc = "reconcile"
    /\ IF mem.upload \in oci.open
       THEN /\ mem' = [mem EXCEPT !.remote = oci.part[mem.upload]]
            /\ pc' = "parts" /\ UNCHANGED obj
       ELSE /\ mem' = [mem EXCEPT !.upload = NoUpload, !.persisted = Empty]
            /\ obj' = [obj EXCEPT !.upload = NoUpload, !.rows = Empty, !.json = Empty]
            /\ pc' = "create"
    /\ UNCHANGED <<size, oci>>

\* An id whose record was lost is never used again: it may stand for a new one.
CreateUpload ==
    /\ pc = "create"
    /\ \E u \in Uploads :
         /\ oci' = [oci EXCEPT !.open = oci.open \cup {u}, !.part[u] = Empty]
         /\ mem' = [mem EXCEPT !.upload = u]
    /\ pc' = "created"
    /\ UNCHANGED <<size, obj>>

\* Mutant: the evidence of an earlier upload stays in the checkpoint.
RecordUploadOnly ==
    /\ pc = "created"
    /\ \E configured \in PartSizes :
         obj' = [obj EXCEPT !.upload = mem.upload, !.partSize = EffectivePartSize(configured)]
    /\ pc' = "parts"
    /\ UNCHANGED <<size, oci, mem>>

\* The part size is fixed here; the stream keeps in memory what it had read of
\* an earlier delivery's evidence.
RecordUpload ==
    /\ pc = "created"
    /\ \E configured \in PartSizes :
         obj' = [obj EXCEPT !.upload = mem.upload, !.partSize = EffectivePartSize(configured),
                            !.rows = Empty, !.json = Empty]
    /\ pc' = "parts"
    /\ UNCHANGED <<size, oci, mem>>

MorePart  == pc = "parts" /\ mem.next <= PartsOf(obj.partSize)
ReuseNext == Reusable(mem.remote[mem.next], mem.persisted[mem.next],
                      ExpectedPartSize(mem.next, obj.partSize))

ReusePart ==
    /\ MorePart /\ ReuseNext
    /\ mem' = [mem EXCEPT !.next = mem.next + 1]
    /\ UNCHANGED <<size, obj, oci, pc>>

\* Read one source range and upload it.  read_part feeds the linear digest
\* chunk by chunk, and the loop feeds it the whole payload again.
UploadPart ==
    /\ MorePart /\ ~ReuseNext /\ mem.upload \in oci.open
    /\ LET payload == SourceRange(mem.next, obj.partSize)
       IN  /\ mem' = [mem EXCEPT !.digest = mem.digest \o payload \o payload]
           /\ oci' = [oci EXCEPT !.part[mem.upload][mem.next] = payload]
    /\ pc' = "uploaded"
    /\ UNCHANGED <<size, obj>>

\* Record the accepted part.
RecordPart ==
    /\ pc = "uploaded"
    /\ LET payload == SourceRange(mem.next, obj.partSize)
       IN  /\ obj' = [obj EXCEPT !.rows[mem.next] = payload]
           /\ mem' = [mem EXCEPT !.persisted[mem.next] = payload, !.next = mem.next + 1]
    /\ pc' = "parts"
    /\ UNCHANGED <<size, oci>>

\* Mutant: only the parts that this stream sent are listed.
CommitOwnParts ==
    /\ pc = "parts" /\ ~MorePart /\ mem.upload \in oci.open
    /\ oci' = [oci EXCEPT !.object = FlattenSeq([n \in 1..PartsOf(obj.partSize) |->
                                        IF mem.remote[n] = Absent
                                        THEN oci.part[mem.upload][n] ELSE Absent]),
                          !.open = oci.open \ {mem.upload}]
    /\ pc' = "accepted"
    /\ UNCHANGED <<size, obj, mem>>

\* OCI assembles the listed parts and closes the upload.
CommitUpload ==
    /\ pc = "parts" /\ ~MorePart /\ mem.upload \in oci.open
    /\ oci' = [oci EXCEPT !.object = FlattenSeq([n \in 1..PartsOf(obj.partSize) |->
                                                    oci.part[mem.upload][n]]),
                          !.open = oci.open \ {mem.upload}]
    /\ pc' = "accepted"
    /\ UNCHANGED <<size, obj, mem>>

\* The final commit.  A run that found parts of an earlier one has no linear
\* checksum of the source.
RecordDelivery ==
    /\ pc = "accepted"
    /\ LET small == size <= DirectLimit
       IN  obj' = [obj EXCEPT
                     !.state    = "TRANSFERRED",
                     !.upload   = IF small THEN obj.upload ELSE NoUpload,
                     !.json     = IF small THEN obj.json ELSE mem.persisted,
                     !.rows     = IF small THEN obj.rows ELSE Empty,
                     !.checksum = IF small \/ mem.remote = Empty THEN mem.digest ELSE Absent]
    /\ pc' = "idle"
    /\ mem' = NoMem
    /\ UNCHANGED <<size, oci>>

-----------------------------------------------------------------------------

\* Process death, shutdown at a read boundary, S3, OCI or database error.
Interrupt ==
    /\ pc # "idle"
    /\ pc' = "idle"
    /\ mem' = NoMem
    /\ UNCHANGED <<size, obj, oci>>

\* OCI or its administrator aborts an incomplete upload.
AbortUpload ==
    /\ \E u \in oci.open : oci' = [oci EXCEPT !.open = oci.open \ {u}]
    /\ UNCHANGED <<size, obj, pc, mem>>

\* A deep audit fails the delivered object, its wave is reprocessed, and the
\* object is restored again; its evidence stays.
Reprocess ==
    /\ pc = "idle" /\ obj.state = "TRANSFERRED"
    /\ obj' = [obj EXCEPT !.state = "RESTORED"]
    /\ UNCHANGED <<size, oci, pc, mem>>

Stream == \/ Begin \/ PutDirect \/ Reconcile \/ CreateUpload \/ RecordUpload
          \/ ReusePart \/ UploadPart \/ RecordPart \/ CommitUpload \/ RecordDelivery
Fault  == Interrupt \/ AbortUpload \/ Reprocess

Next == Stream \/ Fault

Spec == Init /\ [][Next]_vars

\* The lane starts a copy again after each failure (TransferLane's
\* RestoredIsServed), an aborted upload makes the next call fail, and faults
\* are transient.
Broken == pc \in {"parts", "uploaded"} /\ mem.upload \notin oci.open
Fairness == /\ WF_vars(Stream) /\ WF_vars(Broken /\ Interrupt)
            /\ <>[][~(AbortUpload \/ Reprocess \/ (Interrupt /\ ~Broken))]_vars

FairSpec == Spec /\ Fairness

-----------------------------------------------------------------------------
(* Properties *)

\* The row, the destination and the stream are well formed, and the part size
\* keeps every upload within OCI's limit on parts.
TypeOK ==
    LET Evidence == [Parts -> Seq(1..size)]
    IN  /\ size \in Sizes
        /\ obj.partSize = 0 \/ PartsOf(obj.partSize) <= MaxParts
        /\ obj \in [state : {"RESTORED", "TRANSFERRING", "TRANSFERRED"},
                    upload : Uploads \cup {NoUpload}, partSize : Nat,
                    rows : Evidence, json : Evidence, checksum : Seq(1..size)]
        /\ oci \in [object : Seq(1..size), open : SUBSET Uploads,
                    part : [Uploads -> Evidence]]
        /\ pc \in {"idle", "put", "reconcile", "create", "created",
                   "parts", "uploaded", "accepted"}
        /\ mem \in [upload : Uploads \cup {NoUpload}, persisted : Evidence,
                    remote : Evidence, next : 1..(MaxParts + 1), digest : Seq(1..size)]

\* Whatever was interrupted, reconfigured or aborted, a TRANSFERRED object is in
\* OCI byte for byte.
DeliveredIsWhole == obj.state = "TRANSFERRED" => oci.object = Bytes

\* The per-part evidence a resumed delivery leaves behind is the destination's,
\* part for part: nothing of an earlier upload or part size is left in it.
PartEvidenceIsExact ==
    obj.state = "TRANSFERRED" /\ size > DirectLimit /\ obj.checksum = Absent
      => AuditMatches(obj.json, oci.object, obj.partSize)

\* "preserving it for retry" (real_worker.py 1973): while OCI holds an upload,
\* no failure or restart gives up its id or a recorded part.
CheckpointSurvives ==
    [][obj.upload \in oci.open =>
         /\ obj'.upload = obj.upload /\ obj'.partSize = obj.partSize
         /\ \A n \in Parts : obj.rows[n] # Absent => obj'.rows[n] = obj.rows[n]]_vars

\* "envia somente as faltantes" (docs/deployment.md 334): no stream uploads again
\* a part that OCI holds and the checkpoint records.
OnlyMissingIsSent ==
    [][pc' = "uploaded" =>
         obj.rows[mem.next] = Absent \/ oci.part[obj.upload][mem.next] = Absent]_vars

\* "compara o SHA-256 linear calculado na origem" (docs/architecture.md 43): an
\* object that OCI holds byte for byte passes its deep audit.
IntactPassesAudit ==
    obj.state = "TRANSFERRED" /\ oci.object = Bytes => AuditAccepts

\* A copy under way is delivered once faults cease, also when the upload was
\* aborted or OCI had closed it before the database learnt of it.
CopyCompletes == obj.state = "TRANSFERRING" ~> obj.state = "TRANSFERRED"

\* The stream implements ObjectCopy, the one-step copy of TransferLane: OCI's
\* object appears at once and whole, whether put or assembled from the parts of
\* several runs, a second copy never replaces it by less, and the row follows.
Copy == INSTANCE ObjectCopy
    WITH row <- obj.state, copying <- pc # "idle", whole <- oci.object = Bytes

CopyIsAtomic == Copy!Spec
=============================================================================
