------------------------------ MODULE Discovery ------------------------------
(***************************************************************************)
(* How the inventory of one source is built (Raikou::Ko and the discovery  *)
(* routes of the console): a durable job, claimed by one worker, lists the *)
(* prefixes of the bucket or imports the shards of an S3 Inventory         *)
(* manifest; rows and cursor are committed together, so that a death or an *)
(* error resumes where it stopped.  A first discovery inserts its rows, a  *)
(* rediscovery merges them into an inventory that may be migrating, and    *)
(* inventories given as a file or as items go past the queue.              *)
(*                                                                         *)
(* The revision of a key stands for its size and ETag.                     *)
(***************************************************************************)
EXTENDS Integers, Sequences, FiniteSetsExt

CONSTANTS
    Keys,             \* keys of the bucket, numbers in listing order
    Prefixes,         \* source_prefix_values: a sequence of disjoint key sets
    Shards,           \* files of an inventory manifest: sequences of keys
    MaxKeys,          \* DISCOVERY_MAX_KEYS: keys of a page
    CheckpointPages,  \* DISCOVERY_CHECKPOINT_PAGES: pages of a commit
    ChunkRows,        \* rows of a manifest commit
    Revs,             \* revisions of a key, numbers above 0
    MaxRequests,      \* bound: discoveries and imports
    MaxEdits          \* bound: changes of the bucket

ASSUME KeysAssumption == Keys \subseteq Nat \ {0} /\ IsFiniteSet(Keys)
ASSUME PrefixAssumption ==
    /\ Prefixes \in Seq(SUBSET Keys)
    /\ \A i, j \in DOMAIN Prefixes : i # j => Prefixes[i] \cap Prefixes[j] = {}
ASSUME ShardsAssumption == Shards \in Seq(Seq(Keys))
ASSUME RevsAssumption == Revs \subseteq Nat \ {0} /\ Revs # {}
ASSUME SizesAssumption ==
    MaxKeys \in Nat \ {0} /\ CheckpointPages \in Nat \ {0} /\ ChunkRows \in Nat \ {0}

VARIABLES
    source,     \* status and cursor of the source
    job,        \* its latest discovery job
    inventory,  \* per key, the object rows ever inserted for it
    changes,    \* per key, the MODIFIED discovery changes, oldest first
    valid,      \* the last destination validation is VALID and not outdated
    bucket,     \* S3: the revision of each key, 0 where there is none
    oci,        \* OCI: the revision of each key, 0 where there is none
    ko,         \* memory of the discovery worker
    asked,      \* discoveries and imports so far
    edits,      \* changes of the bucket so far
    touched,    \* keys written since the latest inventory was asked for
    mixed       \* history: plain inserts may meet rows of another origin

vars == <<source, job, inventory, changes, valid, bucket, oci, ko, asked, edits, touched, mixed>>

-----------------------------------------------------------------------------
Revision == Revs \cup {0}
None == [k \in Keys |-> 0]
Scope == UNION {Prefixes[i] : i \in DOMAIN Prefixes}
Row == [rev : Revs, current : BOOLEAN, state : {"DISCOVERED", "WAVE_ASSIGNED", "TRANSFERRED"}]
Status == {"CREATED", "DISCOVERY_QUEUED", "DISCOVERING", "DISCOVERED", "DISCOVERY_FAILED"}
Source == [status : Status, token : Keys \cup {0}, prefix : 1..(Len(Prefixes) + 1)]
Job == [state : {"NONE", "READY", "RUNNING", "SUCCEEDED", "FAILED"}, mode : {"LIST", "MANIFEST"},
        merge : BOOLEAN, file : 1..(Len(Shards) + 1), rows : Nat, manifest : [Keys -> Revision]]
Idle == [pc |-> "idle", token |-> 0, prefix |-> 1, rows |-> None, pages |-> 0]

NewJob(mode, merge, manifest) ==
    [state |-> "READY", mode |-> mode, merge |-> merge, file |-> 1, rows |-> 0, manifest |-> manifest]

Active == job.state \in {"READY", "RUNNING"}
HasRows == \E k \in Keys : inventory[k] # <<>>
HasWaves == \E k \in Keys : \E i \in DOMAIN inventory[k] : inventory[k][i].state # "DISCOVERED"

\* Indexes of the current rows of k, and the one a query keyed by the object
\* key ends up with.
Current(inv, k) == {i \in DOMAIN inv[k] : inv[k][i].current}
Found(inv, k) == Max(Current(inv, k))

NewRow(rev) == [rev |-> rev, current |-> TRUE, state |-> "DISCOVERED"]
Listed(rows) == {k \in Keys : rows[k] # 0}

\* bulk_insert_mappings: no constraint makes a key unique.
Insert(inv, rows) ==
    [k \in Keys |-> IF rows[k] # 0 THEN Append(inv[k], NewRow(rows[k])) ELSE inv[k]]

-----------------------------------------------------------------------------
(* merge_discovery_rows *)

Differs(k, rev) == Current(inventory, k) # {} /\ inventory[k][Found(inventory, k)].rev # rev
Assigned(k) == inventory[k][Found(inventory, k)].state # "DISCOVERED"
Recorded(k, rev) == \E i \in DOMAIN changes[k] : changes[k][i].rev = rev

\* Mutant: the merge refreshes whatever row it finds.
MergeAnyKey(k, rev) ==
    IF Current(inventory, k) = {} THEN Append(inventory[k], NewRow(rev))
    ELSE [inventory[k] EXCEPT ![Found(inventory, k)].rev = rev]

MergeKey(k, rev) ==
    IF Current(inventory, k) = {} THEN Append(inventory[k], NewRow(rev))
    ELSE IF Differs(k, rev) /\ ~Assigned(k)
    THEN [inventory[k] EXCEPT ![Found(inventory, k)].rev = rev]
    ELSE inventory[k]

Merge(rows) == [k \in Keys |-> IF rows[k] # 0 THEN MergeKey(k, rows[k]) ELSE inventory[k]]

\* Keys whose change is kept aside as a MODIFIED change.
Modified(rows) ==
    {k \in Listed(rows) : Differs(k, rows[k]) /\ Assigned(k) /\ ~Recorded(k, rows[k])}

\* One batch enters the inventory, by insertion or by merge.
Absorb(rows, merge) ==
    /\ inventory' = IF merge THEN Merge(rows) ELSE Insert(inventory, rows)
    /\ changes' = [k \in Keys |-> IF merge /\ k \in Modified(rows)
                                  THEN Append(changes[k], [rev |-> rows[k], done |-> FALSE])
                                  ELSE changes[k]]
    /\ valid' = (valid /\ ~(merge /\ Modified(rows) # {}))

-----------------------------------------------------------------------------
(* The console: queue_discovery and the imports *)

\* A failed listing leaves a cursor to resume from.
Resumes(mode, merge) ==
    /\ ~merge /\ mode = "LIST" /\ source.status = "DISCOVERY_FAILED"
    /\ source.token # 0 \/ source.prefix # 1

QueueDiscovery(mode, merge) ==
    LET resume == Resumes(mode, merge) IN
    /\ asked < MaxRequests /\ asked' = asked + 1
    /\ source.status # "DISCOVERING" /\ ~Active
    /\ merge \/ ~HasWaves
    /\ merge \/ resume \/ ~HasRows
    /\ source' = [status |-> "DISCOVERY_QUEUED",
                  token  |-> IF resume THEN source.token ELSE 0,
                  prefix |-> IF resume THEN source.prefix ELSE 1]
    /\ job' = NewJob(mode, merge, IF mode = "MANIFEST" THEN bucket ELSE None)
    /\ touched' = IF resume THEN touched ELSE {}
    /\ mixed' = IF resume THEN [mixed EXCEPT !.inserts = @ \/ mixed.foreign]
                ELSE IF merge THEN [mixed EXCEPT !.foreign = TRUE] ELSE mixed
    /\ UNCHANGED <<inventory, changes, valid, bucket, oci, ko, edits>>

\* A plain insertion is queued, running or may be resumed.
Inserting == ~job.merge /\ (Active \/ source.status = "DISCOVERY_FAILED")
Foreign == mixed' = [foreign |-> TRUE, inserts |-> mixed.inserts \/ Inserting]

\* upload_inventory_file: a CSV of the whole scope, whatever the worker does.
UploadInventory(merge) ==
    LET rows == [k \in Keys |-> IF k \in Scope THEN bucket[k] ELSE 0] IN
    /\ asked < MaxRequests /\ asked' = asked + 1
    /\ merge \/ (~HasWaves /\ ~HasRows /\ Listed(rows) # {})
    /\ Absorb(rows, merge)
    /\ source' = [source EXCEPT !.status = "DISCOVERED", !.token = 0]
    /\ touched' = {}
    /\ Foreign
    /\ UNCHANGED <<job, bucket, oci, ko, edits>>

\* import_inventory: one item without a version, skipped if a row has its key.
ImportItem(k) ==
    /\ asked < MaxRequests /\ asked' = asked + 1
    /\ k \in Scope /\ bucket[k] # 0 /\ inventory[k] = <<>>
    /\ inventory' = [inventory EXCEPT ![k] = <<NewRow(bucket[k])>>]
    /\ Foreign
    /\ UNCHANGED <<source, job, changes, valid, bucket, oci, ko, edits, touched>>

-----------------------------------------------------------------------------
(* The worker: run_once, discover and import_s3_inventory_manifest *)

\* Mutant: the recovery queues a new listing and forgets the job it had.
RecoverAnew ==
    /\ ko.pc = "idle" /\ source.status = "DISCOVERING"
    /\ source' = [source EXCEPT !.status = "DISCOVERY_QUEUED"]
    /\ job' = NewJob("LIST", FALSE, None)
    /\ UNCHANGED <<inventory, changes, valid, bucket, oci, ko, asked, edits, touched, mixed>>

\* A source left DISCOVERING by a death is queued again with its job.
Recover ==
    /\ ko.pc = "idle" /\ source.status = "DISCOVERING"
    /\ source' = [source EXCEPT !.status = "DISCOVERY_QUEUED"]
    /\ job' = IF job.state = "RUNNING" THEN [job EXCEPT !.state = "READY"]
              ELSE NewJob("LIST", FALSE, None)
    /\ UNCHANGED <<inventory, changes, valid, bucket, oci, ko, asked, edits, touched, mixed>>

\* Mutant: only jobs that nobody holds are claimed.
ClaimReadyJob ==
    /\ ko.pc = "idle" /\ source.status # "DISCOVERING" /\ job.state = "READY"
    /\ job' = [job EXCEPT !.state = "RUNNING"]
    /\ ko' = [Idle EXCEPT !.pc = "claimed"]
    /\ UNCHANGED <<source, inventory, changes, valid, bucket, oci, asked, edits, touched, mixed>>

\* The worker id is stable: a job left RUNNING by this worker is its own.
ClaimJob ==
    /\ ko.pc = "idle" /\ source.status # "DISCOVERING" /\ Active
    /\ job' = [job EXCEPT !.state = "RUNNING"]
    /\ ko' = [Idle EXCEPT !.pc = "claimed"]
    /\ UNCHANGED <<source, inventory, changes, valid, bucket, oci, asked, edits, touched, mixed>>

Ineligible ==
    /\ ko.pc = "claimed" /\ source.status # "DISCOVERY_QUEUED"
    /\ job' = [job EXCEPT !.state = "FAILED"]
    /\ ko' = Idle
    /\ UNCHANGED <<source, inventory, changes, valid, bucket, oci, asked, edits, touched, mixed>>

Begin ==
    /\ ko.pc = "claimed" /\ source.status = "DISCOVERY_QUEUED"
    /\ source' = [source EXCEPT !.status = "DISCOVERING"]
    /\ ko' = [Idle EXCEPT !.pc = job.mode, !.token = source.token, !.prefix = source.prefix]
    /\ UNCHANGED <<job, inventory, changes, valid, bucket, oci, asked, edits, touched, mixed>>

\* list_objects_v2: the keys of a prefix after the token, in key order.
After(prefix, token) == {k \in Prefixes[prefix] : bucket[k] # 0 /\ k > token}
Page(prefix, token) ==
    LET all == After(prefix, token)
    IN  {k \in all : Cardinality({j \in all : j < k}) < MaxKeys}
NextToken(prefix, token) ==
    IF Page(prefix, token) = After(prefix, token) THEN 0 ELSE Max(Page(prefix, token))

\* Mutant: the cursor follows every page, the rows come with the batch.
ListPageEagerCursor ==
    LET page  == Page(ko.prefix, ko.token)
        token == NextToken(ko.prefix, ko.token)
        next  == [ko EXCEPT !.rows = [k \in Keys |-> IF k \in page THEN bucket[k] ELSE ko.rows[k]],
                            !.pages = @ + 1, !.token = token,
                            !.prefix = IF token = 0 THEN @ + 1 ELSE @]
    IN
    /\ ko.pc = "LIST" /\ ko.prefix <= Len(Prefixes)
    /\ source' = [source EXCEPT !.token = token, !.prefix = next.prefix]
    /\ IF next.pages >= CheckpointPages \/ token = 0
       THEN Absorb(next.rows, job.merge) /\ ko' = [next EXCEPT !.rows = None, !.pages = 0]
       ELSE ko' = next /\ UNCHANGED <<inventory, changes, valid>>
    /\ UNCHANGED <<job, bucket, oci, asked, edits, touched, mixed>>

\* One page joins the pending rows; checkpoint_batch commits them with the
\* cursor after CheckpointPages pages and at the end of a prefix.
ListPage ==
    LET page  == Page(ko.prefix, ko.token)
        token == NextToken(ko.prefix, ko.token)
        next  == [ko EXCEPT !.rows = [k \in Keys |-> IF k \in page THEN bucket[k] ELSE ko.rows[k]],
                            !.pages = @ + 1, !.token = token,
                            !.prefix = IF token = 0 THEN @ + 1 ELSE @]
    IN
    /\ ko.pc = "LIST" /\ ko.prefix <= Len(Prefixes)
    /\ IF next.pages >= CheckpointPages \/ token = 0
       THEN /\ Absorb(next.rows, job.merge)
            /\ source' = [source EXCEPT !.token = token, !.prefix = next.prefix]
            /\ ko' = [next EXCEPT !.rows = None, !.pages = 0]
       ELSE /\ ko' = next
            /\ UNCHANGED <<source, inventory, changes, valid>>
    /\ UNCHANGED <<job, bucket, oci, asked, edits, touched, mixed>>

FinishListing ==
    /\ ko.pc = "LIST" /\ ko.prefix > Len(Prefixes)
    /\ source' = [status |-> "DISCOVERED", token |-> 0, prefix |-> 1]
    /\ job' = [job EXCEPT !.state = "SUCCEEDED"]
    /\ ko' = Idle
    /\ UNCHANGED <<inventory, changes, valid, bucket, oci, asked, edits, touched, mixed>>

\* The next rows of the current shard, those out of scope skipped, enter the
\* inventory with the number of rows done.
ImportChunk ==
    LET shard == Shards[job.file]
        last  == Min({job.rows + ChunkRows, Len(shard)})
        chunk == {shard[i] : i \in (job.rows + 1)..last} \cap Scope
    IN
    /\ ko.pc = "MANIFEST" /\ job.file <= Len(Shards) /\ job.rows < Len(shard)
    /\ Absorb([k \in Keys |-> IF k \in chunk THEN job.manifest[k] ELSE 0], job.merge)
    /\ job' = [job EXCEPT !.rows = last]
    /\ UNCHANGED <<source, bucket, oci, ko, asked, edits, touched, mixed>>

\* Mutant: the end of the last shard is not noticed.
NextShardUnbounded ==
    /\ ko.pc = "MANIFEST"
    /\ job.file > Len(Shards) \/ job.rows >= Len(Shards[job.file])
    /\ job' = [job EXCEPT !.file = @ + 1, !.rows = 0]
    /\ UNCHANGED <<source, inventory, changes, valid, bucket, oci, ko, asked, edits, touched, mixed>>

NextShard ==
    /\ ko.pc = "MANIFEST" /\ job.file <= Len(Shards) /\ job.rows >= Len(Shards[job.file])
    /\ job' = [job EXCEPT !.file = @ + 1, !.rows = 0]
    /\ UNCHANGED <<source, inventory, changes, valid, bucket, oci, ko, asked, edits, touched, mixed>>

FinishImport ==
    /\ ko.pc = "MANIFEST" /\ job.file > Len(Shards)
    /\ source' = [source EXCEPT !.status = "DISCOVERED"]
    /\ job' = [job EXCEPT !.state = "SUCCEEDED"]
    /\ ko' = Idle
    /\ UNCHANGED <<inventory, changes, valid, bucket, oci, asked, edits, touched, mixed>>

\* Any error of S3 or of the import: throttling past its retries included.
DiscoveryFails ==
    /\ ko.pc \in {"LIST", "MANIFEST"}
    /\ source' = [source EXCEPT !.status = "DISCOVERY_FAILED"]
    /\ job' = [job EXCEPT !.state = "FAILED"]
    /\ ko' = Idle
    /\ UNCHANGED <<inventory, changes, valid, bucket, oci, asked, edits, touched, mixed>>

Crash ==
    /\ ko.pc # "idle" /\ ko' = Idle
    /\ UNCHANGED <<source, job, inventory, changes, valid, bucket, oci, asked, edits, touched, mixed>>

Work == Recover \/ ClaimJob \/ Ineligible \/ Begin \/ ListPage \/ FinishListing
        \/ ImportChunk \/ NextShard \/ FinishImport

-----------------------------------------------------------------------------
(* What becomes of the rows *)

Places == UNION {{<<k, i>> : i \in DOMAIN inventory[k]} : k \in Keys}
RowAt(p) == inventory[p[1]][p[2]]
InState(state) == {p \in Places : RowAt(p).state = state}

\* The rows S enter a state.
SetRows(S, state) ==
    inventory' = [k \in Keys |-> [i \in DOMAIN inventory[k] |->
        IF <<k, i>> \in S THEN [inventory[k][i] EXCEPT !.state = state] ELSE inventory[k][i]]]

\* discovered_object_filters: what the planner takes into waves, whatever the
\* status of the source; waves without work done are deleted.
Plannable == {p \in InState("DISCOVERED") : RowAt(p).current}
Planned == InState("WAVE_ASSIGNED")

AssignWave ==
    /\ Plannable # {} /\ SetRows(Plannable, "WAVE_ASSIGNED")
    /\ UNCHANGED <<source, job, changes, valid, bucket, oci, ko, asked, edits, touched, mixed>>

DeleteWave ==
    /\ Planned # {} /\ SetRows(Planned, "DISCOVERED")
    /\ UNCHANGED <<source, job, changes, valid, bucket, oci, ko, asked, edits, touched, mixed>>

\* Restore and transfer of the rows whose revision is still the one in S3.
Movable == {p \in Planned : RowAt(p).rev = bucket[p[1]]}
Migrate ==
    /\ Movable # {} /\ SetRows(Movable, "TRANSFERRED")
    /\ oci' = [k \in Keys |-> IF \E p \in Movable : p[1] = k THEN bucket[k] ELSE oci[k]]
    /\ UNCHANGED <<source, job, changes, valid, bucket, ko, asked, edits, touched, mixed>>

\* validate_destination compares OCI with the current rows and sends what it
\* does not find back to its wave.
Divergent(k) == Current(inventory, k) # {} /\ inventory[k][Found(inventory, k)].rev # oci[k]
Reopened == {p \in InState("TRANSFERRED") : RowAt(p).current /\ Divergent(p[1])}
ValidateDestination ==
    /\ \E k \in Keys : Current(inventory, k) # {}
    /\ valid' = (\A k \in Keys : ~Divergent(k))
    /\ SetRows(Reopened, "WAVE_ASSIGNED")
    /\ UNCHANGED <<source, job, changes, bucket, oci, ko, asked, edits, touched, mixed>>

\* reprocess_modified_discovery_objects: each pending change of a key, oldest
\* first, supersedes its current row by a successor.
Pending(k) == {i \in DOMAIN changes[k] : ~changes[k][i].done}
Successors(k) ==
    LET live == Current(inventory, k)
        old  == [i \in DOMAIN inventory[k] |->
                    IF i = Found(inventory, k) THEN [inventory[k][i] EXCEPT !.current = FALSE]
                    ELSE inventory[k][i]]
        new  == [i \in 1..Cardinality(Pending(k)) |->
                    [NewRow(changes[k][Min(Pending(k)) + i - 1].rev)
                        EXCEPT !.current = (i = Cardinality(Pending(k)))]]
    IN  IF Pending(k) = {} \/ live = {} THEN inventory[k] ELSE old \o new

ReprocessModified ==
    /\ valid /\ \E k \in Keys : Pending(k) # {}
    /\ inventory' = [k \in Keys |-> Successors(k)]
    /\ changes' = [k \in Keys |-> [i \in DOMAIN changes[k] |-> [changes[k][i] EXCEPT !.done = TRUE]]]
    /\ UNCHANGED <<source, job, valid, bucket, oci, ko, asked, edits, touched, mixed>>

\* The customer writes an object.
WriteObject(k, rev) ==
    /\ edits < MaxEdits /\ edits' = edits + 1
    /\ bucket[k] # rev
    /\ bucket' = [bucket EXCEPT ![k] = rev]
    /\ touched' = touched \cup {k}
    /\ UNCHANGED <<source, job, inventory, changes, valid, oci, ko, asked, mixed>>

-----------------------------------------------------------------------------
InitialBucket == [k \in Keys |-> Min(Revs)]

Init ==
    /\ source = [status |-> "CREATED", token |-> 0, prefix |-> 1]
    /\ job = [NewJob("LIST", FALSE, None) EXCEPT !.state = "NONE"]
    /\ inventory = [k \in Keys |-> <<>>]
    /\ changes = [k \in Keys |-> <<>>]
    /\ valid = FALSE
    /\ bucket \in {InitialBucket, [InitialBucket EXCEPT ![Max(Scope)] = 0]}
    /\ oci = None
    /\ ko = Idle
    /\ asked = 0 /\ edits = 0 /\ touched = {}
    /\ mixed = [foreign |-> FALSE, inserts |-> FALSE]

Ask == \E mode \in {"LIST", "MANIFEST"}, merge \in BOOLEAN : QueueDiscovery(mode, merge)
Import == (\E merge \in BOOLEAN : UploadInventory(merge)) \/ \E k \in Keys : ImportItem(k)
Use ==
    \/ AssignWave \/ DeleteWave \/ Migrate
    \/ ValidateDestination \/ ReprocessModified
    \/ \E k \in Scope, rev \in Revs : WriteObject(k, rev)

Next == Ask \/ Import \/ Work \/ DiscoveryFails \/ Crash \/ Use

Spec == Init /\ [][Next]_vars

\* The worker loops for ever and is restarted; its deaths come to an end.
Fairness == WF_vars(Work) /\ <>[][~Crash]_vars
FairSpec == Spec /\ Fairness

-----------------------------------------------------------------------------
(* Properties *)

TypeOK ==
    /\ source \in Source /\ job \in Job
    /\ inventory \in [Keys -> Seq(Row)]
    /\ changes \in [Keys -> Seq([rev : Revs, done : BOOLEAN])]
    /\ valid \in BOOLEAN
    /\ bucket \in [Keys -> Revision] /\ oci \in [Keys -> Revision]
    /\ ko \in [pc : {"idle", "claimed", "LIST", "MANIFEST"}, token : Keys \cup {0},
               prefix : 1..(Len(Prefixes) + 1), rows : [Keys -> Revision], pages : Nat]
    /\ asked \in Nat /\ edits \in Nat /\ touched \subseteq Keys
    /\ mixed \in [foreign : BOOLEAN, inserts : BOOLEAN]

\* A source is DISCOVERED only when every key that was in its scope all along
\* has a row, whatever deaths, errors and resumptions its discovery had
\* ("never exposes a partial inventory", real_worker.py 1225).
InventoryIsComplete ==
    source.status = "DISCOVERED" =>
        \A k \in Scope \ touched : bucket[k] # 0 => inventory[k] # <<>>

OneRowPerKey == \A k \in Keys : Cardinality(Current(inventory, k)) <= 1

\* No death, error, resumption or rediscovery gives a key two current rows, as
\* long as plain insertions do not meet rows of another origin.
NoRowTwice == ~mixed.inserts => OneRowPerKey

\* A row that a wave refers to keeps its revision through rediscoveries,
\* imports and reprocessing, and no row disappears (merge_discovery_rows).
EvidenceIsKept ==
    [][\A k \in Keys : \A i \in DOMAIN inventory[k] :
          /\ i \in DOMAIN inventory'[k]
          /\ inventory[k][i].state # "DISCOVERED" =>
                inventory'[k][i].rev = inventory[k][i].rev]_vars

\* A queued or interrupted discovery comes to a verdict.
DiscoveryEnds ==
    source.status \in {"DISCOVERY_QUEUED", "DISCOVERING"}
        ~> source.status \in {"DISCOVERED", "DISCOVERY_FAILED"}
=============================================================================
