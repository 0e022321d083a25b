------------------------------ MODULE Buckets -------------------------------
(***************************************************************************)
(* The bucket and object rows of one node's SQLite store: the counters     *)
(* object_count and total_size kept with every change, the foreign keys,   *)
(* and bucket creation and deletion racing with writes.                    *)
(*                                                                         *)
(* The store has one connection, so a transaction is one step; the         *)
(* existence check before it and the count before a bucket's DELETE are    *)
(* steps of their own.                                                     *)
(***************************************************************************)
EXTENDS Integers, FiniteSets, FiniteSetsExt

CONSTANTS
    BucketNames,
    Keys,
    None,         \* no bucket, no key
    Sizes,        \* object sizes
    Clients,      \* requests that may run at the same time
    MaxMarkers    \* bound: tombstones written

ASSUME BucketsAssumption ==
    /\ Sizes \subseteq Nat /\ None \notin BucketNames \cup Keys
    /\ MaxMarkers \in Nat

(* A row is "live", a tombstone, or not there.                             *)
Rows == [st : {"none", "live", "deleted"}, size : Sizes \cup {0}]
NoRow == [st |-> "none", size |-> 0]
Tombstone == [st |-> "deleted", size |-> 0]
Live(n) == [st |-> "live", size |-> n]

PCs == {"idle", "put", "mark", "initiate", "counted", "refused"}
ProcStates == [pc : PCs, bucket : BucketNames \cup {None}, key : Keys \cup {None},
               size : Sizes \cup {0}]
Idle == [pc |-> "idle", bucket |-> None, key |-> None, size |-> 0]

VARIABLES
    replicated, \* does a DELETE leave a tombstone (replication factor > 1)?
    exists,     \* buckets with a row
    count,      \* bucket -> object_count
    total,      \* bucket -> total_size
    object,     \* bucket -> key -> row
    uploads,    \* bucket -> number of multipart sessions (at most one)
    proc,       \* requests
    markers     \* history, for the bound

tables == <<replicated, exists, count, total, object, uploads>>
bucketVars == <<replicated, exists, count, total, object, uploads, proc, markers>>

BucketTypeOK ==
    /\ replicated \in BOOLEAN /\ exists \subseteq BucketNames
    /\ count \in [BucketNames -> Int] /\ total \in [BucketNames -> Nat]
    /\ object \in [BucketNames -> [Keys -> Rows]]
    /\ uploads \in [BucketNames -> {0, 1}]
    /\ proc \in [Clients -> ProcStates]
    /\ markers \in 0..MaxMarkers

BucketInit ==
    /\ replicated \in BOOLEAN /\ exists = {}
    /\ count = [b \in BucketNames |-> 0] /\ total = [b \in BucketNames |-> 0]
    /\ object = [b \in BucketNames |-> [k \in Keys |-> NoRow]]
    /\ uploads = [b \in BucketNames |-> 0]
    /\ proc = [c \in Clients |-> Idle]
    /\ markers = 0

(* A request starts with what it names.                                    *)
Begin(c, pc, b, k, n) ==
    /\ proc[c].pc = "idle"
    /\ proc' = [proc EXCEPT ![c] = [pc |-> pc, bucket |-> b, key |-> k, size |-> n]]
End(c) == proc' = [proc EXCEPT ![c] = Idle]

(* UPDATE buckets SET object_count, total_size: no row, no effect.         *)
Account(b, dc, ds) ==
    IF b \in exists
    THEN /\ count' = [count EXCEPT ![b] = @ + dc]
         /\ total' = [total EXCEPT ![b] = @ + ds]
    ELSE UNCHANGED <<count, total>>

SetRow(b, k, r) == object' = [object EXCEPT ![b][k] = r]

(* What a foreign key to buckets(name) keeps a bucket for.                 *)
Referenced(b) == uploads[b] > 0 \/ \E k \in Keys : object[b][k].st # "none"

-----------------------------------------------------------------------------
CreateBucket(c, b) ==
    /\ proc[c].pc = "idle" /\ b \notin exists
    /\ exists' = exists \cup {b}
    /\ count' = [count EXCEPT ![b] = 0] /\ total' = [total EXCEPT ![b] = 0]
    /\ UNCHANGED <<replicated, object, uploads, proc, markers>>

(* DeleteBucket counts rows, tombstones too.                               *)
DeleteBucket(c, b) ==
    /\ Begin(c, IF \E k \in Keys : object[b][k].st # "none" THEN "refused"
                ELSE "counted", b, None, 0)
    /\ UNCHANGED <<tables, markers>>

(* The foreign keys are off.                                               *)
MutantDeleteBucketRow(c) ==
    /\ proc[c].pc = "counted"
    /\ exists' = exists \ {proc[c].bucket}
    /\ End(c)
    /\ UNCHANGED <<replicated, count, total, object, uploads, markers>>

(* Its DELETE fails while a row refers to the bucket.                      *)
DeleteBucketRow(c) ==
    /\ proc[c].pc = "counted"
    /\ exists' = IF Referenced(proc[c].bucket) THEN exists
                 ELSE exists \ {proc[c].bucket}
    /\ End(c)
    /\ UNCHANGED <<replicated, count, total, object, uploads, markers>>

BucketNotEmpty(c) ==
    /\ proc[c].pc = "refused"
    /\ End(c)
    /\ UNCHANGED <<tables, markers>>

-----------------------------------------------------------------------------
(* PutObject: the bucket must exist, then one transaction.                 *)
PutObject(c, b, k, n) ==
    /\ b \in exists
    /\ Begin(c, "put", b, k, n)
    /\ UNCHANGED <<tables, markers>>

(* sizeDelta.                                                              *)
PutSizes(old, n) == n - old.size

(* An overwrite counts too.                                                *)
MutantPutCounts(old) == 1

(* countDelta: one if there was no row, a tombstone is one.                *)
PutCounts(old) == IF old.st = "none" THEN 1 ELSE 0

(* The bucket may be gone by now: the insert then fails.                   *)
PutObjectTx(c) ==
    /\ proc[c].pc = "put"
    /\ LET b == proc[c].bucket
           k == proc[c].key
           n == proc[c].size
       IN  IF b \in exists
           THEN /\ SetRow(b, k, Live(n))
                /\ Account(b, PutCounts(object[b][k]), PutSizes(object[b][k], n))
           ELSE UNCHANGED <<object, count, total>>
    /\ End(c)
    /\ UNCHANGED <<replicated, exists, uploads, markers>>

(* DeleteObject of a store without replication: one transaction, nothing   *)
(* if there is no row.                                                     *)
DeleteObject(c, b, k) ==
    /\ ~replicated /\ proc[c].pc = "idle"
    /\ object[b][k].st # "none"
    /\ Account(b, -1, -object[b][k].size)
    /\ SetRow(b, k, NoRow)
    /\ UNCHANGED <<replicated, exists, uploads, proc, markers>>

(* PutTombstone: the bucket must exist, then one transaction.              *)
PutTombstone(c, b, k) ==
    /\ replicated /\ markers < MaxMarkers /\ b \in exists
    /\ Begin(c, "mark", b, k, 0)
    /\ markers' = markers + 1
    /\ UNCHANGED tables

PutTombstoneTx(c) ==
    /\ proc[c].pc = "mark"
    /\ LET b == proc[c].bucket
           k == proc[c].key
           old == object[b][k]
       IN  /\ IF b \in exists THEN SetRow(b, k, Tombstone) ELSE UNCHANGED object
           /\ IF old.st = "live" THEN Account(b, -1, -old.size)
              ELSE UNCHANGED <<count, total>>
    /\ End(c)
    /\ UNCHANGED <<replicated, exists, uploads, markers>>

(* A multipart session refers to its bucket; it ends on its own.           *)
InitiateMultipartUpload(c, b) ==
    /\ b \in exists
    /\ Begin(c, "initiate", b, None, 0)
    /\ UNCHANGED <<tables, markers>>

CreateMultipartUpload(c) ==
    /\ proc[c].pc = "initiate"
    /\ uploads' = IF proc[c].bucket \in exists
                  THEN [uploads EXCEPT ![proc[c].bucket] = 1] ELSE uploads
    /\ End(c)
    /\ UNCHANGED <<replicated, exists, count, total, object, markers>>

DeleteMultipartUpload(b) ==
    /\ uploads[b] = 1
    /\ uploads' = [uploads EXCEPT ![b] = 0]
    /\ UNCHANGED <<replicated, exists, count, total, object, proc, markers>>

-----------------------------------------------------------------------------
BucketStep(c) ==
    \/ \E b \in BucketNames : CreateBucket(c, b) \/ DeleteBucket(c, b)
    \/ DeleteBucketRow(c) \/ BucketNotEmpty(c)

ObjectStep(c) ==
    \/ \E b \in BucketNames, k \in Keys :
         \/ \E n \in Sizes : PutObject(c, b, k, n)
         \/ DeleteObject(c, b, k) \/ PutTombstone(c, b, k)
    \/ PutObjectTx(c) \/ PutTombstoneTx(c)

UploadStep(c) ==
    \/ \E b \in BucketNames : InitiateMultipartUpload(c, b)
    \/ CreateMultipartUpload(c)

BucketNext ==
    \/ \E c \in Clients : BucketStep(c) \/ ObjectStep(c) \/ UploadStep(c)
    \/ \E b \in BucketNames : DeleteMultipartUpload(b)

BucketSpec == BucketInit /\ [][BucketNext]_bucketVars

-----------------------------------------------------------------------------
LiveKeys(b) == {k \in Keys : object[b][k].st = "live"}

(* NoOrphanRows: whatever passed between the check and the transaction,    *)
(* no object row and no upload session belongs to a bucket that is gone    *)
(* (the foreign keys of the schema).                                       *)
NoOrphanRows == \A b \in BucketNames : Referenced(b) => b \in exists

(* CountersExact: total_size is the sum of the sizes of the bucket's        *)
(* objects, through overwrites, deletes, tombstones and writes over        *)
(* tombstones; without replication object_count is their number.           *)
CountersExact ==
    \A b \in exists :
        /\ total[b] = MapThenSumSet(LAMBDA k : object[b][k].size, Keys)
        /\ ~replicated => count[b] = Cardinality(LiveKeys(b))

(* EmptyDeletable: a bucket is refused as not empty only if it holds an    *)
(* object that a client could list.                                        *)
EmptyDeletable ==
    \A c \in Clients : proc[c].pc = "refused" => LiveKeys(proc[c].bucket) # {}

=============================================================================
