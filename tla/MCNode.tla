------------------------------- MODULE MCNode -------------------------------
(***************************************************************************)
(* Five parts of one node in one model: range requests, limited uploads,   *)
(* listings, the bucket tables, and start-up with placement.  They share   *)
(* no state, so an interleaving of two of them shows nothing that they do  *)
(* not show alone: "part" says which one runs, the others rest.            *)
(***************************************************************************)
EXTENDS ByteRange, LimitReader, Listing, Buckets, ClusterConfig

CONSTANTS s1, s2

VARIABLE part

(* Bodies and limits around each other.                                    *)
SmallSizes == 0..6
SmallLimits == 1..4

(* Keys 2 and 3 are under one common prefix, 5 under another.              *)
Folders == [k \in 1..5 |-> IF k \in {2, 3} THEN 1 ELSE IF k = 5 THEN 2 ELSE 0]
ListRequests == [startAfter : {0, 2}, delimiter : BOOLEAN, maxKeys : {1, 2}]

(* Every list of up to three ids, with repetitions and empty ids.          *)
AnyListing == UNION {[1..k -> 0..3] : k \in 1..3}

(* Three or all of four nodes, listed upwards or downwards.                *)
GoodListing ==
    {<<1, 2, 3>>, <<1, 2, 4>>, <<1, 3, 4>>, <<2, 3, 4>>, <<1, 2, 3, 4>>,
     <<3, 2, 1>>, <<4, 2, 1>>, <<4, 3, 1>>, <<4, 3, 2>>, <<4, 3, 2, 1>>}

AllListings == AnyListing \cup GoodListing
AnyNumber == {Unset, Bad} \cup 0..3

-----------------------------------------------------------------------------
RangeRests ==
    /\ hdr = [kind |-> "none", a |-> 0, b |-> 0] /\ rowSize = 0 /\ blob = 0
    /\ step = "parse" /\ resp = NoResponse

UploadRests ==
    /\ size = 0 /\ limit = 1 /\ eofWithLast = FALSE /\ emptyReads = FALSE
    /\ got = 0 /\ used = 0 /\ written = 0 /\ outcome = "copying"

ListRests ==
    /\ request = [startAfter |-> 0, delimiter |-> FALSE, maxKeys |-> 1]
    /\ live = {} /\ steady = {} /\ token = 0 /\ more = TRUE
    /\ listed = [k \in Ranks |-> 0] /\ folders = [f \in FolderNames |-> 0]

BucketRests == BucketInit /\ ~replicated

(* A server that did not get past Load.                                    *)
NoFactor == [listing |-> <<1, 2, 3>>, env |-> 0, flag |-> 0,
             N |-> 0, W |-> Unset, R |-> Unset]

Starting(S) ==
    /\ pc = [s \in Servers |-> IF s \in S THEN "load" ELSE "failed"]
    /\ conf = [s \in Servers |-> NoConf]

ConfigRests ==
    /\ score = [n \in NodeIds |-> 0]
    /\ setting = [s \in Servers |-> NoFactor]
    /\ Starting({})

(* Any settings of one server, whose node ids are no larger than three.    *)
AnySettings ==
    /\ score = [n \in NodeIds |-> 0]
    /\ \E x \in [listing : AnyListing \cup {<<>>}, env : IdSettings,
                 flag : IdSettings, N : Factors, W : Quorums, R : Quorums] :
         setting = [s \in Servers |-> IF s = s1 THEN x ELSE NoFactor]
    /\ Starting({s1})

(* Any scores, and two servers with good settings.                         *)
AnyScores ==
    /\ score \in [NodeIds -> Scores]
    /\ setting \in [Servers -> [listing : GoodListing, env : {0}, flag : {0},
                                N : {1, 2}, W : {Unset}, R : {Unset}]]
    /\ Starting(Servers)

Init ==
    \/ /\ part = "range" /\ RangeInit
       /\ UploadRests /\ ListRests /\ BucketRests /\ ConfigRests
    \/ /\ part = "upload" /\ UploadInit
       /\ RangeRests /\ ListRests /\ BucketRests /\ ConfigRests
    \/ /\ part = "list" /\ ListInit
       /\ RangeRests /\ UploadRests /\ BucketRests /\ ConfigRests
    \/ /\ part = "bucket" /\ BucketInit
       /\ RangeRests /\ UploadRests /\ ListRests /\ ConfigRests
    \/ /\ part = "start" /\ (AnySettings \/ AnyScores)
       /\ RangeRests /\ UploadRests /\ ListRests /\ BucketRests

Next ==
    /\ \/ /\ part = "range" /\ RangeNext
          /\ UNCHANGED <<uploadVars, listVars, bucketVars, configVars>>
       \/ /\ part = "upload" /\ UploadNext
          /\ UNCHANGED <<rangeVars, listVars, bucketVars, configVars>>
       \/ /\ part = "list" /\ ListNext
          /\ UNCHANGED <<rangeVars, uploadVars, bucketVars, configVars>>
       \/ /\ part = "bucket" /\ BucketNext
          /\ UNCHANGED <<rangeVars, uploadVars, listVars, configVars>>
       \/ /\ part = "start" /\ ConfigNext
          /\ UNCHANGED <<rangeVars, uploadVars, listVars, bucketVars>>
    /\ UNCHANGED part

vars == <<part, rangeVars, uploadVars, listVars, bucketVars, configVars>>

Spec == Init /\ [][Next]_vars

-----------------------------------------------------------------------------
(* NodeTypeOK: whichever part runs, its variables keep their types.        *)
NodeTypeOK ==
    RangeTypeOK /\ UploadTypeOK /\ ListTypeOK /\ BucketTypeOK /\ ConfigTypeOK

=============================================================================
