---------------------------- MODULE HintStaging -----------------------------
(***************************************************************************)
(* The staged payloads of hints for one target and one version, one hint   *)
(* per key: StageHintCopy, which truncates the file and copies into it,    *)
(* CreateHint, DeliverHint and the clean-up after it, with crashes.        *)
(* Replication has these as one step each, for the hints of one key.       *)
(***************************************************************************)
EXTENDS Naturals, FiniteSets

CONSTANTS
    Keys,
    Paths,
    PathOf,      \* key -> hintPayloadPath, where '/' in a key becomes '_'
    Partial,     \* content of a file that is being copied
    NoFile,
    MaxCrashes,  \* bound: crashes of the process
    MaxRefusals  \* bound: deliveries that the target or the network fail

ASSUME StagingAssumption ==
    /\ PathOf \in [Keys -> Paths]
    /\ {Partial, NoFile} \cap Keys = {} /\ Partial # NoFile
    /\ MaxCrashes \in Nat /\ MaxRefusals \in Nat

VARIABLES
    file,      \* path -> whose bytes it has
    enqueue,   \* key -> where its enqueueHint is: "new", "copying", "over"
    hinted,    \* keys with a hint in the table
    worker,    \* what the hint worker does: a key, and how far it is
    has,       \* keys whose bytes the target has
    kept,      \* history: keys whose row stayed after a delivery
    crashes, refusals   \* histories, for the bounds

stagingVars == <<file, enqueue, hinted, worker, has, kept, crashes, refusals>>

Resting == [pc |-> "idle", key |-> NoFile]

StagingTypeOK ==
    /\ file \in [Paths -> Keys \cup {Partial, NoFile}]
    /\ enqueue \in [Keys -> {"new", "copying", "over"}]
    /\ hinted \subseteq {k \in Keys : enqueue[k] = "over"}
    /\ has \subseteq Keys /\ kept \subseteq has
    /\ worker \in [pc : {"idle", "sending", "delivered", "cleanup"},
                   key : Keys \cup {NoFile}]
    /\ crashes \in 0..MaxCrashes /\ refusals \in 0..MaxRefusals

StagingInit ==
    /\ file = [p \in Paths |-> NoFile]
    /\ enqueue = [k \in Keys |-> "new"]
    /\ hinted = {} /\ has = {} /\ kept = {} /\ worker = Resting
    /\ crashes = 0 /\ refusals = 0

Holds(k) == file[PathOf[k]] = k

-----------------------------------------------------------------------------
(* copyFile: os.Create truncates what is there, io.Copy fills it.          *)
StageHintCopy(k) ==
    /\ enqueue[k] = "new"
    /\ file' = [file EXCEPT ![PathOf[k]] = Partial]
    /\ enqueue' = [enqueue EXCEPT ![k] = "copying"]
    /\ UNCHANGED <<hinted, worker, has, kept, crashes, refusals>>

(* The row is inserted before the copy is complete.                        *)
MutantInsertHint(k) ==
    /\ enqueue[k] = "copying"
    /\ enqueue' = [enqueue EXCEPT ![k] = "over"]
    /\ hinted' = hinted \cup {k}
    /\ UNCHANGED <<file, worker, has, kept, crashes, refusals>>

(* The copy is complete, and CreateHint inserts the row that names it.     *)
InsertHint(k) ==
    /\ enqueue[k] = "copying"
    /\ enqueue' = [enqueue EXCEPT ![k] = "over"]
    /\ file' = [file EXCEPT ![PathOf[k]] = k]
    /\ hinted' = hinted \cup {k}
    /\ UNCHANGED <<worker, has, kept, crashes, refusals>>

(* The copy fails and is removed, and the hint has no payload of its own   *)
(* (Replication has those); or the statement fails and the copy stays.     *)
StagingFails(k) ==
    /\ enqueue[k] = "copying"
    /\ enqueue' = [enqueue EXCEPT ![k] = "over"]
    /\ \E x \in {NoFile, k} : file' = [file EXCEPT ![PathOf[k]] = x]
    /\ UNCHANGED <<hinted, worker, has, kept, crashes, refusals>>

-----------------------------------------------------------------------------
(* DeliverHint opens the staged file; without it the delivery fails.       *)
OpenStagedPath(k) ==
    /\ worker.pc = "idle" /\ k \in hinted
    /\ file[PathOf[k]] # NoFile
    /\ worker' = [pc |-> "sending", key |-> k]
    /\ UNCHANGED <<file, enqueue, hinted, has, kept, crashes, refusals>>

(* The row of a delivered hint is left where it is.                        *)
MutantSendPayload ==
    /\ worker.pc = "sending"
    /\ has' = IF Holds(worker.key) THEN has \cup {worker.key} ELSE has
    /\ worker' = Resting
    /\ UNCHANGED <<file, enqueue, hinted, kept, crashes, refusals>>

(* The target takes the bytes if they have the ETag of the hint.           *)
SendPayload ==
    /\ worker.pc = "sending"
    /\ \/ /\ Holds(worker.key)
          /\ has' = has \cup {worker.key}
          /\ worker' = [worker EXCEPT !.pc = "delivered"]
          /\ UNCHANGED refusals
       \/ /\ Holds(worker.key) => refusals < MaxRefusals
          /\ refusals' = IF Holds(worker.key) THEN refusals + 1 ELSE refusals
          /\ worker' = Resting
          /\ UNCHANGED has
    /\ UNCHANGED <<file, enqueue, hinted, kept, crashes>>

(* DELETE of the row; its failure is ignored, and the file goes anyway.    *)
MarkHintDelivered ==
    /\ worker.pc = "delivered"
    /\ \/ hinted' = hinted \ {worker.key} /\ UNCHANGED kept
       \/ kept' = kept \cup {worker.key} /\ UNCHANGED hinted
    /\ worker' = [worker EXCEPT !.pc = "cleanup"]
    /\ UNCHANGED <<file, enqueue, has, crashes, refusals>>

CleanupHintPayload ==
    /\ worker.pc = "cleanup"
    /\ file' = [file EXCEPT ![PathOf[worker.key]] = NoFile]
    /\ worker' = Resting
    /\ UNCHANGED <<enqueue, hinted, has, kept, crashes, refusals>>

(* The process stops; an enqueueHint in progress is lost.                  *)
Crash ==
    /\ crashes < MaxCrashes /\ crashes' = crashes + 1
    /\ worker' = Resting
    /\ enqueue' = [k \in Keys |-> IF enqueue[k] = "copying" THEN "over"
                               ELSE enqueue[k]]
    /\ UNCHANGED <<file, hinted, has, kept, refusals>>

-----------------------------------------------------------------------------
WorkerStep == SendPayload \/ MarkHintDelivered \/ CleanupHintPayload

StagingNext ==
    \/ \E k \in Keys : StageHintCopy(k) \/ InsertHint(k) \/ StagingFails(k)
                       \/ OpenStagedPath(k)
    \/ WorkerStep
    \/ Crash

StagingSpec == StagingInit /\ [][StagingNext]_stagingVars

(* The worker goes on and comes back to every hint; deliveries end         *)
(* (HintSchedule says when both are so).                                   *)
StagingFair ==
    /\ StagingSpec
    /\ WF_stagingVars(WorkerStep)
    /\ \A k \in Keys : SF_stagingVars(OpenStagedPath(k))

-----------------------------------------------------------------------------
(* PinnedCopy: the staged file of a hint in the table has the bytes the    *)
(* hint is about, unless the target has them and the row only stayed       *)
(* because its DELETE failed (StageHintCopy before CreateHint,             *)
(* MarkHintDelivered before CleanupHintPayload).                           *)
PinnedCopy == \A k \in hinted : Holds(k) \/ k \in kept \cap has

(* HintSettles: every hint is delivered, through refusals and crashes      *)
(* between the steps of a delivery, and leaves the table, unless its       *)
(* DELETE failed: that row stays, since its later deliveries find no file. *)
HintSettles ==
    \A k \in Keys : k \in hinted ~> k \in has /\ (k \in hinted => k \in kept)

=============================================================================
