------------------------- MODULE HintStagingProofs --------------------------
(***************************************************************************)
(* Proof that hints keep their pinned copies until they are delivered, for *)
(* any number of keys, crashes, refused deliveries and failing DELETEs, if *)
(* no two keys share a staging path.                                       *)
(***************************************************************************)
EXTENDS HintStaging, TLAPS

OwnPaths == \A j, k \in Keys : PathOf[j] = PathOf[k] => j = k

(* The inductive invariant: beside the pinned copies, the worker is busy   *)
(* with a hint that was enqueued, a hint past its delivery is one that the *)
(* target has, and the file of a hint is removed only when its row is gone *)
(* and cannot come back, or is one that stayed.                            *)
IInv ==
    /\ StagingTypeOK /\ PinnedCopy
    /\ worker.pc # "idle" => worker.key \in Keys /\ enqueue[worker.key] = "over"
    /\ worker.pc \in {"delivered", "cleanup"} => worker.key \in has
    /\ worker.pc = "cleanup" => worker.key \notin hinted \/ worker.key \in kept

(* A step that writes the file of k leaves the copies of the other hints.  *)
LEMMA OtherCopies ==
    ASSUME OwnPaths, StagingTypeOK, PinnedCopy, NEW k \in Keys, NEW x,
           file' = [file EXCEPT ![PathOf[k]] = x]
    PROVE  \A j \in hinted \ {k} : file'[PathOf[j]] = j \/ j \in kept \cap has
<1> SUFFICES ASSUME NEW j \in hinted, j # k, j \notin kept \cap has
             PROVE  file'[PathOf[j]] = j
  OBVIOUS
<1>1. j \in Keys /\ file[PathOf[j]] = j
  BY DEF StagingTypeOK, PinnedCopy, Holds
<1>2. PathOf[j] # PathOf[k] /\ PathOf[j] \in Paths
  BY <1>1, StagingAssumption DEF OwnPaths
<1>3. QED
  BY <1>1, <1>2 DEF StagingTypeOK

(* Every step preserves the invariant.                                     *)
LEMMA StepLemma == ASSUME OwnPaths PROVE IInv /\ [StagingNext]_stagingVars => IInv'
<1> SUFFICES ASSUME IInv, [StagingNext]_stagingVars PROVE IInv'
  OBVIOUS
<1>0. StagingTypeOK /\ PinnedCopy
  BY DEF IInv
<1>1. ASSUME NEW k \in Keys, StageHintCopy(k) PROVE IInv'
  <2>1. k \notin hinted
    BY <1>0, <1>1 DEF StagingTypeOK, StageHintCopy
  <2>2. StagingTypeOK'
    BY <1>0, <1>1, StagingAssumption DEF StagingTypeOK, StageHintCopy
  <2>3. PinnedCopy'
    <3>1. \A j \in hinted \ {k} : file'[PathOf[j]] = j \/ j \in kept \cap has
      BY <1>0, <1>1, OtherCopies DEF StageHintCopy
    <3>2. hinted' = hinted /\ kept' = kept /\ has' = has
      BY <1>1 DEF StageHintCopy
    <3>3. QED
      BY <2>1, <3>1, <3>2 DEF PinnedCopy, Holds
  <2> QED
    BY <1>1, <2>2, <2>3 DEF IInv, StagingTypeOK, StageHintCopy
<1>2. ASSUME NEW k \in Keys, InsertHint(k) PROVE IInv'
  <2>1. StagingTypeOK'
    BY <1>0, <1>2, StagingAssumption DEF StagingTypeOK, InsertHint
  <2>2. Holds(k)'
    BY <1>0, <1>2, StagingAssumption DEF InsertHint, Holds, StagingTypeOK
  <2>3. PinnedCopy'
    BY <1>0, <1>2, <2>2, OtherCopies DEF InsertHint, PinnedCopy, Holds
  <2>4. worker.pc # "idle" => worker.key # k
    BY <1>2 DEF IInv, InsertHint
  <2> QED
    BY <1>2, <2>1, <2>3, <2>4 DEF IInv, StagingTypeOK, InsertHint
<1>2a. ASSUME NEW k \in Keys, StagingFails(k) PROVE IInv'
  <2>0. PICK x \in {NoFile, k} : file' = [file EXCEPT ![PathOf[k]] = x]
    BY <1>2a DEF StagingFails
  <2>1. k \notin hinted
    BY <1>0, <1>2a DEF StagingTypeOK, StagingFails
  <2>2. StagingTypeOK'
    BY <1>0, <1>2a, <2>0, StagingAssumption DEF StagingTypeOK, StagingFails
  <2>3. PinnedCopy'
    <3>1. \A j \in hinted \ {k} : file'[PathOf[j]] = j \/ j \in kept \cap has
      BY <1>0, <2>0, OtherCopies
    <3>2. hinted' = hinted /\ kept' = kept /\ has' = has
      BY <1>2a DEF StagingFails
    <3>3. QED
      BY <2>1, <3>1, <3>2 DEF PinnedCopy, Holds
  <2>4. worker.pc # "idle" => worker.key # k
    BY <1>2a DEF IInv, StagingFails
  <2> QED
    BY <1>2a, <2>2, <2>3, <2>4 DEF IInv, StagingTypeOK, StagingFails
<1>3. ASSUME NEW k \in Keys, OpenStagedPath(k) PROVE IInv'
  BY <1>0, <1>3 DEF IInv, OpenStagedPath, StagingTypeOK, PinnedCopy, Holds
<1>4. CASE SendPayload
  <2>1. worker.pc = "sending" /\ worker.key \in Keys
    BY <1>4 DEF IInv, SendPayload
  <2>2. /\ \/ worker' = [worker EXCEPT !.pc = "delivered"] /\ worker.key \in has'
           \/ worker' = Resting
        /\ UNCHANGED <<file, enqueue, hinted, kept, crashes>>
        /\ has \subseteq has'
    BY <1>4 DEF SendPayload
  <2>3. has' \subseteq Keys /\ refusals' \in 0..MaxRefusals
    BY <1>0, <1>4, <2>1, StagingAssumption DEF StagingTypeOK, SendPayload
  <2> QED
    BY <1>0, <2>1, <2>2, <2>3 DEF IInv, StagingTypeOK, PinnedCopy, Holds, Resting
<1>5. CASE MarkHintDelivered
  <2>1. worker.key \in has /\ worker.key \in Keys
    BY <1>5 DEF IInv, MarkHintDelivered
  <2>2. /\ hinted' \subseteq hinted /\ kept \subseteq kept' /\ kept' \subseteq has
        /\ worker.key \notin hinted' \/ worker.key \in kept'
        /\ UNCHANGED <<file, enqueue, has, crashes, refusals>>
    BY <1>0, <1>5, <2>1 DEF MarkHintDelivered, StagingTypeOK
  <2>3. worker'.pc = "cleanup" /\ worker'.key = worker.key
    BY <1>0, <1>5 DEF MarkHintDelivered, StagingTypeOK
  <2>4. StagingTypeOK'
    BY <1>0, <1>5, <2>2 DEF MarkHintDelivered, StagingTypeOK
  <2>5. PinnedCopy'
    BY <1>0, <2>2 DEF PinnedCopy, Holds
  <2> QED
    BY <1>5, <2>1, <2>2, <2>3, <2>4, <2>5 DEF IInv, MarkHintDelivered
<1>6. CASE CleanupHintPayload
  <2>1. /\ worker.key \in Keys /\ worker.key \in has
        /\ worker.key \notin hinted \/ worker.key \in kept
    BY <1>6 DEF IInv, CleanupHintPayload
  <2>2. PinnedCopy'
    BY <1>0, <1>6, <2>1, OtherCopies DEF CleanupHintPayload, PinnedCopy, Holds
  <2> QED
    BY <1>0, <1>6, <2>2 DEF IInv, CleanupHintPayload, StagingTypeOK, Resting
<1>7. CASE Crash
  <2>1. StagingTypeOK'
    BY <1>0, <1>7, StagingAssumption DEF Crash, StagingTypeOK, Resting
  <2> QED
    BY <1>0, <1>7, <2>1 DEF IInv, Crash, PinnedCopy, Holds, Resting
<1>8. CASE UNCHANGED stagingVars
  BY <1>0, <1>8 DEF IInv, stagingVars, StagingTypeOK, PinnedCopy, Holds
<1>9. QED
  BY <1>1, <1>2, <1>2a, <1>3, <1>4, <1>5, <1>6, <1>7, <1>8 DEF StagingNext, WorkerStep

(* Where no two keys share a staging path, the staged file of every hint   *)
(* in the table has the hint's bytes, through overwrites, refusals and     *)
(* crashes, unless the target has them and the DELETE of the row failed    *)
(* (enqueueHint, DeliverHint, MarkHintDelivered, CleanupHintPayload).      *)
THEOREM Pinned == ASSUME OwnPaths PROVE StagingSpec => []PinnedCopy
<1>1. StagingInit => IInv
  BY StagingAssumption DEF StagingInit, IInv, StagingTypeOK, PinnedCopy, Resting
<1>2. IInv => PinnedCopy
  BY DEF IInv
<1>3. QED
  BY <1>1, <1>2, StepLemma, PTL DEF StagingSpec

=============================================================================
