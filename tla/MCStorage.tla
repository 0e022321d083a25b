----------------------------- MODULE MCStorage ------------------------------
(***************************************************************************)
(* The objects of one node, with their refinement, and one multipart       *)
(* upload.  The two models share no state: "part" says which one runs, the *)
(* other rests.  The upload has two parts: in one nothing fails; in the    *)
(* other the process may crash and statements fail, but no small part is   *)
(* sent.                                                                   *)
(***************************************************************************)
EXTENDS LocalStoreRefinement, Multipart, TLC

CONSTANTS k1, k2, p1, p2, c1, c2

VARIABLE part

(* Each key has a path of its own.                                         *)
TwoPaths == (k1 :> p1) @@ (k2 :> p2)

OneKey == k1 :> p1

Symmetry == Permutations({c1, c2})

-----------------------------------------------------------------------------
Init ==
    /\ part \in {"objects", "multipart", "faults"}
    /\ StoreInit /\ MultipartInit
    /\ part = "objects" => object = <<>>

Objects(A) == part = "objects" /\ A /\ UNCHANGED <<part, multipartVars>>
Upload(A) ==
    /\ part \in {"multipart", "faults"} /\ A /\ UNCHANGED <<part, storeVars>>
    /\ part = "multipart" => restarts' = 0 /\ errors' = 0
    /\ part = "faults" => \A c \in Uploaders :
          uploader'[c].pc = "part" => uploader'[c].body[2] \notin Small

Next == Objects(StoreNext) \/ Upload(MultipartNext)

vars == <<part, storeVars, multipartVars>>

Spec == Init /\ [][Next]_vars

(* The fairness of StoreFair and of MultipartFair.                         *)
FairSpec ==
    /\ Spec
    /\ \A j \in Jobs : WF_vars(Objects(JobStep(j)))
    /\ WF_vars(Upload(TimePasses))
    /\ \A j \in Sweepers : WF_vars(Upload(SweepStep(j)))

-----------------------------------------------------------------------------
(* StorageTypeOK: rows, files and handlers keep their types, through       *)
(* crashes too.                                                            *)
StorageTypeOK == StoreTypeOK /\ MultipartTypeOK

=============================================================================
