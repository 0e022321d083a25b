--------------------------- MODULE MCHintPipeline ---------------------------
(***************************************************************************)
(* When hints are tried and how their payloads are staged.  The models     *)
(* share no state: "part" says which one runs, the other rests.            *)
(***************************************************************************)
EXTENDS HintSchedule, HintStaging

CONSTANTS h1, h2, h3, n2, n3

VARIABLE part

(* h1 and h2 have the same target.                                         *)
TwoTargets == (h1 :> n2) @@ (h2 :> n2) @@ (h3 :> n3)

OwnPaths == [k \in Keys |-> k]

-----------------------------------------------------------------------------
Init ==
    /\ part \in {"schedule", "staging"}
    /\ ScheduleInit /\ StagingInit
    /\ part = "staging" => peer = [n \in Targets |-> "up"]

SchedulePart(A) == part = "schedule" /\ A /\ UNCHANGED <<part, stagingVars>>
StagingPart(A) == part = "staging" /\ A /\ UNCHANGED <<part, scheduleVars>>

Next == SchedulePart(ScheduleNext) \/ StagingPart(StagingNext)

vars == <<part, scheduleVars, stagingVars>>

(* The fairness of ScheduleFair and StagingFair.                           *)
FairSpec ==
    /\ Init /\ [][Next]_vars
    /\ WF_vars(SchedulePart(Second))
    /\ WF_vars(SchedulePart(ListDueHints("ticker")))
    /\ SF_vars(SchedulePart(Deliver("ticker")))
    /\ WF_vars(StagingPart(WorkerStep))
    /\ \A k \in Keys : SF_vars(StagingPart(OpenStagedPath(k)))

-----------------------------------------------------------------------------
(* PipelineTypeOK: due times, batches and staged files keep their types.   *)
PipelineTypeOK == ScheduleTypeOK /\ StagingTypeOK

=============================================================================
