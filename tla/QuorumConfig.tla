---------------------------- MODULE QuorumConfig ----------------------------
(***************************************************************************)
(* The N/W/R thresholds of internal/quorum.  A quorum configuration is a   *)
(* record [N, W, R]: N replicas in a placement set, W acknowledgements for *)
(* a write, R responses for a read.                                        *)
(***************************************************************************)
EXTENDS Integers, FiniteSets

(* Validate returns an error unless 1 <= W <= N, 1 <= R <= N and W+R > N.  *)
Validate(c) ==
    /\ c.N >= 1
    /\ c.W \in 1..c.N
    /\ c.R \in 1..c.N
    /\ c.W + c.R > c.N

WriteSatisfied(c, acks) == acks >= c.W

ReadSatisfied(c, responses) == responses >= c.R

=============================================================================
