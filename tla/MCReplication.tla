---------------------------- MODULE MCReplication ----------------------------
(* Small instances of Replication for TLC.                                 *)
EXTENDS ReplicationRefinement, ReplicationInvariant, TLC

Symmetry == Permutations(Replicas) \cup Permutations(Bytes)
                \cup Permutations(Workers)
=============================================================================
