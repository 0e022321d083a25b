--------------------------- MODULE ClusterConfig ----------------------------
(***************************************************************************)
(* How a server gets from its settings to a placement: config.Load, the    *)
(* flags, NewStaticMembership, and Locate for one object.  Several servers *)
(* start, each with settings of its own.                                   *)
(*                                                                         *)
(* A node id is a number (its rank among ids; 0 is the empty string).  In  *)
(* a listing 0 is an entry that lacks its id or, unless it is the server's *)
(* own, which is given one, its address.  A number setting is Unset, Bad   *)
(* if it does not parse, or its value.  What rendezvousScore gives for the *)
(* object is any function of the id.                                       *)
(***************************************************************************)
EXTENDS Integers, Sequences, FiniteSets, QuorumConfig

CONSTANTS
    Servers,
    NodeIds,      \* node ids, positive
    Listings,     \* lists of node ids that cluster configurations have
    IdSettings,   \* OBJEX_NODE_ID and the -node-id flag, 0 if not given
    Factors,      \* what OBJEX_REPLICATION_FACTOR may be
    Quorums,      \* what the quorum settings may be
    Scores        \* what rendezvousScore may return

Unset == -1
Bad == -2
DefaultNodeID == 1

ASSUME ConfigAssumption ==
    /\ NodeIds \subseteq Nat \ {0} /\ Scores \subseteq Nat
    /\ IdSettings \subseteq NodeIds \cup {0} /\ Factors \cup Quorums \subseteq Int
    /\ DefaultNodeID \in NodeIds
    /\ \A l \in Listings : l \in Seq(NodeIds \cup {0})

(* No listing stands for a server without a cluster configuration.         *)
Settings == [listing : Listings \cup {<<>>}, env : IdSettings, flag : IdSettings,
             N : Factors, W : Quorums, R : Quorums]

VARIABLES
    score,    \* node id -> its score for the object
    setting,  \* server -> its settings
    pc,       \* server -> where it is in main
    conf      \* server -> [id, nodes, N, W, R]

configVars == <<score, setting, pc, conf>>

NoConf == [id |-> 0, nodes |-> <<>>, N |-> 0, W |-> 0, R |-> 0]
Ids(s) == {conf[s].nodes[i] : i \in DOMAIN conf[s].nodes}

ConfigTypeOK ==
    /\ score \in [NodeIds -> Scores] /\ setting \in [Servers -> Settings]
    /\ pc \in [Servers -> {"load", "override", "membership", "serving", "failed"}]
    /\ \A s \in Servers :
         /\ conf[s].id \in NodeIds \cup {0}
         /\ pc[s] = "serving" => Ids(s) \subseteq NodeIds

ConfigInit ==
    /\ score \in [NodeIds -> Scores]
    /\ setting \in [Servers -> Settings]
    /\ pc = [s \in Servers |-> "load"]
    /\ conf = [s \in Servers |-> NoConf]

-----------------------------------------------------------------------------
DefaultsForN(n) == IF n >= 3 THEN 2 ELSE n

(* OBJEX_REPLICATION_FACTOR, else three if there are three nodes.          *)
ReplicationFactor(x, nodes) ==
    IF x # Unset THEN x ELSE IF Len(nodes) >= 3 THEN 3 ELSE 1

(* Quorums are checked one by one only.                                    *)
MutantAccepted(q) == q.N >= 1 /\ q.W \in 1..q.N /\ q.R \in 1..q.N

(* A number that does not parse or is below one stops the server.          *)
Accepted(q) == Validate(q)

Load(s) ==
    /\ pc[s] = "load"
    /\ LET x == setting[s]
           id == IF x.env # 0 THEN x.env ELSE DefaultNodeID
           nodes == IF x.listing = <<>> THEN <<id>> ELSE x.listing
           n == ReplicationFactor(x.N, nodes)
           q == [N |-> n,
                 W |-> IF x.W # Unset THEN x.W ELSE DefaultsForN(n),
                 R |-> IF x.R # Unset THEN x.R ELSE DefaultsForN(n)]
       IN  IF Accepted(q)
           THEN /\ conf' = [conf EXCEPT ![s] = [id |-> id, nodes |-> nodes,
                                                N |-> q.N, W |-> q.W, R |-> q.R]]
                /\ pc' = [pc EXCEPT ![s] = "override"]
           ELSE /\ pc' = [pc EXCEPT ![s] = "failed"]
                /\ UNCHANGED conf
    /\ UNCHANGED <<score, setting>>

(* ApplyRuntimeOverrides and RebuildLocalClusterAddress: the flag wins,    *)
(* and the only node of a cluster of one takes the id.                     *)
Override(s) ==
    /\ pc[s] = "override"
    /\ LET id == IF setting[s].flag # 0 THEN setting[s].flag ELSE conf[s].id
           nodes == IF Len(conf[s].nodes) = 1 THEN <<id>> ELSE conf[s].nodes
       IN  conf' = [conf EXCEPT ![s] = [conf[s] EXCEPT !.id = id, !.nodes = nodes]]
    /\ pc' = [pc EXCEPT ![s] = "membership"]
    /\ UNCHANGED <<score, setting>>

(* No id or address is missing, no id is there twice, the local id is.     *)
ValidMembers(id, nodes) ==
    /\ \A i \in DOMAIN nodes : nodes[i] # 0
    /\ \A i, j \in DOMAIN nodes : nodes[i] = nodes[j] => i = j
    /\ \E i \in DOMAIN nodes : nodes[i] = id

NewStaticMembership(s) ==
    /\ pc[s] = "membership"
    /\ pc' = [pc EXCEPT ![s] = IF ValidMembers(conf[s].id, conf[s].nodes)
                               THEN "serving" ELSE "failed"]
    /\ UNCHANGED <<score, setting, conf>>

ConfigNext == \E s \in Servers : Load(s) \/ Override(s) \/ NewStaticMembership(s)

ConfigSpec == ConfigInit /\ [][ConfigNext]_configVars

-----------------------------------------------------------------------------
(* The comparison lets ties stand both ways.                               *)
MutantBefore(m, n) == score[m] >= score[n] /\ m # n

(* The order of Locate: higher scores first, then smaller ids.             *)
Before(m, n) == score[m] > score[n] \/ (score[m] = score[n] /\ m < n)

(* Its position among the ranked nodes.                                    *)
Position(n, ids) == Cardinality({m \in ids : Before(m, n)})

(* The replicas are the nodes that follow the primary by id.               *)
MutantReplicaSet(s) ==
    LET top == CHOOSE n \in Ids(s) : Position(n, Ids(s)) = 0
        Steps(n) == (n + 9 - top) % 9
    IN  {n \in Ids(s) : Cardinality({m \in Ids(s) : Steps(m) < Steps(n)}) < conf[s].N}

(* The nodes at positions below the replication factor.                    *)
ReplicaSet(s) ==
    {n \in Ids(s) : Position(n, Ids(s)) < conf[s].N}

IsPrimary(n, s) == n \in Ids(s) /\ Position(n, Ids(s)) = 0

(* ErrReplicationFactorTooLarge.                                           *)
Locates(s) == pc[s] = "serving" /\ conf[s].N <= Cardinality(Ids(s))

-----------------------------------------------------------------------------
(* StartedSound: a server that serves has quorums that overlap, and knows  *)
(* itself among nodes with distinct ids (Load, NewStaticMembership).       *)
StartedSound ==
    \A s \in Servers : pc[s] = "serving" =>
        /\ conf[s].W + conf[s].R > conf[s].N
        /\ conf[s].W \in 1..conf[s].N /\ conf[s].R \in 1..conf[s].N
        /\ conf[s].id \in Ids(s)
        /\ Cardinality(Ids(s)) = Len(conf[s].nodes)

(* PlacementAgrees: servers that list the same nodes, in whatever order,   *)
(* and have the same factor place the object on the same primary and       *)
(* replicas, of which there are as many as the factor says.                *)
PlacementAgrees ==
    \A s, t \in Servers :
        (Locates(s) /\ Locates(t) /\ Ids(s) = Ids(t) /\ conf[s].N = conf[t].N) =>
          /\ ReplicaSet(s) = ReplicaSet(t)
          /\ Cardinality(ReplicaSet(s)) = conf[s].N
          /\ \E n \in ReplicaSet(s) : IsPrimary(n, s) /\ IsPrimary(n, t)

(* PlacementStable: with more nodes the object moves to new nodes only:    *)
(* a node that has it after the change was new, or had it before; the same *)
(* holds of the primary.                                                   *)
PlacementStable ==
    \A s, t \in Servers :
        (/\ Locates(s) /\ Locates(t)
         /\ Ids(s) \subseteq Ids(t) /\ conf[s].N = conf[t].N) =>
          /\ ReplicaSet(t) \cap Ids(s) \subseteq ReplicaSet(s)
          /\ \A n \in Ids(s) : IsPrimary(n, t) => IsPrimary(n, s)

(* DefaultsStart: a server with a good list of nodes and a replication     *)
(* factor, and no quorums of its own, starts with the default quorums.     *)
DefaultsStart ==
    \A s \in Servers :
        (/\ pc[s] = "failed" /\ setting[s].W = Unset /\ setting[s].R = Unset
         /\ setting[s].N # Bad /\ setting[s].N # 0)
          => ~ValidMembers(DefaultNodeID, setting[s].listing)

=============================================================================
