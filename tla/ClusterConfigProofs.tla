------------------------ MODULE ClusterConfigProofs -------------------------
(***************************************************************************)
(* Proofs about starting servers and placing objects, for any number of    *)
(* servers, any lists of nodes, any settings and any scores.               *)
(***************************************************************************)
EXTENDS ClusterConfig, FiniteSetTheorems, TLAPS

Started == {"override", "membership", "serving"}

Confs == [id : NodeIds \cup {0}, nodes : Seq(NodeIds \cup {0}),
          N : Int, W : Int, R : Int]

(* The inductive invariant: a server that got past Load has quorums that   *)
(* Validate accepted, one that serves has a membership that is valid.      *)
IInv ==
    /\ score \in [NodeIds -> Scores] /\ setting \in [Servers -> Settings]
    /\ pc \in [Servers -> {"load", "failed"} \cup Started]
    /\ conf \in [Servers -> Confs]
    /\ \A s \in Servers :
         /\ pc[s] \in Started => Validate(conf[s])
         /\ pc[s] = "serving" => ValidMembers(conf[s].id, conf[s].nodes)

(* The settings of a server have the types that Load relies on.            *)
LEMMA SettingLemma ==
    ASSUME NEW x \in Settings
    PROVE  /\ x.listing \in Seq(NodeIds \cup {0})
           /\ x.env \in NodeIds \cup {0} /\ x.flag \in NodeIds \cup {0}
           /\ x.N \in Int /\ x.W \in Int /\ x.R \in Int
<1>1. x.listing \in Listings \/ x.listing = <<>>
  BY DEF Settings
<1>2. <<>> \in Seq(NodeIds \cup {0})
  OBVIOUS
<1>3. x.listing \in Seq(NodeIds \cup {0})
  BY <1>1, <1>2, ConfigAssumption
<1>4. x.env \in IdSettings /\ x.flag \in IdSettings
  BY DEF Settings
<1>5. x.N \in Factors /\ x.W \in Quorums /\ x.R \in Quorums
  BY DEF Settings
<1>6. IdSettings \subseteq NodeIds \cup {0}
  BY ConfigAssumption
<1>7. Factors \subseteq Int /\ Quorums \subseteq Int
  BY ConfigAssumption
<1>8. QED
  BY <1>3, <1>4, <1>5, <1>6, <1>7

(* A list with one id is a list of ids.                                    *)
LEMMA OneNode ==
    ASSUME NEW id \in NodeIds \cup {0}
    PROVE  <<id>> \in Seq(NodeIds \cup {0})
  OBVIOUS

(* Changing the state of one server leaves the invariant to be shown for   *)
(* that server only.                                                       *)
LEMMA OneServer ==
    ASSUME IInv, NEW s \in Servers, UNCHANGED <<score, setting>>,
           NEW x \in Confs, conf' = [conf EXCEPT ![s] = x],
           NEW l \in {"load", "failed"} \cup Started, pc' = [pc EXCEPT ![s] = l],
           l \in Started => Validate(x),
           l = "serving" => ValidMembers(x.id, x.nodes)
    PROVE  IInv'
<1>1. conf' \in [Servers -> Confs] /\ pc' \in [Servers -> {"load", "failed"} \cup Started]
  BY DEF IInv
<1>2. ASSUME NEW t \in Servers
      PROVE  /\ pc'[t] \in Started => Validate(conf'[t])
             /\ pc'[t] = "serving" => ValidMembers(conf'[t].id, conf'[t].nodes)
  <2>1. CASE t = s
    BY <2>1 DEF IInv
  <2>2. CASE t # s
    BY <2>2 DEF IInv
  <2> QED
    BY <2>1, <2>2
<1>3. QED
  BY <1>1, <1>2 DEF IInv

(* Every step of a start preserves the invariant.                          *)
LEMMA StepLemma == IInv /\ [ConfigNext]_configVars => IInv'
<1> SUFFICES ASSUME IInv, [ConfigNext]_configVars PROVE IInv'
  OBVIOUS
<1>1. ASSUME NEW s \in Servers, Load(s) PROVE IInv'
  <2> DEFINE x == setting[s]
             id == IF x.env # 0 THEN x.env ELSE DefaultNodeID
             nodes == IF x.listing = <<>> THEN <<id>> ELSE x.listing
             n == ReplicationFactor(x.N, nodes)
             q == [N |-> n,
                   W |-> IF x.W # Unset THEN x.W ELSE DefaultsForN(n),
                   R |-> IF x.R # Unset THEN x.R ELSE DefaultsForN(n)]
  <2>1. /\ x.listing \in Seq(NodeIds \cup {0}) /\ x.env \in NodeIds \cup {0}
        /\ x.N \in Int /\ x.W \in Int /\ x.R \in Int
    BY SettingLemma DEF IInv
  <2>2. id \in NodeIds \cup {0}
    BY <2>1, ConfigAssumption
  <2>3. nodes \in Seq(NodeIds \cup {0})
    BY <2>1, <2>2, OneNode
  <2>4. n \in Int
    BY <2>1 DEF ReplicationFactor
  <2>5. q.N \in Int /\ q.W \in Int /\ q.R \in Int
    BY <2>1, <2>4 DEF DefaultsForN
  <2>6. \/ /\ Accepted(q)
           /\ conf' = [conf EXCEPT ![s] = [id |-> id, nodes |-> nodes,
                                           N |-> q.N, W |-> q.W, R |-> q.R]]
           /\ pc' = [pc EXCEPT ![s] = "override"]
        \/ /\ pc' = [pc EXCEPT ![s] = "failed"]
           /\ UNCHANGED conf
    BY <1>1 DEF Load
  <2>7. UNCHANGED <<score, setting>>
    BY <1>1 DEF Load
  <2> HIDE DEF x, id, nodes, n, q
  <2>8. CASE /\ Accepted(q)
             /\ conf' = [conf EXCEPT ![s] = [id |-> id, nodes |-> nodes,
                                             N |-> q.N, W |-> q.W, R |-> q.R]]
             /\ pc' = [pc EXCEPT ![s] = "override"]
    <3> DEFINE y == [id |-> id, nodes |-> nodes, N |-> q.N, W |-> q.W, R |-> q.R]
    <3>1. y \in Confs
      BY <2>2, <2>3, <2>5 DEF Confs
    <3>2. Validate(y)
      BY <2>8 DEF Accepted, Validate
    <3> HIDE DEF y
    <3>3. conf' = [conf EXCEPT ![s] = y] /\ "override" \in Started
      BY <2>8 DEF y, Started
    <3> QED
      BY <2>7, <2>8, <3>1, <3>2, <3>3, OneServer
  <2>9. CASE pc' = [pc EXCEPT ![s] = "failed"] /\ UNCHANGED conf
    <3>1. conf' = [conf EXCEPT ![s] = conf[s]] /\ conf[s] \in Confs
      BY <2>9 DEF IInv
    <3>2. "failed" \notin Started
      BY DEF Started
    <3> QED
      BY <2>7, <2>9, <3>1, <3>2, OneServer
  <2> QED
    BY <2>6, <2>8, <2>9
<1>2. ASSUME NEW s \in Servers, Override(s) PROVE IInv'
  <2> DEFINE id == IF setting[s].flag # 0 THEN setting[s].flag ELSE conf[s].id
             nodes == IF Len(conf[s].nodes) = 1 THEN <<id>> ELSE conf[s].nodes
             y == [conf[s] EXCEPT !.id = id, !.nodes = nodes]
  <2>1. conf[s] \in Confs /\ setting[s].flag \in NodeIds \cup {0}
    BY SettingLemma DEF IInv
  <2>2. id \in NodeIds \cup {0}
    BY <2>1 DEF Confs
  <2>3. nodes \in Seq(NodeIds \cup {0})
    BY <2>1, <2>2, OneNode DEF Confs
  <2>4. conf' = [conf EXCEPT ![s] = y] /\ UNCHANGED <<score, setting>>
    BY <1>2 DEF Override
  <2>5. pc' = [pc EXCEPT ![s] = "membership"]
    BY <1>2 DEF Override
  <2> HIDE DEF id, nodes
  <2>6. y \in Confs
    BY <2>1, <2>2, <2>3 DEF Confs
  <2>7. Validate(conf[s])
    BY <1>2 DEF Override, IInv, Started
  <2>8. y.N = conf[s].N /\ y.W = conf[s].W /\ y.R = conf[s].R
    BY <2>1 DEF Confs
  <2>9. Validate(y)
    BY <2>7, <2>8 DEF Validate
  <2> HIDE DEF y
  <2>10. "membership" \in Started /\ "membership" # "serving"
    BY DEF Started
  <2> QED
    BY <2>4, <2>5, <2>6, <2>9, <2>10, OneServer
<1>3. ASSUME NEW s \in Servers, NewStaticMembership(s) PROVE IInv'
  <2>1. /\ conf' = [conf EXCEPT ![s] = conf[s]] /\ conf[s] \in Confs
        /\ UNCHANGED <<score, setting>>
    BY <1>3 DEF NewStaticMembership, IInv
  <2>2. Validate(conf[s])
    BY <1>3 DEF NewStaticMembership, IInv, Started
  <2>3. CASE ValidMembers(conf[s].id, conf[s].nodes)
    <3>1. pc' = [pc EXCEPT ![s] = "serving"] /\ "serving" \in Started
      BY <1>3, <2>3 DEF NewStaticMembership, Started
    <3> QED
      BY <2>1, <2>2, <2>3, <3>1, OneServer
  <2>4. CASE ~ValidMembers(conf[s].id, conf[s].nodes)
    <3>1. pc' = [pc EXCEPT ![s] = "failed"] /\ "failed" \notin Started
      BY <1>3, <2>4 DEF NewStaticMembership, Started
    <3> QED
      BY <2>1, <3>1, OneServer
  <2> QED
    BY <2>3, <2>4
<1>4. CASE UNCHANGED configVars
  BY <1>4 DEF configVars, IInv
<1>5. QED
  BY <1>1, <1>2, <1>3, <1>4 DEF ConfigNext

(* The invariant holds throughout.                                         *)
LEMMA Invariance == ConfigSpec => []IInv
<1>1. ConfigInit => IInv
  <2> SUFFICES ASSUME ConfigInit PROVE IInv
    OBVIOUS
  <2>1. NoConf \in Confs
    BY DEF NoConf, Confs
  <2>2. "load" \notin Started
    BY DEF Started
  <2> QED
    BY <2>1, <2>2 DEF ConfigInit, IInv
<1>2. QED
  BY <1>1, StepLemma, PTL DEF ConfigSpec

-----------------------------------------------------------------------------
(* A server's nodes are finitely many, and as many as its list is long if  *)
(* no id is repeated.                                                      *)
LEMMA IdsLemma ==
    ASSUME IInv, NEW s \in Servers
    PROVE  /\ IsFiniteSet(Ids(s))
           /\ ValidMembers(conf[s].id, conf[s].nodes) =>
                Cardinality(Ids(s)) = Len(conf[s].nodes)
<1> DEFINE l == conf[s].nodes
           S == 1..Len(l)
<1>1. l \in Seq(NodeIds \cup {0})
  BY DEF IInv, Confs
<1>2. Len(l) \in Nat /\ DOMAIN l = S
  BY <1>1
<1>3. IsFiniteSet(S) /\ Cardinality(S) = Len(l)
  BY <1>2, FS_Interval
<1>4. l \in [S -> Ids(s)]
  BY <1>1, <1>2 DEF Ids
<1>a. \A i \in Ids(s) : \E j \in S : l[j] = i
  BY <1>2 DEF Ids
<1>5. l \in Surjection(S, Ids(s))
  BY <1>4, <1>a DEF Surjection
<1>6. ValidMembers(conf[s].id, l) => l \in Injection(S, Ids(s))
  BY <1>2, <1>4 DEF ValidMembers, Injection, IsInjective
<1>7. QED
  BY <1>3, <1>5, <1>6, FS_Surjection

(* A server that serves has overlapping quorums within the replication     *)
(* factor and knows itself among distinct nodes, whatever its settings     *)
(* were (config.Load, ApplyRuntimeOverrides, NewStaticMembership).         *)
THEOREM Sound == ConfigSpec => []StartedSound
<1>1. IInv => StartedSound
  <2> SUFFICES ASSUME IInv, NEW s \in Servers, pc[s] = "serving"
      PROVE  /\ conf[s].W + conf[s].R > conf[s].N
             /\ conf[s].W \in 1..conf[s].N /\ conf[s].R \in 1..conf[s].N
             /\ conf[s].id \in Ids(s)
             /\ Cardinality(Ids(s)) = Len(conf[s].nodes)
    BY DEF StartedSound
  <2>1. Validate(conf[s]) /\ ValidMembers(conf[s].id, conf[s].nodes)
    BY DEF IInv, Started
  <2>2. conf[s].id \in Ids(s)
    BY <2>1 DEF ValidMembers, Ids
  <2>3. /\ conf[s].W + conf[s].R > conf[s].N
        /\ conf[s].W \in 1..conf[s].N /\ conf[s].R \in 1..conf[s].N
    BY <2>1 DEF Validate
  <2> QED
    BY <2>1, <2>2, <2>3, IdsLemma
<1>2. QED
  BY <1>1, Invariance, PTL

(* A node's position among fewer nodes is not worse.                       *)
LEMMA PositionLemma ==
    ASSUME NEW A, NEW B, IsFiniteSet(B), A \subseteq B, NEW n
    PROVE  /\ Position(n, A) \in Nat /\ Position(n, B) \in Nat
           /\ Position(n, A) <= Position(n, B)
<1> DEFINE a == {m \in A : Before(m, n)}
           b == {m \in B : Before(m, n)}
<1>1. IsFiniteSet(b)
  BY FS_Subset
<1>2. a \in SUBSET b
  OBVIOUS
<1>3. IsFiniteSet(a) /\ Cardinality(a) <= Cardinality(b)
  BY <1>1, <1>2, FS_Subset
<1>4. Cardinality(a) \in Nat /\ Cardinality(b) \in Nat
  BY <1>1, <1>3, FS_CardinalityType
<1>5. QED
  BY <1>3, <1>4 DEF Position

(* When nodes are added, an object moves to new nodes only, for every      *)
(* score function, every number of nodes and every replication factor      *)
(* (Locate's ranking by rendezvousScore).                                  *)
THEOREM Stable == ConfigSpec => []PlacementStable
<1>1. IInv => PlacementStable
  <2> SUFFICES ASSUME IInv, NEW s \in Servers, NEW t \in Servers,
                      Ids(s) \subseteq Ids(t), conf[s].N = conf[t].N
      PROVE  /\ ReplicaSet(t) \cap Ids(s) \subseteq ReplicaSet(s)
             /\ \A n \in Ids(s) : IsPrimary(n, t) => IsPrimary(n, s)
    BY DEF PlacementStable
  <2>1. IsFiniteSet(Ids(t)) /\ conf[s].N \in Int
    BY IdsLemma DEF IInv, Confs
  <2>2. \A n : /\ Position(n, Ids(s)) \in Nat /\ Position(n, Ids(t)) \in Nat
               /\ Position(n, Ids(s)) <= Position(n, Ids(t))
    BY <2>1, PositionLemma
  <2>3. ReplicaSet(t) \cap Ids(s) \subseteq ReplicaSet(s)
    BY <2>1, <2>2 DEF ReplicaSet
  <2>4. \A n \in Ids(s) : IsPrimary(n, t) => IsPrimary(n, s)
    BY <2>2 DEF IsPrimary
  <2> QED
    BY <2>3, <2>4
<1>2. QED
  BY <1>1, Invariance, PTL

=============================================================================
