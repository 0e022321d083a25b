----------------------------- MODULE MCCluster ------------------------------
(***************************************************************************)
(* Three things the nodes of a cluster do to one another: forward object   *)
(* requests, fan out bucket creation, and watch each other's health.  The  *)
(* models share no state: "part" says which one runs, the others rest.     *)
(***************************************************************************)
EXTENDS Routing, BucketFanout, PeerHealth

CONSTANTS n2, n3

VARIABLE part

(* Three nodes that place two keys alike, apart or on one node.            *)
Agreed == [n \in {"A", "B", "C"} |-> [k \in {"k1", "k2"} |->
            IF k = "k1" THEN "A" ELSE "B"]]
Together == [n \in {"A", "B", "C"} |-> [k \in {"k1", "k2"} |-> "A"]]

(* Nodes with different configurations send each key on to one another.    *)
Disagreed == [n \in {"A", "B", "C"} |-> [k \in {"k1", "k2"} |->
               IF n = "A" THEN "B" ELSE IF n = "B" THEN "C" ELSE "A"]]

ThreeViews == {Agreed, Together, Disagreed}

TwoPeers == <<n2, n3>>

-----------------------------------------------------------------------------
Init ==
    /\ part \in {"routing", "fanout", "health"}
    /\ RoutingInit /\ FanoutInit /\ HealthInit
    /\ part # "routing" => primaryOf = Agreed
    /\ part # "health" => up = [p \in Peers |-> TRUE]

RoutingPart(A) ==
    part = "routing" /\ A /\ UNCHANGED <<part, fanoutVars, healthVars>>
FanoutPart(A) ==
    part = "fanout" /\ A /\ UNCHANGED <<part, routingVars, healthVars>>
HealthPart(A) ==
    part = "health" /\ A /\ UNCHANGED <<part, routingVars, fanoutVars>>

Next ==
    RoutingPart(RoutingNext) \/ FanoutPart(FanoutNext) \/ HealthPart(HealthNext)

vars == <<part, routingVars, fanoutVars, healthVars>>

(* The fairness of RoutingFair, FanoutFair and HealthFair.                 *)
FairSpec ==
    /\ Init /\ [][Next]_vars
    /\ WF_vars(RoutingPart(HandlerStep))
    /\ \A i \in CallIds : WF_vars(FanoutPart(FanoutStep(i)))
    /\ WF_vars(HealthPart(Probe \/ Tick \/ CallbackReturns))

=============================================================================
