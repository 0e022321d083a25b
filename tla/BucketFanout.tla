---------------------------- MODULE BucketFanout ----------------------------
(***************************************************************************)
(* Creating and deleting one bucket in a cluster.  The node a client asks  *)
(* to create the bucket asks every other node, one after the other, with   *)
(* the same PUT a client sends; a node that is asked does the same, since  *)
(* the handler does not tell the two apart.  A DELETE stays on its node.   *)
(*                                                                         *)
(* A call is a run of the createBucket handler that has inserted its row   *)
(* and fans out; a run that finds the bucket answers 409 and is part of    *)
(* its caller's step.                                                      *)
(***************************************************************************)
EXTENDS Naturals, FiniteSets

CONSTANTS
    Members,      \* node ids
    MaxCreates,   \* bound: PUTs of clients
    MaxDeletes,   \* bound: DELETEs of clients
    MaxDrops      \* bound: requests and responses that are lost

ASSUME FanoutAssumption ==
    /\ Members \subseteq Nat \ {0} /\ IsFiniteSet(Members)
    /\ MaxCreates \in Nat /\ MaxDeletes \in Nat /\ MaxDrops \in Nat

(* Every call that is running inserted a row, so this many are enough.     *)
CallIds == 1..(Cardinality(Members) + MaxDeletes)
Client == 0

VARIABLES
    has,      \* nodes with a row for the bucket
    calls,    \* the calls, by id
    creates, deletes, drops   \* histories, for the bounds

fanoutVars == <<has, calls, creates, deletes, drops>>

(* "asking" has the nodes in "todo" still to ask, "waiting" waits for a    *)
(* call it made; "from" is the call that waits for this one.               *)
CallStates == [st : {"free", "asking", "waiting"}, node : Members \cup {0},
               todo : SUBSET Members, from : CallIds \cup {Client}]
Free == [st |-> "free", node |-> 0, todo |-> {}, from |-> Client]

FanoutTypeOK ==
    /\ has \subseteq Members
    /\ calls \in [CallIds -> CallStates]
    /\ \A i \in CallIds : calls[i].node \notin calls[i].todo
    /\ creates \in 0..MaxCreates /\ deletes \in 0..MaxDeletes
    /\ drops \in 0..MaxDrops

FanoutInit ==
    /\ has = {} /\ calls = [i \in CallIds |-> Free]
    /\ creates = 0 /\ deletes = 0 /\ drops = 0

(* A node's list of members has itself in it.                              *)
MutantPeersOf(n) == Members

PeersOf(n) == Members \ {n}

FreeId == CHOOSE i \in CallIds : calls[i].st = "free"
Opened(n, from) ==
    [st |-> "asking", node |-> n, todo |-> PeersOf(n), from |-> from]

(* A call answers 200 whatever its fan-out came to, and its caller goes on.*)
Answer(i) ==
    LET rest == [calls EXCEPT ![i] = Free]
    IN  calls' = IF calls[i].from = Client THEN rest
                 ELSE [rest EXCEPT ![calls[i].from].st = "asking"]

-----------------------------------------------------------------------------
(* A client's PUT; if the bucket is there it is answered 409.              *)
CreateBucket(n) ==
    /\ creates < MaxCreates /\ creates' = creates + 1
    /\ n \notin has
    /\ has' = has \cup {n}
    /\ calls' = [calls EXCEPT ![FreeId] = Opened(n, Client)]
    /\ UNCHANGED <<deletes, drops>>

DeleteBucket(n) ==
    /\ deletes < MaxDeletes /\ deletes' = deletes + 1
    /\ n \in has
    /\ has' = has \ {n}
    /\ UNCHANGED <<calls, creates, drops>>

(* A 409 is retried until it is a 200.                                     *)
MutantEnsureBucketOnPeer(i) ==
    /\ calls[i].st = "asking" /\ calls[i].todo # {}
    /\ LET m == CHOOSE p \in calls[i].todo : \A q \in calls[i].todo : p <= q
       IN  /\ m \notin has
           /\ has' = has \cup {m}
           /\ calls' = [calls EXCEPT
                          ![i] = [@ EXCEPT !.st = "waiting", !.todo = @ \ {m}],
                          ![FreeId] = Opened(m, i)]
    /\ UNCHANGED <<creates, deletes, drops>>

(* One request of the fan-out, in the order of node ids.  A 409 is not a   *)
(* 200: it ends the fan-out.                                               *)
EnsureBucketOnPeer(i) ==
    /\ calls[i].st = "asking" /\ calls[i].todo # {}
    /\ LET m == CHOOSE p \in calls[i].todo : \A q \in calls[i].todo : p <= q
       IN  IF m \in has
           THEN Answer(i) /\ UNCHANGED has
           ELSE /\ has' = has \cup {m}
                /\ calls' = [calls EXCEPT
                               ![i] = [@ EXCEPT !.st = "waiting", !.todo = @ \ {m}],
                               ![FreeId] = Opened(m, i)]
    /\ UNCHANGED <<creates, deletes, drops>>

(* Every peer has been asked.                                              *)
FanoutDone(i) ==
    /\ calls[i].st = "asking" /\ calls[i].todo = {}
    /\ Answer(i)
    /\ UNCHANGED <<has, creates, deletes, drops>>

(* A request that is lost, or fails, ends the fan-out.                     *)
PeerUnreachable(i) ==
    /\ drops < MaxDrops /\ drops' = drops + 1
    /\ calls[i].st = "asking" /\ calls[i].todo # {}
    /\ Answer(i)
    /\ UNCHANGED <<has, creates, deletes>>

(* The connection to the peer breaks while it works: the fan-out ends, and *)
(* what the peer does is waited for by nobody.                             *)
ResponseLost(i, j) ==
    /\ drops < MaxDrops /\ drops' = drops + 1
    /\ calls[i].st = "waiting" /\ calls[j].st # "free" /\ calls[j].from = i
    /\ LET rest == [calls EXCEPT ![i] = Free, ![j] = [@ EXCEPT !.from = Client]]
       IN  calls' = IF calls[i].from = Client THEN rest
                    ELSE [rest EXCEPT ![calls[i].from].st = "asking"]
    /\ UNCHANGED <<has, creates, deletes>>

-----------------------------------------------------------------------------
FanoutStep(i) == EnsureBucketOnPeer(i) \/ FanoutDone(i)

FanoutNext ==
    \/ \E n \in Members : CreateBucket(n) \/ DeleteBucket(n)
    \/ \E i \in CallIds : FanoutStep(i) \/ PeerUnreachable(i)
    \/ \E i, j \in CallIds : ResponseLost(i, j)

FanoutSpec == FanoutInit /\ [][FanoutNext]_fanoutVars

(* Handlers run on and reachable nodes answer.                             *)
FanoutFair == FanoutSpec /\ \A i \in CallIds : WF_fanoutVars(FanoutStep(i))

-----------------------------------------------------------------------------
Running == {i \in CallIds : calls[i].st # "free"}

(* OneCreateSpreads: when a client created the bucket once, nobody deleted *)
(* it and no request was lost, every node has it in the end; or, if the    *)
(* client asked a node with two or more lower ids, exactly the nodes up to *)
(* that one have it: a peer that asks back is told 409, which ends its     *)
(* fan-out before the higher ids.                                          *)
OneCreateSpreads ==
    Running = {} /\ creates = 1 /\ deletes = 0 /\ drops = 0 =>
        \/ has = Members
        \/ \E n \in Members : /\ Cardinality({m \in Members : m < n}) >= 2
                              /\ has = {m \in Members : m <= n}

(* CreateAnswered: every createBucket call ends, although nodes ask nodes  *)
(* that are waiting for them: those have inserted their row and say 409.   *)
CreateAnswered == \A i \in CallIds : calls[i].st # "free" ~> calls[i].st = "free"

(* Everywhere: when no creation is in progress and nobody deleted the      *)
(* bucket, either every node has it or none does.                          *)
Everywhere ==
    Running = {} /\ deletes = 0 /\ drops = 0 => has \in {{}, Members}

=============================================================================
