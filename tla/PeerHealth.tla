----------------------------- MODULE PeerHealth -----------------------------
(***************************************************************************)
(* The peer health monitor of one node: PeerHealthTracker with its         *)
(* counters, the probe rounds of PeerHealthMonitor, and the recovery       *)
(* callback that it runs in its own goroutine.                             *)
(***************************************************************************)
EXTENDS Integers, Sequences

CONSTANTS
    PeerList,         \* the other nodes, in the order of ListNodes
    CfgFail,          \* PeerHealthConfig.FailThreshold; main leaves it 0
    CfgRecover,       \* PeerHealthConfig.RecoverThreshold; main leaves it 0
    CountCap,         \* bound: failures counted of an unreachable peer
    NoPeer            \* "no callback is running"

Peers == {PeerList[i] : i \in 1..Len(PeerList)}

ASSUME PeersAssumption ==
    /\ PeerList \in Seq(Peers) /\ PeerList # <<>> /\ NoPeer \notin Peers
    /\ \A i, j \in 1..Len(PeerList) : PeerList[i] = PeerList[j] => i = j
ASSUME ThresholdAssumption ==
    /\ CfgFail \in Int /\ CfgRecover \in Int /\ CountCap \in Nat

failThreshold == IF CfgFail <= 0 THEN 3 ELSE CfgFail
recoverThreshold == IF CfgRecover <= 0 THEN 2 ELSE CfgRecover

VARIABLES
    up,         \* peer -> /health/live answers 200 (environment)
    hung,       \* peers that accept a delivery and never answer it
    reachable,  \* the tracker's map
    failures,   \* the tracker's map
    successes,  \* the tracker's map
    next,       \* position in the round; 0: waiting for the ticker
    callback,   \* the peer whose recovery callback is running
    streak      \* history: peer -> its latest probe results

FD == INSTANCE FailureDetector WITH
        Down <- failThreshold, Up <- recoverThreshold, verdict <- reachable

tracker == <<reachable, failures, successes>>
healthVars == <<up, hung, reachable, failures, successes, next, callback, streak>>

HealthTypeOK ==
    /\ up \in [Peers -> BOOLEAN] /\ hung \subseteq Peers
    /\ reachable \in [Peers -> BOOLEAN]
    /\ failures \in [Peers -> 0..(CountCap + failThreshold)]
    /\ successes \in [Peers -> 0..recoverThreshold]
    /\ next \in 0..Len(PeerList)
    /\ callback \in Peers \cup {NoPeer}
    /\ streak \in [Peers -> [ok : BOOLEAN, n : 0..FD!Longest]]

HealthInit ==
    /\ up \in [Peers -> BOOLEAN] /\ hung = {}
    /\ reachable = [p \in Peers |-> TRUE]
    /\ failures = [p \in Peers |-> 0]
    /\ successes = [p \in Peers |-> 0]
    /\ next = 1
    /\ callback = NoPeer
    /\ streak = [p \in Peers |-> [ok |-> TRUE, n |-> 0]]

(* A success leaves the failures counted so far.                           *)
MutantRecordSuccess(p) ==
    LET n == successes[p] + 1
        back == ~reachable[p] /\ n >= recoverThreshold
    IN  /\ UNCHANGED failures
        /\ reachable' = [reachable EXCEPT ![p] = @ \/ back]
        /\ successes' = [successes EXCEPT ![p] =
                           IF reachable[p] \/ back THEN 0 ELSE n]
        /\ callback' = IF back THEN p ELSE callback

(* recordSuccess; it returns true when the peer has just come back, and    *)
(* probeOnce then calls onRecovered.                                       *)
recordSuccess(p) ==
    LET n == successes[p] + 1
        back == ~reachable[p] /\ n >= recoverThreshold
    IN  /\ failures' = [failures EXCEPT ![p] = 0]
        /\ reachable' = [reachable EXCEPT ![p] = @ \/ back]
        /\ successes' = [successes EXCEPT ![p] =
                           IF reachable[p] \/ back THEN 0 ELSE n]
        /\ callback' = IF back THEN p ELSE callback

(* recordFailure.  While the peer is unreachable its failures are counted  *)
(* without a limit and never read; the count stops at CountCap here.       *)
recordFailure(p) ==
    LET n == failures[p] + 1
        lost == reachable[p] /\ n >= failThreshold
    IN  /\ successes' = [successes EXCEPT ![p] = 0]
        /\ failures' = [failures EXCEPT ![p] =
                          IF lost THEN 0
                          ELSE IF ~reachable[p] /\ n > CountCap THEN @ ELSE n]
        /\ reachable' = [reachable EXCEPT ![p] = @ /\ ~lost]

-----------------------------------------------------------------------------
(* One turn of the loop of probeOnce.  The probe has a timeout, so a peer  *)
(* that does not answer is a failure.                                      *)
Probe ==
    /\ callback = NoPeer /\ next > 0
    /\ LET p == PeerList[next]
       IN  \/ up[p] /\ recordSuccess(p)
           \/ ~up[p] /\ recordFailure(p) /\ UNCHANGED callback
    /\ LET p == PeerList[next]
       IN  streak' = [streak EXCEPT ![p] = FD!Extend(streak[p], up[p])]
    /\ next' = IF next = Len(PeerList) THEN 0 ELSE next + 1
    /\ UNCHANGED <<up, hung>>

(* A new round begins where the last one ended.                            *)
MutantTick ==
    /\ callback = NoPeer /\ next = 0
    /\ next' = Len(PeerList)
    /\ UNCHANGED <<up, hung, tracker, callback, streak>>

(* The ticker fires and a new round begins.                                *)
Tick ==
    /\ callback = NoPeer /\ next = 0
    /\ next' = 1
    /\ UNCHANGED <<up, hung, tracker, callback, streak>>

(* OnPeerRecovered returns: its batch of hints, for whatever targets, has  *)
(* been tried.  Deliveries have no timeout.                                *)
CallbackReturns ==
    /\ callback # NoPeer /\ hung = {}
    /\ callback' = NoPeer
    /\ UNCHANGED <<up, hung, tracker, next, streak>>

(* The environment: a peer starts or stops answering.                      *)
PeerChanges(p) ==
    /\ up' = [up EXCEPT ![p] = ~@]
    /\ UNCHANGED <<hung, tracker, next, callback, streak>>

PeerHangs(p) ==
    /\ hung' = hung \cup {p}
    /\ UNCHANGED <<up, tracker, next, callback, streak>>

HealthNext ==
    \/ Probe \/ Tick \/ CallbackReturns
    \/ \E p \in Peers : PeerChanges(p) \/ PeerHangs(p)

HealthSpec == HealthInit /\ [][HealthNext]_healthVars

(* The goroutine of Run goes on whenever it can.                           *)
HealthFair == HealthSpec /\ WF_healthVars(Probe \/ Tick \/ CallbackReturns)

-----------------------------------------------------------------------------
(* ImplementsDetector: the verdict flips exactly at the threshold number   *)
(* of consecutive results, although recordFailure and recordSuccess keep   *)
(* two counters that several branches reset.                               *)
ImplementsDetector == FD!DetectorSpec

(* The monitor waits for ever for a recovery callback, whose deliveries    *)
(* have no timeout.                                                        *)
Stuck == <>[](callback # NoPeer)

(* ChangesNoticed: a peer that stays down, or up, is from some time on     *)
(* reported as such, however its counters stood, unless the monitor is     *)
(* stuck in a callback.                                                    *)
ChangesNoticed ==
    \A p \in Peers :
        /\ <>[]~up[p] => <>[]~reachable[p] \/ Stuck
        /\ <>[]up[p] => <>[]reachable[p] \/ Stuck

=============================================================================
