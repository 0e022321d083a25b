-------------------------- MODULE PeerHealthProofs --------------------------
(***************************************************************************)
(* Proof that the peer health monitor implements the failure detector, for *)
(* any peers, any thresholds and any order of probe results.               *)
(***************************************************************************)
EXTENDS PeerHealth, TLAPS

(* How the two counters of a peer stand to its latest results: at most one *)
(* of them counts the current streak, and which one it is depends on the   *)
(* verdict; both are below their thresholds.                               *)
Counted(p) ==
    /\ reachable[p] =>
         /\ successes[p] = 0 /\ failures[p] < failThreshold
         /\ failures[p] = IF streak[p].ok THEN 0 ELSE streak[p].n
    /\ ~reachable[p] =>
         /\ successes[p] < recoverThreshold
         /\ successes[p] = IF streak[p].ok THEN streak[p].n ELSE 0

(* The inductive invariant.                                                *)
IInv ==
    /\ up \in [Peers -> BOOLEAN] /\ reachable \in [Peers -> BOOLEAN]
    /\ failures \in [Peers -> Nat] /\ successes \in [Peers -> Nat]
    /\ next \in 0..Len(PeerList)
    /\ streak \in [Peers -> [ok : BOOLEAN, n : Nat]]
    /\ \A p \in Peers : Counted(p)

(* Thresholds are positive, whatever the configuration says.               *)
LEMMA Thresholds ==
    /\ failThreshold \in Nat /\ recoverThreshold \in Nat /\ FD!Longest \in Nat
    /\ failThreshold >= 1 /\ recoverThreshold >= 1
    /\ failThreshold <= FD!Longest /\ recoverThreshold <= FD!Longest
<1>1. /\ failThreshold \in Nat /\ recoverThreshold \in Nat
      /\ failThreshold >= 1 /\ recoverThreshold >= 1
  BY ThresholdAssumption DEF failThreshold, recoverThreshold
<1>2. QED
  BY <1>1 DEF FD!Longest

(* A streak that goes on below the limit is one longer, a new one is one.  *)
LEMMA ExtendLemma ==
    ASSUME NEW x \in [ok : BOOLEAN, n : Nat], NEW ok \in BOOLEAN
    PROVE  LET y == FD!Extend(x, ok)
           IN  /\ y \in [ok : BOOLEAN, n : Nat]
               /\ y.ok = ok
               /\ x.ok # ok => y.n = 1
               /\ x.ok = ok /\ x.n < FD!Longest => y.n = x.n + 1
<1>1. CASE x.ok # ok
  <2>1. FD!Extend(x, ok) = [ok |-> ok, n |-> 1]
    BY <1>1 DEF FD!Extend
  <2> QED
    BY <1>1, <2>1
<1>2. CASE x.ok = ok
  <2>1. FD!Extend(x, ok)
          = [ok |-> ok, n |-> IF x.n < FD!Longest THEN x.n + 1 ELSE x.n]
    BY <1>2 DEF FD!Extend
  <2>2. (IF x.n < FD!Longest THEN x.n + 1 ELSE x.n) \in Nat
    OBVIOUS
  <2> QED
    BY <1>2, <2>1, <2>2
<1>3. QED
  BY <1>1, <1>2

(* A success: the streak grows as the abstract one does, the verdict flips *)
(* when it has reached the threshold, and the counters follow.             *)
LEMMA SuccessLemma ==
    ASSUME IInv, NEW p \in Peers, recordSuccess(p),
           streak' = [streak EXCEPT ![p] = FD!Extend(streak[p], TRUE)]
    PROVE  /\ FD!Observe(p, TRUE)
           /\ failures' \in [Peers -> Nat] /\ successes' \in [Peers -> Nat]
           /\ reachable' \in [Peers -> BOOLEAN]
           /\ streak' \in [Peers -> [ok : BOOLEAN, n : Nat]]
           /\ \A q \in Peers : Counted(q)'
<1> DEFINE s == FD!Extend(streak[p], TRUE)
           n == successes[p] + 1
<1>1. /\ successes[p] \in Nat /\ failures[p] \in Nat /\ Counted(p)
      /\ streak[p].n \in Nat /\ streak[p].ok \in BOOLEAN
      /\ reachable[p] \in BOOLEAN
  BY DEF IInv
<1>2. /\ s.ok = TRUE /\ s.n \in Nat /\ s \in [ok : BOOLEAN, n : Nat]
      /\ streak[p].ok = FALSE => s.n = 1
      /\ streak[p].ok = TRUE /\ streak[p].n < FD!Longest => s.n = streak[p].n + 1
  BY ExtendLemma DEF IInv
<1> HIDE DEF s
<1>a. s.ok = TRUE
  BY <1>2
<1>b. s.n \in Nat
  BY <1>2
<1>3. ~reachable[p] => (n >= recoverThreshold <=> s.n >= recoverThreshold)
                       /\ s.n = n
  <2> SUFFICES ASSUME ~reachable[p] PROVE s.n = n
    OBVIOUS
  <2>1. CASE streak[p].ok
    BY <1>1, <1>2, <2>1, Thresholds DEF Counted
  <2>2. CASE ~streak[p].ok
    BY <1>1, <1>2, <2>2, Thresholds DEF Counted
  <2> QED
    BY <1>1, <2>1, <2>2
<1>4. /\ failures' = [failures EXCEPT ![p] = 0]
      /\ reachable' = [reachable EXCEPT ![p] = @ \/ s.n >= recoverThreshold]
      /\ successes' = [successes EXCEPT ![p] =
                         IF reachable[p] \/ s.n >= recoverThreshold THEN 0 ELSE s.n]
  <2>1. CASE reachable[p]
    BY <1>1, <1>3, <2>1 DEF recordSuccess, IInv
  <2>2. CASE ~reachable[p]
    BY <1>1, <1>3, <2>2 DEF recordSuccess, IInv
  <2> QED
    BY <2>1, <2>2
<1>5. streak' = [streak EXCEPT ![p] = s]
  BY DEF s
<1>6. FD!Observe(p, TRUE)
  BY <1>1, <1>2, <1>4, <1>5 DEF FD!Observe, s, IInv
<1>7. /\ failures' \in [Peers -> Nat] /\ successes' \in [Peers -> Nat]
      /\ reachable' \in [Peers -> BOOLEAN]
      /\ streak' \in [Peers -> [ok : BOOLEAN, n : Nat]]
  BY <1>1, <1>2, <1>4, <1>5 DEF IInv
<1>8. ASSUME NEW q \in Peers PROVE Counted(q)'
  <2>1. CASE q = p
    <3>0. streak'[p] = s
      BY <1>5 DEF IInv
    <3>1. /\ failures'[p] = 0
          /\ reachable'[p] = (reachable[p] \/ s.n >= recoverThreshold)
          /\ successes'[p] = IF reachable[p] \/ s.n >= recoverThreshold
                             THEN 0 ELSE s.n
      BY <1>4 DEF IInv
    <3>2. CASE reachable[p] \/ s.n >= recoverThreshold
      <4>1. reachable'[q] /\ successes'[q] = 0 /\ failures'[q] = 0
        BY <2>1, <3>1, <3>2
      <4>2. streak'[q].ok
        BY <1>a, <2>1, <3>0
      <4>3. 0 < failThreshold
        BY Thresholds
      <4> QED
        BY <4>1, <4>2, <4>3 DEF Counted
    <3>3. CASE ~(reachable[p] \/ s.n >= recoverThreshold)
      <4>1. ~reachable'[q] /\ successes'[q] = streak'[q].n
        BY <2>1, <3>0, <3>1, <3>3
      <4>2. streak'[q].ok
        BY <1>a, <2>1, <3>0
      <4>3. s.n < recoverThreshold
        BY <1>b, <3>3, Thresholds
      <4>4. streak'[q].n < recoverThreshold
        BY <2>1, <3>0, <4>3
      <4> QED
        BY <4>1, <4>2, <4>4 DEF Counted
    <3> QED
      BY <3>2, <3>3
  <2>2. CASE q # p
    BY <1>4, <1>5, <2>2 DEF IInv, Counted
  <2> QED
    BY <2>1, <2>2
<1>9. QED
  BY <1>6, <1>7, <1>8

(* A failure, likewise.                                                    *)
LEMMA FailureLemma ==
    ASSUME IInv, NEW p \in Peers, recordFailure(p),
           streak' = [streak EXCEPT ![p] = FD!Extend(streak[p], FALSE)]
    PROVE  /\ FD!Observe(p, FALSE)
           /\ failures' \in [Peers -> Nat] /\ successes' \in [Peers -> Nat]
           /\ reachable' \in [Peers -> BOOLEAN]
           /\ streak' \in [Peers -> [ok : BOOLEAN, n : Nat]]
           /\ \A q \in Peers : Counted(q)'
<1> DEFINE s == FD!Extend(streak[p], FALSE)
           n == failures[p] + 1
<1>1. /\ successes[p] \in Nat /\ failures[p] \in Nat /\ Counted(p)
      /\ streak[p].n \in Nat /\ streak[p].ok \in BOOLEAN
      /\ reachable[p] \in BOOLEAN
  BY DEF IInv
<1>2. /\ s.ok = FALSE /\ s.n \in Nat /\ s \in [ok : BOOLEAN, n : Nat]
      /\ streak[p].ok = TRUE => s.n = 1
      /\ streak[p].ok = FALSE /\ streak[p].n < FD!Longest => s.n = streak[p].n + 1
  BY ExtendLemma DEF IInv
<1> HIDE DEF s
<1>a. s.ok = FALSE
  BY <1>2
<1>b. s.n \in Nat
  BY <1>2
<1>3. reachable[p] => s.n = n
  <2> SUFFICES ASSUME reachable[p] PROVE s.n = n
    OBVIOUS
  <2>1. CASE streak[p].ok
    BY <1>1, <1>2, <2>1, Thresholds DEF Counted
  <2>2. CASE ~streak[p].ok
    BY <1>1, <1>2, <2>2, Thresholds DEF Counted
  <2> QED
    BY <1>1, <2>1, <2>2
<1>4. \E f \in Nat :
        /\ reachable[p] => f = IF s.n >= failThreshold THEN 0 ELSE s.n
        /\ failures' = [failures EXCEPT ![p] = f]
        /\ reachable' = [reachable EXCEPT ![p] = @ /\ s.n < failThreshold]
        /\ successes' = [successes EXCEPT ![p] = 0]
  <2>1. CASE reachable[p]
    <3>1. /\ failures' = [failures EXCEPT ![p] =
                            IF s.n >= failThreshold THEN 0 ELSE s.n]
          /\ successes' = [successes EXCEPT ![p] = 0]
      BY <1>1, <1>3, <2>1 DEF recordFailure, IInv
    <3>a. s.n < failThreshold <=> ~(n >= failThreshold)
      BY <1>2, <1>3, <2>1, Thresholds
    <3>2. reachable' = [reachable EXCEPT ![p] = @ /\ s.n < failThreshold]
      BY <2>1, <3>a DEF recordFailure
    <3> QED
      BY <1>2, <3>1, <3>2
  <2>2. CASE ~reachable[p]
    <3>1. /\ failures' = [failures EXCEPT ![p] =
                            IF n > CountCap THEN failures[p] ELSE n]
          /\ successes' = [successes EXCEPT ![p] = 0]
      BY <1>1, <2>2 DEF recordFailure, IInv
    <3>2. reachable' = [reachable EXCEPT ![p] = @ /\ s.n < failThreshold]
      BY <1>1, <2>2 DEF recordFailure, IInv
    <3>3. (IF n > CountCap THEN failures[p] ELSE n) \in Nat
      BY <1>1
    <3> QED
      BY <2>2, <3>1, <3>2, <3>3
  <2> QED
    BY <2>1, <2>2
<1>5. streak' = [streak EXCEPT ![p] = s]
  BY DEF s
<1>6. FD!Observe(p, FALSE)
  BY <1>1, <1>2, <1>4, <1>5 DEF FD!Observe, s, IInv
<1>7. /\ failures' \in [Peers -> Nat] /\ successes' \in [Peers -> Nat]
      /\ reachable' \in [Peers -> BOOLEAN]
      /\ streak' \in [Peers -> [ok : BOOLEAN, n : Nat]]
  <2>1. PICK f \in Nat : /\ failures' = [failures EXCEPT ![p] = f]
                         /\ successes' = [successes EXCEPT ![p] = 0]
    BY <1>4
  <2>2. failures' \in [Peers -> Nat] /\ successes' \in [Peers -> Nat]
    BY <2>1 DEF IInv
  <2>3. reachable' \in [Peers -> BOOLEAN]
    BY <1>1, <1>4 DEF IInv
  <2>4. streak' \in [Peers -> [ok : BOOLEAN, n : Nat]]
    BY <1>2, <1>5 DEF IInv
  <2> QED
    BY <2>2, <2>3, <2>4
<1>8. ASSUME NEW q \in Peers PROVE Counted(q)'
  <2>1. CASE q = p
    <3>0. streak'[p] = s
      BY <1>5 DEF IInv
    <3>1. /\ successes'[p] = 0
          /\ reachable'[p] = (reachable[p] /\ s.n < failThreshold)
          /\ reachable[p] =>
               failures'[p] = IF s.n >= failThreshold THEN 0 ELSE s.n
      BY <1>4 DEF IInv
    <3>2. CASE reachable[p] /\ s.n < failThreshold
      <4>1. reachable'[q] /\ failures'[q] = streak'[q].n /\ successes'[q] = 0
        <5>1. ~(s.n >= failThreshold)
          BY <1>b, <3>2, Thresholds
        <5> QED
          BY <2>1, <3>0, <3>1, <3>2, <5>1
      <4>2. ~streak'[q].ok
        BY <1>a, <2>1, <3>0
      <4>3. streak'[q].n < failThreshold
        BY <2>1, <3>0, <3>2
      <4> QED
        BY <4>1, <4>2, <4>3 DEF Counted
    <3>3. CASE ~(reachable[p] /\ s.n < failThreshold)
      <4>1. ~reachable'[q] /\ successes'[q] = 0
        BY <2>1, <3>1, <3>3
      <4>2. ~streak'[q].ok
        BY <1>a, <2>1, <3>0
      <4>3. 0 < recoverThreshold
        BY Thresholds
      <4> QED
        BY <4>1, <4>2, <4>3 DEF Counted
    <3> QED
      BY <3>2, <3>3
  <2>2. CASE q # p
    BY <1>4, <1>5, <2>2 DEF IInv, Counted
  <2> QED
    BY <2>1, <2>2
<1>9. QED
  BY <1>6, <1>7, <1>8

(* Every step preserves the invariant and is a step of the detector, or    *)
(* leaves its variables alone.                                             *)
LEMMA StepLemma ==
    IInv /\ [HealthNext]_healthVars => IInv' /\ [FD!DetectorNext]_<<reachable, streak>>
<1> SUFFICES ASSUME IInv, [HealthNext]_healthVars
             PROVE  IInv' /\ [FD!DetectorNext]_<<reachable, streak>>
  OBVIOUS
<1>l. Len(PeerList) \in Nat
  BY PeersAssumption
<1>1. CASE Probe
  <2> DEFINE p == PeerList[next]
  <2>1. p \in Peers
    BY <1>1, <1>l DEF Probe, IInv, Peers
  <2>2. next' \in 0..Len(PeerList) /\ UNCHANGED up
    BY <1>1, <1>l DEF Probe, IInv
  <2>3. streak' = [streak EXCEPT ![p] = FD!Extend(streak[p], up[p])]
    BY <1>1 DEF Probe
  <2>4. up[p] \in BOOLEAN
    BY <2>1 DEF IInv
  <2>5. CASE up[p]
    <3>1. recordSuccess(p) /\ up[p] = TRUE
      BY <1>1, <2>4, <2>5 DEF Probe
    <3>2. /\ FD!Observe(p, TRUE)
          /\ failures' \in [Peers -> Nat] /\ successes' \in [Peers -> Nat]
          /\ reachable' \in [Peers -> BOOLEAN]
          /\ streak' \in [Peers -> [ok : BOOLEAN, n : Nat]]
          /\ \A q \in Peers : Counted(q)'
      BY <2>1, <2>3, <3>1, SuccessLemma
    <3>3. FD!DetectorNext
      BY <2>1, <3>2 DEF FD!DetectorNext
    <3> QED
      BY <2>2, <3>2, <3>3 DEF IInv
  <2>6. CASE ~up[p]
    <3>1. recordFailure(p) /\ up[p] = FALSE
      BY <1>1, <2>4, <2>6 DEF Probe
    <3>2. /\ FD!Observe(p, FALSE)
          /\ failures' \in [Peers -> Nat] /\ successes' \in [Peers -> Nat]
          /\ reachable' \in [Peers -> BOOLEAN]
          /\ streak' \in [Peers -> [ok : BOOLEAN, n : Nat]]
          /\ \A q \in Peers : Counted(q)'
      BY <2>1, <2>3, <3>1, FailureLemma
    <3>3. FD!DetectorNext
      BY <2>1, <3>2 DEF FD!DetectorNext
    <3> QED
      BY <2>2, <3>2, <3>3 DEF IInv
  <2> QED
    BY <2>5, <2>6
<1>2. CASE Tick
  <2>1. 1 \in 0..Len(PeerList)
    BY <1>l, PeersAssumption
  <2> QED
    BY <1>2, <2>1 DEF Tick, IInv, Counted, tracker
<1>3. CASE CallbackReturns
  BY <1>3 DEF CallbackReturns, IInv, Counted, tracker
<1>4. ASSUME NEW p \in Peers, PeerChanges(p)
      PROVE  IInv' /\ [FD!DetectorNext]_<<reachable, streak>>
  <2>1. up' \in [Peers -> BOOLEAN]
    BY <1>4 DEF PeerChanges, IInv
  <2> QED
    BY <1>4, <2>1 DEF PeerChanges, IInv, Counted, tracker
<1>5. ASSUME NEW p \in Peers, PeerHangs(p)
      PROVE  IInv' /\ [FD!DetectorNext]_<<reachable, streak>>
  BY <1>5 DEF PeerHangs, IInv, Counted, tracker
<1>6. CASE UNCHANGED healthVars
  BY <1>6 DEF healthVars, IInv, Counted
<1>7. QED
  BY <1>1, <1>2, <1>3, <1>4, <1>5, <1>6 DEF HealthNext

(* The monitor implements the failure detector: whatever the order of      *)
(* results, the verdict flips exactly at the threshold number of           *)
(* consecutive ones (recordSuccess, recordFailure).                        *)
THEOREM Implements == HealthSpec => ImplementsDetector
<1>1. HealthInit => IInv /\ FD!DetectorInit
  <2> SUFFICES ASSUME HealthInit PROVE IInv /\ FD!DetectorInit
    OBVIOUS
  <2>1. 1 \in 0..Len(PeerList)
    BY PeersAssumption
  <2>2. \A p \in Peers : Counted(p)
    BY Thresholds DEF HealthInit, Counted
  <2> QED
    BY <2>1, <2>2 DEF HealthInit, IInv, FD!DetectorInit
<1>2. QED
  BY <1>1, StepLemma, PTL DEF HealthSpec, ImplementsDetector, FD!DetectorSpec

=============================================================================
