-------------------------- MODULE FailureDetector ---------------------------
(***************************************************************************)
(* What the peer health monitor promises: the verdict on a peer changes    *)
(* exactly when Down consecutive probes have failed, or Up consecutive     *)
(* probes have succeeded, whatever came before them.                       *)
(***************************************************************************)
EXTENDS Naturals

CONSTANTS Peers, Down, Up

VARIABLES
    verdict,  \* peer -> considered reachable
    streak    \* peer -> how its latest probes went: the result, and how
              \* often in a row (counted up to the larger threshold)

Longest == IF Down > Up THEN Down ELSE Up

DetectorInit ==
    /\ verdict = [p \in Peers |-> TRUE]
    /\ streak = [p \in Peers |-> [ok |-> TRUE, n |-> 0]]

Extend(s, ok) ==
    IF s.ok # ok THEN [ok |-> ok, n |-> 1]
    ELSE [ok |-> ok, n |-> IF s.n < Longest THEN s.n + 1 ELSE s.n]

Observe(p, ok) ==
    LET s == Extend(streak[p], ok)
    IN  /\ streak' = [streak EXCEPT ![p] = s]
        /\ verdict' = [verdict EXCEPT ![p] =
             IF ok THEN verdict[p] \/ s.n >= Up ELSE verdict[p] /\ s.n < Down]

DetectorNext == \E p \in Peers, ok \in BOOLEAN : Observe(p, ok)

DetectorSpec == DetectorInit /\ [][DetectorNext]_<<verdict, streak>>

=============================================================================
