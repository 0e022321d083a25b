------------------------------ MODULE ObjectLog ------------------------------
(***************************************************************************)
(* What a replicated object promises its clients as long as its mutations  *)
(* do not overlap: the mutations form a log, the version of a mutation is  *)
(* its place in the log, only the newest entry can be acknowledged, and a  *)
(* read answers with an entry at least as new as every entry acknowledged  *)
(* before the read began.  There are no nodes, messages or hints here.     *)
(***************************************************************************)
EXTENDS Integers, Sequences

CONSTANTS Values, Readers

VARIABLES
    log,    \* the committed mutations, oldest first
    acked,  \* versions acknowledged to a client
    reads   \* reads in progress

vars == <<log, acked, reads>>

NoRead == [active |-> FALSE, floor |-> {}, ver |-> 0, val |-> {}]

Init ==
    /\ log = <<>>
    /\ acked = {}
    /\ reads = [s \in Readers |-> NoRead]

Mutate(v) ==
    /\ log' = Append(log, v)
    /\ UNCHANGED <<acked, reads>>

Acknowledge ==
    /\ log # <<>>
    /\ acked' = acked \cup {Len(log)}
    /\ UNCHANGED <<log, reads>>

(* A read is bound to the acknowledgements before it, or, when it cannot   *)
(* see the primary's own copy, to none.                                    *)
BeginRead(s) ==
    /\ ~reads[s].active
    /\ \E floor \in {acked, {}} :
          reads' = [reads EXCEPT ![s] =
                      [active |-> TRUE, floor |-> floor, ver |-> 0, val |-> {}]]
    /\ UNCHANGED <<log, acked>>

Answer(s) ==
    /\ reads[s].active /\ reads[s].ver = 0
    /\ \E i \in 1..Len(log) :
          /\ \A a \in reads[s].floor : a <= i
          /\ reads' = [reads EXCEPT ![s].ver = i, ![s].val = {log[i]}]
    /\ UNCHANGED <<log, acked>>

(* Reads return, fail or are cut off, several at a time in a crash.        *)
EndReads(S) ==
    /\ reads' = [s \in Readers |-> IF s \in S THEN NoRead ELSE reads[s]]
    /\ UNCHANGED <<log, acked>>

Next ==
    \/ \E v \in Values : Mutate(v)
    \/ Acknowledge
    \/ \E s \in Readers : BeginRead(s) \/ Answer(s)
    \/ \E S \in SUBSET Readers : EndReads(S)

Spec == Init /\ [][Next]_vars

=============================================================================
