------------------------ MODULE ReplicationInvariant ------------------------
(***************************************************************************)
(* The inductive invariants behind the safety properties of Replication.   *)
(* CoreInv needs no assumption on the clients; OrderInv is what mutations  *)
(* that do not overlap (Serial) add to it.                                 *)
(***************************************************************************)
EXTENDS Replication

(* A mutation the primary has committed.                                   *)
Known(m) == Found(m) /\ m \in held[Primary]

NodesKnown ==
    \A n \in Nodes :
        /\ Found(row[n]) => row[n] \in held[n]
        /\ \A m \in held[n] : Known(m)

Mutating == {"committed", "replicating", "hinting"}

(* What a handler or healing scan p knows in the local state q.            *)
ProcOK(p, q) ==
    /\ q.pc \in {"idle", "assigned", "deleting", "written", "committed"}
         => q.oks \subseteq {Primary} /\ q.fails = {}
    /\ q.pc \in {"assigned", "deleting", "written"} => Found(q.mut)
    /\ q.pc \in Mutating \cup {"winning", "repair", "opening", "answered"}
         => Known(q.mut)
    /\ p \in Healers /\ q.pc = "heads" => Known(q.mut)
    /\ \A n \in Nodes : Found(q.seen[n]) => Known(q.seen[n])
    /\ q.pc \in Mutating => \A n \in q.oks : q.mut \in held[n]
    /\ q.pc = "replicating" => q.todo \cap (q.oks \cup q.fails) = {}
    /\ q.pc = "hinting" => WriteSatisfied(Quorums, Cardinality(q.oks))

(* A request of a handler is one of the fan-out still open, a request of a *)
(* hint worker the delivery it is waiting for.                             *)
CallOK(c) ==
    /\ Known(c.mut)
    /\ c.from \in Slots =>
         /\ proc[c.from].pc = "replicating" /\ proc[c.from].mut = c.mut
         /\ c.to \notin proc[c.from].oks \cup proc[c.from].fails
         /\ c.to \notin proc[c.from].todo
    /\ c.from \in Workers =>
         /\ work[c.from].pc = "calling"
         /\ work[c.from].task.to = c.to /\ work[c.from].task.mut = c.mut

OneCallEach ==
    \A c, d \in calls :
        c.from # Nobody /\ c.from = d.from /\ c.to = d.to => c = d

(* What a hint worker knows in the local state x.                          *)
WorkOK(x) ==
    /\ x.pc # "idle" => Known(x.task.mut)
    /\ x.pc \in {"delivered", "cleanup"} => x.task.mut \in held[x.task.to]

HintsKnown ==
    /\ \A h \in hints : Known(h.mut)
    /\ \A w \in Workers : WorkOK(work[w])

AckedKnown == \A m \in acked : Known(m)

(* CoreInv: every row, request, hint, delivery, answer and replica state   *)
(* anywhere in the system is a mutation the primary has committed; an      *)
(* acknowledgement a handler has counted, or a delivery a hint worker has  *)
(* seen succeed, is of a mutation its target committed; a handler counts   *)
(* each replica once.  Hence every acknowledged write is on W nodes.       *)
CoreInv ==
    /\ TypeOK
    /\ NodesKnown
    /\ \A p \in Procs : ProcOK(p, proc[p])
    /\ \A c \in calls : CallOK(c)
    /\ OneCallEach
    /\ HintsKnown
    /\ AckedKnown
    /\ QuorumDurable

-----------------------------------------------------------------------------
(* With one writer the primary's committed versions only grow, and nothing *)
(* a replica or a hint sends back can change the primary's row.            *)

CommitsOrdered ==
    /\ \A m \in held[Primary] : m.ver <= row[Primary].ver
    /\ \A a, b \in held[Primary] : a.ver = b.ver => a = b

(* Node r has the mutation, is to get it from a hint, or lost the hint.    *)
Covered(r, m) ==
    \/ m \in held[r]
    \/ \E h \in hints : h.to = r /\ h.mut = m
    \/ <<r, m>> \in dropped

(* The next version is still the next one when it is committed; a read     *)
(* that has begun is bound to the acknowledgements it started after; a     *)
(* mutation past its quorum has every other node hinted or still to hint.  *)
OrderOK(p, q) ==
    /\ q.pc \in {"assigned", "deleting", "written"}
         => p \in Writers /\ q.mut.ver = row[Primary].ver + 1
    /\ p \in Slots /\ q.pc = "heads"
         => \A m \in q.floor : m.ver <= q.seen[Primary].ver
    /\ p \in Slots /\ q.pc \in {"repair", "opening", "answered"}
         => \A m \in q.floor : m.ver <= q.mut.ver
    /\ q.pc = "hinting"
         => \A r \in Nodes \ (q.oks \cup q.todo) : Covered(r, q.mut)

(* A request to the primary itself never gets past its version check.      *)
NoPrimaryOverwrite == \A c \in calls : c.to = Primary => c.at = "sent"

(* OrderInv: with mutations that do not overlap, the primary's row is the  *)
(* newest row committed and a version has one mutation; a version handed   *)
(* out is still the next one at its commit; a read in progress is at least *)
(* as new as its floor; a request sent to the primary itself (a repair     *)
(* hint) never passes its version check; and no hint is missing.           *)
OrderInv ==
    /\ CommitsOrdered
    /\ \A p \in Procs : OrderOK(p, proc[p])
    /\ NoPrimaryOverwrite
    /\ HintCoverage

=============================================================================
