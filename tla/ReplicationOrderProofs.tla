----------------------- MODULE ReplicationOrderProofs -----------------------
(***************************************************************************)
(* What non-overlapping mutations add: versions stay unique, the primary   *)
(* stays newest, reads are fresh and no hint is lost, for any number of    *)
(* nodes, readers, healing scans and hint workers and any faults.          *)
(***************************************************************************)
EXTENDS ReplicationProofs

(* The primary's row and history do not change.                            *)
PrimaryStill == row'[Primary] = row[Primary] /\ held'[Primary] = held[Primary]

(* No coverage of a committed mutation is lost.                            *)
CoverageKept ==
    /\ \A n \in Nodes : held[n] \subseteq held'[n]
    /\ \A r \in Nodes : \A m : Known(m) /\ Covered(r, m) => Covered(r, m)'

(* An idle process owes nothing to the order.                              *)
LEMMA IdleOrder == \A p \in Procs : OrderOK(p, Idle) /\ OrderOK(p, Idle)'
<1> SUFFICES ASSUME NEW p \in Procs PROVE OrderOK(p, Idle) /\ OrderOK(p, Idle)'
  OBVIOUS
<1>1. OrderOK(p, Idle)
  BY DEF OrderOK, Idle
<1>2. OrderOK(p, Idle)'
  BY DEF OrderOK, Idle
<1> QED BY <1>1, <1>2

(* A process that does not move keeps what it knows about the order.       *)
LEMMA OrderKept ==
    ASSUME CoreInv, PrimaryStill, CoverageKept, NEW p \in Procs,
           OrderOK(p, proc[p]), proc'[p] = proc[p]
    PROVE  OrderOK(p, proc[p])'
<1>1. proc[p].pc = "hinting" => Known(proc[p].mut)
  BY DEF CoreInv, ProcOK, Mutating
<1> QED BY <1>1 DEF OrderOK, PrimaryStill, CoverageKept

(* A step that leaves the primary's row alone.                             *)
LEMMA StillStep ==
    ASSUME CoreInv, OrderInv, PrimaryStill, CoverageKept, NoPrimaryOverwrite',
           \A p \in Procs : proc'[p] = proc[p] \/ OrderOK(p, proc[p])',
           \A m \in acked' \ acked : \A r \in Nodes : Covered(r, m)'
    PROVE  OrderInv'
<1>1. CommitsOrdered'
  BY DEF OrderInv, CommitsOrdered, PrimaryStill
<1>2. \A p \in Procs : OrderOK(p, proc[p])'
  BY OrderKept DEF OrderInv
<1>3. HintCoverage'
  BY DEF OrderInv, CoreInv, AckedKnown, CoverageKept, HintCoverage, Covered
<1> QED BY <1>1, <1>2, <1>3 DEF OrderInv

(* A step of one process that changes nothing the order is about.          *)
LEMMA QuietOrder ==
    ASSUME CoreInv, OrderInv, NEW s \in Procs, NEW q \in ProcStates,
           Become(s, q), OrderOK(s, q),
           UNCHANGED <<row, held, calls, hints, acked, dropped>>
    PROVE  OrderInv'
<1>1. proc'[s] = q /\ \A p \in Procs : p # s => proc'[p] = proc[p]
  BY DEF Become, CoreInv, TypeOK
<1>2. PrimaryStill /\ CoverageKept /\ NoPrimaryOverwrite'
  BY DEF PrimaryStill, CoverageKept, Covered, OrderInv, NoPrimaryOverwrite
<1>3. OrderOK(s, proc[s])'
  BY <1>1 DEF OrderOK, Covered
<1> QED BY <1>1, <1>2, <1>3, StillStep

(* A handler commits the next version on the primary.                      *)
LEMMA CommitOrder ==
    ASSUME Serial, CoreInv, OrderInv, CoreInv', NEW s \in Writers, NEW q \in ProcStates,
           proc[s].pc = "written", q.pc \in {"committed", "replicating"},
           Become(s, q), row' = [row EXCEPT ![Primary] = proc[s].mut],
           held' = [held EXCEPT ![Primary] = @ \cup {proc[s].mut}],
           UNCHANGED <<calls, hints, acked, dropped>>
    PROVE  OrderInv'
<1>1. s \in Procs /\ proc[s].mut \in Rows /\ TypeOK
  BY ConstantTypes DEF CoreInv, TypeOK, ProcStates
<1>2. proc'[s] = q /\ \A p \in Procs : p # s => proc'[p] = proc[p]
  BY <1>1 DEF Become, TypeOK
<1>3. proc[s].mut.ver = row[Primary].ver + 1 /\ row[Primary] \in Rows
  BY <1>1, ConstantTypes DEF OrderInv, OrderOK, TypeOK
<1>4. row'[Primary] = proc[s].mut /\ held'[Primary] = held[Primary] \cup {proc[s].mut}
      /\ \A n \in Nodes : held[n] \subseteq held'[n]
  BY <1>1, ConstantTypes DEF TypeOK
<1>5. \A m \in held[Primary] : m \in Rows /\ m.ver \in Nat
  BY ConstantTypes, BoundsAssumption DEF CoreInv, TypeOK, Rows
<1>6. row[Primary].ver \in Nat
  BY <1>3, BoundsAssumption DEF Rows
<1>7. CommitsOrdered'
  BY <1>3, <1>4, <1>5, <1>6 DEF OrderInv, CommitsOrdered
<1>8. CoverageKept
  BY <1>4 DEF CoverageKept, Covered
<1>9. ASSUME NEW p \in Procs PROVE OrderOK(p, proc[p])'
  <2>1. CASE p = s
    BY <1>2, <2>1 DEF OrderOK
  <2>2. CASE p # s
    <3>1. OrderOK(p, proc[p]) /\ proc'[p] = proc[p]
      BY <1>2, <2>2 DEF OrderInv
    <3>2. proc[p].pc \notin {"assigned", "deleting", "written"}
      BY <2>2, <3>1 DEF OrderOK, Serial
    <3>3. proc[p].pc = "hinting" => Known(proc[p].mut)
      BY DEF CoreInv, ProcOK, Mutating
    <3> QED BY <1>8, <3>1, <3>2, <3>3 DEF OrderOK, CoverageKept
  <2> QED BY <2>1, <2>2
<1>10. HintCoverage' /\ NoPrimaryOverwrite'
  BY <1>8 DEF OrderInv, CoreInv, AckedKnown, CoverageKept, HintCoverage, Covered,
              NoPrimaryOverwrite
<1> QED BY <1>7, <1>9, <1>10 DEF OrderInv

(* The steps of Coordinator.PutObject on the primary preserve OrderInv.    *)
LEMMA PutOrder ==
    ASSUME Serial, CoreInv, CoreInv', OrderInv, NEW s \in Writers, PutStep(s)
    PROVE  OrderInv'
<1>0. s \in Procs /\ TypeOK /\ s \in Slots
  BY ConstantTypes DEF CoreInv
<1>1. PICK q0 \in ProcStates : q0 = proc[s] /\ OrderOK(s, q0)
  BY <1>0 DEF OrderInv, TypeOK
<1> USE <1>0
<1>2. ASSUME NEW b \in Bytes, PutStart(s, b) PROVE OrderInv'
  <2> DEFINE m == [ver |-> NextObjectVersion(Primary), val |-> b]
             q == [q0 EXCEPT !.pc = "assigned", !.mut = m]
  <2>1. m \in Rows
    BY <1>1, <1>2, ConstantTypes, BoundsAssumption
    DEF PutStart, NextObjectVersion, Rows, Files, TypeOK
  <2>2. q \in ProcStates
    BY <1>1, <2>1 DEF ProcStates, PCs
  <2>3. OrderOK(s, q)
    BY <1>1 DEF OrderOK, ProcStates, NextObjectVersion
  <2> QED BY <1>1, <1>2, <2>2, <2>3, QuietOrder DEF PutStart, nodeVars, hintVars, ackVars
<1>3. CASE PutReject(s)
  BY <1>3, ConstantTypes, IdleOrder, QuietOrder DEF PutReject, nodeVars, hintVars, ackVars
<1>4. CASE PutBlob(s)
  <2> DEFINE q == [q0 EXCEPT !.pc = "written"]
  <2>1. q \in ProcStates
    BY <1>1 DEF ProcStates, PCs
  <2>2. OrderOK(s, q)
    BY <1>1, <1>4 DEF PutBlob, OrderOK, ProcStates
  <2> QED BY <1>1, <1>4, <2>1, <2>2, QuietOrder DEF PutBlob, hintVars, ackVars
<1>5. CASE PutCommit(s)
  <2> DEFINE q == [q0 EXCEPT !.pc = "committed", !.oks = {Primary}]
  <2>1. q \in ProcStates /\ q.pc = "committed"
    BY <1>1, ConstantTypes DEF ProcStates, PCs
  <2> QED BY <1>1, <1>5, <2>1, CommitOrder DEF PutCommit, hintVars, ackVars
<1>6. CASE PutCommitFail(s)
  BY <1>6, ConstantTypes, IdleOrder, QuietOrder DEF PutCommitFail, hintVars, ackVars
<1>7. CASE PutOpen(s)
  <2> DEFINE q == [q0 EXCEPT !.pc = "replicating", !.todo = Replicas]
  <2>1. q \in ProcStates
    BY <1>1, ConstantTypes DEF ProcStates, PCs
  <2>2. OrderOK(s, q)
    BY <1>1 DEF OrderOK, ProcStates
  <2> QED
    BY <1>1, <1>7, <2>1, <2>2, ConstantTypes, IdleOrder, QuietOrder
    DEF PutOpen, nodeVars, hintVars, ackVars
<1> QED
  BY <1>2, <1>3, <1>4, <1>5, <1>6, <1>7 DEF PutStep

(* The steps of Coordinator.DeleteObject on the primary preserve it.       *)
LEMMA DeleteOrder ==
    ASSUME Serial, CoreInv, CoreInv', OrderInv, NEW s \in Writers, DeleteStep(s)
    PROVE  OrderInv'
<1>0. s \in Procs /\ TypeOK /\ s \in Slots
  BY ConstantTypes DEF CoreInv
<1>1. PICK q0 \in ProcStates : q0 = proc[s] /\ OrderOK(s, q0)
  BY <1>0 DEF OrderInv, TypeOK
<1> USE <1>0
<1>2. CASE DeleteStart(s)
  <2> DEFINE m == [ver |-> NextObjectVersion(Primary), val |-> Tombstone]
             q == [q0 EXCEPT !.pc = "assigned", !.mut = m]
  <2>1. m \in Rows
    BY <1>2, ConstantTypes, BoundsAssumption
    DEF DeleteStart, NextObjectVersion, Rows, TypeOK
  <2>2. q \in ProcStates
    BY <1>1, <2>1 DEF ProcStates, PCs
  <2>3. OrderOK(s, q)
    BY <1>1 DEF OrderOK, ProcStates, NextObjectVersion
  <2> QED BY <1>1, <1>2, <2>2, <2>3, QuietOrder DEF DeleteStart, nodeVars, hintVars, ackVars
<1>r. CASE TombstoneRead(s)
  <2>1. PICK pc \in {"deleting", "written"} : Become(s, [q0 EXCEPT !.pc = pc])
    BY <1>1, <1>r DEF TombstoneRead
  <2> DEFINE q == [q0 EXCEPT !.pc = pc]
  <2>2. q \in ProcStates
    BY <1>1 DEF ProcStates, PCs
  <2>3. OrderOK(s, q)
    BY <1>1, <1>r DEF TombstoneRead, OrderOK, ProcStates
  <2> QED
    BY <1>1, <1>r, <2>1, <2>2, <2>3, QuietOrder
    DEF TombstoneRead, nodeVars, hintVars, ackVars
<1>3. CASE TombstoneBlob(s)
  <2> DEFINE q == [q0 EXCEPT !.pc = "written"]
  <2>1. q \in ProcStates
    BY <1>1 DEF ProcStates, PCs
  <2>2. OrderOK(s, q)
    BY <1>1, <1>3 DEF TombstoneBlob, OrderOK, ProcStates
  <2> QED BY <1>1, <1>3, <2>1, <2>2, QuietOrder DEF TombstoneBlob, hintVars, ackVars
<1>4. CASE TombstoneCommit(s)
  <2> DEFINE q == [q0 EXCEPT !.pc = "replicating", !.oks = {Primary},
                             !.todo = Replicas]
  <2>1. q \in ProcStates /\ q.pc = "replicating"
    BY <1>1, ConstantTypes DEF ProcStates, PCs
  <2> QED BY <1>1, <1>4, <2>1, CommitOrder DEF TombstoneCommit, hintVars, ackVars
<1>5. CASE TombstoneCommitFail(s)
  BY <1>5, ConstantTypes, IdleOrder, QuietOrder
  DEF TombstoneCommitFail, nodeVars, hintVars, ackVars
<1> QED
  BY <1>2, <1>r, <1>3, <1>4, <1>5 DEF DeleteStep

-----------------------------------------------------------------------------
(* Storing a hint loses no other: an upsert replaces the hint of the same  *)
(* version, which is the same mutation.                                    *)
LEMMA EnqueueCovers ==
    ASSUME CoreInv, CommitsOrdered, NEW kind \in Kinds, NEW to \in Nodes,
           NEW m \in Rows, NEW src \in Nodes, Known(m),
           EnqueueHint(kind, to, m, src), UNCHANGED <<held, dropped>>
    PROVE  CoverageKept /\ \E h \in hints' : h.to = to /\ h.mut = m
<1>0. PICK copied \in BOOLEAN : EnqueueHint(kind, to, m, src)!(copied)
  BY DEF EnqueueHint
<1> DEFINE new == [to |-> to, mut |-> m, kind |-> kind, src |-> src,
                   staged |-> CanStage(kind, src) /\ copied]
           old == {h \in hints : SameHint(h, new)}
           upd(h) == [new EXCEPT !.src = h.src]
<1>1. new.to = to /\ new.mut = m /\ \A h : upd(h).to = to /\ upd(h).mut = m
  OBVIOUS
<1>2. hints' = (hints \ old) \cup
        IF old = {} THEN {new} ELSE {upd(h) : h \in old}
  BY <1>0
<1>3. \A h \in old : h.to = to /\ h.mut = m
  BY DEF SameHint, CoreInv, HintsKnown, Known, CommitsOrdered
<1> HIDE DEF new, old, upd
<1>4. \E h \in hints' : h.to = to /\ h.mut = m
  BY <1>1, <1>2
<1>5. ASSUME NEW h \in hints PROVE \E g \in hints' : g.to = h.to /\ g.mut = h.mut
  BY <1>2, <1>3, <1>4
<1>6. CoverageKept
  BY <1>5 DEF CoverageKept, Covered
<1> QED BY <1>4, <1>6

(* A step that stores a hint preserves OrderInv.                           *)
LEMMA HintOrder ==
    ASSUME CoreInv, CoreInv', OrderInv, NEW s \in Procs, NEW r \in Nodes,
           NEW kind \in Kinds, NEW src \in Nodes,
           proc[s].pc \in {"hinting", "repair"},
           EnqueueHint(kind, r, proc[s].mut, src),
           Become(s, [proc[s] EXCEPT !.todo = @ \ {r}]),
           UNCHANGED <<nodeVars, calls, ackVars>>
    PROVE  OrderInv'
<1>1. PICK q0 \in ProcStates : q0 = proc[s] /\ OrderOK(s, q0) /\ q0.mut \in Rows
  BY DEF CoreInv, OrderInv, TypeOK, ProcStates
<1>2. Known(q0.mut)
  BY <1>1 DEF CoreInv, ProcOK, Mutating
<1>3. CoverageKept /\ Covered(r, q0.mut)'
  <2>1. CoverageKept /\ \E h \in hints' : h.to = r /\ h.mut = q0.mut
    BY <1>1, <1>2, EnqueueCovers DEF OrderInv, nodeVars, ackVars
  <2> QED BY <2>1 DEF Covered
<1> DEFINE q == [q0 EXCEPT !.todo = @ \ {r}]
<1>4. /\ q.pc = q0.pc /\ q.mut = q0.mut /\ q.oks = q0.oks /\ q.seen = q0.seen
      /\ q.todo = q0.todo \ {r} /\ q.floor = q0.floor /\ q \in ProcStates
  BY <1>1 DEF ProcStates
<1>5. proc'[s] = q /\ \A p \in Procs : p # s => proc'[p] = proc[p]
  BY <1>1 DEF Become, CoreInv, TypeOK
<1> HIDE DEF q
<1>6. PrimaryStill /\ NoPrimaryOverwrite'
  BY DEF PrimaryStill, OrderInv, NoPrimaryOverwrite, nodeVars
<1>7. OrderOK(s, proc[s])'
  BY <1>1, <1>2, <1>3, <1>4, <1>5, <1>6 DEF OrderOK, CoverageKept, PrimaryStill
<1> QED BY <1>3, <1>5, <1>6, <1>7, StillStep DEF ackVars

(* Fan-out, quorum check, hints and acknowledgement preserve OrderInv.     *)
LEMMA ReplicateOrder ==
    ASSUME CoreInv, CoreInv', OrderInv, NEW s \in Writers, ReplicateStep(s)
    PROVE  OrderInv'
<1>0. s \in Procs /\ TypeOK /\ s \in Slots
  BY ConstantTypes DEF CoreInv
<1>1. PICK q0 \in ProcStates : q0 = proc[s] /\ OrderOK(s, q0) /\ ProcOK(s, q0)
  BY <1>0 DEF CoreInv, OrderInv, TypeOK
<1> USE <1>0
<1>2. CASE QuorumCheck(s)
  <2> DEFINE q == [q0 EXCEPT !.pc = "hinting", !.todo = q0.fails]
  <2>1. q \in ProcStates
    BY <1>1 DEF ProcStates, PCs
  <2>2. OrderOK(s, q)
    BY <1>1, <1>2 DEF QuorumCheck, OrderOK, ProcStates
  <2> QED
    BY <1>1, <1>2, <2>1, <2>2, ConstantTypes, IdleOrder, QuietOrder
    DEF QuorumCheck, nodeVars, hintVars, ackVars
<1>3. CASE Ack(s)
  <2>1. /\ proc'[s] = Idle /\ \A p \in Procs : p # s => proc'[p] = proc[p]
        /\ acked' = acked \cup {q0.mut} /\ UNCHANGED <<row, held, calls, hints, dropped>>
    BY <1>1, <1>3 DEF Ack, Become, TypeOK, hintVars
  <2>2. PrimaryStill /\ CoverageKept /\ NoPrimaryOverwrite'
    BY <2>1 DEF PrimaryStill, CoverageKept, Covered, OrderInv, NoPrimaryOverwrite
  <2>3. OrderOK(s, proc[s])'
    BY <2>1, IdleParts DEF OrderOK
  <2>4. \A r \in Nodes : Covered(r, q0.mut)'
    BY <1>1, <1>3, <2>1 DEF Ack, OrderOK, ProcOK, Mutating, Covered
  <2> QED BY <2>1, <2>2, <2>3, <2>4, StillStep
<1>4. ASSUME NEW r \in Replicas, Send(s, r) PROVE OrderInv'
  <2>1. /\ UNCHANGED <<row, held, hints, acked, dropped>>
        /\ \A c \in calls' : c \in calls \/ (c.to = r /\ c.at = "sent")
    BY <1>4 DEF Send, nodeVars, hintVars, ackVars
  <2>2. PrimaryStill /\ CoverageKept /\ NoPrimaryOverwrite'
    BY <2>1 DEF PrimaryStill, CoverageKept, Covered, OrderInv, NoPrimaryOverwrite
  <2>3. proc'[s].pc = "replicating" /\ \A p \in Procs : p # s => proc'[p] = proc[p]
    <3> DEFINE q1 == [q0 EXCEPT !.todo = @ \ {r}, !.fails = @ \cup {r}]
               q2 == [q0 EXCEPT !.todo = @ \ {r}]
    <3>1. q1.pc = q0.pc /\ q2.pc = q0.pc
      BY <1>1 DEF ProcStates
    <3>2. Become(s, q1) \/ Become(s, q2)
      BY <1>1, <1>4 DEF Send
    <3>3. q0.pc = "replicating"
      BY <1>1, <1>4 DEF Send
    <3> HIDE DEF q1, q2
    <3> QED BY <3>1, <3>2, <3>3 DEF Become, TypeOK
  <2>4. OrderOK(s, proc[s])'
    BY <2>3 DEF OrderOK
  <2> QED BY <2>1, <2>2, <2>3, <2>4, StillStep
<1>5. ASSUME NEW r \in Replicas, HintFailed(s, r) PROVE OrderInv'
  BY <1>5, HintOrder, ConstantTypes DEF HintFailed, HintKind, Kinds
<1>6. ASSUME NEW r \in Replicas, HintDropped(s, r) PROVE OrderInv'
  <2> DEFINE q == [q0 EXCEPT !.todo = @ \ {r}]
  <2>1. /\ q.pc = q0.pc /\ q.mut = q0.mut /\ q.oks = q0.oks /\ q.seen = q0.seen
        /\ q.todo = q0.todo \ {r} /\ q.floor = q0.floor /\ q \in ProcStates
    BY <1>1 DEF ProcStates
  <2>2. /\ proc'[s] = q /\ \A p \in Procs : p # s => proc'[p] = proc[p]
        /\ dropped' = dropped \cup {<<r, q0.mut>>}
        /\ UNCHANGED <<row, held, calls, hints, acked>> /\ q0.pc = "hinting"
    BY <1>1, <1>6 DEF HintDropped, EnqueueFails, Become, TypeOK, nodeVars
  <2> HIDE DEF q
  <2>3. PrimaryStill /\ CoverageKept /\ NoPrimaryOverwrite'
    BY <2>2 DEF PrimaryStill, CoverageKept, Covered, OrderInv, NoPrimaryOverwrite
  <2>4. OrderOK(s, proc[s])'
    BY <1>1, <2>1, <2>2 DEF OrderOK, Covered
  <2> QED BY <2>2, <2>3, <2>4, StillStep
<1> QED
  BY <1>2, <1>3, <1>4, <1>5, <1>6 DEF ReplicateStep

(* The steps of GetObject and HeadObject preserve OrderInv.                *)
LEMMA ReadOrder ==
    ASSUME CoreInv, OrderInv, NEW s \in Readers, ReadStep(s)
    PROVE  OrderInv'
<1>0. s \in Procs /\ TypeOK /\ s \in Slots
  BY ConstantTypes DEF CoreInv
<1>1. PICK q0 \in ProcStates : q0 = proc[s] /\ OrderOK(s, q0)
        /\ q0.seen \in [Nodes -> Rows] /\ q0.floor \subseteq Rows
  BY <1>0 DEF CoreInv, OrderInv, TypeOK, ProcStates
<1> USE <1>0
<1>2. CASE ReadStart(s)
  <2>1. PICK m \in Rows, floor \in SUBSET Rows :
          /\ (m = row[Primary] /\ floor = acked) \/ floor = {}
          /\ Become(s, [q0 EXCEPT !.pc = "heads", !.todo = Replicas,
                                  !.seen[Primary] = m, !.floor = floor])
    BY <1>1, <1>2, LocalState DEF ReadStart, CoreInv, TypeOK
  <2> DEFINE q == [q0 EXCEPT !.pc = "heads", !.todo = Replicas,
                             !.seen[Primary] = m, !.floor = floor]
  <2>2. q \in ProcStates
    BY <1>1, ConstantTypes DEF ProcStates, PCs
  <2>3. \A a \in acked : a.ver <= row[Primary].ver
    BY DEF CoreInv, AckedKnown, Known, OrderInv, CommitsOrdered
  <2>4. q.pc = "heads" /\ q.floor = floor /\ q.seen[Primary] = m
    BY <1>1, ConstantTypes DEF ProcStates
  <2>5. Become(s, q)
    BY <2>1
  <2> HIDE DEF q
  <2>6. OrderOK(s, q)
    BY <2>1, <2>3, <2>4 DEF OrderOK
  <2> QED
    BY <1>2, <2>2, <2>5, <2>6, QuietOrder DEF ReadStart, nodeVars, hintVars, ackVars
<1>3. CASE ReadDecide(s)
  <2>1. CASE ~ReadSatisfied(Quorums, Cardinality(FoundNodes(q0.seen)))
    BY <1>1, <1>3, <2>1, ConstantTypes, IdleOrder, QuietOrder
    DEF ReadDecide, nodeVars, hintVars, ackVars
  <2>2. ASSUME NEW n \in PickNewestState(q0.seen),
               Become(s, [q0 EXCEPT
                    !.mut = q0.seen[n], !.win = n,
                    !.pc = IF q0.seen[n].val = Tombstone THEN "answered"
                           ELSE "repair",
                    !.todo = IF q0.seen[n].val = Tombstone THEN {}
                             ELSE StaleReplicas(q0.seen[n], n, q0.seen)])
        PROVE OrderInv'
    <3> DEFINE pc == IF q0.seen[n].val = Tombstone THEN "answered" ELSE "repair"
               todo == IF q0.seen[n].val = Tombstone THEN {}
                       ELSE StaleReplicas(q0.seen[n], n, q0.seen)
               q == [q0 EXCEPT !.mut = q0.seen[n], !.win = n, !.pc = pc,
                               !.todo = todo]
    <3>1. n \in Nodes /\ q0.seen[n] \in Rows /\ q0.seen[Primary] \in Rows
      BY <1>1, <2>2, ConstantTypes DEF PickNewestState, FoundNodes
    <3>2. todo \in SUBSET Nodes /\ pc \in {"answered", "repair"}
      BY DEF StaleReplicas, FoundNodes
    <3>3. q0.seen[Primary].ver <= q0.seen[n].ver
      BY <2>2, <3>1, ConstantTypes, BoundsAssumption
      DEF PickNewestState, FoundNodes, Found, Rows
    <3>4. Become(s, q)
      BY <2>2
    <3> HIDE DEF pc, todo
    <3>5. /\ q \in ProcStates /\ q.mut = q0.seen[n] /\ q.floor = q0.floor
          /\ q.pc \in {"answered", "repair"}
      BY <1>1, <3>1, <3>2 DEF ProcStates, PCs
    <3> HIDE DEF q
    <3>6. \A m \in q0.floor : m.ver <= q0.seen[n].ver
      <4>0. \A m \in q0.floor : m.ver <= q0.seen[Primary].ver
        BY <1>1, <1>3 DEF ReadDecide, OrderOK
      <4>1. \A m \in Rows : m.ver \in Nat
        BY BoundsAssumption DEF Rows
      <4>2. q0.seen[Primary].ver \in Nat /\ q0.seen[n].ver \in Nat
        BY <3>1, BoundsAssumption DEF Rows
      <4> QED BY <1>1, <3>3, <4>0, <4>1, <4>2
    <3>7. OrderOK(s, q)
      BY <3>5, <3>6 DEF OrderOK
    <3> QED
      BY <1>3, <3>4, <3>5, <3>7, QuietOrder DEF ReadDecide, nodeVars, hintVars, ackVars
  <2> QED BY <1>1, <1>3, <2>1, <2>2 DEF ReadDecide
<1>4. CASE HeadAnswer(s)
  <2> DEFINE q == [q0 EXCEPT !.pc = "answered"]
  <2>1. q \in ProcStates
    BY <1>1 DEF ProcStates, PCs
  <2>2. OrderOK(s, q)
    BY <1>1, <1>4 DEF HeadAnswer, OrderOK, ProcStates
  <2> QED
    BY <1>1, <1>4, <2>1, <2>2, QuietOrder DEF HeadAnswer, nodeVars, hintVars, ackVars
<1>5. CASE GetAnswer(s)
  <2> DEFINE q == [q0 EXCEPT !.pc = "answered", !.body = blob[q0.win]]
  <2>1. q \in ProcStates
    BY <1>1 DEF ProcStates, PCs, TypeOK
  <2>2. OrderOK(s, q)
    BY <1>1, <1>5 DEF GetAnswer, OrderOK, ProcStates
  <2> QED
    BY <1>1, <1>5, <2>1, <2>2, ConstantTypes, IdleOrder, QuietOrder
    DEF GetAnswer, nodeVars, hintVars, ackVars
<1>6. CASE ReadReturn(s)
  BY <1>6, ConstantTypes, IdleOrder, QuietOrder DEF ReadReturn, nodeVars, hintVars, ackVars
<1>7. CASE StreamFromNode(s)
  <2> DEFINE q == [q0 EXCEPT !.pc = "opening"]
  <2>1. q \in ProcStates
    BY <1>1 DEF ProcStates, PCs
  <2>2. OrderOK(s, q)
    BY <1>1, <1>7 DEF StreamFromNode, OrderOK, ProcStates
  <2> QED
    BY <1>1, <1>7, <2>1, <2>2, ConstantTypes, IdleOrder, QuietOrder
    DEF StreamFromNode, nodeVars, hintVars, ackVars
<1> QED
  BY <1>2, <1>3, <1>4, <1>5, <1>6, <1>7 DEF ReadStep

(* The steps of a healing scan preserve OrderInv.                          *)
LEMMA HealOrder ==
    ASSUME CoreInv, OrderInv, NEW h \in Healers, HealStep(h)
    PROVE  OrderInv'
<1>0. h \in Procs /\ TypeOK /\ h \notin Slots /\ row[Primary] \in Rows
  BY ConstantTypes, ProcsAssumption DEF CoreInv, TypeOK
<1>1. PICK q0 \in ProcStates : q0 = proc[h]
  BY <1>0 DEF CoreInv, TypeOK
<1> USE <1>0
<1>2. ASSUME NEW q \in ProcStates, q.pc \notin {"assigned", "deleting", "written", "hinting"}
      PROVE  OrderOK(h, q)
  BY <1>2 DEF OrderOK
<1>3. CASE HealList(h)
  <2> DEFINE q == [q0 EXCEPT !.pc = "listed"]
  <2>1. q \in ProcStates /\ q.pc = "listed"
    BY <1>1 DEF ProcStates, PCs
  <2> QED
    BY <1>1, <1>2, <1>3, <2>1, QuietOrder DEF HealList, nodeVars, hintVars, ackVars
<1>4. CASE HealObject(h)
  <2> DEFINE q == [q0 EXCEPT !.pc = "healing"]
  <2>1. q \in ProcStates /\ q.pc = "healing"
    BY <1>1 DEF ProcStates, PCs
  <2> QED
    BY <1>1, <1>2, <1>4, <2>1, ConstantTypes, IdleOrder, QuietOrder
    DEF HealObject, nodeVars, hintVars, ackVars
<1>5. CASE HealWinning(h)
  <2>1. PICK m \in Rows : \/ Become(h, [q0 EXCEPT !.pc = "winning", !.mut = m])
                          \/ Become(h, Idle)
    BY <1>1, <1>5, LocalState DEF HealWinning
  <2> DEFINE q == [q0 EXCEPT !.pc = "winning", !.mut = m]
  <2>2. q \in ProcStates /\ q.pc = "winning"
    BY <1>1 DEF ProcStates, PCs
  <2> QED
    BY <1>1, <1>2, <1>5, <2>1, <2>2, ConstantTypes, IdleOrder, QuietOrder
    DEF HealWinning, nodeVars, hintVars, ackVars
<1>6. CASE HealCollect(h)
  <2>1. PICK m \in Rows :
          Become(h, [q0 EXCEPT !.pc = "heads", !.todo = Replicas,
                               !.seen[Primary] = m])
    BY <1>1, <1>6, LocalState DEF HealCollect
  <2> DEFINE q == [q0 EXCEPT !.pc = "heads", !.todo = Replicas,
                             !.seen[Primary] = m]
  <2>2. q \in ProcStates /\ q.pc = "heads"
    BY <1>1, ConstantTypes DEF ProcStates, PCs
  <2> QED
    BY <1>1, <1>2, <1>6, <2>1, <2>2, QuietOrder
    DEF HealCollect, nodeVars, hintVars, ackVars
<1>7. CASE HealDecide(h)
  <2> DEFINE todo == StaleReplicas(q0.mut, Primary, q0.seen)
             q == [q0 EXCEPT !.pc = "repair", !.todo = todo]
  <2>1. todo \in SUBSET Nodes
    BY DEF StaleReplicas, FoundNodes
  <2>2. Become(h, q)
    BY <1>1, <1>7 DEF HealDecide
  <2> HIDE DEF todo
  <2>3. q \in ProcStates /\ q.pc = "repair"
    BY <1>1, <2>1 DEF ProcStates, PCs
  <2> QED
    BY <1>2, <1>7, <2>2, <2>3, QuietOrder DEF HealDecide, nodeVars, hintVars, ackVars
<1>8. CASE HealReturn(h)
  BY <1>8, ConstantTypes, IdleOrder, QuietOrder DEF HealReturn, hintVars, ackVars
<1> QED
  BY <1>3, <1>4, <1>5, <1>6, <1>7, <1>8 DEF HealStep

(* Collecting states and scheduling repairs preserve OrderInv.             *)
LEMMA CollectOrder ==
    ASSUME CoreInv, CoreInv', OrderInv, NEW p \in Procs, CollectStep(p)
    PROVE  OrderInv'
<1>1. PICK q0 \in ProcStates : q0 = proc[p] /\ OrderOK(p, q0)
  BY DEF CoreInv, TypeOK, OrderInv
<1>2. ASSUME NEW r \in Replicas, HeadOnNode(p, r) PROVE OrderInv'
  <2>1. PICK m \in {row[r], NoRow} :
          Become(p, [q0 EXCEPT !.todo = @ \ {r}, !.seen[r] = m])
    BY <1>1, <1>2 DEF HeadOnNode
  <2> DEFINE q == [q0 EXCEPT !.todo = @ \ {r}, !.seen[r] = m]
  <2>2. r \in Nodes /\ m \in Rows /\ r # Primary
    BY ConstantTypes, ReplicasAssumption DEF CoreInv, TypeOK
  <2>3. /\ q \in ProcStates /\ q.pc = q0.pc /\ q.floor = q0.floor
        /\ q.seen[Primary] = q0.seen[Primary]
    BY <1>1, <2>2, ConstantTypes DEF ProcStates
  <2> HIDE DEF q
  <2>4. OrderOK(p, q)
    BY <1>1, <1>2, <2>3 DEF HeadOnNode, OrderOK
  <2>5. Become(p, q)
    BY <2>1 DEF q
  <2> QED
    BY <1>2, <2>3, <2>4, <2>5, QuietOrder DEF HeadOnNode, nodeVars, hintVars, ackVars
<1>3. ASSUME NEW r \in Nodes, Repair(p, r) PROVE OrderInv'
  <2>1. proc[p].win \in Nodes
    BY <1>1 DEF ProcStates
  <2> QED BY <1>3, <2>1, HintOrder DEF Repair, RepairKind, Kinds
<1>4. ASSUME NEW r \in Nodes, RepairDropped(p, r) PROVE OrderInv'
  <2> DEFINE q == [q0 EXCEPT !.todo = @ \ {r}]
  <2>1. q \in ProcStates
    BY <1>1 DEF ProcStates
  <2>2. OrderOK(p, q)
    BY <1>1, <1>4 DEF RepairDropped, OrderOK, ProcStates
  <2> QED
    BY <1>1, <1>4, <2>1, <2>2, QuietOrder
    DEF RepairDropped, EnqueueFails, nodeVars, ackVars
<1> QED
  BY <1>2, <1>3, <1>4 DEF CollectStep

-----------------------------------------------------------------------------
(* Requests to replicas.  A caller that learns a result stays in its       *)
(* fan-out, so only the request itself and the replica's row change.       *)
LEMMA RespondOrder ==
    ASSUME CoreInv, OrderInv, NEW c \in calls, NEW ok \in BOOLEAN, Respond(c, ok),
           PrimaryStill, \A n \in Nodes : held[n] \subseteq held'[n],
           UNCHANGED <<hints, acked, dropped>>, NoPrimaryOverwrite'
    PROVE  OrderInv'
<1>1. CoverageKept
  BY DEF CoverageKept, Covered
<1>2. ASSUME NEW p \in Procs
      PROVE  proc'[p] = proc[p] \/ OrderOK(p, proc[p])'
  <2>1. CASE c.from \notin Slots
    BY <2>1 DEF Respond
  <2>2. CASE c.from \in Slots
    <3>1. PICK q0 \in ProcStates : q0 = proc[c.from] /\ q0.pc = "replicating"
      BY <2>2, ConstantTypes DEF CoreInv, CallOK, TypeOK
    <3> DEFINE q == IF ok THEN [q0 EXCEPT !.oks = @ \cup {c.to}]
                    ELSE [q0 EXCEPT !.fails = @ \cup {c.to}]
    <3>2. q.pc = "replicating"
      BY <3>1 DEF ProcStates
    <3>3. Become(c.from, q)
      BY <2>2, <3>1 DEF Respond
    <3> HIDE DEF q
    <3>4. proc'[p] = IF p = c.from THEN q ELSE proc[p]
      BY <3>3, <2>2, ConstantTypes DEF Become, CoreInv, TypeOK
    <3> QED BY <3>2, <3>4 DEF OrderOK
  <2> QED BY <2>1, <2>2
<1> QED BY <1>1, <1>2, StillStep

(* The steps of PutReplica and PutTombstoneReplica preserve OrderInv.      *)
LEMMA CallOrder ==
    ASSUME CoreInv, OrderInv, NEW c \in calls, CallStep(c)
    PROVE  OrderInv'
<1>1. c \in Calls /\ c.to \in Nodes /\ c.mut \in Rows
  BY DEF CoreInv, TypeOK, Calls
<1>2. TypeOK /\ Known(c.mut) /\ NodesKnown
  BY DEF CoreInv, CallOK
<1>3. ASSUME UNCHANGED <<proc, row, held, hints, acked, dropped>>, c.to # Primary,
             NEW d, d.to = c.to, calls' = (calls \ {c}) \cup {d}
      PROVE  OrderInv'
  <2>1. PrimaryStill /\ CoverageKept /\ NoPrimaryOverwrite'
    BY <1>3 DEF PrimaryStill, CoverageKept, Covered, OrderInv, NoPrimaryOverwrite
  <2> QED BY <1>3, <2>1, StillStep
<1>4. ASSUME UNCHANGED <<row, held, hints, acked, dropped>>,
             calls' \subseteq (calls \ {c}) \cup {[c EXCEPT !.from = Nobody]},
             NEW ok \in BOOLEAN, Respond(c, ok)
      PROVE  OrderInv'
  <2>1. [c EXCEPT !.from = Nobody].to = c.to /\ [c EXCEPT !.from = Nobody].at = c.at
    BY <1>1 DEF Calls
  <2>2. NoPrimaryOverwrite'
    BY <1>4, <2>1 DEF OrderInv, NoPrimaryOverwrite
  <2>3. PrimaryStill /\ \A n \in Nodes : held[n] \subseteq held'[n]
    BY <1>4 DEF PrimaryStill
  <2> QED BY <1>4, <2>2, <2>3, RespondOrder
<1>5. CASE ReplicaCheck(c)
  <2>1. CASE Rejects(row[c.to], c.mut) \/ Repeats(row[c.to], c.mut)
    <3>1. Repeats(row[c.to], c.mut) \in BOOLEAN
      BY DEF Repeats
    <3> QED BY <1>4, <1>5, <2>1, <3>1 DEF ReplicaCheck, nodeVars, hintVars, ackVars
  <2>2. CASE ~(Rejects(row[c.to], c.mut) \/ Repeats(row[c.to], c.mut))
    <3> DEFINE at == IF c.mut.val = Tombstone /\ ~Live(row[c.to]) THEN "written"
                     ELSE "checked"
               d == [c EXCEPT !.at = at]
    <3>1. d.to = c.to
      BY <1>1 DEF Calls
    <3>2. ASSUME c.to = Primary PROVE FALSE
      <4>1. c.mut.ver <= row[Primary].ver /\ c.mut.ver > 0
        BY <1>2 DEF Known, Found, OrderInv, CommitsOrdered
      <4>2. c.mut.ver \in Nat /\ row[Primary].ver \in Nat /\ row[Primary] \in Rows
        BY <1>1, <1>2, ConstantTypes, BoundsAssumption DEF TypeOK, Rows
      <4>3. row[Primary] \in held[Primary]
        BY <1>2, <4>1, <4>2, ConstantTypes DEF NodesKnown, Found
      <4>4. c.mut.ver = row[Primary].ver
        BY <2>2, <3>2, <4>1, <4>2 DEF Rejects
      <4>5. c.mut = row[Primary]
        BY <1>2, <4>3, <4>4 DEF Known, OrderInv, CommitsOrdered
      <4> QED BY <2>2, <3>2, <4>5 DEF Repeats
    <3> QED BY <1>3, <1>5, <2>2, <3>1, <3>2 DEF ReplicaCheck, nodeVars, hintVars, ackVars
  <2> QED BY <2>1, <2>2
<1>6. CASE ReplicaBlob(c)
  <2> DEFINE d == [c EXCEPT !.at = IF c.mut.val \in {Tombstone, c.body}
                                   THEN "written" ELSE "mismatch"]
  <2>1. d.to = c.to /\ c.to # Primary
    BY <1>1, <1>6 DEF Calls, ReplicaBlob, OrderInv, NoPrimaryOverwrite
  <2> QED BY <1>3, <1>6, <2>1 DEF ReplicaBlob, hintVars, ackVars
<1>7. CASE ReplicaMismatch(c)
  BY <1>4, <1>7 DEF ReplicaMismatch, hintVars, ackVars
<1>8. CASE ReplicaCommit(c)
  <2>1. c.to # Primary
    BY <1>8 DEF ReplicaCommit, OrderInv, NoPrimaryOverwrite
  <2>2. PrimaryStill /\ \A n \in Nodes : held[n] \subseteq held'[n]
    BY <1>1, <1>2, <1>8, <2>1, ConstantTypes DEF ReplicaCommit, PrimaryStill, TypeOK
  <2>3. NoPrimaryOverwrite'
    BY <1>8 DEF ReplicaCommit, OrderInv, NoPrimaryOverwrite
  <2> QED BY <1>8, <2>2, <2>3, RespondOrder DEF ReplicaCommit, hintVars, ackVars
<1>9. CASE ReplicaFail(c)
  BY <1>4, <1>9 DEF ReplicaFail, hintVars, ackVars
<1>10. CASE Disconnect(c)
  BY <1>4, <1>10 DEF Disconnect, nodeVars, hintVars, ackVars
<1> QED
  BY <1>5, <1>6, <1>7, <1>8, <1>9, <1>10 DEF CallStep

(* A delivery takes a hint away only from a target that has committed it.  *)
LEMMA WorkOrder ==
    ASSUME CoreInv, OrderInv, NEW w \in Workers, WorkStep(w)
    PROVE  OrderInv'
<1>1. UNCHANGED <<nodeVars, proc, ackVars>>
  BY DEF WorkStep, ListDueHints, DeliverHint, MarkHintDelivered, CleanupHintPayload
<1>2. \A c \in calls' : c \in calls \/ c.at = "sent"
  BY DEF WorkStep, ListDueHints, DeliverHint, MarkHintDelivered, CleanupHintPayload
<1>3. ASSUME NEW h \in hints PROVE h \in hints' \/ h.mut \in held[h.to]
  <2>1. CASE MarkHintDelivered(w) /\ h \notin hints'
    <3>1. work[w].pc = "delivered" /\ SameHint(h, work[w].task)
      BY <2>1 DEF MarkHintDelivered
    <3>2. Known(h.mut) /\ WorkOK(work[w])
      BY DEF CoreInv, HintsKnown
    <3>3. h.mut = work[w].task.mut
      BY <3>1, <3>2 DEF SameHint, WorkOK, Known, OrderInv, CommitsOrdered
    <3> QED BY <3>1, <3>2, <3>3 DEF SameHint, WorkOK
  <2>2. CASE ~MarkHintDelivered(w)
    BY <2>2 DEF WorkStep, ListDueHints, DeliverHint, CleanupHintPayload, hintVars
  <2> QED BY <2>1, <2>2
<1>4. CoverageKept
  BY <1>1, <1>3 DEF CoverageKept, Covered, nodeVars, ackVars
<1>5. PrimaryStill /\ NoPrimaryOverwrite'
  BY <1>1, <1>2 DEF PrimaryStill, OrderInv, NoPrimaryOverwrite, nodeVars
<1> QED BY <1>1, <1>4, <1>5, StillStep DEF ackVars

(* Clients that go away and crashes leave OrderInv true.                   *)
LEMMA FaultOrder ==
    ASSUME CoreInv, OrderInv,
           \/ \E s \in Slots : ClientGone(s)
           \/ \E n \in Replicas : CrashReplica(n)
           \/ CrashPrimary
    PROVE  OrderInv'
<1>1. UNCHANGED <<nodeVars, hintVars, ackVars>>
  BY DEF ClientGone, CrashReplica, CrashPrimary
<1>2. PrimaryStill /\ CoverageKept
  BY <1>1 DEF PrimaryStill, CoverageKept, Covered, nodeVars, hintVars, ackVars
<1>3. ASSUME NEW c \in Calls
      PROVE  [c EXCEPT !.from = Nobody].to = c.to /\ [c EXCEPT !.from = Nobody].at = c.at
  BY DEF Calls
<1>4. ASSUME \A d \in calls' : d \in calls
                \/ \E c \in calls : d = [c EXCEPT !.from = Nobody]
      PROVE  NoPrimaryOverwrite'
  <2> SUFFICES ASSUME NEW d \in calls', d.to = Primary PROVE d.at = "sent"
    BY DEF NoPrimaryOverwrite
  <2>1. CASE d \in calls
    BY <2>1 DEF OrderInv, NoPrimaryOverwrite
  <2>2. ASSUME NEW c \in calls, d = [c EXCEPT !.from = Nobody] PROVE d.at = "sent"
    <3>1. d.to = c.to /\ d.at = c.at
      BY <1>3, <2>2 DEF CoreInv, TypeOK
    <3> QED BY <3>1 DEF OrderInv, NoPrimaryOverwrite
  <2> QED BY <1>4, <2>1, <2>2
<1>5. ASSUME NEW s \in Slots, ClientGone(s) PROVE OrderInv'
  <2>1. ASSUME NEW p \in Procs PROVE proc'[p] = proc[p] \/ proc'[p] = Idle
    BY <1>5, ConstantTypes DEF ClientGone, Become, CoreInv, TypeOK
  <2>2. ASSUME NEW p \in Procs PROVE proc'[p] = proc[p] \/ OrderOK(p, proc[p])'
    BY <2>1, IdleParts DEF OrderOK
  <2>3. NoPrimaryOverwrite'
    BY <1>4, <1>5 DEF ClientGone
  <2> QED BY <1>1, <1>2, <2>2, <2>3, StillStep DEF ackVars
<1>6. ASSUME NEW n \in Replicas, CrashReplica(n) PROVE OrderInv'
  <2>1. NoPrimaryOverwrite'
    BY <1>4, <1>6 DEF CrashReplica
  <2>2. ASSUME NEW p \in Procs PROVE proc'[p] = proc[p] \/ OrderOK(p, proc[p])'
    <3>1. PICK q0 \in ProcStates : q0 = proc[p]
      BY DEF CoreInv, TypeOK
    <3> DEFINE q == [q0 EXCEPT !.fails = @ \cup {n}]
    <3>2. q.pc = q0.pc
      BY <3>1 DEF ProcStates
    <3> HIDE DEF q
    <3>3. CASE \E c \in calls : c.to = n /\ c.from = p
      <4>1. PICK c \in calls : c.to = n /\ c.from = p
        BY <3>3
      <4>2. p \in Slots
        BY <4>1, ProcsAssumption DEF CoreInv, TypeOK, Calls, Procs
      <4>3. q0.pc = "replicating"
        BY <3>1, <4>1, <4>2 DEF CoreInv, CallOK
      <4>4. proc'[p] = q
        BY <1>6, <3>1, <4>1 DEF CrashReplica, q
      <4> QED BY <3>2, <4>3, <4>4 DEF OrderOK
    <3>4. CASE ~ \E c \in calls : c.to = n /\ c.from = p
      BY <1>6, <3>4 DEF CrashReplica
    <3> QED BY <3>3, <3>4
  <2> QED BY <1>1, <1>2, <2>1, <2>2, StillStep DEF ackVars
<1>7. CASE CrashPrimary
  <2>1. NoPrimaryOverwrite'
    BY <1>4, <1>7 DEF CrashPrimary
  <2>2. \A p \in Procs : OrderOK(p, proc[p])'
    BY <1>7, IdleParts DEF CrashPrimary, OrderOK
  <2> QED BY <1>1, <1>2, <2>1, <2>2, StillStep DEF ackVars
<1> QED BY <1>5, <1>6, <1>7

-----------------------------------------------------------------------------
(* OrderInv holds initially.                                               *)
LEMMA OrderInit == Init => OrderInv
<1> SUFFICES ASSUME Init PROVE OrderInv
  OBVIOUS
<1>1. CommitsOrdered /\ NoPrimaryOverwrite /\ HintCoverage
  BY ConstantTypes DEF Init, CommitsOrdered, NoPrimaryOverwrite, HintCoverage
<1>2. \A p \in Procs : OrderOK(p, proc[p])
  BY IdleOrder DEF Init
<1> QED BY <1>1, <1>2 DEF OrderInv

(* With one writer every step preserves OrderInv.                          *)
LEMMA OrderNext ==
    ASSUME Serial PROVE CoreInv /\ CoreInv' /\ OrderInv /\ [Next]_vars => OrderInv'
<1> SUFFICES ASSUME CoreInv, CoreInv', OrderInv, [Next]_vars PROVE OrderInv'
  OBVIOUS
<1>1. CASE UNCHANGED vars
  BY <1>1 DEF vars, OrderInv, CommitsOrdered, OrderOK, Covered,
              NoPrimaryOverwrite, HintCoverage
<1>2. ASSUME NEW s \in Writers, PutStep(s) \/ DeleteStep(s) \/ ReplicateStep(s)
      PROVE  OrderInv'
  BY <1>2, PutOrder, DeleteOrder, ReplicateOrder
<1>3. ASSUME NEW s \in Readers, ReadStep(s) PROVE OrderInv'
  BY <1>3, ReadOrder
<1>4. ASSUME NEW h \in Healers, HealStep(h) PROVE OrderInv'
  BY <1>4, HealOrder
<1>5. ASSUME NEW p \in Procs, CollectStep(p) PROVE OrderInv'
  BY <1>5, CollectOrder
<1>6. ASSUME NEW c \in calls, CallStep(c) PROVE OrderInv'
  BY <1>6, CallOrder
<1>7. ASSUME NEW w \in Workers, WorkStep(w) PROVE OrderInv'
  BY <1>7, WorkOrder
<1>8. CASE \/ \E s \in Slots : ClientGone(s)
           \/ \E n \in Replicas : CrashReplica(n)
           \/ CrashPrimary
  BY <1>8, FaultOrder
<1> QED
  BY <1>1, <1>2, <1>3, <1>4, <1>5, <1>6, <1>7, <1>8 DEF Next

(* OrderInv is an invariant as long as mutations do not overlap.           *)
THEOREM OrderInvariant == ASSUME Serial PROVE Spec => []OrderInv
BY CoreInvariant, OrderInit, OrderNext, PTL DEF Spec

(* The version NextObjectVersion gives is above every version a replica    *)
(* holds, whatever replicas, hints and repairs send.                       *)
THEOREM PrimaryStaysNewest == ASSUME Serial PROVE Spec => []PrimaryNewest
<1>1. CoreInv /\ OrderInv => PrimaryNewest
  <2> SUFFICES ASSUME CoreInv, OrderInv, NEW n \in Nodes
               PROVE  row[n].ver <= row[Primary].ver
    BY DEF PrimaryNewest
  <2>1. row[n].ver \in Nat /\ row[Primary].ver \in Nat
    BY ConstantTypes, BoundsAssumption DEF CoreInv, TypeOK, Rows
  <2>2. Found(row[n]) => row[n] \in held[Primary]
    BY DEF CoreInv, NodesKnown, Known
  <2> QED BY <2>1, <2>2 DEF Found, OrderInv, CommitsOrdered
<1> QED BY <1>1, CoreInvariant, OrderInvariant, PTL

(* A version number of the object stands for one mutation.                 *)
THEOREM VersionsUnique == ASSUME Serial PROVE Spec => []VersionUnique
<1>1. CoreInv /\ OrderInv => VersionUnique
  BY DEF CoreInv, NodesKnown, Known, OrderInv, CommitsOrdered, VersionUnique
<1> QED BY <1>1, CoreInvariant, OrderInvariant, PTL

(* A GET or HEAD that the coordinator answers is at least as new as every  *)
(* mutation acknowledged before it began.                                  *)
THEOREM ReadsFresh == ASSUME Serial PROVE Spec => []ReadFresh
<1>1. CoreInv /\ OrderInv => ReadFresh
  <2> SUFFICES ASSUME CoreInv, OrderInv, NEW s \in Slots,
                      proc[s].pc = "answered", NEW m \in proc[s].floor
               PROVE  proc[s].mut.ver >= m.ver
    BY DEF ReadFresh
  <2>1. s \in Procs /\ proc[s] \in ProcStates
    BY ConstantTypes DEF CoreInv, TypeOK
  <2>2. m \in Rows /\ proc[s].mut \in Rows
    BY <2>1 DEF ProcStates
  <2>3. m.ver \in Nat /\ proc[s].mut.ver \in Nat
    BY <2>2, BoundsAssumption DEF Rows
  <2>4. m.ver <= proc[s].mut.ver
    BY <2>1 DEF OrderInv, OrderOK
  <2> QED BY <2>3, <2>4
<1> QED BY <1>1, CoreInvariant, OrderInvariant, PTL

(* No acknowledged mutation loses its hint before its target commits it.   *)
THEOREM HintsCover == ASSUME Serial PROVE Spec => []HintCoverage
<1>1. OrderInv => HintCoverage
  BY DEF OrderInv
<1> QED BY <1>1, OrderInvariant, PTL

=============================================================================
