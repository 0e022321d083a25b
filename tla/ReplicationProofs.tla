-------------------------- MODULE ReplicationProofs --------------------------
(***************************************************************************)
(* Proofs about Replication for any number of replicas, request handlers,  *)
(* healing scans and hint workers, any W and R that pass Validate, any     *)
(* contents and any bounds.                                                *)
(***************************************************************************)
EXTENDS ReplicationInvariant, FiniteSetTheorems, TLAPS

(* The placement set is finite.                                            *)
LEMMA NodesFinite == IsFiniteSet(Nodes) /\ Cardinality(Nodes) \in Nat
BY ReplicasAssumption, FS_AddElement, FS_CardinalityType DEF Nodes

(* The constant values of the module have their types.                     *)
LEMMA ConstantTypes ==
    /\ Primary \in Nodes /\ {Primary} \in SUBSET Nodes /\ Replicas \in SUBSET Nodes
    /\ {} \in SUBSET Nodes
    /\ NoRow \in Rows /\ Idle \in ProcStates /\ IdleWork \in WorkStates
    /\ Writers \subseteq Slots /\ Readers \subseteq Slots
    /\ Healers \subseteq Procs /\ Slots \subseteq Procs
    /\ Bytes \subseteq Files /\ NoBlob \in Files
<1>1. /\ Primary \in Nodes /\ {Primary} \in SUBSET Nodes
      /\ Replicas \in SUBSET Nodes /\ {} \in SUBSET Nodes
  BY DEF Nodes
<1>2. NoRow \in Rows
  BY BoundsAssumption DEF NoRow, Rows, Files
<1>3. Idle \in ProcStates
  BY <1>1, <1>2 DEF Idle, ProcStates, PCs, Files
<1>4. IdleWork \in WorkStates
  BY <1>1, <1>2 DEF IdleWork, WorkStates, NoHint, Hints, Kinds
<1> QED
  BY <1>1, <1>2, <1>3, <1>4 DEF Procs, Slots, Files

(* More nodes that hold a mutation keep its write quorum.                  *)
LEMMA QuorumMonotone ==
    ASSUME NEW S \in SUBSET Nodes, NEW T \in SUBSET Nodes, S \subseteq T,
           WriteSatisfied(Quorums, Cardinality(S))
    PROVE  WriteSatisfied(Quorums, Cardinality(T))
<1>1. IsFiniteSet(T) /\ IsFiniteSet(S)
  BY NodesFinite, FS_Subset
<1>2. Cardinality(S) <= Cardinality(T)
  BY <1>1, FS_Subset
<1>3. Cardinality(S) \in Nat /\ Cardinality(T) \in Nat
  BY <1>1, FS_CardinalityType
<1> QED
  BY <1>2, <1>3, QuorumAssumption DEF WriteSatisfied, Quorums

(* The parts of the idle handler that the invariants speak of.             *)
LEMMA IdleParts ==
    /\ Idle.pc = "idle" /\ Idle.oks = {} /\ Idle.fails = {}
    /\ \A n \in Nodes : ~Found(Idle.seen[n])
<1>1. Idle.pc = "idle" /\ Idle.oks = {} /\ Idle.fails = {}
  BY DEF Idle
<1>2. Idle.seen = [n \in Nodes |-> NoRow] /\ ~Found(NoRow)
  BY DEF Idle, NoRow, Found
<1> QED BY <1>1, <1>2

(* The idle handler knows nothing.                                         *)
LEMMA IdleOK == \A p \in Procs : ProcOK(p, Idle) /\ ProcOK(p, Idle)'
<1> SUFFICES ASSUME NEW p \in Procs PROVE ProcOK(p, Idle) /\ ProcOK(p, Idle)'
  OBVIOUS
<1>1. ProcOK(p, Idle)
  BY DEF ProcOK, Idle, Mutating, NoRow, Found
<1>2. ProcOK(p, Idle)'
  BY DEF ProcOK, Idle, Mutating, NoRow, Found
<1> QED BY <1>1, <1>2

(* A handler that is not replicating, and a healing scan, has no request   *)
(* in the air.                                                             *)
LEMMA NoCallsFrom ==
    ASSUME CoreInv, NEW s \in Procs, proc[s].pc # "replicating"
    PROVE  \A c \in calls : c.from # s
<1> SUFFICES ASSUME NEW c \in calls, c.from = s PROVE FALSE
  OBVIOUS
<1>1. CallOK(c) /\ c \in Calls
  BY DEF CoreInv, TypeOK
<1>2. s \in Slots
  BY <1>1, ProcsAssumption DEF Calls, Procs
<1> QED
  BY <1>1, <1>2 DEF CallOK

-----------------------------------------------------------------------------
(* A step of one process that has no request in the air: it moves to the   *)
(* local state q, may commit a row on its node and may add hints or an     *)
(* acknowledgement, but touches no request and no hint delivery.           *)
SoloFrame(s, q) ==
    /\ Become(s, q)
    /\ UNCHANGED <<calls, work>>
    /\ row' \in [Nodes -> Rows]
    /\ blob' \in [Nodes -> Files]
    /\ status' \in {"partial", "replicated"}
    /\ hints' \subseteq Hints
    /\ stash' \in [Nodes -> [1..MaxVersion -> Files]]
    /\ held' \in [Nodes -> SUBSET Rows]
    /\ acked' \subseteq Rows
    /\ dropped' \subseteq Nodes \X Rows
    /\ faults' \in 0..MaxFaults
    /\ \A n \in Nodes : held[n] \subseteq held'[n]
    /\ NodesKnown'
    /\ \A h \in hints' : Known(h.mut)'
    /\ \A m \in acked' \ acked :
         /\ Known(m)'
         /\ WriteSatisfied(Quorums, Cardinality({n \in Nodes : m \in held'[n]}))

(* What a process knows stays known.                                       *)
LEMMA ProcKept ==
    ASSUME TypeOK, \A n \in Nodes : held[n] \subseteq held'[n],
           NEW p \in Procs, ProcOK(p, proc[p]), proc'[p] = proc[p]
    PROVE  ProcOK(p, proc[p])'
<1>1. \A m : Known(m) => Known(m)'
  BY ConstantTypes DEF Known, Found
<1>2. proc[p].oks \subseteq Nodes
  BY DEF TypeOK, ProcStates
<1> QED
  BY <1>1, <1>2 DEF ProcOK, Found

(* What a hint worker knows stays known.                                   *)
LEMMA WorkKept ==
    ASSUME TypeOK, \A n \in Nodes : held[n] \subseteq held'[n],
           NEW w \in Workers, WorkOK(work[w]), work'[w] = work[w]
    PROVE  WorkOK(work[w])'
BY ConstantTypes DEF TypeOK, WorkStates, Hints, WorkOK, Known

(* A step of that shape preserves CoreInv.                                 *)
LEMMA SoloStep ==
    ASSUME CoreInv, NEW s \in Procs, NEW q \in ProcStates, SoloFrame(s, q),
           ProcOK(s, q)', \A c \in calls : c.from # s
    PROVE  CoreInv'
<1>1. /\ proc' \in [Procs -> ProcStates] /\ proc'[s] = q
      /\ \A p \in Procs : p # s => proc'[p] = proc[p]
  BY DEF CoreInv, TypeOK, SoloFrame, Become
<1>2. TypeOK'
  BY <1>1 DEF CoreInv, TypeOK, SoloFrame
<1>3. \A m : Known(m) => Known(m)'
  BY ConstantTypes DEF Known, Found, SoloFrame
<1>4. \A p \in Procs : ProcOK(p, proc[p])'
  <2> SUFFICES ASSUME NEW p \in Procs PROVE ProcOK(p, proc[p])'
    OBVIOUS
  <2>1. CASE p = s
    BY <1>1, <2>1 DEF ProcOK, Known, Found
  <2>2. CASE p # s
    <3>1. ProcOK(p, proc[p]) /\ proc[p] \in ProcStates
      BY DEF CoreInv, TypeOK
    <3> QED BY <1>1, <2>2, <3>1, ProcKept DEF CoreInv, SoloFrame
  <2> QED BY <2>1, <2>2
<1>5. \A c \in calls' : CallOK(c)'
  <2> SUFFICES ASSUME NEW c \in calls PROVE CallOK(c)'
    BY DEF SoloFrame
  <2>1. CallOK(c) /\ c.from # s
    BY DEF CoreInv
  <2>2. c.from \in Slots => proc'[c.from] = proc[c.from]
    BY <1>1, <2>1, ConstantTypes
  <2> QED BY <2>1, <2>2, <1>3 DEF CallOK, SoloFrame
<1>6. OneCallEach'
  BY DEF CoreInv, OneCallEach, SoloFrame
<1>7. HintsKnown'
  BY <1>3, WorkKept DEF CoreInv, HintsKnown, SoloFrame
<1>8. AckedKnown'
  BY <1>3 DEF CoreInv, AckedKnown, SoloFrame
<1>9. QuorumDurable'
  <2> SUFFICES ASSUME NEW m \in acked'
               PROVE  WriteSatisfied(Quorums,
                        Cardinality({n \in Nodes : m \in held'[n]}))
    BY DEF QuorumDurable
  <2>1. CASE m \in acked
    <3>1. {n \in Nodes : m \in held[n]} \subseteq {n \in Nodes : m \in held'[n]}
      BY DEF SoloFrame
    <3> QED BY <2>1, <3>1, QuorumMonotone DEF CoreInv, QuorumDurable
  <2>2. CASE m \notin acked
    BY <2>2 DEF SoloFrame
  <2> QED BY <2>1, <2>2
<1> QED
  BY <1>2, <1>4, <1>5, <1>6, <1>7, <1>8, <1>9 DEF CoreInv, SoloFrame

(* The same for a step that changes nothing but the process.               *)
LEMMA QuietStep ==
    ASSUME CoreInv, NEW s \in Procs, NEW q \in ProcStates, Become(s, q),
           UNCHANGED <<nodeVars, calls, hintVars, work, ackVars>>,
           UNCHANGED faults \/ Fault,
           ProcOK(s, q), \A c \in calls : c.from # s
    PROVE  CoreInv'
<1>1. ProcOK(s, q)' /\ NodesKnown' /\ \A h \in hints' : Known(h.mut)'
  BY DEF CoreInv, ProcOK, Known, NodesKnown, HintsKnown, nodeVars, hintVars
<1>2. SoloFrame(s, q)
  BY <1>1, BoundsAssumption
  DEF SoloFrame, CoreInv, TypeOK, Fault, nodeVars, hintVars, ackVars
<1> QED BY <1>1, <1>2, SoloStep

-----------------------------------------------------------------------------
(* The steps of Coordinator.PutObject on the primary preserve CoreInv.     *)
LEMMA PutCore ==
    ASSUME CoreInv, NEW s \in Writers, PutStep(s)
    PROVE  CoreInv'
<1>0. s \in Procs /\ TypeOK
  BY ConstantTypes DEF CoreInv
<1>1. PICK q0 \in ProcStates : q0 = proc[s] /\ ProcOK(s, q0) /\ q0.mut \in Rows
  BY <1>0 DEF CoreInv, TypeOK, ProcStates
<1> USE <1>0
<1>2. ASSUME NEW b \in Bytes, PutStart(s, b) PROVE CoreInv'
  <2> DEFINE m == [ver |-> NextObjectVersion(Primary), val |-> b]
             q == [q0 EXCEPT !.pc = "assigned", !.mut = m]
  <2>1. m \in Rows /\ Found(m)
    BY <1>1, <1>2, ConstantTypes, BoundsAssumption
    DEF PutStart, NextObjectVersion, Rows, Files, TypeOK, Found
  <2>2. q \in ProcStates
    BY <1>1, <2>1 DEF ProcStates, PCs
  <2>3. ProcOK(s, q)
    BY <1>1, <1>2, <2>1 DEF PutStart, ProcOK, Mutating, ProcStates
  <2> QED BY <1>1, <1>2, <2>2, <2>3, NoCallsFrom, QuietStep DEF PutStart
<1>3. CASE PutReject(s)
  BY <1>1, <1>3, ConstantTypes, IdleOK, NoCallsFrom, QuietStep DEF PutReject
<1>4. CASE PutBlob(s)
  <2> DEFINE q == [q0 EXCEPT !.pc = "written"]
  <2>1. q \in ProcStates
    BY <1>1 DEF ProcStates, PCs
  <2>2. ProcOK(s, q)' /\ NodesKnown' /\ \A h \in hints' : Known(h.mut)'
    BY <1>1, <1>4 DEF PutBlob, ProcOK, Mutating, ProcStates, Known, NodesKnown,
                      CoreInv, HintsKnown, hintVars
  <2>3. SoloFrame(s, q)
    BY <1>1, <1>4, <2>2, ConstantTypes DEF PutBlob, SoloFrame, TypeOK, hintVars, ackVars
  <2> QED BY <1>1, <1>4, <2>1, <2>2, <2>3, NoCallsFrom, SoloStep DEF PutBlob
<1>5. CASE PutCommit(s)
  <2> DEFINE q == [q0 EXCEPT !.pc = "committed", !.oks = {Primary}]
  <2>1. q \in ProcStates
    BY <1>1, ConstantTypes DEF ProcStates, PCs
  <2>2. /\ held' \in [Nodes -> SUBSET Rows] /\ row' \in [Nodes -> Rows]
        /\ \A n \in Nodes : held[n] \subseteq held'[n]
        /\ held'[Primary] = held[Primary] \cup {q0.mut}
        /\ row'[Primary] = q0.mut
        /\ \A n \in Replicas : held'[n] = held[n] /\ row'[n] = row[n]
    BY <1>1, <1>5, ConstantTypes, ReplicasAssumption DEF PutCommit, TypeOK, Nodes
  <2>3. Found(q0.mut)
    BY <1>1, <1>5 DEF PutCommit, ProcOK
  <2>4. \A m : Known(m) => Known(m)'
    BY <2>2 DEF Known
  <2>5. NodesKnown' /\ Known(q0.mut)' /\ \A h \in hints' : Known(h.mut)'
    BY <1>5, <2>2, <2>3, <2>4
    DEF CoreInv, NodesKnown, Known, PutCommit, HintsKnown, hintVars, Nodes
  <2>6. ProcOK(s, q)'
    BY <1>1, <1>5, <2>1, <2>2, <2>4, <2>5 DEF PutCommit, ProcOK, Mutating, ProcStates
  <2>7. SoloFrame(s, q)
    BY <1>1, <1>5, <2>2, <2>5 DEF PutCommit, SoloFrame, TypeOK, hintVars, ackVars
  <2> QED BY <1>1, <1>5, <2>1, <2>6, <2>7, NoCallsFrom, SoloStep DEF PutCommit
<1>6. CASE PutCommitFail(s)
  <2>1. NodesKnown' /\ \A h \in hints' : Known(h.mut)'
    BY <1>6 DEF PutCommitFail, Known, NodesKnown, CoreInv, HintsKnown, hintVars
  <2>2. SoloFrame(s, Idle)
    BY <1>6, <2>1, ConstantTypes, BoundsAssumption
    DEF PutCommitFail, Fault, SoloFrame, TypeOK, hintVars, ackVars
  <2> QED BY <2>2, IdleOK, <1>1, <1>6, <2>1, ConstantTypes, NoCallsFrom, SoloStep DEF PutCommitFail
<1>7. CASE PutOpen(s)
  <2> DEFINE q == [q0 EXCEPT !.pc = "replicating", !.todo = Replicas]
  <2>1. q \in ProcStates
    BY <1>1, ConstantTypes DEF ProcStates, PCs
  <2>2. ProcOK(s, q)
    BY <1>1, <1>7, ReplicasAssumption DEF PutOpen, ProcOK, Mutating, ProcStates
  <2> QED BY <1>1, <1>7, <2>1, <2>2, ConstantTypes, IdleOK, NoCallsFrom, QuietStep DEF PutOpen
<1> QED
  BY <1>2, <1>3, <1>4, <1>5, <1>6, <1>7 DEF PutStep

(* The steps of Coordinator.DeleteObject on the primary preserve it.       *)
LEMMA DeleteCore ==
    ASSUME CoreInv, NEW s \in Writers, DeleteStep(s)
    PROVE  CoreInv'
<1>0. s \in Procs /\ TypeOK
  BY ConstantTypes DEF CoreInv
<1>1. PICK q0 \in ProcStates : q0 = proc[s] /\ ProcOK(s, q0) /\ q0.mut \in Rows
  BY <1>0 DEF CoreInv, TypeOK, ProcStates
<1> USE <1>0
<1>2. CASE DeleteStart(s)
  <2> DEFINE m == [ver |-> NextObjectVersion(Primary), val |-> Tombstone]
             q == [q0 EXCEPT !.pc = "assigned", !.mut = m]
  <2>1. m \in Rows /\ Found(m)
    BY <1>2, ConstantTypes, BoundsAssumption
    DEF DeleteStart, NextObjectVersion, Rows, TypeOK, Found
  <2>2. q \in ProcStates
    BY <1>1, <2>1 DEF ProcStates, PCs
  <2>3. ProcOK(s, q)
    BY <1>1, <1>2, <2>1 DEF DeleteStart, ProcOK, Mutating, ProcStates
  <2> QED BY <1>1, <1>2, <2>2, <2>3, NoCallsFrom, QuietStep DEF DeleteStart
<1>r. CASE TombstoneRead(s)
  <2>1. PICK pc \in {"deleting", "written"} : Become(s, [q0 EXCEPT !.pc = pc])
    BY <1>1, <1>r DEF TombstoneRead
  <2> DEFINE q == [q0 EXCEPT !.pc = pc]
  <2>2. q \in ProcStates
    BY <1>1 DEF ProcStates, PCs
  <2>3. ProcOK(s, q)
    BY <1>1, <1>r DEF TombstoneRead, ProcOK, Mutating, ProcStates
  <2> QED BY <1>1, <1>r, <2>1, <2>2, <2>3, NoCallsFrom, QuietStep DEF TombstoneRead
<1>3. CASE TombstoneBlob(s)
  <2> DEFINE q == [q0 EXCEPT !.pc = "written"]
  <2>1. q \in ProcStates
    BY <1>1 DEF ProcStates, PCs
  <2>2. ProcOK(s, q)' /\ NodesKnown' /\ \A h \in hints' : Known(h.mut)'
    BY <1>1, <1>3 DEF TombstoneBlob, ProcOK, Mutating, ProcStates, Known,
                      NodesKnown, CoreInv, HintsKnown, hintVars
  <2>3. SoloFrame(s, q)
    BY <1>1, <1>3, <2>2, ConstantTypes
    DEF TombstoneBlob, SoloFrame, TypeOK, hintVars, ackVars
  <2> QED BY <1>1, <1>3, <2>1, <2>2, <2>3, NoCallsFrom, SoloStep DEF TombstoneBlob
<1>4. CASE TombstoneCommit(s)
  <2> DEFINE q == [q0 EXCEPT !.pc = "replicating", !.oks = {Primary},
                             !.todo = Replicas]
  <2>1. q \in ProcStates
    BY <1>1, ConstantTypes DEF ProcStates, PCs
  <2>2. /\ held' \in [Nodes -> SUBSET Rows] /\ row' \in [Nodes -> Rows]
        /\ \A n \in Nodes : held[n] \subseteq held'[n]
        /\ held'[Primary] = held[Primary] \cup {q0.mut}
        /\ row'[Primary] = q0.mut
        /\ \A n \in Replicas : held'[n] = held[n] /\ row'[n] = row[n]
    BY <1>1, <1>4, ConstantTypes, ReplicasAssumption DEF TombstoneCommit, TypeOK, Nodes
  <2>3. Found(q0.mut)
    BY <1>1, <1>4 DEF TombstoneCommit, ProcOK
  <2>4. \A m : Known(m) => Known(m)'
    BY <2>2 DEF Known
  <2>5. NodesKnown' /\ Known(q0.mut)' /\ \A h \in hints' : Known(h.mut)'
    BY <1>4, <2>2, <2>3, <2>4
    DEF CoreInv, NodesKnown, Known, TombstoneCommit, HintsKnown, hintVars, Nodes
  <2>6. ProcOK(s, q)'
    BY <1>1, <1>4, <2>1, <2>2, <2>4, <2>5, ReplicasAssumption
    DEF TombstoneCommit, ProcOK, Mutating, ProcStates
  <2>7. SoloFrame(s, q)
    BY <1>1, <1>4, <2>2, <2>5 DEF TombstoneCommit, SoloFrame, TypeOK, hintVars, ackVars
  <2> QED BY <1>1, <1>4, <2>1, <2>6, <2>7, NoCallsFrom, SoloStep DEF TombstoneCommit
<1>5. CASE TombstoneCommitFail(s)
  BY <1>5, ConstantTypes, IdleOK, NoCallsFrom, QuietStep DEF TombstoneCommitFail
<1> QED
  BY <1>2, <1>r, <1>3, <1>4, <1>5 DEF DeleteStep

(* A hint is stored for the mutation it is asked for, and for no other.    *)
LEMMA EnqueueCore ==
    ASSUME TypeOK, NEW kind \in Kinds, NEW to \in Nodes, NEW m \in Rows,
           NEW src \in Nodes, Found(m), EnqueueHint(kind, to, m, src)
    PROVE  /\ hints' \subseteq Hints
           /\ stash' \in [Nodes -> [1..MaxVersion -> Files]]
           /\ \A h \in hints' : h \in hints \/ h.mut = m
           /\ faults' \in 0..MaxFaults
<1>0. PICK copied \in BOOLEAN : EnqueueHint(kind, to, m, src)!(copied)
  BY DEF EnqueueHint
<1> DEFINE new == [to |-> to, mut |-> m, kind |-> kind, src |-> src,
                   staged |-> CanStage(kind, src) /\ copied]
           old == {h \in hints : SameHint(h, new)}
<1>1. new \in Hints /\ new.mut = m
  BY DEF Hints, CanStage, Stages
<1>2. \A h \in old : [new EXCEPT !.src = h.src] \in Hints
                       /\ [new EXCEPT !.src = h.src].mut = m
  BY <1>1 DEF Hints, TypeOK
<1>3. hints' = (hints \ old) \cup
        IF old = {} THEN {new} ELSE {[new EXCEPT !.src = h.src] : h \in old}
  BY <1>0
<1>4. hints' \subseteq Hints /\ \A h \in hints' : h \in hints \/ h.mut = m
  <2> HIDE DEF new, old
  <2> QED BY <1>1, <1>2, <1>3 DEF TypeOK
<1>5. stash' \in [Nodes -> [1..MaxVersion -> Files]]
  <2>1. m.ver \in 1..MaxVersion /\ blob[Primary] \in Files
    BY ConstantTypes, BoundsAssumption DEF Found, Rows, TypeOK
  <2> QED BY <1>0, <2>1, ConstantTypes DEF TypeOK, StashWith
<1>6. faults' \in 0..MaxFaults
  BY <1>0, BoundsAssumption DEF Fault, TypeOK
<1> QED BY <1>4, <1>5, <1>6

(* A hint that cannot be stored may leave a staged payload, nothing else.  *)
LEMMA EnqueueFailsCore ==
    ASSUME TypeOK, NEW kind \in Kinds, NEW to \in Nodes, NEW m \in Rows,
           NEW src \in Nodes, Found(m), EnqueueFails(kind, to, m, src)
    PROVE  /\ hints' = hints
           /\ stash' \in [Nodes -> [1..MaxVersion -> Files]]
           /\ faults' \in 0..MaxFaults
<1>1. PICK bytes \in {blob[Primary], NoBlob, stash[to][m.ver]} :
        stash' = StashWith(kind, to, m, src, bytes)
  BY DEF EnqueueFails
<1>2. m.ver \in 1..MaxVersion
  BY BoundsAssumption DEF Found, Rows
<1>3. bytes \in Files
  <2>1. blob[Primary] \in Files
    BY ConstantTypes DEF TypeOK
  <2>2. stash[to] \in [1..MaxVersion -> Files]
    BY DEF TypeOK
  <2>3. NoBlob \in Files
    BY DEF Files
  <2> QED BY <1>2, <2>1, <2>2, <2>3
<1>4. stash' \in [Nodes -> [1..MaxVersion -> Files]]
  BY <1>1, <1>2, <1>3 DEF TypeOK, StashWith
<1> QED BY <1>4, BoundsAssumption DEF EnqueueFails, Fault, TypeOK

(* A step that fails to store a hint for a known mutation, and strikes its *)
(* target off the process's list.                                          *)
LEMMA DropStep ==
    ASSUME CoreInv, NEW s \in Procs, NEW r \in Nodes, NEW kind \in Kinds,
           NEW src \in Nodes, proc[s].pc \in {"hinting", "repair"},
           EnqueueFails(kind, r, proc[s].mut, src),
           Become(s, [proc[s] EXCEPT !.todo = @ \ {r}]),
           dropped' \in {dropped, dropped \cup {<<r, proc[s].mut>>}},
           UNCHANGED <<nodeVars, calls, work, acked>>
    PROVE  CoreInv'
<1>1. PICK q0 \in ProcStates : q0 = proc[s] /\ ProcOK(s, q0) /\ q0.mut \in Rows
  BY DEF CoreInv, TypeOK, ProcStates
<1> DEFINE q == [q0 EXCEPT !.todo = @ \ {r}]
<1>2. q \in ProcStates
  BY <1>1 DEF ProcStates
<1>3. Found(q0.mut)
  BY <1>1 DEF ProcOK, Mutating, Known
<1>4. /\ hints' = hints
      /\ stash' \in [Nodes -> [1..MaxVersion -> Files]]
      /\ faults' \in 0..MaxFaults
  BY <1>1, <1>3, EnqueueFailsCore DEF CoreInv
<1>5. ProcOK(s, q)'
  BY <1>1 DEF ProcOK, Mutating, ProcStates, Known, nodeVars
<1>6. NodesKnown' /\ \A h \in hints' : Known(h.mut)'
  BY <1>4 DEF Known, NodesKnown, CoreInv, HintsKnown, nodeVars
<1>7. dropped' \subseteq Nodes \X Rows
  BY <1>1 DEF CoreInv, TypeOK
<1>8. SoloFrame(s, q)
  BY <1>1, <1>4, <1>6, <1>7 DEF SoloFrame, CoreInv, TypeOK, nodeVars
<1> QED BY <1>1, <1>2, <1>5, <1>8, NoCallsFrom, SoloStep

(* A step that stores a hint for a known mutation, and strikes its target  *)
(* off the process's list.                                                 *)
LEMMA HintStep ==
    ASSUME CoreInv, NEW s \in Procs, NEW r \in Nodes, NEW kind \in Kinds,
           NEW src \in Nodes, proc[s].pc \in {"hinting", "repair"},
           EnqueueHint(kind, r, proc[s].mut, src),
           Become(s, [proc[s] EXCEPT !.todo = @ \ {r}]),
           UNCHANGED <<nodeVars, calls, work, ackVars>>
    PROVE  CoreInv'
<1>1. PICK q0 \in ProcStates : q0 = proc[s] /\ ProcOK(s, q0) /\ q0.mut \in Rows
  BY DEF CoreInv, TypeOK, ProcStates
<1> DEFINE q == [q0 EXCEPT !.todo = @ \ {r}]
<1>2. q \in ProcStates
  BY <1>1 DEF ProcStates
<1>3. Known(q0.mut) /\ Found(q0.mut)
  BY <1>1 DEF ProcOK, Mutating, Known
<1>4. /\ hints' \subseteq Hints
      /\ stash' \in [Nodes -> [1..MaxVersion -> Files]]
      /\ \A h \in hints' : h \in hints \/ h.mut = q0.mut
      /\ faults' \in 0..MaxFaults
  BY <1>1, <1>3, EnqueueCore DEF CoreInv
<1>5. ProcOK(s, q)'
  BY <1>1 DEF ProcOK, Mutating, ProcStates, Known, nodeVars
<1>6. NodesKnown' /\ \A h \in hints' : Known(h.mut)'
  BY <1>3, <1>4 DEF Known, NodesKnown, CoreInv, HintsKnown, nodeVars
<1>7. SoloFrame(s, q)
  BY <1>1, <1>4, <1>6 DEF SoloFrame, CoreInv, TypeOK, nodeVars, ackVars
<1> QED BY <1>1, <1>2, <1>5, <1>7, NoCallsFrom, SoloStep

(* Quorum check, hints and acknowledgement preserve CoreInv.               *)
LEMMA ReplicateCore ==
    ASSUME CoreInv, NEW s \in Writers, ReplicateStep(s),
           ~ \E r \in Replicas : Send(s, r)
    PROVE  CoreInv'
<1>0. s \in Procs /\ TypeOK /\ s \in Slots
  BY ConstantTypes DEF CoreInv
<1>1. PICK q0 \in ProcStates : q0 = proc[s] /\ ProcOK(s, q0) /\ q0.mut \in Rows
  BY <1>0 DEF CoreInv, TypeOK, ProcStates
<1> USE <1>0
<1>2. CASE QuorumCheck(s)
  <2> DEFINE q == [q0 EXCEPT !.pc = "hinting", !.todo = q0.fails]
  <2>1. q \in ProcStates
    BY <1>1 DEF ProcStates, PCs
  <2>2. WriteSatisfied(Quorums, Cardinality(q0.oks)) => ProcOK(s, q)
    BY <1>1, <1>2 DEF QuorumCheck, ProcOK, Mutating, ProcStates
  <2>3. ASSUME NEW c \in calls PROVE c.from # s
    BY <1>1, <1>2 DEF QuorumCheck, CoreInv, CallOK, TypeOK, Calls
  <2> QED
    BY <1>1, <1>2, <2>1, <2>2, <2>3, ConstantTypes, IdleOK, QuietStep DEF QuorumCheck
<1>3. CASE Ack(s)
  <2>1. q0.oks \subseteq {n \in Nodes : q0.mut \in held[n]}
    BY <1>1, <1>3 DEF Ack, ProcOK, Mutating, ProcStates
  <2>2. WriteSatisfied(Quorums, Cardinality({n \in Nodes : q0.mut \in held[n]}))
    BY <1>1, <1>3, <2>1, QuorumMonotone DEF Ack, ProcOK, ProcStates
  <2>3. Known(q0.mut)' /\ NodesKnown' /\ \A h \in hints' : Known(h.mut)'
    BY <1>1, <1>3 DEF Ack, Known, ProcOK, Mutating, NodesKnown, CoreInv,
                      HintsKnown, hintVars
  <2>4. status' \in {"partial", "replicated"} /\ faults' \in 0..MaxFaults
    <3>1. status' \in {status, "replicated"} /\ (faults' = faults \/ Fault)
      BY <1>3 DEF Ack
    <3>2. status \in {"partial", "replicated"} /\ faults \in 0..MaxFaults
      BY DEF TypeOK
    <3> QED BY <3>1, <3>2, BoundsAssumption DEF Fault
  <2>5. /\ acked' = acked \cup {q0.mut} /\ Become(s, Idle)
        /\ UNCHANGED <<row, blob, held, calls, hints, stash, work, dropped>>
    BY <1>1, <1>3 DEF Ack, hintVars
  <2>6. SoloFrame(s, Idle)
    BY <1>1, <2>2, <2>3, <2>4, <2>5 DEF SoloFrame, TypeOK
  <2> QED BY <1>3, <2>6, ConstantTypes, IdleOK, NoCallsFrom, SoloStep DEF Ack
<1>4. ASSUME NEW r \in Replicas, HintFailed(s, r) PROVE CoreInv'
  BY <1>4, HintStep, ConstantTypes DEF HintFailed, HintKind, Kinds
<1>5. ASSUME NEW r \in Replicas, HintDropped(s, r) PROVE CoreInv'
  BY <1>5, DropStep, ConstantTypes DEF HintDropped, HintKind, Kinds
<1> QED
  BY <1>2, <1>3, <1>4, <1>5 DEF ReplicateStep

(* The local state a read or a scan works with is a row that is known, or  *)
(* none.                                                                   *)
LEMMA LocalState ==
    ASSUME CoreInv, NEW m \in {row[Primary], NoRow}, LocalReplicaState(m)
    PROVE  m \in Rows /\ (Found(m) => Known(m)) /\ (UNCHANGED faults \/ Fault)
BY ConstantTypes DEF CoreInv, NodesKnown, TypeOK, NoRow, Found, LocalReplicaState

(* The steps of GetObject and HeadObject preserve CoreInv.                 *)
LEMMA ReadCore ==
    ASSUME CoreInv, NEW s \in Readers, ReadStep(s)
    PROVE  CoreInv'
<1>0. s \in Procs /\ TypeOK /\ s \in Slots /\ s \notin Healers
  BY ConstantTypes, ProcsAssumption DEF CoreInv
<1>1. PICK q0 \in ProcStates : q0 = proc[s] /\ ProcOK(s, q0) /\ q0.seen \in [Nodes -> Rows]
  BY <1>0 DEF CoreInv, TypeOK, ProcStates
<1> USE <1>0
<1>2. CASE ReadStart(s)
  <2>1. PICK m \in Rows, floor \in SUBSET Rows :
          /\ Found(m) => Known(m)
          /\ UNCHANGED faults \/ Fault
          /\ Become(s, [q0 EXCEPT !.pc = "heads", !.todo = Replicas,
                                  !.seen[Primary] = m, !.floor = floor])
    BY <1>1, <1>2, LocalState DEF ReadStart, CoreInv, TypeOK
  <2> DEFINE q == [q0 EXCEPT !.pc = "heads", !.todo = Replicas,
                             !.seen[Primary] = m, !.floor = floor]
  <2>2. q \in ProcStates
    BY <1>1, ConstantTypes DEF ProcStates, PCs
  <2>3. ProcOK(s, q)
    BY <1>1, <1>2, <2>1 DEF ReadStart, ProcOK, Mutating, ProcStates
  <2> QED BY <1>1, <1>2, <2>1, <2>2, <2>3, NoCallsFrom, QuietStep DEF ReadStart
<1>3. CASE ReadDecide(s)
  <2>1. CASE ~ReadSatisfied(Quorums, Cardinality(FoundNodes(q0.seen)))
    BY <1>1, <1>3, <2>1, ConstantTypes, IdleOK, NoCallsFrom, QuietStep DEF ReadDecide
  <2>2. ASSUME NEW n \in PickNewestState(q0.seen),
               ReadSatisfied(Quorums, Cardinality(FoundNodes(q0.seen))),
               Become(s, [q0 EXCEPT
                    !.mut = q0.seen[n], !.win = n,
                    !.pc = IF q0.seen[n].val = Tombstone THEN "answered"
                           ELSE "repair",
                    !.todo = IF q0.seen[n].val = Tombstone THEN {}
                             ELSE StaleReplicas(q0.seen[n], n, q0.seen)])
        PROVE CoreInv'
    <3> DEFINE pc == IF q0.seen[n].val = Tombstone THEN "answered" ELSE "repair"
               todo == IF q0.seen[n].val = Tombstone THEN {}
                       ELSE StaleReplicas(q0.seen[n], n, q0.seen)
               q == [q0 EXCEPT !.mut = q0.seen[n], !.win = n, !.pc = pc,
                               !.todo = todo]
    <3>1. n \in Nodes /\ Found(q0.seen[n])
      BY <2>2 DEF PickNewestState, FoundNodes, Nodes
    <3>2. todo \in SUBSET Nodes /\ pc \in {"answered", "repair"}
      BY DEF StaleReplicas, FoundNodes
    <3> HIDE DEF pc, todo
    <3>3. q \in ProcStates
      BY <1>1, <3>1, <3>2 DEF ProcStates, PCs
    <3>4. ProcOK(s, q)
      BY <1>1, <3>1, <3>2 DEF ProcOK, Mutating, ProcStates
    <3>5. Become(s, q)
      BY <2>2 DEF pc, todo
    <3> QED BY <1>1, <1>3, <3>3, <3>4, <3>5, NoCallsFrom, QuietStep DEF ReadDecide
  <2> QED BY <1>1, <1>3, <2>1, <2>2 DEF ReadDecide
<1>4. CASE HeadAnswer(s)
  <2> DEFINE q == [q0 EXCEPT !.pc = "answered"]
  <2>1. q \in ProcStates
    BY <1>1 DEF ProcStates, PCs
  <2>2. ProcOK(s, q)
    BY <1>1, <1>4 DEF HeadAnswer, ProcOK, Mutating, ProcStates
  <2> QED BY <1>1, <1>4, <2>1, <2>2, NoCallsFrom, QuietStep DEF HeadAnswer
<1>5. CASE GetAnswer(s)
  <2> DEFINE q == [q0 EXCEPT !.pc = "answered", !.body = blob[q0.win]]
  <2>1. q \in ProcStates
    BY <1>1 DEF ProcStates, PCs, TypeOK
  <2>2. ProcOK(s, q)
    BY <1>1, <1>5 DEF GetAnswer, ProcOK, Mutating, ProcStates
  <2> QED
    BY <1>1, <1>5, <2>1, <2>2, ConstantTypes, IdleOK, NoCallsFrom, QuietStep DEF GetAnswer
<1>6. CASE ReadReturn(s)
  BY <1>6, ConstantTypes, IdleOK, NoCallsFrom, QuietStep DEF ReadReturn
<1>7. CASE StreamFromNode(s)
  <2> DEFINE q == [q0 EXCEPT !.pc = "opening"]
  <2>1. q \in ProcStates
    BY <1>1 DEF ProcStates, PCs
  <2>2. ProcOK(s, q)
    BY <1>1, <1>7 DEF StreamFromNode, ProcOK, Mutating, ProcStates
  <2> QED
    BY <1>1, <1>7, <2>1, <2>2, ConstantTypes, IdleOK, NoCallsFrom, QuietStep
    DEF StreamFromNode
<1> QED
  BY <1>2, <1>3, <1>4, <1>5, <1>6, <1>7 DEF ReadStep

(* The steps of a healing scan preserve CoreInv.                           *)
LEMMA HealCore ==
    ASSUME CoreInv, NEW h \in Healers, HealStep(h)
    PROVE  CoreInv'
<1>0. h \in Procs /\ TypeOK
  BY ConstantTypes DEF CoreInv
<1>1. PICK q0 \in ProcStates : q0 = proc[h] /\ ProcOK(h, q0)
  BY <1>0 DEF CoreInv, TypeOK
<1>r. row[Primary] \in Rows /\ (Found(row[Primary]) => Known(row[Primary]))
  BY ConstantTypes DEF CoreInv, NodesKnown, TypeOK
<1> USE <1>0
<1>2. CASE HealList(h)
  <2> DEFINE q == [q0 EXCEPT !.pc = "listed"]
  <2>1. q \in ProcStates
    BY <1>1 DEF ProcStates, PCs
  <2>2. ProcOK(h, q)
    BY <1>1, <1>2 DEF HealList, ProcOK, Mutating, ProcStates
  <2> QED BY <1>1, <1>2, <2>1, <2>2, NoCallsFrom, QuietStep DEF HealList
<1>3. CASE HealObject(h)
  <2> DEFINE q == [q0 EXCEPT !.pc = "healing"]
  <2>1. q \in ProcStates
    BY <1>1 DEF ProcStates, PCs
  <2>2. ProcOK(h, q)
    BY <1>1, <1>3 DEF HealObject, ProcOK, Mutating, ProcStates
  <2>3. (Become(h, q) \/ Become(h, Idle)) /\ (UNCHANGED faults \/ Fault)
    BY <1>1, <1>3, LocalState DEF HealObject
  <2> QED
    BY <1>1, <1>3, <2>1, <2>2, <2>3, ConstantTypes, IdleOK, NoCallsFrom, QuietStep
    DEF HealObject
<1>4. CASE HealWinning(h)
  <2>1. PICK m \in Rows :
          /\ Found(m) => Known(m)
          /\ UNCHANGED faults \/ Fault
          /\ \/ Found(m) /\ Become(h, [q0 EXCEPT !.pc = "winning", !.mut = m])
             \/ Become(h, Idle)
    BY <1>1, <1>4, LocalState DEF HealWinning
  <2> DEFINE q == [q0 EXCEPT !.pc = "winning", !.mut = m]
  <2>2. q \in ProcStates
    BY <1>1 DEF ProcStates, PCs
  <2>3. Found(m) => ProcOK(h, q)
    BY <1>1, <2>1, <1>4 DEF HealWinning, ProcOK, Mutating, ProcStates
  <2> QED
    BY <1>1, <1>4, <2>1, <2>2, <2>3, ConstantTypes, IdleOK, NoCallsFrom, QuietStep
    DEF HealWinning
<1>5. CASE HealCollect(h)
  <2>1. PICK m \in Rows :
          /\ Found(m) => Known(m)
          /\ UNCHANGED faults \/ Fault
          /\ Become(h, [q0 EXCEPT !.pc = "heads", !.todo = Replicas,
                                  !.seen[Primary] = m])
    BY <1>1, <1>5, LocalState DEF HealCollect
  <2> DEFINE q == [q0 EXCEPT !.pc = "heads", !.todo = Replicas,
                             !.seen[Primary] = m]
  <2>2. q \in ProcStates
    BY <1>1, ConstantTypes DEF ProcStates, PCs
  <2>3. ProcOK(h, q)
    BY <1>1, <2>1, <1>5 DEF HealCollect, ProcOK, Mutating, ProcStates
  <2> QED
    BY <1>1, <1>5, <2>1, <2>2, <2>3, NoCallsFrom, QuietStep DEF HealCollect
<1>6. CASE HealDecide(h)
  <2> DEFINE todo == StaleReplicas(q0.mut, Primary, q0.seen)
             q == [q0 EXCEPT !.pc = "repair", !.todo = todo]
  <2>1. todo \in SUBSET Nodes
    BY DEF StaleReplicas, FoundNodes
  <2>2. Become(h, q)
    BY <1>1, <1>6 DEF HealDecide
  <2> HIDE DEF todo
  <2>3. q \in ProcStates
    BY <1>1, <2>1 DEF ProcStates, PCs
  <2>4. ProcOK(h, q)
    BY <1>1, <1>6 DEF HealDecide, ProcOK, Mutating, ProcStates
  <2> QED BY <1>1, <1>6, <2>2, <2>3, <2>4, NoCallsFrom, QuietStep DEF HealDecide
<1>7. CASE HealReturn(h)
  <2>1. NodesKnown' /\ \A g \in hints' : Known(g.mut)'
    BY <1>7 DEF HealReturn, Known, NodesKnown, CoreInv, HintsKnown, hintVars
  <2>2. SoloFrame(h, Idle)
    BY <1>7, <2>1 DEF HealReturn, SoloFrame, TypeOK, hintVars, ackVars
  <2> QED BY <1>7, <2>2, ConstantTypes, IdleOK, NoCallsFrom, SoloStep DEF HealReturn
<1> QED
  BY <1>2, <1>3, <1>4, <1>5, <1>6, <1>7 DEF HealStep

(* Collecting replica states and scheduling repairs preserve CoreInv.      *)
LEMMA CollectCore ==
    ASSUME CoreInv, NEW p \in Procs, CollectStep(p)
    PROVE  CoreInv'
<1>1. PICK q0 \in ProcStates : q0 = proc[p] /\ ProcOK(p, q0)
  BY DEF CoreInv, TypeOK
<1>2. ASSUME NEW r \in Replicas, HeadOnNode(p, r) PROVE CoreInv'
  <2>1. PICK m \in {row[r], NoRow} :
          Become(p, [q0 EXCEPT !.todo = @ \ {r}, !.seen[r] = m])
    BY <1>1, <1>2 DEF HeadOnNode
  <2> DEFINE q == [q0 EXCEPT !.todo = @ \ {r}, !.seen[r] = m]
  <2>2. r \in Nodes /\ m \in Rows /\ (Found(m) => Known(m))
    BY ConstantTypes DEF CoreInv, NodesKnown, TypeOK, NoRow, Found
  <2>3. q \in ProcStates
    BY <1>1, <2>2 DEF ProcStates
  <2>4. ProcOK(p, q)
    BY <1>1, <1>2, <2>2 DEF HeadOnNode, ProcOK, Mutating, ProcStates
  <2> QED BY <1>1, <1>2, <2>1, <2>3, <2>4, NoCallsFrom, QuietStep DEF HeadOnNode
<1>3. ASSUME NEW r \in Nodes, Repair(p, r) PROVE CoreInv'
  <2>1. proc[p].win \in Nodes
    BY <1>1 DEF ProcStates
  <2> QED BY <1>3, <2>1, HintStep DEF Repair, RepairKind, Kinds
<1>4. ASSUME NEW r \in Nodes, RepairDropped(p, r) PROVE CoreInv'
  <2>1. proc[p].win \in Nodes
    BY <1>1 DEF ProcStates
  <2> QED BY <1>4, <2>1, DropStep DEF RepairDropped, RepairKind, Kinds, ackVars
<1> QED
  BY <1>2, <1>3, <1>4 DEF CollectStep

-----------------------------------------------------------------------------
(* Steps of the requests between nodes.  NodeFrame is what a handler may   *)
(* do to its node.                                                         *)
NodeFrame ==
    /\ row' \in [Nodes -> Rows]
    /\ blob' \in [Nodes -> Files]
    /\ status' \in {"partial", "replicated"}
    /\ held' \in [Nodes -> SUBSET Rows]
    /\ faults' \in 0..MaxFaults
    /\ \A n \in Nodes : held[n] \subseteq held'[n]
    /\ NodesKnown'
    /\ UNCHANGED <<hintVars, ackVars>>

(* The part of CoreInv that does not look at processes and requests.       *)
LEMMA StoresKept ==
    ASSUME CoreInv, NodeFrame,
           \A w \in Workers : WorkOK(work[w])'
    PROVE  HintsKnown' /\ AckedKnown' /\ QuorumDurable'
<1>1. \A m : Known(m) => Known(m)'
  BY ConstantTypes DEF Known, Found, NodeFrame
<1>2. HintsKnown' /\ AckedKnown'
  BY <1>1 DEF CoreInv, HintsKnown, AckedKnown, NodeFrame, hintVars, ackVars
<1>3. ASSUME NEW m \in acked
      PROVE  WriteSatisfied(Quorums, Cardinality({n \in Nodes : m \in held'[n]}))
  <2>1. {n \in Nodes : m \in held[n]} \subseteq {n \in Nodes : m \in held'[n]}
    BY DEF NodeFrame
  <2> QED BY <2>1, QuorumMonotone DEF CoreInv, QuorumDurable
<1>4. QuorumDurable'
  BY <1>3 DEF QuorumDurable, NodeFrame, ackVars
<1> QED BY <1>2, <1>4

(* A request moves on at its node.                                         *)
LEMMA AdvanceStep ==
    ASSUME CoreInv, NEW c \in calls, NEW d \in Calls, NodeFrame,
           d.from = c.from, d.to = c.to, d.mut = c.mut,
           calls' = (calls \ {c}) \cup {d}, UNCHANGED <<proc, work>>
    PROVE  CoreInv'
<1>1. \A m : Known(m) => Known(m)'
  BY ConstantTypes DEF Known, Found, NodeFrame
<1>2. TypeOK'
  BY DEF CoreInv, TypeOK, NodeFrame, hintVars, ackVars
<1>3. \A p \in Procs : ProcOK(p, proc[p])'
  BY ProcKept DEF CoreInv, NodeFrame
<1>4. \A e \in calls' : CallOK(e)'
  BY <1>1 DEF CoreInv, CallOK
<1>5. OneCallEach'
  BY DEF CoreInv, OneCallEach
<1>6. \A w \in Workers : WorkOK(work[w])'
  BY WorkKept DEF CoreInv, HintsKnown, NodeFrame
<1> QED BY <1>2, <1>3, <1>4, <1>5, <1>6, StoresKept DEF CoreInv, NodeFrame

(* A request ends, or its connection does: the caller learns the result,   *)
(* and success only of a mutation that the node has committed.             *)
LEMMA RespondStep ==
    ASSUME CoreInv, NEW c \in calls, NEW ok \in BOOLEAN, NodeFrame,
           Respond(c, ok), ok => c.mut \in held'[c.to],
           calls' \subseteq (calls \ {c}) \cup {[c EXCEPT !.from = Nobody]}
    PROVE  CoreInv'
<1>1. \A m : Known(m) => Known(m)'
  BY ConstantTypes DEF Known, Found, NodeFrame
<1>2. c \in Calls /\ CallOK(c) /\ c.to \in Nodes
  BY DEF CoreInv, TypeOK, Calls
<1>3. /\ [c EXCEPT !.from = Nobody] \in Calls
      /\ [c EXCEPT !.from = Nobody].from = Nobody
      /\ [c EXCEPT !.from = Nobody].mut = c.mut
  BY <1>2 DEF Calls
<1>4. calls' \subseteq Calls
  BY <1>3 DEF CoreInv, TypeOK
<1>5. /\ work' \in [Workers -> WorkStates]
      /\ \A w \in Workers : WorkOK(work[w])'
      /\ \A w \in Workers : w # c.from => work'[w] = work[w]
  <2>1. CASE c.from \notin Workers
    <3>1. work' = work
      BY <2>1 DEF Respond
    <3> QED BY <3>1, WorkKept DEF CoreInv, TypeOK, HintsKnown, NodeFrame
  <2>2. CASE c.from \in Workers
    <3>1. PICK v \in Workers : v = c.from
      BY <2>2
    <3>2. PICK x0 \in WorkStates : x0 = work[v] /\ WorkOK(x0)
      BY DEF CoreInv, TypeOK, HintsKnown
    <3>3. x0.task.to = c.to /\ x0.task.mut = c.mut
      BY <1>2, <3>1, <3>2 DEF CallOK
    <3> DEFINE x == IF ok THEN [x0 EXCEPT !.pc = "delivered"] ELSE IdleWork
    <3>4. x \in WorkStates
      BY <3>2, ConstantTypes DEF WorkStates
    <3>5. WorkOK(x)'
      BY <1>1, <1>2, <3>2, <3>3 DEF WorkOK, WorkStates, IdleWork, CallOK
    <3>6. /\ work' \in [Workers -> WorkStates] /\ work'[v] = x
          /\ \A w \in Workers : w # v => work'[w] = work[w]
      BY <3>1, <3>2, <3>4 DEF Respond, CoreInv, TypeOK
    <3> HIDE DEF x
    <3>7. WorkOK(work[v])'
      BY <3>5, <3>6 DEF WorkOK, Known
    <3> QED BY <3>1, <3>6, <3>7, WorkKept DEF CoreInv, HintsKnown, NodeFrame
  <2> QED BY <2>1, <2>2
<1>6. CASE c.from \notin Slots
  <2>1. proc' = proc
    BY <1>6 DEF Respond
  <2>2. \A p \in Procs : ProcOK(p, proc[p])'
    BY <2>1, ProcKept DEF CoreInv, NodeFrame
  <2>3. ASSUME NEW e \in calls' PROVE CallOK(e)'
    <3>1. Known(e.mut)'
      BY <1>1, <1>2, <1>3 DEF CoreInv, CallOK
    <3>2. e.from \in Slots \cup Workers => e \in calls /\ e # c /\ CallOK(e)
      BY <1>3, ProcsAssumption DEF CoreInv, Procs
    <3>3. e.from \in Workers => work'[e.from] = work[e.from]
      BY <1>2, <1>5, <3>2, ProcsAssumption DEF CoreInv, OneCallEach, CallOK
    <3> QED BY <2>1, <3>1, <3>2, <3>3 DEF CallOK
  <2>4. OneCallEach'
    BY <1>3, ProcsAssumption DEF CoreInv, OneCallEach, Procs
  <2>5. TypeOK'
    BY <1>4, <1>5, <2>1 DEF CoreInv, TypeOK, NodeFrame, hintVars, ackVars
  <2> QED BY <1>5, <2>2, <2>3, <2>4, <2>5, StoresKept DEF CoreInv, NodeFrame
<1>7. CASE c.from \in Slots
  <2>1. PICK s \in Procs : s = c.from
    BY <1>7, ConstantTypes
  <2>2. PICK q0 \in ProcStates : q0 = proc[s] /\ ProcOK(s, q0)
    BY DEF CoreInv, TypeOK
  <2>3. q0.pc = "replicating" /\ q0.mut = c.mut /\ c.to \notin q0.todo
    BY <1>2, <1>7, <2>1, <2>2 DEF CallOK
  <2> DEFINE q == IF ok THEN [q0 EXCEPT !.oks = @ \cup {c.to}]
                  ELSE [q0 EXCEPT !.fails = @ \cup {c.to}]
  <2>4. q \in ProcStates
    BY <1>2, <2>2 DEF ProcStates
  <2>5. /\ proc' \in [Procs -> ProcStates] /\ proc'[s] = q
        /\ \A p \in Procs : p # s => proc'[p] = proc[p]
    <3>1. proc' = [proc EXCEPT ![s] = q]
      BY <1>7, <2>1, <2>2 DEF Respond, Become
    <3> HIDE DEF q
    <3> QED BY <2>4, <3>1 DEF CoreInv, TypeOK
  <2>6. /\ q.pc = "replicating" /\ q.mut = q0.mut /\ q.todo = q0.todo
        /\ q.oks \cup q.fails = q0.oks \cup q0.fails \cup {c.to}
        /\ q.seen = q0.seen
        /\ q.oks \subseteq IF ok THEN q0.oks \cup {c.to} ELSE q0.oks
    BY <2>2, <2>3 DEF ProcStates
  <2> HIDE DEF q
  <2>7. ProcOK(s, proc[s])'
    BY <1>1, <2>2, <2>3, <2>4, <2>5, <2>6 DEF ProcOK, Mutating, ProcStates, NodeFrame
  <2>8. \A p \in Procs : ProcOK(p, proc[p])'
    BY <2>5, <2>7, ProcKept DEF CoreInv, NodeFrame
  <2>9. \A e \in calls' : CallOK(e)'
    <3> SUFFICES ASSUME NEW e \in calls' PROVE CallOK(e)'
      OBVIOUS
    <3>1. Known(e.mut)'
      BY <1>1, <1>2, <1>3 DEF CoreInv, CallOK
    <3>2. ASSUME e.from \in Slots
          PROVE  /\ proc'[e.from].pc = "replicating" /\ proc'[e.from].mut = e.mut
                 /\ e.to \notin proc'[e.from].oks \cup proc'[e.from].fails
                 /\ e.to \notin proc'[e.from].todo
      <4>1. e \in calls /\ e # c /\ CallOK(e)
        BY <1>3, <3>2, ProcsAssumption DEF CoreInv, Procs
      <4>2. CASE e.from = s
        <5>1. e.to # c.to
          BY <1>7, <2>1, <4>1, <4>2, ProcsAssumption DEF CoreInv, OneCallEach, Procs
        <5> QED BY <2>2, <2>5, <2>6, <3>2, <4>1, <4>2, <5>1 DEF CallOK
      <4>3. CASE e.from # s
        BY <2>5, <3>2, <4>1, <4>3, ConstantTypes DEF CallOK
      <4> QED BY <4>2, <4>3
    <3>3. ASSUME e.from \in Workers
          PROVE  /\ work'[e.from].pc = "calling"
                 /\ work'[e.from].task.to = e.to /\ work'[e.from].task.mut = e.mut
      <4>1. e \in calls /\ CallOK(e) /\ e.from # c.from
        BY <1>3, <1>7, <3>3, ProcsAssumption, ConstantTypes DEF CoreInv, Procs
      <4> QED BY <1>5, <3>3, <4>1 DEF CallOK
    <3> QED BY <3>1, <3>2, <3>3 DEF CallOK
  <2>10. OneCallEach'
    BY <1>3, ProcsAssumption DEF CoreInv, OneCallEach, Procs
  <2>11. TypeOK'
    BY <1>4, <1>5, <2>5 DEF CoreInv, TypeOK, NodeFrame, hintVars, ackVars
  <2> QED BY <1>5, <2>8, <2>9, <2>10, <2>11, StoresKept DEF CoreInv, NodeFrame
<1> QED BY <1>6, <1>7

(* The steps of PutReplica and PutTombstoneReplica preserve CoreInv.       *)
LEMMA CallCore ==
    ASSUME CoreInv, NEW c \in calls, CallStep(c)
    PROVE  CoreInv'
<1>1. c \in Calls /\ c.to \in Nodes /\ c.mut \in Rows /\ c.body \in Files
  BY DEF CoreInv, TypeOK, Calls
<1>2. TypeOK /\ Known(c.mut) /\ NodesKnown
  BY DEF CoreInv, CallOK
<1>3. ASSUME UNCHANGED <<row, held, hintVars, ackVars>>,
             UNCHANGED faults \/ Fault,
             blob' \in [Nodes -> Files], UNCHANGED status
      PROVE  NodeFrame
  BY <1>2, <1>3, BoundsAssumption DEF NodeFrame, TypeOK, NodesKnown, Known, Fault
<1>4. CASE ReplicaCheck(c)
  <2>1. NodeFrame
    BY <1>2, <1>3, <1>4 DEF ReplicaCheck, nodeVars, TypeOK
  <2>2. CASE Rejects(row[c.to], c.mut) \/ Repeats(row[c.to], c.mut)
    <3>1. Repeats(row[c.to], c.mut) => c.mut \in held'[c.to]
      BY <1>1, <1>2, <1>4 DEF Repeats, NodesKnown, Known, ReplicaCheck, nodeVars
    <3>2. Repeats(row[c.to], c.mut) \in BOOLEAN
      BY DEF Repeats
    <3> QED BY <1>4, <2>1, <2>2, <3>1, <3>2, RespondStep DEF ReplicaCheck
  <2>3. CASE ~(Rejects(row[c.to], c.mut) \/ Repeats(row[c.to], c.mut))
    <3> DEFINE at == IF c.mut.val = Tombstone /\ ~Live(row[c.to]) THEN "written"
                     ELSE "checked"
               d == [c EXCEPT !.at = at]
    <3>1. d \in Calls /\ d.from = c.from /\ d.to = c.to /\ d.mut = c.mut
      BY <1>1 DEF Calls
    <3> QED BY <1>4, <2>1, <2>3, <3>1, AdvanceStep DEF ReplicaCheck
  <2> QED BY <2>2, <2>3
<1>5. CASE ReplicaBlob(c)
  <2>1. NodeFrame
    BY <1>1, <1>2, <1>3, <1>5 DEF ReplicaBlob, TypeOK
  <2> DEFINE d == [c EXCEPT !.at = IF c.mut.val \in {Tombstone, c.body}
                                   THEN "written" ELSE "mismatch"]
  <2>2. d \in Calls /\ d.from = c.from /\ d.to = c.to /\ d.mut = c.mut
    BY <1>1 DEF Calls
  <2> QED BY <1>5, <2>1, <2>2, AdvanceStep DEF ReplicaBlob
<1>6. CASE ReplicaMismatch(c)
  <2>1. NodeFrame
    BY <1>1, <1>2, <1>3, <1>6, ConstantTypes DEF ReplicaMismatch, TypeOK
  <2> QED BY <1>6, <2>1, RespondStep DEF ReplicaMismatch
<1>7. CASE ReplicaCommit(c)
  <2>1. /\ held' \in [Nodes -> SUBSET Rows] /\ row' \in [Nodes -> Rows]
        /\ \A n \in Nodes : held[n] \subseteq held'[n]
        /\ held'[c.to] = held[c.to] \cup {c.mut} /\ row'[c.to] = c.mut
        /\ \A n \in Nodes \ {c.to} : held'[n] = held[n] /\ row'[n] = row[n]
    BY <1>1, <1>2, <1>7 DEF ReplicaCommit, TypeOK
  <2>2. NodesKnown'
    BY <1>1, <1>2, <2>1, ConstantTypes DEF NodesKnown, Known
  <2>3. NodeFrame
    BY <1>2, <1>7, <2>1, <2>2 DEF ReplicaCommit, NodeFrame, TypeOK
  <2> QED BY <1>7, <2>1, <2>3, RespondStep DEF ReplicaCommit
<1>8. CASE ReplicaFail(c)
  <2>1. NodeFrame
    BY <1>1, <1>2, <1>3, <1>8, ConstantTypes DEF ReplicaFail, TypeOK
  <2> QED BY <1>8, <2>1, RespondStep DEF ReplicaFail
<1>9. CASE Disconnect(c)
  <2>1. NodeFrame
    BY <1>2, <1>3, <1>9 DEF Disconnect, nodeVars, TypeOK
  <2> QED BY <1>9, <2>1, RespondStep DEF Disconnect
<1> QED
  BY <1>4, <1>5, <1>6, <1>7, <1>8, <1>9 DEF CallStep

(* A request sent by the fan-out preserves CoreInv.                        *)
LEMMA SendCore ==
    ASSUME CoreInv, NEW s \in Writers, NEW r \in Replicas, Send(s, r)
    PROVE  CoreInv'
<1>1. s \in Procs /\ s \in Slots /\ r \in Nodes /\ TypeOK
      /\ UNCHANGED <<nodeVars, hintVars, work, ackVars, faults>>
  BY ConstantTypes DEF CoreInv, Send
<1>2. PICK q0 \in ProcStates : q0 = proc[s] /\ ProcOK(s, q0) /\ q0.mut \in Rows
  BY <1>1 DEF CoreInv, TypeOK, ProcStates
<1>3. q0.pc = "replicating" /\ r \in q0.todo
  BY <1>2 DEF Send
<1> DEFINE body == IF q0.mut.val # Tombstone THEN blob[Primary] ELSE NoBlob
           d == [from |-> s, to |-> r, mut |-> q0.mut, at |-> "sent", body |-> body]
<1>4. d \in Calls /\ d.from = s /\ d.to = r /\ d.mut = q0.mut
  BY <1>1, <1>2, ConstantTypes DEF Calls, TypeOK
<1> HIDE DEF d
<1>5. PICK q \in ProcStates :
        /\ Become(s, q) /\ q.pc = q0.pc /\ q.mut = q0.mut /\ q.oks = q0.oks
        /\ q.seen = q0.seen /\ q.todo = q0.todo \ {r}
        /\ \/ q.fails = q0.fails \cup {r} /\ calls' = calls
           \/ q.fails = q0.fails /\ calls' = calls \cup {d}
  <2> DEFINE q1 == [q0 EXCEPT !.todo = @ \ {r}, !.fails = @ \cup {r}]
             q2 == [q0 EXCEPT !.todo = @ \ {r}]
  <2>1. q1 \in ProcStates /\ q2 \in ProcStates
    BY <1>1, <1>2 DEF ProcStates
  <2>2. CASE Become(s, q1) /\ calls' = calls
    BY <2>1, <2>2 DEF ProcStates
  <2>3. CASE Become(s, q2) /\ calls' = calls \cup {d}
    BY <2>1, <2>3 DEF ProcStates
  <2> QED BY <1>2, <2>2, <2>3 DEF Send, d
<1>6. /\ proc' \in [Procs -> ProcStates] /\ proc'[s] = q
      /\ \A p \in Procs : p # s => proc'[p] = proc[p]
  BY <1>1, <1>5 DEF Become, TypeOK
<1>7. TypeOK'
  BY <1>1, <1>4, <1>5, <1>6 DEF TypeOK, nodeVars, hintVars, ackVars
<1>8. NodeFrame
  BY <1>1 DEF NodeFrame, CoreInv, TypeOK, NodesKnown, Known, nodeVars
<1>9. ProcOK(s, proc[s])'
  BY <1>1, <1>2, <1>3, <1>5, <1>6 DEF ProcOK, Mutating, Known, nodeVars
<1>10. \A p \in Procs : ProcOK(p, proc[p])'
  BY <1>6, <1>8, <1>9, ProcKept DEF CoreInv, NodeFrame
<1>11. ASSUME NEW e \in calls PROVE CallOK(e)' /\ (e.from = s => e.to # r)
  <2>1. CallOK(e)
    BY DEF CoreInv
  <2>2. CASE e.from = s
    <3>1. /\ q0.mut = e.mut /\ e.to \notin q0.oks \cup q0.fails
          /\ e.to \notin q0.todo /\ Known(e.mut)
      BY <1>1, <1>2, <2>1, <2>2 DEF CallOK
    <3>2. Known(e.mut)'
      BY <1>1, <3>1 DEF Known, nodeVars
    <3>3. e.to # r /\ s \notin Workers
      BY <1>1, <1>3, <3>1, ProcsAssumption
    <3>4. /\ proc'[s].pc = "replicating" /\ proc'[s].mut = e.mut
          /\ e.to \notin proc'[s].oks \cup proc'[s].fails
          /\ e.to \notin proc'[s].todo
      BY <1>3, <1>5, <1>6, <3>1, <3>3
    <3> QED BY <2>2, <3>2, <3>3, <3>4 DEF CallOK
  <2>3. CASE e.from # s
    BY <1>1, <1>6, <2>1, <2>3, ConstantTypes DEF CallOK, Known, nodeVars
  <2> QED BY <2>2, <2>3
<1>12. PICK e0 \in Calls : e0 = d
  BY <1>4
<1>13. calls' = calls \cup {e0} /\ q.fails = q0.fails => CallOK(e0)'
  <2>1. Known(e0.mut)'
    BY <1>2, <1>3, <1>4, <1>8, <1>12, ConstantTypes
    DEF ProcOK, Mutating, Known, NodeFrame
  <2> QED
    BY <1>1, <1>2, <1>3, <1>4, <1>5, <1>6, <1>12, <2>1, ProcsAssumption
    DEF CallOK, ProcOK, Procs
<1>14. \A e \in calls' : CallOK(e)'
  BY <1>5, <1>11, <1>12, <1>13
<1>15. OneCallEach'
  BY <1>4, <1>5, <1>11 DEF CoreInv, OneCallEach
<1>16. \A w \in Workers : WorkOK(work[w])'
  BY <1>1, <1>8, WorkKept DEF CoreInv, HintsKnown, NodeFrame
<1> QED
  BY <1>7, <1>8, <1>10, <1>14, <1>15, <1>16, StoresKept DEF CoreInv, NodeFrame

-----------------------------------------------------------------------------
(* The steps of the hint worker preserve CoreInv.                          *)
LEMMA WorkCore ==
    ASSUME CoreInv, NEW w \in Workers, WorkStep(w)
    PROVE  CoreInv'
<1>1. TypeOK /\ HintsKnown /\ UNCHANGED <<nodeVars, proc, ackVars>>
  BY DEF CoreInv, WorkStep, ListDueHints, DeliverHint, MarkHintDelivered,
         CleanupHintPayload
<1>f. faults' \in 0..MaxFaults
  BY <1>1, BoundsAssumption
  DEF TypeOK, Fault, WorkStep, ListDueHints, DeliverHint, MarkHintDelivered,
      CleanupHintPayload
<1>2. PICK x0 \in WorkStates : x0 = work[w] /\ WorkOK(x0) /\ x0.task \in Hints
  BY <1>1 DEF TypeOK, HintsKnown, WorkStates
<1>3. \A m : Known(m) => Known(m)'
  BY <1>1 DEF Known, nodeVars
<1>4. \A p \in Procs : ProcOK(p, proc[p])'
  BY <1>1, ProcKept DEF CoreInv, nodeVars
<1>5. NodesKnown' /\ AckedKnown' /\ QuorumDurable'
  BY <1>1 DEF CoreInv, NodesKnown, Known, AckedKnown, QuorumDurable, nodeVars, ackVars
<1>6. ASSUME NEW x \in WorkStates, work' = [work EXCEPT ![w] = x], WorkOK(x)',
             hints' = hints, stash' \in [Nodes -> [1..MaxVersion -> Files]],
             calls' = calls, x0.pc # "calling"
      PROVE  CoreInv'
  <2>1. /\ work' \in [Workers -> WorkStates] /\ work'[w] = x
        /\ \A v \in Workers : v # w => work'[v] = work[v]
    BY <1>1, <1>6 DEF TypeOK
  <2>2. TypeOK'
    BY <1>1, <1>f, <1>6, <2>1 DEF TypeOK, nodeVars, ackVars
  <2>3. HintsKnown'
    BY <1>1, <1>3, <1>6, <2>1, WorkKept DEF HintsKnown, nodeVars, WorkOK, Known
  <2>4. ASSUME NEW e \in calls PROVE CallOK(e)'
    <3>1. CallOK(e) /\ e.from # w
      BY <1>2, <1>6 DEF CoreInv, CallOK
    <3> QED BY <1>1, <1>3, <2>1, <3>1 DEF CallOK
  <2>5. OneCallEach'
    BY <1>6 DEF CoreInv, OneCallEach
  <2> QED BY <1>4, <1>5, <1>6, <2>2, <2>3, <2>4, <2>5 DEF CoreInv
<1>7. stash \in [Nodes -> [1..MaxVersion -> Files]] /\ WorkOK(IdleWork)'
  BY <1>1 DEF TypeOK, WorkOK, IdleWork
<1>8. ASSUME NEW h \in hints, ListDueHints(w, h) PROVE CoreInv'
  <2> DEFINE x == [pc |-> "picked", task |-> h, gone |-> FALSE]
  <2>1. x \in WorkStates
    BY <1>1 DEF TypeOK, WorkStates
  <2>2. WorkOK(x)'
    BY <1>1, <1>3, <1>8 DEF HintsKnown, WorkOK
  <2> QED BY <1>2, <1>6, <1>7, <1>8, <2>1, <2>2 DEF ListDueHints, hintVars
<1>9. CASE DeliverHint(w)
  <2>0. UNCHANGED hintVars /\ x0.pc = "picked"
    BY <1>2, <1>9 DEF DeliverHint
  <2>1. CASE work' = [work EXCEPT ![w] = IdleWork] /\ calls' = calls
    BY <1>6, <1>7, <2>0, <2>1, ConstantTypes DEF hintVars
  <2>2. ASSUME NEW body \in Files, work' = [work EXCEPT ![w].pc = "calling"],
               calls' = calls \cup {[from |-> w, to |-> x0.task.to,
                          mut |-> x0.task.mut, body |-> body, at |-> "sent"]}
        PROVE  CoreInv'
    <3> DEFINE x == [x0 EXCEPT !.pc = "calling"]
    <3>1. PICK d \in Calls : d = [from |-> w, to |-> x0.task.to,
                          mut |-> x0.task.mut, body |-> body, at |-> "sent"]
      BY <1>2, <2>2 DEF Calls, Hints
    <3>2. /\ work' \in [Workers -> WorkStates] /\ work'[w] = x
          /\ \A v \in Workers : v # w => work'[v] = work[v]
      BY <1>1, <1>2, <2>2 DEF TypeOK, WorkStates
    <3>3. x.pc = "calling" /\ x.task = x0.task
      BY <1>2 DEF WorkStates
    <3> HIDE DEF x
    <3>4. TypeOK'
      BY <1>1, <1>f, <2>0, <2>2, <3>1, <3>2 DEF TypeOK, nodeVars, hintVars, ackVars
    <3>5. WorkOK(work[w])'
      BY <1>2, <1>3, <2>0, <3>2, <3>3 DEF WorkOK
    <3>6. HintsKnown'
      BY <1>1, <1>3, <2>0, <3>2, <3>5, WorkKept DEF HintsKnown, nodeVars, hintVars
    <3>7. ASSUME NEW e \in calls PROVE CallOK(e)' /\ e.from # w
      <4>1. CallOK(e) /\ e.from # w
        BY <1>2, <2>0 DEF CoreInv, CallOK
      <4> QED BY <1>1, <1>3, <3>2, <4>1 DEF CallOK
    <3>8. CallOK(d)'
      BY <1>2, <1>3, <2>0, <3>1, <3>2, <3>3, ProcsAssumption DEF CallOK, WorkOK, Procs
    <3>9. OneCallEach' /\ \A e \in calls' : CallOK(e)'
      BY <2>2, <3>1, <3>7, <3>8 DEF CoreInv, OneCallEach
    <3> QED BY <1>4, <1>5, <3>4, <3>6, <3>9 DEF CoreInv
  <2>3. Payload(x0.task) \in Files /\ NoBlob \in Files
    <3>1. x0.task.to \in Nodes /\ x0.task.src \in Nodes
          /\ x0.task.mut.ver \in 1..MaxVersion
      <4>1. x0.task.to \in Nodes /\ x0.task.src \in Nodes /\ x0.task.mut \in Rows
        BY <1>2 DEF Hints
      <4>2. Found(x0.task.mut)
        BY <1>2, <2>0 DEF WorkOK, Known
      <4> QED BY <4>1, <4>2, BoundsAssumption DEF Found, Rows
    <3> QED BY <1>1, <1>7, <3>1, ConstantTypes DEF Payload, TypeOK
  <2> QED BY <1>2, <1>9, <2>1, <2>2, <2>3 DEF DeliverHint
<1>10. CASE MarkHintDelivered(w)
  <2>0. x0.pc = "delivered" /\ UNCHANGED <<calls, stash>>
    BY <1>2, <1>10 DEF MarkHintDelivered
  <2>1. /\ hints' \subseteq hints
        /\ work' \in [Workers -> WorkStates]
        /\ \A v \in Workers : work'[v].task = work[v].task
        /\ \A v \in Workers : v # w => work'[v].pc = work[v].pc
        /\ work'[w].pc = "cleanup"
    <3> DEFINE done(v) == [work[v] EXCEPT !.pc = "cleanup"]
               gone(v) == [work[v] EXCEPT !.gone = TRUE]
    <3>1. ASSUME NEW v \in Workers
          PROVE  /\ work[v] \in WorkStates
                 /\ done(v) \in WorkStates /\ gone(v) \in WorkStates
                 /\ done(v).pc = "cleanup" /\ done(v).task = work[v].task
                 /\ gone(v).pc = work[v].pc /\ gone(v).task = work[v].task
      <4>1. work[v] \in WorkStates
        BY <1>1 DEF TypeOK
      <4> QED BY <4>1 DEF WorkStates
    <3>2. hints' \subseteq hints
      BY <1>10 DEF MarkHintDelivered
    <3>3. /\ work' = [v \in Workers |-> work'[v]] /\ work'[w] = done(w)
          /\ \A v \in Workers : v # w => work'[v] \in {gone(v), work[v]}
      BY <1>1, <1>10 DEF MarkHintDelivered, TypeOK
    <3> HIDE DEF done, gone
    <3> QED BY <3>1, <3>2, <3>3
  <2>2. TypeOK'
    BY <1>1, <1>f, <2>0, <2>1 DEF TypeOK, nodeVars, ackVars
  <2>3. \A v \in Workers : WorkOK(work[v])'
    BY <1>1, <1>2, <1>3, <2>0, <2>1 DEF HintsKnown, WorkOK, nodeVars
  <2>4. HintsKnown'
    BY <1>1, <1>3, <2>1, <2>3 DEF HintsKnown
  <2>5. ASSUME NEW e \in calls PROVE CallOK(e)'
    <3>1. CallOK(e) /\ e.from # w
      BY <1>2, <2>0 DEF CoreInv, CallOK
    <3> QED BY <1>1, <1>3, <2>1, <3>1 DEF CallOK
  <2>6. OneCallEach'
    BY <2>0 DEF CoreInv, OneCallEach
  <2> QED BY <1>4, <1>5, <2>0, <2>2, <2>4, <2>5, <2>6 DEF CoreInv
<1>11. CASE CleanupHintPayload(w)
  <2>1. x0.task.to \in Nodes /\ x0.task.mut.ver \in 1..MaxVersion /\ x0.pc = "cleanup"
    BY <1>2, <1>11, BoundsAssumption
    DEF CleanupHintPayload, WorkOK, Known, Found, Hints, Rows
  <2>2. stash' \in [Nodes -> [1..MaxVersion -> Files]]
    BY <1>2, <1>7, <1>11, <2>1, ConstantTypes DEF CleanupHintPayload
  <2> QED BY <1>2, <1>6, <1>7, <1>11, <2>1, <2>2, ConstantTypes DEF CleanupHintPayload
<1> QED
  BY <1>8, <1>9, <1>10, <1>11 DEF WorkStep

-----------------------------------------------------------------------------
(* Faults.                                                                 *)

(* A client that goes away leaves CoreInv true.                            *)
LEMMA ClientGoneCore ==
    ASSUME CoreInv, NEW s \in Slots, ClientGone(s)
    PROVE  CoreInv'
<1>1. s \in Procs /\ TypeOK /\ UNCHANGED <<nodeVars, hintVars, work, ackVars>>
  BY ConstantTypes DEF CoreInv, ClientGone
<1>2. /\ proc' \in [Procs -> ProcStates] /\ proc'[s] = Idle
      /\ \A p \in Procs : p # s => proc'[p] = proc[p]
  BY <1>1, ConstantTypes DEF ClientGone, Become, TypeOK
<1>3. ASSUME NEW d \in calls'
      PROVE  /\ d \in Calls /\ Known(d.mut)
             /\ d.from # Nobody => d \in calls /\ d.from # s
  <2>1. PICK c \in calls : d = IF c.from = s THEN [c EXCEPT !.from = Nobody] ELSE c
    BY DEF ClientGone
  <2>2. c \in Calls /\ Known(c.mut)
    BY DEF CoreInv, TypeOK, CallOK
  <2> QED BY <2>1, <2>2 DEF Calls
<1>4. TypeOK'
  BY <1>1, <1>2, <1>3, BoundsAssumption
  DEF TypeOK, ClientGone, Fault, nodeVars, hintVars, ackVars
<1>5. NodeFrame
  BY <1>1, <1>4 DEF NodeFrame, CoreInv, TypeOK, NodesKnown, Known, nodeVars
<1>6. ProcOK(s, proc[s])'
  BY <1>1, <1>2, IdleParts DEF ProcOK, Mutating
<1>7. \A p \in Procs : ProcOK(p, proc[p])'
  BY <1>2, <1>5, <1>6, ProcKept DEF CoreInv, NodeFrame
<1>8. ASSUME NEW d \in calls' PROVE CallOK(d)'
  <2>1. Known(d.mut)'
    BY <1>1, <1>3 DEF Known, nodeVars
  <2>2. d.from # Nobody => CallOK(d) /\ d.from # s
    BY <1>3 DEF CoreInv
  <2> QED
    BY <1>1, <1>2, <2>1, <2>2, ConstantTypes, ProcsAssumption DEF CallOK, Procs
<1>9. OneCallEach'
  BY <1>3 DEF CoreInv, OneCallEach
<1>10. \A w \in Workers : WorkOK(work[w])'
  BY <1>1, <1>5, WorkKept DEF CoreInv, HintsKnown, NodeFrame
<1> QED BY <1>4, <1>5, <1>7, <1>8, <1>9, <1>10, StoresKept DEF CoreInv, NodeFrame

(* So does the crash of a replica.                                         *)
LEMMA CrashReplicaCore ==
    ASSUME CoreInv, NEW n \in Replicas, CrashReplica(n)
    PROVE  CoreInv'
<1> DEFINE lost == {c \in calls : c.to = n}
           hit(p) == \E c \in lost : c.from = p
<1>1. /\ n \in Nodes /\ TypeOK /\ UNCHANGED <<nodeVars, hintVars, ackVars>>
      /\ calls' = calls \ lost
  BY ConstantTypes DEF CoreInv, CrashReplica
<1>2. \A p \in Procs : proc'[p] =
         IF hit(p) THEN [proc[p] EXCEPT !.fails = @ \cup {n}] ELSE proc[p]
  BY DEF CrashReplica
<1>3. \A w \in Workers : work'[w] = IF hit(w) THEN IdleWork ELSE work[w]
  BY DEF CrashReplica
<1>4. /\ proc' \in [Procs -> ProcStates] /\ work' \in [Workers -> WorkStates]
  <2>1. \A p \in Procs : [proc[p] EXCEPT !.fails = @ \cup {n}] \in ProcStates
    BY <1>1 DEF TypeOK, ProcStates
  <2>2. /\ proc' = [p \in Procs |-> proc'[p]] /\ work' = [w \in Workers |-> work'[w]]
    BY DEF CrashReplica
  <2> HIDE DEF hit
  <2>3. \A p \in Procs : proc'[p] \in ProcStates
    BY <1>1, <1>2, <2>1 DEF TypeOK
  <2>4. \A w \in Workers : work'[w] \in WorkStates
    BY <1>1, <1>3, ConstantTypes DEF TypeOK
  <2> QED BY <2>2, <2>3, <2>4
<1>5. TypeOK'
  <2>1. faults' \in 0..MaxFaults
    BY <1>1, BoundsAssumption DEF TypeOK, CrashReplica, Fault
  <2> QED BY <1>1, <1>4, <2>1 DEF TypeOK, nodeVars, hintVars, ackVars
<1>6. NodeFrame
  BY <1>1, <1>5 DEF NodeFrame, CoreInv, TypeOK, NodesKnown, Known, nodeVars
<1>7. ASSUME NEW p \in Procs, hit(p)
      PROVE  p \in Slots /\ proc[p].pc = "replicating" /\ n \notin proc[p].todo
  <2>1. PICK c \in calls : c.to = n /\ c.from = p
    BY <1>7
  <2>2. c \in Calls /\ CallOK(c)
    BY DEF CoreInv, TypeOK
  <2>3. p \in Slots
    BY <2>1, <2>2, ProcsAssumption DEF Calls, Procs
  <2> QED BY <2>1, <2>2, <2>3 DEF CallOK
<1> HIDE DEF hit
<1>8. ASSUME NEW p \in Procs PROVE ProcOK(p, proc[p])'
  <2>1. PICK q0 \in ProcStates : q0 = proc[p] /\ ProcOK(p, q0)
    BY DEF CoreInv, TypeOK
  <2>2. CASE hit(p)
    <3> DEFINE q == [q0 EXCEPT !.fails = @ \cup {n}]
    <3>1. proc'[p] = q
      BY <1>2, <2>1, <2>2
    <3>2. /\ q.pc = "replicating" /\ q.mut = q0.mut /\ q.todo = q0.todo
          /\ q.oks = q0.oks /\ q.fails = q0.fails \cup {n} /\ q.seen = q0.seen
      BY <1>7, <2>1, <2>2 DEF ProcStates
    <3> HIDE DEF q
    <3> QED
      BY <1>1, <1>7, <2>1, <2>2, <3>1, <3>2 DEF ProcOK, Mutating, Known, nodeVars
  <2>3. CASE ~hit(p)
    BY <1>2, <1>6, <2>1, <2>3, ProcKept DEF CoreInv, NodeFrame
  <2> QED BY <2>2, <2>3
<1>9. ASSUME NEW d \in calls' PROVE CallOK(d)'
  <2>1. d \in calls /\ d.to # n /\ CallOK(d)
    BY <1>1 DEF CoreInv
  <2>2. Known(d.mut)'
    BY <1>1, <2>1 DEF CallOK, Known, nodeVars
  <2>3. ASSUME d.from \in Slots
        PROVE  /\ proc'[d.from].pc = "replicating" /\ proc'[d.from].mut = d.mut
               /\ d.to \notin proc'[d.from].oks \cup proc'[d.from].fails
               /\ d.to \notin proc'[d.from].todo
    <3>1. PICK q0 \in ProcStates : q0 = proc[d.from]
      BY <2>3, ConstantTypes DEF CoreInv, TypeOK
    <3> DEFINE q == [q0 EXCEPT !.fails = @ \cup {n}]
    <3>2. /\ q.pc = q0.pc /\ q.mut = q0.mut /\ q.todo = q0.todo
          /\ q.oks = q0.oks /\ q.fails = q0.fails \cup {n}
      BY <3>1 DEF ProcStates
    <3>3. proc'[d.from] = q \/ proc'[d.from] = q0
      BY <1>2, <2>3, <3>1, ConstantTypes
    <3> HIDE DEF q
    <3> QED BY <2>1, <2>3, <3>1, <3>2, <3>3 DEF CallOK
  <2>4. ASSUME d.from \in Workers PROVE work'[d.from] = work[d.from]
    <3>1. ~hit(d.from)
      BY <2>1, <2>4 DEF hit, CoreInv, CallOK
    <3> QED BY <1>3, <2>4, <3>1
  <2> QED BY <2>1, <2>2, <2>3, <2>4 DEF CallOK
<1>10. OneCallEach'
  BY <1>1 DEF CoreInv, OneCallEach
<1>11. ASSUME NEW w \in Workers PROVE WorkOK(work[w])'
  <2>1. CASE hit(w)
    BY <1>3, <2>1 DEF WorkOK, IdleWork
  <2>2. CASE ~hit(w)
    BY <1>3, <1>6, <2>2, WorkKept DEF CoreInv, HintsKnown, NodeFrame
  <2> QED BY <2>1, <2>2
<1> QED BY <1>5, <1>6, <1>8, <1>9, <1>10, <1>11, StoresKept DEF CoreInv, NodeFrame

(* So does the crash of the primary.                                       *)
LEMMA CrashPrimaryCore ==
    ASSUME CoreInv, CrashPrimary
    PROVE  CoreInv'
<1>1. /\ TypeOK /\ UNCHANGED <<nodeVars, hintVars, ackVars>>
      /\ proc' = [p \in Procs |-> Idle] /\ work' = [w \in Workers |-> IdleWork]
  BY DEF CoreInv, CrashPrimary
<1>2. ASSUME NEW d \in calls'
      PROVE  d \in Calls /\ Known(d.mut) /\ d.from = Nobody
  <2>1. PICK c \in calls : d = [c EXCEPT !.from = Nobody]
    BY DEF CrashPrimary
  <2>2. c \in Calls /\ Known(c.mut)
    BY DEF CoreInv, TypeOK, CallOK
  <2> QED BY <2>1, <2>2 DEF Calls
<1>3. TypeOK'
  BY <1>1, <1>2, ConstantTypes, BoundsAssumption
  DEF TypeOK, CrashPrimary, Fault, nodeVars, hintVars, ackVars
<1>4. NodeFrame
  BY <1>1, <1>3 DEF NodeFrame, CoreInv, TypeOK, NodesKnown, Known, nodeVars
<1>5. ASSUME NEW p \in Procs PROVE ProcOK(p, proc[p])'
  <2>1. proc'[p] = Idle
    BY <1>1
  <2> QED BY <2>1, IdleParts DEF ProcOK, Mutating
<1>6. ASSUME NEW d \in calls' PROVE CallOK(d)'
  BY <1>1, <1>2, ProcsAssumption DEF CallOK, Procs, Known, nodeVars
<1>7. OneCallEach'
  BY <1>2 DEF OneCallEach
<1>8. \A w \in Workers : WorkOK(work[w])'
  BY <1>1 DEF WorkOK, IdleWork
<1> QED BY <1>3, <1>4, <1>5, <1>6, <1>7, <1>8, StoresKept DEF CoreInv, NodeFrame

-----------------------------------------------------------------------------
(* CoreInv holds in every reachable state: it holds at the start, and no   *)
(* handler, goroutine or fault breaks it.                                  *)
LEMMA CoreInit == Init => CoreInv
<1> SUFFICES ASSUME Init PROVE CoreInv
  OBVIOUS
<1>1. TypeOK
  BY ConstantTypes, BoundsAssumption DEF Init, TypeOK
<1>2. NodesKnown /\ OneCallEach /\ AckedKnown /\ QuorumDurable
  BY DEF Init, NodesKnown, NoRow, Found, OneCallEach, AckedKnown, QuorumDurable
<1>3. HintsKnown
  BY DEF Init, HintsKnown, WorkOK, IdleWork
<1>4. \A p \in Procs : ProcOK(p, proc[p])
  BY IdleOK DEF Init
<1> QED BY <1>1, <1>2, <1>3, <1>4 DEF CoreInv, Init

(* Every step preserves CoreInv.                                           *)
LEMMA CoreNext == CoreInv /\ [Next]_vars => CoreInv'
<1> SUFFICES ASSUME CoreInv, [Next]_vars PROVE CoreInv'
  OBVIOUS
<1>1. CASE UNCHANGED vars
  BY <1>1 DEF vars, CoreInv, TypeOK, NodesKnown, Known, ProcOK, CallOK,
              OneCallEach, HintsKnown, WorkOK, AckedKnown, QuorumDurable
<1>2. ASSUME NEW s \in Writers, PutStep(s) \/ DeleteStep(s) \/ ReplicateStep(s)
      PROVE  CoreInv'
  BY <1>2, PutCore, DeleteCore, ReplicateCore, SendCore
<1>3. ASSUME NEW s \in Readers, ReadStep(s) PROVE CoreInv'
  BY <1>3, ReadCore
<1>4. ASSUME NEW s \in Slots, ClientGone(s) PROVE CoreInv'
  BY <1>4, ClientGoneCore
<1>5. ASSUME NEW h \in Healers, HealStep(h) PROVE CoreInv'
  BY <1>5, HealCore
<1>6. ASSUME NEW p \in Procs, CollectStep(p) PROVE CoreInv'
  BY <1>6, CollectCore
<1>7. ASSUME NEW c \in calls, CallStep(c) PROVE CoreInv'
  BY <1>7, CallCore
<1>8. ASSUME NEW w \in Workers, WorkStep(w) PROVE CoreInv'
  BY <1>8, WorkCore
<1>9. ASSUME NEW n \in Replicas, CrashReplica(n) PROVE CoreInv'
  BY <1>9, CrashReplicaCore
<1>10. CASE CrashPrimary
  BY <1>10, CrashPrimaryCore
<1> QED
  BY <1>1, <1>2, <1>3, <1>4, <1>5, <1>6, <1>7, <1>8, <1>9, <1>10 DEF Next

(* CoreInv is an invariant: whatever handlers of Coordinator, replica      *)
(* handlers, hint workers and healing scans run at the same time.          *)
THEOREM CoreInvariant == Spec => []CoreInv
BY CoreInit, CoreNext, PTL DEF Spec

(* The state of the coordinator and of its nodes keeps its type.           *)
THEOREM TypeCorrect == Spec => []TypeOK
<1>1. CoreInv => TypeOK
  BY DEF CoreInv
<1> QED BY <1>1, CoreInvariant, PTL

(* Every mutation that Coordinator.PutObject or DeleteObject answers with  *)
(* success has been committed by W nodes, however many mutations overlap   *)
(* and whichever replicas, connections or the primary fail.                *)
THEOREM WritesDurable == Spec => []QuorumDurable
<1>1. CoreInv => QuorumDurable
  BY DEF CoreInv
<1> QED BY <1>1, CoreInvariant, PTL

(* Every row a node commits was first committed by the primary.            *)
THEOREM WritesFromPrimary == Spec => []Provenance
<1>1. CoreInv => Provenance
  BY DEF CoreInv, NodesKnown, Known, Provenance
<1> QED BY <1>1, CoreInvariant, PTL

=============================================================================
