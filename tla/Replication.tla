----------------------------- MODULE Replication -----------------------------
(***************************************************************************)
(* Quorum replication of ONE object {bucket,key}: the coordinator on the   *)
(* primary, the replica handlers of object.Service, the durable hints with *)
(* their worker, read repair and the healing scan.                         *)
(*                                                                         *)
(* A node keeps one metadata row and one blob for the object.  SQLite runs *)
(* on a single connection, so a statement or transaction is one atomic     *)
(* step; a blob is replaced by an atomic rename.  A handler touches row    *)
(* and blob in separate steps, and every such step is an action here, so   *)
(* all interleavings of request handlers, replica handlers and background  *)
(* goroutines are behaviours of Spec.                                      *)
(*                                                                         *)
(* A row is [ver, val]: val is the content whose MD5 is the row's ETag     *)
(* (MD5 is taken to be injective), or Tombstone for deleted = 1.  Version  *)
(* 0 stands for "no row": the coordinator assigns versions from 1 up.      *)
(*                                                                         *)
(* The object is written by PUT and DELETE only.  A COPY to its key and    *)
(* the completion of a multipart upload go around the coordinator: they    *)
(* give the primary's row version 0, reach no replica, and the next PUT    *)
(* starts again at version 1, so no property here holds across them.       *)
(***************************************************************************)
EXTENDS QuorumConfig

CONSTANTS
    Primary,      \* the placement primary of the object
    Replicas,     \* the other nodes of its placement set
    W, R,         \* write and read quorum
    Writers,      \* handlers on the primary that may serve PUT and DELETE
    Readers,      \* handlers on the primary that may serve GET and HEAD
    Healers,      \* goroutines that may run a healing scan
    Workers,      \* goroutines that may run a batch of due hints
    Bytes,        \* object contents
    Tombstone,    \* the value of a deleted row
    NoBlob,       \* "no file"
    Nobody,       \* the caller of a request whose connection is gone
    MaxVersion,   \* bound: versions assigned
    MaxFaults     \* bound: disconnects, crashes and failing statements

Nodes == Replicas \cup {Primary}
Quorums == [N |-> Cardinality(Nodes), W |-> W, R |-> R]
Slots == Writers \cup Readers
Procs == Slots \cup Healers

ASSUME ReplicasAssumption ==
    /\ IsFiniteSet(Replicas) /\ Replicas # {} /\ Primary \notin Replicas
ASSUME QuorumAssumption == W \in Int /\ R \in Int /\ Validate(Quorums)
ASSUME ProcsAssumption ==
    /\ Slots \cap Healers = {} /\ Workers \cap Procs = {}
    /\ Nobody \notin Procs \cup Workers
ASSUME BytesAssumption ==
    /\ Tombstone \notin Bytes /\ NoBlob \notin Bytes /\ Tombstone # NoBlob
ASSUME BoundsAssumption == MaxVersion \in Nat /\ MaxFaults \in Nat

Files == Bytes \cup {NoBlob}
Rows == [ver : 0..MaxVersion, val : Files \cup {Tombstone}]
NoRow == [ver |-> 0, val |-> NoBlob]
Found(r) == r.ver > 0
Live(r) == Found(r) /\ r.val # Tombstone

Kinds == {"put", "repair", "tombstone"}
Hints == [to : Nodes, mut : Rows, kind : Kinds, src : Nodes, staged : BOOLEAN]

Calls == [from : Slots \cup Workers \cup {Nobody}, to : Nodes, mut : Rows,
          body : Files, at : {"sent", "checked", "written", "mismatch"}]

PCs == {"idle", "assigned", "deleting", "written", "committed",
        "replicating", "hinting", "listed", "healing", "winning", "heads",
        "repair", "opening", "answered"}
ProcStates ==
    [pc : PCs, mut : Rows, todo : SUBSET Nodes, oks : SUBSET Nodes,
     fails : SUBSET Nodes, seen : [Nodes -> Rows], win : Nodes,
     floor : SUBSET Rows, body : Files]
Idle ==
    [pc |-> "idle", mut |-> NoRow, todo |-> {}, oks |-> {}, fails |-> {},
     seen |-> [n \in Nodes |-> NoRow], win |-> Primary, floor |-> {},
     body |-> NoBlob]

NoHint == [to |-> Primary, mut |-> NoRow, kind |-> "put", src |-> Primary,
           staged |-> FALSE]
WorkStates == [pc : {"idle", "picked", "calling", "delivered", "cleanup"},
               task : Hints, gone : BOOLEAN]
IdleWork == [pc |-> "idle", task |-> NoHint, gone |-> FALSE]

VARIABLES
    row,     \* node -> its metadata row for the object
    blob,    \* node -> the bytes in its blob file
    status,  \* replication_status of the primary's row
    proc,    \* request handlers on the primary, and healing scans
    calls,   \* replicate-put / replicate-delete requests being served
    hints,   \* the replication_hints table of the primary
    stash,   \* staged hint payloads: target -> version -> bytes
    work,    \* hint deliveries in progress
    held,    \* history: rows a node has ever committed
    acked,   \* history: mutations answered with success
    dropped, \* history: <<target, mutation>> whose hint could not be stored
    faults   \* history: faults so far, for the bound

nodeVars == <<row, blob, status, held>>
hintVars == <<hints, stash>>
ackVars == <<acked, dropped>>
vars == <<row, blob, status, proc, calls, hints, stash, work, held, acked,
          dropped, faults>>

TypeOK ==
    /\ row \in [Nodes -> Rows]
    /\ blob \in [Nodes -> Files]
    /\ status \in {"partial", "replicated"}
    /\ proc \in [Procs -> ProcStates]
    /\ calls \subseteq Calls
    /\ hints \subseteq Hints
    /\ stash \in [Nodes -> [1..MaxVersion -> Files]]
    /\ work \in [Workers -> WorkStates]
    /\ held \in [Nodes -> SUBSET Rows]
    /\ acked \subseteq Rows
    /\ dropped \subseteq Nodes \X Rows
    /\ faults \in 0..MaxFaults

Init ==
    /\ row = [n \in Nodes |-> NoRow]
    /\ blob = [n \in Nodes |-> NoBlob]
    /\ status = "replicated"
    /\ proc = [p \in Procs |-> Idle]
    /\ calls = {}
    /\ hints = {}
    /\ stash = [n \in Nodes |-> [v \in 1..MaxVersion |-> NoBlob]]
    /\ work = [w \in Workers |-> IdleWork]
    /\ held = [n \in Nodes |-> {}]
    /\ acked = {}
    /\ dropped = {}
    /\ faults = 0

Become(p, q) == proc' = [proc EXCEPT ![p] = q]

Fault == faults < MaxFaults /\ faults' = faults + 1

-----------------------------------------------------------------------------
(* Operators named Mutant... are plausible bugs of the operator that       *)
(* follows them.  Nothing uses them; PROJECT.json says which property      *)
(* notices each of them.                                                   *)

(* The unique index of the hint table without the version.                 *)
MutantSameHint(g, h) == g.to = h.to /\ g.kind = h.kind

(* The hint table: CreateHint upserts on (target, version, kind); the      *)
(* upsert keeps id and source_node.  A put or repair hint whose source is  *)
(* the primary stages a copy of the CURRENT bytes first, in a file named   *)
(* for target and version.  When the blob to copy is missing that file is  *)
(* removed and the hint is stored without a path, as it is when the copy   *)
(* fails.                                                                  *)

SameHint(g, h) == g.to = h.to /\ g.mut.ver = h.mut.ver /\ g.kind = h.kind

Stages(kind, src) == kind # "tombstone" /\ src = Primary /\ Live(row[Primary])

CanStage(kind, src) == Stages(kind, src) /\ blob[Primary] # NoBlob

StashWith(kind, to, m, src, bytes) ==
    IF Stages(kind, src) THEN [stash EXCEPT ![to][m.ver] = bytes] ELSE stash

EnqueueHint(kind, to, m, src) ==
    \E copied \in BOOLEAN :
        LET new == [to |-> to, mut |-> m, kind |-> kind, src |-> src,
                    staged |-> CanStage(kind, src) /\ copied]
            old == {h \in hints : SameHint(h, new)}
        IN  /\ IF copied THEN UNCHANGED faults
               ELSE CanStage(kind, src) /\ Fault
            /\ stash' = StashWith(kind, to, m, src,
                                  IF copied THEN blob[Primary] ELSE NoBlob)
            /\ hints' = (hints \ old) \cup
                   IF old = {} THEN {new}
                   ELSE {[new EXCEPT !.src = h.src] : h \in old}

(* CreateHint fails, which comes after the staging: the copy is made, or   *)
(* fails and is removed, or was not tried as the row could not be read.    *)
EnqueueFails(kind, to, m, src) ==
    /\ Fault
    /\ \E bytes \in {blob[Primary], NoBlob, stash[to][m.ver]} :
          stash' = StashWith(kind, to, m, src, bytes)
    /\ UNCHANGED hints

-----------------------------------------------------------------------------
(* Coordinator.PutObject and Coordinator.DeleteObject                      *)

(* Versions start again after a delete.                                    *)
MutantNextObjectVersion(n) == IF Live(row[n]) THEN row[n].ver + 1 ELSE 1

NextObjectVersion(n) == row[n].ver + 1

PutStart(s, b) ==
    /\ proc[s].pc = "idle"
    /\ NextObjectVersion(Primary) <= MaxVersion
    /\ Become(s, [proc[s] EXCEPT
                    !.pc = "assigned",
                    !.mut = [ver |-> NextObjectVersion(Primary), val |-> b]])
    /\ UNCHANGED <<nodeVars, calls, hintVars, work, ackVars, faults>>

(* An upload that ends before its blob is renamed: no bucket, no disk      *)
(* space, body too large or cut off.                                       *)
PutReject(s) ==
    /\ proc[s].pc = "assigned" /\ proc[s].mut.val \in Bytes
    /\ Become(s, Idle)
    /\ UNCHANGED <<nodeVars, calls, hintVars, work, ackVars, faults>>

(* The fan-out starts before the row is committed.                         *)
MutantPutBlob(s) ==
    /\ proc[s].pc = "assigned" /\ proc[s].mut.val \in Bytes
    /\ blob' = [blob EXCEPT ![Primary] = proc[s].mut.val]
    /\ Become(s, [proc[s] EXCEPT !.pc = "committed", !.oks = {Primary}])
    /\ UNCHANGED <<row, status, held, calls, hintVars, work, ackVars, faults>>

PutBlob(s) ==
    /\ proc[s].pc = "assigned" /\ proc[s].mut.val \in Bytes
    /\ blob' = [blob EXCEPT ![Primary] = proc[s].mut.val]
    /\ Become(s, [proc[s] EXCEPT !.pc = "written"])
    /\ UNCHANGED <<row, status, held, calls, hintVars, work, ackVars, faults>>

PutCommit(s) ==
    /\ proc[s].pc = "written" /\ proc[s].mut.val \in Bytes
    /\ row' = [row EXCEPT ![Primary] = proc[s].mut]
    /\ held' = [held EXCEPT ![Primary] = @ \cup {proc[s].mut}]
    /\ status' = "partial"
    /\ Become(s, [proc[s] EXCEPT !.pc = "committed", !.oks = {Primary}])
    /\ UNCHANGED <<blob, calls, hintVars, work, ackVars, faults>>

(* The metadata transaction fails: the blob just renamed is removed.       *)
PutCommitFail(s) ==
    /\ proc[s].pc = "written" /\ proc[s].mut.val \in Bytes
    /\ Fault
    /\ blob' = [blob EXCEPT ![Primary] = NoBlob]
    /\ Become(s, Idle)
    /\ UNCHANGED <<row, status, held, calls, hintVars, work, ackVars>>

(* OpenStoredObject probes the blob before the fan-out.                    *)
PutOpen(s) ==
    /\ proc[s].pc = "committed"
    /\ Become(s, IF blob[Primary] = NoBlob THEN Idle
                 ELSE [proc[s] EXCEPT !.pc = "replicating", !.todo = Replicas])
    /\ UNCHANGED <<nodeVars, calls, hintVars, work, ackVars, faults>>

(* The tombstone takes the version of the row it deletes.                  *)
MutantDeleteStart(s) ==
    /\ proc[s].pc = "idle" /\ Found(row[Primary])
    /\ Become(s, [proc[s] EXCEPT
                    !.pc = "assigned",
                    !.mut = [ver |-> row[Primary].ver, val |-> Tombstone]])
    /\ UNCHANGED <<nodeVars, calls, hintVars, work, ackVars, faults>>

(* A DELETE of a key without a row returns at once and changes nothing; a  *)
(* row that is already a tombstone is given a new tombstone.               *)
DeleteStart(s) ==
    /\ proc[s].pc = "idle"
    /\ Found(row[Primary]) /\ NextObjectVersion(Primary) <= MaxVersion
    /\ Become(s, [proc[s] EXCEPT
                    !.pc = "assigned",
                    !.mut = [ver |-> NextObjectVersion(Primary),
                             val |-> Tombstone]])
    /\ UNCHANGED <<nodeVars, calls, hintVars, work, ackVars, faults>>

(* PutTombstone looks at the row again, ...                                *)
TombstoneRead(s) ==
    /\ proc[s].pc = "assigned" /\ proc[s].mut.val = Tombstone
    /\ Become(s, [proc[s] EXCEPT
                    !.pc = IF Live(row[Primary]) THEN "deleting" ELSE "written"])
    /\ UNCHANGED <<nodeVars, calls, hintVars, work, ackVars, faults>>

(* ... removes the blob of a live row first ...                            *)
TombstoneBlob(s) ==
    /\ proc[s].pc = "deleting"
    /\ blob' = [blob EXCEPT ![Primary] = NoBlob]
    /\ Become(s, [proc[s] EXCEPT !.pc = "written"])
    /\ UNCHANGED <<row, status, held, calls, hintVars, work, ackVars, faults>>

(* ... and then writes the tombstone row.                                  *)
TombstoneCommit(s) ==
    /\ proc[s].pc = "written" /\ proc[s].mut.val = Tombstone
    /\ row' = [row EXCEPT ![Primary] = proc[s].mut]
    /\ held' = [held EXCEPT ![Primary] = @ \cup {proc[s].mut}]
    /\ status' = "replicated"
    /\ Become(s, [proc[s] EXCEPT !.pc = "replicating", !.oks = {Primary},
                                 !.todo = Replicas])
    /\ UNCHANGED <<blob, calls, hintVars, work, ackVars, faults>>

TombstoneCommitFail(s) ==
    /\ proc[s].pc \in {"assigned", "written"} /\ proc[s].mut.val = Tombstone
    /\ Fault
    /\ Become(s, Idle)
    /\ UNCHANGED <<nodeVars, calls, hintVars, work, ackVars>>

(* The ETag is computed anew from the blob that is sent.                   *)
MutantSendEtag(s, r) ==
    /\ proc[s].pc = "replicating" /\ r \in proc[s].todo
    /\ blob[Primary] # NoBlob
    /\ Become(s, [proc[s] EXCEPT !.todo = @ \ {r}])
    /\ calls' = calls \cup {[from |-> s, to |-> r, at |-> "sent",
                             mut |-> [proc[s].mut EXCEPT !.val = blob[Primary]],
                             body |-> blob[Primary]]}
    /\ UNCHANGED <<nodeVars, hintVars, work, ackVars, faults>>

(* One goroutine of ReplicatePut / ReplicateDelete.  A put reads the live  *)
(* blob when its turn comes, not when its row was committed.               *)
Send(s, r) ==
    /\ proc[s].pc = "replicating" /\ r \in proc[s].todo
    /\ LET m == proc[s].mut
           isPut == m.val # Tombstone
       IN  IF isPut /\ blob[Primary] = NoBlob
           THEN /\ Become(s, [proc[s] EXCEPT !.todo = @ \ {r},
                                             !.fails = @ \cup {r}])
                /\ UNCHANGED calls
           ELSE /\ Become(s, [proc[s] EXCEPT !.todo = @ \ {r}])
                /\ calls' = calls \cup
                     {[from |-> s, to |-> r, mut |-> m, at |-> "sent",
                       body |-> IF isPut THEN blob[Primary] ELSE NoBlob]}
    /\ UNCHANGED <<nodeVars, hintVars, work, ackVars, faults>>

(* All replicas have answered or failed: the write quorum decides.         *)
QuorumCheck(s) ==
    /\ proc[s].pc = "replicating" /\ proc[s].oks \cup proc[s].fails = Nodes
    /\ Become(s, IF WriteSatisfied(Quorums, Cardinality(proc[s].oks))
                 THEN [proc[s] EXCEPT !.pc = "hinting", !.todo = proc[s].fails]
                 ELSE Idle)
    /\ UNCHANGED <<nodeVars, calls, hintVars, work, ackVars, faults>>

(* Only a put leaves hints.                                                *)
MutantHintFailed(s, r) ==
    /\ proc[s].pc = "hinting" /\ r \in proc[s].todo
    /\ IF proc[s].mut.val = Tombstone THEN UNCHANGED <<hintVars, faults>>
       ELSE EnqueueHint("put", r, proc[s].mut, Primary)
    /\ Become(s, [proc[s] EXCEPT !.todo = @ \ {r}])
    /\ UNCHANGED <<nodeVars, calls, work, ackVars>>

HintKind(m) == IF m.val = Tombstone THEN "tombstone" ELSE "put"

HintFailed(s, r) ==
    /\ proc[s].pc = "hinting" /\ r \in proc[s].todo
    /\ EnqueueHint(HintKind(proc[s].mut), r, proc[s].mut, Primary)
    /\ Become(s, [proc[s] EXCEPT !.todo = @ \ {r}])
    /\ UNCHANGED <<nodeVars, calls, work, ackVars>>

(* A failing enqueue is only logged.                                       *)
HintDropped(s, r) ==
    /\ proc[s].pc = "hinting" /\ r \in proc[s].todo
    /\ EnqueueFails(HintKind(proc[s].mut), r, proc[s].mut, Primary)
    /\ dropped' = dropped \cup {<<r, proc[s].mut>>}
    /\ Become(s, [proc[s] EXCEPT !.todo = @ \ {r}])
    /\ UNCHANGED <<nodeVars, calls, work, acked>>

(* SetReplicationStatus("replicated") names the key, not the version; its  *)
(* failure is only logged.                                                 *)
Ack(s) ==
    /\ proc[s].pc = "hinting" /\ proc[s].todo = {}
    /\ IF proc[s].mut.val = Tombstone THEN UNCHANGED <<status, faults>>
       ELSE \/ status' = "replicated" /\ UNCHANGED faults
            \/ UNCHANGED status /\ Fault
    /\ acked' = acked \cup {proc[s].mut}
    /\ Become(s, Idle)
    /\ UNCHANGED <<row, blob, held, calls, hintVars, work, dropped>>

-----------------------------------------------------------------------------
(* Replica side: PutReplica and PutTombstoneReplica.  Respond hands the    *)
(* result to the caller if the connection still stands.                    *)

Respond(c, ok) ==
    /\ IF c.from \notin Slots THEN UNCHANGED proc
       ELSE LET q == proc[c.from]
            IN  Become(c.from, IF ok THEN [q EXCEPT !.oks = @ \cup {c.to}]
                               ELSE [q EXCEPT !.fails = @ \cup {c.to}])
    /\ work' = IF c.from \notin Workers THEN work
               ELSE [work EXCEPT ![c.from] =
                       IF ok THEN [@ EXCEPT !.pc = "delivered"] ELSE IdleWork]

(* What the version check answers to a request for row m over row e: equal *)
(* versions are an idempotent success or a conflict.                       *)
Rejects(e, m) == m.ver < e.ver \/ (m.ver = e.ver /\ m.val # e.val)
(* An equal version is taken for a repetition without comparing ETags.     *)
MutantRepeats(e, m) == Found(e) /\ m.ver = e.ver

Repeats(e, m) == m = e

(* The version check of both handlers.  An accepted tombstone skips the    *)
(* blob step unless the row it saw was live.                               *)
ReplicaCheck(c) ==
    /\ c.at = "sent"
    /\ LET e == row[c.to]
           next == IF c.mut.val = Tombstone /\ ~Live(e) THEN "written"
                   ELSE "checked"
       IN  IF Rejects(e, c.mut) \/ Repeats(e, c.mut)
           THEN calls' = calls \ {c} /\ Respond(c, Repeats(e, c.mut))
           ELSE /\ calls' = (calls \ {c}) \cup {[c EXCEPT !.at = next]}
                /\ UNCHANGED <<proc, work>>
    /\ UNCHANGED <<nodeVars, hintVars, ackVars, faults>>

(* blob.Put of the streamed body, or blob.Delete for a tombstone.          *)
ReplicaBlob(c) ==
    /\ c.at = "checked"
    /\ blob' = [blob EXCEPT ![c.to] = c.body]
    /\ calls' = (calls \ {c}) \cup
         {[c EXCEPT !.at = IF c.mut.val \in {Tombstone, c.body} THEN "written"
                           ELSE "mismatch"]}
    /\ UNCHANGED <<row, status, held, proc, hintVars, work, ackVars, faults>>

(* "Replica checksum mismatch": the blob just written is removed.          *)
ReplicaMismatch(c) ==
    /\ c.at = "mismatch"
    /\ blob' = [blob EXCEPT ![c.to] = NoBlob]
    /\ calls' = calls \ {c}
    /\ Respond(c, FALSE)
    /\ UNCHANGED <<row, status, held, hintVars, ackVars, faults>>

(* The row is written without looking again at the row it replaces.        *)
ReplicaCommit(c) ==
    /\ c.at = "written"
    /\ row' = [row EXCEPT ![c.to] = c.mut]
    /\ held' = [held EXCEPT ![c.to] = @ \cup {c.mut}]
    /\ status' = IF c.to = Primary THEN "replicated" ELSE status
    /\ calls' = calls \ {c}
    /\ Respond(c, TRUE)
    /\ UNCHANGED <<blob, hintVars, ackVars, faults>>

(* The handler gives up with an error: its context is cancelled because    *)
(* the caller is gone, or a statement fails.  After the blob step of a put *)
(* it removes the blob.  Removing the blob for a tombstone ignores errors  *)
(* and the context, so nothing fails in between.                           *)
ReplicaFail(c) ==
    /\ c.at # "mismatch" /\ ~(c.at = "checked" /\ c.mut.val = Tombstone)
    /\ IF c.from = Nobody THEN UNCHANGED faults ELSE Fault
    /\ blob' = IF c.at = "written" /\ c.mut.val # Tombstone
               THEN [blob EXCEPT ![c.to] = NoBlob] ELSE blob
    /\ calls' = calls \ {c}
    /\ Respond(c, FALSE)
    /\ UNCHANGED <<row, status, held, hintVars, ackVars>>

(* The connection breaks: the caller sees a failure, the handler may run   *)
(* on.  A request that never arrives is one whose handler then fails.      *)
Disconnect(c) ==
    /\ c.from # Nobody
    /\ Fault
    /\ calls' = (calls \ {c}) \cup {[c EXCEPT !.from = Nobody]}
    /\ Respond(c, FALSE)
    /\ UNCHANGED <<nodeVars, hintVars, ackVars>>

-----------------------------------------------------------------------------
(* Coordinator.GetObject and HeadObject, and the healing scan              *)

(* localReplicaState: a failing SELECT reports the object as not found.    *)
LocalReplicaState(seen) ==
    \/ seen = row[Primary] /\ UNCHANGED faults
    \/ seen = NoRow /\ Fault

(* quorumRead: the local row first, then replicate-head to every replica.  *)
(* A read that does not see the local row is not held to any floor.        *)
ReadStart(s) ==
    /\ proc[s].pc = "idle"
    /\ \E seen \in {row[Primary], NoRow} :
          /\ LocalReplicaState(seen)
          /\ Become(s, [proc[s] EXCEPT
                          !.pc = "heads", !.todo = Replicas,
                          !.seen[Primary] = seen,
                          !.floor = IF seen = row[Primary] THEN acked ELSE {}])
    /\ UNCHANGED <<nodeVars, calls, hintVars, work, ackVars>>

HealList(h) ==
    /\ proc[h].pc = "idle"
    /\ status = "partial" /\ Live(row[Primary])
    /\ Become(h, [proc[h] EXCEPT !.pc = "listed"])
    /\ UNCHANGED <<nodeVars, calls, hintVars, work, ackVars, faults>>

(* healObject reads the row once to skip a deleted object, ...             *)
HealObject(h) ==
    /\ proc[h].pc = "listed"
    /\ \E seen \in {row[Primary], NoRow} :
          /\ LocalReplicaState(seen)
          /\ Become(h, IF Live(seen) THEN [proc[h] EXCEPT !.pc = "healing"]
                       ELSE Idle)
    /\ UNCHANGED <<nodeVars, calls, hintVars, work, ackVars>>

(* ... once for the state to bring the replicas to, ...                    *)
HealWinning(h) ==
    /\ proc[h].pc = "healing"
    /\ \E seen \in {row[Primary], NoRow} :
          /\ LocalReplicaState(seen)
          /\ Become(h, IF Found(seen)
                       THEN [proc[h] EXCEPT !.pc = "winning", !.mut = seen]
                       ELSE Idle)
    /\ UNCHANGED <<nodeVars, calls, hintVars, work, ackVars>>

(* ... and once more in collectReplicaStates.                              *)
HealCollect(h) ==
    /\ proc[h].pc = "winning"
    /\ \E seen \in {row[Primary], NoRow} :
          /\ LocalReplicaState(seen)
          /\ Become(h, [proc[h] EXCEPT !.pc = "heads", !.todo = Replicas,
                                       !.seen[Primary] = seen])
    /\ UNCHANGED <<nodeVars, calls, hintVars, work, ackVars>>

(* headOnNode: a replica that fails to answer counts as not found.         *)
HeadOnNode(p, r) ==
    /\ proc[p].pc = "heads" /\ r \in proc[p].todo
    /\ \E seen \in {row[r], NoRow} :
          Become(p, [proc[p] EXCEPT !.todo = @ \ {r}, !.seen[r] = seen])
    /\ UNCHANGED <<nodeVars, calls, hintVars, work, ackVars, faults>>

FoundNodes(seen) == {n \in Nodes : Found(seen[n])}

(* The first state found, whatever its version.                            *)
MutantPickNewestState(seen) == FoundNodes(seen)

(* The first state of the highest version; the local state comes first.    *)
PickNewestState(seen) ==
    LET newest == {n \in FoundNodes(seen) :
                     \A m \in FoundNodes(seen) : seen[m].ver <= seen[n].ver}
    IN  IF Primary \in newest THEN {Primary} ELSE newest

StaleReplicas(m, win, seen) ==
    {n \in FoundNodes(seen) \ {win} :
        ~ (seen[n].ver >= m.ver /\ seen[n].val = m.val)}

ReplicasInSync(m, seen) ==
    \A n \in Nodes :
        /\ Found(seen[n])
        /\ seen[n].ver >= m.ver
        /\ seen[n].ver = m.ver => seen[n].val = m.val
        /\ (seen[n].val = Tombstone) = (m.val = Tombstone)

(* A read below the quorum fails; a tombstone that wins is Not Found and   *)
(* schedules no repair.                                                    *)
ReadDecide(s) ==
    /\ proc[s].pc = "heads" /\ proc[s].todo = {}
    /\ LET seen == proc[s].seen
       IN  IF ~ReadSatisfied(Quorums, Cardinality(FoundNodes(seen)))
           THEN Become(s, Idle)
           ELSE \E n \in PickNewestState(seen) :
                  Become(s, [proc[s] EXCEPT
                    !.mut = seen[n], !.win = n,
                    !.pc = IF seen[n].val = Tombstone THEN "answered"
                           ELSE "repair",
                    !.todo = IF seen[n].val = Tombstone THEN {}
                             ELSE StaleReplicas(seen[n], n, seen)])
    /\ UNCHANGED <<nodeVars, calls, hintVars, work, ackVars, faults>>

HealDecide(h) ==
    /\ proc[h].pc = "heads" /\ proc[h].todo = {}
    /\ Become(h, [proc[h] EXCEPT !.pc = "repair",
                    !.todo = StaleReplicas(proc[h].mut, Primary, proc[h].seen)])
    /\ UNCHANGED <<nodeVars, calls, hintVars, work, ackVars, faults>>

RepairKind(m) == IF m.val = Tombstone THEN "tombstone" ELSE "repair"

(* One round of the loop of scheduleReadRepair.                            *)
Repair(p, r) ==
    /\ proc[p].pc = "repair" /\ r \in proc[p].todo
    /\ EnqueueHint(RepairKind(proc[p].mut), r, proc[p].mut, proc[p].win)
    /\ Become(p, [proc[p] EXCEPT !.todo = @ \ {r}])
    /\ UNCHANGED <<nodeVars, calls, work, ackVars>>

RepairDropped(p, r) ==
    /\ proc[p].pc = "repair" /\ r \in proc[p].todo
    /\ EnqueueFails(RepairKind(proc[p].mut), r, proc[p].mut, proc[p].win)
    /\ Become(p, [proc[p] EXCEPT !.todo = @ \ {r}])
    /\ UNCHANGED <<nodeVars, calls, work, ackVars>>

(* HEAD answers from the winning state alone.                              *)
HeadAnswer(s) ==
    /\ proc[s].pc = "repair" /\ proc[s].todo = {}
    /\ Become(s, [proc[s] EXCEPT !.pc = "answered"])
    /\ UNCHANGED <<nodeVars, calls, hintVars, work, ackVars, faults>>

(* A GET won by another node sends it replicate-get: getReplica there      *)
(* looks at its row first.                                                 *)
StreamFromNode(s) ==
    /\ proc[s].pc = "repair" /\ proc[s].todo = {} /\ proc[s].win # Primary
    /\ \/ /\ Live(row[proc[s].win])
          /\ Become(s, [proc[s] EXCEPT !.pc = "opening"])
       \/ Become(s, Idle)
    /\ UNCHANGED <<nodeVars, calls, hintVars, work, ackVars, faults>>

(* The blob is opened, here or on that node.                               *)
GetAnswer(s) ==
    /\ \/ proc[s].pc = "opening"
       \/ proc[s].pc = "repair" /\ proc[s].todo = {} /\ proc[s].win = Primary
    /\ LET n == proc[s].win
       IN  \/ /\ blob[n] # NoBlob
              /\ Become(s, [proc[s] EXCEPT !.pc = "answered", !.body = blob[n]])
           \/ /\ blob[n] = NoBlob \/ n # Primary
              /\ Become(s, Idle)
    /\ UNCHANGED <<nodeVars, calls, hintVars, work, ackVars, faults>>

ReadReturn(s) ==
    /\ proc[s].pc = "answered"
    /\ Become(s, Idle)
    /\ UNCHANGED <<nodeVars, calls, hintVars, work, ackVars, faults>>

HealReturn(h) ==
    /\ proc[h].pc = "repair" /\ proc[h].todo = {}
    /\ status' = IF ReplicasInSync(proc[h].mut, proc[h].seen)
                 THEN "replicated" ELSE status
    /\ Become(h, Idle)
    /\ UNCHANGED <<row, blob, held, calls, hintVars, work, ackVars, faults>>

-----------------------------------------------------------------------------
(* HintWorker.processDue: one hint of a batch.  The worker holds a copy of *)
(* the hint row as it was listed.  Backoff only decides when a hint is     *)
(* due, so a pending hint may be picked at any time.                       *)

ListDueHints(w, h) ==
    /\ work[w].pc = "idle" /\ h \in hints
    /\ work' = [work EXCEPT ![w] = [pc |-> "picked", task |-> h, gone |-> FALSE]]
    /\ UNCHANGED <<nodeVars, proc, calls, hintVars, ackVars, faults>>

(* The bytes DeliverHint would open for hint h; NoBlob: it cannot.  When   *)
(* the source is another node, getReplica there looks at its row before    *)
(* the blob; a row that is not live is one of the failures of DeliverHint. *)
Payload(h) == IF h.staged THEN stash[h.to][h.mut.ver] ELSE blob[h.src]

(* The staged payload is removed as soon as it has been sent.              *)
MutantDeliverHint(w) ==
    /\ work[w].pc = "picked"
    /\ LET h == work[w].task
           body == IF h.kind # "tombstone" THEN Payload(h) ELSE NoBlob
       IN  /\ h.kind # "tombstone" => body # NoBlob
           /\ work' = [work EXCEPT ![w].pc = "calling"]
           /\ calls' = calls \cup {[from |-> w, to |-> h.to, mut |-> h.mut,
                                    body |-> body, at |-> "sent"]}
           /\ stash' = [stash EXCEPT ![h.to][h.mut.ver] = NoBlob]
    /\ UNCHANGED <<nodeVars, proc, hints, ackVars, faults>>

(* Opening the payload fails when it is missing or its source unreachable; *)
(* RecordHintFailure then leaves the hint pending.                         *)
DeliverHint(w) ==
    /\ work[w].pc = "picked"
    /\ LET h == work[w].task
           isPut == h.kind # "tombstone"
           body == IF isPut THEN Payload(h) ELSE NoBlob
       IN  \/ /\ isPut /\ (body = NoBlob \/ (~h.staged /\ h.src # Primary))
              /\ work' = [work EXCEPT ![w] = IdleWork]
              /\ UNCHANGED calls
           \/ /\ isPut => body # NoBlob
              /\ work' = [work EXCEPT ![w].pc = "calling"]
              /\ calls' = calls \cup {[from |-> w, to |-> h.to, mut |-> h.mut,
                                       body |-> body, at |-> "sent"]}
    /\ UNCHANGED <<nodeVars, proc, hintVars, ackVars, faults>>

(* DELETE ... WHERE id = ?: a row deleted since it was listed is not found *)
(* again, even if an equal hint was created afterwards.  The error of a    *)
(* failing statement is dropped.                                           *)
MarkHintDelivered(w) ==
    /\ work[w].pc = "delivered"
    /\ LET same(g) == SameHint(g, work[w].task)
           done == [work EXCEPT ![w].pc = "cleanup"]
       IN  \/ /\ work[w].gone
              /\ work' = done
              /\ UNCHANGED <<hints, faults>>
           \/ /\ ~work[w].gone
              /\ hints' = {h \in hints : ~same(h)}
              /\ work' = [x \in Workers |->
                   IF x # w /\ work[x].pc # "idle" /\ same(work[x].task)
                   THEN [work[x] EXCEPT !.gone = TRUE] ELSE done[x]]
              /\ UNCHANGED faults
           \/ /\ ~work[w].gone /\ Fault
              /\ work' = done
              /\ UNCHANGED hints
    /\ UNCHANGED <<nodeVars, proc, calls, stash, ackVars>>

CleanupHintPayload(w) ==
    /\ work[w].pc = "cleanup"
    /\ LET h == work[w].task
       IN  stash' = IF h.staged THEN [stash EXCEPT ![h.to][h.mut.ver] = NoBlob]
                    ELSE stash
    /\ work' = [work EXCEPT ![w] = IdleWork]
    /\ UNCHANGED <<nodeVars, proc, calls, hints, ackVars, faults>>

-----------------------------------------------------------------------------
(* The client of a request goes away and cancels the handler's context:    *)
(* what it still had to do fails, its replica requests lose their caller.  *)
ClientGone(s) ==
    /\ proc[s].pc \notin {"idle", "assigned", "deleting", "written"}
    /\ Fault
    /\ Become(s, Idle)
    /\ calls' = {IF c.from = s THEN [c EXCEPT !.from = Nobody] ELSE c :
                   c \in calls}
    /\ UNCHANGED <<nodeVars, hintVars, work, ackVars>>

(* A node crashes and restarts: rows, blobs, hints and staged payloads     *)
(* survive, handlers and goroutines do not.                                *)

CrashReplica(n) ==
    /\ Fault
    /\ LET lost == {c \in calls : c.to = n}
       IN  /\ lost # {}
           /\ calls' = calls \ lost
           /\ proc' = [p \in Procs |->
                IF \E c \in lost : c.from = p
                THEN [proc[p] EXCEPT !.fails = @ \cup {n}] ELSE proc[p]]
           /\ work' = [w \in Workers |->
                IF \E c \in lost : c.from = w THEN IdleWork ELSE work[w]]
    /\ UNCHANGED <<nodeVars, hintVars, ackVars>>

CrashPrimary ==
    /\ Fault
    /\ proc' = [p \in Procs |-> Idle]
    /\ work' = [w \in Workers |-> IdleWork]
    /\ calls' = {[c EXCEPT !.from = Nobody] :
                   c \in {d \in calls : d.to # Primary}}
    /\ UNCHANGED <<nodeVars, hintVars, ackVars>>

-----------------------------------------------------------------------------
PutStep(s) ==
    \/ \E b \in Bytes : PutStart(s, b)
    \/ PutReject(s) \/ PutBlob(s) \/ PutCommit(s) \/ PutCommitFail(s)
    \/ PutOpen(s)

DeleteStep(s) ==
    \/ DeleteStart(s) \/ TombstoneRead(s) \/ TombstoneBlob(s)
    \/ TombstoneCommit(s) \/ TombstoneCommitFail(s)

ReplicateStep(s) ==
    \/ QuorumCheck(s) \/ Ack(s)
    \/ \E r \in Replicas : Send(s, r) \/ HintFailed(s, r) \/ HintDropped(s, r)

ReadStep(s) ==
    \/ ReadStart(s) \/ ReadDecide(s) \/ HeadAnswer(s) \/ StreamFromNode(s)
    \/ GetAnswer(s) \/ ReadReturn(s)

HealStep(h) ==
    \/ HealList(h) \/ HealObject(h) \/ HealWinning(h) \/ HealCollect(h)
    \/ HealDecide(h) \/ HealReturn(h)

CollectStep(p) ==
    \/ \E r \in Replicas : HeadOnNode(p, r)
    \/ \E r \in Nodes : Repair(p, r) \/ RepairDropped(p, r)

CallStep(c) ==
    \/ ReplicaCheck(c) \/ ReplicaBlob(c) \/ ReplicaMismatch(c)
    \/ ReplicaCommit(c) \/ ReplicaFail(c) \/ Disconnect(c)

WorkStep(w) ==
    \/ \E h \in hints : ListDueHints(w, h)
    \/ DeliverHint(w) \/ MarkHintDelivered(w) \/ CleanupHintPayload(w)

Next ==
    \/ \E s \in Writers : PutStep(s) \/ DeleteStep(s) \/ ReplicateStep(s)
    \/ \E s \in Readers : ReadStep(s)
    \/ \E s \in Slots : ClientGone(s)
    \/ \E h \in Healers : HealStep(h)
    \/ \E p \in Procs : CollectStep(p)
    \/ \E c \in calls : CallStep(c)
    \/ \E w \in Workers : WorkStep(w)
    \/ \E n \in Replicas : CrashReplica(n)
    \/ CrashPrimary

Spec == Init /\ [][Next]_vars

(* Fairness.  A request handler or goroutine that can run does run; a node *)
(* that serves a request and is not interrupted serves it to the end.      *)
(* Capped backoff makes every pending hint due again and again, and the    *)
(* batch is ordered by due time, so no pending hint is passed over for     *)
(* ever.  Clients, faults and healing scans need not happen.               *)
WriteProgress(s) ==
    \/ PutBlob(s) \/ PutCommit(s) \/ PutOpen(s)
    \/ TombstoneRead(s) \/ TombstoneBlob(s) \/ TombstoneCommit(s)
    \/ QuorumCheck(s) \/ Ack(s)
    \/ \E r \in Replicas : Send(s, r) \/ HintFailed(s, r)

CallProgress(x, n) ==
    \E c \in calls : /\ c.from = x /\ c.to = n
                     /\ \/ ReplicaCheck(c) \/ ReplicaBlob(c)
                        \/ ReplicaMismatch(c) \/ ReplicaCommit(c)

HintDue(w, n, v) ==
    \E h \in hints : h.to = n /\ h.mut.ver = v /\ ListDueHints(w, h)

WriteFairness ==
    /\ \A s \in Writers : WF_vars(WriteProgress(s))
    /\ \A x \in Slots \cup Workers, n \in Nodes : WF_vars(CallProgress(x, n))

HintFairness ==
    \A w \in Workers :
        /\ WF_vars(DeliverHint(w) \/ MarkHintDelivered(w)
                   \/ CleanupHintPayload(w))
        /\ \A n \in Nodes, v \in 1..MaxVersion : SF_vars(HintDue(w, n, v))

HealFairness ==
    \A h \in Healers : WF_vars(HealStep(h) \/ CollectStep(h))

FairSpec == Spec /\ WriteFairness /\ HintFairness /\ HealFairness

-----------------------------------------------------------------------------
(* At most one mutation of the object runs on the primary at a time.  The  *)
(* code has no lock that ensures it: it is an assumption on the clients,   *)
(* who also send no COPY and no multipart upload to the key.               *)
Serial == \A s, t \in Writers : s = t

(* QuorumDurable: every PUT or DELETE that was answered with success was   *)
(* committed, with its own version and content, by at least W nodes        *)
(* (Coordinator.PutObject and DeleteObject count acknowledgements that     *)
(* replicas may give for rows they already hold).                          *)
QuorumDurable ==
    \A m \in acked :
        WriteSatisfied(Quorums, Cardinality({n \in Nodes : m \in held[n]}))

(* Provenance: no node ever commits a (version, content) pair that the     *)
(* primary did not commit itself: retries, hints, repairs and healing may  *)
(* delay or repeat a mutation but never pair a version with the content or *)
(* the tombstone of another.                                               *)
Provenance == \A n \in Nodes : held[n] \subseteq held[Primary]

(* PrimaryNewest: no replica is ahead of the primary's metadata row, so    *)
(* NextObjectVersion on the primary is above every version in the cluster. *)
PrimaryNewest == \A n \in Nodes : row[n].ver <= row[Primary].ver

(* VersionUnique: a version number of the object stands for one mutation,  *)
(* on whatever node and at whatever time it was committed.                 *)
VersionUnique ==
    \A n \in Nodes : \A a \in held[n], b \in held[Primary] :
        a.ver = b.ver => a = b

(* ReadFresh: a GET or HEAD answers with a version at least as new as      *)
(* every mutation acknowledged before the read began, and NotFound only    *)
(* from a tombstone at least as new (quorumRead with PickNewestState).  A  *)
(* read whose local metadata SELECT failed has an empty floor.             *)
ReadFresh ==
    \A s \in Slots : proc[s].pc = "answered" =>
        \A m \in proc[s].floor : proc[s].mut.ver >= m.ver

(* HintCoverage: for every acknowledged mutation, each node of the         *)
(* placement set has committed it at some time or a hint for it is         *)
(* pending, unless storing that very hint failed.  Concurrent deliveries,  *)
(* upserts of a hint and crashes never lose one.                           *)
HintCoverage ==
    \A m \in acked : \A r \in Nodes :
        \/ m \in held[r]
        \/ \E h \in hints : h.to = r /\ h.mut = m
        \/ <<r, m>> \in dropped

(* StagedPayload: a pending hint with a staged payload finds the bytes of  *)
(* its own version there; the file is gone only if the target has already  *)
(* committed the hint's mutation (the staged file is shared by the put and *)
(* the repair hint of a version).                                          *)
StagedPayload ==
    \A h \in hints : h.staged =>
        \/ stash[h.to][h.mut.ver] = h.mut.val
        \/ stash[h.to][h.mut.ver] = NoBlob /\ h.mut \in held[h.to]

(* ReplicaMonotonic: the row of a node is never replaced by one of an      *)
(* older version (PutReplica and PutTombstoneReplica reject stale writes). *)
ReplicaMonotonic == [][\A n \in Nodes : row'[n].ver >= row[n].ver]_row

(* NoMixedRead: a GET answers with the bytes of the version whose ETag it  *)
(* reports.                                                                *)
NoMixedRead ==
    \A s \in Slots : proc[s].pc = "answered" =>
        proc[s].body \in {NoBlob, proc[s].mut.val}

(* ReplicatedMeansAll: replication_status "replicated" on a live object    *)
(* says that every replica has acknowledged the primary's current row.     *)
ReplicatedMeansAll ==
    status = "replicated" /\ Live(row[Primary]) =>
        \A n \in Nodes : row[Primary] \in held[n]

(* AckedReachesAll: an acknowledged mutation reaches every replica, which  *)
(* comes to hold that version or a newer one, unless its hint was dropped  *)
(* or stored without its payload.                                          *)
AckedReachesAll ==
    \A v \in 1..MaxVersion : \A r \in Replicas :
        (\E m \in acked : m.ver = v)
            ~> \/ \E m \in held[r] : m.ver >= v
               \/ dropped # {}
               \/ \E h \in hints : /\ h.to = r /\ h.mut.ver = v
                                    /\ h.kind = "put" /\ ~h.staged

(* MissingHealed: a replica without the object, seen while the primary     *)
(* holds it as partial, is given the object or at least a repair hint.     *)
MissingHealed ==
    \A r \in Replicas :
        (status = "partial" /\ ~Found(row[r]))
            ~> (Found(row[r]) \/ \E h \in hints : h.to = r)

(* TombstoneRepaired: when a read finds a tombstone and an older replica,  *)
(* and no write is under way, a hint is pending for that replica or it has *)
(* caught up since (scheduleReadRepair).                                   *)
TombstoneRepaired ==
    \A s \in Readers :
        (/\ proc[s].pc = "answered" /\ proc[s].mut.val = Tombstone
         /\ \A w \in Writers : proc[w].pc = "idle") =>
            \A n \in FoundNodes(proc[s].seen) :
                proc[s].seen[n].ver < proc[s].mut.ver =>
                    \/ row[n].ver >= proc[s].mut.ver
                    \/ \E h \in hints : /\ h.to = n
                                         /\ h.mut.ver >= proc[s].mut.ver

(* FailedDeleteHarmless: a DELETE that ends without its tombstone leaves   *)
(* the live row of the primary with its blob (PutTombstone).               *)
FailedDeleteHarmless ==
    [][\A s \in Writers :
         (/\ proc[s].mut.val = Tombstone /\ proc'[s].pc = "idle"
          /\ Live(row[Primary])) => blob[Primary] # NoBlob]_vars

=============================================================================
