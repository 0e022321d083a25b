------------------------ MODULE ReplicationRefinement ------------------------
(***************************************************************************)
(* With mutations that do not overlap (Serial), the replicated object      *)
(* implements ObjectLog.  The log is the sequence of rows the primary has  *)
(* committed; a read is active from the moment it reads the primary's row  *)
(* until it returns, and answered once its result is fixed.                *)
(***************************************************************************)
EXTENDS Replication

(* The value the primary committed as version v.                           *)
CommittedVal(v) == (CHOOSE m \in held[Primary] : m.ver = v).val

LogOf == [v \in 1..row[Primary].ver |-> CommittedVal(v)]

ReadOf(s) ==
    LET answered == proc[s].pc = "answered"
    IN  IF proc[s].pc \notin {"heads", "repair", "opening", "answered"}
        THEN [active |-> FALSE, floor |-> {}, ver |-> 0, val |-> {}]
        ELSE [active |-> TRUE,
              floor  |-> {m.ver : m \in proc[s].floor},
              ver    |-> IF answered THEN proc[s].mut.ver ELSE 0,
              val    |-> IF answered THEN {proc[s].mut.val} ELSE {}]

Object == INSTANCE ObjectLog WITH
    Values <- Bytes \cup {Tombstone},
    log    <- LogOf,
    acked  <- {m.ver : m \in acked},
    reads  <- [s \in Readers |-> ReadOf(s)]

(* ImplementsObjectLog: every step of the coordinator, the replicas, the   *)
(* hint worker, the healing scan or a crash is a step of ObjectLog or      *)
(* leaves the object unchanged for its clients.                            *)
ImplementsObjectLog == Object!Spec

=============================================================================
