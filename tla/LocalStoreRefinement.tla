------------------------ MODULE LocalStoreRefinement ------------------------
(* The node of LocalStore as an ObjectMap.  The content of a key is what a *)
(* GET would return: the bytes of its file if the key has a row.           *)
EXTENDS LocalStore

ContentOf(k) == IF Live(k) THEN FileOf(k) ELSE NoFile

(* An overwrite takes effect with the rename of the file, the first PUT of *)
(* a key with the commit of its row, a DELETE with the removal of the row. *)
Applied(q) ==
    \/ q.pc \in {"unlinking", "done"}
    \/ q.pc = "stored" /\ Live(q.key)

RequestOf(q) ==
    IF q.pc \in {"writing", "stored", "deleting", "unlinking", "done"}
    THEN [op |-> q.op, key |-> q.key, val |-> q.body, applied |-> Applied(q)]
    ELSE [op |-> "none", key |-> NoFile, val |-> NoFile, applied |-> FALSE]

OM == INSTANCE ObjectMap WITH
        Absent <- NoFile,
        content <- [k \in Keys |-> ContentOf(k)],
        req <- [c \in Clients |-> RequestOf(proc[c])]

(* ImplementsObjectMap: with clients that take turns, and a process that   *)
(* may crash between any two steps, every PUT, DELETE and COPY changes     *)
(* what GET returns for its own key, at once, at most once, and before it  *)
(* is answered with success.                                               *)
ImplementsObjectMap == OM!MapSpec

=============================================================================
