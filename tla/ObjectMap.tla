----------------------------- MODULE ObjectMap ------------------------------
(***************************************************************************)
(* What a single node promises to clients that take turns: a map from keys *)
(* to contents.  A request changes one key, at once and at most once; it   *)
(* is answered with success only when that has happened, and one that      *)
(* fails or is cut off by a crash has happened entirely or not at all.     *)
(***************************************************************************)
CONSTANTS Keys, Clients, Bytes, Absent

VARIABLES
    content,  \* key -> what a GET of it returns
    req       \* client -> the mutation it has in progress

NoReq == [op |-> "none", key |-> Absent, val |-> Absent, applied |-> FALSE]

MapInit ==
    /\ content = [k \in Keys |-> Absent]
    /\ req = [c \in Clients |-> NoReq]

Open(c, op, k, v) ==
    /\ req[c].op = "none"
    /\ req' = [req EXCEPT ![c] = [op |-> op, key |-> k, val |-> v,
                                  applied |-> FALSE]]
    /\ UNCHANGED content

OpenCopy(c, s, k) ==
    /\ content[s] # Absent
    /\ Open(c, "copy", k, content[s])

Apply(c) ==
    /\ req[c].op # "none" /\ ~req[c].applied
    /\ req' = [req EXCEPT ![c] = [req[c] EXCEPT !.applied = TRUE]]
    /\ content' = [content EXCEPT ![req[c].key] = req[c].val]

(* The end of a request: with success if it was applied, with a failure or *)
(* a crash in any case.                                                    *)
Close(c) ==
    /\ req[c].op # "none"
    /\ req' = [req EXCEPT ![c] = NoReq]
    /\ UNCHANGED content

MapNext ==
    \E c \in Clients :
        \/ \E k \in Keys, v \in Bytes : Open(c, "put", k, v)
        \/ \E k \in Keys : Open(c, "delete", k, Absent)
        \/ \E s, k \in Keys : OpenCopy(c, s, k)
        \/ Apply(c) \/ Close(c)

MapSpec == MapInit /\ [][MapNext]_<<content, req>>

=============================================================================
