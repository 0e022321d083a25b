------------------------------ MODULE Routing -------------------------------
(***************************************************************************)
(* Object requests in a cluster without replication: the node that gets    *)
(* one forwards it to the placement primary, unless it came from a peer;   *)
(* a batch delete forwards key by key; a copy reads its source where its   *)
(* destination lives; a multipart upload stays where it was started.       *)
(* Connections between nodes break before or after the peer has acted,     *)
(* and a peer may act on a request whose sender has given up.              *)
(*                                                                         *)
(* One client sends one request after the other, each to any node, so that *)
(* it knows what is stored from the answers it got.                        *)
(***************************************************************************)
EXTENDS Naturals, FiniteSets

CONSTANTS
    Nodes,
    Keys,
    Values,
    None,         \* no object, no key, no node
    Views,        \* the placements the nodes may have been configured with
    Ops,          \* the operations the client uses
    MaxRequests,  \* bound: requests that change something
    MaxBreaks     \* bound: broken connections

OpNames == {"put", "get", "delete", "batch", "copy", "complete"}

ASSUME RoutingAssumption ==
    /\ Views \subseteq [Nodes -> [Keys -> Nodes]] /\ Ops \subseteq OpNames
    /\ None \notin Values \cup Keys \cup Nodes
    /\ MaxRequests \in Nat /\ MaxBreaks \in Nat

Stored == Values \cup {None}

VARIABLES
    primaryOf, \* node -> key -> the primary, as that node places keys
    store,    \* node -> key -> the object it has
    req,      \* the client's request
    late,     \* requests that reached a peer and whose sender has given up
    known,    \* history: key -> what is stored as the last answer has it
    unsure,   \* history: key -> what requests that failed may have stored
    sent, breaks   \* histories, for the bounds

routingVars == <<primaryOf, store, req, late, known, unsure, sent, breaks>>

(* "at" is the node that handles the request, "internal" whether a peer    *)
(* sent it; a batch has the keys in "todo" left after "key".               *)
ReqStates == [st : {"idle", "at", "reply", "done"}, op : OpNames \cup {"none"},
              key : Keys \cup {None}, src : Keys \cup {None}, val : Stored,
              origin : Nodes \cup {None}, at : Nodes \cup {None},
              internal : BOOLEAN, todo : SUBSET Keys,
              res : {"none", "ok", "missing", "error"}]
NoReq == [st |-> "idle", op |-> "none", key |-> None, src |-> None, val |-> None,
          origin |-> None, at |-> None, internal |-> FALSE, todo |-> {},
          res |-> "none"]

RoutingTypeOK ==
    /\ primaryOf \in Views
    /\ store \in [Nodes -> [Keys -> Stored]]
    /\ req \in ReqStates
    /\ req.internal <=> req.at # req.origin
    /\ late \subseteq ReqStates
    /\ known \in [Keys -> Stored] /\ unsure \in [Keys -> SUBSET Stored]
    /\ sent \in 0..MaxRequests /\ breaks \in 0..MaxBreaks

RoutingInit ==
    /\ primaryOf \in Views
    /\ store = [n \in Nodes |-> [k \in Keys |-> None]]
    /\ req = NoReq /\ late = {}
    /\ known = [k \in Keys |-> None] /\ unsure = [k \in Keys |-> {}]
    /\ sent = 0 /\ breaks = 0

Writes(op) == op # "get"

-----------------------------------------------------------------------------
(* The client sends a request to node n.                                   *)
Send(n, op, k, s, v, rest) ==
    /\ req.st = "idle" /\ op \in Ops
    /\ Writes(op) => sent < MaxRequests
    /\ sent' = IF Writes(op) THEN sent + 1 ELSE sent
    /\ req' = [NoReq EXCEPT !.st = "at", !.op = op, !.key = k, !.src = s,
                            !.val = v, !.origin = n, !.at = n, !.todo = rest]
    /\ UNCHANGED <<primaryOf, store, late, known, unsure, breaks>>

SendAny ==
    \E n \in Nodes, k \in Keys :
        \/ \E v \in Values, op \in {"put", "complete"} : Send(n, op, k, None, v, {})
        \/ \E op \in {"get", "delete"} : Send(n, op, k, None, None, {})
        \/ \E s \in Keys \ {k} : Send(n, "copy", k, s, None, {})
        \/ \E rest \in SUBSET (Keys \ {k}) : Send(n, "batch", k, None, None, rest)

(* PUT is handled where it arrives.                                        *)
MutantForwards(r) ==
    /\ r.op \notin {"complete", "put"} /\ ~r.internal
    /\ primaryOf[r.at][r.key] # r.at

(* The multipart handlers never forward; the others do, if the request is  *)
(* a client's and the node is not the primary.                             *)
Forwards(r) ==
    /\ r.op # "complete" /\ ~r.internal
    /\ primaryOf[r.at][r.key] # r.at

(* maybeForwardObject and ForwardDelete.                                   *)
Forward ==
    /\ req.st = "at" /\ Forwards(req)
    /\ req' = [req EXCEPT !.at = primaryOf[req.at][req.key], !.internal = TRUE]
    /\ UNCHANGED <<primaryOf, store, late, known, unsure, sent, breaks>>

(* What node r.at does with the request: new content of the key, if any.   *)
Effect(r) ==
    IF r.op \in {"put", "complete"} THEN r.val
    ELSE IF r.op \in {"delete", "batch"} THEN None
    ELSE IF r.op = "copy" /\ store[r.at][r.src] # None THEN store[r.at][r.src]
    ELSE store[r.at][r.key]

Apply(r) == store' = [store EXCEPT ![r.at][r.key] = Effect(r)]

(* GET is answered from what the node has.                                 *)
MutantLocal(r) == r.op = "get" \/ ~Forwards(r)

Local(r) == ~Forwards(r)

Execute ==
    /\ req.st = "at" /\ Local(req)
    /\ Apply(req)
    /\ req' = [req EXCEPT !.st = "reply",
                 !.val = Effect(req),
                 !.res = IF \/ req.op = "copy" /\ store[req.at][req.src] = None
                            \/ req.op = "get" /\ store[req.at][req.key] = None
                         THEN "missing" ELSE "ok"]
    /\ UNCHANGED <<primaryOf, late, known, unsure, sent, breaks>>

(* The sender's request to the peer fails: before it was sent, while the   *)
(* peer has it, or with the answer under way.                              *)
Break ==
    /\ breaks < MaxBreaks /\ breaks' = breaks + 1
    /\ req.internal /\ req.st \in {"at", "reply"}
    /\ late' \in {late} \cup (IF req.st = "at" THEN {late \cup {req}} ELSE {})
    /\ req' = [req EXCEPT !.st = "reply", !.at = req.origin, !.internal = FALSE,
                          !.res = "error"]
    /\ UNCHANGED <<primaryOf, store, known, unsure, sent>>

ExecuteLate(r) ==
    /\ r \in late /\ late' = late \ {r}
    /\ Apply(r)
    /\ UNCHANGED <<primaryOf, req, known, unsure, sent, breaks>>

(* What the answer, or the entry for the key in the answer to a batch,     *)
(* tells the client.                                                       *)
Learn(r) ==
    /\ known' = IF r.res = "ok" /\ Writes(r.op)
                THEN [known EXCEPT ![r.key] = r.val] ELSE known
    /\ unsure' = IF r.res = "error" /\ Writes(r.op)
                 THEN [unsure EXCEPT ![r.key] = @ \cup
                         IF r.op = "copy" THEN Values ELSE {r.val}]
                 ELSE unsure

(* A peer that could not be reached is only logged.                        *)
MutantReply ==
    /\ req.st = "reply" /\ req.res # "error" /\ req.todo = {}
    /\ Learn(req)
    /\ req' = [req EXCEPT !.st = "done", !.at = req.origin, !.internal = FALSE]
    /\ UNCHANGED <<primaryOf, store, late, sent, breaks>>

(* The answer is passed on to the client; a batch goes on with its next    *)
(* key, whatever became of this one.                                       *)
Reply ==
    /\ req.st = "reply"
    /\ Learn(req)
    /\ \/ /\ req.todo = {}
          /\ req' = [req EXCEPT !.st = "done", !.at = req.origin, !.internal = FALSE]
       \/ \E k \in req.todo :
            req' = [NoReq EXCEPT !.st = "at", !.op = "batch", !.key = k,
                      !.origin = req.origin, !.at = req.origin,
                      !.todo = req.todo \ {k}]
    /\ UNCHANGED <<primaryOf, store, late, sent, breaks>>

Done ==
    /\ req.st = "done"
    /\ req' = NoReq
    /\ UNCHANGED <<primaryOf, store, late, known, unsure, sent, breaks>>

-----------------------------------------------------------------------------
HandlerStep == Forward \/ Execute \/ Reply \/ Done

RoutingNext ==
    \/ SendAny \/ HandlerStep \/ Break
    \/ \E r \in late : ExecuteLate(r)

RoutingSpec == RoutingInit /\ [][RoutingNext]_routingVars

(* Handlers run on; a connection answers or breaks.                        *)
RoutingFair == RoutingSpec /\ WF_routingVars(HandlerStep)

-----------------------------------------------------------------------------
(* Every node computes the same placement.                                 *)
AgreedPlacement ==
    \A m, n \in Nodes, k \in Keys : primaryOf[m][k] = primaryOf[n][k]

(* ReadsExplained: where the nodes agree on the placement, a GET sent to   *)
(* any node returns what the last answer about the key said is stored, or  *)
(* what a request that failed may have left there (maybeForwardObject,     *)
(* Forward, ForwardDelete).  A copy within one primary misses its source   *)
(* only if a GET might.                                                    *)
ReadsExplained ==
    AgreedPlacement /\ req.st = "done" =>
        /\ req.op = "get" /\ req.res # "error"
             => req.val \in {known[req.key]} \cup unsure[req.key]
        /\ (/\ req.op = "copy" /\ req.res = "missing"
            /\ primaryOf[req.origin][req.src] = primaryOf[req.origin][req.key])
             => None \in {known[req.src]} \cup unsure[req.src]

(* OnlyPrimaryStores: where the nodes agree on the placement, an object is *)
(* stored on its primary and nowhere else.                                 *)
OnlyPrimaryStores ==
    AgreedPlacement =>
      \A n \in Nodes, k \in Keys : store[n][k] # None => primaryOf[n][k] = n

(* RequestAnswered: every request is answered, also when nodes place keys  *)
(* differently: a request is forwarded once, never round and round.        *)
RequestAnswered == req.st = "at" ~> req.st = "done"

=============================================================================
