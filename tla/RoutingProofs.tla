--------------------------- MODULE RoutingProofs ----------------------------
(***************************************************************************)
(* Proofs about forwarded requests, for any number of nodes, keys, values, *)
(* requests and broken connections.                                        *)
(***************************************************************************)
EXTENDS Routing, TLAPS

(* A request that some node has names what its handler uses.               *)
Named(r) ==
    /\ r.op \in OpNames /\ r.at \in Nodes /\ r.origin \in Nodes /\ r.key \in Keys
    /\ r.op = "copy" => r.src \in Keys

(* The inductive strengthening of RoutingTypeOK.                           *)
TInv ==
    /\ RoutingTypeOK
    /\ req.st \in {"at", "reply"} => Named(req)
    /\ \A r \in late : Named(r)

(* What a handler stores is an object, or nothing.                         *)
LEMMA EffectLemma ==
    ASSUME RoutingTypeOK, NEW r \in ReqStates, Named(r)
    PROVE  Effect(r) \in Stored
  BY DEF RoutingTypeOK, Named, Effect, ReqStates, Stored

(* The store keeps its type.                                               *)
LEMMA ApplyLemma ==
    ASSUME RoutingTypeOK, NEW r \in ReqStates, Named(r), Apply(r)
    PROVE  store' \in [Nodes -> [Keys -> Stored]]
  BY EffectLemma DEF RoutingTypeOK, Named, Apply

(* So do the client's records.                                             *)
LEMMA LearnLemma ==
    ASSUME RoutingTypeOK, Named(req), Learn(req)
    PROVE  known' \in [Keys -> Stored] /\ unsure' \in [Keys -> SUBSET Stored]
<1>1. req.val \in Stored /\ req.key \in Keys /\ Values \subseteq Stored
  BY DEF RoutingTypeOK, Named, ReqStates, Stored
<1>2. known' \in [Keys -> Stored]
  BY <1>1 DEF RoutingTypeOK, Learn
<1>3. unsure' \in [Keys -> SUBSET Stored]
  BY <1>1 DEF RoutingTypeOK, Learn
<1>4. QED
  BY <1>2, <1>3

(* Every step preserves the types.                                         *)
LEMMA TypeStep == TInv /\ [RoutingNext]_routingVars => TInv'
<1> SUFFICES ASSUME TInv, [RoutingNext]_routingVars PROVE TInv'
  OBVIOUS
<1> USE RoutingAssumption
<1>0. RoutingTypeOK /\ req \in ReqStates
  BY DEF TInv, RoutingTypeOK
<1>1. ASSUME NEW n \in Nodes, NEW op \in OpNames, NEW k \in Keys,
             NEW s \in Keys \cup {None}, NEW v \in Stored, NEW rest \in SUBSET Keys,
             Send(n, op, k, s, v, rest), op = "copy" => s \in Keys
      PROVE  TInv'
  <2>1. /\ req' = [st |-> "at", op |-> op, key |-> k, src |-> s, val |-> v,
                   origin |-> n, at |-> n, internal |-> FALSE, todo |-> rest,
                   res |-> "none"]
        /\ UNCHANGED <<primaryOf, store, late, known, unsure, breaks>>
    BY <1>1 DEF Send, NoReq
  <2>2. sent' \in 0..MaxRequests
    BY <1>0, <1>1 DEF Send, RoutingTypeOK
  <2>3. req' \in ReqStates /\ Named(req')
    BY <1>1, <2>1 DEF ReqStates, Named
  <2>4. req'.internal <=> req'.at # req'.origin
    BY <2>1
  <2> QED
    BY <1>0, <2>1, <2>2, <2>3, <2>4 DEF TInv, RoutingTypeOK, Named
<1>2. CASE SendAny
  <2>1. PICK n \in Nodes, k \in Keys :
          \/ \E v \in Values, op \in {"put", "complete"} : Send(n, op, k, None, v, {})
          \/ \E op \in {"get", "delete"} : Send(n, op, k, None, None, {})
          \/ \E s \in Keys \ {k} : Send(n, "copy", k, s, None, {})
          \/ \E rest \in SUBSET (Keys \ {k}) : Send(n, "batch", k, None, None, rest)
    BY <1>2 DEF SendAny
  <2>2. CASE \E v \in Values, op \in {"put", "complete"} : Send(n, op, k, None, v, {})
    BY <1>1, <2>2 DEF OpNames, Stored
  <2>3. CASE \E op \in {"get", "delete"} : Send(n, op, k, None, None, {})
    BY <1>1, <2>3 DEF OpNames, Stored
  <2>4. CASE \E s \in Keys \ {k} : Send(n, "copy", k, s, None, {})
    BY <1>1, <2>4 DEF OpNames, Stored
  <2>5. CASE \E rest \in SUBSET (Keys \ {k}) : Send(n, "batch", k, None, None, rest)
    BY <1>1, <2>5 DEF OpNames, Stored
  <2> QED
    BY <2>1, <2>2, <2>3, <2>4, <2>5
<1>3. CASE Forward
  <2>1. Named(req) /\ req.at = req.origin
    BY <1>0, <1>3 DEF TInv, RoutingTypeOK, Forward, Forwards
  <2>2. primaryOf[req.at][req.key] \in Nodes
    BY <1>0, <2>1 DEF Named, RoutingTypeOK
  <2>3. /\ req' = [req EXCEPT !.at = primaryOf[req.at][req.key], !.internal = TRUE]
        /\ primaryOf[req.at][req.key] # req.at
        /\ UNCHANGED <<primaryOf, store, late, known, unsure, sent, breaks>>
    BY <1>3 DEF Forward, Forwards
  <2>4. req' \in ReqStates /\ Named(req') /\ (req'.internal <=> req'.at # req'.origin)
    BY <1>0, <2>1, <2>2, <2>3 DEF ReqStates, Named
  <2> QED
    BY <1>0, <2>3, <2>4 DEF TInv, RoutingTypeOK, Named
<1>4. CASE Execute
  <2>1. Named(req)
    BY <1>4 DEF TInv, Execute
  <2>2. Effect(req) \in Stored /\ store' \in [Nodes -> [Keys -> Stored]]
    BY <1>0, <1>4, <2>1, EffectLemma, ApplyLemma DEF Execute
  <2>3. /\ \E res \in {"missing", "ok"} :
             req' = [req EXCEPT !.st = "reply", !.val = Effect(req), !.res = res]
        /\ UNCHANGED <<primaryOf, late, known, unsure, sent, breaks>>
    BY <1>4 DEF Execute
  <2>4. req' \in ReqStates /\ Named(req') /\ (req'.internal <=> req'.at # req'.origin)
    BY <1>0, <2>1, <2>2, <2>3 DEF ReqStates, Named, RoutingTypeOK
  <2> QED
    BY <1>0, <2>2, <2>3, <2>4 DEF TInv, RoutingTypeOK, Named
<1>5. CASE Break
  <2>1. Named(req)
    BY <1>5 DEF TInv, Break
  <2>2. /\ req' = [req EXCEPT !.st = "reply", !.at = req.origin,
                              !.internal = FALSE, !.res = "error"]
        /\ late' \subseteq late \cup {req}
        /\ UNCHANGED <<primaryOf, store, known, unsure, sent>>
    BY <1>5 DEF Break
  <2>3. breaks' \in 0..MaxBreaks
    BY <1>0, <1>5 DEF Break, RoutingTypeOK
  <2>4. req' \in ReqStates /\ Named(req') /\ (req'.internal <=> req'.at # req'.origin)
    BY <1>0, <2>1, <2>2 DEF ReqStates, Named
  <2>5. late' \subseteq ReqStates /\ \A r \in late' : Named(r)
    BY <1>0, <2>1, <2>2 DEF TInv, RoutingTypeOK
  <2> QED
    BY <1>0, <2>2, <2>3, <2>4, <2>5 DEF TInv, RoutingTypeOK, Named
<1>6. ASSUME NEW r \in late, ExecuteLate(r) PROVE TInv'
  <2>1. r \in ReqStates /\ Named(r)
    BY <1>0 DEF TInv, RoutingTypeOK
  <2>2. store' \in [Nodes -> [Keys -> Stored]]
    BY <1>0, <1>6, <2>1, ApplyLemma DEF ExecuteLate
  <2> QED
    BY <1>0, <1>6, <2>2 DEF TInv, RoutingTypeOK, Named, ExecuteLate
<1>7. CASE Reply
  <2>1. Named(req)
    BY <1>7 DEF TInv, Reply
  <2>2. known' \in [Keys -> Stored] /\ unsure' \in [Keys -> SUBSET Stored]
    BY <1>0, <1>7, <2>1, LearnLemma DEF Reply
  <2>3. UNCHANGED <<primaryOf, store, late, sent, breaks>>
    BY <1>7 DEF Reply
  <2>4. CASE req' = [req EXCEPT !.st = "done", !.at = req.origin, !.internal = FALSE]
    <3>1. req' \in ReqStates /\ req'.st = "done"
          /\ (req'.internal <=> req'.at # req'.origin)
      BY <1>0, <2>1, <2>4 DEF ReqStates, Named
    <3> QED
      BY <1>0, <2>2, <2>3, <3>1 DEF TInv, RoutingTypeOK, Named
  <2>5. ASSUME NEW k \in req.todo,
               req' = [NoReq EXCEPT !.st = "at", !.op = "batch", !.key = k,
                         !.origin = req.origin, !.at = req.origin,
                         !.todo = req.todo \ {k}]
        PROVE  TInv'
    <3>1. k \in Keys /\ req.todo \ {k} \in SUBSET Keys
      BY <1>0 DEF ReqStates
    <3>2. req' \in ReqStates /\ Named(req')
          /\ (req'.internal <=> req'.at # req'.origin)
      BY <2>1, <2>5, <3>1 DEF ReqStates, Named, NoReq, OpNames, Stored
    <3> QED
      BY <1>0, <2>2, <2>3, <3>2 DEF TInv, RoutingTypeOK, Named
  <2> QED
    BY <1>7, <2>4, <2>5 DEF Reply
<1>8. CASE Done
  BY <1>0, <1>8 DEF TInv, RoutingTypeOK, Named, Done, NoReq, ReqStates, Stored
<1>9. CASE UNCHANGED routingVars
  BY <1>0, <1>9 DEF TInv, RoutingTypeOK, Named, routingVars
<1>10. QED
  BY <1>2, <1>3, <1>4, <1>5, <1>6, <1>7, <1>8, <1>9 DEF RoutingNext, HandlerStep

(* The types hold throughout; in particular a request counts as a peer's   *)
(* exactly while a node other than the one the client asked handles it,    *)
(* also where the nodes place keys differently (maybeForwardObject).       *)
THEOREM Typed == RoutingSpec => []RoutingTypeOK
<1>1. RoutingInit => TInv
  BY RoutingAssumption DEF RoutingInit, TInv, RoutingTypeOK, NoReq, ReqStates, Stored
<1>2. TInv => RoutingTypeOK
  BY DEF TInv
<1>3. QED
  BY <1>1, <1>2, TypeStep, PTL DEF RoutingSpec

-----------------------------------------------------------------------------
(* Where the nodes agree, a request that a peer sent is at the primary of  *)
(* its key.                                                                *)
Placed(r) ==
    /\ r.op # "complete"
    /\ AgreedPlacement /\ r.internal => primaryOf[r.at][r.key] = r.at

(* The inductive strengthening of OnlyPrimaryStores.                       *)
PInv ==
    /\ TInv /\ OnlyPrimaryStores
    /\ req.st \in {"at", "reply"} => Placed(req)
    /\ \A r \in late : r.internal /\ Placed(r)

(* No step changes the configuration.                                      *)
LEMMA SameViews ==
    ASSUME [RoutingNext]_routingVars
    PROVE  primaryOf' = primaryOf /\ (AgreedPlacement' <=> AgreedPlacement)
<1>1. primaryOf' = primaryOf
  BY DEF RoutingNext, HandlerStep, SendAny, Send, Forward, Execute, Break,
         ExecuteLate, Reply, Done, routingVars
<1>2. QED
  BY <1>1 DEF AgreedPlacement

(* A handler at the primary of a key keeps objects at their primaries.     *)
LEMMA ApplyPlaced ==
    ASSUME RoutingTypeOK, OnlyPrimaryStores, NEW r \in ReqStates, Named(r), Apply(r),
           primaryOf' = primaryOf, AgreedPlacement' <=> AgreedPlacement,
           AgreedPlacement => primaryOf[r.at][r.key] = r.at
    PROVE  OnlyPrimaryStores'
<1>1. SUFFICES ASSUME AgreedPlacement, NEW n \in Nodes, NEW k \in Keys,
                      store'[n][k] # None
               PROVE  primaryOf[n][k] = n
  BY DEF OnlyPrimaryStores
<1>2. CASE n = r.at /\ k = r.key
  BY <1>1, <1>2
<1>3. CASE ~(n = r.at /\ k = r.key)
  BY <1>1, <1>3 DEF RoutingTypeOK, OnlyPrimaryStores, Named, Apply
<1>4. QED
  BY <1>2, <1>3

(* Every step preserves the placement.                                     *)
LEMMA PlacedStep ==
    ASSUME "complete" \notin Ops
    PROVE  PInv /\ [RoutingNext]_routingVars => PInv'
<1> SUFFICES ASSUME PInv, [RoutingNext]_routingVars PROVE PInv'
  OBVIOUS
<1>0. RoutingTypeOK /\ TInv /\ req \in ReqStates /\ OnlyPrimaryStores
  BY DEF PInv, TInv, RoutingTypeOK
<1>v. primaryOf' = primaryOf /\ (AgreedPlacement' <=> AgreedPlacement)
  BY SameViews
<1>t. TInv'
  BY <1>0, TypeStep
<1>1. ASSUME NEW n, NEW op, NEW k, NEW s, NEW v, NEW rest,
             Send(n, op, k, s, v, rest)
      PROVE  PInv'
  <2>1. op # "complete" /\ UNCHANGED <<primaryOf, store, late>>
    BY <1>1 DEF Send
  <2>2. req'.op = op /\ req'.internal = FALSE
    BY <1>1 DEF Send, NoReq
  <2>3. Placed(req')
    BY <2>1, <2>2 DEF Placed
  <2> QED
    BY <1>0, <1>t, <1>v, <2>1, <2>3 DEF PInv, Placed, OnlyPrimaryStores
<1>2. CASE SendAny
  BY <1>1, <1>2 DEF SendAny
<1>3. CASE Forward
  <2>1. Named(req) /\ req.op # "complete"
    BY <1>3 DEF PInv, TInv, Forward, Forwards
  <2>2. /\ req' = [req EXCEPT !.at = primaryOf[req.at][req.key], !.internal = TRUE]
        /\ UNCHANGED <<primaryOf, store, late>>
    BY <1>3 DEF Forward
  <2>3. /\ req'.op = req.op /\ req'.key = req.key
        /\ req'.at = primaryOf[req.at][req.key]
    BY <1>0, <2>2 DEF ReqStates
  <2>4. AgreedPlacement => primaryOf[req'.at][req'.key] = req'.at
    BY <1>0, <2>1, <2>3, RoutingAssumption DEF AgreedPlacement, Named, RoutingTypeOK
  <2> QED
    BY <1>0, <1>t, <1>v, <2>1, <2>2, <2>3, <2>4 DEF PInv, Placed, OnlyPrimaryStores
<1>4. CASE Execute
  <2>1. Named(req) /\ Placed(req)
    BY <1>4 DEF PInv, TInv, Execute
  <2>2. AgreedPlacement => primaryOf[req.at][req.key] = req.at
    BY <1>4, <2>1 DEF Execute, Local, Forwards, Placed
  <2>3. OnlyPrimaryStores'
    BY <1>0, <1>4, <1>v, <2>1, <2>2, ApplyPlaced DEF Execute
  <2>4. /\ req'.op = req.op /\ req'.key = req.key /\ req'.at = req.at
        /\ UNCHANGED late
    BY <1>0, <1>4 DEF Execute, ReqStates
  <2> QED
    BY <1>t, <1>v, <2>1, <2>2, <2>3, <2>4 DEF PInv, Placed
<1>5. CASE Break
  <2>1. req.internal /\ Placed(req)
    BY <1>5 DEF PInv, Break
  <2>2. late' \subseteq late \cup {req} /\ UNCHANGED store
    BY <1>5 DEF Break
  <2>3. req'.op = req.op /\ req'.internal = FALSE
    BY <1>0, <1>5 DEF Break, ReqStates
  <2>4. Placed(req')
    BY <2>1, <2>3 DEF Placed
  <2>5. \A r \in late' : r.internal /\ Placed(r)
    BY <2>1, <2>2 DEF PInv
  <2> QED
    BY <1>0, <1>t, <1>v, <2>2, <2>4, <2>5 DEF PInv, Placed, OnlyPrimaryStores
<1>6. ASSUME NEW r \in late, ExecuteLate(r) PROVE PInv'
  <2>1. /\ r \in ReqStates /\ Named(r)
        /\ AgreedPlacement => primaryOf[r.at][r.key] = r.at
    BY DEF PInv, TInv, RoutingTypeOK, Placed
  <2>2. OnlyPrimaryStores'
    BY <1>0, <1>6, <1>v, <2>1, ApplyPlaced DEF ExecuteLate
  <2> QED
    BY <1>6, <1>t, <1>v, <2>2 DEF PInv, Placed, ExecuteLate
<1>7. CASE Reply
  <2>1. UNCHANGED <<primaryOf, store, late>>
    BY <1>7 DEF Reply
  <2>2. CASE req' = [req EXCEPT !.st = "done", !.at = req.origin, !.internal = FALSE]
    <3>1. req'.st = "done"
      BY <1>0, <2>2 DEF ReqStates
    <3> QED
      BY <1>0, <1>t, <1>v, <2>1, <3>1 DEF PInv, Placed, OnlyPrimaryStores
  <2>3. ASSUME NEW k \in req.todo,
               req' = [NoReq EXCEPT !.st = "at", !.op = "batch", !.key = k,
                         !.origin = req.origin, !.at = req.origin,
                         !.todo = req.todo \ {k}]
        PROVE  PInv'
    <3>1. req'.op = "batch" /\ req'.internal = FALSE
      BY <2>3 DEF NoReq
    <3>2. Placed(req')
      BY <3>1 DEF Placed
    <3> QED
      BY <1>0, <1>t, <1>v, <2>1, <3>2 DEF PInv, Placed, OnlyPrimaryStores
  <2> QED
    BY <1>7, <2>2, <2>3 DEF Reply
<1>8. CASE Done
  BY <1>0, <1>t, <1>v, <1>8 DEF PInv, Placed, OnlyPrimaryStores, Done, NoReq
<1>9. CASE UNCHANGED routingVars
  BY <1>0, <1>t, <1>v, <1>9 DEF PInv, Placed, OnlyPrimaryStores, routingVars
<1>10. QED
  BY <1>2, <1>3, <1>4, <1>5, <1>6, <1>7, <1>8, <1>9 DEF RoutingNext, HandlerStep

(* Where the nodes agree on the placement and nobody uses multipart        *)
(* uploads, objects are on their primaries only, whichever node each       *)
(* request went to, also when forwarded requests are lost or run late      *)
(* (maybeForwardObject, deleteObjectKey).                                  *)
THEOREM PrimaryOnly ==
    ASSUME "complete" \notin Ops
    PROVE  RoutingSpec => []OnlyPrimaryStores
<1>1. RoutingInit => PInv
  BY RoutingAssumption
     DEF RoutingInit, PInv, TInv, RoutingTypeOK, NoReq, ReqStates, Stored, OnlyPrimaryStores
<1>2. PInv => OnlyPrimaryStores
  BY DEF PInv
<1>3. QED
  BY <1>1, <1>2, PlacedStep, PTL DEF RoutingSpec

=============================================================================
