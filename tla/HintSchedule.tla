---------------------------- MODULE HintSchedule ----------------------------
(***************************************************************************)
(* When a hint is tried: due times, capped exponential backoff, batches of *)
(* limited size, the ticker's batch and the one of OnPeerRecovered.  What  *)
(* a delivery does to the replica is in Replication; here it succeeds if   *)
(* the target is up, fails if it is down, and does not end while it hangs: *)
(* the requests of the replicator have no timeout.  The module justifies   *)
(* the fairness assumed there.  The statements of the worker do not fail.  *)
(*                                                                         *)
(* Timestamps have nanoseconds, so hints become due one after the other:   *)
(* queue holds the due hints in the order of next_attempt_at, and wait the *)
(* seconds that the other pending hints still have to wait.                *)
(***************************************************************************)
EXTENDS Integers, Sequences, FiniteSets, SequencesExt

CONSTANTS
    HintIds,      \* the hints that may exist
    Targets,      \* nodes
    TargetOf,     \* hint -> target node
    BatchSize,    \* hintBatchSize
    MaxBackoff,   \* hintMaxBackoff in seconds
    MaxAttempts   \* bound: attempts counted; by then the backoff is capped

ASSUME ScheduleAssumption ==
    /\ IsFiniteSet(HintIds) /\ TargetOf \in [HintIds -> Targets]
    /\ BatchSize \in Nat \ {0} /\ MaxBackoff \in Nat \ {0}
    /\ MaxAttempts \in Nat /\ 2^MaxAttempts >= MaxBackoff

VARIABLES
    queue,     \* due hints, oldest next_attempt_at first
    wait,      \* hint -> seconds until it is due; 0: due or not pending
    attempts,  \* hint -> the attempts column
    pending,   \* the rows of replication_hints
    batch,     \* goroutine -> <<hint, attempts>> listed and not yet tried
    peer,      \* target -> "up", "down" or "hung" (it takes requests and
               \* does not answer)
    passed     \* history: hint -> ticker batches that left it out

PeerStates == {"up", "down", "hung"}
Workers == {"ticker", "monitor"}
scheduleVars == <<queue, wait, attempts, pending, batch, peer, passed>>

ScheduleTypeOK ==
    /\ queue \in Seq(HintIds) /\ IsInjective(queue)
    /\ pending \subseteq HintIds
    /\ \A h \in HintIds : h \in pending <=> (wait[h] > 0 \/ Contains(queue, h))
    /\ \A h \in HintIds : wait[h] = 0 \/ ~Contains(queue, h)
    /\ wait \in [HintIds -> 0..MaxBackoff]
    /\ attempts \in [HintIds -> 0..MaxAttempts]
    /\ batch \in [Workers -> Seq(HintIds \X (0..MaxAttempts))]
    /\ peer \in [Targets -> PeerStates]
    /\ passed \in [HintIds -> Nat]

ScheduleInit ==
    /\ queue = <<>> /\ pending = {}
    /\ wait = [h \in HintIds |-> 0]
    /\ attempts = [h \in HintIds |-> 0]
    /\ batch = [w \in Workers |-> <<>>]
    /\ peer \in [Targets -> PeerStates]
    /\ passed = [h \in HintIds |-> 0]

(* nextHintAttempt, in seconds from now.                                   *)
Backoff(n) == IF 2^n > MaxBackoff THEN MaxBackoff ELSE 2^n

(* The row that exists is left where it is.                                *)
MutantCreateHint(h) ==
    /\ queue' = Append(queue, h)
    /\ wait' = [wait EXCEPT ![h] = 0]
    /\ attempts' = IF h \in pending THEN attempts ELSE [attempts EXCEPT ![h] = 0]
    /\ pending' = pending \cup {h}
    /\ passed' = [passed EXCEPT ![h] = 0]
    /\ UNCHANGED <<batch, peer>>

(* CreateHint: next_attempt_at is now, for a new row and, with the         *)
(* attempts kept, for one that exists.                                     *)
CreateHint(h) ==
    /\ queue' = Append(Remove(queue, h), h)
    /\ wait' = [wait EXCEPT ![h] = 0]
    /\ attempts' = IF h \in pending THEN attempts ELSE [attempts EXCEPT ![h] = 0]
    /\ pending' = pending \cup {h}
    /\ passed' = [passed EXCEPT ![h] = 0]
    /\ UNCHANGED <<batch, peer>>

(* A statement without ORDER BY.                                           *)
MutantListed == {SubSeq(s, 1, IF Len(s) < BatchSize THEN Len(s) ELSE BatchSize) :
                 s \in SetToSeqs(ToSet(queue))}

(* ListDueHints: the first rows by next_attempt_at.                        *)
Listed == {SubSeq(queue, 1, IF Len(queue) < BatchSize THEN Len(queue)
                            ELSE BatchSize)}

(* The attempts the worker will compute the backoff from are those listed. *)
ListDueHints(w) ==
    /\ batch[w] = <<>> /\ queue # <<>>
    /\ \E l \in Listed :
         /\ batch' = [batch EXCEPT ![w] =
                        [i \in 1..Len(l) |-> <<l[i], attempts[l[i]]>>]]
         /\ passed' = IF w = "monitor" THEN passed
                      ELSE [h \in HintIds |->
                              IF Contains(l, h) THEN 0
                              ELSE IF Contains(queue, h) THEN passed[h] + 1
                              ELSE passed[h]]
    /\ UNCHANGED <<queue, wait, attempts, pending, peer>>

RecordHintFailure(h, n) ==
    /\ queue' = Remove(queue, h)
    /\ wait' = [wait EXCEPT ![h] = Backoff(n)]
    /\ attempts' = [attempts EXCEPT ![h] = IF @ < MaxAttempts THEN @ + 1 ELSE @]

(* A delivery is repeated until the target takes it.                       *)
MutantDeliver(w) ==
    /\ batch[w] # <<>>
    /\ LET h == Head(batch[w])[1]
           rest == [batch EXCEPT ![w] = Tail(@)]
       IN  /\ peer[TargetOf[h]] = "up"
           /\ passed' = [passed EXCEPT ![h] = 0]
           /\ queue' = Remove(queue, h)
           /\ wait' = [wait EXCEPT ![h] = 0]
           /\ pending' = pending \ {h}
           /\ batch' = [x \in Workers |-> SelectSeq(rest[x], LAMBDA e : e[1] # h)]
    /\ UNCHANGED <<attempts, peer>>

(* One turn of the loop of processDue, which waits for the target's answer *)
(* or for a broken connection.  Rows are deleted and updated by id: once   *)
(* the row is deleted, what another worker listed of it has no effect on   *)
(* the table any more.                                                     *)
Deliver(w) ==
    /\ batch[w] # <<>>
    /\ LET h == Head(batch[w])[1]
           rest == [batch EXCEPT ![w] = Tail(@)]
       IN  /\ peer[TargetOf[h]] # "hung"
           /\ passed' = [passed EXCEPT ![h] = 0]
           /\ IF peer[TargetOf[h]] = "up"
              THEN /\ queue' = Remove(queue, h)
                   /\ wait' = [wait EXCEPT ![h] = 0]
                   /\ pending' = pending \ {h}
                   /\ batch' = [x \in Workers |->
                        SelectSeq(rest[x], LAMBDA e : e[1] # h)]
                   /\ UNCHANGED attempts
              ELSE /\ RecordHintFailure(h, Head(batch[w])[2])
                   /\ batch' = rest
                   /\ UNCHANGED pending
    /\ UNCHANGED peer

(* OnPeerRecovered: ResetHintsForTarget makes the hints of the target due  *)
(* now, behind those that already are; its batch, ListDueHints("monitor"), *)
(* is over before the monitor's goroutine can reset hints again.           *)
ResetHintsForTarget(n) ==
    LET mine == {h \in pending : TargetOf[h] = n}
        others == SelectSeq(queue, LAMBDA h : h \notin mine)
    IN  /\ mine # {} /\ batch["monitor"] = <<>>
        /\ \E s \in SetToSeqs(mine) : queue' = others \o s
        /\ wait' = [h \in HintIds |-> IF h \in mine THEN 0 ELSE wait[h]]
        /\ attempts' = [h \in HintIds |-> IF h \in mine THEN 0 ELSE attempts[h]]
        /\ passed' = [h \in HintIds |-> IF h \in mine THEN 0 ELSE passed[h]]
        /\ UNCHANGED <<pending, batch, peer>>

(* A second goes by; the hints whose time has come are due.                *)
Second ==
    /\ \E h \in HintIds : wait[h] > 0
    /\ wait' = [h \in HintIds |-> IF wait[h] > 0 THEN wait[h] - 1 ELSE 0]
    /\ \E s \in SetToSeqs({h \in HintIds : wait[h] = 1}) : queue' = queue \o s
    /\ UNCHANGED <<attempts, pending, batch, peer, passed>>

TargetChanges(n) ==
    /\ \E x \in PeerStates \ {peer[n]} : peer' = [peer EXCEPT ![n] = x]
    /\ UNCHANGED <<queue, wait, attempts, pending, batch, passed>>

ScheduleNext ==
    \/ \E h \in HintIds : CreateHint(h)
    \/ \E w \in Workers : ListDueHints(w) \/ Deliver(w)
    \/ \E n \in Targets : ResetHintsForTarget(n) \/ TargetChanges(n)
    \/ Second

ScheduleSpec == ScheduleInit /\ [][ScheduleNext]_scheduleVars

(* Time goes by and the goroutine of HintWorker.Run keeps going.  Writes   *)
(* and reads may enqueue a hint again and again, which puts it at the end  *)
(* of the queue: the fairness holds for hints that this leaves alone.  A   *)
(* delivery ends once its target answers or is found dead.                 *)
ScheduleFair ==
    /\ ScheduleSpec
    /\ WF_scheduleVars(Second)
    /\ WF_scheduleVars(ListDueHints("ticker"))
    /\ SF_scheduleVars(Deliver("ticker"))

-----------------------------------------------------------------------------
(* NoStarvation: a due hint is left out of no more batches of the ticker   *)
(* than the hints that may be before it fill, counted since it was last    *)
(* (re)scheduled: one that failed goes behind it (ORDER BY                 *)
(* next_attempt_at LIMIT in ListDueHints).                                 *)
NoStarvation ==
    \A h \in HintIds : passed[h] <= (Cardinality(HintIds) - 1) \div BatchSize

(* The ticker's goroutine waits for a target that does not answer.         *)
TickerHeld ==
    batch["ticker"] # <<>> /\ peer[TargetOf[Head(batch["ticker"])[1]]] = "hung"

(* DeliveredWhenUp: a hint whose target stays up does not stay pending for *)
(* ever, whatever backoff it had reached, unless it is scheduled anew for  *)
(* ever, or a delivery to another target that hangs holds the goroutine of *)
(* the ticker for ever (processDue delivers one after the other, and the   *)
(* requests have no timeout).                                              *)
DeliveredWhenUp ==
    \A h \in HintIds :
        <>[](peer[TargetOf[h]] = "up" /\ h \in pending) =>
            \/ []<><<CreateHint(h) \/ ResetHintsForTarget(TargetOf[h])>>_scheduleVars
            \/ <>[]TickerHeld

=============================================================================
