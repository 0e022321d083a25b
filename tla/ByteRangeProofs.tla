-------------------------- MODULE ByteRangeProofs ---------------------------
(***************************************************************************)
(* Proofs about Range requests, for objects of every size, blobs of every  *)
(* length and every number a header can have.                              *)
(***************************************************************************)
EXTENDS ByteRange, TLAPS

Responses == [status : {0, 200, 206, 416}, length : Nat, from : Nat, sent : Nat]

(* What parseRange found and the response declares.                        *)
Declared ==
    \/ /\ hdr.kind = "none" /\ resp.from = 0 /\ resp.length = rowSize
       /\ resp.status = 200
    \/ /\ hdr.kind # "none" /\ parseRange(hdr, rowSize).ok
       /\ resp.from = parseRange(hdr, rowSize).start
       /\ resp.length = parseRange(hdr, rowSize).end - resp.from + 1
       /\ resp.status \in {0, 206}

(* How much of it there is in the blob.                                    *)
Available == IF resp.from > blob THEN 0 ELSE blob - resp.from

(* Everything declared, or what of it is there, has been sent; or the      *)
(* whole of a blob that is too long was asked for, and its last chunk was  *)
(* refused.                                                                *)
CopyOver ==
    \/ resp.sent = Least(resp.length, Available)
    \/ /\ hdr.kind = "none" /\ resp.length < Available
       /\ resp.length - resp.sent < Chunk

(* The inductive invariant: where a request is, and what it has declared   *)
(* and sent so far.                                                        *)
IInv ==
    /\ hdr \in Headers /\ rowSize \in RowSizes /\ blob \in RowSizes
    /\ step \in {"parse", "seek", "copy", "done"} /\ resp \in Responses
    /\ step = "parse" => resp = NoResponse
    /\ step = "seek" => Declared /\ resp.sent = 0 /\ hdr.kind # "none"
    /\ step = "copy" => /\ Declared /\ resp.status # 0
                        /\ resp.sent <= Least(resp.length, Available)
    /\ step = "done" =>
         \/ /\ resp.status = 416 /\ hdr.kind # "none"
            /\ ~parseRange(hdr, rowSize).ok /\ resp.sent = 0
         \/ /\ resp.status = 200 /\ resp.length = 0 /\ resp.sent = 0
            /\ blob < rowSize
         \/ /\ Declared /\ resp.sent <= Least(resp.length, Available)
            /\ CopyOver

(* What parseRange makes of a header: a span inside the object that has    *)
(* the positions asked for, or a refusal of numbers that do not parse and  *)
(* of headers that ask for nothing.                                        *)
LEMMA ParseLemma ==
    ASSUME NEW h \in Headers, NEW n \in RowSizes, h.kind # "none"
    PROVE  LET r == parseRange(h, n)
           IN  /\ r.ok \in BOOLEAN
               /\ r.ok => /\ r.start \in Nat /\ r.end \in Int
                          /\ r.start <= n /\ r.end < n /\ r.start <= r.end + 1
                          /\ r.start..r.end = Wanted(h, n)
               /\ ~r.ok => \/ h.kind = "other" \/ ~Parses(h.a) \/ ~Parses(h.b)
                           \/ Wanted(h, n) = {}
<1> USE RangeAssumption
<1>1. n \in Nat /\ h.a \in Nat /\ h.b \in Nat
  <2>1. CASE h \in [kind : {"none", "other"}, a : {0}, b : {0}]
    BY <2>1
  <2>2. CASE h \in [kind : {"suffix", "open"}, a : Numbers, b : {0}]
    <3>1. h.a \in Numbers /\ h.b \in Nat
      BY <2>2
    <3> QED
      BY <3>1
  <2>3. CASE h \in [kind : {"closed"}, a : Numbers, b : Numbers]
    BY <2>3
  <2> QED
    BY <2>1, <2>2, <2>3 DEF Headers
<1>2. CASE h.kind = "suffix"
  BY <1>1, <1>2 DEF parseRange, Suffix, Span, Unsatisfiable, Least, Wanted, Parses
<1>3. CASE h.kind = "open"
  BY <1>1, <1>3 DEF parseRange, Open, Span, Unsatisfiable, Wanted, Parses
<1>4. CASE h.kind = "closed"
  BY <1>1, <1>4 DEF parseRange, Closed, Span, Unsatisfiable, Least, Wanted, Parses
<1>5. CASE h.kind = "other"
  BY <1>5 DEF parseRange, Unsatisfiable
<1>6. QED
  BY <1>2, <1>3, <1>4, <1>5 DEF Headers

(* The invariant holds when the request arrives.                           *)
LEMMA InitLemma == RangeInit => IInv
  BY DEF RangeInit, IInv, NoResponse, Responses

(* Every step of serveWithRange preserves it.                              *)
LEMMA StepLemma == IInv /\ [RangeNext]_rangeVars => IInv'
<1> SUFFICES ASSUME IInv, [RangeNext]_rangeVars PROVE IInv'
  OBVIOUS
<1> USE RangeAssumption
<1>0. rowSize \in Nat /\ blob \in Nat
  BY DEF IInv
<1>1. CASE Parse
  <2> DEFINE r == parseRange(hdr, rowSize)
  <2>1. CASE hdr.kind = "none"
    <3>1. /\ step' = "copy" /\ UNCHANGED <<hdr, rowSize, blob>>
          /\ resp' = [status |-> 200, length |-> rowSize, from |-> 0, sent |-> 0]
      BY <1>1, <2>1 DEF Parse, NoResponse
    <3>2. resp' \in Responses /\ Declared'
      BY <1>0, <2>1, <3>1 DEF Declared, Responses
    <3>3. resp'.status # 0 /\ resp'.sent <= Least(resp'.length, Available')
      BY <1>0, <3>1 DEF Least, Available
    <3> QED
      BY <3>1, <3>2, <3>3 DEF IInv
  <2>2. CASE hdr.kind # "none" /\ ~r.ok
    BY <1>0, <1>1, <2>2 DEF Parse, IInv, NoResponse, Responses
  <2>3. CASE hdr.kind # "none" /\ r.ok
    <3>1. r.start \in Nat /\ r.end \in Int /\ r.start <= r.end + 1
      BY <2>3, ParseLemma DEF IInv
    <3>2. /\ step' = "seek" /\ UNCHANGED <<hdr, rowSize, blob>>
          /\ resp' = [status |-> 0, length |-> r.end - r.start + 1,
                      from |-> r.start, sent |-> 0]
      BY <1>1, <2>3 DEF Parse, NoResponse
    <3>3. r.end - r.start + 1 \in Nat
      BY <3>1
    <3> HIDE DEF r
    <3>4. resp' \in Responses
      BY <3>1, <3>2, <3>3 DEF Responses
    <3>5. Declared'
      BY <2>3, <3>2 DEF Declared, r
    <3> QED
      BY <2>3, <3>2, <3>4, <3>5 DEF IInv
  <2> QED
    BY <2>1, <2>2, <2>3, ParseLemma DEF IInv
<1>2. CASE Seek
  <2>1. parseRange(hdr, rowSize).start <= rowSize
    BY <1>2, ParseLemma DEF Seek, IInv, Declared
  <2>2. CASE step' = "copy" /\ resp' = [resp EXCEPT !.status = 206]
    <3>1. /\ Declared /\ resp \in Responses /\ resp.sent = 0 /\ hdr.kind # "none"
          /\ UNCHANGED <<hdr, rowSize, blob>>
      BY <1>2 DEF Seek, IInv
    <3>2. /\ resp' \in Responses /\ Declared' /\ resp'.status = 206
          /\ resp'.sent = 0 /\ resp'.from = resp.from /\ resp'.length = resp.length
      BY <2>2, <3>1 DEF Declared, Responses
    <3>3. resp'.length \in Nat /\ resp'.from \in Nat
      BY <3>2 DEF Responses
    <3>4. resp'.sent <= Least(resp'.length, Available')
      BY <1>0, <3>1, <3>2, <3>3 DEF Least, Available
    <3> QED
      BY <2>2, <3>1, <3>2, <3>4 DEF IInv
  <2>3. CASE /\ resp.from > blob /\ step' = "done"
             /\ resp' = [NoResponse EXCEPT !.status = 200]
    <3>1. blob < rowSize
      BY <1>0, <1>2, <2>1, <2>3, ParseLemma DEF Seek, IInv, Declared, Responses
    <3> QED
      BY <1>2, <2>3, <3>1 DEF Seek, IInv, NoResponse, Responses
  <2> QED
    BY <1>2, <2>2, <2>3 DEF Seek
<1>3. CASE Copy
  <2>1. /\ Declared /\ resp \in Responses /\ resp.status # 0
        /\ resp.sent <= Least(resp.length, Available)
        /\ UNCHANGED <<hdr, rowSize, blob>>
    BY <1>3 DEF Copy, IInv
  <2>2. /\ resp.sent \in Nat /\ resp.length \in Nat /\ resp.from \in Nat
        /\ Available \in Nat /\ Chunk \in Nat
    BY <1>0, <2>1 DEF Responses, Available
  <2>3. /\ resp.status = 206 => Left = Least(resp.length - resp.sent, Available - resp.sent)
        /\ resp.status # 206 => Left = Available - resp.sent
    BY <1>0, <2>1, <2>2 DEF Left, Available, Least
  <2>4. resp.status # 206 => hdr.kind = "none"
    BY <2>1 DEF Declared
  <2>5. ASSUME NEW c \in 1..Chunk, c <= Left, resp.sent + c <= resp.length,
               step' = step, resp' = [resp EXCEPT !.sent = @ + c]
        PROVE  IInv'
    <3>1. resp.sent + c \in Nat /\ resp.sent + c <= Least(resp.length, Available)
      BY <2>2, <2>3, <2>5 DEF Least
    <3>2. resp' \in Responses /\ resp'.sent = resp.sent + c
      BY <2>1, <2>5, <3>1 DEF Responses
    <3>3. /\ Declared' /\ resp'.status # 0 /\ Available' = Available
          /\ resp'.length = resp.length
      BY <2>1, <2>5 DEF Declared, Available, Responses
    <3>4. step' = "copy"
      BY <1>3, <2>5 DEF Copy
    <3> QED
      BY <2>1, <3>1, <3>2, <3>3, <3>4 DEF IInv
  <2>6. ASSUME step' = "done", resp' = resp, CopyOver
        PROVE  IInv'
    BY <2>1, <2>6 DEF IInv, Declared, Available, CopyOver
  <2>7. ASSUME NEW c \in 1..Chunk, c <= Left, resp.sent + c > resp.length
        PROVE  CopyOver
    BY <2>1, <2>2, <2>3, <2>4, <2>7 DEF CopyOver, Least
  <2>8. ASSUME Left = 0 PROVE CopyOver
    BY <2>1, <2>2, <2>3, <2>8 DEF CopyOver, Least
  <2> QED
    BY <1>3, <2>2, <2>5, <2>6, <2>7, <2>8 DEF Copy, WriteChunk
<1>4. CASE UNCHANGED rangeVars
  BY <1>4 DEF rangeVars, IInv, Declared, Available, CopyOver
<1>5. QED
  BY <1>1, <1>2, <1>3, <1>4 DEF RangeNext

(* The invariant holds throughout.                                         *)
LEMMA Invariance == RangeSpec => []IInv
  BY InitLemma, StepLemma, PTL DEF RangeSpec

(* Status, length, first position and bytes sent stay in their types: no   *)
(* header leads to a negative length.                                      *)
THEOREM Typed == RangeSpec => []RangeTypeOK
<1>1. IInv => RangeTypeOK
  BY DEF IInv, RangeTypeOK, Responses
<1>2. QED
  BY <1>1, Invariance, PTL

(* A response with a body carries exactly the bytes asked for, whatever    *)
(* the header and the size (parseRange, serveWithRange).                   *)
THEOREM Served == RangeSpec => []RangeServed
<1>1. IInv => RangeServed
  <2> SUFFICES ASSUME IInv, step = "done", resp.status \in {200, 206}, blob = rowSize
      PROVE  resp.from..(resp.from + resp.sent - 1) = Wanted(hdr, rowSize)
    BY DEF RangeServed
  <2>0. rowSize \in Nat /\ resp \in Responses
    BY RangeAssumption DEF IInv
  <2>1. Declared /\ resp.sent = Least(resp.length, Available)
    BY <2>0 DEF IInv, CopyOver, Declared, Available, Responses
  <2>2. CASE hdr.kind = "none"
    BY <2>0, <2>1, <2>2 DEF Declared, Least, Available, Wanted
  <2>3. CASE hdr.kind # "none"
    <3> DEFINE r == parseRange(hdr, rowSize)
    <3>1. r.ok /\ resp.from = r.start /\ resp.length = r.end - resp.from + 1
      BY <2>1, <2>3 DEF Declared
    <3>2. /\ r.start \in Nat /\ r.end \in Int /\ r.start <= rowSize /\ r.end < rowSize
          /\ r.start <= r.end + 1 /\ r.start..r.end = Wanted(hdr, rowSize)
      BY <2>3, <3>1, ParseLemma DEF IInv
    <3> HIDE DEF r
    <3>3. resp.from + resp.sent - 1 = r.end
      BY <2>0, <2>1, <3>1, <3>2 DEF Least, Available
    <3> QED
      BY <3>1, <3>2, <3>3
  <2> QED
    BY <2>2, <2>3
<1>2. QED
  BY <1>1, Invariance, PTL

(* A request is refused only if its numbers do not parse or it asks for    *)
(* nothing that exists (parseRange).                                       *)
THEOREM Refused == RangeSpec => []RefusedOnlyIfNothing
<1>1. IInv => RefusedOnlyIfNothing
  BY ParseLemma DEF IInv, RefusedOnlyIfNothing, Declared
<1>2. QED
  BY <1>1, Invariance, PTL

(* A range request gets exactly what it asks for (parseRange with          *)
(* serveWithRange).                                                        *)
THEOREM Answered == RangeSpec => []RangeAnswered
  BY Served, Refused, PTL DEF RangeAnswered

(* The response never exceeds the declared length, and falls short of it   *)
(* only if the blob is shorter than the row says or, by less than a        *)
(* buffer, if it is longer (Content-Length of serveWithRange).             *)
THEOREM Promised == RangeSpec => []PromiseKept
<1>1. IInv => PromiseKept
  <2> SUFFICES ASSUME IInv PROVE PromiseKept
    OBVIOUS
  <2>0. rowSize \in Nat /\ blob \in Nat /\ resp \in Responses
    BY RangeAssumption DEF IInv
  <2>1. resp.sent <= resp.length
    BY <2>0 DEF IInv, NoResponse, Responses, Least, Available
  <2>2. ASSUME step = "done", resp.status # 416, blob >= rowSize
        PROVE  \/ resp.sent = resp.length
               \/ /\ hdr.kind = "none" /\ blob > rowSize
                  /\ resp.length - resp.sent < Chunk
    <3>1. Declared /\ CopyOver
      BY <2>0, <2>2 DEF IInv
    <3>2. CASE hdr.kind = "none"
      BY <2>0, <2>2, <3>1, <3>2 DEF Declared, CopyOver, Least, Available
    <3>3. CASE hdr.kind # "none"
      <4> DEFINE r == parseRange(hdr, rowSize)
      <4>1. r.ok /\ resp.from = r.start /\ resp.length = r.end - resp.from + 1
        BY <3>1, <3>3 DEF Declared
      <4>2. /\ r.start \in Nat /\ r.end \in Int /\ r.start <= rowSize
            /\ r.end < rowSize /\ r.start <= r.end + 1
        BY <3>3, <4>1, ParseLemma DEF IInv
      <4>3. resp.sent = Least(resp.length, Available)
        BY <3>1, <3>3 DEF CopyOver
      <4> HIDE DEF r
      <4> QED
        BY <2>0, <2>2, <4>1, <4>2, <4>3 DEF Least, Available
    <3> QED
      BY <3>2, <3>3
  <2> QED
    BY <2>1, <2>2 DEF PromiseKept
<1>2. QED
  BY <1>1, Invariance, PTL

=============================================================================
