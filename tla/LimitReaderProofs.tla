------------------------- MODULE LimitReaderProofs --------------------------
(***************************************************************************)
(* Proofs about limited uploads, for bodies of every length, every limit,  *)
(* every buffer and every way the source may cut its reads.                *)
(***************************************************************************)
EXTENDS LimitReader, TLAPS

(* The inductive invariant.  While the copy runs, what was taken from the  *)
(* source is what was handed on and written; it ends with the source used  *)
(* up, except that the probe may have taken one last byte for the end.     *)
IInv ==
    /\ UploadTypeOK /\ got = written
    /\ outcome = "copying" => used = got
    /\ outcome = "stored" =>
         /\ used = size
         /\ got = size \/ (got = limit /\ size = limit + 1 /\ eofWithLast)
    /\ outcome = "refused" => size > limit \/ (size >= limit /\ emptyReads)

(* The variables as numbers.                                               *)
LEMMA Numbers ==
    ASSUME UploadTypeOK
    PROVE  /\ size \in Nat /\ limit \in Nat /\ Buffer \in Nat
           /\ got \in Nat /\ used \in Nat /\ written \in Nat
           /\ got <= limit /\ used <= size /\ written <= limit
<1>1. BodySizes \subseteq Nat /\ Limits \subseteq Nat /\ Buffer \in Nat
  BY ReaderAssumption
<1>2. size \in Nat /\ limit \in Nat
  BY <1>1 DEF UploadTypeOK
<1>3. got \in 0..limit /\ used \in 0..size /\ written \in 0..limit
  BY DEF UploadTypeOK
<1>4. QED
  BY <1>1, <1>2, <1>3

(* Every step of the copy loop preserves it.                               *)
LEMMA StepLemma == IInv /\ [UploadNext]_uploadVars => IInv'
<1> SUFFICES ASSUME IInv, [UploadNext]_uploadVars PROVE IInv'
  OBVIOUS
<1>a. UploadTypeOK /\ got = written
  BY DEF IInv
<1>0. /\ size \in Nat /\ limit \in Nat /\ Buffer \in Nat
      /\ got \in Nat /\ used \in Nat /\ written \in Nat
      /\ got <= limit /\ used <= size /\ written <= limit
  BY <1>a, Numbers
<1>1. ASSUME NEW m \in 0..Buffer, NEW eof \in BOOLEAN, ReadBody(m, eof)
      PROVE  IInv'
  <2>1. /\ outcome = "copying" /\ UNCHANGED <<size, limit, eofWithLast, emptyReads>>
        /\ got' = got + m /\ written' = written + m
        /\ m <= Room /\ used + m <= size /\ used' = used + m
    BY <1>1 DEF ReadBody, SourceRead
  <2>2. m \in Nat /\ m <= limit - got
    BY <1>0, <2>1 DEF Room
  <2>3. used = got
    BY <2>1 DEF IInv
  <2>4. \/ outcome' = "stored" /\ used' = size
        \/ outcome' = "copying"
    BY <1>1 DEF ReadBody, SourceRead
  <2>5. UploadTypeOK'
    BY <1>a, <1>0, <2>1, <2>2, <2>4 DEF UploadTypeOK
  <2>6. got' = written' /\ used' = got'
    BY <1>a, <2>1, <2>3
  <2> QED
    BY <2>1, <2>4, <2>5, <2>6 DEF IInv
<1>2. ASSUME NEW m \in 0..1, NEW eof \in BOOLEAN, Probe(m, eof)
      PROVE  IInv'
  <2>1. m = 0 \/ m = 1
    OBVIOUS
  <2>2. /\ got = limit /\ outcome = "copying" /\ used + m <= size
        /\ used' = used + m /\ UNCHANGED <<size, limit, eofWithLast, emptyReads, got, written>>
    BY <1>2 DEF Probe, SourceRead
  <2>3. used = got
    BY <2>2 DEF IInv
  <2>4. \/ outcome' = "stored" /\ used' = size /\ (m > 0 => eofWithLast)
        \/ outcome' = "refused" /\ (m > 0 \/ emptyReads)
    BY <1>2 DEF Probe, SourceRead
  <2>5. outcome' \in {"stored", "refused"} /\ used' \in 0..size
    BY <1>0, <2>1, <2>2, <2>4
  <2>6. UploadTypeOK'
    BY <1>a, <2>2, <2>5 DEF UploadTypeOK
  <2>7. CASE m = 0
    <3>1. ~(m > 0) /\ used' = got' /\ size' >= limit'
      BY <1>0, <2>2, <2>3, <2>7
    <3>2. \/ outcome' = "stored" /\ used' = size'
          \/ outcome' = "refused" /\ emptyReads'
      BY <2>2, <2>4, <3>1
    <3> QED
      BY <1>a, <2>2, <2>6, <3>1, <3>2 DEF IInv
  <2>8. CASE m = 1
    <3>1. used' = limit' + 1 /\ size' > limit' /\ m > 0
      BY <1>0, <2>2, <2>3, <2>8
    <3> QED
      BY <1>a, <2>2, <2>4, <2>6, <3>1 DEF IInv
  <2> QED
    BY <2>1, <2>7, <2>8
<1>3. CASE Fail
  BY <1>3 DEF Fail, IInv, UploadTypeOK
<1>4. CASE UNCHANGED uploadVars
  BY <1>4 DEF uploadVars, IInv, UploadTypeOK
<1>5. QED
  BY <1>1, <1>2, <1>3, <1>4 DEF UploadNext, CopyStep

(* The invariant holds throughout.                                         *)
LEMMA Invariance == UploadSpec => []IInv
<1>1. UploadInit => IInv
  BY ReaderAssumption DEF UploadInit, IInv, UploadTypeOK
<1>2. QED
  BY <1>1, StepLemma, PTL DEF UploadSpec

(* The reader never hands on, and the copy never writes, more than the     *)
(* limit (limitReader.Read).                                               *)
THEOREM Bounded == UploadSpec => []UploadTypeOK
<1>1. IInv => UploadTypeOK
  BY DEF IInv
<1>2. QED
  BY <1>1, Invariance, PTL

(* From sources that return io.EOF by itself and no empty reads exactly    *)
(* the bodies that fit are stored, and whole; from other sources the probe *)
(* may cost one byte, or refuse a body of exactly the limit                *)
(* (limitReader.Read).                                                     *)
THEOREM Exact == UploadSpec => []UploadExact
<1>1. IInv => UploadExact
  <2> SUFFICES ASSUME IInv PROVE UploadExact
    OBVIOUS
  <2>1. size \in Nat /\ limit \in Nat /\ got \in Nat /\ got <= limit
    BY Numbers DEF IInv
  <2>2. /\ outcome = "stored" =>
             got = size \/ (got = limit /\ size = limit + 1 /\ eofWithLast)
        /\ outcome = "refused" => size > limit \/ (size >= limit /\ emptyReads)
        /\ got = written
    BY DEF IInv
  <2> QED
    BY <2>1, <2>2 DEF UploadExact
<1>2. QED
  BY <1>1, Invariance, PTL

=============================================================================
