----------------------------- MODULE ByteRange ------------------------------
(***************************************************************************)
(* GET with a Range header: parseRange and serveWithRange, for the size in *)
(* the object's row and a blob that may be shorter or longer, since the    *)
(* row and the blob are read one after the other.  The client stays until  *)
(* the response ends.                                                      *)
(*                                                                         *)
(* A header is what the tests of parseRange tell apart: a suffix "-n", an  *)
(* open range "a-", a closed range "a-b", anything else, or no header.     *)
(* A number that does not fit 64 bits does not parse.                      *)
(***************************************************************************)
EXTENDS Integers

CONSTANTS
    RowSizes, \* sizes in the row
    Numbers,  \* numbers that headers have
    MaxInt,   \* largest number that parses (2^63 - 1)
    Chunk     \* length of the buffer of io.Copy

ASSUME RangeAssumption ==
    /\ RowSizes \subseteq Nat /\ Numbers \subseteq Nat /\ MaxInt \in Nat
    /\ \A n \in RowSizes : n <= MaxInt
    /\ Chunk \in Nat \ {0}

Headers == [kind : {"none", "other"}, a : {0}, b : {0}]
             \cup [kind : {"suffix", "open"}, a : Numbers, b : {0}]
             \cup [kind : {"closed"}, a : Numbers, b : Numbers]

Unsatisfiable == [ok |-> FALSE, start |-> 0, end |-> 0]
Span(s, e) == [ok |-> TRUE, start |-> s, end |-> e]
Least(m, n) == IF m < n THEN m ELSE n
Parses(n) == n <= MaxInt

(* The last byte of a range that ends past the object is not clipped.      *)
MutantClosed(a, b, size) ==
    IF ~Parses(a) \/ ~Parses(b) \/ b < a \/ a >= size THEN Unsatisfiable
    ELSE Span(a, b)

Closed(a, b, size) ==
    IF ~Parses(a) \/ ~Parses(b) \/ b < a \/ a >= size THEN Unsatisfiable
    ELSE Span(a, Least(b, size - 1))

Open(a, size) ==
    IF ~Parses(a) \/ a >= size THEN Unsatisfiable ELSE Span(a, size - 1)

(* A suffix longer than the object is not clipped.                         *)
MutantSuffix(n, size) ==
    IF ~Parses(n) \/ n <= 0 THEN Unsatisfiable ELSE Span(size - n, size - 1)

(* The first n bytes, not the last n.                                      *)
MutantSuffixFirst(n, size) ==
    IF ~Parses(n) \/ n <= 0 THEN Unsatisfiable ELSE Span(0, Least(n, size) - 1)

Suffix(n, size) ==
    IF ~Parses(n) \/ n <= 0 THEN Unsatisfiable
    ELSE Span(size - Least(n, size), size - 1)

parseRange(h, size) ==
    IF h.kind = "suffix" THEN Suffix(h.a, size)
    ELSE IF h.kind = "open" THEN Open(h.a, size)
    ELSE IF h.kind = "closed" THEN Closed(h.a, h.b, size)
    ELSE Unsatisfiable

-----------------------------------------------------------------------------
VARIABLES
    hdr,      \* the Range header
    rowSize,  \* the size in the row, which the headers are made from
    blob,     \* the length of the blob that was opened
    step,     \* "parse", "seek", "copy" or "done"
    resp      \* status, declared length, bytes from..from + sent - 1

rangeVars == <<hdr, rowSize, blob, step, resp>>

NoResponse == [status |-> 0, length |-> 0, from |-> 0, sent |-> 0]

RangeTypeOK ==
    /\ hdr \in Headers /\ rowSize \in RowSizes /\ blob \in RowSizes
    /\ step \in {"parse", "seek", "copy", "done"}
    /\ resp.status \in {0, 200, 206, 416}
    /\ resp.length \in Nat /\ resp.from \in Nat /\ resp.sent \in Nat

RangeInit ==
    /\ hdr \in Headers /\ rowSize \in RowSizes /\ blob \in RowSizes
    /\ step = "parse" /\ resp = NoResponse

Parse ==
    /\ step = "parse"
    /\ LET r == parseRange(hdr, rowSize)
       IN  \/ /\ hdr.kind = "none"
              /\ step' = "copy"
              /\ resp' = [NoResponse EXCEPT !.status = 200, !.length = rowSize]
           \/ /\ hdr.kind # "none" /\ ~r.ok
              /\ step' = "done"
              /\ resp' = [NoResponse EXCEPT !.status = 416]
           \/ /\ hdr.kind # "none" /\ r.ok
              /\ step' = "seek"
              /\ resp' = [NoResponse EXCEPT !.from = r.start,
                            !.length = r.end - r.start + 1]
    /\ UNCHANGED <<hdr, rowSize, blob>>

(* A file is seekable, also past its end; a peer's response is read up to  *)
(* the start, and if it ends before, the handler returns with nothing      *)
(* written, which net/http makes an empty 200.                             *)
Seek ==
    /\ step = "seek"
    /\ \/ /\ step' = "copy"
          /\ resp' = [resp EXCEPT !.status = 206]
       \/ /\ resp.from > blob
          /\ step' = "done"
          /\ resp' = [NoResponse EXCEPT !.status = 200]
    /\ UNCHANGED <<hdr, rowSize, blob>>

(* What io.CopyN (for a range) or io.Copy (without) has still to read.     *)
Left ==
    LET there == IF resp.from + resp.sent > blob THEN 0
                 ELSE blob - resp.from - resp.sent
    IN  IF resp.status = 206 THEN Least(resp.length - resp.sent, there) ELSE there

(* Write of net/http: a write that would exceed the Content-Length is      *)
(* refused as a whole, which ends the copy.                                *)
WriteChunk(c) ==
    IF resp.sent + c > resp.length
    THEN step' = "done" /\ UNCHANGED resp
    ELSE resp' = [resp EXCEPT !.sent = @ + c] /\ UNCHANGED step

(* The copy loop: a file fills the buffer, a peer's response may come in   *)
(* smaller pieces.                                                         *)
Copy ==
    /\ step = "copy"
    /\ \/ \E c \in 1..Chunk : c <= Left /\ WriteChunk(c)
       \/ Left = 0 /\ step' = "done" /\ UNCHANGED resp
    /\ UNCHANGED <<hdr, rowSize, blob>>

RangeNext == Parse \/ Seek \/ Copy

RangeSpec == RangeInit /\ [][RangeNext]_rangeVars

-----------------------------------------------------------------------------
(* What a header asks for, as a set of positions.                          *)
Wanted(h, n) ==
    {i \in 0..(n - 1) :
        /\ h.kind = "suffix" => i >= n - h.a
        /\ h.kind = "open" => i >= h.a
        /\ h.kind = "closed" => h.a <= i /\ i <= h.b}

(* RangeServed: when the blob has the length of the row, an answer with a  *)
(* body carries exactly the bytes the header asks for (parseRange with     *)
(* serveWithRange).                                                        *)
RangeServed ==
    step = "done" /\ resp.status \in {200, 206} /\ blob = rowSize
      => resp.from..(resp.from + resp.sent - 1) = Wanted(hdr, rowSize)

(* RefusedOnlyIfNothing: a header with numbers that parse is refused only  *)
(* if it asks for nothing that exists.                                     *)
RefusedOnlyIfNothing ==
    (step = "done" /\ resp.status = 416 /\ hdr.kind # "other"
       /\ Parses(hdr.a) /\ Parses(hdr.b)) => Wanted(hdr, rowSize) = {}

(* RangeAnswered: whatever the header and the size, a range request gets   *)
(* exactly the bytes it asks for, and is refused only if there are none.   *)
RangeAnswered == RangeServed /\ RefusedOnlyIfNothing

(* PromiseKept: no more bytes are sent than were declared.  No fewer are   *)
(* sent unless the blob is shorter than the row says, or the blob is       *)
(* longer and the whole of it is asked for: then up to the last buffer is  *)
(* missing, since io.Copy offers it together with bytes that are too many  *)
(* (Content-Length of serveWithRange).                                     *)
PromiseKept ==
    /\ resp.sent <= resp.length
    /\ step = "done" /\ resp.status # 416 /\ blob >= rowSize =>
         \/ resp.sent = resp.length
         \/ hdr.kind = "none" /\ blob > rowSize /\ resp.length - resp.sent < Chunk

=============================================================================
