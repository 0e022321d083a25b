---------------------------- MODULE LimitReader -----------------------------
(***************************************************************************)
(* An upload through limitReader.Read, driven by the loop of               *)
(* copyWithContext.  The source is an io.Reader: a read with room for n    *)
(* bytes returns up to n of them, none included, and io.EOF comes after    *)
(* the last byte or, as net/http does for a body with a Content-Length,    *)
(* together with it.                                                       *)
(***************************************************************************)
EXTENDS Integers

CONSTANTS
    BodySizes,    \* lengths a body may have
    Limits,       \* values of maxUploadBytes
    Buffer        \* length of the copy buffer

ASSUME ReaderAssumption ==
    /\ BodySizes \subseteq Nat /\ Limits \subseteq Nat \ {0}
    /\ Buffer \in Nat \ {0}

VARIABLES
    size,     \* bytes the client sends
    limit,    \* l.limit
    eofWithLast,  \* may the source return io.EOF with its last bytes?
    emptyReads,   \* may the source return no bytes and no error?
    got,      \* l.n: bytes the limit reader has handed on
    used,     \* bytes taken from the source
    written,  \* bytes in the temporary file
    outcome   \* of the upload

uploadVars == <<size, limit, eofWithLast, emptyReads, got, used, written, outcome>>

UploadTypeOK ==
    /\ size \in BodySizes /\ limit \in Limits
    /\ eofWithLast \in BOOLEAN /\ emptyReads \in BOOLEAN
    /\ got \in 0..limit /\ used \in 0..size /\ written \in 0..limit
    /\ outcome \in {"copying", "stored", "refused", "failed"}

UploadInit ==
    /\ size \in BodySizes /\ limit \in Limits
    /\ eofWithLast \in BOOLEAN /\ emptyReads \in BOOLEAN
    /\ got = 0 /\ used = 0 /\ written = 0
    /\ outcome = "copying"

(* A read of the source with room for n bytes returns m of them, and       *)
(* io.EOF if eof.                                                          *)
SourceRead(n, m, eof) ==
    /\ m <= n /\ used + m <= size
    /\ used' = used + m
    /\ IF eof THEN used' = size /\ (m > 0 => eofWithLast)
       ELSE m > 0 \/ emptyReads

Room == IF Buffer > limit - got THEN limit - got ELSE Buffer

(* Below the limit.  The test l.n > l.limit at the head of Read never      *)
(* succeeds, because l.n stays within the limit.                           *)
ReadBody(m, eof) ==
    /\ outcome = "copying" /\ got < limit
    /\ SourceRead(Room, m, eof)
    /\ got' = got + m
    /\ written' = written + m
    /\ outcome' = IF eof THEN "stored" ELSE "copying"
    /\ UNCHANGED <<size, limit, eofWithLast, emptyReads>>

(* The probe is taken for a byte too many whatever its error says.         *)
MutantProbe(m, eof) ==
    /\ outcome = "copying" /\ got = limit
    /\ SourceRead(1, m, eof)
    /\ outcome' = "refused"
    /\ UNCHANGED <<size, limit, eofWithLast, emptyReads, got, written>>

(* At the limit one more byte is read, and only the error is looked at: no *)
(* error is taken for a byte.                                              *)
Probe(m, eof) ==
    /\ outcome = "copying" /\ got = limit
    /\ SourceRead(1, m, eof)
    /\ outcome' = IF eof THEN "stored" ELSE "refused"
    /\ UNCHANGED <<size, limit, eofWithLast, emptyReads, got, written>>

(* The source, the context or a write fails; Put removes the file.         *)
Fail ==
    /\ outcome = "copying"
    /\ outcome' = "failed"
    /\ UNCHANGED <<size, limit, eofWithLast, emptyReads, got, used, written>>

CopyStep ==
    \/ \E m \in 0..Buffer, eof \in BOOLEAN : ReadBody(m, eof)
    \/ \E m \in 0..1, eof \in BOOLEAN : Probe(m, eof)

UploadNext == CopyStep \/ Fail

UploadSpec == UploadInit /\ [][UploadNext]_uploadVars

-----------------------------------------------------------------------------
(* UploadExact: from a source that returns io.EOF by itself only bodies    *)
(* within the limit are stored, and whole; from one that never returns an  *)
(* empty read only bodies over the limit are refused.  Whatever the        *)
(* source, nothing but the byte that the probe takes is missing from what  *)
(* is stored, and a body below the limit is never refused (limitReader     *)
(* with the loop of copyWithContext).                                      *)
UploadExact ==
    /\ outcome = "stored" =>
         /\ ~eofWithLast => size <= limit
         /\ written = size \/ (written = limit /\ size = limit + 1)
    /\ outcome = "refused" =>
         /\ ~emptyReads => size > limit
         /\ size >= limit

(* UploadLimited: whatever the source, a body over the limit is not        *)
(* stored (the comment on limitReader).                                    *)
UploadLimited == outcome = "stored" => size <= limit

(* UploadFits: whatever the source, a body within the limit is not refused *)
(* (the comment on limitReader).                                           *)
UploadFits == outcome = "refused" => size > limit

=============================================================================
