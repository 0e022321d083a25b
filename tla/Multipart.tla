----------------------------- MODULE Multipart ------------------------------
(***************************************************************************)
(* One multipart upload of one key on one node: its session and part rows  *)
(* in SQLite, its part files, the object it becomes, requests that may     *)
(* overlap, the abandoned-upload job, crashes and the clean-up at startup. *)
(*                                                                         *)
(* What a client sends for part n is a pair <<n, bytes>>, so that a blob   *)
(* shows which parts it is made of.  The ETag of a part is its content,    *)
(* the ETag of the object the sequence of its parts' ETags, and the blob   *)
(* the sequence of the parts' contents.                                    *)
(* Upload ids are random, so a session that is gone does not come back.    *)
(***************************************************************************)
EXTENDS Naturals, Sequences, FiniteSets, SequencesExt

CONSTANTS
    Parts,        \* part numbers
    PartBytes,    \* the bytes of a part
    Small,        \* bytes below minPartSize
    Prior,        \* bytes of an object that was there before
    None,         \* "no row", "no file"
    Uploaders,    \* request handlers that may run at the same time
    Sweepers,     \* cleanup goroutines: none or one
    MaxRestarts,  \* bound: crashes of the process
    MaxErrors     \* bound: failing statements and removals

ASSUME MultipartAssumption ==
    /\ Parts \subseteq Nat \ {0} /\ Small \subseteq PartBytes
    /\ None \notin PartBytes \cup {Prior} /\ Prior \notin PartBytes
    /\ MaxRestarts \in Nat /\ MaxErrors \in Nat

(* Ages: under 48 hours, over 48 hours (staleMultipartThreshold), over 7   *)
(* days (abandonedMultipartAge).                                           *)
Ages == 0..2
PartContents == Parts \X PartBytes
PriorObject == <<<<0, Prior>>>>
Contents ==
    {PriorObject, <<>>}
        \cup UNION {[1..n -> PartContents] : n \in 1..Cardinality(Parts)}

UploadPCs == {"idle", "part", "update", "insert", "assembling", "assembled",
              "undo", "sweep", "close", "aborting", "abortrow"}
UploaderStates == [pc : UploadPCs, part : Parts \cup {0},
                   body : PartContents \cup {None}, want : Contents,
                   todo : SUBSET Parts, acc : Contents]
IdleUploader == [pc |-> "idle", part |-> 0, body |-> None, want |-> <<>>,
                 todo |-> {}, acc |-> <<>>]

VARIABLES
    session,  \* "new", "open" (its row exists), "closed" or "abandoned"
    rows,     \* part number -> ETag in multipart_upload_parts
    files,    \* part number -> content of its file
    born,     \* age of the session row
    touched,  \* age of the directory of the parts
    object,   \* ETag of the object's row, <<>> if there is none
    blob,     \* content of the object's blob, <<>> if there is none
    uploader, \* request handlers
    sweeper,  \* cleanup goroutine -> "rows" or "dirs", its next step
    restarts, \* history, for the bound
    errors,   \* history, for the bound
    alone     \* history: no request met another one, a crash or an error

upload == <<session, rows, files, born, touched>>
others == <<sweeper, restarts>>
faults == <<errors, alone>>
multipartVars == <<session, rows, files, born, touched, object, blob, uploader,
                   sweeper, restarts, errors, alone>>

NoRows == [n \in Parts |-> None]

MultipartTypeOK ==
    /\ session \in {"new", "open", "closed", "abandoned"}
    /\ rows \in [Parts -> PartContents \cup {None}]
    /\ session # "open" => rows = NoRows
    /\ files \in [Parts -> PartContents \cup {None}]
    /\ born \in Ages /\ touched \in Ages
    /\ object \in Contents /\ blob \in Contents
    /\ uploader \in [Uploaders -> UploaderStates]
    /\ sweeper \in [Sweepers -> {"rows", "dirs"}]
    /\ restarts \in 0..MaxRestarts /\ errors \in 0..MaxErrors /\ alone \in BOOLEAN

MultipartInit ==
    /\ session = "new" /\ rows = NoRows /\ files = NoRows
    /\ born = 0 /\ touched = 0
    /\ object \in {<<>>, PriorObject} /\ blob = object
    /\ uploader = [c \in Uploaders |-> IdleUploader]
    /\ sweeper = [j \in Sweepers |-> "rows"]
    /\ restarts = 0 /\ errors = 0 /\ alone = TRUE

Quiet == \A c \in Uploaders : uploader[c].pc = "idle"

Go(c, q) == uploader' = [uploader EXCEPT ![c] = q]
Begin(c, q) == Go(c, q) /\ alone' = (alone /\ Quiet)
Error == errors < MaxErrors /\ errors' = errors + 1 /\ alone' = FALSE

(* DELETE of the session row; the part rows go with it (ON DELETE CASCADE).*)
DeleteMultipartUpload(end) ==
    /\ session' = IF session = "open" THEN end ELSE session
    /\ rows' = NoRows

-----------------------------------------------------------------------------
CreateMultipartUpload ==
    /\ session = "new"
    /\ session' = "open" /\ born' = 0
    /\ UNCHANGED <<rows, files, touched, object, blob, uploader, others, faults>>

(* UploadPart: the session is looked up, the file renamed into place, the  *)
(* row updated or, if there was none, inserted.                            *)
UploadPart(c, n, b) ==
    /\ uploader[c].pc = "idle" /\ session = "open"
    /\ Begin(c, [IdleUploader EXCEPT !.pc = "part", !.part = n,
                             !.body = <<n, b>>])
    /\ UNCHANGED <<upload, object, blob, others, errors>>

(* PutPart, which creates the directory if it is gone; a body that ends    *)
(* early leaves everything as it was.                                      *)
PutPart(c) ==
    /\ uploader[c].pc = "part"
    /\ \/ /\ files' = [files EXCEPT ![uploader[c].part] = uploader[c].body]
          /\ touched' = 0
          /\ Go(c, [uploader[c] EXCEPT !.pc = "update"])
       \/ /\ Go(c, IdleUploader)
          /\ UNCHANGED <<files, touched>>
    /\ UNCHANGED <<session, rows, born, object, blob, others, faults>>

(* UpsertMultipartPart, first statement.  If either fails the file stays.  *)
UpdatePart(c) ==
    /\ uploader[c].pc = "update"
    /\ LET n == uploader[c].part
       IN  \/ /\ rows[n] = None
              /\ Go(c, [uploader[c] EXCEPT !.pc = "insert"])
              /\ UNCHANGED <<rows, faults>>
           \/ /\ rows[n] # None
              /\ rows' = [rows EXCEPT ![n] = uploader[c].body]
              /\ Go(c, IdleUploader)
              /\ UNCHANGED faults
           \/ /\ Error
              /\ Go(c, IdleUploader)
              /\ UNCHANGED rows
    /\ UNCHANGED <<session, files, born, touched, object, blob, others>>

(* The foreign key is not enforced.                                        *)
MutantInsertPart(c) ==
    /\ uploader[c].pc = "insert"
    /\ LET n == uploader[c].part
       IN  rows' = IF rows[n] = None THEN [rows EXCEPT ![n] = uploader[c].body]
                   ELSE rows
    /\ Go(c, IdleUploader)
    /\ UNCHANGED <<session, files, born, touched, object, blob, others, faults>>

(* Second statement: it fails if the part exists by now, or the session    *)
(* does not.                                                               *)
InsertPart(c) ==
    /\ uploader[c].pc = "insert"
    /\ LET n == uploader[c].part
       IN  \/ /\ rows' = IF session = "open" /\ rows[n] = None
                         THEN [rows EXCEPT ![n] = uploader[c].body] ELSE rows
              /\ UNCHANGED faults
           \/ Error /\ UNCHANGED rows
    /\ Go(c, IdleUploader)
    /\ UNCHANGED <<session, files, born, touched, object, blob, others>>

-----------------------------------------------------------------------------
(* CompleteMultipartUpload for the parts in S: the rows are read once, and *)
(* must have the ETags the client names; every part but the last has to    *)
(* reach the minimum size.                                                 *)
ListMultipartParts(c, S) ==
    /\ uploader[c].pc = "idle" /\ session = "open"
    /\ S # {} /\ \A n \in S : rows[n] # None
    /\ \A n \in S : rows[n][2] \in Small => \A m \in S : m <= n
    /\ LET order == SetToSortSeq(S, <)
       IN  Begin(c, [IdleUploader EXCEPT !.pc = "assembling", !.todo = S,
                        !.want = [i \in 1..Len(order) |-> rows[order[i]]]])
    /\ UNCHANGED <<upload, object, blob, others, errors>>

(* Ascending part numbers.                                                 *)
NextPart(todo) == {n \in todo : \A m \in todo : n <= m}

(* A file that is gone is skipped.                                         *)
MutantAssemblePart(c) ==
    /\ uploader[c].pc = "assembling"
    /\ \E n \in NextPart(uploader[c].todo) :
         Go(c, [uploader[c] EXCEPT
                  !.todo = @ \ {n},
                  !.acc = IF files[n] # None THEN Append(@, files[n]) ELSE @])
    /\ UNCHANGED <<upload, object, blob, others, faults>>

(* AssembleParts, one part: a file that is gone ends it, and so does a     *)
(* client that goes away; the temporary file is removed.                   *)
AssemblePart(c) ==
    /\ uploader[c].pc = "assembling"
    /\ \E n \in NextPart(uploader[c].todo) :
         \/ /\ files[n] # None
            /\ Go(c, [uploader[c] EXCEPT !.todo = @ \ {n},
                                         !.acc = Append(@, files[n])])
         \/ Go(c, IdleUploader)
    /\ UNCHANGED <<upload, object, blob, others, faults>>

AssembleRename(c) ==
    /\ uploader[c].pc = "assembling" /\ uploader[c].todo = {}
    /\ blob' = uploader[c].acc
    /\ Go(c, [uploader[c] EXCEPT !.pc = "assembled"])
    /\ UNCHANGED <<upload, object, others, faults>>

(* meta.PutObject with the ETag made of the listed rows; if it fails the   *)
(* blob is deleted.                                                        *)
CompleteCommit(c) ==
    /\ uploader[c].pc = "assembled"
    /\ \/ /\ object' = uploader[c].want
          /\ Go(c, [uploader[c] EXCEPT !.pc = "sweep"])
          /\ UNCHANGED faults
       \/ /\ Error
          /\ Go(c, [uploader[c] EXCEPT !.pc = "undo"])
          /\ UNCHANGED object
    /\ UNCHANGED <<upload, blob, others>>

CompleteUndo(c) ==
    /\ uploader[c].pc = "undo"
    /\ blob' = <<>>
    /\ Go(c, IdleUploader)
    /\ UNCHANGED <<upload, object, others, faults>>

(* DeleteUploadParts and DeleteMultipartUpload; their errors are ignored.  *)
CompleteSweep(c) ==
    /\ uploader[c].pc = "sweep"
    /\ \/ files' = NoRows /\ UNCHANGED faults
       \/ Error /\ UNCHANGED files
    /\ Go(c, [uploader[c] EXCEPT !.pc = "close"])
    /\ UNCHANGED <<session, rows, born, touched, object, blob, others>>

CompleteClose(c) ==
    /\ uploader[c].pc = "close"
    /\ \/ DeleteMultipartUpload("closed") /\ UNCHANGED faults
       \/ Error /\ UNCHANGED <<session, rows>>
    /\ Go(c, IdleUploader)
    /\ UNCHANGED <<files, born, touched, object, blob, others>>

-----------------------------------------------------------------------------
AbortMultipartUpload(c) ==
    /\ uploader[c].pc = "idle" /\ session = "open"
    /\ Begin(c, [IdleUploader EXCEPT !.pc = "aborting"])
    /\ UNCHANGED <<upload, object, blob, others, errors>>

(* Only the rows are deleted.                                              *)
MutantAbortParts(c) ==
    /\ uploader[c].pc = "aborting"
    /\ Go(c, [uploader[c] EXCEPT !.pc = "abortrow"])
    /\ UNCHANGED <<upload, object, blob, others, faults>>

AbortParts(c) ==
    /\ uploader[c].pc = "aborting"
    /\ \/ /\ files' = NoRows
          /\ Go(c, [uploader[c] EXCEPT !.pc = "abortrow"])
          /\ UNCHANGED faults
       \/ /\ Error
          /\ Go(c, IdleUploader)
          /\ UNCHANGED files
    /\ UNCHANGED <<session, rows, born, touched, object, blob, others>>

AbortRow(c) ==
    /\ uploader[c].pc = "abortrow"
    /\ \/ DeleteMultipartUpload("closed") /\ UNCHANGED faults
       \/ Error /\ UNCHANGED <<session, rows>>
    /\ Go(c, IdleUploader)
    /\ UNCHANGED <<files, born, touched, object, blob, others>>

-----------------------------------------------------------------------------
(* RunAbandonedMultipart: sessions created more than 7 days ago, then the  *)
(* directories not touched for 7 days, whether they have a session or not. *)
DeleteAbandonedMultipartUploads(j) ==
    /\ sweeper[j] = "rows"
    /\ IF session = "open" /\ born = 2 THEN DeleteMultipartUpload("abandoned")
       ELSE UNCHANGED <<session, rows>>
    /\ sweeper' = [sweeper EXCEPT ![j] = "dirs"]
    /\ UNCHANGED <<files, born, touched, object, blob, uploader, restarts, faults>>

(* Only directories of sessions that exist are looked at.                  *)
MutantRemoveOldDirs(j) ==
    /\ sweeper[j] = "dirs"
    /\ files' = IF touched = 2 /\ session = "open" THEN NoRows ELSE files
    /\ sweeper' = [sweeper EXCEPT ![j] = "rows"]
    /\ UNCHANGED <<session, rows, born, touched, object, blob, uploader, restarts,
                   faults>>

RemoveOldDirs(j) ==
    /\ sweeper[j] = "dirs"
    /\ files' = IF touched = 2 THEN NoRows ELSE files
    /\ sweeper' = [sweeper EXCEPT ![j] = "rows"]
    /\ UNCHANGED <<session, rows, born, touched, object, blob, uploader, restarts,
                   faults>>

(* Two or more days go by.                                                 *)
TimePasses ==
    /\ session # "new" /\ (born < 2 \/ touched < 2)
    /\ born' = IF born < 2 THEN born + 1 ELSE 2
    /\ touched' = IF touched < 2 THEN touched + 1 ELSE 2
    /\ UNCHANGED <<session, rows, files, object, blob, uploader, others, faults>>

(* The process stops, and cleanupStaleTmpFiles runs when it starts again:  *)
(* directories not touched for 48 hours are removed.                       *)
CrashRestart ==
    /\ restarts < MaxRestarts /\ restarts' = restarts + 1
    /\ uploader' = [c \in Uploaders |-> IdleUploader]
    /\ sweeper' = [j \in Sweepers |-> "rows"]
    /\ files' = IF touched >= 1 THEN NoRows ELSE files
    /\ alone' = (alone /\ Quiet)
    /\ UNCHANGED <<session, rows, born, touched, object, blob, errors>>

-----------------------------------------------------------------------------
PartStep(c) ==
    \/ \E n \in Parts, b \in PartBytes : UploadPart(c, n, b)
    \/ PutPart(c) \/ UpdatePart(c) \/ InsertPart(c)

CompleteStep(c) ==
    \/ \E S \in SUBSET Parts : ListMultipartParts(c, S)
    \/ AssemblePart(c) \/ AssembleRename(c) \/ CompleteCommit(c)
    \/ CompleteUndo(c) \/ CompleteSweep(c) \/ CompleteClose(c)

AbortStep(c) == AbortMultipartUpload(c) \/ AbortParts(c) \/ AbortRow(c)

SweepStep(j) == DeleteAbandonedMultipartUploads(j) \/ RemoveOldDirs(j)

MultipartNext ==
    \/ CreateMultipartUpload
    \/ \E c \in Uploaders : PartStep(c) \/ CompleteStep(c) \/ AbortStep(c)
    \/ \E j \in Sweepers : SweepStep(j)
    \/ TimePasses
    \/ CrashRestart

MultipartSpec == MultipartInit /\ [][MultipartNext]_multipartVars

(* Days go by and the daily cleanup runs; clients owe nothing.             *)
MultipartFair ==
    /\ MultipartSpec
    /\ WF_multipartVars(TimePasses)
    /\ \A j \in Sweepers : WF_multipartVars(SweepStep(j))

-----------------------------------------------------------------------------
(* The numbers of the parts a blob or an ETag is made of.                  *)
Numbers(content) == [i \in DOMAIN content |-> content[i][1]]

(* ObjectWhole: what CompleteMultipartUpload renames into place has, in    *)
(* their order, all the parts it listed and nothing else, whatever other   *)
(* requests and the cleanup do to the files meanwhile.  And as long as no  *)
(* request met another one, a crash or a failure, the blob of the object   *)
(* is what its ETag says, with the cleanup running at any moment.          *)
ObjectWhole ==
    /\ \A c \in Uploaders : uploader[c].pc = "assembled" =>
          Numbers(uploader[c].acc) = Numbers(uploader[c].want)
    /\ Quiet /\ alone => blob = object

(* PartsGone: as long as no request met another one, a crash or a failure, *)
(* an upload that was completed or aborted has no part files left.         *)
PartsGone == Quiet /\ alone /\ session = "closed" => files = NoRows

(* LeftoversRemoved: part files that outlive their session, because of a   *)
(* race, a failed removal or a crash, are removed by the cleanup job.      *)
LeftoversRemoved ==
    (session \in {"closed", "abandoned"} /\ files # NoRows) ~> (files = NoRows)

(* SessionKeepsParts: while a session exists and no request is in          *)
(* progress, each part it lists has its file.                              *)
SessionKeepsParts ==
    Quiet => \A n \in Parts : rows[n] # None => files[n] # None

(* AssembledAsListed: what CompleteMultipartUpload renames into place is   *)
(* made of parts with the ETags that it compared with the client's.        *)
AssembledAsListed ==
    \A c \in Uploaders :
        uploader[c].pc = "assembled" => uploader[c].acc = uploader[c].want

=============================================================================
