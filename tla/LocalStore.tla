----------------------------- MODULE LocalStore -----------------------------
(***************************************************************************)
(* One node with replication factor 1: object.Service over the SQLite rows *)
(* and the blob files, CopyObject, the cleanup goroutine (orphan scan, then *)
(* integrity verification) and crashes.                                     *)
(*                                                                         *)
(* A statement or transaction on the metadata is one action, and so is the *)
(* rename or removal of a file; what a handler does between them may be    *)
(* interleaved with everything else.  The bytes of an object stand for     *)
(* their own MD5.  The bucket exists throughout.                           *)
(***************************************************************************)
EXTENDS Naturals, FiniteSets

CONSTANTS
    Keys,         \* object keys of one bucket
    Paths,        \* blob paths
    PathOf,       \* key -> its blob path
    Clients,      \* request handlers that may run at the same time
    Jobs,         \* cleanup goroutines: none or one
    Ops,          \* the requests clients send
    Bytes,        \* object contents
    NoFile,       \* "no such file"
    MaxVersion,   \* bound: versions assigned to a key
    MaxCrashes,   \* bound: crashes of the process
    MaxFailures   \* bound: failing statements and file operations

ASSUME StoreAssumption ==
    /\ Keys # {} /\ PathOf \in [Keys -> Paths]
    /\ NoFile \notin Bytes
    /\ Ops \subseteq {"put", "get", "verify", "delete", "copy"}
ASSUME StoreBoundsAssumption ==
    MaxVersion \in Nat /\ MaxCrashes \in Nat /\ MaxFailures \in Nat

Files == Bytes \cup {NoFile}
Rows == [ver : 0..MaxVersion, etag : Files]
NoRow == [ver |-> 0, etag |-> NoFile]

PCs == {"idle", "writing", "stored", "undo", "found", "verified", "deleting",
        "unlinking", "copying", "done", "answered"}
ProcStates == [pc : PCs, op : {"put", "get", "verify", "delete", "copy"},
               key : Keys, src : Keys, ver : 0..MaxVersion, etag : Files,
               body : Files]

JobStates == [pc : {"idle", "walking", "auditing"}, known : SUBSET Paths,
              todo : SUBSET Paths, list : SUBSET (Keys \X Bytes)]
IdleJob == [pc |-> "idle", known |-> {}, todo |-> {}, list |-> {}]

VARIABLES
    row,       \* key -> its metadata row
    file,      \* path -> the bytes of the blob file
    proc,      \* request handlers
    job,       \* the cleanup goroutine
    reported,  \* keys the last or current integrity pass complained about
    crashes,   \* history, for the bound
    failures   \* history, for the bound

storeVars == <<row, file, proc, job, reported, crashes, failures>>

Live(k) == row[k].etag # NoFile
FileOf(k) == file[PathOf[k]]

StoreTypeOK ==
    /\ row \in [Keys -> Rows]
    /\ file \in [Paths -> Files]
    /\ proc \in [Clients -> ProcStates]
    /\ job \in [Jobs -> JobStates]
    /\ reported \subseteq Keys
    /\ crashes \in 0..MaxCrashes
    /\ failures \in 0..MaxFailures

Rest(k) == [pc |-> "idle", op |-> "get", key |-> k, src |-> k, ver |-> 0,
            etag |-> NoFile, body |-> NoFile]
Idle == Rest(CHOOSE k \in Keys : TRUE)

StoreInit ==
    /\ row = [k \in Keys |-> NoRow]
    /\ file = [p \in Paths |-> NoFile]
    /\ proc = [c \in Clients |-> Idle]
    /\ job = [j \in Jobs |-> IdleJob]
    /\ reported = {}
    /\ crashes = 0
    /\ failures = 0

Become(c, q) == proc' = [proc EXCEPT ![c] = q]
Request(c, op, k) == op \in Ops /\ proc[c].pc = "idle"
Failure == failures < MaxFailures /\ failures' = failures + 1
Background == <<job, reported, crashes>>

-----------------------------------------------------------------------------
(* PutObject: NextObjectVersion reads the row, blob.Put renames the        *)
(* temporary file over the blob, meta.PutObject commits the row.           *)

PutStart(c, k, b) ==
    /\ Request(c, "put", k)
    /\ row[k].ver < MaxVersion
    /\ Become(c, [Idle EXCEPT !.pc = "writing", !.op = "put", !.key = k,
                    !.src = k, !.ver = row[k].ver + 1, !.body = b])
    /\ UNCHANGED <<row, file, failures, Background>>

PutFile(c) ==
    /\ proc[c].pc = "writing"
    /\ file' = [file EXCEPT ![PathOf[proc[c].key]] = proc[c].body]
    /\ Become(c, [proc[c] EXCEPT !.pc = "stored"])
    /\ UNCHANGED <<row, failures, Background>>

(* A body that ends early or is too large, a full disk: the temporary file *)
(* is removed, the blob is as it was.                                      *)
PutFileFail(c) ==
    /\ proc[c].pc = "writing"
    /\ Failure
    /\ Become(c, Idle)
    /\ UNCHANGED <<row, file, Background>>

(* An insert makes version 0 version 1, an update does not.                *)
PutCommit(c) ==
    /\ proc[c].pc = "stored"
    /\ LET k == proc[c].key
           v == IF proc[c].ver = 0 /\ ~Live(k) THEN 1 ELSE proc[c].ver
       IN  row' = [row EXCEPT ![k] = [ver |-> v, etag |-> proc[c].body]]
    /\ Become(c, [proc[c] EXCEPT !.pc = "done"])
    /\ UNCHANGED <<file, failures, Background>>

PutCommitFail(c) ==
    /\ proc[c].pc = "stored"
    /\ Failure
    /\ Become(c, [proc[c] EXCEPT !.pc = "undo"])
    /\ UNCHANGED <<row, file, Background>>

PutUndo(c) ==
    /\ proc[c].pc = "undo"
    /\ file' = [file EXCEPT ![PathOf[proc[c].key]] = NoFile]
    /\ Become(c, Idle)
    /\ UNCHANGED <<row, failures, Background>>

-----------------------------------------------------------------------------
(* CopyObject: the source row is read, its blob opened, and the bytes go   *)
(* through blob.Put and meta.PutObject with a row of version 0.            *)

CopyStart(c, s, d) ==
    /\ Request(c, "copy", s)
    /\ Live(s)
    /\ Become(c, [Idle EXCEPT !.pc = "copying", !.op = "copy", !.key = d,
                              !.src = s])
    /\ UNCHANGED <<row, file, failures, Background>>

(* The destination's blob is opened.                                       *)
MutantCopyOpen(c) ==
    /\ proc[c].pc = "copying"
    /\ Become(c, IF FileOf(proc[c].key) = NoFile THEN Idle
                 ELSE [proc[c] EXCEPT !.pc = "writing",
                                      !.body = FileOf(proc[c].key)])
    /\ UNCHANGED <<row, file, failures, Background>>

CopyOpen(c) ==
    /\ proc[c].pc = "copying"
    /\ Become(c, IF FileOf(proc[c].src) = NoFile THEN Idle
                 ELSE [proc[c] EXCEPT !.pc = "writing",
                                      !.body = FileOf(proc[c].src)])
    /\ UNCHANGED <<row, file, failures, Background>>

-----------------------------------------------------------------------------
(* GetObject.  With verification the blob is opened and hashed, and opened *)
(* again for the body.  An open file keeps its bytes when it is replaced.  *)

GetRow(c, op, k) ==
    /\ op \in {"get", "verify"} /\ Request(c, op, k)
    /\ Live(k)
    /\ Become(c, [Idle EXCEPT !.pc = "found", !.op = op, !.key = k,
                              !.src = k, !.etag = row[k].etag])
    /\ UNCHANGED <<row, file, failures, Background>>

(* The hash is computed and not compared.                                  *)
MutantGetOpen(c) ==
    /\ proc[c].pc = "found"
    /\ LET body == FileOf(proc[c].key)
       IN  Become(c, IF body = NoFile THEN Idle
                     ELSE IF proc[c].op = "verify"
                     THEN [proc[c] EXCEPT !.pc = "verified"]
                     ELSE [proc[c] EXCEPT !.pc = "answered", !.body = body])
    /\ UNCHANGED <<row, file, failures, Background>>

GetOpen(c) ==
    /\ proc[c].pc = "found"
    /\ LET body == FileOf(proc[c].key)
           bad == proc[c].op = "verify" /\ body # proc[c].etag
       IN  Become(c, IF body = NoFile \/ bad THEN Idle
                     ELSE IF proc[c].op = "verify"
                     THEN [proc[c] EXCEPT !.pc = "verified"]
                     ELSE [proc[c] EXCEPT !.pc = "answered", !.body = body])
    /\ UNCHANGED <<row, file, failures, Background>>

GetReopen(c) ==
    /\ proc[c].pc = "verified"
    /\ LET body == FileOf(proc[c].key)
       IN  Become(c, IF body = NoFile THEN Idle
                     ELSE [proc[c] EXCEPT !.pc = "answered", !.body = body])
    /\ UNCHANGED <<row, file, failures, Background>>

-----------------------------------------------------------------------------
(* DeleteObject: a key without a row is a success without any step.        *)

DeleteCheck(c, k) ==
    /\ Request(c, "delete", k)
    /\ Live(k)
    /\ Become(c, [Idle EXCEPT !.pc = "deleting", !.op = "delete", !.key = k,
                              !.src = k])
    /\ UNCHANGED <<row, file, failures, Background>>

(* The file is removed before the row.                                     *)
MutantDeleteRow(c) ==
    /\ proc[c].pc = "deleting"
    /\ file' = [file EXCEPT ![PathOf[proc[c].key]] = NoFile]
    /\ Become(c, [proc[c] EXCEPT !.pc = "unlinking"])
    /\ UNCHANGED <<row, failures, Background>>

DeleteRow(c) ==
    /\ proc[c].pc = "deleting"
    /\ \/ /\ row' = [row EXCEPT ![proc[c].key] = NoRow]
          /\ Become(c, [proc[c] EXCEPT !.pc = "unlinking"])
          /\ UNCHANGED failures
       \/ /\ Failure
          /\ Become(c, Idle)
          /\ UNCHANGED row
    /\ UNCHANGED <<file, Background>>

DeleteFile(c) ==
    /\ proc[c].pc = "unlinking"
    /\ \/ /\ file' = [file EXCEPT ![PathOf[proc[c].key]] = NoFile]
          /\ Become(c, [proc[c] EXCEPT !.pc = "done"])
          /\ UNCHANGED failures
       \/ /\ Failure
          /\ Become(c, Idle)
          /\ UNCHANGED file
    /\ UNCHANGED <<row, Background>>

Return(c) ==
    /\ proc[c].pc \in {"done", "answered"}
    /\ Become(c, Idle)
    /\ UNCHANGED <<row, file, failures, Background>>

-----------------------------------------------------------------------------
(* Cleanup.runAll: RunOrphanBlobs lists the paths of all rows, then walks  *)
(* the tree and removes each blob that is not on its list; a path that the *)
(* walk's directory listing missed is one that had no file when visited.   *)
(* RunIntegrityVerify then lists the rows and hashes their files.          *)

JobList(j) ==
    /\ job[j].pc = "idle"
    /\ job' = [job EXCEPT ![j].pc = "walking", ![j].todo = Paths,
                          ![j].known = {PathOf[k] : k \in {x \in Keys : Live(x)}}]
    /\ UNCHANGED <<row, file, proc, reported, crashes, failures>>

(* The walk counts orphans without removing them.                          *)
MutantJobVisit(j, p) ==
    /\ job[j].pc = "walking" /\ p \in job[j].todo
    /\ job' = [job EXCEPT ![j].todo = @ \ {p}]
    /\ UNCHANGED <<row, file, proc, reported, crashes, failures>>

JobVisit(j, p) ==
    /\ job[j].pc = "walking" /\ p \in job[j].todo
    /\ file' = IF p \in job[j].known THEN file ELSE [file EXCEPT ![p] = NoFile]
    /\ job' = [job EXCEPT ![j].todo = @ \ {p}]
    /\ UNCHANGED <<row, proc, reported, crashes, failures>>

JobAuditList(j) ==
    /\ job[j].pc = "walking" /\ job[j].todo = {}
    /\ job' = [job EXCEPT ![j].pc = "auditing", ![j].known = {},
                 ![j].list = {<<k, row[k].etag>> : k \in {x \in Keys : Live(x)}}]
    /\ reported' = {}
    /\ UNCHANGED <<row, file, proc, crashes, failures>>

(* A missing file ends the check of its object without a report.           *)
MutantJobAudit(j, e) ==
    /\ job[j].pc = "auditing" /\ e \in job[j].list
    /\ reported' = IF FileOf(e[1]) \in {e[2], NoFile} THEN reported
                   ELSE reported \cup {e[1]}
    /\ job' = [job EXCEPT ![j].list = @ \ {e}]
    /\ UNCHANGED <<row, file, proc, crashes, failures>>

JobAudit(j, e) ==
    /\ job[j].pc = "auditing" /\ e \in job[j].list
    /\ reported' = IF FileOf(e[1]) = e[2] THEN reported
                   ELSE reported \cup {e[1]}
    /\ job' = [job EXCEPT ![j].list = @ \ {e}]
    /\ UNCHANGED <<row, file, proc, crashes, failures>>

JobEnd(j) ==
    /\ job[j].pc = "auditing" /\ job[j].list = {}
    /\ job' = [job EXCEPT ![j] = IdleJob]
    /\ UNCHANGED <<row, file, proc, reported, crashes, failures>>

(* The process stops and starts again on its data directory.               *)
Crash ==
    /\ crashes < MaxCrashes /\ crashes' = crashes + 1
    /\ proc' = [c \in Clients |-> Idle]
    /\ job' = [j \in Jobs |-> IdleJob]
    /\ UNCHANGED <<row, file, reported, failures>>

-----------------------------------------------------------------------------
WriteStep(c) ==
    \/ \E k \in Keys, b \in Bytes : PutStart(c, k, b)
    \/ \E s, d \in Keys : CopyStart(c, s, d)
    \/ CopyOpen(c) \/ PutFile(c) \/ PutFileFail(c) \/ PutCommit(c)
    \/ PutCommitFail(c) \/ PutUndo(c)

ReadStep(c) ==
    \/ \E k \in Keys, op \in Ops : GetRow(c, op, k)
    \/ GetOpen(c) \/ GetReopen(c) \/ Return(c)

DeleteStep(c) ==
    \/ \E k \in Keys : DeleteCheck(c, k)
    \/ DeleteRow(c) \/ DeleteFile(c)

JobStep(j) ==
    \/ JobList(j) \/ JobAuditList(j) \/ JobEnd(j)
    \/ \E p \in Paths : JobVisit(j, p)
    \/ \E e \in job[j].list : JobAudit(j, e)

StoreNext ==
    \/ \E c \in Clients : WriteStep(c) \/ ReadStep(c) \/ DeleteStep(c)
    \/ \E j \in Jobs : JobStep(j)
    \/ Crash

StoreSpec == StoreInit /\ [][StoreNext]_storeVars

(* The ticker of StartPeriodic keeps the cleanup goroutine going; clients, *)
(* crashes and failures owe nothing.                                       *)
StoreFair == StoreSpec /\ \A j \in Jobs : WF_storeVars(JobStep(j))

-----------------------------------------------------------------------------
(* LiveHasFile: metadata never points at a removed file: whatever step a   *)
(* handler or a crash has just taken, a key with a row has a blob (the     *)
(* order of the steps of PutObjectWithVersion and DeleteObject).           *)
LiveHasFile == \A k \in Keys : Live(k) => FileOf(k) # NoFile

(* VerifiedMatches: a GET that asked for verification is answered with the *)
(* bytes its ETag stands for, or not at all: damage that a crash left      *)
(* between the rename and the commit of an overwrite is never served.      *)
VerifiedMatches ==
    \A c \in Clients : proc[c].pc = "answered" /\ proc[c].op = "verify" =>
        proc[c].body = proc[c].etag

(* OrphansRemoved: a blob without a row, left by a crash or by a failing   *)
(* removal, does not stay for ever: it is removed or gets a row.           *)
OrphansRemoved ==
    \A p \in Paths :
        (file[p] # NoFile /\ \A k \in Keys : PathOf[k] = p => ~Live(k))
            ~> (file[p] = NoFile \/ \E k \in Keys : PathOf[k] = p /\ Live(k))

Damaged(k) == Live(k) /\ FileOf(k) # row[k].etag

(* DamageReported: an object whose file stays lost or different from its   *)
(* ETag is in the report of every later integrity pass.                    *)
DamageReported ==
    \A k \in Keys : <>[]Damaged(k) => []<>(k \in reported)

(* VersionRises: an overwrite gives a key a higher version than it had.    *)
VersionRises ==
    [][\A k \in Keys : Live(k) /\ row'[k].etag # NoFile /\ row'[k] # row[k]
                           => row'[k].ver > row[k].ver]_row

(* OrphansOnly: the cleanup goroutine removes only blobs that no row       *)
(* references at that moment.                                              *)
OrphansOnly ==
    [][\A k \in Keys : job' # job /\ file' # file /\ Live(k)
                           => FileOf(k)' = FileOf(k)]_<<job, file>>

(* UndoneOnly: the blob that PutObject removes after a failed commit is    *)
(* not the blob of an object that metadata still lists.                    *)
UndoneOnly ==
    \A c \in Clients : proc[c].pc = "undo" => ~Live(proc[c].key)

=============================================================================
