------------------------------ MODULE FilesApi ------------------------------
(***************************************************************************)
(* The requests of one user that create and delete files: the chunked and  *)
(* the direct upload, the registration both end in, and the deletion, of   *)
(* apps/api/src/modules/files/files.service.ts.  A request works on three  *)
(* stores that share no transaction: the server's disk (the chunks of an   *)
(* upload and the file assembled from them), the object storage, and the   *)
(* database (the file rows and the monthly counter of the subscription).   *)
(*                                                                         *)
(* The upload page sends the chunks one after the other; a chunk may reach *)
(* the server more than once.  What becomes of a registered file is the    *)
(* subject of FileProcessing, of the subscription that of Billing.         *)
(***************************************************************************)
EXTENDS Naturals, FiniteSets

CONSTANTS
  Requests,             \* concurrent executions of these handlers
  Uploads,              \* upload ids, random UUIDs drawn by the page
  LastChunk,            \* the chunks of an upload are 0..LastChunk
  Files,                \* ids of file rows; each has its own storage key
  OldFiles,             \* files registered before
  Limit,                \* monthlyFileLimit of the subscription
  None,                 \* no upload or file
  FaultKinds, MaxFaults \* which faults may happen, and how many in all

ASSUME FilesAssumption ==
  /\ OldFiles \subseteq Files /\ None \notin Files /\ None \notin Uploads
  /\ \A n \in {LastChunk, Limit, MaxFaults} : n \in Nat
  /\ IsFiniteSet(Requests) /\ IsFiniteSet(Files)
  /\ {"none", "whole", "rejected"} \cap Requests = {} /\ "partial" \notin Files

VARIABLES
  page,     \* the upload page's loop over the chunks, for each upload
  temp,     \* temp/<uploadId>: its manifest and chunks
  request,  \* local state of each request
  disk,     \* requests whose assembled (or direct) file is on disk, and
            \* "rejected", the files of direct uploads that were rejected
  storage,  \* stored objects, by the file they were stored for, and
            \* "partial", those cut short, under keys no row has
  file,     \* rows of files
  sub,      \* subscriptions: [active, used]
  asked,    \* history: files whose deletion a request has begun
  sent,     \* history: how often each chunk of an upload reached the server
  lost,     \* history: the process died, or a clean-up was refused
  faults    \* faults so far

vars ==
  <<page, temp, request, disk, storage, file, sub, asked, sent, lost, faults>>

Chunks == 0..LastChunk
ChunkStates == {"none", "whole"} \cup Requests \* being written by a request

PageRecord == [state : {"ready", "waiting", "done", "failed"}, next : Chunks]
TempRecord == [dir : BOOLEAN, manifest : BOOLEAN, chunk : [Chunks -> ChunkStates]]
\* "unacked" is a row as "present" is: its COMMIT was not acknowledged.
FileRecord == [state : {"absent", "stored", "present", "unacked", "deleted"},
               upload : Uploads \cup {None}, whole : BOOLEAN]
RequestRecord ==
  [pc : {"idle", "open", "manifest", "create", "fill", "join", "size",
         "quota", "store", "commit", "undo", "tidy", "abort", "reply",
         "object", "row"},
   upload : Uploads \cup {None}, chunk : Chunks, joined : Chunks \cup {LastChunk + 1},
   file : Files \cup {None}, whole : BOOLEAN, answers : BOOLEAN, ok : BOOLEAN]

NoTemp == [dir |-> FALSE, manifest |-> FALSE, chunk |-> [k \in Chunks |-> "none"]]
NoFile == [state |-> "absent", upload |-> None, whole |-> FALSE]
Idle == [pc |-> "idle", upload |-> None, chunk |-> 0, joined |-> 0, file |-> None,
         whole |-> TRUE, answers |-> FALSE, ok |-> FALSE]

TypeOK ==
  /\ page \in [Uploads -> PageRecord]
  /\ temp \in [Uploads -> TempRecord]
  /\ request \in [Requests -> RequestRecord]
  /\ disk \subseteq Requests \cup {"rejected"}
  /\ storage \subseteq Files \cup {"partial"}
  /\ file \in [Files -> FileRecord]
  /\ sub \in [active : BOOLEAN, used : Nat]
  /\ asked \subseteq Files
  /\ sent \in [Uploads -> [Chunks -> Nat]]
  /\ lost \in BOOLEAN
  /\ faults \in Nat

Init ==
  /\ page = [u \in Uploads |-> [state |-> "ready", next |-> 0]]
  /\ temp = [u \in Uploads |-> NoTemp]
  /\ request = [r \in Requests |-> Idle]
  /\ disk = {}
  /\ storage = OldFiles
  /\ file = [f \in Files |-> IF f \in OldFiles
       THEN [state |-> "present", upload |-> None, whole |-> TRUE] ELSE NoFile]
  /\ sub = [active |-> TRUE, used |-> 0]
  /\ asked = {}
  /\ sent = [u \in Uploads |-> [k \in Chunks |-> 0]]
  /\ lost = FALSE
  /\ faults = 0

Fault(kind) ==
  /\ kind \in FaultKinds
  /\ faults < MaxFaults
  /\ faults' = faults + 1

Goto(r, pc) == request' = [request EXCEPT ![r].pc = pc]

Row(f) == file[f].state \in {"present", "unacked"}

(* rm -r of the directory of upload u, taken as one step; a direct upload  *)
(* has none.                                                               *)
Without(u) == IF u = None THEN temp ELSE [temp EXCEPT ![u] = NoTemp]

-----------------------------------------------------------------------------
(* The upload page and the arrival of its requests.                        *)

(* A chunk request starts: the first chunk makes the directory, the others *)
(* open the manifest.                                                      *)
ChunkRequest(u, k, answers) ==
  [Idle EXCEPT !.pc = "open", !.upload = u, !.chunk = k, !.answers = answers]

SendChunk(r, u) ==
  /\ request[r] = Idle
  /\ page[u].state = "ready"
  /\ page' = [page EXCEPT ![u].state = "waiting"]
  /\ request' = [request EXCEPT ![r] = ChunkRequest(u, page[u].next, TRUE)]
  /\ sent' = [sent EXCEPT ![u][page[u].next] = @ + 1]
  /\ UNCHANGED <<temp, disk, storage, file, sub, asked, lost, faults>>

(* A chunk that was sent reaches the server once more.                     *)
ResendChunk(r, u, k) ==
  /\ request[r] = Idle
  /\ k < page[u].next \/ (k = page[u].next /\ page[u].state # "ready")
  /\ Fault("resend")
  /\ request' = [request EXCEPT ![r] = ChunkRequest(u, k, FALSE)]
  /\ sent' = [sent EXCEPT ![u][k] = @ + 1]
  /\ UNCHANGED <<page, temp, disk, storage, file, sub, asked, lost>>

Direct(q) == request[q].upload = None /\ request[q].pc \in {"quota", "store"}

(* uploadFile: the interceptor has put the whole file on disk, before the  *)
(* body is validated.  Bounded: the model keeps a file id for every upload.*)
StartDirect(r) ==
  /\ request[r] = Idle
  /\ Cardinality({f \in Files : file[f] = NoFile})
       > Cardinality(Uploads) + Cardinality({q \in Requests : Direct(q)})
  /\ request' = [request EXCEPT ![r] = [Idle EXCEPT !.pc = "quota"]]
  /\ disk' = disk \cup {r}
  /\ UNCHANGED <<page, temp, storage, file, sub, asked, sent, lost, faults>>

(* The body of the request is not valid.  Nothing removes the file.        *)
RejectDirect(r) ==
  /\ request[r].pc = "quota" /\ request[r].upload = None
  /\ Fault("refuse")
  /\ disk' = (disk \ {r}) \cup {"rejected"}
  /\ Goto(r, "reply")
  /\ UNCHANGED <<page, temp, storage, file, sub, asked, sent, lost>>

(* Mutant of Reply: the loop runs one chunk too far.                       *)
ReplyPastLast(r) ==
  LET u == request[r].upload IN
  /\ request[r].pc = "reply"
  /\ page' = IF ~request[r].answers THEN page
             ELSE [page EXCEPT ![u] =
               IF ~request[r].ok THEN [@ EXCEPT !.state = "failed"]
               ELSE [state |-> "ready", next |-> @.next + 1]]
  /\ request' = [request EXCEPT ![r] = Idle]
  /\ UNCHANGED <<temp, disk, storage, file, sub, asked, sent, lost, faults>>

(* The answer of a request; the page goes on, or stops at an error.        *)
Reply(r) ==
  LET u == request[r].upload IN
  /\ request[r].pc = "reply"
  /\ page' = IF ~request[r].answers THEN page
             ELSE [page EXCEPT ![u] =
               IF ~request[r].ok THEN [@ EXCEPT !.state = "failed"]
               ELSE IF @.next = LastChunk THEN [@ EXCEPT !.state = "done"]
               ELSE [state |-> "ready", next |-> @.next + 1]]
  /\ request' = [request EXCEPT ![r] = Idle]
  /\ UNCHANGED <<temp, disk, storage, file, sub, asked, sent, lost, faults>>

-----------------------------------------------------------------------------
(* handleChunkUpload.  Every error leads to the catch block.               *)

(* A check of the content (its header, its type, the subject) refuses the  *)
(* upload, or a statement of the disk or the database throws.              *)
Refused(r) ==
  /\ request[r].pc \in {"open", "manifest", "create", "fill", "join", "size", "quota"}
  /\ Fault("refuse")
  /\ Goto(r, "abort")
  /\ UNCHANGED <<page, temp, disk, storage, file, sub, asked, sent, lost>>

(* mkdir, not recursive, for the first chunk; the others read the manifest.*)
OpenUpload(r) ==
  LET u == request[r].upload  k == request[r].chunk IN
  /\ request[r].pc = "open"
  /\ IF k = 0
     THEN /\ temp' = [temp EXCEPT ![u].dir = TRUE]
          /\ Goto(r, IF temp[u].dir THEN "abort" ELSE "manifest")
     ELSE /\ Goto(r, IF temp[u].manifest THEN "create" ELSE "abort")
          /\ UNCHANGED temp
  /\ UNCHANGED <<page, disk, storage, file, sub, asked, sent, lost, faults>>

WriteManifest(r) ==
  LET u == request[r].upload IN
  /\ request[r].pc = "manifest"
  /\ IF temp[u].dir /\ ~temp[u].manifest
     THEN temp' = [temp EXCEPT ![u].manifest = TRUE] /\ Goto(r, "create")
     ELSE Goto(r, "abort") /\ UNCHANGED temp
  /\ UNCHANGED <<page, disk, storage, file, sub, asked, sent, lost, faults>>

(* Mutant of CreateChunk: the chunk file is opened without the flag wx.    *)
CreateAnyway(r) ==
  LET u == request[r].upload  k == request[r].chunk IN
  /\ request[r].pc = "create"
  /\ IF temp[u].dir
     THEN temp' = [temp EXCEPT ![u].chunk[k] = r] /\ Goto(r, "fill")
     ELSE Goto(r, "abort") /\ UNCHANGED temp
  /\ UNCHANGED <<page, disk, storage, file, sub, asked, sent, lost, faults>>

(* The chunk file must not exist, and has no content at first ...          *)
CreateChunk(r) ==
  LET u == request[r].upload  k == request[r].chunk IN
  /\ request[r].pc = "create"
  /\ IF temp[u].dir /\ temp[u].chunk[k] = "none"
     THEN temp' = [temp EXCEPT ![u].chunk[k] = r] /\ Goto(r, "fill")
     ELSE Goto(r, "abort") /\ UNCHANGED temp
  /\ UNCHANGED <<page, disk, storage, file, sub, asked, sent, lost, faults>>

(* ... and then the buffer is in it, if the file is still the one created. *)
FillChunk(r) ==
  LET u == request[r].upload  k == request[r].chunk IN
  /\ request[r].pc = "fill"
  /\ temp' = IF temp[u].chunk[k] = r
             THEN [temp EXCEPT ![u].chunk[k] = "whole"] ELSE temp
  /\ disk' = IF k = LastChunk THEN disk \cup {r} ELSE disk
  /\ request' = [request EXCEPT ![r].pc = IF k = LastChunk THEN "join" ELSE "reply",
                                ![r].ok = k # LastChunk]
  /\ UNCHANGED <<page, storage, file, sub, asked, sent, lost, faults>>

(* The last chunk's request appends the chunks, in their order.            *)
JoinChunk(r) ==
  LET u == request[r].upload  k == request[r].joined IN
  /\ request[r].pc = "join"
  /\ request' = [request EXCEPT ![r] =
       IF temp[u].chunk[k] = "none" THEN [@ EXCEPT !.pc = "abort"]
       ELSE [@ EXCEPT !.joined = k + 1,
                      !.pc = IF k = LastChunk THEN "size" ELSE "join",
                      !.whole = request[r].whole /\ temp[u].chunk[k] = "whole"]]
  /\ UNCHANGED <<page, temp, disk, storage, file, sub, asked, sent, lost, faults>>

(* Mutant of CheckSize: the assembled size is not compared.                *)
SkipSizeCheck(r) ==
  /\ request[r].pc = "size"
  /\ Goto(r, "quota")
  /\ UNCHANGED <<page, temp, disk, storage, file, sub, asked, sent, lost, faults>>

CheckSize(r) ==
  /\ request[r].pc = "size"
  /\ Goto(r, IF request[r].whole THEN "quota" ELSE "abort")
  /\ UNCHANGED <<page, temp, disk, storage, file, sub, asked, sent, lost, faults>>

(* The catch and finally blocks: the assembled file goes and so does the   *)
(* directory of the upload, even if another request made or uses it.       *)
Abort(r) ==
  /\ request[r].pc = "abort"
  /\ disk' = disk \ {r}
  /\ temp' = Without(request[r].upload)
  /\ request' = [request EXCEPT ![r].pc = "reply", ![r].ok = FALSE]
  /\ UNCHANGED <<page, storage, file, sub, asked, sent, lost, faults>>

-----------------------------------------------------------------------------
(* registerAndProcessFile                                                  *)

QuotaIsOver == sub.active /\ sub.used >= Limit

(* The first look at the quota, outside of any transaction.                *)
CheckQuota(r) ==
  /\ request[r].pc = "quota"
  /\ Goto(r, IF QuotaIsOver THEN "abort" ELSE "store")
  /\ UNCHANGED <<page, temp, disk, storage, file, sub, asked, sent, lost, faults>>

(* The object is stored under a key of its own.                            *)
StoreObject(r) ==
  /\ request[r].pc = "store"
  /\ \E f \in Files :
       /\ file[f] = NoFile
       /\ storage' = storage \cup {f}
       /\ file' = [file EXCEPT ![f] = [state |-> "stored",
            upload |-> request[r].upload, whole |-> request[r].whole]]
       /\ request' = [request EXCEPT ![r].pc = "commit", ![r].file = f]
  /\ UNCHANGED <<page, temp, disk, sub, asked, sent, lost, faults>>

(* What had been written of the object stays where it is.                  *)
StoreFails(r) ==
  /\ request[r].pc = "store"
  /\ Fault("store")
  /\ storage' \in {storage, storage \cup {"partial"}}
  /\ Goto(r, "abort")
  /\ UNCHANGED <<page, temp, disk, file, sub, asked, sent, lost>>

(* Mutant of Register: the quota is not read again under the lock.         *)
RegisterUnlocked(r) ==
  LET f == request[r].file IN
  /\ request[r].pc = "commit"
  /\ file' = [file EXCEPT ![f].state = "present"]
  /\ sub' = IF sub.active THEN [sub EXCEPT !.used = @ + 1] ELSE sub
  /\ Goto(r, "tidy")
  /\ UNCHANGED <<page, temp, disk, storage, asked, sent, lost, faults>>

(* The transaction: the subscription row is locked and its counter read    *)
(* again, then the file, its first attempt and the counter are written.    *)
Register(r) ==
  LET f == request[r].file IN
  /\ request[r].pc = "commit"
  /\ IF QuotaIsOver
     THEN Goto(r, "undo") /\ UNCHANGED <<file, sub>>
     ELSE /\ file' = [file EXCEPT ![f].state = "present"]
          /\ sub' = IF sub.active THEN [sub EXCEPT !.used = @ + 1] ELSE sub
          /\ Goto(r, "tidy")
  /\ UNCHANGED <<page, temp, disk, storage, asked, sent, lost, faults>>

(* The transaction throws and has no effect ...                            *)
RegisterFails(r) ==
  /\ request[r].pc = "commit"
  /\ Fault("commit")
  /\ Goto(r, "undo")
  /\ UNCHANGED <<page, temp, disk, storage, file, sub, asked, sent, lost>>

(* ... or its COMMIT takes effect, but is not acknowledged: the caller     *)
(* takes the transaction for failed all the same.                          *)
RegisterUnacknowledged(r) ==
  /\ request[r].pc = "commit" /\ ~QuotaIsOver
  /\ Fault("commit")
  /\ file' = [file EXCEPT ![request[r].file].state = "unacked"]
  /\ sub' = IF sub.active THEN [sub EXCEPT !.used = @ + 1] ELSE sub
  /\ Goto(r, "undo")
  /\ UNCHANGED <<page, temp, disk, storage, asked, sent, lost>>

(* A key that no row came to use is given up; a row stays as it is.        *)
GivenUp(f) ==
  [file EXCEPT ![f].state = IF file[f].state = "stored" THEN "deleted" ELSE file[f].state]

(* Mutant of UndoStore: the stored object is left where it is.             *)
KeepObject(r) ==
  /\ request[r].pc = "undo"
  /\ file' = GivenUp(request[r].file)
  /\ Goto(r, "abort")
  /\ UNCHANGED <<page, temp, disk, storage, sub, asked, sent, lost, faults>>

(* Whatever the error was, the object is deleted again: with it goes, after*)
(* a COMMIT that was not acknowledged, the object of a row.                *)
UndoStore(r) ==
  /\ request[r].pc = "undo"
  /\ storage' = storage \ {request[r].file}
  /\ file' = GivenUp(request[r].file)
  /\ Goto(r, "abort")
  /\ UNCHANGED <<page, temp, disk, sub, asked, sent, lost, faults>>

(* The finally blocks of a registration that succeeded.                    *)
Tidy(r) ==
  /\ request[r].pc = "tidy"
  /\ disk' = disk \ {r}
  /\ temp' = Without(request[r].upload)
  /\ request' = [request EXCEPT ![r].pc = "reply", ![r].ok = TRUE]
  /\ UNCHANGED <<page, storage, file, sub, asked, sent, lost, faults>>

(* The disk refuses one or both removals of these blocks; the error is     *)
(* swallowed.                                                              *)
CleanupFails(r) ==
  /\ request[r].pc \in {"tidy", "abort"}
  /\ Fault("lose") /\ lost' = TRUE
  /\ disk' \in {disk, disk \ {r}}
  /\ temp' \in {temp, Without(request[r].upload)}
  /\ request' = [request EXCEPT ![r].pc = "reply", ![r].ok = request[r].pc = "tidy"]
  /\ UNCHANGED <<page, storage, file, sub, asked, sent>>

-----------------------------------------------------------------------------
(* deleteFile                                                              *)

StartDelete(r, f) ==
  /\ request[r] = Idle /\ Row(f)
  /\ request' = [request EXCEPT ![r] = [Idle EXCEPT !.pc = "object", !.file = f]]
  /\ asked' = asked \cup {f}
  /\ UNCHANGED <<page, temp, disk, storage, file, sub, sent, lost, faults>>

(* A missing object counts as deleted; an error is logged.                 *)
DeleteObject(r) ==
  /\ request[r].pc = "object"
  /\ storage' = storage \ {request[r].file}
  /\ Goto(r, "row")
  /\ UNCHANGED <<page, temp, disk, file, sub, asked, sent, lost, faults>>

(* Storage refuses a deletion, here or in the undo of a registration, and  *)
(* the handler goes on.                                                    *)
DeleteObjectFails(r) ==
  /\ request[r].pc \in {"object", "undo"}
  /\ Fault("lose") /\ lost' = TRUE
  /\ file' = IF request[r].pc = "undo" THEN GivenUp(request[r].file) ELSE file
  /\ Goto(r, IF request[r].pc = "undo" THEN "abort" ELSE "row")
  /\ UNCHANGED <<page, temp, disk, storage, sub, asked, sent>>

DeleteRow(r) ==
  /\ request[r].pc = "row"
  /\ file' = [file EXCEPT ![request[r].file].state = "deleted"]
  /\ request' = [request EXCEPT ![r] = Idle]
  /\ UNCHANGED <<page, temp, disk, storage, sub, asked, sent, lost, faults>>

(* The row stays, its object is gone; deleting it again is safe.           *)
DeleteRowFails(r) ==
  /\ request[r].pc = "row"
  /\ Fault("commit")
  /\ request' = [request EXCEPT ![r] = Idle]
  /\ UNCHANGED <<page, temp, disk, storage, file, sub, asked, sent, lost>>

-----------------------------------------------------------------------------
(* The environment.                                                        *)

(* Billing starts a new period: the counter is reset.                      *)
PeriodStarts ==
  /\ Fault("billing")
  /\ sub' = [active |-> TRUE, used |-> 0]
  /\ UNCHANGED <<page, temp, request, disk, storage, file, asked, sent, lost>>

(* Billing moves the row to, or out of, the status the quota looks at.     *)
StatusChanges ==
  /\ Fault("billing")
  /\ sub' = [sub EXCEPT !.active = ~@]
  /\ UNCHANGED <<page, temp, request, disk, storage, file, asked, sent, lost>>

(* The process dies in the middle of a request: the disk, the storage and  *)
(* the database stay as they are, and the page sees an error.              *)
Crash(r) ==
  LET u == request[r].upload IN
  /\ request[r].pc # "idle"
  /\ Fault("lose") /\ lost' = TRUE
  /\ request' = [request EXCEPT ![r] = Idle]
  /\ page' = IF request[r].answers THEN [page EXCEPT ![u].state = "failed"] ELSE page
  /\ UNCHANGED <<temp, disk, storage, file, sub, asked, sent>>

Step(r) ==
  \/ OpenUpload(r) \/ WriteManifest(r) \/ CreateChunk(r) \/ FillChunk(r)
  \/ JoinChunk(r) \/ CheckSize(r) \/ Abort(r) \/ CheckQuota(r)
  \/ StoreObject(r) \/ Register(r) \/ UndoStore(r) \/ Tidy(r)
  \/ DeleteObject(r) \/ DeleteRow(r) \/ Reply(r)

Next ==
  \/ \E r \in Requests :
       \/ Step(r) \/ Refused(r) \/ StartDirect(r) \/ RejectDirect(r)
       \/ \E u \in Uploads :
            SendChunk(r, u) \/ \E k \in Chunks : ResendChunk(r, u, k)
       \/ \E f \in Files : StartDelete(r, f)
       \/ StoreFails(r) \/ RegisterFails(r) \/ RegisterUnacknowledged(r)
       \/ CleanupFails(r) \/ DeleteObjectFails(r) \/ DeleteRowFails(r) \/ Crash(r)
  \/ PeriodStarts \/ StatusChanges

Spec == Init /\ [][Next]_vars

-----------------------------------------------------------------------------
(* Properties.                                                             *)

Of(u) == {f \in Files : file[f].upload = u /\ file[f].state # "absent"}
Registered(u) == {f \in Of(u) : Row(f) \/ f \in asked}

(* An upload becomes no more files than its first chunk, and its last one, *)
(* were sent: requests that work on one directory at a time, of which any  *)
(* may remove it, do not register what only one of them assembled.  And    *)
(* the page that was told of a file has one.  A second file of one upload  *)
(* is not excluded: after the directory was removed, a whole upload that   *)
(* reaches the server again is assembled and registered again.             *)
FilesWereSent ==
  \A u \in Uploads :
    /\ \A k \in {0, LastChunk} : Cardinality(Registered(u)) <= sent[u][k]
    /\ page[u].state = "done" => Registered(u) # {}

(* The object of every file row is there and holds all of the upload,      *)
(* unless a deletion of that file has begun, or the COMMIT of the row was  *)
(* not acknowledged: the catch block of registerAndProcessFile then takes  *)
(* the row for not written and deletes its object.  What the row says was  *)
(* stored was whole even then.                                             *)
FileIsReadable ==
  \A f \in Files :
    Row(f) => /\ file[f].whole
              /\ f \in storage \/ f \in asked \/ file[f].state = "unacked"

(* Concurrent uploads do not exceed the monthly limit.                     *)
WithinUploadLimit == sub.used <= Limit

(* When nothing is at work, storage holds no object without a row and the  *)
(* disk no file of an upload, however the requests before failed.  What    *)
(* does stay behind is named: an object that was cut short as it was       *)
(* stored, and the file of a direct upload whose body was rejected.  And   *)
(* everything may stay behind when the process died, or the storage or the *)
(* disk refused a removal.                                                 *)
NothingIsLeft ==
  (\A r \in Requests : request[r] = Idle) /\ ~lost
  => /\ disk \subseteq {"rejected"}
     /\ storage \subseteq {f \in Files : Row(f)} \cup {"partial"}
=============================================================================
