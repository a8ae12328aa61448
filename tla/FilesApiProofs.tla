--------------------------- MODULE FilesApiProofs ---------------------------
(***************************************************************************)
(* Proofs about FilesApi: its types, the monthly limit, that the object of *)
(* a file row is there and whole, what a request may leave behind, and     *)
(* that an upload becomes no more files than it was sent.                  *)
(***************************************************************************)
EXTENDS FilesApi, FiniteSetTheorems, TLAPS

Storing(r) == request[r].pc \in {"commit", "undo"}
Owns(r, f) == Storing(r) /\ request[r].file = f

(* What a request knows at each of its points.                             *)
Knows(r) ==
  /\ request[r].pc \in {"open", "manifest", "create", "fill", "join"}
     => request[r].joined \in Chunks
  /\ request[r].pc \in {"quota", "store"} => request[r].whole
  /\ Storing(r) => /\ request[r].file \in Files
                   /\ file[request[r].file].state \in {"stored", "unacked", "deleted"}
  /\ request[r].pc = "commit" => /\ file[request[r].file].state = "stored"
                                 /\ file[request[r].file].whole
                                 /\ request[r].file \in storage
  /\ request[r].pc \in {"object", "row"} => request[r].file \in asked

OneOwner ==
  \A q, r \in Requests : Storing(q) /\ Owns(r, request[q].file) => q = r

AskedExist == \A f \in asked : file[f].state \in {"present", "unacked", "deleted"}

FileInv ==
  /\ \A r \in Requests : Knows(r)
  /\ OneOwner /\ AskedExist /\ FileIsReadable

(* Until something is lost, every object has a row or a request that       *)
(* answers for it, unless it was cut short as it was stored, and a request *)
(* on every file on the disk, unless its direct upload was rejected.       *)
StorageMatches ==
  ~lost =>
    /\ \A f \in storage : \/ f = "partial" \/ Row(f)
                          \/ \E r \in Requests : Owns(r, f)
    /\ \A r \in Requests : request[r].pc = "row" => request[r].file \notin storage

DiskMatches ==
  ~lost => \A r \in disk \cap Requests : request[r].pc \in
    {"join", "size", "quota", "store", "commit", "undo", "tidy", "abort"}

CleanInv == StorageMatches /\ DiskMatches

-----------------------------------------------------------------------------
(* Types.                                                                  *)

Points == {"idle", "open", "manifest", "create", "fill", "join", "size",
           "quota", "store", "commit", "undo", "tidy", "abort", "reply",
           "object", "row"}

(* Request r becomes q, and no other request moves.                        *)
Becomes(r, q) ==
  /\ request' \in [Requests -> RequestRecord]
  /\ request'[r] = q
  /\ \A other \in Requests \ {r} : request'[other] = request[other]

LEMMA BecomesSet ==
  ASSUME TypeOK, NEW r \in Requests, NEW q \in RequestRecord,
         request' = [request EXCEPT ![r] = q]
  PROVE  Becomes(r, q)
  BY DEF TypeOK, Becomes

LEMMA BecomesGoto ==
  ASSUME TypeOK, NEW r \in Requests, NEW pc \in Points, Goto(r, pc)
  PROVE  Becomes(r, [request[r] EXCEPT !.pc = pc])
  <1>1. [request[r] EXCEPT !.pc = pc] \in RequestRecord
    <2>1. request[r] \in RequestRecord
      BY DEF TypeOK
    <2>2. QED
      BY <2>1 DEF RequestRecord, Points
  <1>2. request' = [request EXCEPT ![r] = [request[r] EXCEPT !.pc = pc]]
    BY DEF Goto
  <1>3. QED
    BY <1>1, <1>2, BecomesSet

LEMMA IdleTyped ==
  /\ Idle \in RequestRecord
  /\ LastChunk \in Chunks
  /\ \A u \in Uploads, k \in Chunks, b \in BOOLEAN :
       ChunkRequest(u, k, b) \in RequestRecord
  <1>1. LastChunk \in Nat
    BY FilesAssumption
  <1>2. 0 \in Chunks /\ LastChunk \in Chunks
    BY <1>1 DEF Chunks
  <1>3. Idle \in RequestRecord
    BY <1>2 DEF Idle, RequestRecord
  <1>4. \A u \in Uploads, k \in Chunks, b \in BOOLEAN :
          ChunkRequest(u, k, b) \in RequestRecord
    BY <1>2 DEF ChunkRequest, Idle, RequestRecord
  <1>5. QED
    BY <1>2, <1>3, <1>4

LEMMA FaultTyped ==
  ASSUME faults \in Nat, NEW kind, Fault(kind)
  PROVE  faults' \in Nat
  BY DEF Fault

LEMMA NoTempTyped ==
  NoTemp \in TempRecord
  BY DEF NoTemp, TempRecord, ChunkStates

LEMMA NoFileTyped ==
  NoFile \in FileRecord
  BY DEF NoFile, FileRecord

(* The directory of an upload becomes t.                                   *)
LEMMA TempSet ==
  ASSUME TypeOK, NEW u, NEW t, u \in Uploads => t \in TempRecord,
         temp' = [temp EXCEPT ![u] = t]
  PROVE  temp' \in [Uploads -> TempRecord]
  BY DEF TypeOK

(* A chunk of an upload is sent once more.                                 *)
LEMMA CountSent ==
  ASSUME sent \in [Uploads -> [Chunks -> Nat]], NEW u \in Uploads, NEW k \in Chunks,
         sent' = [sent EXCEPT ![u][k] = @ + 1]
  PROVE  /\ sent' \in [Uploads -> [Chunks -> Nat]]
         /\ sent'[u][k] = sent[u][k] + 1
         /\ \A v \in Uploads, j \in Chunks :
              v # u \/ j # k => sent'[v][j] = sent[v][j]
  <1>1. sent[u] \in [Chunks -> Nat] /\ sent[u][k] \in Nat
    OBVIOUS
  <1> DEFINE row == [sent[u] EXCEPT ![k] = sent[u][k] + 1]
  <1>2. /\ row \in [Chunks -> Nat] /\ row[k] = sent[u][k] + 1
        /\ \A j \in Chunks : j # k => row[j] = sent[u][j]
    BY <1>1
  <1>3. sent' = [sent EXCEPT ![u] = row]
    OBVIOUS
  <1> HIDE DEF row
  <1>4. QED
    BY <1>2, <1>3

LEMMA TypeInit ==
  Init => TypeOK
  <1> SUFFICES ASSUME Init PROVE TypeOK
    OBVIOUS
  <1>1. page \in [Uploads -> PageRecord]
    <2>1. 0 \in Chunks
      BY FilesAssumption DEF Chunks
    <2>2. QED
      BY <2>1 DEF Init, PageRecord
  <1>2. temp \in [Uploads -> TempRecord] /\ request \in [Requests -> RequestRecord]
    BY NoTempTyped, IdleTyped DEF Init
  <1>3. file \in [Files -> FileRecord]
    BY NoFileTyped DEF Init, FileRecord
  <1>4. storage \subseteq Files \cup {"partial"} /\ sub \in [active : BOOLEAN, used : Nat]
    BY FilesAssumption DEF Init
  <1>5. QED
    BY <1>1, <1>2, <1>3, <1>4 DEF Init, TypeOK

LEMMA TypeArrivals ==
  ASSUME TypeOK, NEW r \in Requests,
         \/ StartDirect(r)
         \/ \E u \in Uploads : SendChunk(r, u) \/ \E k \in Chunks : ResendChunk(r, u, k)
         \/ \E f \in Files : StartDelete(r, f)
  PROVE  TypeOK'
  <1>1. ASSUME NEW u \in Uploads, SendChunk(r, u) PROVE TypeOK'
    <2>1. page[u] \in PageRecord /\ page[u].next \in Chunks
      BY DEF TypeOK, PageRecord
    <2>2. request' \in [Requests -> RequestRecord]
      BY <1>1, <2>1, IdleTyped, BecomesSet DEF SendChunk, Becomes
    <2>3. page' \in [Uploads -> PageRecord]
      <3>1. [page[u] EXCEPT !.state = "waiting"] \in PageRecord
        BY <2>1 DEF PageRecord
      <3>2. QED
        BY <1>1, <3>1 DEF SendChunk, TypeOK
    <2>4. sent' \in [Uploads -> [Chunks -> Nat]]
      BY <1>1, <2>1, CountSent DEF SendChunk, TypeOK
    <2>5. QED
      BY <1>1, <2>2, <2>3, <2>4 DEF SendChunk, TypeOK
  <1>2. ASSUME NEW u \in Uploads, NEW k \in Chunks, ResendChunk(r, u, k) PROVE TypeOK'
    <2>1. request' \in [Requests -> RequestRecord]
      BY <1>2, IdleTyped, BecomesSet DEF ResendChunk, Becomes
    <2>2. faults' \in Nat
      BY <1>2, FaultTyped DEF ResendChunk, TypeOK
    <2>3. sent' \in [Uploads -> [Chunks -> Nat]]
      BY <1>2, CountSent DEF ResendChunk, TypeOK
    <2>4. QED
      BY <1>2, <2>1, <2>2, <2>3 DEF ResendChunk, TypeOK
  <1>3. CASE StartDirect(r)
    <2>1. [Idle EXCEPT !.pc = "quota"] \in RequestRecord
      BY IdleTyped DEF RequestRecord
    <2>2. request' \in [Requests -> RequestRecord]
      BY <1>3, <2>1, BecomesSet DEF StartDirect, Becomes
    <2>3. QED
      BY <1>3, <2>2 DEF StartDirect, TypeOK
  <1>4. ASSUME NEW f \in Files, StartDelete(r, f) PROVE TypeOK'
    <2>1. [Idle EXCEPT !.pc = "object", !.file = f] \in RequestRecord
      BY IdleTyped DEF RequestRecord
    <2>2. request' \in [Requests -> RequestRecord]
      BY <1>4, <2>1, BecomesSet DEF StartDelete, Becomes
    <2>3. QED
      BY <1>4, <2>2 DEF StartDelete, TypeOK
  <1>5. QED
    BY <1>1, <1>2, <1>3, <1>4

LEMMA FillChunkBecomes ==
  ASSUME TypeOK, NEW r \in Requests, FillChunk(r)
  PROVE  LET last == request[r].chunk = LastChunk IN
         /\ last => Becomes(r, [request[r] EXCEPT !.pc = "join", !.ok = FALSE])
         /\ ~last => Becomes(r, [request[r] EXCEPT !.pc = "reply", !.ok = TRUE])
  <1> DEFINE k == request[r].chunk
  <1>1. \A b \in BOOLEAN, pc \in {"join", "reply"} :
          [request[r] EXCEPT !.pc = pc, !.ok = b] \in RequestRecord
    <2>1. request[r] \in RequestRecord
      BY DEF TypeOK
    <2>2. QED
      BY <2>1 DEF RequestRecord
  <1>2. CASE k = LastChunk
    <2>1. request' = [request EXCEPT ![r] = [request[r] EXCEPT !.pc = "join", !.ok = FALSE]]
      BY <1>2, ZenonT(30) DEF FillChunk
    <2>2. QED
      BY <1>1, <1>2, <2>1, BecomesSet
  <1>3. CASE k # LastChunk
    <2>1. request' = [request EXCEPT ![r] = [request[r] EXCEPT !.pc = "reply", !.ok = TRUE]]
      BY <1>3, ZenonT(30) DEF FillChunk
    <2>2. QED
      BY <1>1, <1>3, <2>1, BecomesSet
  <1>4. QED
    BY <1>2, <1>3

(* handleChunkUpload                                                       *)
LEMMA TypeChunk ==
  ASSUME TypeOK, NEW r \in Requests,
         \/ OpenUpload(r) \/ WriteManifest(r) \/ CreateChunk(r) \/ FillChunk(r)
  PROVE  TypeOK'
  <1> DEFINE u == request[r].upload
             k == request[r].chunk
  <1>1. request[r] \in RequestRecord /\ k \in Chunks
    BY DEF TypeOK, RequestRecord
  <1>2. \A v \in Uploads : temp[v] \in TempRecord
    BY DEF TypeOK
  <1>3. ASSUME NEW pc \in Points, Goto(r, pc) PROVE request' \in [Requests -> RequestRecord]
    BY <1>3, BecomesGoto DEF Becomes
  <1>4. CASE OpenUpload(r)
    <2>1. request' \in [Requests -> RequestRecord]
      BY <1>3, <1>4 DEF OpenUpload, Points
    <2>2. u \in Uploads => [temp[u] EXCEPT !.dir = TRUE] \in TempRecord
      BY <1>2 DEF TempRecord
    <2>3. temp' \in [Uploads -> TempRecord]
      BY <1>4, <2>2, TempSet DEF OpenUpload, TypeOK
    <2>4. QED
      BY <1>4, <2>1, <2>3 DEF OpenUpload, TypeOK
  <1>5. CASE WriteManifest(r)
    <2>1. request' \in [Requests -> RequestRecord]
      BY <1>3, <1>5 DEF WriteManifest, Points
    <2>2. u \in Uploads => [temp[u] EXCEPT !.manifest = TRUE] \in TempRecord
      BY <1>2 DEF TempRecord
    <2>3. temp' \in [Uploads -> TempRecord]
      BY <1>5, <2>2, TempSet DEF WriteManifest, TypeOK
    <2>4. QED
      BY <1>5, <2>1, <2>3 DEF WriteManifest, TypeOK
  <1>6. ASSUME NEW v \in Uploads, NEW s \in ChunkStates
        PROVE  [temp[v] EXCEPT !.chunk = [temp[v].chunk EXCEPT ![k] = s]] \in TempRecord
    BY <1>2 DEF TempRecord
  <1>7. CASE CreateChunk(r)
    <2>1. request' \in [Requests -> RequestRecord]
      BY <1>3, <1>7 DEF CreateChunk, Points
    <2>2. \/ temp' = temp
          \/ temp' = [temp EXCEPT ![u] = [temp[u] EXCEPT !.chunk =
                                            [temp[u].chunk EXCEPT ![k] = r]]]
      BY <1>7 DEF CreateChunk
    <2>3. temp' \in [Uploads -> TempRecord]
      BY <1>6, <2>2, TempSet DEF TypeOK, ChunkStates
    <2>4. QED
      BY <1>7, <2>1, <2>3 DEF CreateChunk, TypeOK
  <1>8. CASE FillChunk(r)
    <2>3. request' \in [Requests -> RequestRecord]
      BY <1>8, FillChunkBecomes DEF Becomes
    <2>4. \/ temp' = temp
          \/ temp' = [temp EXCEPT ![u] = [temp[u] EXCEPT !.chunk =
                                            [temp[u].chunk EXCEPT ![k] = "whole"]]]
      BY <1>8 DEF FillChunk
    <2>5. temp' \in [Uploads -> TempRecord]
      BY <1>6, <2>4, TempSet DEF TypeOK, ChunkStates
    <2>6. disk' \subseteq Requests \cup {"rejected"}
      BY <1>8 DEF FillChunk, TypeOK
    <2>7. QED
      BY <1>8, <2>3, <2>5, <2>6 DEF FillChunk, TypeOK
  <1>9. QED
    BY <1>4, <1>5, <1>7, <1>8

LEMMA JoinChunkBecomes ==
  ASSUME TypeOK, NEW r \in Requests, Knows(r), JoinChunk(r)
  PROVE  \/ Becomes(r, [request[r] EXCEPT !.pc = "abort"])
         \/ \E w \in BOOLEAN, j \in Chunks \cup {LastChunk + 1}, pc \in {"join", "size"} :
              /\ Becomes(r, [request[r] EXCEPT !.joined = j, !.pc = pc, !.whole = w])
              /\ pc = "join" => j \in Chunks
  <1> DEFINE u == request[r].upload
             k == request[r].joined
             w == request[r].whole /\ temp[u].chunk[k] = "whole"
             pc == IF k = LastChunk THEN "size" ELSE "join"
             joins == [request[r] EXCEPT !.joined = k + 1, !.pc = pc, !.whole = w]
  <1>1. k \in Chunks /\ request[r] \in RequestRecord
    BY DEF JoinChunk, Knows, TypeOK
  <1>2. w \in BOOLEAN
    BY <1>1 DEF RequestRecord
  <1>3. k + 1 \in Chunks \cup {LastChunk + 1} /\ (pc = "join" => k + 1 \in Chunks)
    BY <1>1, FilesAssumption DEF Chunks
  <1>4. request' = [request EXCEPT ![r] =
          IF temp[u].chunk[k] = "none" THEN [request[r] EXCEPT !.pc = "abort"] ELSE joins]
    BY DEF JoinChunk
  <1>5. CASE temp[u].chunk[k] = "none"
    <2>1. [request[r] EXCEPT !.pc = "abort"] \in RequestRecord
      BY <1>1 DEF RequestRecord
    <2>2. QED
      BY <1>4, <1>5, <2>1, BecomesSet
  <1>6. CASE temp[u].chunk[k] # "none"
    <2> HIDE DEF w
    <2>1. joins \in RequestRecord
      BY <1>1, <1>2, <1>3 DEF RequestRecord
    <2>2. Becomes(r, joins)
      BY <1>4, <1>6, <2>1, BecomesSet
    <2>3. pc \in {"join", "size"}
      OBVIOUS
    <2>4. QED
      BY <1>2, <1>3, <2>2, <2>3
  <1>7. QED
    BY <1>5, <1>6

LEMMA TypeJoin ==
  ASSUME TypeOK, NEW r \in Requests, Knows(r), JoinChunk(r) \/ CheckSize(r)
  PROVE  TypeOK'
  <1>1. CASE JoinChunk(r)
    <2>1. request' \in [Requests -> RequestRecord]
      BY <1>1, JoinChunkBecomes DEF Becomes
    <2>2. QED
      BY <1>1, <2>1 DEF JoinChunk, TypeOK
  <1>2. CASE CheckSize(r)
    <2>1. request' \in [Requests -> RequestRecord]
      BY <1>2, BecomesGoto DEF CheckSize, Points, Becomes
    <2>2. QED
      BY <1>2, <2>1 DEF CheckSize, TypeOK
  <1>3. QED
    BY <1>1, <1>2

(* The end of a request: its directory goes, and its answer is given.      *)
LEMMA EndBecomes ==
  ASSUME TypeOK, NEW r \in Requests, NEW b \in BOOLEAN,
         request' = [request EXCEPT ![r].pc = "reply", ![r].ok = b]
  PROVE  Becomes(r, [request[r] EXCEPT !.pc = "reply", !.ok = b])
  <1>1. [request[r] EXCEPT !.pc = "reply", !.ok = b] \in RequestRecord
    <2>1. request[r] \in RequestRecord
      BY DEF TypeOK
    <2>2. QED
      BY <2>1 DEF RequestRecord
  <1>2. request' = [request EXCEPT ![r] = [request[r] EXCEPT !.pc = "reply", !.ok = b]]
    OBVIOUS
  <1>3. QED
    BY <1>1, <1>2, BecomesSet

LEMMA TypeEnds ==
  ASSUME TypeOK, NEW r \in Requests,
         Abort(r) \/ Tidy(r) \/ CleanupFails(r) \/ Reply(r)
  PROVE  TypeOK'
  <1>1. CASE Abort(r) \/ Tidy(r) \/ CleanupFails(r)
    <2>1. request' \in [Requests -> RequestRecord]
      <3>1. PICK b \in BOOLEAN : request' = [request EXCEPT ![r].pc = "reply", ![r].ok = b]
        BY <1>1 DEF Abort, Tidy, CleanupFails
      <3>2. QED
        BY <3>1, EndBecomes DEF Becomes
    <2>2. temp' \in [Uploads -> TempRecord]
      BY <1>1, NoTempTyped, TempSet DEF Abort, Tidy, CleanupFails, Without, TypeOK
    <2>3. disk' \subseteq Requests \cup {"rejected"}
      BY <1>1 DEF Abort, Tidy, CleanupFails, TypeOK
    <2>4. lost' \in BOOLEAN /\ faults' \in Nat
      BY <1>1, FaultTyped DEF Abort, Tidy, CleanupFails, TypeOK
    <2>5. QED
      BY <1>1, <2>1, <2>2, <2>3, <2>4 DEF Abort, Tidy, CleanupFails, TypeOK
  <1>2. CASE Reply(r)
    <2> DEFINE u == request[r].upload
    <2>1. request' \in [Requests -> RequestRecord]
      BY <1>2, IdleTyped, BecomesSet DEF Reply, Becomes
    <2>2. u \in Uploads => page[u] \in PageRecord
      BY DEF TypeOK
    <2>3. u \in Uploads => [page[u] EXCEPT !.state = "failed"] \in PageRecord
      BY <2>2 DEF PageRecord
    <2>4. u \in Uploads => [page[u] EXCEPT !.state = "done"] \in PageRecord
      BY <2>2 DEF PageRecord
    <2>5. u \in Uploads /\ page[u].next # LastChunk
          => [state |-> "ready", next |-> page[u].next + 1] \in PageRecord
      BY <2>2, FilesAssumption DEF PageRecord, Chunks
    <2>6. page' \in [Uploads -> PageRecord]
      <3>1. CASE u \notin Uploads
        BY <1>2, <3>1 DEF Reply, TypeOK
      <3>2. CASE u \in Uploads
        BY <1>2, <2>3, <2>4, <2>5, <3>2 DEF Reply, TypeOK
      <3>3. QED
        BY <3>1, <3>2
    <2>7. QED
      BY <1>2, <2>1, <2>6 DEF Reply, TypeOK
  <1>3. QED
    BY <1>1, <1>2

(* File f becomes g, and no other.                                         *)
FileBecomes(f, g) ==
  /\ file' \in [Files -> FileRecord]
  /\ f \in Files => file'[f] = g
  /\ \A other \in Files \ {f} : file'[other] = file[other]

LEMMA FileMoves ==
  ASSUME TypeOK, NEW f, NEW s \in {"absent", "stored", "present", "unacked", "deleted"},
         file' = [file EXCEPT ![f].state = s]
  PROVE  FileBecomes(f, [file[f] EXCEPT !.state = s])
  <1>1. f \in Files => [file[f] EXCEPT !.state = s] \in FileRecord
    <2>1. f \in Files => file[f] \in FileRecord
      BY DEF TypeOK
    <2>2. QED
      BY <2>1 DEF FileRecord
  <1>2. file' = [file EXCEPT ![f] = [file[f] EXCEPT !.state = s]]
    OBVIOUS
  <1>3. QED
    BY <1>1, <1>2 DEF FileBecomes, TypeOK

(* What giving up a key does.                                              *)
LEMMA GivesUp ==
  ASSUME TypeOK, NEW f \in Files, file' = GivenUp(f)
  PROVE  \E s \in {"absent", "stored", "present", "unacked", "deleted"} :
           /\ file' = [file EXCEPT ![f].state = s]
           /\ s = IF file[f].state = "stored" THEN "deleted" ELSE file[f].state
  <1>1. PICK s : s = IF file[f].state = "stored" THEN "deleted" ELSE file[f].state
    OBVIOUS
  <1>2. s \in {"absent", "stored", "present", "unacked", "deleted"}
    BY <1>1 DEF TypeOK, FileRecord
  <1>3. file' = [file EXCEPT ![f].state = s]
    BY <1>1 DEF GivenUp
  <1>4. QED
    BY <1>1, <1>2, <1>3

LEMMA GivenUpTyped ==
  ASSUME TypeOK, NEW f, file' = GivenUp(f)
  PROVE  file' \in [Files -> FileRecord]
  <1>1. CASE f \in Files
    BY <1>1, GivesUp, FileMoves DEF FileBecomes
  <1>2. CASE f \notin Files
    BY <1>2 DEF GivenUp, TypeOK
  <1>3. QED
    BY <1>1, <1>2

(* What StoreObject does.                                                  *)
Stores(r, f) ==
  /\ request[r].pc = "store"
  /\ file[f] = NoFile
  /\ storage' = storage \cup {f}
  /\ FileBecomes(f, [state |-> "stored", upload |-> request[r].upload,
                    whole |-> request[r].whole])
  /\ Becomes(r, [request[r] EXCEPT !.pc = "commit", !.file = f])
  /\ UNCHANGED <<page, temp, disk, sub, asked, sent, lost, faults>>

LEMMA StoreObjectStores ==
  ASSUME TypeOK, NEW r \in Requests, StoreObject(r)
  PROVE  \E f \in Files : Stores(r, f)
  <1>1. PICK f \in Files :
          /\ file[f] = NoFile
          /\ storage' = storage \cup {f}
          /\ file' = [file EXCEPT ![f] = [state |-> "stored",
               upload |-> request[r].upload, whole |-> request[r].whole]]
          /\ request' = [request EXCEPT ![r].pc = "commit", ![r].file = f]
    BY DEF StoreObject
  <1>2. request[r] \in RequestRecord
    BY DEF TypeOK
  <1>3. [request[r] EXCEPT !.pc = "commit", !.file = f] \in RequestRecord
    BY <1>2 DEF RequestRecord
  <1>4. request' = [request EXCEPT ![r] = [request[r] EXCEPT !.pc = "commit", !.file = f]]
    BY <1>1
  <1>5. Becomes(r, [request[r] EXCEPT !.pc = "commit", !.file = f])
    BY <1>3, <1>4, BecomesSet
  <1>6. [state |-> "stored", upload |-> request[r].upload, whole |-> request[r].whole]
          \in FileRecord
    BY <1>2 DEF RequestRecord, FileRecord
  <1>7. FileBecomes(f, [state |-> "stored", upload |-> request[r].upload,
                      whole |-> request[r].whole])
    BY <1>1, <1>6 DEF FileBecomes, TypeOK
  <1>8. QED
    BY <1>1, <1>5, <1>7 DEF StoreObject, Stores

LEMMA TypeRegister ==
  ASSUME TypeOK, NEW r \in Requests,
         \/ Refused(r) \/ CheckQuota(r) \/ StoreObject(r) \/ StoreFails(r)
         \/ Register(r) \/ RegisterFails(r) \/ RegisterUnacknowledged(r)
         \/ UndoStore(r) \/ RejectDirect(r)
  PROVE  TypeOK'
  <1>1. ASSUME NEW pc \in Points, Goto(r, pc) PROVE request' \in [Requests -> RequestRecord]
    BY <1>1, BecomesGoto DEF Becomes
  <1>2. CASE CheckQuota(r)
    <2>1. request' \in [Requests -> RequestRecord]
      BY <1>1, <1>2 DEF CheckQuota, Points
    <2>2. QED
      BY <1>2, <2>1 DEF CheckQuota, TypeOK
  <1>3. CASE StoreObject(r)
    <2>1. PICK f \in Files : Stores(r, f)
      BY <1>3, StoreObjectStores
    <2>2. storage' \subseteq Files \cup {"partial"}
      BY <2>1 DEF Stores, TypeOK
    <2>3. QED
      BY <2>1, <2>2 DEF Stores, Becomes, FileBecomes, TypeOK
  <1>4. CASE Refused(r) \/ StoreFails(r) \/ RegisterFails(r) \/ RejectDirect(r)
    <2>1. request' \in [Requests -> RequestRecord]
      BY <1>1, <1>4 DEF Refused, StoreFails, RegisterFails, RejectDirect, Points
    <2>2. faults' \in Nat
      BY <1>4, FaultTyped DEF Refused, StoreFails, RegisterFails, RejectDirect, TypeOK
    <2>3. storage' \subseteq Files \cup {"partial"} /\ disk' \subseteq Requests \cup {"rejected"}
      BY <1>4 DEF Refused, StoreFails, RegisterFails, RejectDirect, TypeOK
    <2>4. QED
      BY <1>4, <2>1, <2>2, <2>3 DEF Refused, StoreFails, RegisterFails, RejectDirect, TypeOK
  <1>5. CASE Register(r)
    <2>1. request' \in [Requests -> RequestRecord]
      BY <1>1, <1>5 DEF Register, Points
    <2>2. file' \in [Files -> FileRecord]
      BY <1>5, FileMoves DEF Register, FileBecomes, TypeOK
    <2>3. sub' \in [active : BOOLEAN, used : Nat]
      BY <1>5 DEF Register, TypeOK
    <2>4. QED
      BY <1>5, <2>1, <2>2, <2>3 DEF Register, TypeOK
  <1>6. CASE UndoStore(r)
    <2>1. request' \in [Requests -> RequestRecord]
      BY <1>1, <1>6 DEF UndoStore, Points
    <2>2. file' \in [Files -> FileRecord]
      BY <1>6, GivenUpTyped DEF UndoStore
    <2>3. storage' \subseteq Files \cup {"partial"}
      BY <1>6 DEF UndoStore, TypeOK
    <2>4. QED
      BY <1>6, <2>1, <2>2, <2>3 DEF UndoStore, TypeOK
  <1>7. CASE RegisterUnacknowledged(r)
    <2>1. request' \in [Requests -> RequestRecord]
      BY <1>1, <1>7 DEF RegisterUnacknowledged, Points
    <2>2. file' \in [Files -> FileRecord]
      BY <1>7, FileMoves DEF RegisterUnacknowledged, FileBecomes
    <2>3. sub' \in [active : BOOLEAN, used : Nat]
      BY <1>7 DEF RegisterUnacknowledged, TypeOK
    <2>4. faults' \in Nat
      BY <1>7, FaultTyped DEF RegisterUnacknowledged, TypeOK
    <2>5. QED
      BY <1>7, <2>1, <2>2, <2>3, <2>4 DEF RegisterUnacknowledged, TypeOK
  <1>8. QED
    BY <1>2, <1>3, <1>4, <1>5, <1>6, <1>7

LEMMA TypeDelete ==
  ASSUME TypeOK, NEW r \in Requests,
         \/ DeleteObject(r) \/ DeleteObjectFails(r) \/ DeleteRow(r)
         \/ DeleteRowFails(r) \/ Crash(r)
  PROVE  TypeOK'
  <1>1. CASE DeleteObject(r)
    <2>1. request' \in [Requests -> RequestRecord]
      BY <1>1, BecomesGoto DEF DeleteObject, Points, Becomes
    <2>2. QED
      BY <1>1, <2>1 DEF DeleteObject, TypeOK
  <1>2. CASE DeleteObjectFails(r)
    <2>1. request' \in [Requests -> RequestRecord]
      BY <1>2, BecomesGoto DEF DeleteObjectFails, Points, Becomes
    <2>2. file' \in [Files -> FileRecord]
      BY <1>2, GivenUpTyped DEF DeleteObjectFails, TypeOK
    <2>3. faults' \in Nat
      BY <1>2, FaultTyped DEF DeleteObjectFails, TypeOK
    <2>4. QED
      BY <1>2, <2>1, <2>2, <2>3 DEF DeleteObjectFails, TypeOK
  <1>3. CASE DeleteRow(r)
    <2>1. request' \in [Requests -> RequestRecord]
      BY <1>3, IdleTyped, BecomesSet DEF DeleteRow, Becomes
    <2>2. file' \in [Files -> FileRecord]
      BY <1>3, FileMoves DEF DeleteRow, FileBecomes
    <2>3. QED
      BY <1>3, <2>1, <2>2 DEF DeleteRow, TypeOK
  <1>4. CASE Crash(r)
    <2> DEFINE u == request[r].upload
    <2>1. request' \in [Requests -> RequestRecord]
      BY <1>4, IdleTyped, BecomesSet DEF Crash, Becomes
    <2>2. u \in Uploads => [page[u] EXCEPT !.state = "failed"] \in PageRecord
      BY DEF TypeOK, PageRecord
    <2>3. page' \in [Uploads -> PageRecord]
      <3>1. CASE u \notin Uploads
        BY <1>4, <3>1 DEF Crash, TypeOK
      <3>2. CASE u \in Uploads
        BY <1>4, <2>2, <3>2 DEF Crash, TypeOK
      <3>3. QED
        BY <3>1, <3>2
    <2>4. faults' \in Nat
      BY <1>4, FaultTyped DEF Crash, TypeOK
    <2>5. QED
      BY <1>4, <2>1, <2>3, <2>4 DEF Crash, TypeOK
  <1>5. CASE DeleteRowFails(r)
    <2>1. request' \in [Requests -> RequestRecord]
      BY <1>5, IdleTyped, BecomesSet DEF DeleteRowFails, Becomes
    <2>2. faults' \in Nat
      BY <1>5, FaultTyped DEF DeleteRowFails, TypeOK
    <2>3. QED
      BY <1>5, <2>1, <2>2 DEF DeleteRowFails, TypeOK
  <1>6. QED
    BY <1>1, <1>2, <1>3, <1>4, <1>5

LEMMA TypeBilling ==
  ASSUME TypeOK, PeriodStarts \/ StatusChanges
  PROVE  TypeOK'
  <1>1. faults' \in Nat
    BY FaultTyped DEF PeriodStarts, StatusChanges, TypeOK
  <1>2. sub' \in [active : BOOLEAN, used : Nat]
    <2>1. \A b \in BOOLEAN : [sub EXCEPT !.active = b] \in [active : BOOLEAN, used : Nat]
      BY DEF TypeOK
    <2>2. (~sub.active) \in BOOLEAN
      BY Zenon
    <2>3. CASE StatusChanges
      BY <2>1, <2>2, <2>3, Zenon DEF StatusChanges
    <2>4. CASE PeriodStarts
      BY <2>4 DEF PeriodStarts
    <2>5. QED
      BY <2>3, <2>4
  <1>3. QED
    BY <1>1, <1>2 DEF PeriodStarts, StatusChanges, TypeOK

-----------------------------------------------------------------------------
(* Steps that touch neither the rows nor their objects: what request r may *)
(* become.                                                                 *)

Early == {"open", "manifest", "create", "fill", "join"}
HasDisk == {"join", "size", "quota", "store", "commit", "undo", "tidy", "abort"}

DiskStep(r, q) ==
  /\ disk' \subseteq disk \cup {r, "rejected"}
  /\ ~lost' => ~lost
  /\ ~lost' /\ r \in disk' => q.pc \in HasDisk

LocalStep(r, q) ==
  /\ Becomes(r, q)
  /\ UNCHANGED <<file, asked>> /\ storage' \in {storage, storage \cup {"partial"}}
  /\ q.pc \in Early => q.joined \in Chunks
  /\ q.pc \in {"quota", "store"} => q.whole
  /\ q.pc \notin {"commit", "object"}
  /\ q.pc = "undo" => Storing(r) /\ q.file = request[r].file
  /\ q.pc = "row" => lost' /\ request[r].pc = "object" /\ q.file = request[r].file
  /\ ~lost' => ~lost /\ (Storing(r) => q.pc = "undo")

Inv == FileInv /\ CleanInv

LEMMA DiskMoves ==
  ASSUME DiskMatches, NEW r \in Requests, NEW q, Becomes(r, q), DiskStep(r, q),
         TypeOK
  PROVE  DiskMatches'
  <1>1. ASSUME ~lost', NEW s \in disk' \cap Requests PROVE request'[s].pc \in HasDisk
    <2>1. CASE s = r
      BY <1>1, <2>1 DEF Becomes, DiskStep
    <2>2. CASE s # r
      <3>1. s \in disk /\ request'[s] = request[s]
        BY <1>1, <2>2, FilesAssumption DEF DiskStep, Becomes
      <3>2. QED
        BY <1>1, <3>1 DEF DiskMatches, DiskStep, HasDisk
    <2>3. QED
      BY <2>1, <2>2
  <1>2. QED
    BY <1>1 DEF DiskMatches, HasDisk

LEMMA FilesLocal ==
  ASSUME TypeOK, FileInv, NEW r \in Requests, NEW q, LocalStep(r, q)
  PROVE  FileInv'
  <1>1. ASSUME NEW s \in Requests PROVE Knows(s)'
    <2>1. CASE s = r
      BY <2>1 DEF FileInv, Knows, Storing, LocalStep, Becomes, Early
    <2>2. CASE s # r
      BY <2>2 DEF FileInv, Knows, Storing, LocalStep, Becomes
    <2>3. QED
      BY <2>1, <2>2
  <1>2. \A s \in Requests : Storing(s)' => Storing(s) /\ request'[s].file = request[s].file
    BY DEF LocalStep, Becomes, Storing
  <1>3. OneOwner'
    BY <1>2 DEF FileInv, OneOwner, Owns
  <1>4. AskedExist' /\ FileIsReadable'
    BY DEF FileInv, AskedExist, FileIsReadable, Row, LocalStep
  <1>5. QED
    BY <1>1, <1>3, <1>4 DEF FileInv

LEMMA StorageLocal ==
  ASSUME TypeOK, FileInv, StorageMatches, NEW r \in Requests, NEW q, LocalStep(r, q)
  PROVE  StorageMatches'
  <1>1. ~lost' => ~lost /\ request'[r].pc # "row"
    BY DEF LocalStep, Becomes
  <1>2. ~lost' => \A s \in Requests, f \in Files : Owns(s, f) => Owns(s, f)'
    BY DEF LocalStep, Becomes, Owns, Storing
  <1>3. UNCHANGED file /\ storage' \subseteq storage \cup {"partial"}
    BY DEF LocalStep
  <1>4. ASSUME ~lost', NEW f \in storage'
        PROVE  f = "partial" \/ Row(f)' \/ \E s \in Requests : Owns(s, f)'
    <2>1. CASE f = "partial"
      BY <2>1
    <2>2. CASE f # "partial"
      <3>1. f \in storage /\ f \in Files
        BY <1>3, <1>4, <2>2 DEF TypeOK
      <3>2. Row(f) \/ \E s \in Requests : Owns(s, f)
        BY <1>1, <1>4, <2>2, <3>1 DEF StorageMatches
      <3>3. Row(f) => Row(f)'
        BY <1>3 DEF Row
      <3>4. QED
        BY <1>2, <1>4, <3>1, <3>2, <3>3
    <2>3. QED
      BY <2>1, <2>2
  <1>5. ASSUME ~lost', NEW s \in Requests, request'[s].pc = "row"
        PROVE  request'[s].file \notin storage'
    <2>1. request'[s] = request[s]
      BY <1>1, <1>5 DEF LocalStep, Becomes
    <2>2. request[s].file \notin storage /\ request[s].file \in Files
      BY <1>1, <1>5, <2>1 DEF StorageMatches, FileInv, Knows, TypeOK
    <2>3. QED
      BY <1>3, <2>1, <2>2, FilesAssumption
  <1>6. QED
    BY <1>4, <1>5 DEF StorageMatches

LEMMA InvLocal ==
  ASSUME TypeOK, Inv, NEW r \in Requests, NEW q, LocalStep(r, q), DiskStep(r, q)
  PROVE  Inv'
  BY FilesLocal, StorageLocal, DiskMoves DEF Inv, CleanInv, LocalStep

(* A request that only moves on.                                           *)
LEMMA InvGoto ==
  ASSUME TypeOK, Inv, NEW r \in Requests, NEW pc \in Points, Goto(r, pc),
         UNCHANGED <<file, asked>>, storage' \in {storage, storage \cup {"partial"}},
         disk' = disk,
         pc \in Early => request[r].pc \in Early,
         pc \in {"quota", "store"} => request[r].whole,
         pc \notin {"commit", "object"},
         r \in disk /\ ~lost' => pc \in HasDisk,
         pc = "undo" => Storing(r),
         pc = "row" => lost' /\ request[r].pc = "object",
         ~lost' => ~lost /\ (Storing(r) => pc = "undo")
  PROVE  Inv'
  <1> DEFINE q == [request[r] EXCEPT !.pc = pc]
  <1>1. Becomes(r, q)
    BY BecomesGoto
  <1>2. request[r] \in RequestRecord
    BY DEF TypeOK
  <1>3. q.pc = pc /\ q.file = request[r].file /\ q.joined = request[r].joined
        /\ q.whole = request[r].whole
    BY <1>2 DEF RequestRecord
  <1>4. LocalStep(r, q)
    BY <1>1, <1>3 DEF LocalStep, Inv, FileInv, Knows, Early
  <1>5. DiskStep(r, q)
    BY <1>3 DEF DiskStep
  <1>6. QED
    BY <1>4, <1>5, InvLocal

(* handleChunkUpload up to the join.                                       *)
LEMMA InvChunk ==
  ASSUME TypeOK, Inv, NEW r \in Requests,
         OpenUpload(r) \/ WriteManifest(r) \/ CreateChunk(r) \/ FillChunk(r)
  PROVE  Inv'
  <1>1. r \in disk => lost
    BY DEF OpenUpload, WriteManifest, CreateChunk, FillChunk, Inv, CleanInv, DiskMatches
  <1>2. request[r].pc \in Early /\ ~Storing(r) /\ lost' = lost
    BY DEF OpenUpload, WriteManifest, CreateChunk, FillChunk, Early, Storing
  <1>3. CASE OpenUpload(r)
    <2>1. PICK pc \in {"abort", "manifest", "create"} : Goto(r, pc)
      BY <1>3 DEF OpenUpload
    <2>2. QED
      BY <1>1, <1>2, <1>3, <2>1, InvGoto DEF OpenUpload, Points, Early, HasDisk
  <1>4. CASE WriteManifest(r)
    <2>1. PICK pc \in {"abort", "create"} : Goto(r, pc)
      BY <1>4 DEF WriteManifest
    <2>2. QED
      BY <1>1, <1>2, <1>4, <2>1, InvGoto DEF WriteManifest, Points, Early, HasDisk
  <1>5. CASE CreateChunk(r)
    <2>1. PICK pc \in {"abort", "fill"} : Goto(r, pc)
      BY <1>5 DEF CreateChunk
    <2>2. QED
      BY <1>1, <1>2, <1>5, <2>1, InvGoto DEF CreateChunk, Points, Early, HasDisk
  <1>6. CASE FillChunk(r)
    <2> DEFINE last == request[r].chunk = LastChunk
               join == [request[r] EXCEPT !.pc = "join", !.ok = FALSE]
               reply == [request[r] EXCEPT !.pc = "reply", !.ok = TRUE]
    <2>1. /\ join.pc = "join" /\ join.joined = request[r].joined
          /\ reply.pc = "reply"
      BY DEF TypeOK, RequestRecord
    <2>2. request[r].joined \in Chunks /\ request[r].pc = "fill"
      BY <1>6 DEF FillChunk, Inv, FileInv, Knows
    <2>3. UNCHANGED <<storage, file, asked, lost>>
      BY <1>6 DEF FillChunk
    <2>4. CASE last
      <3>0. Becomes(r, join)
        BY <1>6, <2>4, FillChunkBecomes
      <3>1. LocalStep(r, join)
        BY <1>2, <2>1, <2>2, <2>3, <3>0 DEF LocalStep, Storing
      <3>2. disk' = disk \cup {r}
        BY <1>6, <2>4 DEF FillChunk
      <3>3. DiskStep(r, join)
        BY <2>1, <2>3, <3>2 DEF DiskStep, HasDisk
      <3>4. QED
        BY <3>1, <3>3, InvLocal
    <2>5. CASE ~last
      <3>0. Becomes(r, reply)
        BY <1>6, <2>5, FillChunkBecomes
      <3>1. LocalStep(r, reply)
        BY <1>2, <2>1, <2>2, <2>3, <3>0 DEF LocalStep, Early, Storing
      <3>2. disk' = disk
        BY <1>6, <2>5 DEF FillChunk
      <3>3. DiskStep(r, reply)
        BY <1>1, <2>1, <2>3, <3>2 DEF DiskStep
      <3>4. QED
        BY <3>1, <3>3, InvLocal
    <2>6. QED
      BY <2>4, <2>5
  <1>7. QED
    BY <1>3, <1>4, <1>5, <1>6

LEMMA InvJoin ==
  ASSUME TypeOK, Inv, NEW r \in Requests, JoinChunk(r)
  PROVE  Inv'
  <1>1. Knows(r) /\ request[r] \in RequestRecord
    BY DEF Inv, FileInv, TypeOK
  <1>2. request[r].pc = "join" /\ UNCHANGED <<storage, file, asked, lost, disk>>
    BY DEF JoinChunk
  <1>3. ASSUME NEW q, Becomes(r, q), q.pc \in {"join", "size", "abort"},
               q.pc = "join" => q.joined \in Chunks
        PROVE  Inv'
    <2>1. LocalStep(r, q)
      BY <1>2, <1>3 DEF LocalStep, Early, Storing
    <2>2. DiskStep(r, q)
      BY <1>2, <1>3 DEF DiskStep, HasDisk
    <2>3. QED
      BY <2>1, <2>2, InvLocal
  <1>4. CASE Becomes(r, [request[r] EXCEPT !.pc = "abort"])
    <2>1. [request[r] EXCEPT !.pc = "abort"].pc = "abort"
      BY <1>1 DEF RequestRecord
    <2>2. QED
      BY <1>3, <1>4, <2>1
  <1>5. ASSUME NEW w \in BOOLEAN, NEW j \in Chunks \cup {LastChunk + 1},
               NEW pc \in {"join", "size"},
               Becomes(r, [request[r] EXCEPT !.joined = j, !.pc = pc, !.whole = w]),
               pc = "join" => j \in Chunks
        PROVE  Inv'
    <2> DEFINE q == [request[r] EXCEPT !.joined = j, !.pc = pc, !.whole = w]
    <2>1. q.pc = pc /\ q.joined = j
      BY <1>1 DEF RequestRecord
    <2>2. QED
      BY <1>3, <1>5, <2>1
  <1>6. QED
    BY <1>1, <1>4, <1>5, JoinChunkBecomes

(* The checks that lead on or to the catch block, and the failures.        *)
LEMMA InvChecks ==
  ASSUME TypeOK, Inv, NEW r \in Requests,
         \/ Refused(r) \/ CheckSize(r) \/ CheckQuota(r) \/ StoreFails(r)
         \/ RegisterFails(r)
  PROVE  Inv'
  <1>1. /\ Knows(r) /\ UNCHANGED <<file, asked, disk, lost>>
        /\ storage' \in {storage, storage \cup {"partial"}}
    BY DEF Refused, CheckSize, CheckQuota, StoreFails, RegisterFails, Inv, FileInv
  <1>2. CASE CheckSize(r)
    <2>1. request[r].pc = "size" /\ ~Storing(r)
      BY <1>2 DEF CheckSize, Storing
    <2>2. CASE request[r].whole
      BY <1>1, <1>2, <2>1, <2>2, InvGoto DEF CheckSize, Points, Early, HasDisk
    <2>3. CASE ~request[r].whole
      BY <1>1, <1>2, <2>1, <2>3, InvGoto DEF CheckSize, Points, Early, HasDisk
    <2>4. QED
      BY <2>2, <2>3
  <1>3. CASE CheckQuota(r)
    <2>1. request[r].pc = "quota" /\ ~Storing(r) /\ request[r].whole
      BY <1>1, <1>3 DEF CheckQuota, Storing, Knows
    <2>2. PICK pc \in {"abort", "store"} : Goto(r, pc)
      BY <1>3 DEF CheckQuota
    <2>3. QED
      BY <1>1, <2>1, <2>2, InvGoto DEF Points, Early, HasDisk
  <1>4. CASE StoreFails(r)
    <2>1. request[r].pc = "store" /\ ~Storing(r) /\ Goto(r, "abort")
      BY <1>4 DEF StoreFails, Storing
    <2>2. QED
      BY <1>1, <2>1, InvGoto DEF Points, Early, HasDisk
  <1>5. CASE RegisterFails(r)
    <2>1. request[r].pc = "commit" /\ Storing(r) /\ Goto(r, "undo")
      BY <1>5 DEF RegisterFails, Storing
    <2>2. QED
      BY <1>1, <2>1, InvGoto DEF Points, Early, HasDisk
  <1>6. CASE Refused(r)
    <2>1. ~Storing(r) /\ Goto(r, "abort")
      BY <1>6 DEF Refused, Storing
    <2>2. QED
      BY <1>1, <2>1, InvGoto DEF Points, Early, HasDisk
  <1>7. QED
    BY <1>2, <1>3, <1>4, <1>5, <1>6

LEMMA IdleFields ==
  /\ Idle.pc = "idle" /\ Idle.joined = 0 /\ Idle.whole /\ 0 \in Chunks
  /\ \A u, k, b : LET q == ChunkRequest(u, k, b) IN q.pc = "open" /\ q.joined = 0
  BY FilesAssumption DEF Idle, ChunkRequest, Chunks

(* A request that arrives, ends or is lost.                                *)
LEMMA InvArrivesOrEnds ==
  ASSUME TypeOK, Inv, NEW r \in Requests,
         \/ StartDirect(r)
         \/ \E u \in Uploads : SendChunk(r, u) \/ \E k \in Chunks : ResendChunk(r, u, k)
         \/ RejectDirect(r) \/ Abort(r) \/ Tidy(r) \/ CleanupFails(r)
         \/ Reply(r) \/ DeleteRowFails(r) \/ Crash(r)
  PROVE  Inv'
  <1>1. request[r] \in RequestRecord /\ (r \in disk /\ ~lost => request[r].pc \in HasDisk)
    BY DEF TypeOK, Inv, CleanInv, DiskMatches, HasDisk
  <1>2. ASSUME NEW u \in Uploads, NEW k \in Chunks, NEW b \in BOOLEAN,
               request[r] = Idle,
               request' = [request EXCEPT ![r] = ChunkRequest(u, k, b)],
               UNCHANGED <<disk, storage, file, asked, lost>>
        PROVE  Inv'
    <2> DEFINE q == ChunkRequest(u, k, b)
    <2>1. Becomes(r, q)
      BY <1>2, IdleTyped, BecomesSet
    <2>2. q.pc = "open" /\ q.joined \in Chunks /\ request[r].pc = "idle"
      BY <1>2, IdleFields
    <2> HIDE DEF q
    <2>3. LocalStep(r, q)
      BY <1>2, <2>1, <2>2 DEF LocalStep, Storing
    <2>4. DiskStep(r, q)
      BY <1>1, <1>2, <2>2 DEF DiskStep, HasDisk
    <2>5. QED
      BY <2>3, <2>4, InvLocal
  <1>3. ASSUME NEW u \in Uploads, SendChunk(r, u) PROVE Inv'
    <2>1. page[u].next \in Chunks
      BY DEF TypeOK, PageRecord
    <2>2. QED
      BY <1>2, <1>3, <2>1 DEF SendChunk
  <1>4. ASSUME NEW u \in Uploads, NEW k \in Chunks, ResendChunk(r, u, k) PROVE Inv'
    BY <1>2, <1>4 DEF ResendChunk
  <1>5. CASE StartDirect(r)
    <2> DEFINE q == [Idle EXCEPT !.pc = "quota"]
    <2>1. q \in RequestRecord /\ q.pc = "quota" /\ q.whole
      BY IdleTyped, IdleFields DEF RequestRecord
    <2>2. Becomes(r, q)
      BY <1>5, <2>1, BecomesSet DEF StartDirect
    <2>3. request[r].pc = "idle" /\ UNCHANGED <<storage, file, asked, lost>>
      BY <1>5, IdleFields DEF StartDirect
    <2>4. disk' = disk \cup {r}
      BY <1>5 DEF StartDirect
    <2> HIDE DEF q
    <2>5. LocalStep(r, q)
      BY <2>1, <2>2, <2>3 DEF LocalStep, Storing, Early
    <2>6. DiskStep(r, q)
      BY <2>1, <2>3, <2>4 DEF DiskStep, HasDisk
    <2>7. QED
      BY <2>5, <2>6, InvLocal
  <1>6. CASE Abort(r) \/ Tidy(r) \/ CleanupFails(r)
    <2>1. PICK b \in BOOLEAN : request' = [request EXCEPT ![r].pc = "reply", ![r].ok = b]
      BY <1>6 DEF Abort, Tidy, CleanupFails
    <2> DEFINE q == [request[r] EXCEPT !.pc = "reply", !.ok = b]
    <2>2. Becomes(r, q) /\ q.pc = "reply"
      BY <1>1, <2>1, EndBecomes DEF RequestRecord
    <2>3. /\ request[r].pc \in {"abort", "tidy"}
          /\ UNCHANGED <<storage, file, asked>>
          /\ disk' \subseteq disk
          /\ lost' \/ (lost' = lost /\ disk' = disk \ {r})
      BY <1>6 DEF Abort, Tidy, CleanupFails
    <2> HIDE DEF q
    <2>4. LocalStep(r, q)
      BY <2>2, <2>3 DEF LocalStep, Storing, Early
    <2>5. DiskStep(r, q)
      BY <2>3 DEF DiskStep
    <2>6. QED
      BY <2>4, <2>5, InvLocal
  <1>7. CASE Reply(r) \/ DeleteRowFails(r) \/ Crash(r)
    <2>1. Becomes(r, Idle)
      BY <1>7, IdleTyped, BecomesSet DEF Reply, DeleteRowFails, Crash
    <2>2. /\ UNCHANGED <<storage, file, asked, disk>>
          /\ ~lost' => ~lost /\ request[r].pc \in {"reply", "row"}
      BY <1>7 DEF Reply, DeleteRowFails, Crash
    <2>3. LocalStep(r, Idle)
      BY <2>1, <2>2, IdleFields DEF LocalStep, Storing, Early
    <2>4. DiskStep(r, Idle)
      BY <1>1, <2>2 DEF DiskStep, HasDisk
    <2>5. QED
      BY <2>3, <2>4, InvLocal
  <1>8. CASE RejectDirect(r)
    <2>1. /\ Goto(r, "reply") /\ request[r].pc = "quota"
          /\ UNCHANGED <<storage, file, asked, lost>>
          /\ disk' = (disk \ {r}) \cup {"rejected"}
      BY <1>8 DEF RejectDirect
    <2>2. PICK q : q = [request[r] EXCEPT !.pc = "reply"]
      OBVIOUS
    <2>3. Becomes(r, q) /\ q.pc = "reply"
      BY <1>1, <2>1, <2>2, BecomesGoto DEF Points, RequestRecord
    <2>4. LocalStep(r, q)
      BY <2>1, <2>3 DEF LocalStep, Storing, Early
    <2>5. DiskStep(r, q)
      BY <2>1, FilesAssumption DEF DiskStep
    <2>6. QED
      BY <2>4, <2>5, InvLocal
  <1>9. QED
    BY <1>3, <1>4, <1>5, <1>6, <1>7, <1>8

-----------------------------------------------------------------------------
(* Steps that touch the rows and the objects.                              *)

LEMMA InvStore ==
  ASSUME TypeOK, Inv, NEW r \in Requests, StoreObject(r)
  PROVE  Inv'
  <1>1. PICK f \in Files : Stores(r, f)
    BY StoreObjectStores
  <1> DEFINE q == [request[r] EXCEPT !.pc = "commit", !.file = f]
  <1>2. q.pc = "commit" /\ q.file = f /\ request[r].whole /\ request[r].pc = "store"
    BY <1>1 DEF TypeOK, RequestRecord, Stores, Inv, FileInv, Knows
  <1> HIDE DEF q
  <1>3. Becomes(r, q)
    BY <1>1 DEF Stores, q
  <1>4. /\ file[f].state = "absent" /\ file'[f].state = "stored" /\ file'[f].whole
        /\ \A g \in Files \ {f} : file'[g] = file[g]
        /\ storage' = storage \cup {f} /\ UNCHANGED <<asked, lost, disk>>
    BY <1>1, <1>2 DEF Stores, FileBecomes, NoFile
  <1>5. f \notin asked /\ \A s \in Requests : ~Owns(s, f)
    BY <1>4 DEF Inv, FileInv, AskedExist, Knows, Owns
  <1>6. \A s \in Requests \ {r} : request'[s] = request[s]
    BY <1>3 DEF Becomes
  <1>7. request'[r].pc = "commit" /\ request'[r].file = f
    BY <1>2, <1>3 DEF Becomes
  <1>8. ASSUME NEW s \in Requests PROVE Knows(s)'
    <2>1. CASE s = r
      BY <1>4, <1>7, <2>1 DEF Knows, Storing
    <2>2. CASE s # r
      BY <1>4, <1>5, <1>6, <2>2 DEF Inv, FileInv, Knows, Storing, Owns
    <2>3. QED
      BY <2>1, <2>2
  <1>9. OneOwner'
    BY <1>5, <1>6, <1>7 DEF Inv, FileInv, OneOwner, Owns, Storing
  <1>10. AskedExist' /\ FileIsReadable'
    BY <1>4, <1>5 DEF Inv, FileInv, AskedExist, FileIsReadable, Row, TypeOK
  <1>11. StorageMatches'
    <2>1. ASSUME ~lost', NEW g \in storage'
          PROVE  g = "partial" \/ Row(g)' \/ \E s \in Requests : Owns(s, g)'
      <3>1. CASE g = f
        BY <1>7, <3>1 DEF Owns, Storing
      <3>2. CASE g # f /\ g # "partial"
        <4>1. g \in storage /\ g \in Files /\ file'[g] = file[g]
          BY <1>4, <2>1, <3>2 DEF TypeOK
        <4>2. \A s \in Requests : Owns(s, g) => Owns(s, g)'
          BY <1>2, <1>6 DEF Owns, Storing
        <4>3. Row(g) => Row(g)'
          BY <4>1 DEF Row
        <4>4. Row(g) \/ \E s \in Requests : Owns(s, g)
          BY <1>4, <2>1, <3>2, <4>1 DEF Inv, CleanInv, StorageMatches
        <4>5. QED
          BY <4>2, <4>3, <4>4
      <3>3. QED
        BY <3>1, <3>2
    <2>2. ASSUME ~lost', NEW s \in Requests, request'[s].pc = "row"
          PROVE  request'[s].file \notin storage'
      <3>1. s # r /\ request'[s] = request[s]
        BY <1>6, <1>7, <2>2
      <3>2. request[s].file \notin storage /\ request[s].file \in asked
        BY <1>4, <2>2, <3>1 DEF Inv, CleanInv, StorageMatches, FileInv, Knows
      <3>3. QED
        BY <1>4, <1>5, <3>1, <3>2
    <2>3. QED
      BY <2>1, <2>2 DEF StorageMatches
  <1>12. DiskMatches'
    <2>1. DiskStep(r, q)
      BY <1>2, <1>4 DEF DiskStep, HasDisk
    <2>2. QED
      BY <1>3, <2>1, DiskMoves DEF Inv, CleanInv
  <1>13. QED
    BY <1>8, <1>9, <1>10, <1>11, <1>12 DEF Inv, FileInv, CleanInv

(* A registration moves: its row is there and keeps its object, or the     *)
(* acknowledgement of its row is lost, or its object is given up.          *)
Decides(r, f, state, pc) ==
  /\ Owns(r, f)
  /\ Becomes(r, [request[r] EXCEPT !.pc = pc])
  /\ FileBecomes(f, [file[f] EXCEPT !.state = state])
  /\ \/ /\ request[r].pc = "commit" /\ storage' = storage
        /\ \/ state = "present" /\ pc = "tidy"
           \/ state = "unacked" /\ pc = "undo"
     \/ /\ pc = "abort" /\ state \in {"unacked", "deleted"}
        /\ state = "unacked" => file[f].state = "unacked"
        /\ storage' = storage \ {f} \/ (storage' = storage /\ lost')
  /\ UNCHANGED <<asked, disk>> /\ (~lost' => ~lost)

LEMMA InvDecides ==
  ASSUME TypeOK, Inv, NEW r \in Requests, NEW f \in Files,
         NEW state, NEW pc, Decides(r, f, state, pc)
  PROVE  Inv'
  <1>1. PICK q : q = [request[r] EXCEPT !.pc = pc]
    OBVIOUS
  <1>2. /\ Becomes(r, q) /\ q.pc = pc /\ q.file = request[r].file
        /\ pc \in {"tidy", "abort", "undo"}
        /\ state \in {"present", "unacked", "deleted"}
    BY <1>1 DEF Decides, TypeOK, RequestRecord
  <1>3. /\ Storing(r) /\ request[r].file = f
        /\ file[f].state \in {"stored", "unacked", "deleted"}
        /\ request[r].pc = "commit" => /\ file[f].state = "stored" /\ file[f].whole
                                       /\ f \in storage
    BY DEF Decides, Owns, Inv, FileInv, Knows
  <1>4. /\ file'[f].state = state /\ file'[f].whole = file[f].whole
        /\ \A g \in Files \ {f} : file'[g] = file[g]
    BY DEF Decides, FileBecomes, TypeOK, FileRecord
  <1>5. \A s \in Requests \ {r} : ~Owns(s, f)
    BY <1>3 DEF Inv, FileInv, OneOwner
  <1>6. /\ request'[r].pc = pc /\ request'[r].file = f
        /\ \A s \in Requests \ {r} : request'[s] = request[s]
    BY <1>2, <1>3 DEF Becomes
  <1>7. /\ \A g \in Files \ {f} : g \in storage' <=> g \in storage
        /\ storage' \subseteq storage
    BY DEF Decides
  <1>8. ASSUME NEW s \in Requests PROVE Knows(s)'
    <2>1. CASE s = r
      BY <1>2, <1>4, <1>6, <2>1 DEF Knows, Storing, Decides
    <2>2. CASE s # r
      BY <1>4, <1>5, <1>6, <1>7, <2>2 DEF Inv, FileInv, Knows, Storing, Owns, Decides
    <2>3. QED
      BY <2>1, <2>2
  <1>9. OneOwner'
    <2>1. \A s \in Requests, g \in Files : Owns(s, g)' => Owns(s, g)
      BY <1>3, <1>6 DEF Owns, Storing
    <2>2. \A s \in Requests : Storing(s)' => /\ Storing(s) /\ request'[s].file = request[s].file
                                            /\ request[s].file \in Files
      BY <1>3, <1>6 DEF Storing, Inv, FileInv, Knows
    <2>3. QED
      BY <2>1, <2>2 DEF Inv, FileInv, OneOwner
  <1>10. AskedExist'
    BY <1>2, <1>4 DEF Inv, FileInv, AskedExist, Decides, TypeOK
  <1>11. FileIsReadable'
    <2>1. ASSUME NEW g \in Files, Row(g)'
          PROVE  /\ file'[g].whole
                 /\ g \in storage' \/ g \in asked' \/ file'[g].state = "unacked"
      <3>1. CASE g # f
        BY <1>4, <1>7, <2>1, <3>1 DEF Inv, FileInv, FileIsReadable, Row, Decides
      <3>2. CASE g = f /\ request[r].pc = "commit"
        BY <1>3, <1>4, <3>2, <2>1 DEF Decides, Row
      <3>3. CASE g = f /\ request[r].pc # "commit"
        <4>1. state = "unacked" /\ file[f].state = "unacked"
          BY <1>4, <2>1, <3>3 DEF Decides, Row
        <4>2. file[f].whole
          BY <4>1 DEF Inv, FileInv, FileIsReadable, Row
        <4>3. QED
          BY <1>4, <3>3, <4>1, <4>2
      <3>4. QED
        BY <3>1, <3>2, <3>3
    <2>2. QED
      BY <2>1 DEF FileIsReadable
  <1>12. StorageMatches'
    <2>1. ASSUME ~lost', NEW g \in storage'
          PROVE  g = "partial" \/ Row(g)' \/ \E s \in Requests : Owns(s, g)'
      <3>1. CASE g = f
        BY <1>4, <2>1, <3>1 DEF Decides, Row
      <3>2. CASE g # f /\ g # "partial"
        <4>1. g \in storage /\ g \in Files /\ file'[g] = file[g] /\ ~lost
          BY <1>4, <1>7, <2>1, <3>2 DEF TypeOK, Decides
        <4>2. \A s \in Requests : Owns(s, g) => Owns(s, g)'
          BY <1>3, <1>6, <3>2 DEF Owns, Storing
        <4>3. Row(g) => Row(g)'
          BY <4>1 DEF Row
        <4>4. Row(g) \/ \E s \in Requests : Owns(s, g)
          BY <3>2, <4>1 DEF Inv, CleanInv, StorageMatches
        <4>5. QED
          BY <4>2, <4>3, <4>4
      <3>3. QED
        BY <3>1, <3>2
    <2>2. ASSUME ~lost', NEW s \in Requests, request'[s].pc = "row"
          PROVE  request'[s].file \notin storage'
      <3>1. request'[s] = request[s] /\ ~lost
        BY <1>2, <1>6, <2>2 DEF Decides
      <3>2. QED
        BY <1>7, <2>2, <3>1 DEF Inv, CleanInv, StorageMatches
    <2>3. QED
      BY <2>1, <2>2 DEF StorageMatches
  <1>13. DiskMatches'
    <2>1. DiskStep(r, q)
      BY <1>2 DEF DiskStep, HasDisk, Decides
    <2>2. QED
      BY <1>2, <2>1, DiskMoves DEF Inv, CleanInv
  <1>14. QED
    BY <1>8, <1>9, <1>10, <1>11, <1>12, <1>13 DEF Inv, FileInv, CleanInv

(* The object of a registration that failed is given up.                   *)
LEMMA InvGivesUp ==
  ASSUME TypeOK, Inv, NEW r \in Requests, NEW f, f = request[r].file,
         request[r].pc = "undo", file' = GivenUp(f), Goto(r, "abort"),
         storage' = storage \ {f} \/ (storage' = storage /\ lost'),
         UNCHANGED <<asked, disk>>, ~lost' => ~lost
  PROVE  Inv'
  <1>1. /\ Owns(r, f) /\ f \in Files
        /\ file[f].state \in {"stored", "unacked", "deleted"}
    BY DEF Owns, Storing, Inv, FileInv, Knows
  <1>2. PICK s \in {"absent", "stored", "present", "unacked", "deleted"} :
          /\ file' = [file EXCEPT ![f].state = s]
          /\ s = IF file[f].state = "stored" THEN "deleted" ELSE file[f].state
    BY <1>1, GivesUp
  <1>3. FileBecomes(f, [file[f] EXCEPT !.state = s])
    BY <1>2, FileMoves
  <1>4. Becomes(r, [request[r] EXCEPT !.pc = "abort"])
    BY BecomesGoto DEF Points
  <1>5. Decides(r, f, s, "abort")
    BY <1>1, <1>2, <1>3, <1>4 DEF Decides
  <1>6. QED
    BY <1>1, <1>5, InvDecides

LEMMA InvRegister ==
  ASSUME TypeOK, Inv, NEW r \in Requests,
         Register(r) \/ RegisterUnacknowledged(r) \/ UndoStore(r)
  PROVE  Inv'
  <1> DEFINE f == request[r].file
  <1>1. Owns(r, f) /\ f \in Files
    BY DEF Register, RegisterUnacknowledged, UndoStore, Owns, Storing, Inv, FileInv, Knows
  <1>2. CASE Register(r) /\ QuotaIsOver
    <2>1. /\ request[r].pc = "commit" /\ Storing(r) /\ Goto(r, "undo")
          /\ UNCHANGED <<storage, file, asked, disk, lost>>
      BY <1>2 DEF Register, Storing
    <2>2. QED
      BY <2>1, InvGoto DEF Points, Early, HasDisk
  <1>3. CASE Register(r) /\ ~QuotaIsOver
    <2>1. /\ file' = [file EXCEPT ![f].state = "present"] /\ Goto(r, "tidy")
          /\ request[r].pc = "commit" /\ UNCHANGED <<storage, asked, disk, lost>>
      BY <1>3 DEF Register
    <2>2. Decides(r, f, "present", "tidy")
      BY <1>1, <2>1, FileMoves, BecomesGoto DEF Decides, Points
    <2>3. QED
      BY <1>1, <2>2, InvDecides
  <1>4. CASE RegisterUnacknowledged(r)
    <2>1. /\ file' = [file EXCEPT ![f].state = "unacked"] /\ Goto(r, "undo")
          /\ request[r].pc = "commit" /\ UNCHANGED <<storage, asked, disk, lost>>
      BY <1>4 DEF RegisterUnacknowledged
    <2>2. Decides(r, f, "unacked", "undo")
      BY <1>1, <2>1, FileMoves, BecomesGoto DEF Decides, Points
    <2>3. QED
      BY <1>1, <2>2, InvDecides
  <1>5. CASE UndoStore(r)
    <2>1. /\ file' = GivenUp(f) /\ Goto(r, "abort") /\ request[r].pc = "undo"
          /\ storage' = storage \ {f} /\ UNCHANGED <<asked, disk, lost>>
      BY <1>5 DEF UndoStore
    <2>2. QED
      BY <2>1, InvGivesUp
  <1>6. QED
    BY <1>2, <1>3, <1>4, <1>5

(* A deletion begins: the file is there.                                   *)
LEMMA InvStartDelete ==
  ASSUME TypeOK, Inv, NEW r \in Requests, NEW f \in Files, StartDelete(r, f)
  PROVE  Inv'
  <1> DEFINE q == [Idle EXCEPT !.pc = "object", !.file = f]
  <1>1. q \in RequestRecord /\ q.pc = "object" /\ q.file = f
    BY IdleTyped DEF RequestRecord
  <1>2. Becomes(r, q)
    BY <1>1, IdleTyped, BecomesSet DEF StartDelete
  <1> HIDE DEF q
  <1>3. /\ request[r].pc = "idle" /\ file[f].state \in {"present", "unacked"}
        /\ asked' = asked \cup {f} /\ UNCHANGED <<storage, file, disk, lost>>
    BY IdleFields DEF StartDelete, Row
  <1>4. /\ request'[r].pc = "object" /\ request'[r].file = f
        /\ \A s \in Requests \ {r} : request'[s] = request[s]
    BY <1>1, <1>2 DEF Becomes
  <1>5. \A s \in Requests : Knows(s)'
    BY <1>3, <1>4 DEF Inv, FileInv, Knows, Storing
  <1>6. OneOwner'
    BY <1>4 DEF Inv, FileInv, OneOwner, Owns, Storing
  <1>7. AskedExist' /\ FileIsReadable'
    BY <1>3 DEF Inv, FileInv, AskedExist, FileIsReadable, Row
  <1>8. StorageMatches'
    <2>1. \A s \in Requests, g \in Files : Owns(s, g) => Owns(s, g)'
      BY <1>3, <1>4 DEF Owns, Storing
    <2>2. ASSUME NEW s \in Requests
          PROVE  \/ request'[s] = request[s]
                 \/ request'[s].pc # "row" /\ request[s].pc # "row"
      <3>1. CASE s = r
        BY <1>3, <1>4, <3>1
      <3>2. CASE s # r
        BY <1>4, <3>2
      <3>3. QED
        BY <3>1, <3>2
    <2>3. UNCHANGED <<storage, file, lost>>
      BY <1>3
    <2>4. ASSUME ~lost', NEW g \in storage'
          PROVE  g = "partial" \/ Row(g)' \/ \E s \in Requests : Owns(s, g)'
      <3>1. g \in Files \cup {"partial"}
        BY <2>3, <2>4 DEF TypeOK
      <3>2. g = "partial" \/ Row(g) \/ \E s \in Requests : Owns(s, g)
        BY <2>3, <2>4 DEF Inv, CleanInv, StorageMatches
      <3>3. QED
        BY <2>1, <2>3, <3>1, <3>2 DEF Row
    <2>5. ASSUME ~lost', NEW s \in Requests, request'[s].pc = "row"
          PROVE  request'[s].file \notin storage'
      BY <2>2, <2>3, <2>5 DEF Inv, CleanInv, StorageMatches
    <2>6. QED
      BY <2>4, <2>5 DEF StorageMatches
  <1>9. DiskMatches'
    BY <1>3, <1>4 DEF Inv, CleanInv, DiskMatches, TypeOK
  <1>10. QED
    BY <1>5, <1>6, <1>7, <1>8, <1>9 DEF Inv, FileInv, CleanInv

(* The object of a file whose deletion has begun is deleted.               *)
LEMMA InvDeleteObject ==
  ASSUME TypeOK, Inv, NEW r \in Requests, DeleteObject(r)
  PROVE  Inv'
  <1> DEFINE f == request[r].file
             q == [request[r] EXCEPT !.pc = "row"]
  <1>1. /\ request[r].pc = "object" /\ storage' = storage \ {f}
        /\ UNCHANGED <<file, asked, disk, lost>>
    BY DEF DeleteObject
  <1>2. Becomes(r, q) /\ q.pc = "row" /\ q.file = f
    BY BecomesGoto DEF DeleteObject, Points, TypeOK, RequestRecord
  <1>3. /\ request'[r].pc = "row" /\ request'[r].file = f
        /\ \A s \in Requests \ {r} : request'[s] = request[s]
    BY <1>2 DEF Becomes
  <1>4. f \in asked /\ f \in Files /\ file[f].state \in {"present", "unacked", "deleted"}
    BY <1>1 DEF Inv, FileInv, Knows, AskedExist, TypeOK
  <1>5. \A s \in Requests : request[s].pc = "commit" => request[s].file # f
    BY <1>4 DEF Inv, FileInv, Knows
  <1>6. \A s \in Requests : Knows(s)'
    BY <1>1, <1>3, <1>4, <1>5 DEF Inv, FileInv, Knows, Storing, Owns
  <1>7. OneOwner'
    BY <1>3 DEF Inv, FileInv, OneOwner, Owns, Storing
  <1>8. AskedExist' /\ FileIsReadable'
    BY <1>1, <1>4 DEF Inv, FileInv, AskedExist, FileIsReadable, Row
  <1>9. StorageMatches'
    <2>1. ASSUME ~lost', NEW g \in storage'
          PROVE  g = "partial" \/ Row(g)' \/ \E s \in Requests : Owns(s, g)'
      <3>1. g \in storage /\ ~lost
        BY <1>1, <2>1
      <3>2. \A s \in Requests : Owns(s, g) => Owns(s, g)'
        BY <1>1, <1>3 DEF Owns, Storing
      <3>3. Row(g) => Row(g)'
        BY <1>1 DEF Row
      <3>4. QED
        BY <3>1, <3>2, <3>3 DEF Inv, CleanInv, StorageMatches
    <2>2. ASSUME ~lost', NEW s \in Requests, request'[s].pc = "row"
          PROVE  request'[s].file \notin storage'
      BY <1>1, <1>3, <2>2 DEF Inv, CleanInv, StorageMatches
    <2>3. QED
      BY <2>1, <2>2 DEF StorageMatches
  <1>10. DiskMatches'
    BY <1>1, <1>3 DEF Inv, CleanInv, DiskMatches, TypeOK
  <1>11. QED
    BY <1>6, <1>7, <1>8, <1>9, <1>10 DEF Inv, FileInv, CleanInv

LEMMA InvDeleteObjectFails ==
  ASSUME TypeOK, Inv, NEW r \in Requests, DeleteObjectFails(r)
  PROVE  Inv'
  <1> DEFINE f == request[r].file
  <1>1. lost' /\ UNCHANGED <<storage, disk, asked>>
    BY DEF DeleteObjectFails
  <1>2. CASE request[r].pc = "object"
    <2>1. Goto(r, "row") /\ UNCHANGED file
      BY <1>2 DEF DeleteObjectFails
    <2>2. QED
      BY <1>1, <1>2, <2>1, InvGoto DEF Points, Early, HasDisk
  <1>3. CASE request[r].pc = "undo"
    <2>1. file' = GivenUp(f) /\ Goto(r, "abort")
      BY <1>3 DEF DeleteObjectFails
    <2>2. QED
      BY <1>1, <1>3, <2>1, InvGivesUp
  <1>4. QED
    BY <1>2, <1>3 DEF DeleteObjectFails

LEMMA InvDeleteRow ==
  ASSUME TypeOK, Inv, NEW r \in Requests, DeleteRow(r)
  PROVE  Inv'
  <1> DEFINE f == request[r].file
  <1>1. /\ request[r].pc = "row" /\ FileBecomes(f, [file[f] EXCEPT !.state = "deleted"])
        /\ UNCHANGED <<storage, asked, disk, lost>>
    BY FileMoves DEF DeleteRow
  <1>2. /\ request'[r].pc = "idle"
        /\ \A s \in Requests \ {r} : request'[s] = request[s]
    BY IdleTyped, IdleFields, BecomesSet DEF DeleteRow, Becomes
  <1>3. f \in asked /\ f \in Files /\ file[f].state \in {"present", "unacked", "deleted"}
    BY <1>1 DEF Inv, FileInv, Knows, AskedExist, TypeOK
  <1>4. /\ file'[f].state = "deleted"
        /\ \A g \in Files \ {f} : file'[g] = file[g]
    BY <1>1, <1>3 DEF FileBecomes, TypeOK, FileRecord
  <1>5. \A s \in Requests : request[s].pc = "commit" => request[s].file # f
    BY <1>3 DEF Inv, FileInv, Knows
  <1>6. \A s \in Requests : Knows(s)'
    BY <1>1, <1>2, <1>4, <1>5 DEF Inv, FileInv, Knows, Storing, Owns
  <1>7. OneOwner'
    BY <1>2 DEF Inv, FileInv, OneOwner, Owns, Storing
  <1>8. AskedExist' /\ FileIsReadable'
    BY <1>1, <1>4 DEF Inv, FileInv, AskedExist, FileIsReadable, Row, TypeOK
  <1>9. StorageMatches'
    <2>1. ASSUME ~lost', NEW g \in storage', g # "partial"
          PROVE  Row(g)' \/ \E s \in Requests : Owns(s, g)'
      <3>1. g \in storage /\ g \in Files /\ ~lost /\ g # f
        BY <1>1, <2>1 DEF TypeOK, Inv, CleanInv, StorageMatches
      <3>2. \A s \in Requests : Owns(s, g) => Owns(s, g)'
        BY <1>1, <1>2 DEF Owns, Storing
      <3>3. Row(g) => Row(g)'
        BY <1>4, <3>1 DEF Row
      <3>4. Row(g) \/ \E s \in Requests : Owns(s, g)
        BY <2>1, <3>1 DEF Inv, CleanInv, StorageMatches
      <3>5. QED
        BY <3>2, <3>3, <3>4
    <2>2. ASSUME ~lost', NEW s \in Requests, request'[s].pc = "row"
          PROVE  request'[s].file \notin storage'
      BY <1>1, <1>2, <2>2 DEF Inv, CleanInv, StorageMatches
    <2>3. QED
      BY <2>1, <2>2 DEF StorageMatches
  <1>10. DiskMatches'
    BY <1>1, <1>2 DEF Inv, CleanInv, DiskMatches, TypeOK
  <1>11. QED
    BY <1>6, <1>7, <1>8, <1>9, <1>10 DEF Inv, FileInv, CleanInv

-----------------------------------------------------------------------------
(* The monthly counter: only the locked transaction raises it.             *)
LEMMA LimitStep ==
  ASSUME TypeOK, WithinUploadLimit, [Next]_vars
  PROVE  WithinUploadLimit'
  <1>1. Limit \in Nat /\ sub \in [active : BOOLEAN, used : Nat]
    BY FilesAssumption DEF TypeOK
  <1>2. ASSUME NEW r \in Requests, Register(r) \/ RegisterUnacknowledged(r)
        PROVE  WithinUploadLimit'
    BY <1>1, <1>2 DEF Register, RegisterUnacknowledged, QuotaIsOver, WithinUploadLimit
  <1>3. CASE PeriodStarts
    BY <1>1, <1>3 DEF PeriodStarts, WithinUploadLimit
  <1>4. CASE StatusChanges
    <2>1. sub'.used = sub.used
      BY <1>1, <1>4 DEF StatusChanges
    <2>2. QED
      BY <2>1 DEF WithinUploadLimit
  <1>5. CASE UNCHANGED sub
    BY <1>5 DEF WithinUploadLimit
  <1>6. CASE ~UNCHANGED sub
    <2>1. \/ \E r \in Requests : Register(r) \/ RegisterUnacknowledged(r)
          \/ PeriodStarts \/ StatusChanges
      BY <1>6 DEF Next, vars, Step, SendChunk, ResendChunk, StartDirect, RejectDirect,
        Refused, StartDelete, StoreFails, RegisterFails, CleanupFails,
        DeleteObjectFails, DeleteRowFails, Crash, OpenUpload, WriteManifest,
        CreateChunk, FillChunk, JoinChunk, CheckSize, Abort, CheckQuota, StoreObject,
        UndoStore, Tidy, DeleteObject, DeleteRow, Reply
    <2>2. QED
      BY <1>2, <1>3, <1>4, <2>1
  <1>7. QED
    BY <1>5, <1>6

-----------------------------------------------------------------------------
(* The files of an upload against what was sent of it.  A request that     *)
(* carries the last chunk may store a file until it has; one that carries  *)
(* the first chunk makes a directory, in which the last chunk can be       *)
(* created once, and its request is then the one that may store a file.    *)

Begun == {"fill", "join", "size", "quota", "store"}

MayStore(q, u) ==
  /\ q.upload = u /\ q.chunk = LastChunk
  /\ q.pc \in {"open", "manifest", "create"} \cup Begun

MayMake(q, u) ==
  /\ q.upload = u
  /\ \/ q.chunk = 0 /\ q.pc = "open"
     \/ q.chunk = LastChunk /\ q.pc \in Begun

Storers(u) == {r \in Requests : MayStore(request[r], u)}
Makers(u) == {r \in Requests : MayMake(request[r], u)}
Vacancy(u) == IF temp[u].dir /\ temp[u].chunk[LastChunk] = "none" THEN 1 ELSE 0

(* Where requests h may each add one file to the files a, and a vacancy v  *)
(* one more, n chunks were sent for all of them.                           *)
Covered(a, h, v, n) == Cardinality(a) + Cardinality(h) + v <= n

CountInv ==
  \A u \in Uploads :
    /\ Covered(Of(u), Storers(u), 0, sent[u][LastChunk])
    /\ Covered(Of(u), Makers(u), Vacancy(u), sent[u][0])

(* What the page is told: a request that has registered a file, or says so *)
(* to the page, has registered one of its upload.                          *)
HasRegistered(q) ==
  q.pc = "tidy" \/ (q.pc = "reply" /\ q.ok /\ q.chunk = LastChunk)

Carries(q) ==
  /\ q.pc \in {"join", "size", "quota", "store", "commit", "undo", "tidy"}
     => q.upload = None \/ q.chunk = LastChunk
  /\ q.pc = "commit" => file[q.file].upload = q.upload
  /\ HasRegistered(q) /\ q.upload \in Uploads => Registered(q.upload) # {}

Awaited(q) ==
  q.answers => /\ q.upload \in Uploads
               /\ page[q.upload].state = "waiting" /\ page[q.upload].next = q.chunk

OneAwaited ==
  \A q, r \in Requests :
    request[q].answers /\ request[r].answers /\ request[q].upload = request[r].upload
    => q = r

PageInv ==
  /\ \A r \in Requests : Carries(request[r]) /\ Awaited(request[r])
  /\ OneAwaited
  /\ \A u \in Uploads : page[u].state = "done" => Registered(u) # {}

LEMMA OneMore ==
  ASSUME NEW S, IsFiniteSet(S), NEW x
  PROVE  IsFiniteSet(S \cup {x}) /\ Cardinality(S \cup {x}) <= Cardinality(S) + 1
  <1>1. Cardinality(S) \in Nat
    BY FS_CardinalityType
  <1>2. /\ IsFiniteSet(S \cup {x})
        /\ \/ Cardinality(S \cup {x}) = Cardinality(S)
           \/ Cardinality(S \cup {x}) = Cardinality(S) + 1
    BY FS_AddElement
  <1>3. QED
    BY <1>1, <1>2

(* The arithmetic of Covered: as the requests that may add a file change. *)
LEMMA Fewer ==
  ASSUME NEW S, IsFiniteSet(S), NEW T, T \subseteq S
  PROVE  /\ Cardinality(S) \in Nat /\ Cardinality(T) \in Nat
         /\ Cardinality(T) <= Cardinality(S)
  BY FS_Subset, FS_CardinalityType

LEMMA CoveredShrinks ==
  ASSUME NEW a, NEW h, NEW v \in {0, 1}, NEW n \in Nat,
         IsFiniteSet(a), IsFiniteSet(h), Covered(a, h, v, n),
         NEW b, NEW i, NEW w \in {0, 1}, b \subseteq a, i \subseteq h, w <= v
  PROVE  Covered(b, i, w, n)
  <1>1. /\ Cardinality(a) \in Nat /\ Cardinality(b) \in Nat
        /\ Cardinality(b) <= Cardinality(a)
    BY Fewer
  <1>2. /\ Cardinality(h) \in Nat /\ Cardinality(i) \in Nat
        /\ Cardinality(i) <= Cardinality(h)
    BY Fewer
  <1>3. QED
    BY <1>1, <1>2 DEF Covered

LEMMA CoveredArrives ==
  ASSUME NEW a, NEW h, NEW v \in Nat, NEW n \in Nat,
         IsFiniteSet(a), IsFiniteSet(h), Covered(a, h, v, n),
         NEW b, NEW i, NEW m \in Nat, NEW x,
         b \subseteq a, i \subseteq h \cup {x}, m = n + 1
  PROVE  Covered(b, i, v, m)
  <1>1. /\ Cardinality(a) \in Nat /\ Cardinality(b) \in Nat
        /\ Cardinality(b) <= Cardinality(a)
    BY Fewer
  <1>2. /\ IsFiniteSet(h \cup {x}) /\ Cardinality(h \cup {x}) <= Cardinality(h) + 1
        /\ Cardinality(h) \in Nat
    BY OneMore, FS_CardinalityType
  <1>3. /\ Cardinality(h \cup {x}) \in Nat /\ Cardinality(i) \in Nat
        /\ Cardinality(i) <= Cardinality(h \cup {x})
    BY <1>2, Fewer
  <1>4. QED
    BY <1>1, <1>2, <1>3 DEF Covered

LEMMA CoveredCreates ==
  ASSUME NEW a, NEW h, NEW n \in Nat,
         IsFiniteSet(a), IsFiniteSet(h), Covered(a, h, 1, n),
         NEW b, NEW i, NEW x,
         b \subseteq a, i \subseteq h \cup {x}
  PROVE  Covered(b, i, 0, n)
  <1>1. /\ Cardinality(a) \in Nat /\ Cardinality(b) \in Nat
        /\ Cardinality(b) <= Cardinality(a)
    BY Fewer
  <1>2. /\ IsFiniteSet(h \cup {x}) /\ Cardinality(h \cup {x}) <= Cardinality(h) + 1
        /\ Cardinality(h) \in Nat
    BY OneMore, FS_CardinalityType
  <1>3. /\ Cardinality(h \cup {x}) \in Nat /\ Cardinality(i) \in Nat
        /\ Cardinality(i) <= Cardinality(h \cup {x})
    BY <1>2, Fewer
  <1>4. QED
    BY <1>1, <1>2, <1>3 DEF Covered

LEMMA OneLess ==
  ASSUME NEW S, IsFiniteSet(S), NEW x \in S, NEW T, T \subseteq S \ {x}
  PROVE  /\ Cardinality(S) \in Nat /\ Cardinality(T) \in Nat
         /\ Cardinality(T) + 1 <= Cardinality(S)
  <1>1. IsFiniteSet(S \ {x}) /\ Cardinality(S \ {x}) = Cardinality(S) - 1
    BY FS_RemoveElement
  <1>2. /\ Cardinality(S \ {x}) \in Nat /\ Cardinality(T) \in Nat
        /\ Cardinality(T) <= Cardinality(S \ {x})
    BY <1>1, Fewer
  <1>3. Cardinality(S) \in Nat
    BY FS_CardinalityType
  <1>4. QED
    BY <1>1, <1>2, <1>3

(* A request that makes a directory no longer may.                         *)
LEMMA CoveredMakes ==
  ASSUME NEW a, NEW h, NEW n \in Nat, IsFiniteSet(a), IsFiniteSet(h),
         Covered(a, h, 0, n),
         NEW b, NEW i, NEW w \in {0, 1}, NEW x,
         b \subseteq a, x \in h, i \subseteq h \ {x}
  PROVE  Covered(b, i, w, n)
  <1>1. /\ Cardinality(a) \in Nat /\ Cardinality(b) \in Nat
        /\ Cardinality(b) <= Cardinality(a)
    BY Fewer
  <1>2. /\ Cardinality(h) \in Nat /\ Cardinality(i) \in Nat
        /\ Cardinality(i) + 1 <= Cardinality(h)
    BY OneLess
  <1>3. QED
    BY <1>1, <1>2 DEF Covered

(* A request that stores a file no longer may.                             *)
LEMMA CoveredStores ==
  ASSUME NEW a, NEW h, NEW v \in Nat, NEW n \in Nat,
         IsFiniteSet(a), IsFiniteSet(h), Covered(a, h, v, n),
         NEW b, NEW i, NEW x, x \in h, i \subseteq h \ {x},
         Cardinality(b) \in Nat, Cardinality(b) <= Cardinality(a) + 1
  PROVE  Covered(b, i, v, n)
  <1>1. Cardinality(a) \in Nat
    BY FS_CardinalityType
  <1>2. /\ Cardinality(h) \in Nat /\ Cardinality(i) \in Nat
        /\ Cardinality(i) + 1 <= Cardinality(h)
    BY OneLess
  <1>3. QED
    BY <1>1, <1>2 DEF Covered

(* What is counted is finite.                                              *)
LEMMA CountsFinite ==
  ASSUME TypeOK, NEW u \in Uploads
  PROVE  /\ IsFiniteSet(Of(u)) /\ IsFiniteSet(Storers(u)) /\ IsFiniteSet(Makers(u))
         /\ Vacancy(u) \in {0, 1} /\ 0 \in Chunks /\ LastChunk \in Chunks
         /\ sent[u][0] \in Nat /\ sent[u][LastChunk] \in Nat
  <1>1. Of(u) \subseteq Files /\ Storers(u) \subseteq Requests /\ Makers(u) \subseteq Requests
    BY DEF Of, Storers, Makers
  <1>2. IsFiniteSet(Files) /\ IsFiniteSet(Requests)
    BY FilesAssumption
  <1>3. IsFiniteSet(Of(u)) /\ IsFiniteSet(Storers(u)) /\ IsFiniteSet(Makers(u))
    BY <1>1, <1>2, FS_Subset
  <1>4. 0 \in Chunks /\ LastChunk \in Chunks
    BY FilesAssumption DEF Chunks
  <1>5. sent[u] \in [Chunks -> Nat]
    BY DEF TypeOK
  <1>6. QED
    BY <1>3, <1>4, <1>5 DEF Vacancy

(* The rows in a step that stores no file: none appears, none changes its  *)
(* upload, and a row that is there goes only when it was asked to.         *)
RowsKept ==
  /\ \A f \in Files :
       /\ file'[f].upload = file[f].upload
       /\ file'[f].state = "absent" <=> file[f].state = "absent"
       /\ Row(f) => Row(f)' \/ f \in asked
  /\ asked \subseteq asked'

LEMMA KeptRows ==
  ASSUME RowsKept, NEW u
  PROVE  Of(u)' = Of(u) /\ Registered(u) \subseteq Registered(u)'
  <1>1. Of(u)' = Of(u)
    BY DEF RowsKept, Of
  <1>2. \A f \in Registered(u) : f \in Of(u)' /\ (Row(f)' \/ f \in asked')
    BY <1>1 DEF RowsKept, Registered, Of
  <1>3. QED
    BY <1>1, <1>2 DEF Registered

LEMMA RowMoves ==
  ASSUME TypeOK, NEW f \in Files, NEW s \in {"present", "unacked", "deleted"},
         file[f].state # "absent",
         Row(f) => s \in {"present", "unacked"} \/ f \in asked,
         file' = [file EXCEPT ![f].state = s], asked' = asked
  PROVE  RowsKept
  <1>1. FileBecomes(f, [file[f] EXCEPT !.state = s])
    BY FileMoves
  <1>2. file'[f].upload = file[f].upload /\ file'[f].state = s
    BY <1>1 DEF FileBecomes, TypeOK, FileRecord
  <1>3. \A g \in Files \ {f} : file'[g] = file[g]
    BY <1>1 DEF FileBecomes
  <1>4. QED
    BY <1>2, <1>3 DEF RowsKept, Row

(* A key is given up: rows stay.                                           *)
LEMMA RowsStay ==
  ASSUME TypeOK, NEW f \in Files, file[f].state \in {"stored", "unacked", "deleted"},
         file' = GivenUp(f), asked' = asked
  PROVE  RowsKept
  <1>1. PICK s \in {"absent", "stored", "present", "unacked", "deleted"} :
          /\ file' = [file EXCEPT ![f].state = s]
          /\ s = IF file[f].state = "stored" THEN "deleted" ELSE file[f].state
    BY GivesUp
  <1>2. s \in {"unacked", "deleted"} /\ (Row(f) => s = "unacked")
    BY <1>1 DEF Row
  <1>3. QED
    BY <1>1, <1>2, RowMoves

LEMMA RowsAreKept ==
  ASSUME TypeOK, Inv, NEW r \in Requests
  PROVE  /\ Register(r) \/ RegisterUnacknowledged(r) \/ UndoStore(r) \/ DeleteRow(r)
            \/ DeleteObjectFails(r) => RowsKept
         /\ (\E f \in Files : StartDelete(r, f)) => RowsKept
         /\ UNCHANGED <<file, asked>> => RowsKept
  <1> DEFINE f == request[r].file
  <1>1. /\ request[r].pc = "commit" => f \in Files /\ file[f].state = "stored"
        /\ request[r].pc = "undo" => /\ f \in Files
                                     /\ file[f].state \in {"stored", "unacked", "deleted"}
    BY DEF Inv, FileInv, Knows, Storing
  <1>2. request[r].pc = "row" => /\ f \in Files /\ f \in asked
                                 /\ file[f].state # "absent"
    BY DEF Inv, FileInv, Knows, AskedExist, TypeOK
  <1>3. UNCHANGED <<file, asked>> => RowsKept
    BY DEF RowsKept, Row
  <1>4. ASSUME Register(r) PROVE RowsKept
    <2>1. CASE QuotaIsOver
      BY <1>3, <1>4, <2>1 DEF Register
    <2>2. CASE ~QuotaIsOver
      <3>1. file' = [file EXCEPT ![f].state = "present"] /\ asked' = asked
        BY <1>4, <2>2 DEF Register
      <3>2. f \in Files /\ file[f].state = "stored"
        BY <1>1, <1>4 DEF Register
      <3>3. QED
        BY <3>1, <3>2, RowMoves
    <2>3. QED
      BY <2>1, <2>2
  <1>5. ASSUME RegisterUnacknowledged(r) PROVE RowsKept
    <2>1. file' = [file EXCEPT ![f].state = "unacked"] /\ asked' = asked
      BY <1>5 DEF RegisterUnacknowledged
    <2>2. f \in Files /\ file[f].state = "stored"
      BY <1>1, <1>5 DEF RegisterUnacknowledged
    <2>3. QED
      BY <2>1, <2>2, RowMoves
  <1>6. ASSUME DeleteRow(r) PROVE RowsKept
    <2>1. file' = [file EXCEPT ![f].state = "deleted"] /\ asked' = asked
      BY <1>6 DEF DeleteRow
    <2>2. f \in Files /\ f \in asked /\ file[f].state # "absent"
      BY <1>2, <1>6 DEF DeleteRow
    <2>3. QED
      BY <2>1, <2>2, RowMoves
  <1>7. ASSUME UndoStore(r) \/ DeleteObjectFails(r) PROVE RowsKept
    <2>1. CASE request[r].pc = "undo"
      <3>1. file' = GivenUp(f) /\ asked' = asked
        BY <1>7, <2>1 DEF UndoStore, DeleteObjectFails
      <3>2. QED
        BY <1>1, <2>1, <3>1, RowsStay
    <2>2. CASE request[r].pc # "undo"
      BY <1>3, <1>7, <2>2 DEF UndoStore, DeleteObjectFails
    <2>3. QED
      BY <2>1, <2>2
  <1>8. ASSUME NEW g \in Files, StartDelete(r, g) PROVE RowsKept
    BY <1>8 DEF StartDelete, RowsKept, Row
  <1>9. QED
    BY <1>3, <1>4, <1>5, <1>6, <1>7, <1>8

(* The requests that may add a file, when request r becomes q.             *)
LEMMA HoldersMove ==
  ASSUME NEW r \in Requests, NEW q, Becomes(r, q), NEW u
  PROVE  /\ Storers(u)' \subseteq Storers(u) \cup {r}
         /\ Makers(u)' \subseteq Makers(u) \cup {r}
         /\ (MayStore(q, u) => MayStore(request[r], u)) => Storers(u)' \subseteq Storers(u)
         /\ (MayMake(q, u) => MayMake(request[r], u)) => Makers(u)' \subseteq Makers(u)
         /\ ~MayStore(q, u) => Storers(u)' \subseteq Storers(u) \ {r}
         /\ ~MayMake(q, u) => Makers(u)' \subseteq Makers(u) \ {r}
  <1>1. \A s \in Requests : request'[s] = IF s = r THEN q ELSE request[s]
    BY DEF Becomes
  <1>2. Storers(u)' = {s \in Requests : MayStore(request'[s], u)}
    BY DEF Storers, MayStore
  <1>3. Makers(u)' = {s \in Requests : MayMake(request'[s], u)}
    BY DEF Makers, MayMake
  <1>4. QED
    BY <1>1, <1>2, <1>3 DEF Storers, Makers

LEMMA CountFrom ==
  ASSUME \A u \in Uploads :
           /\ Covered(Of(u)', Storers(u)', 0, sent'[u][LastChunk])
           /\ Covered(Of(u)', Makers(u)', Vacancy(u)', sent'[u][0])
  PROVE  CountInv'
  BY DEF CountInv, Covered

(* A step after which no request may add a file that might not before.     *)
LEMMA CountQuiet ==
  ASSUME TypeOK, CountInv, NEW r \in Requests, NEW q, Becomes(r, q), RowsKept,
         sent' = sent,
         \A u \in Uploads : Vacancy(u)' <= Vacancy(u),
         \A u \in Uploads : /\ MayStore(q, u) => MayStore(request[r], u)
                            /\ MayMake(q, u) => MayMake(request[r], u)
  PROVE  CountInv'
  <1>1. ASSUME NEW u \in Uploads
        PROVE  /\ Covered(Of(u)', Storers(u)', 0, sent'[u][LastChunk])
               /\ Covered(Of(u)', Makers(u)', Vacancy(u)', sent'[u][0])
    <2>1. Of(u)' \subseteq Of(u)
      BY KeptRows
    <2>2. Storers(u)' \subseteq Storers(u) /\ Makers(u)' \subseteq Makers(u)
      BY HoldersMove
    <2>3. Vacancy(u)' \in {0, 1} /\ Vacancy(u)' <= Vacancy(u)
      BY DEF Vacancy
    <2>4. /\ Covered(Of(u), Storers(u), 0, sent[u][LastChunk])
          /\ Covered(Of(u), Makers(u), Vacancy(u), sent[u][0])
      BY DEF CountInv
    <2>5. Covered(Of(u)', Storers(u)', 0, sent[u][LastChunk])
      BY <2>1, <2>2, <2>4, CountsFinite, CoveredShrinks
    <2>6. Covered(Of(u)', Makers(u)', Vacancy(u)', sent[u][0])
      BY <2>1, <2>2, <2>3, <2>4, CountsFinite, CoveredShrinks
    <2>7. QED
      BY <2>5, <2>6
  <1>2. QED
    BY <1>1, CountFrom

(* A request that moves on, with its chunk, or ends.                       *)
MovesOn(r, q) ==
  \/ q.pc \notin {"open", "manifest", "create"} \cup Begun
  \/ /\ q.upload = request[r].upload /\ q.chunk = request[r].chunk
     /\ q.pc # "open"
     /\ request[r].pc \in {"open", "manifest", "create"} \cup Begun
     /\ q.pc \in Begun => request[r].pc \in Begun

LEMMA CountMovesOn ==
  ASSUME TypeOK, CountInv, NEW r \in Requests, NEW q, Becomes(r, q), RowsKept,
         sent' = sent,
         \A u \in Uploads : Vacancy(u)' <= Vacancy(u),
         MovesOn(r, q)
  PROVE  CountInv'
  <1>1. \A u \in Uploads : /\ MayStore(q, u) => MayStore(request[r], u)
                           /\ MayMake(q, u) => MayMake(request[r], u)
    BY DEF MovesOn, MayStore, MayMake, Begun
  <1>2. QED
    BY <1>1, CountQuiet

LEMMA GotoFields ==
  ASSUME TypeOK, NEW r \in Requests, NEW pc \in Points, Goto(r, pc)
  PROVE  \E q \in RequestRecord :
           /\ Becomes(r, q) /\ q = [request[r] EXCEPT !.pc = pc]
           /\ q.pc = pc /\ q.upload = request[r].upload /\ q.chunk = request[r].chunk
           /\ q.file = request[r].file /\ q.answers = request[r].answers
           /\ q.ok = request[r].ok
  <1>1. PICK q : q = [request[r] EXCEPT !.pc = pc]
    OBVIOUS
  <1>2. request[r] \in RequestRecord
    BY DEF TypeOK
  <1>3. q \in RequestRecord
    BY <1>1, <1>2 DEF RequestRecord, Points
  <1>4. q.pc = pc /\ q.upload = request[r].upload /\ q.chunk = request[r].chunk
        /\ q.file = request[r].file
    BY <1>1, <1>2 DEF RequestRecord
  <1>5. q.answers = request[r].answers
    BY <1>1, <1>2 DEF RequestRecord
  <1>6. q.ok = request[r].ok
    BY <1>1, <1>2 DEF RequestRecord
  <1>7. Becomes(r, q)
    BY <1>1, BecomesGoto
  <1>8. QED
    BY <1>1, <1>3, <1>4, <1>5, <1>6, <1>7

(* A chunk is sent, for the first time or once more.                       *)
LEMMA CountSends ==
  ASSUME TypeOK, CountInv, NEW r \in Requests, NEW u \in Uploads, NEW k \in Chunks,
         NEW q, Becomes(r, q), q.upload = u, q.chunk = k, q.pc = "open",
         UNCHANGED <<temp, file, asked>>,
         sent' = [sent EXCEPT ![u][k] = @ + 1]
  PROVE  CountInv'
  <1>1. /\ sent'[u][k] = sent[u][k] + 1
        /\ \A v \in Uploads, j \in Chunks : v # u \/ j # k => sent'[v][j] = sent[v][j]
    BY CountSent DEF TypeOK
  <1>2. ASSUME NEW v \in Uploads
        PROVE  /\ Covered(Of(v)', Storers(v)', 0, sent'[v][LastChunk])
               /\ Covered(Of(v)', Makers(v)', Vacancy(v)', sent'[v][0])
    <2>0. /\ IsFiniteSet(Of(v)) /\ IsFiniteSet(Storers(v)) /\ IsFiniteSet(Makers(v))
          /\ Vacancy(v) \in {0, 1} /\ sent[v][0] \in Nat /\ sent[v][LastChunk] \in Nat
      BY CountsFinite
    <2>1. Of(v)' \subseteq Of(v) /\ Vacancy(v)' = Vacancy(v)
      BY DEF Of, Vacancy
    <2>2. /\ Covered(Of(v), Storers(v), 0, sent[v][LastChunk])
          /\ Covered(Of(v), Makers(v), Vacancy(v), sent[v][0])
      BY DEF CountInv
    <2>3. Covered(Of(v)', Storers(v)', 0, sent'[v][LastChunk])
      <3>1. CASE v = u /\ k = LastChunk
        <4>1. sent'[v][LastChunk] = sent[v][LastChunk] + 1
          BY <1>1, <3>1
        <4>2. sent'[v][LastChunk] \in Nat
          BY <4>1, CountsFinite
        <4>3. Storers(v)' \subseteq Storers(v) \cup {r} /\ Of(v)' \subseteq Of(v) /\ 0 \in Nat
          BY <2>1, HoldersMove
        <4>4. QED
          BY <2>0, <2>2, <4>1, <4>2, <4>3, CoveredArrives
      <3>2. CASE ~(v = u /\ k = LastChunk)
        <4>1. ~MayStore(q, v)
          BY <3>2 DEF MayStore
        <4>2. Storers(v)' \subseteq Storers(v)
          BY <4>1, HoldersMove
        <4>3. sent'[v][LastChunk] = sent[v][LastChunk]
          BY <1>1, <3>2, CountsFinite
        <4>4. QED
          BY <2>0, <2>1, <2>2, <4>2, <4>3, CoveredShrinks
      <3>3. QED
        BY <3>1, <3>2
    <2>4. Covered(Of(v)', Makers(v)', Vacancy(v)', sent'[v][0])
      <3>1. CASE v = u /\ k = 0
        <4>1. sent'[v][0] = sent[v][0] + 1
          BY <1>1, <3>1
        <4>2. sent'[v][0] \in Nat
          BY <4>1, CountsFinite
        <4>3. Makers(v)' \subseteq Makers(v) \cup {r}
          BY HoldersMove
        <4>4. Covered(Of(v)', Makers(v)', Vacancy(v), sent'[v][0])
          <5>1. Vacancy(v) \in Nat
            BY <2>0
          <5>2. Of(v)' \subseteq Of(v)
            BY <2>1
          <5>3. QED
            BY <2>0, <2>2, <4>1, <4>2, <4>3, <5>1, <5>2, CoveredArrives
        <4>5. QED
          BY <2>1, <4>4
      <3>2. CASE ~(v = u /\ k = 0)
        <4>1. ~MayMake(q, v)
          BY <3>2 DEF MayMake, Begun
        <4>2. Makers(v)' \subseteq Makers(v)
          BY <4>1, HoldersMove
        <4>3. sent'[v][0] = sent[v][0]
          BY <1>1, <3>2, CountsFinite
        <4>4. QED
          BY <2>0, <2>1, <2>2, <4>2, <4>3, CoveredShrinks
      <3>3. QED
        BY <3>1, <3>2
    <2>5. QED
      BY <2>3, <2>4
  <1>3. QED
    BY <1>2, CountFrom

(* The first chunk of an upload makes its directory.                       *)
LEMMA CountOpen ==
  ASSUME TypeOK, CountInv, NEW r \in Requests, OpenUpload(r)
  PROVE  CountInv'
  <1> DEFINE u == request[r].upload
  <1>1. RowsKept /\ sent' = sent /\ request[r].pc = "open"
    BY DEF OpenUpload, RowsKept, Row
  <1>2. CASE u \notin Uploads \/ request[r].chunk # 0 \/ temp[u].dir
    <2>1. PICK pc \in {"abort", "manifest", "create"} : Goto(r, pc)
      BY DEF OpenUpload
    <2>2. PICK q \in RequestRecord :
            /\ Becomes(r, q) /\ q.pc = pc
            /\ q.upload = request[r].upload /\ q.chunk = request[r].chunk
      BY <2>1, GotoFields DEF Points
    <2>3. MovesOn(r, q)
      BY <1>1, <2>2 DEF MovesOn, Begun
    <2>4. ASSUME NEW v \in Uploads PROVE Vacancy(v)' <= Vacancy(v)
      <3>1. temp[v] \in TempRecord
        BY DEF TypeOK
      <3>2. temp' = temp \/ temp' = [temp EXCEPT ![u] = [temp[u] EXCEPT !.dir = TRUE]]
        BY DEF OpenUpload
      <3>3. CASE request[r].chunk # 0 \/ u # v
        BY <3>2, <3>3 DEF OpenUpload, Vacancy, TypeOK
      <3>4. CASE temp[u].dir /\ u = v
        <4>1. temp' = temp \/ temp'[v] = [temp[v] EXCEPT !.dir = TRUE]
          BY <3>2, <3>4 DEF TypeOK
        <4>2. temp'[v].dir = temp[v].dir /\ temp'[v].chunk = temp[v].chunk
          BY <3>1, <3>4, <4>1 DEF TempRecord
        <4>3. QED
          BY <4>2 DEF Vacancy
      <3>5. QED
        BY <1>2, <3>3, <3>4
    <2>5. QED
      BY <1>1, <2>2, <2>3, <2>4, CountMovesOn
  <1>3. CASE u \in Uploads /\ request[r].chunk = 0 /\ ~temp[u].dir
    <2>1. Goto(r, "manifest") /\ temp' = [temp EXCEPT ![u] = [temp[u] EXCEPT !.dir = TRUE]]
      BY <1>3 DEF OpenUpload
    <2>2. PICK q \in RequestRecord :
            /\ Becomes(r, q) /\ q.pc = "manifest"
            /\ q.upload = request[r].upload /\ q.chunk = request[r].chunk
      BY <2>1, GotoFields DEF Points
    <2>3. \A v \in Uploads \ {u} : temp'[v] = temp[v]
      BY <2>1 DEF TypeOK
    <2>4. ASSUME NEW v \in Uploads
          PROVE  /\ Covered(Of(v)', Storers(v)', 0, sent'[v][LastChunk])
                 /\ Covered(Of(v)', Makers(v)', Vacancy(v)', sent'[v][0])
      <3>1. /\ IsFiniteSet(Of(v)) /\ IsFiniteSet(Storers(v)) /\ IsFiniteSet(Makers(v))
            /\ Vacancy(v) \in {0, 1} /\ sent[v][0] \in Nat /\ sent[v][LastChunk] \in Nat
        BY CountsFinite
      <3>2. Of(v)' \subseteq Of(v)
        BY <1>1, KeptRows
      <3>3. /\ Covered(Of(v), Storers(v), 0, sent[v][LastChunk])
            /\ Covered(Of(v), Makers(v), Vacancy(v), sent[v][0])
        BY DEF CountInv
      <3>4. /\ MayStore(q, v) => MayStore(request[r], v)
            /\ ~MayMake(q, v)
        BY <1>1, <2>2 DEF MayStore, MayMake, Begun
      <3>5. Storers(v)' \subseteq Storers(v) /\ Makers(v)' \subseteq Makers(v) \ {r}
        BY <2>2, <3>4, HoldersMove
      <3>6. Covered(Of(v)', Storers(v)', 0, sent'[v][LastChunk])
        BY <1>1, <3>1, <3>2, <3>3, <3>5, CoveredShrinks
      <3>7. Covered(Of(v)', Makers(v)', Vacancy(v)', sent'[v][0])
        <4>1. CASE v = u
          <5>1. r \in Makers(v) /\ Vacancy(v) = 0
            BY <1>1, <1>3, <4>1 DEF Makers, MayMake, Vacancy
          <5>2. Vacancy(v)' \in {0, 1}
            BY DEF Vacancy
          <5>3. QED
            BY <1>1, <3>1, <3>2, <3>3, <3>5, <5>1, <5>2, CoveredMakes
        <4>2. CASE v # u
          <5>1. Vacancy(v)' = Vacancy(v)
            BY <2>3, <4>2 DEF Vacancy
          <5>2. Vacancy(v)' \in {0, 1} /\ Vacancy(v)' <= Vacancy(v)
            BY <3>1, <5>1
          <5>3. Makers(v)' \subseteq Makers(v)
            BY <3>5
          <5>4. QED
            BY <1>1, <3>1, <3>2, <3>3, <5>2, <5>3, CoveredShrinks
        <4>3. QED
          BY <4>1, <4>2
      <3>8. QED
        BY <3>6, <3>7
    <2>5. QED
      BY <2>4, CountFrom
  <1>4. QED
    BY <1>2, <1>3

(* The last chunk takes the vacancy of the directory.                      *)
LEMMA CountCreate ==
  ASSUME TypeOK, CountInv, NEW r \in Requests, CreateChunk(r)
  PROVE  CountInv'
  <1> DEFINE u == request[r].upload
             k == request[r].chunk
             creates == temp[u].dir /\ temp[u].chunk[k] = "none"
  <1>1. RowsKept /\ sent' = sent /\ request[r].pc = "create" /\ r # "none"
    BY FilesAssumption DEF CreateChunk, RowsKept, Row
  <1>2. k \in Chunks /\ LastChunk \in Chunks
    BY IdleTyped DEF TypeOK, RequestRecord
  <1>3. CASE ~creates
    <2>1. Goto(r, "abort") /\ temp' = temp
      BY <1>3 DEF CreateChunk
    <2>2. PICK q \in RequestRecord : Becomes(r, q) /\ q.pc = "abort"
      BY <2>1, GotoFields DEF Points
    <2>3. \A v \in Uploads : Vacancy(v)' <= Vacancy(v)
      BY <2>1 DEF Vacancy
    <2>4. MovesOn(r, q)
      BY <2>2 DEF MovesOn, Begun
    <2>5. QED
      BY <1>1, <2>2, <2>3, <2>4, CountMovesOn
  <1>4. CASE creates
    <2>1. Goto(r, "fill") /\ temp' = [temp EXCEPT ![u].chunk[k] = r]
      BY <1>4 DEF CreateChunk
    <2>2. PICK q \in RequestRecord :
            /\ Becomes(r, q) /\ q.pc = "fill"
            /\ q.upload = request[r].upload /\ q.chunk = request[r].chunk
      BY <2>1, GotoFields DEF Points
    <2>3. \A v \in Uploads \ {u} : temp'[v] = temp[v]
      BY <2>1 DEF TypeOK
    <2>4. u \in Uploads => /\ temp'[u].dir = temp[u].dir /\ temp'[u].chunk[k] = r
                           /\ \A j \in Chunks \ {k} : temp'[u].chunk[j] = temp[u].chunk[j]
      <3>1. SUFFICES ASSUME u \in Uploads
                     PROVE  /\ temp'[u].dir = temp[u].dir /\ temp'[u].chunk[k] = r
                            /\ \A j \in Chunks \ {k} : temp'[u].chunk[j] = temp[u].chunk[j]
        OBVIOUS
      <3>2. temp[u] \in TempRecord
        BY <3>1 DEF TypeOK
      <3>3. temp'[u] = [temp[u] EXCEPT !.chunk = [temp[u].chunk EXCEPT ![k] = r]]
        BY <2>1, <3>1 DEF TypeOK
      <3>4. QED
        BY <1>2, <3>2, <3>3 DEF TempRecord
    <2>5. ASSUME NEW v \in Uploads
          PROVE  /\ Covered(Of(v)', Storers(v)', 0, sent'[v][LastChunk])
                 /\ Covered(Of(v)', Makers(v)', Vacancy(v)', sent'[v][0])
      <3>1. /\ IsFiniteSet(Of(v)) /\ IsFiniteSet(Storers(v)) /\ IsFiniteSet(Makers(v))
            /\ Vacancy(v) \in {0, 1} /\ sent[v][0] \in Nat /\ sent[v][LastChunk] \in Nat
        BY CountsFinite
      <3>2. Of(v)' \subseteq Of(v)
        BY <1>1, KeptRows
      <3>3. /\ Covered(Of(v), Storers(v), 0, sent[v][LastChunk])
            /\ Covered(Of(v), Makers(v), Vacancy(v), sent[v][0])
        BY DEF CountInv
      <3>4. MayStore(q, v) => MayStore(request[r], v)
        BY <1>1, <2>2 DEF MayStore, Begun
      <3>5. Storers(v)' \subseteq Storers(v) /\ Makers(v)' \subseteq Makers(v) \cup {r}
        BY <2>2, <3>4, HoldersMove
      <3>6. Covered(Of(v)', Storers(v)', 0, sent'[v][LastChunk])
        BY <1>1, <3>1, <3>2, <3>3, <3>5, CoveredShrinks
      <3>7. Covered(Of(v)', Makers(v)', Vacancy(v)', sent'[v][0])
        <4>1. CASE v = u /\ k = LastChunk
          <5>1. Vacancy(v) = 1
            BY <1>4, <4>1 DEF Vacancy
          <5>2. temp'[v].chunk[LastChunk] = r
            BY <2>4, <4>1
          <5>3. Vacancy(v)' = 0
            BY <1>1, <5>2 DEF Vacancy
          <5>4. QED
            BY <1>1, <3>1, <3>2, <3>3, <3>5, <5>1, <5>3, CoveredCreates
        <4>2. CASE ~(v = u /\ k = LastChunk)
          <5>1. ~MayMake(q, v)
            BY <2>2, <4>2 DEF MayMake
          <5>2. Makers(v)' \subseteq Makers(v)
            BY <2>2, <5>1, HoldersMove
          <5>3. Vacancy(v)' = Vacancy(v)
            BY <1>2, <2>3, <2>4, <4>2 DEF Vacancy
          <5>4. Vacancy(v)' \in {0, 1} /\ Vacancy(v)' <= Vacancy(v)
            BY <3>1, <5>3
          <5>5. QED
            BY <1>1, <3>1, <3>2, <3>3, <5>2, <5>4, CoveredShrinks
        <4>3. QED
          BY <4>1, <4>2
      <3>8. QED
        BY <3>6, <3>7
    <2>6. QED
      BY <2>5, CountFrom
  <1>5. QED
    BY <1>3, <1>4

(* A file is stored by a request that carries the last chunk of its upload,*)
(* or by a direct upload.                                                  *)
LEMMA CountStore ==
  ASSUME TypeOK, Inv, CountInv, PageInv, NEW r \in Requests, StoreObject(r)
  PROVE  CountInv'
  <1>1. PICK f \in Files : Stores(r, f)
    BY StoreObjectStores
  <1>2. PICK q : q = [request[r] EXCEPT !.pc = "commit", !.file = f]
    OBVIOUS
  <1>3. Becomes(r, q) /\ q.pc = "commit"
    BY <1>1, <1>2 DEF Stores, TypeOK, RequestRecord
  <1>4. /\ request[r].pc = "store" /\ UNCHANGED <<temp, sent>>
        /\ request[r].upload = None \/ request[r].chunk = LastChunk
    BY <1>1 DEF Stores, PageInv, Carries
  <1>5. /\ \A g \in Files \ {f} : file'[g] = file[g]
        /\ file'[f].upload = request[r].upload
    BY <1>1 DEF Stores, FileBecomes
  <1>6. ASSUME NEW v \in Uploads
        PROVE  /\ Covered(Of(v)', Storers(v)', 0, sent'[v][LastChunk])
               /\ Covered(Of(v)', Makers(v)', Vacancy(v)', sent'[v][0])
    <2>1. /\ IsFiniteSet(Of(v)) /\ IsFiniteSet(Storers(v)) /\ IsFiniteSet(Makers(v))
          /\ Vacancy(v) \in {0, 1} /\ sent[v][0] \in Nat /\ sent[v][LastChunk] \in Nat
          /\ 0 \in Nat /\ Vacancy(v) \in Nat
      BY CountsFinite
    <2>2. /\ Covered(Of(v), Storers(v), 0, sent[v][LastChunk])
          /\ Covered(Of(v), Makers(v), Vacancy(v), sent[v][0])
      BY DEF CountInv
    <2>3. Vacancy(v)' = Vacancy(v) /\ sent' = sent
      BY <1>4 DEF Vacancy
    <2>4. ~MayStore(q, v) /\ ~MayMake(q, v)
      BY <1>3 DEF MayStore, MayMake, Begun
    <2>5. Storers(v)' \subseteq Storers(v) \ {r} /\ Makers(v)' \subseteq Makers(v) \ {r}
      BY <1>3, <2>4, HoldersMove
    <2>6. CASE request[r].upload = v
      <3>1. r \in Storers(v) /\ r \in Makers(v)
        BY <1>4, <2>6, FilesAssumption DEF Storers, Makers, MayStore, MayMake, Begun
      <3>2. Cardinality(Of(v)') \in Nat /\ Cardinality(Of(v)') <= Cardinality(Of(v)) + 1
        <4>1. Of(v)' \subseteq Of(v) \cup {f}
          BY <1>5 DEF Of
        <4>2. /\ IsFiniteSet(Of(v) \cup {f}) /\ Cardinality(Of(v)) \in Nat
              /\ Cardinality(Of(v) \cup {f}) <= Cardinality(Of(v)) + 1
          BY <2>1, OneMore, FS_CardinalityType
        <4>3. /\ Cardinality(Of(v) \cup {f}) \in Nat /\ Cardinality(Of(v)') \in Nat
              /\ Cardinality(Of(v)') <= Cardinality(Of(v) \cup {f})
          BY <4>1, <4>2, Fewer
        <4>4. QED
          BY <4>2, <4>3
      <3>3. Covered(Of(v)', Storers(v)', 0, sent[v][LastChunk])
        <4>1. /\ IsFiniteSet(Of(v)) /\ IsFiniteSet(Storers(v))
              /\ 0 \in Nat /\ sent[v][LastChunk] \in Nat
          BY <2>1
        <4>2. Covered(Of(v), Storers(v), 0, sent[v][LastChunk])
          BY <2>2
        <4>3. r \in Storers(v) /\ Storers(v)' \subseteq Storers(v) \ {r}
          BY <2>5, <3>1
        <4>4. QED
          BY <3>2, <4>1, <4>2, <4>3, CoveredStores
      <3>4. Covered(Of(v)', Makers(v)', Vacancy(v), sent[v][0])
        <4>1. /\ IsFiniteSet(Of(v)) /\ IsFiniteSet(Makers(v))
              /\ Vacancy(v) \in Nat /\ sent[v][0] \in Nat
          BY <2>1
        <4>2. Covered(Of(v), Makers(v), Vacancy(v), sent[v][0])
          BY <2>2
        <4>3. r \in Makers(v) /\ Makers(v)' \subseteq Makers(v) \ {r}
          BY <2>5, <3>1
        <4>4. QED
          BY <3>2, <4>1, <4>2, <4>3, CoveredStores
      <3>5. QED
        BY <2>3, <3>3, <3>4
    <2>7. CASE request[r].upload # v
      <3>1. Of(v)' \subseteq Of(v)
        BY <1>5, <2>7 DEF Of
      <3>2. Storers(v)' \subseteq Storers(v) /\ Makers(v)' \subseteq Makers(v)
        BY <2>5
      <3>3. Covered(Of(v)', Storers(v)', 0, sent[v][LastChunk])
        BY <2>1, <2>2, <3>1, <3>2, CoveredShrinks
      <3>4. Vacancy(v) <= Vacancy(v)
        BY <2>1
      <3>5. Covered(Of(v)', Makers(v)', Vacancy(v), sent[v][0])
        BY <2>1, <2>2, <3>1, <3>2, <3>4, CoveredShrinks
      <3>6. QED
        BY <2>3, <3>3, <3>5
    <2>8. QED
      BY <2>6, <2>7
  <1>7. QED
    BY <1>6, CountFrom

LEMMA CountGoto ==
  ASSUME TypeOK, CountInv, NEW r \in Requests, NEW pc \in Points, Goto(r, pc), RowsKept,
         UNCHANGED <<temp, sent>>,
         pc \in Begun => request[r].pc \in Begun, pc \notin {"open", "manifest", "create"}
  PROVE  CountInv'
  <1>1. PICK q \in RequestRecord :
          /\ Becomes(r, q) /\ q.pc = pc
          /\ q.upload = request[r].upload /\ q.chunk = request[r].chunk
    BY GotoFields
  <1>2. \A v \in Uploads : Vacancy(v)' <= Vacancy(v)
    BY DEF Vacancy
  <1>3. MovesOn(r, q)
    BY <1>1 DEF MovesOn, Begun
  <1>4. QED
    BY <1>1, <1>2, <1>3, CountMovesOn

(* The rest of handleChunkUpload.                                          *)
LEMMA CountChunk ==
  ASSUME TypeOK, Inv, CountInv, NEW r \in Requests,
         WriteManifest(r) \/ FillChunk(r) \/ JoinChunk(r)
  PROVE  CountInv'
  <1> DEFINE u == request[r].upload
             k == request[r].chunk
  <1>1. RowsKept /\ sent' = sent
    BY DEF WriteManifest, FillChunk, JoinChunk, RowsKept, Row
  <1>2. \A v \in Uploads : temp[v] \in TempRecord
    BY DEF TypeOK
  <1>3. CASE WriteManifest(r)
    <2>1. request[r].pc = "manifest"
          /\ (temp' = temp \/ temp' = [temp EXCEPT ![u] = [temp[u] EXCEPT !.manifest = TRUE]])
      BY <1>3 DEF WriteManifest
    <2>2. PICK pc \in {"abort", "create"} : Goto(r, pc)
      BY <1>3 DEF WriteManifest
    <2>3. PICK q \in RequestRecord :
            /\ Becomes(r, q) /\ q.pc = pc
            /\ q.upload = request[r].upload /\ q.chunk = request[r].chunk
      BY <2>2, GotoFields DEF Points
    <2>4. MovesOn(r, q)
      BY <2>1, <2>3 DEF MovesOn, Begun
    <2>5. ASSUME NEW v \in Uploads PROVE Vacancy(v)' <= Vacancy(v)
      <3>1. temp'[v] = temp[v] \/ temp'[v] = [temp[v] EXCEPT !.manifest = TRUE]
        BY <2>1 DEF TypeOK
      <3>2. temp'[v].dir = temp[v].dir /\ temp'[v].chunk = temp[v].chunk
        BY <1>2, <3>1 DEF TempRecord
      <3>3. QED
        BY <3>2 DEF Vacancy
    <2>6. QED
      BY <1>1, <2>3, <2>4, <2>5, CountMovesOn
  <1>4. CASE FillChunk(r)
    <2>1. request[r] \in RequestRecord /\ request[r].pc = "fill" /\ r # "none"
      BY <1>4, FilesAssumption DEF FillChunk, TypeOK
    <2>2. \/ temp' = temp
          \/ /\ temp[u].chunk[k] = r
             /\ temp' = [temp EXCEPT ![u] = [temp[u] EXCEPT !.chunk =
                                               [temp[u].chunk EXCEPT ![k] = "whole"]]]
      BY <1>4 DEF FillChunk
    <2>3. ASSUME NEW v \in Uploads PROVE Vacancy(v)' <= Vacancy(v)
      <3>1. CASE temp'[v] = temp[v]
        BY <3>1 DEF Vacancy
      <3>2. CASE temp'[v] # temp[v]
        <4>1. /\ u = v /\ temp[v].chunk[k] = r
              /\ temp'[v] = [temp[v] EXCEPT !.chunk = [temp[v].chunk EXCEPT ![k] = "whole"]]
          BY <2>2, <3>2 DEF TypeOK
        <4>2. k \in Chunks /\ LastChunk \in Chunks
          BY <2>1, IdleTyped DEF RequestRecord
        <4>3. /\ temp'[v].dir = temp[v].dir
              /\ temp'[v].chunk[LastChunk] = "none" => temp[v].chunk[LastChunk] = "none"
          BY <1>2, <4>1, <4>2 DEF TempRecord
        <4>4. QED
          BY <1>2, <4>3 DEF Vacancy, TempRecord
      <3>3. QED
        BY <3>1, <3>2
    <2>4. \E q \in RequestRecord :
            /\ Becomes(r, q) /\ q.pc \in {"join", "reply"}
            /\ q.upload = request[r].upload /\ q.chunk = request[r].chunk
      <3>1. CASE k = LastChunk
        <4>1. PICK q : q = [request[r] EXCEPT !.pc = "join", !.ok = FALSE]
          OBVIOUS
        <4>2. Becomes(r, q)
          BY <1>4, <3>1, <4>1, FillChunkBecomes
        <4>3. q \in RequestRecord /\ q.pc = "join" /\ q.upload = u /\ q.chunk = k
          BY <2>1, <4>1 DEF RequestRecord
        <4>4. QED
          BY <4>2, <4>3
      <3>2. CASE k # LastChunk
        <4>1. PICK q : q = [request[r] EXCEPT !.pc = "reply", !.ok = TRUE]
          OBVIOUS
        <4>2. Becomes(r, q)
          BY <1>4, <3>2, <4>1, FillChunkBecomes
        <4>3. q \in RequestRecord /\ q.pc = "reply" /\ q.upload = u /\ q.chunk = k
          BY <2>1, <4>1 DEF RequestRecord
        <4>4. QED
          BY <4>2, <4>3
      <3>3. QED
        BY <3>1, <3>2
    <2>5. PICK q \in RequestRecord :
            /\ Becomes(r, q) /\ q.pc \in {"join", "reply"}
            /\ q.upload = request[r].upload /\ q.chunk = request[r].chunk
      BY <2>4
    <2>6. MovesOn(r, q)
      BY <2>1, <2>5 DEF MovesOn, Begun
    <2>7. QED
      BY <1>1, <2>3, <2>5, <2>6, CountMovesOn
  <1>5. CASE JoinChunk(r)
    <2>1. /\ request[r] \in RequestRecord /\ request[r].pc = "join" /\ temp' = temp
          /\ Knows(r)
      BY <1>5 DEF JoinChunk, TypeOK, Inv, FileInv
    <2>2. \E q \in RequestRecord :
            /\ Becomes(r, q) /\ q.pc \in {"join", "size", "abort"}
            /\ q.upload = request[r].upload /\ q.chunk = request[r].chunk
      <3>1. CASE Becomes(r, [request[r] EXCEPT !.pc = "abort"])
        <4>1. PICK q : q = [request[r] EXCEPT !.pc = "abort"]
          OBVIOUS
        <4>2. q \in RequestRecord /\ q.pc = "abort" /\ q.upload = u /\ q.chunk = k
          BY <2>1, <4>1 DEF RequestRecord
        <4>3. QED
          BY <3>1, <4>1, <4>2
      <3>2. ASSUME NEW w \in BOOLEAN, NEW j \in Chunks \cup {LastChunk + 1},
                   NEW pc \in {"join", "size"},
                   Becomes(r, [request[r] EXCEPT !.joined = j, !.pc = pc, !.whole = w])
            PROVE  \E q \in RequestRecord :
                     /\ Becomes(r, q) /\ q.pc \in {"join", "size", "abort"}
                     /\ q.upload = request[r].upload /\ q.chunk = request[r].chunk
        <4>1. PICK q : q = [request[r] EXCEPT !.joined = j, !.pc = pc, !.whole = w]
          OBVIOUS
        <4>2. q \in RequestRecord /\ q.pc = pc /\ q.upload = u /\ q.chunk = k
          BY <2>1, <4>1 DEF RequestRecord
        <4>3. QED
          BY <3>2, <4>1, <4>2
      <3>3. QED
        BY <1>5, <2>1, <3>1, <3>2, JoinChunkBecomes
    <2>3. PICK q \in RequestRecord :
            /\ Becomes(r, q) /\ q.pc \in {"join", "size", "abort"}
            /\ q.upload = request[r].upload /\ q.chunk = request[r].chunk
      BY <2>2
    <2>4. MovesOn(r, q)
      BY <2>1, <2>3 DEF MovesOn, Begun
    <2>5. \A v \in Uploads : Vacancy(v)' <= Vacancy(v)
      BY <2>1 DEF Vacancy
    <2>6. QED
      BY <1>1, <2>3, <2>4, <2>5, CountMovesOn
  <1>6. QED
    BY <1>3, <1>4, <1>5

(* A request ends, or is a deletion or a direct upload that starts.        *)
LEMMA CountEnds ==
  ASSUME TypeOK, Inv, CountInv, NEW r \in Requests,
         \/ Abort(r) \/ Tidy(r) \/ CleanupFails(r) \/ Reply(r) \/ Crash(r)
         \/ DeleteRow(r) \/ DeleteRowFails(r)
         \/ StartDirect(r) \/ \E f \in Files : StartDelete(r, f)
  PROVE  CountInv'
  <1>1. RowsKept /\ sent' = sent
    BY RowsAreKept DEF Abort, Tidy, CleanupFails, Reply, Crash, DeleteRow,
      DeleteRowFails, StartDirect, StartDelete
  <1>2. CASE Abort(r) \/ Tidy(r) \/ CleanupFails(r)
    <2>1. PICK b \in BOOLEAN : request' = [request EXCEPT ![r].pc = "reply", ![r].ok = b]
      BY <1>2 DEF Abort, Tidy, CleanupFails
    <2>2. PICK q : q = [request[r] EXCEPT !.pc = "reply", !.ok = b]
      OBVIOUS
    <2>3. Becomes(r, q) /\ q.pc = "reply"
      <3>1. request[r] \in RequestRecord
        BY DEF TypeOK
      <3>2. q.pc = "reply"
        BY <2>2, <3>1 DEF RequestRecord
      <3>3. Becomes(r, q)
        BY <2>1, <2>2, EndBecomes
      <3>4. QED
        BY <3>2, <3>3
    <2>4. ASSUME NEW v \in Uploads PROVE Vacancy(v)' <= Vacancy(v)
      <3>1. temp'[v] = temp[v] \/ temp'[v] = NoTemp
        BY <1>2 DEF Abort, Tidy, CleanupFails, Without, TypeOK
      <3>2. QED
        BY <3>1 DEF Vacancy, NoTemp
    <2>5. MovesOn(r, q)
      BY <2>3 DEF MovesOn, Begun
    <2>6. QED
      BY <1>1, <2>3, <2>4, <2>5, CountMovesOn
  <1>3. ASSUME NEW q \in RequestRecord, request' = [request EXCEPT ![r] = q],
               temp' = temp, \/ q.pc \in {"idle", "object"}
                             \/ q.pc = "quota" /\ q.upload = None
        PROVE  CountInv'
    <2>1. Becomes(r, q)
      BY <1>3, BecomesSet
    <2>2. \A v \in Uploads : Vacancy(v)' <= Vacancy(v)
      BY <1>3 DEF Vacancy
    <2>3. \A v \in Uploads : ~MayStore(q, v) /\ ~MayMake(q, v)
      BY <1>3, FilesAssumption DEF MayStore, MayMake, Begun
    <2>4. QED
      BY <1>1, <2>1, <2>2, <2>3, CountQuiet
  <1>4. CASE Reply(r) \/ Crash(r) \/ DeleteRow(r) \/ DeleteRowFails(r)
    BY <1>3, <1>4, IdleTyped, IdleFields DEF Reply, Crash, DeleteRow, DeleteRowFails
  <1>5. CASE StartDirect(r)
    <2>1. PICK q : q = [Idle EXCEPT !.pc = "quota"]
      OBVIOUS
    <2>2. q \in RequestRecord /\ q.pc = "quota" /\ q.upload = None
      BY <2>1, IdleTyped DEF RequestRecord, Idle
    <2>3. request' = [request EXCEPT ![r] = q] /\ temp' = temp
      BY <1>5, <2>1 DEF StartDirect
    <2>4. QED
      BY <1>3, <2>2, <2>3
  <1>6. ASSUME NEW f \in Files, StartDelete(r, f) PROVE CountInv'
    <2>1. PICK q : q = [Idle EXCEPT !.pc = "object", !.file = f]
      OBVIOUS
    <2>2. q \in RequestRecord /\ q.pc = "object"
      BY <2>1, IdleTyped DEF RequestRecord
    <2>3. request' = [request EXCEPT ![r] = q] /\ temp' = temp
      BY <1>6, <2>1 DEF StartDelete
    <2>4. QED
      BY <1>3, <2>2, <2>3
  <1>7. QED
    BY <1>2, <1>4, <1>5, <1>6

LEMMA CountStep ==
  ASSUME TypeOK, Inv, CountInv, PageInv, [Next]_vars
  PROVE  CountInv'
  <1>1. ASSUME NEW r \in Requests,
               \/ Refused(r) \/ RejectDirect(r) \/ CheckSize(r) \/ CheckQuota(r)
               \/ StoreFails(r) \/ RegisterFails(r) \/ RegisterUnacknowledged(r)
               \/ Register(r) \/ UndoStore(r) \/ DeleteObject(r) \/ DeleteObjectFails(r)
        PROVE  CountInv'
    <2>1. RowsKept /\ UNCHANGED <<temp, sent>>
      BY <1>1, RowsAreKept DEF Refused, RejectDirect, CheckSize, CheckQuota,
        StoreFails, RegisterFails, RegisterUnacknowledged, Register, UndoStore,
        DeleteObject, DeleteObjectFails
    <2>2. PICK pc \in Points :
            /\ Goto(r, pc)
            /\ pc \in Begun => request[r].pc \in Begun
            /\ pc \notin {"open", "manifest", "create"}
      BY <1>1 DEF Refused, RejectDirect, CheckSize, CheckQuota, StoreFails,
        RegisterFails, RegisterUnacknowledged, Register, UndoStore, DeleteObject,
        DeleteObjectFails, Points, Begun
    <2>3. QED
      BY <2>1, <2>2, CountGoto
  <1>2. ASSUME NEW r \in Requests, NEW u \in Uploads, SendChunk(r, u) PROVE CountInv'
    <2>1. page[u].next \in Chunks
      BY DEF TypeOK, PageRecord
    <2>2. PICK q : q = ChunkRequest(u, page[u].next, TRUE)
      OBVIOUS
    <2>3. q \in RequestRecord /\ q.upload = u /\ q.chunk = page[u].next /\ q.pc = "open"
      BY <2>1, <2>2, IdleTyped DEF ChunkRequest, Idle
    <2>4. Becomes(r, q)
      BY <1>2, <2>2, <2>3, BecomesSet DEF SendChunk
    <2>5. QED
      BY <1>2, <2>1, <2>3, <2>4, CountSends DEF SendChunk
  <1>3. ASSUME NEW r \in Requests, NEW u \in Uploads, NEW k \in Chunks, ResendChunk(r, u, k)
        PROVE  CountInv'
    <2>1. PICK q : q = ChunkRequest(u, k, FALSE)
      OBVIOUS
    <2>2. q \in RequestRecord /\ q.upload = u /\ q.chunk = k /\ q.pc = "open"
      BY <2>1, IdleTyped DEF ChunkRequest, Idle
    <2>3. Becomes(r, q)
      BY <1>3, <2>1, <2>2, BecomesSet DEF ResendChunk
    <2>4. QED
      BY <1>3, <2>2, <2>3, CountSends DEF ResendChunk
  <1>4. CASE PeriodStarts \/ StatusChanges \/ UNCHANGED vars
    <2>1. UNCHANGED <<request, file, temp, sent>>
      BY <1>4 DEF PeriodStarts, StatusChanges, vars
    <2>2. QED
      BY <2>1 DEF CountInv, Covered, Of, Storers, Makers, MayStore, MayMake, Vacancy
  <1>5. ASSUME NEW r \in Requests,
               \/ Step(r) \/ StartDirect(r) \/ CleanupFails(r) \/ DeleteRowFails(r)
               \/ Crash(r) \/ \E f \in Files : StartDelete(r, f)
        PROVE  CountInv'
    BY <1>1, <1>5, CountOpen, CountCreate, CountChunk, CountStore, CountEnds DEF Step
  <1>6. QED
    BY <1>1, <1>2, <1>3, <1>4, <1>5 DEF Next

-----------------------------------------------------------------------------
(* What the page is told.                                                  *)

(* Request r becomes q; where the page moves, no other request is awaited. *)
LEMMA PageTells ==
  ASSUME TypeOK, PageInv, NEW r \in Requests, NEW q, Becomes(r, q),
         \A u \in Uploads : Registered(u) \subseteq Registered(u)',
         \A s \in Requests \ {r} : request[s].pc = "commit" =>
           file'[request[s].file].upload = file[request[s].file].upload,
         Carries(q)', Awaited(q)',
         \A s \in Requests \ {r} : request[s].answers =>
           /\ page'[request[s].upload] = page[request[s].upload]
           /\ ~(q.answers /\ request[s].upload = q.upload),
         \A u \in Uploads : page'[u].state = "done" =>
           page[u].state = "done" \/ Registered(u)' # {}
  PROVE  PageInv'
  <1>1. \A s \in Requests : request'[s] = IF s = r THEN q ELSE request[s]
    BY DEF Becomes
  <1>2. ASSUME NEW s \in Requests PROVE Carries(request[s])' /\ Awaited(request[s])'
    <2>1. CASE s = r
      <3>1. request'[s] = q
        BY <1>1, <2>1
      <3>2. QED
        BY <3>1 DEF Carries, Awaited, HasRegistered
    <2>2. CASE s # r
      <3>1. request'[s] = request[s] /\ Carries(request[s]) /\ Awaited(request[s])
        BY <1>1, <2>2 DEF PageInv
      <3>2. Carries(request[s])'
        BY <2>2, <3>1 DEF Carries, HasRegistered
      <3>3. Awaited(request[s])'
        BY <2>2, <3>1 DEF Awaited
      <3>4. QED
        BY <3>2, <3>3
    <2>3. QED
      BY <2>1, <2>2
  <1>3. OneAwaited'
    BY <1>1 DEF PageInv, OneAwaited
  <1>4. \A u \in Uploads : page'[u].state = "done" => Registered(u)' # {}
    BY DEF PageInv
  <1>5. QED
    BY <1>2, <1>3, <1>4 DEF PageInv

(* The page hears nothing.                                                 *)
LEMMA PageQuiet ==
  ASSUME TypeOK, Inv, PageInv, NEW r \in Requests, NEW q, Becomes(r, q), RowsKept,
         Carries(q)', page' = page,
         \/ ~q.answers
         \/ /\ q.answers = request[r].answers
            /\ q.upload = request[r].upload /\ q.chunk = request[r].chunk
  PROVE  PageInv'
  <1>1. \A u \in Uploads : Registered(u) \subseteq Registered(u)'
    BY KeptRows
  <1>2. \A s \in Requests \ {r} : request[s].pc = "commit" =>
          file'[request[s].file].upload = file[request[s].file].upload
    BY DEF RowsKept, Inv, FileInv, Knows, Storing
  <1>3. Awaited(q)'
    BY DEF Awaited, PageInv
  <1>4. \A s \in Requests \ {r} :
          request[s].answers => ~(q.answers /\ request[s].upload = q.upload)
    BY DEF PageInv, OneAwaited
  <1>5. QED
    BY <1>1, <1>2, <1>3, <1>4, PageTells

LEMMA PageGoto ==
  ASSUME TypeOK, Inv, PageInv, NEW r \in Requests, NEW pc \in Points, Goto(r, pc),
         RowsKept, page' = page, pc \notin {"commit", "reply"},
         pc \in {"join", "size", "quota", "store", "undo", "tidy"}
           => request[r].pc \in {"join", "size", "quota", "store", "commit"},
         \A u \in Uploads :
           pc = "tidy" /\ request[r].upload = u => Registered(u)' # {}
  PROVE  PageInv'
  <1>1. PICK q \in RequestRecord :
          /\ Becomes(r, q) /\ q.pc = pc
          /\ q.upload = request[r].upload /\ q.chunk = request[r].chunk
          /\ q.answers = request[r].answers
    BY GotoFields
  <1>2. Carries(request[r])
    BY DEF PageInv
  <1>3. q.pc \in {"join", "size", "quota", "store", "commit", "undo", "tidy"}
        => q.upload = None \/ q.chunk = LastChunk
    BY <1>1, <1>2 DEF Carries
  <1>4. HasRegistered(q) /\ q.upload \in Uploads => pc = "tidy"
    BY <1>1 DEF HasRegistered
  <1>5. HasRegistered(q) /\ q.upload \in Uploads => Registered(q.upload)' # {}
    BY <1>1, <1>4
  <1>6. Carries(q)'
    BY <1>1, <1>3, <1>5 DEF Carries, HasRegistered
  <1>7. QED
    BY <1>1, <1>6, PageQuiet

(* A file is registered: its upload has one.                               *)
LEMMA PageRegister ==
  ASSUME TypeOK, Inv, PageInv, NEW r \in Requests, Register(r)
  PROVE  PageInv'
  <1> DEFINE f == request[r].file
  <1>1. RowsKept /\ page' = page /\ request[r].pc = "commit"
    BY RowsAreKept DEF Register
  <1>2. CASE QuotaIsOver
    <2>1. Goto(r, "undo")
      BY <1>2 DEF Register
    <2>2. QED
      BY <1>1, <2>1, PageGoto DEF Points
  <1>3. CASE ~QuotaIsOver
    <2>1. Goto(r, "tidy") /\ file' = [file EXCEPT ![f].state = "present"]
      BY <1>3 DEF Register
    <2>2. f \in Files /\ file[f].upload = request[r].upload
      BY <1>1 DEF Inv, FileInv, Knows, Storing, PageInv, Carries
    <2>3. file'[f].state = "present" /\ file'[f].upload = request[r].upload
      BY <2>1, <2>2, FileMoves DEF FileBecomes, TypeOK, FileRecord
    <2>4. ASSUME NEW u \in Uploads, request[r].upload = u PROVE f \in Registered(u)'
      BY <2>2, <2>3, <2>4 DEF Registered, Of, Row
    <2>5. \A u \in Uploads : request[r].upload = u => Registered(u)' # {}
      BY <2>4
    <2>6. QED
      BY <1>1, <2>1, <2>5, PageGoto DEF Points
  <1>4. QED
    BY <1>2, <1>3

LEMMA PageStore ==
  ASSUME TypeOK, Inv, PageInv, NEW r \in Requests, StoreObject(r)
  PROVE  PageInv'
  <1>1. PICK f \in Files : Stores(r, f)
    BY StoreObjectStores
  <1>2. PICK q : q = [request[r] EXCEPT !.pc = "commit", !.file = f]
    OBVIOUS
  <1>3. request[r] \in RequestRecord /\ Becomes(r, q)
    BY <1>1, <1>2 DEF TypeOK, Stores
  <1>4. /\ q.pc = "commit" /\ q.file = f
        /\ q.upload = request[r].upload /\ q.chunk = request[r].chunk
    BY <1>2, <1>3 DEF RequestRecord
  <1>5. q.answers = request[r].answers
    BY <1>2, <1>3 DEF RequestRecord
  <1>6. /\ file[f] = NoFile /\ file'[f].upload = request[r].upload
        /\ \A g \in Files \ {f} : file'[g] = file[g]
        /\ UNCHANGED <<page, asked>> /\ request[r].pc = "store"
    BY <1>1 DEF Stores, FileBecomes
  <1>7. ASSUME NEW u \in Uploads PROVE Registered(u) \subseteq Registered(u)'
    <2>1. f \notin Of(u)
      BY <1>6 DEF Of, NoFile
    <2>2. ASSUME NEW g \in Registered(u) PROVE g \in Registered(u)'
      <3>1. g \in Files \ {f} /\ file'[g] = file[g]
        BY <1>6, <2>1, <2>2 DEF Registered, Of
      <3>2. QED
        BY <1>6, <2>2, <3>1 DEF Registered, Of, Row
    <2>3. QED
      BY <2>2
  <1>8. \A s \in Requests : request[s].pc = "commit" => request[s].file \in Files \ {f}
    BY <1>6 DEF Inv, FileInv, Knows, Storing, NoFile
  <1>9. q.upload = None \/ q.chunk = LastChunk
    BY <1>4, <1>6 DEF PageInv, Carries
  <1>10. Carries(q)'
    BY <1>4, <1>6, <1>9 DEF Carries, HasRegistered
  <1>11. Awaited(q)'
    BY <1>4, <1>5, <1>6 DEF Awaited, PageInv
  <1>12. \A s \in Requests \ {r} :
           request[s].answers => ~(q.answers /\ request[s].upload = q.upload)
    BY <1>4, <1>5 DEF PageInv, OneAwaited
  <1>13. \A s \in Requests \ {r} : request[s].pc = "commit" =>
           file'[request[s].file].upload = file[request[s].file].upload
    BY <1>6, <1>8
  <1>14. page' = page
    BY <1>6
  <1>15. QED
    BY <1>3, <1>7, <1>10, <1>11, <1>12, <1>13, <1>14, PageTells

LEMMA PageChunk ==
  ASSUME TypeOK, Inv, PageInv, NEW r \in Requests, FillChunk(r) \/ JoinChunk(r)
  PROVE  PageInv'
  <1> DEFINE u == request[r].upload
             k == request[r].chunk
  <1>1. /\ request[r] \in RequestRecord /\ RowsKept /\ page' = page
        /\ Knows(r) /\ Carries(request[r])
    BY DEF FillChunk, JoinChunk, TypeOK, RowsKept, Row, Inv, FileInv, PageInv
  <1>2. ASSUME NEW q, Becomes(r, q), q.upload = u, q.chunk = k,
               q.answers = request[r].answers,
               \/ q.pc \in {"join", "size"} /\ (u = None \/ k = LastChunk)
               \/ q.pc = "reply" /\ k # LastChunk
               \/ q.pc = "abort"
        PROVE  PageInv'
    <2>1. Carries(q)'
      BY <1>2 DEF Carries, HasRegistered
    <2>2. QED
      BY <1>1, <1>2, <2>1, PageQuiet
  <1>3. CASE FillChunk(r) /\ k = LastChunk
    <2>1. PICK q : q = [request[r] EXCEPT !.pc = "join", !.ok = FALSE]
      OBVIOUS
    <2>2. Becomes(r, q)
      BY <1>3, <2>1, FillChunkBecomes
    <2>3. q.pc = "join" /\ q.upload = u /\ q.chunk = k
      BY <1>1, <2>1 DEF RequestRecord
    <2>4. q.answers = request[r].answers
      BY <1>1, <2>1 DEF RequestRecord
    <2>5. QED
      BY <1>2, <1>3, <2>2, <2>3, <2>4
  <1>4. CASE FillChunk(r) /\ k # LastChunk
    <2>1. PICK q : q = [request[r] EXCEPT !.pc = "reply", !.ok = TRUE]
      OBVIOUS
    <2>2. Becomes(r, q)
      BY <1>4, <2>1, FillChunkBecomes
    <2>3. q.pc = "reply" /\ q.upload = u /\ q.chunk = k
      BY <1>1, <2>1 DEF RequestRecord
    <2>4. q.answers = request[r].answers
      BY <1>1, <2>1 DEF RequestRecord
    <2>5. QED
      BY <1>2, <1>4, <2>2, <2>3, <2>4
  <1>5. CASE JoinChunk(r)
    <2>1. u = None \/ k = LastChunk
      BY <1>1, <1>5 DEF JoinChunk, Carries
    <2>2. CASE Becomes(r, [request[r] EXCEPT !.pc = "abort"])
      <3>1. PICK q : q = [request[r] EXCEPT !.pc = "abort"]
        OBVIOUS
      <3>2. q.pc = "abort" /\ q.upload = u /\ q.chunk = k
        BY <1>1, <3>1 DEF RequestRecord
      <3>3. q.answers = request[r].answers
        BY <1>1, <3>1 DEF RequestRecord
      <3>4. QED
        BY <1>2, <2>2, <3>1, <3>2, <3>3
    <2>3. ASSUME NEW w \in BOOLEAN, NEW j \in Chunks \cup {LastChunk + 1},
                 NEW pc \in {"join", "size"},
                 Becomes(r, [request[r] EXCEPT !.joined = j, !.pc = pc, !.whole = w])
          PROVE  PageInv'
      <3>1. PICK q : q = [request[r] EXCEPT !.joined = j, !.pc = pc, !.whole = w]
        OBVIOUS
      <3>2. q.pc = pc /\ q.upload = u /\ q.chunk = k
        BY <1>1, <3>1 DEF RequestRecord
      <3>3. q.answers = request[r].answers
        BY <1>1, <3>1 DEF RequestRecord
      <3>4. QED
        BY <1>2, <2>1, <2>3, <3>1, <3>2, <3>3
    <2>4. QED
      BY <1>1, <1>5, <2>2, <2>3, JoinChunkBecomes
  <1>6. QED
    BY <1>3, <1>4, <1>5

(* The end of a request: a failure, or a file that is registered.          *)
LEMMA PageEnds ==
  ASSUME TypeOK, Inv, PageInv, NEW r \in Requests,
         Abort(r) \/ Tidy(r) \/ CleanupFails(r)
  PROVE  PageInv'
  <1>1. /\ request[r] \in RequestRecord /\ RowsKept /\ UNCHANGED <<page, file, asked>>
        /\ Carries(request[r])
    BY DEF Abort, Tidy, CleanupFails, TypeOK, RowsKept, Row, PageInv
  <1>2. PICK b \in BOOLEAN :
          /\ request' = [request EXCEPT ![r].pc = "reply", ![r].ok = b]
          /\ b => request[r].pc = "tidy"
    BY DEF Abort, Tidy, CleanupFails
  <1>3. PICK q : q = [request[r] EXCEPT !.pc = "reply", !.ok = b]
    OBVIOUS
  <1>4. Becomes(r, q)
    BY <1>2, <1>3, EndBecomes
  <1>5. q.pc = "reply" /\ q.upload = request[r].upload /\ q.chunk = request[r].chunk
    BY <1>1, <1>3 DEF RequestRecord
  <1>6. q.answers = request[r].answers
    BY <1>1, <1>3 DEF RequestRecord
  <1>7. q.ok = b
    BY <1>1, <1>3 DEF RequestRecord
  <1>8. HasRegistered(q) => HasRegistered(request[r])
    BY <1>2, <1>5, <1>7 DEF HasRegistered
  <1>9. Carries(q)'
    BY <1>1, <1>5, <1>8 DEF Carries, HasRegistered, Registered, Of, Row
  <1>10. QED
    BY <1>1, <1>4, <1>5, <1>6, <1>9, PageQuiet

(* A direct upload is no upload of the page.                               *)
LEMMA PageRejects ==
  ASSUME TypeOK, Inv, PageInv, NEW r \in Requests, RejectDirect(r)
  PROVE  PageInv'
  <1>1. PICK q \in RequestRecord :
          /\ Becomes(r, q) /\ q.pc = "reply"
          /\ q.upload = request[r].upload /\ q.chunk = request[r].chunk
          /\ q.answers = request[r].answers
    BY GotoFields DEF RejectDirect, Points
  <1>2. q.upload \notin Uploads /\ page' = page /\ RowsKept
    BY <1>1, FilesAssumption, RowsAreKept DEF RejectDirect
  <1>3. Carries(q)'
    BY <1>1, <1>2 DEF Carries
  <1>4. QED
    BY <1>1, <1>2, <1>3, PageQuiet

(* The answer, or the error of a request that is lost.                     *)
LEMMA PageAnswers ==
  ASSUME TypeOK, Inv, PageInv, NEW r \in Requests, Reply(r) \/ Crash(r)
  PROVE  PageInv'
  <1> DEFINE u == request[r].upload
  <1>1. Becomes(r, Idle) /\ UNCHANGED <<file, asked>>
    BY IdleTyped, BecomesSet DEF Reply, Crash
  <1>2. ~Idle.answers /\ Idle.pc = "idle"
    BY DEF Idle
  <1>3. PICK q : q = Idle
    OBVIOUS
  <1>4. Carries(q)' /\ Awaited(q)' /\ ~q.answers
    BY <1>2, <1>3 DEF Carries, Awaited, HasRegistered
  <1>5. Carries(request[r]) /\ Awaited(request[r])
    BY DEF PageInv
  <1>6. \A v \in Uploads : page'[v] # page[v] => request[r].answers /\ v = u
    BY DEF Reply, Crash, TypeOK
  <1>7. \A s \in Requests \ {r} :
          request[s].answers => page'[request[s].upload] = page[request[s].upload]
    BY <1>6 DEF PageInv, OneAwaited, Awaited
  <1>8. ASSUME NEW v \in Uploads, page'[v].state = "done"
        PROVE  page[v].state = "done" \/ Registered(v)' # {}
    <2>1. CASE page'[v] = page[v]
      BY <1>8, <2>1
    <2>2. CASE page'[v] # page[v]
      <3>1. request[r].answers /\ v = u /\ page[u] \in PageRecord
        BY <1>6, <2>2 DEF TypeOK
      <3>2. ~Crash(r)
        <4>1. [page[u] EXCEPT !.state = "failed"].state = "failed"
          BY <3>1 DEF PageRecord
        <4>2. Crash(r) => page'[u] = [page[u] EXCEPT !.state = "failed"]
          BY <1>8, <3>1 DEF Crash, TypeOK
        <4>3. QED
          BY <1>8, <3>1, <4>1, <4>2
      <3>3. request[r].pc = "reply"
            /\ page' = [page EXCEPT ![u] =
                 IF ~request[r].ok THEN [page[u] EXCEPT !.state = "failed"]
                 ELSE IF page[u].next = LastChunk THEN [page[u] EXCEPT !.state = "done"]
                 ELSE [state |-> "ready", next |-> page[u].next + 1]]
        BY <3>1, <3>2 DEF Reply
      <3>4. request[r].ok /\ page[u].next = LastChunk
        <4>1. [page[u] EXCEPT !.state = "failed"].state = "failed"
          BY <3>1 DEF PageRecord
        <4>2. page'[u].state = "done"
          BY <1>8, <3>1
        <4>3. QED
          BY <1>8, <3>1, <3>3, <4>1, <4>2 DEF TypeOK
      <3>5. request[r].chunk = LastChunk
        BY <1>5, <3>1, <3>4 DEF Awaited
      <3>6. Registered(v) # {}
        BY <1>5, <3>1, <3>3, <3>4, <3>5 DEF Carries, HasRegistered
      <3>7. QED
        BY <1>1, <3>6 DEF Registered, Of, Row
    <2>3. QED
      BY <2>1, <2>2
  <1>9. /\ \A v \in Uploads : Registered(v) \subseteq Registered(v)'
        /\ \A s \in Requests \ {r} : request[s].pc = "commit" =>
             file'[request[s].file].upload = file[request[s].file].upload
    BY <1>1 DEF Registered, Of, Row
  <1>10. Becomes(r, q)
    BY <1>1, <1>3
  <1>11. QED
    BY <1>4, <1>7, <1>8, <1>9, <1>10, PageTells

(* A request starts that carries no chunk, or only one more time.          *)
LEMMA PageUnheard ==
  ASSUME TypeOK, Inv, PageInv, NEW r \in Requests,
         \/ DeleteRow(r) \/ DeleteRowFails(r) \/ StartDirect(r)
         \/ \E f \in Files : StartDelete(r, f)
         \/ \E u \in Uploads, k \in Chunks : ResendChunk(r, u, k)
  PROVE  PageInv'
  <1>1. RowsKept /\ page' = page
    BY RowsAreKept DEF DeleteRow, DeleteRowFails, StartDirect, StartDelete, ResendChunk
  <1>2. ASSUME NEW q \in RequestRecord, request' = [request EXCEPT ![r] = q], ~q.answers,
               q.pc \in {"idle", "object", "open"} \/ (q.pc = "quota" /\ q.upload = None)
        PROVE  PageInv'
    <2>1. Becomes(r, q)
      BY <1>2, BecomesSet
    <2>2. Carries(q)'
      BY <1>2 DEF Carries, HasRegistered
    <2>3. QED
      BY <1>1, <1>2, <2>1, <2>2, PageQuiet
  <1>3. ~Idle.answers
    BY DEF Idle
  <1>4. CASE DeleteRow(r) \/ DeleteRowFails(r)
    BY <1>2, <1>3, <1>4, IdleTyped, IdleFields DEF DeleteRow, DeleteRowFails
  <1>5. CASE StartDirect(r)
    <2>1. PICK q : q = [Idle EXCEPT !.pc = "quota"]
      OBVIOUS
    <2>2. q \in RequestRecord /\ q.pc = "quota" /\ q.upload = None
      BY <2>1, IdleTyped DEF RequestRecord, Idle
    <2>3. ~q.answers
      BY <2>1 DEF Idle
    <2>4. request' = [request EXCEPT ![r] = q]
      BY <1>5, <2>1 DEF StartDirect
    <2>5. QED
      BY <1>2, <2>2, <2>3, <2>4
  <1>6. ASSUME NEW f \in Files, StartDelete(r, f) PROVE PageInv'
    <2>1. PICK q : q = [Idle EXCEPT !.pc = "object", !.file = f]
      OBVIOUS
    <2>2. q \in RequestRecord /\ q.pc = "object"
      BY <2>1, IdleTyped DEF RequestRecord
    <2>3. ~q.answers
      BY <2>1 DEF Idle
    <2>4. request' = [request EXCEPT ![r] = q]
      BY <1>6, <2>1 DEF StartDelete
    <2>5. QED
      BY <1>2, <2>2, <2>3, <2>4
  <1>7. ASSUME NEW u \in Uploads, NEW k \in Chunks, ResendChunk(r, u, k) PROVE PageInv'
    <2>1. PICK q : q = ChunkRequest(u, k, FALSE)
      OBVIOUS
    <2>2. q \in RequestRecord /\ q.pc = "open"
      BY <2>1, IdleTyped, IdleFields
    <2>3. ~q.answers
      BY <2>1 DEF ChunkRequest, Idle
    <2>4. request' = [request EXCEPT ![r] = q]
      BY <1>7, <2>1 DEF ResendChunk
    <2>5. QED
      BY <1>2, <2>2, <2>3, <2>4
  <1>8. QED
    BY <1>4, <1>5, <1>6, <1>7

(* The page sends a chunk, and waits for the answer of this request.       *)
LEMMA PageSends ==
  ASSUME TypeOK, Inv, PageInv, NEW r \in Requests, NEW u \in Uploads, SendChunk(r, u)
  PROVE  PageInv'
  <1>1. page[u] \in PageRecord /\ page[u].next \in Chunks
    BY DEF TypeOK, PageRecord
  <1>2. PICK q : q = ChunkRequest(u, page[u].next, TRUE)
    OBVIOUS
  <1>3. q \in RequestRecord /\ q.pc = "open" /\ q.upload = u /\ q.chunk = page[u].next
    BY <1>1, <1>2, IdleTyped DEF ChunkRequest, Idle
  <1>4. Becomes(r, q)
    BY <1>2, <1>3, BecomesSet DEF SendChunk
  <1>5. /\ page'[u].state = "waiting" /\ page'[u].next = page[u].next
        /\ \A v \in Uploads \ {u} : page'[v] = page[v]
        /\ UNCHANGED <<file, asked>> /\ page[u].state = "ready"
    BY <1>1 DEF SendChunk, TypeOK, PageRecord
  <1>6. Carries(q)' /\ Awaited(q)'
    BY <1>3, <1>5 DEF Carries, Awaited, HasRegistered
  <1>7. \A s \in Requests : request[s].answers
          => request[s].upload \in Uploads \ {u}
    BY <1>5 DEF PageInv, Awaited
  <1>8. \A s \in Requests \ {r} : request[s].answers =>
          /\ page'[request[s].upload] = page[request[s].upload]
          /\ ~(q.answers /\ request[s].upload = q.upload)
    BY <1>3, <1>5, <1>7
  <1>9. /\ \A v \in Uploads : Registered(v) \subseteq Registered(v)'
        /\ \A s \in Requests \ {r} : request[s].pc = "commit" =>
             file'[request[s].file].upload = file[request[s].file].upload
    BY <1>5 DEF Registered, Of, Row
  <1>10. \A v \in Uploads : page'[v].state = "done" =>
           page[v].state = "done" \/ Registered(v)' # {}
    BY <1>5
  <1>11. QED
    BY <1>4, <1>6, <1>8, <1>9, <1>10, PageTells

LEMMA PageStep ==
  ASSUME TypeOK, Inv, PageInv, [Next]_vars
  PROVE  PageInv'
  <1>1. ASSUME NEW r \in Requests,
               \/ Refused(r) \/ OpenUpload(r) \/ WriteManifest(r) \/ CreateChunk(r)
               \/ CheckSize(r) \/ CheckQuota(r) \/ StoreFails(r) \/ RegisterFails(r)
               \/ RegisterUnacknowledged(r) \/ UndoStore(r)
               \/ DeleteObject(r) \/ DeleteObjectFails(r)
        PROVE  PageInv'
    <2>1. RowsKept /\ page' = page
      BY <1>1, RowsAreKept DEF Refused, OpenUpload, WriteManifest, CreateChunk,
        CheckSize, CheckQuota, StoreFails, RegisterFails, RegisterUnacknowledged,
        UndoStore, DeleteObject, DeleteObjectFails
    <2>2. PICK pc \in Points :
            /\ Goto(r, pc)
            /\ pc \notin {"commit", "reply", "tidy"}
            /\ pc \in {"join", "size", "quota", "store", "undo", "tidy"}
               => request[r].pc \in {"join", "size", "quota", "store", "commit"}
      BY <1>1 DEF Refused, OpenUpload, WriteManifest, CreateChunk, CheckSize,
        CheckQuota, StoreFails, RegisterFails, RegisterUnacknowledged, UndoStore,
        DeleteObject, DeleteObjectFails, Points
    <2>3. QED
      BY <2>1, <2>2, PageGoto
  <1>2. CASE PeriodStarts \/ StatusChanges \/ UNCHANGED vars
    <2>1. UNCHANGED <<request, file, page, asked>>
      BY <1>2 DEF PeriodStarts, StatusChanges, vars
    <2>2. QED
      BY <2>1 DEF PageInv, Carries, HasRegistered, Awaited, OneAwaited, Registered, Of,
                  Row
  <1>3. ASSUME NEW r \in Requests, Step(r) PROVE PageInv'
    BY <1>1, <1>3, PageChunk, PageStore, PageRegister, PageEnds, PageAnswers,
       PageUnheard DEF Step
  <1>4. QED
    BY <1>1, <1>2, <1>3, PageAnswers, PageEnds, PageRejects, PageUnheard, PageSends
       DEF Next

LEMMA SentInit ==
  Init => CountInv /\ PageInv
  <1> SUFFICES ASSUME Init PROVE CountInv /\ PageInv
    OBVIOUS
  <1>1. \A f \in Files : file[f].upload = None
    BY DEF Init, NoFile
  <1>2. ASSUME NEW u \in Uploads
        PROVE  /\ Covered(Of(u), Storers(u), 0, sent[u][LastChunk])
               /\ Covered(Of(u), Makers(u), Vacancy(u), sent[u][0])
    <2>1. Of(u) = {}
      BY <1>1, FilesAssumption DEF Of
    <2>2. \A r \in Requests : request[r].pc = "idle"
      BY IdleFields DEF Init
    <2>3. Storers(u) = {} /\ Makers(u) = {}
      BY <2>2 DEF Storers, Makers, MayStore, MayMake, Begun
    <2>4. Vacancy(u) = 0
      BY DEF Init, NoTemp, Vacancy
    <2>5. 0 \in Chunks /\ LastChunk \in Chunks
      BY FilesAssumption DEF Chunks
    <2>6. sent[u][LastChunk] = 0 /\ sent[u][0] = 0
      BY <2>5 DEF Init
    <2>7. Cardinality({}) = 0
      BY FS_EmptySet
    <2>8. QED
      BY <2>1, <2>3, <2>4, <2>6, <2>7 DEF Covered
  <1>3. \A r \in Requests : request[r].pc = "idle" /\ ~request[r].answers
    BY IdleFields DEF Init, Idle
  <1>4. PageInv
    BY <1>3 DEF Init, PageInv, Carries, HasRegistered, Awaited, OneAwaited
  <1>5. QED
    BY <1>2, <1>4 DEF CountInv

-----------------------------------------------------------------------------
(* Theorems.                                                               *)

LEMMA FilesInit ==
  Init => TypeOK /\ Inv /\ WithinUploadLimit
  <1> SUFFICES ASSUME Init PROVE TypeOK /\ Inv /\ WithinUploadLimit
    OBVIOUS
  <1>1. \A r \in Requests : request[r].pc = "idle"
    BY IdleFields DEF Init
  <1>2. \A f \in Files : file[f].state = (IF f \in OldFiles THEN "present" ELSE "absent")
    BY DEF Init, NoFile
  <1>3. \A f \in Files : Row(f) => f \in storage /\ file[f].whole
    BY <1>2 DEF Init, Row
  <1>4. \A f \in storage : Row(f)
    BY <1>2, FilesAssumption DEF Init, Row
  <1>5. FileInv
    BY <1>1, <1>3 DEF Init, FileInv, Knows, Storing, OneOwner, AskedExist, FileIsReadable
  <1>6. CleanInv
    BY <1>1, <1>4 DEF Init, CleanInv, StorageMatches, DiskMatches
  <1>7. WithinUploadLimit
    BY FilesAssumption DEF Init, WithinUploadLimit
  <1>8. QED
    BY <1>5, <1>6, <1>7, TypeInit DEF Inv

LEMMA FilesStep ==
  TypeOK /\ Inv /\ [Next]_vars => TypeOK' /\ Inv'
  <1> SUFFICES ASSUME TypeOK, Inv, [Next]_vars PROVE TypeOK' /\ Inv'
    OBVIOUS
  <1>1. \A r \in Requests : Knows(r)
    BY DEF Inv, FileInv
  <1>2. ASSUME NEW r \in Requests, Step(r) PROVE TypeOK'
    BY <1>1, <1>2, TypeChunk, TypeJoin, TypeEnds, TypeRegister, TypeDelete DEF Step
  <1>3. ASSUME NEW r \in Requests, Step(r) PROVE Inv'
    BY <1>3, InvChunk, InvJoin, InvChecks, InvArrivesOrEnds, InvStore, InvRegister,
       InvDeleteObject, InvDeleteRow DEF Step
  <1>4. ASSUME NEW r \in Requests,
               \/ StartDirect(r)
               \/ \E u \in Uploads :
                    SendChunk(r, u) \/ \E k \in Chunks : ResendChunk(r, u, k)
        PROVE  TypeOK' /\ Inv'
    BY <1>4, TypeArrivals, InvArrivesOrEnds
  <1>5. ASSUME NEW r \in Requests, NEW f \in Files, StartDelete(r, f)
        PROVE  TypeOK' /\ Inv'
    BY <1>5, TypeArrivals, InvStartDelete
  <1>6. ASSUME NEW r \in Requests,
               \/ Refused(r) \/ RejectDirect(r) \/ StoreFails(r) \/ RegisterFails(r)
               \/ RegisterUnacknowledged(r) \/ CleanupFails(r) \/ DeleteObjectFails(r)
               \/ DeleteRowFails(r) \/ Crash(r)
        PROVE  TypeOK' /\ Inv'
    BY <1>6, TypeRegister, TypeEnds, TypeDelete, InvChecks, InvRegister,
       InvDeleteObjectFails, InvArrivesOrEnds
  <1>7. CASE PeriodStarts \/ StatusChanges
    <2>1. UNCHANGED <<request, disk, storage, file, asked, lost>>
      BY <1>7 DEF PeriodStarts, StatusChanges
    <2>2. Inv'
      BY <2>1 DEF Inv, FileInv, CleanInv, Knows, Storing, OneOwner, Owns, AskedExist,
                  FileIsReadable, StorageMatches, DiskMatches, Row
    <2>3. QED
      BY <1>7, <2>2, TypeBilling
  <1>8. CASE UNCHANGED vars
    <2>1. TypeOK'
      BY <1>8 DEF vars, TypeOK
    <2>2. Inv'
      BY <1>8 DEF vars, Inv, FileInv, CleanInv, Knows, Storing, OneOwner, Owns,
                  AskedExist, FileIsReadable, StorageMatches, DiskMatches, Row
    <2>3. QED
      BY <2>1, <2>2
  <1>9. QED
    BY <1>2, <1>3, <1>4, <1>5, <1>6, <1>7, <1>8 DEF Next

LEMMA FilesInvariant ==
  Spec => [](TypeOK /\ Inv /\ WithinUploadLimit)
  <1>1. TypeOK /\ Inv /\ WithinUploadLimit /\ [Next]_vars
        => TypeOK' /\ Inv' /\ WithinUploadLimit'
    BY FilesStep, LimitStep
  <1>2. QED
    BY <1>1, FilesInit, PTL DEF Spec

(* The stores, the rows and the requests keep their types.                 *)
THEOREM TypeCorrect ==
  Spec => []TypeOK
  BY FilesInvariant, PTL

(* Whatever the number of uploads at once, the monthly limit holds.        *)
THEOREM LimitHolds ==
  Spec => []WithinUploadLimit
  BY FilesInvariant, PTL

(* However requests interleave, fail or die, the row of a file has the     *)
(* whole of its object behind it until its deletion is asked for, unless   *)
(* the COMMIT of the row was not acknowledged to the request that made it. *)
THEOREM Readable ==
  Spec => []FileIsReadable
  <1>1. Inv => FileIsReadable
    BY DEF Inv, FileInv
  <1>2. QED
    BY <1>1, FilesInvariant, PTL

(* No request, in whichever way it ends, leaves an object without a row or *)
(* an assembled file on the disk, but for an object that was cut short and *)
(* the file of a direct upload whose body was rejected, unless the process *)
(* died or the storage or the disk refused a removal.                      *)
THEOREM Clean ==
  Spec => []NothingIsLeft
  <1>1. TypeOK /\ Inv => NothingIsLeft
    <2> SUFFICES ASSUME TypeOK, Inv, \A r \in Requests : request[r] = Idle, ~lost
                 PROVE  /\ disk \subseteq {"rejected"}
                        /\ storage \subseteq {f \in Files : Row(f)} \cup {"partial"}
      BY DEF NothingIsLeft
    <2>1. \A r \in Requests : request[r].pc = "idle"
      BY IdleFields
    <2>2. disk \subseteq {"rejected"}
      BY <2>1 DEF Inv, CleanInv, DiskMatches, TypeOK
    <2>3. \A f \in storage : f = "partial" \/ Row(f)
      BY <2>1 DEF Inv, CleanInv, StorageMatches, Owns, Storing
    <2>4. QED
      BY <2>2, <2>3 DEF TypeOK
  <1>2. QED
    BY <1>1, FilesInvariant, PTL

(* However requests interleave, and however often a chunk is sent: an      *)
(* upload becomes no more files than its first and its last chunk were     *)
(* sent, and a page that was told it is done has one.                      *)
THEOREM SentForEach ==
  Spec => []FilesWereSent
  <1>1. Init => CountInv /\ PageInv
    BY SentInit
  <1>2. TypeOK /\ Inv /\ CountInv /\ PageInv /\ [Next]_vars => CountInv' /\ PageInv'
    BY CountStep, PageStep
  <1>3. TypeOK /\ CountInv /\ PageInv => FilesWereSent
    <2> SUFFICES ASSUME TypeOK, CountInv, PageInv, NEW u \in Uploads
                 PROVE  /\ Cardinality(Registered(u)) <= sent[u][0]
                        /\ Cardinality(Registered(u)) <= sent[u][LastChunk]
                        /\ page[u].state = "done" => Registered(u) # {}
      BY DEF FilesWereSent
    <2>1. /\ IsFiniteSet(Of(u)) /\ IsFiniteSet(Storers(u)) /\ IsFiniteSet(Makers(u))
          /\ Vacancy(u) \in {0, 1} /\ sent[u][0] \in Nat /\ sent[u][LastChunk] \in Nat
      BY CountsFinite
    <2>2. Registered(u) \subseteq Of(u)
      BY DEF Registered
    <2>3. /\ Cardinality(Of(u)) \in Nat /\ Cardinality(Registered(u)) \in Nat
          /\ Cardinality(Registered(u)) <= Cardinality(Of(u))
      BY <2>1, <2>2, Fewer
    <2>4. Cardinality(Storers(u)) \in Nat /\ Cardinality(Makers(u)) \in Nat
      BY <2>1, FS_CardinalityType
    <2>5. /\ Cardinality(Of(u)) + Cardinality(Storers(u)) + 0 <= sent[u][LastChunk]
          /\ Cardinality(Of(u)) + Cardinality(Makers(u)) + Vacancy(u) <= sent[u][0]
      BY DEF CountInv, Covered
    <2>6. QED
      BY <2>1, <2>3, <2>4, <2>5 DEF PageInv
  <1>4. QED
    BY <1>1, <1>2, <1>3, FilesInvariant, PTL DEF Spec
=============================================================================
