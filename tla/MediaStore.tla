----------------------------- MODULE MediaStore -----------------------------
(***************************************************************************)
(* The bytes behind the rows: originals and crops stored under their       *)
(* digest (core/storage.py), shared by every row that names the digest,    *)
(* and written and removed outside the database's transactions by          *)
(* registrations (pipeline/ingest.py), the worker's process job and purges *)
(* (purge.py).                                                             *)
(*                                                                         *)
(* Both stores are one set of digests on disk.  A request stores bytes     *)
(* before it inserts the row that names them, a purge deletes rows before  *)
(* it unlinks the bytes no row names, and either process may die between.  *)
(***************************************************************************)
EXTENDS Integers, FiniteSets

CONSTANTS
    Cases,
    Contents,      \* digests of original files
    Readable,      \* those that decode
    Videos,        \* those with a video's suffix
    Crops,         \* digests of face crops
    CropsOf,       \* the crops of a file's faces
    Requests,      \* API requests in flight at once
    Job,           \* the purge a process job ends with
    MaxMedia,      \* bound: media rows ever inserted
    MaxCrashes,    \* bound: crashes of either process
    None

ASSUME BoundsAssumption == MaxMedia \in Nat /\ MaxCrashes \in Nat
ASSUME ReadableAssumption == Readable \subseteq Contents /\ Videos \subseteq Contents
ASSUME CropsAssumption == CropsOf \in [Contents -> SUBSET Crops] /\ Contents \cap Crops = {}
ASSUME NoneAssumption == None \notin Contents \cup Cases /\ Job \notin Requests

MediaIds == 1..MaxMedia
Digests == Contents \cup Crops
Callers == Requests \cup {Job}

VARIABLES
    disk,        \* the digests that have bytes
    media,       \* the rows of media with the crops their detections name
    inserted,    \* how many media ids were handed out
    request,     \* what each API request, and the job's own purge, is in the middle of
    worker,      \* the process job in hand
    crashes,
    overlapped,  \* history: bytes last stored for a row while a purge was about to unlink them
    left         \* history: bytes that lost the last thing that would remove or name them

history == <<overlapped, left>>
vars == <<disk, media, inserted, request, worker, crashes, history>>

-----------------------------------------------------------------------------
NoRow == [case |-> None, content |-> None, status |-> "none", crops |-> {}]

MediaRow == [case : Cases, content : Contents, status : {"new", "processing", "done", "failed"},
             crops : SUBSET Crops]

IdleRequest == [step |-> "idle", case |-> None, files |-> {}, content |-> None, media |-> 0,
                rest |-> {}, digests |-> {}]

Request == [step : {"store", "stored", "insert", "next", "purge", "unlink"},
            case : Cases \cup {None}, files : SUBSET Contents, content : Contents \cup {None},
            media : MediaIds \cup {0}, rest : SUBSET MediaIds, digests : SUBSET Digests]

IdleWorker == [step |-> "idle", media |-> 0, content |-> None, todo |-> {}, stored |-> {}]

WorkerState == [step : {"reading", "storing"}, media : MediaIds, content : Contents,
                todo : SUBSET Crops, stored : SUBSET Crops]

TypeOK ==
    /\ disk \subseteq Digests
    /\ media \in [MediaIds -> MediaRow \cup {NoRow}]
    /\ \A m, n \in MediaIds : m # n /\ media[m] # NoRow =>
          media[m].case # media[n].case \/ media[m].content # media[n].content
    /\ inserted \in 0..MaxMedia
    /\ request \in [Callers -> Request \cup {IdleRequest}]
    /\ worker \in WorkerState \cup {IdleWorker}
    /\ crashes \in 0..MaxCrashes
    /\ overlapped \subseteq Digests /\ left \subseteq Digests

Init ==
    /\ disk = {}
    /\ media = [m \in MediaIds |-> NoRow]
    /\ inserted = 0
    /\ request = [q \in Callers |-> IdleRequest]
    /\ worker = IdleWorker
    /\ crashes = 0
    /\ overlapped = {} /\ left = {}

Exists(rows, m) == rows[m] # NoRow

\* A row names these bytes: media.sha256, or a detection's crop_sha256.
Referenced(rows, d) ==
    \E m \in MediaIds : Exists(rows, m) /\ (rows[m].content = d \/ d \in rows[m].crops)

Unreferenced(rows, digests) == {d \in digests : ~ Referenced(rows, d)}

\* Bytes somebody has stored and not yet named in a row.
HeldBy(q) == IF request[q].step \in {"stored", "insert"} THEN {request[q].content} ELSE {}
Held == worker.stored \cup UNION {HeldBy(q) : q \in Requests}

\* Bytes a purge decided on and has not unlinked yet.
DoomedBy(q) == IF request[q].step = "unlink" THEN request[q].digests ELSE {}
Doomed == UNION {DoomedBy(q) : q \in Callers}

\* Mutant: a file is looked up among those that were processed.
ProcessedRows(case, content) ==
    {m \in MediaIds : media[m].case = case /\ media[m].content = content /\ media[m].status = "done"}

Rows(case, content) ==
    {m \in MediaIds : media[m].case = case /\ media[m].content = content}

-----------------------------------------------------------------------------
(* Registering files: upload_media with one, import_folder with a folder of them. *)

Register(q, case, files) ==
    /\ request[q] = IdleRequest
    /\ request' = [request EXCEPT ![q] =
           [IdleRequest EXCEPT !.step = "store", !.case = case, !.files = files]]
    /\ UNCHANGED <<disk, media, inserted, worker, crashes, history>>

Upload(q, case, content) == Register(q, case, {content})

Import(q, case, folder) == Cardinality(folder) > 1 /\ Register(q, case, folder)

\* store_file: a temporary file that lands under its digest, or is dropped when the
\* digest is there already.
StoreFile(q) ==
    /\ request[q].step = "store"
    /\ \E content \in request[q].files :
          /\ disk' = disk \cup {content}
          /\ request' = [request EXCEPT ![q].step = "stored", ![q].content = content,
                                        ![q].files = @ \ {content}]
          /\ overlapped' = (overlapped \ {content}) \cup ({content} \cap Doomed)
          /\ left' = left \ {content}
    /\ UNCHANGED <<media, inserted, worker, crashes>>

NextFile(r) == IF r.files = {} THEN IdleRequest
               ELSE [IdleRequest EXCEPT !.step = "store", !.case = r.case, !.files = r.files]

\* The case has the file already, or it decodes and goes on to be inserted.  A file that
\* does not decode is refused after its bytes were stored: a folder goes on after an
\* image, and ends at a video.
LookUp(q) ==
    /\ request[q].step = "stored"
    /\ LET content == request[q].content
           known == Rows(request[q].case, content) # {}
           refused == ~ known /\ content \notin Readable
       IN  /\ request' = [request EXCEPT ![q] =
                  IF refused /\ content \in Videos THEN IdleRequest
                  ELSE IF known \/ refused THEN NextFile(@) ELSE [@ EXCEPT !.step = "insert"]]
           /\ left' = IF refused THEN left \cup {content} ELSE left
    /\ UNCHANGED <<disk, media, inserted, worker, crashes, overlapped>>

\* The insert, or the row another request won the race with.
InsertMedia(q) ==
    /\ request[q].step = "insert"
    /\ LET known == Rows(request[q].case, request[q].content) # {}
       IN  /\ known \/ inserted < MaxMedia
           /\ media' = IF known THEN media ELSE
                 [media EXCEPT ![inserted + 1] =
                     [case |-> request[q].case, content |-> request[q].content,
                      status |-> "new", crops |-> {}]]
           /\ inserted' = IF known THEN inserted ELSE inserted + 1
    /\ request' = [request EXCEPT ![q] = NextFile(@)]
    /\ UNCHANGED <<disk, worker, crashes, history>>

-----------------------------------------------------------------------------
(* Deleting files: delete_media with one file, bulk_delete_media with several, and *)
(* a process job with the file it found no face in.                                *)

MarkFailed(m) == IF Exists(media, m) THEN [media EXCEPT ![m].status = "failed"] ELSE media

BeginDelete(q, files) ==
    /\ request[q] = IdleRequest
    /\ files # {} /\ \A m \in files : m <= inserted
    /\ request' = [request EXCEPT ![q] = [IdleRequest EXCEPT !.step = "next", !.rest = files]]
    /\ UNCHANGED <<disk, media, inserted, worker, crashes, history>>

\* What purge_media reads before its transaction: the row and the crops it has by now.
\* A file already gone is reported and skipped.
ReadForPurge(q) ==
    /\ request[q].step = "next"
    /\ \E m \in request[q].rest :
          LET r == [request[q] EXCEPT !.rest = @ \ {m}]
          IN  request' = [request EXCEPT ![q] =
                 IF Exists(media, m)
                 THEN [r EXCEPT !.step = "purge", !.media = m, !.content = media[m].content,
                                !.digests = {media[m].content} \cup media[m].crops]
                 ELSE IF r.rest = {} THEN IdleRequest ELSE r]
    /\ UNCHANGED <<disk, media, inserted, worker, crashes, history>>

Finished(r) == IF r.rest = {} THEN IdleRequest
               ELSE [IdleRequest EXCEPT !.step = "next", !.rest = r.rest]

\* Mutant: a purge unlinks whatever the file named.
EverythingNamed(rows, q) == request[q].digests

\* Mutant: the crops are left to the delete of their detections.
ObjectOnly(rows, q) == Unreferenced(rows, {request[q].content})

\* Decided inside the transaction, after the deletes.
Orphans(rows, q) == Unreferenced(rows, request[q].digests)

\* purge_media's transaction.
CommitPurge(q) ==
    /\ request[q].step = "purge"
    /\ LET m == request[q].media
           rows == [media EXCEPT ![m] = NoRow]
           orphans == Orphans(rows, q)
       IN  /\ media' = rows
           /\ request' = [request EXCEPT ![q] =
                  IF orphans = {} THEN Finished(@)
                  ELSE [@ EXCEPT !.step = "unlink", !.digests = orphans]]
           /\ overlapped' = overlapped \cup (orphans \cap Held)
           /\ left' = left \cup Unreferenced(rows, media[m].crops \ request[q].digests)
    /\ UNCHANGED <<disk, inserted, worker, crashes>>

\* A foreign key or a purged person rolls the purge back; a bulk delete ends with it, and
\* a process job fails.
AbortPurge(q) ==
    /\ request[q].step = "purge"
    /\ request' = [request EXCEPT ![q] = IdleRequest]
    /\ media' = IF q = Job THEN MarkFailed(request[q].media) ELSE media
    /\ UNCHANGED <<disk, inserted, worker, crashes, history>>

\* The unlinks after the commit, the original first.
Unlink(q) ==
    /\ request[q].step = "unlink"
    /\ \E d \in request[q].digests :
          /\ request[q].digests \cap Contents \subseteq {d}
          /\ disk' = disk \ {d}
          /\ left' = left \ {d}
          /\ LET r == [request[q] EXCEPT !.digests = @ \ {d}]
             IN  request' = [request EXCEPT ![q] = IF r.digests = {} THEN Finished(r) ELSE r]
    /\ UNCHANGED <<media, inserted, worker, crashes, overlapped>>

-----------------------------------------------------------------------------
(* The worker: process_image, and every batch of process_video.             *)

BeginProcess(m) ==
    /\ worker = IdleWorker /\ request[Job] = IdleRequest
    /\ media[m].status = "new"
    /\ media' = [media EXCEPT ![m].status = "processing"]
    /\ worker' = [IdleWorker EXCEPT !.step = "reading", !.media = m,
                                    !.content = media[m].content]
    /\ UNCHANGED <<disk, inserted, request, crashes, history>>

\* The original is read back from the store and the faces that pass the configured gates
\* are cropped.
Decode ==
    /\ worker.step = "reading"
    /\ worker.content \in disk
    /\ \E found \in SUBSET CropsOf[worker.content] :
          worker' = [worker EXCEPT !.step = "storing", !.todo = found]
    /\ UNCHANGED <<disk, media, inserted, request, crashes, history>>

StoreCrop ==
    /\ worker.step = "storing"
    /\ \E k \in worker.todo :
          /\ disk' = disk \cup {k}
          /\ worker' = [worker EXCEPT !.todo = @ \ {k}, !.stored = @ \cup {k}]
          /\ overlapped' = (overlapped \ {k}) \cup ({k} \cap Doomed)
          /\ left' = left \ {k}
    /\ UNCHANGED <<media, inserted, request, crashes>>

\* A faces-only job goes on to purge a file it found no face in.
DropFaceless ==
    /\ worker.stored = {}
    /\ request' = [request EXCEPT ![Job] =
           [IdleRequest EXCEPT !.step = "next", !.rest = {worker.media}]]

\* The detections name the crops.
CommitDetections ==
    /\ worker.step = "storing" /\ worker.todo = {}
    /\ Exists(media, worker.media)
    /\ media' = [media EXCEPT ![worker.media].crops = worker.stored,
                              ![worker.media].status = "done"]
    /\ worker' = IdleWorker
    /\ DropFaceless \/ UNCHANGED request
    /\ UNCHANGED <<disk, inserted, crashes, history>>

\* The job fails: the original is missing, a model fails, or the media was purged and the
\* insert of its detections breaks a foreign key.
FailProcess ==
    /\ worker # IdleWorker
    /\ media' = MarkFailed(worker.media)
    /\ worker' = IdleWorker
    /\ left' = left \cup Unreferenced(media, worker.stored)
    /\ UNCHANGED <<disk, inserted, request, crashes, overlapped>>

-----------------------------------------------------------------------------
(* Crashes.                                                                 *)

ApiCrash ==
    /\ crashes < MaxCrashes
    /\ crashes' = crashes + 1
    /\ request' = [q \in Callers |-> IF q = Job THEN request[Job] ELSE IdleRequest]
    /\ left' = left \cup Unreferenced(media, UNION {DoomedBy(q) \cup HeldBy(q) : q \in Requests})
    /\ UNCHANGED <<disk, media, inserted, worker, overlapped>>

\* The job is requeued when the worker starts again.
WorkerCrash ==
    /\ crashes < MaxCrashes
    /\ worker # IdleWorker \/ request[Job] # IdleRequest
    /\ crashes' = crashes + 1
    /\ LET inHand == {m \in {worker.media, request[Job].media} \cup request[Job].rest :
                         m # 0 /\ Exists(media, m)}
       IN  media' = [m \in MediaIds |->
               IF m \in inHand THEN [media[m] EXCEPT !.status = "new"] ELSE media[m]]
    /\ left' = left \cup Unreferenced(media, worker.stored \cup DoomedBy(Job))
    /\ worker' = IdleWorker
    /\ request' = [request EXCEPT ![Job] = IdleRequest]
    /\ UNCHANGED <<disk, inserted, overlapped>>

-----------------------------------------------------------------------------
RequestStep(q) ==
    \/ StoreFile(q) \/ LookUp(q) \/ InsertMedia(q)
    \/ ReadForPurge(q) \/ CommitPurge(q) \/ AbortPurge(q) \/ Unlink(q)

WorkerStep ==
    \/ \E m \in MediaIds : BeginProcess(m)
    \/ Decode \/ StoreCrop \/ CommitDetections \/ FailProcess

Next ==
    \/ \E q \in Requests, case \in Cases, content \in Contents : Upload(q, case, content)
    \/ \E q \in Requests, case \in Cases, folder \in SUBSET Contents : Import(q, case, folder)
    \/ \E q \in Requests, files \in SUBSET MediaIds : BeginDelete(q, files)
    \/ \E q \in Callers : RequestStep(q)
    \/ WorkerStep
    \/ ApiCrash \/ WorkerCrash

Spec == Init /\ [][Next]_vars

-----------------------------------------------------------------------------
(* Properties.                                                              *)

(* The bytes a row names are in the store: an original that was registered, a   *)
(* crop that was detected.  Purges, deletes of the same bytes in another case, *)
(* rollbacks and crashes never take them; only a purge of the same bytes that  *)
(* overlaps the step between storing them and naming them does                *)
(* (purge.py:310-355, ingest.py:102-135, process.py:134-175).                 *)
BytesKept ==
    \A d \in Digests : Referenced(media, d) => d \in disk \cup overlapped

(* The bytes of a deleted file leave the disk (purge.py:279-287): whatever is    *)
(* stored is named by a row, on its way to a row, about to be unlinked, or was *)
(* left, since it was last stored, by a crash, a file that does not decode, a process *)
(* job that fails, or crops committed after a purge had read the file's crops. *)
NothingLeftBehind ==
    \A d \in disk : Referenced(media, d) \/ d \in Held \cup Doomed \cup left
=============================================================================
