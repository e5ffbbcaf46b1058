-------------------------- MODULE MediaStoreProofs --------------------------
(***************************************************************************)
(* The media store module for any number of cases, files, requests and     *)
(* crashes: no row is left without its bytes by a purge that did not       *)
(* overlap the storing, and no bytes are left without somebody to name or  *)
(* remove them.                                                            *)
(***************************************************************************)
EXTENDS MediaStore, TLAPS

-----------------------------------------------------------------------------
(* What the steps of a request and of the worker rest on.                   *)

\* What a request is in the middle of has what its next step reads; a job only purges.
RequestsHold ==
    /\ \A q \in Callers :
          /\ request[q].step \in {"store", "stored", "insert"} => request[q].case \in Cases
          /\ request[q].step \in {"stored", "insert"} => request[q].content \in Contents
          /\ request[q].step = "purge" => request[q].media \in 1..inserted
    /\ request[Job].step \in {"idle", "next", "purge", "unlink"}

\* A media id is handed out once: an id not handed out has no row.
RowsAreInserted == \A m \in MediaIds : Exists(media, m) => m <= inserted

TypeInv == TypeOK /\ RequestsHold /\ RowsAreInserted

\* Bytes a row names, or that somebody stored in order to name them, are on disk, and a
\* purge that is about to unlink them decided so while somebody held them, or before
\* they were last stored.
KeptInv ==
    \A d \in Digests :
        Referenced(media, d) \/ d \in Held =>
            d \in disk \cup overlapped /\ (d \in Doomed => d \in overlapped)

\* A purge still has the original of the row it is about to delete; and nobody processes
\* a row that has crops already, which its detections would replace.
PurgeHolds ==
    \A q \in Callers : request[q].step = "purge" /\ Exists(media, request[q].media) =>
        media[request[q].media].content \in request[q].digests

InHand == {worker.media, request[Job].media} \cup request[Job].rest

CropsHold ==
    /\ worker # IdleWorker => request[Job] = IdleRequest
    /\ \A m \in MediaIds : m \in InHand \/ media[m].status = "new" => media[m].crops = {}

StoreInv == TypeInv /\ KeptInv /\ PurgeHolds /\ CropsHold /\ NothingLeftBehind

-----------------------------------------------------------------------------
(* Types.                                                                   *)

\* Two rows never have the same bytes in the same case.
OneRowEach ==
    \A m, n \in MediaIds : m # n /\ media[m] # NoRow =>
        media[m].case # media[n].case \/ media[m].content # media[n].content

LEMMA TypeInit == Init => TypeInv
  BY BoundsAssumption
     DEF Init, TypeInv, TypeOK, RequestsHold, RowsAreInserted, Exists, IdleRequest, NoRow, Callers

\* A request that moves on keeps its types and everybody else's.
LEMMA RequestMoves ==
    ASSUME TypeInv, NEW q \in Callers, NEW r \in Request \cup {IdleRequest},
           request' = [request EXCEPT ![q] = r],
           r.step \in {"store", "stored", "insert"} => r.case \in Cases,
           r.step \in {"stored", "insert"} => r.content \in Contents,
           r.step = "purge" => r.media \in 1..inserted',
           q = Job => r.step \in {"idle", "next", "purge", "unlink"},
           inserted' \in {inserted, inserted + 1}
    PROVE  request' \in [Callers -> Request \cup {IdleRequest}] /\ RequestsHold'
<1>1. request \in [Callers -> Request \cup {IdleRequest}] /\ RequestsHold /\ inserted \in Nat
  BY BoundsAssumption DEF TypeInv, TypeOK
<1>2. request' \in [Callers -> Request \cup {IdleRequest}]
  BY <1>1
<1>3. \A p \in Callers : request'[p] = IF p = q THEN r ELSE request[p]
  BY <1>1
<1>4. ASSUME NEW p \in Callers
      PROVE  /\ request'[p].step \in {"store", "stored", "insert"} => request'[p].case \in Cases
             /\ request'[p].step \in {"stored", "insert"} => request'[p].content \in Contents
             /\ request'[p].step = "purge" => request'[p].media \in 1..inserted'
             /\ p = Job => request'[p].step \in {"idle", "next", "purge", "unlink"}
  BY <1>1, <1>3 DEF RequestsHold
<1>5. Job \in Callers
  BY DEF Callers
<1> QED
  BY <1>2, <1>4, <1>5 DEF RequestsHold

\* Rows that change their status or their crops keep their place in the library.
LEMMA RowsTyped ==
    ASSUME TypeInv, inserted' = inserted,
           \A m \in MediaIds :
              \/ media'[m] = media[m]
              \/ media'[m] = NoRow
              \/ /\ media[m] # NoRow /\ media'[m] \in MediaRow
                 /\ media'[m].case = media[m].case /\ media'[m].content = media[m].content,
           media' = [m \in MediaIds |-> media'[m]]
    PROVE  media' \in [MediaIds -> MediaRow \cup {NoRow}] /\ OneRowEach' /\ RowsAreInserted'
<1>1. media \in [MediaIds -> MediaRow \cup {NoRow}] /\ OneRowEach /\ RowsAreInserted
  BY DEF TypeInv, TypeOK, OneRowEach
<1>2. \A m \in MediaIds : media'[m] \in MediaRow \cup {NoRow}
  BY <1>1
<1>3. media' \in [MediaIds -> MediaRow \cup {NoRow}]
  BY <1>2
<1>4. \A m \in MediaIds : media'[m] # NoRow => media[m] # NoRow
        /\ media'[m].case = media[m].case /\ media'[m].content = media[m].content
  OBVIOUS
<1>5. RowsAreInserted'
  BY <1>1, <1>4 DEF RowsAreInserted, Exists
<1>6. \A m \in MediaIds : media'[m] = NoRow \/ media'[m].case \in Cases
  BY <1>2 DEF MediaRow
<1>7. OneRowEach'
  <2> SUFFICES ASSUME NEW m \in MediaIds, NEW n \in MediaIds, m # n, media'[m] # NoRow,
                      media'[m].case = media'[n].case
               PROVE  media'[m].content # media'[n].content
    BY DEF OneRowEach
  <2>1. media'[m].case \in Cases
    BY <1>6
  <2>2. media'[n] # NoRow
    BY <2>1, NoneAssumption DEF NoRow
  <2> QED
    BY <1>1, <1>4, <2>2 DEF OneRowEach
<1> QED
  BY <1>3, <1>5, <1>7

\* A row marked failed stays the row it was.
LEMMA MarkTyped ==
    ASSUME TypeInv, UNCHANGED inserted, NEW m, media' = MarkFailed(m)
    PROVE  media' \in [MediaIds -> MediaRow \cup {NoRow}] /\ OneRowEach' /\ RowsAreInserted'
<1>1. media \in [MediaIds -> MediaRow \cup {NoRow}]
  BY DEF TypeInv, TypeOK
<1>2. CASE UNCHANGED media
  BY <1>1, <1>2, RowsTyped
<1>3. CASE Exists(media, m) /\ media' = [media EXCEPT ![m].status = "failed"]
  <2>1. ASSUME NEW n \in MediaIds, media[n] # NoRow
        PROVE  /\ [media[n] EXCEPT !.status = "failed"] \in MediaRow
               /\ [media[n] EXCEPT !.status = "failed"].case = media[n].case
               /\ [media[n] EXCEPT !.status = "failed"].content = media[n].content
    <3>1. media[n] \in MediaRow
      BY <1>1, <2>1
    <3> QED
      BY <3>1 DEF MediaRow
  <2>2. \A n \in MediaIds : media'[n] \in {media[n], [media[n] EXCEPT !.status = "failed"]}
    BY <1>1, <1>3
  <2>3. \A n \in MediaIds : media[n] = NoRow => media'[n] = NoRow
    BY <1>1, <1>3 DEF Exists
  <2> QED
    BY <1>1, <1>3, <2>1, <2>2, <2>3, RowsTyped
<1> QED
  BY <1>2, <1>3 DEF MarkFailed

\* Everything but the requests and the rows, and the rows of a step that leaves them.
LEMMA RestTyped ==
    ASSUME TypeInv, UNCHANGED <<media, inserted>>
    PROVE  /\ media' \in [MediaIds -> MediaRow \cup {NoRow}] /\ OneRowEach' /\ RowsAreInserted'
           /\ inserted' \in 0..MaxMedia
  BY DEF TypeInv, TypeOK, OneRowEach, RowsAreInserted, Exists

\* What a request goes on with after a file, or after a purge.
LEMMA NextIsTyped ==
    ASSUME TypeInv, NEW q \in Callers, request[q] \in Request
    PROVE  /\ request[q].step \in {"stored", "insert"} =>
                 /\ NextFile(request[q]) \in Request \cup {IdleRequest}
                 /\ NextFile(request[q]).step \in {"idle", "store"}
                 /\ NextFile(request[q]).step = "store" =>
                        NextFile(request[q]).case = request[q].case
           /\ Finished(request[q]) \in Request \cup {IdleRequest}
           /\ Finished(request[q]).step \in {"idle", "next"}
<1> USE DEF Request, IdleRequest
<1>1. /\ request[q].step \in {"stored", "insert"} =>
            [IdleRequest EXCEPT !.step = "store", !.case = request[q].case,
                                !.files = request[q].files] \in Request
      /\ [IdleRequest EXCEPT !.step = "next", !.rest = request[q].rest] \in Request
  OBVIOUS
<1> QED
  BY <1>1 DEF NextFile, Finished

LEMMA RequestTypeStep ==
    ASSUME TypeInv, NEW q \in Callers, RequestStep(q)
    PROVE  TypeInv'
<1> USE BoundsAssumption, NoneAssumption
<1> DEFINE r == request[q]
<1>0. /\ disk \subseteq Digests /\ overlapped \subseteq Digests /\ left \subseteq Digests
      /\ media \in [MediaIds -> MediaRow \cup {NoRow}] /\ OneRowEach /\ RowsAreInserted
      /\ inserted \in 0..MaxMedia /\ request \in [Callers -> Request \cup {IdleRequest}]
      /\ RequestsHold /\ worker \in WorkerState \cup {IdleWorker} /\ crashes \in 0..MaxCrashes
      /\ r \in Request \cup {IdleRequest}
  BY DEF TypeInv, TypeOK, OneRowEach
<1>a. ASSUME r.step # "idle" PROVE r \in Request
  BY <1>0, <1>a DEF IdleRequest
<1>b. r.step \in {"store", "stored", "insert"} => r.case \in Cases /\ q # Job
  BY DEF TypeInv, RequestsHold, Callers
<1>c. r.step \in {"stored", "insert"} => r.content \in Contents /\ r.content \in Digests
  BY DEF TypeInv, RequestsHold, Digests
<1>1. CASE StoreFile(q)
  <2>1. PICK content \in r.files :
            /\ disk' = disk \cup {content}
            /\ request' = [request EXCEPT ![q].step = "stored", ![q].content = content,
                                          ![q].files = @ \ {content}]
            /\ overlapped' = (overlapped \ {content}) \cup ({content} \cap Doomed)
            /\ left' = left \ {content}
    BY <1>1 DEF StoreFile
  <2> DEFINE onward == [r EXCEPT !.step = "stored", !.content = content, !.files = @ \ {content}]
  <2>2. r.step = "store" /\ r \in Request /\ UNCHANGED <<media, inserted, worker, crashes>>
    BY <1>1, <1>a DEF StoreFile
  <2>3. content \in Contents /\ content \in Digests
    BY <2>1, <2>2 DEF Request, Digests
  <2>4. /\ onward \in Request /\ onward.step = "stored" /\ onward.content = content
        /\ onward.case = r.case
    BY <2>2, <2>3 DEF Request
  <2>5. request' = [request EXCEPT ![q] = onward]
    BY <1>0, <2>1
  <2> HIDE DEF onward
  <2>6. request' \in [Callers -> Request \cup {IdleRequest}] /\ RequestsHold'
    BY <1>b, <2>2, <2>3, <2>4, <2>5, RequestMoves
  <2> QED
    BY <1>0, <2>1, <2>2, <2>3, <2>6, RestTyped DEF TypeInv, TypeOK, OneRowEach
<1>2. CASE LookUp(q)
  <2>1. r.step = "stored" /\ r \in Request /\ UNCHANGED <<disk, media, inserted, worker, crashes, overlapped>>
        /\ left' \in {left, left \cup {r.content}}
    BY <1>2, <1>a DEF LookUp
  <2>2. PICK onward \in {IdleRequest, NextFile(r), [r EXCEPT !.step = "insert"]} :
            request' = [request EXCEPT ![q] = onward]
    BY <1>0, <1>2 DEF LookUp
  <2>3. /\ onward \in Request \cup {IdleRequest}
        /\ onward.step \in {"idle", "store", "insert"}
        /\ onward.step \in {"store", "insert"} => onward.case = r.case
        /\ onward.step = "insert" => onward.content = r.content
    <3>1. /\ [r EXCEPT !.step = "insert"] \in Request /\ [r EXCEPT !.step = "insert"].case = r.case
          /\ [r EXCEPT !.step = "insert"].step = "insert"
          /\ [r EXCEPT !.step = "insert"].content = r.content
      BY <2>1 DEF Request
    <3>2. IdleRequest.step = "idle"
      BY DEF IdleRequest
    <3> QED
      BY <2>1, <3>1, <3>2, NextIsTyped
  <2>4. request' \in [Callers -> Request \cup {IdleRequest}] /\ RequestsHold'
    BY <1>b, <1>c, <2>1, <2>2, <2>3, RequestMoves
  <2> QED
    BY <1>0, <1>c, <2>1, <2>4, RestTyped DEF TypeInv, TypeOK, OneRowEach
<1>3. CASE InsertMedia(q)
  <2>1. r.step = "insert" /\ r \in Request /\ request' = [request EXCEPT ![q] = NextFile(r)]
        /\ UNCHANGED <<disk, worker, crashes, overlapped, left>>
    BY <1>0, <1>3, <1>a DEF InsertMedia, history
  <2>2. inserted' \in {inserted, inserted + 1}
    BY <1>3 DEF InsertMedia
  <2>3. request' \in [Callers -> Request \cup {IdleRequest}] /\ RequestsHold'
    BY <1>b, <2>1, <2>2, NextIsTyped, RequestMoves
  <2>4. CASE Rows(r.case, r.content) # {}
    <3>1. UNCHANGED <<media, inserted>>
      BY <1>3, <2>4 DEF InsertMedia
    <3> QED
      BY <1>0, <2>1, <2>3, <3>1, RestTyped DEF TypeInv, TypeOK, OneRowEach
  <2>5. CASE Rows(r.case, r.content) = {}
    <3> DEFINE row == [case |-> r.case, content |-> r.content, status |-> "new", crops |-> {}]
    <3>1. inserted < MaxMedia /\ inserted' = inserted + 1
          /\ media' = [media EXCEPT ![inserted + 1] = row]
      BY <1>3, <2>5 DEF InsertMedia
    <3>2. inserted' \in 0..MaxMedia /\ inserted + 1 \in MediaIds
      BY <1>0, <3>1 DEF MediaIds
    <3>3. row \in MediaRow /\ row.case = r.case /\ row.content = r.content
      BY <1>b, <1>c, <2>1 DEF MediaRow
    <3> HIDE DEF row
    <3>4. \A m \in MediaIds : media'[m] = IF m = inserted + 1 THEN row ELSE media[m]
      BY <1>0, <3>1
    <3>5. media' \in [MediaIds -> MediaRow \cup {NoRow}]
      BY <1>0, <3>1, <3>3
    <3>6. \A m \in MediaIds : media[m].case # r.case \/ media[m].content # r.content
      BY <2>5 DEF Rows
    <3>7. OneRowEach'
      BY <1>0, <3>3, <3>4, <3>6 DEF OneRowEach
    <3>8. RowsAreInserted'
      BY <1>0, <3>1, <3>4 DEF RowsAreInserted, Exists, MediaIds
    <3> QED
      BY <1>0, <2>1, <2>3, <3>2, <3>5, <3>7, <3>8 DEF TypeInv, TypeOK, OneRowEach
  <2> QED
    BY <2>4, <2>5
<1>4. CASE ReadForPurge(q)
  <2>1. r.step = "next" /\ r \in Request
        /\ UNCHANGED <<disk, media, inserted, worker, crashes, overlapped, left>>
    BY <1>4, <1>a DEF ReadForPurge, history
  <2> DEFINE skipping(m) == [r EXCEPT !.rest = @ \ {m}]
             purging(m) == [skipping(m) EXCEPT !.step = "purge", !.media = m, !.content = media[m].content,
                                               !.digests = {media[m].content} \cup media[m].crops]
  <2>2. PICK m \in r.rest :
            request' = [request EXCEPT ![q] =
                IF Exists(media, m) THEN purging(m)
                ELSE IF skipping(m).rest = {} THEN IdleRequest ELSE skipping(m)]
    BY <1>4, Zenon DEF ReadForPurge
  <2>3. m \in MediaIds
    BY <2>1, <2>2 DEF Request
  <2>4. CASE Exists(media, m)
    <3>1. media[m] \in MediaRow /\ m \in 1..inserted
      BY <1>0, <2>3, <2>4 DEF Exists, RowsAreInserted, MediaIds
    <3>2. media[m].content \in Contents /\ {media[m].content} \cup media[m].crops \subseteq Digests
      BY <3>1 DEF MediaRow, Digests
    <3>3. purging(m) \in Request /\ purging(m).step = "purge" /\ purging(m).media = m
      BY <2>1, <2>3, <3>2 DEF Request
    <3> HIDE DEF purging, skipping
    <3>4. request' = [request EXCEPT ![q] = purging(m)]
      BY <2>2, <2>4
    <3>5. request' \in [Callers -> Request \cup {IdleRequest}] /\ RequestsHold'
      BY <2>1, <3>1, <3>3, <3>4, RequestMoves
    <3> QED
      BY <1>0, <2>1, <3>5, RestTyped DEF TypeInv, TypeOK, OneRowEach
  <2>5. CASE ~ Exists(media, m)
    <3>1. skipping(m) \in Request /\ skipping(m).step = "next"
      BY <2>1 DEF Request
    <3> HIDE DEF skipping
    <3>2. PICK onward \in {IdleRequest, skipping(m)} : request' = [request EXCEPT ![q] = onward]
      BY <2>2, <2>5
    <3>3. onward \in Request \cup {IdleRequest} /\ onward.step \in {"idle", "next"}
      BY <3>1, <3>2 DEF IdleRequest
    <3>4. request' \in [Callers -> Request \cup {IdleRequest}] /\ RequestsHold'
      BY <2>1, <3>2, <3>3, RequestMoves
    <3> QED
      BY <1>0, <2>1, <3>4, RestTyped DEF TypeInv, TypeOK, OneRowEach
  <2> QED
    BY <2>4, <2>5
<1>5. CASE CommitPurge(q)
  <2> DEFINE m == r.media
             rows == [media EXCEPT ![m] = NoRow]
             orphans == Orphans(rows, q)
             unlinking == [r EXCEPT !.step = "unlink", !.digests = orphans]
  <2>1. r.step = "purge" /\ r \in Request /\ m \in MediaIds /\ media' = rows
        /\ UNCHANGED <<disk, inserted, worker, crashes>>
        /\ overlapped' = overlapped \cup (orphans \cap Held)
        /\ left' = left \cup Unreferenced(rows, media[m].crops \ r.digests)
        /\ request' \in {[request EXCEPT ![q] = Finished(r)], [request EXCEPT ![q] = unlinking]}
    <3>1. r.step = "purge" /\ r \in Request
      BY <1>5, <1>a DEF CommitPurge
    <3>2. m \in MediaIds
      BY <1>0, <3>1 DEF RequestsHold, MediaIds
    <3> QED
      BY <1>0, <1>5, <3>1, <3>2 DEF CommitPurge
  <2>2. orphans \subseteq r.digests /\ orphans \subseteq Digests
    BY <2>1 DEF Orphans, Unreferenced, Request
  <2>3. overlapped' \subseteq Digests
    BY <1>0, <2>1, <2>2
  <2>4. left' \subseteq Digests
    <3>1. media[m].crops \subseteq Digests
      BY <1>0, <2>1 DEF MediaRow, NoRow, Digests
    <3> QED
      BY <1>0, <2>1, <3>1 DEF Unreferenced
  <2>5. unlinking \in Request /\ unlinking.step = "unlink"
    BY <2>1, <2>2 DEF Request
  <2> HIDE DEF unlinking
  <2>6. request' \in [Callers -> Request \cup {IdleRequest}] /\ RequestsHold'
    BY <2>1, <2>5, NextIsTyped, RequestMoves
  <2>7. media' \in [MediaIds -> MediaRow \cup {NoRow}] /\ OneRowEach' /\ RowsAreInserted'
    BY <1>0, <2>1, RowsTyped
  <2> QED
    BY <1>0, <2>1, <2>3, <2>4, <2>6, <2>7 DEF TypeInv, TypeOK, OneRowEach
<1>6. CASE AbortPurge(q)
  <2>1. r.step = "purge" /\ r \in Request /\ request' = [request EXCEPT ![q] = IdleRequest]
        /\ media' \in {MarkFailed(r.media), media}
        /\ UNCHANGED <<disk, inserted, worker, crashes, overlapped, left>>
    BY <1>6, <1>a DEF AbortPurge, history
  <2>2. request' \in [Callers -> Request \cup {IdleRequest}] /\ RequestsHold'
    BY <2>1, RequestMoves DEF IdleRequest
  <2>3. media' \in [MediaIds -> MediaRow \cup {NoRow}] /\ OneRowEach' /\ RowsAreInserted'
    BY <1>0, <2>1, MarkTyped, RestTyped
  <2> QED
    BY <1>0, <2>1, <2>2, <2>3 DEF TypeInv, TypeOK, OneRowEach
<1>7. CASE Unlink(q)
  <2> DEFINE rest(d) == [r EXCEPT !.digests = @ \ {d}]
  <2>1. PICK d \in r.digests :
            /\ disk' = disk \ {d} /\ left' = left \ {d}
            /\ request' = [request EXCEPT ![q] = IF rest(d).digests = {} THEN Finished(rest(d))
                                                ELSE rest(d)]
    BY <1>7, Zenon DEF Unlink
  <2>2. r.step = "unlink" /\ r \in Request /\ UNCHANGED <<media, inserted, worker, crashes, overlapped>>
    BY <1>7, <1>a DEF Unlink
  <2>3. rest(d) \in Request /\ rest(d).step = "unlink" /\ rest(d).rest = r.rest
    BY <2>2 DEF Request
  <2>5. Finished(rest(d)) = Finished(r)
    BY <2>3 DEF Finished
  <2> HIDE DEF rest
  <2>4. request' \in [Callers -> Request \cup {IdleRequest}] /\ RequestsHold'
    BY <2>1, <2>2, <2>3, <2>5, NextIsTyped, RequestMoves
  <2> QED
    BY <1>0, <2>1, <2>2, <2>4, RestTyped DEF TypeInv, TypeOK, OneRowEach
<1> QED
  BY <1>1, <1>2, <1>3, <1>4, <1>5, <1>6, <1>7 DEF RequestStep

\* The worker's row with a new status, or with the crops it stored.
LEMMA RowTyped ==
    ASSUME TypeInv, UNCHANGED inserted, NEW m \in MediaIds, Exists(media, m),
           NEW crops \in SUBSET Crops, NEW status \in {"new", "processing", "done", "failed"},
           \/ media' = [media EXCEPT ![m].status = status]
           \/ media' = [media EXCEPT ![m].crops = crops, ![m].status = status]
    PROVE  media' \in [MediaIds -> MediaRow \cup {NoRow}] /\ OneRowEach' /\ RowsAreInserted'
<1>1. media \in [MediaIds -> MediaRow \cup {NoRow}] /\ media[m] \in MediaRow
  BY DEF TypeInv, TypeOK, Exists
<1>2. \A row \in {[media[m] EXCEPT !.status = status], [media[m] EXCEPT !.crops = crops, !.status = status]} :
          row \in MediaRow /\ row.case = media[m].case /\ row.content = media[m].content
  BY <1>1 DEF MediaRow
<1>3. \/ media' = [media EXCEPT ![m] = [media[m] EXCEPT !.status = status]]
      \/ media' = [media EXCEPT ![m] = [media[m] EXCEPT !.crops = crops, !.status = status]]
  BY <1>1
<1>4. PICK row \in {[media[m] EXCEPT !.status = status], [media[m] EXCEPT !.crops = crops, !.status = status]} :
          media' = [media EXCEPT ![m] = row]
  BY <1>3
<1>5. row \in MediaRow /\ row.case = media[m].case /\ row.content = media[m].content
  BY <1>2, <1>4
<1>6. \A n \in MediaIds : media'[n] = IF n = m THEN row ELSE media[n]
  BY <1>1, <1>4
<1>7. media' = [n \in MediaIds |-> media'[n]]
  BY <1>1, <1>4
<1> QED
  BY <1>5, <1>6, <1>7, RowsTyped DEF Exists

LEMMA WorkerTypeStep ==
    ASSUME TypeInv, WorkerStep \/ WorkerCrash \/ ApiCrash
    PROVE  TypeInv'
<1> USE BoundsAssumption, NoneAssumption
<1>0. /\ disk \subseteq Digests /\ overlapped \subseteq Digests /\ left \subseteq Digests
      /\ media \in [MediaIds -> MediaRow \cup {NoRow}] /\ OneRowEach /\ RowsAreInserted
      /\ inserted \in 0..MaxMedia /\ request \in [Callers -> Request \cup {IdleRequest}]
      /\ RequestsHold /\ worker \in WorkerState \cup {IdleWorker} /\ crashes \in 0..MaxCrashes
      /\ Job \in Callers /\ worker.stored \subseteq Digests
  <2>1. worker.stored \subseteq Digests
    BY DEF TypeInv, TypeOK, WorkerState, IdleWorker, Digests
  <2> QED
    BY <2>1 DEF TypeInv, TypeOK, OneRowEach, Callers
<1>a. ASSUME UNCHANGED <<inserted, request>>
      PROVE  RequestsHold' /\ request' \in [Callers -> Request \cup {IdleRequest}]
  BY <1>0, <1>a DEF RequestsHold
<1>b. worker # IdleWorker => worker \in WorkerState
  BY <1>0
<1>1. ASSUME NEW m \in MediaIds, BeginProcess(m)
      PROVE  TypeInv'
  <2>1. /\ media[m].status = "new" /\ media' = [media EXCEPT ![m].status = "processing"]
        /\ worker' = [IdleWorker EXCEPT !.step = "reading", !.media = m, !.content = media[m].content]
        /\ UNCHANGED <<disk, inserted, request, crashes, overlapped, left>>
    BY <1>1 DEF BeginProcess, history
  <2>2. Exists(media, m) /\ media[m] \in MediaRow
    BY <1>0, <2>1 DEF Exists, NoRow
  <2>3. media' \in [MediaIds -> MediaRow \cup {NoRow}] /\ OneRowEach' /\ RowsAreInserted'
    BY <2>1, <2>2, RowTyped
  <2>4. worker' \in WorkerState
    BY <2>1, <2>2 DEF WorkerState, IdleWorker, MediaRow
  <2> QED
    BY <1>0, <1>a, <2>1, <2>3, <2>4 DEF TypeInv, TypeOK, OneRowEach
<1>2. CASE Decode
  <2>1. PICK found \in SUBSET CropsOf[worker.content] :
            worker' = [worker EXCEPT !.step = "storing", !.todo = found]
    BY <1>2 DEF Decode
  <2>2. worker \in WorkerState /\ UNCHANGED <<disk, media, inserted, request, crashes, overlapped, left>>
    BY <1>2, <1>b DEF Decode, IdleWorker, history
  <2>3. found \subseteq Crops
    BY <2>1, <2>2, CropsAssumption DEF WorkerState
  <2>4. worker' \in WorkerState
    BY <2>1, <2>2, <2>3 DEF WorkerState
  <2> QED
    BY <1>0, <1>a, <2>2, <2>4, RestTyped DEF TypeInv, TypeOK, OneRowEach
<1>3. CASE StoreCrop
  <2>1. PICK k \in worker.todo :
            /\ disk' = disk \cup {k}
            /\ worker' = [worker EXCEPT !.todo = @ \ {k}, !.stored = @ \cup {k}]
            /\ overlapped' = (overlapped \ {k}) \cup ({k} \cap Doomed)
            /\ left' = left \ {k}
    BY <1>3 DEF StoreCrop
  <2>2. worker \in WorkerState /\ UNCHANGED <<media, inserted, request, crashes>>
    BY <1>3, <1>b DEF StoreCrop, IdleWorker
  <2>3. k \in Crops /\ k \in Digests
    BY <2>1, <2>2 DEF WorkerState, Digests
  <2>4. worker' \in WorkerState
    BY <2>1, <2>2, <2>3 DEF WorkerState
  <2> QED
    BY <1>0, <1>a, <2>1, <2>2, <2>3, <2>4, RestTyped DEF TypeInv, TypeOK, OneRowEach
<1>4. CASE CommitDetections
  <2>1. /\ Exists(media, worker.media) /\ worker' = IdleWorker
        /\ media' = [media EXCEPT ![worker.media].crops = worker.stored, ![worker.media].status = "done"]
        /\ DropFaceless \/ UNCHANGED request
        /\ UNCHANGED <<disk, inserted, crashes, overlapped, left>>
    BY <1>4 DEF CommitDetections, history
  <2>2. worker.media \in MediaIds /\ worker.stored \subseteq Crops
    BY <1>4, <1>b DEF CommitDetections, IdleWorker, WorkerState
  <2>3. media' \in [MediaIds -> MediaRow \cup {NoRow}] /\ OneRowEach' /\ RowsAreInserted'
    BY <2>1, <2>2, RowTyped
  <2>4. RequestsHold' /\ request' \in [Callers -> Request \cup {IdleRequest}]
    <3>1. CASE DropFaceless
      <4> DEFINE r == [IdleRequest EXCEPT !.step = "next", !.rest = {worker.media}]
      <4>1. r \in Request /\ r.step = "next"
        BY <2>2 DEF Request, IdleRequest
      <4>2. request' = [request EXCEPT ![Job] = r]
        BY <3>1 DEF DropFaceless
      <4> HIDE DEF r
      <4> QED
        BY <1>0, <2>1, <4>1, <4>2, RequestMoves
    <3> QED
      BY <1>a, <2>1, <3>1
  <2> QED
    BY <1>0, <2>1, <2>3, <2>4 DEF TypeInv, TypeOK, OneRowEach
<1>5. CASE FailProcess
  <2>1. media' = MarkFailed(worker.media) /\ worker' = IdleWorker
        /\ left' = left \cup Unreferenced(media, worker.stored)
        /\ UNCHANGED <<disk, inserted, request, crashes, overlapped>>
    BY <1>5 DEF FailProcess
  <2>2. left' \subseteq Digests
    BY <1>0, <2>1 DEF Unreferenced
  <2>3. media' \in [MediaIds -> MediaRow \cup {NoRow}] /\ OneRowEach' /\ RowsAreInserted'
    BY <2>1, MarkTyped
  <2> QED
    BY <1>0, <1>a, <2>1, <2>2, <2>3 DEF TypeInv, TypeOK, OneRowEach
<1>6. CASE ApiCrash
  <2>1. /\ crashes' \in 0..MaxCrashes
        /\ request' = [q \in Callers |-> IF q = Job THEN request[Job] ELSE IdleRequest]
        /\ left' = left \cup Unreferenced(media, UNION {DoomedBy(q) \cup HeldBy(q) : q \in Requests})
        /\ UNCHANGED <<disk, media, inserted, worker, overlapped>>
    BY <1>0, <1>6 DEF ApiCrash
  <2>2. request' \in [Callers -> Request \cup {IdleRequest}]
    BY <1>0, <2>1
  <2>3. RequestsHold'
    BY <1>0, <2>1 DEF RequestsHold, IdleRequest
  <2>4. \A q \in Requests : DoomedBy(q) \subseteq Digests /\ HeldBy(q) \subseteq Digests
    <3> SUFFICES ASSUME NEW q \in Requests
                 PROVE  DoomedBy(q) \subseteq Digests /\ HeldBy(q) \subseteq Digests
      OBVIOUS
    <3>1. q \in Callers /\ request[q] \in Request \cup {IdleRequest}
      BY <1>0 DEF Callers
    <3>2. request[q].digests \subseteq Digests
      BY <3>1 DEF Request, IdleRequest
    <3>3. HeldBy(q) \subseteq Digests
      BY <1>0, <3>1 DEF HeldBy, RequestsHold, Digests
    <3> QED
      BY <3>2, <3>3 DEF DoomedBy
  <2>5. left' \subseteq Digests
    BY <1>0, <2>1, <2>4 DEF Unreferenced
  <2> QED
    BY <1>0, <2>1, <2>2, <2>3, <2>5, RestTyped DEF TypeInv, TypeOK, OneRowEach
<1>7. CASE WorkerCrash
  <2>1. /\ crashes' \in 0..MaxCrashes /\ worker' = IdleWorker
        /\ request' = [request EXCEPT ![Job] = IdleRequest]
        /\ left' = left \cup Unreferenced(media, worker.stored \cup DoomedBy(Job))
        /\ UNCHANGED <<disk, inserted, overlapped>>
    BY <1>0, <1>7 DEF WorkerCrash
  <2> DEFINE inHand == {m \in {worker.media, request[Job].media} \cup request[Job].rest :
                            m # 0 /\ Exists(media, m)}
  <2>2. media' = [m \in MediaIds |->
                     IF m \in inHand THEN [media[m] EXCEPT !.status = "new"] ELSE media[m]]
    BY <1>7 DEF WorkerCrash
  <2>3. ASSUME NEW m \in inHand, m \in MediaIds
        PROVE  /\ media[m] # NoRow /\ [media[m] EXCEPT !.status = "new"] \in MediaRow
               /\ [media[m] EXCEPT !.status = "new"].case = media[m].case
               /\ [media[m] EXCEPT !.status = "new"].content = media[m].content
    <3>1. media[m] # NoRow /\ media[m] \in MediaRow
      BY <1>0, <2>3 DEF Exists
    <3> QED
      BY <3>1 DEF MediaRow
  <2> HIDE DEF inHand
  <2>4. media' \in [MediaIds -> MediaRow \cup {NoRow}] /\ OneRowEach' /\ RowsAreInserted'
    BY <2>1, <2>2, <2>3, RowsTyped
  <2>5. request' \in [Callers -> Request \cup {IdleRequest}] /\ RequestsHold'
    BY <1>0, <2>1, RequestMoves DEF IdleRequest
  <2>6. left' \subseteq Digests
    <3>1. request[Job].digests \subseteq Digests
      BY <1>0 DEF Request, IdleRequest
    <3> QED
      BY <1>0, <2>1, <3>1 DEF Unreferenced, DoomedBy
  <2> QED
    BY <1>0, <2>1, <2>4, <2>5, <2>6 DEF TypeInv, TypeOK, OneRowEach
<1> QED
  BY <1>1, <1>2, <1>3, <1>4, <1>5, <1>6, <1>7 DEF WorkerStep

LEMMA TypeStep == TypeInv /\ [Next]_vars => TypeInv'
<1> SUFFICES ASSUME TypeInv, [Next]_vars PROVE TypeInv'
  OBVIOUS
<1>1. ASSUME NEW q \in Requests, NEW case \in Cases, NEW files \in SUBSET Contents,
             Register(q, case, files)
      PROVE  TypeInv'
  <2> DEFINE r == [IdleRequest EXCEPT !.step = "store", !.case = case, !.files = files]
  <2>1. q \in Callers /\ q # Job
    BY NoneAssumption DEF Callers
  <2>2. r \in Request /\ r.step = "store" /\ r.case = case
    BY DEF Request, IdleRequest
  <2>3. request' = [request EXCEPT ![q] = r]
        /\ UNCHANGED <<disk, media, inserted, worker, crashes, overlapped, left>>
    BY <1>1 DEF Register, history
  <2> HIDE DEF r
  <2>4. request' \in [Callers -> Request \cup {IdleRequest}] /\ RequestsHold'
    BY <2>1, <2>2, <2>3, RequestMoves
  <2> QED
    BY <2>3, <2>4, RestTyped DEF TypeInv, TypeOK, OneRowEach
<1>2. ASSUME NEW q \in Requests, NEW files \in SUBSET MediaIds, BeginDelete(q, files)
      PROVE  TypeInv'
  <2> DEFINE r == [IdleRequest EXCEPT !.step = "next", !.rest = files]
  <2>1. q \in Callers
    BY DEF Callers
  <2>2. r \in Request /\ r.step = "next"
    BY DEF Request, IdleRequest
  <2>3. request' = [request EXCEPT ![q] = r]
        /\ UNCHANGED <<disk, media, inserted, worker, crashes, overlapped, left>>
    BY <1>2 DEF BeginDelete, history
  <2> HIDE DEF r
  <2>4. request' \in [Callers -> Request \cup {IdleRequest}] /\ RequestsHold'
    BY <2>1, <2>2, <2>3, RequestMoves
  <2> QED
    BY <2>3, <2>4, RestTyped DEF TypeInv, TypeOK, OneRowEach
<1>3. CASE UNCHANGED vars
  BY <1>3 DEF vars, history, TypeInv, TypeOK, RequestsHold, RowsAreInserted, Exists
<1> QED
  BY <1>1, <1>2, <1>3, RequestTypeStep, WorkerTypeStep DEF Next, Upload, Import

(* Every variable keeps its type, and no two media rows of a case ever have the same *)
(* bytes, whatever registrations race: the row is looked up again in the insert's    *)
(* own transaction (ingest.py:125-186).                                              *)
THEOREM TypeCorrectness == Spec => []TypeOK
<1>1. Spec => []TypeInv
  BY TypeInit, TypeStep, PTL DEF Spec
<1>2. TypeInv => TypeOK
  BY DEF TypeInv
<1> QED
  BY <1>1, <1>2, PTL

-----------------------------------------------------------------------------
(* Who names, holds and is about to unlink some bytes.                      *)

Named(d) == Referenced(media, d)

HeldAt(q, d) == request[q].step \in {"stored", "insert"} /\ d = request[q].content

DoomedAt(q, d) == request[q].step = "unlink" /\ d \in request[q].digests

Kept(d) ==
    Named(d) \/ d \in Held => d \in disk \cup overlapped /\ (d \in Doomed => d \in overlapped)

Accounted(d) == d \in disk => Named(d) \/ d \in Held \/ d \in Doomed \/ d \in left

LEMMA Members ==
    ASSUME NEW d
    PROVE  /\ d \in Held <=> d \in worker.stored \/ \E q \in Requests : HeldAt(q, d)
           /\ d \in Doomed <=> \E q \in Callers : DoomedAt(q, d)
           /\ d \in Held' <=> d \in worker'.stored \/ \E q \in Requests : HeldAt(q, d)'
           /\ d \in Doomed' <=> \E q \in Callers : DoomedAt(q, d)'
  BY DEF Held, HeldBy, HeldAt, Doomed, DoomedBy, DoomedAt

\* A request that moves on changes what it holds and dooms, and nobody else's.
LEMMA RequestChanges ==
    ASSUME TypeInv, NEW q \in Callers, NEW r, request' = [request EXCEPT ![q] = r], NEW d
    PROVE  /\ \A p \in Callers : p # q => /\ HeldAt(p, d)' <=> HeldAt(p, d)
                                         /\ DoomedAt(p, d)' <=> DoomedAt(p, d)
           /\ HeldAt(q, d)' <=> r.step \in {"stored", "insert"} /\ d = r.content
           /\ DoomedAt(q, d)' <=> r.step = "unlink" /\ d \in r.digests
  BY DEF TypeInv, TypeOK, HeldAt, DoomedAt

\* Rows that keep their bytes name what they named.
LEMMA NamesStay ==
    ASSUME NEW d, \A m \in MediaIds : /\ media'[m] = NoRow <=> media[m] = NoRow
                                      /\ media'[m].content = media[m].content
                                      /\ media'[m].crops = media[m].crops
    PROVE  Named(d)' <=> Named(d)
  BY DEF Named, Referenced, Exists

LEMMA StatusNamesNothing ==
    ASSUME TypeInv, NEW d, NEW m, NEW status \in {"new", "processing", "done", "failed"},
           \/ UNCHANGED media
           \/ media' = MarkFailed(m)
           \/ Exists(media, m) /\ media' = [media EXCEPT ![m].status = status]
    PROVE  Named(d)' <=> Named(d)
<1>1. media \in [MediaIds -> MediaRow \cup {NoRow}]
  BY DEF TypeInv, TypeOK
<1>2. CASE UNCHANGED media
  BY <1>2, NamesStay
<1>3. ASSUME NEW s \in {"new", "processing", "done", "failed"}, Exists(media, m),
             media' = [media EXCEPT ![m].status = s]
      PROVE  Named(d)' <=> Named(d)
  <2>1. ASSUME NEW n \in MediaIds
        PROVE  /\ media'[n] = NoRow <=> media[n] = NoRow
               /\ media'[n].content = media[n].content
               /\ media'[n].crops = media[n].crops
    <3>1. CASE n = m
      <4>1. media[n] \in MediaRow /\ media'[n] = [media[n] EXCEPT !.status = s]
        BY <1>1, <1>3, <2>1, <3>1 DEF Exists
      <4>2. media'[n].status = s /\ media'[n].content = media[n].content
            /\ media'[n].crops = media[n].crops
        BY <4>1 DEF MediaRow
      <4>3. media'[n] # NoRow
        BY <4>2 DEF NoRow
      <4> QED
        BY <1>3, <3>1, <4>2, <4>3 DEF Exists
    <3>2. CASE n # m
      BY <1>1, <1>3, <2>1, <3>2
    <3> QED
      BY <3>1, <3>2
  <2> QED
    BY <2>1, NamesStay
<1>4. CASE media' = MarkFailed(m)
  BY <1>2, <1>3, <1>4 DEF MarkFailed
<1> QED
  BY <1>2, <1>3, <1>4

\* A step that neither stores, dooms nor unlinks these bytes, and leaves nobody's last
\* hold on them unrecorded.
LEMMA QuietStep ==
    ASSUME NEW d, Kept(d), Accounted(d),
           d \in disk' <=> d \in disk, d \in overlapped => d \in overlapped',
           Named(d)' \/ d \in Held' => Named(d) \/ d \in Held,
           d \in Doomed' => d \in Doomed, d \in left => d \in left',
           Named(d) \/ d \in Held \/ d \in Doomed =>
               Named(d)' \/ d \in Held' \/ d \in Doomed' \/ d \in left'
    PROVE  Kept(d)' /\ Accounted(d)'
  BY DEF Kept, Accounted

\* Registering: what a request stored it holds until a row names it.
LEMMA RegisterBytes ==
    ASSUME TypeInv, NEW q \in Callers, StoreFile(q) \/ LookUp(q) \/ InsertMedia(q),
           NEW d \in Digests, Kept(d), Accounted(d)
    PROVE  Kept(d)' /\ Accounted(d)'
<1> DEFINE r == request[q]
<1>0. /\ media \in [MediaIds -> MediaRow \cup {NoRow}] /\ inserted \in 0..MaxMedia
      /\ request \in [Callers -> Request \cup {IdleRequest}]
      /\ Requests \subseteq Callers /\ q \in Requests
      /\ r.step # "idle" => r \in Request
  <2>1. q # Job
    BY DEF TypeInv, RequestsHold, StoreFile, LookUp, InsertMedia
  <2> QED
    BY <2>1 DEF TypeInv, TypeOK, Callers, IdleRequest
<1>1. CASE StoreFile(q)
  <2>1. PICK content \in r.files :
            /\ disk' = disk \cup {content}
            /\ request' = [request EXCEPT ![q].step = "stored", ![q].content = content,
                                          ![q].files = @ \ {content}]
            /\ overlapped' = (overlapped \ {content}) \cup ({content} \cap Doomed)
            /\ left' = left \ {content}
    BY <1>1 DEF StoreFile
  <2> DEFINE onward == [r EXCEPT !.step = "stored", !.content = content, !.files = @ \ {content}]
  <2>2. r.step = "store" /\ r \in Request /\ UNCHANGED <<media, worker>>
    BY <1>0, <1>1 DEF StoreFile
  <2>3. onward.step = "stored" /\ onward.content = content
    BY <2>2 DEF Request
  <2>4. request' = [request EXCEPT ![q] = onward]
    BY <1>0, <2>1
  <2> HIDE DEF onward
  <2>5. /\ \A p \in Callers : p # q => /\ HeldAt(p, d)' <=> HeldAt(p, d)
                                       /\ DoomedAt(p, d)' <=> DoomedAt(p, d)
        /\ HeldAt(q, d)' <=> d = content
        /\ ~ DoomedAt(q, d)'
    <3> HIDE DEF r
    <3> QED
      BY <1>0, <2>3, <2>4 DEF HeldAt, DoomedAt
  <2>8. ~ DoomedAt(q, d) /\ ~ HeldAt(q, d)
    BY <2>2 DEF HeldAt, DoomedAt
  <2>6. Named(d)' <=> Named(d)
    BY <2>2, NamesStay
  <2>7. (d \in Doomed' <=> d \in Doomed) /\ (d \in Held' <=> d \in Held \/ d = content)
    BY <1>0, <2>2, <2>5, <2>8, Members
  <2> QED
    BY <2>1, <2>6, <2>7 DEF Kept, Accounted
<1>2. CASE LookUp(q)
  <2>1. r.step = "stored" /\ r \in Request /\ UNCHANGED <<disk, media, worker, overlapped>>
    BY <1>0, <1>2 DEF LookUp
  <2> DEFINE known == Rows(r.case, r.content) # {}
             refused == ~ known /\ r.content \notin Readable
             onward == IF refused /\ r.content \in Videos THEN IdleRequest
                       ELSE IF known \/ refused THEN NextFile(r) ELSE [r EXCEPT !.step = "insert"]
  <2>2. request' = [request EXCEPT ![q] = onward]
        /\ left' = IF refused THEN left \cup {r.content} ELSE left
    BY <1>2 DEF LookUp
  <2>3. \/ onward.step \in {"idle", "store"} /\ (known \/ refused)
        \/ onward.step = "insert" /\ onward.content = r.content
    <3>1. [r EXCEPT !.step = "insert"].step = "insert"
          /\ [r EXCEPT !.step = "insert"].content = r.content
      BY <2>1 DEF Request
    <3>2. IdleRequest.step = "idle"
      BY DEF IdleRequest
    <3> QED
      BY <2>1, <3>1, <3>2, NextIsTyped
  <2>4. known => Named(r.content)
    <3>1. r.content # None
      BY <2>1, NoneAssumption DEF TypeInv, RequestsHold
    <3> QED
      BY <3>1 DEF Rows, Named, Referenced, Exists, NoRow
  <2> HIDE DEF onward, known
  <2>5. /\ \A p \in Callers : p # q => /\ HeldAt(p, d)' <=> HeldAt(p, d)
                                       /\ DoomedAt(p, d)' <=> DoomedAt(p, d)
        /\ HeldAt(q, d)' => d = r.content
        /\ onward.step = "insert" => (HeldAt(q, d)' <=> d = r.content)
        /\ ~ DoomedAt(q, d)' /\ ~ DoomedAt(q, d) /\ (HeldAt(q, d) <=> d = r.content)
    BY <2>1, <2>2, <2>3, RequestChanges DEF HeldAt, DoomedAt
  <2>6. Named(d)' <=> Named(d)
    BY <2>1, NamesStay
  <2>7. /\ d \in Doomed' <=> d \in Doomed
        /\ d \in Held' => d \in Held
        /\ d \in Held /\ d \notin Held' => d = r.content /\ onward.step # "insert"
    BY <1>0, <2>1, <2>5, Members
  <2>8. d \in Held /\ d \notin Held' => Named(d) \/ d \in left'
    BY <2>2, <2>3, <2>4, <2>7
  <2>9. d \in left => d \in left'
    BY <2>2
  <2> QED
    BY <2>1, <2>6, <2>7, <2>8, <2>9, QuietStep
<1>3. CASE InsertMedia(q)
  <2>1. r.step = "insert" /\ r \in Request /\ request' = [request EXCEPT ![q] = NextFile(r)]
        /\ UNCHANGED <<disk, worker, overlapped, left>>
    BY <1>0, <1>3 DEF InsertMedia, history
  <2>2. NextFile(r).step \in {"idle", "store"}
    BY <2>1, NextIsTyped
  <2>3. /\ \A p \in Callers : p # q => /\ HeldAt(p, d)' <=> HeldAt(p, d)
                                       /\ DoomedAt(p, d)' <=> DoomedAt(p, d)
        /\ ~ HeldAt(q, d)' /\ ~ DoomedAt(q, d)'
    <3> HIDE DEF r
    <3> QED
      BY <1>0, <2>1, <2>2 DEF HeldAt, DoomedAt
  <2>6. (HeldAt(q, d) <=> d = r.content) /\ ~ DoomedAt(q, d)
    BY <2>1 DEF HeldAt, DoomedAt
  <2>4. /\ d \in Doomed' <=> d \in Doomed
        /\ d \in Held' => d \in Held
        /\ d \in Held /\ d \notin Held' => d = r.content
        /\ d = r.content => d \in Held
    BY <1>0, <2>1, <2>3, <2>6, Members
  <2>5. (Named(d) => Named(d)') /\ (Named(d)' => Named(d) \/ d = r.content)
        /\ (d = r.content => Named(d)')
    <3>1. r.content # None
      BY <2>1, NoneAssumption DEF TypeInv, RequestsHold
    <3>2. CASE Rows(r.case, r.content) # {}
      <4>1. UNCHANGED media
        BY <1>3, <3>2 DEF InsertMedia
      <4>2. d = r.content => Named(d)
        BY <3>1, <3>2 DEF Rows, Named, Referenced, Exists, NoRow
      <4>3. Named(d)' <=> Named(d)
        BY <4>1, NamesStay
      <4> QED
        BY <4>2, <4>3
    <3>3. CASE Rows(r.case, r.content) = {}
      <4> DEFINE row == [case |-> r.case, content |-> r.content, status |-> "new", crops |-> {}]
      <4>1. inserted < MaxMedia /\ media' = [media EXCEPT ![inserted + 1] = row]
        BY <1>3, <3>3 DEF InsertMedia
      <4>2. inserted + 1 \in MediaIds /\ media[inserted + 1] = NoRow
        BY <1>0, <4>1, BoundsAssumption DEF TypeInv, RowsAreInserted, Exists, MediaIds
      <4>3. row # NoRow /\ row.content = r.content /\ row.crops = {}
        BY <3>1 DEF NoRow
      <4> HIDE DEF row
      <4>4. \A m \in MediaIds : media'[m] = IF m = inserted + 1 THEN row ELSE media[m]
        BY <1>0, <4>1
      <4> QED
        BY <4>2, <4>3, <4>4 DEF Named, Referenced, Exists
    <3> QED
      BY <3>2, <3>3
  <2> QED
    BY <2>1, <2>4, <2>5, QuietStep
<1> QED
  BY <1>1, <1>2, <1>3


\* What a request dooms while it holds nothing.
LEMMA PurgeMoves ==
    ASSUME TypeInv, NEW q \in Callers, NEW r, request' = [request EXCEPT ![q] = r],
           UNCHANGED worker, request[q].step \notin {"stored", "insert"},
           r.step \notin {"stored", "insert"}, NEW d
    PROVE  /\ d \in Held' <=> d \in Held
           /\ d \in Doomed' <=> \/ r.step = "unlink" /\ d \in r.digests
                                \/ \E p \in Callers : p # q /\ DoomedAt(p, d)
           /\ d \in Doomed <=> DoomedAt(q, d) \/ \E p \in Callers : p # q /\ DoomedAt(p, d)
<1>1. Requests \subseteq Callers
  BY DEF Callers
<1>2. /\ \A p \in Callers : p # q => /\ HeldAt(p, d)' <=> HeldAt(p, d)
                                     /\ DoomedAt(p, d)' <=> DoomedAt(p, d)
      /\ ~ HeldAt(q, d)'
      /\ DoomedAt(q, d)' <=> r.step = "unlink" /\ d \in r.digests
  BY DEF TypeInv, TypeOK, HeldAt, DoomedAt
<1>3. ~ HeldAt(q, d)
  BY DEF HeldAt
<1>4. \A p \in Requests : HeldAt(p, d)' <=> HeldAt(p, d)
  BY <1>1, <1>2, <1>3
<1>5. \A p \in Callers : DoomedAt(p, d)' <=>
          IF p = q THEN r.step = "unlink" /\ d \in r.digests ELSE DoomedAt(p, d)
  BY <1>2
<1>6. d \in Held' <=> d \in Held
  BY <1>4, Members
<1>7. d \in Doomed' <=> \/ r.step = "unlink" /\ d \in r.digests
                        \/ \E p \in Callers : p # q /\ DoomedAt(p, d)
  BY <1>5, Members
<1>8. d \in Doomed <=> DoomedAt(q, d) \/ \E p \in Callers : p # q /\ DoomedAt(p, d)
  BY Members
<1> QED
  BY <1>6, <1>7, <1>8

\* A row that goes takes the names it gave, and no other row's.
LEMMA RowGoes ==
    ASSUME TypeInv, NEW m \in MediaIds, media' = [media EXCEPT ![m] = NoRow], NEW d
    PROVE  /\ Named(d)' => Named(d)
           /\ Named(d) /\ ~ Named(d)' =>
                 Exists(media, m) /\ (d = media[m].content \/ d \in media[m].crops)
<1>1. \A n \in MediaIds : media'[n] = IF n = m THEN NoRow ELSE media[n]
  BY DEF TypeInv, TypeOK
<1> QED
  BY <1>1 DEF Named, Referenced, Exists

\* Purging: what nobody names any more is doomed until it is unlinked, and what is held
\* meanwhile is known to be overlapped.
LEMMA PurgeBytes ==
    ASSUME TypeInv, PurgeHolds, NEW q \in Callers,
           ReadForPurge(q) \/ CommitPurge(q) \/ AbortPurge(q) \/ Unlink(q),
           NEW d \in Digests, Kept(d), Accounted(d)
    PROVE  Kept(d)' /\ Accounted(d)'
<1>i. IdleRequest.step = "idle"
  BY DEF IdleRequest
<1>0. request \in [Callers -> Request \cup {IdleRequest}]
      /\ request[q].step \in {"next", "purge", "unlink"} /\ request[q] \in Request
  BY <1>i DEF TypeInv, TypeOK, ReadForPurge, CommitPurge, AbortPurge, Unlink
<1>1. CASE ReadForPurge(q)
  <2>1. PICK m \in request[q].rest :
            request' = [request EXCEPT ![q] =
                IF Exists(media, m)
                THEN [[request[q] EXCEPT !.rest = @ \ {m}] EXCEPT !.step = "purge", !.media = m,
                         !.content = media[m].content,
                         !.digests = {media[m].content} \cup media[m].crops]
                ELSE IF [request[q] EXCEPT !.rest = @ \ {m}].rest = {} THEN IdleRequest
                     ELSE [request[q] EXCEPT !.rest = @ \ {m}]]
    BY <1>1 DEF ReadForPurge
  <2> DEFINE s == [request[q] EXCEPT !.rest = @ \ {m}]
             r == IF Exists(media, m)
                  THEN [s EXCEPT !.step = "purge", !.media = m, !.content = media[m].content,
                                 !.digests = {media[m].content} \cup media[m].crops]
                  ELSE IF s.rest = {} THEN IdleRequest ELSE s
  <2>2. request[q].step = "next"
        /\ UNCHANGED <<disk, media, worker, overlapped, left>>
    BY <1>1 DEF ReadForPurge, history
  <2>3. r.step \in {"purge", "idle", "next"}
    BY <1>0, <1>i, <2>2 DEF Request
  <2>4. request' = [request EXCEPT ![q] = r]
    BY <2>1
  <2> HIDE DEF r
  <2>5. (d \in Held' <=> d \in Held) /\ (d \in Doomed' <=> d \in Doomed)
    BY <2>2, <2>3, <2>4, PurgeMoves DEF DoomedAt
  <2>6. Named(d)' <=> Named(d)
    BY <2>2, NamesStay
  <2> QED
    BY <2>2, <2>5, <2>6, QuietStep
<1>2. CASE AbortPurge(q)
  <2>1. request[q].step = "purge" /\ request' = [request EXCEPT ![q] = IdleRequest]
        /\ (media' = MarkFailed(request[q].media) \/ UNCHANGED media)
        /\ UNCHANGED <<disk, worker, overlapped, left>>
    BY <1>2 DEF AbortPurge, history
  <2>2. (d \in Held' <=> d \in Held) /\ (d \in Doomed' <=> d \in Doomed)
    BY <1>i, <2>1, PurgeMoves DEF DoomedAt
  <2>3. Named(d)' <=> Named(d)
    BY <2>1, StatusNamesNothing
  <2> QED
    BY <2>1, <2>2, <2>3, QuietStep
<1>3. CASE CommitPurge(q)
  <2> DEFINE m == request[q].media
             rows == [media EXCEPT ![m] = NoRow]
             orphans == Orphans(rows, q)
             r == IF orphans = {} THEN Finished(request[q])
                  ELSE [request[q] EXCEPT !.step = "unlink", !.digests = orphans]
  <2>1. request[q].step = "purge" /\ media' = rows
        /\ request' = [request EXCEPT ![q] = r]
        /\ overlapped' = overlapped \cup (orphans \cap Held)
        /\ left' = left \cup Unreferenced(rows, media[m].crops \ request[q].digests)
        /\ UNCHANGED <<disk, worker>>
    BY <1>3 DEF CommitPurge
  <2>2. Finished(request[q]).step \in {"idle", "next"}
    BY <1>i DEF Finished, IdleRequest
  <2>3. \/ r.step = "unlink" /\ r.digests = orphans
        \/ r.step \in {"idle", "next"} /\ orphans = {}
    BY <1>0, <2>2 DEF Request
  <2>4. m \in MediaIds
    BY <1>0, <2>1, BoundsAssumption DEF TypeInv, TypeOK, RequestsHold, MediaIds
  <2>5. d \in orphans <=> d \in request[q].digests /\ ~ Named(d)'
    BY <2>1 DEF Orphans, Unreferenced, Named
  <2>6. d \in media[m].crops /\ d \notin request[q].digests /\ ~ Named(d)' => d \in left'
    BY <2>1 DEF Unreferenced, Named
  <2>7. Exists(media, m) => media[m].content \in request[q].digests
    BY <2>1 DEF PurgeHolds
  <2>8. (Named(d)' => Named(d))
        /\ (Named(d) /\ ~ Named(d)' => d \in orphans \/ d \in left')
    <3>1. media' = [media EXCEPT ![m] = NoRow]
      BY <2>1
    <3> HIDE DEF m, rows, orphans
    <3> QED
      BY <2>4, <2>5, <2>6, <2>7, <3>1, RowGoes
  <2> HIDE DEF r, orphans
  <2>9. (d \in Held' <=> d \in Held) /\ (d \in Doomed' <=> d \in Doomed \/ d \in orphans)
    BY <2>1, <2>3, PurgeMoves DEF DoomedAt
  <2> QED
    BY <2>1, <2>5, <2>8, <2>9 DEF Kept, Accounted
<1>4. CASE Unlink(q)
  <2>1. PICK u \in request[q].digests :
            /\ disk' = disk \ {u} /\ left' = left \ {u}
            /\ request' = [request EXCEPT ![q] =
                  IF [request[q] EXCEPT !.digests = @ \ {u}].digests = {}
                  THEN Finished([request[q] EXCEPT !.digests = @ \ {u}])
                  ELSE [request[q] EXCEPT !.digests = @ \ {u}]]
    BY <1>4 DEF Unlink
  <2> DEFINE s == [request[q] EXCEPT !.digests = @ \ {u}]
             r == IF s.digests = {} THEN Finished(s) ELSE s
  <2>2. request[q].step = "unlink" /\ UNCHANGED <<media, worker, overlapped>>
    BY <1>4 DEF Unlink
  <2>3. s.step = "unlink" /\ s.digests = request[q].digests \ {u}
    BY <1>0, <2>2 DEF Request
  <2>4. Finished(s).step \in {"idle", "next"}
    BY <1>i DEF Finished, IdleRequest
  <2>5. \/ r.step = "unlink" /\ r.digests = request[q].digests \ {u}
        \/ r.step \in {"idle", "next"} /\ request[q].digests \ {u} = {}
    BY <2>3, <2>4
  <2>6. request' = [request EXCEPT ![q] = r]
    BY <2>1
  <2> HIDE DEF r
  <2>7. /\ d \in Held' <=> d \in Held
        /\ d \in Doomed' => d \in Doomed
        /\ d \in Doomed /\ d # u => d \in Doomed'
        /\ u \in Doomed
    BY <2>1, <2>2, <2>5, <2>6, PurgeMoves DEF DoomedAt
  <2>8. Named(d)' <=> Named(d)
    BY <2>2, NamesStay
  <2> QED
    BY <2>1, <2>2, <2>7, <2>8 DEF Kept, Accounted
<1> QED
  BY <1>1, <1>2, <1>3, <1>4


\* The worker: what it stored it holds until its detections name it, or its failure is
\* recorded.
LEMMA WorkerBytes ==
    ASSUME TypeInv, CropsHold, WorkerStep, NEW d \in Digests, Kept(d), Accounted(d)
    PROVE  Kept(d)' /\ Accounted(d)'
<1>0. /\ media \in [MediaIds -> MediaRow \cup {NoRow}]
      /\ worker \in WorkerState \cup {IdleWorker}
      /\ request \in [Callers -> Request \cup {IdleRequest}]
      /\ Job \in Callers
  BY DEF TypeInv, TypeOK, Callers
<1>i. IdleWorker.stored = {} /\ IdleWorker.step = "idle" /\ IdleRequest.step = "idle"
  BY DEF IdleWorker, IdleRequest
\* A step of the worker alone.
<1>h. ASSUME UNCHANGED request
      PROVE  /\ d \in Doomed' <=> d \in Doomed
             /\ d \in Held /\ d \notin worker.stored => d \in Held'
             /\ d \in Held' => d \in Held \/ d \in worker'.stored
             /\ d \in worker'.stored => d \in Held'
  BY <1>h DEF Held, HeldBy, Doomed, DoomedBy
<1>1. ASSUME NEW m \in MediaIds, BeginProcess(m) PROVE Kept(d)' /\ Accounted(d)'
  <2>1. /\ worker = IdleWorker
        /\ media[m].status = "new" /\ media' = [media EXCEPT ![m].status = "processing"]
        /\ UNCHANGED <<disk, request, overlapped, left>>
    BY <1>1 DEF BeginProcess, history
  <2>2. worker'.stored = {}
    BY <1>1 DEF BeginProcess, IdleWorker
  <2>3. Exists(media, m)
    BY <2>1 DEF Exists, NoRow
  <2>4. Named(d)' <=> Named(d)
    BY <2>1, <2>3, StatusNamesNothing
  <2>5. (d \in Held' <=> d \in Held) /\ (d \in Doomed' <=> d \in Doomed)
    BY <1>h, <1>i, <2>1, <2>2
  <2> QED
    BY <2>1, <2>4, <2>5, QuietStep
<1>2. CASE Decode
  <2>1. UNCHANGED <<disk, media, request, overlapped, left>> /\ worker.step = "reading"
    BY <1>2 DEF Decode, history
  <2>2. worker \in WorkerState
    BY <1>0, <1>i, <2>1
  <2>3. worker'.stored = worker.stored
    BY <1>2, <2>2 DEF Decode, WorkerState
  <2>4. Named(d)' <=> Named(d)
    BY <2>1, NamesStay
  <2>5. (d \in Held' <=> d \in Held) /\ (d \in Doomed' <=> d \in Doomed)
    <3>1. d \in worker.stored => d \in Held
      BY DEF Held
    <3> QED
      BY <1>h, <2>1, <2>3, <3>1
  <2> QED
    BY <2>1, <2>4, <2>5, QuietStep
<1>3. CASE StoreCrop
  <2>1. PICK k \in worker.todo :
            /\ disk' = disk \cup {k}
            /\ worker' = [worker EXCEPT !.todo = @ \ {k}, !.stored = @ \cup {k}]
            /\ overlapped' = (overlapped \ {k}) \cup ({k} \cap Doomed)
            /\ left' = left \ {k}
    BY <1>3 DEF StoreCrop
  <2>2. UNCHANGED <<media, request>> /\ worker.step = "storing"
    BY <1>3 DEF StoreCrop
  <2>3. worker \in WorkerState
    BY <1>0, <1>i, <2>2
  <2>4. worker'.stored = worker.stored \cup {k}
    BY <2>1, <2>3 DEF WorkerState
  <2>5. Named(d)' <=> Named(d)
    BY <2>2, NamesStay
  <2>6. (d \in Held' <=> d \in Held \/ d = k) /\ (d \in Doomed' <=> d \in Doomed)
    <3>1. d \in worker.stored => d \in Held
      BY DEF Held
    <3> QED
      BY <1>h, <2>2, <2>4, <3>1
  <2> QED
    BY <2>1, <2>5, <2>6 DEF Kept, Accounted
<1>4. CASE CommitDetections
  <2> DEFINE m == worker.media
  <2>1. /\ worker.step = "storing" /\ Exists(media, m) /\ worker' = IdleWorker
        /\ media' = [media EXCEPT ![m].crops = worker.stored, ![m].status = "done"]
        /\ UNCHANGED <<disk, overlapped, left>>
    BY <1>4 DEF CommitDetections, history
  <2>2. worker # IdleWorker /\ worker \in WorkerState /\ m \in MediaIds
    BY <1>0, <1>i, <2>1 DEF WorkerState
  <2>3. media[m].crops = {} /\ request[Job] = IdleRequest
    BY <2>2 DEF CropsHold, InHand
  <2>4. (d \in Doomed' <=> d \in Doomed)
        /\ (d \in Held' => d \in Held) /\ (d \in Held => d \in Held' \/ d \in worker.stored)
    <3>1. d \in worker.stored => d \in Held
      BY DEF Held
    <3>2. CASE UNCHANGED request
      BY <1>h, <1>i, <2>1, <3>2
    <3>3. CASE DropFaceless
      <4> DEFINE r == [IdleRequest EXCEPT !.step = "next", !.rest = {worker.media}]
      <4>1. r.step = "next"
        BY DEF IdleRequest
      <4>2. request' = [request EXCEPT ![Job] = r]
        BY <3>3 DEF DropFaceless
      <4> HIDE DEF r
      <4>3. \A p \in Callers : p # Job => request'[p] = request[p]
        BY <1>0, <4>2
      <4>4. \A p \in Callers : DoomedBy(p)' = DoomedBy(p)
        <5>1. DoomedBy(Job) = {} /\ DoomedBy(Job)' = {}
          BY <1>0, <1>i, <2>3, <4>1, <4>2 DEF DoomedBy
        <5>2. \A p \in Callers : p # Job => DoomedBy(p)' = DoomedBy(p)
          BY <4>3 DEF DoomedBy
        <5> QED
          BY <5>1, <5>2
      <4>5. \A p \in Requests : HeldBy(p)' = HeldBy(p)
        BY <4>3, NoneAssumption DEF HeldBy, Callers
      <4> QED
        BY <1>i, <2>1, <4>4, <4>5 DEF Held, Doomed
    <3> QED
      BY <1>4, <3>2, <3>3 DEF CommitDetections
  <2>5. Named(d)' <=> Named(d) \/ d \in worker.stored
    <3> DEFINE row == [media[m] EXCEPT !.crops = worker.stored, !.status = "done"]
    <3>1. media[m] \in MediaRow
      BY <1>0, <2>1, <2>2 DEF Exists
    <3>2. row.crops = worker.stored /\ row.content = media[m].content /\ row.status = "done"
      BY <3>1 DEF MediaRow
    <3>3. row # NoRow
      BY <3>2 DEF NoRow
    <3>4. \A n \in MediaIds : media'[n] = IF n = m THEN row ELSE media[n]
      BY <1>0, <2>1
    <3> HIDE DEF row, m
    <3> QED
      BY <2>1, <2>2, <2>3, <3>2, <3>3, <3>4 DEF Named, Referenced, Exists
  <2>6. d \in worker.stored => d \in Held
    BY DEF Held
  <2> QED
    BY <2>1, <2>4, <2>5, <2>6, QuietStep
<1>5. CASE FailProcess
  <2>1. /\ media' = MarkFailed(worker.media) /\ worker' = IdleWorker
        /\ left' = left \cup Unreferenced(media, worker.stored)
        /\ UNCHANGED <<disk, request, overlapped>>
    BY <1>5 DEF FailProcess
  <2>2. Named(d)' <=> Named(d)
    BY <2>1, StatusNamesNothing
  <2>3. (d \in Doomed' <=> d \in Doomed) /\ (d \in Held' => d \in Held)
        /\ (d \in Held => d \in Held' \/ d \in worker.stored)
    BY <1>h, <1>i, <2>1
  <2>4. d \in worker.stored => Named(d) \/ d \in left'
    BY <2>1 DEF Unreferenced, Named
  <2> QED
    BY <2>1, <2>2, <2>3, <2>4, QuietStep
<1> QED
  BY <1>1, <1>2, <1>3, <1>4, <1>5 DEF WorkerStep

\* A crash records what it leaves behind.
LEMMA CrashBytes ==
    ASSUME TypeInv, ApiCrash \/ WorkerCrash, NEW d \in Digests, Kept(d), Accounted(d)
    PROVE  Kept(d)' /\ Accounted(d)'
<1>0. /\ request \in [Callers -> Request \cup {IdleRequest}] /\ Job \in Callers
      /\ Job \notin Requests /\ Callers = Requests \cup {Job}
      /\ media \in [MediaIds -> MediaRow \cup {NoRow}]
  BY NoneAssumption DEF TypeInv, TypeOK, Callers
<1>i. IdleWorker.stored = {} /\ IdleRequest.step = "idle"
  BY DEF IdleWorker, IdleRequest
<1>1. CASE ApiCrash
  <2>1. /\ request' = [q \in Callers |-> IF q = Job THEN request[Job] ELSE IdleRequest]
        /\ left' = left \cup
                Unreferenced(media, UNION {DoomedBy(q) \cup HeldBy(q) : q \in Requests})
        /\ UNCHANGED <<disk, media, worker, overlapped>>
    BY <1>1 DEF ApiCrash
  <2>2. Named(d)' <=> Named(d)
    BY <2>1, NamesStay
  <2>3. \A q \in Requests : HeldBy(q)' = {} /\ DoomedBy(q)' = {}
    BY <1>0, <1>i, <2>1 DEF HeldBy, DoomedBy
  <2>4. DoomedBy(Job)' = DoomedBy(Job)
    BY <1>0, <2>1 DEF DoomedBy
  <2>5. (d \in Held' <=> d \in worker.stored) /\ (d \in Doomed' <=> d \in DoomedBy(Job))
    BY <1>0, <2>1, <2>3, <2>4 DEF Held, Doomed
  <2>6. /\ d \in Held <=> d \in worker.stored \/ \E q \in Requests : d \in HeldBy(q)
        /\ d \in Doomed <=> d \in DoomedBy(Job) \/ \E q \in Requests : d \in DoomedBy(q)
    BY <1>0 DEF Held, Doomed
  <2>7. (\E q \in Requests : d \in DoomedBy(q) \cup HeldBy(q)) => Named(d) \/ d \in left'
    BY <2>1 DEF Unreferenced, Named
  <2> QED
    BY <2>1, <2>2, <2>5, <2>6, <2>7, QuietStep
<1>2. CASE WorkerCrash
  <2> DEFINE inHand == {m \in {worker.media, request[Job].media} \cup request[Job].rest :
                            m # 0 /\ Exists(media, m)}
  <2>1. /\ media' = [m \in MediaIds |->
               IF m \in inHand THEN [media[m] EXCEPT !.status = "new"] ELSE media[m]]
        /\ left' = left \cup Unreferenced(media, worker.stored \cup DoomedBy(Job))
        /\ worker' = IdleWorker
        /\ request' = [request EXCEPT ![Job] = IdleRequest]
        /\ UNCHANGED <<disk, overlapped>>
    BY <1>2 DEF WorkerCrash
  <2>2. Named(d)' <=> Named(d)
    <3>1. ASSUME NEW m \in MediaIds
          PROVE  /\ media'[m] = NoRow <=> media[m] = NoRow
                 /\ media'[m].content = media[m].content
                 /\ media'[m].crops = media[m].crops
      <4>1. CASE m \in inHand
        <5>1. media[m] \in MediaRow /\ media'[m] = [media[m] EXCEPT !.status = "new"]
          BY <1>0, <2>1, <4>1 DEF Exists
        <5>2. media'[m].status = "new" /\ media'[m].content = media[m].content
              /\ media'[m].crops = media[m].crops
          BY <5>1 DEF MediaRow
        <5>3. media'[m] # NoRow
          BY <5>2 DEF NoRow
        <5> QED
          BY <4>1, <5>2, <5>3 DEF Exists
      <4>2. CASE m \notin inHand
        BY <2>1, <4>2
      <4> QED
        BY <4>1, <4>2
    <3> QED
      BY <3>1, NamesStay
  <2>3. \A q \in Requests : HeldBy(q)' = HeldBy(q) /\ DoomedBy(q)' = DoomedBy(q)
    BY <1>0, <2>1 DEF HeldBy, DoomedBy
  <2>4. DoomedBy(Job)' = {}
    BY <1>0, <1>i, <2>1 DEF DoomedBy
  <2>5. /\ d \in Held' <=> \E q \in Requests : d \in HeldBy(q)
        /\ d \in Doomed' <=> \E q \in Requests : d \in DoomedBy(q)
    BY <1>0, <1>i, <2>1, <2>3, <2>4 DEF Held, Doomed
  <2>6. /\ d \in Held <=> d \in worker.stored \/ \E q \in Requests : d \in HeldBy(q)
        /\ d \in Doomed <=> d \in DoomedBy(Job) \/ \E q \in Requests : d \in DoomedBy(q)
    BY <1>0 DEF Held, Doomed
  <2>7. d \in worker.stored \cup DoomedBy(Job) => Named(d) \/ d \in left'
    BY <2>1 DEF Unreferenced, Named
  <2> QED
    BY <2>1, <2>2, <2>5, <2>6, <2>7, QuietStep
<1> QED
  BY <1>1, <1>2


-----------------------------------------------------------------------------
(* What a purge and the worker have in hand.                                *)

\* Rows a job marks keep what they name; only a job that starts again makes one new.
LEMMA MarkedRows ==
    ASSUME TypeInv, NEW k, media' = MarkFailed(k), NEW m \in MediaIds
    PROVE  /\ media'[m].crops = media[m].crops
           /\ media'[m].status = "new" => media[m].status = "new"
           /\ Exists(media, m)' => Exists(media, m) /\ media'[m].content = media[m].content
<1>1. CASE Exists(media, k) /\ m = k
  <2>1. media[m] \in MediaRow
    BY <1>1 DEF TypeInv, TypeOK, Exists
  <2>2. media'[m] = [media[m] EXCEPT !.status = "failed"]
    BY <1>1 DEF TypeInv, TypeOK, MarkFailed
  <2>3. media'[m].status = "failed" /\ media'[m].content = media[m].content
        /\ media'[m].crops = media[m].crops
    BY <2>1, <2>2 DEF MediaRow
  <2> QED
    BY <1>1, <2>3
<1>2. CASE ~ (Exists(media, k) /\ m = k)
  <2>1. media'[m] = media[m]
    BY <1>2 DEF TypeInv, TypeOK, MarkFailed
  <2> QED
    BY <2>1 DEF Exists
<1> QED
  BY <1>1, <1>2

\* A row keeps its original; a request's step takes crops only away.
LEMMA RequestRows ==
    ASSUME TypeInv, NEW q \in Callers, RequestStep(q), NEW m \in MediaIds
    PROVE  /\ media'[m].crops \in {media[m].crops, {}}
           /\ media'[m].status = "new" => media[m].status = "new" \/ media'[m].crops = {}
           /\ m \in 1..inserted /\ Exists(media, m)' =>
                 Exists(media, m) /\ media'[m].content = media[m].content
<1>1. media \in [MediaIds -> MediaRow \cup {NoRow}] /\ inserted \in Nat
  BY BoundsAssumption DEF TypeInv, TypeOK
<1>2. CASE UNCHANGED media
  BY <1>2 DEF Exists
<1>3. CASE InsertMedia(q)
  <2> DEFINE row == [case |-> request[q].case, content |-> request[q].content,
                     status |-> "new", crops |-> {}]
  <2>1. CASE media' = [media EXCEPT ![inserted + 1] = row]
    <3>1. media'[m] = IF m = inserted + 1 THEN row ELSE media[m]
      BY <1>1, <2>1
    <3>2. row.crops = {} /\ row.status = "new"
      OBVIOUS
    <3> HIDE DEF row
    <3> QED
      BY <1>1, <3>1, <3>2 DEF Exists
  <2> QED
    BY <1>2, <1>3, <2>1 DEF InsertMedia
<1>4. CASE CommitPurge(q)
  <2>1. media' = [media EXCEPT ![request[q].media] = NoRow]
    BY <1>4 DEF CommitPurge
  <2>2. media'[m] = NoRow \/ media'[m] = media[m]
    BY <1>1, <2>1
  <2>3. NoRow.crops = {} /\ NoRow.status = "none"
    BY DEF NoRow
  <2> QED
    BY <2>2, <2>3 DEF Exists
<1>5. CASE AbortPurge(q)
  <2>1. media' = MarkFailed(request[q].media) \/ UNCHANGED media
    BY <1>5 DEF AbortPurge
  <2> QED
    BY <1>2, <2>1, MarkedRows
<1> QED
  BY <1>2, <1>3, <1>4, <1>5
     DEF RequestStep, StoreFile, LookUp, ReadForPurge, Unlink

\* A request's step is its own: it goes on with the files it has.
LEMMA RequestHands ==
    ASSUME TypeInv, NEW q \in Callers, RequestStep(q)
    PROVE  /\ UNCHANGED worker /\ request[q] # IdleRequest
           /\ \A p \in Callers : p # q => request'[p] = request[p]
           /\ request'[q].step = "purge" => ReadForPurge(q)
           /\ request'[q].media \in {0, request[q].media} \cup request[q].rest
           /\ request'[q].rest \subseteq request[q].rest
<1>i. IdleRequest.step = "idle" /\ IdleRequest.media = 0 /\ IdleRequest.rest = {}
  BY DEF IdleRequest
<1>0. /\ request \in [Callers -> Request \cup {IdleRequest}]
      /\ request[q].step # "idle" /\ request[q] \in Request
  BY <1>i DEF TypeInv, TypeOK, RequestStep, StoreFile, LookUp, InsertMedia, ReadForPurge,
              CommitPurge, AbortPurge, Unlink
<1> DEFINE OnlyMoves(r) == r.step # "purge" /\ r.media \in {0, request[q].media}
                           /\ r.rest \subseteq request[q].rest
<1>n. ASSUME NEW r PROVE OnlyMoves(NextFile(r))
  BY <1>i DEF NextFile, IdleRequest
<1>f. ASSUME NEW r, r.rest \subseteq request[q].rest PROVE OnlyMoves(Finished(r))
  BY <1>i, <1>f DEF Finished, IdleRequest
<1>m. ASSUME NEW r, OnlyMoves(r), request' = [request EXCEPT ![q] = r]
      PROVE  /\ \A p \in Callers : p # q => request'[p] = request[p]
             /\ request'[q].step = "purge" => ReadForPurge(q)
             /\ request'[q].media \in {0, request[q].media} \cup request[q].rest
             /\ request'[q].rest \subseteq request[q].rest
  BY <1>0, <1>m
<1>1. CASE StoreFile(q)
  <2>1. PICK content \in request[q].files :
            request' = [request EXCEPT ![q].step = "stored", ![q].content = content,
                                       ![q].files = @ \ {content}]
    BY <1>1 DEF StoreFile
  <2> DEFINE r == [request[q] EXCEPT !.step = "stored", !.content = content,
                                     !.files = @ \ {content}]
  <2>2. request' = [request EXCEPT ![q] = r]
    BY <1>0, <2>1
  <2>3. OnlyMoves(r)
    BY <1>0 DEF Request
  <2> HIDE DEF r, OnlyMoves
  <2> QED
    BY <1>0, <1>i, <1>1, <1>m, <2>2, <2>3 DEF StoreFile
<1>2. CASE LookUp(q)
  <2> DEFINE ahead == [request[q] EXCEPT !.step = "insert"]
  <2>1. \/ request' = [request EXCEPT ![q] = IdleRequest]
        \/ request' = [request EXCEPT ![q] = NextFile(request[q])]
        \/ request' = [request EXCEPT ![q] = ahead]
    BY <1>2 DEF LookUp
  <2>2. OnlyMoves(ahead) /\ OnlyMoves(IdleRequest)
    BY <1>0, <1>i DEF Request
  <2> HIDE DEF ahead, OnlyMoves
  <2> QED
    BY <1>0, <1>i, <1>2, <1>m, <1>n, <2>1, <2>2 DEF LookUp
<1>3. CASE InsertMedia(q)
  <2>1. request' = [request EXCEPT ![q] = NextFile(request[q])]
    BY <1>3 DEF InsertMedia
  <2> HIDE DEF OnlyMoves
  <2> QED
    BY <1>0, <1>i, <1>3, <1>m, <1>n, <2>1 DEF InsertMedia
<1>4. CASE ReadForPurge(q)
  <2>1. PICK m \in request[q].rest :
            request' = [request EXCEPT ![q] =
                IF Exists(media, m)
                THEN [[request[q] EXCEPT !.rest = @ \ {m}] EXCEPT !.step = "purge", !.media = m,
                         !.content = media[m].content,
                         !.digests = {media[m].content} \cup media[m].crops]
                ELSE IF [request[q] EXCEPT !.rest = @ \ {m}].rest = {} THEN IdleRequest
                     ELSE [request[q] EXCEPT !.rest = @ \ {m}]]
    BY <1>4 DEF ReadForPurge
  <2> DEFINE s == [request[q] EXCEPT !.rest = @ \ {m}]
             r == IF Exists(media, m)
                  THEN [s EXCEPT !.step = "purge", !.media = m, !.content = media[m].content,
                                 !.digests = {media[m].content} \cup media[m].crops]
                  ELSE IF s.rest = {} THEN IdleRequest ELSE s
  <2>2. r.media \in {0, request[q].media} \cup request[q].rest
        /\ r.rest \subseteq request[q].rest
    BY <1>0, <1>i DEF Request
  <2>3. request' = [request EXCEPT ![q] = r]
    BY <2>1
  <2> HIDE DEF r
  <2>4. UNCHANGED worker
    BY <1>4 DEF ReadForPurge
  <2> QED
    BY <1>0, <1>i, <1>4, <2>2, <2>3, <2>4
<1>5. CASE CommitPurge(q)
  <2>1. \/ request' = [request EXCEPT ![q] = Finished(request[q])]
        \/ \E o : request' = [request EXCEPT ![q] =
                      [request[q] EXCEPT !.step = "unlink", !.digests = o]]
    BY <1>5 DEF CommitPurge
  <2>2. \A o : OnlyMoves([request[q] EXCEPT !.step = "unlink", !.digests = o])
    BY <1>0 DEF Request
  <2>3. OnlyMoves(Finished(request[q]))
    BY <1>f
  <2> HIDE DEF OnlyMoves
  <2> QED
    BY <1>0, <1>i, <1>5, <1>m, <2>1, <2>2, <2>3 DEF CommitPurge
<1>6. CASE AbortPurge(q)
  <2>1. request' = [request EXCEPT ![q] = IdleRequest] /\ OnlyMoves(IdleRequest)
    BY <1>i, <1>6 DEF AbortPurge
  <2> HIDE DEF OnlyMoves
  <2> QED
    BY <1>0, <1>i, <1>6, <1>m, <2>1 DEF AbortPurge
<1>7. CASE Unlink(q)
  <2>1. PICK d \in request[q].digests : request' = [request EXCEPT ![q] =
            IF [request[q] EXCEPT !.digests = @ \ {d}].digests = {}
            THEN Finished([request[q] EXCEPT !.digests = @ \ {d}])
            ELSE [request[q] EXCEPT !.digests = @ \ {d}]]
    BY <1>7 DEF Unlink
  <2> DEFINE s == [request[q] EXCEPT !.digests = @ \ {d}]
  <2>2. s.step = "unlink" /\ s.media = request[q].media /\ s.rest = request[q].rest
    BY <1>0, <1>7 DEF Request, Unlink
  <2>3. request' = [request EXCEPT ![q] = s] \/ request' = [request EXCEPT ![q] = Finished(s)]
    BY <2>1
  <2> HIDE DEF s
  <2>4. OnlyMoves(s) /\ OnlyMoves(Finished(s))
    BY <1>f, <2>2
  <2> HIDE DEF OnlyMoves
  <2> QED
    BY <1>0, <1>i, <1>7, <1>m, <2>3, <2>4 DEF Unlink
<1> QED
  BY <1>1, <1>2, <1>3, <1>4, <1>5, <1>6, <1>7 DEF RequestStep


\* The original of the row a purge is about to delete is among what it read.
LEMMA PurgeHoldsStep == TypeInv /\ PurgeHolds /\ [Next]_vars => PurgeHolds'
<1> SUFFICES ASSUME TypeInv, PurgeHolds, [Next]_vars,
                    NEW p \in Callers, request'[p].step = "purge",
                    Exists(media, request[p].media)'
             PROVE  media'[request'[p].media].content \in request'[p].digests
  BY DEF PurgeHolds
<1>0. /\ media \in [MediaIds -> MediaRow \cup {NoRow}]
      /\ request \in [Callers -> Request \cup {IdleRequest}]
      /\ inserted \in 0..MaxMedia /\ IdleRequest.step = "idle"
  BY DEF TypeInv, TypeOK, IdleRequest
\* Whoever was about to delete a row still is, and the row keeps its original.
<1>s. ASSUME request'[p] = request[p],
             \A m \in MediaIds : m \in 1..inserted /\ Exists(media, m)' =>
                 Exists(media, m) /\ media'[m].content = media[m].content
      PROVE  media'[request'[p].media].content \in request'[p].digests
  <2>1. request[p].media \in 1..inserted /\ request[p].media \in MediaIds
    BY <1>0, <1>s, BoundsAssumption DEF TypeInv, RequestsHold, MediaIds
  <2>2. Exists(media, request[p].media)
        /\ media'[request[p].media].content = media[request[p].media].content
    BY <1>s, <2>1 DEF Exists
  <2> QED
    BY <1>s, <2>2 DEF PurgeHolds
<1>1. ASSUME NEW q \in Callers, RequestStep(q)
      PROVE  media'[request'[p].media].content \in request'[p].digests
  <2>1. CASE p # q
    BY <1>1, <1>s, <2>1, RequestHands, RequestRows
  <2>2. CASE p = q
    <3>1. ReadForPurge(q)
      BY <1>1, <2>2, RequestHands
    <3>2. PICK m \in request[q].rest :
            request' = [request EXCEPT ![q] =
                IF Exists(media, m)
                THEN [[request[q] EXCEPT !.rest = @ \ {m}] EXCEPT !.step = "purge", !.media = m,
                         !.content = media[m].content,
                         !.digests = {media[m].content} \cup media[m].crops]
                ELSE IF [request[q] EXCEPT !.rest = @ \ {m}].rest = {} THEN IdleRequest
                     ELSE [request[q] EXCEPT !.rest = @ \ {m}]]
      BY <3>1 DEF ReadForPurge
    <3>3. request[q] \in Request /\ request[q].step = "next" /\ UNCHANGED media
      BY <1>0, <3>1 DEF ReadForPurge
    <3> DEFINE s == [request[q] EXCEPT !.rest = @ \ {m}]
               r == [s EXCEPT !.step = "purge", !.media = m, !.content = media[m].content,
                              !.digests = {media[m].content} \cup media[m].crops]
    <3>4. s.step = "next"
      BY <3>3 DEF Request
    <3>5. r.media = m /\ r.digests = {media[m].content} \cup media[m].crops
      BY <3>3 DEF Request
    <3>6. request'[q] \in {r, s, IdleRequest}
      BY <1>0, <3>2
    <3> HIDE DEF r, s
    <3>7. request'[q] = r
      BY <1>0, <2>2, <3>4, <3>6
    <3> QED
      BY <2>2, <3>3, <3>5, <3>7
  <2> QED
    BY <2>1, <2>2
<1>2. ASSUME NEW q \in Requests, NEW r, request' = [request EXCEPT ![q] = r],
             r.step \in {"store", "next"}, UNCHANGED media
      PROVE  media'[request'[p].media].content \in request'[p].digests
  <2>1. p # q
    BY <1>0, <1>2 DEF Callers
  <2> QED
    BY <1>0, <1>2, <1>s, <2>1 DEF Exists
<1>3. ASSUME NEW q \in Requests, NEW case \in Cases, NEW files \in SUBSET Contents,
             Register(q, case, files)
      PROVE  media'[request'[p].media].content \in request'[p].digests
  <2> DEFINE r == [IdleRequest EXCEPT !.step = "store", !.case = case, !.files = files]
  <2>1. r.step = "store"
    BY DEF IdleRequest
  <2>2. request' = [request EXCEPT ![q] = r] /\ UNCHANGED media
    BY <1>3 DEF Register
  <2> HIDE DEF r
  <2> QED
    BY <1>2, <2>1, <2>2
<1>4. ASSUME NEW q \in Requests, NEW files \in SUBSET MediaIds, BeginDelete(q, files)
      PROVE  media'[request'[p].media].content \in request'[p].digests
  <2> DEFINE r == [IdleRequest EXCEPT !.step = "next", !.rest = files]
  <2>1. r.step = "next"
    BY DEF IdleRequest
  <2>2. request' = [request EXCEPT ![q] = r] /\ UNCHANGED media
    BY <1>4 DEF BeginDelete
  <2> HIDE DEF r
  <2> QED
    BY <1>2, <2>1, <2>2
<1>5. CASE WorkerStep
  <2>1. ASSUME NEW k, NEW row, k \in MediaIds => row.content = media[k].content,
               Exists(media, k), media' = [media EXCEPT ![k] = row], NEW m \in MediaIds
        PROVE  Exists(media, m)' => Exists(media, m) /\ media'[m].content = media[m].content
    BY <1>0, <2>1 DEF Exists
  <2>2. \A m \in MediaIds : Exists(media, m)' =>
            Exists(media, m) /\ media'[m].content = media[m].content
    <3>1. ASSUME NEW k \in MediaIds, BeginProcess(k), NEW m \in MediaIds
          PROVE  Exists(media, m)' => Exists(media, m) /\ media'[m].content = media[m].content
      <4> DEFINE row == [media[k] EXCEPT !.status = "processing"]
      <4>1. media' = [media EXCEPT ![k] = row] /\ Exists(media, k)
        BY <3>1 DEF BeginProcess, Exists, NoRow
      <4>2. row.content = media[k].content
        BY <1>0, <4>1 DEF Exists, MediaRow
      <4> HIDE DEF row
      <4> QED
        BY <2>1, <4>1, <4>2
    <3>2. CASE Decode \/ StoreCrop
      BY <3>2 DEF Decode, StoreCrop, Exists
    <3>3. ASSUME CommitDetections, NEW m \in MediaIds
          PROVE  Exists(media, m)' => Exists(media, m) /\ media'[m].content = media[m].content
      <4> DEFINE k == worker.media
                 row == [media[k] EXCEPT !.crops = worker.stored, !.status = "done"]
      <4>1. media' = [media EXCEPT ![k] = row] /\ Exists(media, k)
        <5>1. Exists(media, k)
              /\ media' = [media EXCEPT ![k].crops = worker.stored, ![k].status = "done"]
          BY <3>3 DEF CommitDetections
        <5> QED
          BY <1>0, <5>1
      <4>2. k \in MediaIds => row.content = media[k].content
        BY <1>0, <4>1 DEF Exists, MediaRow
      <4> HIDE DEF row, k
      <4> QED
        BY <2>1, <4>1, <4>2
    <3>4. CASE FailProcess
      <4>1. media' = MarkFailed(worker.media)
        BY <3>4 DEF FailProcess
      <4> QED
        BY <4>1, MarkedRows
    <3> QED
      BY <1>5, <3>1, <3>2, <3>3, <3>4 DEF WorkerStep
  <2>3. request'[p] = request[p]
    <3>1. UNCHANGED request \/ DropFaceless
      BY <1>5 DEF WorkerStep, BeginProcess, Decode, StoreCrop, CommitDetections, FailProcess
    <3>2. CASE DropFaceless
      <4> DEFINE r == [IdleRequest EXCEPT !.step = "next", !.rest = {worker.media}]
      <4>1. r.step = "next"
        BY DEF IdleRequest
      <4>2. request' = [request EXCEPT ![Job] = r]
        BY <3>2 DEF DropFaceless
      <4> HIDE DEF r
      <4> QED
        BY <1>0, <4>1, <4>2
    <3> QED
      BY <3>1, <3>2
  <2> QED
    BY <1>s, <2>2, <2>3
<1>6. CASE ApiCrash
  BY <1>0, <1>6, <1>s DEF ApiCrash, Exists
<1>7. CASE WorkerCrash
  <2> DEFINE inHand == {m \in {worker.media, request[Job].media} \cup request[Job].rest :
                            m # 0 /\ Exists(media, m)}
  <2>1. /\ media' = [m \in MediaIds |->
               IF m \in inHand THEN [media[m] EXCEPT !.status = "new"] ELSE media[m]]
        /\ request' = [request EXCEPT ![Job] = IdleRequest]
    BY <1>7 DEF WorkerCrash
  <2>2. ASSUME NEW m \in MediaIds
        PROVE  Exists(media, m)' => Exists(media, m) /\ media'[m].content = media[m].content
    <3>1. CASE m \in inHand
      <4>1. media[m] \in MediaRow /\ media'[m] = [media[m] EXCEPT !.status = "new"]
        BY <1>0, <2>1, <3>1 DEF Exists
      <4> QED
        BY <3>1, <4>1 DEF MediaRow
    <3>2. CASE m \notin inHand
      BY <2>1, <3>2 DEF Exists
    <3> QED
      BY <3>1, <3>2
  <2>3. request'[p] = request[p]
    BY <1>0, <2>1
  <2> QED
    BY <1>s, <2>2, <2>3
<1>8. CASE UNCHANGED vars
  BY <1>8, <1>s DEF vars, Exists
<1> QED
  BY <1>1, <1>3, <1>4, <1>5, <1>6, <1>7, <1>8 DEF Next, Upload, Import


\* What the worker and its purge have in hand, and what waits to be processed, has no
\* crops yet.
LEMMA CropsHoldStep == TypeInv /\ CropsHold /\ [Next]_vars => CropsHold'
<1> SUFFICES ASSUME TypeInv, CropsHold, [Next]_vars PROVE CropsHold'
  OBVIOUS
<1>0. /\ media \in [MediaIds -> MediaRow \cup {NoRow}]
      /\ request \in [Callers -> Request \cup {IdleRequest}]
      /\ worker \in WorkerState \cup {IdleWorker}
      /\ Job \in Callers /\ Job \notin Requests /\ 0 \notin MediaIds
  BY BoundsAssumption, NoneAssumption DEF TypeInv, TypeOK, Callers, MediaIds
<1>i. /\ IdleRequest.step = "idle" /\ IdleRequest.media = 0 /\ IdleRequest.rest = {}
      /\ IdleWorker.step = "idle" /\ IdleWorker.media = 0
      /\ NoRow.crops = {} /\ NoRow.status = "none"
  BY DEF IdleRequest, IdleWorker, NoRow
<1>s. ASSUME worker' # IdleWorker => request'[Job] = IdleRequest,
             InHand' \cap MediaIds \subseteq InHand,
             \A m \in MediaIds :
                 /\ media'[m].crops \in {media[m].crops, {}}
                 /\ media'[m].status = "new" => media[m].status = "new" \/ media'[m].crops = {}
      PROVE  CropsHold'
  BY <1>s DEF CropsHold
<1>1. ASSUME NEW q \in Callers, RequestStep(q) PROVE CropsHold'
  <2>1. InHand' \cap MediaIds \subseteq InHand
    <3>1. CASE q = Job
      BY <1>0, <1>1, <3>1, RequestHands DEF InHand
    <3>2. CASE q # Job
      BY <1>0, <1>1, <3>2, RequestHands DEF InHand
    <3> QED
      BY <3>1, <3>2
  <2>2. worker' # IdleWorker => request'[Job] = IdleRequest
    BY <1>0, <1>1, RequestHands DEF CropsHold
  <2> QED
    BY <1>1, <1>s, <2>1, <2>2, RequestRows
<1>2. ASSUME NEW q \in Requests, NEW r, request' = [request EXCEPT ![q] = r],
             UNCHANGED <<media, worker>>
      PROVE  CropsHold'
  <2>1. request'[Job] = request[Job]
    BY <1>0, <1>2
  <2> QED
    BY <1>2, <1>s, <2>1 DEF InHand, CropsHold
<1>3. CASE WorkerStep
  <2>1. ASSUME NEW k \in MediaIds, BeginProcess(k) PROVE CropsHold'
    <3> DEFINE row == [media[k] EXCEPT !.status = "processing"]
    <3>1. /\ media' = [media EXCEPT ![k] = row] /\ media[k].status = "new"
          /\ request[Job] = IdleRequest /\ UNCHANGED request
      BY <2>1 DEF BeginProcess
    <3>2. row.crops = media[k].crops /\ row.status = "processing"
      BY <1>0, <1>i, <3>1 DEF MediaRow
    <3>3. worker'.media = k
      BY <2>1 DEF BeginProcess, IdleWorker
    <3>4. media[k].crops = {}
      BY <3>1 DEF CropsHold
    <3> HIDE DEF row
    <3>5. \A m \in MediaIds : media'[m] = IF m = k THEN row ELSE media[m]
      BY <1>0, <3>1
    <3>6. \A m \in MediaIds : m \in InHand' => m = k
      BY <1>0, <1>i, <3>1, <3>3 DEF InHand
    <3> QED
      BY <3>1, <3>2, <3>4, <3>5, <3>6 DEF CropsHold
  <2>2. CASE Decode \/ StoreCrop
    <3>1. worker # IdleWorker /\ UNCHANGED <<media, request>>
      BY <1>i, <2>2 DEF Decode, StoreCrop
    <3>2. worker'.media = worker.media
      BY <1>0, <2>2, <3>1 DEF Decode, StoreCrop, WorkerState
    <3> QED
      BY <1>s, <3>1, <3>2 DEF InHand, CropsHold
  <2>3. CASE CommitDetections
    <3> DEFINE k == worker.media
               row == [media[k] EXCEPT !.crops = worker.stored, !.status = "done"]
    <3>1. /\ Exists(media, k) /\ worker.step = "storing" /\ worker' = IdleWorker
          /\ media' = [media EXCEPT ![k].crops = worker.stored, ![k].status = "done"]
          /\ UNCHANGED request \/ DropFaceless
      BY <2>3 DEF CommitDetections
    <3>2. worker # IdleWorker /\ worker \in WorkerState /\ k \in MediaIds
      BY <1>0, <1>i, <3>1 DEF WorkerState
    <3>3. media' = [media EXCEPT ![k] = row]
      BY <1>0, <3>1, <3>2
    <3>4. row.crops = worker.stored /\ row.status = "done"
      BY <1>0, <3>1, <3>2 DEF Exists, MediaRow
    <3>5. request[Job] = IdleRequest
      BY <3>2 DEF CropsHold
    <3>6. \A m \in MediaIds : m \in InHand' => m = k /\ worker.stored = {}
      <4>1. CASE UNCHANGED request
        BY <1>0, <1>i, <3>1, <3>5, <4>1 DEF InHand
      <4>2. CASE DropFaceless
        <5>1. request'[Job].media = 0 /\ request'[Job].rest = {k} /\ worker.stored = {}
          BY <1>0, <4>2 DEF DropFaceless, IdleRequest
        <5> HIDE DEF k
        <5> QED
          BY <1>0, <1>i, <3>1, <5>1 DEF InHand
      <4> QED
        BY <3>1, <4>1, <4>2
    <3> HIDE DEF row, k
    <3>7. \A m \in MediaIds : media'[m] = IF m = k THEN row ELSE media[m]
      BY <1>0, <3>3
    <3> QED
      BY <3>1, <3>4, <3>6, <3>7 DEF CropsHold
  <2>4. CASE FailProcess
    <3>1. media' = MarkFailed(worker.media) /\ worker' = IdleWorker /\ UNCHANGED request
          /\ worker # IdleWorker
      BY <2>4 DEF FailProcess
    <3>2. InHand' \cap MediaIds \subseteq InHand
      BY <1>0, <1>i, <3>1 DEF InHand
    <3> QED
      BY <1>s, <3>1, <3>2, MarkedRows
  <2> QED
    BY <1>3, <2>1, <2>2, <2>3, <2>4 DEF WorkerStep
<1>4. CASE ApiCrash
  <2>1. request'[Job] = request[Job] /\ UNCHANGED <<media, worker>>
    BY <1>0, <1>4 DEF ApiCrash
  <2> QED
    BY <1>s, <2>1 DEF InHand, CropsHold
<1>5. CASE WorkerCrash
  <2> DEFINE inHand == {m \in {worker.media, request[Job].media} \cup request[Job].rest :
                            m # 0 /\ Exists(media, m)}
  <2>1. /\ media' = [m \in MediaIds |->
               IF m \in inHand THEN [media[m] EXCEPT !.status = "new"] ELSE media[m]]
        /\ request' = [request EXCEPT ![Job] = IdleRequest] /\ worker' = IdleWorker
    BY <1>5 DEF WorkerCrash
  <2>2. InHand' \cap MediaIds = {}
    BY <1>0, <1>i, <2>1 DEF InHand
  <2>3. ASSUME NEW m \in MediaIds, media'[m].status = "new" PROVE media'[m].crops = {}
    <3>1. CASE m \in inHand
      <4>1. media[m] \in MediaRow /\ media'[m] = [media[m] EXCEPT !.status = "new"]
        BY <1>0, <2>1, <3>1 DEF Exists
      <4>2. media[m].crops = {}
        BY <3>1 DEF CropsHold, InHand
      <4> QED
        BY <4>1, <4>2 DEF MediaRow
    <3>2. CASE m \notin inHand
      BY <2>1, <2>3, <3>2 DEF CropsHold
    <3> QED
      BY <3>1, <3>2
  <2> QED
    BY <1>0, <2>1, <2>2, <2>3 DEF CropsHold
<1>6. CASE UNCHANGED vars
  BY <1>6, <1>s DEF vars, InHand, CropsHold
<1>7. ASSUME NEW q \in Requests, NEW case \in Cases, NEW files \in SUBSET Contents,
             Register(q, case, files)
      PROVE  CropsHold'
  BY <1>2, <1>7 DEF Register
<1>8. ASSUME NEW q \in Requests, NEW files \in SUBSET MediaIds, BeginDelete(q, files)
      PROVE  CropsHold'
  BY <1>2, <1>8 DEF BeginDelete
<1> QED
  BY <1>1, <1>3, <1>4, <1>5, <1>6, <1>7, <1>8 DEF Next, Upload, Import

-----------------------------------------------------------------------------
(* The bytes.                                                               *)

\* A request that begins holds and dooms nothing.
LEMMA BeginBytes ==
    ASSUME TypeInv, NEW q \in Requests, NEW r, request' = [request EXCEPT ![q] = r],
           request[q] = IdleRequest, r.step \in {"store", "next"},
           UNCHANGED <<disk, media, worker, overlapped, left>>,
           NEW d \in Digests, Kept(d), Accounted(d)
    PROVE  Kept(d)' /\ Accounted(d)'
<1>1. q \in Callers /\ request[q].step = "idle"
  BY DEF Callers, IdleRequest
<1>2. (d \in Held' <=> d \in Held) /\ (d \in Doomed' <=> d \in Doomed)
  BY <1>1, PurgeMoves DEF DoomedAt
<1>3. Named(d)' <=> Named(d)
  BY NamesStay
<1> QED
  BY <1>2, <1>3, QuietStep

LEMMA BytesStep ==
    ASSUME TypeInv, PurgeHolds, CropsHold, [Next]_vars, NEW d \in Digests, Kept(d), Accounted(d)
    PROVE  Kept(d)' /\ Accounted(d)'
<1>1. ASSUME NEW q \in Callers, RequestStep(q) PROVE Kept(d)' /\ Accounted(d)'
  BY <1>1, RegisterBytes, PurgeBytes DEF RequestStep
<1>2. ASSUME NEW q \in Requests, NEW case \in Cases, NEW files \in SUBSET Contents,
             Register(q, case, files)
      PROVE  Kept(d)' /\ Accounted(d)'
  <2> DEFINE r == [IdleRequest EXCEPT !.step = "store", !.case = case, !.files = files]
  <2>1. r.step = "store"
    BY DEF IdleRequest
  <2>2. request[q] = IdleRequest /\ request' = [request EXCEPT ![q] = r]
        /\ UNCHANGED <<disk, media, worker, overlapped, left>>
    BY <1>2 DEF Register, history
  <2> HIDE DEF r
  <2> QED
    BY <2>1, <2>2, BeginBytes
<1>3. ASSUME NEW q \in Requests, NEW files \in SUBSET MediaIds, BeginDelete(q, files)
      PROVE  Kept(d)' /\ Accounted(d)'
  <2> DEFINE r == [IdleRequest EXCEPT !.step = "next", !.rest = files]
  <2>1. r.step = "next"
    BY DEF IdleRequest
  <2>2. request[q] = IdleRequest /\ request' = [request EXCEPT ![q] = r]
        /\ UNCHANGED <<disk, media, worker, overlapped, left>>
    BY <1>3 DEF BeginDelete, history
  <2> HIDE DEF r
  <2> QED
    BY <2>1, <2>2, BeginBytes
<1>4. CASE UNCHANGED vars
  BY <1>4 DEF vars, history, Kept, Accounted, Named, Referenced, Exists, Held, HeldBy,
              Doomed, DoomedBy
<1> QED
  BY <1>1, <1>2, <1>3, <1>4, WorkerBytes, CrashBytes DEF Next, Upload, Import

LEMMA StoreInvInit == Init => StoreInv
<1> SUFFICES ASSUME Init PROVE StoreInv
  OBVIOUS
<1>1. TypeInv
  BY TypeInit
<1>2. \A m \in MediaIds : ~ Exists(media, m) /\ media[m].crops = {}
  BY DEF Init, Exists, NoRow
<1>3. Held = {}
  BY DEF Init, Held, HeldBy, IdleWorker, IdleRequest, Callers
<1>4. disk = {} /\ \A q \in Callers : request[q].step = "idle"
  BY DEF Init, IdleRequest
<1>5. worker = IdleWorker
  BY DEF Init
<1> QED
  BY <1>1, <1>2, <1>3, <1>4, <1>5
     DEF StoreInv, KeptInv, Referenced, PurgeHolds, CropsHold, NothingLeftBehind

LEMMA StoreInvStep == StoreInv /\ [Next]_vars => StoreInv'
<1> SUFFICES ASSUME StoreInv, [Next]_vars PROVE StoreInv'
  OBVIOUS
<1>1. TypeInv /\ PurgeHolds /\ CropsHold
  BY DEF StoreInv
<1>2. TypeInv' /\ PurgeHolds' /\ CropsHold'
  BY <1>1, TypeStep, PurgeHoldsStep, CropsHoldStep
<1>3. \A d \in Digests : Kept(d) /\ Accounted(d)
  BY DEF StoreInv, KeptInv, NothingLeftBehind, Kept, Accounted, Named
<1>4. \A d \in Digests : Kept(d)' /\ Accounted(d)'
  BY <1>1, <1>3, BytesStep
<1>5. disk' \subseteq Digests
  BY <1>2 DEF TypeInv, TypeOK
<1>6. KeptInv'
  BY <1>4 DEF KeptInv, Kept, Named
<1>7. NothingLeftBehind'
  BY <1>4, <1>5 DEF NothingLeftBehind, Accounted, Named
<1> QED
  BY <1>2, <1>6, <1>7 DEF StoreInv

LEMMA StoreInvariant == Spec => []StoreInv
  BY StoreInvInit, StoreInvStep, PTL DEF Spec

(* A purge, a delete of the same bytes in another case, a rollback or a crash of  *)
(* either process never takes the bytes a row names; only a purge of the same     *)
(* bytes that overlaps the step between storing them and naming them does         *)
(* (purge.py:310-355, ingest.py:102-135, process.py:134-175).                     *)
THEOREM NamedBytesAreKept == Spec => []BytesKept
<1>1. StoreInv => BytesKept
  BY DEF StoreInv, KeptInv, BytesKept
<1> QED
  BY <1>1, StoreInvariant, PTL

(* Bytes on disk are named by a row, on their way to a row or about to be unlinked, *)
(* unless one of the known ways of leaving bytes behind was their last              *)
(* (purge.py:279-287, ingest.py:125-186).                                           *)
THEOREM BytesAreAccountedFor == Spec => []NothingLeftBehind
<1>1. StoreInv => NothingLeftBehind
  BY DEF StoreInv
<1> QED
  BY <1>1, StoreInvariant, PTL
=============================================================================
