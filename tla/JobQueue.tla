----------------------------- MODULE JobQueue -----------------------------
(***************************************************************************)
(* The job queue, the worker that drains it, and the media rows jobs are   *)
(* about: jobs.py, worker.py, pipeline/ingest.py and the still-image path  *)
(* of pipeline/process.py.                                                 *)
(*                                                                         *)
(* Requests of the API process register files in several steps (look the   *)
(* bytes up, insert the row, queue its job), the one worker process claims *)
(* the oldest queued job and commits its work in several transactions, and *)
(* either process may die between any two of them.  A job is its place in  *)
(* the queue's history: created_at orders jobs, and a requeued job keeps   *)
(* its place.                                                              *)
(***************************************************************************)
EXTENDS Integers, Sequences

CONSTANTS
    Contents,       \* file bytes, within one case
    Requests,       \* API requests that may be in flight at once
    MaxMedia,       \* bound: media rows ever inserted
    MaxJobs,        \* bound: jobs ever queued
    MaxCrashes,     \* bound: crashes of either process
    None

ASSUME BoundsAssumption == MaxMedia \in Nat /\ MaxJobs \in Nat /\ MaxCrashes \in Nat
ASSUME NoneAssumption == None \notin Contents

MediaIds == 1..MaxMedia
JobIds == 1..MaxJobs

VARIABLES
    media,        \* the rows of media, by id
    inserted,     \* how many media ids were ever handed out
    jobs,         \* the rows of jobs, oldest first
    request,      \* what each API request is in the middle of
    worker,       \* where the worker is in run_once, the job it claimed, and
                  \* whether the detector found a face
    crashes,
    stores,       \* history: how often a media row's tracks were written
    orphaned,     \* history: media a crash left between two transactions
    interrupted   \* history: media whose tracks a crash or an abort left unmatched

history == <<stores, orphaned, interrupted>>
vars == <<media, inserted, jobs, request, worker, crashes, history>>

-----------------------------------------------------------------------------
NoRow == [content |-> None, status |-> "none", stored |-> FALSE, matched |-> FALSE]

\* A media row: stored says its tracks are in the database, matched that they
\* were scored against the gallery.
MediaRow == [content : Contents, status : {"new", "processing", "done", "failed"},
             stored : BOOLEAN, matched : BOOLEAN]

Job == [kind : {"process", "rematch"}, media : MediaIds \cup {0}, facesOnly : BOOLEAN,
        status : {"queued", "running", "done", "failed"}]

IdleRequest == [step |-> "idle", content |-> None, facesOnly |-> FALSE, media |-> 0]

Request == [step : {"insert", "reuse", "enqueue"}, content : Contents \cup {None},
            facesOnly : BOOLEAN, media : MediaIds \cup {0}]

IdleWorker == [step |-> "idle", job |-> 0, faces |-> FALSE]

WorkerSteps == {"claimed", "working", "matching", "dropping", "finishing", "failing"}

TypeOK ==
    /\ media \in [MediaIds -> MediaRow \cup {NoRow}]
    /\ inserted \in 0..MaxMedia
    /\ jobs \in Seq(Job) /\ Len(jobs) <= MaxJobs
    /\ request \in [Requests -> Request \cup {IdleRequest}]
    /\ worker \in [step : WorkerSteps \cup {"idle", "marking", "down"},
                    job : JobIds \cup {0}, faces : BOOLEAN]
    /\ crashes \in 0..MaxCrashes
    /\ stores \in [MediaIds -> Nat]
    /\ orphaned \subseteq MediaIds
    /\ interrupted \subseteq MediaIds

Init ==
    /\ media = [m \in MediaIds |-> NoRow]
    /\ inserted = 0
    /\ jobs = << >>
    /\ request = [q \in Requests |-> IdleRequest]
    /\ worker = IdleWorker
    /\ crashes = 0
    /\ stores = [m \in MediaIds |-> 0]
    /\ orphaned = {}
    /\ interrupted = {}

Exists(m) == m \in MediaIds /\ media[m] # NoRow

-----------------------------------------------------------------------------
(* Registering files.                                                       *)

\* _find_media: the row with these bytes, unique within the case; 0 for none.
FindMedia(c) ==
    LET rows == {m \in MediaIds : media[m].content = c}
    IN  IF rows = {} THEN 0 ELSE CHOOSE m \in rows : TRUE

\* The request now has the row m to go on with, rather than the bytes.
HasRow(q, step, m, facesOnly) ==
    request' = [request EXCEPT ![q] =
        [step |-> step, content |-> None, facesOnly |-> facesOnly, media |-> m]]

\* ingest_file up to its transaction: the bytes are stored and looked up.
BeginIngest(q, c, facesOnly) ==
    /\ request[q] = IdleRequest
    /\ IF FindMedia(c) = 0
       THEN request' = [request EXCEPT ![q] =
                [step |-> "insert", content |-> c, facesOnly |-> facesOnly, media |-> 0]]
       ELSE HasRow(q, "reuse", FindMedia(c), FALSE)
    /\ UNCHANGED <<media, inserted, jobs, worker, crashes, history>>

\* The insert, or the row another request won the race with.
InsertMedia(q) ==
    /\ request[q].step = "insert"
    /\ IF FindMedia(request[q].content) # 0
       THEN /\ HasRow(q, "reuse", FindMedia(request[q].content), FALSE)
            /\ UNCHANGED <<media, inserted>>
       ELSE /\ inserted < MaxMedia
            /\ inserted' = inserted + 1
            /\ media' = [media EXCEPT ![inserted + 1] =
                   [NoRow EXCEPT !.content = request[q].content, !.status = "new"]]
            /\ HasRow(q, "enqueue", inserted + 1, request[q].facesOnly)
    /\ UNCHANGED <<jobs, worker, crashes, history>>

ProcessJobs(m) == {j \in DOMAIN jobs : jobs[j].kind = "process" /\ jobs[j].media = m}

\* _process_job_for: report the newest job whatever became of it, or queue one.
\* The fallback job does not carry faces_only.
ReuseMedia(q) ==
    /\ request[q].step = "reuse"
    /\ request' = [request EXCEPT ![q] =
           IF ProcessJobs(request[q].media) # {} THEN IdleRequest
           ELSE [@ EXCEPT !.step = "enqueue"]]
    /\ UNCHANGED <<media, inserted, jobs, worker, crashes, history>>

\* jobs.insert: queued, behind every job so far.
Insert(kind, m, facesOnly) ==
    /\ Len(jobs) < MaxJobs
    /\ jobs' = Append(jobs, [kind |-> kind, media |-> m, facesOnly |-> facesOnly,
                             status |-> "queued"])

EnqueueProcess(q) ==
    /\ request[q].step = "enqueue"
    /\ Insert("process", request[q].media, request[q].facesOnly)
    /\ request' = [request EXCEPT ![q] = IdleRequest]
    /\ UNCHANGED <<media, inserted, worker, crashes, history>>

\* POST /api/jobs/rematch and every gallery change's follow-up.
EnqueueRematch ==
    /\ Insert("rematch", 0, FALSE)
    /\ UNCHANGED <<media, inserted, request, worker, crashes, history>>

\* DELETE /api/media/{id}: the row and its tracks go, its jobs stay.
DeleteMedia(m) ==
    /\ Exists(m)
    /\ media' = [media EXCEPT ![m] = NoRow]
    /\ UNCHANGED <<inserted, jobs, request, worker, crashes, history>>

\* The API process dies with its requests.
ApiCrash ==
    /\ crashes < MaxCrashes
    /\ crashes' = crashes + 1
    /\ request' = [q \in Requests |-> IdleRequest]
    /\ orphaned' = orphaned \cup
           {request[q].media : q \in {r \in Requests : request[r].step \in {"enqueue", "reuse"}}}
    /\ UNCHANGED <<media, inserted, jobs, worker, stores, interrupted>>

-----------------------------------------------------------------------------
(* The worker: run_once, and what handle_process and handle_rematch commit. *)

\* Mutant: failed jobs are picked up again.
QueuedOrFailed == {j \in DOMAIN jobs : jobs[j].status \in {"queued", "failed"}}

Queued == {j \in DOMAIN jobs : jobs[j].status = "queued"}

SetStatus(j, status) == jobs' = [jobs EXCEPT ![j].status = status]

Claimed == jobs[worker.job]

\* The media row the claimed process job is about.
ItsMedia == Claimed.media

WorkerMoves(from, to) ==
    /\ worker.step = from
    /\ worker' = IF to = "idle" THEN IdleWorker ELSE [worker EXCEPT !.step = to]
    /\ UNCHANGED <<inserted, request, crashes, orphaned>>

\* claim_next: the oldest queued job.
ClaimNext ==
    /\ worker.step = "idle"
    /\ \E j \in Queued :
          /\ \A other \in Queued : j <= other
          /\ SetStatus(j, "running")
          /\ worker' = [step |-> "claimed", job |-> j, faces |-> FALSE]
    /\ UNCHANGED <<media, inserted, request, crashes, history>>

\* Mutant: what is stored is told from the media row's status.
AlreadyDone(m) == media[m].status = "done"

\* process_image finds tracks already stored and returns their counts.
AlreadyStored(m) == media[m].stored

BeginProcess ==
    /\ worker.step = "claimed"
    /\ Claimed.kind = "process"
    /\ Exists(ItsMedia) /\ ~ AlreadyStored(ItsMedia)
    /\ \E faces \in BOOLEAN : worker' = [worker EXCEPT !.step = "working", !.faces = faces]
    /\ media' = [media EXCEPT ![ItsMedia].status = "processing"]
    /\ UNCHANGED <<inserted, jobs, request, crashes, history>>

ReturnEarly ==
    /\ WorkerMoves("claimed", "finishing")
    /\ Claimed.kind = "process"
    /\ Exists(ItsMedia) /\ AlreadyStored(ItsMedia)
    /\ UNCHANGED <<media, jobs, stores, interrupted>>

BeginRematch ==
    /\ WorkerMoves("claimed", "matching")
    /\ Claimed.kind = "rematch"
    /\ UNCHANGED <<media, jobs, stores, interrupted>>

\* An exception before anything is written: the media is gone, a model file
\* moved, the image does not decode.
FailEarly ==
    /\ \/ WorkerMoves("claimed", "failing")
       \/ WorkerMoves("working", "failing")
    /\ UNCHANGED <<media, jobs, stores, interrupted>>

\* process_image's second transaction.  A media row deleted meanwhile makes the
\* insert of a track fail, and with no face to insert nothing notices.
StoreTracks ==
    /\ WorkerMoves("working", "matching")
    /\ Exists(ItsMedia)
    /\ media' = [media EXCEPT ![ItsMedia].status = "done", ![ItsMedia].stored = worker.faces]
    /\ stores' = [stores EXCEPT ![ItsMedia] = IF worker.faces THEN @ + 1 ELSE @]
    /\ UNCHANGED <<jobs, interrupted>>

StoreNothing ==
    /\ WorkerMoves("working", "matching")
    /\ ~ Exists(ItsMedia) /\ ~ worker.faces
    /\ UNCHANGED <<media, jobs, stores, interrupted>>

\* Mutant: only a rematch job scores anything.
InScopeOfRematch(m) == Claimed.kind = "rematch"

\* rematch: a process job scores its own tracks, a rematch job scores all there are.
InScope(m) == IF Claimed.kind = "process" THEN m = ItsMedia ELSE TRUE

\* A faces-only import of a file without a face drops the file again.
DropsMedia == Claimed.kind = "process" /\ Claimed.facesOnly /\ ~ worker.faces

Match ==
    /\ worker.step = "matching"
    /\ WorkerMoves("matching", IF DropsMedia THEN "dropping" ELSE "finishing")
    /\ media' = [m \in MediaIds |->
           IF InScope(m) /\ media[m].stored THEN [media[m] EXCEPT !.matched = TRUE]
           ELSE media[m]]
    /\ UNCHANGED <<jobs, stores, interrupted>>

\* Rows the scoring read were purged before its transaction: it rolls back.
AbortMatch ==
    /\ WorkerMoves("matching", "failing")
    /\ interrupted' = IF Claimed.kind = "process" THEN interrupted \cup {ItsMedia}
                      ELSE interrupted
    /\ UNCHANGED <<media, jobs, stores>>

\* Mutant: the drop leaves half a row behind.
DropContentOnly ==
    /\ worker.step = "dropping"
    /\ WorkerMoves("dropping", IF Exists(ItsMedia) THEN "finishing" ELSE "failing")
    /\ media' = IF Exists(ItsMedia) THEN [media EXCEPT ![ItsMedia].content = None] ELSE media
    /\ UNCHANGED <<jobs, stores, interrupted>>

\* purge_media, with the reason "no faces at import".
DropMedia ==
    /\ worker.step = "dropping"
    /\ WorkerMoves("dropping", IF Exists(ItsMedia) THEN "finishing" ELSE "failing")
    /\ media' = IF Exists(ItsMedia) THEN [media EXCEPT ![ItsMedia] = NoRow] ELSE media
    /\ UNCHANGED <<jobs, stores, interrupted>>

FinishDone ==
    /\ WorkerMoves("finishing", "idle")
    /\ SetStatus(worker.job, "done")
    /\ UNCHANGED <<media, stores, interrupted>>

\* Mutant: the job fails and its media is left as it was.
FinishFailedOnly ==
    /\ WorkerMoves("failing", "idle")
    /\ SetStatus(worker.job, "failed")
    /\ UNCHANGED <<media, stores, interrupted>>

\* run_once's except branch: the job fails in one transaction, its media in another.
FinishFailed ==
    /\ worker.step = "failing"
    /\ WorkerMoves("failing", IF Claimed.kind = "process" THEN "marking" ELSE "idle")
    /\ SetStatus(worker.job, "failed")
    /\ UNCHANGED <<media, stores, interrupted>>

MarkFailed ==
    /\ WorkerMoves("marking", "idle")
    /\ media' = IF Exists(ItsMedia) THEN [media EXCEPT ![ItsMedia].status = "failed"]
                ELSE media
    /\ UNCHANGED <<jobs, stores, interrupted>>

WorkerCrash ==
    /\ crashes < MaxCrashes
    /\ crashes' = crashes + 1
    /\ worker.step # "down"
    /\ worker' = [worker EXCEPT !.step = "down"]
    /\ orphaned' = IF worker.step = "marking" THEN orphaned \cup {ItsMedia} ELSE orphaned
    /\ interrupted' = IF worker.step = "matching" /\ Claimed.kind = "process"
                      THEN interrupted \cup {ItsMedia} ELSE interrupted
    /\ UNCHANGED <<media, inserted, jobs, request, stores>>

\* Mutant: the worker starts without requeuing anything.
RequeueNothing ==
    /\ WorkerMoves("down", "idle")
    /\ UNCHANGED <<media, jobs, stores, interrupted>>

\* requeue_running at worker startup: what a killed worker left goes back in place.
RequeueRunning ==
    /\ WorkerMoves("down", "idle")
    /\ jobs' = [j \in DOMAIN jobs |->
           IF jobs[j].status = "running" THEN [jobs[j] EXCEPT !.status = "queued"]
           ELSE jobs[j]]
    /\ UNCHANGED <<media, stores, interrupted>>

-----------------------------------------------------------------------------
WorkerStep ==
    \/ ClaimNext \/ BeginProcess \/ ReturnEarly \/ BeginRematch \/ FailEarly
    \/ StoreTracks \/ StoreNothing \/ Match \/ AbortMatch \/ DropMedia
    \/ FinishDone \/ FinishFailed \/ MarkFailed \/ RequeueRunning

RequestStep ==
    \/ \E q \in Requests : InsertMedia(q) \/ ReuseMedia(q) \/ EnqueueProcess(q)

Next ==
    \/ \E q \in Requests, c \in Contents, facesOnly \in BOOLEAN : BeginIngest(q, c, facesOnly)
    \/ RequestStep
    \/ EnqueueRematch
    \/ \E m \in MediaIds : DeleteMedia(m)
    \/ WorkerStep
    \/ WorkerCrash
    \/ ApiCrash

Spec == Init /\ [][Next]_vars

\* The loop of Worker.run: while a job is queued the worker goes on, and a worker
\* that died is started again.
FairSpec == Spec /\ WF_vars(WorkerStep)

-----------------------------------------------------------------------------
(* Properties.                                                              *)

(* The queue is a queue: it implements OneWorkerQueue, in which jobs run one   *)
(* at a time and oldest first, settle for good, and are queued again by a     *)
(* restart alone, whatever is read, crashes and is requeued in between        *)
(* (jobs.py:108-224, worker.py:160-229).                                      *)
StatusOf(j) == IF j \in DOMAIN jobs THEN jobs[j].status ELSE "absent"

Promised == INSTANCE OneWorkerQueue WITH status <- [j \in JobIds |-> StatusOf(j)]

KeepsThePromise == Promised!Spec

Settled(j) == jobs[j].status \in {"done", "failed"}

(* At most one job says 'running', and it is the one in the worker's hands or *)
(* in those of a worker that died: what makes requeue_running safe, which     *)
(* takes every 'running' row for a dead worker's (jobs.py:139-141).           *)
RunningIsClaimed ==
    \A j \in DOMAIN jobs : jobs[j].status = "running" =>
        j = worker.job /\ worker.step \in WorkerSteps \cup {"down"}

(* However often a file is registered again, its jobs doubled by racing        *)
(* requests or requeued after a crash, its tracks are written once: a second  *)
(* set would be a second face for every face (process.py:103-113).            *)
StoredOnce == \A m \in MediaIds : stores[m] <= 1

(* A file in the library that is not processed yet has somebody left to        *)
(* process it: a job, a request about to queue one, or the worker about to    *)
(* mark it failed.  Except for a file some crash left in between, which       *)
(* nothing ever picks up again (ingest.py:125-186, worker.py:212-229).        *)
UnderWay(m) ==
    \/ \E j \in ProcessJobs(m) : ~ Settled(j)
    \/ \E q \in Requests : request[q].media = m /\ request[q].step = "enqueue"
    \/ worker.step = "marking" /\ ItsMedia = m

MediaAccounted ==
    \A m \in MediaIds \ orphaned : media[m].status \in {"new", "processing"} => UnderWay(m)

(* A file whose processing is over leaves no stored track unmatched, unless a  *)
(* crash or an abort hit its matching (process.py:86-267).                    *)
ProcessedIsMatched ==
    \A m \in MediaIds \ interrupted :
        media[m].stored /\ (\A j \in ProcessJobs(m) : Settled(j)) => media[m].matched

(* The same after a job that reports it is done, crash or no crash: decode      *)
(* through acceptance, without leaving a tracks-only intermediate result      *)
(* (the promise of process.py:94).  It fails.                                 *)
NoTracksOnlyResult ==
    \A j \in DOMAIN jobs :
        jobs[j].kind = "process" /\ jobs[j].status = "done" /\ media[jobs[j].media].stored
            => media[jobs[j].media].matched

(* Every job that is queued is done or failed in the end, whoever crashes      *)
(* meanwhile: nothing stays 'running' for ever (jobs.py:144-146).             *)
EveryJobSettles == \A j \in JobIds : j \in DOMAIN jobs ~> (j \in DOMAIN jobs /\ Settled(j))
=============================================================================
