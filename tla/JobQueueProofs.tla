--------------------------- MODULE JobQueueProofs ---------------------------
(***************************************************************************)
(* The job queue module for any number of files, requests, jobs and         *)
(* crashes: its types, its queue against OneWorkerQueue, and what becomes  *)
(* of the media rows its jobs are about.                                   *)
(***************************************************************************)
EXTENDS JobQueue, SequenceTheorems, TLAPS

-----------------------------------------------------------------------------
(* What the steps of the worker and of a request rest on.                   *)

\* The worker has a job in hand while it works, and that job is running; the one it is
\* about to mark the media of has failed already.
WorkerHolds ==
    /\ worker.step \in WorkerSteps =>
          worker.job \in DOMAIN jobs /\ Claimed.status = "running"
    /\ worker.step = "marking" => worker.job \in DOMAIN jobs /\ Claimed.status = "failed"
    /\ worker.step \in {"working", "dropping", "marking"} => Claimed.kind = "process"

\* Process jobs are about media that were inserted, deleted since or not.
JobsAreOfMedia == \A j \in DOMAIN jobs : jobs[j].kind = "process" => jobs[j].media \in 1..inserted

RequestsHold ==
    \A q \in Requests :
        /\ request[q].step = "insert" => request[q].content \in Contents
        /\ request[q].step \in {"reuse", "enqueue"} => request[q].media \in 1..inserted

\* A media id is handed out once: an id not handed out has no row.
RowsAreInserted == \A m \in MediaIds : Exists(m) => m <= inserted

TypeInv == TypeOK /\ WorkerHolds /\ JobsAreOfMedia /\ RequestsHold /\ RowsAreInserted

-----------------------------------------------------------------------------
(* The media rows of the jobs.                                              *)

\* Tracks are written only to a row that has none, and a row that got them keeps them.
StoredInv ==
    /\ \A m \in MediaIds : stores[m] <= 1
    /\ \A m \in MediaIds : stores[m] = 1 => m <= inserted /\ (Exists(m) => media[m].stored)
    /\ worker.step = "working" /\ Exists(ItsMedia) => ~ media[ItsMedia].stored

\* A row whose tracks are stored is processed; so is the row of a job past its storing.
ProcessedInv ==
    /\ \A m \in MediaIds : media[m].stored => media[m].status \in {"done", "failed"}
    /\ worker.step \in {"matching", "dropping", "finishing"} /\ Claimed.kind = "process" =>
          media[ItsMedia].status \notin {"new", "processing"}

\* Stored tracks wait for their scores only in the matching of their own job.
MatchedInv ==
    \A m \in MediaIds \ interrupted :
        media[m].stored /\ ~ media[m].matched =>
            worker.step = "matching" /\ Claimed.kind = "process" /\ ItsMedia = m

QueueInv ==
    TypeInv /\ RunningIsClaimed /\ StoredInv /\ ProcessedInv /\ MediaAccounted /\ MatchedInv

-----------------------------------------------------------------------------
(* Operators of the module.                                                 *)

\* What _find_media finds is a row of the case with these bytes.
LEMMA FoundMediaExists ==
    ASSUME TypeOK, NEW c \in Contents, FindMedia(c) # 0
    PROVE  FindMedia(c) \in MediaIds /\ media[FindMedia(c)].content = c /\ Exists(FindMedia(c))
  BY NoneAssumption DEF FindMedia, Exists, NoRow

\* A new status of one job leaves the queue's order and what its jobs are about.
LEMMA SetStatusIsLocal ==
    ASSUME TypeOK, NEW j \in DOMAIN jobs, NEW s \in {"queued", "running", "done", "failed"},
           SetStatus(j, s)
    PROVE  /\ jobs' \in Seq(Job) /\ Len(jobs') = Len(jobs) /\ DOMAIN jobs' = DOMAIN jobs
           /\ \A k \in DOMAIN jobs : jobs'[k].kind = jobs[k].kind /\ jobs'[k].media = jobs[k].media
                                      /\ jobs'[k].status = IF k = j THEN s ELSE jobs[k].status
<1>1. jobs \in Seq(Job) /\ j \in 1..Len(jobs) /\ jobs[j] \in Job
  BY DEF TypeOK
<1>4. [jobs[j] EXCEPT !.status = s] \in Job
  BY <1>1 DEF Job
<1>2. jobs' = [jobs EXCEPT ![j] = [jobs[j] EXCEPT !.status = s]]
  BY DEF SetStatus
<1>3. \A k \in DOMAIN jobs : jobs[k] \in Job
  BY DEF TypeOK
<1> QED
  BY <1>1, <1>2, <1>3, <1>4, ExceptSeq DEF Job

\* A job is queued behind every other.
LEMMA InsertAppends ==
    ASSUME TypeOK, NEW kind \in {"process", "rematch"}, NEW m \in MediaIds \cup {0},
           NEW facesOnly \in BOOLEAN, Insert(kind, m, facesOnly)
    PROVE  /\ jobs' \in Seq(Job) /\ Len(jobs') = Len(jobs) + 1 /\ Len(jobs') <= MaxJobs
           /\ DOMAIN jobs' = DOMAIN jobs \cup {Len(jobs) + 1} /\ Len(jobs) + 1 \notin DOMAIN jobs
           /\ \A k \in DOMAIN jobs : jobs'[k] = jobs[k]
           /\ jobs'[Len(jobs) + 1] = [kind |-> kind, media |-> m, facesOnly |-> facesOnly,
                                      status |-> "queued"]
<1> DEFINE job == [kind |-> kind, media |-> m, facesOnly |-> facesOnly, status |-> "queued"]
<1>1. jobs \in Seq(Job) /\ job \in Job
  BY DEF TypeOK, Job
<1>2. jobs' = Append(jobs, job) /\ Len(jobs) < MaxJobs
  BY DEF Insert
<1> HIDE DEF job
<1>3. /\ jobs' \in Seq(Job) /\ Len(jobs') = Len(jobs) + 1
      /\ \A k \in 1..Len(jobs) : jobs'[k] = jobs[k]
      /\ jobs'[Len(jobs) + 1] = job
  BY <1>1, <1>2, AppendProperties
<1>4. DOMAIN jobs' = 1..(Len(jobs) + 1) /\ DOMAIN jobs = 1..Len(jobs) /\ Len(jobs) \in Nat
  BY <1>1, <1>3
<1>5. Len(jobs') <= MaxJobs
  BY <1>2, <1>3, <1>4, BoundsAssumption
<1> QED
  BY <1>3, <1>4, <1>5 DEF job

\* A restart requeues in place.
LEMMA RequeueIsLocal ==
    ASSUME TypeOK, RequeueRunning
    PROVE  /\ jobs' \in Seq(Job) /\ Len(jobs') = Len(jobs) /\ DOMAIN jobs' = DOMAIN jobs
           /\ \A k \in DOMAIN jobs : /\ jobs'[k].kind = jobs[k].kind
                                      /\ jobs'[k].media = jobs[k].media
                                      /\ jobs'[k].status = IF jobs[k].status = "running" THEN "queued"
                                                           ELSE jobs[k].status
<1>1. jobs \in Seq(Job) /\ DOMAIN jobs = 1..Len(jobs) /\ Len(jobs) \in Nat
  BY DEF TypeOK
<1>2. \A k \in DOMAIN jobs : jobs[k] \in Job
  BY <1>1
<1>5. \A job \in Job : [job EXCEPT !.status = "queued"] \in Job
  BY DEF Job
<1>3. jobs' = [k \in 1..Len(jobs) |-> IF jobs[k].status = "running"
                                      THEN [jobs[k] EXCEPT !.status = "queued"] ELSE jobs[k]]
  BY <1>1 DEF RequeueRunning
<1>4. jobs' \in Seq(Job)
  BY <1>1, <1>2, <1>3, <1>5, IsASeq
<1> QED
  BY <1>1, <1>2, <1>3, <1>4 DEF Job

-----------------------------------------------------------------------------
(* Types.                                                                   *)

LEMMA TypeInit == Init => TypeInv
<1> SUFFICES ASSUME Init PROVE TypeInv
  OBVIOUS
<1>1. jobs = << >> /\ jobs \in Seq(Job) /\ Len(jobs) = 0 /\ DOMAIN jobs = {}
  BY EmptySeq DEF Init
<1>2. TypeOK
  BY <1>1, BoundsAssumption DEF Init, TypeOK, IdleWorker, MediaIds, JobIds
<1>3. WorkerHolds /\ JobsAreOfMedia /\ RequestsHold /\ RowsAreInserted
  BY <1>1 DEF Init, WorkerHolds, JobsAreOfMedia, RequestsHold, RowsAreInserted, IdleWorker,
     IdleRequest, WorkerSteps, Exists
<1> QED
  BY <1>2, <1>3 DEF TypeInv

\* The job in hand is one of the queue's, and a process job's media was inserted.
LEMMA JobInHand ==
    ASSUME TypeInv, worker.step \in WorkerSteps \cup {"marking"}
    PROVE  /\ worker.job \in DOMAIN jobs /\ worker.job \in JobIds /\ Claimed \in Job
           /\ worker.step # "marking" => Claimed.status = "running"
           /\ worker.step = "marking" => Claimed.status = "failed" /\ Claimed.kind = "process"
           /\ Claimed.kind = "process" => ItsMedia \in 1..inserted /\ ItsMedia \in MediaIds
<1>1. worker.job \in DOMAIN jobs /\ jobs \in Seq(Job)
  BY DEF TypeInv, TypeOK, WorkerHolds, WorkerSteps
<1>2. Claimed \in Job
  BY <1>1 DEF Claimed
<1>3. worker.step # "marking" => Claimed.status = "running"
  BY DEF TypeInv, WorkerHolds
<1>4. worker.step = "marking" => Claimed.status = "failed" /\ Claimed.kind = "process"
  BY DEF TypeInv, WorkerHolds
<1>5. Claimed.kind = "process" => ItsMedia \in 1..inserted
  BY <1>1 DEF TypeInv, JobsAreOfMedia, ItsMedia, Claimed
<1>6. inserted \in 0..MaxMedia
  BY DEF TypeInv, TypeOK
<1> QED
  BY <1>1, <1>2, <1>3, <1>4, <1>5, <1>6, BoundsAssumption DEF MediaIds, TypeInv, TypeOK, JobIds

\* What a request goes on with is typed, whatever it is in the middle of.
LEMMA RequestMoves ==
    ASSUME TypeInv, NEW q \in Requests, NEW r \in Request \cup {IdleRequest},
           request' = [request EXCEPT ![q] = r],
           r.step = "insert" => r.content \in Contents,
           r.step \in {"reuse", "enqueue"} => r.media \in 1..inserted',
           inserted' \in {inserted, inserted + 1}
    PROVE  request' \in [Requests -> Request \cup {IdleRequest}] /\ RequestsHold'
<1>1. request \in [Requests -> Request \cup {IdleRequest}] /\ RequestsHold /\ inserted \in Nat
  BY BoundsAssumption DEF TypeInv, TypeOK
<1>2. request' \in [Requests -> Request \cup {IdleRequest}]
  BY <1>1
<1>3. ASSUME NEW other \in Requests
      PROVE  /\ request'[other].step = "insert" => request'[other].content \in Contents
             /\ request'[other].step \in {"reuse", "enqueue"} => request'[other].media \in 1..inserted'
  <2>1. CASE other = q
    BY <1>1, <2>1
  <2>2. CASE other # q
    <3>1. request'[other] = request[other]
      BY <1>1, <2>2
    <3> QED
      BY <1>1, <3>1 DEF RequestsHold
  <2> QED
    BY <2>1, <2>2
<1> QED
  BY <1>2, <1>3 DEF RequestsHold

\* A request that has its row goes on with a row that was inserted.
LEMMA HasRowMoves ==
    ASSUME TypeInv, NEW q \in Requests, NEW step \in {"reuse", "enqueue"}, NEW m \in MediaIds,
           NEW facesOnly \in BOOLEAN, HasRow(q, step, m, facesOnly),
           m \in 1..inserted', inserted' \in {inserted, inserted + 1}
    PROVE  request' \in [Requests -> Request \cup {IdleRequest}] /\ RequestsHold'
<1> DEFINE r == [step |-> step, content |-> None, facesOnly |-> facesOnly, media |-> m]
<1>1. r \in Request /\ r.step = step /\ r.media = m
  BY DEF Request
<1>2. request' = [request EXCEPT ![q] = r]
  BY DEF HasRow
<1> HIDE DEF r
<1> QED
  BY <1>1, <1>2, RequestMoves

\* A queued job is about media that were inserted, and disturbs no job in hand.
LEMMA InsertTyped ==
    ASSUME TypeInv, NEW kind \in {"process", "rematch"}, NEW m \in MediaIds \cup {0},
           NEW facesOnly \in BOOLEAN, Insert(kind, m, facesOnly),
           kind = "process" => m \in 1..inserted, UNCHANGED <<inserted, worker>>
    PROVE  /\ jobs' \in Seq(Job) /\ Len(jobs') <= MaxJobs
           /\ WorkerHolds' /\ JobsAreOfMedia'
<1>1. TypeOK /\ WorkerHolds /\ JobsAreOfMedia
  BY DEF TypeInv
<1>2. /\ jobs' \in Seq(Job) /\ Len(jobs') <= MaxJobs
      /\ DOMAIN jobs' = DOMAIN jobs \cup {Len(jobs) + 1} /\ Len(jobs) + 1 \notin DOMAIN jobs
      /\ \A k \in DOMAIN jobs : jobs'[k] = jobs[k]
      /\ jobs'[Len(jobs) + 1] = [kind |-> kind, media |-> m, facesOnly |-> facesOnly,
                                 status |-> "queued"]
  BY <1>1, InsertAppends
<1>3. JobsAreOfMedia'
  BY <1>1, <1>2 DEF JobsAreOfMedia
<1>4. worker.step \in WorkerSteps \cup {"marking"} => worker.job \in DOMAIN jobs
  BY <1>1 DEF WorkerHolds
<1>5. worker.step \in {"working", "dropping"} => worker.step \in WorkerSteps
  BY DEF WorkerSteps
<1>6. WorkerHolds'
  BY <1>1, <1>2, <1>4, <1>5 DEF WorkerHolds, Claimed
<1> QED
  BY <1>2, <1>3, <1>6

\* What the steps of requests and operators leave alone.
LEMMA RequestFrame ==
    ASSUME TypeInv, UNCHANGED <<jobs, worker>>, inserted' \in {inserted, inserted + 1}
    PROVE  WorkerHolds' /\ JobsAreOfMedia'
<1>1. inserted \in Nat
  BY BoundsAssumption DEF TypeInv, TypeOK
<1>2. WorkerHolds'
  BY DEF TypeInv, WorkerHolds, Claimed
<1> QED
  BY <1>1, <1>2 DEF TypeInv, JobsAreOfMedia

\* Steps of requests and operators.
LEMMA RequestTypeStep ==
    ASSUME TypeInv,
           \/ \E q \in Requests, c \in Contents, facesOnly \in BOOLEAN : BeginIngest(q, c, facesOnly)
           \/ RequestStep
           \/ EnqueueRematch
           \/ \E m \in MediaIds : DeleteMedia(m)
           \/ ApiCrash
    PROVE  TypeInv'
<1> USE BoundsAssumption, NoneAssumption
<1>0. /\ TypeOK /\ RequestsHold /\ RowsAreInserted /\ inserted \in 0..MaxMedia
      /\ \A q \in Requests : request[q] \in Request \cup {IdleRequest}
  BY DEF TypeInv, TypeOK
<1>1. ASSUME NEW q \in Requests, NEW c \in Contents, NEW facesOnly \in BOOLEAN,
             BeginIngest(q, c, facesOnly)
      PROVE  TypeInv'
  <2>1. FindMedia(c) # 0 => FindMedia(c) \in MediaIds /\ FindMedia(c) \in 1..inserted
    BY <1>0, FoundMediaExists DEF MediaIds, RowsAreInserted
  <2>2. UNCHANGED <<media, inserted, jobs, worker, crashes, stores, orphaned, interrupted>>
    BY <1>1 DEF BeginIngest, history
  <2>3. request' \in [Requests -> Request \cup {IdleRequest}] /\ RequestsHold'
    <3> DEFINE r == [step |-> "insert", content |-> c, facesOnly |-> facesOnly, media |-> 0]
    <3>1. CASE FindMedia(c) # 0
      BY <1>1, <2>1, <2>2, <3>1, HasRowMoves DEF BeginIngest
    <3>2. CASE FindMedia(c) = 0
      <4>1. r \in Request /\ r.step = "insert" /\ r.content = c
        BY DEF Request
      <4>2. request' = [request EXCEPT ![q] = r]
        BY <1>1, <3>2 DEF BeginIngest
      <4> HIDE DEF r
      <4> QED
        BY <2>2, <4>1, <4>2, RequestMoves
    <3> QED
      BY <3>1, <3>2
  <2> QED
    BY <1>0, <2>2, <2>3, RequestFrame DEF TypeInv, TypeOK, RowsAreInserted, Exists
<1>2. ASSUME NEW q \in Requests, InsertMedia(q)
      PROVE  TypeInv'
  <2>1. request[q].content \in Contents /\ request[q].facesOnly \in BOOLEAN
    BY <1>0, <1>2 DEF InsertMedia, RequestsHold, Request, IdleRequest
  <2>2. UNCHANGED <<jobs, worker, crashes, stores, orphaned, interrupted>>
    BY <1>2 DEF InsertMedia, history
  <2>3. CASE FindMedia(request[q].content) # 0
    <3>1. FindMedia(request[q].content) \in MediaIds /\ FindMedia(request[q].content) \in 1..inserted
      BY <1>0, <2>1, <2>3, FoundMediaExists DEF MediaIds, RowsAreInserted
    <3>2. HasRow(q, "reuse", FindMedia(request[q].content), FALSE)
      BY <1>2, <2>3 DEF InsertMedia
    <3>3. UNCHANGED <<media, inserted>>
      BY <1>2, <2>3 DEF InsertMedia
    <3>4. request' \in [Requests -> Request \cup {IdleRequest}] /\ RequestsHold'
      BY <3>1, <3>2, <3>3, HasRowMoves
    <3> QED
      BY <1>0, <2>2, <3>3, <3>4, RequestFrame DEF TypeInv, TypeOK, RowsAreInserted, Exists
  <2>4. CASE FindMedia(request[q].content) = 0
    <3>1. inserted + 1 \in MediaIds /\ inserted' = inserted + 1
      BY <1>0, <1>2, <2>4 DEF InsertMedia, MediaIds
    <3>2. [NoRow EXCEPT !.content = request[q].content, !.status = "new"] \in MediaRow
      BY <2>1 DEF NoRow, MediaRow
    <3>3. media' = [media EXCEPT ![inserted + 1] =
                       [NoRow EXCEPT !.content = request[q].content, !.status = "new"]]
      BY <1>2, <2>4 DEF InsertMedia
    <3>4. media' \in [MediaIds -> MediaRow \cup {NoRow}]
      BY <1>0, <3>1, <3>2, <3>3 DEF TypeOK
    <3>5. RowsAreInserted'
      <4>1. \A m \in MediaIds : m # inserted + 1 => media'[m] = media[m]
        BY <1>0, <3>3 DEF TypeOK
      <4>2. \A m \in MediaIds : m # inserted + 1 /\ Exists(m)' => m <= inserted
        BY <1>0, <4>1 DEF RowsAreInserted, Exists
      <4> QED
        BY <1>0, <3>1, <4>2 DEF RowsAreInserted, MediaIds
    <3>6. request' \in [Requests -> Request \cup {IdleRequest}] /\ RequestsHold'
      <4>1. HasRow(q, "enqueue", inserted + 1, request[q].facesOnly)
        BY <1>2, <2>4 DEF InsertMedia
      <4>2. inserted + 1 \in 1..inserted'
        BY <1>0, <3>1
      <4> QED
        BY <2>1, <3>1, <4>1, <4>2, HasRowMoves
    <3>7. inserted' \in 0..MaxMedia
      BY <1>0, <3>1 DEF MediaIds
    <3> QED
      BY <1>0, <2>2, <3>1, <3>4, <3>5, <3>6, <3>7, RequestFrame DEF TypeInv, TypeOK
  <2> QED
    BY <2>3, <2>4
<1>3. ASSUME NEW q \in Requests, ReuseMedia(q)
      PROVE  TypeInv'
  <2>1. UNCHANGED <<media, inserted, jobs, worker, crashes, stores, orphaned, interrupted>>
    BY <1>3 DEF ReuseMedia, history
  <2>2. request[q] \in Request /\ request[q].media \in 1..inserted
    BY <1>0, <1>3 DEF ReuseMedia, RequestsHold, IdleRequest
  <2> DEFINE onward == [request[q] EXCEPT !.step = "enqueue"]
  <2>3. onward \in Request /\ onward.step = "enqueue" /\ onward.media \in 1..inserted
    BY <2>2 DEF Request
  <2>4. \/ request' = [request EXCEPT ![q] = IdleRequest]
        \/ request' = [request EXCEPT ![q] = onward]
    BY <1>0, <1>3 DEF ReuseMedia, TypeOK
  <2> HIDE DEF onward
  <2>5. request' \in [Requests -> Request \cup {IdleRequest}] /\ RequestsHold'
    <3>1. CASE request' = [request EXCEPT ![q] = IdleRequest]
      BY <2>1, <3>1, RequestMoves DEF IdleRequest
    <3>2. CASE request' = [request EXCEPT ![q] = onward]
      BY <2>1, <2>3, <3>2, RequestMoves
    <3> QED
      BY <2>4, <3>1, <3>2
  <2> QED
    BY <1>0, <2>1, <2>5, RequestFrame DEF TypeInv, TypeOK, RowsAreInserted, Exists
<1>4. ASSUME NEW q \in Requests, EnqueueProcess(q)
      PROVE  TypeInv'
  <2>1. UNCHANGED <<media, inserted, worker, crashes, stores, orphaned, interrupted>>
    BY <1>4 DEF EnqueueProcess, history
  <2>2. request[q] \in Request /\ request[q].media \in 1..inserted
    BY <1>0, <1>4 DEF EnqueueProcess, RequestsHold, IdleRequest
  <2>3. request[q].facesOnly \in BOOLEAN /\ request[q].media \in MediaIds
    BY <1>0, <2>2 DEF Request, MediaIds
  <2>4. request' \in [Requests -> Request \cup {IdleRequest}] /\ RequestsHold'
    BY <1>4, <2>1, RequestMoves DEF EnqueueProcess, IdleRequest
  <2>5. jobs' \in Seq(Job) /\ Len(jobs') <= MaxJobs /\ WorkerHolds' /\ JobsAreOfMedia'
    BY <1>4, <2>1, <2>2, <2>3, InsertTyped DEF EnqueueProcess
  <2> QED
    BY <1>0, <2>1, <2>4, <2>5 DEF TypeInv, TypeOK, RowsAreInserted, Exists
<1>5. CASE EnqueueRematch
  <2>1. UNCHANGED <<media, inserted, request, worker, crashes, stores, orphaned, interrupted>>
    BY <1>5 DEF EnqueueRematch, history
  <2>2. jobs' \in Seq(Job) /\ Len(jobs') <= MaxJobs /\ WorkerHolds' /\ JobsAreOfMedia'
    BY <1>5, <2>1, InsertTyped DEF EnqueueRematch
  <2> QED
    BY <1>0, <2>1, <2>2 DEF TypeInv, TypeOK, RowsAreInserted, RequestsHold, Exists
<1>6. ASSUME NEW m \in MediaIds, DeleteMedia(m)
      PROVE  TypeInv'
  <2>1. UNCHANGED <<inserted, jobs, request, worker, crashes, stores, orphaned, interrupted>>
    BY <1>6 DEF DeleteMedia, history
  <2>2. media' \in [MediaIds -> MediaRow \cup {NoRow}] /\ RowsAreInserted'
    BY <1>0, <1>6, <2>1 DEF DeleteMedia, TypeOK, RowsAreInserted, Exists
  <2> QED
    BY <1>0, <2>1, <2>2, RequestFrame DEF TypeInv, TypeOK, RequestsHold
<1>7. CASE ApiCrash
  <2>1. UNCHANGED <<media, inserted, jobs, worker, stores, interrupted>> /\ crashes' \in 0..MaxCrashes
    BY <1>0, <1>7 DEF ApiCrash, TypeOK
  <2>2. request' \in [Requests -> Request \cup {IdleRequest}] /\ RequestsHold'
    BY <1>7 DEF ApiCrash, RequestsHold, IdleRequest
  <2>3. orphaned' \subseteq MediaIds
    <3>1. \A r \in Requests : request[r].step \in {"enqueue", "reuse"} => request[r].media \in MediaIds
      BY <1>0 DEF RequestsHold, MediaIds
    <3> QED
      BY <1>0, <1>7, <3>1 DEF ApiCrash, TypeOK
  <2> QED
    BY <1>0, <2>1, <2>2, <2>3, RequestFrame DEF TypeInv, TypeOK, RowsAreInserted, Exists
<1> QED
  BY <1>1, <1>2, <1>3, <1>4, <1>5, <1>6, <1>7 DEF RequestStep

\* What a new status or a restart does to the queue keeps its types.
LEMMA JobsTyped ==
    ASSUME TypeInv, UNCHANGED inserted,
           jobs' \in Seq(Job), Len(jobs') = Len(jobs), DOMAIN jobs' = DOMAIN jobs,
           \A k \in DOMAIN jobs : jobs'[k].kind = jobs[k].kind /\ jobs'[k].media = jobs[k].media
    PROVE  jobs' \in Seq(Job) /\ Len(jobs') <= MaxJobs /\ JobsAreOfMedia'
  BY DEF TypeInv, TypeOK, JobsAreOfMedia

\* Moving on with the job in hand.
LEMMA StepTyped ==
    ASSUME TypeInv, NEW from \in WorkerSteps, NEW to \in WorkerSteps, WorkerMoves(from, to),
           UNCHANGED jobs, to \in {"working", "dropping"} => Claimed.kind = "process"
    PROVE  /\ worker' \in [step : WorkerSteps \cup {"idle", "marking", "down"},
                            job : JobIds \cup {0}, faces : BOOLEAN]
           /\ WorkerHolds' /\ JobsAreOfMedia'
<1>1. worker' = [worker EXCEPT !.step = to] /\ worker.step = from /\ UNCHANGED inserted
  BY DEF WorkerMoves, WorkerSteps
<1>2. worker'.step = to /\ worker'.job = worker.job /\ to # "marking"
  BY <1>1 DEF TypeInv, TypeOK, WorkerSteps
<1>3. worker.job \in DOMAIN jobs /\ Claimed.status = "running"
  BY <1>1, JobInHand DEF WorkerSteps
<1>4. worker' \in [step : WorkerSteps \cup {"idle", "marking", "down"},
                   job : JobIds \cup {0}, faces : BOOLEAN]
  BY <1>1 DEF TypeInv, TypeOK
<1> QED
  BY <1>1, <1>2, <1>3, <1>4 DEF TypeInv, WorkerHolds, Claimed, JobsAreOfMedia

\* The worker's own steps, and its death.
LEMMA WorkerTypeStep ==
    ASSUME TypeInv, WorkerStep \/ WorkerCrash
    PROVE  TypeInv'
<1> DEFINE WorkerType == [step : WorkerSteps \cup {"idle", "marking", "down"},
                          job : JobIds \cup {0}, faces : BOOLEAN]
<1> USE BoundsAssumption, NoneAssumption
<1>0. /\ TypeOK /\ RequestsHold /\ RowsAreInserted /\ WorkerHolds /\ JobsAreOfMedia
      /\ worker \in WorkerType /\ IdleWorker \in WorkerType
      /\ media \in [MediaIds -> MediaRow \cup {NoRow}]
  BY DEF TypeInv, TypeOK, IdleWorker
<1>a. ASSUME UNCHANGED <<inserted, request>>
      PROVE  RequestsHold' /\ inserted' \in 0..MaxMedia
             /\ request' \in [Requests -> Request \cup {IdleRequest}]
  BY <1>0, <1>a DEF RequestsHold, TypeOK
<1>b. ASSUME UNCHANGED <<inserted, media>>
      PROVE  RowsAreInserted' /\ media' \in [MediaIds -> MediaRow \cup {NoRow}]
  BY <1>0, <1>b DEF RowsAreInserted, Exists, TypeOK
<1>c. ASSUME NEW m \in MediaIds, Exists(m), UNCHANGED inserted,
             NEW row \in MediaRow \cup {NoRow}, media' = [media EXCEPT ![m] = row]
      PROVE  RowsAreInserted' /\ media' \in [MediaIds -> MediaRow \cup {NoRow}]
  BY <1>0, <1>c DEF RowsAreInserted, Exists, TypeOK
<1>d. ASSUME NEW m \in MediaIds, Exists(m)
      PROVE  media[m] \in MediaRow
  BY <1>0, <1>d DEF Exists
<1>1. CASE ClaimNext
  <2>1. PICK j \in Queued : SetStatus(j, "running")
                            /\ worker' = [step |-> "claimed", job |-> j, faces |-> FALSE]
    BY <1>1 DEF ClaimNext
  <2>2. UNCHANGED <<media, inserted, request, crashes, stores, orphaned, interrupted>>
    BY <1>1 DEF ClaimNext, history
  <2>3. j \in DOMAIN jobs /\ j \in JobIds
    BY <1>0 DEF Queued, TypeOK, JobIds
  <2>4. /\ jobs' \in Seq(Job) /\ Len(jobs') <= MaxJobs /\ JobsAreOfMedia'
        /\ DOMAIN jobs' = DOMAIN jobs /\ jobs'[j].status = "running"
    BY <1>0, <2>1, <2>2, <2>3, SetStatusIsLocal, JobsTyped
  <2>5. worker' \in WorkerType /\ WorkerHolds'
    BY <2>1, <2>3, <2>4 DEF WorkerHolds, WorkerSteps, Claimed
  <2> QED
    BY <1>0, <1>a, <1>b, <2>2, <2>4, <2>5 DEF TypeInv, TypeOK
<1>2. CASE BeginProcess
  <2>1. PICK faces \in BOOLEAN : worker' = [worker EXCEPT !.step = "working", !.faces = faces]
    BY <1>2 DEF BeginProcess
  <2>2. worker.step = "claimed" /\ Claimed.kind = "process" /\ Exists(ItsMedia)
        /\ UNCHANGED <<inserted, jobs, request, crashes, stores, orphaned, interrupted>>
        /\ media' = [media EXCEPT ![ItsMedia].status = "processing"]
    BY <1>2 DEF BeginProcess, history
  <2>3. worker.job \in DOMAIN jobs /\ Claimed.status = "running" /\ ItsMedia \in MediaIds
    BY <2>2, JobInHand DEF WorkerSteps
  <2>4. worker'.step = "working" /\ worker'.job = worker.job /\ worker' \in WorkerType
    BY <1>0, <2>1 DEF WorkerSteps
  <2>5. WorkerHolds' /\ JobsAreOfMedia'
    BY <1>0, <2>2, <2>3, <2>4 DEF WorkerHolds, JobsAreOfMedia, Claimed, WorkerSteps
  <2>6. RowsAreInserted' /\ media' \in [MediaIds -> MediaRow \cup {NoRow}]
    <3>1. [media[ItsMedia] EXCEPT !.status = "processing"] \in MediaRow
      BY <1>d, <2>2, <2>3 DEF MediaRow
    <3> QED
      BY <1>0, <1>c, <2>2, <2>3, <3>1
  <2> QED
    BY <1>0, <1>a, <2>2, <2>4, <2>5, <2>6 DEF TypeInv, TypeOK
<1>3. CASE ReturnEarly \/ BeginRematch \/ FailEarly \/ StoreNothing
  <2>1. UNCHANGED <<inserted, request, crashes, orphaned, media, jobs, stores, interrupted>>
    BY <1>3 DEF ReturnEarly, BeginRematch, FailEarly, StoreNothing, WorkerMoves
  <2>2. PICK from \in WorkerSteps, to \in WorkerSteps :
            WorkerMoves(from, to) /\ to \notin {"working", "dropping"}
    BY <1>3 DEF ReturnEarly, BeginRematch, FailEarly, StoreNothing, WorkerSteps
  <2>3. worker' \in WorkerType /\ WorkerHolds' /\ JobsAreOfMedia'
    BY <2>1, <2>2, StepTyped
  <2> QED
    BY <1>0, <1>a, <1>b, <2>1, <2>3 DEF TypeInv, TypeOK
<1>4. CASE StoreTracks
  <2>1. UNCHANGED <<inserted, request, crashes, orphaned, jobs, interrupted>> /\ Exists(ItsMedia)
        /\ media' = [media EXCEPT ![ItsMedia].status = "done", ![ItsMedia].stored = worker.faces]
        /\ stores' = [stores EXCEPT ![ItsMedia] = IF worker.faces THEN @ + 1 ELSE @]
        /\ worker.step = "working"
    BY <1>4 DEF StoreTracks, WorkerMoves
  <2>2. Claimed.kind = "process" /\ ItsMedia \in MediaIds
    BY <1>0, <2>1, JobInHand DEF WorkerHolds, WorkerSteps
  <2>3. worker' \in WorkerType /\ WorkerHolds' /\ JobsAreOfMedia'
    BY <1>4, <2>1, StepTyped DEF StoreTracks, WorkerSteps
  <2>4. RowsAreInserted' /\ media' \in [MediaIds -> MediaRow \cup {NoRow}]
    <3>1. [media[ItsMedia] EXCEPT !.status = "done", !.stored = worker.faces] \in MediaRow
      BY <1>0, <1>d, <2>1, <2>2 DEF MediaRow
    <3>2. media' = [media EXCEPT ![ItsMedia] =
                       [media[ItsMedia] EXCEPT !.status = "done", !.stored = worker.faces]]
      BY <1>0, <2>1, <2>2
    <3> QED
      BY <1>0, <1>c, <2>1, <2>2, <3>1, <3>2
  <2>5. stores' \in [MediaIds -> Nat]
    BY <1>0, <2>1, <2>2 DEF TypeOK
  <2> QED
    BY <1>0, <1>a, <2>1, <2>3, <2>4, <2>5 DEF TypeInv, TypeOK
<1>5. CASE Match
  <2>1. UNCHANGED <<inserted, request, crashes, orphaned, jobs, stores, interrupted>>
        /\ worker.step = "matching"
        /\ media' = [m \in MediaIds |->
               IF InScope(m) /\ media[m].stored THEN [media[m] EXCEPT !.matched = TRUE]
               ELSE media[m]]
    BY <1>5 DEF Match, WorkerMoves
  <2>2. worker' \in WorkerType /\ WorkerHolds' /\ JobsAreOfMedia'
    <3>1. CASE DropsMedia
      BY <1>5, <2>1, <3>1, StepTyped DEF Match, DropsMedia, WorkerSteps
    <3>2. CASE ~ DropsMedia
      BY <1>5, <2>1, <3>2, StepTyped DEF Match, WorkerSteps
    <3> QED
      BY <3>1, <3>2
  <2>3. ASSUME NEW m \in MediaIds
        PROVE  media'[m] \in MediaRow \cup {NoRow} /\ (Exists(m)' => Exists(m))
    <3>1. CASE media[m].stored
      <4>1. media[m] \in MediaRow
        BY <1>0, <3>1 DEF NoRow
      <4>2. [media[m] EXCEPT !.matched = TRUE] \in MediaRow
        BY <4>1 DEF MediaRow
      <4>3. media[m] # NoRow
        BY <3>1 DEF NoRow
      <4> QED
        BY <2>1, <4>1, <4>2, <4>3 DEF Exists
    <3>2. CASE ~ media[m].stored
      BY <1>0, <2>1, <3>2 DEF Exists
    <3> QED
      BY <3>1, <3>2
  <2>4. RowsAreInserted' /\ media' \in [MediaIds -> MediaRow \cup {NoRow}]
    BY <1>0, <2>1, <2>3 DEF RowsAreInserted
  <2> QED
    BY <1>0, <1>a, <2>1, <2>2, <2>4 DEF TypeInv, TypeOK
<1>6. CASE AbortMatch
  <2>1. UNCHANGED <<inserted, request, crashes, orphaned, media, jobs, stores>>
        /\ worker.step = "matching"
    BY <1>6 DEF AbortMatch, WorkerMoves
  <2>2. worker' \in WorkerType /\ WorkerHolds' /\ JobsAreOfMedia'
    BY <1>6, <2>1, StepTyped DEF AbortMatch, WorkerSteps
  <2>3. interrupted' \subseteq MediaIds
    BY <1>0, <1>6, <2>1, JobInHand DEF AbortMatch, TypeOK, WorkerSteps
  <2> QED
    BY <1>0, <1>a, <1>b, <2>1, <2>2, <2>3 DEF TypeInv, TypeOK
<1>7. CASE DropMedia
  <2>1. UNCHANGED <<inserted, request, crashes, orphaned, jobs, stores, interrupted>>
        /\ worker.step = "dropping"
        /\ media' = IF Exists(ItsMedia) THEN [media EXCEPT ![ItsMedia] = NoRow] ELSE media
    BY <1>7 DEF DropMedia, WorkerMoves
  <2>2. worker' \in WorkerType /\ WorkerHolds' /\ JobsAreOfMedia'
    <3>1. PICK to \in {"finishing", "failing"} : WorkerMoves("dropping", to)
      BY <1>7 DEF DropMedia
    <3> QED
      BY <2>1, <3>1, StepTyped DEF WorkerSteps
  <2>3. RowsAreInserted' /\ media' \in [MediaIds -> MediaRow \cup {NoRow}]
    <3>1. ItsMedia \in MediaIds
      BY <1>0, <2>1, JobInHand DEF WorkerHolds, WorkerSteps
    <3> QED
      BY <1>b, <1>c, <2>1, <3>1
  <2> QED
    BY <1>0, <1>a, <2>1, <2>2, <2>3 DEF TypeInv, TypeOK
<1>8. CASE FinishDone \/ FinishFailed
  <2>1. UNCHANGED <<inserted, request, crashes, orphaned, media, stores, interrupted>>
        /\ worker.step \in WorkerSteps
    BY <1>8 DEF FinishDone, FinishFailed, WorkerMoves, WorkerSteps
  <2>2. PICK s \in {"done", "failed"} : SetStatus(worker.job, s)
    BY <1>8 DEF FinishDone, FinishFailed
  <2>3. worker.job \in DOMAIN jobs
    BY <2>1, JobInHand
  <2>4. /\ jobs' \in Seq(Job) /\ Len(jobs') <= MaxJobs /\ JobsAreOfMedia'
        /\ DOMAIN jobs' = DOMAIN jobs /\ jobs'[worker.job].status = s
        /\ jobs'[worker.job].kind = jobs[worker.job].kind
    BY <1>0, <2>1, <2>2, <2>3, SetStatusIsLocal, JobsTyped
  <2>5. worker' \in WorkerType /\ WorkerHolds'
    <3>1. CASE worker' = IdleWorker
      BY <1>0, <3>1 DEF WorkerHolds, IdleWorker, WorkerSteps
    <3>2. CASE worker' # IdleWorker
      <4>1. FinishFailed /\ Claimed.kind = "process" /\ worker' = [worker EXCEPT !.step = "marking"]
        BY <1>8, <3>2 DEF FinishDone, FinishFailed, WorkerMoves
      <4>2. jobs'[worker.job].status = "failed"
        BY <1>0, <2>3, <4>1, SetStatusIsLocal DEF FinishFailed
      <4>3. worker' \in WorkerType /\ worker'.step = "marking" /\ worker'.job = worker.job
        BY <1>0, <4>1
      <4> QED
        BY <2>3, <2>4, <4>1, <4>2, <4>3 DEF WorkerHolds, Claimed, WorkerSteps
    <3> QED
      BY <3>1, <3>2
  <2> QED
    BY <1>0, <1>a, <1>b, <2>1, <2>4, <2>5 DEF TypeInv, TypeOK
<1>9. CASE MarkFailed
  <2>1. UNCHANGED <<inserted, request, crashes, orphaned, jobs, stores, interrupted>>
        /\ worker.step = "marking" /\ worker' = IdleWorker
        /\ media' = IF Exists(ItsMedia) THEN [media EXCEPT ![ItsMedia].status = "failed"] ELSE media
    BY <1>9 DEF MarkFailed, WorkerMoves
  <2>2. WorkerHolds' /\ JobsAreOfMedia'
    BY <1>0, <2>1 DEF WorkerHolds, JobsAreOfMedia, IdleWorker, WorkerSteps
  <2>3. RowsAreInserted' /\ media' \in [MediaIds -> MediaRow \cup {NoRow}]
    <3>1. ItsMedia \in MediaIds
      BY <2>1, JobInHand
    <3>2. Exists(ItsMedia) => [media[ItsMedia] EXCEPT !.status = "failed"] \in MediaRow
      BY <1>d, <3>1 DEF MediaRow
    <3> QED
      BY <1>0, <1>b, <1>c, <2>1, <3>1, <3>2
  <2> QED
    BY <1>0, <1>a, <2>1, <2>2, <2>3 DEF TypeInv, TypeOK
<1>10. CASE RequeueRunning
  <2>1. UNCHANGED <<inserted, request, crashes, orphaned, media, stores, interrupted>>
        /\ worker' = IdleWorker
    BY <1>10 DEF RequeueRunning, WorkerMoves
  <2>2. jobs' \in Seq(Job) /\ Len(jobs') <= MaxJobs /\ JobsAreOfMedia'
    BY <1>0, <1>10, <2>1, RequeueIsLocal, JobsTyped
  <2>3. WorkerHolds'
    BY <2>1 DEF WorkerHolds, IdleWorker, WorkerSteps
  <2> QED
    BY <1>0, <1>a, <1>b, <2>1, <2>2, <2>3 DEF TypeInv, TypeOK
<1>11. CASE WorkerCrash
  <2>1. UNCHANGED <<media, inserted, jobs, request, stores>> /\ crashes' \in 0..MaxCrashes
        /\ worker' = [worker EXCEPT !.step = "down"]
    BY <1>0, <1>11 DEF WorkerCrash, TypeOK
  <2>2. worker' \in WorkerType /\ WorkerHolds' /\ JobsAreOfMedia'
    BY <1>0, <2>1 DEF WorkerHolds, JobsAreOfMedia, WorkerSteps
  <2>3. orphaned' \subseteq MediaIds /\ interrupted' \subseteq MediaIds
    BY <1>0, <1>11, JobInHand DEF WorkerCrash, TypeOK, WorkerSteps
  <2> QED
    BY <1>0, <1>a, <1>b, <2>1, <2>2, <2>3 DEF TypeInv, TypeOK
<1> QED
  BY <1>1, <1>2, <1>3, <1>4, <1>5, <1>6, <1>7, <1>8, <1>9, <1>10, <1>11 DEF WorkerStep

LEMMA TypeStep == TypeInv /\ [Next]_vars => TypeInv'
<1> SUFFICES ASSUME TypeInv, [Next]_vars PROVE TypeInv'
  OBVIOUS
<1>1. CASE WorkerStep \/ WorkerCrash
  BY <1>1, WorkerTypeStep
<1>2. CASE UNCHANGED vars
  BY <1>2 DEF vars, history, TypeInv, TypeOK, WorkerHolds, JobsAreOfMedia, RequestsHold,
     RowsAreInserted, Claimed, Exists
<1> QED
  BY <1>1, <1>2, RequestTypeStep DEF Next

(* Every variable keeps its type, whoever crashes: in particular what a crash or   *)
(* an abort leaves behind is a media row of a process job, and the worker is      *)
(* never without the job its step needs (worker.py:160-229).                      *)
THEOREM TypeCorrectness == Spec => []TypeOK
<1>1. Spec => []TypeInv
  BY TypeInit, TypeStep, PTL DEF Spec
<1>2. TypeInv => TypeOK
  BY DEF TypeInv
<1> QED
  BY <1>1, <1>2, PTL

-----------------------------------------------------------------------------
(* What a step may do to the queue, and to one media row.                   *)

LEMMA QueueFrame ==
    ASSUME TypeInv, [Next]_vars
    PROVE  \/ UNCHANGED <<jobs, worker>>
           \/ /\ UNCHANGED jobs /\ worker'.job = worker.job
              /\ worker.step \in WorkerSteps /\ worker'.step \in WorkerSteps \cup {"down"}
           \/ /\ UNCHANGED jobs
              /\ worker.step \in {"marking", "idle"} /\ worker'.step \in {"down", "idle"}
           \/ /\ UNCHANGED worker
              /\ \E kind \in {"process", "rematch"}, m \in MediaIds \cup {0}, facesOnly \in BOOLEAN :
                    Insert(kind, m, facesOnly)
           \/ ClaimNext \/ FinishDone \/ FinishFailed \/ RequeueRunning
<1>1. CASE UNCHANGED vars
  BY <1>1 DEF vars
<1>2. ASSUME NEW q \in Requests, EnqueueProcess(q)
      PROVE  /\ UNCHANGED worker
             /\ \E kind \in {"process", "rematch"}, m \in MediaIds \cup {0}, facesOnly \in BOOLEAN :
                   Insert(kind, m, facesOnly)
  <2>1. request[q] \in Request
    BY <1>2 DEF EnqueueProcess, TypeInv, TypeOK, IdleRequest
  <2>2. request[q].media \in MediaIds \cup {0} /\ request[q].facesOnly \in BOOLEAN
    BY <2>1 DEF Request
  <2> QED
    BY <1>2, <2>2 DEF EnqueueProcess
<1>3. CASE EnqueueRematch
  BY <1>3 DEF EnqueueRematch
<1>4. CASE WorkerCrash
  BY <1>4 DEF WorkerCrash, TypeInv, TypeOK
<1>5. CASE BeginProcess
  BY <1>5 DEF BeginProcess, TypeInv, TypeOK, WorkerSteps
<1>6. CASE ReturnEarly \/ BeginRematch \/ FailEarly \/ StoreTracks \/ StoreNothing \/ Match
           \/ AbortMatch \/ DropMedia
  <2>1. UNCHANGED jobs /\ \E from, to \in WorkerSteps : WorkerMoves(from, to)
    BY <1>6 DEF ReturnEarly, BeginRematch, FailEarly, StoreTracks, StoreNothing, Match, AbortMatch,
       DropMedia, WorkerSteps
  <2> QED
    BY <2>1 DEF WorkerMoves, TypeInv, TypeOK, WorkerSteps
<1>7. CASE MarkFailed
  BY <1>7 DEF MarkFailed, WorkerMoves, IdleWorker
<1> QED
  BY <1>1, <1>2, <1>3, <1>4, <1>5, <1>6, <1>7
     DEF Next, RequestStep, WorkerStep, BeginIngest, InsertMedia, ReuseMedia, DeleteMedia, ApiCrash

\* Jobs are never dropped, and never about anything else than when they were queued.
LEMMA JobsStay ==
    ASSUME TypeInv, [Next]_vars, NEW j \in DOMAIN jobs
    PROVE  j \in DOMAIN jobs' /\ jobs'[j].kind = jobs[j].kind /\ jobs'[j].media = jobs[j].media
<1>1. TypeOK
  BY DEF TypeInv
<1>2. CASE \E kind \in {"process", "rematch"}, m \in MediaIds \cup {0}, facesOnly \in BOOLEAN :
             Insert(kind, m, facesOnly)
  BY <1>1, <1>2, InsertAppends
<1>3. CASE ClaimNext
  <2>1. PICK k \in DOMAIN jobs : SetStatus(k, "running")
    BY <1>3 DEF ClaimNext, Queued
  <2> QED
    BY <1>1, <2>1, SetStatusIsLocal
<1>4. CASE FinishDone \/ FinishFailed
  <2>1. worker.job \in DOMAIN jobs
    BY <1>4, JobInHand DEF FinishDone, FinishFailed, WorkerMoves, WorkerSteps
  <2> QED
    BY <1>1, <1>4, <2>1, SetStatusIsLocal DEF FinishDone, FinishFailed
<1>5. CASE RequeueRunning
  BY <1>1, <1>5, RequeueIsLocal
<1> QED
  BY <1>2, <1>3, <1>4, <1>5, QueueFrame

\* What every step may do to one media row.
LEMMA RowStep ==
    ASSUME TypeInv, [Next]_vars, NEW m \in MediaIds
    PROVE  \/ media'[m] = media[m]
           \/ media'[m] = NoRow
           \/ /\ m = inserted + 1 /\ inserted' = inserted + 1 /\ ~ Exists(m)
              /\ ~ media'[m].stored /\ ~ media'[m].matched
              /\ \E q \in Requests : request'[q].media = m /\ request'[q].step = "enqueue"
              /\ UNCHANGED <<jobs, worker>>
           \/ /\ BeginProcess /\ m = ItsMedia /\ Exists(m)
              /\ media'[m] = [media[m] EXCEPT !.status = "processing"]
           \/ /\ StoreTracks /\ m = ItsMedia /\ Exists(m)
              /\ media'[m] = [media[m] EXCEPT !.status = "done", !.stored = worker.faces]
           \/ /\ Match /\ media[m].stored
              /\ media'[m] = [media[m] EXCEPT !.matched = TRUE]
           \/ /\ MarkFailed /\ m = ItsMedia /\ Exists(m)
              /\ media'[m] = [media[m] EXCEPT !.status = "failed"]
<1>0. media \in [MediaIds -> MediaRow \cup {NoRow}] /\ inserted \in Nat
      /\ request \in [Requests -> Request \cup {IdleRequest}]
  BY BoundsAssumption DEF TypeInv, TypeOK
<1>1. ASSUME NEW q \in Requests, InsertMedia(q), media'[m] # media[m]
      PROVE  /\ m = inserted + 1 /\ inserted' = inserted + 1 /\ ~ Exists(m)
             /\ ~ media'[m].stored /\ ~ media'[m].matched
             /\ request'[q].media = m /\ request'[q].step = "enqueue"
             /\ UNCHANGED <<jobs, worker>>
  <2>1. /\ media' = [media EXCEPT ![inserted + 1] =
                       [NoRow EXCEPT !.content = request[q].content, !.status = "new"]]
        /\ HasRow(q, "enqueue", inserted + 1, request[q].facesOnly)
        /\ inserted' = inserted + 1 /\ UNCHANGED <<jobs, worker>>
    BY <1>1 DEF InsertMedia
  <2>2. m = inserted + 1
    BY <1>0, <1>1, <2>1
  <2>3. ~ Exists(m)
    BY <1>0, <2>2 DEF TypeInv, RowsAreInserted
  <2>4. request'[q].media = m /\ request'[q].step = "enqueue"
    BY <1>0, <2>1, <2>2 DEF HasRow
  <2>5. ~ media'[m].stored /\ ~ media'[m].matched
    BY <1>0, <2>1, <2>2 DEF NoRow
  <2> QED
    BY <2>1, <2>2, <2>3, <2>4, <2>5
<1>2. ASSUME NEW n \in MediaIds, DeleteMedia(n)
      PROVE  media'[m] \in {media[m], NoRow}
  BY <1>0, <1>2 DEF DeleteMedia
<1>3. CASE BeginProcess
  BY <1>0, <1>3 DEF BeginProcess
<1>4. CASE StoreTracks
  BY <1>0, <1>4 DEF StoreTracks
<1>5. CASE Match
  BY <1>5 DEF Match
<1>6. CASE DropMedia
  BY <1>0, <1>6 DEF DropMedia
<1>7. CASE MarkFailed
  BY <1>0, <1>7 DEF MarkFailed
<1>8. CASE UNCHANGED media
  BY <1>8
<1> QED
  BY <1>1, <1>2, <1>3, <1>4, <1>5, <1>6, <1>7, <1>8
     DEF Next, RequestStep, WorkerStep, BeginIngest, ReuseMedia, EnqueueProcess, EnqueueRematch,
         ClaimNext, ReturnEarly, BeginRematch, FailEarly, StoreNothing, AbortMatch, FinishDone,
         FinishFailed, RequeueRunning, WorkerCrash, ApiCrash, vars

-----------------------------------------------------------------------------
(* The queue.                                                               *)

LEMMA RunningStep ==
    ASSUME TypeInv, RunningIsClaimed, [Next]_vars
    PROVE  RunningIsClaimed'
<1> USE DEF RunningIsClaimed
<1>1. TypeOK
  BY DEF TypeInv
<1>2. CASE UNCHANGED <<jobs, worker>>
  BY <1>2
<1>3. CASE /\ UNCHANGED jobs /\ worker'.job = worker.job
           /\ worker.step \in WorkerSteps /\ worker'.step \in WorkerSteps \cup {"down"}
  BY <1>3
<1>4. CASE /\ UNCHANGED jobs
           /\ worker.step \in {"marking", "idle"} /\ worker'.step \in {"down", "idle"}
  BY <1>4 DEF WorkerSteps
<1>5. CASE /\ UNCHANGED worker
           /\ \E kind \in {"process", "rematch"}, m \in MediaIds \cup {0}, facesOnly \in BOOLEAN :
                 Insert(kind, m, facesOnly)
  <2>1. PICK kind \in {"process", "rematch"}, m \in MediaIds \cup {0}, facesOnly \in BOOLEAN :
            Insert(kind, m, facesOnly)
    BY <1>5
  <2>2. /\ DOMAIN jobs' = DOMAIN jobs \cup {Len(jobs) + 1}
        /\ \A k \in DOMAIN jobs : jobs'[k] = jobs[k]
        /\ jobs'[Len(jobs) + 1] = [kind |-> kind, media |-> m, facesOnly |-> facesOnly,
                                   status |-> "queued"]
    BY <1>1, <2>1, InsertAppends
  <2>3. jobs'[Len(jobs) + 1].status = "queued"
    BY <2>2
  <2> QED
    BY <1>5, <2>2, <2>3
<1>6. CASE ClaimNext
  <2>1. PICK k \in DOMAIN jobs : /\ SetStatus(k, "running") /\ worker.step = "idle"
                                 /\ worker' = [step |-> "claimed", job |-> k, faces |-> FALSE]
    BY <1>6 DEF ClaimNext, Queued
  <2> QED
    BY <1>1, <2>1, SetStatusIsLocal DEF WorkerSteps
<1>7. CASE FinishDone \/ FinishFailed
  <2>1. worker.job \in DOMAIN jobs
    BY <1>7, JobInHand DEF FinishDone, FinishFailed, WorkerMoves, WorkerSteps
  <2>2. PICK s \in {"done", "failed"} : SetStatus(worker.job, s)
    BY <1>7 DEF FinishDone, FinishFailed
  <2> QED
    BY <1>1, <2>1, <2>2, SetStatusIsLocal
<1>8. CASE RequeueRunning
  BY <1>1, <1>8, RequeueIsLocal
<1> QED
  BY <1>2, <1>3, <1>4, <1>5, <1>6, <1>7, <1>8, QueueFrame

(* At most one job says 'running', and it is the one in the worker's hands or in *)
(* those of a worker that died: what lets requeue_running take every 'running'   *)
(* row for a dead worker's (jobs.py:139-141).                                    *)
THEOREM OneJobRuns == Spec => []RunningIsClaimed
<1>1. Init => RunningIsClaimed
  BY EmptySeq DEF Init, RunningIsClaimed
<1>2. Spec => []TypeInv
  BY TypeInit, TypeStep, PTL DEF Spec
<1> QED
  BY <1>1, <1>2, RunningStep, PTL DEF Spec

-----------------------------------------------------------------------------
(* The media rows of the jobs.                                              *)

\* The job in hand stays what it is about until the worker itself moves on.
LEMMA HandStays ==
    ASSUME TypeInv, [Next]_vars, worker'.job = worker.job,
           worker.step \in WorkerSteps \cup {"marking"}
    PROVE  Claimed'.kind = Claimed.kind /\ ItsMedia' = ItsMedia
  BY JobInHand, JobsStay DEF Claimed, ItsMedia

\* Everything but the worker's steps and its death leaves the worker alone.
LEMMA WorkerFrame ==
    ASSUME TypeInv, [Next]_vars
    PROVE  WorkerStep \/ WorkerCrash \/ UNCHANGED <<worker, stores, interrupted>>
  BY DEF Next, RequestStep, BeginIngest, InsertMedia, ReuseMedia, EnqueueProcess, EnqueueRematch,
     DeleteMedia, ApiCrash, vars, history

\* Ids are handed out one by one.
LEMMA InsertedGrows ==
    ASSUME [Next]_vars
    PROVE  inserted' \in {inserted, inserted + 1}
<1>1. CASE WorkerStep \/ WorkerCrash
  BY <1>1 DEF WorkerStep, WorkerMoves, ClaimNext, BeginProcess, ReturnEarly, BeginRematch, FailEarly,
     StoreTracks, StoreNothing, Match, AbortMatch, DropMedia, FinishDone, FinishFailed, MarkFailed,
     RequeueRunning, WorkerCrash
<1>2. ASSUME NEW q \in Requests, InsertMedia(q)
      PROVE  inserted' \in {inserted, inserted + 1}
  BY <1>2 DEF InsertMedia
<1> QED
  BY <1>1, <1>2 DEF Next, RequestStep, BeginIngest, ReuseMedia, EnqueueProcess, EnqueueRematch,
     DeleteMedia, ApiCrash, vars

LEMMA StoredStep ==
    ASSUME TypeInv, StoredInv, [Next]_vars
    PROVE  StoredInv'
<1>0. /\ stores \in [MediaIds -> Nat] /\ inserted \in Nat /\ inserted' \in {inserted, inserted + 1}
      /\ worker.faces \in BOOLEAN /\ media \in [MediaIds -> MediaRow \cup {NoRow}]
  BY InsertedGrows, BoundsAssumption DEF TypeInv, TypeOK
<1>1. ASSUME NEW m \in MediaIds, StoreTracks, m = ItsMedia
      PROVE  /\ stores'[m] <= 1
             /\ stores'[m] = 1 => m <= inserted' /\ (Exists(m)' => media'[m].stored)
  <2>1. worker.step = "working" /\ Exists(ItsMedia) /\ UNCHANGED inserted
        /\ media' = [media EXCEPT ![ItsMedia].status = "done", ![ItsMedia].stored = worker.faces]
        /\ stores' = [stores EXCEPT ![ItsMedia] = IF worker.faces THEN @ + 1 ELSE @]
    BY <1>1 DEF StoreTracks, WorkerMoves
  <2>2. stores[m] = 0
    BY <1>0, <1>1, <2>1 DEF StoredInv
  <2>3. media[m] \in MediaRow
    BY <1>0, <1>1, <2>1 DEF Exists
  <2>4. media'[m].stored = worker.faces
    BY <1>0, <1>1, <2>1, <2>3 DEF MediaRow
  <2> QED
    BY <1>0, <1>1, <2>1, <2>2, <2>4 DEF TypeInv, RowsAreInserted
<1>2. ASSUME NEW m \in MediaIds, ~ (StoreTracks /\ m = ItsMedia)
      PROVE  /\ stores'[m] <= 1
             /\ stores'[m] = 1 => m <= inserted' /\ (Exists(m)' => media'[m].stored)
  <2>1. stores'[m] = stores[m]
    BY <1>0, <1>2, WorkerFrame
       DEF WorkerStep, ClaimNext, BeginProcess, ReturnEarly, BeginRematch, FailEarly, StoreTracks,
           StoreNothing, Match, AbortMatch, DropMedia, FinishDone, FinishFailed, MarkFailed,
           RequeueRunning, WorkerCrash, history
  <2>2. stores[m] = 1 => m <= inserted /\ (Exists(m) => media[m].stored)
    BY DEF StoredInv
  <2>3. Exists(m)' /\ m <= inserted /\ (Exists(m) => media[m].stored) => media'[m].stored
    <3> SUFFICES ASSUME Exists(m)', m <= inserted, Exists(m) => media[m].stored
                 PROVE  media'[m].stored
      OBVIOUS
    <3>1. m # inserted + 1
      BY <1>0 DEF MediaIds
    <3>2. Exists(m) => media[m] \in MediaRow
      BY <1>0 DEF Exists
    <3>3. CASE media'[m] = media[m]
      BY <3>3 DEF Exists
    <3>4. ASSUME Exists(m),
                 \/ media'[m] = [media[m] EXCEPT !.status = "processing"]
                 \/ media'[m] = [media[m] EXCEPT !.status = "failed"]
                 \/ media'[m] = [media[m] EXCEPT !.matched = TRUE]
          PROVE  media'[m].stored
      <4>1. media[m] \in MediaRow /\ media[m].stored
        BY <3>2, <3>4, Zenon
      <4>2. /\ [media[m] EXCEPT !.status = "processing"].stored = media[m].stored
            /\ [media[m] EXCEPT !.status = "failed"].stored = media[m].stored
            /\ [media[m] EXCEPT !.matched = TRUE].stored = media[m].stored
        BY <4>1 DEF MediaRow
      <4> QED
        BY <3>4, <4>1, <4>2
    <3>5. media'[m] # NoRow /\ (media[m].stored => Exists(m))
      BY DEF Exists, NoRow
    <3> QED
      BY <1>2, <3>1, <3>3, <3>4, <3>5, RowStep
  <2>4. m <= inserted => m <= inserted'
    BY <1>0 DEF MediaIds
  <2>5. stores[m] <= 1
    BY DEF StoredInv
  <2> QED
    BY <2>1, <2>2, <2>3, <2>4, <2>5
<1>3. ASSUME worker'.step = "working", Exists(ItsMedia)'
      PROVE  ~ media'[ItsMedia'].stored
  <2>1. CASE BeginProcess
    <3>1. worker.step = "claimed" /\ Claimed.kind = "process" /\ ~ media[ItsMedia].stored
          /\ UNCHANGED jobs /\ Exists(ItsMedia)
          /\ media' = [media EXCEPT ![ItsMedia].status = "processing"]
      BY <2>1 DEF BeginProcess, AlreadyStored
    <3>2. worker'.job = worker.job
      BY <2>1 DEF BeginProcess, TypeInv, TypeOK
    <3>3. ItsMedia' = ItsMedia /\ ItsMedia \in MediaIds
      BY <3>1, <3>2, HandStays, JobInHand DEF WorkerSteps
    <3>4. media[ItsMedia] \in MediaRow
      BY <1>0, <3>1, <3>3 DEF Exists
    <3> QED
      BY <1>0, <3>1, <3>3, <3>4 DEF MediaRow
  <2>2. CASE ~ BeginProcess
    <3>1. UNCHANGED worker
      BY <1>3, <2>2, WorkerFrame
         DEF WorkerStep, ClaimNext, ReturnEarly, BeginRematch, FailEarly, StoreTracks, WorkerMoves,
             StoreNothing, Match, AbortMatch, DropMedia, FinishDone, FinishFailed, MarkFailed,
             RequeueRunning, WorkerCrash, IdleWorker, TypeInv, TypeOK
    <3>2. ItsMedia' = ItsMedia /\ ItsMedia \in MediaIds /\ ItsMedia <= inserted
      <4>1. worker.step = "working" /\ Claimed.kind = "process"
        BY <1>3, <3>1 DEF TypeInv, WorkerHolds
      <4> QED
        BY <1>0, <3>1, <4>1, HandStays, JobInHand DEF WorkerSteps
    <3>3. media'[ItsMedia] = media[ItsMedia] \/ media'[ItsMedia] = NoRow
          \/ StoreTracks \/ Match \/ MarkFailed
      <4>1. ItsMedia # inserted + 1
        BY <1>0, <3>2
      <4> QED
        BY <2>2, <3>2, <4>1, RowStep
    <3>4. ~ StoreTracks /\ ~ Match /\ ~ MarkFailed
      BY <1>3, <3>1 DEF StoreTracks, Match, MarkFailed, WorkerMoves, IdleWorker, TypeInv, TypeOK
    <3> QED
      BY <1>3, <3>1, <3>2, <3>3, <3>4 DEF StoredInv, Exists
  <2> QED
    BY <2>1, <2>2
<1> QED
  BY <1>1, <1>2, <1>3 DEF StoredInv

(* However often a file is registered again, its jobs doubled by racing requests *)
(* or requeued after a crash, its tracks are written once: a row that has them   *)
(* is not processed again, and no other row gets its id (process.py:103-113).    *)
THEOREM TracksAreStoredOnce == Spec => []StoredOnce
<1>1. Init => StoredInv
  BY DEF Init, StoredInv, IdleWorker
<1>2. Spec => []TypeInv
  BY TypeInit, TypeStep, PTL DEF Spec
<1>3. Spec => []StoredInv
  BY <1>1, <1>2, StoredStep, PTL DEF Spec
<1>4. StoredInv => StoredOnce
  BY DEF StoredInv, StoredOnce
<1> QED
  BY <1>3, <1>4, PTL

\* RowStep, field by field.
LEMMA RowFields ==
    ASSUME TypeInv, [Next]_vars, NEW m \in MediaIds
    PROVE  \/ media'[m] = media[m]
           \/ media'[m] = NoRow /\ ~ media'[m].stored /\ media'[m].status = "none"
           \/ /\ m = inserted + 1 /\ ~ Exists(m)
              /\ ~ media'[m].stored /\ ~ media'[m].matched
              /\ \E q \in Requests : request'[q].media = m /\ request'[q].step = "enqueue"
           \/ /\ BeginProcess /\ m = ItsMedia /\ media'[m].status = "processing"
              /\ ~ media[m].stored /\ ~ media'[m].stored
           \/ StoreTracks /\ m = ItsMedia /\ media'[m].status = "done"
           \/ Match /\ media'[m].matched = TRUE /\ media'[m].status = media[m].status
              /\ media[m].stored
           \/ /\ MarkFailed /\ m = ItsMedia /\ media'[m].status = "failed"
              /\ media'[m].stored = media[m].stored /\ media'[m].matched = media[m].matched
<1>1. Exists(m) \/ media[m].stored => media[m] \in MediaRow
  BY DEF TypeInv, TypeOK, Exists, NoRow
<1>2. CASE BeginProcess /\ m = ItsMedia /\ Exists(m)
           /\ media'[m] = [media[m] EXCEPT !.status = "processing"]
  <2>1. ~ media[m].stored
    BY <1>2 DEF BeginProcess, AlreadyStored
  <2> QED
    BY <1>1, <1>2, <2>1 DEF MediaRow
<1>3. CASE StoreTracks /\ m = ItsMedia /\ Exists(m)
           /\ media'[m] = [media[m] EXCEPT !.status = "done", !.stored = worker.faces]
  BY <1>1, <1>3 DEF MediaRow
<1>4. CASE Match /\ media[m].stored /\ media'[m] = [media[m] EXCEPT !.matched = TRUE]
  BY <1>1, <1>4 DEF MediaRow
<1>5. CASE MarkFailed /\ m = ItsMedia /\ Exists(m)
           /\ media'[m] = [media[m] EXCEPT !.status = "failed"]
  BY <1>1, <1>5 DEF MediaRow
<1>6. CASE media'[m] = NoRow
  BY <1>6 DEF NoRow
<1> QED
  BY <1>2, <1>3, <1>4, <1>5, <1>6, RowStep

\* How the worker gets to the steps that follow the storing.
LEMMA AfterStoring ==
    ASSUME TypeInv, [Next]_vars, worker'.step \in {"matching", "dropping", "finishing"}
    PROVE  \/ UNCHANGED worker
           \/ /\ ReturnEarly \/ BeginRematch \/ StoreTracks \/ StoreNothing \/ Match \/ DropMedia
              /\ UNCHANGED <<jobs, inserted>>
              /\ worker.step \in WorkerSteps /\ worker'.job = worker.job
<1>1. CASE WorkerStep \/ WorkerCrash
  <2>1. ReturnEarly \/ BeginRematch \/ StoreTracks \/ StoreNothing \/ Match \/ DropMedia
    <3>1. CASE ClaimNext
      BY <3>1 DEF ClaimNext
    <3>2. CASE BeginProcess \/ WorkerCrash
      BY <3>2 DEF BeginProcess, WorkerCrash, TypeInv, TypeOK
    <3>3. CASE FailEarly \/ AbortMatch
      BY <3>3 DEF FailEarly, AbortMatch, WorkerMoves, TypeInv, TypeOK
    <3>4. CASE FinishDone \/ FinishFailed \/ MarkFailed \/ RequeueRunning
      BY <3>4 DEF FinishDone, FinishFailed, MarkFailed, RequeueRunning, WorkerMoves, IdleWorker,
         TypeInv, TypeOK
    <3> QED
      BY <1>1, <3>1, <3>2, <3>3, <3>4 DEF WorkerStep
  <2>2. UNCHANGED <<jobs, inserted>> /\ worker.step \in WorkerSteps
        /\ \E step \in WorkerSteps : worker' = [worker EXCEPT !.step = step]
    BY <2>1 DEF WorkerMoves, ReturnEarly, BeginRematch, StoreTracks, StoreNothing, Match, DropMedia,
       WorkerSteps
  <2> QED
    BY <2>1, <2>2 DEF TypeInv, TypeOK
<1> QED
  BY <1>1, WorkerFrame

LEMMA ProcessedStep ==
    ASSUME TypeInv, ProcessedInv, [Next]_vars
    PROVE  ProcessedInv'
<1>0. inserted \in Nat
  BY BoundsAssumption DEF TypeInv, TypeOK
<1>1. ASSUME NEW m \in MediaIds, media'[m].stored
      PROVE  media'[m].status \in {"done", "failed"}
  <2>1. media[m].stored => media[m].status \in {"done", "failed"}
    BY DEF ProcessedInv
  <2> QED
    BY <1>1, <2>1, RowFields
<1>2. ASSUME worker'.step \in {"matching", "dropping", "finishing"}, Claimed'.kind = "process"
      PROVE  media'[ItsMedia'].status \notin {"new", "processing"}
  <2>1. worker.step \in WorkerSteps \cup {"marking"} /\ worker'.job = worker.job
    BY <1>2, AfterStoring DEF WorkerSteps
  <2>2. Claimed.kind = "process" /\ ItsMedia' = ItsMedia
    BY <1>2, <2>1, HandStays
  <2>3. ItsMedia \in MediaIds /\ ItsMedia # inserted + 1
    BY <1>0, <2>1, <2>2, JobInHand
  <2>4. CASE UNCHANGED worker
    <3>1. media[ItsMedia].status \notin {"new", "processing"}
      BY <1>2, <2>2, <2>4 DEF ProcessedInv
    <3>2. ~ BeginProcess
      BY <1>2, <2>4 DEF BeginProcess
    <3> QED
      BY <2>2, <2>3, <3>1, <3>2, RowFields
  <2>5. CASE ReturnEarly
    <3>1. media[ItsMedia].stored /\ UNCHANGED media
      BY <2>5 DEF ReturnEarly, AlreadyStored
    <3> QED
      BY <2>2, <2>3, <3>1 DEF ProcessedInv
  <2>6. CASE BeginRematch
    BY <2>2, <2>6 DEF BeginRematch
  <2>7. CASE StoreTracks
    <3>1. media' = [media EXCEPT ![ItsMedia].status = "done", ![ItsMedia].stored = worker.faces]
          /\ Exists(ItsMedia)
      BY <2>7 DEF StoreTracks
    <3>2. media'[ItsMedia].status = "done"
      BY <2>3, <3>1 DEF TypeInv, TypeOK, MediaRow, Exists
    <3> QED
      BY <2>2, <3>2
  <2>8. CASE StoreNothing
    <3>1. media[ItsMedia] = NoRow /\ UNCHANGED media
      BY <2>3, <2>8 DEF StoreNothing, Exists
    <3> QED
      BY <2>2, <3>1 DEF NoRow
  <2>9. CASE Match \/ DropMedia
    <3>1. worker.step \in {"matching", "dropping"}
      BY <2>9 DEF Match, DropMedia
    <3>2. media[ItsMedia].status \notin {"new", "processing"}
      BY <2>2, <3>1 DEF ProcessedInv
    <3>3. ~ BeginProcess
      BY <3>1 DEF BeginProcess
    <3> QED
      BY <2>2, <2>3, <3>2, <3>3, RowFields
  <2> QED
    BY <1>2, <2>4, <2>5, <2>6, <2>7, <2>8, <2>9, AfterStoring
<1> QED
  BY <1>1, <1>2 DEF ProcessedInv

LEMMA MatchedStep ==
    ASSUME TypeInv, MatchedInv, [Next]_vars
    PROVE  MatchedInv'
<1> SUFFICES ASSUME NEW m \in MediaIds, m \notin interrupted',
                    media'[m].stored, ~ media'[m].matched
             PROVE  worker'.step = "matching" /\ Claimed'.kind = "process" /\ ItsMedia' = m
  BY DEF MatchedInv
<1>1. CASE StoreTracks /\ m = ItsMedia
  <2>1. worker.step = "working" /\ worker' = [worker EXCEPT !.step = "matching"]
    BY <1>1 DEF StoreTracks, WorkerMoves
  <2>2. worker'.step = "matching" /\ worker'.job = worker.job
    BY <2>1 DEF TypeInv, TypeOK
  <2>3. Claimed.kind = "process"
    BY <2>1 DEF TypeInv, WorkerHolds
  <2> QED
    BY <1>1, <2>1, <2>2, <2>3, HandStays DEF WorkerSteps
<1>2. CASE ~ (StoreTracks /\ m = ItsMedia)
  <2>1. m \notin interrupted
    BY WorkerFrame DEF WorkerStep, WorkerCrash, ClaimNext, BeginProcess, ReturnEarly, BeginRematch,
       FailEarly, StoreTracks, StoreNothing, Match, AbortMatch, DropMedia, FinishDone, FinishFailed,
       MarkFailed, RequeueRunning, history
  <2>2. media[m].stored /\ ~ media[m].matched
    BY <1>2, RowFields
  <2>3. worker.step = "matching" /\ Claimed.kind = "process" /\ ItsMedia = m
    BY <2>1, <2>2 DEF MatchedInv
  <2>4. ~ Match
    <3> SUFFICES ASSUME Match PROVE FALSE
      OBVIOUS
    <3>1. InScope(m)
      BY <2>3 DEF InScope
    <3>2. media'[m] = [media[m] EXCEPT !.matched = TRUE] /\ media[m] \in MediaRow
      BY <2>2, <3>1 DEF Match, TypeInv, TypeOK, NoRow
    <3>3. media'[m].matched
      BY <3>2 DEF MediaRow
    <3> QED
      BY <3>3
  <2>5. ~ AbortMatch /\ ~ WorkerCrash
    BY <2>3 DEF AbortMatch, WorkerCrash
  <2>6. UNCHANGED worker
    BY <2>3, <2>4, <2>5, WorkerFrame
       DEF WorkerStep, WorkerMoves, ClaimNext, BeginProcess, ReturnEarly, BeginRematch, FailEarly,
           StoreTracks, StoreNothing, DropMedia, FinishDone, FinishFailed, MarkFailed, RequeueRunning
  <2> QED
    BY <2>3, <2>6, HandStays DEF WorkerSteps
<1> QED
  BY <1>1, <1>2

\* A process job that has not settled after a step keeps its file under way.
LEMMA JobIsUnderWay ==
    ASSUME NEW m, NEW j, j \in DOMAIN jobs', jobs'[j].kind = "process", jobs'[j].media = m,
           jobs'[j].status \notin {"done", "failed"}
    PROVE  UnderWay(m)'
  BY DEF UnderWay, ProcessJobs, Settled

\* Whoever was going to process a file still is, unless that is over or a crash left it.
LEMMA UnderWayStays ==
    ASSUME TypeInv, [Next]_vars, NEW m \in MediaIds, UnderWay(m)
    PROVE  \/ UnderWay(m)'
           \/ m \in orphaned'
           \/ FinishDone /\ Claimed.kind = "process" /\ ItsMedia = m
           \/ MarkFailed /\ ItsMedia = m
<1>0. TypeOK /\ \A q \in Requests : request[q] \in Request \cup {IdleRequest}
  BY DEF TypeInv, TypeOK
<1>1. ASSUME NEW j \in ProcessJobs(m), ~ Settled(j)
      PROVE  UnderWay(m)' \/ (FinishDone /\ Claimed.kind = "process" /\ ItsMedia = m)
  <2>1. j \in DOMAIN jobs /\ jobs[j].kind = "process" /\ jobs[j].media = m
    BY <1>1 DEF ProcessJobs
  <2>2. j \in DOMAIN jobs' /\ jobs'[j].kind = "process" /\ jobs'[j].media = m
    BY <2>1, JobsStay
  <2>3. CASE jobs'[j].status \notin {"done", "failed"}
    BY <2>2, <2>3, JobIsUnderWay
  <2>4. CASE jobs'[j].status \in {"done", "failed"}
    <3>1. (FinishDone \/ FinishFailed) /\ j = worker.job
      <4>1. CASE UNCHANGED jobs
        BY <1>1, <2>4, <4>1 DEF Settled
      <4>2. CASE \E kind \in {"process", "rematch"}, n \in MediaIds \cup {0}, facesOnly \in BOOLEAN :
                   Insert(kind, n, facesOnly)
        BY <1>0, <1>1, <2>1, <2>4, <4>2, InsertAppends DEF Settled
      <4>3. CASE ClaimNext
        <5>1. PICK k \in DOMAIN jobs : SetStatus(k, "running")
          BY <4>3 DEF ClaimNext, Queued
        <5> QED
          BY <1>0, <1>1, <2>1, <2>4, <5>1, SetStatusIsLocal DEF Settled
      <4>4. CASE RequeueRunning
        BY <1>0, <1>1, <2>1, <2>4, <4>4, RequeueIsLocal DEF Settled
      <4>5. CASE FinishDone \/ FinishFailed
        <5>1. PICK s \in {"done", "failed"} : SetStatus(worker.job, s)
          BY <4>5 DEF FinishDone, FinishFailed
        <5>2. worker.job \in DOMAIN jobs
          BY <4>5, JobInHand DEF FinishDone, FinishFailed, WorkerMoves, WorkerSteps
        <5> QED
          BY <1>0, <1>1, <2>1, <2>4, <4>5, <5>1, <5>2, SetStatusIsLocal DEF Settled
      <4> QED
        BY <4>1, <4>2, <4>3, <4>4, <4>5, QueueFrame
    <3>2. Claimed.kind = "process" /\ ItsMedia = m
      BY <2>1, <3>1 DEF Claimed, ItsMedia
    <3>3. CASE FinishFailed
      <4>1. worker.step = "failing" /\ worker' = [worker EXCEPT !.step = "marking"]
        BY <3>2, <3>3 DEF FinishFailed, WorkerMoves
      <4>2. worker'.step = "marking" /\ worker'.job = worker.job
        BY <1>0, <4>1 DEF TypeOK
      <4>3. ItsMedia' = m
        BY <3>2, <4>1, <4>2, HandStays DEF WorkerSteps
      <4> QED
        BY <4>2, <4>3 DEF UnderWay, ItsMedia, Claimed
    <3> QED
      BY <3>1, <3>2, <3>3
  <2> QED
    BY <2>3, <2>4
<1>2. ASSUME NEW q \in Requests, request[q].media = m, request[q].step = "enqueue"
      PROVE  UnderWay(m)' \/ m \in orphaned'
  <2>1. CASE EnqueueProcess(q)
    <3>1. Insert("process", m, request[q].facesOnly) /\ request[q].facesOnly \in BOOLEAN
      BY <1>0, <1>2, <2>1 DEF EnqueueProcess, Request, IdleRequest
    <3>2. /\ Len(jobs) + 1 \in DOMAIN jobs'
          /\ jobs'[Len(jobs) + 1] = [kind |-> "process", media |-> m,
                                     facesOnly |-> request[q].facesOnly, status |-> "queued"]
      BY <1>0, <3>1, InsertAppends
    <3> DEFINE j == Len(jobs) + 1
    <3>3. j \in DOMAIN jobs' /\ jobs'[j].kind = "process" /\ jobs'[j].media = m
          /\ jobs'[j].status = "queued"
      BY <3>2
    <3> HIDE DEF j
    <3> QED
      BY <3>3, JobIsUnderWay
  <2>2. CASE ApiCrash
    BY <1>2, <2>2 DEF ApiCrash
  <2>3. CASE ~ EnqueueProcess(q) /\ ~ ApiCrash
    <3>1. ASSUME NEW other \in Requests, other # q, NEW r, request' = [request EXCEPT ![other] = r]
          PROVE  request'[q] = request[q]
      BY <1>0, <3>1 DEF TypeOK
    <3>2. request'[q] = request[q]
      <4>1. ASSUME NEW other \in Requests, NEW c \in Contents, NEW facesOnly \in BOOLEAN,
                   BeginIngest(other, c, facesOnly)
            PROVE  request'[q] = request[q]
        <5>1. other # q
          BY <1>2, <4>1 DEF BeginIngest, IdleRequest
        <5> QED
          BY <3>1, <4>1, <5>1 DEF BeginIngest, HasRow
      <4>2. ASSUME NEW other \in Requests, InsertMedia(other)
            PROVE  request'[q] = request[q]
        BY <1>2, <3>1, <4>2 DEF InsertMedia, HasRow
      <4>3. ASSUME NEW other \in Requests, ReuseMedia(other)
            PROVE  request'[q] = request[q]
        <5>1. other # q
          BY <1>2, <4>3 DEF ReuseMedia
        <5> QED
          BY <3>1, <4>3, <5>1 DEF ReuseMedia
      <4>4. ASSUME NEW other \in Requests, EnqueueProcess(other)
            PROVE  request'[q] = request[q]
        BY <2>3, <3>1, <4>4 DEF EnqueueProcess
      <4>5. CASE UNCHANGED request
        BY <4>5
      <4>6. CASE WorkerStep
        BY <4>6 DEF WorkerStep, WorkerMoves, ClaimNext, BeginProcess, ReturnEarly, BeginRematch,
           FailEarly, StoreTracks, StoreNothing, Match, AbortMatch, DropMedia, FinishDone,
           FinishFailed, MarkFailed, RequeueRunning
      <4> QED
        BY <2>3, <4>1, <4>2, <4>3, <4>4, <4>5, <4>6
           DEF Next, RequestStep, EnqueueRematch, DeleteMedia, WorkerCrash, vars
    <3> QED
      BY <1>2, <3>2 DEF UnderWay
  <2> QED
    BY <2>1, <2>2, <2>3
<1>3. ASSUME worker.step = "marking", ItsMedia = m
      PROVE  UnderWay(m)' \/ m \in orphaned' \/ (MarkFailed /\ ItsMedia = m)
  <2>1. CASE UNCHANGED worker
    <3>1. ItsMedia' = m
      BY <1>3, <2>1, HandStays
    <3> QED
      BY <1>3, <2>1, <3>1 DEF UnderWay
  <2>2. CASE WorkerCrash
    BY <1>3, <2>2 DEF WorkerCrash
  <2> QED
    BY <1>3, <2>1, <2>2, WorkerFrame
       DEF WorkerStep, WorkerMoves, ClaimNext, BeginProcess, ReturnEarly, BeginRematch, FailEarly,
           StoreTracks, StoreNothing, Match, AbortMatch, DropMedia, FinishDone, FinishFailed,
           RequeueRunning
<1> QED
  BY <1>1, <1>2, <1>3 DEF UnderWay

LEMMA AccountedStep ==
    ASSUME TypeInv, ProcessedInv, MediaAccounted, [Next]_vars
    PROVE  MediaAccounted'
<1> SUFFICES ASSUME NEW m \in MediaIds, m \notin orphaned', media'[m].status \in {"new", "processing"}
             PROVE  UnderWay(m)'
  BY DEF MediaAccounted
<1>1. CASE \E q \in Requests : request'[q].media = m /\ request'[q].step = "enqueue"
  BY <1>1 DEF UnderWay
<1>2. CASE BeginProcess /\ m = ItsMedia
  <2>1. worker.step = "claimed" /\ Claimed.kind = "process" /\ UNCHANGED jobs
    BY <1>2 DEF BeginProcess
  <2>2. worker.job \in DOMAIN jobs /\ Claimed.status = "running"
    BY <2>1, JobInHand DEF WorkerSteps
  <2> DEFINE j == worker.job
  <2>3. j \in DOMAIN jobs' /\ jobs'[j].kind = "process" /\ jobs'[j].media = m
        /\ jobs'[j].status = "running"
    BY <1>2, <2>1, <2>2 DEF Claimed, ItsMedia
  <2> HIDE DEF j
  <2> QED
    BY <2>3, JobIsUnderWay
<1>3. CASE media[m].status \in {"new", "processing"}
  <2>1. m \notin orphaned
    BY WorkerFrame DEF Next, RequestStep, BeginIngest, InsertMedia, ReuseMedia, EnqueueProcess,
       EnqueueRematch, DeleteMedia, ApiCrash, vars, WorkerStep, WorkerMoves, WorkerCrash, ClaimNext,
       BeginProcess, ReturnEarly, BeginRematch, FailEarly, StoreTracks, StoreNothing, Match,
       AbortMatch, DropMedia, FinishDone, FinishFailed, MarkFailed, RequeueRunning, history
  <2>2. UnderWay(m)
    BY <1>3, <2>1 DEF MediaAccounted
  <2>3. ~ (FinishDone /\ Claimed.kind = "process" /\ ItsMedia = m)
    BY <1>3 DEF FinishDone, WorkerMoves, ProcessedInv
  <2>4. ~ (MarkFailed /\ ItsMedia = m)
    <3> SUFFICES ASSUME MarkFailed, ItsMedia = m PROVE FALSE
      OBVIOUS
    <3>1. media[m] \in MediaRow /\ media[m] # NoRow
      BY <1>3 DEF TypeInv, TypeOK, NoRow
    <3>2. media'[m] = [media[m] EXCEPT !.status = "failed"]
      BY <3>1 DEF MarkFailed, Exists, TypeInv, TypeOK
    <3>3. media'[m].status = "failed"
      BY <3>1, <3>2 DEF MediaRow
    <3> QED
      BY <3>3
  <2> QED
    BY <2>2, <2>3, <2>4, UnderWayStays
<1> QED
  BY <1>1, <1>2, <1>3, RowFields

LEMMA QueueInvInit == Init => QueueInv
<1> SUFFICES ASSUME Init PROVE QueueInv
  OBVIOUS
<1>1. RunningIsClaimed
  BY EmptySeq DEF Init, RunningIsClaimed
<1>2. StoredInv
  BY DEF Init, StoredInv, IdleWorker
<1>3. ProcessedInv /\ MediaAccounted /\ MatchedInv
  BY DEF Init, ProcessedInv, MediaAccounted, MatchedInv, IdleWorker, NoRow
<1> QED
  BY <1>1, <1>2, <1>3, TypeInit DEF QueueInv

LEMMA QueueInvStep == QueueInv /\ [Next]_vars => QueueInv'
  BY TypeStep, RunningStep, StoredStep, ProcessedStep, AccountedStep, MatchedStep DEF QueueInv

LEMMA QueueInvHolds == Spec => []QueueInv
  BY QueueInvInit, QueueInvStep, PTL DEF Spec

(* A file in the library that is not processed yet has somebody left to process it: *)
(* a job, a request about to queue one, or the worker about to mark it failed; the   *)
(* exception is a file some crash left in between (ingest.py:125-186,               *)
(* worker.py:212-229).                                                              *)
THEOREM FilesAreAccountedFor == Spec => []MediaAccounted
<1>1. QueueInv => MediaAccounted
  BY DEF QueueInv
<1> QED
  BY <1>1, QueueInvHolds, PTL

(* A file whose processing is over leaves no stored track unmatched, unless a crash *)
(* or an abort hit its matching (process.py:86-267).                               *)
THEOREM ProcessedFilesAreMatched == Spec => []ProcessedIsMatched
<1>1. ASSUME QueueInv
      PROVE  ProcessedIsMatched
  <2> SUFFICES ASSUME NEW m \in MediaIds \ interrupted, media[m].stored,
                      \A j \in ProcessJobs(m) : Settled(j), ~ media[m].matched
               PROVE  FALSE
    BY DEF ProcessedIsMatched
  <2>1. worker.step = "matching" /\ Claimed.kind = "process" /\ ItsMedia = m
    BY <1>1 DEF QueueInv, MatchedInv
  <2>2. worker.job \in DOMAIN jobs /\ Claimed.status = "running"
    BY <1>1, <2>1, JobInHand DEF QueueInv, WorkerSteps
  <2>3. worker.job \in ProcessJobs(m) /\ ~ Settled(worker.job)
    BY <2>1, <2>2 DEF ProcessJobs, Settled, Claimed, ItsMedia
  <2> QED
    BY <2>3
<1>2. QueueInv => ProcessedIsMatched
  BY <1>1
<1> QED
  BY <1>2, QueueInvHolds, PTL

-----------------------------------------------------------------------------
(* The queue implements OneWorkerQueue, its fairness apart.                 *)

\* The refinement mapping: what the abstract queue says of every job.
QueueStatus == [j \in JobIds |-> StatusOf(j)]

\* A step that gives one job a status gives the abstract queue that status.
LEMMA StatusChanges ==
    ASSUME TypeInv, NEW j \in JobIds, NEW s,
           DOMAIN jobs' = DOMAIN jobs \cup {j}, jobs'[j].status = s,
           \A k \in DOMAIN jobs : k # j => jobs'[k].status = jobs[k].status
    PROVE  QueueStatus' = [QueueStatus EXCEPT ![j] = s]
<1>1. ASSUME NEW k \in JobIds
      PROVE  StatusOf(k)' = IF k = j THEN s ELSE StatusOf(k)
  BY DEF StatusOf
<1> QED
  BY <1>1 DEF QueueStatus

LEMMA QueueRefinesInit == Init => Promised!Init
  BY EmptySeq DEF Init, Promised!Init, StatusOf, JobIds

LEMMA QueueRefinesStep ==
    ASSUME TypeInv, RunningIsClaimed, [Next]_vars
    PROVE  [Promised!Next]_QueueStatus
<1>0. TypeOK /\ DOMAIN jobs = 1..Len(jobs) /\ Len(jobs) \in Nat /\ DOMAIN jobs \subseteq JobIds
  BY BoundsAssumption DEF TypeInv, TypeOK, JobIds
<1>a. /\ \A j \in DOMAIN jobs : QueueStatus[j] = jobs[j].status
      /\ \A j \in JobIds : j \notin DOMAIN jobs => QueueStatus[j] = "absent"
      /\ \A j \in DOMAIN jobs : jobs[j].status # "absent"
      /\ QueueStatus = [j \in JobIds |-> StatusOf(j)]
  <2>1. \A j \in DOMAIN jobs : jobs[j] \in Job
    BY <1>0 DEF TypeOK
  <2> QED
    BY <1>0, <2>1 DEF QueueStatus, StatusOf, Job
<1>b. \A state \in {"absent", "queued", "running"} :
          Promised!In(state) = {j \in JobIds : QueueStatus[j] = state}
  BY <1>a DEF Promised!In, JobIds
<1>1. CASE UNCHANGED jobs
  BY <1>1 DEF QueueStatus, StatusOf
<1>2. CASE \E kind \in {"process", "rematch"}, m \in MediaIds \cup {0}, facesOnly \in BOOLEAN :
             Insert(kind, m, facesOnly)
  <2> DEFINE j == Len(jobs) + 1
  <2>1. PICK kind \in {"process", "rematch"}, m \in MediaIds \cup {0}, facesOnly \in BOOLEAN :
            Insert(kind, m, facesOnly)
    BY <1>2
  <2>2. /\ DOMAIN jobs' = DOMAIN jobs \cup {j} /\ Len(jobs') = j /\ Len(jobs') <= MaxJobs
        /\ \A k \in DOMAIN jobs : jobs'[k] = jobs[k]
        /\ jobs'[j] = [kind |-> kind, media |-> m, facesOnly |-> facesOnly, status |-> "queued"]
    BY <1>0, <2>1, InsertAppends
  <2>3. j \in JobIds /\ j \notin DOMAIN jobs
        /\ \A other \in JobIds : other \notin DOMAIN jobs => j <= other
    BY <1>0, <2>2, BoundsAssumption DEF JobIds
  <2>4. QueueStatus' = [QueueStatus EXCEPT ![j] = "queued"]
    BY <2>2, <2>3, StatusChanges
  <2>5. Promised!Add(j)
    BY <1>a, <1>b, <2>3, <2>4 DEF Promised!Add, QueueStatus
  <2> QED
    BY <2>3, <2>5 DEF Promised!Next, JobIds
<1>3. CASE ClaimNext
  <2>1. PICK j \in Queued : /\ \A other \in Queued : j <= other
                            /\ SetStatus(j, "running") /\ worker.step = "idle"
    BY <1>3 DEF ClaimNext
  <2>2. j \in DOMAIN jobs /\ j \in JobIds /\ jobs[j].status = "queued"
    BY <1>0, <2>1 DEF Queued
  <2>3. QueueStatus' = [QueueStatus EXCEPT ![j] = "running"]
    BY <1>0, <2>1, <2>2, SetStatusIsLocal, StatusChanges
  <2>4. Promised!In("running") = {}
    BY <1>0, <1>a, <1>b, <2>1 DEF RunningIsClaimed, WorkerSteps
  <2>5. Promised!In("queued") = Queued
    BY <1>0, <1>a, <1>b DEF Queued
  <2>6. Promised!Claim(j)
    BY <2>1, <2>3, <2>4, <2>5 DEF Promised!Claim, QueueStatus
  <2> QED
    BY <2>2, <2>6 DEF Promised!Next, JobIds
<1>4. CASE FinishDone \/ FinishFailed
  <2> DEFINE j == worker.job
  <2>1. j \in DOMAIN jobs /\ j \in JobIds /\ jobs[j].status = "running"
    BY <1>4, JobInHand DEF FinishDone, FinishFailed, WorkerMoves, WorkerSteps, Claimed
  <2>2. PICK s \in {"done", "failed"} : SetStatus(j, s)
    BY <1>4 DEF FinishDone, FinishFailed
  <2>3. QueueStatus' = [QueueStatus EXCEPT ![j] = s]
    BY <1>0, <2>1, <2>2, SetStatusIsLocal, StatusChanges
  <2>4. Promised!Settle(j)
    BY <1>a, <1>b, <2>1, <2>3 DEF Promised!Settle, QueueStatus
  <2> QED
    BY <2>1, <2>4 DEF Promised!Next, JobIds
<1>5. CASE RequeueRunning
  <2> DEFINE j == worker.job
  <2>1. /\ DOMAIN jobs' = DOMAIN jobs
        /\ \A k \in DOMAIN jobs : jobs'[k].status = IF jobs[k].status = "running" THEN "queued"
                                                    ELSE jobs[k].status
    BY <1>0, <1>5, RequeueIsLocal
  <2>2. CASE \A k \in DOMAIN jobs : jobs[k].status # "running"
    BY <2>1, <2>2 DEF QueueStatus, StatusOf
  <2>3. ASSUME NEW k \in DOMAIN jobs, jobs[k].status = "running"
        PROVE  Promised!Requeue(k)
    <3>1. \A other \in DOMAIN jobs : other # k => jobs[other].status # "running"
      BY <2>3 DEF RunningIsClaimed
    <3>2. QueueStatus' = [QueueStatus EXCEPT ![k] = "queued"]
      BY <1>0, <2>1, <2>3, <3>1, StatusChanges
    <3> QED
      BY <1>0, <1>a, <1>b, <2>3, <3>2 DEF Promised!Requeue, QueueStatus
  <2> QED
    BY <1>0, <2>2, <2>3 DEF Promised!Next, JobIds
<1> QED
  BY <1>1, <1>2, <1>3, <1>4, <1>5, QueueFrame

(* Whatever the API requests, the worker and the crashes do, the queue is one in   *)
(* which jobs run one at a time, oldest first, settle for good and are queued      *)
(* again, in their old place, by a restart alone (jobs.py:108-224): every step of  *)
(* the program is a step of OneWorkerQueue or none.                                *)
THEOREM QueueIsOneWorkerQueue == Spec => Promised!Safe
<1>1. Spec => [](TypeInv /\ RunningIsClaimed)
  <2>1. QueueInv => TypeInv /\ RunningIsClaimed
    BY DEF QueueInv
  <2> QED
    BY <2>1, QueueInvHolds, PTL
<1>2. TypeInv /\ RunningIsClaimed /\ [Next]_vars => [Promised!Next]_QueueStatus
  BY QueueRefinesStep
<1> QED
  BY <1>1, <1>2, QueueRefinesInit, PTL DEF Spec, Promised!Safe, QueueStatus

=============================================================================
