------------------------------ MODULE VideoJob ------------------------------
(***************************************************************************)
(* The video path of a process job (pipeline/process.py, pipeline/video.py *)
(* and the tracker): frames are sampled on a time grid, their boxes held   *)
(* until a batch commits, every batch followed by a checkpoint in a        *)
(* transaction of its own, and at the end of the file short tracks are     *)
(* swept, means written and the tracks matched.                            *)
(*                                                                         *)
(* The worker may die between any two transactions and resumes from the    *)
(* checkpoint with a new tracker; an operator may decide on a track while  *)
(* the job still runs; and the file may be given to a second job.          *)
(***************************************************************************)
EXTENDS Tracking

CONSTANTS
    Videos,        \* what each decoded frame of a file shows
    FrameMs,       \* time between two decoded frames
    SlotMs,        \* the sampling grid, 1000 / sample_fps
    BatchSizes,    \* values video_batch_frames may have
    MaxRuns,       \* bound: runs of process_video, after crashes or for second jobs
    MaxDecisions   \* bound: tracks operators decide on

ASSUME VideosAssumption ==
    \A v \in Videos :
        /\ IsFiniteSet(DOMAIN v) /\ DOMAIN v \subseteq Nat
        /\ \A f \in DOMAIN v : /\ IsFiniteSet(DOMAIN v[f]) /\ DOMAIN v[f] \subseteq Nat
                             /\ \A i \in DOMAIN v[f] : v[f][i] \in Box
ASSUME GridAssumption == FrameMs \in Nat \ {0} /\ SlotMs \in Nat \ {0}
ASSUME BatchAssumption == BatchSizes \subseteq Nat \ {0}
ASSUME BoundsAssumption == MaxRuns \in Nat \ {0} /\ MaxDecisions \in Nat

VARIABLES
    video,        \* the file: frame number to the boxes the detector finds in it
    batchFrames,  \* the video_batch_frames in force
    detections,   \* the rows of detections, by <<slot, det_idx>>
    tracks,       \* the rows of tracks of this file, by id
    made,         \* how many track ids were handed out
    decided,      \* tracks an operator's decision refers to
    matched,      \* tracks that were scored against the gallery
    status,       \* media.status
    job,          \* the file's process job: how many there were, its status, its progress
    worker,       \* process_video's local state
    crashes,
    resumedIn     \* history: slots a checkpoint was resumed in

input == <<video, batchFrames>>
rows == <<detections, tracks, made, decided, matched, status>>
vars == <<input, rows, job, worker, crashes, resumedIn>>

-----------------------------------------------------------------------------
NoProgress == [sampled |-> FALSE, lastMs |-> 0, decoded |-> 0, counted |-> 0]

Idle ==
    [step |-> "idle", frame |-> 0, slot |-> 0, startMs |-> 0, lastMs |-> 0, decoded |-> 0,
     counted |-> 0, pending |-> {}, tracker |-> NewTracker, ids |-> [k \in {} |-> 0],
     discarded |-> {}]

FrameNumbers == DOMAIN video
TimeOf(f) == f * FrameMs

\* One box held until its batch commits.
PendingBox == [slot : Nat, det : Nat, t : Nat, key : Nat, passes : BOOLEAN]

Detection == [track : Nat, t : Nat, passes : BOOLEAN]

Progress == [sampled : BOOLEAN, lastMs : Nat, decoded : Nat, counted : Nat]

TypeOK ==
    /\ video \in Videos
    /\ batchFrames \in BatchSizes
    /\ \A d \in DOMAIN detections : detections[d] \in Detection /\ detections[d].track <= made
    /\ tracks \subseteq 1..made
    /\ made \in Nat
    /\ decided \subseteq tracks /\ matched \subseteq tracks
    /\ status \in {"new", "processing", "done", "failed"}
    /\ job.number \in 1..MaxRuns
    /\ job.status \in {"queued", "running", "done", "failed"}
    /\ job.progress \in Progress
    /\ worker.step \in {"idle", "ready", "sampled", "committed", "swept", "averaged",
                         "matching", "finishing", "failing", "marking", "down"}
    /\ worker.pending \subseteq PendingBox
    /\ \A k \in DOMAIN worker.tracker.live : worker.tracker.live[k] \in Track
    /\ \A k \in DOMAIN worker.ids : worker.ids[k] \in 1..made
    /\ crashes \in 0..(MaxRuns - job.number)

Init ==
    /\ video \in Videos
    /\ batchFrames \in BatchSizes
    /\ detections = [d \in {} |-> 0]
    /\ tracks = {} /\ made = 0 /\ decided = {} /\ matched = {}
    /\ status = "new"
    /\ job = [number |-> 1, status |-> "queued", progress |-> NoProgress]
    /\ worker = Idle
    /\ crashes = 0
    /\ resumedIn = {}

DetectionsOf(id) == {d \in DOMAIN detections : detections[d].track = id}

-----------------------------------------------------------------------------
(* Claiming the job and resuming it.                                        *)

\* Mutant: frames from the start again, with the counts of the checkpoint.
ResumeFromStart(progress) == 0

\* _resume_from: strictly after the last committed frame; a checkpoint at 0 ms
\* is not told from none, but its counts are carried.
ResumeMs(progress) == IF progress.lastMs = 0 THEN 0 ELSE progress.lastMs + 1

\* The claim, the checkpoint and the transaction that says 'processing'.
Begin ==
    /\ worker.step = "idle" /\ job.status = "queued"
    /\ job' = [job EXCEPT !.status = "running"]
    /\ status' = "processing"
    /\ worker' = [Idle EXCEPT !.step = "ready",
                              !.startMs = ResumeMs(job.progress),
                              !.lastMs = ResumeMs(job.progress),
                              !.slot = ResumeMs(job.progress) \div SlotMs,
                              !.decoded = job.progress.decoded,
                              !.counted = job.progress.counted]
    /\ resumedIn' = IF job.progress.sampled THEN resumedIn \cup {job.progress.lastMs \div SlotMs}
                    ELSE resumedIn
    /\ UNCHANGED <<input, detections, tracks, made, decided, matched, crashes>>

-----------------------------------------------------------------------------
(* Sampling.                                                                *)

\* Mutant: every decoded frame is sampled.
OffGrid(f) == f >= worker.frame /\ TimeOf(f) >= worker.startMs

\* iter_samples: the decoded frames the grid may still take.
OnGrid(f) ==
    /\ f >= worker.frame
    /\ TimeOf(f) >= worker.startMs
    /\ TimeOf(f) >= worker.slot * SlotMs

EndOfFile == \A f \in FrameNumbers : ~ OnGrid(f)

\* The frame after which _unwind has nothing left to drop and no batch is due.
FrameDone == worker.step = "sampled" /\ worker.discarded = {}
BatchDue == worker.decoded % batchFrames = 0
ReadyForNext == worker.step = "ready" \/ (FrameDone /\ ~ BatchDue)

\* One sample: detect, track, and hold its boxes for the batch.
SampleFrame ==
    /\ ReadyForNext
    /\ \E f \in FrameNumbers :
          /\ OnGrid(f) /\ \A g \in FrameNumbers : OnGrid(g) => f <= g
          /\ \E first \in FirstPass(worker.tracker, video[f]) :
             \E second \in SecondPass(worker.tracker, video[f], first) :
                LET t == TimeOf(f)
                    keys == Assigned(worker.tracker, video[f], first, second)
                    held == {[slot |-> worker.slot, det |-> i, t |-> t, key |-> keys[i],
                              passes |-> video[f][i].passes] : i \in DOMAIN keys}
                    next == worker.slot + 1
                IN  worker' = [worker EXCEPT
                        !.step = "sampled", !.frame = f + 1, !.lastMs = t,
                        !.slot = IF t \div SlotMs + 1 > next THEN t \div SlotMs + 1 ELSE next,
                        !.decoded = @ + 1, !.counted = @ + Cardinality(held),
                        !.pending = @ \cup held,
                        !.tracker = Updated(@, t, video[f], first, second),
                        !.discarded = Discarded(worker.tracker, t, keys)]
    /\ UNCHANGED <<input, rows, job, crashes, resumedIn>>

\* The rows with these tracks gone: their detections stay, with no track.
Untracked(ids) ==
    [d \in DOMAIN detections |->
        IF detections[d].track \in ids THEN [detections[d] EXCEPT !.track = 0]
        ELSE detections[d]]

\* Mutant: deletes do not look at what refers to a track.
NeverReferred(ids) == FALSE

\* A decision or a match refers to one of these tracks: the foreign key refuses the
\* delete.
Referred(ids) == ids \cap (decided \cup matched) # {}

\* _unwind, one track at a time; one that is not written yet is only forgotten by the
\* tracker, and gets a row when its boxes are committed.
Unwind(k) ==
    /\ worker.step = "sampled"
    /\ k \in worker.discarded
    /\ LET written == {worker.ids[i] : i \in DOMAIN worker.ids \cap {k}}
       IN  /\ ~ Referred(written)
           /\ tracks' = tracks \ written
           /\ detections' = Untracked(written)
           /\ worker' = [worker EXCEPT !.discarded = @ \ {k},
                            !.ids = [i \in DOMAIN @ \ {k} |-> @[i]]]
    /\ UNCHANGED <<input, made, decided, matched, status, job, crashes, resumedIn>>

-----------------------------------------------------------------------------
(* Committing.                                                              *)

\* Mutant: rows of a frame that was already written are written again.
OrReplace(d) == TRUE

\* INSERT OR IGNORE: a slot and box already written is left as it is.
OrIgnore(d) == d \notin DOMAIN detections

\* The ids of the pending tracks, handed out in the order their boxes came.
NewKeys == {b.key : b \in worker.pending} \ DOMAIN worker.ids

IdsAfter ==
    [k \in DOMAIN worker.ids \cup NewKeys |->
        IF k \in NewKeys THEN made + Cardinality({j \in NewKeys : j <= k})
        ELSE worker.ids[k]]

\* _commit_batch: the pending boxes, their tracks and embeddings, in one transaction.
\* A track is inserted even when every box of it is ignored.
CommitBatch(next) ==
    LET written == {b \in worker.pending : OrIgnore(<<b.slot, b.det>>)}
        box(d) == CHOOSE b \in written : <<b.slot, b.det>> = d
        new == {<<b.slot, b.det>> : b \in written}
    IN  /\ detections' = [d \in DOMAIN detections \cup new |->
               IF d \in new THEN [track |-> IdsAfter[box(d).key], t |-> box(d).t,
                                  passes |-> box(d).passes]
               ELSE detections[d]]
        /\ tracks' = tracks \cup {IdsAfter[k] : k \in NewKeys}
        /\ made' = made + Cardinality(NewKeys)
        /\ worker' = [worker EXCEPT !.step = next, !.pending = {}, !.ids = IdsAfter]
        /\ UNCHANGED <<input, decided, matched, status, job, crashes, resumedIn>>

CommitDueBatch == FrameDone /\ BatchDue /\ CommitBatch("committed")

CommitLastBatch ==
    ReadyForNext /\ EndOfFile /\ worker.pending # {} /\ CommitBatch("ready")

\* _checkpoint: written after the batch, in its own transaction.
Checkpoint ==
    /\ worker.step = "committed"
    /\ job' = [job EXCEPT !.progress =
           [sampled |-> TRUE, lastMs |-> worker.lastMs, decoded |-> worker.decoded,
            counted |-> worker.counted]]
    /\ worker' = [worker EXCEPT !.step = "ready"]
    /\ UNCHANGED <<input, rows, crashes, resumedIn>>

-----------------------------------------------------------------------------
(* The end of the file.                                                     *)

\* Mutant: a short track is told from the tracker's memory.
UnconfirmedTracks ==
    {worker.ids[k] : k \in DOMAIN worker.ids \ ConfirmedKeys(worker.tracker)}

\* Mutant: a track of exactly MinHits is swept as well.
BarelyConfirmed == {id \in tracks : Cardinality(DetectionsOf(id)) <= MinHits}

\* Told from the rows, so that it catches what an earlier run left.
ShortTracks == {id \in tracks : Cardinality(DetectionsOf(id)) < MinHits}

Sweep ==
    /\ ReadyForNext /\ EndOfFile /\ worker.pending = {}
    /\ ~ Referred(ShortTracks)
    /\ tracks' = tracks \ ShortTracks
    /\ detections' = Untracked(ShortTracks)
    /\ worker' = [worker EXCEPT !.step = "swept"]
    /\ UNCHANGED <<input, made, decided, matched, status, job, crashes, resumedIn>>

\* _write_track_means and the transaction that says 'done'.
FinishMedia ==
    /\ worker.step = "swept"
    /\ status' = "done"
    /\ worker' = [worker EXCEPT !.step = "matching"]
    /\ UNCHANGED <<input, detections, tracks, made, decided, matched, job, crashes, resumedIn>>

\* Mutant: only the tracks of this run are matched.
ThisRunsTracks == {worker.ids[k] : k \in DOMAIN worker.ids} \cap tracks

\* Every track of the file, not just this run's.
Surviving == tracks

\* A track has a mean when one of its crops was good enough to embed.
HasMean(id) == \E d \in DetectionsOf(id) : detections[d].passes

\* rematch of the surviving tracks.
MatchTracks ==
    /\ worker.step = "matching"
    /\ matched' = matched \cup {id \in Surviving : HasMean(id)}
    /\ worker' = [worker EXCEPT !.step = "finishing"]
    /\ UNCHANGED <<input, detections, tracks, made, decided, status, job, crashes, resumedIn>>

Finish ==
    /\ worker.step = "finishing"
    /\ job' = [job EXCEPT !.status = "done"]
    /\ worker' = Idle
    /\ UNCHANGED <<input, rows, crashes, resumedIn>>

-----------------------------------------------------------------------------
(* Failing, dying and starting over.                                        *)

\* An exception: the file does not decode, a model fails, the re-match's rows were
\* purged under it, or a decision refers to a track that is to be dropped.
Fails ==
    /\ worker.step \in {"ready", "sampled", "matching"}
    /\ worker' = [Idle EXCEPT !.step = "failing"]
    /\ UNCHANGED <<input, rows, job, crashes, resumedIn>>

\* run_once: the job fails in one transaction, its media in the next.
FailJob ==
    /\ worker.step = "failing"
    /\ job' = [job EXCEPT !.status = "failed"]
    /\ worker' = [worker EXCEPT !.step = "marking"]
    /\ UNCHANGED <<input, rows, crashes, resumedIn>>

MarkFailed ==
    /\ worker.step = "marking"
    /\ status' = "failed"
    /\ worker' = Idle
    /\ UNCHANGED <<input, detections, tracks, made, decided, matched, job, crashes, resumedIn>>

Crash ==
    /\ crashes + job.number < MaxRuns
    /\ worker.step # "down"
    /\ crashes' = crashes + 1
    /\ worker' = [Idle EXCEPT !.step = "down"]
    /\ UNCHANGED <<input, rows, job, resumedIn>>

\* requeue_running at startup: the job keeps its progress.
Restart ==
    /\ worker.step = "down"
    /\ job' = [job EXCEPT !.status = IF @ = "running" THEN "queued" ELSE @]
    /\ worker' = Idle
    /\ UNCHANGED <<input, rows, crashes, resumedIn>>

\* A second process job for the file, which another request queued.
SecondJob ==
    /\ crashes + job.number < MaxRuns
    /\ worker.step = "idle"
    /\ job.status \in {"done", "failed"}
    /\ job' = [number |-> job.number + 1, status |-> "queued", progress |-> NoProgress]
    /\ UNCHANGED <<input, rows, worker, crashes, resumedIn>>

\* An operator decides on a track the file page already shows.
Decide(id) ==
    /\ id \in tracks \ decided
    /\ Cardinality(decided) < MaxDecisions
    /\ decided' = decided \cup {id}
    /\ UNCHANGED <<input, detections, tracks, made, matched, status, job, worker, crashes,
                   resumedIn>>

-----------------------------------------------------------------------------
WorkerStep ==
    \/ Begin \/ SampleFrame \/ (\E k \in worker.discarded : Unwind(k))
    \/ CommitDueBatch \/ CommitLastBatch \/ Checkpoint
    \/ Sweep \/ FinishMedia \/ MatchTracks \/ Finish
    \/ Fails \/ FailJob \/ MarkFailed \/ Restart

Next == WorkerStep \/ Crash \/ SecondJob \/ (\E id \in tracks : Decide(id))

Spec == Init /\ [][Next]_vars

-----------------------------------------------------------------------------
(* Properties.                                                              *)

(* A detection stays the row it was first written as, whatever is sampled again *)
(* after a crash or by a second job; all it can lose is its track.             *)
(* (process.py:607-632)                                                       *)
RowsStand ==
    [][\A d \in DOMAIN detections :
          /\ d \in DOMAIN detections'
          /\ detections'[d] \in {detections[d], [detections[d] EXCEPT !.track = 0]}]_vars

(* Two faces of one frame are never the same track, through both passes of the *)
(* tracker and across runs (tracking.py:150-205, process.py:577-607).         *)
OneFacePerFrame ==
    \A d, e \in DOMAIN detections :
        d[1] = e[1] /\ d # e /\ detections[d].track = detections[e].track
            => detections[d].track = 0

(* When no run of the job was cut short, what survives the sweep is exactly what *)
(* the tracker confirmed: no face is lost and no flicker kept                 *)
(* (process.py:421-425).                                                      *)
ConfirmedSurvives ==
    worker.step \in {"swept", "matching"} /\ crashes = 0 /\ job.number = 1 =>
        tracks = {worker.ids[k] : k \in ConfirmedKeys(worker.tracker)}

(* No flicker is ever matched or kept by a job that finished, whichever run      *)
(* wrote it and wherever that run died (process.py:421-425, 517-534).         *)
NoFlickerMatched ==
    /\ \A id \in matched : Cardinality(DetectionsOf(id)) >= MinHits
    /\ job.status = "done" => ShortTracks = {}

(* A video job that reports it is done has matched every track that has a mean, *)
(* also the tracks an earlier run wrote (process.py:427-463).                 *)
DoneIsMatched ==
    job.status = "done" => \A id \in tracks : HasMean(id) => id \in matched

(* The frame of a slot is the first one at or after the slot's time, whoever      *)
(* sampled it (video.py:12-16), except in a slot a checkpoint was resumed in:  *)
(* a resume samples that slot once more, from a later frame.                  *)
Slots == {TimeOf(f) \div SlotMs : f \in FrameNumbers}

GridHolds ==
    \A d \in DOMAIN detections : d[1] \notin resumedIn =>
        /\ detections[d].t >= d[1] * SlotMs
        /\ \A f \in FrameNumbers : TimeOf(f) >= d[1] * SlotMs => TimeOf(f) >= detections[d].t

(* The frames a job reports are every slot once, and at most one more for every *)
(* crash it was resumed after (process.py:473-505).                           *)
CountsAreTrue ==
    worker.step \in {"swept", "matching", "finishing"} =>
        worker.decoded \in Cardinality(Slots)..(Cardinality(Slots) + crashes)
=============================================================================
