# faceymatch: a TLA+ model of the matching system

faceymatch stores images and videos, finds the faces in them, and claims who each
face is, by score or by an operator's word. Everything lives in one SQLite file
that two processes write: the API process, whose requests run in threads, and one
worker process, which drains a job queue. A transaction is atomic (`BEGIN
IMMEDIATE`, one writer at a time); what is hard is everything that happens between
two transactions, between a transaction and the bytes on disk, and between the
threads of the desktop helper. This directory holds the model of that, what TLC
checks of it and what TLAPS proves.

Sources are named relative to `src/backend/app/` unless they begin with `watch/`
(`src/backend/watch/`) or `eval/` (`src/eval/`).

## The system

| Component | State | Operations | Hard because | Module |
|---|---|---|---|---|
| Enrolment (`enrollment.py`, `api/persons.py`) | `persons`, `templates` | create, enrol a stored face, revoke, park | four paths move `persons.status`; each calls for a re-match in a second transaction | `Gallery` |
| Folder enrolment (`enroll_folder.py`) | the same | enrol a directory of imported files | one transaction per file, one re-match at the end | `Gallery` |
| Decisions (`api/identifications.py`, `api/review.py`) | `identities`, `identifications` | confirm, reassign, new, reject, bulk | reads and the timestamp come before the transaction; a bulk review owes one re-match for all its items | `Gallery`, `Claims` |
| Matching (`pipeline/matching.py`) | `matches`, auto `identities` | `rematch` | three reads without a lock, scoring, then one transaction | `Gallery`, `Claims` |
| Scoring (`core/scoring.py`, `core/acceptance.py`) | none | rank, band, gate | ties, boundaries, truncation | `Scoring` |
| Calibration (`eval/metrics.py`) | none | threshold policy | ties at the cut, rates too small to observe | `Calibration` |
| Purges (`purge.py`) | all of the above, files | purge a person, purge a file | reads before the transaction; foreign-key order; bytes unlinked after it | `Gallery`, `JobQueue`, `MediaStore` |
| Job queue (`jobs.py`) | `jobs` | insert, claim, finish, requeue | a killed worker's jobs | `JobQueue`, `OneWorkerQueue` |
| Worker (`worker.py`) | its place in the loop | run one job, restart | several transactions per job | `JobQueue` and the module of each job |
| Ingest (`pipeline/ingest.py`) | `media`, stored bytes | register a file or a folder | store, insert and enqueue are separate steps | `JobQueue`, `MediaStore` |
| Images (`pipeline/process.py`) | `tracks`, `detections` | process, match | two transactions and a re-match per file | `JobQueue` |
| Video (`pipeline/process.py`, `video.py`, `tracking.py`) | the same, checkpoint, tracker | sample, batch, resume, sweep | the tracker dies with the worker, the rows do not | `VideoJob`, `Tracking` |
| Re-embedding (`pipeline/reembed.py`, `api/config.py`, `runtime_config.py`) | settings, embeddings, templates | switch model, resume | templates re-created under another model while operators work | `ModelSwitch` |
| Live (`pipeline/live.py`) | an in-memory gallery | match a frame | a cache and its version | `ModelSwitch` |
| Storage (`core/storage.py`) | files by digest | store, resolve, unlink | bytes shared by rows, outside their transactions | `MediaStore` |
| Watch helper (`watch/`) | session thread, panel, overlay | start, stop, save | a thread outlives its stop; signals come late | `Watch` |
| Audit (`audit.py`) | a hash chain | append, verify | shared by every transaction | - |
| Others | | | ids, watch launcher, model adapters, decoding, evaluation reports, frontend, tools | - |

How they interact: the API enqueues, the worker claims; both call `purge_media`; a
gallery change is followed by a re-match job; a process job ends in a re-match of
its own tracks; a change of embedder queues a re-embed and a re-match; the audit
head every transaction moves is the version of the live gallery; schema triggers
abort a transaction that would overrule an operator or accept without a calibrated
set; the helper talks to the API over HTTP only.

`PROJECT.json` lists every component with its status, and every hazard with its line.

## The modules

- `Scoring` - the pure part of a match, as operators on a gallery (a set of
  `<<person, source>>`) and a probe (a function from sources to scores). Scores are
  integers counted in thirds, so that the mean of three is one too; cosine and
  floating point are abstracted to them. Which of two equally good templates is
  recorded as the best is left open (the code takes the older row).
- `Calibration` - how measured scores become a threshold set: rates at a threshold,
  the least threshold within a rate, the routes to `t_strong`, `t_possible`
  under its ceiling, the margin; and that a target of zero raises. A population is a sequence of even integers (the
  float above `s` is `s + 1`), a rate a fraction; powers are compared exactly.
- `Gallery` (extends `Scoring`) - persons, templates, tracks, thresholds, matches,
  claims, decisions, the requests in flight and the worker inside a re-match. One
  action per endpoint or, where the code has one, per transaction: a decision is
  `BeginDecision` (reads the track, takes the timestamp) and one of
  `CommitReject`/`CommitConfirm`/`CommitNew`/`RefuseDecision`/`BreakDecision`; a media purge is
  `BeginPurgeMedia` and `CommitPurgeMedia`/`RefusePurgeMedia`; a folder enrolment is
  `BeginFolder`, then `FolderPerson`, `FolderFile` and `FolderSkip` for its files,
  `FolderSync`, and `FolderDone` or `FolderFails`; a re-match is `ClaimJob`,
  `ReadThresholdSet`, `ReadGallery`, `ReadTracks`, then `CommitRematch` or
  `AbortRematch`, `FinishJob`; the second transaction of a gallery change is
  `FollowUp`. A template is the pair of its person and the track it was enrolled
  from; the queue is a count, its details being `JobQueue`'s. Foreign keys and
  triggers are the guard `Writable`. Confirm and reassign are the same code and the
  same action. A bulk review is its items, one after the other, and until one enrols it
  is nothing more; from then on it is a request of its own (`reviewing`, or the `owes` of
  the item it is at), which `EndReview` ends with its one re-match, `RefuseDecision` takes
  to its next item, and an error that `bulk_review` does not catch ends without one
  (`BreakDecision`: the track went between the read and the transaction, and a foreign
  key fails). A decision by itself is a review of one. Persons have names, of which the
  model keeps who shares one: any path may give a second person a name that is taken,
  except a folder enrolment, which creates only whom it did not find, and ends in an
  error at a name that two persons share. Which person a folder's name resolves to, and
  in which order the files come, is left open.
  `scored`, `said`, `late` and `dropped` are history: they feed properties, never guards.
- `Claims` - the abstract specification of what a track is claimed to show: an
  operator's word is the claim until another word or a purge; the scores may speak where
  no operator's claim and no reject that stands is on the track; who or what was purged
  is never claimed again. `Gallery` instantiates it with its identities, without the
  match and the set each is linked to (`Claimed`); whether a word is older than a word
  before it (`contested`) is open there and `late` in `Gallery`.
- `JobQueue` - the rows of `jobs` and `media`, API requests step by step through
  `ingest_file`, and the worker step by step through `run_once`, `handle_process`,
  `process_image` and `handle_rematch`, with both processes dying at any point. What
  a match says is `Gallery`'s; here a media row knows whether its tracks are stored
  and whether they were scored. `FailEarly` and `AbortMatch` are the exceptions any
  handler may raise; they are always possible, which includes the cases the code has
  for them.
- `OneWorkerQueue` - the abstract specification of the queue: every job is absent,
  queued, running, done or failed; they run one at a time, oldest first; a settled job
  stays settled; a running one may go back to its place; while one waits, work goes on.
  `JobQueue` instantiates it with the status column of its rows (`Promised`).
- `Tracking` - one update of the tracker as operators on a tracker value: two
  association passes, new tracks, ageing. Boxes and the Kalman filter are abstracted:
  a pass may pair any of its boxes with any of its tracks, one to one, so that every
  property holds whatever the detector and the filter do.
- `VideoJob` (extends `Tracking`) - `process_video` from one transaction to the next:
  frames on the sampling grid, batches (`CommitDueBatch`, `CommitLastBatch`), each
  followed by `Checkpoint`, keys the tracker gave up unwound, `Sweep`, the means and
  the media's status, the match, the end of the job; `Fails` at the points where the
  code may raise, `Crash` anywhere, `Restart` from the checkpoint with a new tracker,
  a `SecondJob` over stored rows, and an operator's `Decide` on a track meanwhile.
- `MediaStore` - one set of digests on disk for originals and crops, the rows that
  name them, uploads, folder imports, deletes of one or several files, and the process
  job that reads an original, stores crops and ends a faces-only file with a purge of
  its own. Storing comes before the row, unlinking after the purge's commit, and
  either process may die in between. A store is one step: the code writes a temporary
  file and renames it. Which faces pass the configured gates is left open.
- `ModelSwitch` - settings, template rows per model, embeddings, track means, scores'
  models, the queue, the worker inside a process, re-match or re-embed job, and API
  requests that read their settings once: `PATCH /api/config` in three steps (check,
  commit, clear the caches), enrol, revoke, park, ask for a re-embed, match a live
  frame (read the head, load, store). A face stands for one detection, its track and
  its person. The audit chain appears as `current`: what still carries the head's
  version, emptied by every transaction that appends.
- `Watch` - session threads from capture to signal, the GUI thread between clicks and
  signals, and the evidence a save stores. A frame is `<<session, tick>>`. Signals may
  be handled any time after later clicks, which allows more than Qt's queue does; the
  two-second join ends early only while the thread is in a capture or a request; a
  case is chosen throughout; frames show at most one face.
- `MCGallery`, `MCJobQueue`, `MCScoring`, `MCVideoJob`, `MCMediaStore`,
  `MCModelSwitch`, `MCWatch` - instances for TLC. `MCScoring` is the state machine
  that grows and shrinks a gallery to exercise the operators of `Scoring` and
  `Calibration`. Its scores are integers of either sign, its threshold sets any that
  the schema lets be stored (`0001_init.sql:28-49`: a margin is not negative, strong is
  not below possible), a margin wider than `t_strong` among them; a lone candidate's
  runner-up counts as 0.0 (`scoring.py:212`). The further persons (`others`) are in the
  gallery like anybody, each with the face that resembles the probe least.
- `GalleryProofs` - types, claims and decisions, enrolment and rescoring;
  `ScoringProofs` - ranking and acceptance; `CalibrationProofs` (extends it) - the
  thresholds and the margin; `JobQueueProofs`, `VideoJobProofs` (with the tracker), `MediaStoreProofs`, `ModelSwitchProofs` and
  `WatchProofs` are about the module they are named after.

The modules share no variables: each takes the part of the database its questions are
about and abstracts the rest to a choice. Where two meet they agree on the
transactions: a re-match is one in all of them, a purge is a read, a commit and an
unlink.

Definitions that begin with a comment `Mutant:`, and the other forms `PROJECT.json`
lists as mutants, are not part of any behaviour: each is a plausible bug in the
definition it stands next to, used to confirm that a property notices it.

## What TLC checks

| Run | Asks | Bounds |
|---|---|---|
| `gallery` | claims rest on evidence, link to their own match, operators are upheld, the gallery implements `Claims`, no template hides, no gallery change is unaccounted for | 2 tracks in 2 files, 2 persons, 2 threshold sets (seeded, calibrated), 3 requests (a folder counts one per file, a review one per item), 1 crash: 2,782,517 states |
| `gallery_liveness` | stored scores catch up | 2 requests, 1 crash: 68,506 states |
| `rescore_owed` | is every gallery change rescored? No | 2 requests, no crash |
| `reject_sticks` | does a reject always stick? No | 2 requests, no crash |
| `scoring` | thresholds keep the rates they were chosen for, what is accepted is clear of all others, a rival's template promotes nobody, the gate warns before it shuts | 2 persons and up to 4 more, 5 faces and one more, 3 scores of either sign, 2 threshold sets, both modes: 136,080 states; populations of up to 4 scores, and 10 gaps |
| `scoring_top_one` | is what is accepted clear with one candidate kept? It is not | as above, `TopK = 1` |
| `job_queue` | the queue implements `OneWorkerQueue`, every job settles, one running job, tracks written once, files never forgotten, processed means matched | 2 requests in flight, one file's bytes, 2 media rows, 2 jobs, 1 crash: 522,645 states |
| `tracks_only` | does a done process job leave its tracks matched? Not after a crash | 1 job, 1 crash |
| `video` | rows stand, two faces of a frame are never one track, what the tracker confirmed survives, no flicker is matched, a done job has matched everything, frames are on the grid and counted | 3 clips of 8 frames on 4 slots, batches of 1 or 3 frames, 3 runs (crashes or second jobs), 1 decision: 4,985,857 states |
| `files` | bytes a row names are there, bytes nothing names are not | 2 cases, an image, an image and a video that do not decode, 2 rows, 2 requests, 1 crash: 4,488,184 states |
| `model_switch` | everybody is carried over, a revoked face stays out, moved tracks are rescored, the live gallery is the gallery, the embedder is one its licence setting loads | 2 models, 3 faces, 3 requests, 1 fault: 5,472,333 states |
| `watch` | what is saved is what was shown or newer, what captures can be seen and stopped, what is stopped leaves nothing behind | 3 sessions, 3 ticks each and 4 in all, every second one identifies: 3,237,152 states |

Why the bounds are enough. Claims and matches are per track, so two tracks suffice
for one to rest on the other's template; two files so that a purge hits one of them;
two persons for a wrong one to be claimed. Three requests are enough for a person to
be enrolled, matched and decided about, or for two decisions on one track around a
re-match; the worker's steps and the commits of requests are not bounded. Two jobs
and two media rows let a job be requeued behind or before another, and a file be
deleted and registered again. A clip has a face that stays, one that flickers and one
that blurs; two frames to a slot so that a resume can sample a slot again, four slots
so that a batch ends inside the clip and a track ages out; three runs so that a
resumed run dies too, or a second job runs after one that died. Two rows and two cases share
bytes, two requests overlap on them. Three requests take a model there and back with
an enrolment or a revocation in between, or pair a PATCH with a PATCH; of the three
faces one is in the queue during the switch and one has lost its crop. Three watch
sessions are the least in which a stale end meets a session that is neither its own
nor the next. `MaxRequests`, `MaxCrashes`, `MaxPersons`, `MaxMedia`, `MaxJobs`,
`MaxRuns`, `MaxDecisions`, `MaxFaults`, `MaxSessions`, `MaxTicks` and `MaxAnswers` are
bounds of the models, not of the code. `Requests` in `ModelSwitch` bounds too: each is
used once. All passing runs but `scoring` turn deadlock checking off: with the bounds
used up and the queue drained the systems rest.

Symmetry. `gallery` swaps the two tracks together with their files, `files` its
requests and cases, `model_switch` its requests: each is told apart by its name only,
and none of these runs checks liveness. `gallery_liveness` uses none.

Fairness. `WF(WorkerStep)`: the worker's loop polls for ever and a supervisor starts
it again after a crash (`worker.py:250-265`); the requeue at start-up is part of that
step. `WF(FollowUp)`, `WF(FolderStep)`, `WF(DecisionEnds)` and `WF(EndReview)`: a request
that committed its change goes on to its next statement, to the next file of its folder,
or to the end of its review. No operator has to do
anything, and no crash has to happen. `OneWorkerQueue` promises `WF(Work)`, that
jobs go on being claimed and settled, and `job_queue` shows that this follows from the
fairness of the loop: with `MaxCrashes` crashes, each of which may undo a claim.

What a property excuses. Some of the properties name an event after which they
promise nothing; the event is recorded in a history variable, and what it does is the
code's behaviour, not the model's:

- `RescoreAccounted` - `dropped`: a crash of the API between its transactions, a
  re-match aborted by a purge, a media purge with a stale count, a folder enrolment
  that ended in an error after its first template, a bulk review that ended in one it
  does not catch after an item that enrolled.
- `BytesKept` - `overlapped`: bytes stored for a row while a purge that found them
  unreferenced was about to unlink them. `purge_media` decides inside its transaction
  and unlinks after it, and the store takes no lock.
- `NothingLeftBehind` - `left`, since the bytes were last stored: a crash, a file that does not decode (`ingest_file`
  stores before it decodes), a failed process job, crops committed after a purge had
  read the file's crops.
- `CarriedOver` - `unfinished`: a re-embed failed; `behind`: a face the carry skipped
  because its person is parked, or one enrolled under the old model by a request that
  read its settings before the switch and committed after the carry.
- `RevokedStays` - `raced`: a revocation between the carry's read of the templates and
  its write. The carried row is active again, while `persons.status` says unenrolled.
- `MovedIsRescored` - `unfinished`: a re-embed, a re-match or a process job that failed.
- `LicenceCoherent` - `blind`: a PATCH committed over settings another PATCH had
  changed since it read them. Each is coherent with what it read; together they may
  select a non-commercial embedder with its licence switched off.
- `GridHolds`, `CountsAreTrue` - `resumedIn` and `crashes`: the slot of the checkpoint is
  sampled once more by the run that resumes. `video.py:126` calls it "the first slot
  at or after the resume point"; line 128 rounds down.
- `SavedAsShown` - the bytes run `ahead` when the thread has retained a frame whose
  result the panel has not handled; the face `moved` when a result came in while the
  menu was open. Neither is a way back: the property still says that the bytes are then
  of a later frame and the face of no earlier one. `CaptureIsShown` - `overlapped`: a session started before an older
  one's end was handled. `StoppedIsClean` - `died`: a thread ended by an exception that
  is neither a capture's nor the API's emits no `ended`.

### What the violated runs show

- `rescore_owed` - a re-match that reads a track or template of a file which is
  deleted before it writes breaks a foreign key, fails, and is not queued again. The
  delete queues one only if the file had templates. In the run a decision enrols a track
  of one file, and the re-match it calls for reads the track of another file whose
  delete commits before it writes. `docs/spec.md:201` has every
  change of the gallery re-matched. `RescoreAccounted` states what does hold.
- `reject_sticks` - `apply_decision` takes its timestamp before it waits for the
  write lock, and `rematch` orders decisions by that timestamp. `DecisionStands`
  states what does hold: tracks whose decisions commit in timestamp order are upheld.
- `scoring_top_one` - `top_k = 1` is legal (`config.py:77`); the runner-up that the
  margin is measured to has then been cut off.
- `tracks_only` - the early return for tracks already stored also skips matching them.

### Noticed while modelling

Differences between the code and its words, or between two parts of the code, that no
violated run is about:

- `metrics.py:58` says that a margin is never allowed to cost more than the fraction
  `genuine_quantile` of the genuine matches, and the docstring at 407-409 that the
  ceiling stops it from demoting more. The quantile is interpolated between two gaps, so
  of `n` gaps up to `q * (n - 1)`, rounded up, lie below it: with the default 0.05 and ten
  gaps one of them, a tenth. `MarginSpares` states, and `MarginKeepsItsPromise` proves, the
  bound the code does keep; it is weaker than the words. `TenGaps` are in the run so that
  the case is among those checked.
- `band_for_candidates` measures somebody alone in the gallery against a runner-up of 0.0
  (`scoring.py:212`). A first rival that scores below zero widens the margin: with
  `t_strong` 0.25 and a margin of 0.30, which the schema allows, a lone 0.27 is ambiguous
  and becomes strong when a rival at -0.10 is enrolled. `RivalNeverPromotes` states that
  nothing else promotes, and the run's second threshold set has this case.
- `choose_thresholds` guards against `fpir_target = 0` where it asks what can be resolved
  (`metrics.py:575`), and divides by it in the note a few lines on (589); `config.py:91`
  bounds the setting nowhere. A target of zero raises `ZeroDivisionError`
  (`"division_by_zero"` in `Route`), although `fmr_for_fpir` and `threshold_at_rate` work
  for it.
- `bulk_review` turns four kinds of error into an entry of its answer and goes on
  (`review.py:116`). A `sqlite3.IntegrityError`, of a track deleted between an item's read
  and its transaction, ends the request after earlier items have committed and skips the
  re-match for those that enrolled (`BreakDecision`).
- `ingest_folder`'s docstring says that a single unreadable file does not abort the
  import. It catches `ImageDecodeError`; a video that does not open raises
  `VideoDecodeError`, which is not one, and ends the import. `Import` does the same.
- `enroll_folder` reports a person that was parked or purged between two files as "no
  quality-passing face" (`enroll_folder.py:174-177`), where its comment expects a
  re-embed only.
- `registry.py:177` keys the loaded models by everything "that changes which weights get
  loaded, and how", but not by `min_det_score`, which the detector is built with (line
  160). A PATCH clears the cache of the API process only, so the worker's detector keeps
  its old floor until the worker restarts, while `api/config.py:24-27` says that a change
  takes effect at once.

## What is proved

Every safety property a passing run checks is a theorem: it holds for every value of the
constants, and the run is the small instance. The bounds of a model are constants like the others, so a theorem says nothing about how often
something may happen. Each is an induction over `Next` with one step per action, or per
group of actions that leave alone what the invariant is about, and rests on the
assumptions its module names. They say that the bounds are naturals and that the given
functions have their types, and beyond that only this:

- `None` and `Job` are not a person, a file or a request: values the code has as null,
  or as the worker.
- `NoneAssumption` of `Watch` - also not a frame or a result. `ThresholdAssumption` of
  `MCScoring` - what the schema checks of a threshold set: the margin is not negative,
  and strong is not below possible. Scores are any integers.
- `MarginKeepsItsPromise` is about gaps that are not negative: a gap is, unless one person
  is enrolled and a face of theirs scores below zero (`eval/run.py:89`).
- `VideosAssumption` - a file has finitely many frames and a frame finitely many boxes:
  the detector returns a list.
- `GridAssumption`, `TrackerAssumption`, `BatchAssumption` - periods, batches and
  `MinHits` are at least one (`config.py:55`, `70`, `75`); times are whole milliseconds.
- `CropsAssumption` - originals and crops are different digests: the code keeps them in
  two stores (`storage.py:75-138`).
- `FacesAssumption`, `ModelsAssumption`, `RequestsAssumption` of `ModelSwitch` - the
  faces on their way are finitely many, and a model, a request and a kind of job are
  different things, as their columns and types keep them.

### Gallery

- `TypeCorrectness`: the invariant is `TypeInv`, which adds that a worker past its first
  read holds a threshold set, so that the rows it writes are well formed.
  `RowsAreMatches` shows they are, from `Writable`: a row that names a person or a
  template not there is one the schema refuses.
- `ClaimsLinkToTheirOwn` and `AutoClaimsHaveEvidence`: from `ClaimInv`, which adds
  that an auto claim is always linked to the match of its person. Without that a media
  purge, which finds auto claims through their link, could leave one behind.
- `OperatorsAreUpheld`: from `StandsInv`, which adds that the decision last said on a
  track that is not late is among the newest of its rows, which is what
  `LatestIsReject` asks for.
- `WorkersYieldToOperators`: the action property `OperatorWins`, from types alone. It has
  no run of its own: `KeepsClaims` is stronger.
- `GalleryKeepsClaims`: every step maps to one of `Claims` or to none: a decision that
  commits to `Reject` or `Tag`, a re-match to `Infer`, the purges to `ForgetPerson` and
  `ForgetTracks`, a new person to `Meet`. Only the re-match needs more than the types:
  `Writable` for whom it may claim, and `StandsInv` to know that a reject which stands is
  the one `LatestIsReject` finds.
- `PurgedAreNotClaimed`: `NoGhosts`, an invariant of `Claims` carried over to `Gallery` by
  the refinement alone.
- `TemplatesAreVisible`: `NoTemplateHidden` is inductive once active templates are typed.
- `RescoresAreAccountedFor`: from `RescoreInv`, which adds that a worker whose reads
  predate a change has a successor (`ReadIsCurrent`) and that a job in its hands is
  marked running. An item of a review leaves what the review owes with the next item or
  with its end.

Frame lemmas (`ClaimFrame`, `EnrolmentFrame`) name the few actions that touch the
variables in question; a folder enrolment leaves claims alone and is one more way to
enrol.

### JobQueue

All from one invariant, `QueueInv`: `TypeInv` (types; the worker's job is the running
one, and a process job while it works on a file; process jobs are about media once
inserted; an id not handed out has no row), and

- `OneJobRuns`: `RunningIsClaimed`, inductive with the types.
- `TracksAreStoredOnce`: from `StoredInv`. A job that is about to store found its row
  without tracks and works alone, so the row is still without; an id is handed out
  once, so a file deleted and registered again starts over as another row.
- `FilesAreAccountedFor`: `MediaAccounted`, which needs `RunningIsClaimed` when a job
  ends, and that a job past its storing leaves a settled row (`ProcessedInv`).
- `ProcessedFilesAreMatched`: from `MatchedInv`: tracks wait for their scores only in the
  matching of their own job.
- `QueueIsOneWorkerQueue`: every step maps to one of `OneWorkerQueue` or to none, by the
  column of statuses: an insertion to `Add`, a claim to `Claim` of the oldest queued job,
  an end to `Settle`, a restart, which requeues the one running job, to `Requeue`. This is the
  safety half of `KeepsThePromise`; its fairness stays with TLC.

### VideoJob

- `TypeCorrectness`: `TypeInv` adds to the types that what is held and stored is finite,
  that the worker works for a running job, and that the tracker is `Sound`: its keys are
  below the next one to be handed out, and a track was ever confirmed just when it had
  `MinHits` hits. `UpdatedAre` shows that an update keeps that, whatever the passes pair.
- `RowsAreKept`: the action property `RowsStand`; a batch writes only what was not there.
- `FacesOfAFrameDiffer`: from `FaceInv`: boxes held of one slot have keys of their own
  (`AssignedAre`, through both passes), keys have rows of their own, and no row this run
  wrote is of a slot still held. Rows of earlier runs have other tracks, as `made` only
  grows.
- `ConfirmedFacesSurvive`: from `ConfirmedInv`, for a first run that is not cut short: a
  track has as many rows and held boxes as the tracker counted hits (`Tallied`), a
  retired one at least `MinHits`, and what is neither live nor retired fewer. A sample
  adds one of each (`SampleHits`), a commit turns boxes into rows and ignores none
  (`CommitHits`), an unwinding takes from discarded tracks only. So what the sweep, which
  counts rows, keeps is what the tracker, which counts hits, confirmed.
- `FlickersAreNotMatched`, `DoneJobsMatched`: from `MatchInv`: from the sweep to the end of
  the job no track is short, and after the match none that has a mean is unmatched.
- `FramesAreOnGrid`: from `GridInv`: whatever frame the worker is past lies before its
  slot, and it may start behind the slot's beginning only where it resumed
  (`CursorHolds`).
- `FramesAreCounted`: from `CountInv`: the count of frames is the number of slots that
  have frames, up to the worker's own, and at most one more for every crash. So is a
  checkpoint's; one that a run may resume from is short of that by one, which is the
  sample that the run takes again.

### MediaStore

All from `StoreInv`: a purge still has the original of the row it deletes, and a row
nobody has processed yet has no crops.

- `TypeCorrectness`: also that no two rows of a case have the same bytes.
- `NamedBytesAreKept`: from `KeptInv`: bytes that a row names or somebody holds to name
  are on disk, and if a purge is about to unlink them they are in `overlapped`. A purge
  dooms only what nobody names; who stores it again meanwhile overlaps.
- `BytesAreAccountedFor`: `NothingLeftBehind`, which needs the two facts above: a delete
  dooms the original it read, and the crops of a file that is deleted are all known.

### ModelSwitch

- `LicenceIsCoherent`: from `LicenceInv`: a checked PATCH asks for a state its own check
  passed. `ServedGalleryIsCurrent`: from `LiveInv`: a matrix loaded under a head that is
  still the head is the gallery, since whatever changes it appends to the chain.
- `SwitchCarriesOver` and `MovedTracksAreRescored`: from `SwitchInv`. A job that runs on
  settings no longer in force has the switch's re-embed behind it (`SwitchHolds`), and
  until that is through nothing is claimed. The carry reads the templates when no crop
  and no track is pending (`CursorsHold`, `MovedInv`), and from then on whoever is in
  force is ruled on, about to be carried, or skipped by name (`CarryInv`). A re-embed
  ends only with a re-match behind it (`FollowUpHolds`), which finds every track moved.
- `RevokedComesBackByEnrolment`: the action property `RevokedStays`, from `CarryHolds`:
  whoever the carry brings is in force somewhere, or was revoked under it.
- `TypeCorrectness`: with `WorkerHolds`, the kind of the job at each step of the worker.

### Watch

All from `WatchInv`: every thread but the current one and the one that is being joined
was told to stop and has no answer in hand (`ThreadsInv`); an end is the last signal of
its thread.

- `EvidenceIsAsShown`: from `RetainedInv`: the frame retained is that of a result about to
  be emitted, of the last one posted, or of the one the panel shows; and, while no signal
  came in under it, the menu is about the face behind the box (`MenuInv`). That nothing
  stored is older takes an order of sessions (`SessionOrder`: who has an answer in hand is
  the last to have started) and of frames: what is posted or identified was captured no
  later than the retained one (`FramesInv`), and results are handled in the order of
  their frames (`OrderInv`).
- `NobodyIsWatchedUnseen`: from `ShownInv`, `StoppingCleansUp`: from `CleanInv`: when all
  threads are gone the last signal to come is an end, and its handler clears the screen.
- `TypeCorrectness`: with `StepsHold`, that a thread with a tick in hand has one to go to.

### Scoring and calibration

- `AcceptedIsClearOfOthers`: once somebody ranks behind the top, somebody is second
  (`RanksAre`), and nobody behind scores more (`SecondIsAhead`). That the person of a
  rank exists takes no induction: counting who comes before is an injection of the
  persons into as many numbers (`Ranking`, for any finite strict order; `HighestIs` has
  from it that a best source exists). `TopK >= 2` is a hypothesis, and `scoring_top_one`
  shows that it is needed.
- `RivalsNeverPromote`: under max a score only grows with the gallery (`ScoresGrow`), so
  the second score does, while the top's stays, unless there was no second and the 0.0
  that stood for it falls. It needs no such hypothesis: with one candidate kept the
  second score is zero before and after. It holds for any integer scores and threshold
  sets.
- `WarnsBeforeShutting`: the gallery grows by one person at most (`SizeGrowsByOne`).
- `ThresholdIsLowestWithinTarget`: what the docstring of `threshold_at_rate` promises, for
  a descending population of any length and any target: at the threshold or above it no
  more than the target is accepted, below it more, unless the target allows everybody.
- `StrongKeepsItsPromise`, for a target that is not zero: the higher of two thresholds keeps what each keeps
  (`HigherOfTwo`), and on the impostors' route the pairs accepted are no more than the
  number allowed (`PairsAllowed`), which is enough because powers grow with their base
  (`PowersGrow`). That takes an induction on the exponent; the library's theorem has an
  operator for a parameter, so it is done in its set form (`SetInduction`, which follows
  from the greatest element of a finite set of integers).
- `PossibleKeepsItsPromise`: the correct scores are the k-th of them in turn
  (`CorrectScoresAre`, from `Ranking`), the needed-th has as many at or above it
  (`HighestScores`), and whatever lies below it recalls no less. That `t_possible` is below
  `t_strong` holds for any input.
- `MarginKeepsItsPromise`: what lies below an interpolated quantile lies below the upper of
  its two scores (`QuantileIs`), and is at most `q * (n - 1)` gaps, rounded up.
- `ThresholdsKept`: the property `ThresholdsKeepTheirPromise`, whose populations are
  instances of the three theorems above, which hold for populations of any size.

### Only model-checked

The liveness properties: `RescoreHappens`, `EveryJobSettles` and the fairness half of
`KeepsThePromise`. Fairness is beyond the prover.

## Not modelled, and the plan

Not modelled because there is no protocol in it: model inference, decoding, alignment
and quality arithmetic, the reports of the evaluation, tools, views of the frontend,
read-only endpoints, migration of the schema.

Not modelled yet, in the order they are worth it:

1. `AuditChain` - append and verification while others append.
2. The watch launcher: one helper at a time, an unaudited start undone. A launch that
   fails to audit terminates whichever child is current by then (`watch_launch.py:207`).
3. Identifiers: that `uuid7` orders what one process made.

## Running it

    tlc -workers 2 -config MCGallery.cfg MCGallery.tla
    tlc -workers 2 -config MCJobQueue.cfg MCJobQueue.tla
    tlc -workers 2 -config MCScoring.cfg MCScoring.tla
    tlc -workers 2 -config MCVideoJob.cfg MCVideoJob.tla
    tlc -workers 2 -config MCMediaStore.cfg MCMediaStore.tla
    tlc -workers 2 -config MCModelSwitch.cfg MCModelSwitch.tla
    tlc -workers 2 -config MCWatch.cfg MCWatch.tla
    tlapm GalleryProofs.tla && tlapm ScoringProofs.tla && tlapm CalibrationProofs.tla
    tlapm JobQueueProofs.tla && tlapm MediaStoreProofs.tla && tlapm WatchProofs.tla
    tlapm ModelSwitchProofs.tla && tlapm VideoJobProofs.tla

A run of TLC takes about two minutes or less on two workers, a module of proofs a few.
