----------------------------- MODULE ModelSwitch -----------------------------
(***************************************************************************)
(* Changing the embedder under a running system: PATCH /api/config         *)
(* (api/config.py, runtime_config.py), the re-embed job it queues          *)
(* (pipeline/reembed.py), the re-matches behind it, and the operators who  *)
(* go on enrolling, revoking and matching live frames (api/live.py,        *)
(* pipeline/live.py) meanwhile.                                            *)
(*                                                                         *)
(* A face stands for one detection, its track and the person it is tagged  *)
(* with.  Its template rows are kept per model.  An API request reads the  *)
(* settings once, before its handler runs; the worker reads them once per  *)
(* job.  What has no transaction of its own is a step of its own.          *)
(***************************************************************************)
EXTENDS Naturals, Sequences, FiniteSets, SequencesExt

CONSTANTS
    Models,         \* embedders that are locked, present and have an adapter
    NonCommercial,  \* those whose licence needs allow_noncommercial_models
    Initial,        \* the configured one at the start
    Faces,
    Arriving,       \* faces of media whose process job is still queued
    Lost,           \* faces whose aligned crop is gone from the crop store
    Requests,       \* API requests, each used once
    MaxFaults,      \* bound: deaths of the worker and jobs that raise
    NoModel

ASSUME ModelsAssumption == /\ NonCommercial \subseteq Models
                           /\ Initial \in Models \ NonCommercial
                           /\ NoModel \notin Models
                           /\ Models \cap {"process", "rematch"} = {}
ASSUME FacesAssumption == /\ Arriving \subseteq Faces /\ IsFiniteSet(Arriving)
                          /\ Lost \subseteq Faces \ Arriving
ASSUME RequestsAssumption == Requests \cap Models = {}
ASSUME BoundsAssumption == MaxFaults \in Nat

VARIABLES
    config,      \* the effective settings: environment overlaid with runtime_config
    row,         \* row[f][m]: the newest template row of the face under the model
    enrolled,    \* persons with status 'enrolled'
    parked,      \* persons with do_not_enroll
    vec,         \* vec[f]: models the detection has an embedding under
    track,       \* track[f]: model of the track's mean
    scored,      \* scored[f]: model of the track's stored matches
    jobs,        \* queued jobs, oldest first; the worker's own is the head
    worker,      \* what the worker has read and has yet to write
    request,     \* what each API request is in the middle of
    cache,       \* cache[m]: the live gallery held for the model
    current,     \* cached galleries and requests whose audit version is still the head
    faults,
    unfinished,  \* history: what the last job that should have done it did not do
    behind,      \* history: faces the last carry could not see, or skipped by name
    raced,       \* history: templates carried from a row revoked since it was read
    blind        \* history: a PATCH was written over settings it had not read

database == <<config, row, enrolled, parked, vec, track, scored, jobs>>
live == <<cache, current>>
history == <<unfinished, behind, raced, blind>>
vars == <<database, worker, request, live, faults, history>>

-----------------------------------------------------------------------------
Settings == [embedder : Models, allow : BOOLEAN]

Job == [kind : {"process"}, arg : Faces, crops : {{}}, tracks : {{}}]
       \cup [kind : {"rematch"}, arg : {NoModel}, crops : {{}}, tracks : {{}}]
       \cup [kind : {"reembed"}, arg : Models, crops : SUBSET Faces, tracks : SUBSET Faces]

NewJob(kind, arg) == [kind |-> kind, arg |-> arg, crops |-> {}, tracks |-> {}]
Rematch == NewJob("rematch", NoModel)

IdleWorker == [step |-> "idle", model |-> NoModel, scope |-> {}, gallery |-> {}, owes |-> FALSE]

Worker == [step : {"idle", "down", "claimed"}, model : {NoModel}, scope : {{}}, gallery : {{}},
           owes : {FALSE}]
          \cup [step : {"detect", "read", "score", "crops", "carry", "pending", "close",
                       "finish"},
                model : Models, scope : SUBSET Faces, gallery : SUBSET Faces, owes : BOOLEAN]

Unused == [step |-> "unused", base |-> [embedder |-> Initial, allow |-> FALSE],
           want |-> [embedder |-> Initial, allow |-> FALSE], seen |-> {}]

Request == [step : {"unused", "begun", "checked", "caches", "owes", "load", "store", "done"},
            base : Settings, want : Settings, seen : SUBSET Faces]

Init ==
    /\ config = [embedder |-> Initial, allow |-> FALSE]
    /\ enrolled \in SUBSET (Faces \ Arriving)
    /\ row = [f \in Faces |-> [m \in Models |->
                 IF f \in enrolled /\ m = Initial THEN "active" ELSE "none"]]
    /\ parked = {}
    /\ vec = [f \in Faces |-> IF f \in Arriving THEN {} ELSE {Initial}]
    /\ track = [f \in Faces |-> IF f \in Arriving THEN NoModel ELSE Initial]
    /\ scored = [f \in Faces |-> IF f \in Arriving \/ enrolled = {} THEN NoModel ELSE Initial]
    /\ jobs = SetToSeq({NewJob("process", f) : f \in Arriving})
    /\ worker = IdleWorker
    /\ request = [r \in Requests |-> Unused]
    /\ cache = [m \in Models |-> {}]
    /\ current = {}
    /\ faults = 0
    /\ unfinished = {} /\ behind = {} /\ raced = {} /\ blind = FALSE

(***************************************************************************)
(* The templates of a face that are in force, and the gallery a model's    *)
(* frames and tracks are scored against.                                   *)
(***************************************************************************)
ActiveUnder(f) == {m \in Models : row[f][m] = "active"}

Gallery(m) == {f \in enrolled \ parked : m \in ActiveUnder(f)}

\* assert_loadable: the licence gate every load and every switch goes through.
Loadable(m, settings) == m \in NonCommercial => settings.allow

PendingKinds == {jobs[i].kind : i \in DOMAIN jobs}

\* Every audited transaction moves the chain's head, and what was loaded at
\* the old one is never served again.
HeadMoves == current' = {} /\ cache' = [m \in Models |-> {}]

Holds(f) == ActiveUnder(f) # {}

-----------------------------------------------------------------------------
(***************************************************************************)
(* Requests.                                                               *)
(***************************************************************************)
At(r, step) == request[r].step = step

\* What the request read is kept no longer than it is used.
Step(r, step) ==
    request' = [request EXCEPT ![r] = IF step \in {"done", "owes", "caches"}
                                      THEN [Unused EXCEPT !.step = step]
                                      ELSE [@ EXCEPT !.step = step]]

\* The settings are resolved before any handler runs.
Begin(r) ==
    /\ At(r, "unused")
    /\ request' = [request EXCEPT ![r].step = "begun", ![r].base = config]
    /\ UNCHANGED <<database, worker, live, faults, history>>

\* Only a newly selected model is checked, not the one that stays.
NewlySelected(base, want) == want.embedder # base.embedder => Loadable(want.embedder, want)

\* validate, on the state the change would produce: the model newly selected
\* (assert_model_usable) or the one that stays (_assert_active_model_survives).
Coherent(base, want) == Loadable(want.embedder, want)

\* PATCH /api/config: refused while a re-embed is pending, and if the state it
\* asks for would not load.  A key it does not name is wanted as it was read.
CheckPatch(r) ==
    /\ At(r, "begun")
    /\ \E want \in Settings :
          IF "reembed" \notin PendingKinds /\ Coherent(request[r].base, want)
          THEN request' = [request EXCEPT ![r].step = "checked", ![r].want = want]
          ELSE Step(r, "done")
    /\ UNCHANGED <<database, worker, live, faults, history>>

Overlay(base, want) ==
    [embedder |-> IF want.embedder # base.embedder THEN want.embedder ELSE config.embedder,
     allow |-> IF want.allow # base.allow THEN want.allow ELSE config.allow]

SwitchJobs(m) == <<NewJob("reembed", m), Rematch>>

\* Only what differs from the settings the request read is written, with the
\* jobs a change of embedder implies.
CommitPatch(r) ==
    LET base == request[r].base
        want == request[r].want
    IN /\ At(r, "checked")
       /\ config' = Overlay(base, want)
       /\ jobs' = IF want.embedder = base.embedder THEN jobs ELSE jobs \o SwitchJobs(want.embedder)
       /\ IF want = base THEN UNCHANGED live ELSE HeadMoves
       /\ blind' = (blind \/ (want # base /\ base # config))
       /\ Step(r, "caches")
       /\ UNCHANGED <<row, enrolled, parked, vec, track, scored, worker, faults,
                      unfinished, behind, raced>>

\* _invalidate_caches, after the commit.
ClearCaches(r) ==
    /\ At(r, "caches")
    /\ cache' = [m \in Models |-> {}]
    /\ current' = current \ Models
    /\ Step(r, "done")
    /\ UNCHANGED <<database, worker, faults, history>>

\* A re-embed of the configured model that has not read the templates yet.
WillCarry ==
    \E i \in DOMAIN jobs : /\ jobs[i].kind = "reembed" /\ jobs[i].arg = config.embedder
                           /\ i = 1 => worker.step \notin {"carry", "pending", "close", "finish"}

\* Enrolment uses the embedder of the request's settings and needs the face's
\* embedding under it; a template already active is left as it is.
Enrol(r) ==
    LET m == request[r].base.embedder
    IN /\ At(r, "begun")
       /\ \E f \in Faces \ parked :
             /\ m \in vec[f] /\ row[f][m] # "active"
             /\ row' = [row EXCEPT ![f][m] = "active"]
             /\ enrolled' = enrolled \cup {f}
             /\ behind' = IF m # config.embedder /\ ~WillCarry THEN behind \cup {f} ELSE behind
       /\ HeadMoves
       /\ Step(r, "owes")
       /\ UNCHANGED <<config, parked, vec, track, scored, jobs, worker, faults, unfinished,
                      raced, blind>>

\* Revocation withdraws one row, of one model, and sync_person_status follows.
Revoke(r) ==
    /\ At(r, "begun")
    /\ \E f \in Faces : \E m \in ActiveUnder(f) :
          /\ row' = [row EXCEPT ![f][m] = "revoked"]
          /\ enrolled' = IF ActiveUnder(f) = {m} THEN enrolled \ {f} ELSE enrolled
          /\ raced' = IF ActiveUnder(f) = {m} /\ worker.step = "carry" /\ f \in worker.gallery
                      THEN raced \cup {f} ELSE raced
    /\ HeadMoves
    /\ Step(r, "owes")
    /\ UNCHANGED <<config, parked, vec, track, scored, jobs, worker, faults, unfinished,
                   behind, blind>>

\* Both owe a re-match, queued in a transaction of its own.
QueueRematch(r) ==
    /\ At(r, "owes")
    /\ jobs' = Append(jobs, Rematch)
    /\ HeadMoves
    /\ Step(r, "done")
    /\ UNCHANGED <<config, row, enrolled, parked, vec, track, scored, worker, faults,
                   history>>

\* PATCH /api/persons/{id}: park or unpark.
Park(r) ==
    /\ At(r, "begun")
    /\ \E f \in Faces : parked' \in {parked \cup {f}, parked \ {f}}
    /\ HeadMoves
    /\ Step(r, "done")
    /\ UNCHANGED <<config, row, enrolled, vec, track, scored, jobs, worker, faults, history>>

\* POST /api/jobs/reembed: for a switch that did not finish.
AskReembed(r) ==
    /\ At(r, "begun")
    /\ jobs' = Append(jobs, NewJob("reembed", request[r].base.embedder))
    /\ HeadMoves
    /\ Step(r, "done")
    /\ UNCHANGED <<config, row, enrolled, parked, vec, track, scored, worker, faults,
                   history>>

\* POST /api/live/match: gallery_for reads the head, serves the cached matrix
\* if it was loaded at that head, or else loads one and keeps it as of the head
\* it read first.
ReadHead(r) ==
    LET m == request[r].base.embedder
    IN /\ At(r, "begun")
       /\ Loadable(m, request[r].base)
       /\ IF m \in current
          THEN Step(r, "done") /\ UNCHANGED live
          ELSE Step(r, "load") /\ current' = current \cup {r} /\ UNCHANGED cache
       /\ UNCHANGED <<database, worker, faults, history>>

LoadGallery(r) ==
    /\ At(r, "load")
    /\ request' = [request EXCEPT ![r].step = "store",
                                  ![r].seen = Gallery(request[r].base.embedder)]
    /\ UNCHANGED <<database, worker, live, faults, history>>

\* The head as it is when the matrix is stored.
VersionNow(r) == TRUE

\* The head as read before the load.
VersionKept(r) == r \in current

StoreGallery(r) ==
    LET m == request[r].base.embedder
    IN /\ At(r, "store")
       /\ cache' = [cache EXCEPT ![m] = request[r].seen]
       /\ current' = (IF VersionKept(r) THEN current \cup {m} ELSE current \ {m}) \ {r}
       /\ Step(r, "done")
       /\ UNCHANGED <<database, worker, faults, history>>

-----------------------------------------------------------------------------
(***************************************************************************)
(* The worker.  Its job is the head of the queue.                          *)
(***************************************************************************)
Job1 == jobs[1]

Goto(step) == worker' = [worker EXCEPT !.step = step]

EndJob == worker' = [IdleWorker EXCEPT !.step = "finish", !.model = worker.model]

Claim ==
    /\ worker.step = "idle" /\ jobs # <<>>
    /\ Goto("claimed")
    /\ HeadMoves
    /\ UNCHANGED <<database, request, faults, history>>

\* What a failed job leaves undone: a switch, or a rescoring.
Undone == IF Job1.kind = "reembed" THEN {Job1.arg} ELSE {Job1.kind}

Drop(done) ==
    /\ jobs' = Tail(jobs)
    /\ worker' = IdleWorker
    /\ unfinished' = IF done THEN unfinished \ Undone ELSE unfinished \cup Undone
    /\ HeadMoves

\* The job runs on the settings in force now; a re-embed pinned to another
\* model fails rather than retarget itself.
Runnable == Loadable(config.embedder, config)
            /\ (Job1.kind = "reembed" => Job1.arg = config.embedder)

\* The model named in the job's parameters.
PinnedModel == Job1.arg

JobModel == config.embedder

FirstStep == CASE Job1.kind = "reembed" -> "crops"
               [] Job1.kind = "rematch" -> "read"
               [] OTHER -> IF track[Job1.arg] = NoModel THEN "detect" ELSE "finish"

LoadModels ==
    /\ worker.step = "claimed"
    /\ IF Runnable
       THEN /\ worker' = [worker EXCEPT
                   !.step = FirstStep, !.model = JobModel,
                   !.scope = IF Job1.kind = "process" THEN {Job1.arg} ELSE Faces]
            /\ UNCHANGED <<jobs, live, unfinished>>
       ELSE Drop(FALSE)
    /\ UNCHANGED <<config, row, enrolled, parked, vec, track, scored, request, faults,
                   behind, raced, blind>>

\* process_image: the detection, its embedding and its track in one transaction.
Detect ==
    /\ worker.step = "detect"
    /\ vec' = [vec EXCEPT ![Job1.arg] = {worker.model}]
    /\ track' = [track EXCEPT ![Job1.arg] = worker.model]
    /\ Goto("read")
    /\ HeadMoves
    /\ UNCHANGED <<config, row, enrolled, parked, scored, jobs, request, faults, history>>

\* rematch: the gallery and the tracks of one model are read before the
\* transaction that writes the scores.
ReadToScore ==
    /\ worker.step = "read"
    /\ worker' = [worker EXCEPT !.step = "score", !.gallery = Gallery(worker.model),
                                !.scope = {f \in @ : track[f] = worker.model}]
    /\ UNCHANGED <<database, request, live, faults, history>>

Score ==
    /\ worker.step = "score"
    /\ scored' = [f \in Faces |-> IF f \notin worker.scope THEN scored[f]
                                  ELSE IF worker.gallery = {} THEN NoModel ELSE worker.model]
    /\ EndJob
    /\ HeadMoves
    /\ UNCHANGED <<config, row, enrolled, parked, vec, track, jobs, request, faults, history>>

\* Phase 1: the crops with no embedding under the model, past the cursor.
PendingCrops == {f \in Faces \ Job1.crops : track[f] # NoModel /\ worker.model \notin vec[f]}

EmbedCrop(f) ==
    /\ worker.step = "crops" /\ f \in PendingCrops
    /\ vec' = IF f \in Lost THEN vec ELSE [vec EXCEPT ![f] = @ \cup {worker.model}]
    /\ jobs' = [jobs EXCEPT ![1].crops = @ \cup {f}]
    /\ UNCHANGED <<config, row, enrolled, parked, track, scored, worker, request, live, faults,
                   history>>

\* Phase 2, once no crop is left: the mean of every track with an embedding under
\* the model.
PendingTracks == {f \in Faces \ Job1.tracks : worker.model \in vec[f]}

MoveTrack(f) ==
    /\ worker.step = "crops" /\ PendingCrops = {} /\ f \in PendingTracks
    /\ track' = [track EXCEPT ![f] = worker.model]
    /\ jobs' = [jobs EXCEPT ![1].tracks = @ \cup {f}]
    /\ UNCHANGED <<config, row, enrolled, parked, vec, scored, worker, request, live, faults,
                   history>>

\* Every template of another model, the revoked ones too.
RevokedToo(m) == {f \in Faces : /\ \E n \in Models \ {m} : row[f][n] # "none"
                                /\ m \notin ActiveUnder(f)}

\* Templates of the model the switch came from only.
LastModelOnly(m) == {f \in Faces : Initial \in ActiveUnder(f) \ {m} /\ m \notin ActiveUnder(f)}

\* Phase 3: active templates of other models with none active under this one.
OrphanTemplates(m) == {f \in Faces : ActiveUnder(f) \ {m} # {} /\ m \notin ActiveUnder(f)}

\* The rows are read before the transaction; parked persons and faces without
\* a vector are counted and left.
ReadTemplates ==
    /\ worker.step = "crops" /\ PendingCrops = {} /\ PendingTracks = {}
    /\ LET orphans == OrphanTemplates(worker.model)
           carried == {f \in orphans \ parked : worker.model \in vec[f]}
       IN /\ worker' = [worker EXCEPT !.step = "carry", !.gallery = carried]
          /\ behind' = orphans \cap parked
    /\ raced' = {}
    /\ UNCHANGED <<database, request, live, faults, unfinished, blind>>

\* One transaction, which the do_not_enroll trigger aborts for a person parked
\* since: the exception fails the job.
CarryTemplates ==
    /\ worker.step = "carry"
    /\ IF worker.gallery \cap parked = {}
       THEN /\ row' = [f \in Faces |-> IF f \in worker.gallery
                                       THEN [row[f] EXCEPT ![worker.model] = "active"] ELSE row[f]]
            /\ IF worker.gallery = {} THEN UNCHANGED live ELSE HeadMoves
            /\ worker' = [worker EXCEPT !.step = "pending", !.gallery = {}]
            /\ UNCHANGED <<jobs, unfinished>>
       ELSE Drop(FALSE) /\ UNCHANGED row
    /\ raced' = {}
    /\ UNCHANGED <<config, enrolled, parked, vec, track, scored, request, faults, behind,
                   blind>>

\* The switch queued one when it was asked for.
NeverOwed == FALSE

\* A re-match already pending is the follow-up; the read has no transaction.
FollowUpOwed == "rematch" \notin PendingKinds

ReadPending ==
    /\ worker.step = "pending"
    /\ worker' = [worker EXCEPT !.step = "close", !.owes = FollowUpOwed]
    /\ UNCHANGED <<database, request, live, faults, history>>

CloseReembed ==
    /\ worker.step = "close"
    /\ jobs' = IF worker.owes THEN Append(jobs, Rematch) ELSE jobs
    /\ EndJob
    /\ HeadMoves
    /\ UNCHANGED <<config, row, enrolled, parked, vec, track, scored, request, faults,
                   history>>

Finish ==
    /\ worker.step = "finish"
    /\ Drop(TRUE)
    /\ UNCHANGED <<config, row, enrolled, parked, vec, track, scored, request, faults,
                   behind, raced, blind>>

\* Anything the handler raises: run_once marks the job failed and goes on.
Fail ==
    /\ worker.step \notin {"idle", "down", "claimed", "finish"} /\ faults < MaxFaults
    /\ faults' = faults + 1
    /\ Drop(FALSE)
    /\ UNCHANGED <<config, row, enrolled, parked, vec, track, scored, request,
                   behind, raced, blind>>

\* The worker dies; its successor returns the job to the queue, where it is
\* still the oldest.
Crash ==
    /\ worker.step \notin {"idle", "down"} /\ faults < MaxFaults
    /\ faults' = faults + 1
    /\ worker' = [IdleWorker EXCEPT !.step = "down"]
    /\ UNCHANGED <<database, request, live, history>>

Restart ==
    /\ worker.step = "down"
    /\ worker' = IdleWorker
    /\ HeadMoves
    /\ UNCHANGED <<database, request, faults, history>>

-----------------------------------------------------------------------------
Handle(r) ==
    \/ Begin(r) \/ CheckPatch(r) \/ CommitPatch(r) \/ ClearCaches(r)
    \/ Enrol(r) \/ Revoke(r) \/ QueueRematch(r) \/ Park(r) \/ AskReembed(r)
    \/ ReadHead(r) \/ LoadGallery(r) \/ StoreGallery(r)

Work ==
    \/ Claim \/ LoadModels \/ Detect \/ ReadToScore \/ Score
    \/ (\E f \in Faces : EmbedCrop(f) \/ MoveTrack(f))
    \/ ReadTemplates \/ CarryTemplates \/ ReadPending \/ CloseReembed \/ Finish

Next == (\E r \in Requests : Handle(r)) \/ Work \/ Fail \/ Crash \/ Restart

Spec == Init /\ [][Next]_vars

-----------------------------------------------------------------------------
(***************************************************************************)
(* Properties.                                                             *)
(***************************************************************************)
\* Every variable has its type: settings, template rows, vectors, tracks and
\* scores of known models, well-formed jobs, worker and requests.
TypeOK ==
    /\ config \in Settings
    /\ row \in [Faces -> [Models -> {"none", "active", "revoked"}]]
    /\ enrolled \subseteq Faces /\ parked \subseteq Faces
    /\ vec \in [Faces -> SUBSET Models]
    /\ track \in [Faces -> Models \cup {NoModel}]
    /\ scored \in [Faces -> Models \cup {NoModel}]
    /\ jobs \in Seq(Job)
    /\ worker \in Worker
    /\ request \in [Requests -> Request]
    /\ cache \in [Models -> SUBSET Faces]
    /\ current \subseteq Models \cup Requests
    /\ faults \in 0..MaxFaults
    /\ unfinished \subseteq Models \cup {"process", "rematch"}
    /\ behind \subseteq Faces /\ raced \subseteq Faces /\ blind \in BOOLEAN

\* Once no re-embed of the configured model is pending, and none failed since,
\* everybody with a face in force under any model has it ruled on under this
\* one: carried, or withdrawn there (reembed.py phase 3).  Whoever has no
\* readable crop is exempt, and so is whoever the carry skipped as parked or
\* who was enrolled under the old model behind it.
CarriedOver ==
    LET m == config.embedder
    IN (m \notin unfinished /\ ~\E i \in DOMAIN jobs : jobs[i].kind = "reembed" /\ jobs[i].arg = m)
       => \A f \in Faces \ (Lost \cup behind) : Holds(f) => row[f][m] # "none"

\* A face an operator left in force under no model comes back only by an
\* operator's enrolment (enrollment.py: "one-way"), however often the models
\* are switched; a revocation between the carry's read and its write is the
\* exception, and persons.status shows it.
RevokedStays ==
    [][\A f \in Faces : (~Holds(f) /\ Holds(f)') => (f \in enrolled' \/ f \in raced)]_vars

\* A track whose stored matches are another model's than its mean is owed a
\* rescoring: a re-match is queued or running, or the re-embed that will see to
\* it still is (reembed.py: "Nothing may read a stale score").
MovedIsRescored ==
    unfinished = {} =>
        \A f \in Faces : scored[f] \in {NoModel, track[f]} \/ PendingKinds \cap {"rematch", "reembed"} # {}

\* A gallery the live path would serve without loading is the gallery
\* (pipeline/live.py: "a cached matrix can never outlive a template,
\* person-status or embedding change").
LiveGalleryCurrent == \A m \in Models \cap current : cache[m] = Gallery(m)

\* The configured embedder is one its licence setting loads, unless one PATCH
\* was written over another it had not read (runtime_config.py: a rejected
\* change "must leave the previous model in place").
LicenceCoherent == Loadable(config.embedder, config) \/ blind
=============================================================================
