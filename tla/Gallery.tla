------------------------------ MODULE Gallery ------------------------------
(***************************************************************************)
(* Who is in the matching gallery and what every track is claimed to show. *)
(*                                                                         *)
(* The API process and the single worker process share one SQLite file.    *)
(* A transaction is one atomic step (BEGIN IMMEDIATE, one writer), and     *)
(* everything between two transactions interleaves:                        *)
(*   - an operator's decision reads the track and its clock before its     *)
(*     transaction;                                                        *)
(*   - a media purge reads whom the file enrolled before its transaction;  *)
(*   - a folder enrolment commits its templates one file at a time;        *)
(*   - the re-match a gallery change calls for is queued by a transaction  *)
(*     of its own, after the change has committed;                         *)
(*   - a re-match job reads the threshold set, the gallery and the tracks  *)
(*     in three reads, scores without a lock, then writes.                 *)
(*                                                                         *)
(* Tracks are faces that processing already stored, with one template-worthy*)
(* best detection each; a template is the pair <<person, track>> it was    *)
(* enrolled from.  One embedder is active throughout.                      *)
(***************************************************************************)
EXTENDS Scoring

CONSTANTS
    MaxPersons,     \* bound: persons ever created
    Tracks,
    Files,
    FileOf,         \* the media file each track was found in
    Score,          \* Score[probe track][enrolled track]
    ThresholdSets,  \* the rows of threshold_sets, one of them active
    ThresholdRow,   \* what the gate needs of a row: an acceptance.ThresholdSet
    ScoreMode, TopK,
    MaxRequests,    \* bound: API requests ever started
    MaxCrashes,     \* bound: crashes of either process
    None

Persons == 1..MaxPersons

ASSUME CountsAssumption ==
    MaxPersons \in Nat /\ MaxRequests \in Nat /\ MaxCrashes \in Nat
ASSUME NoneAssumption == None \notin Persons /\ None \notin ThresholdSets
ASSUME FileAssumption == FileOf \in [Tracks -> Files]
ASSUME ThresholdAssumption ==
    ThresholdRow \in [ThresholdSets ->
        [calibrated : BOOLEAN, fits : BOOLEAN, gallerySize : Nat,
         tStrong : Int, tPossible : Int, margin : Int]]
ASSUME ScoreAssumption == Score \in [Tracks -> [Tracks -> Int]]

VARIABLES
    created,      \* how many persons were ever created: ids are handed out in order
    persons,      \* the rows of persons
    name,         \* persons.display_name but for its case, named after its first bearer
    status,       \* persons.status
    parked,       \* persons.do_not_enroll
    active,       \* templates with status active, as <<person, track>>
    revoked,      \* templates with status revoked
    tracks,       \* the rows of tracks
    thresholdSet, \* the active row of threshold_sets
    matches,      \* the rows of matches
    identity,     \* the row of identities for each track
    decisions,    \* the rows of identifications
    clock,        \* the timestamp of the latest API request
    deciding,     \* decisions read but not yet committed
    reviewing,    \* requests that enrolled by a decision, and may still come to another
    purging,      \* media purges read but not yet committed
    enrolling,    \* folder enrolments part way through their files
    followUps,    \* committed gallery changes whose re-match is not queued yet
    queued,       \* re-match jobs in the queue
    running,      \* whether a re-match job row says 'running'
    worker,       \* the worker's place in its loop and what it has read
    crashes,
    scored,       \* history: the active templates the stored scores were made from
    said,         \* history: the decision that last committed on each track
    late,         \* history: tracks where that decision is not the newest by its time
    dropped       \* history: a re-match that was called for was given up

roster == <<created, persons, name, status, parked>>
templates == <<active, revoked>>
claims == <<matches, identity, decisions>>
reviews == <<deciding, reviewing>>
requests == <<clock, reviews, purging, enrolling, followUps>>
jobs == <<queued, running, worker>>
history == <<scored, said, late, dropped>>
vars == <<roster, templates, tracks, thresholdSet, claims, requests, jobs, crashes, history>>

-----------------------------------------------------------------------------
Template == Persons \X Tracks

NoClaim == [source |-> "none", person |-> None, match |-> None, set |-> None]

\* An identity row; its match is the person of the match row it links to.
Claim == [source : {"auto", "operator"}, person : Persons,
          match : Persons \cup {None}, set : ThresholdSets \cup {None}]

Match == [track : Tracks, person : Persons, rank : Nat \ {0}, via : Tracks,
          band : Bands, set : ThresholdSets]

Decision == [track : Tracks, kind : {"tag", "reject"}, person : Persons \cup {None},
             at : 1..MaxRequests]

NothingSaid == [kind |-> "nothing", person |-> None]

Saying == [kind : {"nothing", "tag", "reject"}, person : Persons \cup {None}]

\* A decision: "new" names a person, "confirm" (and reassign) picks one.  It owes a
\* re-match when an earlier one of its request has enrolled.
DecisionRequest == [track : Tracks, kind : {"new", "confirm", "reject"},
                    person : Persons \cup {None}, enroll : BOOLEAN, at : 1..MaxRequests,
                    owes : BOOLEAN]

PurgeRequest == [file : Files, held : SUBSET Persons, at : 1..MaxRequests]

\* A folder enrolment: the files it has to come to, the persons it has to synchronise,
\* and whether it created a template.
FolderRequest == [todo : SUBSET Tracks, made : SUBSET Persons, enrolled : BOOLEAN,
                  number : 1..MaxRequests]

NothingRead == [set |-> None, gallery |-> {}, seen |-> {}, tracks |-> {}]

Snapshot == [set : ThresholdSets \cup {None}, gallery : SUBSET Template,
             seen : SUBSET Template, tracks : SUBSET Tracks]

WorkerPhases == {"idle", "claimed", "haveSet", "haveGallery", "scored", "finishing", "down"}

TypeOK ==
    /\ created \in 0..MaxPersons
    /\ persons \subseteq 1..created
    /\ name \in [Persons -> Persons]
    /\ status \in [Persons -> {"enrolled", "unenrolled"}]
    /\ parked \subseteq persons
    /\ active \subseteq Template
    /\ revoked \subseteq Template
    /\ tracks \subseteq Tracks
    /\ thresholdSet \in ThresholdSets
    /\ matches \subseteq Match
    /\ identity \in [Tracks -> Claim \cup {NoClaim}]
    /\ decisions \subseteq Decision
    /\ clock \in 0..MaxRequests
    /\ deciding \subseteq DecisionRequest
    /\ reviewing \in Nat
    /\ purging \subseteq PurgeRequest
    /\ enrolling \subseteq FolderRequest
    /\ followUps \in Nat
    /\ queued \in Nat
    /\ running \in BOOLEAN
    /\ worker \in [phase : WorkerPhases, read : Snapshot]
    /\ crashes \in 0..MaxCrashes
    /\ scored \subseteq Template
    /\ said \in [Tracks -> Saying]
    /\ late \subseteq Tracks
    /\ dropped \in BOOLEAN

Init ==
    /\ created = 0
    /\ persons = {}
    /\ name = [p \in Persons |-> p]
    /\ status = [p \in Persons |-> "unenrolled"]
    /\ parked = {}
    /\ active = {}
    /\ revoked = {}
    /\ tracks = Tracks
    /\ thresholdSet \in ThresholdSets
    /\ matches = {}
    /\ identity = [t \in Tracks |-> NoClaim]
    /\ decisions = {}
    /\ clock = 0
    /\ deciding = {}
    /\ reviewing = 0
    /\ purging = {}
    /\ enrolling = {}
    /\ followUps = 0
    /\ queued = 0
    /\ running = FALSE
    /\ worker = [phase |-> "idle", read |-> NothingRead]
    /\ crashes = 0
    /\ scored = {}
    /\ said = [t \in Tracks |-> NothingSaid]
    /\ late = {}
    /\ dropped = FALSE

-----------------------------------------------------------------------------
(* Enrolment and revocation.                                               *)

HasActive(p, templateRows) == \E t \in Tracks : <<p, t>> \in templateRows

\* Mutant: only the way out of the gallery is written.
SyncOnlyUnenrols(who, templateRows) ==
    status' = [p \in Persons |->
                  IF p \in who /\ ~ HasActive(p, templateRows) THEN "unenrolled"
                  ELSE status[p]]

\* sync_person_status, for the persons in who, once templateRows is what is active.
SyncPersonStatus(who, templateRows) ==
    status' = [p \in Persons |->
                  IF p \notin who THEN status[p]
                  ELSE IF HasActive(p, templateRows) THEN "enrolled" ELSE "unenrolled"]

\* The gallery query of rematch: active, enrolled and not parked.
InGallery == {tpl \in active : status[tpl[1]] = "enrolled" /\ tpl[1] \notin parked}

StartRequest == clock < MaxRequests /\ clock' = clock + 1

\* create_person, of a name in names.
InsertPerson(names) ==
    /\ created < MaxPersons
    /\ created' = created + 1
    /\ persons' = persons \cup {created + 1}
    /\ \E n \in names : name' = [name EXCEPT ![created + 1] = n]

\* A name nobody has, and those that somebody has: the schema lets two persons share one.
NewName == {created + 1}
AnyName == NewName \cup {name[p] : p \in persons}

\* POST /api/persons
CreatePerson ==
    /\ StartRequest
    /\ InsertPerson(AnyName)
    /\ UNCHANGED <<status, parked, templates, tracks, thresholdSet, claims, reviews,
                   purging, enrolling, followUps, jobs, crashes, history>>

\* create_template_from_detection inside POST /api/persons/{id}/templates: an
\* already active template is returned as it is, and calls for no re-match.
CreateTemplate(p, t) ==
    /\ StartRequest
    /\ p \in persons \ parked
    /\ t \in tracks
    /\ active' = active \cup {<<p, t>>}
    /\ SyncPersonStatus(IF <<p, t>> \in active THEN {} ELSE {p}, active')
    /\ followUps' = IF <<p, t>> \in active THEN followUps ELSE followUps + 1
    /\ UNCHANGED <<created, persons, name, parked, revoked, tracks, thresholdSet, claims,
                   reviews, purging, enrolling, jobs, crashes, history>>

\* POST /api/persons/{id}/templates/{id}/revoke
RevokeTemplate(p, t) ==
    /\ StartRequest
    /\ p \in persons
    /\ <<p, t>> \in active
    /\ active' = active \ {<<p, t>>}
    /\ revoked' = revoked \cup {<<p, t>>}
    /\ SyncPersonStatus({p}, active')
    /\ followUps' = followUps + 1
    /\ UNCHANGED <<created, persons, name, parked, tracks, thresholdSet, claims, reviews,
                   purging, enrolling, jobs, crashes, history>>

\* PATCH /api/persons/{id}: parks or unparks, and that is all it does.
UpdatePerson(p, doNotEnroll) ==
    /\ StartRequest
    /\ p \in persons
    /\ parked' = IF doNotEnroll THEN parked \cup {p} ELSE parked \ {p}
    /\ UNCHANGED <<created, persons, name, status, templates, tracks, thresholdSet, claims,
                   reviews, purging, enrolling, followUps, jobs, crashes, history>>

\* POST /api/threshold_sets/{id}/activate: activation rescores nothing.
ActivateThresholdSet(s) ==
    /\ StartRequest
    /\ thresholdSet' = s
    /\ UNCHANGED <<roster, templates, tracks, claims, reviews, purging, enrolling, followUps, jobs,
                   crashes, history>>

-----------------------------------------------------------------------------
(* Folder enrolment: POST /api/persons/enroll_folder, one transaction per    *)
(* file and per person over files that were imported before.                *)

\* It counts as a request per file, and goes by the first number that is free.
BeginFolder(files) ==
    /\ clock' = clock + Cardinality(files)
    /\ clock' \in (clock + 1)..MaxRequests
    /\ \E n \in 1..MaxRequests \ {r.number : r \in enrolling} :
          /\ 1..(n - 1) \subseteq {r.number : r \in enrolling}
          /\ enrolling' = enrolling \cup
                 {[todo |-> files, made |-> {}, enrolled |-> FALSE, number |-> n]}
    /\ UNCHANGED <<roster, templates, tracks, thresholdSet, claims, reviews, purging,
                   followUps, jobs, crashes, history>>

\* The request r goes on as next.
FolderGoesOn(r, next) == enrolling' = (enrolling \ {r}) \cup {next}

\* _resolve_person of a name nobody has yet, ahead of the template.
FolderPerson(r) ==
    /\ r.todo \cap tracks # {}
    /\ InsertPerson(NewName)
    /\ UNCHANGED <<status, parked, templates, tracks, thresholdSet, claims, requests, jobs,
                   crashes, history>>

\* A file becomes a template of p, whom its folder's name was resolved to by this file or
\* by an earlier one, unless it is an active one.
FolderFile(r, t, p) ==
    /\ t \in r.todo \cap tracks
    /\ p \in persons \ parked
    /\ LET known == <<p, t>> \in active
       IN  /\ active' = active \cup {<<p, t>>}
           /\ SyncPersonStatus(IF known THEN {} ELSE {p}, active')
           /\ FolderGoesOn(r, [r EXCEPT !.todo = @ \ {t},
                                        !.made = IF known THEN @ ELSE @ \cup {p},
                                        !.enrolled = @ \/ ~ known])
    /\ UNCHANGED <<created, persons, name, parked, revoked, tracks, thresholdSet, claims, clock,
                   reviews, purging, followUps, jobs, crashes, history>>

\* A file that has no media row, or whose person is parked or was purged meanwhile.
FolderSkip(r, t) ==
    /\ t \in r.todo
    /\ t \notin tracks \/ \E p \in 1..created : p \notin persons \ parked
    /\ FolderGoesOn(r, [r EXCEPT !.todo = @ \ {t}])
    /\ UNCHANGED <<roster, templates, tracks, thresholdSet, claims, clock, reviews, purging,
                   followUps, jobs, crashes, history>>

\* Once more for every person it enrolled, after the last file.
FolderSync(r, p) ==
    /\ r.todo = {}
    /\ p \in r.made \cap persons
    /\ SyncPersonStatus({p}, active)
    /\ FolderGoesOn(r, [r EXCEPT !.made = @ \ {p}])
    /\ UNCHANGED <<created, persons, name, parked, templates, tracks, thresholdSet, claims, clock,
                   reviews, purging, followUps, jobs, crashes, history>>

\* The request ends: its re-match is still to be queued.
FolderDone(r) ==
    /\ r.todo = {} /\ r.made = {}
    /\ enrolling' = enrolling \ {r}
    /\ followUps' = IF r.enrolled THEN followUps + 1 ELSE followUps
    /\ UNCHANGED <<roster, templates, tracks, thresholdSet, claims, clock, reviews, purging,
                   jobs, crashes, history>>

\* The next folder is called what two persons are called, or one that was enrolled is
\* gone: the request ends in an error, and what it committed stays without a re-match.
FolderFails(r) ==
    /\ \/ r.todo \cap tracks # {} /\ \E p, q \in persons : p # q /\ name[p] = name[q]
       \/ r.todo = {} /\ ~ (r.made \subseteq persons)
    /\ enrolling' = enrolling \ {r}
    /\ dropped' = (dropped \/ r.enrolled)
    /\ UNCHANGED <<roster, templates, tracks, thresholdSet, claims, clock, reviews, purging,
                   followUps, jobs, crashes, scored, said, late>>

FolderStep(r) ==
    \/ FolderPerson(r)
    \/ \E t \in Tracks : FolderSkip(r, t) \/ \E p \in Persons : FolderFile(r, t, p)
    \/ \E p \in Persons : FolderSync(r, p)
    \/ FolderDone(r) \/ FolderFails(r)

\* A folder enrolment in flight has a re-match to call for when it is done.
FolderRescores == \E r \in enrolling : r.enrolled

-----------------------------------------------------------------------------
(* Operator decisions: POST /api/identifications, and the items of a bulk    *)
(* review, one after the other, with one re-match after the last of them if *)
(* any has enrolled.  Until an item enrols, the review is nothing but its   *)
(* items; a single decision is a review of one.                             *)

\* apply_decision up to its transaction: the track exists, and the decision's
\* timestamp is taken now.  One that owes goes on with a review.
BeginDecision(t, kind, p, enroll, owes) ==
    /\ StartRequest
    /\ t \in tracks
    /\ owes => reviewing > 0
    /\ reviewing' = IF owes THEN reviewing - 1 ELSE reviewing
    /\ deciding' = deciding \cup {[track |-> t, kind |-> kind, person |-> p, enroll |-> enroll,
                                   at |-> clock + 1, owes |-> owes]}
    /\ UNCHANGED <<roster, templates, tracks, thresholdSet, claims, purging, enrolling, followUps,
                   jobs, crashes, history>>

\* Mutant: a review remembers only whether its latest item enrolled.
ReviewForgets(r, enrolled) ==
    /\ deciding' = deciding \ {r}
    /\ reviewing' = IF enrolled THEN reviewing + 1 ELSE reviewing

\* The item is done with, and the review goes on.
ReviewGoesOn(r, enrolled) ==
    /\ deciding' = deciding \ {r}
    /\ reviewing' = IF r.owes \/ enrolled THEN reviewing + 1 ELSE reviewing

OnTrack(t) == {d \in decisions : d.track = t}

\* The row written to identifications, and whether it came behind its own time.
RecordDecision(r, kind, p) ==
    /\ decisions' = decisions \cup
           {[track |-> r.track, kind |-> kind, person |-> p, at |-> r.at]}
    /\ said' = [said EXCEPT ![r.track] = [kind |-> kind, person |-> p]]
    /\ late' = IF \E d \in OnTrack(r.track) : d.at > r.at
               THEN late \cup {r.track} ELSE late \ {r.track}

CommitReject(r) ==
    /\ r.kind = "reject"
    /\ r.track \in tracks
    /\ identity' = [identity EXCEPT ![r.track] = NoClaim]
    /\ RecordDecision(r, "reject", None)
    /\ ReviewGoesOn(r, FALSE)
    /\ UNCHANGED <<roster, templates, tracks, thresholdSet, matches, clock, purging, enrolling,
                   followUps, jobs, crashes, scored, dropped>>

\* The match row the named person has on the track, if any, is what the decision
\* is recorded against.
OperatorClaim(t, p) ==
    LET rows == {m \in matches : m.track = t /\ m.person = p}
    IN  [source |-> "operator", person |-> p,
         match |-> IF rows = {} THEN None ELSE p,
         set |-> IF rows = {} THEN None ELSE (CHOOSE m \in rows : TRUE).set]

\* The template a decision creates from the track's best detection.
EnrollFromTrack(p, t, who) ==
    /\ active' = active \cup {<<p, t>>}
    /\ SyncPersonStatus(who, active')

CommitConfirm(r) ==
    /\ r.kind = "confirm"
    /\ r.track \in tracks
    /\ r.person \in persons
    /\ r.enroll => r.person \notin parked
    /\ identity' = [identity EXCEPT ![r.track] = OperatorClaim(r.track, r.person)]
    /\ RecordDecision(r, "tag", r.person)
    /\ LET enrolls == r.enroll /\ <<r.person, r.track>> \notin active
       IN  /\ IF enrolls THEN EnrollFromTrack(r.person, r.track, {r.person})
              ELSE UNCHANGED <<active, status>>
           /\ ReviewGoesOn(r, enrolls)
    /\ UNCHANGED <<created, persons, name, parked, revoked, tracks, thresholdSet, matches, clock,
                   purging, enrolling, followUps, jobs, crashes, scored, dropped>>

CommitNew(r) ==
    /\ r.kind = "new"
    /\ r.track \in tracks
    /\ InsertPerson(AnyName)
    /\ identity' = [identity EXCEPT ![r.track] = OperatorClaim(r.track, created + 1)]
    /\ RecordDecision(r, "tag", created + 1)
    /\ EnrollFromTrack(created + 1, r.track, {created + 1})
    /\ ReviewGoesOn(r, TRUE)
    /\ UNCHANGED <<parked, revoked, tracks, thresholdSet, matches, clock, purging, enrolling,
                   followUps, jobs, crashes, scored, dropped>>

\* The transaction rolls back with an error that a review catches: the person went
\* meanwhile, or an enrolment meets a parked one.  (A "new" past the bound goes here too.)
RefuseDecision(r) ==
    /\ \/ r.kind = "confirm" /\ r.person \notin persons
       \/ r.kind = "confirm" /\ r.track \in tracks /\ r.enroll /\ r.person \in parked
       \/ r.kind = "new" /\ r.track \in tracks /\ created = MaxPersons
    /\ ReviewGoesOn(r, FALSE)
    /\ UNCHANGED <<roster, templates, tracks, thresholdSet, claims, clock, purging, enrolling,
                   followUps, jobs, crashes, history>>

\* It rolls back with one that nobody catches: the track went meanwhile, and a foreign
\* key fails.  What the review owed is given up.
BreakDecision(r) ==
    /\ r.track \notin tracks
    /\ r.kind = "confirm" => r.person \in persons
    /\ deciding' = deciding \ {r}
    /\ dropped' = (dropped \/ r.owes)
    /\ UNCHANGED <<roster, templates, tracks, thresholdSet, claims, clock, reviewing, purging,
                   enrolling, followUps, jobs, crashes, scored, said, late>>

DecisionEnds(r) ==
    CommitReject(r) \/ CommitConfirm(r) \/ CommitNew(r) \/ RefuseDecision(r) \/ BreakDecision(r)

\* The end of a review that enrolled: enqueue(kind="rematch").
EndReview ==
    /\ reviewing > 0
    /\ reviewing' = reviewing - 1
    /\ queued' = queued + 1
    /\ UNCHANGED <<roster, templates, tracks, thresholdSet, claims, clock, deciding, purging,
                   enrolling, followUps, running, worker, crashes, history>>

\* A review in flight has a re-match to call for when it is done.
ReviewRescores == reviewing > 0 \/ \E r \in deciding : r.owes

-----------------------------------------------------------------------------
(* Purges.                                                                  *)

\* DELETE /api/persons/{id}: purge_person, in one transaction.
PurgePerson(p) ==
    /\ StartRequest
    /\ p \in persons
    /\ persons' = persons \ {p}
    /\ parked' = parked \ {p}
    /\ status' = [status EXCEPT ![p] = "unenrolled"]
    /\ active' = {tpl \in active : tpl[1] # p}
    /\ revoked' = {tpl \in revoked : tpl[1] # p}
    /\ matches' = {m \in matches : m.person # p}
    /\ identity' = [t \in Tracks |-> IF identity[t].person = p THEN NoClaim ELSE identity[t]]
    /\ decisions' = {d \in decisions : d.person # p}
    /\ said' = [t \in Tracks |-> IF said[t].person = p THEN NothingSaid ELSE said[t]]
    /\ followUps' = followUps + 1
    /\ UNCHANGED <<created, name, tracks, thresholdSet, reviews, purging, enrolling, jobs, crashes,
                   scored, late, dropped>>

TracksOf(f) == {t \in tracks : FileOf[t] = f}

\* purge_media up to its transaction: whose gallery membership the file holds up,
\* counting revoked templates too.
BeginPurgeMedia(f) ==
    /\ StartRequest
    /\ TracksOf(f) # {}
    /\ purging' = purging \cup
           {[file |-> f, at |-> clock + 1,
             held |-> {p \in persons : \E t \in TracksOf(f) : <<p, t>> \in active \cup revoked}]}
    /\ UNCHANGED <<roster, templates, tracks, thresholdSet, claims, reviews, enrolling, followUps,
                   jobs, crashes, history>>

\* Mutant: only the file's own tracks lose their claims.
ClaimAfterPurgeOfTrack(t, gone) == IF t \in gone THEN NoClaim ELSE identity[t]

\* An auto claim that rests on a template of the file goes with it; an operator's
\* claim only loses the match it was recorded against.
ClaimAfterPurge(t, gone) ==
    LET rests == \E m \in matches : /\ m.track = t /\ m.person = identity[t].match
                                    /\ m.via \in gone
    IN  CASE t \in gone -> NoClaim
          [] t \notin gone /\ rests /\ identity[t].source = "auto" -> NoClaim
          [] t \notin gone /\ rests /\ identity[t].source = "operator" ->
                [identity[t] EXCEPT !.match = None]
          [] OTHER -> identity[t]

CommitPurgeMedia(r) ==
    LET gone == TracksOf(r.file)
    IN  /\ r.held \subseteq persons
        /\ tracks' = tracks \ gone
        /\ active' = {tpl \in active : tpl[2] \notin gone}
        /\ revoked' = {tpl \in revoked : tpl[2] \notin gone}
        /\ SyncPersonStatus(r.held, active')
        /\ matches' = {m \in matches : m.track \notin gone /\ m.via \notin gone}
        /\ identity' = [t \in Tracks |-> ClaimAfterPurge(t, gone)]
        /\ decisions' = {d \in decisions : d.track \notin gone}
        /\ said' = [t \in Tracks |-> IF t \in gone THEN NothingSaid ELSE said[t]]
        /\ purging' = purging \ {r}
        \* The re-match is called for when the count read before the transaction says so.
        /\ followUps' = IF r.held = {} THEN followUps ELSE followUps + 1
        /\ dropped' = (dropped \/ (r.held = {} /\ active' # active))
        /\ UNCHANGED <<created, persons, name, parked, thresholdSet, clock, reviews, enrolling, jobs,
                       crashes, scored, late>>

\* A person read before the transaction is gone: sync_person_status raises and the
\* purge rolls back.  (A file that went meanwhile is not refused: the transaction
\* deletes nothing and the count read before still calls for a re-match.)
RefusePurgeMedia(r) ==
    /\ ~ (r.held \subseteq persons)
    /\ purging' = purging \ {r}
    /\ UNCHANGED <<roster, templates, tracks, thresholdSet, claims, clock, reviews, enrolling,
                   followUps, jobs, crashes, history>>

-----------------------------------------------------------------------------
(* The queue and the worker.                                                *)

\* The endpoint's second transaction: enqueue(kind="rematch").
FollowUp ==
    /\ followUps > 0
    /\ followUps' = followUps - 1
    /\ queued' = queued + 1
    /\ UNCHANGED <<roster, templates, tracks, thresholdSet, claims, clock, reviews, purging, enrolling,
                   running, worker, crashes, history>>

\* POST /api/jobs/rematch: a re-match on demand.
RequestRematch ==
    /\ StartRequest
    /\ queued' = queued + 1
    /\ UNCHANGED <<roster, templates, tracks, thresholdSet, claims, reviews, purging, enrolling,
                   followUps, running, worker, crashes, history>>

\* The worker's next place in its loop, having read what is new.
WorkerMoves(from, to, read) ==
    /\ worker.phase = from
    /\ worker' = [phase |-> to, read |-> read]
    /\ UNCHANGED <<roster, templates, tracks, thresholdSet, requests, crashes, said, late>>

ClaimJob ==
    /\ queued > 0
    /\ queued' = queued - 1
    /\ running' = TRUE
    /\ WorkerMoves("idle", "claimed", NothingRead)
    /\ UNCHANGED <<claims, scored, dropped>>

ReadThresholdSet ==
    /\ WorkerMoves("claimed", "haveSet", [worker.read EXCEPT !.set = thresholdSet])
    /\ UNCHANGED <<claims, queued, running, scored, dropped>>

ReadGallery ==
    /\ WorkerMoves("haveSet", "haveGallery",
           [worker.read EXCEPT !.gallery = InGallery, !.seen = active])
    /\ UNCHANGED <<claims, queued, running, scored, dropped>>

ReadTracks ==
    /\ WorkerMoves("haveGallery", "scored", [worker.read EXCEPT !.tracks = tracks])
    /\ UNCHANGED <<claims, queued, running, scored, dropped>>

\* What a re-match has to say of one candidate for one track.
MatchOf(read, t, p) ==
    [track |-> t, person |-> p,
     rank |-> Rank(ScoreMode, Score[t], read.gallery, p),
     via |-> BestSource(Score[t], read.gallery, p),
     band |-> BandForCandidates(ScoreMode, Score[t], read.gallery, TopK, ThresholdRow[read.set]),
     set |-> read.set]

\* The rows rematch has scored by the time it opens its transaction.
MatchesOf(read) ==
    UNION {{MatchOf(read, t, p) : p \in Candidates(ScoreMode, Score[t], read.gallery, TopK)} :
               t \in read.tracks}

\* Mutant: a reject is not looked for before auto-accepting.
NeverRejected(t) == FALSE

\* A decision on the track by the newest timestamp, whatever order they committed in.
LatestIsReject(t) ==
    \E d \in OnTrack(t) : /\ d.kind = "reject"
                          /\ \A other \in OnTrack(t) : other.at <= d.at

\* The top matches the gate accepts, on tracks no operator has spoken for.
AutoAccepted(read, rows) ==
    {m \in rows : /\ m.rank = 1
                  /\ Accepts(ThresholdRow[read.set], Cardinality(PersonsIn(read.gallery)), m.band)
                  /\ identity[m.track].source # "operator"
                  /\ ~ LatestIsReject(m.track)}

\* The foreign keys and triggers that abort the transaction: a row the worker read is
\* gone, or the person it would claim has left the gallery.
Writable(rows, auto) ==
    /\ \A m \in rows : m.track \in tracks /\ m.person \in persons /\ m.via \in tracks
    /\ \A m \in auto : status[m.person] = "enrolled"

\* Mutant: an operator's claim keeps its link to a match row that is replaced.
ClaimAfterRematchKeepingLink(t, auto) ==
    LET top == {m \in auto : m.track = t}
    IN  IF identity[t].source = "operator" THEN identity[t]
        ELSE IF top = {} THEN NoClaim
        ELSE LET m == CHOOSE row \in top : TRUE
             IN  [source |-> "auto", person |-> m.person, match |-> m.person, set |-> m.set]

\* Mutant: every claim is rewritten from the scores, an operator's too.
ClaimAfterRematchFromScores(t, auto) ==
    LET top == {m \in auto : m.track = t}
    IN  IF top = {} THEN NoClaim
        ELSE LET m == CHOOSE row \in top : TRUE
             IN  [source |-> "auto", person |-> m.person, match |-> m.person, set |-> m.set]

ClaimAfterRematch(t, auto) ==
    LET top == {m \in auto : m.track = t}
    IN  IF identity[t].source = "operator"
        THEN [identity[t] EXCEPT !.match = None, !.set = None]
        ELSE IF top = {} THEN NoClaim
        ELSE LET m == CHOOSE row \in top : TRUE
             IN  [source |-> "auto", person |-> m.person, match |-> m.person, set |-> m.set]

CommitRematch ==
    LET read == worker.read
        rows == MatchesOf(read)
        auto == AutoAccepted(read, rows)
    IN  /\ WorkerMoves("scored", "finishing", NothingRead)
        /\ Writable(rows, auto)
        /\ identity' = [t \in Tracks |-> IF t \in read.tracks
                                        THEN ClaimAfterRematch(t, auto) ELSE identity[t]]
        /\ matches' = {m \in matches : m.track \notin read.tracks} \cup rows
        /\ scored' = read.seen
        /\ UNCHANGED <<decisions, queued, running, dropped>>

\* The transaction rolls back, run_once records the job as failed, and nothing queues
\* the re-match again.
AbortRematch ==
    LET rows == MatchesOf(worker.read)
    IN  /\ WorkerMoves("scored", "finishing", NothingRead)
        /\ ~ Writable(rows, AutoAccepted(worker.read, rows))
        /\ dropped' = TRUE
        /\ UNCHANGED <<claims, queued, running, scored>>

\* finish: the job row is done or failed, and never runs again.
FinishJob ==
    /\ running' = FALSE
    /\ WorkerMoves("finishing", "idle", NothingRead)
    /\ UNCHANGED <<claims, queued, scored, dropped>>

WorkerCrash ==
    /\ crashes < MaxCrashes
    /\ crashes' = crashes + 1
    /\ worker.phase # "down"
    /\ worker' = [phase |-> "down", read |-> NothingRead]
    /\ UNCHANGED <<roster, templates, tracks, thresholdSet, claims, requests, queued, running,
                   history>>

\* Mutant: the worker starts without requeuing what its predecessor was running.
WorkerStartWithoutRequeue ==
    /\ WorkerMoves("down", "idle", NothingRead)
    /\ UNCHANGED <<claims, queued, running, scored, dropped>>

\* Worker.run: requeue_running, then the loop.
WorkerStart ==
    /\ running' = FALSE
    /\ queued' = IF running THEN queued + 1 ELSE queued
    /\ WorkerMoves("down", "idle", NothingRead)
    /\ UNCHANGED <<claims, scored, dropped>>

\* The API process dies and starts again: requests in flight are gone.
ApiCrash ==
    /\ crashes < MaxCrashes
    /\ crashes' = crashes + 1
    /\ deciding' = {}
    /\ reviewing' = 0
    /\ purging' = {}
    /\ enrolling' = {}
    /\ followUps' = 0
    /\ dropped' = (dropped \/ followUps > 0 \/ FolderRescores \/ ReviewRescores)
    /\ UNCHANGED <<roster, templates, tracks, thresholdSet, claims, clock, jobs, scored,
                   said, late>>

-----------------------------------------------------------------------------
Decide ==
    \/ \E t \in Tracks, owes \in BOOLEAN :
           \/ BeginDecision(t, "reject", None, FALSE, owes)
           \/ BeginDecision(t, "new", None, TRUE, owes)
           \/ \E p \in persons, enroll \in BOOLEAN : BeginDecision(t, "confirm", p, enroll, owes)
    \/ \E r \in deciding : DecisionEnds(r)
    \/ EndReview

Curate ==
    \/ CreatePerson
    \/ \E p \in Persons, t \in Tracks : CreateTemplate(p, t) \/ RevokeTemplate(p, t)
    \/ \E p \in Persons, doNotEnroll \in BOOLEAN : UpdatePerson(p, doNotEnroll)
    \/ \E s \in ThresholdSets : ActivateThresholdSet(s)
    \/ RequestRematch

EnrolFolder ==
    \/ \E files \in SUBSET Tracks : BeginFolder(files)
    \/ \E r \in enrolling : FolderStep(r)

Purge ==
    \/ \E p \in Persons : PurgePerson(p)
    \/ \E f \in Files : BeginPurgeMedia(f)
    \/ \E r \in purging : CommitPurgeMedia(r) \/ RefusePurgeMedia(r)

WorkerStep ==
    \/ ClaimJob \/ ReadThresholdSet \/ ReadGallery \/ ReadTracks
    \/ CommitRematch \/ AbortRematch \/ FinishJob \/ WorkerStart

Crash == WorkerCrash \/ ApiCrash

Next == Decide \/ Curate \/ EnrolFolder \/ Purge \/ FollowUp \/ WorkerStep \/ Crash

Spec == Init /\ [][Next]_vars

\* The worker's loop never stops while a job is queued, a supervisor starts it again,
\* and a request that committed its change goes on to queue the re-match, to the next file
\* of its folder, or to the end of its review.  No operator has to send anything.
FairSpec ==
    /\ Spec
    /\ WF_vars(WorkerStep) /\ WF_vars(FollowUp)
    /\ WF_vars(\E r \in enrolling : FolderStep(r))
    /\ WF_vars(\E r \in deciding : DecisionEnds(r)) /\ WF_vars(EndReview)

-----------------------------------------------------------------------------
(* Properties.                                                              *)

(* An auto claim is never more than its evidence: the top-ranked match row of  *)
(* its own track, for the claimed person, in the strong band of a calibrated  *)
(* threshold set.  (matching.py:205-251, and what the purges of purge.py must *)
(* delete together for it to stay so.)                                        *)
AutoRestsOnTopMatch ==
    \A t \in Tracks : identity[t].source = "auto" =>
        /\ ThresholdRow[identity[t].set].calibrated
        /\ \E m \in matches :
              /\ m.track = t /\ m.person = identity[t].person /\ m.rank = 1
              /\ m.band = "strong" /\ m.set = identity[t].set

(* Whatever order purges, decisions and re-matches come in, a claim links only *)
(* to a match row that exists, on its own track and of its own person: the    *)
(* argument purge_person's order of deletes rests on (purge.py:119-123).      *)
ClaimOwnMatch ==
    \A t \in Tracks : identity[t].match # None =>
        /\ identity[t].match = identity[t].person
        /\ \E m \in matches : m.track = t /\ m.person = identity[t].match

(* What an operator last said of a track stands, through every re-match,       *)
(* purge, crash and concurrent request: a tag is the operator's claim of that *)
(* person, a reject is no claim at all.  Except on a late track, where the    *)
(* last decision to commit carries an older timestamp than one before it.     *)
(* (identifications.py:82-194, matching.py:172-253, spec 6.4.)                *)
DecisionStands ==
    \A t \in Tracks \ late :
        /\ said[t].kind = "reject" => identity[t] = NoClaim
        /\ said[t].kind = "tag" =>
              identity[t].source = "operator" /\ identity[t].person = said[t].person

(* The same for rejects, without the exception: a track whose last committed   *)
(* decision is a reject is not claimed for anyone by a re-match.  It fails:   *)
(* the timestamp a decision is ordered by is taken before its transaction.    *)
RejectSticks == \A t \in Tracks : said[t].kind = "reject" => identity[t].source # "auto"

(* No active template hides behind a person the gallery query skips: the paths *)
(* that enrol, revoke and purge agree on who is enrolled (enrollment.py:10-12).*)
(* The converse fails: a purge that read its persons too early leaves one     *)
(* enrolled with nothing active.                                              *)
NoTemplateHidden == \A tpl \in active : status[tpl[1]] = "enrolled"

\* A re-match is on its way, or running on reads that already see what is active.
RescoreComes ==
    \/ followUps > 0
    \/ FolderRescores \/ ReviewRescores
    \/ queued > 0
    \/ running /\ worker.phase \in {"claimed", "haveSet", "down"}
    \/ worker.phase \in {"haveGallery", "scored"} /\ worker.read.seen = active

(* Stored scores that no longer reflect the active templates always have a    *)
(* re-match on its way, however enrolments, revocations, purges and re-matches*)
(* overlap, unless one was dropped: by a crash of the API between its two     *)
(* transactions, by a re-match that aborted on a row purged under it, by a    *)
(* media purge whose count was stale, by a folder enrolment that ended in an  *)
(* error after its first template, or by a bulk review that ended in one that *)
(* it does not catch, after an item that enrolled.                            *)
RescoreAccounted == scored # active => RescoreComes \/ dropped

(* The same with no excuse, as spec 6.2 has it: when the gallery changes, the *)
(* stored tracks are re-matched.  It fails without any crash.                 *)
RescoreOwed == scored # active => RescoreComes

(* No step of the worker takes a track from an operator: a re-match never      *)
(* changes whom an operator's claim names, nor removes it (spec 6.4, D16).    *)
OperatorWins ==
    [][worker' # worker =>
          \A t \in Tracks : identity[t].source = "operator" =>
              /\ identity'[t].source = "operator"
              /\ identity'[t].person = identity[t].person]_vars

\* Whom each track is claimed to show, without the match and the set it is linked to.
Claimant == [t \in Tracks |-> [by |-> identity[t].source, person |-> identity[t].person]]

Claimed == INSTANCE Claims WITH
    met <- 1..created, people <- persons, word <- said, claim <- Claimant, contested <- late

(* Whatever decisions, re-matches, purges and crashes overlap, the claims are  *)
(* those Claims promises: an operator's until another operator's or a purge, *)
(* never an inference over a word that stands, and never a purged person or  *)
(* track again (identifications.py:82-194, matching.py:172-253, purge.py).   *)
KeepsClaims == Claimed!Spec

(* Once operators stop, the stored scores catch up with the active templates, *)
(* through a restart of the worker too, unless a re-match was dropped.        *)
RescoreHappens == <>[](scored = active \/ dropped)
=============================================================================
