--------------------------- MODULE GalleryProofs ---------------------------
(***************************************************************************)
(* What holds of the gallery for any number of persons, tracks, files,     *)
(* threshold sets, requests and crashes: its types, what a claim rests on  *)
(* and links to, that an operator's decision stands, that it implements    *)
(* Claims, that no active template hides, and that no change of the        *)
(* gallery is forgotten without a trace.                                   *)
(***************************************************************************)
EXTENDS Gallery, FiniteSetTheorems, TLAPS

-----------------------------------------------------------------------------
(* The values a re-match computes.                                          *)

(* A rank is a position in a list that starts at one, whatever the scores:   *)
(* a gallery holds finitely many persons (scoring.py:141-153).              *)
LEMMA RankIsPositive ==
    ASSUME NEW mode, NEW probe, NEW gallery \in SUBSET Template, NEW p
    PROVE  Rank(mode, probe, gallery, p) \in Nat \ {0}
<1> DEFINE ahead == {q \in PersonsIn(gallery) : Beats(mode, probe, gallery, q, p)}
<1>1. ahead \in SUBSET Persons
  BY DEF PersonsIn, Template
<1>2. IsFiniteSet(Persons)
  BY CountsAssumption, FS_Interval DEF Persons
<1>3. Cardinality(ahead) \in Nat
  BY <1>1, <1>2, FS_Subset, FS_CardinalityType
<1> QED
  BY <1>3 DEF Rank

(* The band rules name one of the four bands (scoring.py:188-213).           *)
LEMMA BandIsNamed ==
    ASSUME NEW mode, NEW probe, NEW gallery, NEW topK, NEW thresholds
    PROVE  BandForCandidates(mode, probe, gallery, topK, thresholds) \in Bands
  BY DEF BandForCandidates, AssignBand, Bands

(* The gate only opens on a calibrated set, and only for a strong band       *)
(* (acceptance.py:41-91).                                                   *)
LEMMA AcceptedIsStrong ==
    ASSUME NEW set, NEW size, NEW band, Accepts(set, size, band)
    PROVE  set.calibrated /\ band = "strong"
  BY DEF Accepts, GateAllows

(* Every person has one of the ids there are.                                *)
LEMMA PersonsAreIds ==
    ASSUME TypeOK
    PROVE  persons \subseteq Persons
<1>1. created \in 0..MaxPersons /\ persons \subseteq 1..created
  BY DEF TypeOK
<1> QED
  BY <1>1, CountsAssumption DEF Persons

(* The rows of a re-match that its transaction can write are rows of matches,*)
(* on the tracks it read and for the persons of the gallery it read.        *)
LEMMA RowsAreMatches ==
    ASSUME TypeOK,
           worker.read.set \in ThresholdSets,
           NEW auto, Writable(MatchesOf(worker.read), auto)
    PROVE  /\ MatchesOf(worker.read) \subseteq Match
           /\ \A m \in MatchesOf(worker.read) :
                 /\ m.track \in worker.read.tracks
                 /\ m.set = worker.read.set
<1> DEFINE read == worker.read
<1> SUFFICES ASSUME NEW m \in MatchesOf(read)
             PROVE  m \in Match /\ m.track \in read.tracks /\ m.set = read.set
  OBVIOUS
<1>1. read.gallery \in SUBSET Template
  BY DEF TypeOK, Snapshot
<1>2. PICK t \in read.tracks, p \in PersonsIn(read.gallery) : m = MatchOf(read, t, p)
  BY DEF MatchesOf, Candidates
<1>3. m.rank \in Nat \ {0} /\ m.band \in Bands
  BY <1>1, <1>2, RankIsPositive, BandIsNamed DEF MatchOf
<1>4. m.track \in Tracks /\ m.person \in Persons /\ m.via \in Tracks
  <2>1. m.track \in tracks /\ m.person \in persons /\ m.via \in tracks
    BY DEF Writable
  <2>2. tracks \subseteq Tracks
    BY DEF TypeOK
  <2> QED
    BY <2>1, <2>2, PersonsAreIds
<1> QED
  BY <1>2, <1>3, <1>4 DEF Match, MatchOf

-----------------------------------------------------------------------------
(* Types.                                                                   *)

(* From its first read on, a re-match knows the threshold set it scores with:*)
(* what makes the rows it writes well formed.                               *)
SetIsRead ==
    worker.phase \in {"haveSet", "haveGallery", "scored"} => worker.read.set \in ThresholdSets

TypeInv == TypeOK /\ SetIsRead

LEMMA SyncIsTyped ==
    ASSUME status \in [Persons -> {"enrolled", "unenrolled"}],
           NEW who, NEW templateRows, SyncPersonStatus(who, templateRows)
    PROVE  status' \in [Persons -> {"enrolled", "unenrolled"}]
  BY DEF SyncPersonStatus

LEMMA OperatorClaimIsTyped ==
    ASSUME TypeOK, NEW t \in Tracks, NEW p \in Persons
    PROVE  OperatorClaim(t, p) \in Claim
<1> DEFINE rows == {m \in matches : m.track = t /\ m.person = p}
<1>1. rows # {} => (CHOOSE m \in rows : TRUE).set \in ThresholdSets
  BY DEF TypeOK, Match
<1> QED
  BY <1>1 DEF OperatorClaim, Claim

LEMMA RematchClaimIsTyped ==
    ASSUME TypeOK, NEW t \in Tracks, NEW auto, auto \subseteq Match
    PROVE  ClaimAfterRematch(t, auto) \in Claim \cup {NoClaim}
<1> DEFINE top == {m \in auto : m.track = t}
<1>1. identity[t] \in Claim \cup {NoClaim}
  BY DEF TypeOK
<1>2. CASE identity[t].source = "operator"
  <2>1. identity[t] \in Claim
    BY <1>1, <1>2 DEF NoClaim
  <2>2. [identity[t] EXCEPT !.match = None, !.set = None] \in Claim
    BY <2>1 DEF Claim
  <2> QED
    BY <1>2, <2>2 DEF ClaimAfterRematch
<1>3. CASE identity[t].source # "operator" /\ top = {}
  BY <1>3 DEF ClaimAfterRematch
<1>4. CASE identity[t].source # "operator" /\ top # {}
  <2>1. (CHOOSE row \in top : TRUE) \in Match
    BY <1>4
  <2> QED
    BY <1>4, <2>1 DEF ClaimAfterRematch, Claim, Match
<1> QED
  BY <1>2, <1>3, <1>4

LEMMA PurgedClaimIsTyped ==
    ASSUME TypeOK, NEW t \in Tracks, NEW gone
    PROVE  ClaimAfterPurge(t, gone) \in Claim \cup {NoClaim}
<1>1. identity[t] \in Claim \cup {NoClaim}
  BY DEF TypeOK
<1> QED
  BY <1>1 DEF ClaimAfterPurge, Claim, NoClaim

(* A person there is to create gets the next id and a name.                  *)
LEMMA InsertIsTyped ==
    ASSUME TypeOK, NEW names \in {NewName, AnyName}, InsertPerson(names)
    PROVE  /\ created' \in 0..MaxPersons /\ created' = created + 1 /\ created' \in Persons
           /\ persons' \subseteq 1..created' /\ persons \subseteq persons'
           /\ name' \in [Persons -> Persons]
<1>1. created' = created + 1 /\ created + 1 \in Persons /\ persons' = persons \cup {created + 1}
  BY CountsAssumption DEF InsertPerson, TypeOK, Persons
<1>2. created \in Nat /\ persons \subseteq 1..created /\ name \in [Persons -> Persons]
  BY DEF TypeOK
<1>3. names \subseteq Persons
  BY <1>1, <1>2, PersonsAreIds DEF NewName, AnyName
<1>4. name' \in [Persons -> Persons]
  BY <1>2, <1>3 DEF InsertPerson
<1> QED
  BY <1>1, <1>2, <1>4, CountsAssumption DEF Persons

(* A review goes on with one item less in flight.                            *)
LEMMA ReviewIsTyped ==
    ASSUME TypeOK, NEW r \in deciding, NEW enrolled, ReviewGoesOn(r, enrolled)
    PROVE  deciding' \subseteq DecisionRequest /\ reviewing' \in Nat
  BY DEF TypeOK, ReviewGoesOn

LEMMA CurateKeepsTypes ==
    ASSUME TypeInv, Curate
    PROVE  TypeInv'
<1> USE CountsAssumption DEF TypeInv, TypeOK, SetIsRead, roster, templates, claims, requests,
        reviews, jobs, history, StartRequest
<1>1. CASE CreatePerson
  <2>1. created' \in 0..MaxPersons /\ persons' \subseteq 1..created' /\ persons \subseteq persons'
        /\ name' \in [Persons -> Persons]
    BY <1>1, InsertIsTyped DEF CreatePerson
  <2> QED
    BY <1>1, <2>1 DEF CreatePerson
<1>2. ASSUME NEW p \in Persons, NEW t \in Tracks, CreateTemplate(p, t)
      PROVE  TypeInv'
  <2>1. status' \in [Persons -> {"enrolled", "unenrolled"}]
    BY <1>2, SyncIsTyped DEF CreateTemplate
  <2> QED
    BY <1>2, <2>1 DEF CreateTemplate, Template
<1>3. ASSUME NEW p \in Persons, NEW t \in Tracks, RevokeTemplate(p, t)
      PROVE  TypeInv'
  <2>1. status' \in [Persons -> {"enrolled", "unenrolled"}]
    BY <1>3, SyncIsTyped DEF RevokeTemplate
  <2> QED
    BY <1>3, <2>1 DEF RevokeTemplate, Template
<1>4. ASSUME NEW p \in Persons, NEW doNotEnroll \in BOOLEAN, UpdatePerson(p, doNotEnroll)
      PROVE  TypeInv'
  BY <1>4 DEF UpdatePerson
<1>5. ASSUME NEW s \in ThresholdSets, ActivateThresholdSet(s)
      PROVE  TypeInv'
  BY <1>5 DEF ActivateThresholdSet
<1>6. CASE RequestRematch
  BY <1>6 DEF RequestRematch
<1> QED
  BY <1>1, <1>2, <1>3, <1>4, <1>5, <1>6 DEF Curate

LEMMA FolderKeepsTypes ==
    ASSUME TypeInv, EnrolFolder
    PROVE  TypeInv'
<1> USE CountsAssumption DEF TypeInv, TypeOK, SetIsRead, roster, templates, claims, requests,
        reviews, jobs, history
<1>1. ASSUME NEW files \in SUBSET Tracks, BeginFolder(files)
      PROVE  TypeInv'
  <2>1. clock' \in 1..MaxRequests
    BY <1>1 DEF BeginFolder
  <2>2. PICK n \in 1..MaxRequests :
            enrolling' = enrolling \cup
                {[todo |-> files, made |-> {}, enrolled |-> FALSE, number |-> n]}
    BY <1>1 DEF BeginFolder
  <2>3. [todo |-> files, made |-> {}, enrolled |-> FALSE, number |-> n] \in FolderRequest
    BY <2>2 DEF FolderRequest
  <2>4. enrolling' \subseteq FolderRequest
    BY <2>2, <2>3
  <2> QED
    BY <1>1, <2>1, <2>4 DEF BeginFolder
<1>2. ASSUME NEW r \in enrolling
      PROVE  r \in FolderRequest
  OBVIOUS
<1>3. ASSUME NEW r \in enrolling, FolderPerson(r)
      PROVE  TypeInv'
  <2>1. created' \in 0..MaxPersons /\ persons' \subseteq 1..created' /\ persons \subseteq persons'
        /\ name' \in [Persons -> Persons]
    BY <1>3, InsertIsTyped DEF FolderPerson
  <2> QED
    BY <1>3, <2>1 DEF FolderPerson
<1>4. ASSUME NEW r \in enrolling, NEW t \in Tracks, FolderSkip(r, t)
      PROVE  TypeInv'
  <2>1. [r EXCEPT !.todo = @ \ {t}] \in FolderRequest
    BY <1>2 DEF FolderRequest
  <2> QED
    BY <1>4, <2>1 DEF FolderSkip, FolderGoesOn
<1>5. ASSUME NEW r \in enrolling, NEW t \in Tracks, NEW p \in Persons, FolderFile(r, t, p)
      PROVE  TypeInv'
  <2>1. status' \in [Persons -> {"enrolled", "unenrolled"}]
    BY <1>5, SyncIsTyped DEF FolderFile
  <2>2. active' \subseteq Template
    BY <1>5 DEF FolderFile, Template
  <2> DEFINE known == <<p, t>> \in active
             next == [r EXCEPT !.todo = @ \ {t}, !.made = IF known THEN @ ELSE @ \cup {p},
                               !.enrolled = @ \/ ~ known]
  <2>3. next \in FolderRequest
    BY <1>2 DEF FolderRequest
  <2>4. enrolling' = (enrolling \ {r}) \cup {next}
    BY <1>5 DEF FolderFile, FolderGoesOn
  <2>5. enrolling' \subseteq FolderRequest
    BY <2>3, <2>4
  <2> QED
    BY <1>5, <2>1, <2>2, <2>5 DEF FolderFile
<1>6. ASSUME NEW r \in enrolling, NEW p \in Persons, FolderSync(r, p)
      PROVE  TypeInv'
  <2>1. status' \in [Persons -> {"enrolled", "unenrolled"}]
    BY <1>6, SyncIsTyped DEF FolderSync
  <2>2. [r EXCEPT !.made = @ \ {p}] \in FolderRequest
    BY <1>2 DEF FolderRequest
  <2> QED
    BY <1>6, <2>1, <2>2 DEF FolderSync, FolderGoesOn
<1>7. ASSUME NEW r \in enrolling, FolderDone(r)
      PROVE  TypeInv'
  BY <1>7 DEF FolderDone
<1>8. ASSUME NEW r \in enrolling, FolderFails(r)
      PROVE  TypeInv'
  <2>1. dropped' \in BOOLEAN
    BY <1>2, <1>8 DEF FolderFails, FolderRequest
  <2> QED
    BY <1>8, <2>1 DEF FolderFails
<1> QED
  BY <1>1, <1>3, <1>4, <1>5, <1>6, <1>7, <1>8 DEF EnrolFolder, FolderStep

LEMMA DecideKeepsTypes ==
    ASSUME TypeInv, Decide
    PROVE  TypeInv'
<1> USE CountsAssumption DEF TypeInv, TypeOK, SetIsRead, roster, templates, claims, requests,
        reviews, jobs, history
<1>0. ASSUME NEW r \in deciding, NEW enrolled, ReviewGoesOn(r, enrolled)
      PROVE  deciding' \subseteq DecisionRequest /\ reviewing' \in Nat
  BY <1>0, ReviewIsTyped
<1>1. ASSUME NEW t \in Tracks, NEW kind \in {"new", "confirm", "reject"},
             NEW p \in Persons \cup {None}, NEW enroll \in BOOLEAN, NEW owes \in BOOLEAN,
             BeginDecision(t, kind, p, enroll, owes)
      PROVE  TypeInv'
  <2>1. deciding' \subseteq DecisionRequest
    <3>1. clock + 1 \in 1..MaxRequests
      BY <1>1 DEF BeginDecision, StartRequest
    <3>2. [track |-> t, kind |-> kind, person |-> p, enroll |-> enroll, at |-> clock + 1,
           owes |-> owes] \in DecisionRequest
      BY <3>1 DEF DecisionRequest
    <3> QED
      BY <1>1, <3>2 DEF BeginDecision
  <2>2. reviewing' \in Nat
    BY <1>1 DEF BeginDecision
  <2> QED
    BY <1>1, <2>1, <2>2 DEF BeginDecision, StartRequest
<1>2. ASSUME NEW r \in deciding, CommitReject(r)
      PROVE  TypeInv'
  <2>1. deciding' \subseteq DecisionRequest /\ reviewing' \in Nat
    BY <1>0, <1>2 DEF CommitReject
  <2>2. decisions' \subseteq Decision /\ said' \in [Tracks -> Saying] /\ late' \subseteq Tracks
    BY <1>2 DEF CommitReject, RecordDecision, DecisionRequest, Decision, Saying
  <2>3. identity' \in [Tracks -> Claim \cup {NoClaim}]
    BY <1>2 DEF CommitReject
  <2> QED
    BY <1>2, <2>1, <2>2, <2>3 DEF CommitReject
<1>3. ASSUME NEW r \in deciding, CommitConfirm(r)
      PROVE  TypeInv'
  <2>1. r.track \in Tracks /\ r.person \in Persons /\ r.at \in 1..MaxRequests
    BY <1>3, PersonsAreIds DEF CommitConfirm, DecisionRequest
  <2> DEFINE enrolls == r.enroll /\ <<r.person, r.track>> \notin active
  <2>2. /\ enrolls => EnrollFromTrack(r.person, r.track, {r.person})
        /\ ~ enrolls => active' = active /\ status' = status
        /\ ReviewGoesOn(r, enrolls)
    BY <1>3 DEF CommitConfirm
  <2>3. identity' \in [Tracks -> Claim \cup {NoClaim}]
    BY <1>3, <2>1, OperatorClaimIsTyped DEF CommitConfirm
  <2>4. decisions' \subseteq Decision /\ said' \in [Tracks -> Saying] /\ late' \subseteq Tracks
    BY <1>3, <2>1 DEF CommitConfirm, RecordDecision, Decision, Saying
  <2> HIDE DEF enrolls
  <2>5. active' \subseteq Template /\ status' \in [Persons -> {"enrolled", "unenrolled"}]
    BY <2>1, <2>2, SyncIsTyped DEF EnrollFromTrack, Template
  <2>6. deciding' \subseteq DecisionRequest /\ reviewing' \in Nat
    BY <1>0, <2>2
  <2> QED
    BY <1>3, <2>3, <2>4, <2>5, <2>6 DEF CommitConfirm
<1>4. ASSUME NEW r \in deciding, CommitNew(r)
      PROVE  TypeInv'
  <2>1. r.track \in Tracks /\ r.at \in 1..MaxRequests
    BY <1>4 DEF CommitNew, DecisionRequest
  <2>2. /\ created' \in 0..MaxPersons /\ created + 1 \in Persons
        /\ persons' \subseteq 1..created' /\ persons \subseteq persons'
        /\ name' \in [Persons -> Persons]
    BY <1>4, InsertIsTyped DEF CommitNew
  <2>3. identity' \in [Tracks -> Claim \cup {NoClaim}]
    BY <1>4, <2>1, <2>2, OperatorClaimIsTyped DEF CommitNew
  <2>4. active' \subseteq Template /\ status' \in [Persons -> {"enrolled", "unenrolled"}]
    BY <1>4, <2>1, <2>2, SyncIsTyped DEF CommitNew, EnrollFromTrack, Template
  <2>5. decisions' \subseteq Decision /\ said' \in [Tracks -> Saying] /\ late' \subseteq Tracks
    BY <1>4, <2>1, <2>2 DEF CommitNew, RecordDecision, Decision, Saying
  <2>6. deciding' \subseteq DecisionRequest /\ reviewing' \in Nat
    BY <1>0, <1>4 DEF CommitNew
  <2> QED
    BY <1>4, <2>2, <2>3, <2>4, <2>5, <2>6 DEF CommitNew
<1>5. ASSUME NEW r \in deciding, RefuseDecision(r)
      PROVE  TypeInv'
  <2>1. deciding' \subseteq DecisionRequest /\ reviewing' \in Nat
    BY <1>0, <1>5 DEF RefuseDecision
  <2> QED
    BY <1>5, <2>1 DEF RefuseDecision
<1>6. ASSUME NEW r \in deciding, BreakDecision(r)
      PROVE  TypeInv'
  BY <1>6 DEF BreakDecision, DecisionRequest
<1>7. CASE EndReview
  BY <1>7 DEF EndReview
<1> QED
  BY <1>1, <1>2, <1>3, <1>4, <1>5, <1>6, <1>7, PersonsAreIds DEF Decide, DecisionEnds

LEMMA PurgeKeepsTypes ==
    ASSUME TypeInv, Purge
    PROVE  TypeInv'
<1> USE CountsAssumption DEF TypeInv, TypeOK, SetIsRead, roster, templates, claims, requests,
        reviews, jobs, history
<1>1. ASSUME NEW p \in Persons, PurgePerson(p)
      PROVE  TypeInv'
  BY <1>1 DEF PurgePerson, StartRequest, NothingSaid, Saying
<1>2. ASSUME NEW f \in Files, BeginPurgeMedia(f)
      PROVE  TypeInv'
  <2>1. purging' \subseteq PurgeRequest
    <3>1. persons \subseteq Persons
      BY PersonsAreIds
    <3>2. clock + 1 \in 1..MaxRequests
      BY <1>2 DEF BeginPurgeMedia, StartRequest
    <3> DEFINE heldBy == {p \in persons : \E t \in TracksOf(f) : <<p, t>> \in active \cup revoked}
    <3>3. [file |-> f, at |-> clock + 1, held |-> heldBy] \in PurgeRequest
      BY <3>1, <3>2 DEF PurgeRequest
    <3> QED
      BY <1>2, <3>3 DEF BeginPurgeMedia
  <2> QED
    BY <1>2, <2>1 DEF BeginPurgeMedia, StartRequest
<1>3. ASSUME NEW r \in purging, CommitPurgeMedia(r)
      PROVE  TypeInv'
  <2>1. status' \in [Persons -> {"enrolled", "unenrolled"}]
    BY <1>3, SyncIsTyped DEF CommitPurgeMedia
  <2>2. identity' \in [Tracks -> Claim \cup {NoClaim}]
    BY <1>3, PurgedClaimIsTyped DEF CommitPurgeMedia
  <2> QED
    BY <1>3, <2>1, <2>2 DEF CommitPurgeMedia, NothingSaid, Saying
<1>4. ASSUME NEW r \in purging, RefusePurgeMedia(r)
      PROVE  TypeInv'
  BY <1>4 DEF RefusePurgeMedia
<1> QED
  BY <1>1, <1>2, <1>3, <1>4 DEF Purge

LEMMA WorkerKeepsTypes ==
    ASSUME TypeInv, WorkerStep
    PROVE  TypeInv'
<1> USE CountsAssumption DEF TypeInv, TypeOK, SetIsRead, roster, templates, claims, requests,
        reviews, jobs, history
<1>1. CASE ClaimJob
  BY <1>1 DEF ClaimJob, WorkerMoves, NothingRead, Snapshot, WorkerPhases
<1>2. CASE ReadThresholdSet
  BY <1>2 DEF ReadThresholdSet, WorkerMoves, Snapshot, WorkerPhases
<1>3. CASE ReadGallery
  BY <1>3 DEF ReadGallery, WorkerMoves, InGallery, Snapshot, WorkerPhases
<1>4. CASE ReadTracks
  BY <1>4 DEF ReadTracks, WorkerMoves, Snapshot, WorkerPhases
<1>5. CASE CommitRematch
  <2> DEFINE rows == MatchesOf(worker.read)
             auto == AutoAccepted(worker.read, rows)
  <2>1. rows \subseteq Match
    BY <1>5, RowsAreMatches DEF CommitRematch, WorkerMoves
  <2>2. auto \subseteq Match
    BY <2>1 DEF AutoAccepted
  <2>3. \A t \in Tracks : ClaimAfterRematch(t, auto) \in Claim \cup {NoClaim}
    BY <2>2, RematchClaimIsTyped
  <2>4. identity' \in [Tracks -> Claim \cup {NoClaim}]
    BY <1>5, <2>3 DEF CommitRematch
  <2>5. matches' \subseteq Match /\ scored' \subseteq Template
    BY <1>5, <2>1 DEF CommitRematch, Snapshot
  <2>6. worker' = [phase |-> "finishing", read |-> NothingRead]
    BY <1>5 DEF CommitRematch, WorkerMoves
  <2> QED
    BY <1>5, <2>4, <2>5, <2>6 DEF CommitRematch, WorkerMoves, NothingRead, Snapshot, WorkerPhases
<1>6. CASE AbortRematch
  BY <1>6 DEF AbortRematch, WorkerMoves, NothingRead, Snapshot, WorkerPhases
<1>7. CASE FinishJob
  BY <1>7 DEF FinishJob, WorkerMoves, NothingRead, Snapshot, WorkerPhases
<1>8. CASE WorkerStart
  <2>1. queued' \in Nat
    BY <1>8 DEF WorkerStart
  <2>2. worker' = [phase |-> "idle", read |-> NothingRead]
    BY <1>8 DEF WorkerStart, WorkerMoves
  <2>3. worker' \in [phase : WorkerPhases, read : Snapshot]
    BY <2>2 DEF NothingRead, Snapshot, WorkerPhases
  <2>4. running' \in BOOLEAN
    BY <1>8 DEF WorkerStart
  <2> QED
    BY <1>8, <2>1, <2>2, <2>3, <2>4 DEF WorkerStart, WorkerMoves
<1> QED
  BY <1>1, <1>2, <1>3, <1>4, <1>5, <1>6, <1>7, <1>8 DEF WorkerStep

LEMMA TypeStep ==
    ASSUME TypeInv, [Next]_vars
    PROVE  TypeInv'
<1> USE CountsAssumption DEF roster, templates, claims, requests, reviews, jobs, history
<1>1. CASE FollowUp
  BY <1>1 DEF FollowUp, TypeInv, TypeOK, SetIsRead
<1>2. CASE WorkerCrash
  BY <1>2 DEF WorkerCrash, NothingRead, Snapshot, WorkerPhases, TypeInv, TypeOK, SetIsRead
<1>3. CASE ApiCrash
  BY <1>3 DEF ApiCrash, TypeInv, TypeOK, SetIsRead
<1>4. CASE UNCHANGED vars
  BY <1>4 DEF vars, TypeInv, TypeOK, SetIsRead
<1> QED
  BY <1>1, <1>2, <1>3, <1>4, DecideKeepsTypes, CurateKeepsTypes, FolderKeepsTypes, PurgeKeepsTypes,
     WorkerKeepsTypes DEF Next, Crash

LEMMA TypeStart ==
    ASSUME Init
    PROVE  TypeInv
<1>1. worker \in [phase : WorkerPhases, read : Snapshot] /\ SetIsRead
  BY DEF Init, SetIsRead, NothingRead, Snapshot, WorkerPhases
<1>2. said \in [Tracks -> Saying]
  BY DEF Init, NothingSaid, Saying
<1>3. running \in BOOLEAN /\ dropped \in BOOLEAN
  BY DEF Init
<1>4. status \in [Persons -> {"enrolled", "unenrolled"}] /\ identity \in [Tracks -> Claim \cup {NoClaim}]
  BY DEF Init
<1>5. created \in 0..MaxPersons /\ clock \in 0..MaxRequests /\ crashes \in 0..MaxCrashes
  BY CountsAssumption DEF Init
<1> QED
  BY <1>1, <1>2, <1>3, <1>4, <1>5 DEF Init, TypeInv, TypeOK

(* Every variable keeps its type, and a re-match never scores without a      *)
(* threshold set in hand.                                                   *)
THEOREM TypesAreCorrect == Spec => []TypeInv
<1>1. Init => TypeInv
  BY TypeStart
<1>2. TypeInv /\ [Next]_vars => TypeInv'
  BY TypeStep
<1> QED
  BY <1>1, <1>2, PTL DEF Spec

THEOREM TypeCorrectness == Spec => []TypeOK
<1>1. TypeInv => TypeOK
  BY DEF TypeInv
<1> QED
  BY <1>1, TypesAreCorrect, PTL

-----------------------------------------------------------------------------
(* Claims and decisions.                                                    *)

(* Few steps touch a claim, a match or a decision at all.                    *)
LEMMA ClaimFrame ==
    ASSUME [Next]_vars
    PROVE  \/ UNCHANGED <<matches, identity, decisions, said, late>>
           \/ \E r \in deciding : CommitReject(r) \/ CommitConfirm(r) \/ CommitNew(r)
           \/ \E p \in Persons : PurgePerson(p)
           \/ \E r \in purging : CommitPurgeMedia(r)
           \/ CommitRematch
<1> USE DEF claims, history
<1>1. CASE Decide
  BY <1>1 DEF Decide, DecisionEnds, BeginDecision, RefuseDecision, BreakDecision, EndReview
<1>2. CASE Curate
  BY <1>2 DEF Curate, CreatePerson, CreateTemplate, RevokeTemplate, UpdatePerson,
     ActivateThresholdSet, RequestRematch
<1>8. CASE EnrolFolder
  <2>1. ASSUME NEW r, NEW t, NEW p, FolderFile(r, t, p)
        PROVE  UNCHANGED <<matches, identity, decisions, said, late>>
    BY <2>1 DEF FolderFile
  <2>2. ASSUME NEW r, NEW p, FolderSync(r, p)
        PROVE  UNCHANGED <<matches, identity, decisions, said, late>>
    BY <2>2 DEF FolderSync
  <2>3. ASSUME NEW r, NEW t, FolderSkip(r, t)
        PROVE  UNCHANGED <<matches, identity, decisions, said, late>>
    BY <2>3 DEF FolderSkip
  <2>4. ASSUME NEW r, FolderPerson(r) \/ FolderDone(r) \/ FolderFails(r)
        PROVE  UNCHANGED <<matches, identity, decisions, said, late>>
    BY <2>4 DEF FolderPerson, FolderDone, FolderFails
  <2>5. ASSUME NEW files, BeginFolder(files)
        PROVE  UNCHANGED <<matches, identity, decisions, said, late>>
    BY <2>5 DEF BeginFolder
  <2> QED
    BY <1>8, <2>1, <2>2, <2>3, <2>4, <2>5 DEF EnrolFolder, FolderStep
<1>3. CASE Purge
  BY <1>3 DEF Purge, BeginPurgeMedia, RefusePurgeMedia
<1>4. CASE FollowUp
  BY <1>4 DEF FollowUp
<1>5. CASE WorkerStep
  BY <1>5 DEF WorkerStep, WorkerMoves, ClaimJob, ReadThresholdSet, ReadGallery, ReadTracks,
     AbortRematch, FinishJob, WorkerStart
<1>6. CASE Crash
  BY <1>6 DEF Crash, WorkerCrash, ApiCrash
<1>7. CASE UNCHANGED vars
  BY <1>7 DEF vars
<1> QED
  BY <1>1, <1>2, <1>3, <1>4, <1>5, <1>6, <1>7, <1>8 DEF Next

-----------------------------------------------------------------------------
(* What claims rest on.                                                     *)

(* An auto claim always links to the match it was made from; that is what    *)
(* lets a media purge find every auto claim its templates stand behind.     *)
RestsOnItsMatch(t) ==
    /\ identity[t].match # None =>
          /\ identity[t].match = identity[t].person
          /\ \E m \in matches : m.track = t /\ m.person = identity[t].match
    /\ identity[t].source = "auto" =>
          /\ identity[t].match = identity[t].person
          /\ ThresholdRow[identity[t].set].calibrated
          /\ \E m \in matches :
                /\ m.track = t /\ m.person = identity[t].person /\ m.rank = 1
                /\ m.band = "strong" /\ m.set = identity[t].set

ClaimInv == \A t \in Tracks : RestsOnItsMatch(t)

\* What an operator's decision writes is a well-linked claim of no one's scoring.
LEMMA OperatorClaimIsLinked ==
    ASSUME TypeOK, NEW t \in Tracks, NEW p \in Persons
    PROVE  /\ OperatorClaim(t, p).source = "operator"
           /\ OperatorClaim(t, p).match # None =>
                 /\ OperatorClaim(t, p).match = OperatorClaim(t, p).person
                 /\ \E m \in matches : m.track = t /\ m.person = OperatorClaim(t, p).match
  BY NoneAssumption DEF OperatorClaim

\* A re-match leaves an operator's claim unlinked, and makes an auto claim only from
\* a row it writes that is the strong top match of a calibrated set.
LEMMA RematchClaimIsLinked ==
    ASSUME NEW t, NEW read, NEW rows,
           identity[t].source # "operator" \/ identity[t] \in Claim
    PROVE  LET auto == AutoAccepted(read, rows)
               after == ClaimAfterRematch(t, auto)
           IN  \/ after = NoClaim
               \/ after.source = "operator" /\ after.match = None
               \/ \E m \in rows :
                     /\ m.track = t /\ m.rank = 1 /\ m.band = "strong"
                     /\ ThresholdRow[read.set].calibrated
                     /\ after = [source |-> "auto", person |-> m.person, match |-> m.person,
                                 set |-> m.set]
<1> DEFINE auto == AutoAccepted(read, rows)
           top == {m \in auto : m.track = t}
<1>1. CASE identity[t].source = "operator"
  BY <1>1 DEF ClaimAfterRematch, Claim
<1>2. CASE identity[t].source # "operator" /\ top = {}
  BY <1>2 DEF ClaimAfterRematch
<1>3. CASE identity[t].source # "operator" /\ top # {}
  <2> DEFINE m == CHOOSE row \in top : TRUE
  <2>1. m \in top
    BY <1>3
  <2>2. m \in rows /\ m.track = t /\ m.rank = 1
        /\ Accepts(ThresholdRow[read.set], Cardinality(PersonsIn(read.gallery)), m.band)
    BY <2>1 DEF AutoAccepted
  <2>3. m.band = "strong" /\ ThresholdRow[read.set].calibrated
    BY <2>2, AcceptedIsStrong
  <2>4. ClaimAfterRematch(t, auto) = [source |-> "auto", person |-> m.person,
                                      match |-> m.person, set |-> m.set]
    BY <1>3 DEF ClaimAfterRematch
  <2> QED
    BY <2>2, <2>3, <2>4
<1> QED
  BY <1>1, <1>2, <1>3

LEMMA ClaimStep ==
    ASSUME TypeInv, ClaimInv, [Next]_vars
    PROVE  ClaimInv'
<1> USE NoneAssumption DEF ClaimInv, RestsOnItsMatch
<1>1. CASE UNCHANGED <<matches, identity, decisions, said, late>>
  BY <1>1
<1>2. ASSUME NEW r \in deciding, CommitReject(r)
      PROVE  ClaimInv'
  BY <1>2 DEF CommitReject, NoClaim, TypeInv, TypeOK
<1>3. ASSUME NEW r \in deciding, CommitConfirm(r) \/ CommitNew(r)
      PROVE  ClaimInv'
  <2>1. PICK p \in Persons : identity' = [identity EXCEPT ![r.track] = OperatorClaim(r.track, p)]
    <3>1. CASE CommitConfirm(r)
      BY <3>1, PersonsAreIds DEF CommitConfirm, TypeInv
    <3>2. CASE CommitNew(r)
      <4>1. created + 1 \in Persons
        BY <3>2, InsertIsTyped DEF CommitNew, TypeInv
      <4> QED
        BY <3>2, <4>1 DEF CommitNew
    <3> QED
      BY <1>3, <3>1, <3>2
  <2>2. matches' = matches
    BY <1>3 DEF CommitConfirm, CommitNew
  <2>3. r.track \in Tracks
    BY <1>3 DEF TypeInv, TypeOK, DecisionRequest
  <2>4. OperatorClaim(r.track, p).source = "operator"
        /\ (OperatorClaim(r.track, p).match # None =>
              /\ OperatorClaim(r.track, p).match = OperatorClaim(r.track, p).person
              /\ \E m \in matches : m.track = r.track /\ m.person = OperatorClaim(r.track, p).match)
    BY <2>3, OperatorClaimIsLinked DEF TypeInv
  <2> QED
    BY <2>1, <2>2, <2>3, <2>4 DEF TypeInv, TypeOK
<1>4. ASSUME NEW p \in Persons, PurgePerson(p)
      PROVE  ClaimInv'
  <2> SUFFICES ASSUME NEW t \in Tracks, identity'[t] = identity[t], identity[t].person # p
               PROVE  RestsOnItsMatch(t)'
    BY <1>4 DEF PurgePerson, NoClaim
  <2>1. \A m \in matches : m.person = identity[t].person => m \in matches'
    BY <1>4 DEF PurgePerson
  <2> QED
    BY <2>1
<1>5. ASSUME NEW r \in purging, CommitPurgeMedia(r)
      PROVE  ClaimInv'
  <2> DEFINE gone == TracksOf(r.file)
  <2>1. identity' = [t \in Tracks |-> ClaimAfterPurge(t, gone)]
        /\ matches' = {m \in matches : m.track \notin gone /\ m.via \notin gone}
    BY <1>5 DEF CommitPurgeMedia
  <2> SUFFICES ASSUME NEW t \in Tracks PROVE RestsOnItsMatch(t)'
    BY DEF ClaimInv
  <2> DEFINE rests == \E m \in matches : /\ m.track = t /\ m.person = identity[t].match
                                         /\ m.via \in gone
  <2>2. identity[t] \in Claim \cup {NoClaim}
    BY DEF TypeInv, TypeOK
  <2>3. \/ identity'[t] = NoClaim
        \/ identity[t] \in Claim /\ identity'[t] = [identity[t] EXCEPT !.match = None]
              /\ identity[t].source = "operator"
        \/ identity'[t] = identity[t] /\ t \notin gone /\ ~ rests
    <3>1. rests => identity[t].source \in {"auto", "operator"} /\ identity[t] \in Claim
      BY <2>2 DEF NoClaim, Claim, TypeInv, TypeOK, Match
    <3> QED
      BY <2>1, <3>1 DEF ClaimAfterPurge
  <2>4. CASE identity'[t] = NoClaim
    BY <2>4 DEF NoClaim
  <2>5. CASE /\ identity[t] \in Claim /\ identity'[t] = [identity[t] EXCEPT !.match = None]
             /\ identity[t].source = "operator"
    BY <2>5 DEF Claim
  <2>6. CASE identity'[t] = identity[t] /\ t \notin gone /\ ~ rests
    <3>1. \A m \in matches : m.track = t /\ m.person = identity[t].match => m \in matches'
      BY <2>1, <2>6
    <3> QED
      BY <2>6, <3>1
  <2> QED
    BY <2>3, <2>4, <2>5, <2>6
<1>6. CASE CommitRematch
  <2> DEFINE read == worker.read
             rows == MatchesOf(read)
             auto == AutoAccepted(read, rows)
  <2>1. /\ identity' = [t \in Tracks |-> IF t \in read.tracks
                                         THEN ClaimAfterRematch(t, auto) ELSE identity[t]]
        /\ matches' = {m \in matches : m.track \notin read.tracks} \cup rows
    BY <1>6 DEF CommitRematch
  <2>2. \A m \in rows : m.set = read.set
    BY <1>6, RowsAreMatches DEF CommitRematch, WorkerMoves, TypeInv, SetIsRead
  <2>3. ASSUME NEW t \in Tracks, t \in read.tracks
        PROVE  RestsOnItsMatch(t)'
    <3>1. identity[t].source # "operator" \/ identity[t] \in Claim
      BY DEF TypeInv, TypeOK, NoClaim
    <3>2. identity'[t] = ClaimAfterRematch(t, auto)
      BY <2>1, <2>3
    <3>3. CASE identity'[t] = NoClaim
      BY <3>3 DEF NoClaim
    <3>4. CASE identity'[t].source = "operator" /\ identity'[t].match = None
      BY <3>4
    <3>5. ASSUME NEW m \in rows,
                 m.track = t, m.rank = 1, m.band = "strong", ThresholdRow[read.set].calibrated,
                 identity'[t] = [source |-> "auto", person |-> m.person, match |-> m.person,
                                 set |-> m.set]
          PROVE  RestsOnItsMatch(t)'
      <4>1. m \in matches' /\ m.set = read.set
        BY <2>1, <2>2
      <4> QED
        BY <3>5, <4>1
    <3> QED
      BY <3>1, <3>2, <3>3, <3>4, <3>5, RematchClaimIsLinked
  <2>4. ASSUME NEW t \in Tracks, t \notin read.tracks
        PROVE  /\ identity'[t] = identity[t]
               /\ \A m \in matches : m.track = t => m \in matches'
    BY <2>1, <2>4
  <2> QED
    BY <2>3, <2>4
<1> QED
  BY <1>1, <1>2, <1>3, <1>4, <1>5, <1>6, ClaimFrame

LEMMA ClaimsRestOnTheirMatches == Spec => []ClaimInv
<1>1. Init => ClaimInv
  BY DEF Init, ClaimInv, RestsOnItsMatch, NoClaim
<1>2. TypeInv /\ ClaimInv /\ [Next]_vars => ClaimInv'
  BY ClaimStep
<1> QED
  BY <1>1, <1>2, TypesAreCorrect, PTL DEF Spec

(* No claim links to a match that is not its own or is gone, through every    *)
(* order of decisions, purges and re-matches: what the order of deletes is   *)
(* there for (purge.py:119-123).                                            *)
THEOREM ClaimsLinkToTheirOwn == Spec => []ClaimOwnMatch
<1>1. ClaimInv => ClaimOwnMatch
  BY DEF ClaimInv, RestsOnItsMatch, ClaimOwnMatch
<1> QED
  BY <1>1, ClaimsRestOnTheirMatches, PTL

(* An auto claim is never more than its evidence: the strong top match of its *)
(* track under a calibrated set (matching.py:205-251, purge.py:228-256).     *)
THEOREM AutoClaimsHaveEvidence == Spec => []AutoRestsOnTopMatch
<1>1. ClaimInv => AutoRestsOnTopMatch
  BY DEF ClaimInv, RestsOnItsMatch, AutoRestsOnTopMatch
<1> QED
  BY <1>1, ClaimsRestOnTheirMatches, PTL

-----------------------------------------------------------------------------
(* What an operator said.                                                   *)

\* The last decision on a track that is not late is the newest of its rows, and the
\* track's claim says what it says.
IsUpheld(t) ==
    t \notin late /\ said[t].kind # "nothing" =>
        /\ \E d \in OnTrack(t) :
              /\ d.kind = said[t].kind /\ d.person = said[t].person
              /\ \A other \in OnTrack(t) : other.at <= d.at
        /\ said[t].kind = "reject" => identity[t] = NoClaim
        /\ said[t].kind = "tag" =>
              identity[t].source = "operator" /\ identity[t].person = said[t].person

StandsInv == \A t \in Tracks : IsUpheld(t)

\* Recording a decision makes it the newest of its track, or the track late.
LEMMA RecordedIsNewest ==
    ASSUME TypeOK, NEW r \in deciding, NEW kind, NEW p, RecordDecision(r, kind, p),
           r.track \notin late'
    PROVE  /\ said'[r.track] = [kind |-> kind, person |-> p]
           /\ \E d \in OnTrack(r.track)' :
                 /\ d.kind = kind /\ d.person = p
                 /\ \A other \in OnTrack(r.track)' : other.at <= d.at
<1> DEFINE new == [track |-> r.track, kind |-> kind, person |-> p, at |-> r.at]
<1>1. r.track \in Tracks /\ r.at \in Int /\ \A d \in decisions : d.at \in Int
  BY CountsAssumption DEF TypeOK, DecisionRequest, Decision
<1>2. said'[r.track] = [kind |-> kind, person |-> p]
  BY <1>1 DEF RecordDecision, TypeOK
<1>3. \A d \in OnTrack(r.track) : d.at <= r.at
  BY <1>1 DEF RecordDecision, OnTrack
<1>4. decisions' = decisions \cup {new}
  BY DEF RecordDecision
<1>5. new \in OnTrack(r.track)' /\ \A other \in OnTrack(r.track)' : other.at <= new.at
  BY <1>1, <1>3, <1>4 DEF OnTrack
<1> QED
  BY <1>2, <1>5

\* Recording a decision leaves every other track's decisions as they are.
LEMMA RecordedElsewhere ==
    ASSUME TypeOK, NEW r \in deciding, NEW kind, NEW p, RecordDecision(r, kind, p),
           NEW t \in Tracks, t # r.track
    PROVE  said'[t] = said[t] /\ OnTrack(t)' = OnTrack(t) /\ (t \in late' <=> t \in late)
<1>1. said'[t] = said[t]
  BY DEF RecordDecision, TypeOK
<1>2. OnTrack(t)' = OnTrack(t)
  BY DEF RecordDecision, OnTrack
<1>3. t \in late' <=> t \in late
  BY DEF RecordDecision
<1> QED
  BY <1>1, <1>2, <1>3

LEMMA StandsStep ==
    ASSUME TypeInv, StandsInv, [Next]_vars
    PROVE  StandsInv'
<1> SUFFICES ASSUME NEW t \in Tracks PROVE IsUpheld(t)'
  BY DEF StandsInv
<1>0. IsUpheld(t) /\ identity[t] \in Claim \cup {NoClaim}
  BY DEF StandsInv, TypeInv, TypeOK
<1>1. CASE UNCHANGED <<matches, identity, decisions, said, late>>
  BY <1>0, <1>1 DEF IsUpheld, OnTrack
<1>2. ASSUME NEW r \in deciding, NEW kind \in {"tag", "reject"}, NEW p, NEW claim,
             RecordDecision(r, kind, p),
             identity' = [identity EXCEPT ![r.track] = claim],
             kind = "reject" => claim = NoClaim,
             kind = "tag" => claim.source = "operator" /\ claim.person = p
      PROVE  IsUpheld(t)'
  <2>1. CASE t = r.track
    <3>1. identity'[t] = claim
      BY <1>2, <2>1 DEF TypeInv, TypeOK
    <3>2. SUFFICES ASSUME t \notin late' PROVE IsUpheld(t)'
      BY DEF IsUpheld
    <3>3. /\ said'[t] = [kind |-> kind, person |-> p]
          /\ \E d \in OnTrack(t)' :
                /\ d.kind = kind /\ d.person = p
                /\ \A other \in OnTrack(t)' : other.at <= d.at
      BY <1>2, <2>1, <3>2, RecordedIsNewest DEF TypeInv
    <3> QED
      BY <1>2, <3>1, <3>3 DEF IsUpheld
  <2>2. CASE t # r.track
    <3>1. said'[t] = said[t] /\ OnTrack(t)' = OnTrack(t) /\ (t \in late' <=> t \in late)
      BY <1>2, <2>2, RecordedElsewhere DEF TypeInv
    <3>2. identity'[t] = identity[t]
      BY <1>2, <2>2 DEF TypeInv, TypeOK
    <3> QED
      BY <1>0, <3>1, <3>2 DEF IsUpheld
  <2> QED
    BY <2>1, <2>2
<1>3. ASSUME NEW r \in deciding, CommitReject(r) \/ CommitConfirm(r) \/ CommitNew(r)
      PROVE  IsUpheld(t)'
  <2>1. \A p : OperatorClaim(r.track, p).source = "operator" /\ OperatorClaim(r.track, p).person = p
    BY DEF OperatorClaim
  <2>2. CASE CommitReject(r)
    BY <1>2, <2>2 DEF CommitReject
  <2>3. CASE CommitConfirm(r)
    BY <1>2, <2>1, <2>3 DEF CommitConfirm
  <2>4. CASE CommitNew(r)
    BY <1>2, <2>1, <2>4 DEF CommitNew
  <2> QED
    BY <1>3, <2>2, <2>3, <2>4
<1>4. ASSUME NEW p \in Persons, PurgePerson(p)
      PROVE  IsUpheld(t)'
  <2>1. CASE said[t].person = p
    <3>1. said'[t] = NothingSaid
      BY <1>4, <2>1 DEF PurgePerson
    <3> QED
      BY <3>1 DEF IsUpheld, NothingSaid
  <2>2. CASE said[t].person # p
    <3>1. said'[t] = said[t] /\ late' = late
      BY <1>4, <2>2 DEF PurgePerson
    <3>2. OnTrack(t)' = {d \in OnTrack(t) : d.person # p}
      BY <1>4 DEF PurgePerson, OnTrack
    <3>3. identity'[t] = IF identity[t].person = p THEN NoClaim ELSE identity[t]
      BY <1>4 DEF PurgePerson
    <3> QED
      BY <1>0, <2>2, <3>1, <3>2, <3>3 DEF IsUpheld
  <2> QED
    BY <2>1, <2>2
<1>5. ASSUME NEW r \in purging, CommitPurgeMedia(r)
      PROVE  IsUpheld(t)'
  <2> DEFINE gone == TracksOf(r.file)
  <2>1. late' = late /\ identity'[t] = ClaimAfterPurge(t, gone)
        /\ said'[t] = IF t \in gone THEN NothingSaid ELSE said[t]
    BY <1>5 DEF CommitPurgeMedia
  <2>2. CASE t \in gone
    BY <2>1, <2>2 DEF IsUpheld, NothingSaid
  <2>3. CASE t \notin gone
    <3>1. OnTrack(t)' = OnTrack(t)
      BY <1>5, <2>3 DEF CommitPurgeMedia, OnTrack
    <3>2. identity[t] = NoClaim => identity'[t] = NoClaim
      BY <2>1, <2>3, NoneAssumption DEF ClaimAfterPurge, NoClaim
    <3>3. identity[t].source = "operator" =>
             identity'[t].source = "operator" /\ identity'[t].person = identity[t].person
      BY <1>0, <2>1, <2>3 DEF ClaimAfterPurge, NoClaim, Claim
    <3> QED
      BY <1>0, <2>1, <2>3, <3>1, <3>2, <3>3 DEF IsUpheld
  <2> QED
    BY <2>2, <2>3
<1>6. CASE CommitRematch
  <2> DEFINE auto == AutoAccepted(worker.read, MatchesOf(worker.read))
  <2>1. /\ UNCHANGED <<decisions, said, late>>
        /\ identity'[t] = IF t \in worker.read.tracks
                          THEN ClaimAfterRematch(t, auto) ELSE identity[t]
    BY <1>6 DEF CommitRematch, WorkerMoves
  <2>2. OnTrack(t)' = OnTrack(t)
    BY <2>1 DEF OnTrack
  <2>3. identity[t].source = "operator" =>
           identity'[t].source = "operator" /\ identity'[t].person = identity[t].person
    BY <1>0, <2>1 DEF ClaimAfterRematch, NoClaim, Claim
  <2>4. identity[t] = NoClaim /\ LatestIsReject(t) => identity'[t] = NoClaim
    BY <2>1 DEF ClaimAfterRematch, AutoAccepted, NoClaim
  <2>5. t \notin late /\ said[t].kind = "reject" => LatestIsReject(t)
    BY <1>0 DEF IsUpheld, LatestIsReject
  <2> QED
    BY <1>0, <2>1, <2>2, <2>3, <2>4, <2>5 DEF IsUpheld
<1> QED
  BY <1>1, <1>3, <1>4, <1>5, <1>6, ClaimFrame

(* What an operator last said of a track stands, through every re-match,      *)
(* purge, crash and concurrent request, where decisions commit in the order  *)
(* of their timestamps (identifications.py:82-194, matching.py:172-253).     *)
THEOREM OperatorsAreUpheld == Spec => []DecisionStands
<1>1. Init => StandsInv
  BY DEF Init, StandsInv, IsUpheld, NothingSaid
<1>2. TypeInv /\ StandsInv /\ [Next]_vars => StandsInv'
  BY StandsStep
<1>3. StandsInv => DecisionStands
  BY DEF StandsInv, IsUpheld, DecisionStands
<1> QED
  BY <1>1, <1>2, <1>3, TypesAreCorrect, PTL DEF Spec

(* No step of the worker takes a track from an operator (matching.py:172-251).*)
THEOREM WorkersYieldToOperators == Spec => OperatorWins
<1>1. TypeInv /\ [Next]_vars =>
        [worker' # worker =>
            \A t \in Tracks : identity[t].source = "operator" =>
                /\ identity'[t].source = "operator"
                /\ identity'[t].person = identity[t].person]_vars
  <2> SUFFICES ASSUME TypeInv, [Next]_vars, worker' # worker,
                      NEW t \in Tracks, identity[t].source = "operator"
               PROVE  identity'[t].source = "operator" /\ identity'[t].person = identity[t].person
    OBVIOUS
  <2>1. identity[t] \in Claim \cup {NoClaim}
    BY DEF TypeInv, TypeOK
  <2>2. CASE UNCHANGED <<matches, identity, decisions, said, late>>
    BY <2>2
  <2>3. CASE CommitRematch
    BY <2>1, <2>3 DEF CommitRematch, ClaimAfterRematch, NoClaim, Claim
  <2>4. \A r \in deciding : ~ (CommitReject(r) \/ CommitConfirm(r) \/ CommitNew(r))
    BY DEF CommitReject, CommitConfirm, CommitNew, jobs
  <2>5. \A p \in Persons : ~ PurgePerson(p)
    BY DEF PurgePerson, jobs
  <2>6. \A r \in purging : ~ CommitPurgeMedia(r)
    BY DEF CommitPurgeMedia, jobs
  <2> QED
    BY <2>2, <2>3, <2>4, <2>5, <2>6, ClaimFrame
<1> QED
  BY <1>1, TypesAreCorrect, PTL DEF Spec, OperatorWins

-----------------------------------------------------------------------------
(* The claims Claims promises.                                              *)

ClaimedVars == <<created, persons, tracks, identity, said, late>>

\* Few steps touch a person's row, a track, a claim or a decision.
LEMMA ClaimedFrame ==
    ASSUME [Next]_vars
    PROVE  \/ UNCHANGED ClaimedVars
           \/ CreatePerson \/ \E r \in enrolling : FolderPerson(r)
           \/ \E r \in deciding : CommitReject(r) \/ CommitConfirm(r) \/ CommitNew(r)
           \/ \E p \in Persons : PurgePerson(p)
           \/ \E r \in purging : CommitPurgeMedia(r)
           \/ CommitRematch
<1> USE DEF ClaimedVars, roster, claims, history
<1>1. CASE Decide
  BY <1>1 DEF Decide, DecisionEnds, BeginDecision, RefuseDecision, BreakDecision, EndReview
<1>2. CASE Curate
  BY <1>2 DEF Curate, CreateTemplate, RevokeTemplate, UpdatePerson, ActivateThresholdSet,
     RequestRematch
<1>3. CASE EnrolFolder
  <2>1. ASSUME NEW r, NEW t, NEW p, FolderFile(r, t, p)
        PROVE  UNCHANGED ClaimedVars
    BY <2>1 DEF FolderFile
  <2>2. ASSUME NEW r, NEW p, FolderSync(r, p)
        PROVE  UNCHANGED ClaimedVars
    BY <2>2 DEF FolderSync
  <2>3. ASSUME NEW r, NEW t, FolderSkip(r, t)
        PROVE  UNCHANGED ClaimedVars
    BY <2>3 DEF FolderSkip
  <2>4. ASSUME NEW r, FolderDone(r) \/ FolderFails(r)
        PROVE  UNCHANGED ClaimedVars
    BY <2>4 DEF FolderDone, FolderFails
  <2>5. ASSUME NEW files, BeginFolder(files)
        PROVE  UNCHANGED ClaimedVars
    BY <2>5 DEF BeginFolder
  <2> QED
    BY <1>3, <2>1, <2>2, <2>3, <2>4, <2>5 DEF EnrolFolder, FolderStep
<1>4. CASE Purge
  BY <1>4 DEF Purge, BeginPurgeMedia, RefusePurgeMedia
<1>5. CASE FollowUp
  BY <1>5 DEF FollowUp
<1>6. CASE WorkerStep
  BY <1>6 DEF WorkerStep, WorkerMoves, ClaimJob, ReadThresholdSet, ReadGallery, ReadTracks,
     AbortRematch, FinishJob, WorkerStart
<1>7. CASE Crash
  BY <1>7 DEF Crash, WorkerCrash, ApiCrash
<1>8. CASE UNCHANGED vars
  BY <1>8 DEF vars
<1> QED
  BY <1>1, <1>2, <1>3, <1>4, <1>5, <1>6, <1>7, <1>8 DEF Next

\* The next person there is has an id, and nobody ever had it.
LEMMA NextIsNew ==
    ASSUME TypeOK, created < MaxPersons
    PROVE  /\ created + 1 \in Persons \ 1..created
           /\ 1..(created + 1) = 1..created \cup {created + 1}
<1>1. created \in Nat /\ MaxPersons \in Nat
  BY CountsAssumption DEF TypeOK
<1> QED
  BY <1>1 DEF Persons

\* A decision that commits is somebody's word in Claims.
LEMMA RecordedIsSaid ==
    ASSUME TypeOK, NEW r \in deciding, r.track \in tracks, NEW kind, NEW p, NEW row,
           RecordDecision(r, kind, p), identity' = [identity EXCEPT ![r.track] = row],
           UNCHANGED tracks
    PROVE  Claimed!Say(r.track, kind, p, [by |-> row.source, person |-> row.person])
<1>1. r.track \in Tracks /\ identity \in [Tracks -> Claim \cup {NoClaim}]
  BY DEF TypeOK, DecisionRequest
<1>2. Claimant' = [Claimant EXCEPT ![r.track] = [by |-> row.source, person |-> row.person]]
  BY <1>1 DEF Claimant
<1>3. late' \in {late \cup {r.track}, late \ {r.track}}
  BY DEF RecordDecision
<1>4. said' = [said EXCEPT ![r.track] = [kind |-> kind, person |-> p]]
  BY DEF RecordDecision
<1> QED
  BY <1>2, <1>3, <1>4 DEF Claimed!Say

LEMMA DecisionIsSaid ==
    ASSUME TypeOK, NEW r \in deciding,
           CommitReject(r) \/ CommitConfirm(r) \/ CommitNew(r)
    PROVE  Claimed!Next
<1>1. r.track \in Tracks
  BY DEF TypeOK, DecisionRequest
<1>2. \A p : OperatorClaim(r.track, p).source = "operator" /\ OperatorClaim(r.track, p).person = p
  BY DEF OperatorClaim
<1>3. CASE CommitReject(r)
  <2>1. Claimed!Say(r.track, "reject", None, [by |-> NoClaim.source, person |-> NoClaim.person])
    BY <1>3, RecordedIsSaid DEF CommitReject, roster
  <2>2. Claimed!Reject(r.track)
    BY <1>3, <2>1 DEF CommitReject, Claimed!Reject, Claimed!Nobody, NoClaim, roster
  <2> QED
    BY <1>1, <2>2 DEF Claimed!Next
<1>4. CASE CommitConfirm(r)
  <2>1. Claimed!Say(r.track, "tag", r.person, [by |-> "operator", person |-> r.person])
    BY <1>2, <1>4, RecordedIsSaid DEF CommitConfirm
  <2>2. r.person \in persons /\ r.person \in Persons /\ r.person \in 1..created
    BY <1>4, PersonsAreIds DEF CommitConfirm, TypeOK
  <2>3. Claimed!Tag(r.track, r.person)
    BY <1>4, <2>1, <2>2 DEF CommitConfirm, Claimed!Tag
  <2> QED
    BY <1>1, <2>2, <2>3 DEF Claimed!Next
<1>5. CASE CommitNew(r)
  <2> DEFINE p == created + 1
  <2>1. Claimed!Say(r.track, "tag", p, [by |-> "operator", person |-> p])
    <3>1. /\ r.track \in tracks /\ tracks' = tracks /\ RecordDecision(r, "tag", p)
          /\ identity' = [identity EXCEPT ![r.track] = OperatorClaim(r.track, p)]
      BY <1>5 DEF CommitNew
    <3> HIDE DEF p
    <3>2. Claimed!Say(r.track, "tag", p, [by |-> OperatorClaim(r.track, p).source,
                                          person |-> OperatorClaim(r.track, p).person])
      BY <3>1, RecordedIsSaid
    <3> QED
      BY <1>2, <3>2
  <2>2. p \in Persons \ 1..created /\ 1..p = 1..created \cup {p}
    BY <1>5, NextIsNew DEF CommitNew, InsertPerson
  <2>3. Claimed!Tag(r.track, p)
    BY <1>5, <2>1, <2>2 DEF CommitNew, InsertPerson, Claimed!Tag
  <2> QED
    BY <1>1, <2>2, <2>3 DEF Claimed!Next
<1> QED
  BY <1>3, <1>4, <1>5

LEMMA PersonIsForgotten ==
    ASSUME TypeOK, NEW q \in Persons, PurgePerson(q)
    PROVE  Claimed!ForgetPerson(q)
<1>1. Claimant' = [t \in Tracks |-> IF Claimant[t].person = q THEN Claimed!Nobody ELSE Claimant[t]]
  BY DEF PurgePerson, Claimant, Claimed!Nobody, NoClaim
<1>2. said' = [t \in Tracks |-> IF said[t].person = q THEN Claimed!Silence ELSE said[t]]
  BY DEF PurgePerson, Claimed!Silence, NothingSaid
<1> QED
  BY <1>1, <1>2 DEF Claimed!ForgetPerson, PurgePerson

LEMMA TracksAreForgotten ==
    ASSUME TypeOK, NEW r \in purging, CommitPurgeMedia(r)
    PROVE  Claimed!ForgetTracks(TracksOf(r.file)) /\ TracksOf(r.file) \in SUBSET tracks
<1> DEFINE gone == TracksOf(r.file)
           lost == {t \in Tracks : identity[t].source = "auto" /\ identity'[t] = NoClaim}
<1>1. ASSUME NEW t \in Tracks
      PROVE  /\ t \in gone \cup lost => identity'[t] = NoClaim
             /\ t \notin gone \cup lost => /\ identity'[t].source = identity[t].source
                                           /\ identity'[t].person = identity[t].person
  <2>1. identity'[t] = ClaimAfterPurge(t, gone) /\ identity[t] \in Claim \cup {NoClaim}
    BY DEF CommitPurgeMedia, TypeOK
  <2>2. CASE t \in gone
    BY <2>1, <2>2 DEF ClaimAfterPurge
  <2>3. CASE t \notin gone
    BY <2>1, <2>3 DEF ClaimAfterPurge, Claim, NoClaim
  <2> QED
    BY <2>2, <2>3
<1>2. lost \in SUBSET {t \in Tracks : Claimant[t].by = "auto"}
  BY DEF Claimant
<1>3. Claimant' = [t \in Tracks |-> IF t \in gone \cup lost THEN Claimed!Nobody ELSE Claimant[t]]
  <2> HIDE DEF gone, lost
  <2> QED
    BY <1>1 DEF Claimant, Claimed!Nobody, NoClaim
<1>4. said' = [t \in Tracks |-> IF t \in gone THEN Claimed!Silence ELSE said[t]]
  BY DEF CommitPurgeMedia, Claimed!Silence, NothingSaid
<1>5. gone \in SUBSET tracks
  BY DEF TracksOf
<1>6. UNCHANGED <<created, persons, late>> /\ tracks' = tracks \ gone
  BY DEF CommitPurgeMedia
<1> HIDE DEF gone, lost
<1>7. Claimed!ForgetTracks(gone)
  BY <1>2, <1>3, <1>4, <1>6 DEF Claimed!ForgetTracks
<1> QED
  BY <1>5, <1>7 DEF gone

\* A re-match infers: it claims whom it has a row for, and for no track that an
\* operator's claim or a reject that stands is on.
LEMMA RematchInfers ==
    ASSUME TypeOK, TypeOK', StandsInv, CommitRematch
    PROVE  Claimed!Infer
<1> DEFINE read == worker.read
           rows == MatchesOf(read)
           auto == AutoAccepted(read, rows)
<1>1. Claimant' \in [Tracks -> Claimed!Claim]
  BY DEF TypeOK, Claimant, Claimed!Claim, Claim, NoClaim
<1>2. ASSUME NEW t \in Tracks
      PROVE  \/ Claimant'[t] = Claimant[t]
             \/ Claimant'[t] = Claimed!Nobody /\ Claimant[t].by # "operator"
             \/ /\ Claimed!Open(t)
                /\ \E p \in persons : Claimant'[t] = [by |-> "auto", person |-> p]
  <2> DEFINE top == {m \in auto : m.track = t}
  <2>1. identity[t] \in Claim \cup {NoClaim} /\ identity'[t] = IF t \in read.tracks
           THEN ClaimAfterRematch(t, auto) ELSE identity[t]
    BY DEF CommitRematch, TypeOK
  <2>2. /\ Claimant[t] = [by |-> identity[t].source, person |-> identity[t].person]
        /\ Claimant'[t] = [by |-> identity'[t].source, person |-> identity'[t].person]
    BY DEF Claimant
  <2>3. CASE t \notin read.tracks
    BY <2>1, <2>2, <2>3
  <2>4. CASE t \in read.tracks /\ identity[t].source = "operator"
    <3>1. identity'[t].source = "operator" /\ identity'[t].person = identity[t].person
      BY <2>1, <2>4 DEF ClaimAfterRematch, Claim, NoClaim
    <3> QED
      BY <2>2, <2>4, <3>1
  <2>5. CASE t \in read.tracks /\ identity[t].source # "operator" /\ top = {}
    <3>1. identity'[t] = NoClaim
      BY <2>1, <2>5 DEF ClaimAfterRematch
    <3> QED
      BY <2>2, <2>5, <3>1 DEF NoClaim, Claimed!Nobody
  <2>6. CASE t \in read.tracks /\ identity[t].source # "operator" /\ top # {}
    <3> DEFINE m == CHOOSE row \in top : TRUE
    <3>1. m \in top
      BY <2>6
    <3>2. m \in rows /\ m.track = t /\ ~ LatestIsReject(t)
      BY <3>1 DEF AutoAccepted
    <3>3. t \in tracks /\ m.person \in persons
      BY <3>2 DEF CommitRematch, Writable
    <3>4. identity'[t].source = "auto" /\ identity'[t].person = m.person
      BY <2>1, <2>6 DEF ClaimAfterRematch
    <3>5. said[t].kind = "reject" => t \in late
      BY <3>2 DEF StandsInv, IsUpheld, LatestIsReject
    <3> HIDE DEF m, top, auto, rows, read
    <3>6. Claimed!Open(t)
      BY <2>2, <2>6, <3>3, <3>5 DEF Claimed!Open
    <3> QED
      BY <2>2, <3>3, <3>4, <3>6
  <2> QED
    BY <2>3, <2>4, <2>5, <2>6
<1>3. UNCHANGED <<created, persons, tracks, said, late>>
  BY DEF CommitRematch, WorkerMoves, roster
<1> QED
  BY <1>1, <1>2, <1>3 DEF Claimed!Infer

LEMMA ClaimsStep ==
    ASSUME TypeInv, TypeInv', StandsInv, [Next]_vars
    PROVE  [Claimed!Next]_(Claimed!vars)
<1>1. CASE UNCHANGED ClaimedVars
  BY <1>1 DEF ClaimedVars, Claimant, Claimed!vars
<1>2. CASE CreatePerson \/ \E r \in enrolling : FolderPerson(r)
  <2>1. /\ created < MaxPersons /\ created' = created + 1
        /\ persons' = persons \cup {created + 1}
        /\ UNCHANGED <<tracks, identity, said, late>>
    BY <1>2 DEF CreatePerson, FolderPerson, InsertPerson, claims, history
  <2>2. created + 1 \in Persons \ 1..created
        /\ 1..(created + 1) = 1..created \cup {created + 1}
    BY <2>1, NextIsNew DEF TypeInv
  <2>3. Claimed!Meet(created + 1)
    BY <2>1, <2>2 DEF Claimed!Meet, Claimant
  <2> QED
    BY <2>2, <2>3 DEF Claimed!Next
<1>3. CASE \E r \in deciding : CommitReject(r) \/ CommitConfirm(r) \/ CommitNew(r)
  BY <1>3, DecisionIsSaid DEF TypeInv
<1>4. ASSUME NEW p \in Persons, PurgePerson(p)
      PROVE  Claimed!Next
  BY <1>4, PersonIsForgotten DEF TypeInv, Claimed!Next
<1>5. ASSUME NEW r \in purging, CommitPurgeMedia(r)
      PROVE  Claimed!Next
  BY <1>5, TracksAreForgotten DEF TypeInv, Claimed!Next
<1>6. CASE CommitRematch
  BY <1>6, RematchInfers DEF TypeInv, Claimed!Next
<1> QED
  BY <1>1, <1>2, <1>3, <1>4, <1>5, <1>6, ClaimedFrame

LEMMA ClaimsStart ==
    ASSUME Init
    PROVE  Claimed!Init
<1>1. 1..created = {}
  BY DEF Init
<1>2. Claimant = [t \in Tracks |-> Claimed!Nobody] /\ said = [t \in Tracks |-> Claimed!Silence]
  BY DEF Init, Claimant, NoClaim, NothingSaid, Claimed!Nobody, Claimed!Silence
<1> QED
  BY <1>1, <1>2 DEF Init, Claimed!Init

(* Whatever decisions, re-matches, purges and crashes overlap, every step of   *)
(* the program is one that Claims allows or leaves the claims alone: only an  *)
(* operator's word replaces an operator's claim, no inference is made over a  *)
(* reject that stands, and nobody and nothing purged is claimed again         *)
(* (identifications.py:82-194, matching.py:172-253, purge.py:86-160).         *)
THEOREM GalleryKeepsClaims == Spec => KeepsClaims
<1>1. Init => Claimed!Init
  BY ClaimsStart
<1>2. Spec => []StandsInv
  <2>1. Init => StandsInv
    BY DEF Init, StandsInv, IsUpheld, NothingSaid
  <2>2. TypeInv /\ StandsInv /\ [Next]_vars => StandsInv'
    BY StandsStep
  <2> QED
    BY <2>1, <2>2, TypesAreCorrect, PTL DEF Spec
<1>3. TypeInv /\ TypeInv' /\ StandsInv /\ [Next]_vars => [Claimed!Next]_(Claimed!vars)
  BY ClaimsStep
<1> QED
  BY <1>1, <1>2, <1>3, TypesAreCorrect, PTL DEF Spec, KeepsClaims, Claimed!Spec

\* The steps of Claims leave nobody claimed who is not there.
LEMMA NoGhostsStep ==
    ASSUME Claimant = [t \in Tracks |-> Claimant[t]], Claimed!NoGhosts,
           [Claimed!Next]_(Claimed!vars)
    PROVE  Claimed!NoGhosts'
<1> USE DEF Claimed!NoGhosts
<1>1. CASE UNCHANGED Claimed!vars
  BY <1>1 DEF Claimed!vars
<1>2. CASE Claimed!Infer
  BY <1>2 DEF Claimed!Infer, Claimed!Open
<1>3. ASSUME NEW p \in Persons, Claimed!Meet(p)
      PROVE  Claimed!NoGhosts'
  BY <1>3 DEF Claimed!Meet
<1>4. ASSUME NEW p \in Persons, Claimed!ForgetPerson(p)
      PROVE  Claimed!NoGhosts'
  BY <1>4 DEF Claimed!ForgetPerson
<1>5. ASSUME NEW t \in Tracks, Claimed!Reject(t)
      PROVE  Claimed!NoGhosts'
  BY <1>5 DEF Claimed!Reject, Claimed!Say
<1>6. ASSUME NEW t \in Tracks, NEW p \in Persons, Claimed!Tag(t, p)
      PROVE  Claimed!NoGhosts'
  BY <1>6 DEF Claimed!Tag, Claimed!Say
<1>7. ASSUME NEW gone \in SUBSET tracks, Claimed!ForgetTracks(gone)
      PROVE  Claimed!NoGhosts'
  BY <1>7 DEF Claimed!ForgetTracks
<1> QED
  BY <1>1, <1>2, <1>3, <1>4, <1>5, <1>6, <1>7 DEF Claimed!Next

(* Nobody who was purged is claimed on any track, and nothing is claimed of a  *)
(* track whose file was purged (purge.py:119-160, 228-256), whatever decision *)
(* or re-match was under way: a consequence of Claims, which needs nothing    *)
(* more from Gallery.                                                         *)
THEOREM PurgedAreNotClaimed == Spec => []Claimed!NoGhosts
<1>1. Claimed!Init => Claimed!NoGhosts
  BY DEF Claimed!Init, Claimed!NoGhosts
<1>2. Claimed!NoGhosts /\ [Claimed!Next]_(Claimed!vars) => Claimed!NoGhosts'
  <2>1. Claimant = [t \in Tracks |-> Claimant[t]]
    BY DEF Claimant
  <2> QED
    BY <2>1, NoGhostsStep
<1>3. Claimed!Spec => []Claimed!NoGhosts
  BY <1>1, <1>2, PTL DEF Claimed!Spec
<1> QED
  BY <1>3, GalleryKeepsClaims, PTL DEF KeepsClaims

-----------------------------------------------------------------------------
(* Who is enrolled.                                                         *)

\* Synchronising exactly the persons whose templates changed keeps every active
\* template's person enrolled.
LEMMA SyncShowsTemplates ==
    ASSUME NEW who, NEW templateRows, templateRows \subseteq Template,
           SyncPersonStatus(who, templateRows),
           NoTemplateHidden,
           \A tpl \in templateRows : tpl \in active \/ tpl[1] \in who
    PROVE  \A tpl \in templateRows : status'[tpl[1]] = "enrolled"
<1> SUFFICES ASSUME NEW tpl \in templateRows PROVE status'[tpl[1]] = "enrolled"
  OBVIOUS
<1>1. tpl[1] \in Persons /\ tpl[2] \in Tracks /\ tpl = <<tpl[1], tpl[2]>>
  BY DEF Template
<1>2. CASE tpl[1] \in who
  <2>1. HasActive(tpl[1], templateRows)
    BY <1>1 DEF HasActive
  <2> QED
    BY <1>1, <1>2, <2>1 DEF SyncPersonStatus
<1>3. CASE tpl[1] \notin who
  BY <1>1, <1>3 DEF SyncPersonStatus, NoTemplateHidden
<1> QED
  BY <1>2, <1>3

\* Few steps touch a template or a person's status.
LEMMA EnrolmentFrame ==
    ASSUME [Next]_vars
    PROVE  \/ UNCHANGED <<active, status>>
           \/ \E p \in Persons, t \in Tracks : CreateTemplate(p, t) \/ RevokeTemplate(p, t)
           \/ \E r \in enrolling, p \in Persons :
                 FolderSync(r, p) \/ \E t \in Tracks : FolderFile(r, t, p)
           \/ \E r \in deciding : CommitConfirm(r) \/ CommitNew(r)
           \/ \E p \in Persons : PurgePerson(p)
           \/ \E r \in purging : CommitPurgeMedia(r)
<1> USE DEF templates, roster
<1>1. CASE Decide
  BY <1>1 DEF Decide, DecisionEnds, BeginDecision, RefuseDecision, BreakDecision, EndReview,
     CommitReject
<1>2. CASE Curate
  BY <1>2 DEF Curate, CreatePerson, UpdatePerson, ActivateThresholdSet, RequestRematch
<1>8. CASE EnrolFolder
  BY <1>8 DEF EnrolFolder, BeginFolder, FolderStep, FolderPerson, FolderSkip, FolderDone,
     FolderFails
<1>3. CASE Purge
  BY <1>3 DEF Purge, BeginPurgeMedia, RefusePurgeMedia
<1>4. CASE FollowUp
  BY <1>4 DEF FollowUp
<1>5. CASE WorkerStep
  BY <1>5 DEF WorkerStep, WorkerMoves, ClaimJob, ReadThresholdSet, ReadGallery, ReadTracks,
     CommitRematch, AbortRematch, FinishJob, WorkerStart
<1>6. CASE Crash
  BY <1>6 DEF Crash, WorkerCrash, ApiCrash
<1>7. CASE UNCHANGED vars
  BY <1>7 DEF vars
<1> QED
  BY <1>1, <1>2, <1>3, <1>4, <1>5, <1>6, <1>7, <1>8 DEF Next

LEMMA EnrolmentStep ==
    ASSUME TypeInv, TypeInv', NoTemplateHidden, [Next]_vars
    PROVE  NoTemplateHidden'
<1>0. active' \subseteq Template /\ active \subseteq Template
  BY DEF TypeInv, TypeOK
<1>1. CASE UNCHANGED <<active, status>>
  BY <1>1 DEF NoTemplateHidden
<1>2. ASSUME NEW p \in Persons, NEW t \in Tracks, CreateTemplate(p, t)
      PROVE  NoTemplateHidden'
  BY <1>0, <1>2, SyncShowsTemplates DEF CreateTemplate, NoTemplateHidden
<1>3. ASSUME NEW p \in Persons, NEW t \in Tracks, RevokeTemplate(p, t)
      PROVE  NoTemplateHidden'
  BY <1>0, <1>3, SyncShowsTemplates DEF RevokeTemplate, NoTemplateHidden
<1>4. ASSUME NEW p, NEW t, EnrollFromTrack(p, t, {p})
      PROVE  NoTemplateHidden'
  <2>1. \A tpl \in active' : tpl \in active \/ tpl[1] \in {p}
    BY <1>4 DEF EnrollFromTrack
  <2> QED
    BY <1>0, <1>4, <2>1, SyncShowsTemplates DEF EnrollFromTrack, NoTemplateHidden
<1>5. ASSUME NEW r \in deciding, CommitConfirm(r)
      PROVE  NoTemplateHidden'
  BY <1>4, <1>5 DEF CommitConfirm, NoTemplateHidden
<1>6. ASSUME NEW r \in deciding, CommitNew(r)
      PROVE  NoTemplateHidden'
  BY <1>4, <1>6 DEF CommitNew
<1>7. ASSUME NEW p \in Persons, PurgePerson(p)
      PROVE  NoTemplateHidden'
  BY <1>0, <1>7 DEF PurgePerson, NoTemplateHidden, TypeInv, TypeOK, Template
<1>8. ASSUME NEW r \in purging, CommitPurgeMedia(r)
      PROVE  NoTemplateHidden'
  BY <1>0, <1>8, SyncShowsTemplates DEF CommitPurgeMedia, NoTemplateHidden
<1>9. ASSUME NEW r \in enrolling, NEW t \in Tracks, NEW p \in Persons, FolderFile(r, t, p)
      PROVE  NoTemplateHidden'
  <2> DEFINE who == IF <<p, t>> \in active THEN {} ELSE {p}
  <2>1. SyncPersonStatus(who, active') /\ active' = active \cup {<<p, t>>}
    BY <1>9 DEF FolderFile
  <2>2. \A tpl \in active' : tpl \in active \/ tpl[1] \in who
    BY <2>1
  <2> QED
    BY <1>0, <2>1, <2>2, SyncShowsTemplates DEF NoTemplateHidden
<1>10. ASSUME NEW r \in enrolling, NEW p \in Persons, FolderSync(r, p)
       PROVE  NoTemplateHidden'
  BY <1>0, <1>10, SyncShowsTemplates DEF FolderSync, NoTemplateHidden, templates
<1> QED
  BY <1>1, <1>2, <1>3, <1>5, <1>6, <1>7, <1>8, <1>9, <1>10, EnrolmentFrame

(* No active template hides behind a person the gallery query skips, however  *)
(* enrolments, revocations and purges overlap (enrollment.py:202-237).       *)
THEOREM TemplatesAreVisible == Spec => []NoTemplateHidden
<1>1. Init => NoTemplateHidden
  BY DEF Init, NoTemplateHidden
<1>2. TypeInv /\ TypeInv' /\ NoTemplateHidden /\ [Next]_vars => NoTemplateHidden'
  BY EnrolmentStep
<1> QED
  BY <1>1, <1>2, TypesAreCorrect, PTL DEF Spec

-----------------------------------------------------------------------------
(* Rescoring.                                                               *)

WorkerHasJob == worker.phase \in {"claimed", "haveSet", "haveGallery", "scored", "finishing"}

\* Somebody else will rescore than the worker with what it has read so far.
ElseComes == followUps > 0 \/ FolderRescores \/ ReviewRescores \/ queued > 0 \/ dropped

(* A worker that read the gallery before it changed has a successor; a job in *)
(* the worker's hands is a job a restart would queue again.                  *)
ReadIsCurrent ==
    worker.phase \in {"haveGallery", "scored"} => worker.read.seen = active \/ ElseComes

RescoreInv ==
    /\ RescoreAccounted
    /\ ReadIsCurrent
    /\ WorkerHasJob => running

LEMMA RescoreStep ==
    ASSUME TypeInv, RescoreInv, [Next]_vars
    PROVE  RescoreInv'
<1> USE DEF RescoreInv, RescoreAccounted, RescoreComes, ReadIsCurrent, ElseComes, WorkerHasJob,
        requests, reviews, jobs, history
<1>0. followUps \in Nat /\ queued \in Nat /\ reviewing \in Nat
  BY DEF TypeInv, TypeOK
<1>f. /\ enrolling' = enrolling => (FolderRescores' <=> FolderRescores)
      /\ deciding' = deciding /\ reviewing' = reviewing => (ReviewRescores' <=> ReviewRescores)
  BY DEF FolderRescores, ReviewRescores
<1>1. ASSUME worker' = worker, running' = running, queued' = queued, scored' = scored,
             dropped => dropped', followUps' \in Nat, followUps' >= followUps,
             FolderRescores => FolderRescores' \/ followUps' > 0 \/ dropped',
             ReviewRescores => ReviewRescores' \/ dropped',
             active' # active => followUps' > 0 \/ FolderRescores' \/ ReviewRescores' \/ dropped'
      PROVE  RescoreInv'
  <2>1. followUps > 0 => followUps' > 0
    BY <1>0, <1>1
  <2>2. CASE active' = active
    BY <1>1, <2>1, <2>2
  <2>3. CASE followUps' > 0 \/ FolderRescores' \/ ReviewRescores' \/ dropped'
    BY <1>1, <2>3
  <2> QED
    BY <1>1, <2>2, <2>3
<1>2. CASE Decide
  <2>1. ASSUME NEW r \in deciding, NEW enrolled, ReviewGoesOn(r, enrolled)
        PROVE  (ReviewRescores => ReviewRescores') /\ (enrolled => ReviewRescores')
    <3>1. reviewing' >= reviewing /\ (r.owes \/ enrolled => reviewing' > 0)
      BY <1>0, <2>1 DEF ReviewGoesOn
    <3>2. \A d \in deciding : d = r \/ d \in deciding'
      BY <2>1 DEF ReviewGoesOn
    <3>3. reviewing > 0 => reviewing' > 0
      BY <1>0, <2>1 DEF ReviewGoesOn
    <3> QED
      BY <3>1, <3>2, <3>3 DEF ReviewRescores
  <2>2. ASSUME NEW r \in deciding, NEW enrolled, ReviewGoesOn(r, enrolled),
               active' # active => enrolled,
               UNCHANGED <<enrolling, followUps, queued, running, worker, scored, dropped>>
        PROVE  RescoreInv'
    <3>1. (ReviewRescores => ReviewRescores') /\ (enrolled => ReviewRescores')
      BY <2>1, <2>2
    <3> QED
      BY <1>f, <1>0, <1>1, <2>2, <3>1
  <2>3. ASSUME NEW r \in deciding, CommitConfirm(r)
        PROVE  RescoreInv'
    <3> DEFINE enrolls == r.enroll /\ <<r.person, r.track>> \notin active
    <3>1. ReviewGoesOn(r, enrolls) /\ (~ enrolls => active' = active)
      BY <2>3 DEF CommitConfirm
    <3> HIDE DEF enrolls
    <3>2. UNCHANGED <<enrolling, followUps, queued, running, worker, scored, dropped>>
      BY <2>3 DEF CommitConfirm
    <3> QED
      BY <2>2, <3>1, <3>2
  <2>4. ASSUME NEW r \in deciding, CommitNew(r)
        PROVE  RescoreInv'
    <3>1. UNCHANGED <<enrolling, followUps, queued, running, worker, scored, dropped>>
          /\ ReviewGoesOn(r, TRUE)
      BY <2>4 DEF CommitNew
    <3> QED
      BY <2>2, <3>1
  <2>5. ASSUME NEW r \in deciding, CommitReject(r) \/ RefuseDecision(r)
        PROVE  RescoreInv'
    <3>1. UNCHANGED <<active, enrolling, followUps, queued, running, worker, scored, dropped>>
          /\ ReviewGoesOn(r, FALSE)
      BY <2>5 DEF CommitReject, RefuseDecision, templates
    <3> QED
      BY <2>2, <3>1
  <2>6. ASSUME NEW r \in deciding, BreakDecision(r)
        PROVE  RescoreInv'
    <3>1. ReviewRescores => ReviewRescores' \/ dropped'
      BY <2>6 DEF BreakDecision, ReviewRescores
    <3>2. UNCHANGED <<active, enrolling, followUps, queued, running, worker, scored>>
          /\ (dropped => dropped')
      BY <2>6 DEF BreakDecision, templates
    <3> QED
      BY <1>f, <1>0, <1>1, <3>1, <3>2
  <2>7. ASSUME NEW t, NEW kind, NEW p, NEW enroll, NEW owes, BeginDecision(t, kind, p, enroll, owes)
        PROVE  RescoreInv'
    <3> DEFINE item == [track |-> t, kind |-> kind, person |-> p, enroll |-> enroll,
                        at |-> clock + 1, owes |-> owes]
    <3>1. deciding' = deciding \cup {item} /\ item.owes = owes
          /\ (~ owes => reviewing' = reviewing)
      BY <2>7 DEF BeginDecision
    <3> HIDE DEF item
    <3>2. ReviewRescores => ReviewRescores'
      BY <3>1 DEF ReviewRescores
    <3>3. UNCHANGED <<active, enrolling, followUps, queued, running, worker, scored, dropped>>
      BY <2>7 DEF BeginDecision, templates
    <3> QED
      BY <1>f, <1>0, <1>1, <3>2, <3>3
  <2>8. CASE EndReview
    <3>1. queued' > 0
      BY <1>0, <2>8 DEF EndReview
    <3> QED
      BY <1>f, <2>8, <3>1 DEF EndReview, templates
  <2> QED
    BY <1>2, <2>3, <2>4, <2>5, <2>6, <2>7, <2>8 DEF Decide, DecisionEnds
<1>3. CASE Curate
  <2>1. ASSUME NEW p \in Persons, NEW t \in Tracks, CreateTemplate(p, t)
        PROVE  RescoreInv'
    BY <1>f, <1>0, <1>1, <2>1 DEF CreateTemplate
  <2>2. ASSUME NEW p \in Persons, NEW t \in Tracks, RevokeTemplate(p, t)
        PROVE  RescoreInv'
    BY <1>f, <1>0, <1>1, <2>2 DEF RevokeTemplate
  <2>3. CASE RequestRematch
    BY <1>f, <1>0, <2>3 DEF RequestRematch, templates
  <2>4. ASSUME UNCHANGED <<active, deciding, reviewing, enrolling, followUps, queued, running, worker,
                           scored, dropped>>
        PROVE  RescoreInv'
    BY <1>f, <2>4
  <2> QED
    BY <1>3, <2>1, <2>2, <2>3, <2>4
       DEF Curate, CreatePerson, UpdatePerson, ActivateThresholdSet, templates
<1>10. CASE EnrolFolder
  <2>0. \A r \in enrolling : r \in FolderRequest
    BY DEF TypeInv, TypeOK
  <2>1. ASSUME NEW files \in SUBSET Tracks, BeginFolder(files)
        PROVE  RescoreInv'
    <3>1. FolderRescores => FolderRescores'
      BY <2>1 DEF BeginFolder, FolderRescores
    <3> QED
      BY <1>f, <1>0, <1>1, <2>1, <3>1 DEF BeginFolder, templates
  <2>2. ASSUME NEW r \in enrolling, FolderPerson(r)
        PROVE  RescoreInv'
    BY <1>f, <2>2 DEF FolderPerson, templates
  <2>3. ASSUME NEW r \in enrolling, NEW next, FolderGoesOn(r, next), r.enrolled => next.enrolled
        PROVE  /\ FolderRescores => FolderRescores'
               /\ next.enrolled => FolderRescores'
    BY <2>3 DEF FolderGoesOn, FolderRescores
  <2>4. ASSUME NEW r \in enrolling, NEW t \in Tracks, FolderSkip(r, t)
        PROVE  RescoreInv'
    <3>1. [r EXCEPT !.todo = @ \ {t}].enrolled = r.enrolled
      BY <2>0 DEF FolderRequest
    <3>2. FolderRescores => FolderRescores'
      BY <2>3, <2>4, <3>1 DEF FolderSkip
    <3> QED
      BY <1>f, <1>0, <1>1, <2>4, <3>2 DEF FolderSkip, templates
  <2>5. ASSUME NEW r \in enrolling, NEW t \in Tracks, NEW p \in Persons, FolderFile(r, t, p)
        PROVE  RescoreInv'
    <3> DEFINE known == <<p, t>> \in active
               next == [r EXCEPT !.todo = @ \ {t}, !.made = IF known THEN @ ELSE @ \cup {p},
                                 !.enrolled = @ \/ ~ known]
    <3>1. next.enrolled = (r.enrolled \/ ~ known)
      BY <2>0 DEF FolderRequest
    <3>2. FolderGoesOn(r, next) /\ active' = active \cup {<<p, t>>}
      BY <2>5 DEF FolderFile
    <3>3. FolderRescores => FolderRescores'
      BY <2>3, <3>1, <3>2
    <3>4. active' # active => FolderRescores'
      BY <2>3, <3>1, <3>2
    <3> QED
      BY <1>f, <1>0, <1>1, <2>5, <3>3, <3>4 DEF FolderFile
  <2>6. ASSUME NEW r \in enrolling, NEW p \in Persons, FolderSync(r, p)
        PROVE  RescoreInv'
    <3>1. [r EXCEPT !.made = @ \ {p}].enrolled = r.enrolled
      BY <2>0 DEF FolderRequest
    <3>2. FolderRescores => FolderRescores'
      BY <2>3, <2>6, <3>1 DEF FolderSync
    <3> QED
      BY <1>f, <1>0, <1>1, <2>6, <3>2 DEF FolderSync, templates
  <2>7. ASSUME NEW r \in enrolling, FolderDone(r)
        PROVE  RescoreInv'
    <3>1. FolderRescores => FolderRescores' \/ followUps' > 0
      BY <1>0, <2>7 DEF FolderDone, FolderRescores
    <3>2. followUps' \in Nat /\ followUps' >= followUps
      BY <1>0, <2>7 DEF FolderDone
    <3> QED
      BY <1>f, <1>1, <2>7, <3>1, <3>2 DEF FolderDone, templates
  <2>8. ASSUME NEW r \in enrolling, FolderFails(r)
        PROVE  RescoreInv'
    <3>1. FolderRescores => FolderRescores' \/ dropped'
      BY <2>8 DEF FolderFails, FolderRescores
    <3>2. dropped => dropped'
      BY <2>8 DEF FolderFails
    <3> QED
      BY <1>f, <1>0, <1>1, <2>8, <3>1, <3>2 DEF FolderFails, templates
  <2> QED
    BY <1>10, <2>1, <2>2, <2>4, <2>5, <2>6, <2>7, <2>8 DEF EnrolFolder, FolderStep
<1>4. CASE Purge
  <2>1. ASSUME NEW p \in Persons, PurgePerson(p)
        PROVE  RescoreInv'
    BY <1>f, <1>0, <1>1, <2>1 DEF PurgePerson
  <2>2. ASSUME NEW r \in purging, CommitPurgeMedia(r)
        PROVE  RescoreInv'
    <3>1. dropped => dropped'
      BY <2>2 DEF CommitPurgeMedia
    <3>2. followUps' \in Nat /\ followUps' >= followUps
      BY <1>0, <2>2 DEF CommitPurgeMedia
    <3>3. CASE r.held = {}
      BY <1>f, <1>1, <2>2, <3>1, <3>2, <3>3 DEF CommitPurgeMedia
    <3>4. CASE r.held # {}
      <4>1. followUps' > 0
        BY <1>0, <2>2, <3>4 DEF CommitPurgeMedia
      <4> QED
        BY <1>f, <1>1, <2>2, <3>1, <3>2, <4>1 DEF CommitPurgeMedia
    <3> QED
      BY <3>3, <3>4
  <2>3. ASSUME UNCHANGED <<active, deciding, reviewing, enrolling, followUps, queued, running, worker,
                           scored, dropped>>
        PROVE  RescoreInv'
    BY <1>f, <2>3
  <2> QED
    BY <1>4, <2>1, <2>2, <2>3 DEF Purge, BeginPurgeMedia, RefusePurgeMedia, templates
<1>5. CASE FollowUp
  BY <1>f, <1>0, <1>5 DEF FollowUp, templates
<1>6. CASE WorkerStep
  <2> USE DEF WorkerMoves, templates, NothingRead
  <2>1. worker \in [phase : WorkerPhases, read : Snapshot]
    BY DEF TypeInv, TypeOK
  <2>2. CASE ClaimJob
    BY <1>f, <1>0, <2>2 DEF ClaimJob
  <2>3. CASE ReadThresholdSet
    BY <1>f, <2>3 DEF ReadThresholdSet
  <2>4. CASE ReadGallery
    BY <1>f, <2>1, <2>4 DEF ReadGallery, Snapshot
  <2>5. CASE ReadTracks
    BY <1>f, <2>1, <2>5 DEF ReadTracks, Snapshot
  <2>6. CASE CommitRematch
    BY <1>f, <2>6 DEF CommitRematch
  <2>7. CASE AbortRematch
    BY <1>f, <2>7 DEF AbortRematch
  <2>8. CASE FinishJob
    BY <1>f, <2>8 DEF FinishJob
  <2>9. CASE WorkerStart
    BY <1>f, <1>0, <2>9 DEF WorkerStart
  <2> QED
    BY <1>6, <2>2, <2>3, <2>4, <2>5, <2>6, <2>7, <2>8, <2>9 DEF WorkerStep
<1>7. CASE WorkerCrash
  BY <1>f, <1>7 DEF WorkerCrash, templates
<1>8. CASE ApiCrash
  BY <1>0, <1>8 DEF ApiCrash, templates
<1>9. CASE UNCHANGED vars
  BY <1>f, <1>9 DEF vars, templates
<1> QED
  BY <1>2, <1>3, <1>4, <1>5, <1>6, <1>7, <1>8, <1>9, <1>10 DEF Next, Crash

(* Stored scores that no longer reflect the active templates have a re-match  *)
(* on its way, or one was dropped: by a crash, an abort, a stale count, or a *)
(* folder enrolment or a bulk review that ended in an error                 *)
(* (api/persons.py:398-405, identifications.py:64-79, matching.py:87-283).  *)
THEOREM RescoresAreAccountedFor == Spec => []RescoreAccounted
<1>1. Init => RescoreInv
  BY DEF Init, RescoreInv, RescoreAccounted, ReadIsCurrent, WorkerHasJob, NothingRead
<1>2. TypeInv /\ RescoreInv /\ [Next]_vars => RescoreInv'
  BY RescoreStep
<1>3. RescoreInv => RescoreAccounted
  BY DEF RescoreInv
<1> QED
  BY <1>1, <1>2, <1>3, TypesAreCorrect, PTL DEF Spec
=============================================================================
