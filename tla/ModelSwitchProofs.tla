------------------------- MODULE ModelSwitchProofs -------------------------
(***************************************************************************)
(* Changing the embedder, for any number of models, faces, requests and    *)
(* failures: what a completed switch has carried over and rescored, what   *)
(* live frames are matched against, and what no switch brings back.        *)
(***************************************************************************)
EXTENDS ModelSwitch, FiniteSetTheorems, SequenceTheorems, TLAPS

-----------------------------------------------------------------------------
(* What the steps of the worker and of the requests rest on.                *)

\* The worker is past reading its settings.
Loaded == worker.step \notin {"idle", "down", "claimed"}

\* The job in hand is the head, of the kind the step is about.
WorkerHolds ==
    /\ worker.step \notin {"idle", "down"} => jobs # << >>
    /\ worker.step = "detect" => Job1.kind = "process" /\ track[Job1.arg] = NoModel
    /\ worker.step \in {"read", "score"} => Job1.kind \in {"process", "rematch"}
    /\ worker.step \in {"crops", "carry", "pending", "close"} => Job1.kind = "reembed"
    /\ Loaded /\ Job1.kind = "reembed" => worker.model = Job1.arg

TypeInv == TypeOK /\ WorkerHolds

\* A change was checked on the state it asks for.
CheckedHold ==
    \A r \in Requests : request[r].step = "checked" =>
        Loadable(request[r].want.embedder, request[r].want)

\* A matrix loaded at what is still the head is the gallery.
LoadedIsGallery ==
    \A r \in Requests \cap current : request[r].step = "store" =>
        request[r].seen = Gallery(request[r].base.embedder)

\* Whoever is about to be carried is in force somewhere, or was revoked under the carry.
CarryHolds ==
    worker.step = "carry" =>
        \A f \in worker.gallery : track[f] # NoModel /\ (Holds(f) \/ f \in raced)

\* A face with no detection has nothing else; a face with no crop stays where it was.
FacesHold ==
    \A f \in Faces :
        /\ track[f] = NoModel => vec[f] = {} /\ scored[f] = NoModel /\ ~ Holds(f)
        /\ f \in Lost => vec[f] = {Initial} /\ track[f] = Initial /\ scored[f] \in {NoModel, Initial}

\* Only the head has begun, and what its cursors are past is done.
CursorsHold ==
    /\ \A i \in DOMAIN jobs : i > 1 => jobs[i].crops = {} /\ jobs[i].tracks = {}
    /\ jobs # << >> => /\ \A f \in Job1.crops \ Lost : Job1.arg \in vec[f]
                       /\ \A f \in Job1.tracks : track[f] = Job1.arg

ReembedAt(i) == jobs[i].kind = "reembed" /\ jobs[i].arg = config.embedder

ReembedPending == \E i \in DOMAIN jobs : ReembedAt(i)

ReembedBehind == \E i \in DOMAIN jobs : i > 1 /\ ReembedAt(i)

\* A job that runs on other settings than those in force has the switch behind it.
SwitchHolds == Loaded /\ worker.model # config.embedder => ReembedBehind

\* A re-embed that ends leaves a re-match behind it.
FollowUpHolds ==
    \/ worker.step = "close" /\ ~ worker.owes
    \/ worker.step = "finish" /\ Job1.kind = "reembed"
    => "rematch" \in PendingKinds

\* The re-embed of the configured model past its read of the templates.
Carrying == worker.step \in {"carry", "pending", "close", "finish"} /\ Job1.kind = "reembed"

RuledOn(f) == Holds(f) => row[f][config.embedder] # "none"

CarryInv ==
    Carrying /\ worker.model = config.embedder /\ ~ ReembedBehind =>
        \A f \in Faces \ (Lost \cup behind) :
            RuledOn(f) \/ (worker.step = "carry" /\ f \in worker.gallery)

\* Every track that can move has moved when a re-embed reads the templates.
MovedInv ==
    Carrying => \A f \in Faces \ Lost : track[f] \in {NoModel, worker.model}

Stale(f) == scored[f] \notin {NoModel, track[f]}

\* After a switch that did not fail, stale scores are of tracks under the configured model.
StaleInv ==
    ~ ReembedPending /\ config.embedder \notin unfinished =>
        \A f \in Faces : Stale(f) => track[f] = config.embedder

\* What is being scored has its mean under the worker's model, and has been scored in the end.
ScoreInv ==
    /\ worker.step = "score" => \A f \in worker.scope : track[f] = worker.model
    /\ worker.step = "score" /\ Job1.kind = "rematch" =>
          \A f \in Faces : track[f] = worker.model => f \in worker.scope
    /\ worker.step = "read" /\ Job1.kind = "rematch" => worker.scope = Faces
    /\ worker.step = "finish" /\ Job1.kind = "rematch" =>
          \A f \in Faces : track[f] = worker.model => ~ Stale(f)

\* Stale scores are owed a rescoring whatever process jobs failed.
RescoreInv ==
    unfinished \subseteq {"process"} =>
        \A f \in Faces : Stale(f) => PendingKinds \cap {"rematch", "reembed"} # {}

LiveInv == TypeInv /\ LoadedIsGallery /\ LiveGalleryCurrent
LicenceInv == TypeInv /\ CheckedHold /\ LicenceCoherent
SwitchInv ==
    /\ TypeInv /\ FacesHold /\ CursorsHold /\ SwitchHolds /\ CarryHolds
    /\ FollowUpHolds /\ CarryInv /\ MovedInv /\ StaleInv /\ ScoreInv
    /\ RescoreInv /\ CarriedOver
-----------------------------------------------------------------------------
(* Jobs and the queue.                                                      *)

\* What a job of each kind is about.
LEMMA JobFacts ==
    ASSUME NEW j \in Job
    PROVE  /\ j.kind \in {"process", "rematch", "reembed"}
           /\ j.kind = "process" => j.arg \in Faces
           /\ j.kind = "reembed" => j.arg \in Models
           /\ j.crops \subseteq Faces /\ j.tracks \subseteq Faces
           /\ j.kind # "reembed" => j.crops = {} /\ j.tracks = {}
  BY DEF Job

\* A job is queued with nothing behind its cursors.
LEMMA NewJobFacts ==
    /\ Rematch \in Job /\ Rematch.kind = "rematch"
    /\ Rematch.crops = {} /\ Rematch.tracks = {}
    /\ \A m \in Models : /\ NewJob("reembed", m) \in Job
                         /\ NewJob("reembed", m).kind = "reembed"
                         /\ NewJob("reembed", m).arg = m
                         /\ NewJob("reembed", m).crops = {}
                         /\ NewJob("reembed", m).tracks = {}
    /\ \A f \in Faces : /\ NewJob("process", f) \in Job
                        /\ NewJob("process", f).kind = "process"
                        /\ NewJob("process", f).arg = f
                        /\ NewJob("process", f).crops = {}
                        /\ NewJob("process", f).tracks = {}
  BY DEF NewJob, Rematch, Job

\* Queued behind the rest: the others keep their places.
LEMMA Queueing ==
    ASSUME NEW q \in Seq(Job), NEW j \in Job
    PROVE  /\ Append(q, j) \in Seq(Job) /\ Append(q, j) # << >>
           /\ Len(Append(q, j)) = Len(q) + 1
           /\ \A i \in DOMAIN q : i \in DOMAIN Append(q, j) /\ Append(q, j)[i] = q[i]
           /\ Len(q) + 1 \in DOMAIN Append(q, j) /\ Append(q, j)[Len(q) + 1] = j
           /\ \A i \in DOMAIN Append(q, j) : i \in DOMAIN q \/ i = Len(q) + 1
           /\ q # << >> => 1 \in DOMAIN q /\ Append(q, j)[1] = q[1]
  <1>1. /\ Append(q, j) \in Seq(Job) /\ Append(q, j) # << >>
        /\ Len(Append(q, j)) = Len(q) + 1
        /\ \A i \in 1..Len(q) : Append(q, j)[i] = q[i]
        /\ Append(q, j)[Len(q) + 1] = j
    BY AppendProperties
  <1>2. Len(q) \in Nat /\ DOMAIN q = 1..Len(q) /\ DOMAIN Append(q, j) = 1..(Len(q) + 1)
    BY <1>1, LenProperties
  <1>3. q # << >> => 1 \in DOMAIN q
    BY <1>2, EmptySeq
  <1> QED
    BY <1>1, <1>2, <1>3

\* A switch queues its two jobs behind the rest.
LEMMA QueueingSwitch ==
    ASSUME NEW q \in Seq(Job), NEW m \in Models
    PROVE  q \o SwitchJobs(m) = Append(Append(q, NewJob("reembed", m)), Rematch)
  <1>1. NewJob("reembed", m) \in Job /\ Rematch \in Job
    BY NewJobFacts
  <1>2. DEFINE j == NewJob("reembed", m)
               k == Rematch
  <1>3. j \in Job /\ k \in Job
    BY <1>1
  <1>4. SwitchJobs(m) = <<j, k>>
    BY DEF SwitchJobs
  <1>5. HIDE DEF j, k
  <1>6. q \o <<j, k>> = Append(Append(q, j), k)
    BY <1>3
  <1> QED
    BY <1>4, <1>6 DEF j, k

\* The head leaves: the others move up by one.
LEMMA Dropping ==
    ASSUME NEW q \in Seq(Job), q # << >>
    PROVE  /\ Tail(q) \in Seq(Job) /\ Len(Tail(q)) = Len(q) - 1
           /\ \A i \in DOMAIN Tail(q) : i + 1 \in DOMAIN q /\ Tail(q)[i] = q[i + 1]
           /\ \A i \in DOMAIN q : i > 1 => i - 1 \in DOMAIN Tail(q) /\ Tail(q)[i - 1] = q[i]
  OBVIOUS

-----------------------------------------------------------------------------
(* Types.                                                                   *)

\* The jobs queued at the start are those of the arriving media.
LEMMA JobsAtFirst ==
    /\ SetToSeq({NewJob("process", f) : f \in Arriving}) \in Seq(Job)
    /\ \A i \in DOMAIN SetToSeq({NewJob("process", f) : f \in Arriving}) :
          /\ SetToSeq({NewJob("process", f) : f \in Arriving})[i].kind = "process"
          /\ SetToSeq({NewJob("process", f) : f \in Arriving})[i].arg \in Arriving
          /\ SetToSeq({NewJob("process", f) : f \in Arriving})[i].crops = {}
          /\ SetToSeq({NewJob("process", f) : f \in Arriving})[i].tracks = {}
  <1> DEFINE S == {NewJob("process", f) : f \in Arriving}
             g == [f \in Arriving |-> NewJob("process", f)]
             q == SetToSeq(S)
  <1>1. g \in Surjection(Arriving, S)
    BY DEF Surjection
  <1>2. IsFiniteSet(S)
    BY <1>1, FS_Surjection, FacesAssumption
  <1>3. \A j \in S : /\ j \in Job /\ j.kind = "process" /\ j.arg \in Arriving
                      /\ j.crops = {} /\ j.tracks = {}
    BY FacesAssumption, NewJobFacts
  <1> HIDE DEF S, g
  <1>4. /\ Cardinality(S) \in Nat
        /\ \E f \in [1..Cardinality(S) -> S] : IsInjective(f)
    BY <1>2, FS_CardinalityType DEF ExistsBijection, Bijection, Injection
  <1>5. q \in [1..Cardinality(S) -> S]
    BY <1>4 DEF SetToSeq
  <1> HIDE DEF q
  <1>6. q \in Seq(S) /\ q \in Seq(Job) /\ DOMAIN q = 1..Cardinality(S)
    BY <1>3, <1>4, <1>5, SeqDef
  <1>7. \A i \in DOMAIN q : q[i] \in S
    BY <1>5
  <1> QED
    BY <1>3, <1>6, <1>7 DEF q, S

LEMMA InitTypes == Init => TypeInv
  <1> SUFFICES ASSUME Init PROVE TypeInv
    OBVIOUS
  <1>1. config \in Settings /\ config = [embedder |-> Initial, allow |-> FALSE]
    BY ModelsAssumption DEF Init, Settings
  <1>2. jobs \in Seq(Job)
    BY JobsAtFirst DEF Init
  <1>3. worker \in Worker /\ worker.step = "idle"
    BY DEF Init, Worker, IdleWorker
  <1>4. Unused \in Request
    BY ModelsAssumption DEF Unused, Request, Settings
  <1>5. request \in [Requests -> Request]
    BY <1>4 DEF Init
  <1>6. /\ row \in [Faces -> [Models -> {"none", "active", "revoked"}]]
        /\ enrolled \subseteq Faces /\ parked \subseteq Faces
    BY DEF Init
  <1>7. /\ vec \in [Faces -> SUBSET Models]
        /\ track \in [Faces -> Models \cup {NoModel}]
        /\ scored \in [Faces -> Models \cup {NoModel}]
    BY ModelsAssumption DEF Init
  <1>8. /\ cache \in [Models -> SUBSET Faces] /\ current \subseteq Models \cup Requests
        /\ faults \in 0..MaxFaults /\ unfinished \subseteq Models \cup {"process", "rematch"}
        /\ behind \subseteq Faces /\ raced \subseteq Faces
    BY BoundsAssumption DEF Init
  <1>10. blind \in BOOLEAN
    BY Zenon DEF Init
  <1>9. TypeOK
    BY <1>1, <1>2, <1>3, <1>5, <1>6, <1>7, <1>8, <1>10 DEF TypeOK
  <1> QED
    BY <1>3, <1>9 DEF TypeInv, WorkerHolds, Loaded

\* The steps at which the worker has read its settings.
LoadedSteps == {"detect", "read", "score", "crops", "carry", "pending", "close", "finish"}

LEMMA WorkerFacts ==
    ASSUME NEW w \in Worker
    PROVE  /\ w.step \in LoadedSteps \cup {"idle", "down", "claimed"}
           /\ w.step \in LoadedSteps => w.model \in Models
           /\ w.model \in Models \cup {NoModel}
           /\ w.scope \subseteq Faces /\ w.gallery \subseteq Faces
           /\ w.owes \in BOOLEAN
           /\ w = [step |-> w.step, model |-> w.model, scope |-> w.scope,
                   gallery |-> w.gallery, owes |-> w.owes]
  <1>1. w.owes \in BOOLEAN
    BY Zenon DEF Worker
  <1>2. w = [step |-> w.step, model |-> w.model, scope |-> w.scope,
             gallery |-> w.gallery, owes |-> w.owes]
    BY Zenon DEF Worker
  <1> QED
    BY <1>1, <1>2 DEF Worker, LoadedSteps

LEMMA WorkerMoves ==
    ASSUME NEW w \in Worker, NEW s \in LoadedSteps, NEW m \in Models, NEW o \in BOOLEAN,
           NEW scope \in SUBSET Faces, NEW gallery \in SUBSET Faces
    PROVE  [step |-> s, model |-> m, scope |-> scope, gallery |-> gallery, owes |-> o] \in Worker
  BY Zenon DEF Worker, LoadedSteps

LEMMA IdleFacts ==
    /\ IdleWorker \in Worker /\ IdleWorker.step = "idle"
    /\ \A s \in {"idle", "down", "claimed"} :
          /\ [IdleWorker EXCEPT !.step = s] \in Worker
          /\ [IdleWorker EXCEPT !.step = s].step = s
    /\ \A m \in Models : LET w == [IdleWorker EXCEPT !.step = "finish", !.model = m]
                         IN /\ w \in Worker /\ w.step = "finish" /\ w.model = m
                            /\ w.gallery = {} /\ w.scope = {}
  <1>1. IdleWorker \in Worker /\ IdleWorker.step = "idle"
    BY DEF IdleWorker, Worker
  <1>2. \A s \in {"idle", "down", "claimed"} :
           /\ [IdleWorker EXCEPT !.step = s] \in Worker
           /\ [IdleWorker EXCEPT !.step = s].step = s
    BY DEF IdleWorker, Worker
  <1>3. \A m \in Models : LET w == [IdleWorker EXCEPT !.step = "finish", !.model = m]
                        IN /\ w \in Worker /\ w.step = "finish" /\ w.model = m
                           /\ w.gallery = {} /\ w.scope = {}
    BY DEF IdleWorker, Worker
  <1> QED
    BY <1>1, <1>2, <1>3

\* A request that takes a step is at it; the others stay where they are.
LEMMA StepFacts ==
    ASSUME request \in [Requests -> Request], NEW r \in Requests,
           NEW s \in {"unused", "begun", "checked", "caches", "owes", "load", "store", "done"},
           Step(r, s)
    PROVE  /\ request' \in [Requests -> Request]
           /\ request'[r].step = s
           /\ s \in {"load", "begun", "checked"} =>
                 /\ request'[r].base = request[r].base /\ request'[r].want = request[r].want
                 /\ request'[r].seen = request[r].seen
           /\ \A q \in Requests \ {r} : request'[q] = request[q]
  <1>1. request[r] \in Request /\ Unused \in Request
    BY ModelsAssumption DEF Unused, Request, Settings
  <1>2. /\ [request[r] EXCEPT !.step = s] \in Request
        /\ [request[r] EXCEPT !.step = s].step = s
        /\ [request[r] EXCEPT !.step = s].base = request[r].base
        /\ [request[r] EXCEPT !.step = s].want = request[r].want
        /\ [request[r] EXCEPT !.step = s].seen = request[r].seen
    BY <1>1 DEF Request
  <1>3. [Unused EXCEPT !.step = s] \in Request /\ [Unused EXCEPT !.step = s].step = s
    BY <1>1 DEF Request
  <1>4. request' = [request EXCEPT ![r] = IF s \in {"done", "owes", "caches"}
                                          THEN [Unused EXCEPT !.step = s]
                                          ELSE [request[r] EXCEPT !.step = s]]
    BY DEF Step
  <1> QED
    BY <1>2, <1>3, <1>4

\* Requests keep the types.
LEMMA HandleTypes ==
    ASSUME TypeInv, NEW r \in Requests, Handle(r)
    PROVE  TypeOK'
  <1> USE DEF TypeInv, database, live, history
  <1>1. request[r] \in Request
    BY DEF TypeOK
  <1>2. request[r].base \in Settings /\ request[r].want \in Settings
    BY <1>1 DEF Request
  <1>3. request[r].base.embedder \in Models
    BY <1>2 DEF Settings
  <1>4. HeadMoves => /\ cache' \in [Models -> SUBSET Faces]
                     /\ current' \subseteq Models \cup Requests
    BY DEF HeadMoves
  <1>5. \A s \in {"unused", "begun", "checked", "caches", "owes", "load", "store", "done"} :
           Step(r, s) => request' \in [Requests -> Request]
    BY StepFacts DEF TypeOK
  <1>6. CASE Begin(r)
    <2>1. request' \in [Requests -> Request]
      BY <1>1, <1>6 DEF Begin, TypeOK, Request
    <2> QED
      BY <1>6, <2>1 DEF Begin, TypeOK
  <1>7. CASE CheckPatch(r)
    <2>1. request' \in [Requests -> Request]
      <3>1. CASE Step(r, "done")
        BY <1>5, <3>1
      <3>2. ASSUME NEW want \in Settings,
                   request' = [request EXCEPT ![r].step = "checked", ![r].want = want]
            PROVE  request' \in [Requests -> Request]
        <4>1. [request[r] EXCEPT !.step = "checked", !.want = want] \in Request
          BY <1>1 DEF Request
        <4> QED
          BY <3>2, <4>1 DEF TypeOK
      <3> QED
        BY <1>7, <3>1, <3>2 DEF CheckPatch
    <2> QED
      BY <1>7, <2>1 DEF CheckPatch, TypeOK
  <1>8. CASE CommitPatch(r)
    <2>1. config' \in Settings
      BY <1>2, <1>8 DEF CommitPatch, Overlay, Settings, TypeOK
    <2>2. jobs' \in Seq(Job)
      <3>1. request[r].want.embedder \in Models
        BY <1>2 DEF Settings
      <3>2. jobs \o SwitchJobs(request[r].want.embedder) \in Seq(Job)
        <4>1. NewJob("reembed", request[r].want.embedder) \in Job /\ Rematch \in Job
          BY <3>1, NewJobFacts
        <4>2. Append(jobs, NewJob("reembed", request[r].want.embedder)) \in Seq(Job)
          BY <4>1, Queueing DEF TypeOK
        <4>3. Append(Append(jobs, NewJob("reembed", request[r].want.embedder)), Rematch) \in Seq(Job)
          BY <4>1, <4>2, Queueing
        <4> QED
          BY <3>1, <4>3, QueueingSwitch DEF TypeOK
      <3> QED
        BY <1>8, <3>2 DEF CommitPatch, TypeOK
    <2>3. request' \in [Requests -> Request]
      BY <1>5, <1>8 DEF CommitPatch
    <2>4. cache' \in [Models -> SUBSET Faces] /\ current' \subseteq Models \cup Requests
      BY <1>4, <1>8 DEF CommitPatch, TypeOK
    <2>5. blind' \in BOOLEAN
      BY <1>8 DEF CommitPatch, TypeOK
    <2> QED
      BY <1>8, <2>1, <2>2, <2>3, <2>4, <2>5 DEF CommitPatch, TypeOK
  <1>9. CASE ClearCaches(r)
    <2>1. request' \in [Requests -> Request]
      BY <1>5, <1>9 DEF ClearCaches
    <2> QED
      BY <1>9, <2>1 DEF ClearCaches, TypeOK
  <1>10. CASE Enrol(r)
    <2>1. request' \in [Requests -> Request]
      BY <1>5, <1>10 DEF Enrol
    <2>2. cache' \in [Models -> SUBSET Faces] /\ current' \subseteq Models \cup Requests
      BY <1>4, <1>10 DEF Enrol
    <2>3. /\ row' \in [Faces -> [Models -> {"none", "active", "revoked"}]]
          /\ enrolled' \subseteq Faces /\ behind' \subseteq Faces
      BY <1>10 DEF Enrol, TypeOK
    <2> QED
      BY <1>10, <2>1, <2>2, <2>3 DEF Enrol, TypeOK
  <1>11. CASE Revoke(r)
    <2>1. request' \in [Requests -> Request]
      BY <1>5, <1>11 DEF Revoke
    <2>2. cache' \in [Models -> SUBSET Faces] /\ current' \subseteq Models \cup Requests
      BY <1>4, <1>11 DEF Revoke
    <2>3. /\ row' \in [Faces -> [Models -> {"none", "active", "revoked"}]]
          /\ enrolled' \subseteq Faces /\ raced' \subseteq Faces
      <3>1. PICK f \in Faces : \E m \in ActiveUnder(f) :
               /\ row' = [row EXCEPT ![f][m] = "revoked"]
               /\ enrolled' = IF ActiveUnder(f) = {m} THEN enrolled \ {f} ELSE enrolled
               /\ raced' = IF ActiveUnder(f) = {m} /\ worker.step = "carry" /\ f \in worker.gallery
                           THEN raced \cup {f} ELSE raced
        BY <1>11 DEF Revoke
      <3>2. row' \in [Faces -> [Models -> {"none", "active", "revoked"}]]
        BY <3>1 DEF ActiveUnder, TypeOK
      <3>3. enrolled' \subseteq Faces
        BY <3>1 DEF TypeOK
      <3>4. raced' \subseteq Faces
        BY <3>1 DEF TypeOK
      <3>5. behind' = behind
        BY <1>11 DEF Revoke
      <3> QED
        BY <3>2, <3>3, <3>4, <3>5 DEF TypeOK
    <2> QED
      BY <1>11, <2>1, <2>2, <2>3 DEF Revoke, TypeOK
  <1>12. CASE QueueRematch(r)
    <2>1. request' \in [Requests -> Request]
      BY <1>5, <1>12 DEF QueueRematch
    <2>2. cache' \in [Models -> SUBSET Faces] /\ current' \subseteq Models \cup Requests
      BY <1>4, <1>12 DEF QueueRematch
    <2>3. jobs' \in Seq(Job)
      BY <1>12, NewJobFacts, Queueing DEF QueueRematch, TypeOK
    <2> QED
      BY <1>12, <2>1, <2>2, <2>3 DEF QueueRematch, TypeOK
  <1>13. CASE Park(r)
    <2>1. request' \in [Requests -> Request]
      BY <1>5, <1>13 DEF Park
    <2>2. cache' \in [Models -> SUBSET Faces] /\ current' \subseteq Models \cup Requests
      BY <1>4, <1>13 DEF Park
    <2>3. parked' \subseteq Faces
      BY <1>13 DEF Park, TypeOK
    <2> QED
      BY <1>13, <2>1, <2>2, <2>3 DEF Park, TypeOK
  <1>14. CASE AskReembed(r)
    <2>1. request' \in [Requests -> Request]
      BY <1>5, <1>14 DEF AskReembed
    <2>2. cache' \in [Models -> SUBSET Faces] /\ current' \subseteq Models \cup Requests
      BY <1>4, <1>14 DEF AskReembed
    <2>3. jobs' \in Seq(Job)
      BY <1>3, <1>14, NewJobFacts, Queueing DEF AskReembed, TypeOK
    <2> QED
      BY <1>14, <2>1, <2>2, <2>3 DEF AskReembed, TypeOK
  <1>15. CASE ReadHead(r)
    <2>1. request' \in [Requests -> Request]
      BY <1>5, <1>15 DEF ReadHead
    <2>2. current' \subseteq Models \cup Requests /\ cache' = cache
      BY <1>15 DEF ReadHead, TypeOK
    <2> QED
      BY <1>15, <2>1, <2>2 DEF ReadHead, TypeOK
  <1>16. CASE LoadGallery(r)
    <2>1. Gallery(request[r].base.embedder) \subseteq Faces
      BY DEF Gallery, TypeOK
    <2>2. request' \in [Requests -> Request]
      BY <1>1, <1>16, <2>1 DEF LoadGallery, TypeOK, Request
    <2> QED
      BY <1>16, <2>2 DEF LoadGallery, TypeOK
  <1>17. CASE StoreGallery(r)
    <2>1. request' \in [Requests -> Request]
      BY <1>5, <1>17 DEF StoreGallery
    <2>2. cache' \in [Models -> SUBSET Faces]
      BY <1>1, <1>3, <1>17 DEF StoreGallery, TypeOK, Request
    <2>3. current' \subseteq Models \cup Requests
      BY <1>3, <1>17 DEF StoreGallery, TypeOK
    <2> QED
      BY <1>17, <2>1, <2>2, <2>3 DEF StoreGallery, TypeOK
  <1> QED
    BY <1>6, <1>7, <1>8, <1>9, <1>10, <1>11, <1>12, <1>13, <1>14, <1>15, <1>16, <1>17 DEF Handle

\* Jobs are queued behind the ones there are, which keep their places.
Grows ==
    /\ \A i \in DOMAIN jobs : i \in DOMAIN jobs' /\ jobs'[i] = jobs[i]
    /\ \A i \in DOMAIN jobs' \ DOMAIN jobs :
          jobs'[i].kind # "process" /\ jobs'[i].crops = {} /\ jobs'[i].tracks = {}
    /\ jobs # << >> => 1 \in DOMAIN jobs /\ jobs' # << >> /\ jobs'[1] = jobs[1]

LEMMA AppendGrows ==
    ASSUME jobs \in Seq(Job), NEW j \in Job, jobs' = Append(jobs, j),
           j.kind # "process", j.crops = {}, j.tracks = {}
    PROVE  Grows
  BY Queueing DEF Grows

LEMMA SameGrows == jobs \in Seq(Job) /\ jobs' = jobs => Grows
  <1>1. jobs \in Seq(Job) /\ jobs # << >> => 1 \in DOMAIN jobs
    BY EmptySeq, LenProperties
  <1> QED
    BY <1>1 DEF Grows

\* A request disturbs no detection, no track and not the worker, and only queues jobs.
LEMMA HandleFrame ==
    ASSUME TypeInv, NEW r \in Requests, Handle(r)
    PROVE  /\ UNCHANGED <<vec, track, scored, worker, faults, unfinished>>
           /\ Grows /\ jobs' \in Seq(Job)
  <1> USE DEF TypeInv, database, live, history
  <1>1. jobs' \in Seq(Job)
    BY HandleTypes DEF TypeOK
  <1>2. UNCHANGED <<vec, track, scored, worker, faults, unfinished>>
    BY DEF Handle, Begin, CheckPatch, CommitPatch, ClearCaches, Enrol, Revoke, QueueRematch, Park,
           AskReembed, ReadHead, LoadGallery, StoreGallery
  <1>3. CASE CommitPatch(r) /\ request[r].want.embedder # request[r].base.embedder
    <2> DEFINE m == request[r].want.embedder
               q == Append(jobs, NewJob("reembed", m))
    <2>1. m \in Models
      BY DEF TypeOK, Request, Settings
    <2>2. /\ NewJob("reembed", m) \in Job /\ Rematch \in Job
          /\ NewJob("reembed", m).kind = "reembed" /\ Rematch.kind = "rematch"
          /\ NewJob("reembed", m).crops = {} /\ Rematch.crops = {}
          /\ NewJob("reembed", m).tracks = {} /\ Rematch.tracks = {}
      BY <2>1, NewJobFacts
    <2>3. jobs' = Append(q, Rematch)
      BY <1>3, <2>1, QueueingSwitch DEF CommitPatch, TypeOK
    <2> DEFINE j == NewJob("reembed", m)
               k == Rematch
    <2>4. /\ j \in Job /\ k \in Job /\ j.kind # "process" /\ k.kind # "process"
          /\ j.crops = {} /\ k.crops = {} /\ j.tracks = {} /\ k.tracks = {}
          /\ q = Append(jobs, j) /\ jobs' = Append(q, k) /\ jobs \in Seq(Job)
      BY <2>2, <2>3 DEF TypeOK
    <2> HIDE DEF j, k, q
    <2>5. /\ q \in Seq(Job) /\ q # << >> /\ Len(q) = Len(jobs) + 1
          /\ \A i \in DOMAIN jobs : i \in DOMAIN q /\ q[i] = jobs[i]
          /\ q[Len(jobs) + 1] = j
          /\ \A i \in DOMAIN q : i \in DOMAIN jobs \/ i = Len(jobs) + 1
          /\ jobs # << >> => 1 \in DOMAIN jobs /\ q[1] = jobs[1]
      BY <2>4, Queueing
    <2>6. /\ jobs' # << >>
          /\ \A i \in DOMAIN q : i \in DOMAIN jobs' /\ jobs'[i] = q[i]
          /\ jobs'[Len(q) + 1] = k
          /\ \A i \in DOMAIN jobs' : i \in DOMAIN q \/ i = Len(q) + 1
          /\ jobs'[1] = q[1]
      BY <2>4, <2>5, Queueing
    <2> QED
      BY <1>1, <1>2, <2>4, <2>5, <2>6 DEF Grows
  <1>4. CASE QueueRematch(r) \/ AskReembed(r)
    <2>1. request[r].base.embedder \in Models
      BY DEF TypeOK, Request, Settings
    <2> QED
      BY <1>1, <1>2, <1>4, <2>1, NewJobFacts, AppendGrows DEF QueueRematch, AskReembed, TypeOK
  <1>5. CASE jobs' = jobs
    BY <1>1, <1>2, <1>5, SameGrows DEF TypeOK
  <1> QED
    BY <1>3, <1>4, <1>5 DEF Handle, Begin, CheckPatch, CommitPatch, ClearCaches, Enrol, Revoke, Park,
           ReadHead, LoadGallery, StoreGallery

LEMMA HandleHolds ==
    ASSUME TypeInv, NEW r \in Requests, Handle(r)
    PROVE  TypeInv'
  <1>1. TypeOK'
    BY HandleTypes
  <1>2. worker' = worker /\ track' = track /\ (jobs # << >> => jobs' # << >> /\ jobs'[1] = jobs[1])
    BY HandleFrame DEF Grows
  <1> QED
    BY <1>1, <1>2, Zenon DEF TypeInv, WorkerHolds, Loaded, Job1

\* The head leaves the queue and the others move up.
Shifts ==
    /\ \A i \in DOMAIN jobs' : i + 1 \in DOMAIN jobs /\ jobs'[i] = jobs[i + 1]
    /\ \A i \in DOMAIN jobs : i > 1 => i - 1 \in DOMAIN jobs' /\ jobs'[i - 1] = jobs[i]

LEMMA HeadFacts ==
    ASSUME TypeInv, worker.step \notin {"idle", "down"}
    PROVE  jobs # << >> /\ 1 \in DOMAIN jobs /\ Job1 \in Job
  <1>1. jobs # << >> /\ jobs \in Seq(Job)
    BY DEF TypeInv, WorkerHolds, TypeOK
  <1> QED
    BY <1>1, EmptySeq, LenProperties DEF Job1

LEMMA DropFacts ==
    ASSUME TypeInv, worker.step \notin {"idle", "down"}, NEW done \in BOOLEAN, Drop(done)
    PROVE  /\ jobs' \in Seq(Job) /\ Shifts
           /\ worker' \in Worker /\ worker'.step = "idle"
           /\ unfinished' \subseteq Models \cup {"process", "rematch"}
           /\ cache' \in [Models -> SUBSET Faces] /\ current' \subseteq Models \cup Requests
  <1>1. jobs # << >> /\ jobs \in Seq(Job) /\ Job1 \in Job
    BY HeadFacts DEF TypeInv, TypeOK
  <1>2. jobs' \in Seq(Job) /\ Shifts
    BY <1>1, Dropping DEF Drop, Shifts
  <1>3. worker' \in Worker /\ worker'.step = "idle"
    BY IdleFacts DEF Drop
  <1>4. Undone \subseteq Models \cup {"process", "rematch"}
    BY <1>1, JobFacts DEF Undone
  <1>5. cache' \in [Models -> SUBSET Faces] /\ current' \subseteq Models \cup Requests
    BY DEF Drop, HeadMoves
  <1> QED
    BY <1>2, <1>3, <1>4, <1>5 DEF Drop, TypeInv, TypeOK

\* The cursors of the head move; nothing else in the queue does.
LEMMA CursorMoves ==
    ASSUME TypeInv, worker.step = "crops", NEW f \in Faces,
           \/ jobs' = [jobs EXCEPT ![1].crops = @ \cup {f}]
           \/ jobs' = [jobs EXCEPT ![1].tracks = @ \cup {f}]
    PROVE  /\ jobs' \in Seq(Job) /\ jobs' # << >> /\ DOMAIN jobs' = DOMAIN jobs
           /\ \A i \in DOMAIN jobs : /\ jobs'[i].kind = jobs[i].kind /\ jobs'[i].arg = jobs[i].arg
                                     /\ i # 1 => jobs'[i] = jobs[i]
           /\ \/ jobs'[1].crops = jobs[1].crops \cup {f} /\ jobs'[1].tracks = jobs[1].tracks
              \/ jobs'[1].crops = jobs[1].crops /\ jobs'[1].tracks = jobs[1].tracks \cup {f}
  <1>1. jobs # << >> /\ jobs \in Seq(Job) /\ 1 \in DOMAIN jobs /\ Job1 \in Job
    BY HeadFacts DEF TypeInv, TypeOK
  <1>2. Job1.kind = "reembed"
    BY DEF TypeInv, WorkerHolds
  <1>3. PICK n \in {[Job1 EXCEPT !.crops = @ \cup {f}], [Job1 EXCEPT !.tracks = @ \cup {f}]} :
           jobs' = [jobs EXCEPT ![1] = n]
    BY DEF Job1
  <1>4. /\ n \in Job /\ n.kind = Job1.kind /\ n.arg = Job1.arg
        /\ \/ n.crops = Job1.crops \cup {f} /\ n.tracks = Job1.tracks
           \/ n.crops = Job1.crops /\ n.tracks = Job1.tracks \cup {f}
    BY <1>1, <1>2, <1>3 DEF Job
  <1>5. /\ DOMAIN jobs' = DOMAIN jobs /\ jobs'[1] = n
        /\ \A i \in DOMAIN jobs : i # 1 => jobs'[i] = jobs[i]
    BY <1>1, <1>3
  <1>6. jobs' \in Seq(Job)
    BY <1>1, <1>3, <1>4, ExceptSeq
  <1>7. jobs' # << >>
    BY <1>1, <1>5, <1>6, EmptySeq, LenProperties
  <1> QED
    BY <1>1, <1>4, <1>5, <1>6, <1>7 DEF Job1

\* The worker at another step of its job.
LEMMA GotoFacts ==
    ASSUME NEW w \in Worker, w.step \in LoadedSteps, NEW s \in LoadedSteps,
           NEW gallery \in SUBSET Faces
    PROVE  /\ LET v == [w EXCEPT !.step = s]
              IN /\ v \in Worker /\ v.step = s /\ v.model = w.model /\ v.scope = w.scope
                 /\ v.gallery = w.gallery
           /\ LET v == [w EXCEPT !.step = s, !.gallery = gallery]
              IN /\ v \in Worker /\ v.step = s /\ v.model = w.model /\ v.scope = w.scope
                 /\ v.gallery = gallery
  <1>1. [w EXCEPT !.step = s] \in Worker
    BY WorkerFacts DEF Worker, LoadedSteps
  <1>2. [w EXCEPT !.step = s, !.gallery = gallery] \in Worker
    BY WorkerFacts DEF Worker, LoadedSteps
  <1> QED
    BY <1>1, <1>2 DEF Worker

LEMMA OweFacts ==
    ASSUME NEW w \in Worker, w.step \in LoadedSteps, NEW o \in BOOLEAN
    PROVE  LET v == [w EXCEPT !.step = "close", !.owes = o]
           IN v \in Worker /\ v.step = "close" /\ v.model = w.model /\ v.owes = o
  BY DEF Worker, LoadedSteps

LEMMA ClaimFacts ==
    ASSUME NEW w \in Worker, w.step = "idle"
    PROVE  [w EXCEPT !.step = "claimed"] \in Worker /\ [w EXCEPT !.step = "claimed"].step = "claimed"
  BY DEF Worker

\* What each step of the worker leaves it with, and that it keeps the types.
LEMMA ClaimStep ==
    ASSUME TypeInv, Claim
    PROVE  worker'.step = "claimed" /\ TypeInv'
  <1>1. worker' \in Worker /\ worker'.step = "claimed"
    BY ClaimFacts DEF Claim, Goto, TypeInv, TypeOK
  <1>2. TypeOK'
    BY <1>1 DEF Claim, HeadMoves, TypeInv, TypeOK, database, history
  <1>3. jobs' # << >>
    BY DEF Claim, database
  <1> QED
    BY <1>1, <1>2, <1>3 DEF TypeInv, WorkerHolds, Loaded

\* A job that ends leaves the worker idle, whatever else it did.
LEMMA DropStep ==
    ASSUME TypeInv, worker.step \notin {"idle", "down"}, NEW done \in BOOLEAN, Drop(done),
           UNCHANGED <<config, row, enrolled, parked, vec, track, scored, request, behind, blind>>,
           raced' \in {raced, {}}, faults' \in 0..MaxFaults
    PROVE  TypeInv'
  <1>1. TypeOK'
    BY DropFacts DEF TypeInv, TypeOK
  <1> QED
    BY <1>1, DropFacts DEF TypeInv, WorkerHolds, Loaded

LEMMA LoadModelsStep ==
    ASSUME TypeInv, LoadModels
    PROVE  /\ TypeInv'
           /\ ~ Runnable => Drop(FALSE)
           /\ Runnable => /\ worker'.step = FirstStep /\ worker'.model = config.embedder
                          /\ worker'.scope = (IF Job1.kind = "process" THEN {Job1.arg} ELSE Faces)
                          /\ worker'.gallery = {} /\ ~ worker'.owes
                          /\ UNCHANGED <<jobs, live, unfinished>>
  <1>1. worker.step = "claimed" /\ worker \in Worker /\ jobs # << >> /\ Job1 \in Job
    BY HeadFacts DEF LoadModels, TypeInv, TypeOK
  <1>2. CASE ~ Runnable
    <2>1. Drop(FALSE)
      BY <1>2 DEF LoadModels
    <2> QED
      BY <1>1, <1>2, <2>1, DropStep DEF LoadModels, TypeInv, TypeOK
  <1>3. CASE Runnable
    <2>1. FirstStep \in LoadedSteps
      BY DEF FirstStep, LoadedSteps
    <2>2. config.embedder \in Models
      BY DEF TypeInv, TypeOK, Settings
    <2> DEFINE scope == IF Job1.kind = "process" THEN {Job1.arg} ELSE Faces
    <2>3. scope \in SUBSET Faces
      BY <1>1, JobFacts
    <2>4. worker' = [worker EXCEPT !.step = FirstStep, !.model = config.embedder, !.scope = scope]
      BY <1>3, Zenon DEF LoadModels, JobModel
    <2>5. UNCHANGED <<jobs, live, unfinished>>
      BY <1>3 DEF LoadModels
    <2> HIDE DEF scope
    <2>6. /\ worker' \in Worker /\ worker'.step = FirstStep /\ worker'.model = config.embedder
          /\ worker'.scope = scope /\ worker'.gallery = {} /\ ~ worker'.owes
      BY <1>1, <2>1, <2>2, <2>3, <2>4 DEF Worker, LoadedSteps
    <2>7. TypeOK'
      BY <2>5, <2>6 DEF LoadModels, TypeInv, TypeOK, live
    <2>8. Job1' = Job1 /\ track' = track
      BY <2>5 DEF Job1, LoadModels
    <2>9. WorkerHolds'
      BY <1>1, <1>3, <2>2, <2>5, <2>6, <2>8, JobFacts, Zenon
         DEF WorkerHolds, Loaded, FirstStep, Runnable
    <2> QED
      BY <1>3, <2>5, <2>6, <2>7, <2>9 DEF TypeInv, scope
  <1> QED
    BY <1>2, <1>3

LEMMA DetectStep ==
    ASSUME TypeInv, Detect
    PROVE  /\ TypeInv' /\ worker'.step = "read" /\ worker'.model = worker.model
           /\ Job1.kind = "process" /\ Job1.arg \in Faces /\ worker.model \in Models
           /\ track[Job1.arg] = NoModel
           /\ vec' = [vec EXCEPT ![Job1.arg] = {worker.model}]
           /\ track' = [track EXCEPT ![Job1.arg] = worker.model]
           /\ jobs' = jobs
  <1>1. worker.step = "detect" /\ worker \in Worker /\ jobs # << >> /\ Job1 \in Job
    BY HeadFacts DEF Detect, TypeInv, TypeOK
  <1>2. /\ Job1.kind = "process" /\ Job1.arg \in Faces /\ worker.model \in Models
        /\ track[Job1.arg] = NoModel
    BY <1>1, JobFacts, WorkerFacts DEF TypeInv, WorkerHolds, LoadedSteps
  <1>3. worker' \in Worker /\ worker'.step = "read" /\ worker'.model = worker.model
    BY <1>1, GotoFacts DEF Detect, Goto, LoadedSteps
  <1>4. TypeOK'
    BY <1>2, <1>3 DEF Detect, HeadMoves, TypeInv, TypeOK, history
  <1>5. jobs' = jobs /\ Job1' = Job1
    BY DEF Detect, Job1
  <1>6. WorkerHolds'
    BY <1>1, <1>2, <1>3, <1>5 DEF WorkerHolds, Loaded
  <1> QED
    BY <1>2, <1>3, <1>4, <1>5, <1>6 DEF Detect, TypeInv

LEMMA ReadToScoreStep ==
    ASSUME TypeInv, ReadToScore
    PROVE  /\ TypeInv' /\ worker'.step = "score" /\ worker'.model = worker.model
           /\ worker'.scope = {f \in worker.scope : track[f] = worker.model}
           /\ UNCHANGED <<database, request, live, history>>
  <1>1. worker.step = "read" /\ worker \in Worker /\ jobs # << >>
    BY HeadFacts DEF ReadToScore, TypeInv, TypeOK
  <1>2. /\ Gallery(worker.model) \in SUBSET Faces
        /\ {f \in worker.scope : track[f] = worker.model} \in SUBSET Faces
    BY <1>1, WorkerFacts DEF Gallery, TypeInv, TypeOK
  <1>3. /\ worker' \in Worker /\ worker'.step = "score" /\ worker'.model = worker.model
        /\ worker'.scope = {f \in worker.scope : track[f] = worker.model}
    <2> DEFINE gallery == Gallery(worker.model)
               scope == {f \in worker.scope : track[f] = worker.model}
    <2>1. worker' = [worker EXCEPT !.step = "score", !.gallery = gallery, !.scope = scope]
      BY Zenon DEF ReadToScore
    <2>2. gallery \in SUBSET Faces /\ scope \in SUBSET Faces
      BY <1>2
    <2> HIDE DEF gallery, scope
    <2>3. worker.step \in LoadedSteps
      BY <1>1 DEF LoadedSteps
    <2>4. /\ worker' \in Worker /\ worker'.step = "score" /\ worker'.model = worker.model
          /\ worker'.scope = scope
      BY <1>1, <2>1, <2>2, <2>3 DEF Worker, LoadedSteps
    <2> QED
      BY <2>4 DEF scope
  <1>4. TypeOK'
    BY <1>3 DEF ReadToScore, TypeInv, TypeOK, database, live, history
  <1>5. jobs' = jobs /\ Job1' = Job1
    BY DEF ReadToScore, Job1, database
  <1>6. WorkerHolds'
    BY <1>1, <1>3, <1>5 DEF WorkerHolds, Loaded, TypeInv
  <1> QED
    BY <1>3, <1>4, <1>6 DEF ReadToScore, TypeInv

LEMMA ScoreStep ==
    ASSUME TypeInv, Score
    PROVE  /\ TypeInv' /\ worker'.step = "finish" /\ worker'.model = worker.model
           /\ \A f \in Faces : scored'[f] = IF f \notin worker.scope THEN scored[f]
                                            ELSE IF worker.gallery = {} THEN NoModel
                                                 ELSE worker.model
           /\ UNCHANGED <<config, row, enrolled, parked, vec, track, jobs, request, history>>
           /\ Job1.kind \in {"process", "rematch"}
  <1>1. worker.step = "score" /\ worker \in Worker /\ jobs # << >>
    BY HeadFacts DEF Score, TypeInv, TypeOK
  <1>2. worker.model \in Models
    BY <1>1, WorkerFacts DEF LoadedSteps
  <1>3. worker' \in Worker /\ worker'.step = "finish" /\ worker'.model = worker.model
    BY <1>2, IdleFacts DEF Score, EndJob
  <1>4. scored' \in [Faces -> Models \cup {NoModel}]
    BY <1>2 DEF Score, TypeInv, TypeOK
  <1>5. TypeOK'
    BY <1>3, <1>4 DEF Score, HeadMoves, TypeInv, TypeOK, history
  <1>6. jobs' = jobs /\ Job1' = Job1
    BY DEF Score, Job1
  <1>7. WorkerHolds'
    BY <1>1, <1>3, <1>6 DEF WorkerHolds, Loaded, TypeInv
  <1> QED
    BY <1>1, <1>3, <1>5, <1>7 DEF Score, TypeInv, WorkerHolds

\* What holds of the job of a re-embed at every step of it.
LEMMA ReembedFacts ==
    ASSUME TypeInv, worker.step \in {"crops", "carry", "pending", "close"}
    PROVE  /\ jobs # << >> /\ 1 \in DOMAIN jobs /\ Job1 \in Job /\ Job1.kind = "reembed"
           /\ worker.model = Job1.arg /\ worker.model \in Models
           /\ worker \in Worker /\ worker.step \in LoadedSteps
           /\ worker.gallery \subseteq Faces /\ worker.owes \in BOOLEAN
  <1>1. jobs # << >> /\ 1 \in DOMAIN jobs /\ Job1 \in Job
    BY HeadFacts
  <1>2. worker \in Worker /\ worker.step \in LoadedSteps
    BY DEF TypeInv, TypeOK, LoadedSteps
  <1>3. Job1.kind = "reembed" /\ worker.model = Job1.arg
    BY DEF TypeInv, WorkerHolds, Loaded
  <1>4. worker.owes \in BOOLEAN
    BY <1>2, WorkerFacts, Zenon
  <1> QED
    BY <1>1, <1>2, <1>3, <1>4, WorkerFacts

LEMMA EmbedCropStep ==
    ASSUME TypeInv, NEW f \in Faces, EmbedCrop(f)
    PROVE  /\ TypeInv' /\ worker' = worker
           /\ vec' = (IF f \in Lost THEN vec ELSE [vec EXCEPT ![f] = @ \cup {worker.model}])
           /\ DOMAIN jobs' = DOMAIN jobs
           /\ \A i \in DOMAIN jobs : /\ jobs'[i].kind = jobs[i].kind /\ jobs'[i].arg = jobs[i].arg
                                     /\ i # 1 => jobs'[i] = jobs[i]
           /\ jobs'[1].crops = jobs[1].crops \cup {f} /\ jobs'[1].tracks = jobs[1].tracks
           /\ UNCHANGED <<config, row, enrolled, parked, track, scored, request, live, history>>
  <1>1. worker.step = "crops" /\ jobs' = [jobs EXCEPT ![1].crops = @ \cup {f}]
    BY DEF EmbedCrop
  <1>2. /\ jobs # << >> /\ 1 \in DOMAIN jobs /\ Job1 \in Job /\ Job1.kind = "reembed"
        /\ worker.model \in Models
    BY <1>1, ReembedFacts
  <1>3. /\ jobs' \in Seq(Job) /\ jobs' # << >> /\ DOMAIN jobs' = DOMAIN jobs
        /\ \A i \in DOMAIN jobs : /\ jobs'[i].kind = jobs[i].kind /\ jobs'[i].arg = jobs[i].arg
                                  /\ i # 1 => jobs'[i] = jobs[i]
    BY <1>1, CursorMoves
  <1>4. jobs'[1].crops = jobs[1].crops \cup {f} /\ jobs'[1].tracks = jobs[1].tracks
    BY <1>1, <1>2 DEF Job1, Job, TypeInv, TypeOK
  <1>5. vec' \in [Faces -> SUBSET Models]
    BY <1>2 DEF EmbedCrop, TypeInv, TypeOK
  <1>6. TypeOK'
    BY <1>3, <1>5 DEF EmbedCrop, TypeInv, TypeOK, live, history
  <1>7. worker' = worker /\ track' = track
    BY DEF EmbedCrop
  <1>8. WorkerHolds'
    <2>1. Job1'.kind = "reembed" /\ worker'.model = Job1'.arg
      <3>1. jobs[1].kind = "reembed" /\ worker.model = jobs[1].arg /\ 1 \in DOMAIN jobs
        BY <1>1, ReembedFacts DEF Job1
      <3>2. jobs'[1].kind = "reembed" /\ worker'.model = jobs'[1].arg
        BY <1>3, <1>7, <3>1
      <3> QED
        BY <3>2 DEF Job1
    <2> QED
      BY <1>1, <1>3, <1>7, <2>1 DEF WorkerHolds, Loaded
  <1> QED
    BY <1>3, <1>4, <1>6, <1>8 DEF EmbedCrop, TypeInv

LEMMA MoveTrackStep ==
    ASSUME TypeInv, NEW f \in Faces, MoveTrack(f)
    PROVE  /\ TypeInv' /\ worker' = worker
           /\ track' = [track EXCEPT ![f] = worker.model] /\ worker.model \in vec[f]
           /\ f \notin Job1.tracks
           /\ DOMAIN jobs' = DOMAIN jobs
           /\ \A i \in DOMAIN jobs : /\ jobs'[i].kind = jobs[i].kind /\ jobs'[i].arg = jobs[i].arg
                                     /\ i # 1 => jobs'[i] = jobs[i]
           /\ jobs'[1].crops = jobs[1].crops /\ jobs'[1].tracks = jobs[1].tracks \cup {f}
           /\ UNCHANGED <<config, row, enrolled, parked, vec, scored, request, live, history>>
  <1>1. worker.step = "crops" /\ jobs' = [jobs EXCEPT ![1].tracks = @ \cup {f}]
    BY DEF MoveTrack
  <1>2. /\ jobs # << >> /\ 1 \in DOMAIN jobs /\ Job1 \in Job /\ Job1.kind = "reembed"
        /\ worker.model \in Models
    BY <1>1, ReembedFacts
  <1>3. /\ jobs' \in Seq(Job) /\ jobs' # << >> /\ DOMAIN jobs' = DOMAIN jobs
        /\ \A i \in DOMAIN jobs : /\ jobs'[i].kind = jobs[i].kind /\ jobs'[i].arg = jobs[i].arg
                                  /\ i # 1 => jobs'[i] = jobs[i]
    BY <1>1, CursorMoves
  <1>4. jobs'[1].crops = jobs[1].crops /\ jobs'[1].tracks = jobs[1].tracks \cup {f}
    BY <1>1, <1>2 DEF Job1, Job, TypeInv, TypeOK
  <1>5. track' \in [Faces -> Models \cup {NoModel}]
    BY <1>2 DEF MoveTrack, TypeInv, TypeOK
  <1>6. TypeOK'
    BY <1>3, <1>5 DEF MoveTrack, TypeInv, TypeOK, live, history
  <1>7. worker' = worker /\ f \in PendingTracks
    BY DEF MoveTrack
  <1>8. WorkerHolds'
    <2>1. Job1'.kind = "reembed" /\ worker'.model = Job1'.arg
      <3>1. jobs[1].kind = "reembed" /\ worker.model = jobs[1].arg /\ 1 \in DOMAIN jobs
        BY <1>1, ReembedFacts DEF Job1
      <3>2. jobs'[1].kind = "reembed" /\ worker'.model = jobs'[1].arg
        BY <1>3, <1>7, <3>1
      <3> QED
        BY <3>2 DEF Job1
    <2> QED
      BY <1>1, <1>3, <1>7, <2>1 DEF WorkerHolds, Loaded
  <1> QED
    BY <1>3, <1>4, <1>6, <1>7, <1>8 DEF MoveTrack, TypeInv, PendingTracks

LEMMA ReadTemplatesStep ==
    ASSUME TypeInv, ReadTemplates
    PROVE  /\ TypeInv' /\ worker'.step = "carry" /\ worker'.model = worker.model
           /\ worker'.gallery = {f \in OrphanTemplates(worker.model) \ parked :
                                    worker.model \in vec[f]}
           /\ behind' = OrphanTemplates(worker.model) \cap parked
           /\ UNCHANGED <<database, request, live, unfinished, blind>>
           /\ PendingCrops = {} /\ PendingTracks = {}
  <1> DEFINE gallery == {f \in OrphanTemplates(worker.model) \ parked : worker.model \in vec[f]}
  <1>1. worker.step = "crops"
    BY DEF ReadTemplates
  <1>2. OrphanTemplates(worker.model) \subseteq Faces
    BY DEF OrphanTemplates
  <1>3. gallery \in SUBSET Faces
    BY <1>2
  <1>4. worker' = [worker EXCEPT !.step = "carry", !.gallery = gallery]
    BY Zenon DEF ReadTemplates
  <1> HIDE DEF gallery
  <1>5. worker \in Worker /\ worker.step \in LoadedSteps
    BY <1>1, ReembedFacts
  <1>6. /\ worker' \in Worker /\ worker'.step = "carry" /\ worker'.model = worker.model
        /\ worker'.gallery = gallery
    BY <1>3, <1>4, <1>5 DEF Worker, LoadedSteps
  <1>7. TypeOK'
    BY <1>2, <1>6 DEF ReadTemplates, TypeInv, TypeOK, database, live
  <1>8. WorkerHolds'
    <2>1. jobs' = jobs /\ Job1' = Job1
      BY DEF ReadTemplates, database, Job1
    <2> QED
      BY <1>1, <1>6, <2>1, ReembedFacts DEF WorkerHolds, Loaded
  <1> QED
    BY <1>6, <1>7, <1>8 DEF ReadTemplates, TypeInv, gallery

LEMMA CarryTemplatesStep ==
    ASSUME TypeInv, CarryTemplates
    PROVE  /\ TypeInv'
           /\ worker.gallery \cap parked # {} => Drop(FALSE) /\ row' = row
           /\ worker.gallery \cap parked = {} =>
                 /\ worker'.step = "pending" /\ worker'.model = worker.model
                 /\ worker'.gallery = {}
                 /\ row' = [f \in Faces |-> IF f \in worker.gallery
                                             THEN [row[f] EXCEPT ![worker.model] = "active"]
                                             ELSE row[f]]
                 /\ UNCHANGED <<jobs, unfinished>>
           /\ UNCHANGED <<config, enrolled, parked, vec, track, scored, request, behind, blind>>
  <1>1. worker.step = "carry"
    BY DEF CarryTemplates
  <1>2. /\ worker \in Worker /\ worker.step \in LoadedSteps /\ worker.model \in Models
        /\ jobs # << >> /\ Job1.kind = "reembed"
    BY <1>1, ReembedFacts
  <1>3. CASE worker.gallery \cap parked # {}
    <2>1. Drop(FALSE) /\ row' = row
      BY <1>3 DEF CarryTemplates
    <2> QED
      BY <1>1, <1>3, <2>1, DropStep DEF CarryTemplates, TypeInv, TypeOK
  <1>4. CASE worker.gallery \cap parked = {}
    <2>1. /\ worker' = [worker EXCEPT !.step = "pending", !.gallery = {}]
          /\ row' = [f \in Faces |-> IF f \in worker.gallery
                                      THEN [row[f] EXCEPT ![worker.model] = "active"]
                                      ELSE row[f]]
          /\ UNCHANGED <<jobs, unfinished>>
      BY <1>4 DEF CarryTemplates
    <2>2. /\ worker' \in Worker /\ worker'.step = "pending" /\ worker'.model = worker.model
          /\ worker'.gallery = {}
      BY <1>2, <2>1 DEF Worker, LoadedSteps
    <2>3. row' \in [Faces -> [Models -> {"none", "active", "revoked"}]]
      BY <1>2, <2>1 DEF TypeInv, TypeOK
    <2>4. cache' \in [Models -> SUBSET Faces] /\ current' \subseteq Models \cup Requests
      BY <1>4 DEF CarryTemplates, HeadMoves, TypeInv, TypeOK, live
    <2>5. TypeOK'
      BY <2>1, <2>2, <2>3, <2>4 DEF CarryTemplates, TypeInv, TypeOK
    <2>6. Job1' = Job1
      BY <2>1 DEF Job1
    <2>7. WorkerHolds'
      BY <1>1, <1>2, <2>1, <2>2, <2>6 DEF WorkerHolds, Loaded, TypeInv
    <2> QED
      BY <1>4, <2>1, <2>2, <2>5, <2>7 DEF CarryTemplates, TypeInv
  <1> QED
    BY <1>3, <1>4

LEMMA ReadPendingStep ==
    ASSUME TypeInv, ReadPending
    PROVE  /\ TypeInv' /\ worker'.step = "close" /\ worker'.model = worker.model
           /\ worker'.owes = ("rematch" \notin PendingKinds)
           /\ UNCHANGED <<database, request, live, history>>
  <1>1. worker.step = "pending"
    BY DEF ReadPending
  <1>2. worker \in Worker /\ worker.step \in LoadedSteps /\ Job1.kind = "reembed"
    BY <1>1, ReembedFacts
  <1>3. FollowUpOwed \in BOOLEAN
    BY DEF FollowUpOwed
  <1>4. worker' = [worker EXCEPT !.step = "close", !.owes = FollowUpOwed]
    BY DEF ReadPending
  <1>5. /\ worker' \in Worker /\ worker'.step = "close" /\ worker'.model = worker.model
        /\ worker'.owes = FollowUpOwed
    BY <1>2, <1>3, <1>4 DEF Worker, LoadedSteps
  <1>6. TypeOK'
    BY <1>5 DEF ReadPending, TypeInv, TypeOK, database, live, history
  <1>7. WorkerHolds'
    <2>1. jobs' = jobs /\ Job1' = Job1
      BY DEF ReadPending, database, Job1
    <2> QED
      BY <1>1, <1>5, <2>1, ReembedFacts DEF WorkerHolds, Loaded
  <1> QED
    BY <1>5, <1>6, <1>7 DEF ReadPending, TypeInv, FollowUpOwed

LEMMA CloseReembedStep ==
    ASSUME TypeInv, CloseReembed
    PROVE  /\ TypeInv' /\ worker'.step = "finish" /\ worker'.model = worker.model
           /\ Grows /\ jobs' = (IF worker.owes THEN Append(jobs, Rematch) ELSE jobs)
           /\ UNCHANGED <<config, row, enrolled, parked, vec, track, scored, request, history>>
  <1>1. worker.step = "close"
    BY DEF CloseReembed
  <1>2. /\ worker \in Worker /\ worker.model \in Models /\ Job1.kind = "reembed"
        /\ worker.model = Job1.arg /\ jobs # << >>
    BY <1>1, ReembedFacts
  <1>3. worker' \in Worker /\ worker'.step = "finish" /\ worker'.model = worker.model
    BY <1>2, IdleFacts DEF CloseReembed, EndJob
  <1>4. jobs' = (IF worker.owes THEN Append(jobs, Rematch) ELSE jobs)
    BY DEF CloseReembed
  <1>5. /\ Rematch \in Job /\ Rematch.kind # "process" /\ Rematch.crops = {}
        /\ Rematch.tracks = {} /\ jobs \in Seq(Job)
    BY NewJobFacts DEF TypeInv, TypeOK
  <1>6. Grows
    <2>1. CASE worker.owes
      BY <1>4, <1>5, <2>1, AppendGrows
    <2>2. CASE ~ worker.owes
      BY <1>4, <1>5, <2>2, SameGrows
    <2> QED
      BY <2>1, <2>2
  <1>7. jobs' \in Seq(Job)
    BY <1>4, <1>5
  <1>8. TypeOK'
    BY <1>3, <1>7 DEF CloseReembed, HeadMoves, TypeInv, TypeOK, history
  <1>9. WorkerHolds'
    <2>1. jobs' # << >> /\ Job1' = Job1
      BY <1>2, <1>6 DEF Grows, Job1
    <2> QED
      BY <1>2, <1>3, <2>1 DEF WorkerHolds, Loaded
  <1> QED
    BY <1>3, <1>4, <1>6, <1>8, <1>9 DEF CloseReembed, TypeInv

LEMMA FinishStep ==
    ASSUME TypeInv, Finish
    PROVE  /\ TypeInv' /\ Drop(TRUE)
           /\ UNCHANGED <<config, row, enrolled, parked, vec, track, scored, request, behind,
                         raced, blind>>
  <1>1. faults' \in 0..MaxFaults
    BY DEF Finish, TypeInv, TypeOK
  <1> QED
    BY <1>1, DropStep DEF Finish

LEMMA FailStep ==
    ASSUME TypeInv, Fail
    PROVE  /\ TypeInv' /\ Drop(FALSE)
           /\ UNCHANGED <<config, row, enrolled, parked, vec, track, scored, request, behind,
                         raced, blind>>
  <1>1. faults' \in 0..MaxFaults
    BY BoundsAssumption DEF Fail, TypeInv, TypeOK
  <1> QED
    BY <1>1, DropStep DEF Fail

LEMMA CrashStep ==
    ASSUME TypeInv, Crash \/ Restart
    PROVE  TypeInv' /\ worker'.step \in {"down", "idle"} /\ jobs' = jobs
  <1>1. worker' \in Worker /\ worker'.step \in {"down", "idle"}
    BY IdleFacts DEF Crash, Restart
  <1>2. faults' \in 0..MaxFaults
    BY BoundsAssumption DEF Crash, Restart, TypeInv, TypeOK
  <1>3. cache' \in [Models -> SUBSET Faces] /\ current' \subseteq Models \cup Requests
    BY DEF Crash, Restart, HeadMoves, TypeInv, TypeOK, live
  <1>4. TypeOK'
    BY <1>1, <1>2, <1>3 DEF Crash, Restart, TypeInv, TypeOK, database, history
  <1> QED
    BY <1>1, <1>4 DEF TypeInv, WorkerHolds, Loaded, Crash, Restart, database

LEMMA TypesHold == TypeInv /\ [Next]_vars => TypeInv'
  <1> SUFFICES ASSUME TypeInv, [Next]_vars PROVE TypeInv'
    OBVIOUS
  <1>1. CASE UNCHANGED vars
    BY <1>1 DEF vars, database, live, history, TypeInv, TypeOK, WorkerHolds, Loaded, Job1
  <1>2. CASE \E r \in Requests : Handle(r)
    BY <1>2, HandleHolds
  <1>3. CASE Work
    BY <1>3, ClaimStep, LoadModelsStep, DetectStep, ReadToScoreStep, ScoreStep, EmbedCropStep,
       MoveTrackStep, ReadTemplatesStep, CarryTemplatesStep, ReadPendingStep, CloseReembedStep,
       FinishStep DEF Work
  <1>4. CASE Fail \/ Crash \/ Restart
    BY <1>4, FailStep, CrashStep
  <1> QED
    BY <1>1, <1>2, <1>3, <1>4 DEF Next

\* Every variable has its type, and the worker its job, for any models, faces and requests.
THEOREM TypeCorrectness == Spec => []TypeOK
  <1>1. TypeInv => TypeOK
    BY DEF TypeInv
  <1> QED
    BY InitTypes, TypesHold, <1>1, PTL DEF Spec

-----------------------------------------------------------------------------
(* The licence of the configured embedder.                                  *)

LEMMA LicenceHolds == LicenceInv /\ [Next]_vars => LicenceInv'
  <1> SUFFICES ASSUME LicenceInv, [Next]_vars PROVE LicenceInv'
    OBVIOUS
  <1> USE DEF LicenceInv
  <1>1. TypeInv'
    BY TypesHold
  <1>2. ASSUME config' = config, blind' = blind PROVE LicenceCoherent'
    BY <1>2, Zenon DEF LicenceCoherent, Loadable
  <1>3. ASSUME request' = request PROVE CheckedHold'
    BY <1>3 DEF CheckedHold, Loadable
  <1>4. CASE UNCHANGED vars
    BY <1>1, <1>2, <1>3, <1>4 DEF vars, database, history
  <1>5. ASSUME NEW r \in Requests, Handle(r) PROVE LicenceInv'
    <2>1. CASE CheckPatch(r)
      <3>1. config' = config /\ blind' = blind
        BY <2>1 DEF CheckPatch, database, history
      <3>2. CASE Step(r, "done")
        <4>1. request'[r].step = "done" /\ \A q \in Requests \ {r} : request'[q] = request[q]
          BY <3>2, StepFacts DEF TypeInv, TypeOK
        <4> QED
          BY <1>1, <1>2, <3>1, <4>1 DEF CheckedHold, Loadable
      <3>3. ASSUME NEW want \in Settings, Coherent(request[r].base, want),
                   request' = [request EXCEPT ![r].step = "checked", ![r].want = want]
            PROVE  CheckedHold'
        <4>1. request'[r].want = want /\ \A q \in Requests \ {r} : request'[q] = request[q]
          BY <3>3 DEF TypeInv, TypeOK, Request
        <4>2. Loadable(want.embedder, want)
          BY <3>3 DEF Coherent
        <4> QED
          BY <4>1, <4>2 DEF CheckedHold, Loadable
      <3> QED
        BY <1>1, <1>2, <2>1, <3>1, <3>2, <3>3 DEF CheckPatch
    <2>2. CASE CommitPatch(r)
      <3> DEFINE base == request[r].base
                 want == request[r].want
      <3>1. base \in Settings /\ want \in Settings /\ config \in Settings
        BY DEF TypeInv, TypeOK, Request
      <3>2. Loadable(want.embedder, want)
        BY <2>2 DEF CommitPatch, At, CheckedHold
      <3>3. Step(r, "caches") /\ config' = Overlay(base, want)
            /\ blind' = (blind \/ (want # base /\ base # config))
        BY <2>2 DEF CommitPatch
      <3>4. request'[r].step = "caches" /\ \A q \in Requests \ {r} : request'[q] = request[q]
        BY <3>3, StepFacts DEF TypeInv, TypeOK
      <3>5. CheckedHold'
        BY <3>4 DEF CheckedHold, Loadable
      <3>6. CASE want = base
        <4>1. config' = config
          BY <3>1, <3>3, <3>6 DEF Overlay, Settings
        <4>2. blind' <=> blind
          BY <3>3, <3>6
        <4>3. Loadable(config'.embedder, config') \/ blind'
          BY <4>1, <4>2 DEF LicenceCoherent
        <4> QED
          BY <1>1, <3>5, <4>3 DEF LicenceCoherent, Loadable
      <3>7. CASE want # base /\ base = config
        <4>1. config' = want
          BY <3>1, <3>3, <3>7 DEF Overlay, Settings
        <4>2. Loadable(config'.embedder, config')
          BY <3>2, <4>1
        <4> QED
          BY <1>1, <3>5, <4>2 DEF LicenceCoherent, Loadable
      <3>8. CASE want # base /\ base # config
        BY <1>1, <3>3, <3>5, <3>8 DEF LicenceCoherent
      <3> QED
        BY <3>6, <3>7, <3>8
    <2>3. CASE ~ CheckPatch(r) /\ ~ CommitPatch(r)
      <3>1. config' = config /\ blind' = blind
        BY <1>5, <2>3 DEF Handle, Begin, ClearCaches, Enrol, Revoke, QueueRematch, Park, AskReembed,
           ReadHead, LoadGallery, StoreGallery, database, history
      <3>2. request'[r].step # "checked" /\ \A q \in Requests \ {r} : request'[q] = request[q]
        <4>1. CASE Begin(r) \/ LoadGallery(r)
          BY <4>1 DEF Begin, LoadGallery, TypeInv, TypeOK, Request
        <4>2. CASE Step(r, "done") \/ Step(r, "owes") \/ Step(r, "load")
          <5>1. PICK s \in {"done", "owes", "load"} : Step(r, s)
            BY <4>2
          <5> QED
            BY <5>1, StepFacts DEF TypeInv, TypeOK
        <4> QED
          BY <1>5, <2>3, <4>1, <4>2 DEF Handle, ClearCaches, Enrol, Revoke, QueueRematch, Park,
             AskReembed, ReadHead, StoreGallery
      <3> QED
        BY <1>1, <1>2, <3>1, <3>2 DEF CheckedHold, Loadable
    <2> QED
      BY <2>1, <2>2, <2>3
  <1>6. CASE Work \/ Fail \/ Crash \/ Restart
    <2>1. UNCHANGED <<config, blind, request>>
      BY <1>6 DEF Work, Claim, LoadModels, Detect, ReadToScore, Score, EmbedCrop, MoveTrack,
         ReadTemplates, CarryTemplates, ReadPending, CloseReembed, Finish, Fail, Crash, Restart,
         database, history
    <2> QED
      BY <1>1, <1>2, <1>3, <2>1
  <1> QED
    BY <1>4, <1>5, <1>6 DEF Next

\* The configured embedder is one its licence setting loads, whatever PATCHes are
\* in flight, unless one was written over settings it had not read.
THEOREM LicenceIsCoherent == Spec => []LicenceCoherent
  <1>1. Init => LicenceInv
    <2> SUFFICES ASSUME Init PROVE LicenceInv
      OBVIOUS
    <2>1. TypeInv
      BY InitTypes
    <2>2. Loadable(config.embedder, config)
      BY ModelsAssumption DEF Init, Loadable
    <2>3. CheckedHold
      BY DEF Init, CheckedHold, Unused
    <2> QED
      BY <2>1, <2>2, <2>3 DEF LicenceInv, LicenceCoherent
  <1>2. LicenceInv => LicenceCoherent
    BY DEF LicenceInv
  <1> QED
    BY <1>1, <1>2, LicenceHolds, PTL DEF Spec

-----------------------------------------------------------------------------
(* What live frames are matched against.                                    *)

\* Nothing is served without a load after the head has moved.
LEMMA HeadMovesLive == HeadMoves => LoadedIsGallery' /\ LiveGalleryCurrent'
  BY DEF HeadMoves, LoadedIsGallery, LiveGalleryCurrent

\* As long as the gallery is the same, so is what was loaded of it.
LEMMA SameLive ==
    ASSUME TypeInv, LoadedIsGallery, LiveGalleryCurrent,
           row' = row, enrolled' = enrolled, parked' = parked, UNCHANGED live,
           request' = request
    PROVE  LoadedIsGallery' /\ LiveGalleryCurrent'
  BY DEF live, LoadedIsGallery, LiveGalleryCurrent, Gallery, ActiveUnder

LEMMA LiveHolds == LiveInv /\ [Next]_vars => LiveInv'
  <1> SUFFICES ASSUME LiveInv, [Next]_vars PROVE LiveInv'
    OBVIOUS
  <1> USE DEF LiveInv
  <1>1. TypeInv'
    BY TypesHold
  <1>2. ASSUME HeadMoves PROVE LiveInv'
    BY <1>1, <1>2, HeadMovesLive
  <1>3. ASSUME row' = row, enrolled' = enrolled, parked' = parked, UNCHANGED live,
               request' = request
        PROVE  LiveInv'
    BY <1>1, <1>3, SameLive
  <1>4. CASE UNCHANGED vars
    BY <1>3, <1>4 DEF vars, database
  <1>5. ASSUME NEW r \in Requests, Handle(r) PROVE LiveInv'
    <2>1. request[r] \in Request /\ request \in [Requests -> Request] /\ r \notin Models
      BY RequestsAssumption DEF TypeInv, TypeOK
    <2>2. request[r].base.embedder \in Models /\ request[r].seen \subseteq Faces
      BY <2>1 DEF Request, Settings
    \* What the other requests hold is as it was as long as the gallery is.
    <2>3. ASSUME row' = row, enrolled' = enrolled, parked' = parked,
                 \A q \in Requests \ {r} : request'[q] = request[q] /\ (q \in current' => q \in current)
          PROVE  \A q \in Requests \ {r} :
                    q \in current' /\ request'[q].step = "store" =>
                       request'[q].seen = Gallery(request[q].base.embedder)'
      BY <2>3 DEF LoadedIsGallery, Gallery, ActiveUnder
    <2>4. ASSUME row' = row, enrolled' = enrolled, parked' = parked
          PROVE  \A m \in Models : Gallery(m)' = Gallery(m)
      BY <2>4, Zenon DEF Gallery, ActiveUnder
    <2>5. ASSUME row' = row, enrolled' = enrolled, parked' = parked, cache' = cache,
                 current' \cap Models = current \cap Models
          PROVE  LiveGalleryCurrent'
      BY <2>4, <2>5 DEF LiveGalleryCurrent
    <2>6. CASE Begin(r) \/ CheckPatch(r)
      <3>1. request'[r].step # "store" /\ \A q \in Requests \ {r} : request'[q] = request[q]
        <4>1. CASE Step(r, "done")
          BY <4>1, <2>1, StepFacts
        <4>2. CASE ~ Step(r, "done")
          BY <2>1, <2>6, <4>2 DEF Begin, CheckPatch, Request
        <4> QED
          BY <4>1, <4>2
      <3>2. row' = row /\ enrolled' = enrolled /\ parked' = parked /\ UNCHANGED live
        BY <2>6 DEF Begin, CheckPatch, database
      <3>3. LoadedIsGallery'
        BY <2>3, <3>1, <3>2 DEF LoadedIsGallery, Gallery, ActiveUnder, live
      <3> QED
        BY <1>1, <2>5, <3>2, <3>3 DEF live
    <2>7. CASE ClearCaches(r)
      <3>1. request'[r].step = "done" /\ \A q \in Requests \ {r} : request'[q] = request[q]
        BY <2>1, <2>7, StepFacts DEF ClearCaches
      <3>2. row' = row /\ enrolled' = enrolled /\ parked' = parked /\ current' = current \ Models
        BY <2>7 DEF ClearCaches, database
      <3>3. LoadedIsGallery'
        <4>1. \A q \in Requests \ {r} : q \in current' => q \in current
          BY <3>2
        <4>2. "done" # "store"
          OBVIOUS
        <4> QED
          BY <2>3, <3>1, <3>2, <4>1, <4>2 DEF LoadedIsGallery, Gallery, ActiveUnder
      <3>4. LiveGalleryCurrent'
        BY <3>2 DEF LiveGalleryCurrent
      <3> QED
        BY <1>1, <3>3, <3>4
    <2>8. CASE CommitPatch(r)
      <3>1. CASE request[r].want = request[r].base
        <4>1. request'[r].step = "caches" /\ \A q \in Requests \ {r} : request'[q] = request[q]
          BY <2>1, <2>8, StepFacts DEF CommitPatch
        <4>2. row' = row /\ enrolled' = enrolled /\ parked' = parked /\ UNCHANGED live
          BY <2>8, <3>1 DEF CommitPatch
        <4>3. LoadedIsGallery'
          <5>1. "caches" # "store"
            OBVIOUS
          <5> QED
            BY <2>3, <4>1, <4>2, <5>1 DEF LoadedIsGallery, Gallery, ActiveUnder, live
        <4> QED
          BY <1>1, <2>5, <4>2, <4>3 DEF live
      <3>2. CASE request[r].want # request[r].base
        BY <1>2, <2>8, <3>2 DEF CommitPatch
      <3> QED
        BY <3>1, <3>2
    <2>9. CASE ReadHead(r)
      <3>1. PICK s \in {"done", "load"} :
               /\ Step(r, s) /\ cache' = cache /\ current' \in {current, current \cup {r}}
        BY <2>9 DEF ReadHead, live
      <3>2. request'[r].step # "store" /\ \A q \in Requests \ {r} : request'[q] = request[q]
        BY <2>1, <3>1, StepFacts
      <3>3. row' = row /\ enrolled' = enrolled /\ parked' = parked
        BY <2>9 DEF ReadHead, database
      <3>4. \A q \in Requests \ {r} : q \in current' => q \in current
        BY <3>1
      <3>5. LoadedIsGallery'
        BY <2>3, <3>2, <3>3, <3>4 DEF LoadedIsGallery, Gallery, ActiveUnder
      <3>6. current' \cap Models = current \cap Models
        BY <2>1, <3>1
      <3> QED
        BY <1>1, <2>5, <3>1, <3>3, <3>5, <3>6
    <2>10. CASE LoadGallery(r)
      <3>1. /\ request'[r].base = request[r].base
            /\ request'[r].seen = Gallery(request[r].base.embedder)
            /\ \A q \in Requests \ {r} : request'[q] = request[q]
        BY <2>1, <2>10 DEF LoadGallery, Request
      <3>2. row' = row /\ enrolled' = enrolled /\ parked' = parked /\ UNCHANGED live
        BY <2>10 DEF LoadGallery, database
      <3>3. request'[r].seen = Gallery(request[r].base.embedder)'
        BY <3>1, <3>2 DEF Gallery, ActiveUnder
      <3>4. LoadedIsGallery'
        BY <2>3, <3>1, <3>2, <3>3 DEF LoadedIsGallery, Gallery, ActiveUnder, live
      <3> QED
        BY <1>1, <2>5, <3>2, <3>4 DEF live
    <2>11. CASE StoreGallery(r)
      <3> DEFINE m == request[r].base.embedder
      <3>1. /\ request[r].step = "store" /\ cache' = [cache EXCEPT ![m] = request[r].seen]
            /\ current' = (IF r \in current THEN current \cup {m} ELSE current \ {m}) \ {r}
            /\ Step(r, "done") /\ row' = row /\ enrolled' = enrolled /\ parked' = parked
        BY <2>11 DEF StoreGallery, At, VersionKept, database
      <3>2. \A q \in Requests \ {r} : request'[q] = request[q]
        BY <2>1, <3>1, StepFacts
      <3>3. r \notin current' /\ \A q \in Requests \ {r} : q \in current' => q \in current
        BY <2>2, <3>1, RequestsAssumption
      <3>4. LoadedIsGallery'
        BY <2>3, <3>1, <3>2, <3>3 DEF LoadedIsGallery, Gallery, ActiveUnder
      <3>5. ASSUME NEW n \in Models \cap current' PROVE cache'[n] = Gallery(n)
        <4>1. CASE n = m
          <5>1. r \in current
            BY <3>1, <3>5, <4>1
          <5>2. request[r].seen = Gallery(m)
            BY <3>1, <5>1 DEF LoadedIsGallery
          <5> QED
            BY <2>2, <3>1, <4>1, <5>2 DEF TypeInv, TypeOK
        <4>2. CASE n # m
          <5>1. n \in current /\ cache'[n] = cache[n]
            BY <3>1, <3>5, <4>2 DEF TypeInv, TypeOK
          <5> QED
            BY <5>1 DEF LiveGalleryCurrent
        <4> QED
          BY <4>1, <4>2
      <3>6. LiveGalleryCurrent'
        BY <2>4, <3>1, <3>5 DEF LiveGalleryCurrent
      <3> QED
        BY <1>1, <3>4, <3>6
    <2> QED
      BY <1>2, <1>5, <2>6, <2>7, <2>8, <2>9, <2>10, <2>11
      DEF Handle, Enrol, Revoke, QueueRematch, Park, AskReembed
  <1>6. CASE Work \/ Fail \/ Crash \/ Restart
    <2>1. CASE CarryTemplates
      <3>1. CASE worker.gallery = {}
        <4>1. row' = [f \in Faces |-> row[f]]
          BY <2>1, <3>1 DEF CarryTemplates
        <4>2. row' = row
          BY <4>1 DEF TypeInv, TypeOK
        <4> QED
          BY <1>3, <2>1, <3>1, <4>2 DEF CarryTemplates
      <3>2. CASE worker.gallery # {}
        BY <1>2, <2>1, <3>2 DEF CarryTemplates, Drop
      <3> QED
        BY <3>1, <3>2
    <2>2. CASE LoadModels
      BY <1>2, <1>3, <2>2 DEF LoadModels, Drop
    <2>3. CASE ReadToScore \/ ReadTemplates \/ ReadPending \/ Crash
      BY <1>3, <2>3 DEF ReadToScore, ReadTemplates, ReadPending, Crash, database
    <2>4. ASSUME NEW f \in Faces, EmbedCrop(f) \/ MoveTrack(f) PROVE LiveInv'
      BY <1>3, <2>4 DEF EmbedCrop, MoveTrack
    <2>5. CASE Claim \/ Detect \/ Score \/ CloseReembed \/ Finish \/ Fail \/ Restart
      BY <1>2, <2>5 DEF Claim, Detect, Score, CloseReembed, Finish, Fail, Restart, Drop
    <2> QED
      BY <1>6, <2>1, <2>2, <2>3, <2>4, <2>5 DEF Work
  <1> QED
    BY <1>4, <1>5, <1>6 DEF Next

\* A gallery the live path would serve without loading it is the gallery, however
\* its load overlapped the commits that changed it.
THEOREM ServedGalleryIsCurrent == Spec => []LiveGalleryCurrent
  <1>1. Init => LiveInv
    BY InitTypes DEF Init, LiveInv, LoadedIsGallery, LiveGalleryCurrent
  <1>2. LiveInv => LiveGalleryCurrent
    BY DEF LiveInv
  <1> QED
    BY <1>1, <1>2, LiveHolds, PTL DEF Spec

-----------------------------------------------------------------------------
(* The queue and the rows under a switch.                                   *)

\* A queue that grows has what it had pending, and the switch where it was.
LEMMA PendingGrows ==
    ASSUME Grows
    PROVE  /\ PendingKinds \subseteq PendingKinds'
           /\ config'.embedder = config.embedder =>
                 (ReembedBehind => ReembedBehind') /\ (ReembedPending => ReembedPending')
  <1>1. \A i \in DOMAIN jobs : i \in DOMAIN jobs' /\ jobs'[i] = jobs[i]
    BY DEF Grows
  <1>2. PendingKinds \subseteq PendingKinds'
    BY <1>1 DEF PendingKinds
  <1>3. ASSUME config'.embedder = config.embedder
        PROVE  (ReembedBehind => ReembedBehind') /\ (ReembedPending => ReembedPending')
    BY <1>1, <1>3 DEF ReembedBehind, ReembedPending, ReembedAt
  <1> QED
    BY <1>2, <1>3

\* Moving the cursors moves no job.
LEMMA PendingCursor ==
    ASSUME DOMAIN jobs' = DOMAIN jobs, config' = config,
           \A i \in DOMAIN jobs : jobs'[i].kind = jobs[i].kind /\ jobs'[i].arg = jobs[i].arg
    PROVE  /\ PendingKinds' = PendingKinds
           /\ (ReembedBehind <=> ReembedBehind') /\ (ReembedPending <=> ReembedPending')
  <1>1. PendingKinds' = PendingKinds
    BY DEF PendingKinds
  <1> QED
    BY <1>1 DEF ReembedBehind, ReembedPending, ReembedAt

\* When the head leaves, what was behind it is what is pending.
LEMMA PendingShifts ==
    ASSUME jobs \in Seq(Job), Shifts, config' = config
    PROVE  /\ ReembedBehind => ReembedPending'
           /\ ReembedPending => ReembedBehind \/ ReembedAt(1)
           /\ \A k \in PendingKinds : k # Job1.kind => k \in PendingKinds'
  <1>1. \A i \in DOMAIN jobs : i \in Nat /\ (i > 1 \/ i = 1)
    BY LenProperties
  <1>2. \A i \in DOMAIN jobs : i > 1 => i - 1 \in DOMAIN jobs' /\ jobs'[i - 1] = jobs[i]
    BY DEF Shifts
  <1>3. ReembedBehind => ReembedPending'
    BY <1>2 DEF ReembedBehind, ReembedPending, ReembedAt
  <1>4. ReembedPending => ReembedBehind \/ ReembedAt(1)
    BY <1>1 DEF ReembedBehind, ReembedPending
  <1>5. ASSUME NEW k \in PendingKinds, k # Job1.kind PROVE k \in PendingKinds'
    <2>1. PICK i \in DOMAIN jobs : k = jobs[i].kind
      BY <1>5 DEF PendingKinds
    <2>2. i > 1
      BY <1>1, <1>5, <2>1 DEF Job1
    <2>3. i - 1 \in DOMAIN jobs' /\ jobs'[i - 1].kind = k
      BY <1>2, <2>1, <2>2
    <2> QED
      BY <2>3 DEF PendingKinds
  <1> QED
    BY <1>3, <1>4, <1>5

\* A change of embedder has its re-embed queued with it.
LEMMA ConfigMoves ==
    ASSUME TypeInv, NEW r \in Requests, Handle(r)
    PROVE  \/ config'.embedder = config.embedder
           \/ ReembedPending' /\ (jobs # << >> => ReembedBehind')
  <1> DEFINE m == request[r].want.embedder
  <1>1. CASE CommitPatch(r) /\ m # request[r].base.embedder
    <2>1. m \in Models /\ jobs \in Seq(Job)
      BY DEF TypeInv, TypeOK, Request, Settings
    <2>2. config'.embedder = m
      BY <1>1 DEF CommitPatch, Overlay
    <2> DEFINE j == NewJob("reembed", m)
               k == Rematch
               q == Append(jobs, j)
    <2>3. j \in Job /\ k \in Job /\ j.kind = "reembed" /\ j.arg = m
      BY <2>1, NewJobFacts
    <2>4. jobs' = Append(q, k)
      BY <1>1, <2>1, QueueingSwitch DEF CommitPatch
    <2> HIDE DEF j, k, m
    <2>5. q \in Seq(Job) /\ Len(jobs) + 1 \in DOMAIN q /\ q[Len(jobs) + 1] = j
      BY <2>1, <2>3, Queueing
    <2> HIDE DEF q
    <2>6. Len(jobs) + 1 \in DOMAIN jobs' /\ jobs'[Len(jobs) + 1] = j
      BY <2>3, <2>4, <2>5, Queueing
    <2>7. jobs # << >> => Len(jobs) + 1 > 1
      BY <2>1, EmptySeq, LenProperties
    <2> QED
      BY <2>2, <2>3, <2>6, <2>7 DEF ReembedPending, ReembedBehind, ReembedAt
  <1>2. CASE CommitPatch(r) /\ m = request[r].base.embedder
    BY <1>2 DEF CommitPatch, Overlay
  <1>3. CASE ~ CommitPatch(r)
    BY <1>3 DEF Handle, Begin, CheckPatch, ClearCaches, Enrol, Revoke, QueueRematch, Park,
       AskReembed, ReadHead, LoadGallery, StoreGallery, database
  <1> QED
    BY <1>1, <1>2, <1>3

LEMMA EnrolFacts ==
    ASSUME TypeInv, NEW r \in Requests, Enrol(r)
    PROVE  \E f \in Faces : \E m \in Models :
              /\ m \in vec[f] /\ row'[f][m] = "active" /\ f \in enrolled'
              /\ \A g \in Faces : \A n \in Models : g # f \/ n # m => row'[g][n] = row[g][n]
              /\ behind' = (IF m # config.embedder /\ ~ WillCarry THEN behind \cup {f} ELSE behind)
  <1>1. request[r].base.embedder \in Models
    BY DEF TypeInv, TypeOK, Request, Settings
  <1>2. PICK f \in Faces \ parked :
           /\ request[r].base.embedder \in vec[f]
           /\ row' = [row EXCEPT ![f][request[r].base.embedder] = "active"]
           /\ enrolled' = enrolled \cup {f}
           /\ behind' = (IF request[r].base.embedder # config.embedder /\ ~ WillCarry
                         THEN behind \cup {f} ELSE behind)
    BY DEF Enrol
  <1>3. /\ row'[f][request[r].base.embedder] = "active"
        /\ \A g \in Faces : \A n \in Models :
              g # f \/ n # request[r].base.embedder => row'[g][n] = row[g][n]
    BY <1>1, <1>2 DEF TypeInv, TypeOK
  <1> QED
    BY <1>1, <1>2, <1>3

LEMMA RevokeFacts ==
    ASSUME TypeInv, NEW r \in Requests, Revoke(r)
    PROVE  \E f \in Faces : \E m \in Models :
              /\ row[f][m] = "active" /\ row'[f][m] = "revoked"
              /\ \A g \in Faces : \A n \in Models : g # f \/ n # m => row'[g][n] = row[g][n]
              /\ raced \subseteq raced'
              /\ worker.step = "carry" /\ f \in worker.gallery /\ ActiveUnder(f) = {m} => f \in raced'
  <1>0. PICK f \in Faces : \E m \in ActiveUnder(f) :
           /\ row' = [row EXCEPT ![f][m] = "revoked"]
           /\ raced' = (IF ActiveUnder(f) = {m} /\ worker.step = "carry" /\ f \in worker.gallery
                        THEN raced \cup {f} ELSE raced)
    BY DEF Revoke
  <1>1. PICK m \in ActiveUnder(f) :
           /\ row' = [row EXCEPT ![f][m] = "revoked"]
           /\ raced' = (IF ActiveUnder(f) = {m} /\ worker.step = "carry" /\ f \in worker.gallery
                        THEN raced \cup {f} ELSE raced)
    BY <1>0
  <1>2. m \in Models /\ row[f][m] = "active"
    BY DEF ActiveUnder
  <1>3. /\ row'[f][m] = "revoked"
        /\ \A g \in Faces : \A n \in Models : g # f \/ n # m => row'[g][n] = row[g][n]
    BY <1>1, <1>2 DEF TypeInv, TypeOK
  <1> QED
    BY <1>1, <1>2, <1>3

LEMMA OtherRows ==
    ASSUME NEW r \in Requests, Handle(r), ~ Enrol(r), ~ Revoke(r)
    PROVE  row' = row /\ behind' = behind /\ raced' = raced
  BY DEF Handle, Begin, CheckPatch, CommitPatch, ClearCaches, QueueRematch, Park, AskReembed,
     ReadHead, LoadGallery, StoreGallery, database, history

-----------------------------------------------------------------------------
(* The switch.                                                              *)

\* Requests: the switches, enrolments and revocations of operators.
LEMMA HandleSwitch ==
    ASSUME SwitchInv, NEW r \in Requests, Handle(r)
    PROVE  SwitchInv'
  <1> USE DEF SwitchInv
  <1>1. TypeInv'
    BY HandleHolds
  <1>2. /\ UNCHANGED <<vec, track, scored, worker, unfinished>>
        /\ Grows /\ jobs \in Seq(Job) /\ jobs' \in Seq(Job)
    BY HandleFrame DEF TypeInv, TypeOK
  <1>3. jobs # << >> => 1 \in DOMAIN jobs /\ jobs' # << >> /\ Job1' = Job1
    BY <1>2 DEF Grows, Job1
  <1>4. /\ PendingKinds \subseteq PendingKinds'
        /\ config'.embedder = config.embedder =>
              (ReembedBehind => ReembedBehind') /\ (ReembedPending => ReembedPending')
    BY <1>2, PendingGrows
  <1>5. \/ config'.embedder = config.embedder
        \/ ReembedPending' /\ (jobs # << >> => ReembedBehind')
    BY ConfigMoves
  <1>6. Loaded => jobs # << >>
    BY HeadFacts DEF Loaded
  \* Whoever is in force afterwards was before, or has just been enrolled with an embedding.
  <1>7. ASSUME NEW f \in Faces, Holds(f)', ~ Holds(f)
        PROVE  track[f] # NoModel
    <2>1. CASE Enrol(r)
      <3>1. PICK g \in Faces : \E m \in Models :
               /\ m \in vec[g]
               /\ \A h \in Faces : \A n \in Models : h # g \/ n # m => row'[h][n] = row[h][n]
        BY <2>1, EnrolFacts
      <3>2. f = g
        BY <1>7, <3>1 DEF Holds, ActiveUnder
      <3> QED
        BY <3>1, <3>2 DEF FacesHold
    <2>2. CASE Revoke(r)
      BY <1>7, <2>2, RevokeFacts DEF Holds, ActiveUnder
    <2>3. CASE ~ Enrol(r) /\ ~ Revoke(r)
      BY <1>7, <2>3, OtherRows DEF Holds, ActiveUnder
    <2> QED
      BY <2>1, <2>2, <2>3
  <1>8. FacesHold'
    <2>1. \A f \in Faces : Holds(f)' /\ ~ Holds(f) => track[f] # NoModel
      BY <1>7
    <2> QED
      BY <1>2, <2>1, Zenon DEF FacesHold, Holds, ActiveUnder
  <1>9. CursorsHold'
    <2>1. \A i \in DOMAIN jobs' : i > 1 => jobs'[i].crops = {} /\ jobs'[i].tracks = {}
      BY <1>2 DEF Grows, CursorsHold
    <2>2. CASE jobs # << >>
      BY <1>2, <1>3, <2>1, <2>2 DEF CursorsHold
    <2>3. CASE jobs = << >>
      <3>1. jobs' # << >> => 1 \in DOMAIN jobs' \ DOMAIN jobs
        BY <1>2, <2>3, EmptySeq, LenProperties
      <3>2. jobs' # << >> => Job1'.crops = {} /\ Job1'.tracks = {}
        BY <1>2, <3>1 DEF Grows, Job1
      <3> QED
        BY <2>1, <3>2 DEF CursorsHold
    <2> QED
      BY <2>2, <2>3
  <1>10. SwitchHolds'
    BY <1>2, <1>4, <1>5, <1>6 DEF SwitchHolds, Loaded
  <1>11. CarryHolds'
    <2>1. ASSUME worker.step = "carry", NEW f \in worker.gallery
          PROVE  track[f] # NoModel /\ (Holds(f)' \/ f \in raced')
      <3>1. f \in Faces /\ track[f] # NoModel /\ (Holds(f) \/ f \in raced)
        BY <2>1, ReembedFacts DEF CarryHolds
      <3>2. CASE Enrol(r)
        <4>1. raced' = raced
          BY <3>2 DEF Enrol
        <4>2. Holds(f) => Holds(f)'
          BY <3>1, <3>2, EnrolFacts DEF Holds, ActiveUnder
        <4> QED
          BY <3>1, <4>1, <4>2
      <3>3. CASE Revoke(r)
        <4>1. PICK g \in Faces, m \in Models :
                 /\ row[g][m] = "active"
                 /\ \A h \in Faces : \A n \in Models : h # g \/ n # m => row'[h][n] = row[h][n]
                 /\ raced \subseteq raced'
                 /\ worker.step = "carry" /\ g \in worker.gallery /\ ActiveUnder(g) = {m}
                       => g \in raced'
          BY <3>3, RevokeFacts
        <4>2. CASE f = g /\ ActiveUnder(g) = {m}
          BY <2>1, <3>1, <4>1, <4>2
        <4>3. CASE f = g /\ ActiveUnder(g) # {m}
          BY <3>1, <4>1, <4>3 DEF Holds, ActiveUnder
        <4>4. CASE f # g
          BY <3>1, <4>1, <4>4 DEF Holds, ActiveUnder
        <4> QED
          BY <4>2, <4>3, <4>4
      <3>4. CASE ~ Enrol(r) /\ ~ Revoke(r)
        BY <3>1, <3>4, OtherRows DEF Holds, ActiveUnder
      <3> QED
        BY <3>1, <3>2, <3>3, <3>4
    <2> QED
      BY <1>2, <2>1, Zenon DEF CarryHolds, Holds, ActiveUnder
  <1>12. FollowUpHolds'
    <2>1. worker.step \in {"close", "finish"} => Job1' = Job1
      BY <1>3, <1>6 DEF Loaded
    <2> QED
      BY <1>2, <1>4, <2>1 DEF FollowUpHolds
  \* Nobody loses a ruling; whoever is newly in force is ruled on or behind the carry.
  <1>13. ASSUME NEW f \in Faces \ (Lost \cup behind'), config'.embedder = config.embedder,
                ~ WillCarry
         PROVE  f \notin behind /\ (RuledOn(f) => RuledOn(f)')
    <2>1. config.embedder \in Models
      BY DEF TypeInv, TypeOK, Settings
    <2>2. CASE Enrol(r)
      <3>1. PICK g \in Faces, m \in Models :
               /\ row'[g][m] = "active"
               /\ \A h \in Faces : \A n \in Models : h # g \/ n # m => row'[h][n] = row[h][n]
               /\ behind' = (IF m # config.embedder /\ ~ WillCarry THEN behind \cup {g} ELSE behind)
        BY <2>2, EnrolFacts
      <3>2. CASE f # g
        BY <1>13, <2>1, <3>1, <3>2 DEF RuledOn, Holds, ActiveUnder
      <3>3. CASE f = g /\ m = config.embedder
        BY <1>13, <2>1, <3>1, <3>3 DEF RuledOn
      <3>4. CASE f = g /\ m # config.embedder
        BY <1>13, <3>1, <3>4
      <3> QED
        BY <3>2, <3>3, <3>4
    <2>3. CASE Revoke(r)
      <3>1. behind' = behind
        BY <2>3 DEF Revoke
      <3> QED
        BY <1>13, <2>1, <2>3, <3>1, RevokeFacts DEF RuledOn, Holds, ActiveUnder
    <2>4. CASE ~ Enrol(r) /\ ~ Revoke(r)
      BY <1>13, <2>4, OtherRows DEF RuledOn, Holds, ActiveUnder
    <2> QED
      BY <2>2, <2>3, <2>4
  <1>14. CarryInv'
    <2>1. ASSUME Carrying', worker'.model = config'.embedder, ~ ReembedBehind',
                 NEW f \in Faces \ (Lost \cup behind')
          PROVE  RuledOn(f)' \/ (worker'.step = "carry" /\ f \in worker'.gallery)
      <3>1. worker.step \in {"carry", "pending", "close", "finish"}
        BY <1>2, <2>1 DEF Carrying
      <3>2. jobs # << >> /\ Job1' = Job1
        BY <1>3, <1>6, <3>1 DEF Loaded
      <3>3. config'.embedder = config.embedder /\ ~ ReembedBehind
        BY <1>4, <1>5, <2>1, <3>2
      <3>4. Carrying /\ worker.model = config.embedder
        BY <1>2, <2>1, <3>1, <3>2, <3>3 DEF Carrying
      <3>5. ~ WillCarry
        <4>1. \A i \in DOMAIN jobs : i \in Nat /\ (i > 1 \/ i = 1)
          BY <1>2, LenProperties
        <4> QED
          BY <3>1, <3>3, <4>1 DEF WillCarry, ReembedBehind, ReembedAt
      <3>6. f \notin behind /\ (RuledOn(f) => RuledOn(f)')
        BY <1>13, <2>1, <3>3, <3>5
      <3> QED
        BY <1>2, <2>1, <3>3, <3>4, <3>6 DEF CarryInv
    <2> QED
      BY <2>1 DEF CarryInv
  <1>15. MovedInv'
    <2>1. Carrying' => Carrying
      BY <1>2, <1>3, <1>6 DEF Carrying, Loaded
    <2> QED
      BY <1>2, <2>1 DEF MovedInv
  <1>16. StaleInv'
    <2>1. ~ ReembedPending' => config'.embedder = config.embedder /\ ~ ReembedPending
      BY <1>4, <1>5
    <2> QED
      BY <1>2, <2>1 DEF StaleInv, Stale
  <1>17. ScoreInv'
    <2>1. worker.step \in {"read", "score", "finish"} => Job1' = Job1
      BY <1>3, <1>6 DEF Loaded
    <2> QED
      BY <1>2, <2>1 DEF ScoreInv, Stale
  <1>18. RescoreInv'
    BY <1>2, <1>4 DEF RescoreInv, Stale
  <1>19. CarriedOver'
    <2>1. ASSUME config'.embedder \notin unfinished', ~ ReembedPending',
                 NEW f \in Faces \ (Lost \cup behind')
          PROVE  RuledOn(f)'
      <3>1. config'.embedder = config.embedder /\ ~ ReembedPending
        BY <1>4, <1>5, <2>1
      <3>2. ~ WillCarry
        BY <3>1 DEF WillCarry, ReembedPending, ReembedAt
      <3>3. f \notin behind /\ (RuledOn(f) => RuledOn(f)')
        BY <1>13, <2>1, <3>1, <3>2
      <3>4. RuledOn(f)
        BY <1>2, <2>1, <3>1, <3>3 DEF CarriedOver, RuledOn, ReembedPending, ReembedAt
      <3> QED
        BY <3>3, <3>4
    <2> QED
      BY <2>1 DEF CarriedOver, RuledOn, ReembedPending, ReembedAt
  <1> QED
    BY <1>1, <1>8, <1>9, <1>10, <1>11, <1>12, <1>14, <1>15, <1>16, <1>17, <1>18, <1>19

\* A job that leaves the queue, failed or done: what no outcome disturbs.
LEMMA DropSwitch ==
    ASSUME SwitchInv, TypeInv', worker.step \notin {"idle", "down"}, NEW done \in BOOLEAN,
           Drop(done), UNCHANGED <<config, row, enrolled, parked, vec, track, scored, request, behind>>
    PROVE  /\ FacesHold' /\ CursorsHold' /\ SwitchHolds' /\ CarryHolds' /\ FollowUpHolds'
           /\ CarryInv' /\ MovedInv' /\ ScoreInv'
  <1> USE DEF SwitchInv
  <1>1. jobs' \in Seq(Job) /\ Shifts /\ worker'.step = "idle"
    BY DropFacts
  <1>2. FacesHold'
    BY DEF FacesHold, Holds, ActiveUnder
  <1>3. CursorsHold'
    <2>1. \A i \in DOMAIN jobs' : jobs'[i].crops = {} /\ jobs'[i].tracks = {}
      <3>1. ASSUME NEW i \in DOMAIN jobs' PROVE jobs'[i].crops = {} /\ jobs'[i].tracks = {}
        <4>1. i + 1 \in DOMAIN jobs /\ jobs'[i] = jobs[i + 1]
          BY <1>1 DEF Shifts
        <4>2. i + 1 > 1
          BY <1>1, LenProperties
        <4> QED
          BY <4>1, <4>2 DEF CursorsHold
      <3> QED
        BY <3>1
    <2>2. jobs' # << >> => 1 \in DOMAIN jobs'
      BY <1>1, EmptySeq, LenProperties
    <2> QED
      BY <2>1, <2>2 DEF CursorsHold, Job1
  <1>4. SwitchHolds' /\ CarryHolds' /\ FollowUpHolds'
    BY <1>1 DEF SwitchHolds, CarryHolds, FollowUpHolds, Loaded
  <1>5. CarryInv' /\ MovedInv' /\ ScoreInv'
    BY <1>1 DEF CarryInv, MovedInv, ScoreInv, Carrying
  <1> QED
    BY <1>2, <1>3, <1>4, <1>5

\* A failed job is remembered: the switch it was, or the rescoring.
LEMMA FailedSwitch ==
    ASSUME SwitchInv, TypeInv', worker.step \notin {"idle", "down"}, Drop(FALSE),
           UNCHANGED <<config, row, enrolled, parked, vec, track, scored, request, behind>>
    PROVE  SwitchInv'
  <1> USE DEF SwitchInv
  <1>1. /\ FacesHold' /\ CursorsHold' /\ SwitchHolds' /\ CarryHolds' /\ FollowUpHolds'
        /\ CarryInv' /\ MovedInv' /\ ScoreInv'
    BY DropSwitch
  <1>2. Shifts /\ unfinished' = unfinished \cup Undone
    BY DropFacts DEF Drop
  <1>3. jobs \in Seq(Job) /\ Job1 \in Job /\ 1 \in DOMAIN jobs /\ config.embedder \in Models
    BY HeadFacts DEF TypeInv, TypeOK, Settings
  <1>4. /\ ReembedBehind => ReembedPending'
        /\ ReembedPending => ReembedBehind \/ ReembedAt(1)
        /\ \A k \in PendingKinds : k # Job1.kind => k \in PendingKinds'
    BY <1>2, <1>3, PendingShifts
  <1>5. ~ ReembedPending' /\ config'.embedder \notin unfinished'
           => ~ ReembedPending /\ config.embedder \notin unfinished
    BY <1>2, <1>4 DEF Undone, ReembedAt, Job1
  <1>6. StaleInv'
    BY <1>5 DEF StaleInv, Stale
  <1>7. CarriedOver'
    <2>1. ~ ReembedPending' /\ config'.embedder \notin unfinished' =>
             \A f \in Faces \ (Lost \cup behind') : Holds(f)' => row'[f][config'.embedder] # "none"
      BY <1>5 DEF CarriedOver, ReembedPending, ReembedAt, Holds, ActiveUnder
    <2> QED
      BY <2>1 DEF CarriedOver, ReembedPending, ReembedAt
  <1>8. RescoreInv'
    <2>1. ASSUME unfinished' \subseteq {"process"}, NEW f \in Faces, Stale(f)'
          PROVE  PendingKinds' \cap {"rematch", "reembed"} # {}
      <3>1. Job1.kind = "process" /\ unfinished \subseteq {"process"}
        BY <1>2, <1>3, <2>1, JobFacts, ModelsAssumption DEF Undone
      <3>2. Stale(f)
        BY <2>1 DEF Stale
      <3>3. PICK k \in PendingKinds : k \in {"rematch", "reembed"}
        BY <3>1, <3>2 DEF RescoreInv
      <3> QED
        BY <1>4, <3>1, <3>3
    <2> QED
      BY <2>1 DEF RescoreInv
  <1> QED
    BY <1>1, <1>6, <1>7, <1>8

\* A re-embed that ends has carried and moved what it should, and a re-match has
\* rescored it.
LEMMA FinishSwitch ==
    ASSUME SwitchInv, Finish
    PROVE  SwitchInv'
  <1> USE DEF SwitchInv
  <1>1. /\ TypeInv' /\ worker.step = "finish" /\ Drop(TRUE)
        /\ UNCHANGED <<config, row, enrolled, parked, vec, track, scored, request, behind>>
    BY FinishStep DEF Finish
  <1>2. /\ FacesHold' /\ CursorsHold' /\ SwitchHolds' /\ CarryHolds' /\ FollowUpHolds'
        /\ CarryInv' /\ MovedInv' /\ ScoreInv'
    BY <1>1, DropSwitch
  <1>3. Shifts /\ unfinished' = unfinished \ Undone
    BY <1>1, DropFacts DEF Drop
  <1>4. jobs \in Seq(Job) /\ Job1 \in Job /\ 1 \in DOMAIN jobs /\ config.embedder \in Models
    BY <1>1, HeadFacts DEF TypeInv, TypeOK, Settings
  <1>5. /\ ReembedBehind => ReembedPending'
        /\ ReembedPending => ReembedBehind \/ ReembedAt(1)
        /\ \A k \in PendingKinds : k # Job1.kind => k \in PendingKinds'
    BY <1>1, <1>3, <1>4, PendingShifts
  <1>6. Job1.kind = "reembed" => worker.model = Job1.arg
    BY <1>1 DEF TypeInv, WorkerHolds, Loaded
  <1>7. ~ ReembedPending' /\ config'.embedder \notin unfinished' /\ ~ ReembedAt(1)
           => ~ ReembedPending /\ config.embedder \notin unfinished
    BY <1>1, <1>3, <1>4, <1>5, JobFacts, ModelsAssumption DEF Undone, ReembedAt, Job1
  <1>8. ReembedAt(1) => Carrying /\ worker.model = config.embedder
    BY <1>1, <1>6 DEF ReembedAt, Carrying, Job1
  <1>9. StaleInv'
    <2>1. ASSUME ~ ReembedPending', config'.embedder \notin unfinished', NEW f \in Faces, Stale(f)'
          PROVE  track'[f] = config'.embedder
      <3>1. Stale(f) /\ track'[f] = track[f] /\ config' = config
        BY <1>1, <2>1 DEF Stale
      <3>2. CASE ReembedAt(1)
        BY <1>8, <3>1, <3>2 DEF MovedInv, FacesHold, Stale
      <3>3. CASE ~ ReembedAt(1)
        BY <1>7, <2>1, <3>1, <3>3 DEF StaleInv
      <3> QED
        BY <3>2, <3>3
    <2> QED
      BY <2>1 DEF StaleInv
  <1>10. CarriedOver'
    <2>1. ASSUME ~ ReembedPending', config'.embedder \notin unfinished',
                 NEW f \in Faces \ (Lost \cup behind')
          PROVE  RuledOn(f)'
      <3>1. f \in Faces \ (Lost \cup behind) /\ (RuledOn(f) => RuledOn(f)')
        BY <1>1, <2>1 DEF RuledOn, Holds, ActiveUnder
      <3>2. CASE ReembedAt(1)
        <4>1. ~ ReembedBehind
          BY <1>5, <2>1
        <4> QED
          BY <1>1, <1>8, <3>1, <3>2, <4>1 DEF CarryInv
      <3>3. CASE ~ ReembedAt(1)
        <4>1. ~ ReembedPending /\ config.embedder \notin unfinished
          BY <1>7, <2>1, <3>3
        <4>2. RuledOn(f)
          BY <3>1, <4>1 DEF CarriedOver, RuledOn, ReembedPending, ReembedAt
        <4> QED
          BY <3>1, <4>2
      <3> QED
        BY <3>2, <3>3
    <2> QED
      BY <2>1 DEF CarriedOver, RuledOn, ReembedPending, ReembedAt
  <1>11. RescoreInv'
    <2>1. ASSUME unfinished' \subseteq {"process"}, NEW f \in Faces, Stale(f)'
          PROVE  PendingKinds' \cap {"rematch", "reembed"} # {}
      <3>1. Stale(f)
        BY <1>1, <2>1 DEF Stale
      <3>2. CASE Job1.kind = "process"
        <4>1. unfinished \subseteq {"process"}
          BY <1>3, <2>1, <3>2 DEF Undone
        <4>2. PICK k \in PendingKinds : k \in {"rematch", "reembed"}
          BY <3>1, <4>1 DEF RescoreInv
        <4> QED
          BY <1>5, <3>2, <4>2
      <3>3. CASE Job1.kind = "reembed"
        <4>1. "rematch" \in PendingKinds
          BY <1>1, <3>3 DEF FollowUpHolds
        <4> QED
          BY <1>5, <3>3, <4>1
      <3>4. CASE Job1.kind = "rematch"
        <4>1. config.embedder \notin unfinished
          BY <1>3, <1>4, <2>1, <3>4, ModelsAssumption DEF Undone
        <4>2. ~ ReembedAt(1)
          BY <3>4 DEF ReembedAt, Job1
        <4>3. ReembedBehind
          <5>1. CASE ReembedPending
            BY <1>5, <4>2, <5>1
          <5>2. CASE ~ ReembedPending
            <6>1. track[f] = config.embedder
              BY <3>1, <4>1, <5>2 DEF StaleInv
            <6>2. worker.model # config.embedder
              BY <1>1, <3>1, <3>4, <6>1 DEF ScoreInv
            <6> QED
              BY <1>1, <6>2 DEF SwitchHolds, Loaded
          <5> QED
            BY <5>1, <5>2
        <4>4. "reembed" \in PendingKinds
          BY <4>3 DEF ReembedBehind, ReembedAt, PendingKinds
        <4> QED
          BY <1>5, <3>4, <4>4
      <3> QED
        BY <1>4, <3>2, <3>3, <3>4, JobFacts
    <2> QED
      BY <2>1 DEF RescoreInv
  <1> QED
    BY <1>1, <1>2, <1>9, <1>10, <1>11

\* As long as nothing but the worker moves, what is stored keeps its invariants.
LEMMA SameStored ==
    ASSUME SwitchInv, UNCHANGED <<config, row, vec, track, scored, jobs, unfinished, behind>>
    PROVE  /\ FacesHold' /\ CursorsHold' /\ StaleInv' /\ RescoreInv' /\ CarriedOver'
           /\ (ReembedBehind <=> ReembedBehind') /\ PendingKinds' = PendingKinds /\ Job1' = Job1
  <1> USE DEF SwitchInv
  <1>1. /\ (ReembedBehind <=> ReembedBehind') /\ PendingKinds' = PendingKinds /\ Job1' = Job1
        /\ (ReembedPending <=> ReembedPending')
    BY DEF ReembedBehind, ReembedPending, ReembedAt, PendingKinds, Job1
  <1>2. FacesHold'
    BY DEF FacesHold, Holds, ActiveUnder
  <1>3. CursorsHold'
    BY <1>1 DEF CursorsHold
  <1>4. StaleInv' /\ RescoreInv'
    BY <1>1 DEF StaleInv, RescoreInv, Stale
  <1>5. CarriedOver'
    BY DEF CarriedOver, Holds, ActiveUnder
  <1> QED
    BY <1>1, <1>2, <1>3, <1>4, <1>5

\* A worker that has read nothing yet, or no longer, holds to nothing.
LEMMA UnloadedSwitch ==
    ASSUME SwitchInv, TypeInv', worker'.step \in {"idle", "down", "claimed"},
           UNCHANGED <<config, row, vec, track, scored, jobs, unfinished, behind>>
    PROVE  SwitchInv'
  <1>1. FacesHold' /\ CursorsHold' /\ StaleInv' /\ RescoreInv' /\ CarriedOver'
    BY SameStored
  <1>2. SwitchHolds' /\ CarryHolds' /\ FollowUpHolds' /\ CarryInv' /\ MovedInv' /\ ScoreInv'
    BY DEF SwitchHolds, CarryHolds, FollowUpHolds, CarryInv, MovedInv, ScoreInv, Loaded, Carrying
  <1> QED
    BY <1>1, <1>2 DEF SwitchInv

LEMMA LoadModelsSwitch ==
    ASSUME SwitchInv, LoadModels
    PROVE  SwitchInv'
  <1> USE DEF SwitchInv
  <1>1. /\ TypeInv' /\ worker.step = "claimed"
        /\ UNCHANGED <<config, row, enrolled, parked, vec, track, scored, request, behind>>
    BY LoadModelsStep DEF LoadModels
  <1>2. CASE ~ Runnable
    BY <1>1, <1>2, LoadModelsStep, FailedSwitch
  <1>3. CASE Runnable
    <2>1. /\ worker'.step = FirstStep /\ worker'.model = config.embedder
          /\ worker'.scope = (IF Job1.kind = "process" THEN {Job1.arg} ELSE Faces)
          /\ UNCHANGED <<jobs, unfinished>>
      BY <1>3, LoadModelsStep
    <2>2. Job1 \in Job /\ Job1' = Job1
      BY <1>1, <2>1, HeadFacts DEF Job1
    <2>3. /\ FirstStep \in {"crops", "read", "detect", "finish"}
          /\ FirstStep = "read" => Job1.kind = "rematch"
          /\ FirstStep = "finish" => Job1.kind = "process"
      BY <2>2, JobFacts DEF FirstStep
    <2>4. FacesHold' /\ CursorsHold' /\ StaleInv' /\ RescoreInv' /\ CarriedOver'
      BY <1>1, <2>1, SameStored
    <2>5. SwitchHolds' /\ CarryHolds' /\ FollowUpHolds' /\ CarryInv' /\ MovedInv'
      BY <1>1, <2>1, <2>2, <2>3 DEF SwitchHolds, CarryHolds, FollowUpHolds, CarryInv, MovedInv, Carrying
    <2>6. ScoreInv'
      BY <2>1, <2>2, <2>3 DEF ScoreInv
    <2> QED
      BY <1>1, <2>4, <2>5, <2>6
  <1> QED
    BY <1>2, <1>3

LEMMA DetectSwitch ==
    ASSUME SwitchInv, Detect
    PROVE  SwitchInv'
  <1> USE DEF SwitchInv
  <1>1. /\ TypeInv' /\ worker'.step = "read" /\ worker'.model = worker.model
        /\ Job1.kind = "process" /\ Job1.arg \in Faces /\ worker.model \in Models
        /\ track[Job1.arg] = NoModel
        /\ vec' = [vec EXCEPT ![Job1.arg] = {worker.model}]
        /\ track' = [track EXCEPT ![Job1.arg] = worker.model] /\ jobs' = jobs
    BY DetectStep
  <1>2. /\ worker.step = "detect"
        /\ UNCHANGED <<config, row, enrolled, parked, scored, unfinished, behind>>
    BY DEF Detect, history
  <1>3. Job1' = Job1 /\ Job1.crops = {} /\ Job1.tracks = {}
    BY <1>1, <1>2, HeadFacts, JobFacts DEF Job1
  <1>4. /\ (ReembedBehind <=> ReembedBehind') /\ PendingKinds' = PendingKinds
        /\ (ReembedPending <=> ReembedPending')
    BY <1>1, <1>2 DEF ReembedBehind, ReembedPending, ReembedAt, PendingKinds
  <1>5. /\ vec'[Job1.arg] = {worker.model} /\ track'[Job1.arg] = worker.model
        /\ \A f \in Faces : f # Job1.arg => vec'[f] = vec[f] /\ track'[f] = track[f]
    BY <1>1 DEF TypeInv, TypeOK
  <1>6. /\ Job1.arg \notin Lost /\ scored[Job1.arg] = NoModel /\ worker.model # NoModel
        /\ ~ Holds(Job1.arg)
    BY <1>1, ModelsAssumption DEF FacesHold
  <1>7. FacesHold'
    <2>1. ASSUME NEW f \in Faces
          PROVE  /\ track'[f] = NoModel => vec'[f] = {} /\ scored'[f] = NoModel /\ ~ Holds(f)'
                 /\ f \in Lost => vec'[f] = {Initial} /\ track'[f] = Initial
                                  /\ scored'[f] \in {NoModel, Initial}
      <3>1. scored' = scored /\ (Holds(f)' <=> Holds(f))
        BY <1>2 DEF Holds, ActiveUnder
      <3>2. CASE f = Job1.arg
        BY <1>5, <1>6, <3>1, <3>2
      <3>3. CASE f # Job1.arg
        BY <1>5, <3>1, <3>3 DEF FacesHold
      <3> QED
        BY <3>2, <3>3
    <2> QED
      BY <2>1, Zenon DEF FacesHold, Holds, ActiveUnder
  <1>8. CursorsHold'
    BY <1>1, <1>3 DEF CursorsHold
  <1>9. SwitchHolds'
    BY <1>1, <1>2, <1>4 DEF SwitchHolds, Loaded
  <1>10. CarryHolds' /\ FollowUpHolds' /\ CarryInv' /\ MovedInv' /\ ScoreInv'
    BY <1>1, <1>3 DEF CarryHolds, FollowUpHolds, CarryInv, MovedInv, ScoreInv, Carrying
  <1>11. \A f \in Faces : Stale(f)' => Stale(f) /\ track'[f] = track[f]
    BY <1>2, <1>5, <1>6 DEF Stale
  <1>12. StaleInv' /\ RescoreInv'
    BY <1>2, <1>4, <1>11 DEF StaleInv, RescoreInv
  <1>13. CarriedOver'
    BY <1>1, <1>2 DEF CarriedOver, Holds, ActiveUnder
  <1> QED
    BY <1>1, <1>7, <1>8, <1>9, <1>10, <1>12, <1>13

LEMMA ReadToScoreSwitch ==
    ASSUME SwitchInv, ReadToScore
    PROVE  SwitchInv'
  <1> USE DEF SwitchInv
  <1>1. /\ TypeInv' /\ worker'.step = "score" /\ worker'.model = worker.model
        /\ worker'.scope = {f \in worker.scope : track[f] = worker.model}
        /\ worker.step = "read"
        /\ UNCHANGED <<config, row, vec, track, scored, jobs, unfinished, behind>>
    BY ReadToScoreStep DEF ReadToScore, database, history
  <1>2. /\ FacesHold' /\ CursorsHold' /\ StaleInv' /\ RescoreInv' /\ CarriedOver'
        /\ (ReembedBehind <=> ReembedBehind') /\ Job1' = Job1
    BY <1>1, SameStored
  <1>3. SwitchHolds'
    BY <1>1, <1>2 DEF SwitchHolds, Loaded
  <1>4. CarryHolds' /\ FollowUpHolds' /\ CarryInv' /\ MovedInv'
    BY <1>1 DEF CarryHolds, FollowUpHolds, CarryInv, MovedInv, Carrying
  <1>5. ScoreInv'
    BY <1>1, <1>2 DEF ScoreInv
  <1> QED
    BY <1>1, <1>2, <1>3, <1>4, <1>5

LEMMA ScoreSwitch ==
    ASSUME SwitchInv, Score
    PROVE  SwitchInv'
  <1> USE DEF SwitchInv
  <1>1. /\ TypeInv' /\ worker'.step = "finish" /\ worker'.model = worker.model
        /\ \A f \in Faces : scored'[f] = IF f \notin worker.scope THEN scored[f]
                                         ELSE IF worker.gallery = {} THEN NoModel ELSE worker.model
        /\ Job1.kind \in {"process", "rematch"} /\ worker.step = "score"
        /\ UNCHANGED <<config, row, vec, track, jobs, unfinished, behind>>
    BY ScoreStep DEF Score, history
  <1>2. worker.model # NoModel
    BY <1>1, WorkerFacts, ModelsAssumption DEF TypeInv, TypeOK, LoadedSteps
  <1>3. \A f \in worker.scope : track[f] = worker.model
    BY <1>1 DEF ScoreInv
  <1>4. \A f \in Faces : /\ f \notin worker.scope => scored'[f] = scored[f]
                         /\ f \in worker.scope => /\ scored'[f] \in {NoModel, track[f]}
                                                 /\ track[f] # NoModel
    BY <1>1, <1>2, <1>3
  <1>5. \A f \in Faces : Stale(f)' => Stale(f) /\ f \notin worker.scope
    BY <1>1, <1>4 DEF Stale
  <1>6. /\ (ReembedBehind <=> ReembedBehind') /\ PendingKinds' = PendingKinds /\ Job1' = Job1
        /\ (ReembedPending <=> ReembedPending')
    BY <1>1 DEF ReembedBehind, ReembedPending, ReembedAt, PendingKinds, Job1
  <1>7. FacesHold'
    BY <1>1, <1>4, Zenon DEF FacesHold, Holds, ActiveUnder
  <1>8. CursorsHold'
    BY <1>1, <1>6 DEF CursorsHold
  <1>9. SwitchHolds'
    BY <1>1, <1>6 DEF SwitchHolds, Loaded
  <1>10. CarryHolds' /\ FollowUpHolds' /\ CarryInv' /\ MovedInv'
    BY <1>1, <1>6 DEF CarryHolds, FollowUpHolds, CarryInv, MovedInv, Carrying
  <1>11. ScoreInv'
    <2>1. Job1.kind = "rematch" => \A f \in Faces : track[f] = worker.model => ~ Stale(f)'
      BY <1>1, <1>5 DEF ScoreInv
    <2> QED
      BY <1>1, <1>6, <2>1 DEF ScoreInv, Stale
  <1>12. StaleInv' /\ RescoreInv'
    BY <1>1, <1>5, <1>6 DEF StaleInv, RescoreInv
  <1>13. CarriedOver'
    BY <1>1 DEF CarriedOver, Holds, ActiveUnder
  <1> QED
    BY <1>1, <1>7, <1>8, <1>9, <1>10, <1>11, <1>12, <1>13

LEMMA EmbedCropSwitch ==
    ASSUME SwitchInv, NEW f \in Faces, EmbedCrop(f)
    PROVE  SwitchInv'
  <1> USE DEF SwitchInv
  <1>1. /\ TypeInv' /\ worker' = worker
        /\ vec' = (IF f \in Lost THEN vec ELSE [vec EXCEPT ![f] = @ \cup {worker.model}])
        /\ DOMAIN jobs' = DOMAIN jobs
        /\ \A i \in DOMAIN jobs : /\ jobs'[i].kind = jobs[i].kind /\ jobs'[i].arg = jobs[i].arg
                                  /\ i # 1 => jobs'[i] = jobs[i]
        /\ jobs'[1].crops = jobs[1].crops \cup {f} /\ jobs'[1].tracks = jobs[1].tracks
        /\ UNCHANGED <<config, row, track, scored, unfinished, behind>>
    BY EmbedCropStep DEF history
  <1>2. worker.step = "crops" /\ track[f] # NoModel
    BY DEF EmbedCrop, PendingCrops
  <1>3. jobs # << >> /\ 1 \in DOMAIN jobs /\ worker.model = Job1.arg /\ worker.model \in Models
    BY <1>2, ReembedFacts
  <1>4. /\ PendingKinds' = PendingKinds
        /\ (ReembedBehind <=> ReembedBehind') /\ (ReembedPending <=> ReembedPending')
    BY <1>1, PendingCursor
  <1>5. /\ f \notin Lost => worker.model \in vec'[f]
        /\ \A g \in Faces : vec[g] \subseteq vec'[g]
        /\ \A g \in Faces : g # f \/ f \in Lost => vec'[g] = vec[g]
    BY <1>1 DEF TypeInv, TypeOK
  <1>6. FacesHold'
    <2>1. ASSUME NEW g \in Faces
          PROVE  /\ track[g] = NoModel => vec'[g] = {} /\ scored[g] = NoModel /\ ~ Holds(g)
                 /\ g \in Lost => vec'[g] = {Initial} /\ track[g] = Initial
                                  /\ scored[g] \in {NoModel, Initial}
      BY <1>2, <1>5 DEF FacesHold
    <2> QED
      BY <1>1, <2>1, Zenon DEF FacesHold, Holds, ActiveUnder
  <1>7. CursorsHold'
    <2>1. \A i \in DOMAIN jobs' : i > 1 => jobs'[i].crops = {} /\ jobs'[i].tracks = {}
      BY <1>1 DEF CursorsHold
    <2>2. jobs'[1].arg = jobs[1].arg
      BY <1>1, <1>3
    <2>3. jobs[1].crops \subseteq Faces
      BY <1>3, HeadFacts, <1>2, JobFacts DEF Job1
    <2>4. \A g \in jobs'[1].crops \ Lost : jobs'[1].arg \in vec'[g]
      BY <1>1, <1>3, <1>5, <2>2, <2>3 DEF CursorsHold, Job1
    <2>5. \A g \in jobs'[1].tracks : track'[g] = jobs'[1].arg
      BY <1>1, <1>3, <2>2 DEF CursorsHold, Job1
    <2> QED
      BY <2>1, <2>4, <2>5 DEF CursorsHold, Job1
  <1>8. SwitchHolds'
    BY <1>1, <1>4 DEF SwitchHolds, Loaded
  <1>9. CarryHolds' /\ FollowUpHolds' /\ CarryInv' /\ MovedInv' /\ ScoreInv'
    BY <1>1, <1>2 DEF CarryHolds, FollowUpHolds, CarryInv, MovedInv, ScoreInv, Carrying
  <1>10. StaleInv' /\ RescoreInv'
    BY <1>1, <1>4 DEF StaleInv, RescoreInv, Stale
  <1>11. CarriedOver'
    BY <1>1 DEF CarriedOver, Holds, ActiveUnder
  <1> QED
    BY <1>1, <1>6, <1>7, <1>8, <1>9, <1>10, <1>11

LEMMA MoveTrackSwitch ==
    ASSUME SwitchInv, NEW f \in Faces, MoveTrack(f)
    PROVE  SwitchInv'
  <1> USE DEF SwitchInv
  <1>1. /\ TypeInv' /\ worker' = worker
        /\ track' = [track EXCEPT ![f] = worker.model] /\ worker.model \in vec[f]
        /\ DOMAIN jobs' = DOMAIN jobs
        /\ \A i \in DOMAIN jobs : /\ jobs'[i].kind = jobs[i].kind /\ jobs'[i].arg = jobs[i].arg
                                  /\ i # 1 => jobs'[i] = jobs[i]
        /\ jobs'[1].crops = jobs[1].crops /\ jobs'[1].tracks = jobs[1].tracks \cup {f}
        /\ UNCHANGED <<config, row, vec, scored, unfinished, behind>>
    BY MoveTrackStep DEF history
  <1>2. worker.step = "crops"
    BY DEF MoveTrack
  <1>3. /\ jobs # << >> /\ 1 \in DOMAIN jobs /\ Job1.kind = "reembed"
        /\ worker.model = Job1.arg /\ worker.model \in Models
    BY <1>2, ReembedFacts
  <1>4. /\ PendingKinds' = PendingKinds
        /\ (ReembedBehind <=> ReembedBehind') /\ (ReembedPending <=> ReembedPending')
    BY <1>1, PendingCursor
  <1>5. track'[f] = worker.model /\ \A g \in Faces : g # f => track'[g] = track[g]
    BY <1>1 DEF TypeInv, TypeOK
  <1>6. FacesHold'
    <2>1. ASSUME NEW g \in Faces
          PROVE  /\ track'[g] = NoModel => vec[g] = {} /\ scored[g] = NoModel /\ ~ Holds(g)
                 /\ g \in Lost => vec[g] = {Initial} /\ track'[g] = Initial
                                  /\ scored[g] \in {NoModel, Initial}
      <3>1. CASE g = f
        BY <1>1, <1>3, <1>5, <3>1, ModelsAssumption DEF FacesHold
      <3>2. CASE g # f
        BY <1>5, <3>2 DEF FacesHold
      <3> QED
        BY <3>1, <3>2
    <2> QED
      BY <1>1, <2>1, Zenon DEF FacesHold, Holds, ActiveUnder
  <1>7. CursorsHold'
    <2>1. \A i \in DOMAIN jobs' : i > 1 => jobs'[i].crops = {} /\ jobs'[i].tracks = {}
      BY <1>1 DEF CursorsHold
    <2>2. jobs'[1].arg = jobs[1].arg
      BY <1>1, <1>3
    <2>3. jobs[1].tracks \subseteq Faces
      BY <1>3, HeadFacts, <1>2, JobFacts DEF Job1
    <2>4. \A g \in jobs'[1].crops \ Lost : jobs'[1].arg \in vec'[g]
      BY <1>1, <1>3, <2>2 DEF CursorsHold, Job1
    <2>5. \A g \in jobs'[1].tracks : track'[g] = jobs'[1].arg
      BY <1>1, <1>3, <1>5, <2>2, <2>3 DEF CursorsHold, Job1
    <2> QED
      BY <2>1, <2>4, <2>5 DEF CursorsHold, Job1
  <1>8. SwitchHolds'
    BY <1>1, <1>4 DEF SwitchHolds, Loaded
  <1>9. CarryHolds' /\ FollowUpHolds' /\ CarryInv' /\ MovedInv' /\ ScoreInv'
    BY <1>1, <1>2 DEF CarryHolds, FollowUpHolds, CarryInv, MovedInv, ScoreInv, Carrying
  \* Either it is the configured model's own re-embed, or that one is behind it.
  <1>10. ReembedPending
    <2>1. CASE worker.model = config.embedder
      BY <1>3, <2>1 DEF ReembedPending, ReembedAt, Job1
    <2>2. CASE worker.model # config.embedder
      BY <1>2, <2>2 DEF SwitchHolds, Loaded, ReembedBehind, ReembedPending
    <2> QED
      BY <2>1, <2>2
  <1>11. "reembed" \in PendingKinds
    BY <1>10 DEF ReembedPending, ReembedAt, PendingKinds
  <1>12. StaleInv' /\ RescoreInv'
    BY <1>4, <1>10, <1>11 DEF StaleInv, RescoreInv
  <1>13. CarriedOver'
    BY <1>1 DEF CarriedOver, Holds, ActiveUnder
  <1> QED
    BY <1>1, <1>6, <1>7, <1>8, <1>9, <1>12, <1>13

LEMMA ReadTemplatesSwitch ==
    ASSUME SwitchInv, ReadTemplates
    PROVE  SwitchInv'
  <1> USE DEF SwitchInv
  <1>1. /\ TypeInv' /\ worker'.step = "carry" /\ worker'.model = worker.model
        /\ worker'.gallery = {f \in OrphanTemplates(worker.model) \ parked : worker.model \in vec[f]}
        /\ behind' = OrphanTemplates(worker.model) \cap parked
        /\ PendingCrops = {} /\ PendingTracks = {} /\ worker.step = "crops"
        /\ UNCHANGED <<config, row, vec, track, scored, jobs, unfinished>>
    BY ReadTemplatesStep DEF ReadTemplates, database
  <1>2. /\ jobs # << >> /\ 1 \in DOMAIN jobs /\ Job1.kind = "reembed" /\ Job1' = Job1
        /\ worker.model = Job1.arg /\ worker.model \in Models
    BY <1>1, ReembedFacts DEF Job1
  <1>3. /\ (ReembedBehind <=> ReembedBehind') /\ PendingKinds' = PendingKinds
        /\ (ReembedPending <=> ReembedPending')
    BY <1>1 DEF ReembedBehind, ReembedPending, ReembedAt, PendingKinds
  \* No crop is left without a vector, except those that are gone, and no track behind.
  <1>4. ASSUME NEW f \in Faces \ Lost, track[f] # NoModel
        PROVE  worker.model \in vec[f] /\ track[f] = worker.model
    <2>1. f \in Job1.crops \/ worker.model \in vec[f]
      BY <1>1, <1>4 DEF PendingCrops
    <2>2. worker.model \in vec[f]
      BY <1>2, <2>1 DEF CursorsHold
    <2>3. f \in Job1.tracks
      BY <1>1, <1>4, <2>2 DEF PendingTracks
    <2> QED
      BY <1>2, <2>2, <2>3 DEF CursorsHold
  <1>5. FacesHold' /\ CursorsHold' /\ StaleInv' /\ RescoreInv'
    <2>1. FacesHold'
      BY <1>1 DEF FacesHold, Holds, ActiveUnder
    <2>2. CursorsHold'
      BY <1>1, <1>2 DEF CursorsHold
    <2> QED
      BY <1>1, <1>3, <2>1, <2>2 DEF StaleInv, RescoreInv, Stale
  <1>6. SwitchHolds'
    BY <1>1, <1>3 DEF SwitchHolds, Loaded
  <1>7. CarryHolds'
    <2>1. ASSUME NEW f \in worker'.gallery PROVE track'[f] # NoModel /\ Holds(f)'
      BY <1>1, <2>1 DEF OrphanTemplates, FacesHold, Holds, ActiveUnder
    <2> QED
      BY <2>1 DEF CarryHolds
  <1>8. FollowUpHolds' /\ ScoreInv'
    BY <1>1 DEF FollowUpHolds, ScoreInv
  <1>9. CarryInv'
    <2>1. ASSUME worker.model = config.embedder, NEW f \in Faces \ (Lost \cup behind')
          PROVE  RuledOn(f) \/ f \in worker'.gallery
      <3>1. SUFFICES ASSUME Holds(f), row[f][worker.model] = "none"
                     PROVE  f \in worker'.gallery
        BY <2>1 DEF RuledOn
      <3>2. f \in OrphanTemplates(worker.model)
        BY <1>2, <3>1 DEF OrphanTemplates, Holds, ActiveUnder
      <3>3. f \notin parked
        BY <1>1, <2>1, <3>2
      <3>4. track[f] # NoModel
        BY <3>1 DEF FacesHold
      <3>5. worker.model \in vec[f]
        BY <1>4, <3>4
      <3> QED
        BY <1>1, <3>2, <3>3, <3>5
    <2> QED
      BY <1>1, <2>1 DEF CarryInv, RuledOn, Holds, ActiveUnder
  <1>10. MovedInv'
    BY <1>1, <1>4 DEF MovedInv
  <1>11. CarriedOver'
    <2>1. ReembedPending
      <3>1. CASE worker.model = config.embedder
        BY <1>2, <3>1 DEF ReembedPending, ReembedAt, Job1
      <3>2. CASE worker.model # config.embedder
        BY <1>1, <3>2 DEF SwitchHolds, Loaded, ReembedBehind, ReembedPending
      <3> QED
        BY <3>1, <3>2
    <2> QED
      BY <1>3, <2>1 DEF CarriedOver, ReembedPending, ReembedAt
  <1> QED
    BY <1>1, <1>5, <1>6, <1>7, <1>8, <1>9, <1>10, <1>11

LEMMA CarryTemplatesSwitch ==
    ASSUME SwitchInv, CarryTemplates
    PROVE  SwitchInv'
  <1> USE DEF SwitchInv
  <1>1. /\ TypeInv' /\ worker.step = "carry"
        /\ UNCHANGED <<config, enrolled, parked, vec, track, scored, request, behind>>
    BY CarryTemplatesStep DEF CarryTemplates
  <1>2. CASE worker.gallery \cap parked # {}
    BY <1>1, <1>2, CarryTemplatesStep, FailedSwitch
  <1>3. CASE worker.gallery \cap parked = {}
    <2>1. /\ worker'.step = "pending" /\ worker'.model = worker.model
          /\ row' = [f \in Faces |-> IF f \in worker.gallery
                                      THEN [row[f] EXCEPT ![worker.model] = "active"] ELSE row[f]]
          /\ UNCHANGED <<jobs, unfinished>>
      BY <1>3, CarryTemplatesStep
    <2>2. /\ jobs # << >> /\ 1 \in DOMAIN jobs /\ Job1.kind = "reembed" /\ Job1' = Job1
          /\ worker.model = Job1.arg /\ worker.model \in Models
      BY <1>1, <2>1, ReembedFacts DEF Job1
    <2>3. \A f \in Faces :
             /\ f \in worker.gallery => row'[f][worker.model] = "active"
             /\ f \notin worker.gallery => row'[f] = row[f]
      BY <2>1, <2>2 DEF TypeInv, TypeOK
    <2>4. /\ (ReembedBehind <=> ReembedBehind') /\ PendingKinds' = PendingKinds
          /\ (ReembedPending <=> ReembedPending')
      BY <1>1, <2>1 DEF ReembedBehind, ReembedPending, ReembedAt, PendingKinds
    <2>5. FacesHold'
      <3>1. \A f \in Faces : Holds(f)' => Holds(f) \/ track[f] # NoModel
        BY <1>1, <2>3 DEF CarryHolds, Holds, ActiveUnder
      <3> QED
        BY <1>1, <3>1, Zenon DEF FacesHold, Holds, ActiveUnder
    <2>6. CursorsHold' /\ StaleInv' /\ RescoreInv'
      <3>1. CursorsHold'
        BY <1>1, <2>1, <2>2 DEF CursorsHold
      <3> QED
        BY <1>1, <2>1, <2>4, <3>1 DEF StaleInv, RescoreInv, Stale
    <2>7. SwitchHolds'
      BY <1>1, <2>1, <2>4 DEF SwitchHolds, Loaded
    <2>8. CarryHolds' /\ FollowUpHolds' /\ ScoreInv'
      BY <2>1 DEF CarryHolds, FollowUpHolds, ScoreInv
    <2>9. CarryInv'
      <3>1. ASSUME worker.model = config.embedder, ~ ReembedBehind,
                   NEW f \in Faces \ (Lost \cup behind)
            PROVE  RuledOn(f)'
        <4>1. RuledOn(f) \/ f \in worker.gallery
          BY <1>1, <2>2, <3>1 DEF CarryInv, Carrying
        <4>2. CASE f \in worker.gallery
          BY <1>1, <2>3, <3>1, <4>2 DEF RuledOn
        <4>3. CASE f \notin worker.gallery
          BY <1>1, <2>3, <4>1, <4>3 DEF RuledOn, Holds, ActiveUnder
        <4> QED
          BY <4>2, <4>3
      <3> QED
        BY <1>1, <2>1, <2>4, <3>1 DEF CarryInv
    <2>10. MovedInv'
      BY <1>1, <2>1, <2>2 DEF MovedInv, Carrying
    <2>11. CarriedOver'
      <3>1. ReembedPending
        <4>1. CASE worker.model = config.embedder
          BY <2>2, <4>1 DEF ReembedPending, ReembedAt, Job1
        <4>2. CASE worker.model # config.embedder
          BY <1>1, <4>2 DEF SwitchHolds, Loaded, ReembedBehind, ReembedPending
        <4> QED
          BY <4>1, <4>2
      <3> QED
        BY <2>4, <3>1 DEF CarriedOver, ReembedPending, ReembedAt
    <2> QED
      BY <1>1, <2>5, <2>6, <2>7, <2>8, <2>9, <2>10, <2>11
  <1> QED
    BY <1>2, <1>3

LEMMA ReadPendingSwitch ==
    ASSUME SwitchInv, ReadPending
    PROVE  SwitchInv'
  <1> USE DEF SwitchInv
  <1>1. /\ TypeInv' /\ worker'.step = "close" /\ worker'.model = worker.model
        /\ worker'.owes = ("rematch" \notin PendingKinds) /\ worker.step = "pending"
        /\ UNCHANGED <<config, row, vec, track, scored, jobs, unfinished, behind>>
    BY ReadPendingStep DEF ReadPending, database, history
  <1>2. /\ FacesHold' /\ CursorsHold' /\ StaleInv' /\ RescoreInv' /\ CarriedOver'
        /\ (ReembedBehind <=> ReembedBehind') /\ PendingKinds' = PendingKinds /\ Job1' = Job1
    BY <1>1, SameStored
  <1>3. SwitchHolds' /\ CarryHolds' /\ MovedInv' /\ ScoreInv'
    BY <1>1, <1>2 DEF SwitchHolds, CarryHolds, MovedInv, ScoreInv, Carrying, Loaded
  <1>4. FollowUpHolds'
    BY <1>1, <1>2 DEF FollowUpHolds
  <1>5. CarryInv'
    BY <1>1, <1>2 DEF CarryInv, Carrying, RuledOn, Holds, ActiveUnder
  <1> QED
    BY <1>1, <1>2, <1>3, <1>4, <1>5

LEMMA CloseReembedSwitch ==
    ASSUME SwitchInv, CloseReembed
    PROVE  SwitchInv'
  <1> USE DEF SwitchInv
  <1>1. /\ TypeInv' /\ worker'.step = "finish" /\ worker'.model = worker.model /\ Grows
        /\ jobs' = (IF worker.owes THEN Append(jobs, Rematch) ELSE jobs) /\ worker.step = "close"
        /\ UNCHANGED <<config, row, vec, track, scored, unfinished, behind>>
    BY CloseReembedStep DEF CloseReembed, history
  <1>2. /\ jobs # << >> /\ 1 \in DOMAIN jobs /\ Job1.kind = "reembed" /\ Job1' = Job1
        /\ jobs \in Seq(Job)
    BY <1>1, ReembedFacts DEF Job1, Grows, TypeInv, TypeOK
  <1>3. /\ PendingKinds \subseteq PendingKinds'
        /\ (ReembedBehind => ReembedBehind') /\ (ReembedPending => ReembedPending')
    BY <1>1, PendingGrows
  <1>4. FacesHold'
    BY <1>1 DEF FacesHold, Holds, ActiveUnder
  <1>5. CursorsHold'
    <2>1. \A i \in DOMAIN jobs' : i > 1 => jobs'[i].crops = {} /\ jobs'[i].tracks = {}
      BY <1>1 DEF Grows, CursorsHold
    <2> QED
      BY <1>1, <1>2, <2>1 DEF CursorsHold
  <1>6. SwitchHolds' /\ CarryHolds' /\ ScoreInv'
    BY <1>1, <1>2, <1>3 DEF SwitchHolds, CarryHolds, ScoreInv, Loaded
  <1>7. FollowUpHolds'
    <2>1. CASE worker.owes
      <3>1. Rematch \in Job /\ Rematch.kind = "rematch"
        BY NewJobFacts
      <3>2. Len(jobs) + 1 \in DOMAIN jobs' /\ jobs'[Len(jobs) + 1] = Rematch
        BY <1>1, <1>2, <2>1, <3>1, Queueing
      <3>3. "rematch" \in PendingKinds'
        BY <3>1, <3>2 DEF PendingKinds
      <3> QED
        BY <3>3 DEF FollowUpHolds
    <2>2. CASE ~ worker.owes
      BY <1>1, <1>3, <2>2 DEF FollowUpHolds
    <2> QED
      BY <2>1, <2>2
  <1>8. CarryInv' /\ MovedInv'
    BY <1>1, <1>2, <1>3 DEF CarryInv, MovedInv, Carrying, RuledOn, Holds, ActiveUnder
  <1>9. StaleInv' /\ RescoreInv'
    BY <1>1, <1>3 DEF StaleInv, RescoreInv, Stale
  <1>10. CarriedOver'
    BY <1>1, <1>3 DEF CarriedOver, ReembedPending, ReembedAt, Holds, ActiveUnder
  <1> QED
    BY <1>1, <1>4, <1>5, <1>6, <1>7, <1>8, <1>9, <1>10

LEMMA SwitchInit == Init => SwitchInv
  <1> SUFFICES ASSUME Init PROVE SwitchInv
    OBVIOUS
  <1>1. TypeInv
    BY InitTypes
  <1>2. /\ jobs \in Seq(Job)
        /\ \A i \in DOMAIN jobs : /\ jobs[i].kind = "process"
                                  /\ jobs[i].crops = {} /\ jobs[i].tracks = {}
    BY JobsAtFirst DEF Init
  <1>3. /\ vec = [f \in Faces |-> IF f \in Arriving THEN {} ELSE {Initial}]
        /\ track = [f \in Faces |-> IF f \in Arriving THEN NoModel ELSE Initial]
        /\ scored = [f \in Faces |-> IF f \in Arriving \/ enrolled = {} THEN NoModel ELSE Initial]
        /\ enrolled \subseteq Faces \ Arriving
        /\ row = [f \in Faces |-> [m \in Models |->
                     IF f \in enrolled /\ m = Initial THEN "active" ELSE "none"]]
        /\ config.embedder = Initial /\ worker.step = "idle"
    BY DEF Init, IdleWorker
  <1>4. FacesHold
    BY <1>3, ModelsAssumption, FacesAssumption DEF FacesHold, Holds, ActiveUnder
  <1>5. CursorsHold
    <2>1. jobs # << >> => 1 \in DOMAIN jobs
      BY <1>2, EmptySeq, LenProperties
    <2> QED
      BY <1>2, <2>1 DEF CursorsHold, Job1
  <1>6. SwitchHolds /\ CarryHolds /\ FollowUpHolds /\ CarryInv /\ MovedInv /\ ScoreInv
    BY <1>3 DEF SwitchHolds, CarryHolds, FollowUpHolds, CarryInv, MovedInv, ScoreInv, Loaded,
       Carrying
  <1>7. \A f \in Faces : ~ Stale(f)
    BY <1>3 DEF Stale
  <1>8. StaleInv /\ RescoreInv
    BY <1>7 DEF StaleInv, RescoreInv
  <1>9. CarriedOver
    BY <1>3, ModelsAssumption DEF CarriedOver, Holds, ActiveUnder
  <1> QED
    BY <1>1, <1>4, <1>5, <1>6, <1>8, <1>9 DEF SwitchInv

LEMMA SwitchStep == SwitchInv /\ [Next]_vars => SwitchInv'
  <1> SUFFICES ASSUME SwitchInv, [Next]_vars PROVE SwitchInv'
    OBVIOUS
  <1>1. TypeInv'
    BY TypesHold DEF SwitchInv
  <1>2. CASE UNCHANGED vars
    <2>1. UNCHANGED <<config, row, vec, track, scored, jobs, unfinished, behind, worker, raced>>
      BY <1>2 DEF vars, database, history
    <2>2. FacesHold' /\ CursorsHold' /\ StaleInv' /\ RescoreInv' /\ CarriedOver'
      BY <2>1, SameStored
    <2>3. SwitchHolds' /\ CarryHolds' /\ FollowUpHolds' /\ CarryInv' /\ MovedInv' /\ ScoreInv'
      BY <2>1 DEF SwitchInv, SwitchHolds, CarryHolds, FollowUpHolds, CarryInv, MovedInv, ScoreInv,
         Loaded, Carrying, ReembedBehind, ReembedAt, PendingKinds, Job1, RuledOn, Stale, Holds,
         ActiveUnder
    <2> QED
      BY <1>1, <2>2, <2>3 DEF SwitchInv
  <1>3. CASE \E r \in Requests : Handle(r)
    BY <1>3, HandleSwitch
  <1>4. CASE Claim \/ Crash \/ Restart
    <2>1. worker'.step \in {"idle", "down", "claimed"}
      BY <1>4, ClaimStep, CrashStep DEF SwitchInv
    <2>2. UNCHANGED <<config, row, vec, track, scored, jobs, unfinished, behind>>
      BY <1>4 DEF Claim, Crash, Restart, database, history
    <2> QED
      BY <1>1, <2>1, <2>2, UnloadedSwitch
  <1>5. CASE Fail
    BY <1>1, <1>5, FailStep, FailedSwitch DEF Fail, SwitchInv
  <1>6. CASE Work /\ ~ Claim
    BY <1>6, LoadModelsSwitch, DetectSwitch, ReadToScoreSwitch, ScoreSwitch, EmbedCropSwitch,
       MoveTrackSwitch, ReadTemplatesSwitch, CarryTemplatesSwitch, ReadPendingSwitch,
       CloseReembedSwitch, FinishSwitch DEF Work
  <1> QED
    BY <1>2, <1>3, <1>4, <1>5, <1>6 DEF Next

\* Once no re-embed of the configured model is pending, and none failed since,
\* whoever has a face in force under any model has it ruled on under this one.
THEOREM SwitchCarriesOver == Spec => []CarriedOver
  <1>1. SwitchInv => CarriedOver
    BY DEF SwitchInv
  <1> QED
    BY SwitchInit, SwitchStep, <1>1, PTL DEF Spec

\* A track whose stored matches are another model's than its mean is owed a
\* rescoring, unless a job that should have done it failed.
THEOREM MovedTracksAreRescored == Spec => []MovedIsRescored
  <1>1. SwitchInv => MovedIsRescored
    <2> SUFFICES ASSUME SwitchInv PROVE MovedIsRescored
      OBVIOUS
    <2> QED
      BY DEF SwitchInv, RescoreInv, MovedIsRescored, Stale
  <1> QED
    BY SwitchInit, SwitchStep, <1>1, PTL DEF Spec

\* A face withdrawn everywhere comes back only by an operator's enrolment, however
\* often the models are switched, or because it was withdrawn under the carry.
THEOREM RevokedComesBackByEnrolment == Spec => RevokedStays
  <1> DEFINE Back == \A f \in Faces : (~ Holds(f) /\ Holds(f)') => (f \in enrolled' \/ f \in raced)
  <1>1. SwitchInv /\ [Next]_vars => [Back]_vars
    <2> SUFFICES ASSUME SwitchInv, Next, NEW f \in Faces, ~ Holds(f), Holds(f)'
                 PROVE  f \in enrolled' \/ f \in raced
      OBVIOUS
    <2>1. ASSUME row' = row PROVE FALSE
      BY <2>1 DEF Holds, ActiveUnder
    <2>2. ASSUME NEW r \in Requests, Handle(r) PROVE f \in enrolled'
      <3>1. CASE Enrol(r)
        <4>1. TypeInv
          BY DEF SwitchInv
        <4>2. PICK g \in Faces, m \in Models :
                 /\ g \in enrolled'
                 /\ \A h \in Faces : \A n \in Models : h # g \/ n # m => row'[h][n] = row[h][n]
          BY <3>1, <4>1, EnrolFacts
        <4> QED
          BY <4>2 DEF Holds, ActiveUnder
      <3>2. CASE Revoke(r)
        <4>1. TypeInv
          BY DEF SwitchInv
        <4> QED
          BY <3>2, <4>1, RevokeFacts DEF Holds, ActiveUnder
      <3>3. CASE ~ Enrol(r) /\ ~ Revoke(r)
        BY <2>1, <2>2, <3>3, OtherRows
      <3> QED
        BY <3>1, <3>2, <3>3
    <2>3. CASE CarryTemplates
      <3>1. f \in worker.gallery
        <4>1. CASE worker.gallery \cap parked = {}
          BY <2>3, <4>1 DEF CarryTemplates, Holds, ActiveUnder
        <4>2. CASE worker.gallery \cap parked # {}
          BY <2>1, <2>3, <4>2 DEF CarryTemplates
        <4> QED
          BY <4>1, <4>2
      <3> QED
        BY <2>3, <3>1 DEF SwitchInv, CarryHolds, CarryTemplates
    <2>4. CASE (Work /\ ~ CarryTemplates) \/ Fail \/ Crash \/ Restart
      <3>1. row' = row
        BY <2>4 DEF Work, Claim, LoadModels, Detect, ReadToScore, Score, EmbedCrop, MoveTrack,
           ReadTemplates, ReadPending, CloseReembed, Finish, Fail, Crash, Restart, database
      <3> QED
        BY <2>1, <3>1
    <2> QED
      BY <2>2, <2>3, <2>4 DEF Next
  <1>2. RevokedStays <=> [][Back]_vars
    BY DEF RevokedStays
  <1> QED
    BY SwitchInit, SwitchStep, <1>1, <1>2, PTL DEF Spec

=============================================================================
