--------------------------- MODULE VideoJobProofs ---------------------------
(***************************************************************************)
(* The video path for any files, sampling grid, batch size, tracker        *)
(* thresholds, number of runs and of decisions: what becomes of the rows,  *)
(* of the tracks and of the counts when the worker dies between any two    *)
(* transactions.                                                           *)
(***************************************************************************)
EXTENDS VideoJob, FiniteSetTheorems, TLAPS

-----------------------------------------------------------------------------
(* What the worker holds.                                                   *)

Numberings == UNION {[K -> Nat] : K \in SUBSET Nat}
LiveTracks == UNION {[K -> Track] : K \in SUBSET Nat}

Tracker == [live : LiveTracks, next : Nat, retired : SUBSET Nat]

\* The tracker's keys, and what its tracks say of their hits.
Sound(tr) ==
    /\ \A k \in DOMAIN tr.live :
          k < tr.next /\ (tr.live[k].ever <=> tr.live[k].hits >= MinHits)
    /\ \A k \in tr.retired : k < tr.next
    /\ tr.retired \cap DOMAIN tr.live = {}

Worker == [step : {"idle", "ready", "sampled", "committed", "swept", "averaged", "matching",
                   "finishing", "failing", "marking", "down"},
           frame : Nat, slot : Nat, startMs : Nat, lastMs : Nat, decoded : Nat, counted : Nat,
           pending : SUBSET PendingBox, tracker : Tracker, ids : Numberings,
           discarded : SUBSET Nat]

Jobs == [number : 1..MaxRuns, status : {"queued", "running", "done", "failed"},
         progress : Progress]

\* The worker samples and commits.
Reading == worker.step \in {"ready", "sampled", "committed"}

\* What it holds and what is stored is finite; it works for a running job.
WorkerHolds ==
    /\ worker \in Worker /\ job \in Jobs
    /\ IsFiniteSet(worker.pending) /\ IsFiniteSet(DOMAIN detections)
    /\ DOMAIN detections \subseteq Nat \X Nat
    /\ worker.step \notin {"idle", "down", "marking"} => job.status = "running"

\* The worker holds no key the tracker has yet to hand out.
TrackerHolds ==
    /\ Sound(worker.tracker)
    /\ \A b \in worker.pending : b.key < worker.tracker.next
    /\ \A k \in DOMAIN worker.ids : k < worker.tracker.next

TypeInv == TypeOK /\ WorkerHolds /\ TrackerHolds

-----------------------------------------------------------------------------
(* Faces of one frame.                                                      *)

\* Two tracks of a run have two rows.
IdsHold ==
    \A j, k \in DOMAIN worker.ids : worker.ids[j] = worker.ids[k] => j = k

\* A frame's boxes have keys of their own, and none was written in this run before.
PendingHolds ==
    /\ \A b \in worker.pending : b.slot < worker.slot
    /\ \A b, c \in worker.pending : b.slot = c.slot /\ (b.key = c.key \/ b.det = c.det) => b = c
    /\ \A d \in DOMAIN detections : \A k \in DOMAIN worker.ids :
          detections[d].track = worker.ids[k] =>
             d[1] < worker.slot /\ \A b \in worker.pending : b.slot # d[1]

FaceInv == TypeInv /\ IdsHold /\ PendingHolds /\ OneFacePerFrame

-----------------------------------------------------------------------------
(* The sweep and the match.                                                 *)

\* Once swept, no short track is left.
SweptHolds ==
    worker.step \in {"swept", "matching", "finishing"} \/ job.status = "done" => ShortTracks = {}

MatchedHolds == \A id \in matched : Cardinality(DetectionsOf(id)) >= MinHits

\* Once matched, every track with a mean is.
MatchHolds ==
    worker.step = "finishing" \/ job.status = "done" =>
        \A id \in tracks : HasMean(id) => id \in matched

MatchInv == TypeInv /\ SweptHolds /\ MatchedHolds /\ MatchHolds

-----------------------------------------------------------------------------
(* The grid.                                                                *)

\* A frame is the first one of its slot, or the slot was resumed in.
FirstOf(slot, t) ==
    /\ t >= slot * SlotMs
    /\ \A f \in FrameNumbers : TimeOf(f) >= slot * SlotMs => TimeOf(f) >= t

\* What the worker is past lies before its slot; it may start behind its slot only
\* where it resumed.
CursorHolds ==
    Reading =>
        /\ \A f \in FrameNumbers : f < worker.frame => TimeOf(f) < worker.slot * SlotMs
        /\ worker.startMs < (worker.slot + 1) * SlotMs
        /\ worker.startMs <= worker.slot * SlotMs \/ worker.slot \in resumedIn

PendingOnGrid ==
    \A b \in worker.pending : b.slot \notin resumedIn => FirstOf(b.slot, b.t)

GridInv == TypeInv /\ CursorHolds /\ PendingOnGrid /\ GridHolds
           /\ (~ job.progress.sampled => job.progress.lastMs = 0)

-----------------------------------------------------------------------------
(* The counts.                                                              *)

SlotsBefore(n) == {s \in Slots : s < n}
CountTo(n) == Cardinality(SlotsBefore(n))

\* A sample ends the slot its frame lies in.
SampledHolds ==
    worker.step \in {"sampled", "committed"} =>
        /\ worker.slot = worker.lastMs \div SlotMs + 1
        /\ worker.lastMs \div SlotMs \in Slots

\* The counts are those of the slots up to the worker's, and at most one more for every
\* crash; resumed within its slot, the worker has counted that slot before.
DecodedHolds ==
    Reading =>
        /\ worker.decoded \in CountTo(worker.slot)..(CountTo(worker.slot) + crashes)
        /\ worker.startMs > worker.slot * SlotMs =>
              /\ worker.slot \in Slots
              /\ worker.decoded >= CountTo(worker.slot) + 1

\* So are those of a checkpoint, which is resumed only after one more crash.
ProgressHolds ==
    job.progress.sampled =>
        LET n == CountTo(job.progress.lastMs \div SlotMs + 1)
        IN  /\ job.progress.lastMs \div SlotMs \in Slots
            /\ job.progress.decoded >= n
            /\ job.progress.decoded <= n + crashes
            /\ worker.step = "down" \/ job.status = "queued" => job.progress.decoded < n + crashes

CountInv == GridInv /\ SampledHolds /\ DecodedHolds /\ ProgressHolds /\ CountsAreTrue
            /\ (~ job.progress.sampled => job.progress.decoded = 0)

-----------------------------------------------------------------------------
(* What the tracker confirmed.                                              *)

Held(k) == {b \in worker.pending : b.key = k}
RowsOf(k) == {d \in DOMAIN detections :
                 k \in DOMAIN worker.ids /\ detections[d].track = worker.ids[k]}
Hits(k) == Cardinality(Held(k)) + Cardinality(RowsOf(k))

\* A track has as many rows and boxes as it had hits, and what is neither live nor
\* retired is short.
Tallied ==
    /\ tracks = {worker.ids[k] : k \in DOMAIN worker.ids}
    /\ \A d \in DOMAIN detections :
          d[1] < worker.slot /\ \A b \in worker.pending : b.slot # d[1]
    /\ worker.discarded \cap (DOMAIN worker.tracker.live \cup worker.tracker.retired) = {}
    /\ \A k \in DOMAIN worker.tracker.live : worker.tracker.live[k].hits = Hits(k)
    /\ \A k \in worker.tracker.retired : Hits(k) >= MinHits
    /\ \A k \in Nat \ (DOMAIN worker.tracker.live \cup worker.tracker.retired) :
          Hits(k) < MinHits

FirstRun == crashes = 0 /\ job.number = 1

HitsHold == FirstRun /\ Reading => Tallied

\* Nothing was ever written before the first run began, and none is begun again without
\* a crash.
UntouchedHolds ==
    /\ FirstRun /\ job.status = "queued" =>
          DOMAIN detections = {} /\ tracks = {}
    /\ worker.step = "down" => crashes > 0

ConfirmedInv == FaceInv /\ HitsHold /\ UntouchedHolds /\ ConfirmedSurvives

-----------------------------------------------------------------------------
(* Sets and functions the model is built from.                              *)

LEMMA NumberingsAre ==
    /\ \A K : \A f \in [K -> Nat] : K \subseteq Nat => f \in Numberings
    /\ \A f \in Numberings : DOMAIN f \subseteq Nat /\ f \in [DOMAIN f -> Nat]
<1>1. ASSUME NEW K, NEW f \in [K -> Nat], K \subseteq Nat
      PROVE f \in Numberings
    BY <1>1 DEF Numberings
<1>2. ASSUME NEW f \in Numberings
      PROVE DOMAIN f \subseteq Nat /\ f \in [DOMAIN f -> Nat]
    <2>1. PICK K \in SUBSET Nat : f \in [K -> Nat]
        BY <1>2 DEF Numberings
    <2> QED BY <2>1
<1> QED BY <1>1, <1>2

LEMMA LiveTracksAre ==
    /\ \A K : \A f \in [K -> Track] : K \subseteq Nat => f \in LiveTracks
    /\ \A f \in LiveTracks : DOMAIN f \subseteq Nat /\ f \in [DOMAIN f -> Track]
<1>1. ASSUME NEW K, NEW f \in [K -> Track], K \subseteq Nat
      PROVE f \in LiveTracks
    BY <1>1 DEF LiveTracks
<1>2. ASSUME NEW f \in LiveTracks
      PROVE DOMAIN f \subseteq Nat /\ f \in [DOMAIN f -> Track]
    <2>1. PICK K \in SUBSET Nat : f \in [K -> Track]
        BY <1>2 DEF LiveTracks
    <2> QED BY <2>1
<1> QED BY <1>1, <1>2

\* How many numbers of a finite set lie below one of them tells it from the others.
LEMMA Ranks ==
    ASSUME NEW S, IsFiniteSet(S), S \subseteq Nat
    PROVE  /\ Cardinality(S) \in Nat
           /\ \A i \in S : Cardinality({j \in S : j < i}) \in 0..(Cardinality(S) - 1)
           /\ \A i, k \in S : Cardinality({j \in S : j < i}) = Cardinality({j \in S : j < k})
                 => i = k
<1> DEFINE Below(i) == {j \in S : j < i}
<1>1. Cardinality(S) \in Nat
    BY FS_CardinalityType
<1>2. ASSUME NEW i \in S
      PROVE IsFiniteSet(Below(i)) /\ Cardinality(Below(i)) \in 0..(Cardinality(S) - 1)
    <2>1. Below(i) \subseteq S /\ i \notin Below(i) /\ i \in Nat
        OBVIOUS
    <2>2. IsFiniteSet(Below(i)) /\ Cardinality(Below(i)) <= Cardinality(S)
              /\ (Cardinality(Below(i)) = Cardinality(S) => Below(i) = S)
        BY <2>1, FS_Subset
    <2>3. Cardinality(Below(i)) \in Nat
        BY <2>2, FS_CardinalityType
    <2> QED BY <2>1, <2>2, <2>3, <1>1
<1>3. ASSUME NEW i \in S, NEW k \in S, i < k
      PROVE Cardinality(Below(i)) < Cardinality(Below(k))
    <2> i \in Nat /\ k \in Nat
        OBVIOUS
    <2>1. Below(i) \subseteq Below(k) /\ i \in Below(k) /\ i \notin Below(i)
        <3>1. \A j \in S : j \in Nat
            OBVIOUS
        <3>2. \A j \in S : j < i => j < k
            BY <1>3, <3>1
        <3>3. i < k /\ ~ (i < i)
            BY <1>3
        <3> QED BY <3>2, <3>3, Zenon
    <2>2. Cardinality(Below(i)) <= Cardinality(Below(k))
              /\ (Cardinality(Below(i)) = Cardinality(Below(k)) => Below(i) = Below(k))
        BY <2>1, <1>2, FS_Subset
    <2>3. Below(i) # Below(k)
        BY <2>1
    <2> QED BY <2>2, <2>3, <1>2
<1>4. ASSUME NEW i \in S, NEW k \in S, Cardinality(Below(i)) = Cardinality(Below(k))
      PROVE i = k
    <2>1. i \in Nat /\ k \in Nat
        OBVIOUS
    <2> HIDE DEF Below
    <2>2. Cardinality(Below(i)) \in Int /\ Cardinality(Below(k)) \in Int
        BY <1>2
    <2>3. ~ (i < k) /\ ~ (k < i)
        BY <2>2, <1>3, <1>4
    <2> QED BY <2>1, <2>3
<1> QED BY <1>1, <1>2, <1>4

\* The same, each counted with itself.
LEMMA RanksFromOne ==
    ASSUME NEW S, IsFiniteSet(S), S \subseteq Nat
    PROVE  /\ Cardinality(S) \in Nat
           /\ \A i \in S : Cardinality({j \in S : j <= i}) \in 1..Cardinality(S)
           /\ \A i, k \in S : Cardinality({j \in S : j <= i}) = Cardinality({j \in S : j <= k})
                 => i = k
<1>1. ASSUME NEW i \in S
      PROVE Cardinality({j \in S : j <= i}) = Cardinality({j \in S : j < i}) + 1
    <2> DEFINE B == {j \in S : j < i}
    <2>1. {j \in S : j <= i} = B \cup {i} /\ i \notin B /\ B \subseteq S
        <3>1. \A j \in S : j \in Nat
            OBVIOUS
        <3>2. \A j \in S : j <= i <=> j < i \/ j = i
            BY <3>1
        <3>3. ~ (i < i)
            BY <3>1
        <3>4. {j \in S : j <= i} = B \cup {i}
            BY <3>2, Zenon
        <3> QED BY <3>3, <3>4, Zenon
    <2>2. IsFiniteSet(B)
        BY <2>1, FS_Subset
    <2>3. Cardinality(B \cup {i}) = Cardinality(B) + 1
        BY <2>1, <2>2, FS_AddElement
    <2> QED BY <2>1, <2>3
<1>2. /\ Cardinality(S) \in Nat
      /\ \A i \in S : Cardinality({j \in S : j < i}) \in 0..(Cardinality(S) - 1)
      /\ \A i, k \in S : Cardinality({j \in S : j < i}) = Cardinality({j \in S : j < k})
            => i = k
    BY Ranks
<1> DEFINE c(i) == Cardinality({j \in S : j < i})
           d(i) == Cardinality({j \in S : j <= i})
<1>3. \A i \in S : c(i) \in Int /\ d(i) = c(i) + 1 /\ c(i) \in 0..(Cardinality(S) - 1)
    BY <1>1, <1>2
<1>4. \A i, k \in S : c(i) = c(k) => i = k
    BY <1>2
<1> HIDE DEF c, d
<1>5. (\A i \in S : d(i) \in 1..Cardinality(S)) /\ \A i, k \in S : d(i) = d(k) => i = k
    BY <1>2, <1>3, <1>4
<1> QED BY <1>2, <1>5 DEF d

LEMMA ImagesAreFinite ==
    ASSUME NEW g, IsFiniteSet(DOMAIN g)
    PROVE  /\ IsFiniteSet(Values(g))
           /\ (\A x, y \in DOMAIN g : g[x] = g[y] => x = y)
                 => Cardinality(Values(g)) = Cardinality(DOMAIN g)
<1> DEFINE h == [x \in DOMAIN g |-> g[x]]
<1>1. h \in Surjection(DOMAIN g, Values(g))
    BY DEF Surjection, Values
<1>2. (\A x, y \in DOMAIN g : g[x] = g[y] => x = y) => h \in Injection(DOMAIN g, Values(g))
    BY DEF Injection, IsInjective, Values
<1> HIDE DEF h
<1> QED BY <1>1, <1>2, FS_Surjection

-----------------------------------------------------------------------------
(* The tracker.                                                             *)

\* A pass gives its boxes tracks of its own, one to one.
LEMMA PairingsAre ==
    ASSUME NEW keys, NEW boxes, NEW p \in Pairings(keys, boxes)
    PROVE  /\ DOMAIN p \subseteq boxes
           /\ \A i \in DOMAIN p : p[i] \in keys
           /\ \A i, j \in DOMAIN p : p[i] = p[j] => i = j
<1>1. PICK m \in SUBSET boxes : p \in [m -> keys]
    BY DEF Pairings
<1> QED BY <1>1 DEF Pairings

\* What a frame shows: its boxes.
Boxes(b) == /\ IsFiniteSet(DOMAIN b) /\ DOMAIN b \subseteq Nat
            /\ \A i \in DOMAIN b : b[i] \in Box

\* The tracks a frame starts have keys of their own, from the tracker's next one on.
LEMMA StartedAre ==
    ASSUME NEW tr, tr.next \in Nat, NEW b, Boxes(b), NEW first
    PROVE  LET s == Started(tr, b, first)
           IN  /\ DOMAIN s = Strong(b) \ DOMAIN first
               /\ Cardinality(DOMAIN s) \in Nat
               /\ \A i \in DOMAIN s : s[i] \in tr.next..(tr.next + Cardinality(DOMAIN s) - 1)
               /\ \A i, j \in DOMAIN s : s[i] = s[j] => i = j
<1> DEFINE s == Started(tr, b, first)
           F == Strong(b) \ DOMAIN first
<1>1. F \subseteq DOMAIN b
    BY DEF Strong
<1>2. IsFiniteSet(F) /\ F \subseteq Nat
    BY <1>1, FS_Subset DEF Boxes
<1>3. /\ Cardinality(F) \in Nat
      /\ \A i \in F : Cardinality({j \in F : j < i}) \in 0..(Cardinality(F) - 1)
      /\ \A i, k \in F : Cardinality({j \in F : j < i}) = Cardinality({j \in F : j < k})
            => i = k
    BY <1>2, Ranks
<1>4. s = [i \in F |-> tr.next + Cardinality({j \in F : j < i})]
    BY DEF Started
<1> DEFINE c(i) == Cardinality({j \in F : j < i})
<1> HIDE DEF s, F
<1>5. DOMAIN s = F /\ \A i \in F : s[i] = tr.next + c(i)
    BY <1>4
<1>9. /\ \A i \in F : c(i) \in 0..(Cardinality(F) - 1)
      /\ \A i, k \in F : c(i) = c(k) => i = k
    BY <1>3
<1> HIDE DEF c
<1>6. \A i \in F : s[i] \in tr.next..(tr.next + Cardinality(F) - 1)
    BY <1>5, <1>3, <1>9
<1>7. ASSUME NEW i \in F, NEW j \in F, s[i] = s[j]
      PROVE i = j
    <2>1. tr.next \in Int /\ c(i) \in Int /\ c(j) \in Int
        BY <1>3, <1>9
    <2>2. c(i) = c(j)
        BY <2>1, <1>5, <1>7
    <2> QED BY <2>2, <1>9
<1>8. /\ DOMAIN s = F
      /\ Cardinality(DOMAIN s) \in Nat
      /\ \A i \in DOMAIN s : s[i] \in tr.next..(tr.next + Cardinality(DOMAIN s) - 1)
      /\ \A i, j \in DOMAIN s : s[i] = s[j] => i = j
    BY <1>5, <1>6, <1>7, <1>3
<1> QED BY <1>8 DEF s, F

\* The tracks of a frame's boxes: no two boxes the same, a live one or one just started.
LEMMA AssignedAre ==
    ASSUME NEW tr, tr \in Tracker, NEW b, Boxes(b),
           \A k \in DOMAIN tr.live : k < tr.next,
           NEW first \in FirstPass(tr, b), NEW second \in SecondPass(tr, b, first)
    PROVE  LET a == Assigned(tr, b, first, second)
               s == Started(tr, b, first)
               next == tr.next + Cardinality(DOMAIN s)
           IN  /\ DOMAIN a \subseteq DOMAIN b
               /\ next \in Nat /\ tr.next <= next
               /\ \A i \in DOMAIN a : a[i] \in Nat /\ a[i] < next
               /\ \A i, j \in DOMAIN a : a[i] = a[j] => i = j
               /\ Values(a) \subseteq DOMAIN tr.live \cup Values(s)
               /\ Values(s) \subseteq Values(a)
               /\ \A k \in Values(s) : k \in Nat /\ tr.next <= k /\ k < next
<1> DEFINE a == Assigned(tr, b, first, second)
           s == Started(tr, b, first)
           n == Cardinality(DOMAIN s)
<1>1. tr.next \in Nat /\ tr.live \in LiveTracks
    BY DEF Tracker
<1>2. DOMAIN tr.live \subseteq Nat
    BY <1>1, LiveTracksAre
<1>3. /\ DOMAIN s = Strong(b) \ DOMAIN first
      /\ n \in Nat
      /\ \A i \in DOMAIN s : s[i] \in tr.next..(tr.next + n - 1)
      /\ \A i, j \in DOMAIN s : s[i] = s[j] => i = j
    BY <1>1, StartedAre
<1>4. /\ DOMAIN first \subseteq Strong(b)
      /\ \A i \in DOMAIN first : first[i] \in DOMAIN tr.live
      /\ \A i, j \in DOMAIN first : first[i] = first[j] => i = j
    BY PairingsAre DEF FirstPass
<1>5. /\ DOMAIN second \subseteq Weak(b)
      /\ \A i \in DOMAIN second : second[i] \in DOMAIN tr.live \ Values(first)
      /\ \A i, j \in DOMAIN second : second[i] = second[j] => i = j
    BY PairingsAre DEF SecondPass
<1>6. Strong(b) \subseteq DOMAIN b /\ Weak(b) \subseteq DOMAIN b /\ Strong(b) \cap Weak(b) = {}
    BY DEF Strong, Weak
<1>7. /\ DOMAIN a = DOMAIN first \cup DOMAIN second \cup DOMAIN s
      /\ \A i \in DOMAIN first : a[i] = first[i]
      /\ \A i \in DOMAIN second : a[i] = second[i]
      /\ \A i \in DOMAIN s : a[i] = s[i]
    <2>1. a = [i \in DOMAIN first \cup DOMAIN second \cup DOMAIN s |->
                 IF i \in DOMAIN first THEN first[i]
                 ELSE IF i \in DOMAIN second THEN second[i] ELSE s[i]]
        BY DEF Assigned
    <2>2. /\ \A i \in DOMAIN second : i \notin DOMAIN first
          /\ \A i \in DOMAIN s : i \notin DOMAIN first /\ i \notin DOMAIN second
        BY <1>3, <1>4, <1>5, <1>6
    <2> HIDE DEF a, s
    <2> QED BY <2>1, <2>2
<1> HIDE DEF a, s, n
<1>8. DOMAIN a \subseteq DOMAIN b
    BY <1>3, <1>4, <1>5, <1>6, <1>7
<1>9. \A i \in DOMAIN a :
         \/ i \in DOMAIN first /\ a[i] \in DOMAIN tr.live /\ a[i] \in Values(first)
         \/ i \in DOMAIN second /\ a[i] \in DOMAIN tr.live /\ a[i] \notin Values(first)
         \/ i \in DOMAIN s /\ a[i] \in tr.next..(tr.next + n - 1)
    <2>1. \A i \in DOMAIN first : a[i] \in DOMAIN tr.live /\ a[i] \in Values(first)
        BY <1>4, <1>7 DEF Values
    <2>2. \A i \in DOMAIN second : a[i] \in DOMAIN tr.live /\ a[i] \notin Values(first)
        BY <1>5, <1>7
    <2>3. \A i \in DOMAIN s : a[i] \in tr.next..(tr.next + n - 1)
        BY <1>3, <1>7
    <2> SUFFICES ASSUME NEW i \in DOMAIN a
                 PROVE  \/ i \in DOMAIN first /\ a[i] \in DOMAIN tr.live /\ a[i] \in Values(first)
                        \/ i \in DOMAIN second /\ a[i] \in DOMAIN tr.live
                              /\ a[i] \notin Values(first)
                        \/ i \in DOMAIN s /\ a[i] \in tr.next..(tr.next + n - 1)
        BY Zenon
    <2>4. i \in DOMAIN first \/ i \in DOMAIN second \/ i \in DOMAIN s
        BY <1>7
    <2> QED BY <2>1, <2>2, <2>3, <2>4, Zenon
<1>10. \A i \in DOMAIN a : a[i] \in Nat /\ a[i] < tr.next + n
    BY <1>9, <1>1, <1>2, <1>3
<1>11. ASSUME NEW i \in DOMAIN a, NEW j \in DOMAIN a, a[i] = a[j]
       PROVE i = j
    <2>1. \A k \in DOMAIN tr.live : k \notin tr.next..(tr.next + n - 1)
        BY <1>1, <1>2
    <2>2. \/ i \in DOMAIN first /\ j \in DOMAIN first
          \/ i \in DOMAIN second /\ j \in DOMAIN second
          \/ i \in DOMAIN s /\ j \in DOMAIN s
        BY <1>9, <1>11, <2>1
    <2> QED BY <2>2, <1>3, <1>4, <1>5, <1>7, <1>11
<1>12. Values(a) \subseteq DOMAIN tr.live \cup Values(s)
    <2>1. \A i \in DOMAIN s : a[i] \in Values(s)
        BY <1>7 DEF Values
    <2> QED BY <1>9, <2>1 DEF Values
<1>13. Values(s) \subseteq Values(a)
    BY <1>7 DEF Values
<1>14. \A k \in Values(s) : k \in Nat /\ tr.next <= k /\ k < tr.next + n
    <2>1. \A k \in tr.next..(tr.next + n - 1) : k \in Nat /\ tr.next <= k /\ k < tr.next + n
        BY <1>1, <1>3
    <2> QED BY <1>3, <2>1 DEF Values
<1>15. tr.next + n \in Nat /\ tr.next <= tr.next + n
    BY <1>1, <1>3
<1> QED BY <1>8, <1>10, <1>11, <1>12, <1>13, <1>14, <1>15 DEF a, s, n

HitsOf(tr, k) == IF k \in DOMAIN tr.live THEN tr.live[k].hits ELSE 0

\* After a frame the tracks of its boxes have one hit more; what is gone is retired
\* with MinHits or discarded with fewer.
LEMMA UpdatedAre ==
    ASSUME NEW tr, tr \in Tracker, Sound(tr), NEW t \in Nat, NEW b, Boxes(b),
           NEW first \in FirstPass(tr, b), NEW second \in SecondPass(tr, b, first)
    PROVE  LET a == Assigned(tr, b, first, second)
               u == Updated(tr, t, b, first, second)
           IN  /\ u \in Tracker /\ Sound(u)
               /\ u.next = tr.next + Cardinality(DOMAIN Started(tr, b, first))
               /\ Values(a) \subseteq DOMAIN u.live
               /\ \A k \in DOMAIN u.live \ DOMAIN tr.live : tr.next <= k
               /\ \A k \in DOMAIN u.live :
                     u.live[k].hits = HitsOf(tr, k) + IF k \in Values(a) THEN 1 ELSE 0
               /\ \A k \in u.retired :
                     k \in tr.retired \/ (k \in DOMAIN tr.live /\ tr.live[k].hits >= MinHits)
               /\ tr.retired \subseteq u.retired
               /\ \A k \in DOMAIN tr.live \ (DOMAIN u.live \cup u.retired) :
                     tr.live[k].hits < MinHits
               /\ Discarded(tr, t, a) \subseteq DOMAIN tr.live \ (DOMAIN u.live \cup u.retired)
<1> DEFINE a == Assigned(tr, b, first, second)
           s == Started(tr, b, first)
           n == Cardinality(DOMAIN s)
           seen == Seen(tr, t, a, s)
           kept == {k \in DOMAIN seen : ~ TooOld(seen[k], t)}
           gone == {k \in DOMAIN seen \ kept : seen[k].ever}
           u == Updated(tr, t, b, first, second)
           L == DOMAIN tr.live
<1>1. tr.next \in Nat /\ tr.live \in LiveTracks /\ tr.retired \subseteq Nat
    BY DEF Tracker
<1>2. L \subseteq Nat /\ tr.live \in [L -> Track]
    BY <1>1, LiveTracksAre
<1>3. \A k \in L : k < tr.next
    BY DEF Sound
<1>4. /\ tr.next + n \in Nat /\ tr.next <= tr.next + n
      /\ Values(a) \subseteq L \cup Values(s)
      /\ Values(s) \subseteq Values(a)
      /\ \A k \in Values(s) : k \in Nat /\ tr.next <= k /\ k < tr.next + n
    BY <1>3, AssignedAre
<1>5. u = [live |-> [k \in kept |-> Aged(seen[k], t)], next |-> tr.next + n,
           retired |-> tr.retired \cup gone]
    BY DEF Updated
<1>6. /\ DOMAIN seen = L \cup Values(s)
      /\ \A k \in Values(s) : seen[k] = Fresh(t) /\ k \notin L
      /\ \A k \in L \cap Values(a) : seen[k] = Absorbed(tr.live[k], t)
      /\ \A k \in L \ Values(a) : seen[k] = tr.live[k]
    <2>1. \A k \in Values(s) : k \notin L
        BY <1>1, <1>2, <1>3, <1>4
    <2>2. seen = [k \in L \cup Values(s) |->
                     IF k \in Values(s) THEN Fresh(t)
                     ELSE IF k \in Values(a) THEN Absorbed(tr.live[k], t) ELSE tr.live[k]]
        BY DEF Seen
    <2> HIDE DEF seen, a, s, L
    <2> QED BY <2>1, <2>2, <1>4
<1>7. kept = {k \in DOMAIN seen : ~ TooOld(seen[k], t)}
    OBVIOUS
<1>8. gone = {k \in DOMAIN seen \ kept : seen[k].ever}
    OBVIOUS
<1>9. \A k \in L : tr.live[k].ever <=> tr.live[k].hits >= MinHits
    BY DEF Sound
<1> HIDE DEF a, s, n, seen, kept, gone, u, L
<1>10. \A k \in Values(s) : seen[k] \in Track /\ seen[k].hits = 1 /\ ~ TooOld(seen[k], t)
                             /\ (seen[k].ever <=> seen[k].hits >= MinHits)
    <2> DEFINE r == Fresh(t)
    <2>1. r = [state |-> IF MinHits <= 1 THEN "confirmed" ELSE "tentative",
               hits |-> 1, last |-> t, ever |-> MinHits <= 1]
        BY DEF Fresh
    <2> HIDE DEF r
    <2>2. r.hits = 1 /\ r.last = t
        BY <2>1
    <2>3. r.ever = (MinHits <= 1)
        BY <2>1, Zenon
    <2>4. r \in Track
        BY <2>1, TrackerAssumption DEF Track
    <2>5. ~ TooOld(r, t) /\ (r.ever <=> r.hits >= MinHits)
        <3>1. ~ TooOld(r, t)
            BY <2>2, TrackerAssumption DEF TooOld
        <3>2. (MinHits <= 1) <=> r.hits >= MinHits
            BY <2>2, TrackerAssumption
        <3> QED BY <3>1, <3>2, <2>3, Zenon
    <2> QED BY <2>2, <2>4, <2>5, <1>6 DEF r
<1>11. \A k \in L \cap Values(a) :
          /\ seen[k] \in Track /\ seen[k].hits = tr.live[k].hits + 1 /\ ~ TooOld(seen[k], t)
          /\ seen[k].ever <=> seen[k].hits >= MinHits
    <2> SUFFICES ASSUME NEW k \in L \cap Values(a)
                 PROVE  /\ seen[k] \in Track /\ seen[k].hits = tr.live[k].hits + 1
                        /\ ~ TooOld(seen[k], t)
                        /\ seen[k].ever <=> seen[k].hits >= MinHits
        OBVIOUS
    <2>1. /\ seen[k] = Absorbed(tr.live[k], t) /\ tr.live[k] \in Track
          /\ tr.live[k].ever <=> tr.live[k].hits >= MinHits
        BY <1>2, <1>6, <1>9
    <2> DEFINE r == tr.live[k]
    <2>2. r \in Track /\ (r.ever <=> r.hits >= MinHits) /\ seen[k] = Absorbed(r, t)
        BY <2>1
    <2> HIDE DEF r
    <2>3. r.hits \in Nat /\ r.ever \in BOOLEAN
        BY <2>2 DEF Track
    <2>4. (r.ever \/ r.hits + 1 >= MinHits) <=> r.hits + 1 >= MinHits
        BY <2>2, <2>3, TrackerAssumption
    <2>5. seen[k] = [state |-> IF r.hits + 1 >= MinHits THEN "confirmed" ELSE "tentative",
                     hits |-> r.hits + 1, last |-> t, ever |-> r.hits + 1 >= MinHits]
        BY <2>2, <2>4 DEF Absorbed
    <2>6. seen[k].hits = r.hits + 1 /\ seen[k].last = t
              /\ (seen[k].ever <=> r.hits + 1 >= MinHits)
        <3> DEFINE q == seen[k]
        <3>1. q = [state |-> IF r.hits + 1 >= MinHits THEN "confirmed" ELSE "tentative",
                   hits |-> r.hits + 1, last |-> t, ever |-> r.hits + 1 >= MinHits]
            BY <2>5
        <3> HIDE DEF q
        <3>2. q.hits = r.hits + 1 /\ q.last = t
            BY <3>1
        <3>3. q.ever = (r.hits + 1 >= MinHits)
            BY <3>1, Zenon
        <3> QED BY <3>2, <3>3, Zenon DEF q
    <2>7. seen[k] \in Track
        BY <2>3, <2>5, TrackerAssumption DEF Track
    <2> QED BY <2>6, <2>7, TrackerAssumption DEF TooOld, r
<1>12. \A k \in L \ Values(a) : seen[k] \in Track /\ seen[k].hits = tr.live[k].hits
                             /\ (seen[k].ever <=> seen[k].hits >= MinHits)
    BY <1>2, <1>6, <1>9
<1>13. \A k \in DOMAIN seen : seen[k] \in Track /\ (seen[k].ever <=> seen[k].hits >= MinHits)
    BY <1>6, <1>10, <1>11, <1>12
<1>14. /\ u.next = tr.next + n /\ u.retired = tr.retired \cup gone
       /\ DOMAIN u.live = kept /\ \A k \in kept : u.live[k] = Aged(seen[k], t)
       /\ u.live = [k \in kept |-> Aged(seen[k], t)]
    BY <1>5
<1>15. \A k \in kept :
          /\ u.live[k] \in Track /\ u.live[k].hits = seen[k].hits
          /\ u.live[k].ever <=> seen[k].hits >= MinHits
    <2> SUFFICES ASSUME NEW k \in kept
                 PROVE  /\ u.live[k] \in Track /\ u.live[k].hits = seen[k].hits
                        /\ u.live[k].ever <=> seen[k].hits >= MinHits
        OBVIOUS
    <2>1. u.live[k] = Aged(seen[k], t) /\ seen[k] \in Track
              /\ (seen[k].ever <=> seen[k].hits >= MinHits)
        BY <1>7, <1>13, <1>14
    <2> DEFINE r == seen[k]
    <2>2. r \in Track /\ u.live[k] = Aged(r, t) /\ (r.ever <=> r.hits >= MinHits)
        BY <2>1
    <2> HIDE DEF r
    <2>3. Aged(r, t) \in Track /\ Aged(r, t).hits = r.hits /\ Aged(r, t).ever = r.ever
        BY <2>2 DEF Track, Aged
    <2> QED BY <2>2, <2>3 DEF r
<1>16. \A k \in DOMAIN seen : k \in Nat /\ k < tr.next + n
    <2> DEFINE m == tr.next + n
    <2>1. m \in Nat /\ tr.next <= m /\ \A k \in Values(s) : k \in Nat /\ k < m
        BY <1>4
    <2> HIDE DEF m
    <2>2. \A k \in L : k \in Nat /\ k < m
        BY <2>1, <1>1, <1>2, <1>3
    <2> QED BY <2>1, <2>2, <1>6 DEF m
<1>17. kept \subseteq DOMAIN seen /\ gone \subseteq DOMAIN seen /\ kept \cap gone = {}
    BY <1>7, <1>8
<1>18. u \in Tracker
    <2>1. u.live \in LiveTracks
        <3>1. kept \subseteq Nat
            BY <1>16, <1>17
        <3>2. u.live \in [kept -> Track]
            BY <1>14, <1>15
        <3> QED BY <3>1, <3>2, LiveTracksAre
    <2>2. u.retired \in SUBSET Nat
        BY <1>1, <1>14, <1>16, <1>17
    <2> QED BY <1>4, <1>5, <1>14, <2>1, <2>2 DEF Tracker
<1>19. Sound(u)
    <2>1. \A k \in DOMAIN u.live : k < u.next /\ (u.live[k].ever <=> u.live[k].hits >= MinHits)
        BY <1>14, <1>15, <1>16, <1>17
    <2>2. \A k \in u.retired : k < u.next
        <3>1. \A k \in tr.retired : k \in Nat /\ k < tr.next
            BY <1>1 DEF Sound
        <3> QED BY <3>1, <1>1, <1>4, <1>14, <1>16, <1>17
    <2>3. u.retired \cap DOMAIN u.live = {}
        <3>1. \A k \in tr.retired : k \in Nat /\ k < tr.next /\ k \notin L
            BY <1>1 DEF Sound, L
        <3>2. \A k \in tr.retired : k \notin DOMAIN seen
            BY <3>1, <1>1, <1>4, <1>6
        <3> QED BY <3>2, <1>14, <1>17
    <2> QED BY <2>1, <2>2, <2>3 DEF Sound
<1>20. Values(a) \subseteq DOMAIN u.live
    BY <1>4, <1>6, <1>7, <1>10, <1>11, <1>14
<1>21. \A k \in DOMAIN u.live :
          u.live[k].hits = HitsOf(tr, k) + IF k \in Values(a) THEN 1 ELSE 0
    <2> SUFFICES ASSUME NEW k \in DOMAIN u.live
                 PROVE  u.live[k].hits = HitsOf(tr, k) + IF k \in Values(a) THEN 1 ELSE 0
        OBVIOUS
    <2>1. u.live[k].hits = seen[k].hits /\ k \in DOMAIN seen
        BY <1>14, <1>15, <1>17
    <2>2. CASE k \in Values(s)
        BY <2>1, <2>2, <1>4, <1>6, <1>10 DEF HitsOf, L
    <2>3. CASE k \in L
        <3>1. HitsOf(tr, k) = tr.live[k].hits /\ tr.live[k].hits \in Nat
            BY <2>3, <1>2 DEF HitsOf, L, Track
        <3> QED BY <2>1, <2>3, <3>1, <1>11, <1>12
    <2> QED BY <2>1, <2>2, <2>3, <1>6
<1>22. \A k \in gone : k \in L /\ tr.live[k].hits >= MinHits
    BY <1>7, <1>8, <1>6, <1>10, <1>11, <1>12
<1>23. \A k \in L \ (kept \cup gone) : tr.live[k].hits < MinHits
    <2> SUFFICES ASSUME NEW k \in L \ (kept \cup gone)
                 PROVE  tr.live[k].hits < MinHits
        OBVIOUS
    <2>1. k \in DOMAIN seen /\ TooOld(seen[k], t) /\ ~ seen[k].ever
        BY <1>6, <1>7, <1>8
    <2>2. k \notin Values(a)
        BY <2>1, <1>11
    <2>3. tr.live[k] \in Track /\ ~ (tr.live[k].hits >= MinHits)
        BY <2>1, <2>2, <1>2, <1>12
    <2> QED BY <2>3, TrackerAssumption DEF Track
<1>24. Discarded(tr, t, a) \subseteq L \ (kept \cup u.retired)
    <2> SUFFICES ASSUME NEW k \in Discarded(tr, t, a)
                 PROVE  k \in L /\ k \notin kept /\ k \notin u.retired
        OBVIOUS
    <2>1. k \in L /\ k \notin Values(a) /\ TooOld(tr.live[k], t) /\ ~ tr.live[k].ever
        BY DEF Discarded, L
    <2>2. seen[k] = tr.live[k]
        BY <2>1, <1>6
    <2>3. k \notin tr.retired
        BY <2>1 DEF Sound, L
    <2> QED BY <2>1, <2>2, <2>3, <1>7, <1>8, <1>14
<1>25. /\ u \in Tracker /\ Sound(u)
       /\ u.next = tr.next + n
       /\ Values(a) \subseteq DOMAIN u.live
       /\ \A k \in DOMAIN u.live \ L : tr.next <= k
       /\ \A k \in DOMAIN u.live :
             u.live[k].hits = HitsOf(tr, k) + IF k \in Values(a) THEN 1 ELSE 0
       /\ \A k \in u.retired : k \in tr.retired \/ (k \in L /\ tr.live[k].hits >= MinHits)
       /\ tr.retired \subseteq u.retired
       /\ \A k \in L \ (DOMAIN u.live \cup u.retired) : tr.live[k].hits < MinHits
       /\ Discarded(tr, t, a) \subseteq L \ (DOMAIN u.live \cup u.retired)
    <2>1. \A k \in u.retired : k \in tr.retired \/ (k \in L /\ tr.live[k].hits >= MinHits)
        BY <1>14, <1>22
    <2>2. \A k \in L \ (DOMAIN u.live \cup u.retired) : tr.live[k].hits < MinHits
        BY <1>14, <1>23
    <2>3. Discarded(tr, t, a) \subseteq L \ (DOMAIN u.live \cup u.retired)
        BY <1>14, <1>24
    <2>4. tr.retired \subseteq u.retired
        BY <1>14
    <2>5. \A k \in DOMAIN u.live \ L : tr.next <= k
        BY <1>4, <1>6, <1>14, <1>17
    <2> QED BY <1>14, <1>18, <1>19, <1>20, <1>21, <2>1, <2>2, <2>3, <2>4, <2>5, Zenon
<1> QED BY <1>25 DEF a, s, n, u, L

-----------------------------------------------------------------------------
(* The steps, told by what they do to the state the invariants speak of.   *)

\* A sample of frame f holds these boxes more: all of the worker's slot, no two of one
\* track or with one index.
Sampled(f, held) ==
    /\ ReadyForNext
    /\ f \in FrameNumbers /\ f \in Nat /\ OnGrid(f)
    /\ \A g \in FrameNumbers : OnGrid(g) => f <= g
    /\ worker' \in Worker
    /\ worker'.step = "sampled" /\ worker'.frame = f + 1 /\ worker'.lastMs = TimeOf(f)
    /\ worker'.startMs = worker.startMs
    /\ worker'.slot = IF TimeOf(f) \div SlotMs + 1 > worker.slot + 1
                      THEN TimeOf(f) \div SlotMs + 1 ELSE worker.slot + 1
    /\ worker'.decoded = worker.decoded + 1
    /\ worker'.pending = worker.pending \cup held
    /\ worker'.ids = worker.ids
    /\ IsFiniteSet(held) /\ held \subseteq PendingBox
    /\ \A b \in held : /\ b.slot = worker.slot /\ b.t = TimeOf(f)
                       /\ b.key < worker'.tracker.next
    /\ \A b, c \in held : b.key = c.key \/ b.det = c.det => b = c
    /\ worker.tracker.next <= worker'.tracker.next
    /\ Sound(worker'.tracker)

\* What a sample does to the tracks' hits.
Counted(held) ==
    LET old == worker.tracker
        new == worker'.tracker
        keys == {b.key : b \in held}
    IN  /\ keys \subseteq DOMAIN new.live
        /\ \A k \in DOMAIN new.live \ DOMAIN old.live : old.next <= k
        /\ \A k \in DOMAIN new.live :
              new.live[k].hits = HitsOf(old, k) + IF k \in keys THEN 1 ELSE 0
        /\ \A k \in new.retired :
              k \in old.retired \/ (k \in DOMAIN old.live /\ old.live[k].hits >= MinHits)
        /\ old.retired \subseteq new.retired
        /\ \A k \in DOMAIN old.live \ (DOMAIN new.live \cup new.retired) :
              old.live[k].hits < MinHits
        /\ worker'.discarded \cap (DOMAIN new.live \cup new.retired) = {}

LEMMA SampleIs ==
    ASSUME TypeInv, SampleFrame
    PROVE  \E f, held : Sampled(f, held) /\ Counted(held)
<1> DEFINE tr == worker.tracker
<1>0. Sound(tr)
    BY DEF TypeInv, TrackerHolds
<1>1. PICK f \in FrameNumbers :
         /\ OnGrid(f) /\ \A g \in FrameNumbers : OnGrid(g) => f <= g
         /\ \E first \in FirstPass(worker.tracker, video[f]) :
            \E second \in SecondPass(worker.tracker, video[f], first) :
               LET t == TimeOf(f)
                   keys == Assigned(worker.tracker, video[f], first, second)
                   held == {[slot |-> worker.slot, det |-> i, t |-> t, key |-> keys[i],
                             passes |-> video[f][i].passes] : i \in DOMAIN keys}
                   next == worker.slot + 1
               IN  worker' = [worker EXCEPT
                       !.step = "sampled", !.frame = f + 1, !.lastMs = t,
                       !.slot = IF t \div SlotMs + 1 > next THEN t \div SlotMs + 1 ELSE next,
                       !.decoded = @ + 1, !.counted = @ + Cardinality(held),
                       !.pending = @ \cup held,
                       !.tracker = Updated(@, t, video[f], first, second),
                       !.discarded = Discarded(worker.tracker, t, keys)]
    BY Zenon DEF SampleFrame
<1> DEFINE t == TimeOf(f)
           b == video[f]
<1>2. PICK first \in FirstPass(tr, b) :
         \E second \in SecondPass(tr, b, first) :
            LET keys == Assigned(tr, b, first, second)
                held == {[slot |-> worker.slot, det |-> i, t |-> t, key |-> keys[i],
                          passes |-> b[i].passes] : i \in DOMAIN keys}
                next == worker.slot + 1
            IN  worker' = [worker EXCEPT
                    !.step = "sampled", !.frame = f + 1, !.lastMs = t,
                    !.slot = IF t \div SlotMs + 1 > next THEN t \div SlotMs + 1 ELSE next,
                    !.decoded = @ + 1, !.counted = @ + Cardinality(held),
                    !.pending = @ \cup held,
                    !.tracker = Updated(@, t, b, first, second),
                    !.discarded = Discarded(tr, t, keys)]
    BY <1>1, Zenon
<1>3. PICK second \in SecondPass(tr, b, first) :
            LET keys == Assigned(tr, b, first, second)
                held == {[slot |-> worker.slot, det |-> i, t |-> t, key |-> keys[i],
                          passes |-> b[i].passes] : i \in DOMAIN keys}
                next == worker.slot + 1
            IN  worker' = [worker EXCEPT
                    !.step = "sampled", !.frame = f + 1, !.lastMs = t,
                    !.slot = IF t \div SlotMs + 1 > next THEN t \div SlotMs + 1 ELSE next,
                    !.decoded = @ + 1, !.counted = @ + Cardinality(held),
                    !.pending = @ \cup held,
                    !.tracker = Updated(@, t, b, first, second),
                    !.discarded = Discarded(tr, t, keys)]
    BY <1>2, Zenon
<1> DEFINE keys == Assigned(tr, b, first, second)
           held == {[slot |-> worker.slot, det |-> i, t |-> t, key |-> keys[i],
                     passes |-> b[i].passes] : i \in DOMAIN keys}
           u == Updated(tr, t, b, first, second)
           D == Discarded(tr, t, keys)
           slot == IF t \div SlotMs + 1 > worker.slot + 1 THEN t \div SlotMs + 1
                   ELSE worker.slot + 1
<1>4. worker' = [worker EXCEPT
         !.step = "sampled", !.frame = f + 1, !.lastMs = t, !.slot = slot,
         !.decoded = worker.decoded + 1, !.counted = worker.counted + Cardinality(held),
         !.pending = worker.pending \cup held, !.tracker = u, !.discarded = D]
    BY <1>3, Zenon
<1>5. f \in Nat /\ Boxes(b) /\ t \in Nat
    BY VideosAssumption, GridAssumption DEF TypeInv, TypeOK, FrameNumbers, Boxes, TimeOf
<1>6. worker \in Worker /\ tr \in Tracker /\ IsFiniteSet(worker.pending)
    BY DEF TypeInv, WorkerHolds, Worker
<1>7. /\ DOMAIN keys \subseteq DOMAIN b
      /\ \A i \in DOMAIN keys : keys[i] \in Nat /\ keys[i] < u.next
      /\ \A i, j \in DOMAIN keys : keys[i] = keys[j] => i = j
      /\ tr.next <= u.next
    <2>1. /\ DOMAIN keys \subseteq DOMAIN b
          /\ tr.next <= tr.next + Cardinality(DOMAIN Started(tr, b, first))
          /\ \A i \in DOMAIN keys :
                keys[i] \in Nat /\ keys[i] < tr.next + Cardinality(DOMAIN Started(tr, b, first))
          /\ \A i, j \in DOMAIN keys : keys[i] = keys[j] => i = j
        <3>1. \A k \in DOMAIN tr.live : k < tr.next
            BY <1>0 DEF Sound
        <3> QED BY <1>5, <1>6, <3>1, AssignedAre
    <2>2. u.next = tr.next + Cardinality(DOMAIN Started(tr, b, first))
        BY <1>0, <1>5, <1>6, UpdatedAre
    <2> HIDE DEF keys, u
    <2> QED BY <2>1, <2>2
<1>8. /\ u \in Tracker /\ Sound(u)
      /\ Values(keys) \subseteq DOMAIN u.live
      /\ \A k \in DOMAIN u.live \ DOMAIN tr.live : tr.next <= k
      /\ \A k \in DOMAIN u.live :
            u.live[k].hits = HitsOf(tr, k) + IF k \in Values(keys) THEN 1 ELSE 0
      /\ \A k \in u.retired : \/ k \in tr.retired
                              \/ k \in DOMAIN tr.live /\ tr.live[k].hits >= MinHits
      /\ tr.retired \subseteq u.retired
      /\ \A k \in DOMAIN tr.live \ (DOMAIN u.live \cup u.retired) :
            tr.live[k].hits < MinHits
      /\ D \subseteq DOMAIN tr.live \ (DOMAIN u.live \cup u.retired)
    BY <1>0, <1>5, <1>6, UpdatedAre
<1>9. D \subseteq Nat /\ slot \in Nat
    <2>1. D \subseteq DOMAIN tr.live /\ DOMAIN tr.live \subseteq Nat
        BY <1>6, <1>8, LiveTracksAre DEF Tracker
    <2>2. worker.slot \in Nat /\ t \div SlotMs \in Nat
        BY <1>5, <1>6, GridAssumption DEF Worker
    <2> QED BY <2>1, <2>2
<1> HIDE DEF keys, u, D, slot, t, b, tr
<1>10. IsFiniteSet(held) /\ held \subseteq PendingBox
    <2>1. IsFiniteSet(DOMAIN keys)
        BY <1>5, <1>7, FS_Subset DEF Boxes
    <2>2. IsFiniteSet(held)
        <3> DEFINE op(i) == [slot |-> worker.slot, det |-> i, t |-> t, key |-> keys[i],
                             passes |-> b[i].passes]
               g == [i \in DOMAIN keys |-> op(i)]
        <3>1. held = Values(g) /\ DOMAIN g = DOMAIN keys
            BY DEF Values
        <3> HIDE DEF g, held
        <3> QED BY <2>1, <3>1, ImagesAreFinite
    <2>3. held \subseteq PendingBox
        <3> SUFFICES ASSUME NEW i \in DOMAIN keys
                     PROVE  [slot |-> worker.slot, det |-> i, t |-> t, key |-> keys[i],
                             passes |-> b[i].passes] \in PendingBox
            OBVIOUS
        <3>1. i \in Nat /\ b[i].passes \in BOOLEAN /\ keys[i] \in Nat
            BY <1>5, <1>7 DEF Boxes, Box
        <3>2. worker.slot \in Nat
            BY <1>6 DEF Worker
        <3> QED BY <3>1, <3>2, <1>5 DEF PendingBox
    <2> QED BY <2>2, <2>3
<1>11. /\ \A c \in held : c.slot = worker.slot /\ c.t = t /\ c.key < u.next
       /\ \A c, d \in held : c.key = d.key \/ c.det = d.det => c = d
    <2> DEFINE op(i) == [slot |-> worker.slot, det |-> i, t |-> t, key |-> keys[i],
                         passes |-> b[i].passes]
    <2>1. \A i \in DOMAIN keys : /\ op(i).slot = worker.slot /\ op(i).t = t
                                /\ op(i).key = keys[i] /\ op(i).det = i
        OBVIOUS
    <2>2. held = {op(i) : i \in DOMAIN keys}
        OBVIOUS
    <2> HIDE DEF op, held
    <2>3. \A c \in held : c.slot = worker.slot /\ c.t = t /\ c.key < u.next
        BY <1>7, <2>1, <2>2
    <2>4. ASSUME NEW c \in held, NEW d \in held, c.key = d.key \/ c.det = d.det
          PROVE c = d
        <3>1. PICK i \in DOMAIN keys : c = op(i)
            BY <2>2
        <3>2. PICK j \in DOMAIN keys : d = op(j)
            BY <2>2
        <3>3. i = j
            BY <3>1, <3>2, <2>1, <2>4, <1>7
        <3> QED BY <3>1, <3>2, <3>3
    <2> QED BY <2>3, <2>4
<1>12. Values(keys) = {c.key : c \in held}
    <2> DEFINE op(i) == [slot |-> worker.slot, det |-> i, t |-> t, key |-> keys[i],
                         passes |-> b[i].passes]
    <2>1. \A i \in DOMAIN keys : op(i).key = keys[i]
        OBVIOUS
    <2>2. held = {op(i) : i \in DOMAIN keys}
        OBVIOUS
    <2> HIDE DEF op, held
    <2> QED BY <2>1, <2>2 DEF Values
<1>13. Cardinality(held) \in Nat
    BY <1>10, FS_CardinalityType
<1> HIDE DEF held
<1>14. /\ worker' \in Worker
       /\ worker'.step = "sampled" /\ worker'.frame = f + 1 /\ worker'.lastMs = t
       /\ worker'.startMs = worker.startMs /\ worker'.slot = slot
       /\ worker'.decoded = worker.decoded + 1 /\ worker'.pending = worker.pending \cup held
       /\ worker'.ids = worker.ids /\ worker'.tracker = u /\ worker'.discarded = D
    <2>1. /\ worker'.step = "sampled" /\ worker'.frame = f + 1 /\ worker'.lastMs = t
          /\ worker'.startMs = worker.startMs /\ worker'.slot = slot
          /\ worker'.decoded = worker.decoded + 1
          /\ worker'.pending = worker.pending \cup held
          /\ worker'.ids = worker.ids /\ worker'.tracker = u /\ worker'.discarded = D
        BY <1>4, <1>6 DEF Worker
    <2>2. worker' \in Worker
        <3>1. /\ f + 1 \in Nat /\ t \in Nat /\ slot \in Nat /\ worker.decoded + 1 \in Nat
              /\ worker.counted + Cardinality(held) \in Nat
              /\ worker.pending \cup held \in SUBSET PendingBox
              /\ u \in Tracker /\ D \in SUBSET Nat
            BY <1>5, <1>6, <1>8, <1>9, <1>10, <1>13 DEF Worker
        <3> DEFINE decoded == worker.decoded + 1
                   counted == worker.counted + Cardinality(held)
                   pending == worker.pending \cup held
                   frame == f + 1
        <3>2. /\ worker' = [worker EXCEPT
                    !.step = "sampled", !.frame = frame, !.lastMs = t, !.slot = slot,
                    !.decoded = decoded, !.counted = counted,
                    !.pending = pending, !.tracker = u, !.discarded = D]
              /\ frame \in Nat /\ decoded \in Nat /\ counted \in Nat
              /\ pending \in SUBSET PendingBox
            BY <1>4, <3>1
        <3> HIDE DEF decoded, counted, pending, frame
        <3> QED BY <1>6, <3>1, <3>2 DEF Worker
    <2> QED BY <2>1, <2>2
<1>15. Sampled(f, held)
    <2>1. ReadyForNext
        BY DEF SampleFrame
    <2> QED BY <2>1, <1>1, <1>5, <1>7, <1>8, <1>10, <1>11, <1>14 DEF Sampled, t, slot, tr
<1>16. Counted(held)
    <2>1. \A k \in u.retired : k \in tr.retired
                               \/ (k \in DOMAIN tr.live /\ tr.live[k].hits >= MinHits)
        BY <1>8
    <2>2. D \cap (DOMAIN u.live \cup u.retired) = {}
        BY <1>8
    <2> QED BY <2>1, <2>2, <1>8, <1>12, <1>14 DEF Counted, tr
<1> QED BY <1>15, <1>16

\* The rows of pending tracks are numbered from made on, each its own.
LEMMA IdsAfterAre ==
    ASSUME TypeInv
    PROVE  /\ Cardinality(NewKeys) \in Nat /\ IsFiniteSet(NewKeys)
           /\ NewKeys = {b.key : b \in worker.pending} \ DOMAIN worker.ids
           /\ IdsAfter \in Numberings
           /\ DOMAIN IdsAfter = DOMAIN worker.ids \cup {b.key : b \in worker.pending}
           /\ \A k \in DOMAIN worker.ids : IdsAfter[k] = worker.ids[k]
           /\ \A k \in NewKeys : IdsAfter[k] \in (made + 1)..(made + Cardinality(NewKeys))
           /\ \A j, k \in NewKeys : IdsAfter[j] = IdsAfter[k] => j = k
<1> DEFINE P == {b.key : b \in worker.pending}
           I == worker.ids
           K == NewKeys
           n == Cardinality(K)
           c(k) == Cardinality({j \in K : j <= k})
<1>1. worker.pending \subseteq PendingBox /\ IsFiniteSet(worker.pending) /\ made \in Nat
      /\ I \in Numberings
    BY DEF TypeInv, TypeOK, WorkerHolds, Worker
<1>2. P \subseteq Nat
    BY <1>1 DEF PendingBox
<1>3. IsFiniteSet(P)
    <2> DEFINE g == [b \in worker.pending |-> b.key]
    <2>1. P = Values(g) /\ DOMAIN g = worker.pending
        BY DEF Values
    <2> HIDE DEF g, P
    <2> QED BY <1>1, <2>1, ImagesAreFinite
<1>4. K = P \ DOMAIN I
    BY DEF NewKeys
<1>5. DOMAIN I \subseteq Nat /\ I \in [DOMAIN I -> Nat]
    BY <1>1, NumberingsAre
<1>6. IdsAfter = [k \in DOMAIN I \cup K |-> IF k \in K THEN made + c(k) ELSE I[k]]
    BY DEF IdsAfter
<1> HIDE DEF K, P
<1>7. IsFiniteSet(K) /\ K \subseteq Nat
    <2>1. K \subseteq P
        BY <1>4
    <2> QED BY <2>1, <1>2, <1>3, FS_Subset
<1>8. /\ n \in Nat
      /\ \A k \in K : c(k) \in 1..n
      /\ \A j, k \in K : c(j) = c(k) => j = k
    BY <1>7, RanksFromOne
<1> HIDE DEF c, n, I
<1>9. /\ DOMAIN IdsAfter = DOMAIN I \cup P
      /\ \A k \in DOMAIN I : IdsAfter[k] = I[k]
      /\ \A k \in K : IdsAfter[k] = made + c(k)
    BY <1>4, <1>6
<1>10. \A k \in K : IdsAfter[k] \in (made + 1)..(made + n)
    BY <1>1, <1>8, <1>9
<1>11. ASSUME NEW j \in K, NEW k \in K, IdsAfter[j] = IdsAfter[k]
       PROVE j = k
    <2>1. made \in Int /\ c(j) \in Int /\ c(k) \in Int /\ made + c(j) = made + c(k)
        BY <1>1, <1>8, <1>9, <1>11
    <2>2. c(j) = c(k)
        BY <2>1
    <2> QED BY <2>2, <1>8
<1>12. IdsAfter \in Numberings
    <2>1. \A k \in DOMAIN I \cup P : k \in Nat /\ IdsAfter[k] \in Nat
        <3>1. \A k \in (made + 1)..(made + n) : k \in Nat
            BY <1>1, <1>8
        <3>2. \A k \in K : IdsAfter[k] \in Nat
            BY <1>10, <3>1
        <3> QED BY <3>2, <1>2, <1>4, <1>5, <1>9
    <2>2. DOMAIN I \cup K = DOMAIN I \cup P
        BY <1>4
    <2>3. IdsAfter \in [DOMAIN I \cup P -> Nat]
        BY <2>1, <2>2, <1>6
    <2> QED BY <2>1, <2>3, NumberingsAre
<1> QED BY <1>7, <1>4, <1>8, <1>9, <1>10, <1>11, <1>12 DEF K, P, n, I

\* What a commit of the pending boxes does.
Committed(next) ==
    /\ worker' \in Worker
    /\ worker'.step = next /\ worker'.pending = {} /\ worker'.ids = IdsAfter
    /\ worker'.frame = worker.frame /\ worker'.slot = worker.slot
    /\ worker'.startMs = worker.startMs /\ worker'.lastMs = worker.lastMs
    /\ worker'.decoded = worker.decoded /\ worker'.tracker = worker.tracker
    /\ worker'.discarded = worker.discarded
    /\ DOMAIN detections' = DOMAIN detections
                               \cup {<<b.slot, b.det>> : b \in worker.pending}
    /\ IsFiniteSet(DOMAIN detections') /\ DOMAIN detections' \subseteq Nat \X Nat
    /\ \A d \in DOMAIN detections : detections'[d] = detections[d]
    /\ \A d \in DOMAIN detections' \ DOMAIN detections :
          \E b \in worker.pending :
             /\ d = <<b.slot, b.det>>
             /\ b.key \in DOMAIN IdsAfter
             /\ detections'[d] = [track |-> IdsAfter[b.key], t |-> b.t, passes |-> b.passes]

LEMMA CommitIs ==
    ASSUME TypeInv, NEW next \in {"committed", "ready"}, CommitBatch(next)
    PROVE  Committed(next)
<1> DEFINE written == {b \in worker.pending : OrIgnore(<<b.slot, b.det>>)}
           box(d) == CHOOSE b \in written : <<b.slot, b.det>> = d
           new == {<<b.slot, b.det>> : b \in written}
           all == {<<b.slot, b.det>> : b \in worker.pending}
           D == DOMAIN detections
<1>1. worker \in Worker /\ worker.pending \subseteq PendingBox /\ IsFiniteSet(worker.pending)
      /\ IsFiniteSet(D) /\ D \subseteq Nat \X Nat
    BY DEF TypeInv, WorkerHolds, Worker
<1>2. /\ detections' = [d \in D \cup new |->
              IF d \in new THEN [track |-> IdsAfter[box(d).key], t |-> box(d).t,
                                 passes |-> box(d).passes]
              ELSE detections[d]]
      /\ worker' = [worker EXCEPT !.step = next, !.pending = {}, !.ids = IdsAfter]
    BY DEF CommitBatch
<1>3. new \cap D = {} /\ D \cup new = D \cup all
    BY DEF OrIgnore
<1>4. \A d \in new : box(d) \in written /\ <<box(d).slot, box(d).det>> = d
    <2> SUFFICES ASSUME NEW d \in new
                 PROVE  box(d) \in written /\ <<box(d).slot, box(d).det>> = d
        OBVIOUS
    <2>1. \E b \in written : <<b.slot, b.det>> = d
        OBVIOUS
    <2> HIDE DEF written
    <2> QED BY <2>1
<1>5. IsFiniteSet(D \cup all) /\ all \subseteq Nat \X Nat
    <2> DEFINE g == [b \in worker.pending |-> <<b.slot, b.det>>]
    <2>1. all = Values(g) /\ DOMAIN g = worker.pending
        BY DEF Values
    <2> HIDE DEF g
    <2>2. IsFiniteSet(all)
        <3> HIDE DEF all
        <3> QED BY <1>1, <2>1, ImagesAreFinite
    <2>3. all \subseteq Nat \X Nat
        BY <1>1 DEF PendingBox
    <2> HIDE DEF all, D
    <2> QED BY <2>2, <2>3, <1>1, FS_Union
<1>6. \A b \in written : b \in worker.pending
    OBVIOUS
<1> HIDE DEF written, box, new, all, D
<1>7. /\ DOMAIN detections' = D \cup all
      /\ \A d \in D : detections'[d] = detections[d]
      /\ \A d \in new : detections'[d] = [track |-> IdsAfter[box(d).key], t |-> box(d).t,
                                          passes |-> box(d).passes]
    BY <1>2, <1>3
<1>8. ASSUME NEW d \in DOMAIN detections' \ D
      PROVE  \E b \in worker.pending :
                /\ d = <<b.slot, b.det>>
                /\ b.key \in DOMAIN IdsAfter
                /\ detections'[d] = [track |-> IdsAfter[b.key], t |-> b.t, passes |-> b.passes]
    <2>1. d \in new
        BY <1>3, <1>7
    <2>2. box(d) \in worker.pending /\ <<box(d).slot, box(d).det>> = d
        BY <2>1, <1>4, <1>6
    <2>3. box(d).key \in DOMAIN IdsAfter
        BY <2>2, IdsAfterAre
    <2> QED BY <2>1, <2>2, <2>3, <1>7
<1>9. /\ worker'.step = next /\ worker'.pending = {} /\ worker'.ids = IdsAfter
      /\ worker'.frame = worker.frame /\ worker'.slot = worker.slot
      /\ worker'.startMs = worker.startMs /\ worker'.lastMs = worker.lastMs
      /\ worker'.decoded = worker.decoded /\ worker'.tracker = worker.tracker
      /\ worker'.discarded = worker.discarded
    BY <1>1, <1>2 DEF Worker
<1>10. worker' \in Worker
    BY <1>1, <1>2, IdsAfterAre DEF Worker
<1> QED BY <1>1, <1>5, <1>7, <1>8, <1>9, <1>10 DEF Committed, D, all

\* Tracks are dropped only when nothing refers to them, and take no row along.
Dropped(ids) ==
    /\ ~ Referred(ids)
    /\ tracks' = tracks \ ids
    /\ detections' = Untracked(ids)

LEMMA DroppedIs ==
    ASSUME TypeInv, NEW ids, Dropped(ids)
    PROVE  /\ DOMAIN detections' = DOMAIN detections
           /\ \A d \in DOMAIN detections :
                 /\ detections'[d] \in Detection
                 /\ detections'[d] \in {detections[d], [detections[d] EXCEPT !.track = 0]}
                 /\ detections'[d].t = detections[d].t
                 /\ detections'[d].passes = detections[d].passes
                 /\ detections'[d].track = IF detections[d].track \in ids THEN 0
                                           ELSE detections[d].track
           /\ \A id \in tracks' : DetectionsOf(id)' = DetectionsOf(id)
                                 /\ (HasMean(id)' <=> HasMean(id))
<1> DEFINE D == DOMAIN detections
<1>1. detections' = [d \in D |-> IF detections[d].track \in ids
                                 THEN [detections[d] EXCEPT !.track = 0] ELSE detections[d]]
    BY DEF Dropped, Untracked
<1>2. \A d \in D : detections[d] \in Detection
    BY DEF TypeInv, TypeOK
<1>3. DOMAIN detections' = D
    BY <1>1
<1>4. ASSUME NEW d \in D
      PROVE  /\ detections'[d] \in Detection
             /\ detections'[d] \in {detections[d], [detections[d] EXCEPT !.track = 0]}
             /\ detections'[d].t = detections[d].t
             /\ detections'[d].passes = detections[d].passes
             /\ detections'[d].track = IF detections[d].track \in ids THEN 0
                                       ELSE detections[d].track
    <2>1. detections'[d] = IF detections[d].track \in ids
                           THEN [detections[d] EXCEPT !.track = 0] ELSE detections[d]
        BY <1>1
    <2> QED BY <1>2, <2>1 DEF Detection
<1>5. ASSUME NEW id \in tracks'
      PROVE  DetectionsOf(id)' = DetectionsOf(id) /\ (HasMean(id)' <=> HasMean(id))
    <2>1. id \in tracks /\ id \notin ids /\ id # 0
        BY <1>5 DEF Dropped, TypeInv, TypeOK
    <2>2. \A d \in D : detections'[d].track = id <=> detections[d].track = id
        BY <1>4, <2>1
    <2>3. DetectionsOf(id)' = DetectionsOf(id)
        BY <1>3, <2>2 DEF DetectionsOf
    <2>4. \A d \in DetectionsOf(id) : detections'[d].passes = detections[d].passes
        BY <1>4 DEF DetectionsOf
    <2> QED BY <2>3, <2>4 DEF HasMean
<1> QED BY <1>3, <1>4, <1>5 DEF D

\* Discarding one track of the tracker drops its row when it has one.
Unwound(k, ids) ==
    /\ Dropped(ids)
    /\ worker.step = "sampled" /\ k \in worker.discarded
    /\ ids = {worker.ids[i] : i \in DOMAIN worker.ids \cap {k}}
    /\ worker' \in Worker
    /\ DOMAIN worker'.ids = DOMAIN worker.ids \ {k}
    /\ \A i \in DOMAIN worker'.ids : worker'.ids[i] = worker.ids[i]
    /\ worker'.step = worker.step /\ worker'.pending = worker.pending
    /\ worker'.frame = worker.frame /\ worker'.slot = worker.slot
    /\ worker'.startMs = worker.startMs /\ worker'.lastMs = worker.lastMs
    /\ worker'.decoded = worker.decoded /\ worker'.tracker = worker.tracker
    /\ worker'.discarded = worker.discarded \ {k}

LEMMA UnwindIs ==
    ASSUME TypeInv, NEW k, Unwind(k)
    PROVE  \E ids : Unwound(k, ids)
<1> DEFINE I == worker.ids
           written == {I[i] : i \in DOMAIN I \cap {k}}
           J == [i \in DOMAIN I \ {k} |-> I[i]]
<1>1. worker \in Worker
    BY DEF TypeInv, WorkerHolds
<1>2. I \in Numberings
    BY <1>1 DEF Worker
<1>3. J \in Numberings
    <2>1. DOMAIN I \subseteq Nat /\ I \in [DOMAIN I -> Nat]
        BY <1>2, NumberingsAre
    <2>2. J \in [DOMAIN I \ {k} -> Nat] /\ DOMAIN I \ {k} \subseteq Nat
        BY <2>1
    <2> HIDE DEF J, I
    <2> QED BY <2>2, NumberingsAre
<1>4. /\ worker.step = "sampled" /\ k \in worker.discarded /\ Dropped(written)
      /\ worker' = [worker EXCEPT !.discarded = worker.discarded \ {k}, !.ids = J]
    BY DEF Unwind, Dropped
<1>5. worker.discarded \ {k} \in SUBSET Nat
    BY <1>1 DEF Worker
<1>6. DOMAIN J = DOMAIN I \ {k} /\ \A i \in DOMAIN J : J[i] = I[i]
    OBVIOUS
<1> HIDE DEF J
<1>7. /\ worker' \in Worker /\ worker'.ids = J
      /\ worker'.step = worker.step /\ worker'.pending = worker.pending
      /\ worker'.frame = worker.frame /\ worker'.slot = worker.slot
      /\ worker'.startMs = worker.startMs /\ worker'.lastMs = worker.lastMs
      /\ worker'.decoded = worker.decoded /\ worker'.tracker = worker.tracker
      /\ worker'.discarded = worker.discarded \ {k}
    BY <1>1, <1>3, <1>4, <1>5 DEF Worker
<1> QED BY <1>4, <1>6, <1>7 DEF Unwound

\* Idle, failing or down, the worker holds nothing.
LEMMA IdleIs ==
    \A s \in {"idle", "failing", "down"} :
        LET w == [Idle EXCEPT !.step = s]
        IN  /\ w \in Worker /\ w.step = s /\ w.pending = {} /\ w.discarded = {}
            /\ DOMAIN w.ids = {} /\ DOMAIN w.tracker.live = {}
            /\ w.tracker.retired = {} /\ w.tracker.next = 1 /\ w.frame = 0
            /\ w.slot = 0 /\ w.startMs = 0 /\ w.decoded = 0
            /\ Idle \in Worker /\ NewTracker \in Tracker
<1> DEFINE E == [k \in {} |-> 0]
<1>1. E \in Numberings /\ E \in LiveTracks /\ DOMAIN E = {}
    <2>1. E \in [{} -> Nat] /\ E \in [{} -> Track] /\ {} \subseteq Nat
        OBVIOUS
    <2> HIDE DEF E
    <2> QED BY <2>1, NumberingsAre, LiveTracksAre
<1>2. NewTracker = [live |-> E, next |-> 1, retired |-> {}]
    BY DEF NewTracker
<1>3. Idle = [step |-> "idle", frame |-> 0, slot |-> 0, startMs |-> 0, lastMs |-> 0,
              decoded |-> 0, counted |-> 0, pending |-> {}, tracker |-> NewTracker,
              ids |-> E, discarded |-> {}]
    BY DEF Idle
<1> HIDE DEF E
<1>4. NewTracker \in Tracker /\ NewTracker.live = E /\ NewTracker.retired = {}
      /\ NewTracker.next = 1
    BY <1>1, <1>2 DEF Tracker
<1>5. Idle \in Worker
    BY <1>1, <1>3, <1>4 DEF Worker
<1> QED BY <1>1, <1>3, <1>4, <1>5 DEF Worker

LEMMA LetGo ==
    ASSUME \/ worker' = Idle
           \/ worker' = [Idle EXCEPT !.step = "failing"]
           \/ worker' = [Idle EXCEPT !.step = "down"]
    PROVE  /\ worker' \in Worker /\ worker'.step \in {"idle", "failing", "down"}
           /\ worker' = Idle => worker'.step = "idle"
           /\ worker' = [Idle EXCEPT !.step = "failing"] => worker'.step = "failing"
           /\ worker' = [Idle EXCEPT !.step = "down"] => worker'.step = "down"
           /\ worker'.pending = {} /\ DOMAIN worker'.ids = {}
           /\ DOMAIN worker'.tracker.live = {} /\ worker'.tracker.retired = {}
<1>1. Idle \in Worker /\ Idle.step = "idle" /\ [Idle EXCEPT !.step = "idle"] = Idle
    <2>1. Idle \in Worker
        BY IdleIs
    <2>2. Idle.step = "idle"
        BY DEF Idle
    <2> QED BY <2>1, <2>2 DEF Worker
<1> QED BY <1>1, IdleIs

\* Between two steps of its own the worker only moves on.
LEMMA MovedIs ==
    ASSUME TypeInv, NEW s \in {"ready", "swept", "matching", "finishing", "marking"},
           worker' = [worker EXCEPT !.step = s]
    PROVE  /\ worker' \in Worker /\ worker'.step = s
           /\ worker'.frame = worker.frame /\ worker'.slot = worker.slot
           /\ worker'.startMs = worker.startMs /\ worker'.lastMs = worker.lastMs
           /\ worker'.decoded = worker.decoded /\ worker'.counted = worker.counted
           /\ worker'.pending = worker.pending /\ worker'.tracker = worker.tracker
           /\ worker'.ids = worker.ids /\ worker'.discarded = worker.discarded
<1>1. worker \in Worker
    BY DEF TypeInv, WorkerHolds
<1> QED BY <1>1 DEF Worker

\* A claimed job resumes behind its checkpoint with a new tracker.
LEMMA BeginIs ==
    ASSUME TypeInv, Begin
    PROVE  /\ worker' \in Worker
           /\ worker'.step = "ready" /\ worker'.frame = 0
           /\ worker'.startMs = ResumeMs(job.progress)
           /\ worker'.slot = ResumeMs(job.progress) \div SlotMs
           /\ worker'.decoded = job.progress.decoded
           /\ worker'.pending = {} /\ worker'.discarded = {} /\ DOMAIN worker'.ids = {}
           /\ DOMAIN worker'.tracker.live = {} /\ worker'.tracker.retired = {}
           /\ job \in Jobs /\ ResumeMs(job.progress) \in Nat
<1> DEFINE ms == ResumeMs(job.progress)
           slot == ms \div SlotMs
           decoded == job.progress.decoded
           counted == job.progress.counted
<1>1. job \in Jobs /\ job.progress \in Progress
    BY DEF TypeInv, WorkerHolds, Jobs
<1>2. ms \in Nat /\ decoded \in Nat /\ counted \in Nat
    BY <1>1 DEF ResumeMs, Progress
<1>3. slot \in Nat
    BY <1>2, GridAssumption
<1>4. worker' = [Idle EXCEPT !.step = "ready", !.startMs = ms, !.lastMs = ms, !.slot = slot,
                             !.decoded = decoded, !.counted = counted]
    BY DEF Begin
<1>5. Idle \in Worker
    BY IdleIs
<1>6. /\ Idle.frame = 0 /\ Idle.pending = {} /\ Idle.discarded = {} /\ DOMAIN Idle.ids = {}
      /\ DOMAIN Idle.tracker.live = {} /\ Idle.tracker.retired = {}
    BY DEF Idle, NewTracker
<1> HIDE DEF ms, slot, decoded, counted
<1> QED BY <1>1, <1>2, <1>3, <1>4, <1>5, <1>6 DEF Worker, ms, slot, decoded

-----------------------------------------------------------------------------
(* Types.                                                                   *)

LEMMA TypeInit == Init => TypeInv
<1> SUFFICES ASSUME Init PROVE TypeInv
    OBVIOUS
<1>1. worker = Idle /\ worker.step = "idle" /\ worker.pending = {} /\ DOMAIN worker.ids = {}
      /\ DOMAIN worker.tracker.live = {}
    BY DEF Init, Idle, NewTracker
<1>2. worker \in Worker
    BY <1>1, IdleIs
<1>3. job.number = 1 /\ job.status = "queued" /\ job.progress = NoProgress
      /\ NoProgress \in Progress /\ 1 \in 1..MaxRuns
    BY BoundsAssumption DEF Init, NoProgress, Progress
<1>4. job \in Jobs
    BY <1>3, BoundsAssumption DEF Init, Jobs
<1>5. DOMAIN detections = {} /\ IsFiniteSet({})
    BY FS_EmptySet DEF Init
<1>6. WorkerHolds
    BY <1>1, <1>2, <1>4, <1>5 DEF WorkerHolds
<1>7. crashes \in 0..(MaxRuns - job.number)
    BY <1>3, BoundsAssumption DEF Init
<1>8. TypeOK
    BY <1>1, <1>3, <1>5, <1>7 DEF TypeOK, Init
<1>9. TrackerHolds
    BY <1>1 DEF TrackerHolds, Sound, Init, Idle, NewTracker
<1> QED BY <1>6, <1>8, <1>9 DEF TypeInv

LEMMA TypeNext == TypeInv /\ [Next]_vars => TypeInv'
<1> SUFFICES ASSUME TypeInv, [Next]_vars PROVE TypeInv'
    OBVIOUS
<1> DEFINE D == DOMAIN detections
<1>1. /\ video \in Videos /\ batchFrames \in BatchSizes
      /\ \A d \in D : detections[d] \in Detection /\ detections[d].track <= made
      /\ tracks \subseteq 1..made /\ made \in Nat
      /\ decided \subseteq tracks /\ matched \subseteq tracks
      /\ status \in {"new", "processing", "done", "failed"}
      /\ job.number \in 1..MaxRuns /\ crashes \in 0..(MaxRuns - job.number)
      /\ \A k \in DOMAIN worker.ids : worker.ids[k] \in 1..made
    BY DEF TypeInv, TypeOK
<1>2. /\ worker \in Worker /\ job \in Jobs
      /\ IsFiniteSet(worker.pending) /\ IsFiniteSet(D) /\ D \subseteq Nat \X Nat
      /\ worker.step \notin {"idle", "down", "marking"} => job.status = "running"
    BY DEF TypeInv, WorkerHolds
<1>3. /\ IsFiniteSet({}) /\ {} \subseteq PendingBox
      /\ \A w \in Worker : \A k \in DOMAIN w.tracker.live : w.tracker.live[k] \in Track
      /\ \A w \in Worker : w.pending \subseteq PendingBox
      /\ \A w \in Worker : w.step \in {"idle", "ready", "sampled", "committed", "swept",
             "averaged", "matching", "finishing", "failing", "marking", "down"}
      /\ \A j \in Jobs : j.status \in {"queued", "running", "done", "failed"}
             /\ j.number \in 1..MaxRuns /\ j.progress \in Progress
    BY FS_EmptySet, LiveTracksAre DEF Worker, Tracker, Jobs
\* The job and the worker as they are to be after a step.
<1> DEFINE Holds == /\ worker' \in Worker /\ job' \in Jobs
                    /\ IsFiniteSet(worker'.pending)
                    /\ worker'.step \notin {"idle", "down", "marking"} => job'.status = "running"
                    /\ TrackerHolds'
           Same == /\ \A k \in DOMAIN worker'.ids : k \in DOMAIN worker.ids
                                                   /\ worker'.ids[k] = worker.ids[k]
                   /\ job'.number = job.number
           Kept == /\ UNCHANGED <<input, detections, tracks, made, decided, matched>>
                   /\ status' \in {"new", "processing", "done", "failed"}
                   /\ crashes' \in 0..(MaxRuns - job'.number)
<1>4. ASSUME Holds, Same, Kept
      PROVE  TypeInv'
    <2>1. WorkerHolds'
        BY <1>2, <1>4 DEF WorkerHolds
    <2>2. TypeOK'
        BY <1>1, <1>2, <1>3, <1>4 DEF TypeOK, input
    <2> QED BY <1>4, <2>1, <2>2 DEF TypeInv
\* The tracker as it was, or a new one.
<1>5. ASSUME worker'.tracker = worker.tracker, worker'.pending \subseteq worker.pending,
             DOMAIN worker'.ids \subseteq DOMAIN worker.ids
      PROVE  TrackerHolds'
    <2>1. Sound(worker.tracker)
        BY DEF TypeInv, TrackerHolds
    <2> QED BY <1>5, <2>1 DEF TypeInv, TrackerHolds, Sound
<1>6. ASSUME DOMAIN worker'.tracker.live = {}, worker'.tracker.retired = {},
             worker'.pending = {}, DOMAIN worker'.ids = {}
      PROVE  TrackerHolds'
    BY <1>6 DEF TrackerHolds, Sound
<1> HIDE DEF D
<1>7. CASE Begin
    <2>1. job' = [job EXCEPT !.status = "running"]
        BY <1>7 DEF Begin
    <2>2. job' \in Jobs /\ job'.status = "running" /\ job'.number = job.number
        BY <2>1, <1>2 DEF Jobs
    <2>3. Kept
        BY <1>1, <1>7, <2>2 DEF Begin
    <2>4. worker' \in Worker /\ worker'.pending = {} /\ DOMAIN worker'.ids = {}
              /\ TrackerHolds'
        BY <1>6, <1>7, BeginIs
    <2> QED BY <2>2, <2>3, <2>4, <1>3, <1>4
<1>8. CASE SampleFrame
    <2>1. PICK f, held : Sampled(f, held)
        BY <1>8, SampleIs
    <2>2. UNCHANGED <<input, rows, job, crashes>>
        BY <1>8 DEF SampleFrame
    <2>3. worker.step \in {"ready", "sampled"}
        BY <2>1 DEF Sampled, ReadyForNext, FrameDone
    <2>4. IsFiniteSet(worker'.pending)
        <3>1. IsFiniteSet(worker.pending) /\ IsFiniteSet(held)
                  /\ worker'.pending = worker.pending \cup held
            BY <2>1, <1>2 DEF Sampled
        <3>2. IsFiniteSet(worker.pending \cup held)
            BY <3>1, FS_Union
        <3> QED BY <3>1, <3>2
    <2>5. TrackerHolds'
        <3>1. Sound(worker'.tracker) /\ worker.tracker.next <= worker'.tracker.next
              /\ worker.tracker.next \in Nat /\ worker'.tracker.next \in Nat
            BY <2>1, <1>2 DEF Sampled, Worker, Tracker
        <3>2. \A b \in worker.pending : b.key \in Nat /\ b.key < worker.tracker.next
            BY <1>2 DEF TypeInv, TrackerHolds, Worker, PendingBox
        <3>3. \A k \in DOMAIN worker.ids : k \in Nat /\ k < worker.tracker.next
            BY <1>2, NumberingsAre DEF TypeInv, TrackerHolds, Worker
        <3>4. \A b \in worker'.pending : b.key < worker'.tracker.next
            BY <2>1, <3>1, <3>2 DEF Sampled
        <3>5. \A k \in DOMAIN worker'.ids : k < worker'.tracker.next
            BY <2>1, <3>1, <3>3 DEF Sampled
        <3> QED BY <3>1, <3>4, <3>5 DEF TrackerHolds, Sound
    <2>6. Holds
        BY <1>2, <2>1, <2>2, <2>3, <2>4, <2>5 DEF Sampled, rows
    <2>7. Same /\ Kept
        BY <1>1, <2>1, <2>2 DEF Sampled, rows
    <2> QED BY <2>6, <2>7, <1>4
\* Rows are numbered up to made, and none of a dropped track is referred to.
<1>9. ASSUME NEW ids, Dropped(ids), Holds,
             UNCHANGED <<input, made, decided, matched, status, job, crashes>>,
             \A k \in DOMAIN worker'.ids : k \in DOMAIN worker.ids
                                        /\ worker'.ids[k] = worker.ids[k]
      PROVE  TypeInv'
    <2>1. /\ DOMAIN detections' = DOMAIN detections
          /\ \A d \in DOMAIN detections :
                /\ detections'[d] \in Detection
                /\ detections'[d].track = IF detections[d].track \in ids THEN 0
                                          ELSE detections[d].track
        BY <1>9, DroppedIs
    <2>2. tracks' \subseteq 1..made' /\ decided' \subseteq tracks' /\ matched' \subseteq tracks'
        BY <1>1, <1>9 DEF Dropped, Referred
    <2>3. \A d \in DOMAIN detections' : detections'[d] \in Detection /\ detections'[d].track <= made'
        BY <1>1, <1>9, <2>1 DEF D
    <2>4. WorkerHolds'
        BY <1>2, <1>9, <2>1 DEF WorkerHolds, D
    <2>5. TypeOK'
        BY <1>1, <1>2, <1>3, <1>9, <2>2, <2>3 DEF TypeOK, input
    <2> QED BY <1>9, <2>4, <2>5 DEF TypeInv
<1>10. ASSUME NEW k, Unwind(k)
       PROVE  TypeInv'
    <2>1. PICK ids : Unwound(k, ids)
        BY <1>10, UnwindIs
    <2>2. UNCHANGED <<input, made, decided, matched, status, job, crashes>>
        BY <1>10 DEF Unwind
    <2>3. TrackerHolds'
        BY <2>1, <1>5 DEF Unwound
    <2>4. Holds
        BY <1>2, <2>1, <2>2, <2>3 DEF Unwound
    <2> QED BY <2>1, <2>2, <2>4, <1>9 DEF Unwound
<1>11. CASE Sweep
    <2>1. worker' = [worker EXCEPT !.step = "swept"]
        BY <1>11 DEF Sweep
    <2>2. UNCHANGED <<input, made, decided, matched, status, job, crashes>>
              /\ Dropped(ShortTracks)
        BY <1>11 DEF Sweep, Dropped
    <2>3. job.status = "running"
        BY <1>2, <1>11 DEF Sweep, ReadyForNext, FrameDone
    <2>4. TrackerHolds'
        BY <2>1, MovedIs, <1>5
    <2>5. Holds /\ worker'.ids = worker.ids
        BY <1>2, <2>1, <2>2, <2>3, <2>4, MovedIs
    <2> QED BY <2>2, <2>5, <1>9
<1>12. ASSUME NEW next \in {"committed", "ready"}, CommitBatch(next), job.status = "running"
       PROVE  TypeInv'
    <2> DEFINE n == Cardinality(NewKeys)
    <2>1. Committed(next)
        BY <1>12, CommitIs
    <2>2. /\ UNCHANGED <<input, decided, matched, status, job, crashes>>
          /\ made' = made + n /\ tracks' = tracks \cup {IdsAfter[k] : k \in NewKeys}
        BY <1>12 DEF CommitBatch
    <2>3. /\ n \in Nat
          /\ DOMAIN IdsAfter = DOMAIN worker.ids \cup {b.key : b \in worker.pending}
          /\ NewKeys = {b.key : b \in worker.pending} \ DOMAIN worker.ids
          /\ \A k \in DOMAIN worker.ids : IdsAfter[k] = worker.ids[k]
          /\ \A k \in NewKeys : IdsAfter[k] \in (made + 1)..(made + n)
        BY IdsAfterAre
    <2> HIDE DEF n
    <2>4. made' \in Nat /\ made <= made' /\ 1..made \subseteq 1..made'
        BY <1>1, <2>2, <2>3
    <2>5. \A k \in DOMAIN IdsAfter : IdsAfter[k] \in 1..made' /\ IdsAfter[k] \in Nat
        BY <1>1, <2>2, <2>3, <2>4
    <2>6. \A d \in DOMAIN detections' : detections'[d] \in Detection /\ detections'[d].track <= made'
        <3>1. ASSUME NEW d \in DOMAIN detections' \ D
              PROVE  detections'[d] \in Detection /\ detections'[d].track <= made'
            <4>1. PICK b \in worker.pending :
                     /\ b.key \in DOMAIN IdsAfter
                     /\ detections'[d] = [track |-> IdsAfter[b.key], t |-> b.t,
                                          passes |-> b.passes]
                BY <2>1 DEF Committed, D
            <4>2. b \in PendingBox /\ IdsAfter[b.key] \in 1..made'
                BY <1>2, <2>5, <4>1 DEF Worker
            <4> QED BY <4>1, <4>2, <2>4 DEF PendingBox, Detection
        <3>2. ASSUME NEW d \in D
              PROVE  detections'[d] \in Detection /\ detections'[d].track <= made'
            <4>1. detections'[d] = detections[d] /\ detections[d].track \in Nat
                BY <1>1, <2>1 DEF Committed, Detection, D
            <4> QED BY <4>1, <1>1, <2>4
        <3> QED BY <3>1, <3>2
    <2>7. tracks' \subseteq 1..made' /\ decided' \subseteq tracks' /\ matched' \subseteq tracks'
        <3>1. \A k \in NewKeys : IdsAfter[k] \in 1..made'
            BY <2>3, <2>5
        <3> QED BY <1>1, <2>2, <2>4, <3>1
    <2>8. TrackerHolds'
        <3>1. \A k \in DOMAIN IdsAfter : k < worker.tracker.next
            BY <2>3 DEF TypeInv, TrackerHolds
        <3>2. Sound(worker.tracker)
            BY DEF TypeInv, TrackerHolds
        <3> QED BY <2>1, <3>1, <3>2 DEF Committed, TrackerHolds, Sound
    <2>9. WorkerHolds'
        BY <1>2, <1>3, <1>12, <2>1, <2>2 DEF WorkerHolds, Committed
    <2>10. TypeOK'
        BY <1>1, <1>2, <1>3, <2>1, <2>2, <2>4, <2>5, <2>6, <2>7 DEF TypeOK, input, Committed
    <2> QED BY <2>8, <2>9, <2>10 DEF TypeInv
<1>13. CASE CommitDueBatch
    BY <1>2, <1>12, <1>13 DEF CommitDueBatch, FrameDone
<1>14. CASE CommitLastBatch
    BY <1>2, <1>12, <1>14 DEF CommitLastBatch, ReadyForNext, FrameDone
<1>15. CASE Checkpoint
    <2> DEFINE p == [sampled |-> TRUE, lastMs |-> worker.lastMs, decoded |-> worker.decoded,
                     counted |-> worker.counted]
    <2>1. worker' = [worker EXCEPT !.step = "ready"] /\ job' = [job EXCEPT !.progress = p]
          /\ worker.step = "committed"
        BY <1>15 DEF Checkpoint
    <2>2. p \in Progress
        BY <1>2 DEF Worker, Progress
    <2> HIDE DEF p
    <2>3. job' \in Jobs /\ job'.number = job.number /\ job'.status = job.status
        BY <1>2, <2>1, <2>2 DEF Jobs
    <2>4. TrackerHolds'
        BY <2>1, MovedIs, <1>5
    <2>5. Holds /\ Same
        BY <1>2, <2>1, <2>3, <2>4, MovedIs
    <2>6. Kept
        BY <1>1, <1>15, <2>3 DEF Checkpoint, rows
    <2> QED BY <2>5, <2>6, <1>4
<1>16. CASE FinishMedia
    <2>1. worker' = [worker EXCEPT !.step = "matching"] /\ worker.step = "swept"
          /\ job' = job
        BY <1>16 DEF FinishMedia
    <2>2. TrackerHolds'
        BY <2>1, MovedIs, <1>5
    <2>3. Holds /\ Same
        BY <1>2, <2>1, <2>2, MovedIs
    <2>4. Kept
        BY <1>1, <1>16 DEF FinishMedia
    <2> QED BY <2>3, <2>4, <1>4
<1>17. CASE MatchTracks
    <2>1. worker' = [worker EXCEPT !.step = "finishing"] /\ worker.step = "matching"
          /\ UNCHANGED <<input, detections, tracks, made, decided, status, job, crashes>>
          /\ matched' \subseteq matched \cup tracks
        BY <1>17 DEF MatchTracks, Surviving
    <2>2. TrackerHolds'
        BY <2>1, MovedIs, <1>5
    <2>3. Holds /\ Same
        BY <1>2, <2>1, <2>2, MovedIs
    <2>4. WorkerHolds'
        BY <1>2, <2>1, <2>3 DEF WorkerHolds, D
    <2>5. TypeOK'
        BY <1>1, <1>2, <1>3, <2>1, <2>3 DEF TypeOK, input, D
    <2> QED BY <2>2, <2>4, <2>5 DEF TypeInv
<1>18. ASSUME \/ worker' = Idle
              \/ worker' = [Idle EXCEPT !.step = "failing"]
              \/ worker' = [Idle EXCEPT !.step = "down"],
              job' \in Jobs, job'.number = job.number, Kept,
              worker' = [Idle EXCEPT !.step = "failing"] => job'.status = "running"
       PROVE  TypeInv'
    <2>1. TrackerHolds'
        BY <1>6, <1>18, LetGo
    <2>2. Holds /\ Same
        BY <1>3, <1>18, <2>1, LetGo
    <2> QED BY <2>2, <1>4, <1>18
<1>19. CASE Finish
    <2>1. worker' = Idle /\ job' = [job EXCEPT !.status = "done"]
        BY <1>19 DEF Finish
    <2>2. job' \in Jobs /\ job'.number = job.number
        BY <1>2, <2>1 DEF Jobs
    <2>3. Kept
        BY <1>1, <1>19, <2>2 DEF Finish, rows
    <2>4. worker' # [Idle EXCEPT !.step = "failing"]
        BY <2>1 DEF Idle
    <2> QED BY <2>1, <2>2, <2>3, <2>4, <1>18
<1>20. CASE Fails
    <2>1. worker' = [Idle EXCEPT !.step = "failing"] /\ job' = job
          /\ worker.step \in {"ready", "sampled", "matching"}
        BY <1>20 DEF Fails
    <2>2. Kept
        BY <1>1, <1>20 DEF Fails, rows
    <2> QED BY <1>2, <2>1, <2>2, <1>18
<1>21. CASE FailJob
    <2>1. worker' = [worker EXCEPT !.step = "marking"] /\ job' = [job EXCEPT !.status = "failed"]
        BY <1>21 DEF FailJob
    <2>2. job' \in Jobs /\ job'.number = job.number
        BY <1>2, <2>1 DEF Jobs
    <2>3. TrackerHolds'
        BY <2>1, MovedIs, <1>5
    <2>4. Holds /\ Same
        BY <1>2, <2>1, <2>2, <2>3, MovedIs
    <2>5. Kept
        BY <1>1, <1>21, <2>2 DEF FailJob, rows
    <2> QED BY <2>4, <2>5, <1>4
<1>22. CASE MarkFailed
    <2>1. worker' = Idle /\ job' = job
        BY <1>22 DEF MarkFailed
    <2>2. Kept
        BY <1>1, <1>22, <2>1 DEF MarkFailed
    <2>3. worker' # [Idle EXCEPT !.step = "failing"]
        BY <2>1 DEF Idle
    <2> QED BY <1>2, <2>1, <2>2, <2>3, <1>18
<1>23. CASE Restart
    <2>1. worker' = Idle
          /\ job' = [job EXCEPT !.status = IF job.status = "running" THEN "queued" ELSE job.status]
        BY <1>23 DEF Restart
    <2>2. job' \in Jobs /\ job'.number = job.number
        BY <1>2, <2>1 DEF Jobs
    <2>3. Kept
        BY <1>1, <1>23, <2>2 DEF Restart, rows
    <2>4. worker' # [Idle EXCEPT !.step = "failing"]
        BY <2>1 DEF Idle
    <2> QED BY <2>1, <2>2, <2>3, <2>4, <1>18
<1>24. CASE Crash
    <2>1. worker' = [Idle EXCEPT !.step = "down"] /\ job' = job /\ crashes' = crashes + 1
          /\ crashes + job.number < MaxRuns
        BY <1>24 DEF Crash
    <2>2. Kept
        BY <1>1, <1>24, <2>1, BoundsAssumption DEF Crash, rows
    <2>3. worker' # [Idle EXCEPT !.step = "failing"]
        BY <2>1 DEF Idle
    <2> QED BY <1>2, <2>1, <2>2, <2>3, <1>18
<1>25. CASE SecondJob
    <2>1. job' = [number |-> job.number + 1, status |-> "queued", progress |-> NoProgress]
          /\ UNCHANGED <<input, rows, worker, crashes>> /\ worker.step = "idle"
          /\ crashes + job.number < MaxRuns
        BY <1>25 DEF SecondJob
    <2>2. /\ job.number \in Nat /\ crashes \in Nat
          /\ job'.number = job.number + 1 /\ job'.number \in 1..MaxRuns
          /\ crashes' \in 0..(MaxRuns - job'.number) /\ job'.progress \in Progress
          /\ job'.status = "queued"
        BY <1>1, <2>1, BoundsAssumption DEF NoProgress, Progress
    <2>3. job' \in Jobs
        BY <2>1, <2>2 DEF Jobs
    <2>4. WorkerHolds'
        BY <1>2, <2>1, <2>3 DEF WorkerHolds, rows, D
    <2>5. TypeOK'
        BY <1>1, <1>2, <1>3, <2>1, <2>2 DEF TypeOK, rows, input, D
    <2>6. TrackerHolds'
        BY <2>1, <1>5
    <2> QED BY <2>4, <2>5, <2>6 DEF TypeInv
<1>26. ASSUME NEW id \in tracks, Decide(id)
       PROVE  TypeInv'
    <2>1. decided' = decided \cup {id}
          /\ UNCHANGED <<input, detections, tracks, made, matched, status, job, worker, crashes>>
        BY <1>26 DEF Decide
    <2>2. WorkerHolds'
        BY <1>2, <2>1 DEF WorkerHolds, D
    <2>3. TypeOK'
        BY <1>1, <1>2, <1>3, <2>1 DEF TypeOK, input, D
    <2>4. TrackerHolds'
        BY <2>1, <1>5
    <2> QED BY <2>2, <2>3, <2>4 DEF TypeInv
<1>27. CASE UNCHANGED vars
    <2>1. UNCHANGED <<input, rows, job, worker, crashes>>
        BY <1>27 DEF vars
    <2>2. TrackerHolds'
        BY <2>1, <1>5
    <2>3. Holds /\ Same /\ Kept
        BY <1>1, <1>2, <2>1, <2>2 DEF rows
    <2> QED BY <2>3, <1>4
<1> QED BY <1>7, <1>8, <1>10, <1>11, <1>13, <1>14, <1>15, <1>16, <1>17, <1>19, <1>20, <1>21,
           <1>22, <1>23, <1>24, <1>25, <1>26, <1>27 DEF Next, WorkerStep

(* The rows, the tracks and what the worker holds keep their types, and the worker  *)
(* works for a job that runs.                                                  *)
THEOREM TypeCorrectness == Spec => []TypeOK
<1>1. TypeInv => TypeOK
    BY DEF TypeInv
<1> QED BY <1>1, TypeInit, TypeNext, PTL DEF Spec

-----------------------------------------------------------------------------
(* Rows.                                                                    *)

\* A row keeps what it says, or loses its track.
RowStands(d) ==
    d \in DOMAIN detections' /\ detections'[d] \in {detections[d], [detections[d] EXCEPT !.track = 0]}

\* A step that neither samples nor commits writes no row: at most it drops tracks.
LEMMA StepsAre ==
    ASSUME TypeInv, [Next]_vars
    PROVE  \/ SampleFrame
           \/ \E next \in {"committed", "ready"} :
                 CommitBatch(next) /\ (CommitDueBatch \/ CommitLastBatch)
           \/ \E ids : Dropped(ids) /\ (Sweep \/ \E k : Unwound(k, ids))
           \/ UNCHANGED <<detections, tracks>>
<1>1. CASE CommitDueBatch
    BY <1>1 DEF CommitDueBatch
<1>2. CASE CommitLastBatch
    BY <1>2 DEF CommitLastBatch
<1>3. ASSUME NEW k, Unwind(k)
      PROVE  \E ids : Dropped(ids) /\ \E j : Unwound(j, ids)
    BY <1>3, UnwindIs DEF Unwound
<1>4. CASE Sweep
    <2>1. Dropped(ShortTracks)
        BY <1>4 DEF Sweep, Dropped
    <2> QED BY <1>4, <2>1
<1>5. CASE UNCHANGED vars
    BY <1>5 DEF vars, rows
<1>6. CASE Begin \/ Checkpoint \/ FinishMedia \/ MatchTracks \/ Finish \/ Fails \/ FailJob
              \/ MarkFailed \/ Restart \/ Crash \/ SecondJob \/ \E id \in tracks : Decide(id)
    BY <1>6 DEF Begin, Checkpoint, FinishMedia, MatchTracks, Finish, Fails, FailJob,
                MarkFailed, Restart, Crash, SecondJob, Decide, rows
<1> QED BY <1>1, <1>2, <1>3, <1>4, <1>5, <1>6 DEF Next, WorkerStep

(* A detection stays the row it was first written as, whatever is sampled again  *)
(* after a crash or by a second job; all it can lose is its track.             *)
THEOREM RowsAreKept == Spec => RowsStand
<1> DEFINE Stand == \A d \in DOMAIN detections :
                       /\ d \in DOMAIN detections'
                       /\ detections'[d] \in {detections[d], [detections[d] EXCEPT !.track = 0]}
<1>1. TypeInv /\ [Next]_vars => [Stand]_vars
    <2> SUFFICES ASSUME TypeInv, [Next]_vars PROVE Stand
        OBVIOUS
    <2>1. CASE SampleFrame
        BY <2>1 DEF SampleFrame, rows
    <2>2. ASSUME NEW next \in {"committed", "ready"}, CommitBatch(next) PROVE Stand
        BY <2>2, CommitIs DEF Committed
    <2>3. ASSUME NEW ids, Dropped(ids) PROVE Stand
        BY <2>3, DroppedIs
    <2>4. CASE UNCHANGED <<detections, tracks>>
        BY <2>4
    <2> QED BY <2>1, <2>2, <2>3, <2>4, StepsAre
<1>2. RowsStand <=> [][Stand]_vars
    BY DEF RowsStand
<1> QED BY TypeInit, TypeNext, <1>1, <1>2, PTL DEF Spec

-----------------------------------------------------------------------------
(* Two faces of one frame.                                                  *)

\* What the worker holds and what is written lose at most their tracks.
LEMMA FacesFade ==
    ASSUME FaceInv, TypeInv',
           DOMAIN detections' = DOMAIN detections,
           \A d \in DOMAIN detections : detections'[d].track \in {0, detections[d].track},
           \/ worker'.pending = {} /\ DOMAIN worker'.ids = {}
           \/ /\ worker'.slot = worker.slot /\ worker'.pending = worker.pending
              /\ \A k \in DOMAIN worker'.ids : k \in DOMAIN worker.ids
                                            /\ worker'.ids[k] = worker.ids[k]
    PROVE  FaceInv'
<1>1. OneFacePerFrame'
    BY DEF FaceInv, OneFacePerFrame
<1>2. \A k \in DOMAIN worker'.ids : worker'.ids[k] # 0
    BY DEF TypeInv, TypeOK
<1>3. IdsHold'
    BY DEF FaceInv, IdsHold
<1>4. CASE worker'.pending = {} /\ DOMAIN worker'.ids = {}
    <2>1. PendingHolds'
        BY <1>4 DEF PendingHolds
    <2> QED BY <1>1, <1>3, <2>1 DEF FaceInv
<1>5. CASE /\ worker'.slot = worker.slot /\ worker'.pending = worker.pending
           /\ \A k \in DOMAIN worker'.ids : k \in DOMAIN worker.ids
                                         /\ worker'.ids[k] = worker.ids[k]
    <2>1. ASSUME NEW d \in DOMAIN detections', NEW k \in DOMAIN worker'.ids,
                 detections'[d].track = worker'.ids[k]
          PROVE  detections[d].track = worker.ids[k] /\ k \in DOMAIN worker.ids
        BY <1>2, <1>5, <2>1
    <2>2. PendingHolds'
        BY <1>5, <2>1 DEF FaceInv, PendingHolds
    <2> QED BY <1>1, <1>3, <2>2 DEF FaceInv
<1> QED BY <1>4, <1>5

LEMMA FaceInit == Init => FaceInv
<1> SUFFICES ASSUME Init PROVE FaceInv
    OBVIOUS
<1>1. DOMAIN detections = {} /\ DOMAIN worker.ids = {} /\ worker.pending = {}
    BY DEF Init, Idle
<1> QED BY <1>1, TypeInit DEF FaceInv, IdsHold, PendingHolds, OneFacePerFrame

LEMMA FaceNext == FaceInv /\ [Next]_vars => FaceInv'
<1> SUFFICES ASSUME FaceInv, [Next]_vars PROVE FaceInv'
    OBVIOUS
<1>1. TypeInv /\ TypeInv'
    BY TypeNext DEF FaceInv
<1>2. /\ worker \in Worker /\ worker.pending \subseteq PendingBox /\ made \in Nat
      /\ \A d \in DOMAIN detections : detections[d].track \in Nat /\ detections[d].track <= made
      /\ DOMAIN detections \subseteq Nat \X Nat
      /\ \A k \in DOMAIN worker.ids : worker.ids[k] \in 1..made
    BY <1>1 DEF TypeInv, TypeOK, WorkerHolds, Worker, Detection
<1>3. CASE SampleFrame
    <2>1. PICK f, held : Sampled(f, held)
        BY <1>1, <1>3, SampleIs
    <2>2. detections' = detections
        BY <1>3 DEF SampleFrame, rows
    <2>3. worker.slot \in Nat /\ worker'.slot \in Nat /\ worker.slot < worker'.slot
        BY <1>2, <2>1, <1>1 DEF Sampled, Worker
    <2>4. worker'.ids = worker.ids /\ worker'.pending = worker.pending \cup held
              /\ held \subseteq PendingBox /\ \A b \in held : b.slot = worker.slot
        BY <2>1 DEF Sampled
    <2>5. IdsHold' /\ OneFacePerFrame'
        BY <2>2, <2>4 DEF FaceInv, IdsHold, OneFacePerFrame
    <2>6. PendingHolds'
        <3>1. \A b \in worker'.pending : b.slot < worker'.slot
            <4>1. \A b \in worker.pending : b.slot \in Nat /\ b.slot < worker.slot
                BY <1>2 DEF FaceInv, PendingHolds, PendingBox
            <4> QED BY <2>3, <2>4, <4>1
        <3>2. ASSUME NEW b \in worker'.pending, NEW c \in worker'.pending,
                     b.slot = c.slot, b.key = c.key \/ b.det = c.det
              PROVE  b = c
            <4>1. \A x \in worker.pending : x.slot # worker.slot
                BY <2>3, <1>2 DEF FaceInv, PendingHolds, PendingBox
            <4>2. (b \in worker.pending /\ c \in worker.pending) \/ (b \in held /\ c \in held)
                BY <3>2, <2>4, <4>1
            <4>3. CASE b \in worker.pending /\ c \in worker.pending
                BY <3>2, <4>3 DEF FaceInv, PendingHolds
            <4>4. CASE b \in held /\ c \in held
                BY <3>2, <4>4, <2>1 DEF Sampled
            <4> QED BY <4>2, <4>3, <4>4
        <3>3. ASSUME NEW d \in DOMAIN detections, NEW k \in DOMAIN worker.ids,
                     detections[d].track = worker.ids[k]
              PROVE  d[1] < worker'.slot /\ \A b \in worker'.pending : b.slot # d[1]
            <4>1. d[1] \in Nat /\ d[1] < worker.slot /\ \A b \in worker.pending : b.slot # d[1]
                BY <1>2, <3>3 DEF FaceInv, PendingHolds
            <4> QED BY <4>1, <2>3, <2>4
        <3> QED BY <2>2, <2>4, <3>1, <3>2, <3>3 DEF PendingHolds
    <2> QED BY <1>1, <2>5, <2>6 DEF FaceInv
<1>4. ASSUME NEW next \in {"committed", "ready"}, CommitBatch(next)
      PROVE  FaceInv'
    <2> DEFINE D == DOMAIN detections
               I == IdsAfter
    <2>1. Committed(next)
        BY <1>1, <1>4, CommitIs
    <2>2. /\ DOMAIN I = DOMAIN worker.ids \cup {b.key : b \in worker.pending}
          /\ NewKeys = {b.key : b \in worker.pending} \ DOMAIN worker.ids
          /\ \A k \in DOMAIN worker.ids : I[k] = worker.ids[k] /\ I[k] \in 1..made
          /\ \A k \in NewKeys : I[k] \in Nat /\ I[k] > made
          /\ \A j, k \in NewKeys : I[j] = I[k] => j = k
        <3>1. Cardinality(NewKeys) \in Nat
                  /\ \A k \in NewKeys : I[k] \in (made + 1)..(made + Cardinality(NewKeys))
            BY <1>1, IdsAfterAre
        <3>2. \A k \in NewKeys : I[k] \in Nat /\ I[k] > made
            BY <1>2, <3>1
        <3> QED BY <1>1, <1>2, <3>2, IdsAfterAre
    <2> HIDE DEF D, I
    <2>3. \A j, k \in DOMAIN I : I[j] = I[k] => j = k
        <3>1. \A j, k \in DOMAIN worker.ids : I[j] = I[k] => j = k
            BY <2>2 DEF FaceInv, IdsHold
        <3>2. \A j \in DOMAIN worker.ids, k \in NewKeys : I[j] # I[k]
            BY <1>2, <2>2
        <3> QED BY <2>2, <3>1, <3>2
    <2>4. worker'.ids = I /\ worker'.pending = {} /\ worker'.slot = worker.slot
        BY <2>1 DEF Committed, I
    <2>5. \A d \in D : /\ d \in DOMAIN detections' /\ detections'[d] = detections[d]
                      /\ detections[d].track \in Nat /\ detections[d].track <= made
        BY <1>2, <2>1 DEF Committed, D
    <2>6. \A d \in DOMAIN detections' \ D : \E b \in worker.pending :
             d = <<b.slot, b.det>> /\ b.key \in DOMAIN I /\ detections'[d].track = I[b.key]
        <3> SUFFICES ASSUME NEW d \in DOMAIN detections' \ D
                     PROVE  \E b \in worker.pending : d = <<b.slot, b.det>>
                               /\ b.key \in DOMAIN I /\ detections'[d].track = I[b.key]
            OBVIOUS
        <3>1. PICK b \in worker.pending :
                 /\ d = <<b.slot, b.det>>
                 /\ b.key \in DOMAIN I
                 /\ detections'[d] = [track |-> I[b.key], t |-> b.t, passes |-> b.passes]
            BY <2>1 DEF Committed, D, I
        <3> QED BY <3>1
    <2>7. ASSUME NEW d \in D, NEW k \in DOMAIN I, detections'[d].track = I[k]
          PROVE  /\ k \in DOMAIN worker.ids /\ d[1] < worker.slot
                 /\ \A b \in worker.pending : b.slot # d[1]
        <3>1. k \in DOMAIN worker.ids
            BY <1>2, <2>2, <2>5, <2>7
        <3> QED BY <3>1, <2>2, <2>5, <2>7 DEF FaceInv, PendingHolds, D
    <2>8. PendingHolds'
        <3>1. ASSUME NEW d \in DOMAIN detections', NEW k \in DOMAIN I, detections'[d].track = I[k]
              PROVE  d[1] < worker.slot
            <4>1. CASE d \in D
                BY <3>1, <4>1, <2>7
            <4>2. CASE d \notin D
                BY <4>2, <2>6 DEF FaceInv, PendingHolds
            <4> QED BY <4>1, <4>2
        <3> QED BY <2>4, <3>1 DEF PendingHolds
    <2>9. OneFacePerFrame'
        <3> SUFFICES ASSUME NEW d \in DOMAIN detections', NEW e \in DOMAIN detections',
                            d[1] = e[1], d # e, detections'[d].track = detections'[e].track
                     PROVE  detections'[d].track = 0
            BY DEF OneFacePerFrame
        <3>1. CASE d \in D /\ e \in D
            BY <3>1, <2>5 DEF FaceInv, OneFacePerFrame, D
        <3>2. CASE d \notin D /\ e \notin D
            <4>1. PICK b \in worker.pending :
                     d = <<b.slot, b.det>> /\ b.key \in DOMAIN I /\ detections'[d].track = I[b.key]
                BY <3>2, <2>6
            <4>2. PICK c \in worker.pending :
                     e = <<c.slot, c.det>> /\ c.key \in DOMAIN I /\ detections'[e].track = I[c.key]
                BY <3>2, <2>6
            <4>3. b.slot = c.slot /\ b.key = c.key
                BY <4>1, <4>2, <2>3
            <4> QED BY <4>1, <4>2, <4>3 DEF FaceInv, PendingHolds
        <3>3. ASSUME NEW x \in D, NEW y \in DOMAIN detections' \ D, x[1] = y[1],
                     detections'[x].track = detections'[y].track
              PROVE  FALSE
            <4>1. PICK b \in worker.pending :
                     y = <<b.slot, b.det>> /\ b.key \in DOMAIN I /\ detections'[y].track = I[b.key]
                BY <2>6
            <4>2. b.slot # x[1]
                BY <3>3, <4>1, <2>7
            <4> QED BY <3>3, <4>1, <4>2
        <3> QED BY <3>1, <3>2, <3>3
    <2> QED BY <1>1, <2>3, <2>4, <2>8, <2>9 DEF FaceInv, IdsHold
\* All else neither writes rows nor holds more boxes.
<1>5. CASE Sweep
    <2>1. Dropped(ShortTracks) /\ worker' = [worker EXCEPT !.step = "swept"]
        BY <1>5 DEF Sweep, Dropped
    <2>2. worker'.ids = worker.ids /\ worker'.pending = worker.pending /\ worker'.slot = worker.slot
        BY <1>1, <2>1, MovedIs
    <2>3. /\ DOMAIN detections' = DOMAIN detections
          /\ \A d \in DOMAIN detections : detections'[d].track \in {0, detections[d].track}
        BY <1>1, <2>1, DroppedIs
    <2> QED BY <1>1, <2>2, <2>3, FacesFade
<1>6. ASSUME NEW k, NEW ids, Unwound(k, ids)
      PROVE  FaceInv'
    <2>1. /\ DOMAIN detections' = DOMAIN detections
          /\ \A d \in DOMAIN detections : detections'[d].track \in {0, detections[d].track}
        BY <1>1, <1>6, DroppedIs DEF Unwound
    <2>2. /\ worker'.slot = worker.slot /\ worker'.pending = worker.pending
          /\ \A j \in DOMAIN worker'.ids : j \in DOMAIN worker.ids /\ worker'.ids[j] = worker.ids[j]
        BY <1>6 DEF Unwound
    <2> QED BY <1>1, <2>1, <2>2, FacesFade
<1>7. ASSUME detections' = detections,
             \/ worker' = worker
             \/ \E s \in {"ready", "swept", "matching", "finishing", "marking"} :
                   worker' = [worker EXCEPT !.step = s]
             \/ worker'.pending = {} /\ DOMAIN worker'.ids = {}
      PROVE  FaceInv'
    <2>1. \/ worker'.pending = {} /\ DOMAIN worker'.ids = {}
          \/ /\ worker'.slot = worker.slot /\ worker'.pending = worker.pending
             /\ worker'.ids = worker.ids
        BY <1>1, <1>7, MovedIs
    <2> QED BY <1>1, <1>7, <2>1, FacesFade
<1>8. CASE Begin
    BY <1>1, <1>7, <1>8, BeginIs DEF Begin
<1>9. CASE Checkpoint \/ FinishMedia \/ MatchTracks \/ FailJob
    BY <1>7, <1>9 DEF Checkpoint, FinishMedia, MatchTracks, FailJob, rows
<1>10. CASE Finish \/ Fails \/ MarkFailed \/ Restart \/ Crash
    <2>1. detections' = detections
        BY <1>10 DEF Finish, Fails, MarkFailed, Restart, Crash, rows
    <2>2. \/ worker' = Idle
          \/ worker' = [Idle EXCEPT !.step = "failing"]
          \/ worker' = [Idle EXCEPT !.step = "down"]
        BY <1>10 DEF Finish, Fails, MarkFailed, Restart, Crash
    <2> QED BY <1>7, <2>1, <2>2, LetGo
<1>11. CASE SecondJob \/ (\E id \in tracks : Decide(id)) \/ UNCHANGED vars
    BY <1>7, <1>11 DEF SecondJob, Decide, vars, rows
<1> QED
  <2>1. CASE CommitDueBatch
      BY <1>4, <2>1 DEF CommitDueBatch
  <2>2. CASE CommitLastBatch
      BY <1>4, <2>2 DEF CommitLastBatch
  <2>3. ASSUME NEW k, Unwind(k) PROVE FaceInv'
      BY <1>1, <1>6, <2>3, UnwindIs
  <2> QED BY <1>3, <1>5, <1>8, <1>9, <1>10, <1>11, <2>1, <2>2, <2>3 DEF Next, WorkerStep

(* Two faces of one frame are never the same track, through both passes of the    *)
(* tracker and across runs.                                                   *)
THEOREM FacesOfAFrameDiffer == Spec => []OneFacePerFrame
<1>1. FaceInv => OneFacePerFrame
    BY DEF FaceInv
<1> QED BY <1>1, FaceInit, FaceNext, PTL DEF Spec

-----------------------------------------------------------------------------
(* The sweep and the match.                                                 *)

\* A track's rows are finitely many.
LEMMA DetectionsAreFinite ==
    ASSUME TypeInv, NEW id
    PROVE  IsFiniteSet(DetectionsOf(id)) /\ Cardinality(DetectionsOf(id)) \in Nat
<1>1. IsFiniteSet(DOMAIN detections) /\ DetectionsOf(id) \subseteq DOMAIN detections
    BY DEF TypeInv, WorkerHolds, DetectionsOf
<1>2. IsFiniteSet(DetectionsOf(id))
    BY <1>1, FS_Subset
<1> QED BY <1>2, FS_CardinalityType

LEMMA MatchInit == Init => MatchInv
<1> SUFFICES ASSUME Init PROVE MatchInv
    OBVIOUS
<1>1. tracks = {} /\ matched = {}
    BY DEF Init
<1> QED BY <1>1, TypeInit DEF MatchInv, SweptHolds, MatchedHolds, MatchHolds, ShortTracks

\* A matched track is never dropped and never loses a row.
LEMMA MatchedNext == MatchInv /\ [Next]_vars /\ matched' = matched => MatchedHolds'
<1> SUFFICES ASSUME MatchInv, [Next]_vars, matched' = matched, NEW id \in matched
             PROVE  Cardinality(DetectionsOf(id)') >= MinHits
    BY DEF MatchedHolds
<1>1. TypeInv /\ TypeInv'
    BY TypeNext DEF MatchInv
<1>2. id \in tracks /\ Cardinality(DetectionsOf(id)) >= MinHits
    BY DEF MatchInv, TypeInv, TypeOK, MatchedHolds
<1>3. CASE SampleFrame \/ UNCHANGED <<detections, tracks>>
    BY <1>2, <1>3 DEF SampleFrame, rows, DetectionsOf
<1>4. ASSUME NEW next \in {"committed", "ready"}, CommitBatch(next)
      PROVE  Cardinality(DetectionsOf(id)') >= MinHits
    <2>1. DetectionsOf(id) \subseteq DetectionsOf(id)'
        BY <1>1, <1>4, CommitIs DEF Committed, DetectionsOf
    <2>2. IsFiniteSet(DetectionsOf(id)')
        <3>1. IsFiniteSet(DOMAIN detections')
            BY <1>1 DEF TypeInv, WorkerHolds
        <3>2. DetectionsOf(id)' \subseteq DOMAIN detections'
            BY DEF DetectionsOf
        <3> QED BY <3>1, <3>2, FS_Subset
    <2>3. Cardinality(DetectionsOf(id)) <= Cardinality(DetectionsOf(id)')
        BY <2>1, <2>2, FS_Subset
    <2>4. Cardinality(DetectionsOf(id)) \in Nat /\ Cardinality(DetectionsOf(id)') \in Nat
        BY <1>1, <2>2, DetectionsAreFinite, FS_CardinalityType
    <2> QED BY <1>2, <2>3, <2>4, TrackerAssumption
<1>5. ASSUME NEW ids, Dropped(ids)
      PROVE  Cardinality(DetectionsOf(id)') >= MinHits
    <2>1. id \in tracks'
        BY <1>2, <1>5 DEF Dropped, Referred
    <2>2. DetectionsOf(id)' = DetectionsOf(id)
        BY <1>1, <1>5, <2>1, DroppedIs
    <2> QED BY <1>2, <2>2
<1> QED BY <1>1, <1>3, <1>4, <1>5, StepsAre

LEMMA MatchNext == MatchInv /\ [Next]_vars => MatchInv'
<1> SUFFICES ASSUME MatchInv, [Next]_vars PROVE MatchInv'
    OBVIOUS
<1>1. TypeInv /\ TypeInv'
    BY TypeNext DEF MatchInv
<1>2. worker \in Worker /\ job \in Jobs
      /\ (worker.step \notin {"idle", "down", "marking"} => job.status = "running")
    BY <1>1 DEF TypeInv, WorkerHolds
\* While the job runs on, short of the sweep, nothing is claimed yet.
<1>3. ASSUME worker'.step \notin {"swept", "matching", "finishing"}, job'.status # "done",
             matched' = matched
      PROVE  MatchInv'
    <2>1. MatchedHolds'
        BY <1>3, MatchedNext
    <2> QED BY <1>1, <1>3, <2>1 DEF MatchInv, SweptHolds, MatchHolds
\* Where neither rows nor tracks change, what held still does.
<1>4. ASSUME UNCHANGED <<detections, tracks, matched>>,
             worker'.step \in {"swept", "matching", "finishing"} \/ job'.status = "done" =>
                worker.step \in {"swept", "matching", "finishing"} \/ job.status = "done",
             worker'.step = "finishing" \/ job'.status = "done" =>
                worker.step = "finishing" \/ job.status = "done"
      PROVE  MatchInv'
    <2>1. ShortTracks' = ShortTracks
        BY <1>4 DEF ShortTracks, DetectionsOf
    <2>2. \A id : HasMean(id)' <=> HasMean(id)
        BY <1>4 DEF HasMean, DetectionsOf
    <2>3. MatchedHolds'
        BY <1>4, MatchedNext
    <2>4. SweptHolds'
        BY <1>4, <2>1 DEF MatchInv, SweptHolds
    <2>5. MatchHolds'
        BY <1>4, <2>2 DEF MatchInv, MatchHolds
    <2> QED BY <1>1, <2>3, <2>4, <2>5 DEF MatchInv
<1>5. CASE Begin
    <2>1. worker'.step = "ready" /\ job' = [job EXCEPT !.status = "running"] /\ matched' = matched
        BY <1>1, <1>5, BeginIs DEF Begin
    <2> QED BY <1>2, <1>3, <2>1 DEF Jobs
<1>6. CASE SampleFrame
    <2>1. worker'.step = "sampled" /\ job' = job /\ matched' = matched
              /\ worker.step \in {"ready", "sampled"}
        BY <1>1, <1>6, SampleIs DEF SampleFrame, Sampled, rows, ReadyForNext, FrameDone
    <2> QED BY <1>2, <1>3, <2>1
<1>7. ASSUME NEW k, Unwind(k)
      PROVE  MatchInv'
    <2>1. worker'.step = "sampled" /\ worker.step = "sampled"
        BY <1>1, <1>7, UnwindIs DEF Unwound
    <2>2. job' = job /\ matched' = matched
        BY <1>7 DEF Unwind
    <2> QED BY <1>2, <1>3, <2>1, <2>2
<1>8. ASSUME NEW next \in {"committed", "ready"}, CommitBatch(next), job.status = "running"
      PROVE  MatchInv'
    <2>1. worker'.step = next /\ job' = job /\ matched' = matched
        BY <1>1, <1>8, CommitIs DEF CommitBatch, Committed
    <2> QED BY <1>3, <1>8, <2>1
<1>9. CASE CommitDueBatch
    BY <1>2, <1>8, <1>9 DEF CommitDueBatch, FrameDone
<1>10. CASE CommitLastBatch
    BY <1>2, <1>8, <1>10 DEF CommitLastBatch, ReadyForNext, FrameDone
<1>11. CASE Checkpoint
    <2>1. worker'.step = "ready" /\ job'.status = job.status /\ job.status = "running"
              /\ matched' = matched
        BY <1>1, <1>2, <1>11, MovedIs DEF Checkpoint, rows, Jobs
    <2> QED BY <1>3, <2>1
<1>12. CASE Sweep
    <2>1. /\ Dropped(ShortTracks) /\ worker' = [worker EXCEPT !.step = "swept"]
          /\ job' = job /\ matched' = matched /\ worker.step \in {"ready", "sampled"}
        BY <1>12 DEF Sweep, Dropped, ReadyForNext, FrameDone
    <2>2. worker'.step = "swept" /\ job'.status = "running"
        BY <1>1, <1>2, <2>1, MovedIs
    <2>3. ShortTracks' = {}
        <3> SUFFICES ASSUME NEW id \in tracks', Cardinality(DetectionsOf(id)') < MinHits
                     PROVE  FALSE
            BY DEF ShortTracks
        <3>1. DetectionsOf(id)' = DetectionsOf(id)
            BY <1>1, <2>1, DroppedIs
        <3>2. id \in tracks /\ id \notin ShortTracks
            BY <2>1 DEF Dropped
        <3> QED BY <3>1, <3>2 DEF ShortTracks
    <2>4. MatchedHolds'
        BY <2>1, MatchedNext
    <2> QED BY <1>1, <2>2, <2>3, <2>4 DEF MatchInv, SweptHolds, MatchHolds
<1>13. CASE FinishMedia
    <2>1. worker.step = "swept" /\ worker'.step = "matching" /\ job' = job
              /\ UNCHANGED <<detections, tracks, matched>>
        BY <1>1, <1>13, MovedIs DEF FinishMedia
    <2> QED BY <1>2, <1>4, <2>1
<1>14. CASE MatchTracks
    <2>1. /\ worker.step = "matching" /\ worker'.step = "finishing" /\ job' = job
          /\ UNCHANGED <<detections, tracks>>
          /\ matched' = matched \cup {id \in tracks : HasMean(id)}
        BY <1>1, <1>14, MovedIs DEF MatchTracks, Surviving
    <2>2. ShortTracks = {} /\ ShortTracks' = ShortTracks
        BY <2>1 DEF MatchInv, SweptHolds, ShortTracks, DetectionsOf
    <2>3. \A id : DetectionsOf(id)' = DetectionsOf(id) /\ (HasMean(id)' <=> HasMean(id))
        BY <2>1 DEF HasMean, DetectionsOf
    <2>4. MatchHolds'
        BY <2>1, <2>3 DEF MatchHolds
    <2>5. MatchedHolds'
        <3> SUFFICES ASSUME NEW id \in matched'
                     PROVE  Cardinality(DetectionsOf(id)') >= MinHits
            BY DEF MatchedHolds
        <3>1. CASE id \in matched
            BY <3>1, <2>3 DEF MatchInv, MatchedHolds
        <3>2. CASE id \in tracks
            <4>1. ~ (Cardinality(DetectionsOf(id)) < MinHits)
                BY <3>2, <2>2 DEF ShortTracks
            <4>2. Cardinality(DetectionsOf(id)) \in Nat
                BY <1>1, DetectionsAreFinite
            <4> QED BY <4>1, <4>2, <2>3, TrackerAssumption
        <3> QED BY <3>1, <3>2, <2>1
    <2> QED BY <1>1, <2>2, <2>4, <2>5 DEF MatchInv, SweptHolds
<1>15. CASE Finish
    <2>1. worker.step = "finishing" /\ UNCHANGED <<detections, tracks, matched>>
        BY <1>15 DEF Finish, rows
    <2> QED BY <1>4, <2>1
<1>16. CASE Fails
    <2>1. worker'.step = "failing" /\ UNCHANGED <<detections, tracks, matched, job>>
        BY <1>16, LetGo DEF Fails, rows
    <2> QED BY <1>4, <2>1
<1>17. CASE FailJob
    <2>1. worker'.step = "marking" /\ job' = [job EXCEPT !.status = "failed"]
              /\ UNCHANGED <<detections, tracks, matched>>
        BY <1>1, <1>17, MovedIs DEF FailJob, rows
    <2> QED BY <1>2, <1>3, <2>1 DEF Jobs
<1>18. CASE MarkFailed
    <2>1. worker'.step = "idle" /\ UNCHANGED <<detections, tracks, matched, job>>
        BY <1>18, LetGo DEF MarkFailed, rows
    <2> QED BY <1>4, <2>1
<1>19. CASE Restart
    <2>1. /\ worker'.step = "idle" /\ UNCHANGED <<detections, tracks, matched>>
          /\ job' = [job EXCEPT !.status = IF job.status = "running" THEN "queued" ELSE job.status]
        BY <1>19, LetGo DEF Restart, rows
    <2>2. job'.status = "done" => job.status = "done"
        BY <1>2, <2>1 DEF Jobs
    <2> QED BY <1>4, <2>1, <2>2
<1>20. CASE Crash
    <2>1. worker'.step = "down" /\ UNCHANGED <<detections, tracks, matched, job>>
        BY <1>20, LetGo DEF Crash, rows
    <2> QED BY <1>4, <2>1
<1>21. CASE SecondJob
    <2>1. worker'.step = "idle" /\ job'.status = "queued" /\ matched' = matched
        BY <1>21 DEF SecondJob, rows
    <2> QED BY <1>3, <2>1
<1>22. CASE (\E id \in tracks : Decide(id)) \/ UNCHANGED vars
    <2>1. UNCHANGED <<detections, tracks, matched, job, worker>>
        BY <1>22 DEF Decide, vars, rows
    <2> QED BY <1>4, <2>1
<1> QED BY <1>5, <1>6, <1>7, <1>9, <1>10, <1>11, <1>12, <1>13, <1>14, <1>15, <1>16, <1>17,
           <1>18, <1>19, <1>20, <1>21, <1>22 DEF Next, WorkerStep

(* No flicker is ever matched or kept by a job that finished, whichever run wrote it *)
(* and wherever that run died.                                                *)
THEOREM FlickersAreNotMatched == Spec => []NoFlickerMatched
<1>1. MatchInv => NoFlickerMatched
    BY DEF MatchInv, MatchedHolds, SweptHolds, NoFlickerMatched
<1> QED BY <1>1, MatchInit, MatchNext, PTL DEF Spec

(* A video job that reports it is done has matched every track that has a mean, *)
(* also the tracks an earlier run wrote.                                       *)
THEOREM DoneJobsMatched == Spec => []DoneIsMatched
<1>1. MatchInv => DoneIsMatched
    BY DEF MatchInv, MatchHolds, DoneIsMatched
<1> QED BY <1>1, MatchInit, MatchNext, PTL DEF Spec

-----------------------------------------------------------------------------
(* The grid.                                                                *)

\* Products grow with their factors.
LEMMA ProductsGrow == \A a, b, c \in Nat : a <= b => a * c <= b * c
<1> SUFFICES ASSUME NEW a \in Nat, NEW b \in Nat, NEW c \in Nat, a <= b
             PROVE  a * c <= b * c
    OBVIOUS
<1>1. (b - a) * c >= 0
    OBVIOUS
<1>2. (b - a) * c = b * c - a * c
    OBVIOUS
<1>3. a * c \in Int /\ b * c \in Int
    OBVIOUS
<1> QED BY <1>1, <1>2, <1>3

\* A number lies in one interval of the grid.
LEMMA Quotients ==
    \A m \in Nat : \A s \in Nat \ {0} :
        m \div s \in Nat /\ (m \div s) * s <= m /\ m < (m \div s + 1) * s
OBVIOUS

LEMMA QuotientIs ==
    \A m, q \in Nat : \A s \in Nat \ {0} : q * s <= m /\ m < (q + 1) * s => m \div s = q
<1> SUFFICES ASSUME NEW m \in Nat, NEW q \in Nat, NEW s \in Nat \ {0},
                    q * s <= m, m < (q + 1) * s
             PROVE  m \div s = q
    OBVIOUS
<1> DEFINE p == m \div s
<1>1. p \in Nat /\ p * s <= m /\ m < (p + 1) * s
    BY Quotients
<1> HIDE DEF p
<1>2. ASSUME p < q PROVE FALSE
    <2>1. (p + 1) * s <= q * s
        BY <1>1, <1>2, ProductsGrow
    <2> QED BY <2>1, <1>1
<1>3. ASSUME q < p PROVE FALSE
    <2>1. (q + 1) * s <= p * s
        BY <1>1, <1>3, ProductsGrow
    <2> QED BY <2>1, <1>1
<1> QED BY <1>1, <1>2, <1>3 DEF p

\* Where the frame of a slot's time or later lies: not before the slot.
LEMMA SlotsInOrder ==
    ASSUME NEW m \in Nat, NEW q \in Nat
    PROVE  /\ m \div SlotMs \in Nat
           /\ m >= q * SlotMs <=> m \div SlotMs >= q
           /\ m < (q + 1) * SlotMs <=> m \div SlotMs <= q
           /\ m < (m \div SlotMs + 1) * SlotMs
           /\ q * SlotMs \in Nat
<1> DEFINE p == m \div SlotMs
<1>1. SlotMs \in Nat /\ SlotMs \in Nat \ {0}
    BY GridAssumption
<1>2. p \in Nat /\ p * SlotMs <= m /\ m < (p + 1) * SlotMs
    BY <1>1, Quotients
<1>3. q * SlotMs \in Nat /\ p * SlotMs \in Nat /\ (p + 1) * SlotMs \in Nat
          /\ (q + 1) * SlotMs \in Nat
    BY <1>1, <1>2
<1> HIDE DEF p
<1>4. p >= q => p * SlotMs >= q * SlotMs
    BY <1>1, <1>2, ProductsGrow
<1>5. p < q => (p + 1) * SlotMs <= q * SlotMs
    BY <1>1, <1>2, ProductsGrow
<1>6. p <= q => (p + 1) * SlotMs <= (q + 1) * SlotMs
    BY <1>1, <1>2, ProductsGrow
<1>7. p > q => (q + 1) * SlotMs <= p * SlotMs
    BY <1>1, <1>2, ProductsGrow
<1> DEFINE A == q * SlotMs
           B == p * SlotMs
           C == (p + 1) * SlotMs
           E == (q + 1) * SlotMs
<1>8. A \in Nat /\ B \in Nat /\ C \in Nat /\ E \in Nat /\ p \in Nat /\ B <= m /\ m < C
      /\ (p >= q => B >= A) /\ (p < q => C <= A) /\ (p <= q => C <= E) /\ (p > q => E <= B)
    BY <1>2, <1>3, <1>4, <1>5, <1>6, <1>7
<1> HIDE DEF A, B, C, E
<1>9. /\ m >= A <=> p >= q
      /\ m < E <=> p <= q
      /\ m < C
    BY <1>8
<1> QED BY <1>2, <1>3, <1>9 DEF A, C, E, p

\* A video's frames are in the order of their times.
LEMMA FramesAre ==
    ASSUME TypeInv
    PROVE  /\ FrameNumbers \subseteq Nat /\ IsFiniteSet(FrameNumbers)
           /\ \A f \in FrameNumbers : TimeOf(f) \in Nat
           /\ \A f, g \in FrameNumbers : f <= g => TimeOf(f) <= TimeOf(g)
<1>1. FrameNumbers \subseteq Nat /\ IsFiniteSet(FrameNumbers)
    BY VideosAssumption DEF TypeInv, TypeOK, FrameNumbers
<1>2. FrameMs \in Nat
    BY GridAssumption
<1>3. \A f, g \in FrameNumbers : f <= g => f * FrameMs <= g * FrameMs
    BY <1>1, <1>2, ProductsGrow
<1>4. \A f \in FrameNumbers : f * FrameMs \in Nat
    BY <1>1, <1>2
<1> QED BY <1>1, <1>3, <1>4 DEF TimeOf

LEMMA GridInit == Init => GridInv
<1> SUFFICES ASSUME Init PROVE GridInv
    OBVIOUS
<1>1. DOMAIN detections = {} /\ worker.step = "idle" /\ worker.pending = {}
      /\ job.progress = NoProgress
    BY DEF Init, Idle
<1>2. ~ Reading
    BY <1>1 DEF Reading
<1>3. CursorHolds
    BY <1>2 DEF CursorHolds
<1>4. job.progress.lastMs = 0
    BY <1>1 DEF NoProgress
<1> QED BY <1>1, <1>3, <1>4, TypeInit DEF GridInv, PendingOnGrid, GridHolds

\* Samples behind the worker's frame and slot stay so until it samples again.
LEMMA GridFades ==
    ASSUME GridInv, TypeInv', video' = video, resumedIn \subseteq resumedIn',
           DOMAIN detections' = DOMAIN detections,
           \A d \in DOMAIN detections : detections'[d].t = detections[d].t,
           worker'.pending \subseteq worker.pending,
           CursorHolds',
           ~ job'.progress.sampled => job'.progress.lastMs = 0
    PROVE  GridInv'
<1>1. FrameNumbers' = FrameNumbers
    BY DEF FrameNumbers
<1>2. GridHolds'
    BY <1>1 DEF GridInv, GridHolds
<1>3. PendingOnGrid'
    BY <1>1 DEF GridInv, PendingOnGrid, FirstOf
<1> QED BY <1>2, <1>3 DEF GridInv

LEMMA CursorStays ==
    ASSUME CursorHolds, video' = video, resumedIn' = resumedIn, worker.step \in {"ready", "sampled", "committed"},
           worker'.frame = worker.frame, worker'.slot = worker.slot,
           worker'.startMs = worker.startMs
    PROVE  CursorHolds'
BY DEF CursorHolds, FrameNumbers, Reading

\* The next sample is the first frame of the worker's slot, unless that was resumed in.
LEMMA SampleIsFirst ==
    ASSUME GridInv, NEW f, NEW held, Sampled(f, held)
    PROVE  /\ worker.slot \in resumedIn \/ FirstOf(worker.slot, TimeOf(f))
           /\ \A g \in FrameNumbers : g <= f => TimeOf(g) < worker'.slot * SlotMs
           /\ worker'.slot = TimeOf(f) \div SlotMs + 1
           /\ worker.startMs < worker'.slot * SlotMs
           /\ worker'.slot * SlotMs \in Nat
           /\ worker.slot * SlotMs \in Nat
           /\ TimeOf(f) \in Nat /\ TimeOf(f) >= worker.slot * SlotMs
<1> DEFINE t == TimeOf(f)
           s == worker.slot
           S == worker.slot * SlotMs
<1>1. TypeInv /\ worker \in Worker
    BY DEF GridInv, TypeInv, WorkerHolds
<1>2. /\ f \in FrameNumbers /\ FrameNumbers \subseteq Nat /\ t \in Nat
      /\ \A g \in FrameNumbers : TimeOf(g) \in Nat
      /\ \A g \in FrameNumbers : f <= g => TimeOf(f) <= TimeOf(g)
      /\ \A g \in FrameNumbers : g <= f => TimeOf(g) <= TimeOf(f)
    BY <1>1, FramesAre DEF Sampled
<1>3. s \in Nat /\ worker.frame \in Nat /\ worker.startMs \in Nat
    BY <1>1 DEF Worker
<1>4. t >= S /\ t >= worker.startMs /\ f >= worker.frame
    BY DEF Sampled, OnGrid
<1>5. S \in Nat /\ t \div SlotMs \in Nat /\ t \div SlotMs >= s /\ t < (t \div SlotMs + 1) * SlotMs
    BY <1>2, <1>3, <1>4, SlotsInOrder
<1>6. worker'.slot = t \div SlotMs + 1
    BY <1>3, <1>5 DEF Sampled
<1>7. worker'.slot * SlotMs \in Nat /\ t < worker'.slot * SlotMs
    <2>1. worker'.slot \in Nat
        BY <1>5, <1>6
    <2> QED BY <1>2, <1>5, <1>6, <2>1, SlotsInOrder
<1> HIDE DEF t, S
<1>8. \A g \in FrameNumbers : g <= f => TimeOf(g) < worker'.slot * SlotMs
    <2> DEFINE E == worker'.slot * SlotMs
    <2> HIDE DEF E
    <2>1. E \in Nat /\ t < E
        BY <1>7 DEF E
    <2>2. \A g \in FrameNumbers : g <= f => TimeOf(g) < E
        BY <1>2, <2>1 DEF t
    <2> QED BY <2>2 DEF E
<1>9. worker.startMs < worker'.slot * SlotMs
    <2> DEFINE E == worker'.slot * SlotMs
    <2> HIDE DEF E
    <2>1. E \in Nat /\ t < E
        BY <1>7 DEF E
    <2> QED BY <1>2, <1>3, <1>4, <2>1 DEF E
<1>10. ASSUME s \notin resumedIn
       PROVE  FirstOf(s, t)
    <2>1. Reading
        BY DEF Sampled, ReadyForNext, FrameDone, Reading
    <2>2. /\ \A g \in FrameNumbers : g < worker.frame => TimeOf(g) < S
          /\ worker.startMs <= S
        BY <1>10, <2>1 DEF GridInv, CursorHolds, S
    <2>3. ASSUME NEW g \in FrameNumbers, TimeOf(g) >= S
          PROVE  TimeOf(g) >= t
        <3>1. g \in Nat /\ TimeOf(g) \in Nat
            BY <1>2
        <3>2. g >= worker.frame
            BY <1>3, <1>5, <2>2, <2>3, <3>1
        <3>3. TimeOf(g) >= worker.startMs
            BY <1>3, <1>5, <2>2, <2>3, <3>1
        <3>4. OnGrid(g)
            BY <2>3, <3>2, <3>3 DEF OnGrid, S
        <3>5. f <= g
            BY <3>4 DEF Sampled
        <3> QED BY <3>5, <1>2 DEF t
    <2> QED BY <1>4, <2>3 DEF FirstOf, S
<1> QED BY <1>2, <1>4, <1>5, <1>6, <1>7, <1>8, <1>9, <1>10 DEF t, S

\* A checkpoint's next millisecond is in its own slot, or begins the next one.
LEMMA ResumeIs ==
    ASSUME NEW ms \in Nat
    PROVE  LET q == ms \div SlotMs
               r == (ms + 1) \div SlotMs
           IN  /\ q \in Nat /\ r \in Nat /\ r * SlotMs \in Nat
               /\ ms + 1 < (r + 1) * SlotMs
               /\ \/ r = q
                  \/ r = q + 1 /\ ms + 1 = r * SlotMs
<1> DEFINE q == ms \div SlotMs
           r == (ms + 1) \div SlotMs
<1>1. SlotMs \in Nat \ {0} /\ ms + 1 \in Nat
    BY GridAssumption
<1>2. q \in Nat /\ q * SlotMs <= ms /\ ms < (q + 1) * SlotMs
    BY <1>1, Quotients
<1>3. r \in Nat /\ r * SlotMs <= ms + 1 /\ ms + 1 < (r + 1) * SlotMs
    BY <1>1, Quotients
<1>4. q * SlotMs \in Nat /\ (q + 1) * SlotMs \in Nat /\ r * SlotMs \in Nat
          /\ (q + 1 + 1) * SlotMs = (q + 1) * SlotMs + SlotMs /\ q + 1 \in Nat
    BY <1>1, <1>2, <1>3
<1> HIDE DEF q, r
<1>5. CASE ms + 1 < (q + 1) * SlotMs
    <2>1. q * SlotMs <= ms + 1
        BY <1>2, <1>4
    <2>2. r = q
        BY <1>1, <1>2, <1>5, <2>1, QuotientIs DEF r
    <2> QED BY <2>2, <1>2, <1>3, <1>4 DEF q, r
<1>6. CASE ~ (ms + 1 < (q + 1) * SlotMs)
    <2> DEFINE E == (q + 1) * SlotMs
    <2>1. E \in Nat /\ ms < E /\ ~ (ms + 1 < E)
        BY <1>2, <1>4, <1>6
    <2> HIDE DEF E
    <2>2. ms + 1 = E
        BY <2>1
    <2>3. (q + 1) * SlotMs <= ms + 1 /\ ms + 1 < (q + 1 + 1) * SlotMs
        BY <2>1, <2>2, <1>1, <1>4 DEF E
    <2>4. r = q + 1
        BY <1>1, <1>4, <2>3, QuotientIs DEF r
    <2> QED BY <2>2, <2>4, <1>2, <1>3, <1>4 DEF q, r, E
<1> QED BY <1>5, <1>6

LEMMA GridNext == GridInv /\ [Next]_vars => GridInv'
<1> SUFFICES ASSUME GridInv, [Next]_vars PROVE GridInv'
    OBVIOUS
<1>1. TypeInv /\ TypeInv' /\ CursorHolds
    BY TypeNext DEF GridInv
<1>2. worker \in Worker /\ job \in Jobs /\ job.progress \in Progress
      /\ (~ job.progress.sampled => job.progress.lastMs = 0)
    BY <1>1 DEF GridInv, TypeInv, WorkerHolds, Jobs
\* Where no row is written and no more boxes are held.
<1>3. ASSUME video' = video, resumedIn' = resumedIn, detections' = detections,
             worker'.pending \subseteq worker.pending, CursorHolds',
             job' = job \/ job'.progress = job.progress \/ job'.progress = NoProgress
                \/ job'.progress.sampled
      PROVE  GridInv'
    <2>1. ~ job'.progress.sampled => job'.progress.lastMs = 0
        BY <1>2, <1>3 DEF NoProgress
    <2> QED BY <1>1, <1>3, <2>1, GridFades
<1>4. CASE Begin
    <2> DEFINE ms == job.progress.lastMs
               p == job.progress
    <2>1. /\ worker'.pending = {} /\ worker'.frame = 0
          /\ worker'.startMs = ResumeMs(p) /\ worker'.slot = ResumeMs(p) \div SlotMs
        BY <1>1, <1>4, BeginIs
    <2>2. /\ video' = video /\ detections' = detections
          /\ resumedIn' = IF p.sampled THEN resumedIn \cup {ms \div SlotMs} ELSE resumedIn
          /\ job' = [job EXCEPT !.status = "running"]
        BY <1>4 DEF Begin, input
    <2>3. job'.progress = job.progress
        BY <1>2, <2>2 DEF Jobs
    <2>4. ms \in Nat
        BY <1>2 DEF Progress
    <2>5. CursorHolds'
        <3>1. \A f \in FrameNumbers : ~ (f < 0)
            BY <1>1, FramesAre
        <3>2. \A f \in FrameNumbers' : ~ (f < worker'.frame)
            BY <2>1, <2>2, <3>1 DEF FrameNumbers
        <3>3. CASE ms = 0
            <4>1. worker'.startMs = 0 /\ worker'.slot = 0
                BY <2>1, <3>3, GridAssumption DEF ResumeMs
            <4>2. 0 < (0 + 1) * SlotMs /\ 0 <= 0 * SlotMs
                BY GridAssumption
            <4> QED BY <3>2, <4>1, <4>2 DEF CursorHolds
        <3>4. CASE ms # 0
            <4>1. worker'.startMs = ms + 1 /\ worker'.slot = (ms + 1) \div SlotMs
                BY <2>1, <3>4 DEF ResumeMs
            <4>2. ms \div SlotMs \in resumedIn'
                BY <1>2, <2>2, <3>4
            <4>3. /\ ms + 1 < (worker'.slot + 1) * SlotMs
                  /\ \/ worker'.slot = ms \div SlotMs
                     \/ ms + 1 = worker'.slot * SlotMs
                  /\ worker'.slot * SlotMs \in Nat
                BY <2>4, <4>1, ResumeIs
            <4>4. worker'.startMs <= worker'.slot * SlotMs \/ worker'.slot \in resumedIn'
                BY <4>1, <4>2, <4>3
            <4> QED BY <3>2, <4>1, <4>3, <4>4 DEF CursorHolds
        <3> QED BY <3>3, <3>4
    <2>6. resumedIn \subseteq resumedIn'
        BY <2>2
    <2>7. ~ job'.progress.sampled => job'.progress.lastMs = 0
        BY <1>2, <2>3
    <2> QED BY <1>1, <2>1, <2>2, <2>5, <2>6, <2>7, GridFades
<1>5. CASE SampleFrame
    <2>1. PICK f, held : Sampled(f, held)
        BY <1>1, <1>5, SampleIs
    <2>2. /\ detections' = detections /\ video' = video /\ job' = job
          /\ resumedIn' = resumedIn
        BY <1>5 DEF SampleFrame, rows, input
    <2>3. FrameNumbers' = FrameNumbers
        BY <2>2 DEF FrameNumbers
    <2>4. CursorHolds'
        <3>1. /\ \A g \in FrameNumbers : g <= f => TimeOf(g) < worker'.slot * SlotMs
              /\ worker.startMs < worker'.slot * SlotMs
              /\ worker'.slot * SlotMs \in Nat
            BY <2>1, SampleIsFirst
        <3>2. f \in Nat /\ worker'.frame = f + 1 /\ worker'.startMs = worker.startMs
              /\ worker.startMs \in Nat /\ worker'.slot \in Nat /\ FrameNumbers \subseteq Nat
            BY <1>1, <1>2, <2>1, FramesAre DEF Sampled, Worker
        <3>3. \A g \in FrameNumbers : g < worker'.frame => TimeOf(g) < worker'.slot * SlotMs
            BY <3>1, <3>2
        <3>4. worker'.slot * SlotMs <= (worker'.slot + 1) * SlotMs
                  /\ (worker'.slot + 1) * SlotMs \in Nat
            BY <3>2, GridAssumption, ProductsGrow
        <3>5. worker'.startMs < (worker'.slot + 1) * SlotMs
                  /\ worker'.startMs <= worker'.slot * SlotMs
            <4> DEFINE A == worker'.slot * SlotMs
                       B == (worker'.slot + 1) * SlotMs
            <4>1. A \in Nat /\ B \in Nat /\ A <= B /\ worker.startMs < A
                      /\ worker'.startMs = worker.startMs /\ worker.startMs \in Nat
                BY <3>1, <3>2, <3>4
            <4> HIDE DEF A, B
            <4>2. worker'.startMs < B /\ worker'.startMs <= A
                BY <4>1
            <4> QED BY <4>2 DEF A, B
        <3> QED BY <2>3, <3>3, <3>5 DEF CursorHolds
    <2>5. PendingOnGrid'
        <3> SUFFICES ASSUME NEW b \in worker'.pending, b.slot \notin resumedIn
                     PROVE  FirstOf(b.slot, b.t)
            BY <2>2, <2>3 DEF PendingOnGrid, FirstOf
        <3>1. CASE b \in worker.pending
            BY <3>1 DEF GridInv, PendingOnGrid
        <3>2. CASE b \in held
            <4>1. b.slot = worker.slot /\ b.t = TimeOf(f)
                BY <2>1, <3>2 DEF Sampled
            <4> QED BY <2>1, <4>1, SampleIsFirst
        <3> QED BY <2>1, <3>1, <3>2 DEF Sampled
    <2>6. GridHolds'
        BY <2>2, <2>3 DEF GridInv, GridHolds
    <2> QED BY <1>1, <1>2, <2>2, <2>4, <2>5, <2>6 DEF GridInv
<1>6. ASSUME NEW next \in {"committed", "ready"}, CommitBatch(next),
             worker.step \in {"ready", "sampled"}
      PROVE  GridInv'
    <2>1. Committed(next)
        BY <1>1, <1>6, CommitIs
    <2>2. video' = video /\ job' = job /\ resumedIn' = resumedIn
        BY <1>6 DEF CommitBatch, input
    <2>3. FrameNumbers' = FrameNumbers
        BY <2>2 DEF FrameNumbers
    <2>4. CursorHolds'
        BY <1>1, <1>6, <2>1, <2>2, CursorStays DEF Committed
    <2>5. PendingOnGrid'
        BY <2>1 DEF Committed, PendingOnGrid
    <2>6. GridHolds'
        <3> SUFFICES ASSUME NEW d \in DOMAIN detections', d[1] \notin resumedIn
                     PROVE  FirstOf(d[1], detections'[d].t)
            BY <2>2, <2>3 DEF GridHolds, FirstOf
        <3>1. CASE d \in DOMAIN detections
            <4>1. detections'[d] = detections[d]
                BY <2>1, <3>1 DEF Committed
            <4> QED BY <3>1, <4>1 DEF GridInv, GridHolds, FirstOf
        <3>2. CASE d \notin DOMAIN detections
            <4>1. PICK b \in worker.pending :
                     /\ d = <<b.slot, b.det>>
                     /\ detections'[d] = [track |-> IdsAfter[b.key], t |-> b.t,
                                          passes |-> b.passes]
                BY <2>1, <3>2 DEF Committed
            <4>2. d[1] = b.slot /\ detections'[d].t = b.t
                BY <4>1
            <4> QED BY <4>2 DEF GridInv, PendingOnGrid
        <3> QED BY <3>1, <3>2
    <2> QED BY <1>1, <1>2, <2>2, <2>4, <2>5, <2>6 DEF GridInv
<1>7. CASE CommitDueBatch
    BY <1>6, <1>7 DEF CommitDueBatch, FrameDone
<1>8. CASE CommitLastBatch
    BY <1>6, <1>8 DEF CommitLastBatch, ReadyForNext, FrameDone
<1>9. ASSUME NEW k, Unwind(k)
      PROVE  GridInv'
    <2>1. PICK ids : Unwound(k, ids)
        BY <1>1, <1>9, UnwindIs
    <2>2. video' = video /\ job' = job /\ resumedIn' = resumedIn
        BY <1>9 DEF Unwind, input
    <2>3. CursorHolds'
        BY <1>1, <2>1, <2>2, CursorStays DEF Unwound
    <2>4. /\ DOMAIN detections' = DOMAIN detections
          /\ \A d \in DOMAIN detections : detections'[d].t = detections[d].t
        BY <1>1, <2>1, DroppedIs DEF Unwound
    <2>5. worker'.pending = worker.pending
        BY <2>1 DEF Unwound
    <2> QED BY <1>1, <1>2, <2>2, <2>3, <2>4, <2>5, GridFades
<1>10. CASE Checkpoint
    <2>1. worker' = [worker EXCEPT !.step = "ready"] /\ worker.step = "committed"
          /\ video' = video /\ detections' = detections /\ resumedIn' = resumedIn
          /\ job' = [job EXCEPT !.progress =
                 [sampled |-> TRUE, lastMs |-> worker.lastMs, decoded |-> worker.decoded,
                  counted |-> worker.counted]]
        BY <1>10 DEF Checkpoint, rows, input
    <2>2. job'.progress.sampled
        BY <1>2, <2>1 DEF Jobs
    <2>3. worker'.frame = worker.frame /\ worker'.slot = worker.slot
              /\ worker'.startMs = worker.startMs /\ worker'.pending = worker.pending
        BY <1>1, <2>1, MovedIs
    <2>4. CursorHolds'
        BY <1>1, <2>1, <2>3, CursorStays
    <2> QED BY <1>3, <2>1, <2>2, <2>3, <2>4
<1>11. CASE Sweep
    <2>1. Dropped(ShortTracks) /\ worker' = [worker EXCEPT !.step = "swept"]
          /\ video' = video /\ resumedIn' = resumedIn /\ job' = job
        BY <1>11 DEF Sweep, Dropped, input
    <2>2. worker'.step = "swept" /\ worker'.pending = worker.pending
        BY <1>1, <2>1, MovedIs
    <2>3. CursorHolds'
        BY <2>2 DEF CursorHolds, Reading
    <2>4. /\ DOMAIN detections' = DOMAIN detections
          /\ \A d \in DOMAIN detections : detections'[d].t = detections[d].t
        BY <1>1, <2>1, DroppedIs
    <2> QED BY <1>1, <1>2, <2>1, <2>2, <2>3, <2>4, GridFades
<1>12. CASE FinishMedia \/ MatchTracks \/ FailJob
    <2>1. video' = video /\ resumedIn' = resumedIn /\ detections' = detections
        BY <1>12 DEF FinishMedia, MatchTracks, FailJob, input, rows
    <2>2. job' = job \/ job' = [job EXCEPT !.status = "failed"]
        BY <1>12 DEF FinishMedia, MatchTracks, FailJob
    <2>3. job'.progress = job.progress
        BY <1>2, <2>2 DEF Jobs
    <2>4. \E s \in {"matching", "finishing", "marking"} : worker' = [worker EXCEPT !.step = s]
        BY <1>12 DEF FinishMedia, MatchTracks, FailJob
    <2>5. worker'.step \in {"matching", "finishing", "marking"}
              /\ worker'.pending = worker.pending
        BY <1>1, <2>4, MovedIs
    <2>6. CursorHolds'
        BY <2>5 DEF CursorHolds, Reading
    <2> QED BY <1>3, <2>1, <2>3, <2>5, <2>6
<1>13. CASE Finish \/ Fails \/ MarkFailed \/ Restart \/ Crash
    <2>1. video' = video /\ resumedIn' = resumedIn /\ detections' = detections
        BY <1>13 DEF Finish, Fails, MarkFailed, Restart, Crash, input, rows
    <2>2. \/ worker' = Idle
          \/ worker' = [Idle EXCEPT !.step = "failing"]
          \/ worker' = [Idle EXCEPT !.step = "down"]
        BY <1>13 DEF Finish, Fails, MarkFailed, Restart, Crash
    <2>3. \/ job' = job \/ job' = [job EXCEPT !.status = "done"]
          \/ job' = [job EXCEPT !.status = IF job.status = "running" THEN "queued" ELSE job.status]
        BY <1>13 DEF Finish, Fails, MarkFailed, Restart, Crash
    <2>4. job'.progress = job.progress
        BY <1>2, <2>3 DEF Jobs
    <2>5. worker'.step \in {"idle", "failing", "down"} /\ worker'.pending = {}
        BY <2>2, LetGo
    <2>6. CursorHolds'
        BY <2>5 DEF CursorHolds, Reading
    <2> QED BY <1>3, <2>1, <2>4, <2>5, <2>6
<1>14. CASE SecondJob \/ (\E id \in tracks : Decide(id)) \/ UNCHANGED vars
    <2>1. video' = video /\ resumedIn' = resumedIn /\ detections' = detections
              /\ worker' = worker
        BY <1>14 DEF SecondJob, Decide, vars, input, rows
    <2>2. job' = job \/ job'.progress = NoProgress
        BY <1>14 DEF SecondJob, Decide, vars
    <2>3. CursorHolds'
        BY <1>1, <2>1 DEF CursorHolds, FrameNumbers, Reading
    <2> QED BY <1>3, <2>1, <2>2, <2>3
<1> QED BY <1>4, <1>5, <1>7, <1>8, <1>9, <1>10, <1>11, <1>12, <1>13, <1>14 DEF Next, WorkerStep

(* The frame of a slot is the first one at or after the slot's time, whoever sampled *)
(* it, except in a slot a checkpoint was resumed in.                           *)
THEOREM FramesAreOnGrid == Spec => []GridHolds
<1>1. GridInv => GridHolds
    BY DEF GridInv
<1> QED BY <1>1, GridInit, GridNext, PTL DEF Spec

-----------------------------------------------------------------------------
(* The counts.                                                              *)

\* Slots are counted one by one.
LEMMA SlotsAre ==
    ASSUME TypeInv
    PROVE  /\ IsFiniteSet(Slots) /\ Slots \subseteq Nat /\ Cardinality(Slots) \in Nat
           /\ \A n : IsFiniteSet(SlotsBefore(n)) /\ CountTo(n) \in Nat
           /\ CountTo(0) = 0
           /\ \A n \in Slots : CountTo(n + 1) = CountTo(n) + 1
<1>1. IsFiniteSet(FrameNumbers) /\ \A f \in FrameNumbers : TimeOf(f) \in Nat
    BY FramesAre
<1>2. IsFiniteSet(Slots)
    <2> DEFINE g == [f \in FrameNumbers |-> TimeOf(f) \div SlotMs]
    <2>1. Slots = Values(g) /\ DOMAIN g = FrameNumbers
        BY DEF Values, Slots
    <2> HIDE DEF g
    <2> QED BY <1>1, <2>1, ImagesAreFinite
<1>3. Slots \subseteq Nat
    BY <1>1, GridAssumption, Quotients DEF Slots
<1>4. \A n : SlotsBefore(n) \subseteq Slots
    BY DEF SlotsBefore
<1>5. \A n : IsFiniteSet(SlotsBefore(n))
    BY <1>2, <1>4, FS_Subset
<1>6. \A n : CountTo(n) \in Nat
    BY <1>5, FS_CardinalityType DEF CountTo
<1>7. CountTo(0) = 0
    <2>1. SlotsBefore(0) = {}
        <3>1. \A s \in Slots : ~ (s < 0)
            BY <1>3
        <3> QED BY <3>1, Zenon DEF SlotsBefore
    <2> QED BY <2>1, FS_EmptySet DEF CountTo
<1>8. ASSUME NEW n \in Slots
      PROVE  CountTo(n + 1) = CountTo(n) + 1
    <2>1. \A s \in Slots : s < n + 1 <=> s < n \/ s = n
        BY <1>3
    <2>2. SlotsBefore(n + 1) = SlotsBefore(n) \cup {n} /\ n \notin SlotsBefore(n)
        <3>1. ~ (n < n)
            BY <1>3
        <3>2. SlotsBefore(n + 1) = SlotsBefore(n) \cup {n}
            BY <2>1, Zenon DEF SlotsBefore
        <3> QED BY <3>1, <3>2, Zenon DEF SlotsBefore
    <2>3. Cardinality(SlotsBefore(n) \cup {n}) = Cardinality(SlotsBefore(n)) + 1
        BY <1>5, <2>2, FS_AddElement
    <2> QED BY <2>2, <2>3 DEF CountTo
<1>9. Cardinality(Slots) \in Nat
    BY <1>2, FS_CardinalityType
<1> QED BY <1>2, <1>3, <1>5, <1>6, <1>7, <1>8, <1>9

\* No slot between the worker's and that of the next frame on the grid is left out, but
\* the worker's own when it resumed behind all frames of it.
LEMMA NoneSkipped ==
    ASSUME GridInv, Reading, NEW s \in Slots, s >= worker.slot,
           \A g \in FrameNumbers : OnGrid(g) => TimeOf(g) \div SlotMs > s
    PROVE  s = worker.slot /\ worker.startMs > worker.slot * SlotMs
<1>1. TypeInv /\ worker \in Worker
    BY DEF GridInv, TypeInv, WorkerHolds
<1>2. worker.slot \in Nat /\ worker.startMs \in Nat /\ worker.frame \in Nat
    BY <1>1 DEF Worker
<1>3. PICK g \in FrameNumbers : s = TimeOf(g) \div SlotMs
    BY DEF Slots
<1> DEFINE t == TimeOf(g)
           S == worker.slot * SlotMs
<1>4. g \in Nat /\ t \in Nat
    BY <1>1, FramesAre
<1>5. s \in Nat /\ S \in Nat /\ t >= S
          /\ (\A m \in Nat : m < (worker.slot + 1) * SlotMs <=> m \div SlotMs <= worker.slot)
    BY <1>2, <1>3, <1>4, SlotsInOrder
<1>6. ~ OnGrid(g)
    BY <1>3, <1>5
<1>7. g >= worker.frame
    <2>1. g < worker.frame => t < S
        BY DEF GridInv, CursorHolds
    <2> HIDE DEF S, t
    <2> QED BY <2>1, <1>2, <1>4, <1>5
<1>8. t < worker.startMs
    <2>1. ~ (t >= worker.startMs)
        BY <1>5, <1>6, <1>7 DEF OnGrid
    <2> HIDE DEF t
    <2> QED BY <2>1, <1>2, <1>4
<1>9. worker.startMs < (worker.slot + 1) * SlotMs /\ (worker.slot + 1) * SlotMs \in Nat
    BY <1>2, GridAssumption DEF GridInv, CursorHolds
<1>10. t < (worker.slot + 1) * SlotMs
    <2> DEFINE E == (worker.slot + 1) * SlotMs
    <2>1. E \in Nat /\ worker.startMs < E
        BY <1>9
    <2> HIDE DEF E, t
    <2>2. t < E
        BY <2>1, <1>2, <1>4, <1>8
    <2> QED BY <2>2 DEF E
<1>11. s <= worker.slot
    BY <1>3, <1>4, <1>5, <1>10
<1> HIDE DEF t, S
<1>12. worker.startMs > S
    BY <1>2, <1>4, <1>5, <1>8
<1> QED BY <1>2, <1>5, <1>11, <1>12 DEF S

\* Where it resumed within its slot, the worker has counted that slot.
Ahead == worker.startMs > worker.slot * SlotMs

\* A sample counts one slot more, or the one that was counted before it was resumed.
LEMMA SampleCounts ==
    ASSUME GridInv, DecodedHolds, NEW f, NEW held, Sampled(f, held)
    PROVE  /\ TimeOf(f) \div SlotMs \in Slots
           /\ worker'.slot = TimeOf(f) \div SlotMs + 1
           /\ worker'.decoded \in CountTo(worker'.slot)..(CountTo(worker'.slot) + crashes)
<1> DEFINE q == TimeOf(f) \div SlotMs
           s == worker.slot
           c == CountTo(s)
           n == CountTo(q + 1)
<1>1. TypeInv /\ worker \in Worker /\ Reading /\ crashes \in Nat
    BY BoundsAssumption DEF GridInv, TypeInv, TypeOK, WorkerHolds, Sampled, ReadyForNext, FrameDone, Reading
<1>2. q \in Slots /\ q \in Nat
    BY <1>1, SlotsAre DEF Sampled, Slots
<1>3. s \in Nat /\ worker.decoded \in Nat /\ worker'.decoded = worker.decoded + 1
          /\ worker.startMs \in Nat
    BY <1>1 DEF Worker, Sampled
<1>4. TimeOf(f) \in Nat /\ worker'.slot = q + 1 /\ s <= q
    <2>1. TimeOf(f) \in Nat /\ TimeOf(f) >= worker.slot * SlotMs /\ worker'.slot = q + 1
        BY SampleIsFirst
    <2> QED BY <2>1, <1>3, SlotsInOrder
<1>5. /\ worker.decoded \in c..(c + crashes)
      /\ Ahead => s \in Slots /\ worker.decoded >= c + 1
    BY <1>1 DEF DecodedHolds, Ahead
<1>6. ASSUME NEW r \in Slots, s <= r, r < q
      PROVE  r = s /\ Ahead
    <2>1. \A g \in FrameNumbers : OnGrid(g) => TimeOf(g) \div SlotMs > r
        <3> SUFFICES ASSUME NEW g \in FrameNumbers, OnGrid(g)
                     PROVE  TimeOf(g) \div SlotMs > r
            OBVIOUS
        <3>1. f <= g
            BY DEF Sampled
        <3>2. TimeOf(g) \in Nat /\ TimeOf(f) <= TimeOf(g)
            BY <1>1, <3>1, FramesAre DEF Sampled
        <3>3. q * SlotMs <= TimeOf(f) /\ q * SlotMs \in Nat
            BY <1>2, <1>4, GridAssumption, Quotients
        <3>4. TimeOf(g) >= q * SlotMs
            <4> DEFINE E == q * SlotMs
            <4>1. E \in Nat /\ E <= TimeOf(f)
                BY <3>3
            <4> HIDE DEF E
            <4>2. TimeOf(g) >= E
                BY <4>1, <3>2, <1>4
            <4> QED BY <4>2 DEF E
        <3>5. TimeOf(g) \div SlotMs >= q /\ TimeOf(g) \div SlotMs \in Nat
            BY <1>2, <3>2, <3>4, SlotsInOrder
        <3>6. r \in Nat
            BY <1>1, SlotsAre
        <3> HIDE DEF q
        <3> QED BY <3>5, <3>6, <1>2, <1>6
    <2>2. r >= s
        BY <1>6, <1>3, <1>1, SlotsAre
    <2> QED BY <1>1, <2>1, <2>2, NoneSkipped DEF Ahead
<1>7. c \in Nat /\ n = CountTo(q) + 1 /\ CountTo(q) \in Nat /\ Slots \subseteq Nat
    BY <1>1, <1>2, SlotsAre
<1> HIDE DEF q, s
<1>8. CASE ~ Ahead \/ s = q
    <2>1. SlotsBefore(q) = SlotsBefore(s)
        <3>1. \A r \in Slots : r < q <=> r < s
            <4> SUFFICES ASSUME NEW r \in Slots PROVE r < q <=> r < s
                OBVIOUS
            <4>1. r \in Nat
                BY <1>7
            <4>2. ~ (s <= r /\ r < q)
                <5>1. CASE s = q
                    BY <5>1, <4>1, <1>2
                <5>2. CASE ~ Ahead
                    BY <5>2, <1>6
                <5> QED BY <5>1, <5>2, <1>8
            <4> QED BY <4>1, <4>2, <1>2, <1>3, <1>4
        <3> QED BY <3>1 DEF SlotsBefore
    <2>2. CountTo(q) = c
        BY <2>1 DEF CountTo
    <2> QED BY <2>2, <1>1, <1>2, <1>3, <1>4, <1>5, <1>7 DEF q
<1>9. CASE Ahead /\ s # q
    <2>1. s \in Slots /\ worker.decoded >= c + 1
        BY <1>5, <1>9
    <2>2. SlotsBefore(q) = SlotsBefore(s + 1)
        <3>1. \A r \in Slots : r < q <=> r < s + 1
            <4> SUFFICES ASSUME NEW r \in Slots PROVE r < q <=> r < s + 1
                OBVIOUS
            <4>1. r \in Nat
                BY <1>7
            <4>2. ~ (s <= r /\ r < q) \/ r = s
                BY <1>6
            <4> QED BY <4>1, <4>2, <1>2, <1>3, <1>4, <1>9
        <3> QED BY <3>1 DEF SlotsBefore
    <2>3. CountTo(q) = c + 1
        BY <1>1, <2>1, <2>2, SlotsAre DEF CountTo
    <2> QED BY <2>1, <2>3, <1>1, <1>2, <1>3, <1>4, <1>5, <1>7 DEF q
<1> QED BY <1>8, <1>9

\* At the end of the file every slot was counted.
LEMMA AllCounted ==
    ASSUME GridInv, DecodedHolds, Reading, EndOfFile
    PROVE  worker.decoded \in Cardinality(Slots)..(Cardinality(Slots) + crashes)
<1> DEFINE s == worker.slot
           c == CountTo(s)
           all == Cardinality(Slots)
<1>1. TypeInv /\ worker \in Worker /\ crashes \in Nat
    BY BoundsAssumption DEF GridInv, TypeInv, TypeOK, WorkerHolds
<1>2. s \in Nat /\ worker.decoded \in Nat
    BY <1>1 DEF Worker
<1>3. /\ worker.decoded \in c..(c + crashes)
      /\ Ahead => s \in Slots /\ worker.decoded >= c + 1
    BY DEF DecodedHolds, Ahead
<1>4. c \in Nat /\ all \in Nat /\ Slots \subseteq Nat /\ (s \in Slots => CountTo(s + 1) = c + 1)
    BY <1>1, SlotsAre
<1>5. ASSUME NEW r \in Slots, r >= s
      PROVE  r = s /\ Ahead
    BY <1>5, NoneSkipped DEF EndOfFile, Ahead
<1> HIDE DEF s
<1>6. CASE Ahead
    <2>1. \A r \in Slots : r < s + 1
        <3> SUFFICES ASSUME NEW r \in Slots PROVE r < s + 1
            OBVIOUS
        <3>1. r \in Nat /\ (~ (r >= s) \/ r = s)
            BY <1>4, <1>5
        <3> QED BY <3>1, <1>2
    <2>2. SlotsBefore(s + 1) = Slots
        BY <2>1 DEF SlotsBefore
    <2>3. all = c + 1
        BY <1>3, <1>4, <1>6, <2>2 DEF CountTo
    <2> QED BY <2>3, <1>1, <1>2, <1>3, <1>4, <1>6
<1>7. CASE ~ Ahead
    <2>1. \A r \in Slots : r < s
        <3> SUFFICES ASSUME NEW r \in Slots PROVE r < s
            OBVIOUS
        <3>1. r \in Nat /\ ~ (r >= s)
            BY <1>4, <1>5, <1>7
        <3> QED BY <3>1, <1>2
    <2>2. SlotsBefore(s) = Slots
        BY <2>1 DEF SlotsBefore
    <2>3. all = c
        BY <2>2 DEF CountTo
    <2> QED BY <2>3, <1>3
<1> QED BY <1>6, <1>7

LEMMA CountInit == Init => CountInv
<1> SUFFICES ASSUME Init PROVE CountInv
    OBVIOUS
<1>1. worker.step = "idle" /\ job.progress = NoProgress
    BY DEF Init, Idle
<1>2. ~ Reading /\ ~ job.progress.sampled /\ job.progress.decoded = 0
    BY <1>1 DEF Reading, NoProgress
<1> QED BY <1>1, <1>2, GridInit DEF CountInv, SampledHolds, DecodedHolds, ProgressHolds, CountsAreTrue

\* Resumed, the worker has counted the slots before its own, and its own when it is
\* within it: one crash more than its checkpoint knows of.
LEMMA BeginCounts ==
    ASSUME CountInv, Begin
    PROVE  /\ worker'.decoded \in CountTo(worker'.slot)..(CountTo(worker'.slot) + crashes)
           /\ worker'.startMs > worker'.slot * SlotMs =>
                 worker'.slot \in Slots /\ worker'.decoded >= CountTo(worker'.slot) + 1
<1> DEFINE p == job.progress
           ms == p.lastMs
           q == ms \div SlotMs
<1>1. TypeInv /\ GridInv
    BY DEF CountInv, GridInv
<1>2. p \in Progress /\ job.status = "queued" /\ crashes \in Nat
    BY <1>1, BoundsAssumption DEF TypeInv, TypeOK, Begin
<1>3. ms \in Nat /\ p.decoded \in Nat
    BY <1>2 DEF Progress
<1>4. /\ worker'.startMs = ResumeMs(p) /\ worker'.slot = ResumeMs(p) \div SlotMs
      /\ worker'.decoded = p.decoded
    BY <1>1, BeginIs
<1>5. /\ p.sampled => /\ q \in Slots
                      /\ p.decoded >= CountTo(q + 1)
                      /\ p.decoded < CountTo(q + 1) + crashes
      /\ ~ p.sampled => p.decoded = 0 /\ ms = 0
    BY <1>2 DEF CountInv, GridInv, ProgressHolds
<1>6. /\ CountTo(0) = 0 /\ Slots \subseteq Nat /\ \A n : CountTo(n) \in Nat
      /\ \A n \in Slots : CountTo(n + 1) = CountTo(n) + 1
    BY <1>1, SlotsAre
<1>7. CASE ms = 0
    <2>1. ResumeMs(p) = 0 /\ 0 \div SlotMs = 0 /\ 0 * SlotMs = 0
        BY <1>7, GridAssumption DEF ResumeMs
    <2>2. worker'.startMs = 0 /\ worker'.slot = 0
        BY <1>4, <2>1
    <2>3. q = 0
        BY <1>7, <2>1
    <2>4. p.decoded \in 0..crashes
        <3>1. CASE p.sampled
            <4>1. CountTo(0 + 1) = 1
                BY <1>5, <1>6, <2>3, <3>1
            <4> QED BY <1>2, <1>3, <1>5, <2>3, <3>1, <4>1
        <3>2. CASE ~ p.sampled
            BY <1>2, <1>5, <3>2
        <3> QED BY <3>1, <3>2
    <2> QED BY <1>2, <1>4, <1>6, <2>1, <2>2, <2>4
<1>8. CASE ms # 0
    <2>1. ResumeMs(p) = ms + 1 /\ p.sampled
        BY <1>5, <1>8 DEF ResumeMs
    <2>2. worker'.startMs = ms + 1 /\ worker'.slot = (ms + 1) \div SlotMs
        BY <1>4, <2>1
    <2>3. /\ worker'.slot * SlotMs \in Nat
          /\ worker'.slot = q \/ (worker'.slot = q + 1 /\ ms + 1 = worker'.slot * SlotMs)
        BY <1>3, <2>2, ResumeIs
    <2>4. q \in Slots /\ CountTo(q + 1) = CountTo(q) + 1 /\ CountTo(q) \in Nat
              /\ p.decoded >= CountTo(q + 1) /\ p.decoded < CountTo(q + 1) + crashes
        BY <1>5, <1>6, <2>1
    <2> HIDE DEF q, p
    <2>5. CASE worker'.slot = q
        BY <1>2, <1>3, <1>4, <2>4, <2>5 DEF p
    <2>6. CASE worker'.slot = q + 1 /\ ms + 1 = worker'.slot * SlotMs
        <3>1. ~ (worker'.startMs > worker'.slot * SlotMs)
            BY <1>3, <2>2, <2>6
        <3> QED BY <1>2, <1>3, <1>4, <2>4, <2>6, <3>1 DEF p
    <2> QED BY <2>3, <2>5, <2>6
<1> QED BY <1>7, <1>8

LEMMA CountNext == CountInv /\ [Next]_vars => CountInv'
<1> SUFFICES ASSUME CountInv, [Next]_vars PROVE CountInv'
    OBVIOUS
<1>1. TypeInv /\ TypeInv' /\ GridInv /\ GridInv'
    BY GridNext, TypeNext DEF CountInv, GridInv
<1>2. worker \in Worker /\ job \in Jobs /\ job.progress \in Progress /\ crashes \in Nat
      /\ (worker.step \notin {"idle", "down", "marking"} => job.status = "running")
    BY <1>1, BoundsAssumption DEF TypeInv, TypeOK, WorkerHolds, Jobs
<1>3. /\ SampledHolds /\ DecodedHolds /\ ProgressHolds /\ CountsAreTrue
      /\ ~ job.progress.sampled => job.progress.decoded = 0
    BY DEF CountInv
<1>4. ASSUME video' = video
      PROVE  Slots' = Slots /\ \A n : CountTo(n)' = CountTo(n)
    BY <1>4 DEF Slots, FrameNumbers, CountTo, SlotsBefore
\* The checkpoint stays, and is resumed only where it could be before.
<1> DEFINE ProgressIs == ProgressHolds' /\ (~ job'.progress.sampled => job'.progress.decoded = 0)
<1>5. ASSUME video' = video, job'.progress = job.progress, crashes' = crashes,
             worker'.step = "down" \/ job'.status = "queued" =>
                worker.step = "down" \/ job.status = "queued"
      PROVE  ProgressIs
    <2>1. Slots' = Slots /\ \A n : CountTo(n)' = CountTo(n)
        BY <1>4, <1>5
    <2> QED BY <1>3, <1>5, <2>1 DEF ProgressHolds, CountTo, SlotsBefore
\* Where the worker neither reads nor ends its file it claims nothing.
<1>6. ASSUME worker'.step \notin {"ready", "sampled", "committed", "swept", "matching", "finishing"},
             ProgressIs
      PROVE  CountInv'
    <2>1. SampledHolds' /\ DecodedHolds' /\ CountsAreTrue'
        BY <1>6 DEF SampledHolds, DecodedHolds, CountsAreTrue, Reading
    <2> QED BY <1>1, <1>6, <2>1 DEF CountInv
\* A worker that only writes keeps its counts.
<1>7. ASSUME worker'.step \in {"ready", "sampled", "committed"},
             worker.step \in {"ready", "sampled", "committed"},
             worker'.step \in {"sampled", "committed"} => worker.step \in {"sampled", "committed"},
             worker'.slot = worker.slot, worker'.lastMs = worker.lastMs,
             worker'.startMs = worker.startMs, worker'.decoded = worker.decoded,
             video' = video, crashes' = crashes, ProgressIs
      PROVE  CountInv'
    <2>1. Slots' = Slots /\ \A n : CountTo(n)' = CountTo(n)
        BY <1>4, <1>7
    <2>2. SampledHolds'
        BY <1>3, <1>7, <2>1 DEF SampledHolds
    <2>3. DecodedHolds'
        BY <1>3, <1>7, <2>1 DEF DecodedHolds, Reading, CountTo, SlotsBefore
    <2>4. CountsAreTrue'
        BY <1>7 DEF CountsAreTrue
    <2> QED BY <1>1, <1>7, <2>2, <2>3, <2>4 DEF CountInv
\* A worker past its file keeps them too.
<1>8. ASSUME worker'.step \in {"swept", "matching", "finishing"},
             worker.step \in {"swept", "matching", "finishing"},
             worker'.decoded = worker.decoded, video' = video, crashes' = crashes, ProgressIs
      PROVE  CountInv'
    <2>1. Slots' = Slots
        BY <1>4, <1>8
    <2>2. CountsAreTrue'
        BY <1>3, <1>8, <2>1 DEF CountsAreTrue
    <2>3. SampledHolds' /\ DecodedHolds'
        BY <1>8 DEF SampledHolds, DecodedHolds, Reading
    <2> QED BY <1>1, <1>8, <2>2, <2>3 DEF CountInv
<1> HIDE DEF ProgressIs
<1>9. CASE Begin
    <2>1. worker'.step = "ready" /\ video' = video /\ crashes' = crashes
              /\ job' = [job EXCEPT !.status = "running"]
        BY <1>1, <1>9, BeginIs DEF Begin, input
    <2>2. job'.progress = job.progress /\ job'.status = "running"
        BY <1>2, <2>1 DEF Jobs
    <2>3. ProgressIs
        BY <1>5, <2>1, <2>2
    <2>4. Slots' = Slots /\ \A n : CountTo(n)' = CountTo(n)
        BY <1>4, <2>1
    <2>5. DecodedHolds'
        BY <1>9, <2>1, <2>4, BeginCounts DEF DecodedHolds, CountTo, SlotsBefore
    <2>6. SampledHolds' /\ CountsAreTrue'
        BY <2>1 DEF SampledHolds, CountsAreTrue
    <2> QED BY <1>1, <2>3, <2>5, <2>6 DEF CountInv, ProgressIs
<1>10. CASE SampleFrame
    <2>1. PICK f, held : Sampled(f, held)
        BY <1>1, <1>10, SampleIs
    <2>2. video' = video /\ job' = job /\ crashes' = crashes /\ worker'.step = "sampled"
              /\ worker'.lastMs = TimeOf(f) /\ worker.step \in {"ready", "sampled"}
              /\ worker'.startMs = worker.startMs
        BY <1>10, <2>1 DEF SampleFrame, rows, input, Sampled, ReadyForNext, FrameDone
    <2>3. ProgressIs
        BY <1>2, <1>5, <2>2
    <2>4. Slots' = Slots /\ \A n : CountTo(n)' = CountTo(n)
        BY <1>4, <2>2
    <2>5. /\ TimeOf(f) \div SlotMs \in Slots
          /\ worker'.slot = TimeOf(f) \div SlotMs + 1
          /\ worker'.decoded \in CountTo(worker'.slot)..(CountTo(worker'.slot) + crashes)
        BY <1>1, <1>3, <2>1, SampleCounts
    <2>6. ~ (worker'.startMs > worker'.slot * SlotMs)
        <3>1. worker.startMs < worker'.slot * SlotMs /\ worker'.slot * SlotMs \in Nat
            BY <1>1, <2>1, SampleIsFirst
        <3>2. worker.startMs \in Nat
            BY <1>2 DEF Worker
        <3> DEFINE E == worker'.slot * SlotMs
        <3>3. E \in Nat /\ worker.startMs < E
            BY <3>1
        <3> HIDE DEF E
        <3>4. ~ (worker'.startMs > E)
            BY <3>2, <3>3, <2>2
        <3> QED BY <3>4 DEF E
    <2>7. SampledHolds'
        BY <2>2, <2>4, <2>5 DEF SampledHolds
    <2>8. DecodedHolds'
        BY <2>2, <2>4, <2>5, <2>6 DEF DecodedHolds, CountTo, SlotsBefore
    <2>9. CountsAreTrue'
        BY <2>2 DEF CountsAreTrue
    <2> QED BY <1>1, <2>3, <2>7, <2>8, <2>9 DEF CountInv, ProgressIs
<1>11. ASSUME NEW k, Unwind(k)
       PROVE  CountInv'
    <2>1. PICK ids : Unwound(k, ids)
        BY <1>1, <1>11, UnwindIs
    <2>2. video' = video /\ job' = job /\ crashes' = crashes
        BY <1>11 DEF Unwind, input
    <2>3. worker.step = "sampled" /\ worker'.step = "sampled" /\ worker'.slot = worker.slot
              /\ worker'.lastMs = worker.lastMs /\ worker'.startMs = worker.startMs
              /\ worker'.decoded = worker.decoded
        BY <2>1 DEF Unwound
    <2>4. ProgressIs
        BY <1>2, <1>5, <2>2, <2>3
    <2> QED BY <1>7, <2>2, <2>3, <2>4
<1>12. ASSUME NEW next \in {"committed", "ready"}, CommitBatch(next),
              worker.step \in {"ready", "sampled"}, next = "committed" => worker.step = "sampled"
       PROVE  CountInv'
    <2>1. Committed(next)
        BY <1>1, <1>12, CommitIs
    <2>2. video' = video /\ job' = job /\ crashes' = crashes
        BY <1>12 DEF CommitBatch, input
    <2>3. worker'.step = next /\ worker'.slot = worker.slot
              /\ worker'.lastMs = worker.lastMs /\ worker'.startMs = worker.startMs
              /\ worker'.decoded = worker.decoded
        BY <2>1 DEF Committed
    <2>4. ProgressIs
        BY <1>2, <1>5, <1>12, <2>2, <2>3
    <2> QED BY <1>7, <1>12, <2>2, <2>3, <2>4
<1>13. CASE CommitDueBatch
    BY <1>12, <1>13 DEF CommitDueBatch, FrameDone
<1>14. CASE CommitLastBatch
    BY <1>12, <1>14 DEF CommitLastBatch, ReadyForNext, FrameDone
<1>15. CASE Checkpoint
    <2> DEFINE p == [sampled |-> TRUE, lastMs |-> worker.lastMs, decoded |-> worker.decoded,
                     counted |-> worker.counted]
    <2>1. worker' = [worker EXCEPT !.step = "ready"] /\ job' = [job EXCEPT !.progress = p]
          /\ worker.step = "committed" /\ video' = video /\ crashes' = crashes
        BY <1>15 DEF Checkpoint, input
    <2>2. worker'.step = "ready" /\ worker'.slot = worker.slot
              /\ worker'.lastMs = worker.lastMs /\ worker'.startMs = worker.startMs
              /\ worker'.decoded = worker.decoded
        BY <1>1, <2>1, MovedIs
    <2>3. p.lastMs = worker.lastMs /\ p.decoded = worker.decoded /\ p.sampled
        OBVIOUS
    <2> HIDE DEF p
    <2>4. job'.progress = p /\ job'.status = "running"
        BY <1>2, <2>1 DEF Jobs
    <2>5. worker.lastMs \div SlotMs \in Slots /\ worker.slot = worker.lastMs \div SlotMs + 1
        BY <1>3, <2>1 DEF SampledHolds
    <2>6. worker.decoded \in CountTo(worker.slot)..(CountTo(worker.slot) + crashes)
              /\ CountTo(worker.slot) \in Nat
        BY <1>1, <1>3, <2>1, SlotsAre DEF DecodedHolds, Reading
    <2>7. Slots' = Slots /\ \A n : CountTo(n)' = CountTo(n)
        BY <1>4, <2>1
    <2>8. ProgressHolds'
        <3> DEFINE n == CountTo(worker.slot)
        <3>1. worker.decoded >= n /\ worker.decoded <= n + crashes
            BY <1>2, <2>6
        <3>2. job'.progress.lastMs \div SlotMs + 1 = worker.slot
                  /\ job'.progress.lastMs \div SlotMs \in Slots' /\ job'.progress.decoded = worker.decoded
            BY <2>3, <2>4, <2>5, <2>7
        <3>3. CountTo(job.progress.lastMs \div SlotMs + 1)' = n
            BY <2>7, <3>2 DEF CountTo, SlotsBefore
        <3>4. worker'.step # "down" /\ job'.status # "queued"
            BY <2>2, <2>4
        <3> HIDE DEF n
        <3> QED BY <2>1, <3>1, <3>2, <3>3, <3>4 DEF ProgressHolds
    <2>9. ProgressIs
        BY <2>3, <2>4, <2>8 DEF ProgressIs
    <2> QED BY <1>7, <2>1, <2>2, <2>9
<1>16. CASE Sweep
    <2>1. worker' = [worker EXCEPT !.step = "swept"] /\ video' = video /\ crashes' = crashes
          /\ job' = job /\ worker.step \in {"ready", "sampled"} /\ EndOfFile
        BY <1>16 DEF Sweep, ReadyForNext, FrameDone, input
    <2>2. worker'.step = "swept" /\ worker'.decoded = worker.decoded
        BY <1>1, <2>1, MovedIs
    <2>3. worker.decoded \in Cardinality(Slots)..(Cardinality(Slots) + crashes)
        BY <1>1, <1>3, <2>1, AllCounted DEF Reading
    <2>4. CountsAreTrue'
        BY <1>4, <2>1, <2>2, <2>3 DEF CountsAreTrue
    <2>5. ProgressIs
        BY <1>2, <1>5, <2>1, <2>2
    <2>6. SampledHolds' /\ DecodedHolds'
        BY <2>2 DEF SampledHolds, DecodedHolds, Reading
    <2> QED BY <1>1, <2>4, <2>5, <2>6 DEF CountInv, ProgressIs
<1>17. CASE FinishMedia \/ MatchTracks
    <2>1. /\ video' = video /\ job' = job /\ crashes' = crashes
          /\ worker.step \in {"swept", "matching"}
          /\ \E s \in {"matching", "finishing"} : worker' = [worker EXCEPT !.step = s]
        BY <1>17 DEF FinishMedia, MatchTracks, input
    <2>2. worker'.step \in {"matching", "finishing"} /\ worker'.decoded = worker.decoded
        BY <1>1, <2>1, MovedIs
    <2>3. ProgressIs
        BY <1>5, <2>1, <2>2
    <2> QED BY <1>8, <2>1, <2>2, <2>3
<1>18. CASE FailJob
    <2>1. worker' = [worker EXCEPT !.step = "marking"] /\ job' = [job EXCEPT !.status = "failed"]
          /\ video' = video /\ crashes' = crashes
        BY <1>18 DEF FailJob, input
    <2>2. worker'.step = "marking"
        BY <1>1, <2>1, MovedIs
    <2>3. job'.progress = job.progress /\ job'.status = "failed"
        BY <1>2, <2>1 DEF Jobs
    <2>4. ProgressIs
        BY <1>5, <2>1, <2>2, <2>3
    <2> QED BY <1>6, <2>2, <2>4
<1>19. CASE Finish \/ Fails \/ MarkFailed \/ Restart
    <2>1. video' = video /\ crashes' = crashes
        BY <1>19 DEF Finish, Fails, MarkFailed, Restart, input
    <2>2. worker'.step \in {"idle", "failing"}
        BY <1>19, LetGo DEF Finish, Fails, MarkFailed, Restart
    <2>3. \/ job' = job \/ job' = [job EXCEPT !.status = "done"]
          \/ /\ worker.step = "down"
             /\ job' = [job EXCEPT !.status = IF job.status = "running" THEN "queued" ELSE job.status]
        BY <1>19 DEF Finish, Fails, MarkFailed, Restart
    <2>4. job'.progress = job.progress
              /\ (job'.status = "queued" => worker.step = "down" \/ job.status = "queued")
        BY <1>2, <2>3 DEF Jobs
    <2>5. ProgressIs
        BY <1>5, <2>1, <2>2, <2>4
    <2> QED BY <1>6, <2>2, <2>5
<1>20. CASE Crash
    <2>1. worker'.step = "down" /\ job' = job /\ crashes' = crashes + 1 /\ video' = video
        BY <1>20, LetGo DEF Crash, input
    <2>2. Slots' = Slots /\ \A n : CountTo(n)' = CountTo(n)
        BY <1>4, <2>1
    <2>3. \A n : CountTo(n) \in Nat
        BY <1>1, SlotsAre
    <2>4. job.progress.sampled =>
             LET n == CountTo(job.progress.lastMs \div SlotMs + 1)
             IN  /\ job.progress.lastMs \div SlotMs \in Slots
                 /\ job.progress.decoded >= n
                 /\ job.progress.decoded < n + (crashes + 1)
        <3> DEFINE n == CountTo(job.progress.lastMs \div SlotMs + 1)
        <3>1. n \in Nat /\ job.progress.decoded \in Nat
            BY <1>2, <2>3 DEF Progress
        <3>2. job.progress.sampled => job.progress.lastMs \div SlotMs \in Slots
                 /\ job.progress.decoded >= n /\ job.progress.decoded <= n + crashes
            BY <1>3 DEF ProgressHolds
        <3> HIDE DEF n
        <3> QED BY <1>2, <3>1, <3>2 DEF n
    <2>5. ProgressHolds'
        <3> DEFINE n == CountTo(job.progress.lastMs \div SlotMs + 1)
        <3>1. n \in Nat /\ job.progress.decoded \in Nat
            BY <1>2, <2>3 DEF Progress
        <3>2. job.progress.sampled => job.progress.decoded <= n + (crashes + 1)
            <4> HIDE DEF n
            <4> QED BY <1>2, <2>4, <3>1 DEF n
        <3> QED BY <2>1, <2>2, <2>4, <3>2 DEF ProgressHolds, CountTo, SlotsBefore
    <2>6. ProgressIs
        BY <1>3, <2>1, <2>5 DEF ProgressIs
    <2> QED BY <1>6, <2>1, <2>6
<1>21. CASE SecondJob
    <2>1. worker' = worker /\ worker.step = "idle" /\ job'.progress = NoProgress
        BY <1>21 DEF SecondJob
    <2>2. ProgressIs
        BY <2>1 DEF ProgressHolds, NoProgress, ProgressIs
    <2> QED BY <1>6, <2>1, <2>2
<1>22. CASE (\E id \in tracks : Decide(id)) \/ UNCHANGED vars
    <2>1. worker' = worker /\ video' = video /\ job' = job /\ crashes' = crashes
        BY <1>22 DEF Decide, vars, input
    <2>2. ProgressIs
        BY <1>5, <2>1
    <2>3. CASE worker.step \in {"ready", "sampled", "committed"}
        BY <1>7, <2>1, <2>2, <2>3
    <2>4. CASE worker.step \in {"swept", "matching", "finishing"}
        BY <1>8, <2>1, <2>2, <2>4
    <2> QED BY <1>6, <2>1, <2>2, <2>3, <2>4
<1> QED BY <1>9, <1>10, <1>11, <1>13, <1>14, <1>15, <1>16, <1>17, <1>18, <1>19, <1>20, <1>21,
           <1>22 DEF Next, WorkerStep

(* The frames a job reports are every slot once, and at most one more for every   *)
(* crash it was resumed after.                                                *)
THEOREM FramesAreCounted == Spec => []CountsAreTrue
<1>1. CountInv => CountsAreTrue
    BY DEF CountInv
<1> QED BY <1>1, CountInit, CountNext, PTL DEF Spec

-----------------------------------------------------------------------------
(* What the tracker confirmed.                                              *)

LEMMA HitsAre ==
    ASSUME TypeInv, NEW k
    PROVE  /\ IsFiniteSet(Held(k)) /\ IsFiniteSet(RowsOf(k))
           /\ Cardinality(Held(k)) \in Nat /\ Cardinality(RowsOf(k)) \in Nat
           /\ Hits(k) \in Nat
<1>1. IsFiniteSet(worker.pending) /\ Held(k) \subseteq worker.pending
      /\ IsFiniteSet(DOMAIN detections) /\ RowsOf(k) \subseteq DOMAIN detections
    BY DEF TypeInv, WorkerHolds, Held, RowsOf
<1>2. IsFiniteSet(Held(k)) /\ IsFiniteSet(RowsOf(k))
    BY <1>1, FS_Subset
<1>3. Cardinality(Held(k)) \in Nat /\ Cardinality(RowsOf(k)) \in Nat
    BY <1>2, FS_CardinalityType
<1> QED BY <1>2, <1>3 DEF Hits

\* A key the tracker has yet to hand out has no hits.
LEMMA NewKeysAreUnhit ==
    ASSUME TypeInv, NEW k \in Nat, worker.tracker.next <= k
    PROVE  Hits(k) = 0
<1>1. worker.tracker.next \in Nat /\ worker.pending \subseteq PendingBox
          /\ \A j \in DOMAIN worker.ids : j \in Nat
    BY NumberingsAre DEF TypeInv, WorkerHolds, Worker, Tracker
<1>2. Held(k) = {}
    BY <1>1 DEF TypeInv, TrackerHolds, Held, PendingBox
<1>3. RowsOf(k) = {}
    BY <1>1 DEF TypeInv, TrackerHolds, RowsOf
<1> QED BY <1>2, <1>3, FS_EmptySet DEF Hits

\* A sample is one hit more for the tracks of its boxes.
LEMMA SampleHits ==
    ASSUME FaceInv, NEW f, NEW held, Sampled(f, held), detections' = detections, NEW k
    PROVE  Hits(k)' = Hits(k) + IF k \in {b.key : b \in held} THEN 1 ELSE 0
<1>1. TypeInv /\ worker \in Worker
    BY DEF FaceInv, TypeInv, WorkerHolds
<1>2. RowsOf(k)' = RowsOf(k)
    BY DEF RowsOf, Sampled
<1>3. Held(k)' = Held(k) \cup {b \in held : b.key = k}
    BY DEF Held, Sampled
<1>4. IsFiniteSet(Held(k)) /\ Cardinality(Held(k)) \in Nat /\ Cardinality(RowsOf(k)) \in Nat
    BY <1>1, HitsAre
<1>5. CASE k \in {b.key : b \in held}
    <2>1. PICK b \in held : b.key = k
        BY <1>5
    <2>2. {c \in held : c.key = k} = {b}
        BY <2>1 DEF Sampled
    <2>3. b \notin Held(k)
        <3>1. b.slot = worker.slot /\ worker.slot \in Nat
            BY <1>1, <2>1 DEF Sampled, Worker
        <3>2. \A c \in worker.pending : c.slot < worker.slot
            BY DEF FaceInv, PendingHolds
        <3> QED BY <3>1, <3>2 DEF Held
    <2>4. Cardinality(Held(k) \cup {b}) = Cardinality(Held(k)) + 1
        BY <1>4, <2>3, FS_AddElement
    <2>5. Cardinality(Held(k)') = Cardinality(Held(k)) + 1
        BY <1>3, <2>2, <2>4
    <2>6. Hits(k)' = Cardinality(Held(k)') + Cardinality(RowsOf(k)')
        BY DEF Hits
    <2> QED BY <1>2, <1>4, <1>5, <2>5, <2>6 DEF Hits
<1>6. CASE k \notin {b.key : b \in held}
    <2>1. Held(k)' = Held(k)
        BY <1>3, <1>6
    <2>2. Hits(k)' = Cardinality(Held(k)') + Cardinality(RowsOf(k)')
        BY DEF Hits
    <2> QED BY <1>2, <1>4, <1>6, <2>1, <2>2 DEF Hits
<1> QED BY <1>5, <1>6

\* What was held is written: no track gains or loses a hit by the commit.
LEMMA CommitHits ==
    ASSUME FaceInv, Tallied, NEW next, Committed(next), NEW k
    PROVE  Hits(k)' = Hits(k)
<1> DEFINE D == DOMAIN detections
           H == Held(k)
           g == [b \in H |-> <<b.slot, b.det>>]
<1>1. TypeInv
    BY DEF FaceInv
<1>2. IsFiniteSet(H) /\ IsFiniteSet(RowsOf(k)) /\ Cardinality(H) \in Nat
          /\ Cardinality(RowsOf(k)) \in Nat
    BY <1>1, HitsAre
<1>3. /\ DOMAIN g = H
      /\ \A b, c \in H : g[b] = g[c] => b = c
    <2>1. \A b, c \in H : b.slot = c.slot /\ b.det = c.det => b = c
        BY DEF FaceInv, PendingHolds, Held
    <2> HIDE DEF H
    <2> QED BY <2>1
<1>4. \A x : x \in Values(g) <=> \E b \in H : x = <<b.slot, b.det>>
    BY DEF Values
<1> HIDE DEF g
<1>5. IsFiniteSet(Values(g)) /\ Cardinality(Values(g)) = Cardinality(H)
    BY <1>2, <1>3, ImagesAreFinite
<1>6. /\ DOMAIN IdsAfter = DOMAIN worker.ids \cup {b.key : b \in worker.pending}
      /\ NewKeys = {b.key : b \in worker.pending} \ DOMAIN worker.ids
      /\ \A j \in DOMAIN worker.ids : IdsAfter[j] = worker.ids[j] /\ IdsAfter[j] \in 1..made
      /\ \A j \in NewKeys : IdsAfter[j] \in Nat /\ IdsAfter[j] > made
      /\ \A i, j \in DOMAIN IdsAfter : IdsAfter[i] = IdsAfter[j] => i = j
      /\ \A d \in D : detections[d].track \in Nat /\ detections[d].track <= made
    <2>1. made \in Nat /\ (\A j \in DOMAIN worker.ids : worker.ids[j] \in 1..made)
              /\ \A d \in D : detections[d].track \in Nat /\ detections[d].track <= made
        BY <1>1 DEF TypeInv, TypeOK, Detection
    <2>2. /\ DOMAIN IdsAfter = DOMAIN worker.ids \cup {b.key : b \in worker.pending}
          /\ NewKeys = {b.key : b \in worker.pending} \ DOMAIN worker.ids
          /\ \A j \in DOMAIN worker.ids : IdsAfter[j] = worker.ids[j]
          /\ \A i, j \in NewKeys : IdsAfter[i] = IdsAfter[j] => i = j
          /\ \A j \in NewKeys : IdsAfter[j] \in (made + 1)..(made + Cardinality(NewKeys))
          /\ Cardinality(NewKeys) \in Nat
        BY <1>1, IdsAfterAre
    <2>3. \A j \in NewKeys : IdsAfter[j] \in Nat /\ IdsAfter[j] > made
        BY <2>1, <2>2
    <2>4. \A i, j \in DOMAIN worker.ids : IdsAfter[i] = IdsAfter[j] => i = j
        BY <2>2 DEF FaceInv, IdsHold
    <2>5. \A i \in DOMAIN worker.ids, j \in NewKeys : IdsAfter[i] # IdsAfter[j]
        BY <2>1, <2>2, <2>3
    <2> HIDE DEF D
    <2> QED BY <2>1, <2>2, <2>3, <2>4, <2>5
<1>7. /\ worker'.ids = IdsAfter /\ worker'.pending = {}
      /\ DOMAIN detections' = D \cup {<<b.slot, b.det>> : b \in worker.pending}
      /\ \A d \in D : detections'[d] = detections[d]
    BY DEF Committed
<1>8. \A b \in worker.pending : <<b.slot, b.det>> \notin D
    BY DEF Tallied
<1>9. ASSUME NEW b \in worker.pending
      PROVE  /\ <<b.slot, b.det>> \in DOMAIN detections'
             /\ detections'[<<b.slot, b.det>>].track = IdsAfter[b.key]
             /\ b.key \in DOMAIN IdsAfter
    <2>1. <<b.slot, b.det>> \in DOMAIN detections' \ D
        BY <1>7, <1>8
    <2>2. PICK c \in worker.pending :
             /\ <<b.slot, b.det>> = <<c.slot, c.det>>
             /\ c.key \in DOMAIN IdsAfter
             /\ detections'[<<b.slot, b.det>>] =
                   [track |-> IdsAfter[c.key], t |-> c.t, passes |-> c.passes]
        BY <2>1 DEF Committed
    <2>3. b = c
        BY <2>2 DEF FaceInv, PendingHolds
    <2>4. detections'[<<b.slot, b.det>>].track = IdsAfter[c.key]
        BY <2>2
    <2> QED BY <2>1, <2>2, <2>3, <2>4
<1>10. RowsOf(k)' = RowsOf(k) \cup Values(g) /\ RowsOf(k) \cap Values(g) = {}
    <2>1. \A x : x \in RowsOf(k)' <=> /\ x \in DOMAIN detections' /\ k \in DOMAIN IdsAfter
                                      /\ detections'[x].track = IdsAfter[k]
        BY <1>7 DEF RowsOf
    <2>2. \A x : x \in RowsOf(k) <=> /\ x \in D /\ k \in DOMAIN worker.ids
                                     /\ detections[x].track = worker.ids[k]
        BY DEF RowsOf
    <2>3. ASSUME NEW x \in D
          PROVE  x \in RowsOf(k)' <=> x \in RowsOf(k)
        <3>1. CASE k \in DOMAIN worker.ids
            BY <3>1, <2>1, <2>2, <2>3, <1>6, <1>7
        <3>2. CASE k \in NewKeys
            <4>1. IdsAfter[k] # detections[x].track
                <5>1. IdsAfter[k] > made /\ IdsAfter[k] \in Nat /\ detections[x].track \in Nat
                          /\ detections[x].track <= made /\ made \in Nat
                    BY <3>2, <1>1, <1>6 DEF TypeInv, TypeOK
                <5> QED BY <5>1
            <4>2. k \notin DOMAIN worker.ids
                BY <3>2, <1>6
            <4> QED BY <4>1, <4>2, <2>1, <2>2, <1>7
        <3>3. CASE k \notin DOMAIN IdsAfter
            BY <3>3, <2>1, <2>2, <1>6
        <3> QED BY <3>1, <3>2, <3>3, <1>6
    <2>4. ASSUME NEW b \in worker.pending
          PROVE  <<b.slot, b.det>> \in RowsOf(k)' <=> b.key = k
        BY <2>1, <1>6, <1>9
    <2>5. \A x \in Values(g) : x \notin D /\ x \in RowsOf(k)'
        BY <1>4, <1>8, <2>4 DEF Held
    <2>6. \A x \in RowsOf(k)' : x \in D \/ x \in Values(g)
        <3> SUFFICES ASSUME NEW x \in RowsOf(k)', x \notin D PROVE x \in Values(g)
            OBVIOUS
        <3>1. PICK b \in worker.pending : x = <<b.slot, b.det>>
            BY <1>7, <2>1
        <3>2. b \in H
            BY <2>4, <3>1 DEF Held
        <3> QED BY <1>4, <3>1, <3>2
    <2> HIDE DEF D
    <2> QED BY <2>2, <2>3, <2>5, <2>6
<1>11. Cardinality(RowsOf(k)') = Cardinality(RowsOf(k)) + Cardinality(H)
    <2>1. Cardinality(RowsOf(k) \cup Values(g)) = Cardinality(RowsOf(k)) + Cardinality(Values(g))
        <3>1. Cardinality(RowsOf(k) \cap Values(g)) = 0
            BY <1>10, FS_EmptySet
        <3>2. Cardinality(RowsOf(k) \cup Values(g)) =
                 Cardinality(RowsOf(k)) + Cardinality(Values(g)) - Cardinality(RowsOf(k) \cap Values(g))
            BY <1>2, <1>5, FS_Union
        <3> QED BY <3>1, <3>2, <1>2, <1>5
    <2> QED BY <2>1, <1>5, <1>10
<1>12. Held(k)' = {}
    BY <1>7 DEF Held
<1>13. Cardinality(Held(k)') = 0
    BY <1>12, FS_EmptySet
<1>14. Hits(k)' = Cardinality(Held(k)') + Cardinality(RowsOf(k)')
    BY DEF Hits
<1> QED BY <1>2, <1>11, <1>13, <1>14 DEF Hits

\* The tally survives a sample, a drop and a commit.
LEMMA SampleTallied ==
    ASSUME FaceInv, Tallied, NEW f, NEW held, Sampled(f, held), Counted(held), TypeInv',
           detections' = detections, tracks' = tracks
    PROVE  Tallied'
<1> DEFINE old == worker.tracker
           new == worker'.tracker
           keys == {b.key : b \in held}
<1>1. TypeInv /\ worker \in Worker /\ worker' \in Worker /\ DOMAIN detections \subseteq Nat \X Nat
    BY DEF FaceInv, TypeInv, WorkerHolds, Sampled
<1>2. \A k : k \in DOMAIN new.live \/ k \in new.retired => k \in Nat
    BY <1>1, LiveTracksAre DEF Worker, Tracker
<1>3. /\ keys \subseteq DOMAIN new.live
      /\ \A k \in DOMAIN new.live \ DOMAIN old.live : old.next <= k
      /\ \A k \in DOMAIN new.live :
            new.live[k].hits = HitsOf(old, k) + IF k \in keys THEN 1 ELSE 0
      /\ \A k \in new.retired :
            k \in old.retired \/ (k \in DOMAIN old.live /\ old.live[k].hits >= MinHits)
      /\ old.retired \subseteq new.retired
      /\ \A k \in DOMAIN old.live \ (DOMAIN new.live \cup new.retired) :
            old.live[k].hits < MinHits
      /\ worker'.discarded \cap (DOMAIN new.live \cup new.retired) = {}
    BY DEF Counted
<1>4. /\ \A k \in DOMAIN old.live : old.live[k].hits = Hits(k)
      /\ \A k \in old.retired : Hits(k) >= MinHits
      /\ \A k \in Nat \ (DOMAIN old.live \cup old.retired) : Hits(k) < MinHits
    BY DEF Tallied
<1>5. tracks' = {worker'.ids[k] : k \in DOMAIN worker'.ids}
    BY DEF Tallied, Sampled
<1>6. ASSUME NEW d \in DOMAIN detections'
      PROVE  d[1] < worker'.slot /\ \A b \in worker'.pending : b.slot # d[1]
    <2>1. d[1] \in Nat /\ d[1] < worker.slot /\ \A b \in worker.pending : b.slot # d[1]
        BY <1>1 DEF Tallied
    <2>2. worker.slot \in Nat /\ worker'.slot \in Nat /\ worker.slot < worker'.slot
        BY <1>1 DEF Sampled, Worker
    <2>3. worker'.pending = worker.pending \cup held /\ \A b \in held : b.slot = worker.slot
        BY DEF Sampled
    <2> QED BY <2>1, <2>2, <2>3
<1> HIDE DEF old, new
<1>7. ASSUME NEW k \in DOMAIN new.live PROVE new.live[k].hits = Hits(k)'
    <2>1. Hits(k)' = Hits(k) + IF k \in keys THEN 1 ELSE 0
        BY SampleHits
    <2>2. HitsOf(old, k) = Hits(k)
        <3>1. CASE k \in DOMAIN old.live
            BY <3>1, <1>4 DEF HitsOf
        <3>2. CASE k \notin DOMAIN old.live
            <4>1. k \in Nat /\ old.next <= k
                BY <3>2, <1>2, <1>3
            <4>2. Hits(k) = 0
                BY <4>1, <1>1, NewKeysAreUnhit DEF old
            <4> QED BY <3>2, <4>2 DEF HitsOf
        <3> QED BY <3>1, <3>2
    <2> QED BY <2>1, <2>2, <1>3
<1>8. ASSUME NEW k \in new.retired PROVE Hits(k)' >= MinHits
    <2>1. Hits(k)' = Hits(k) + IF k \in keys THEN 1 ELSE 0
        BY SampleHits
    <2>2. Hits(k) \in Nat /\ MinHits \in Nat
        BY <1>1, HitsAre, TrackerAssumption
    <2>3. Hits(k) >= MinHits
        BY <1>3, <1>4
    <2> QED BY <2>1, <2>2, <2>3
<1>9. ASSUME NEW k \in Nat \ (DOMAIN new.live \cup new.retired) PROVE Hits(k)' < MinHits
    <2>1. Hits(k)' = Hits(k) + IF k \in keys THEN 1 ELSE 0
        BY SampleHits
    <2>2. k \notin keys /\ k \notin old.retired
        BY <1>3
    <2>3. Hits(k) < MinHits
        BY <2>2, <1>3, <1>4
    <2>4. Hits(k) \in Nat
        BY <1>1, HitsAre
    <2> QED BY <2>1, <2>2, <2>3, <2>4
<1> HIDE DEF keys
<1> QED BY <1>3, <1>5, <1>6, <1>7, <1>8, <1>9 DEF Tallied, Hits, Held, RowsOf, new

LEMMA UnwindTallied ==
    ASSUME FaceInv, Tallied, NEW j, NEW ids, Unwound(j, ids), TypeInv'
    PROVE  Tallied'
<1> DEFINE I == worker.ids
           J == worker'.ids
           D == DOMAIN detections
<1>1. TypeInv /\ worker \in Worker
    BY DEF FaceInv, TypeInv, WorkerHolds
<1>2. Dropped(ids) /\ ids = {I[i] : i \in DOMAIN I \cap {j}} /\ DOMAIN J = DOMAIN I \ {j}
      /\ (\A i \in DOMAIN J : J[i] = I[i])
      /\ worker'.pending = worker.pending /\ worker'.slot = worker.slot
      /\ worker'.tracker = worker.tracker /\ worker'.discarded = worker.discarded \ {j}
      /\ j \in worker.discarded
    BY DEF Unwound
<1>3. DOMAIN detections' = D
      /\ \A d \in D : detections'[d].track = IF detections[d].track \in ids THEN 0
                                              ELSE detections[d].track
    BY <1>1, <1>2, DroppedIs
<1>4. \A i, k \in DOMAIN I : I[i] = I[k] => i = k
    BY DEF FaceInv, IdsHold
<1>5. \A i \in DOMAIN J : J[i] \notin ids /\ J[i] # 0
    BY <1>1, <1>2, <1>4 DEF TypeInv, TypeOK
<1>6. tracks' = {J[i] : i \in DOMAIN J}
    <2>1. tracks = {I[i] : i \in DOMAIN I} /\ tracks' = tracks \ ids
        BY <1>2 DEF Tallied, Dropped
    <2> QED BY <2>1, <1>2, <1>5
<1>7. j \in Nat /\ j \notin DOMAIN worker.tracker.live /\ j \notin worker.tracker.retired
    BY <1>1, <1>2 DEF Tallied, Worker
<1>8. ASSUME NEW k
      PROVE  /\ k # j => Hits(k)' = Hits(k)
             /\ Hits(k)' <= Hits(k) /\ Hits(k)' \in Nat
    <2>1. Held(k)' = Held(k)
        BY <1>2 DEF Held
    <2>2. \A x : x \in RowsOf(k)' <=> x \in D /\ k \in DOMAIN J /\ detections'[x].track = J[k]
        BY <1>3 DEF RowsOf
    <2>3. \A x : x \in RowsOf(k) <=> x \in D /\ k \in DOMAIN I /\ detections[x].track = I[k]
        BY DEF RowsOf
    <2> HIDE DEF D, I, J
    <2>4. RowsOf(k)' \subseteq RowsOf(k)
        BY <2>2, <2>3, <1>2, <1>3, <1>5
    <2>5. ASSUME k # j PROVE RowsOf(k) \subseteq RowsOf(k)'
        BY <2>2, <2>3, <2>5, <1>2, <1>3, <1>5
    <2>6. k # j => RowsOf(k)' = RowsOf(k)
        BY <2>4, <2>5
    <2>7. /\ Hits(k) = Cardinality(Held(k)) + Cardinality(RowsOf(k))
          /\ Hits(k)' = Cardinality(Held(k)') + Cardinality(RowsOf(k)')
        BY DEF Hits
    <2>8. IsFiniteSet(RowsOf(k)) /\ Cardinality(RowsOf(k)) \in Nat /\ Cardinality(Held(k)) \in Nat
        BY <1>1, HitsAre
    <2>9. Cardinality(RowsOf(k)') <= Cardinality(RowsOf(k)) /\ Cardinality(RowsOf(k)') \in Nat
        BY <2>4, <2>8, FS_Subset, FS_CardinalityType
    <2> QED BY <2>1, <2>6, <2>7, <2>8, <2>9
<1>9. ASSUME NEW d \in DOMAIN detections'
      PROVE  d[1] < worker'.slot /\ \A b \in worker'.pending : b.slot # d[1]
    BY <1>2, <1>3 DEF Tallied
<1>10. worker'.discarded \cap (DOMAIN worker'.tracker.live \cup worker'.tracker.retired) = {}
    BY <1>2 DEF Tallied
<1>11. ASSUME NEW k \in DOMAIN worker'.tracker.live
       PROVE  worker'.tracker.live[k].hits = Hits(k)'
    <2>1. worker.tracker.live[k].hits = Hits(k) /\ k # j
        BY <1>2, <1>7 DEF Tallied
    <2> QED BY <2>1, <1>2, <1>8
<1>12. ASSUME NEW k \in worker'.tracker.retired
       PROVE  Hits(k)' >= MinHits
    <2>1. Hits(k) >= MinHits /\ k # j
        BY <1>2, <1>7 DEF Tallied
    <2> QED BY <2>1, <1>8
<1>13. ASSUME NEW k \in Nat \ (DOMAIN worker'.tracker.live \cup worker'.tracker.retired)
       PROVE  Hits(k)' < MinHits
    <2>1. Hits(k) < MinHits /\ Hits(k) \in Nat /\ MinHits \in Nat
        BY <1>1, <1>2, HitsAre, TrackerAssumption DEF Tallied
    <2>2. Hits(k)' <= Hits(k) /\ Hits(k)' \in Nat
        BY <1>8
    <2> QED BY <2>1, <2>2
<1> QED BY <1>6, <1>9, <1>10, <1>11, <1>12, <1>13 DEF Tallied, Hits, Held, RowsOf

LEMMA CommitTallied ==
    ASSUME FaceInv, Tallied, NEW next, Committed(next), CommitBatch(next)
    PROVE  Tallied'
<1>1. TypeInv /\ DOMAIN detections \subseteq Nat \X Nat
    BY DEF FaceInv, TypeInv, WorkerHolds
<1>2. /\ worker'.ids = IdsAfter /\ worker'.pending = {} /\ worker'.slot = worker.slot
      /\ worker'.tracker = worker.tracker /\ worker'.discarded = worker.discarded
      /\ DOMAIN detections' = DOMAIN detections \cup {<<b.slot, b.det>> : b \in worker.pending}
    BY DEF Committed
<1>3. tracks' = {worker'.ids[k] : k \in DOMAIN worker'.ids}
    <2>1. /\ DOMAIN IdsAfter = DOMAIN worker.ids \cup NewKeys
          /\ \A k \in DOMAIN worker.ids : IdsAfter[k] = worker.ids[k]
        BY <1>1, IdsAfterAre
    <2>2. tracks' = tracks \cup {IdsAfter[k] : k \in NewKeys}
        BY DEF CommitBatch
    <2>3. tracks = {worker.ids[k] : k \in DOMAIN worker.ids}
        BY DEF Tallied
    <2> QED BY <1>2, <2>1, <2>2, <2>3
<1>4. ASSUME NEW d \in DOMAIN detections'
      PROVE  d[1] < worker'.slot /\ \A b \in worker'.pending : b.slot # d[1]
    BY <1>2 DEF Tallied, FaceInv, PendingHolds
<1>5. ASSUME NEW k PROVE Hits(k)' = Hits(k)
    BY CommitHits
<1>6. worker'.discarded \cap (DOMAIN worker'.tracker.live \cup worker'.tracker.retired) = {}
    BY <1>2 DEF Tallied
<1>7. ASSUME NEW k \in DOMAIN worker'.tracker.live
      PROVE  worker'.tracker.live[k].hits = Hits(k)'
    BY <1>2, <1>5 DEF Tallied
<1>8. ASSUME NEW k \in worker'.tracker.retired
      PROVE  Hits(k)' >= MinHits
    BY <1>2, <1>5 DEF Tallied
<1>9. ASSUME NEW k \in Nat \ (DOMAIN worker'.tracker.live \cup worker'.tracker.retired)
      PROVE  Hits(k)' < MinHits
    BY <1>2, <1>5 DEF Tallied
<1> QED BY <1>3, <1>4, <1>6, <1>7, <1>8, <1>9 DEF Tallied, Hits, Held, RowsOf

\* Beginning for the first time, the worker finds and holds nothing.
LEMMA BeginTallied ==
    ASSUME TypeInv, UntouchedHolds, FirstRun, Begin
    PROVE  Tallied'
<1>1. DOMAIN detections = {} /\ tracks = {} /\ detections' = detections /\ tracks' = tracks
    BY DEF UntouchedHolds, Begin
<1>2. /\ worker'.pending = {} /\ worker'.discarded = {} /\ DOMAIN worker'.ids = {}
      /\ DOMAIN worker'.tracker.live = {} /\ worker'.tracker.retired = {}
    BY BeginIs
<1>3. tracks' = {worker'.ids[k] : k \in DOMAIN worker'.ids}
    BY <1>1, <1>2
<1>4. ASSUME NEW k PROVE Hits(k)' < MinHits
    <2>1. Held(k)' = {} /\ RowsOf(k)' = {}
        BY <1>1, <1>2 DEF Held, RowsOf
    <2>2. Hits(k)' = Cardinality(Held(k)') + Cardinality(RowsOf(k)')
        BY DEF Hits
    <2>3. Hits(k)' = 0
        BY <2>1, <2>2, FS_EmptySet
    <2> QED BY <2>3, TrackerAssumption
<1> QED BY <1>1, <1>2, <1>3, <1>4 DEF Tallied, Hits, Held, RowsOf

\* The sweep drops the tracks of fewer than MinHits rows, and by the tally those are the
\* ones the tracker has not confirmed.
LEMMA SweepKeepsConfirmed ==
    ASSUME FaceInv, Tallied, Sweep
    PROVE  tracks' = {worker'.ids[k] : k \in ConfirmedKeys(worker'.tracker)}
<1> DEFINE I == worker.ids
           tr == worker.tracker
           C == ConfirmedKeys(tr)
<1>1. TypeInv /\ worker \in Worker /\ Sound(tr) /\ MinHits \in Nat \ {0}
    BY TrackerAssumption DEF FaceInv, TypeInv, WorkerHolds, TrackerHolds
<1>2. worker' = [worker EXCEPT !.step = "swept"] /\ worker.pending = {}
      /\ tracks' = tracks \ ShortTracks
    BY DEF Sweep
<1>3. worker'.ids = I /\ worker'.tracker = tr
    BY <1>1, <1>2, MovedIs
<1>4. \A k : k \in DOMAIN tr.live \/ k \in tr.retired \/ k \in DOMAIN I => k \in Nat
    <2>1. tr \in Tracker /\ I \in Numberings
        BY <1>1 DEF Worker
    <2> QED BY <2>1, LiveTracksAre, NumberingsAre DEF Tracker
<1>5. \A i, k \in DOMAIN I : I[i] = I[k] => i = k
    BY DEF FaceInv, IdsHold
<1>6. ASSUME NEW k
      PROVE  /\ k \in DOMAIN I => Hits(k) = Cardinality(DetectionsOf(I[k]))
             /\ k \notin DOMAIN I => Hits(k) = 0
             /\ Hits(k) \in Nat
    <2>1. Held(k) = {}
        BY <1>2 DEF Held
    <2>2. Hits(k) = Cardinality(RowsOf(k)) /\ Hits(k) \in Nat
        BY <2>1, <1>1, FS_EmptySet, HitsAre DEF Hits
    <2>3. k \in DOMAIN I => RowsOf(k) = DetectionsOf(I[k])
        BY DEF RowsOf, DetectionsOf
    <2>4. k \notin DOMAIN I => RowsOf(k) = {}
        BY DEF RowsOf
    <2> QED BY <2>2, <2>3, <2>4, FS_EmptySet
<1>7. ASSUME NEW k \in C PROVE k \in DOMAIN I /\ Hits(k) >= MinHits
    <2>1. CASE k \in tr.retired
        BY <2>1, <1>1, <1>6 DEF Tallied
    <2>2. CASE k \in DOMAIN tr.live /\ tr.live[k].ever
        <3>1. tr.live[k].hits >= MinHits /\ tr.live[k].hits = Hits(k)
            BY <2>2, <1>1 DEF Sound, Tallied
        <3> QED BY <3>1, <1>1, <1>6
    <2> QED BY <2>1, <2>2 DEF ConfirmedKeys
<1>8. ASSUME NEW k \in DOMAIN I, k \notin C PROVE Hits(k) < MinHits
    <2>1. k \in Nat /\ k \notin tr.retired /\ ~ (k \in DOMAIN tr.live /\ tr.live[k].ever)
        BY <1>4, <1>8 DEF ConfirmedKeys
    <2>2. CASE k \in DOMAIN tr.live
        <3>1. ~ (tr.live[k].hits >= MinHits) /\ tr.live[k].hits = Hits(k)
            BY <2>1, <2>2, <1>1 DEF Sound, Tallied
        <3> QED BY <3>1, <1>1, <1>6
    <2>3. CASE k \notin DOMAIN tr.live
        BY <2>1, <2>3 DEF Tallied
    <2> QED BY <2>2, <2>3
<1>9. tracks = {I[k] : k \in DOMAIN I}
    BY DEF Tallied
<1>10. ASSUME NEW k \in DOMAIN I
       PROVE  I[k] \in ShortTracks <=> k \notin C
    <2>1. I[k] \in ShortTracks <=> Hits(k) < MinHits
        BY <1>6, <1>9 DEF ShortTracks
    <2>2. Hits(k) \in Nat
        BY <1>6
    <2> QED BY <2>1, <2>2, <1>1, <1>7, <1>8
<1> HIDE DEF C, I
<1>11. tracks' = {I[k] : k \in C}
    BY <1>2, <1>7, <1>9, <1>10
<1> QED BY <1>3, <1>11 DEF C, I, tr

LEMMA ConfirmedInit == Init => ConfirmedInv
<1> SUFFICES ASSUME Init PROVE ConfirmedInv
    OBVIOUS
<1>1. worker.step = "idle" /\ DOMAIN detections = {} /\ tracks = {}
    BY DEF Init, Idle
<1> QED BY <1>1, FaceInit DEF ConfirmedInv, HitsHold, UntouchedHolds, ConfirmedSurvives, Reading

LEMMA ConfirmedNext == ConfirmedInv /\ [Next]_vars => ConfirmedInv'
<1> SUFFICES ASSUME ConfirmedInv, [Next]_vars PROVE ConfirmedInv'
    OBVIOUS
<1>1. FaceInv /\ FaceInv' /\ TypeInv /\ TypeInv'
    BY FaceNext DEF ConfirmedInv, FaceInv
<1>2. FirstRun' => FirstRun
    <2>1. crashes \in Nat /\ job.number \in Nat /\ job.number >= 1
        BY <1>1, BoundsAssumption DEF TypeInv, TypeOK
    <2>2. CASE SecondJob
        BY <2>1, <2>2 DEF SecondJob, FirstRun
    <2>3. CASE Crash
        BY <2>1, <2>3 DEF Crash, FirstRun
    <2>4. CASE crashes' = crashes /\ job'.number = job.number
        BY <2>4 DEF FirstRun
    <2>5. ASSUME NEW next, CommitBatch(next) PROVE FirstRun' => FirstRun
        BY <2>5 DEF CommitBatch, FirstRun
    <2>6. \/ crashes' = crashes /\ job'.number = job.number
          \/ SecondJob \/ Crash \/ \E next : CommitBatch(next)
        <3>1. job \in Jobs
            BY <1>1 DEF TypeInv, WorkerHolds
        <3> QED BY <3>1 DEF Next, WorkerStep, Begin, SampleFrame, Unwind, CommitDueBatch,
                    CommitLastBatch, Checkpoint, Sweep, FinishMedia, MatchTracks, Finish, Fails,
                    FailJob, MarkFailed, Restart, Decide, vars, Jobs
    <2> QED BY <2>2, <2>3, <2>4, <2>5, <2>6
<1>3. /\ crashes \in Nat /\ job.number \in Nat /\ job.number >= 1 /\ job \in Jobs
      /\ worker'.step \notin {"idle", "down", "marking"} => job'.status = "running"
    BY <1>1, BoundsAssumption DEF TypeInv, TypeOK, WorkerHolds
<1>a. crashes \in Nat /\ job.number \in Nat /\ job.number >= 1
    BY <1>3
\* At work or failed, the worker has no queued job.
<1>4. ASSUME worker'.step \notin {"idle", "down", "marking"}
      PROVE  UntouchedHolds'
    <2>1. job'.status = "running" /\ worker'.step # "down"
        BY <1>3, <1>4
    <2> QED BY <2>1 DEF UntouchedHolds
<1>5. ASSUME Tallied', worker'.step \in {"ready", "sampled", "committed"}
      PROVE  ConfirmedInv'
    BY <1>1, <1>4, <1>5 DEF ConfirmedInv, HitsHold, ConfirmedSurvives
<1>6. ASSUME worker'.step \notin {"ready", "sampled", "committed", "swept", "matching"},
             UntouchedHolds'
      PROVE  ConfirmedInv'
    BY <1>1, <1>6 DEF ConfirmedInv, HitsHold, ConfirmedSurvives, Reading
<1>7. ASSUME ~ FirstRun', UntouchedHolds'
      PROVE  ConfirmedInv'
    BY <1>1, <1>7 DEF ConfirmedInv, HitsHold, ConfirmedSurvives, FirstRun
<1>8. ASSUME FirstRun, Reading PROVE Tallied
    BY <1>8 DEF ConfirmedInv, HitsHold
<1>9. CASE Begin
    <2>1. worker'.step = "ready"
        BY <1>1, <1>9, BeginIs
    <2>2. CASE FirstRun'
        BY <2>1, <2>2, <1>1, <1>2, <1>5, <1>9, BeginTallied DEF ConfirmedInv
    <2>3. CASE ~ FirstRun'
        BY <2>1, <2>3, <1>4, <1>7
    <2> QED BY <2>2, <2>3
<1>10. CASE SampleFrame
    <2>1. PICK f, held : Sampled(f, held) /\ Counted(held)
        BY <1>1, <1>10, SampleIs
    <2>2. worker'.step = "sampled" /\ Reading
        BY <2>1 DEF Sampled, ReadyForNext, FrameDone, Reading
    <2>3. detections' = detections /\ tracks' = tracks
        BY <1>10 DEF SampleFrame, rows
    <2>4. CASE FirstRun'
        <3>1. Tallied
            BY <2>2, <2>4, <1>2, <1>8
        <3>2. Tallied'
            BY <3>1, <2>1, <2>3, <1>1, SampleTallied
        <3> QED BY <3>2, <2>2, <1>5
    <2>5. CASE ~ FirstRun'
        BY <2>2, <2>5, <1>4, <1>7
    <2> QED BY <2>4, <2>5
<1>11. ASSUME NEW k, NEW ids, Unwound(k, ids)
       PROVE  ConfirmedInv'
    <2>1. worker'.step = "sampled" /\ Reading
        BY <1>11 DEF Unwound, Reading
    <2>2. CASE FirstRun'
        <3>1. Tallied
            BY <2>1, <2>2, <1>2, <1>8
        <3>2. Tallied'
            BY <3>1, <1>1, <1>11, UnwindTallied
        <3> QED BY <3>2, <2>1, <1>5
    <2>3. CASE ~ FirstRun'
        BY <2>1, <2>3, <1>4, <1>7
    <2> QED BY <2>2, <2>3
<1>12. ASSUME NEW next \in {"committed", "ready"}, CommitBatch(next), ReadyForNext \/ FrameDone
       PROVE  ConfirmedInv'
    <2>1. Committed(next)
        BY <1>1, <1>12, CommitIs
    <2>2. worker'.step \in {"committed", "ready"} /\ Reading
        BY <2>1, <1>12 DEF Committed, ReadyForNext, FrameDone, Reading
    <2>3. CASE FirstRun'
        <3>1. Tallied
            BY <2>2, <2>3, <1>2, <1>8
        <3>2. Tallied'
            BY <3>1, <2>1, <1>1, <1>12, CommitTallied
        <3> QED BY <3>2, <2>2, <1>5
    <2>4. CASE ~ FirstRun'
        BY <2>2, <2>4, <1>4, <1>7
    <2> QED BY <2>3, <2>4
<1>13. CASE Checkpoint
    <2>1. Reading /\ worker' = [worker EXCEPT !.step = "ready"]
          /\ detections' = detections /\ tracks' = tracks
        BY <1>13 DEF Checkpoint, Reading, rows
    <2>2. worker'.step = "ready" /\ worker'.pending = worker.pending /\ worker'.ids = worker.ids
          /\ worker'.tracker = worker.tracker /\ worker'.slot = worker.slot
          /\ worker'.discarded = worker.discarded
        BY <2>1, <1>1, MovedIs
    <2>3. CASE FirstRun'
        <3>1. Tallied
            BY <2>1, <2>3, <1>2, <1>8
        <3>2. Tallied'
            <4>1. ASSUME NEW k PROVE Hits(k)' = Hits(k)
                BY <2>1, <2>2 DEF Hits, Held, RowsOf
            <4>2. tracks' = {worker'.ids[k] : k \in DOMAIN worker'.ids}
                BY <3>1, <2>1, <2>2 DEF Tallied
            <4>3. \A d \in DOMAIN detections' :
                     d[1] < worker'.slot /\ \A b \in worker'.pending : b.slot # d[1]
                BY <3>1, <2>1, <2>2 DEF Tallied
            <4>4. worker'.discarded \cap (DOMAIN worker'.tracker.live \cup worker'.tracker.retired) = {}
                BY <3>1, <2>2 DEF Tallied
            <4>5. ASSUME NEW k \in DOMAIN worker'.tracker.live
                  PROVE  worker'.tracker.live[k].hits = Hits(k)'
                BY <3>1, <2>2, <4>1 DEF Tallied
            <4>6. ASSUME NEW k \in worker'.tracker.retired PROVE Hits(k)' >= MinHits
                BY <3>1, <2>2, <4>1 DEF Tallied
            <4>7. ASSUME NEW k \in Nat \ (DOMAIN worker'.tracker.live \cup worker'.tracker.retired)
                  PROVE  Hits(k)' < MinHits
                BY <3>1, <2>2, <4>1 DEF Tallied
            <4> QED BY <4>2, <4>3, <4>4, <4>5, <4>6, <4>7 DEF Tallied, Hits, Held, RowsOf
        <3> QED BY <3>2, <2>2, <1>5
    <2>4. CASE ~ FirstRun'
        BY <2>2, <2>4, <1>4, <1>7
    <2> QED BY <2>3, <2>4
<1>14. CASE Sweep
    <2>1. Reading /\ worker' = [worker EXCEPT !.step = "swept"]
        BY <1>14 DEF Sweep, ReadyForNext, FrameDone, Reading
    <2>2. worker'.step = "swept"
        BY <2>1, <1>1, MovedIs
    <2>3. CASE FirstRun'
        <3>1. Tallied
            BY <2>1, <2>3, <1>2, <1>8
        <3>2. ConfirmedSurvives'
            BY <3>1, <1>1, <1>14, SweepKeepsConfirmed DEF ConfirmedSurvives, ConfirmedKeys
        <3> QED BY <3>2, <2>2, <1>1, <1>4 DEF ConfirmedInv, HitsHold, Reading
    <2>4. CASE ~ FirstRun'
        BY <2>2, <2>4, <1>4, <1>7
    <2> QED BY <2>3, <2>4
<1>15. CASE FinishMedia
    <2>1. worker.step = "swept" /\ worker' = [worker EXCEPT !.step = "matching"]
          /\ tracks' = tracks /\ crashes' = crashes /\ job' = job
        BY <1>15 DEF FinishMedia
    <2>2. worker'.step = "matching" /\ worker'.ids = worker.ids /\ worker'.tracker = worker.tracker
        BY <2>1, <1>1, MovedIs
    <2>3. ConfirmedSurvives'
        BY <2>1, <2>2 DEF ConfirmedInv, ConfirmedSurvives, ConfirmedKeys
    <2> QED BY <2>2, <2>3, <1>1, <1>4 DEF ConfirmedInv, HitsHold, Reading
<1>16. CASE MatchTracks
    <2>1. worker'.step = "finishing"
        BY <1>16, <1>1, MovedIs DEF MatchTracks
    <2> QED BY <2>1, <1>4, <1>6
<1>17. CASE Fails
    <2>1. worker'.step = "failing"
        BY <1>17, LetGo DEF Fails
    <2> QED BY <2>1, <1>4, <1>6
<1>18. CASE Finish \/ FailJob
    <2>1. worker'.step \in {"idle", "marking"}
        <3>1. CASE Finish
            BY <3>1, LetGo DEF Finish
        <3>2. CASE FailJob
            BY <3>2, <1>1, MovedIs DEF FailJob
        <3> QED BY <1>18, <3>1, <3>2
    <2>2. job'.status # "queued"
        <3>1. job' = [job EXCEPT !.status = "done"] \/ job' = [job EXCEPT !.status = "failed"]
            BY <1>18 DEF Finish, FailJob
        <3> QED BY <3>1, <1>3 DEF Jobs
    <2> QED BY <2>1, <2>2, <1>6 DEF UntouchedHolds
<1>19. CASE MarkFailed
    <2>1. worker'.step = "idle"
        BY <1>19, LetGo DEF MarkFailed
    <2>2. detections' = detections /\ tracks' = tracks /\ job' = job /\ crashes' = crashes
        BY <1>19 DEF MarkFailed
    <2>3. UntouchedHolds'
        BY <2>1, <2>2 DEF ConfirmedInv, UntouchedHolds, FirstRun
    <2> QED BY <2>1, <2>3, <1>6
<1>20. CASE Restart
    <2>1. worker'.step = "idle" /\ crashes > 0 /\ crashes' = crashes
        BY <1>20, LetGo DEF Restart, ConfirmedInv, UntouchedHolds
    <2>2. ~ FirstRun'
        BY <2>1, <1>a DEF FirstRun
    <2> QED BY <2>1, <2>2, <1>7 DEF UntouchedHolds
<1>21. CASE Crash
    <2>1. crashes' > 0
        BY <1>21, <1>a DEF Crash
    <2>2. ~ FirstRun'
        BY <2>1, <1>a DEF FirstRun
    <2> QED BY <2>1, <2>2, <1>7 DEF UntouchedHolds
<1>22. CASE SecondJob
    <2>1. job'.number = job.number + 1 /\ worker'.step = "idle"
        BY <1>22 DEF SecondJob
    <2>2. ~ FirstRun'
        BY <2>1, <1>a DEF FirstRun
    <2> QED BY <2>1, <2>2, <1>7 DEF UntouchedHolds
<1>23. CASE (\E id \in tracks : Decide(id)) \/ UNCHANGED vars
    <2>1. worker' = worker /\ detections' = detections /\ tracks' = tracks /\ job' = job
          /\ crashes' = crashes
        BY <1>23 DEF Decide, vars, rows
    <2> QED BY <2>1, <1>1 DEF ConfirmedInv, HitsHold, UntouchedHolds, ConfirmedSurvives, Reading,
               FirstRun, Tallied, Hits, Held, RowsOf, ConfirmedKeys
<1> QED
  <2>1. CASE CommitDueBatch
      BY <1>12, <2>1 DEF CommitDueBatch
  <2>2. CASE CommitLastBatch
      BY <1>12, <2>2 DEF CommitLastBatch
  <2>3. ASSUME NEW k, Unwind(k) PROVE ConfirmedInv'
      BY <1>1, <1>11, <2>3, UnwindIs
  <2> QED BY <1>9, <1>10, <1>13, <1>14, <1>15, <1>16, <1>17, <1>18, <1>19, <1>20, <1>21, <1>22,
             <1>23, <2>1, <2>2, <2>3 DEF Next, WorkerStep

(* When no run of the job was cut short, what survives the sweep is exactly what the *)
(* tracker confirmed: no face is lost and no flicker kept.                    *)
THEOREM ConfirmedFacesSurvive == Spec => []ConfirmedSurvives
<1>1. ConfirmedInv => ConfirmedSurvives
    BY DEF ConfirmedInv
<1> QED BY <1>1, ConfirmedInit, ConfirmedNext, PTL DEF Spec
=============================================================================
