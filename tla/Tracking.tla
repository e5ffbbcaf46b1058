------------------------------ MODULE Tracking ------------------------------
(***************************************************************************)
(* One step of the face tracker (pipeline/tracking.py) as operators on a   *)
(* tracker value: the boxes of a sampled frame are attached to tracks in   *)
(* two passes, strong boxes that match nothing start a track, and tracks   *)
(* out of sight grow old.                                                  *)
(*                                                                         *)
(* Where the boxes lie and what the Kalman filter predicts is abstracted:  *)
(* a pass may pair any of its boxes with any of its tracks, one to one.    *)
(***************************************************************************)
EXTENDS Integers, FiniteSets

CONSTANTS
    MinHits,      \* detections it takes to confirm a track
    MaxAgeMs      \* how long a track may stay out of sight

ASSUME TrackerAssumption == MinHits \in Nat \ {0} /\ MaxAgeMs \in Nat

\* A detector's box: strong when it reaches the high score, passes when its
\* crop is good enough to embed.
Box == [strong : BOOLEAN, passes : BOOLEAN]

Track == [state : {"tentative", "confirmed", "lost"}, hits : Nat, last : Nat, ever : BOOLEAN]

NewTracker == [live |-> [k \in {} |-> 0], next |-> 1, retired |-> {}]

Strong(boxes) == {i \in DOMAIN boxes : boxes[i].strong}
Weak(boxes) == DOMAIN boxes \ Strong(boxes)

\* greedy_match over whatever overlaps there are: boxes paired with tracks, one to one.
Pairings(keys, boxes) ==
    {p \in UNION {[matched -> keys] : matched \in SUBSET boxes} :
        \A i, j \in DOMAIN p : p[i] = p[j] => i = j}

Values(f) == {f[x] : x \in DOMAIN f}

-----------------------------------------------------------------------------
(* update.                                                                  *)

\* The first pass: boxes the detector is sure of against every live track.
FirstPass(tracker, boxes) == Pairings(DOMAIN tracker.live, Strong(boxes))

\* Mutant: the second pass tries every live track again.
SecondPassOverAll(tracker, boxes, first) == Pairings(DOMAIN tracker.live, Weak(boxes))

\* The second: boxes it doubted against the tracks that are left.
SecondPass(tracker, boxes, first) ==
    Pairings(DOMAIN tracker.live \ Values(first), Weak(boxes))

\* Strong boxes that matched nothing start tracks, with keys in box order.
Started(tracker, boxes, first) ==
    LET free == Strong(boxes) \ DOMAIN first
    IN  [i \in free |-> tracker.next + Cardinality({j \in free : j < i})]

\* The track of every box that has one.
Assigned(tracker, boxes, first, second) ==
    LET started == Started(tracker, boxes, first)
    IN  [i \in DOMAIN first \cup DOMAIN second \cup DOMAIN started |->
            IF i \in DOMAIN first THEN first[i]
            ELSE IF i \in DOMAIN second THEN second[i] ELSE started[i]]

Fresh(t) ==
    [state |-> IF MinHits <= 1 THEN "confirmed" ELSE "tentative",
     hits |-> 1, last |-> t, ever |-> MinHits <= 1]

\* _absorb: a hit confirms at MinHits; a lost track resumes as what it was.
Absorbed(track, t) ==
    LET ever == track.ever \/ track.hits + 1 >= MinHits
    IN  [state |-> IF ever THEN "confirmed" ELSE "tentative",
         hits |-> track.hits + 1, last |-> t, ever |-> ever]

\* _age: out of sight is lost, and past MaxAgeMs deleted.
TooOld(track, t) == t - track.last > MaxAgeMs

Aged(track, t) == IF track.last = t THEN track ELSE [track EXCEPT !.state = "lost"]

\* Every track after the frame, the deleted ones included.
Seen(tracker, t, assigned, started) ==
    [k \in DOMAIN tracker.live \cup Values(started) |->
        IF k \in Values(started) THEN Fresh(t)
        ELSE IF k \in Values(assigned) THEN Absorbed(tracker.live[k], t)
        ELSE tracker.live[k]]

Updated(tracker, t, boxes, first, second) ==
    LET started == Started(tracker, boxes, first)
        seen == Seen(tracker, t, Assigned(tracker, boxes, first, second), started)
        kept == {k \in DOMAIN seen : ~ TooOld(seen[k], t)}
    IN  [live |-> [k \in kept |-> Aged(seen[k], t)],
         next |-> tracker.next + Cardinality(DOMAIN started),
         retired |-> tracker.retired \cup {k \in DOMAIN seen \ kept : seen[k].ever}]

\* Tracks deleted by the frame that never were a face.
Discarded(tracker, t, assigned) ==
    {k \in DOMAIN tracker.live \ Values(assigned) :
        TooOld(tracker.live[k], t) /\ ~ tracker.live[k].ever}

ConfirmedKeys(tracker) ==
    tracker.retired \cup {k \in DOMAIN tracker.live : tracker.live[k].ever}
=============================================================================
