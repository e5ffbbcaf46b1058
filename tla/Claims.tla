------------------------------- MODULE Claims -------------------------------
(***************************************************************************)
(* What faceymatch promises of its claims, whatever overlaps or crashes:   *)
(* a track shows whom an operator said it shows; nobody, where an operator *)
(* said so; and else nobody or somebody the scores speak for.  Only an     *)
(* operator's word replaces an operator's word, no inference comes back to *)
(* a face it was told to leave alone, and who or what was purged is never  *)
(* claimed again.                                                          *)
(***************************************************************************)
CONSTANTS Persons, Tracks, None

VARIABLES
    met,        \* the persons there ever were
    people,     \* those there are
    tracks,     \* the tracks there are
    word,       \* what an operator last said of each track
    claim,      \* whom each track is claimed to show, and by whom
    contested   \* tracks whose last word is older than a word before it

vars == <<met, people, tracks, word, claim, contested>>

Silence == [kind |-> "nothing", person |-> None]

Nobody == [by |-> "none", person |-> None]

Claim == [by : {"none", "auto", "operator"}, person : Persons \cup {None}]

Init ==
    /\ met = {} /\ people = {}
    /\ tracks = Tracks
    /\ word = [t \in Tracks |-> Silence]
    /\ claim = [t \in Tracks |-> Nobody]
    /\ contested = {}

Meet(p) ==
    /\ p \in Persons \ met
    /\ met' = met \cup {p} /\ people' = people \cup {p}
    /\ UNCHANGED <<tracks, word, claim, contested>>

\* An operator's word is the claim; whether it is the newest is the clock's to say.
Say(t, kind, p, whom) ==
    /\ t \in tracks
    /\ word' = [word EXCEPT ![t] = [kind |-> kind, person |-> p]]
    /\ claim' = [claim EXCEPT ![t] = whom]
    /\ contested' \in {contested \cup {t}, contested \ {t}}
    /\ UNCHANGED tracks

Reject(t) == Say(t, "reject", None, Nobody) /\ UNCHANGED <<met, people>>

\* Of somebody known, or of somebody new.
Tag(t, p) ==
    /\ p \in people \/ p \in Persons \ met
    /\ met' = met \cup {p} /\ people' = people \cup {p}
    /\ Say(t, "tag", p, [by |-> "operator", person |-> p])

\* No operator's word keeps the scores from speaking for this track.
Open(t) ==
    /\ t \in tracks
    /\ claim[t].by # "operator"
    /\ word[t].kind = "reject" => t \in contested

Infer ==
    /\ claim' \in [Tracks -> Claim]
    /\ \A t \in Tracks :
          \/ claim'[t] = claim[t]
          \/ claim'[t] = Nobody /\ claim[t].by # "operator"
          \/ Open(t) /\ \E p \in people : claim'[t] = [by |-> "auto", person |-> p]
    /\ UNCHANGED <<met, people, tracks, word, contested>>

ForgetPerson(p) ==
    /\ p \in people
    /\ people' = people \ {p}
    /\ word' = [t \in Tracks |-> IF word[t].person = p THEN Silence ELSE word[t]]
    /\ claim' = [t \in Tracks |-> IF claim[t].person = p THEN Nobody ELSE claim[t]]
    /\ UNCHANGED <<met, tracks, contested>>

\* Inferred claims that rested on a forgotten track may go with it.
ForgetTracks(gone) ==
    /\ tracks' = tracks \ gone
    /\ word' = [t \in Tracks |-> IF t \in gone THEN Silence ELSE word[t]]
    /\ \E lost \in SUBSET {t \in Tracks : claim[t].by = "auto"} :
          claim' = [t \in Tracks |-> IF t \in gone \cup lost THEN Nobody ELSE claim[t]]
    /\ UNCHANGED <<met, people, contested>>

Next ==
    \/ Infer
    \/ \E p \in Persons : Meet(p) \/ ForgetPerson(p)
    \/ \E t \in Tracks : Reject(t) \/ \E p \in Persons : Tag(t, p)
    \/ \E gone \in SUBSET tracks : ForgetTracks(gone)

Spec == Init /\ [][Next]_vars

(* A consequence of it alone: nobody who was purged is claimed, and nothing   *)
(* is claimed of a track that was (purge.py:119-160, 228-256).               *)
NoGhosts == \A t \in Tracks : claim[t] # Nobody => t \in tracks /\ claim[t].person \in people
=============================================================================
