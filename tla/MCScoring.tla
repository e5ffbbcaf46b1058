----------------------------- MODULE MCScoring -----------------------------
(***************************************************************************)
(* The scoring and acceptance rules over a gallery that grows and shrinks. *)
(* One probe scores each of the Sources once and for all; operators enrol  *)
(* sources to persons and revoke them, and further persons, whose faces    *)
(* resemble the probe less than any source, join and leave the gallery.  A *)
(* source is enrolled to one person at most, and sources are numbered by   *)
(* their scores, being interchangeable.  The threshold set is any that the *)
(* schema lets be stored (0001_init.sql:28-49): a margin is not negative,  *)
(* and strong is not below possible.                                       *)
(***************************************************************************)
EXTENDS Scoring, Calibration

CONSTANTS People, Sources, Scores, MaxOthers, ThresholdSets, Modes, TopK

\* The face of everybody else: the lowest of the sources, and never an operator's pick.
Stranger == 0

ASSUME ConstantsAssumption ==
    /\ People \subseteq Nat /\ Sources \subseteq Nat \ {Stranger} /\ Scores \subseteq Int
    /\ Modes \subseteq {"max", "mean_top3"} /\ MaxOthers \in Nat /\ TopK \in Nat \ {0}

ASSUME ThresholdAssumption ==
    /\ ThresholdSets \subseteq [calibrated : BOOLEAN, fits : BOOLEAN, gallerySize : Nat,
                                tStrong : Int, tPossible : Int, margin : Nat]
    /\ \A row \in ThresholdSets : row.tStrong >= row.tPossible

\* Scores are in thirds.  Calibrated at one person: strong from 2/3 on, possible from
\* 1/3 on, 2/3 ahead; and a margin wider than strong is high.
MCThresholdSets ==
    LET Row(tStrong, tPossible, margin) ==
            [calibrated |-> TRUE, fits |-> TRUE, gallerySize |-> 1,
             tStrong |-> tStrong, tPossible |-> tPossible, margin |-> margin]
    IN  {Row(2, 1, 2), Row(2, 0, 5)}

\* Cosines are of either sign.
MCScores == -1..1

VARIABLES
    mode,        \* settings.person_score_mode
    probe,       \* the score of each source
    gallery,     \* <<person, source>> for each active template
    others,      \* how many of the further persons are in it, with one template each
    set          \* the active threshold set

vars == <<mode, probe, gallery, others, set>>

Faces == Sources \cup {Stranger}

Init ==
    /\ mode \in Modes
    /\ probe \in {f \in [Faces -> Scores] : \A s, r \in Faces : s < r => f[s] <= f[r]}
    /\ gallery = {}
    /\ others = 0
    /\ set \in ThresholdSets

Enroll(p, s) ==
    /\ \A entry \in gallery : entry[2] # s
    /\ gallery' = gallery \cup {<<p, s>>}
    /\ UNCHANGED <<mode, probe, others, set>>

Revoke(p, s) ==
    /\ <<p, s>> \in gallery
    /\ gallery' = gallery \ {<<p, s>>}
    /\ UNCHANGED <<mode, probe, others, set>>

\* The others' ids are the negative numbers, in the order they join.
Join ==
    /\ others < MaxOthers
    /\ others' = others + 1
    /\ gallery' = gallery \cup {<<-others', Stranger>>}
    /\ UNCHANGED <<mode, probe, set>>

Leave ==
    /\ others > 0
    /\ others' = others - 1
    /\ gallery' = gallery \ {<<-others, Stranger>>}
    /\ UNCHANGED <<mode, probe, set>>

Next ==
    \/ \E p \in People, s \in Sources : Enroll(p, s) \/ Revoke(p, s)
    \/ Join
    \/ Leave

Spec == Init /\ [][Next]_vars

\* What the probe says of a gallery g: scores, band, and whom it ranks first.
ScoreIn(g, p) == PersonScore(mode, probe, g, p)
BandIn(g) == BandForCandidates(mode, probe, g, TopK, set)
TopIn(g) == {p \in Candidates(mode, probe, g, TopK) : Rank(mode, probe, g, p) = 1}
LiveSize == Cardinality(PersonsIn(gallery))

\* Measurements: every population of up to n scores out of three, ties included.
Levels == {2, 4, 6}

Descending(n) ==
    UNION {{f \in [1..k -> Levels] : \A i, j \in 1..k : i < j => f[i] >= f[j]} : k \in 0..n}

Measured(n) == Descending(n) \ {<< >>}

MatedOf(scores) == {[i \in DOMAIN scores |-> [score |-> scores[i], correct |-> i \in right]] :
                       right \in SUBSET DOMAIN scores}

Targets == {<<0, 1>>, <<1, 3>>, <<1, 2>>, <<1, 1>>}

Recalled(mated, t) == AtOrAbove(CorrectScores(mated), t)

StrongWithinTarget(nonmated, impostor, target, c) ==
    LET t == TStrong(nonmated, impostor, target, c)
        route == Route(nonmated, impostor, target, c)
        Within(threshold) == AtOrAbove(nonmated, threshold) * target[2] <= target[1] * Len(nonmated)
    IN  route # "division_by_zero" =>
        /\ Within(t)
        /\ route = "measured_fpir" => \A lower \in 0..(t - 1) : ~ Within(lower)
        /\ route = "impostor_tail_bound" =>
               ImpliesAtMost(AtOrAbove(impostor, t), Len(impostor), c, target)

PossibleRecalls(mated, recall, tStrong) ==
    LET t == TPossible(mated, recall, tStrong)
        Enough(threshold) == Recalled(mated, threshold) * recall[2] >= recall[1] * Len(mated)
    IN  /\ t < tStrong
        /\ Enough(t) \/ \A lower \in 0..(tStrong - 1) : ~ Enough(lower)
        /\ \A i \in DOMAIN CorrectScores(mated) :
              CorrectScores(mated)[i] \in (t + 1)..(tStrong - 1) => ~ Enough(CorrectScores(mated)[i])

\* Up to the whole number of gaps that the quantile falls behind, which is more than the
\* fraction q of them when q * (n - 1) is none.
MarginSpares(genuine, impostor, target, q) ==
    LET margin == Margin(genuine, impostor, target, q)
        Demoted == Cardinality({i \in DOMAIN genuine : genuine[i] < margin})
    IN  genuine # << >> => Demoted <= Ceil(q, Len(genuine) - 1)

\* The default of genuine_quantile, and its ends.
Quantiles == {<<0, 1>>, <<1, 20>>, <<1, 2>>, <<1, 1>>}

\* Ten gaps, the most that one of them at the default is not a twentieth of.
TenGaps == {f \in Descending(10) : Len(f) = 10}

(* The thresholds keep what they were calibrated for, on every small set of    *)
(* measurements.  t_strong, where choosing it does not raise, accepts no more *)
(* probes of strangers than the target, on the measured route it is the least *)
(* such threshold, and on the impostors' route the bound holds as well;       *)
(* t_possible lies below it, and recalls what it should unless nothing below  *)
(* does, and no correct score higher up recalls as much; the margin demotes   *)
(* no more of n genuine matches than q * (n - 1) rounded up, which is weaker  *)
(* than the fraction q that metrics.py:58 and 407-409 speak of                *)
(* (metrics.py:118-440, 514-675).                                             *)
ThresholdsKeepTheirPromise ==
    gallery = {} /\ mode = "max" /\ (\A s, r \in Faces : probe[s] = probe[r]) =>
        /\ \A nonmated \in Measured(3), impostor \in Descending(4), target \in Targets, c \in 1..2 :
              StrongWithinTarget(nonmated, impostor, target, c)
        /\ \A scores \in Measured(3), recall \in Targets, tStrong \in {ScoreFloor, 3, 4, 5, 7} :
              \A mated \in MatedOf(scores) : PossibleRecalls(mated, recall, tStrong)
        /\ \A genuine \in Descending(3) \cup TenGaps, impostor \in Descending(3),
              target \in Targets, q \in Quantiles :
                  MarginSpares(genuine, impostor, target, q)

(* What is accepted without an operator is clear of everybody else in the     *)
(* gallery: strong, and ahead of every other person by the margin             *)
(* (scoring.py:188-202).  With one candidate kept per track it fails, since   *)
(* the runner-up the margin is measured to has been cut off.                  *)
AcceptedIsClear ==
    Accepts(set, LiveSize, BandIn(gallery)) =>
        \A p \in TopIn(gallery) :
            /\ ScoreIn(gallery, p) >= set.tStrong
            /\ \A q \in PersonsIn(gallery) \ {p} :
                  ScoreIn(gallery, p) - ScoreIn(gallery, q) >= set.margin

(* Under max scoring, more faces of somebody else make nobody strong who was   *)
(* not, with one exception: somebody alone in the gallery is measured against *)
(* a runner-up of 0.0, and a first rival who scores less than that widens the *)
(* margin (scoring.py:123-153, 188-213).                                      *)
RivalNeverPromotes ==
    [][mode = "max" /\ gallery \subseteq gallery' /\ BandIn(gallery') = "strong" =>
          \/ BandIn(gallery) = "strong"
          \/ \A p \in TopIn(gallery) \cap TopIn(gallery') :
                 SourcesOf(gallery', p) = SourcesOf(gallery, p) =>
                     /\ PersonsIn(gallery) = {p}
                     /\ \A q \in PersonsIn(gallery') \ {p} : ScoreIn(gallery', q) < 0]_vars

(* A gallery that grows person by person past what its thresholds were        *)
(* calibrated at warns before it stops accepting (acceptance.py:70-83).       *)
WarnsBeforeItShuts ==
    [][GateAllows(set, LiveSize) /\ ~ GateAllows(set, LiveSize') => GateWarns(set, LiveSize)]_vars
=============================================================================
