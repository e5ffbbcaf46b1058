------------------------------ MODULE Scoring ------------------------------
(***************************************************************************)
(* The pure part of a match: core/scoring.py reduces one probe's template  *)
(* scores to ranked persons and names a band, core/acceptance.py decides   *)
(* whether a band may be accepted without an operator.                     *)
(*                                                                         *)
(* A gallery is a set of pairs <<person, source>>, one per active template,*)
(* where the source is the face the template was made from; a probe is a   *)
(* function from sources to cosine scores.  Scores are integers counted in *)
(* thirds of a score step, so that the mean of three is an integer too.    *)
(* Persons are integers in the order of their ids (ids are time ordered).  *)
(***************************************************************************)
EXTENDS Integers, FiniteSets

MeanTop3MinTemplates == 5
\* Mutant: the two factors of the gallery rule swapped.
GalleryBlockFactorSwapped == 2

GalleryBlockFactor == 5
GalleryWarnFactor == 2

PersonsIn(gallery) == {entry[1] : entry \in gallery}

SourcesOf(gallery, p) == {entry[2] : entry \in {e \in gallery : e[1] = p}}

\* Mutant: the templates sorted the wrong way round.
WorstSource(probe, gallery, p) ==
    CHOOSE s \in SourcesOf(gallery, p) :
        \A other \in SourcesOf(gallery, p) : probe[other] >= probe[s]

HighestOf(probe, sources) ==
    CHOOSE s \in sources : \A other \in sources : probe[other] <= probe[s]

\* The template with the person's single highest score, whatever the mode.
BestSource(probe, gallery, p) == HighestOf(probe, SourcesOf(gallery, p))

\* The mean of three, times three.
SumOfTop3(probe, sources) ==
    LET first == HighestOf(probe, sources)
        second == HighestOf(probe, sources \ {first})
        third == HighestOf(probe, sources \ {first, second})
    IN  probe[first] + probe[second] + probe[third]

PersonScore(mode, probe, gallery, p) ==
    IF mode = "mean_top3" /\ Cardinality(SourcesOf(gallery, p)) >= MeanTop3MinTemplates
    THEN SumOfTop3(probe, SourcesOf(gallery, p))
    ELSE 3 * probe[BestSource(probe, gallery, p)]

\* Score descending, then person id, so equal scores never reorder.
Beats(mode, probe, gallery, q, p) ==
    LET theirs == PersonScore(mode, probe, gallery, q)
        own == PersonScore(mode, probe, gallery, p)
    IN  theirs > own \/ (theirs = own /\ q < p)

\* Mutant: ranks counted from zero.
RankFromZero(mode, probe, gallery, p) ==
    Cardinality({q \in PersonsIn(gallery) : Beats(mode, probe, gallery, q, p)})

Rank(mode, probe, gallery, p) ==
    1 + Cardinality({q \in PersonsIn(gallery) : Beats(mode, probe, gallery, q, p)})

\* rank_persons: the first topK persons of the ranking.
Candidates(mode, probe, gallery, topK) ==
    {p \in PersonsIn(gallery) : Rank(mode, probe, gallery, p) <= topK}

\* Of the candidate that topK keeps at rank n, or nothing.
ScoreAtRank(mode, probe, gallery, topK, n) ==
    LET ranked == {p \in PersonsIn(gallery) : Rank(mode, probe, gallery, p) = n /\ n <= topK}
    IN  IF ranked = {} THEN 0
        ELSE PersonScore(mode, probe, gallery, CHOOSE p \in ranked : TRUE)

\* Mutant: the strong rule forgets the margin.
AssignBandByScoreAlone(top1, top2, thresholds) ==
    CASE top1 >= thresholds.tStrong -> "strong"
      [] top1 >= thresholds.tPossible /\ top1 < thresholds.tStrong
            /\ top1 - top2 < thresholds.margin -> "ambiguous"
      [] top1 >= thresholds.tPossible /\ top1 < thresholds.tStrong
            /\ top1 - top2 >= thresholds.margin -> "possible"
      [] OTHER -> "unknown"

\* The first rule that holds, in the order of spec 6.4.
AssignBand(top1, top2, thresholds) ==
    CASE top1 >= thresholds.tStrong /\ top1 - top2 >= thresholds.margin -> "strong"
      [] top1 >= thresholds.tPossible /\ top1 - top2 < thresholds.margin -> "ambiguous"
      [] top1 >= thresholds.tPossible /\ top1 - top2 >= thresholds.margin
            /\ top1 < thresholds.tStrong -> "possible"
      [] OTHER -> "unknown"

\* band_for_candidates: no candidates is "unknown", a missing second scores zero.
BandForCandidates(mode, probe, gallery, topK, thresholds) ==
    IF gallery = {} THEN "unknown"
    ELSE AssignBand(ScoreAtRank(mode, probe, gallery, topK, 1),
                    ScoreAtRank(mode, probe, gallery, topK, 2), thresholds)

\* build_gate: a set fits when it was calibrated for the running embedder and
\* execution provider; its gallery size is 0 when none is recorded.
GateAllows(set, liveGallerySize) ==
    /\ set.calibrated
    /\ set.fits
    /\ set.gallerySize > 0 => liveGallerySize <= GalleryBlockFactor * set.gallerySize

GateWarns(set, liveGallerySize) ==
    /\ GateAllows(set, liveGallerySize)
    /\ set.gallerySize > 0
    /\ liveGallerySize > GalleryWarnFactor * set.gallerySize

\* AutoAcceptGate.accepts: only "strong", and only when the gate is open.
Accepts(set, liveGallerySize, band) ==
    GateAllows(set, liveGallerySize) /\ band = "strong"

Bands == {"strong", "possible", "ambiguous", "unknown"}
=============================================================================
