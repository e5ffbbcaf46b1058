---------------------------- MODULE Calibration ----------------------------
(***************************************************************************)
(* How eval/metrics.py turns measured scores into a threshold set.         *)
(*                                                                         *)
(* Scores are even integers, so that the float next above s is s + 1; a    *)
(* population is the sequence of its scores, highest first; a rate is a    *)
(* fraction <<num, den>>.  Powers and roots of rates are compared in exact *)
(* arithmetic by their integer parts.                                      *)
(***************************************************************************)
EXTENDS Integers, Sequences, FiniteSets, FiniteSetsExt

ScoreFloor == -100

AtOrAbove(scores, t) == Cardinality({i \in DOMAIN scores : scores[i] >= t})

Floor(rate, n) == (rate[1] * n) \div rate[2]
Ceil(rate, n) == (rate[1] * n + rate[2] - 1) \div rate[2]

\* x to the power of k, as a function that can be reasoned about.
Power(x) == LET power[k \in Nat] == IF k = 0 THEN 1 ELSE x * power[k - 1] IN power

\* fpir_from_fmr(a / n) <= target: 1 - (1 - a/n)^c at most target.
ImpliesAtMost(a, n, c, target) ==
    Power(n - a)[c] * target[2] >= (target[2] - target[1]) * Power(n)[c]

\* Mutant: the threshold is the worst score not allowed, ties and all.
ThresholdOnTheTie(scores, allowed) ==
    IF allowed >= Len(scores) THEN ScoreFloor ELSE scores[allowed + 1]

\* threshold_at_rate, the target given as the number of scores it allows.
ThresholdAllowing(scores, allowed) ==
    IF allowed >= Len(scores) THEN ScoreFloor ELSE scores[allowed + 1] + 1

ThresholdAtRate(scores, target) == ThresholdAllowing(scores, Floor(target, Len(scores)))

\* How many impostor pairs fmr_for_fpir(target, c) allows.
AllowedPairs(impostor, target, c) ==
    Max({a \in 0..Len(impostor) : ImpliesAtMost(a, Len(impostor), c, target)})

\* Observing a rate takes as many samples as its inverse.
Resolvable(n, target) == target[1] > 0 /\ n * target[1] >= target[2]

\* Which population t_strong is taken from.  A target of nothing is not resolvable, and
\* saying how many probes it would take divides by it: nothing is chosen.
Route(nonmated, impostor, target, c) ==
    CASE Resolvable(Len(nonmated), target) -> "measured_fpir"
      [] target[1] = 0 -> "division_by_zero"
      [] ~ Resolvable(Len(nonmated), target) /\ target[1] > 0 /\ impostor # << >>
            /\ AllowedPairs(impostor, target, c) >= 1 -> "impostor_tail_bound"
      [] OTHER -> "unresolved_bound"

\* The tail bound is raised to what was observed: observed beats derived.  (Of a route
\* that has one.)
TStrong(nonmated, impostor, target, c) ==
    LET observed == ThresholdAtRate(nonmated, target)
    IN  IF Route(nonmated, impostor, target, c) = "impostor_tail_bound"
        THEN Max({observed, ThresholdAllowing(impostor, AllowedPairs(impostor, target, c))})
        ELSE observed

Correct(mated) == {i \in DOMAIN mated : mated[i].correct}

\* The scores of the mated probes whose rank-1 person is the right one, highest first.
CorrectScores(mated) ==
    LET Nth(k) == CHOOSE i \in Correct(mated) :
                      Cardinality({j \in Correct(mated) : j <= i}) = k
    IN  [k \in 1..Cardinality(Correct(mated)) |-> mated[Nth(k)].score]

\* threshold_for_review_recall without its ceiling.
UncappedReviewThreshold(mated, recall) ==
    LET correct == CorrectScores(mated)
        needed == Ceil(recall, Len(mated))
    IN  CASE needed = 0 -> (IF correct = << >> THEN ScoreFloor ELSE correct[1]) + 1
          [] needed > 0 /\ Len(correct) < needed -> ScoreFloor
          [] OTHER -> correct[needed]

\* With it: the highest correct score below, or just below it.
TPossible(mated, recall, ceiling) ==
    LET wanted == UncappedReviewThreshold(mated, recall)
        below == {s \in {CorrectScores(mated)[i] : i \in DOMAIN CorrectScores(mated)} : s < ceiling}
    IN  CASE wanted < ceiling -> wanted
          [] wanted >= ceiling /\ below # {} -> Max(below)
          [] OTHER -> ceiling - 1

\* np.quantile, between the two scores around the position q * (n - 1), rounded up: the
\* scores below it are the same ones.
Quantile(scores, q) ==
    LET n == Len(scores)
        rest == (q[1] * (n - 1)) % q[2]
        low == scores[n - Floor(q, n - 1)]
        high == IF rest = 0 THEN low ELSE scores[n - Floor(q, n - 1) - 1]
    IN  ((q[2] - rest) * low + rest * high + q[2] - 1) \div q[2]

\* choose_margin.
Margin(genuineGaps, impostorGaps, target, q) ==
    LET wanted == ThresholdAtRate(impostorGaps, target)
    IN  IF impostorGaps = << >> THEN 0
        ELSE Max({0, IF genuineGaps = << >> THEN wanted
                     ELSE Min({wanted, Quantile(genuineGaps, q)})})
=============================================================================
