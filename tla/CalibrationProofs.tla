-------------------------- MODULE CalibrationProofs --------------------------
(***************************************************************************)
(* What the calibrated thresholds keep, for populations of any size, any   *)
(* target and any number of comparisons.                                   *)
(***************************************************************************)
EXTENDS ScoringProofs

-----------------------------------------------------------------------------
(* Numbers.                                                                 *)

\* A set of naturals that nothing is the least to be missing from.
LEMMA SetInduction ==
    ASSUME NEW S, 0 \in S, \A n \in Nat : n \in S => n + 1 \in S
    PROVE  Nat \subseteq S
<1> SUFFICES ASSUME NEW k \in Nat, k \notin S
             PROVE  FALSE
    OBVIOUS
<1> DEFINE D == {n \in 0..k : n \notin S}
           down == [n \in Nat |-> 0 - n]
<1>1. IsFiniteSet(D) /\ D # {} /\ D \subseteq Nat /\ \A n \in D : n \notin S
    <2>1. IsFiniteSet(0..k)
        BY FS_Interval
    <2>2. D \subseteq 0..k /\ k \in D
        OBVIOUS
    <2>3. IsFiniteSet(D)
        BY <2>1, <2>2, FS_Subset
    <2> QED BY <2>2, <2>3
<1>2. \A n \in D : down[n] \in Int /\ down[n] = 0 - n
    BY <1>1
<1>3. \A n \in Nat : n < k /\ n \notin S => n \in D
    OBVIOUS
<1> HIDE DEF D, down
<1>4. PICK m \in D : \A n \in D : down[n] <= down[m]
    BY <1>1, <1>2, HighestIs
<1>5. m \in Nat /\ m # 0 /\ \A n \in D : m <= n
    BY <1>1, <1>2, <1>4
<1>6. m - 1 \in Nat /\ (m - 1) + 1 = m /\ m - 1 \notin D
    BY <1>5
<1>7. m <= k
    BY <1>1, <1>5 DEF D
<1>8. m - 1 \in S
    BY <1>3, <1>5, <1>6, <1>7
<1> QED BY <1>1, <1>6, <1>8

\* The highest of finitely many numbers is one of them.
LEMMA MaxIs ==
    ASSUME NEW S, S \subseteq Int, IsFiniteSet(S), S # {}
    PROVE  Max(S) \in S /\ \A y \in S : y <= Max(S)
<1> DEFINE R == {w \in S \X S : w[1] > w[2]}
           r(x) == 1 + Cardinality({y \in S : <<y, x>> \in R})
<1>1. \A x, y \in S : <<x, y>> \in R <=> x > y
    OBVIOUS
<1> HIDE DEF R
<1>2. /\ \A x, y, z \in S : <<x, y>> \in R /\ <<y, z>> \in R => <<x, z>> \in R
      /\ \A x \in S : <<x, x>> \notin R
      /\ \A x, y \in S : x # y => <<x, y>> \in R \/ <<y, x>> \in R
    BY <1>1
<1>3. /\ Cardinality(S) \in Nat
      /\ \A x \in S : r(x) \in 1..Cardinality(S)
      /\ \A x, y \in S : <<y, x>> \in R <=> r(y) < r(x)
      /\ \A n \in 1..Cardinality(S) : \E x \in S : r(x) = n
    BY <1>2, Ranking
<1> HIDE DEF r
<1>4. Cardinality(S) # 0
    BY FS_EmptySet
<1>5. PICK x \in S : r(x) = 1
    BY <1>3, <1>4
<1>6. \A y \in S : r(y) \in Nat /\ r(y) >= 1
    BY <1>3
<1>7. \A y \in S : <<y, x>> \notin R
    BY <1>3, <1>5, <1>6
<1>8. ASSUME NEW y \in S
      PROVE  x >= y /\ y <= x
    <2>1. x \in Int /\ y \in Int /\ ~ (y > x)
        BY <1>1, <1>7
    <2> QED BY <2>1
<1>9. Max(S) = CHOOSE z \in S : \A y \in S : z >= y
    BY DEF Max
<1>10. Max(S) \in S /\ \A y \in S : Max(S) >= y
    BY <1>8, <1>9
<1>11. ASSUME NEW y \in S
       PROVE  y <= Max(S)
    <2>1. y \in Int /\ Max(S) \in Int /\ Max(S) >= y
        BY <1>10
    <2> QED BY <2>1
<1> QED BY <1>10, <1>11

\* The power as it is meant to be read.
LEMMA PowerIs ==
    ASSUME NEW x \in Nat
    PROVE  /\ Power(x)[0] = 1
           /\ \A k \in Nat : Power(x)[k + 1] = x * Power(x)[k]
           /\ \A k \in Nat : Power(x)[k] \in Nat
<1> DEFINE Upto(n, f) == /\ f \in [0..n -> Nat] /\ f[0] = 1
                         /\ \A k \in 0..n : k + 1 <= n => f[k + 1] = x * f[k]
           S == {n \in Nat : \E f : Upto(n, f)}
           T == {k \in Nat : \A i, j \in Nat : \A f, g :
                    Upto(i, f) /\ Upto(j, g) /\ k <= i /\ k <= j => f[k] = g[k]}
           at(n) == CHOOSE f : Upto(n, f)
           F == [k \in Nat |-> at(k)[k]]
<1>1. ASSUME NEW n \in Nat, NEW f, Upto(n, f)
      PROVE  /\ f[0] = 1 /\ \A k \in 0..n : f[k] \in Nat
             /\ \A k \in 0..n : k + 1 <= n => f[k + 1] = x * f[k]
    BY <1>1
<1>2. \E f : Upto(0, f)
    <2>1. Upto(0, [k \in 0..0 |-> 1])
        OBVIOUS
    <2> HIDE DEF Upto
    <2> QED BY <2>1
<1>3. ASSUME NEW n \in Nat, NEW f, Upto(n, f)
      PROVE  \E g : Upto(n + 1, g)
    <2> DEFINE g == [k \in 0..(n + 1) |-> IF k = n + 1 THEN x * f[n] ELSE f[k]]
    <2>1. f[n] \in Nat /\ x * f[n] \in Nat
        BY <1>1, <1>3
    <2>2. g \in [0..(n + 1) -> Nat] /\ g[0] = 1
        BY <1>3, <2>1
    <2>3. ASSUME NEW k \in 0..(n + 1), k + 1 <= n + 1
          PROVE  g[k + 1] = x * g[k]
        <3>1. CASE k = n
            BY <3>1
        <3>2. CASE k < n
            <4>1. /\ k \in 0..n /\ k + 1 <= n /\ k + 1 \in 0..(n + 1)
                  /\ k + 1 # n + 1 /\ k # n + 1
                BY <3>2
            <4>2. g[k + 1] = f[k + 1] /\ g[k] = f[k]
                BY <4>1
            <4> QED BY <1>3, <4>1, <4>2
        <3> QED BY <2>3, <3>1, <3>2
    <2>4. Upto(n + 1, g)
        BY <2>2, <2>3
    <2> HIDE DEF Upto, g
    <2> QED BY <2>4
<1> HIDE DEF Upto
<1>4. \A n \in Nat : Upto(n, at(n))
    <2>1. Nat \subseteq S
        <3>1. 0 \in S /\ \A n \in Nat : n \in S => n + 1 \in S
            BY <1>2, <1>3
        <3> HIDE DEF S
        <3> QED BY <3>1, SetInduction
    <2>2. ASSUME NEW n \in Nat PROVE \E f : Upto(n, f)
        BY <2>1
    <2> QED BY <2>2
<1>5. ASSUME NEW k \in Nat, NEW i \in Nat, NEW j \in Nat, NEW f, NEW g,
             Upto(i, f), Upto(j, g), k <= i, k <= j
      PROVE  f[k] = g[k]
    <2>1. 0 \in T
        BY <1>1
    <2>2. ASSUME NEW n \in Nat, n \in T
          PROVE  n + 1 \in T
        <3> SUFFICES ASSUME NEW v \in Nat, NEW w \in Nat, NEW a, NEW b,
                            Upto(v, a), Upto(w, b), n + 1 <= v, n + 1 <= w
                     PROVE  a[n + 1] = b[n + 1]
            OBVIOUS
        <3>1. n \in 0..v /\ n \in 0..w /\ n <= v /\ n <= w
            OBVIOUS
        <3>2. a[n] = b[n]
            BY <2>2, <3>1
        <3>3. a[n + 1] = x * a[n] /\ b[n + 1] = x * b[n]
            BY <1>1, <3>1
        <3> QED BY <3>2, <3>3
    <2>3. Nat \subseteq T
        <3> HIDE DEF T
        <3> QED BY <2>1, <2>2, SetInduction
    <2>4. k \in T
        BY <2>3
    <2> QED BY <1>5, <2>4
<1>6. \A k \in Nat : F[k] = at(k)[k]
    OBVIOUS
<1> HIDE DEF at
<1>7. F[0] = 1 /\ \A k \in Nat : F[k] \in Nat
    BY <1>1, <1>4
<1>8. ASSUME NEW k \in Nat
      PROVE  F[k + 1] = x * F[k]
    <2> DEFINE f == at(k + 1)
               g == at(k)
    <2>1. Upto(k + 1, f) /\ Upto(k, g) /\ k \in 0..(k + 1) /\ k <= k + 1 /\ k + 1 \in Nat
        BY <1>4
    <2>2. F[k + 1] = f[k + 1] /\ F[k] = g[k]
        BY <2>1
    <2> HIDE DEF f, g, F
    <2>3. f[k + 1] = x * f[k]
        BY <1>1, <2>1
    <2>4. f[k] = g[k]
        BY <1>5, <2>1
    <2> QED BY <2>2, <2>3, <2>4
<1>9. F = [k \in Nat |-> IF k = 0 THEN 1 ELSE x * F[k - 1]]
    <2>1. ASSUME NEW k \in Nat
          PROVE  F[k] = IF k = 0 THEN 1 ELSE x * F[k - 1]
        <3>1. CASE k = 0
            <4> HIDE DEF F
            <4> QED BY <1>7, <3>1
        <3>2. CASE k # 0
            <4>1. k - 1 \in Nat /\ (k - 1) + 1 = k
                BY <3>2
            <4> HIDE DEF F
            <4>2. F[(k - 1) + 1] = x * F[k - 1]
                BY <1>8, <4>1
            <4> QED BY <3>2, <4>1, <4>2
        <3> QED BY <3>1, <3>2
    <2>2. F = [k \in Nat |-> F[k]]
        OBVIOUS
    <2> HIDE DEF F
    <2> QED BY <2>1, <2>2
<1> HIDE DEF F
<1>10. Power(x) = [k \in Nat |-> IF k = 0 THEN 1 ELSE x * Power(x)[k - 1]]
    BY <1>9, Zenon DEF Power
<1> DEFINE P == Power(x)
<1> HIDE DEF P
<1>11. P = [k \in Nat |-> IF k = 0 THEN 1 ELSE x * P[k - 1]]
    BY <1>10 DEF P
<1>12. P[0] = 1
    BY <1>11
<1>13. ASSUME NEW k \in Nat PROVE P[k + 1] = x * P[k]
    <2>1. k + 1 \in Nat /\ k + 1 # 0 /\ (k + 1) - 1 = k
        OBVIOUS
    <2>2. P[k + 1] = IF k + 1 = 0 THEN 1 ELSE x * P[(k + 1) - 1]
        BY <1>11, <2>1
    <2> QED BY <2>1, <2>2
<1> DEFINE N == {k \in Nat : P[k] \in Nat}
<1>14. Nat \subseteq N
    <2>1. 0 \in N
        BY <1>12
    <2>2. ASSUME NEW k \in Nat, k \in N PROVE k + 1 \in N
        BY <1>13, <2>2
    <2> HIDE DEF N
    <2> QED BY <2>1, <2>2, SetInduction
<1>15. \A k \in Nat : P[k] \in Nat
    BY <1>14
<1> QED BY <1>12, <1>13, <1>15 DEF P

\* The smaller the number, the smaller its powers.
LEMMA PowersGrow ==
    ASSUME NEW x \in Nat, NEW y \in Nat, x <= y, NEW k \in Nat
    PROVE  Power(x)[k] <= Power(y)[k]
<1> DEFINE P == Power(x)
           Q == Power(y)
           S == {i \in Nat : P[i] <= Q[i]}
<1>1. /\ P[0] = 1 /\ \A i \in Nat : P[i + 1] = x * P[i]
      /\ \A i \in Nat : P[i] \in Nat
    BY PowerIs
<1>2. /\ Q[0] = 1 /\ \A i \in Nat : Q[i + 1] = y * Q[i]
      /\ \A i \in Nat : Q[i] \in Nat
    BY PowerIs
<1> HIDE DEF P, Q
<1>3. 0 \in S
    BY <1>1, <1>2
<1>4. ASSUME NEW i \in Nat, i \in S
      PROVE  i + 1 \in S
    <2> DEFINE a == P[i]
               b == Q[i]
    <2>1. a \in Nat /\ b \in Nat /\ a <= b
        BY <1>1, <1>2, <1>4
    <2>2. P[i + 1] = x * a /\ Q[i + 1] = y * b
        BY <1>1, <1>2
    <2> HIDE DEF a, b
    <2>3. x * a <= y * a
        <3>1. (y - x) * a >= 0 /\ (y - x) * a = y * a - x * a /\ x * a \in Int /\ y * a \in Int
            BY <2>1
        <3> QED BY <3>1
    <2>4. y * a <= y * b
        <3>1. (b - a) * y >= 0 /\ (b - a) * y = y * b - y * a /\ y * a \in Int /\ y * b \in Int
            BY <2>1
        <3> QED BY <3>1
    <2>5. x * a \in Int /\ y * a \in Int /\ y * b \in Int
        BY <2>1
    <2>6. x * a <= y * b
        BY <2>3, <2>4, <2>5
    <2> QED BY <2>2, <2>6
<1>5. Nat \subseteq S
    <2> HIDE DEF S
    <2> QED BY <1>3, <1>4, SetInduction
<1>6. k \in S
    BY <1>5
<1> QED BY <1>6 DEF P, Q

-----------------------------------------------------------------------------
(* The threshold of a rate.                                                 *)

\* A population as it is measured: its scores, highest first.
Ordered(scores) ==
    /\ scores \in Seq(Int)
    /\ \A i, j \in DOMAIN scores : i < j => scores[i] >= scores[j]

\* Just above the first score that is one too many.
LEMMA ThresholdCuts ==
    ASSUME NEW scores, Ordered(scores), NEW allowed \in Nat, NEW t \in Int
    PROVE  /\ Len(scores) \in Nat
           /\ AtOrAbove(scores, t) \in 0..Len(scores)
           /\ allowed < Len(scores) =>
                 /\ ThresholdAllowing(scores, allowed) \in Int
                 /\ AtOrAbove(scores, t) <= allowed <=> t >= ThresholdAllowing(scores, allowed)
<1> DEFINE hits == {i \in DOMAIN scores : scores[i] >= t}
           n == Len(scores)
<1>1. n \in Nat /\ DOMAIN scores = 1..n /\ \A i \in 1..n : scores[i] \in Int
    BY DEF Ordered
<1>2. \A i, j \in 1..n : i < j => scores[i] >= scores[j]
    BY <1>1 DEF Ordered
<1>3. AtOrAbove(scores, t) = Cardinality(hits)
    BY DEF AtOrAbove
<1> HIDE DEF n
<1>4. \A i \in 1..n : i \in hits <=> scores[i] >= t
    BY <1>1
<1>5. hits \subseteq 1..n
    BY <1>1
<1> HIDE DEF hits
<1>6. \A k \in Nat : IsFiniteSet(1..k) /\ Cardinality(1..k) = k
    <2> SUFFICES ASSUME NEW k \in Nat PROVE IsFiniteSet(1..k) /\ Cardinality(1..k) = k
        OBVIOUS
    <2>1. IsFiniteSet(1..k) /\ Cardinality(1..k) = IF 1 > k THEN 0 ELSE k - 1 + 1
        BY FS_Interval
    <2> QED BY <2>1
<1>7. IsFiniteSet(hits) /\ Cardinality(hits) \in Nat /\ Cardinality(hits) <= n
    <2>1. IsFiniteSet(hits) /\ Cardinality(hits) <= Cardinality(1..n)
        BY <1>1, <1>5, <1>6, FS_Subset
    <2> QED BY <1>1, <1>6, <2>1, FS_CardinalityType
<1>8. ASSUME allowed < n
      PROVE  /\ ThresholdAllowing(scores, allowed) \in Int
             /\ Cardinality(hits) <= allowed <=> t >= ThresholdAllowing(scores, allowed)
    <2> DEFINE worst == scores[allowed + 1]
    <2>1. worst \in Int /\ allowed + 1 \in 1..n
        BY <1>1, <1>8
    <2>2. ThresholdAllowing(scores, allowed) = worst + 1
        BY <1>1, <1>8 DEF ThresholdAllowing, n
    <2>3. ASSUME t > worst PROVE Cardinality(hits) <= allowed
        <3>1. ASSUME NEW i \in hits PROVE i \in 1..allowed
            <4>1. i \in 1..n /\ scores[i] >= t /\ scores[i] \in Int
                BY <1>1, <1>4, <1>5
            <4>2. i # allowed + 1 /\ ~ (allowed + 1 < i)
                BY <1>2, <2>1, <2>3, <4>1
            <4> QED BY <1>1, <4>1, <4>2
        <3>2. hits \subseteq 1..allowed
            BY <3>1
        <3>3. Cardinality(hits) <= Cardinality(1..allowed)
            BY <1>6, <3>2, FS_Subset
        <3> QED BY <1>6, <3>3
    <2>4. ASSUME t <= worst PROVE Cardinality(hits) >= allowed + 1
        <3>1. ASSUME NEW i \in 1..(allowed + 1) PROVE i \in hits
            <4>1. i \in 1..n /\ scores[i] \in Int
                BY <1>1, <1>8
            <4>2. i = allowed + 1 \/ i < allowed + 1
                OBVIOUS
            <4>3. scores[i] >= worst
                BY <1>2, <2>1, <4>1, <4>2
            <4>4. scores[i] >= t
                <5> HIDE DEF worst
                <5> QED BY <2>1, <2>4, <4>1, <4>3
            <4> QED BY <1>4, <4>1, <4>4
        <3>2. 1..(allowed + 1) \subseteq hits
            BY <3>1
        <3>3. Cardinality(1..(allowed + 1)) <= Cardinality(hits)
            BY <1>7, <3>2, FS_Subset
        <3> QED BY <1>6, <1>7, <3>3
    <2> HIDE DEF worst
    <2> QED BY <1>7, <2>1, <2>2, <2>3, <2>4
<1> QED BY <1>1, <1>3, <1>7, <1>8 DEF n

(* threshold_at_rate returns the lowest threshold that keeps a population's   *)
(* rate within the target, ties and all: at it or above, no more than the     *)
(* target is accepted, and, unless the target allows everybody, more than     *)
(* that below it (metrics.py:118-150).  So t_strong may be raised above it    *)
(* without breaking the target.                                               *)
THEOREM ThresholdIsLowestWithinTarget ==
    ASSUME NEW scores, Ordered(scores), scores # << >>,
           NEW num \in Nat, NEW den \in Nat \ {0}, NEW t \in Int
    PROVE  /\ t >= ThresholdAtRate(scores, <<num, den>>)
                 => AtOrAbove(scores, t) * den <= num * Len(scores)
           /\ num < den /\ t < ThresholdAtRate(scores, <<num, den>>)
                 => AtOrAbove(scores, t) * den > num * Len(scores)
<1> DEFINE n == Len(scores)
           total == num * n
           allowed == total \div den
           a == AtOrAbove(scores, t)
<1>1. n \in Nat /\ n # 0
    BY DEF Ordered
<1>2. ThresholdAtRate(scores, <<num, den>>) = ThresholdAllowing(scores, allowed)
    BY DEF ThresholdAtRate, Floor
<1> HIDE DEF n
<1>3. total \in Nat
    BY <1>1
<1> HIDE DEF total
<1>4. allowed \in Nat /\ allowed * den <= total /\ total < (allowed + 1) * den
    BY <1>3
<1> HIDE DEF allowed
<1>5. /\ a \in 0..n
      /\ allowed < n =>
            /\ ThresholdAllowing(scores, allowed) \in Int
            /\ a <= allowed <=> t >= ThresholdAllowing(scores, allowed)
    BY <1>4, ThresholdCuts DEF n
<1> HIDE DEF a
<1>6. \A x, y \in Nat : x <= y => x * den <= y * den
    <2> SUFFICES ASSUME NEW x \in Nat, NEW y \in Nat, x <= y
                 PROVE  x * den <= y * den
        OBVIOUS
    <2>1. (y - x) * den >= 0 /\ (y - x) * den = y * den - x * den
        OBVIOUS
    <2>2. x * den \in Int /\ y * den \in Int
        OBVIOUS
    <2> QED BY <2>1, <2>2
<1>7. a \in Nat /\ a * den \in Int /\ allowed * den \in Int /\ (allowed + 1) * den \in Int
    BY <1>1, <1>4, <1>5
<1>8. a <= allowed => a * den <= total
    BY <1>3, <1>4, <1>6, <1>7
<1>9. a > allowed => a * den > total
    <2>1. a > allowed => (allowed + 1) * den <= a * den
        BY <1>4, <1>6, <1>7
    <2> QED BY <1>3, <1>4, <1>7, <2>1
<1>10. allowed >= n => a <= allowed
    BY <1>1, <1>4, <1>5
<1>11. num < den => allowed < n
    <2> SUFFICES ASSUME num < den, allowed >= n PROVE FALSE
        BY <1>1, <1>4
    <2>1. n * den <= allowed * den
        BY <1>1, <1>4, <1>6
    <2>2. (den - num) * n > 0 /\ (den - num) * n = n * den - total
        BY <1>1 DEF total
    <2>3. n * den \in Int
        BY <1>1
    <2> QED BY <1>3, <1>4, <1>7, <2>1, <2>2, <2>3
<1>12. total = num * Len(scores)
    BY DEF total, n
<1>13. ASSUME t >= ThresholdAllowing(scores, allowed) PROVE a * den <= total
    <2>1. a <= allowed
        BY <1>1, <1>4, <1>5, <1>10, <1>13
    <2> QED BY <2>1, <1>8
<1>14. ASSUME num < den, t < ThresholdAllowing(scores, allowed) PROVE a * den > total
    <2>1. a > allowed
        BY <1>4, <1>5, <1>7, <1>11, <1>14
    <2> QED BY <2>1, <1>9
<1> QED BY <1>2, <1>12, <1>13, <1>14 DEF a

\* Of two numbers the higher.
LEMMA HigherOfTwo ==
    ASSUME NEW x \in Int, NEW y \in Int
    PROVE  /\ Max({x, y}) \in {x, y} /\ Max({x, y}) \in Int
           /\ x <= Max({x, y}) /\ y <= Max({x, y})
<1>1. IsFiniteSet({x, y}) /\ {x, y} # {} /\ {x, y} \subseteq Int
    <2>1. IsFiniteSet({x}) /\ {x, y} = {x} \cup {y}
        BY FS_Singleton
    <2>2. IsFiniteSet({x, y})
        BY <2>1, FS_AddElement
    <2> QED BY <2>2
<1> QED BY <1>1, MaxIs

\* A threshold is a score, or just above one, or the floor.
LEMMA ThresholdIsScore ==
    ASSUME NEW scores, Ordered(scores), NEW allowed \in Nat
    PROVE  /\ ThresholdAllowing(scores, allowed) \in Int
           /\ allowed >= Len(scores) => ThresholdAllowing(scores, allowed) = ScoreFloor
<1>1. Len(scores) \in Nat /\ 0 \in Int
    BY DEF Ordered
<1>2. allowed < Len(scores) => ThresholdAllowing(scores, allowed) \in Int
    BY <1>1, ThresholdCuts
<1>3. allowed >= Len(scores) => ThresholdAllowing(scores, allowed) = ScoreFloor
    BY DEF ThresholdAllowing
<1> QED BY <1>1, <1>2, <1>3 DEF ScoreFloor

\* How many pairs the bound allows, and so does any smaller number.
LEMMA PairsAllowed ==
    ASSUME NEW impostor, Ordered(impostor), NEW c \in Nat,
           NEW num \in Nat, NEW den \in Nat \ {0}, num <= den
    PROVE  /\ AllowedPairs(impostor, <<num, den>>, c) \in 0..Len(impostor)
           /\ \A a \in 0..AllowedPairs(impostor, <<num, den>>, c) :
                 ImpliesAtMost(a, Len(impostor), c, <<num, den>>)
<1> DEFINE n == Len(impostor)
           all == Power(n)[c]
           Holds(a) == ImpliesAtMost(a, n, c, <<num, den>>)
           fits == {a \in 0..n : Holds(a)}
           most == AllowedPairs(impostor, <<num, den>>, c)
<1>1. n \in Nat /\ IsFiniteSet(0..n)
    BY FS_Interval DEF Ordered
<1> HIDE DEF n
<1>2. all \in Nat
    BY <1>1, PowerIs
<1>3. \A a \in 0..n : Holds(a) <=> Power(n - a)[c] * den >= (den - num) * all
    BY DEF ImpliesAtMost
<1> HIDE DEF all, Holds
<1>4. 0 \in fits
    <2>1. 0 \in 0..n /\ n - 0 = n
        BY <1>1
    <2>2. Holds(0) <=> all * den >= (den - num) * all
        BY <1>3, <2>1 DEF all
    <2>3. num * all >= 0 /\ (den - num) * all = all * den - num * all
        BY <1>2
    <2>4. all * den \in Int /\ num * all \in Int
        BY <1>2
    <2> QED BY <2>1, <2>2, <2>3, <2>4
<1>5. most \in fits
    <2>1. IsFiniteSet(fits) /\ fits # {} /\ fits \subseteq Int
        <3>1. fits \subseteq 0..n
            OBVIOUS
        <3>2. IsFiniteSet(fits)
            BY <1>1, <3>1, FS_Subset
        <3> QED BY <1>4, <3>2
    <2>2. most = Max(fits)
        BY DEF AllowedPairs, n, Holds
    <2> HIDE DEF fits, most
    <2> QED BY <2>1, <2>2, MaxIs
<1>6. most \in 0..n /\ Holds(most)
    BY <1>5
<1> HIDE DEF most, fits
<1>7. ASSUME NEW a \in 0..most
      PROVE  Holds(a)
    <2>1. a \in 0..n /\ n - a \in Nat /\ n - most \in Nat /\ n - most <= n - a
        BY <1>1, <1>6
    <2> DEFINE more == Power(n - a)[c]
               less == Power(n - most)[c]
    <2>2. less <= more /\ less \in Nat /\ more \in Nat
        BY <2>1, PowersGrow, PowerIs
    <2>3. less * den >= (den - num) * all
        BY <1>3, <1>6
    <2> HIDE DEF less, more
    <2>4. less * den <= more * den
        <3>1. (more - less) * den >= 0 /\ (more - less) * den = more * den - less * den
            BY <2>2
        <3>2. more * den \in Int /\ less * den \in Int
            BY <2>2
        <3> QED BY <3>1, <3>2
    <2>5. more * den \in Int /\ less * den \in Int /\ (den - num) * all \in Int
        BY <1>2, <2>2
    <2>6. more * den >= (den - num) * all
        BY <2>3, <2>4, <2>5
    <2> QED BY <1>3, <2>1, <2>6 DEF more
<1> QED BY <1>6, <1>7 DEF most, Holds, n

(* t_strong keeps its promise whatever was measured: it accepts no more      *)
(* probes of strangers than the target; on the measured route it is the      *)
(* lowest threshold to do so; on the impostors' route the rate implied by    *)
(* the pairs it accepts is within the target as well, over any number of     *)
(* comparisons (metrics.py:118-150, 166-227, 552-640).                       *)
THEOREM StrongKeepsItsPromise ==
    ASSUME NEW nonmated, Ordered(nonmated), nonmated # << >>,
           NEW impostor, Ordered(impostor), NEW c \in Nat,
           NEW num \in Nat, NEW den \in Nat \ {0}, num <= den
    PROVE  StrongWithinTarget(nonmated, impostor, <<num, den>>, c)
<1> DEFINE target == <<num, den>>
           t == TStrong(nonmated, impostor, target, c)
           route == Route(nonmated, impostor, target, c)
           observed == ThresholdAtRate(nonmated, target)
           pairs == AllowedPairs(impostor, target, c)
           derived == ThresholdAllowing(impostor, pairs)
           total == num * Len(nonmated)
           Within(u) == AtOrAbove(nonmated, u) * den <= total
<1>1. target[1] = num /\ target[2] = den
    OBVIOUS
<1>2. Len(nonmated) \in Nat /\ total \in Nat
    BY DEF Ordered
<1>3. observed = ThresholdAllowing(nonmated, total \div den) /\ total \div den \in Nat
    BY <1>1, <1>2 DEF ThresholdAtRate, Floor
<1>4. observed \in Int
    <2> HIDE DEF observed, total
    <2> QED BY <1>3, ThresholdIsScore
<1>5. /\ pairs \in 0..Len(impostor) /\ Len(impostor) \in Nat
      /\ \A a \in 0..pairs : ImpliesAtMost(a, Len(impostor), c, target)
    <2>1. Len(impostor) \in Nat
        BY DEF Ordered
    <2>2. /\ pairs \in 0..Len(impostor)
          /\ \A a \in 0..pairs : ImpliesAtMost(a, Len(impostor), c, target)
        BY PairsAllowed
    <2> QED BY <2>1, <2>2
<1>6. derived \in Int
    <2>1. pairs \in Nat
        BY <1>5
    <2> HIDE DEF pairs
    <2> QED BY <2>1, ThresholdIsScore
<1>7. t = IF route = "impostor_tail_bound" THEN Max({observed, derived}) ELSE observed
    BY DEF TStrong
<1>8. ASSUME NEW u \in Int
      PROVE  /\ u >= observed => Within(u)
             /\ num < den /\ u < observed => ~ Within(u)
    <2> HIDE DEF observed
    <2>1. /\ u >= observed => AtOrAbove(nonmated, u) * den <= total
          /\ num < den /\ u < observed => AtOrAbove(nonmated, u) * den > total
        BY ThresholdIsLowestWithinTarget DEF observed
    <2>2. AtOrAbove(nonmated, u) \in Nat
        <3>1. 0 \in Nat /\ AtOrAbove(nonmated, u) \in 0..Len(nonmated)
            BY ThresholdCuts
        <3> QED BY <1>2, <3>1
    <2> DEFINE a == AtOrAbove(nonmated, u)
    <2>3. a * den \in Int
        BY <2>2
    <2> HIDE DEF a, total
    <2> QED BY <1>2, <2>1, <2>3 DEF a
<1> HIDE DEF target, route, observed, pairs, derived
<1>9. t \in Int /\ t >= observed /\ (route = "impostor_tail_bound" => t >= derived)
    <2>1. /\ Max({observed, derived}) \in Int
          /\ observed <= Max({observed, derived}) /\ derived <= Max({observed, derived})
        BY <1>4, <1>6, HigherOfTwo
    <2> DEFINE higher == Max({observed, derived})
    <2> HIDE DEF higher, t
    <2>2. t = IF route = "impostor_tail_bound" THEN higher ELSE observed
        BY <1>7 DEF higher
    <2> QED BY <1>4, <1>6, <2>1, <2>2 DEF higher
<1> HIDE DEF t
<1>10. Within(t)
    BY <1>8, <1>9
<1>11. ASSUME route = "measured_fpir", NEW lower \in 0..(t - 1)
       PROVE  ~ Within(lower)
    <2>1. t = observed
        BY <1>7, <1>11
    <2>2. lower \in Int /\ lower < observed /\ lower >= 0
        BY <1>4, <1>11, <2>1
    <2>3. num < den
        <3> SUFFICES ASSUME num = den PROVE FALSE
            OBVIOUS
        <3>1. total = Len(nonmated) * den
            BY <1>2
        <3>2. total \div den >= Len(nonmated)
            <4> DEFINE n == Len(nonmated)
            <4> HIDE DEF n, total
            <4>1. (n * den) \div den = n
                BY <1>2 DEF n
            <4> QED BY <1>2, <3>1, <4>1 DEF n
        <3>3. observed = ScoreFloor
            <4> HIDE DEF total
            <4> QED BY <1>3, <3>2, ThresholdIsScore
        <3> QED BY <2>2, <3>3 DEF ScoreFloor
    <2> HIDE DEF Within
    <2> QED BY <1>8, <2>2, <2>3
<1>12. ASSUME route = "impostor_tail_bound"
       PROVE  ImpliesAtMost(AtOrAbove(impostor, t), Len(impostor), c, target)
    <2> DEFINE a == AtOrAbove(impostor, t)
               n == Len(impostor)
    <2>1. /\ a \in 0..n
          /\ pairs < n => (a <= pairs <=> t >= derived)
        <3>1. pairs \in Nat
            BY <1>5
        <3> QED BY <1>9, <3>1, ThresholdCuts DEF derived
    <2>2. t >= derived
        BY <1>9, <1>12
    <2> HIDE DEF a, n
    <2>3. a \in 0..pairs
        BY <1>5, <2>1, <2>2 DEF n
    <2> QED BY <1>5, <2>3 DEF a
<1> QED
    BY <1>1, <1>10, <1>11, <1>12 DEF StrongWithinTarget, t, route, target

-----------------------------------------------------------------------------
(* The threshold of the review band.                                        *)

\* Probes of enrolled persons, highest first, each right or wrong at rank one.
MatedProbes(mated) ==
    /\ mated \in Seq([score : Int, correct : BOOLEAN])
    /\ \A i, j \in DOMAIN mated : i < j => mated[i].score >= mated[j].score

\* The scores of those who were right are a population as any other.
LEMMA CorrectScoresAre ==
    ASSUME NEW mated, MatedProbes(mated)
    PROVE  Ordered(CorrectScores(mated))
<1> DEFINE right == Correct(mated)
           n == Len(mated)
           R == {w \in right \X right : w[1] < w[2]}
           upto(x) == {y \in right : y <= x}
           below(x) == {y \in right : <<y, x>> \in R}
           r(x) == Cardinality(upto(x))
           C == Cardinality(right)
           Nth(k) == CHOOSE i \in right : Cardinality({y \in right : y <= i}) = k
           scores == CorrectScores(mated)
<1>1. /\ n \in Nat /\ DOMAIN mated = 1..n
      /\ \A i \in 1..n : mated[i].score \in Int
      /\ \A i, j \in 1..n : i < j => mated[i].score >= mated[j].score
    <2>1. n \in Nat /\ DOMAIN mated = 1..n
        BY DEF MatedProbes
    <2>2. \A i \in 1..n : mated[i] \in [score : Int, correct : BOOLEAN]
        <3> DEFINE Probe == [score : Int, correct : BOOLEAN]
        <3>1. mated \in Seq(Probe)
            BY DEF MatedProbes
        <3> HIDE DEF Probe
        <3>2. \A i \in 1..Len(mated) : mated[i] \in Probe
            BY <3>1
        <3> QED BY <3>2 DEF Probe, n
    <2>3. \A i \in 1..n : mated[i].score \in Int
        <3> HIDE DEF n
        <3> QED BY <2>2
    <2> QED BY <2>1, <2>3 DEF MatedProbes
<1>2. right \subseteq 1..n
    BY <1>1 DEF Correct
<1>3. scores = [k \in 1..C |-> mated[Nth(k)].score]
    BY DEF CorrectScores
<1>4. \A x, y \in right : <<x, y>> \in R <=> x < y
    OBVIOUS
<1> HIDE DEF right, n, R
<1>5. IsFiniteSet(right) /\ \A x \in right : x \in Int
    <2>1. IsFiniteSet(1..n)
        BY <1>1, FS_Interval
    <2>2. IsFiniteSet(right)
        BY <1>2, <2>1, FS_Subset
    <2>3. \A x \in right : x \in Int
        BY <1>1, <1>2
    <2> QED BY <2>2, <2>3
<1>6. /\ \A x, y, z \in right : <<x, y>> \in R /\ <<y, z>> \in R => <<x, z>> \in R
      /\ \A x \in right : <<x, x>> \notin R
      /\ \A x, y \in right : x # y => <<x, y>> \in R \/ <<y, x>> \in R
    BY <1>4, <1>5
<1>7. /\ C \in Nat
      /\ \A x \in right : 1 + Cardinality(below(x)) \in 1..C
      /\ \A x, y \in right : <<y, x>> \in R <=> 1 + Cardinality(below(y)) < 1 + Cardinality(below(x))
      /\ \A k \in 1..C : \E x \in right : 1 + Cardinality(below(x)) = k
    BY <1>5, <1>6, Ranking
<1>8. ASSUME NEW x \in right
      PROVE  r(x) = 1 + Cardinality(below(x))
    <2>1. ASSUME NEW y PROVE y \in upto(x) <=> y \in below(x) \/ y = x
        <3>1. y \in right => (y <= x <=> y < x \/ y = x)
            BY <1>5
        <3>2. y \in right => (y < x <=> <<y, x>> \in R)
            BY <1>4
        <3>3. x \in right
            OBVIOUS
        <3> QED BY <3>1, <3>2, <3>3
    <2>2. x \notin below(x) /\ below(x) \subseteq right
        BY <1>6
    <2> HIDE DEF upto, below
    <2>3. upto(x) = below(x) \cup {x}
        BY <2>1
    <2>4. IsFiniteSet(below(x))
        BY <1>5, <2>2, FS_Subset
    <2>5. Cardinality(below(x)) \in Nat /\ Cardinality(below(x) \cup {x}) = Cardinality(below(x)) + 1
        BY <2>2, <2>4, FS_AddElement, FS_CardinalityType
    <2> QED BY <2>3, <2>5
<1> DEFINE s(x) == 1 + Cardinality(below(x))
<1>9. \A x \in right : r(x) = s(x)
    BY <1>8
<1>10. /\ \A x \in right : s(x) \in 1..C
       /\ \A x, y \in right : <<y, x>> \in R <=> s(y) < s(x)
       /\ \A k \in 1..C : \E x \in right : s(x) = k
    BY <1>7
<1> HIDE DEF s
<1>11. \A k \in 1..C : \E x \in right : r(x) = k
    BY <1>9, <1>10
<1>12. ASSUME NEW k \in 1..C
       PROVE  Nth(k) \in right /\ r(Nth(k)) = k
    BY <1>11
<1> HIDE DEF Nth
<1>13. ASSUME NEW x \in right, NEW y \in right
       PROVE  x < y <=> r(x) < r(y)
    <2>1. r(x) = s(x) /\ r(y) = s(y)
        BY <1>9
    <2>2. <<x, y>> \in R <=> s(x) < s(y)
        BY <1>10
    <2>3. <<x, y>> \in R <=> x < y
        BY <1>4
    <2> QED BY <2>1, <2>2, <2>3
<1> HIDE DEF scores, C, r
<1>14. ASSUME NEW k \in 1..C
       PROVE  scores[k] = mated[Nth(k)].score /\ scores[k] \in Int
    <2>1. Nth(k) \in 1..n
        BY <1>2, <1>12
    <2> QED BY <1>1, <1>3, <2>1
<1>15. ASSUME NEW k \in 1..C, NEW l \in 1..C, k < l
       PROVE  scores[k] >= scores[l]
    <2>1. Nth(k) \in right /\ Nth(l) \in right /\ r(Nth(k)) < r(Nth(l))
        BY <1>12, <1>15
    <2>2. Nth(k) < Nth(l) /\ Nth(k) \in 1..n /\ Nth(l) \in 1..n
        BY <1>2, <1>13, <2>1
    <2>3. mated[Nth(k)].score >= mated[Nth(l)].score
        BY <1>1, <2>2
    <2> QED BY <1>14, <2>3
<1>16. scores \in Seq(Int) /\ DOMAIN scores = 1..C
    <2>1. scores \in [1..C -> Int]
        BY <1>3, <1>14
    <2>2. C \in Nat
        BY <1>7 DEF C
    <2> QED BY <2>1, <2>2
<1> QED BY <1>15, <1>16 DEF Ordered, scores

\* The k highest scores of a population, and who is as high as the k-th.
LEMMA HighestScores ==
    ASSUME NEW scores, Ordered(scores), NEW k \in 1..Len(scores), NEW t \in Int
    PROVE  /\ scores[k] \in Int
           /\ AtOrAbove(scores, t) >= k <=> t <= scores[k]
<1>1. /\ k \in Nat /\ k - 1 \in Nat /\ k - 1 < Len(scores) /\ (k - 1) + 1 = k
      /\ Len(scores) \in Nat /\ scores[k] \in Int
    BY DEF Ordered
<1>2. ThresholdAllowing(scores, k - 1) = scores[k] + 1
    BY <1>1 DEF ThresholdAllowing
<1>3. AtOrAbove(scores, t) \in Nat /\ (AtOrAbove(scores, t) <= k - 1 <=> t >= scores[k] + 1)
    <2>1. /\ AtOrAbove(scores, t) \in 0..Len(scores)
          /\ AtOrAbove(scores, t) <= k - 1 <=> t >= ThresholdAllowing(scores, k - 1)
        BY <1>1, ThresholdCuts
    <2> QED BY <1>1, <1>2, <2>1
<1> DEFINE a == AtOrAbove(scores, t)
           top == scores[k]
<1>4. a \in Nat /\ top \in Int /\ (a <= k - 1 <=> t >= top + 1)
    BY <1>1, <1>3
<1> HIDE DEF a, top
<1> QED BY <1>1, <1>4 DEF a, top

\* So many out of total, counted in shares of den, are enough for the total.
LEMMA CeilIs ==
    ASSUME NEW total \in Nat, NEW den \in Nat \ {0}, NEW a \in Nat
    PROVE  /\ (total + den - 1) \div den \in Nat
           /\ a * den >= total <=> a >= (total + den - 1) \div den
<1> DEFINE q == (total + den - 1) \div den
<1>1. total + den - 1 \in Nat
    OBVIOUS
<1>2. q \in Nat /\ q * den <= total + den - 1 /\ total + den - 1 < (q + 1) * den
    BY <1>1
<1> HIDE DEF q
<1>3. q * den \in Int /\ (q + 1) * den = q * den + den /\ a * den \in Int
    BY <1>2
<1>4. q * den >= total /\ q * den - den < total
    BY <1>2, <1>3
<1>5. ASSUME a >= q PROVE a * den >= total
    <2>1. (a - q) * den >= 0 /\ (a - q) * den = a * den - q * den
        BY <1>2, <1>5
    <2> QED BY <1>3, <1>4, <2>1
<1>6. ASSUME ~ (a >= q) PROVE ~ (a * den >= total)
    <2>1. (q - 1 - a) * den >= 0 /\ (q - 1 - a) * den = q * den - den - a * den
        BY <1>2, <1>6
    <2> QED BY <1>3, <1>4, <2>1
<1> QED BY <1>2, <1>5, <1>6 DEF q

(* t_possible keeps its promise for any probes: it is strictly below         *)
(* t_strong, whatever t_strong is; it recalls what it should unless no       *)
(* threshold below t_strong does; and no correct score between the two       *)
(* recalls as much (metrics.py:327-381, 641-660).                            *)
THEOREM PossibleKeepsItsPromise ==
    ASSUME NEW mated, MatedProbes(mated), NEW num \in Nat, NEW den \in Nat \ {0},
           NEW tStrong \in Int
    PROVE  PossibleRecalls(mated, <<num, den>>, tStrong)
<1> DEFINE recall == <<num, den>>
           total == num * Len(mated)
           needed == Ceil(recall, Len(mated))
           correct == CorrectScores(mated)
           wanted == UncappedReviewThreshold(mated, recall)
           t == TPossible(mated, recall, tStrong)
           n == Len(correct)
           Enough(u) == AtOrAbove(correct, u) >= needed
           values == {correct[i] : i \in DOMAIN correct}
           below == {s \in values : s < tStrong}
<1>1. recall[1] = num /\ recall[2] = den
    OBVIOUS
<1>2. Len(mated) \in Nat /\ total \in Nat
    BY DEF MatedProbes
<1>3. needed = (total + den - 1) \div den
    BY <1>1 DEF Ceil
<1> HIDE DEF total
<1>4. needed \in Nat /\ \A a \in Nat : a * den >= total <=> a >= needed
    BY <1>2, <1>3, CeilIs
<1>5. Ordered(correct)
    BY CorrectScoresAre
<1>6. /\ n \in Nat /\ DOMAIN correct = 1..n
      /\ \A i \in 1..n : correct[i] \in Int
      /\ \A i, j \in 1..n : i < j => correct[i] >= correct[j]
    BY <1>5 DEF Ordered
<1>7. wanted = CASE needed = 0 -> (IF correct = << >> THEN ScoreFloor ELSE correct[1]) + 1
                 [] needed > 0 /\ n < needed -> ScoreFloor
                 [] OTHER -> correct[needed]
    BY DEF UncappedReviewThreshold
<1>8. t = CASE wanted < tStrong -> wanted
            [] wanted >= tStrong /\ below # {} -> Max(below)
            [] OTHER -> tStrong - 1
    BY DEF TPossible
<1>9. correct = << >> <=> n = 0
    BY <1>5 DEF Ordered
<1> HIDE DEF recall, needed, correct, wanted, t
<1>10. \A u \in Int : AtOrAbove(correct, u) \in Nat /\ AtOrAbove(correct, u) <= n
    <2> SUFFICES ASSUME NEW u \in Int
                 PROVE  AtOrAbove(correct, u) \in Nat /\ AtOrAbove(correct, u) <= n
        OBVIOUS
    <2>1. 0 \in Nat /\ AtOrAbove(correct, u) \in 0..n
        BY <1>5, ThresholdCuts
    <2> HIDE DEF n
    <2> QED BY <1>6, <2>1
<1> HIDE DEF n
<1>11. \/ /\ \A u \in Int : Enough(u)
          /\ wanted \in Int /\ \A i \in 1..n : correct[i] < wanted
       \/ /\ \A u \in Int : ~ Enough(u)
          /\ wanted \in Int
       \/ /\ \A u \in Int : Enough(u) <=> u <= wanted
          /\ wanted \in Int
    <2>1. CASE needed = 0
        <3>1. \A u \in Int : Enough(u)
            BY <1>10, <2>1
        <3>2. wanted = (IF correct = << >> THEN ScoreFloor ELSE correct[1]) + 1
            BY <1>7, <2>1
        <3>3. CASE n = 0
            BY <1>6, <1>9, <3>1, <3>2, <3>3 DEF ScoreFloor
        <3>4. CASE n # 0
            <4>1. 1 \in 1..n /\ wanted = correct[1] + 1
                BY <1>6, <1>9, <3>2, <3>4
            <4>2. ASSUME NEW i \in 1..n PROVE correct[i] < wanted
                <5>1. i = 1 \/ 1 < i
                    BY <1>6
                <5>2. correct[i] \in Int /\ correct[1] \in Int /\ correct[i] <= correct[1]
                    BY <1>6, <4>1, <5>1
                <5> QED BY <4>1, <5>2
            <4>3. wanted \in Int
                BY <1>6, <4>1
            <4> QED BY <3>1, <4>2, <4>3
        <3> QED BY <3>3, <3>4
    <2>2. CASE needed > 0 /\ n < needed
        <3>1. wanted = ScoreFloor
            BY <1>4, <1>7, <2>2
        <3>2. ASSUME NEW u \in Int PROVE ~ Enough(u)
            <4>1. AtOrAbove(correct, u) \in Nat /\ AtOrAbove(correct, u) <= n
                BY <1>10
            <4> QED BY <1>4, <1>6, <2>2, <4>1
        <3> QED BY <3>1, <3>2 DEF ScoreFloor
    <2>3. CASE needed > 0 /\ ~ (n < needed)
        <3>1. wanted = correct[needed] /\ needed \in 1..n
            BY <1>4, <1>6, <1>7, <2>3
        <3>2. \A u \in Int : Enough(u) <=> u <= wanted
            BY <1>5, <3>1, HighestScores DEF n
        <3> QED BY <1>6, <3>1, <3>2
    <2> QED BY <1>4, <2>1, <2>2, <2>3
<1>12. \A i \in 1..n : correct[i] \in values
    BY <1>6
<1>13. IsFiniteSet(below) /\ below \subseteq Int
    <2>1. correct \in [1..n -> values] /\ \A y \in values : \E i \in 1..n : correct[i] = y
        BY <1>5, <1>6 DEF Ordered
    <2>2. IsFiniteSet(1..n)
        BY <1>6, FS_Interval
    <2> HIDE DEF values
    <2>3. IsFiniteSet(values)
        BY <2>1, <2>2, ImagesAreFinite
    <2>4. below \subseteq values
        OBVIOUS
    <2>5. IsFiniteSet(below)
        BY <2>3, <2>4, FS_Subset
    <2> QED BY <1>6, <2>1, <2>4, <2>5
<1>14. \A i \in 1..n : correct[i] < tStrong <=> correct[i] \in below
    BY <1>12
<1>15. \A s \in below : s < tStrong
    OBVIOUS
<1> HIDE DEF values, below
<1>16. /\ t \in Int /\ t < tStrong
       /\ \/ t = wanted
          \/ /\ t <= wanted
             /\ \A i \in 1..n : correct[i] < tStrong => correct[i] <= t
    <2>1. wanted \in Int
        BY <1>11
    <2>2. CASE wanted < tStrong
        BY <1>8, <2>1, <2>2
    <2>3. CASE wanted >= tStrong /\ below # {}
        <3>1. t = Max(below)
            BY <1>8, <2>1, <2>3
        <3>2. Max(below) \in below /\ \A y \in below : y <= Max(below)
            BY <1>13, <2>3, MaxIs
        <3>3. t \in below /\ t \in Int /\ t < tStrong /\ \A y \in below : y <= t
            BY <1>13, <1>15, <3>1, <3>2
        <3>4. ASSUME NEW i \in 1..n, correct[i] < tStrong PROVE correct[i] <= t
            BY <1>14, <3>3, <3>4
        <3>5. t <= wanted
            BY <2>1, <2>3, <3>3
        <3> QED BY <3>3, <3>4, <3>5
    <2>4. CASE wanted >= tStrong /\ below = {}
        <3>1. t = tStrong - 1
            BY <1>8, <2>1, <2>4
        <3>2. \A i \in 1..n : ~ (correct[i] < tStrong)
            BY <1>14, <2>4
        <3> QED BY <2>1, <2>4, <3>1, <3>2
    <2> QED BY <2>1, <2>2, <2>3, <2>4
<1>17. Enough(t) \/ \A u \in 0..(tStrong - 1) : ~ Enough(u)
    <2>1. t <= wanted
        BY <1>11, <1>16
    <2>2. \A u \in 0..(tStrong - 1) : u \in Int
        OBVIOUS
    <2> HIDE DEF Enough
    <2> QED BY <1>11, <1>16, <2>1, <2>2
<1>18. ASSUME NEW i \in 1..n, correct[i] \in (t + 1)..(tStrong - 1)
       PROVE  ~ Enough(correct[i])
    <2> DEFINE s == correct[i]
    <2>1. s \in Int /\ s > t /\ s < tStrong
        BY <1>6, <1>16, <1>18
    <2>2. t = wanted
        BY <1>16, <2>1
    <2>3. ~ (s < wanted) /\ ~ (s <= wanted)
        BY <1>16, <2>1, <2>2
    <2> HIDE DEF Enough
    <2>4. \/ \A j \in 1..n : correct[j] < wanted
          \/ \A u \in Int : ~ Enough(u)
          \/ \A u \in Int : Enough(u) <=> u <= wanted
        BY <1>11
    <2> QED BY <2>1, <2>3, <2>4
<1>19. ASSUME NEW u \in Int
       PROVE  Recalled(mated, u) * den >= num * Len(mated) <=> Enough(u)
    <2>1. Recalled(mated, u) = AtOrAbove(correct, u)
        BY DEF Recalled, correct
    <2>2. AtOrAbove(correct, u) \in Nat
        BY <1>10
    <2> QED BY <1>4, <2>1, <2>2 DEF total
<1> HIDE DEF Enough
<1>20. /\ t < tStrong
       /\ \/ Recalled(mated, t) * den >= num * Len(mated)
          \/ \A u \in 0..(tStrong - 1) : ~ (Recalled(mated, u) * den >= num * Len(mated))
       /\ \A i \in DOMAIN correct :
             correct[i] \in (t + 1)..(tStrong - 1)
                => ~ (Recalled(mated, correct[i]) * den >= num * Len(mated))
    <2>1. \A u \in 0..(tStrong - 1) : u \in Int
        OBVIOUS
    <2> QED BY <1>6, <1>16, <1>17, <1>18, <1>19, <2>1
<1> QED BY <1>1, <1>20 DEF PossibleRecalls, t, correct, recall

-----------------------------------------------------------------------------
(* The margin.                                                              *)

\* A population's least scores: how many lie below the quantile q, and what it is.  At a
\* position between two scores the lower one is below it, at one of a score none more is.
LEMMA QuantileIs ==
    ASSUME NEW scores, Ordered(scores), scores # << >>,
           NEW num \in Nat, NEW den \in Nat \ {0}, num <= den
    PROVE  /\ Quantile(scores, <<num, den>>) \in Int
           /\ Ceil(<<num, den>>, Len(scores) - 1) \in Nat
           /\ \A u \in Int : u <= Quantile(scores, <<num, den>>) =>
                 Cardinality({i \in DOMAIN scores : scores[i] < u})
                    <= Ceil(<<num, den>>, Len(scores) - 1)
<1> DEFINE n == Len(scores)
           total == num * (n - 1)
           at == total \div den
           rest == total % den
           low == scores[n - at]
           high == IF rest = 0 THEN low ELSE scores[n - at - 1]
           sum == (den - rest) * low + rest * high
           few == Ceil(<<num, den>>, n - 1)
           first == IF rest = 0 THEN n - at + 1 ELSE n - at
           quantile == Quantile(scores, <<num, den>>)
<1>1. /\ n \in Nat /\ n # 0 /\ DOMAIN scores = 1..n
      /\ \A i \in 1..n : scores[i] \in Int
      /\ \A i, j \in 1..n : i < j => scores[i] >= scores[j]
    BY DEF Ordered
<1>2. few = (total + den - 1) \div den
    BY DEF Ceil
<1>3. quantile = (sum + den - 1) \div den
    BY DEF Quantile, Floor
<1> HIDE DEF n, quantile, few
<1>4. total \in Nat /\ total <= den * (n - 1)
    <2>1. n - 1 \in Nat /\ (den - num) * (n - 1) >= 0
        BY <1>1
    <2>2. (den - num) * (n - 1) = den * (n - 1) - num * (n - 1)
        BY <1>1
    <2>3. num * (n - 1) \in Nat /\ den * (n - 1) \in Int
        BY <2>1
    <2> QED BY <2>1, <2>2, <2>3
<1> HIDE DEF total
<1>5. /\ at \in Nat /\ rest \in 0..(den - 1) /\ total = den * at + rest
    BY <1>4
<1> HIDE DEF at, rest
<1>6. at <= n - 1 /\ (rest # 0 => at < n - 1)
    <2>1. ASSUME at > n - 1 PROVE FALSE
        <3>1. den * (at - n) >= 0 /\ den * (at - n) = den * at - den * (n - 1) - den
            BY <1>1, <1>5, <2>1
        <3>2. den * at \in Int /\ den * (n - 1) \in Int
            BY <1>1, <1>5
        <3> QED BY <1>4, <1>5, <3>1, <3>2
    <2>2. ASSUME at = n - 1, rest # 0 PROVE FALSE
        <3>1. den * at = den * (n - 1) /\ den * at \in Int
            BY <1>1, <1>5, <2>2
        <3> QED BY <1>4, <1>5, <2>2, <3>1
    <2> QED BY <1>1, <1>5, <2>1, <2>2
<1>7. /\ n - at \in 1..n /\ low \in Int
      /\ rest # 0 => n - at - 1 \in 1..n /\ n - at - 1 < n - at
    BY <1>1, <1>5, <1>6
<1>8. high \in Int /\ low <= high
    <2>1. CASE rest = 0
        BY <1>7, <2>1
    <2>2. CASE rest # 0
        <3>1. scores[n - at - 1] \in Int /\ scores[n - at - 1] >= scores[n - at]
            BY <1>1, <1>7, <2>2
        <3> QED BY <1>7, <2>2, <3>1
    <2> QED BY <2>1, <2>2
<1>9. \A i \in 1..n : scores[i] < high => i >= first
    <2> SUFFICES ASSUME NEW i \in 1..n, scores[i] < high, i < first
                 PROVE  FALSE
        BY <1>1, <1>5
    <2>1. CASE rest = 0
        <3>1. i = n - at \/ i < n - at
            BY <1>1, <1>5, <2>1
        <3>2. scores[i] >= scores[n - at] /\ scores[i] \in Int
            BY <1>1, <1>7, <3>1
        <3> QED BY <1>7, <2>1, <3>2
    <2>2. CASE rest # 0
        <3>1. i = n - at - 1 \/ i < n - at - 1
            BY <1>1, <1>5, <2>2
        <3>2. scores[i] >= scores[n - at - 1] /\ scores[i] \in Int /\ scores[n - at - 1] \in Int
            BY <1>1, <1>7, <2>2, <3>1
        <3> QED BY <2>2, <3>2
    <2> QED BY <2>1, <2>2
<1> HIDE DEF low, high
<1>10. sum \in Int /\ sum <= den * high
    <2>1. (den - rest) * (high - low) >= 0
        BY <1>5, <1>7, <1>8
    <2>2. (den - rest) * (high - low) = (den - rest) * high - (den - rest) * low
        BY <1>5, <1>7, <1>8
    <2>3. (den - rest) * high = den * high - rest * high
        BY <1>5, <1>8
    <2>4. (den - rest) * low \in Int /\ (den - rest) * high \in Int
          /\ den * high \in Int /\ rest * high \in Int
        BY <1>5, <1>7, <1>8
    <2> QED BY <2>1, <2>2, <2>3, <2>4
<1> HIDE DEF sum
<1>11. quantile \in Int /\ quantile <= high
    <2>1. sum + den - 1 \in Int
        BY <1>10
    <2> DEFINE raised == sum + den - 1
    <2> HIDE DEF raised
    <2>2. quantile \in Int /\ den * quantile <= raised
        <3>1. raised \in Int /\ quantile = raised \div den
            BY <1>3, <2>1 DEF raised
        <3> QED BY <3>1
    <2>3. ASSUME quantile > high PROVE FALSE
        <3>1. den * (quantile - high - 1) >= 0
              /\ den * (quantile - high - 1) = den * quantile - den * high - den
            BY <1>8, <2>2, <2>3
        <3>2. den * quantile \in Int /\ den * high \in Int
            BY <1>8, <2>2
        <3>3. raised = sum + den - 1 /\ sum \in Int
            BY <1>10 DEF raised
        <3> QED BY <1>10, <2>2, <3>1, <3>2, <3>3
    <2> QED BY <1>8, <2>2, <2>3
<1>12. few \in Nat /\ n - first + 1 <= few /\ n - first + 1 \in Nat
    <2>1. few \in Nat /\ \A a \in Int : a * den >= total <=> a >= few
        BY <1>2, <1>4, CeilIs
    <2>2. CASE rest = 0
        <3>1. (at - 1) * den = den * at - den /\ den * at \in Int
            BY <1>5
        <3>2. ~ ((at - 1) * den >= total)
            BY <1>4, <1>5, <2>2, <3>1
        <3>3. ~ (at - 1 >= few)
            BY <1>5, <2>1, <3>2
        <3> QED BY <1>1, <1>5, <2>1, <2>2, <3>3
    <2>3. CASE rest # 0
        <3>1. at * den = den * at /\ den * at \in Int
            BY <1>5
        <3>2. ~ (at * den >= total)
            BY <1>4, <1>5, <2>3, <3>1
        <3>3. ~ (at >= few)
            BY <1>5, <2>1, <3>2
        <3> QED BY <1>1, <1>5, <2>1, <2>3, <3>3
    <2> QED BY <2>2, <2>3
<1>13. first \in Int
    BY <1>1, <1>5
<1> HIDE DEF first
<1>14. ASSUME NEW u \in Int, u <= quantile
       PROVE  Cardinality({i \in DOMAIN scores : scores[i] < u}) <= few
    <2> DEFINE D == {i \in DOMAIN scores : scores[i] < u}
    <2>1. ASSUME NEW i \in D PROVE i \in first..n
        <3>1. i \in 1..n /\ scores[i] < u /\ scores[i] \in Int
            BY <1>1
        <3>2. scores[i] < high
            BY <1>8, <1>11, <1>14, <3>1
        <3> QED BY <1>1, <1>9, <1>13, <3>1, <3>2
    <2> HIDE DEF D
    <2>2. D \subseteq first..n
        BY <2>1
    <2>3. IsFiniteSet(first..n) /\ Cardinality(first..n) = n - first + 1
        <3>1. IsFiniteSet(first..n)
              /\ Cardinality(first..n) = IF first > n THEN 0 ELSE n - first + 1
            BY <1>1, <1>13, FS_Interval
        <3>2. first > n => n - first + 1 = 0
            BY <1>1, <1>12, <1>13
        <3> QED BY <3>1, <3>2
    <2>4. Cardinality(D) <= Cardinality(first..n) /\ IsFiniteSet(D)
        BY <2>2, <2>3, FS_Subset
    <2>5. Cardinality(D) \in Nat
        BY <2>4, FS_CardinalityType
    <2> QED BY <1>1, <1>12, <1>13, <2>3, <2>4, <2>5 DEF D
<1> QED BY <1>11, <1>12, <1>14 DEF n, quantile, few

(* The margin keeps its promise for any gaps that are not negative: of n      *)
(* genuine matches it demotes no more than q * (n - 1), rounded up            *)
(* (metrics.py:385-443).                                                      *)
THEOREM MarginKeepsItsPromise ==
    ASSUME NEW genuine, Ordered(genuine), \A i \in DOMAIN genuine : genuine[i] >= 0,
           NEW impostor, Ordered(impostor),
           NEW num \in Nat, NEW den \in Nat \ {0},
           NEW qNum \in Nat, NEW qDen \in Nat \ {0}, qNum <= qDen
    PROVE  MarginSpares(genuine, impostor, <<num, den>>, <<qNum, qDen>>)
<1> SUFFICES ASSUME genuine # << >>
             PROVE  Cardinality({i \in DOMAIN genuine :
                        genuine[i] < Margin(genuine, impostor, <<num, den>>, <<qNum, qDen>>)})
                       <= Ceil(<<qNum, qDen>>, Len(genuine) - 1)
    BY DEF MarginSpares
<1> DEFINE target == <<num, den>>
           q == <<qNum, qDen>>
           margin == Margin(genuine, impostor, target, q)
           wanted == ThresholdAtRate(impostor, target)
           quantile == Quantile(genuine, q)
           cap == Min({wanted, quantile})
           few == Ceil(q, Len(genuine) - 1)
<1>1. quantile \in Int /\ few \in Nat
    BY QuantileIs
<1>2. \A u \in Int : u <= quantile => Cardinality({i \in DOMAIN genuine : genuine[i] < u}) <= few
    BY QuantileIs
<1>3. wanted \in Int
    <2> DEFINE total == num * Len(impostor)
               allowed == total \div den
    <2>1. total \in Nat
        <3>1. Len(impostor) \in Nat
            BY DEF Ordered
        <3> QED BY <3>1
    <2>2. wanted = ThresholdAllowing(impostor, allowed)
        BY DEF ThresholdAtRate, Floor
    <2> HIDE DEF total, wanted
    <2>3. allowed \in Nat
        BY <2>1
    <2> HIDE DEF allowed
    <2> QED BY <2>2, <2>3, ThresholdIsScore
<1>4. margin = IF impostor = << >> THEN 0 ELSE Max({0, cap})
    BY DEF Margin
<1> HIDE DEF margin, wanted, quantile, few
<1>5. cap \in Int /\ cap <= quantile
    <2>1. cap = CHOOSE x \in {wanted, quantile} : \A y \in {wanted, quantile} : x <= y
        BY DEF Min
    <2>2. \E x \in {wanted, quantile} : \A y \in {wanted, quantile} : x <= y
        BY <1>1, <1>3
    <2>3. cap \in {wanted, quantile} /\ \A y \in {wanted, quantile} : cap <= y
        BY <2>1, <2>2
    <2> HIDE DEF cap
    <2> QED BY <1>1, <1>3, <2>3
<1> HIDE DEF cap
<1>6. margin = 0 \/ (margin \in Int /\ margin <= quantile)
    <2> DEFINE none == 0
    <2>1. none \in Int
        OBVIOUS
    <2> HIDE DEF none
    <2>2. Max({none, cap}) = none \/ Max({none, cap}) = cap
        BY <1>5, <2>1, HigherOfTwo
    <2> QED BY <1>4, <1>5, <2>2 DEF none
<1>7. CASE margin = 0
    <2>1. {i \in DOMAIN genuine : genuine[i] < margin} = {}
        <3>1. ASSUME NEW i \in DOMAIN genuine PROVE ~ (genuine[i] < 0)
            <4>1. genuine[i] \in Int /\ genuine[i] >= 0
                BY DEF Ordered
            <4> QED BY <4>1
        <3> QED BY <1>7, <3>1
    <2>2. Cardinality({i \in DOMAIN genuine : genuine[i] < margin}) <= few
        BY <1>1, <2>1, FS_EmptySet
    <2> QED BY <2>2 DEF margin, few, q, target
<1>8. CASE margin \in Int /\ margin <= quantile
    BY <1>2, <1>8 DEF margin, few, q, target
<1> QED BY <1>6, <1>7, <1>8

-----------------------------------------------------------------------------
(* The measurements of the run.                                             *)

LEMMA DescendingIsOrdered ==
    ASSUME NEW n \in Nat, NEW f \in Descending(n)
    PROVE  Ordered(f) /\ \A i \in DOMAIN f : f[i] \in {2, 4, 6}
<1>1. PICK k \in 0..n : f \in {g \in [1..k -> Levels] : \A i, j \in 1..k : i < j => g[i] >= g[j]}
    BY DEF Descending
<1>2. /\ k \in Nat /\ f \in [1..k -> Levels] /\ DOMAIN f = 1..k
      /\ \A i, j \in 1..k : i < j => f[i] >= f[j]
    BY <1>1
<1>3. \A i \in 1..k : f[i] \in {2, 4, 6}
    BY <1>2 DEF Levels
<1>4. f \in Seq(Int)
    <2>1. f \in [1..k -> Int]
        BY <1>2 DEF Levels
    <2> QED BY <1>2, <2>1
<1> QED BY <1>2, <1>3, <1>4 DEF Ordered

LEMMA MatedOfAreProbes ==
    ASSUME NEW n \in Nat, NEW scores \in Descending(n), NEW mated \in MatedOf(scores)
    PROVE  MatedProbes(mated)
<1>1. PICK right \in SUBSET DOMAIN scores :
          mated = [i \in DOMAIN scores |-> [score |-> scores[i], correct |-> i \in right]]
    BY DEF MatedOf
<1>2. Ordered(scores)
    BY DescendingIsOrdered
<1> DEFINE k == Len(scores)
           Probe == [score : Int, correct : BOOLEAN]
<1>3. /\ k \in Nat /\ DOMAIN scores = 1..k
      /\ \A i \in 1..k : scores[i] \in Int
      /\ \A i, j \in 1..k : i < j => scores[i] >= scores[j]
    BY <1>2 DEF Ordered
<1> HIDE DEF k
<1>4. ASSUME NEW i \in 1..k
      PROVE  mated[i].score = scores[i] /\ mated[i] \in Probe
    <2>1. mated[i] = [score |-> scores[i], correct |-> i \in right]
        BY <1>1, <1>3
    <2>2. mated[i] \in Probe
        BY <1>3, <2>1
    <2>3. mated[i].score = scores[i]
        <3> DEFINE own == scores[i]
                   hit == i \in right
        <3>1. mated[i] = [score |-> own, correct |-> hit]
            BY <2>1
        <3> HIDE DEF own, hit
        <3>2. mated[i].score = own
            BY <3>1
        <3> QED BY <3>2 DEF own
    <2> QED BY <2>2, <2>3
<1> HIDE DEF Probe
<1>5. DOMAIN mated = 1..k
    BY <1>1, <1>3
<1>6. mated \in [1..k -> Probe]
    <2>1. mated = [i \in 1..k |-> mated[i]]
        BY <1>1, <1>3, Zenon
    <2> QED BY <1>4, <2>1
<1>7. mated \in Seq(Probe)
    BY <1>3, <1>6
<1>8. \A i, j \in 1..k : i < j => mated[i].score >= mated[j].score
    BY <1>3, <1>4
<1> QED BY <1>5, <1>7, <1>8 DEF MatedProbes, Probe

LEMMA TargetsAreRates ==
    ASSUME NEW target \in Targets
    PROVE  \E num \in Nat : \E den \in Nat \ {0} : num <= den /\ target = <<num, den>>
BY DEF Targets

(* The thresholds keep what they were calibrated for, on every set of        *)
(* measurements the run goes through: the three theorems above say so of     *)
(* every other (metrics.py:118-440, 514-675).                                *)
THEOREM ThresholdsKept == Spec => []ThresholdsKeepTheirPromise
<1>1. ASSUME NEW nonmated \in Measured(3), NEW impostor \in Descending(4),
             NEW target \in Targets, NEW c \in 1..2
      PROVE  StrongWithinTarget(nonmated, impostor, target, c)
    <2>1. Ordered(nonmated) /\ nonmated # << >>
        BY DescendingIsOrdered DEF Measured
    <2>2. Ordered(impostor) /\ c \in Nat
        BY DescendingIsOrdered
    <2>3. PICK num \in Nat : \E den \in Nat \ {0} : num <= den /\ target = <<num, den>>
        BY TargetsAreRates
    <2>4. PICK den \in Nat \ {0} : num <= den /\ target = <<num, den>>
        BY <2>3
    <2>5. StrongWithinTarget(nonmated, impostor, <<num, den>>, c)
        BY <2>1, <2>2, <2>4, StrongKeepsItsPromise
    <2> QED BY <2>4, <2>5
<1>2. ASSUME NEW scores \in Measured(3), NEW recall \in Targets,
             NEW tStrong \in {ScoreFloor, 3, 4, 5, 7}, NEW mated \in MatedOf(scores)
      PROVE  PossibleRecalls(mated, recall, tStrong)
    <2>1. MatedProbes(mated) /\ tStrong \in Int
        BY MatedOfAreProbes DEF Measured, ScoreFloor
    <2>2. PICK num \in Nat : \E den \in Nat \ {0} : num <= den /\ recall = <<num, den>>
        BY TargetsAreRates
    <2>3. PICK den \in Nat \ {0} : num <= den /\ recall = <<num, den>>
        BY <2>2
    <2>4. PossibleRecalls(mated, <<num, den>>, tStrong)
        BY <2>1, PossibleKeepsItsPromise
    <2> QED BY <2>3, <2>4
<1>3. ASSUME NEW genuine \in Descending(3) \cup TenGaps, NEW impostor \in Descending(3),
             NEW target \in Targets, NEW q \in Quantiles
      PROVE  MarginSpares(genuine, impostor, target, q)
    <2>1. Ordered(genuine) /\ Ordered(impostor) /\ \A i \in DOMAIN genuine : genuine[i] >= 0
        BY DescendingIsOrdered DEF TenGaps
    <2>2. PICK num \in Nat : \E den \in Nat \ {0} : num <= den /\ target = <<num, den>>
        BY TargetsAreRates
    <2>3. PICK den \in Nat \ {0} : num <= den /\ target = <<num, den>>
        BY <2>2
    <2>4. \E qNum \in Nat : \E qDen \in Nat \ {0} : qNum <= qDen /\ q = <<qNum, qDen>>
        BY DEF Quantiles
    <2>5. PICK qNum \in Nat : \E qDen \in Nat \ {0} : qNum <= qDen /\ q = <<qNum, qDen>>
        BY <2>4
    <2>6. PICK qDen \in Nat \ {0} : qNum <= qDen /\ q = <<qNum, qDen>>
        BY <2>5
    <2>7. MarginSpares(genuine, impostor, <<num, den>>, <<qNum, qDen>>)
        BY <2>1, <2>6, MarginKeepsItsPromise
    <2> QED BY <2>3, <2>6, <2>7
<1>4. ThresholdsKeepTheirPromise
    BY <1>1, <1>2, <1>3 DEF ThresholdsKeepTheirPromise
<1> QED BY <1>4, PTL

=============================================================================
