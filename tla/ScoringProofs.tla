--------------------------- MODULE ScoringProofs ---------------------------
(***************************************************************************)
(* Ranking and acceptance, for galleries of any size: no induction is      *)
(* needed, since ranks are an injection into as many numbers.              *)
(***************************************************************************)
EXTENDS MCScoring, FiniteSetTheorems, TLAPS

-----------------------------------------------------------------------------
(* Finite orders.                                                           *)

\* Counting what comes before it numbers a finite set from one on.
LEMMA Ranking ==
    ASSUME NEW S, IsFiniteSet(S), NEW R,
           \A x, y, z \in S : <<x, y>> \in R /\ <<y, z>> \in R => <<x, z>> \in R,
           \A x \in S : <<x, x>> \notin R,
           \A x, y \in S : x # y => <<x, y>> \in R \/ <<y, x>> \in R
    PROVE  /\ Cardinality(S) \in Nat
           /\ \A x \in S : 1 + Cardinality({y \in S : <<y, x>> \in R}) \in 1..Cardinality(S)
           /\ \A x, y \in S :
                 <<y, x>> \in R <=> 1 + Cardinality({z \in S : <<z, y>> \in R})
                                       < 1 + Cardinality({z \in S : <<z, x>> \in R})
           /\ \A n \in 1..Cardinality(S) :
                 \E x \in S : 1 + Cardinality({y \in S : <<y, x>> \in R}) = n
<1> DEFINE Before(x) == {y \in S : <<y, x>> \in R}
           r(x) == 1 + Cardinality(Before(x))
           n == Cardinality(S)
<1>1. n \in Nat
    BY FS_CardinalityType
<1>2. ASSUME NEW x \in S
      PROVE  IsFiniteSet(Before(x)) /\ Cardinality(Before(x)) \in 0..(n - 1)
    <2>1. Before(x) \subseteq S /\ x \notin Before(x)
        OBVIOUS
    <2>2. /\ IsFiniteSet(Before(x)) /\ Cardinality(Before(x)) <= n
          /\ Cardinality(Before(x)) = n => Before(x) = S
        BY <2>1, FS_Subset
    <2>3. Cardinality(Before(x)) \in Nat
        BY <2>2, FS_CardinalityType
    <2> HIDE DEF Before, n
    <2> QED BY <2>1, <2>2, <2>3, <1>1
<1>3. ASSUME NEW x \in S, NEW y \in S, <<y, x>> \in R
      PROVE  Cardinality(Before(y)) < Cardinality(Before(x))
    <2>1. Before(y) \subseteq Before(x) /\ y \in Before(x) /\ y \notin Before(y)
        BY <1>3
    <2>2. /\ Cardinality(Before(y)) <= Cardinality(Before(x))
          /\ Cardinality(Before(y)) = Cardinality(Before(x)) => Before(y) = Before(x)
        BY <2>1, <1>2, FS_Subset
    <2>3. Cardinality(Before(x)) \in Nat /\ Cardinality(Before(y)) \in Nat
        <3> HIDE DEF Before, n
        <3> QED BY <1>1, <1>2
    <2> HIDE DEF Before
    <2> QED BY <2>1, <2>2, <2>3
<1> HIDE DEF Before, n
<1>4. \A x \in S : r(x) \in 1..n /\ r(x) \in Int
    BY <1>1, <1>2
<1>5. \A x, y \in S : <<y, x>> \in R => r(y) < r(x)
    <2>1. \A x \in S : Cardinality(Before(x)) \in Int
        BY <1>1, <1>2
    <2> QED BY <1>3, <2>1
<1> HIDE DEF r
<1>6. ASSUME NEW x \in S, NEW y \in S
      PROVE  /\ <<y, x>> \in R <=> r(y) < r(x)
             /\ r(x) = r(y) => x = y
    <2>1. r(x) \in Int /\ r(y) \in Int
        BY <1>4
    <2>2. (<<y, x>> \in R => r(y) < r(x)) /\ (<<x, y>> \in R => r(x) < r(y))
        BY <1>5
    <2>3. x = y \/ <<x, y>> \in R \/ <<y, x>> \in R
        OBVIOUS
    <2>4. x = y => <<y, x>> \notin R
        OBVIOUS
    <2> QED BY <2>1, <2>2, <2>3, <2>4
<1>7. \A x, y \in S : r(x) = r(y) => x = y
    BY <1>6
<1>8. ASSUME NEW k \in 1..n
      PROVE  \E x \in S : r(x) = k
    <2> DEFINE f == [x \in S |-> r(x)]
    <2>1. f \in Injection(S, 1..n)
        BY <1>4, <1>7 DEF Injection, IsInjective
    <2>2. IsFiniteSet(1..n) /\ Cardinality(1..n) = n
        <3>1. n >= 1 /\ 1 \in Int /\ n \in Int
            BY <1>1, <1>8
        <3>2. IsFiniteSet(1..n) /\ Cardinality(1..n) = IF 1 > n THEN 0 ELSE n - 1 + 1
            BY <3>1, FS_Interval
        <3> QED BY <3>1, <3>2
    <2>3. f \in Surjection(S, 1..n)
        <3> HIDE DEF f
        <3> QED BY <2>1, <2>2, FS_Injection DEF n
    <2> QED BY <2>3 DEF Surjection
<1> QED BY <1>1, <1>4, <1>6, <1>8 DEF r, Before, n

\* What is made of finitely many values is finite.
LEMMA ImagesAreFinite ==
    ASSUME NEW S, IsFiniteSet(S), NEW T, NEW f \in [S -> T], \A y \in T : \E x \in S : f[x] = y
    PROVE  IsFiniteSet(T)
<1>1. f \in Surjection(S, T)
    BY DEF Surjection
<1> QED BY <1>1, FS_Surjection

\* Of finitely many sources one scores highest.
LEMMA HighestIs ==
    ASSUME NEW D, IsFiniteSet(D), D # {}, D \subseteq Nat, NEW f, \A s \in D : f[s] \in Int
    PROVE  /\ HighestOf(f, D) \in D
           /\ \A other \in D : f[other] <= f[HighestOf(f, D)]
<1> DEFINE R == {w \in D \X D : f[w[1]] > f[w[2]] \/ (f[w[1]] = f[w[2]] /\ w[1] < w[2])}
<1>1. \A x, y \in D : <<x, y>> \in R <=> f[x] > f[y] \/ (f[x] = f[y] /\ x < y)
    OBVIOUS
<1>2. \A x \in D : x \in Int /\ f[x] \in Int
    OBVIOUS
<1> HIDE DEF R
<1>3. /\ \A x, y, z \in D : <<x, y>> \in R /\ <<y, z>> \in R => <<x, z>> \in R
      /\ \A x \in D : <<x, x>> \notin R
      /\ \A x, y \in D : x # y => <<x, y>> \in R \/ <<y, x>> \in R
    BY <1>1, <1>2
<1> DEFINE r(x) == 1 + Cardinality({y \in D : <<y, x>> \in R})
<1>4. /\ Cardinality(D) \in Nat
      /\ \A x \in D : r(x) \in 1..Cardinality(D)
      /\ \A x, y \in D : <<y, x>> \in R <=> r(y) < r(x)
      /\ \A n \in 1..Cardinality(D) : \E x \in D : r(x) = n
    BY <1>3, Ranking
<1> HIDE DEF r
<1>5. Cardinality(D) # 0
    BY FS_EmptySet
<1>6. PICK x \in D : r(x) = 1
    BY <1>4, <1>5
<1>7. ASSUME NEW other \in D
      PROVE  f[other] <= f[x]
    <2>1. r(other) \in Nat /\ r(other) >= 1
        BY <1>4
    <2>2. <<other, x>> \notin R
        BY <1>4, <1>6, <2>1
    <2> QED BY <1>1, <1>2, <2>2
<1> QED BY <1>7 DEF HighestOf

-----------------------------------------------------------------------------
(* Scores and ranks.                                                        *)

\* A gallery of finitely many templates, and a probe with a score for each.
Scored(f, g) ==
    /\ IsFiniteSet(g) /\ g \subseteq Int \X Nat
    /\ \A entry \in g : f[entry[2]] \in Int

LEMMA SourcesAre ==
    ASSUME NEW f, NEW g, Scored(f, g), NEW p
    PROVE  /\ IsFiniteSet(SourcesOf(g, p)) /\ SourcesOf(g, p) \subseteq Nat
           /\ \A s \in SourcesOf(g, p) : <<p, s>> \in g /\ f[s] \in Int
           /\ p \in PersonsIn(g) => SourcesOf(g, p) # {}
           /\ IsFiniteSet(PersonsIn(g)) /\ PersonsIn(g) \subseteq Int
<1> DEFINE own == {e \in g : e[1] = p}
           h == [e \in own |-> e[2]]
           k == [e \in g |-> e[1]]
<1>1. own \subseteq g /\ IsFiniteSet(own)
    BY FS_Subset DEF Scored
<1>2. SourcesOf(g, p) = {e[2] : e \in own} /\ PersonsIn(g) = {e[1] : e \in g}
    BY DEF SourcesOf, PersonsIn
<1>3. IsFiniteSet(SourcesOf(g, p))
    <2>1. h \in [own -> SourcesOf(g, p)] /\ \A y \in SourcesOf(g, p) : \E x \in own : h[x] = y
        BY <1>2
    <2> HIDE DEF h, own
    <2> QED BY <1>1, <2>1, ImagesAreFinite
<1>4. IsFiniteSet(PersonsIn(g))
    <2>1. k \in [g -> PersonsIn(g)] /\ \A y \in PersonsIn(g) : \E x \in g : k[x] = y
        BY <1>2
    <2> HIDE DEF k
    <2> QED BY <2>1, ImagesAreFinite DEF Scored
<1>5. \A e \in g : e = <<e[1], e[2]>> /\ e[1] \in Int /\ e[2] \in Nat
    BY DEF Scored
<1>6. \A s \in SourcesOf(g, p) : s \in Nat /\ <<p, s>> \in g /\ f[s] \in Int
    BY <1>2, <1>5 DEF Scored
<1>7. p \in PersonsIn(g) => SourcesOf(g, p) # {}
    BY <1>2
<1>8. PersonsIn(g) \subseteq Int
    BY <1>2, <1>5
<1> QED BY <1>3, <1>4, <1>6, <1>7, <1>8

\* Whatever the mode a person's score is a number; under max it is the best source's.
LEMMA ScoreIs ==
    ASSUME NEW f, NEW g, Scored(f, g), NEW p \in PersonsIn(g), NEW m
    PROVE  /\ PersonScore(m, f, g, p) \in Int
           /\ m = "max" =>
                 /\ \E s \in SourcesOf(g, p) : PersonScore(m, f, g, p) = 3 * f[s]
                 /\ \A s \in SourcesOf(g, p) : 3 * f[s] <= PersonScore(m, f, g, p)
<1> DEFINE D == SourcesOf(g, p)
           best == BestSource(f, g, p)
<1>1. IsFiniteSet(D) /\ D \subseteq Nat /\ D # {} /\ \A s \in D : f[s] \in Int
    BY SourcesAre
<1> HIDE DEF D
<1>2. best \in D /\ \A s \in D : f[s] <= f[best]
    <2>1. \A s \in D : f[s] \in Int
        BY <1>1
    <2>2. best = HighestOf(f, D)
        BY DEF BestSource, D
    <2> QED BY <1>1, <2>1, <2>2, HighestIs
<1> HIDE DEF best
<1>3. 3 * f[best] \in Int /\ \A s \in D : 3 * f[s] <= 3 * f[best]
    <2>1. f[best] \in Int
        BY <1>1, <1>2
    <2>2. ASSUME NEW s \in D
          PROVE  3 * f[s] <= 3 * f[best]
        <3>1. f[s] \in Int /\ f[s] <= f[best]
            BY <1>1, <1>2
        <3> QED BY <2>1, <3>1
    <2>3. 3 * f[best] \in Int
        BY <2>1
    <2> QED BY <2>2, <2>3
<1>4. ASSUME Cardinality(D) >= MeanTop3MinTemplates
      PROVE  SumOfTop3(f, D) \in Int
    <2> DEFINE a == HighestOf(f, D)
               b == HighestOf(f, D \ {a})
               c == HighestOf(f, D \ {a, b})
    <2>1. Cardinality(D) \in Nat /\ Cardinality(D) >= 5
        BY <1>1, <1>4, FS_CardinalityType DEF MeanTop3MinTemplates
    <2>2. \A s \in D : f[s] \in Int
        BY <1>1
    <2>3. a \in D
        BY <1>1, <2>2, HighestIs
    <2> HIDE DEF a
    <2>4. IsFiniteSet(D \ {a}) /\ Cardinality(D \ {a}) \in Nat /\ Cardinality(D \ {a}) >= 4
        <3>1. IsFiniteSet(D \ {a}) /\ Cardinality(D \ {a}) = Cardinality(D) - 1
            BY <1>1, <2>3, FS_RemoveElement
        <3> QED BY <2>1, <3>1
    <2>5. D \ {a} # {} /\ D \ {a} \subseteq Nat
        <3>1. Cardinality(D \ {a}) # 0
            BY <2>4
        <3> QED BY <1>1, <3>1, FS_EmptySet
    <2>6. b \in D \ {a}
        BY <2>2, <2>4, <2>5, HighestIs
    <2> HIDE DEF b
    <2>7. D \ {a, b} = (D \ {a}) \ {b}
        OBVIOUS
    <2>8. IsFiniteSet(D \ {a, b}) /\ Cardinality(D \ {a, b}) \in Nat
              /\ Cardinality(D \ {a, b}) >= 3
        <3>1. IsFiniteSet(D \ {a, b}) /\ Cardinality(D \ {a, b}) = Cardinality(D \ {a}) - 1
            BY <2>4, <2>6, <2>7, FS_RemoveElement
        <3> QED BY <2>4, <3>1
    <2>9. D \ {a, b} # {} /\ D \ {a, b} \subseteq Nat
        <3>1. Cardinality(D \ {a, b}) # 0
            BY <2>8
        <3> QED BY <1>1, <3>1, FS_EmptySet
    <2>10. c \in D \ {a, b}
        BY <2>2, <2>8, <2>9, HighestIs
    <2> HIDE DEF c
    <2>11. f[a] + f[b] + f[c] \in Int
        BY <1>1, <2>3, <2>6, <2>10
    <2>12. SumOfTop3(f, D) = f[a] + f[b] + f[c]
        BY DEF SumOfTop3, a, b, c
    <2> QED BY <2>11, <2>12
<1>5. PersonScore(m, f, g, p) \in Int
    BY <1>3, <1>4 DEF PersonScore, D, best
<1>6. m = "max" => PersonScore(m, f, g, p) = 3 * f[best]
    BY DEF PersonScore, best
<1> QED BY <1>2, <1>3, <1>5, <1>6 DEF D

\* Persons are ranked from one on without gaps, whoever ranks higher scoring at least as much.
LEMMA RanksAre ==
    ASSUME NEW f, NEW g, Scored(f, g), NEW m
    PROVE  /\ Cardinality(PersonsIn(g)) \in Nat
           /\ \A p \in PersonsIn(g) : Rank(m, f, g, p) \in 1..Cardinality(PersonsIn(g))
           /\ \A n \in 1..Cardinality(PersonsIn(g)) :
                 \E p \in PersonsIn(g) : Rank(m, f, g, p) = n
           /\ \A p, q \in PersonsIn(g) :
                 /\ Rank(m, f, g, q) <= Rank(m, f, g, p)
                       => PersonScore(m, f, g, p) <= PersonScore(m, f, g, q)
                 /\ Rank(m, f, g, q) = Rank(m, f, g, p) => p = q
<1> DEFINE P == PersonsIn(g)
           s(p) == PersonScore(m, f, g, p)
           r(p) == Rank(m, f, g, p)
           R == {w \in P \X P : Beats(m, f, g, w[1], w[2])}
<1>1. IsFiniteSet(P) /\ P \subseteq Int /\ \A p \in P : s(p) \in Int
    BY SourcesAre, ScoreIs
<1>2. \A p, q \in P : <<q, p>> \in R <=> Beats(m, f, g, q, p)
    OBVIOUS
<1>3. \A p, q \in P : Beats(m, f, g, q, p) <=> s(q) > s(p) \/ (s(q) = s(p) /\ q < p)
    BY DEF Beats
<1>4. \A p \in P : r(p) = 1 + Cardinality({q \in P : <<q, p>> \in R})
    <2> SUFFICES ASSUME NEW p \in P
                 PROVE  r(p) = 1 + Cardinality({q \in P : <<q, p>> \in R})
        OBVIOUS
    <2>1. {q \in P : <<q, p>> \in R} = {q \in P : Beats(m, f, g, q, p)}
        BY <1>2, Zenon
    <2> QED BY <2>1 DEF Rank
<1> HIDE DEF P, s, r, R
<1>5. \A p, q \in P : <<q, p>> \in R <=> s(q) > s(p) \/ (s(q) = s(p) /\ q < p)
    BY <1>2, <1>3
<1>6. \A p \in P : p \in Int /\ s(p) \in Int
    BY <1>1
<1>7. /\ \A x, y, z \in P : <<x, y>> \in R /\ <<y, z>> \in R => <<x, z>> \in R
      /\ \A x \in P : <<x, x>> \notin R
      /\ \A x, y \in P : x # y => <<x, y>> \in R \/ <<y, x>> \in R
    BY <1>5, <1>6
<1>8. /\ Cardinality(P) \in Nat
      /\ \A p \in P : r(p) \in 1..Cardinality(P)
      /\ \A p, q \in P : <<q, p>> \in R <=> r(q) < r(p)
      /\ \A n \in 1..Cardinality(P) : \E p \in P : r(p) = n
    <2> DEFINE c(p) == 1 + Cardinality({q \in P : <<q, p>> \in R})
    <2>1. /\ Cardinality(P) \in Nat
          /\ \A p \in P : c(p) \in 1..Cardinality(P)
          /\ \A p, q \in P : <<q, p>> \in R <=> c(q) < c(p)
          /\ \A n \in 1..Cardinality(P) : \E p \in P : c(p) = n
        BY <1>1, <1>7, Ranking
    <2>2. \A p \in P : r(p) = c(p)
        BY <1>4
    <2> HIDE DEF c
    <2> QED BY <2>1, <2>2
<1>9. ASSUME NEW p \in P, NEW q \in P
      PROVE  /\ r(q) <= r(p) => s(p) <= s(q)
             /\ r(q) = r(p) => p = q
    <2>1. r(p) \in Int /\ r(q) \in Int /\ s(p) \in Int /\ s(q) \in Int
        BY <1>6, <1>8
    <2>2. /\ r(q) < r(p) <=> s(q) > s(p) \/ (s(q) = s(p) /\ q < p)
          /\ r(p) < r(q) <=> s(p) > s(q) \/ (s(p) = s(q) /\ p < q)
        BY <1>5, <1>8
    <2> QED BY <2>1, <2>2, <1>6
<1> QED BY <1>8, <1>9 DEF P, s, r

\* The score at a rank is its person's, as long as the rank is kept.
LEMMA ScoreAtRankIs ==
    ASSUME NEW f, NEW g, Scored(f, g), NEW m, NEW k \in Nat, NEW n \in Nat
    PROVE  /\ ScoreAtRank(m, f, g, k, n) \in Int
           /\ \A p \in PersonsIn(g) :
                 Rank(m, f, g, p) = n /\ n <= k
                    => ScoreAtRank(m, f, g, k, n) = PersonScore(m, f, g, p)
           /\ n > k \/ n > Cardinality(PersonsIn(g)) => ScoreAtRank(m, f, g, k, n) = 0
<1> DEFINE ranked == {p \in PersonsIn(g) : Rank(m, f, g, p) = n /\ n <= k}
           kept == CHOOSE p \in ranked : TRUE
           at == ScoreAtRank(m, f, g, k, n)
<1>1. at = IF ranked = {} THEN 0 ELSE PersonScore(m, f, g, kept)
    BY DEF ScoreAtRank
<1>2. ranked # {} => kept \in ranked
    OBVIOUS
<1>3. \A p, q \in ranked : p = q
    BY RanksAre
<1>4. \A p \in PersonsIn(g) : PersonScore(m, f, g, p) \in Int
    BY ScoreIs
<1>5. \A p \in ranked : p \in PersonsIn(g)
    OBVIOUS
<1>6. \A p \in PersonsIn(g) : p \in ranked <=> Rank(m, f, g, p) = n /\ n <= k
    OBVIOUS
<1>7. n > k \/ n > Cardinality(PersonsIn(g)) => ranked = {}
    <2> SUFFICES ASSUME NEW p \in ranked, n > k \/ n > Cardinality(PersonsIn(g))
                 PROVE  FALSE
        OBVIOUS
    <2>1. p \in PersonsIn(g) /\ Rank(m, f, g, p) = n /\ n <= k
        BY <1>5, <1>6
    <2>2. /\ Rank(m, f, g, p) \in 1..Cardinality(PersonsIn(g))
          /\ Cardinality(PersonsIn(g)) \in Nat
        BY <2>1, RanksAre
    <2> QED BY <2>1, <2>2
<1> HIDE DEF ranked, kept, at
<1>8. at \in Int
    BY <1>1, <1>2, <1>4, <1>5
<1>9. ASSUME NEW p \in ranked
      PROVE  at = PersonScore(m, f, g, p)
    <2>1. kept \in ranked /\ ranked # {}
        BY <1>2
    <2>2. kept = p
        BY <1>3, <2>1
    <2> QED BY <1>1, <2>1, <2>2
<1>10. n > k \/ n > Cardinality(PersonsIn(g)) => at = 0
    BY <1>1, <1>7
<1> QED BY <1>6, <1>8, <1>9, <1>10 DEF at

\* Under max somebody's score only grows with the gallery.
LEMMA ScoresGrow ==
    ASSUME NEW f, NEW g, NEW h, Scored(f, g), Scored(f, h), g \subseteq h,
           NEW p \in PersonsIn(g)
    PROVE  /\ p \in PersonsIn(h)
           /\ PersonScore("max", f, g, p) <= PersonScore("max", f, h, p)
<1>1. p \in PersonsIn(h) /\ SourcesOf(g, p) \subseteq SourcesOf(h, p)
    BY DEF PersonsIn, SourcesOf
<1>2. PICK s \in SourcesOf(g, p) : PersonScore("max", f, g, p) = 3 * f[s]
    BY ScoreIs
<1>3. 3 * f[s] <= PersonScore("max", f, h, p)
    BY <1>1, ScoreIs
<1> QED BY <1>1, <1>2, <1>3

\* And with the same faces it stays the same.
LEMMA SameFacesSameScore ==
    ASSUME NEW f, NEW g, NEW h, NEW p, SourcesOf(g, p) = SourcesOf(h, p), NEW m
    PROVE  PersonScore(m, f, g, p) = PersonScore(m, f, h, p)
BY DEF PersonScore, BestSource

-----------------------------------------------------------------------------
(* The gallery that grows and shrinks.                                      *)

\* What is enrolled has a score, and there are finitely many templates of it.
IInv ==
    /\ mode \in {"max", "mean_top3"}
    /\ probe \in [Faces -> Scores]
    /\ IsFiniteSet(gallery) /\ gallery \subseteq Int \X Faces
    /\ others \in Nat
    /\ set \in ThresholdSets

LEMMA InitIInv == Init => IInv
<1> SUFFICES ASSUME Init PROVE IInv
    OBVIOUS
<1>1. IsFiniteSet({})
    BY FS_EmptySet
<1> QED BY <1>1, ConstantsAssumption DEF Init, IInv

LEMMA NextIInv == IInv /\ [Next]_vars => IInv'
<1> SUFFICES ASSUME IInv, [Next]_vars PROVE IInv'
    OBVIOUS
<1> USE DEF IInv
<1>1. ASSUME NEW p \in People, NEW s \in Sources, Enroll(p, s)
      PROVE  IInv'
    <2>1. IsFiniteSet(gallery')
        BY <1>1, FS_AddElement DEF Enroll
    <2>2. <<p, s>> \in Int \X Faces
        BY ConstantsAssumption DEF Faces
    <2> QED BY <1>1, <2>1, <2>2 DEF Enroll
<1>2. ASSUME NEW p \in People, NEW s \in Sources, Revoke(p, s)
      PROVE  IInv'
    <2>1. IsFiniteSet(gallery')
        BY <1>2, FS_RemoveElement DEF Revoke
    <2> QED BY <1>2, <2>1 DEF Revoke
<1>3. CASE Join
    <2>1. IsFiniteSet(gallery')
        BY <1>3, FS_AddElement DEF Join
    <2>2. others' \in Nat /\ -others' \in Int /\ Stranger \in Faces
        BY <1>3 DEF Join, Faces
    <2>3. <<-others', Stranger>> \in Int \X Faces
        BY <2>2
    <2> QED BY <1>3, <2>1, <2>2, <2>3 DEF Join
<1>4. CASE Leave
    <2>1. IsFiniteSet(gallery')
        BY <1>4, FS_Subset DEF Leave
    <2> QED BY <1>4, <2>1 DEF Leave
<1>5. CASE UNCHANGED vars
    BY <1>5 DEF vars
<1> QED BY <1>1, <1>2, <1>3, <1>4, <1>5 DEF Next

LEMMA SpecIInv == Spec => []IInv
<1> QED BY InitIInv, NextIInv, PTL DEF Spec

LEMMA GalleryIsScored ==
    ASSUME IInv
    PROVE  /\ Scored(probe, gallery)
           /\ set.tStrong \in Int /\ set.tPossible \in Int /\ set.margin \in Nat
           /\ set.gallerySize \in Nat
<1>1. set \in [calibrated : BOOLEAN, fits : BOOLEAN, gallerySize : Nat,
              tStrong : Int, tPossible : Int, margin : Nat]
    BY ThresholdAssumption DEF IInv
<1>2. Faces \subseteq Nat /\ \A s \in Faces : probe[s] \in Int
    <2>1. Faces \subseteq Nat
        BY ConstantsAssumption DEF Faces, Stranger
    <2>2. probe \in [Faces -> Scores] /\ Scores \subseteq Int
        BY ConstantsAssumption DEF IInv
    <2> HIDE DEF Faces
    <2> QED BY <2>1, <2>2
<1>3. gallery \subseteq Int \X Nat /\ \A entry \in gallery : probe[entry[2]] \in Int
    BY <1>2 DEF IInv
<1> QED BY <1>1, <1>3 DEF IInv, Scored

\* What the band "strong" says of the two best scores.
LEMMA StrongIs ==
    ASSUME NEW f, NEW g, Scored(f, g), NEW m, NEW k \in Nat,
           NEW thresholds, thresholds.tStrong \in Int, thresholds.tPossible \in Int,
           thresholds.margin \in Int
    PROVE  BandForCandidates(m, f, g, k, thresholds) = "strong"
              <=> /\ g # {}
                  /\ ScoreAtRank(m, f, g, k, 1) >= thresholds.tStrong
                  /\ ScoreAtRank(m, f, g, k, 1) - ScoreAtRank(m, f, g, k, 2) >= thresholds.margin
<1> DEFINE one == ScoreAtRank(m, f, g, k, 1)
           two == ScoreAtRank(m, f, g, k, 2)
<1>1. AssignBand(one, two, thresholds) = "strong"
         <=> one >= thresholds.tStrong /\ one - two >= thresholds.margin
    <2>1. one \in Int /\ two \in Int
        <3>1. one \in Int /\ two \in Int
            BY ScoreAtRankIs
        <3> QED BY <3>1
    <2> HIDE DEF one, two
    <2> QED BY <2>1 DEF AssignBand
<1>2. BandForCandidates(m, f, g, k, thresholds)
         = IF g = {} THEN "unknown" ELSE AssignBand(one, two, thresholds)
    BY DEF BandForCandidates
<1> HIDE DEF one, two
<1> QED BY <1>1, <1>2 DEF one, two

\* Nobody but the first of the ranking scores more than the second one does.
LEMMA SecondIsAhead ==
    ASSUME NEW f, NEW g, Scored(f, g), NEW m, NEW k \in Nat, k >= 2,
           NEW p \in PersonsIn(g), Rank(m, f, g, p) = 1, NEW q \in PersonsIn(g), q # p
    PROVE  PersonScore(m, f, g, q) <= ScoreAtRank(m, f, g, k, 2)
<1>1. Rank(m, f, g, q) \in 1..Cardinality(PersonsIn(g)) /\ Cardinality(PersonsIn(g)) \in Nat
    BY RanksAre
<1>2. Rank(m, f, g, q) # 1
    BY RanksAre
<1>3. 2 \in 1..Cardinality(PersonsIn(g)) /\ 2 <= Rank(m, f, g, q)
    BY <1>1, <1>2
<1>4. PICK r \in PersonsIn(g) : Rank(m, f, g, r) = 2
    BY <1>3, RanksAre
<1>5. PersonScore(m, f, g, q) <= PersonScore(m, f, g, r)
    BY <1>3, <1>4, RanksAre
<1>6. ScoreAtRank(m, f, g, k, 2) = PersonScore(m, f, g, r)
    BY <1>4, ScoreAtRankIs
<1> QED BY <1>5, <1>6

\* The first of the ranking is the first candidate, however few are kept.
LEMMA TopIs ==
    ASSUME IInv, NEW p \in TopIn(gallery)
    PROVE  /\ p \in PersonsIn(gallery) /\ Rank(mode, probe, gallery, p) = 1
           /\ ScoreAtRank(mode, probe, gallery, TopK, 1) = ScoreIn(gallery, p)
<1>1. p \in PersonsIn(gallery) /\ Rank(mode, probe, gallery, p) = 1
    BY DEF TopIn, Candidates
<1>2. 1 <= TopK /\ TopK \in Nat
    BY ConstantsAssumption
<1> QED BY <1>1, <1>2, GalleryIsScored, ScoreAtRankIs DEF ScoreIn

(* What is accepted without an operator is clear of everybody else in the     *)
(* gallery, by the margin, in galleries of any size, in both modes and under  *)
(* every threshold set, once two candidates are kept for the margin to be     *)
(* measured between (scoring.py:188-202).                                     *)
THEOREM AcceptedIsClearOfOthers ==
    ASSUME TopK >= 2
    PROVE  Spec => []AcceptedIsClear
<1>1. ASSUME IInv
      PROVE  AcceptedIsClear
    <2> SUFFICES ASSUME Accepts(set, LiveSize, BandIn(gallery)), NEW p \in TopIn(gallery)
                 PROVE  /\ ScoreIn(gallery, p) >= set.tStrong
                        /\ \A q \in PersonsIn(gallery) \ {p} :
                              ScoreIn(gallery, p) - ScoreIn(gallery, q) >= set.margin
        BY DEF AcceptedIsClear
    <2>1. BandForCandidates(mode, probe, gallery, TopK, set) = "strong"
        BY DEF Accepts, BandIn
    <2> DEFINE one == ScoreAtRank(mode, probe, gallery, TopK, 1)
               two == ScoreAtRank(mode, probe, gallery, TopK, 2)
               own(q) == ScoreIn(gallery, q)
    <2>2. /\ Scored(probe, gallery) /\ TopK \in Nat
          /\ set.margin \in Int /\ set.tStrong \in Int /\ set.tPossible \in Int
        BY <1>1, GalleryIsScored, ConstantsAssumption
    <2>3. one >= set.tStrong /\ one - two >= set.margin
        BY <2>1, <2>2, StrongIs
    <2>4. one \in Int /\ two \in Int
        BY <2>2, ScoreAtRankIs
    <2>5. p \in PersonsIn(gallery) /\ Rank(mode, probe, gallery, p) = 1 /\ one = own(p)
        BY <1>1, TopIs
    <2>6. ASSUME NEW q \in PersonsIn(gallery) \ {p}
          PROVE  own(p) - own(q) >= set.margin
        <3>1. own(q) <= two
            BY <2>2, <2>5, SecondIsAhead DEF ScoreIn
        <3>2. own(q) \in Int
            BY <2>2, <2>5, ScoreIs DEF ScoreIn
        <3> HIDE DEF one, two, own
        <3> QED BY <2>2, <2>3, <2>4, <2>5, <3>1, <3>2
    <2> QED BY <2>3, <2>5, <2>6
<1> QED BY <1>1, SpecIInv, PTL

\* A second best score only grows with the gallery, once there is a second best.
LEMMA SecondGrows ==
    ASSUME NEW f, NEW g, NEW h, Scored(f, g), Scored(f, h), g \subseteq h, NEW k \in Nat,
           NEW p \in PersonsIn(g), Rank("max", f, g, p) = 1, Rank("max", f, h, p) = 1,
           k < 2 \/ PersonsIn(g) # {p}
    PROVE  ScoreAtRank("max", f, g, k, 2) <= ScoreAtRank("max", f, h, k, 2)
<1> DEFINE two(x) == ScoreAtRank("max", f, x, k, 2)
           own(q, x) == PersonScore("max", f, x, q)
<1>1. two(g) \in Int /\ two(h) \in Int
    BY ScoreAtRankIs
<1>2. ASSUME k < 2
      PROVE  two(g) <= two(h)
    <2>1. two(g) = 0 /\ two(h) = 0
        BY <1>2, ScoreAtRankIs
    <2> HIDE DEF two
    <2> QED BY <2>1
<1>3. ASSUME k >= 2, PersonsIn(g) # {p}
      PROVE  two(g) <= two(h)
    <2>1. PICK q \in PersonsIn(g) : q # p
        BY <1>3
    <2>2. 2 \in 1..Cardinality(PersonsIn(g))
        <3>1. /\ Rank("max", f, g, q) \in 1..Cardinality(PersonsIn(g))
              /\ Cardinality(PersonsIn(g)) \in Nat /\ Rank("max", f, g, q) # 1
            BY <2>1, RanksAre
        <3> QED BY <3>1
    <2>3. PICK r \in PersonsIn(g) : Rank("max", f, g, r) = 2
        BY <2>2, RanksAre
    <2>4. r # p
        BY <2>3
    <2>5. two(g) = own(r, g)
        BY <1>3, <2>3, ScoreAtRankIs
    <2>6. p \in PersonsIn(h) /\ r \in PersonsIn(h) /\ own(r, g) <= own(r, h)
        BY <2>3, ScoresGrow
    <2>7. own(r, h) <= two(h)
        BY <1>3, <2>4, <2>6, SecondIsAhead
    <2>8. own(r, g) \in Int /\ own(r, h) \in Int
        BY <2>6, ScoreIs
    <2> HIDE DEF own, two
    <2> QED BY <1>1, <2>5, <2>6, <2>7, <2>8
<1> QED BY <1>2, <1>3

\* To somebody alone the first rival is the second best.
LEMMA FirstRival ==
    ASSUME NEW f, NEW h, Scored(f, h), NEW k \in Nat, k >= 2,
           NEW p \in PersonsIn(h), Rank("max", f, h, p) = 1,
           NEW q \in PersonsIn(h), q # p, PersonScore("max", f, h, q) >= 0
    PROVE  0 <= ScoreAtRank("max", f, h, k, 2)
<1> DEFINE two == ScoreAtRank("max", f, h, k, 2)
           own == PersonScore("max", f, h, q)
<1>1. own <= two /\ own \in Int /\ two \in Int
    BY SecondIsAhead, ScoreIs, ScoreAtRankIs
<1>2. own >= 0
    OBVIOUS
<1> HIDE DEF own, two
<1> QED BY <1>1, <1>2 DEF two

(* Under max scoring, more faces of somebody else make nobody strong who was   *)
(* not, whatever the scores, the threshold set and the number of candidates   *)
(* kept, except where somebody alone in the gallery, measured against a       *)
(* runner-up of 0.0, gets rivals who all score less than that                 *)
(* (scoring.py:123-153, 188-213).                                             *)
THEOREM RivalsNeverPromote == Spec => RivalNeverPromotes
<1>1. ASSUME IInv, IInv', UNCHANGED <<mode, probe, set>>, mode = "max", gallery \subseteq gallery',
             BandIn(gallery') = "strong", BandIn(gallery) # "strong",
             NEW p \in TopIn(gallery) \cap TopIn(gallery'),
             SourcesOf(gallery', p) = SourcesOf(gallery, p)
      PROVE  /\ PersonsIn(gallery) = {p}
             /\ \A q \in PersonsIn(gallery') \ {p} : ScoreIn(gallery', q) < 0
    <2> DEFINE one(g) == ScoreAtRank("max", probe, g, TopK, 1)
               two(g) == ScoreAtRank("max", probe, g, TopK, 2)
               own(q, g) == PersonScore("max", probe, g, q)
    <2>1. /\ Scored(probe, gallery) /\ Scored(probe, gallery') /\ TopK \in Nat
          /\ set.margin \in Int /\ set.tStrong \in Int /\ set.tPossible \in Int
        <3>1. Scored(probe, gallery)
              /\ set.margin \in Int /\ set.tStrong \in Int /\ set.tPossible \in Int
            BY <1>1, GalleryIsScored
        <3>2. Scored(probe, gallery)'
            BY <1>1, GalleryIsScored, PTL
        <3> QED BY <1>1, <3>1, <3>2, ConstantsAssumption DEF Scored
    <2>2. /\ p \in PersonsIn(gallery) /\ Rank("max", probe, gallery, p) = 1
          /\ p \in PersonsIn(gallery') /\ Rank("max", probe, gallery', p) = 1
        BY <1>1 DEF TopIn, Candidates
    <2>3. one(gallery) = one(gallery')
        <3>1. 1 <= TopK
            BY ConstantsAssumption
        <3>2. one(gallery) = own(p, gallery) /\ one(gallery') = own(p, gallery')
            BY <2>1, <2>2, <3>1, ScoreAtRankIs
        <3>3. own(p, gallery) = own(p, gallery')
            BY <1>1, SameFacesSameScore
        <3> QED BY <3>2, <3>3
    <2>4. /\ one(gallery) \in Int /\ one(gallery') \in Int
          /\ two(gallery) \in Int /\ two(gallery') \in Int
        BY <2>1, ScoreAtRankIs
    <2>5. one(gallery') >= set.tStrong /\ one(gallery') - two(gallery') >= set.margin
        <3>1. BandForCandidates("max", probe, gallery', TopK, set) = "strong"
            BY <1>1 DEF BandIn
        <3> QED BY <2>1, <3>1, StrongIs
    <2>6. ~ (one(gallery) >= set.tStrong /\ one(gallery) - two(gallery) >= set.margin)
        <3>1. gallery # {}
            BY <2>2 DEF PersonsIn
        <3>2. BandForCandidates("max", probe, gallery, TopK, set) # "strong"
            BY <1>1 DEF BandIn
        <3> QED BY <2>1, <3>1, <3>2, StrongIs
    <2>7. ~ (two(gallery) <= two(gallery'))
        <3> HIDE DEF one, two
        <3> QED BY <2>1, <2>3, <2>4, <2>5, <2>6
    <2>8. ~ (TopK < 2) /\ PersonsIn(gallery) = {p}
        <3>1. ~ (TopK < 2 \/ PersonsIn(gallery) # {p})
            <4>1. ASSUME TopK < 2 \/ PersonsIn(gallery) # {p}
                  PROVE  two(gallery) <= two(gallery')
                BY <1>1, <2>1, <2>2, <4>1, SecondGrows
            <4> QED BY <2>7, <4>1
        <3> QED BY <3>1
    <2>9. two(gallery) = 0
        <3>1. Cardinality(PersonsIn(gallery)) = 1
            BY <2>8, FS_Singleton
        <3>2. 2 \in Nat /\ 2 > Cardinality(PersonsIn(gallery))
            BY <3>1
        <3> QED BY <2>1, <3>2, ScoreAtRankIs
    <2>10. ASSUME NEW q \in PersonsIn(gallery') \ {p}
           PROVE  ScoreIn(gallery', q) < 0
        <3>1. own(q, gallery') \in Int /\ ScoreIn(gallery', q) = own(q, gallery')
            BY <1>1, <2>1, ScoreIs DEF ScoreIn
        <3>2. TopK >= 2
            BY <2>1, <2>8
        <3>3. own(q, gallery') >= 0 => 0 <= two(gallery')
            BY <2>1, <2>2, <3>2, FirstRival
        <3> HIDE DEF own, two
        <3> QED BY <2>4, <2>7, <2>9, <3>1, <3>3
    <2> QED BY <2>8, <2>10
<1>2. IInv /\ IInv' /\ [Next]_vars => UNCHANGED <<mode, probe, set>>
    BY DEF Next, Enroll, Revoke, Join, Leave, vars
<1> DEFINE Step == mode = "max" /\ gallery \subseteq gallery' /\ BandIn(gallery') = "strong" =>
               \/ BandIn(gallery) = "strong"
               \/ \A p \in TopIn(gallery) \cap TopIn(gallery') :
                      SourcesOf(gallery', p) = SourcesOf(gallery, p) =>
                          /\ PersonsIn(gallery) = {p}
                          /\ \A q \in PersonsIn(gallery') \ {p} : ScoreIn(gallery', q) < 0
<1>3. IInv /\ IInv' /\ [Next]_vars => Step
    BY <1>1, <1>2
<1>4. IInv /\ IInv' /\ [Next]_vars => [Step]_vars
    BY <1>3
<1> QED BY <1>4, SpecIInv, PTL DEF Spec, RivalNeverPromotes

\* The gallery grows by one person at a time.
LEMMA SizeGrowsByOne ==
    ASSUME IInv, [Next]_vars
    PROVE  LiveSize \in Nat /\ LiveSize' \in Nat /\ LiveSize' <= LiveSize + 1
<1> DEFINE P == PersonsIn(gallery)
           Q == PersonsIn(gallery')
<1>1. IsFiniteSet(P) /\ Cardinality(P) \in Nat
    BY GalleryIsScored, SourcesAre, FS_CardinalityType
<1>2. LiveSize = Cardinality(P) /\ LiveSize' = Cardinality(Q)
    BY DEF LiveSize
<1>3. ASSUME NEW entry, gallery' = gallery \cup {entry}
      PROVE  Cardinality(Q) \in Nat /\ Cardinality(Q) <= Cardinality(P) + 1
    <2> DEFINE p == entry[1]
    <2>1. Q = P \cup {p}
        <3>1. ASSUME NEW q
              PROVE  q \in Q <=> q \in P \/ q = p
            <4>1. q \in Q <=> \E e \in gallery' : q = e[1]
                BY Zenon DEF PersonsIn
            <4>2. q \in P <=> \E e \in gallery : q = e[1]
                BY Zenon DEF PersonsIn
            <4> HIDE DEF P, Q
            <4>3. \A e : e \in gallery' <=> e \in gallery \/ e = entry
                BY <1>3
            <4> QED BY <4>1, <4>2, <4>3, Zenon
        <3> HIDE DEF P, Q, p
        <3> QED BY <3>1
    <2>2. Cardinality(Q) = IF p \in P THEN Cardinality(P) ELSE Cardinality(P) + 1
        <3> HIDE DEF P, Q, p
        <3> QED BY <1>1, <2>1, FS_AddElement
    <2> HIDE DEF P, Q, p
    <2> QED BY <1>1, <2>2
<1>4. ASSUME gallery' \subseteq gallery
      PROVE  Cardinality(Q) \in Nat /\ Cardinality(Q) <= Cardinality(P)
    <2>1. Q \subseteq P
        BY <1>4 DEF PersonsIn
    <2>2. IsFiniteSet(Q) /\ Cardinality(Q) <= Cardinality(P)
        <3> HIDE DEF P, Q
        <3> QED BY <1>1, <2>1, FS_Subset
    <2> QED BY <2>2, FS_CardinalityType
<1>5. (\E entry : gallery' = gallery \cup {entry}) \/ gallery' \subseteq gallery
    BY DEF Next, Enroll, Revoke, Join, Leave, vars
<1> HIDE DEF P, Q
<1> QED BY <1>1, <1>2, <1>3, <1>4, <1>5

(* A gallery that grows person by person past what its thresholds were        *)
(* calibrated at warns before it stops accepting, wherever the calibration    *)
(* stood (acceptance.py:70-83).                                               *)
THEOREM WarnsBeforeShutting == Spec => WarnsBeforeItShuts
<1>1. ASSUME IInv, [Next]_vars, GateAllows(set, LiveSize), ~ GateAllows(set, LiveSize')
      PROVE  GateWarns(set, LiveSize)
    <2> DEFINE now == LiveSize
               next == LiveSize'
    <2>1. set.gallerySize \in Nat
        BY <1>1, GalleryIsScored
    <2>2. now \in Nat /\ next \in Nat /\ next <= now + 1
        BY <1>1, SizeGrowsByOne
    <2>3. GateAllows(set, now) /\ ~ GateAllows(set, next)
        BY <1>1
    <2> HIDE DEF now, next
    <2>4. set.gallerySize > 0 /\ ~ (next <= 5 * set.gallerySize)
        BY <2>3 DEF GateAllows, GalleryBlockFactor
    <2>5. now > 2 * set.gallerySize
        BY <2>1, <2>2, <2>4
    <2>6. GateWarns(set, now)
        BY <2>3, <2>4, <2>5 DEF GateWarns, GalleryWarnFactor
    <2> QED BY <2>6 DEF now
<1>2. IInv /\ [Next]_vars
         => [GateAllows(set, LiveSize) /\ ~ GateAllows(set, LiveSize') => GateWarns(set, LiveSize)]_vars
    BY <1>1
<1> QED BY <1>2, SpecIInv, PTL DEF Spec, WarnsBeforeItShuts

=============================================================================
