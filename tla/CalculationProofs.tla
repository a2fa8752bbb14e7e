-------------------------- MODULE CalculationProofs --------------------------
(***************************************************************************)
(* The calculations, for every electorate and every ledger.  Of an         *)
(* election: ranking by gauges is a strict weak order, a raised grade      *)
(* never makes a gauge worse, and what the calculator says of a candidate  *)
(* depends on two counts alone, how many gauges are better and how many    *)
(* are not worse; from these follow who is seated, that ids decide         *)
(* nothing, that raising a grade never hurts and that a draw settles its   *)
(* tie only.  Of the ledger: rounding never gives away more than there is, *)
(* the power that a voter is weighed to have is what a recount comes to,   *)
(* and what the pools hold is counted once.                                *)
(***************************************************************************)
EXTENDS MajorityJudgment, VotePower, SetLemmas, FunctionTheorems,
        SequenceTheorems

-----------------------------------------------------------------------------
(* The order of the gauges *)

\* What candidateGauge returns for a candidate with votes.
Graded == [id : Candidates, grade : Grade, above : Nat, below : Nat,
           band : {"A", "B", "C"}]

Histograms == [1..5 -> Nat]

\* What has no grade is told apart by it.
LEMMA NoneIsNoGrade == None \notin Grade
BY NoneIsNoNumber DEF Grade

\* No gauge comes before itself, and no two come before each other
\* (compareCandidateGauges).
THEOREM BetterIsAsymmetric ==
  ASSUME NEW l \in Graded, NEW r \in Graded, Better(l, r)
  PROVE  ~Better(r, l)
BY DEF Better, BandOrder, Graded, Grade

\* The order is transitive, ties included: what ties with the first of a group
\* ties with all of it, and a group stands as one before or behind another.
THEOREM RankingIsWeakOrder ==
  ASSUME NEW l \in Graded, NEW m \in Graded, NEW r \in Graded
  PROVE  /\ Better(l, m) /\ Better(m, r) => Better(l, r)
         /\ Tied(l, m) /\ Tied(m, r) => Tied(l, r)
         /\ Better(l, m) /\ Tied(m, r) => Better(l, r)
         /\ Tied(l, m) /\ Better(m, r) => Better(l, r)
BY DEF Better, Tied, BandOrder, Graded, Grade

-----------------------------------------------------------------------------
(* A raised grade *)

\* The weight w moves from grade g up to grade k.
Raised(h, g, k, w) == [h EXCEPT ![g + 1] = @ - w, ![k + 1] = @ + w]

\* The qualifying grade is the greatest that meets the share.
LEMMA QualifyingGradeIsGreatest ==
  ASSUME NEW h \in Histograms, Cumulated(h)[1] # 0,
         NEW q, q = QualifyingGrade(Cumulated(h))
  PROVE  /\ q \in Grade
         /\ Cumulated(h)[q + 1] * 5 >= Cumulated(h)[1] * 3
         /\ \A g \in Grade : Cumulated(h)[g + 1] * 5 >= Cumulated(h)[1] * 3 => g <= q
<1> DEFINE from == Cumulated(h)
           S == {g \in Grade : from[g + 1] * 5 >= from[1] * 3}
<1>1. 0 \in S
  BY DEF Histograms, Cumulated, Grade
<1>2. \E x \in S : \A y \in S : x >= y
  BY <1>1 DEF Grade
<1>3. q = CHOOSE x \in S : \A y \in S : x >= y
  BY DEF QualifyingGrade, Max, GRADE_QUANTILE
<1>4. q \in S /\ \A y \in S : q >= y
  <2> HIDE DEF S
  <2> QED BY <1>2, <1>3
<1> QED
  BY <1>4 DEF Grade

\* Raising a part of a candidate's power from one grade to a higher one never
\* makes the gauge worse, and so never moves another candidate before it: the
\* reason why RaisingNeverHurts holds for every electorate.
THEOREM RaisingNeverWorsensGauge ==
  ASSUME NEW h \in Histograms, NEW c \in Candidates, NEW g \in Grade, NEW k \in Grade,
         NEW w \in Nat, g < k, w <= h[g + 1], Cumulated(h)[1] # 0
  PROVE  ~Better(CandidateGauge(c, h), CandidateGauge(c, Raised(h, g, k, w)))
<1> DEFINE h2 == Raised(h, g, k, w)
           q == QualifyingGrade(Cumulated(h))
           q2 == QualifyingGrade(Cumulated(h2))
<1>1. /\ h2 \in Histograms
      /\ Cumulated(h2)[1] = Cumulated(h)[1]
      /\ \A x \in Grade : Cumulated(h2)[x + 1] >= Cumulated(h)[x + 1]
  BY DEF Histograms, Raised, Cumulated, Grade
<1> HIDE DEF h2
<1>2. /\ q \in Grade
      /\ Cumulated(h)[q + 1] * 5 >= Cumulated(h)[1] * 3
      /\ \A x \in Grade : Cumulated(h)[x + 1] * 5 >= Cumulated(h)[1] * 3 => x <= q
  BY QualifyingGradeIsGreatest
<1>3. /\ q2 \in Grade
      /\ \A x \in Grade : Cumulated(h2)[x + 1] * 5 >= Cumulated(h2)[1] * 3 => x <= q2
  BY <1>1, QualifyingGradeIsGreatest
<1>4. q <= q2
  BY <1>1, <1>2, <1>3 DEF Histograms, Cumulated, Grade
<1> DEFINE a == CandidateGauge(c, h)
           b == CandidateGauge(c, h2)
<1>5. /\ a.grade = q /\ a.above = Cumulated(h)[q + 2]
      /\ a.below = Cumulated(h)[1] - Cumulated(h)[q + 1] /\ a.band = Band(a.above, a.below)
  BY <1>2, NoneIsNoGrade DEF CandidateGauge
<1>6. /\ b.grade = q2 /\ b.above = Cumulated(h2)[q2 + 2]
      /\ b.below = Cumulated(h2)[1] - Cumulated(h2)[q2 + 1]
      /\ b.band = Band(b.above, b.below)
  BY <1>3, NoneIsNoGrade DEF CandidateGauge
<1>7. /\ Cumulated(h2)[q + 2] >= Cumulated(h)[q + 2]
      /\ \A x \in 1..6 : Cumulated(h)[x] \in Nat /\ Cumulated(h2)[x] \in Nat
  BY <1>1, <1>2 DEF Histograms, Cumulated, Grade
<1> HIDE DEF a, b, q, q2
<1>8. ~Better(a, b)
  <2>1. CASE q < q2
    BY <2>1, <1>2, <1>3, <1>5, <1>6 DEF Better, Grade
  <2>2. CASE q = q2
    <3>1. b.above >= a.above /\ b.below <= a.below
      BY <2>2, <1>1, <1>2, <1>5, <1>6, <1>7 DEF Grade
    <3>2. a.above \in Nat /\ b.above \in Nat /\ a.below \in Int /\ b.below \in Int
      BY <1>2, <1>3, <1>5, <1>6, <1>7 DEF Grade
    <3> QED
      BY <2>2, <3>1, <3>2, <1>2, <1>5, <1>6 DEF Better, Band, BandOrder, Grade
  <2> QED
    BY <2>1, <2>2, <1>2, <1>3, <1>4 DEF Grade
<1> QED
  BY <1>8 DEF a, b, h2

-----------------------------------------------------------------------------
(* Sorting by counts *)

\* The least element of a set of natural numbers is what Min finds.
LEMMA MinIsLeast ==
  ASSUME NEW S \in SUBSET Nat, S # {}
  PROVE  Min(S) \in S /\ \A n \in S : Min(S) <= n
<1>1. \E m \in S : \A n \in S : m <= n
  <2>1. PICK m \in S : \A n \in S : <<n, m>> \notin OpToRel(<, Nat)
    BY NatLessThanWellFounded, WFMin
  <2>2. \A n \in S : ~(n < m)
    BY <2>1 DEF OpToRel
  <2> QED
    BY <2>2
<1> QED
  BY <1>1 DEF Min

\* What is ahead of something is enumerated first.
LEMMA AheadComesFirst ==
  ASSUME NEW S, IsFiniteSet(S), NEW R, LinearOrder(R, S), NEW q, Enumerates(q, S, R),
         NEW A \in SUBSET S, \A y \in A, z \in S : <<z, y>> \in R => z \in A
  PROVE  /\ Cardinality(A) \in 0 .. Cardinality(S)
         /\ \A i \in 1 .. Cardinality(S) : q[i] \in A <=> i <= Cardinality(A)
<1> DEFINE n == Cardinality(S)
<1>1. n \in Nat /\ IsFiniteSet(A) /\ Cardinality(A) \in 0 .. n
  BY FS_CardinalityType, FS_Subset
<1>2. ASSUME NEW i \in 1 .. n, q[i] \in A PROVE i <= Cardinality(A)
  <2> DEFINE P == AheadOf(R, S, q[i])
  <2>1. q[i] \in S /\ Cardinality(P) = i - 1
    BY DEF Enumerates
  <2>2. P \in SUBSET A /\ q[i] \notin P
    BY <1>2, <2>1 DEF AheadOf, LinearOrder
  <2>3. Cardinality(P) <= Cardinality(A) /\ (Cardinality(A) = Cardinality(P) => A = P)
    BY <2>2, <1>1, FS_Subset
  <2>4. QED BY <2>1, <2>2, <2>3, <1>1, <1>2
<1>3. ASSUME NEW i \in 1 .. n, q[i] \notin A PROVE ~ i <= Cardinality(A)
  <2> DEFINE P == AheadOf(R, S, q[i])
  <2>1. q[i] \in S /\ Cardinality(P) = i - 1
    BY DEF Enumerates
  <2>2. A \in SUBSET P /\ IsFiniteSet(P)
    <3>1. P \in SUBSET S
      BY DEF AheadOf
    <3>2. A \in SUBSET P
      BY <1>3, <2>1 DEF AheadOf, LinearOrder
    <3>3. QED BY <3>1, <3>2, FS_Subset
  <2>3. Cardinality(A) <= Cardinality(P)
    BY <2>2, FS_Subset
  <2>4. QED BY <2>1, <2>3, <1>1
<1>4. QED BY <1>1, <1>2, <1>3

\* B ranks the members of S, perhaps several alike, and R orders them accordingly.
Ranks(B, R, S) ==
  /\ \A x, y \in S : <<x, y>> \in B => <<x, y>> \in R /\ <<y, x>> \notin B
  /\ \A x, y, z \in S : <<x, z>> \in B => <<x, y>> \in B \/ <<y, z>> \in B

\* Those of S that x does not come before: the ones ahead of x and its equals.
NotAfter(B, S, x) == {y \in S : <<x, y>> \notin B}

\* The places of those ahead of a member, and of its equals.
LEMMA PlacesByCounts ==
  ASSUME NEW S, IsFiniteSet(S), NEW R, LinearOrder(R, S), NEW q, Enumerates(q, S, R),
         NEW B, Ranks(B, R, S), NEW x \in S
  PROVE  /\ Cardinality(AheadOf(B, S, x)) \in 0 .. Cardinality(S)
         /\ Cardinality(NotAfter(B, S, x)) \in 0 .. Cardinality(S)
         /\ \A i \in 1 .. Cardinality(S) :
              /\ <<q[i], x>> \in B <=> i <= Cardinality(AheadOf(B, S, x))
              /\ <<x, q[i]>> \notin B <=> i <= Cardinality(NotAfter(B, S, x))
<1>1. \A i \in 1 .. Cardinality(S) : q[i] \in S
  BY DEF Enumerates
<1>2. AheadOf(B, S, x) \in SUBSET S /\ NotAfter(B, S, x) \in SUBSET S
  BY DEF AheadOf, NotAfter
<1>3. \A y \in AheadOf(B, S, x), z \in S : <<z, y>> \in R => z \in AheadOf(B, S, x)
  BY DEF AheadOf, LinearOrder, Ranks
<1>4. \A y \in NotAfter(B, S, x), z \in S : <<z, y>> \in R => z \in NotAfter(B, S, x)
  BY DEF NotAfter, LinearOrder, Ranks
<1>5. /\ Cardinality(AheadOf(B, S, x)) \in 0 .. Cardinality(S)
      /\ \A i \in 1 .. Cardinality(S) :
           q[i] \in AheadOf(B, S, x) <=> i <= Cardinality(AheadOf(B, S, x))
  BY <1>2, <1>3, AheadComesFirst
<1>6. /\ Cardinality(NotAfter(B, S, x)) \in 0 .. Cardinality(S)
      /\ \A i \in 1 .. Cardinality(S) :
           q[i] \in NotAfter(B, S, x) <=> i <= Cardinality(NotAfter(B, S, x))
  BY <1>2, <1>4, AheadComesFirst
<1>7. QED BY <1>1, <1>5, <1>6 DEF AheadOf, NotAfter

\* Equals have the same ahead of them, and are followed by the same.
LEMMA EqualsShareBounds ==
  ASSUME NEW S, NEW R, NEW B, Ranks(B, R, S), NEW x \in S, NEW y \in S,
         <<x, y>> \notin B, <<y, x>> \notin B
  PROVE  AheadOf(B, S, x) = AheadOf(B, S, y) /\ NotAfter(B, S, x) = NotAfter(B, S, y)
BY DEF AheadOf, NotAfter, Ranks

\* One is up to oneself, and nobody is ahead of oneself.
LEMMA OwnPlace ==
  ASSUME NEW S, IsFiniteSet(S), NEW R, LinearOrder(R, S), NEW q, Enumerates(q, S, R),
         NEW B, Ranks(B, R, S), NEW i \in 1 .. Cardinality(S)
  PROVE  /\ q[i] \in S
         /\ Cardinality(AheadOf(B, S, q[i])) < i
         /\ i <= Cardinality(NotAfter(B, S, q[i]))
<1>1. q[i] \in S
  BY DEF Enumerates
<1>2. <<q[i], q[i]>> \notin B
  BY <1>1 DEF Ranks
<1>3. Cardinality(S) \in Nat
  BY FS_CardinalityType
<1>4. /\ Cardinality(AheadOf(B, S, q[i])) \in 0 .. Cardinality(S)
      /\ Cardinality(NotAfter(B, S, q[i])) \in 0 .. Cardinality(S)
      /\ <<q[i], q[i]>> \in B <=> i <= Cardinality(AheadOf(B, S, q[i]))
      /\ <<q[i], q[i]>> \notin B <=> i <= Cardinality(NotAfter(B, S, q[i]))
  BY <1>1, PlacesByCounts
<1>5. QED BY <1>1, <1>2, <1>3, <1>4

\* A group begins behind those ahead of its members: at the place of the group before it
\* if the two are equals, at its own place otherwise.
LEMMA GroupsBegin ==
  ASSUME NEW S, IsFiniteSet(S), NEW R, LinearOrder(R, S), NEW q, Enumerates(q, S, R),
         NEW B, Ranks(B, R, S), NEW i \in 1 .. Cardinality(S)
  PROVE  LET begin(k) == Cardinality(AheadOf(B, S, q[k])) + 1 IN
         /\ begin(i) \in 1 .. i
         /\ i = 1 => begin(i) = 1
         /\ i > 1 =>
              /\ begin(i - 1) \in 1 .. Cardinality(S)
              /\ IF <<q[begin(i - 1)], q[i]>> \notin B /\ <<q[i], q[begin(i - 1)]>> \notin B
                 THEN begin(i) = begin(i - 1) ELSE begin(i) = i
<1> DEFINE n == Cardinality(S)
           begin(k) == Cardinality(AheadOf(B, S, q[k])) + 1
<1>1. n \in Nat
  BY FS_CardinalityType
<1>2. \A k \in 1 .. n : q[k] \in S
  BY DEF Enumerates
<1>3. \A k \in 1 .. n : begin(k) \in 1 .. k
  <2>1. ASSUME NEW k \in 1 .. n PROVE begin(k) \in 1 .. k
    <3>1. Cardinality(AheadOf(B, S, q[k])) < k
      BY OwnPlace
    <3>2. Cardinality(AheadOf(B, S, q[k])) \in 0 .. n
      BY <1>2, PlacesByCounts
    <3>3. QED BY <3>1, <3>2, <1>1
  <2>2. QED BY <2>1
<1>4. ASSUME i > 1
      PROVE  /\ begin(i - 1) \in 1 .. n
             /\ IF <<q[begin(i - 1)], q[i]>> \notin B /\ <<q[i], q[begin(i - 1)]>> \notin B
                THEN begin(i) = begin(i - 1) ELSE begin(i) = i
  <2> DEFINE h == i - 1
             b == begin(h)
  <2>1. h \in 1 .. n /\ h < i
    BY <1>1, <1>4
  <2>2. b \in 1 .. h
    BY <2>1, <1>3
  <2>3. b \in 1 .. n
    BY <2>1, <2>2, <1>1
  <2>4. q[b] \in S /\ q[h] \in S /\ q[i] \in S
    BY <2>1, <2>3, <1>2
  <2>0. b = Cardinality(AheadOf(B, S, q[h])) + 1 /\ h = i - 1
    OBVIOUS
  <2> HIDE DEF h, b
  <2>5. <<q[b], q[h]>> \notin B
    <3>1. <<q[b], q[h]>> \in B <=> b <= Cardinality(AheadOf(B, S, q[h]))
      BY <2>3, <2>4, PlacesByCounts
    <3>2. Cardinality(AheadOf(B, S, q[h])) \in 0 .. n
      BY <2>4, PlacesByCounts
    <3>3. QED BY <3>1, <3>2, <2>0, <1>1
  <2>6. <<q[h], q[b]>> \notin B
    <3>1. h = b \/ <<q[b], q[h]>> \in R
      BY <2>1, <2>2, <2>3 DEF Enumerates
    <3>2. QED BY <3>1, <2>4 DEF Ranks, LinearOrder
  <2>7. AheadOf(B, S, q[b]) = AheadOf(B, S, q[h])
    BY <2>4, <2>5, <2>6, EqualsShareBounds
  <2>8. CASE <<q[b], q[i]>> \notin B /\ <<q[i], q[b]>> \notin B
    <3>1. AheadOf(B, S, q[b]) = AheadOf(B, S, q[i])
      BY <2>4, <2>8, EqualsShareBounds
    <3>2. begin(i) = b
      BY <3>1, <2>7, <2>0
    <3>3. QED BY <3>2, <2>3, <2>8 DEF b, h
  <2>9. CASE ~ (<<q[b], q[i]>> \notin B /\ <<q[i], q[b]>> \notin B)
    <3>1. <<q[h], q[i]>> \in R
      BY <2>1 DEF Enumerates
    <3>2. <<q[i], q[h]>> \notin B
      BY <3>1, <2>4 DEF Ranks, LinearOrder
    <3>3. <<q[i], q[b]>> \notin B
      BY <3>2, <2>4, <2>6 DEF Ranks
    <3>4. <<q[h], q[i]>> \in B
      BY <3>3, <2>9, <2>4, <2>5 DEF Ranks
    <3>5. h <= Cardinality(AheadOf(B, S, q[i]))
      BY <3>4, <2>1, <2>4, PlacesByCounts
    <3>6. begin(i) = i
      <4>1. begin(i) \in 1 .. i
        BY <1>3
      <4>2. Cardinality(AheadOf(B, S, q[i])) \in 0 .. n
        BY <2>4, PlacesByCounts
      <4>3. QED BY <3>5, <4>1, <4>2, <2>0, <1>1
    <3>7. QED BY <3>6, <2>3, <2>9 DEF b, h
  <2>10. QED BY <2>8, <2>9
<1>5. begin(i) \in 1 .. i
  BY <1>3
<1>6. i = 1 => begin(i) = 1
  BY <1>5
<1> HIDE DEF begin
<1>7. QED BY <1>4, <1>5, <1>6 DEF begin

-----------------------------------------------------------------------------
(* The order of the electable *)

\* The gauges of candidates, one for each of them.
Field(X) ==
  X \subseteq Graded /\ IsFiniteSet(X) /\ \A l, r \in X : l.id = r.id => l = r

Lead(X) == {p \in X \X X : Better(p[1], p[2])}
Listed(X) ==
  {p \in X \X X :
     IF p[1].id < p[2].id THEN ~Better(p[2], p[1]) ELSE Better(p[1], p[2])}

\* The gauges better than one, and those it is not better than.
Ahead(X, x) == {y \in X : Better(y, x)}
NotBehind(X, x) == {y \in X : ~Better(x, y)}

\* If somebody is better than a third, one of them differs from any second.
LEMMA BetterSplits ==
  ASSUME NEW X, Field(X), NEW x \in X, NEW y \in X, NEW z \in X, Better(x, z)
  PROVE  Better(x, y) \/ Better(y, z)
<1>1. x \in Graded /\ y \in Graded /\ z \in Graded
  BY DEF Field
<1>2. Tied(x, y) /\ Better(y, z) => Better(x, z)
  BY <1>1, RankingIsWeakOrder
<1>3. Tied(x, y) \/ Better(x, y) \/ Better(y, x)
  BY DEF Tied
<1>4. Better(y, x) /\ Better(x, z) => Better(y, z)
  BY <1>1, RankingIsWeakOrder
<1>5. Tied(y, x) /\ Better(x, z) => Better(y, z)
  BY <1>1, RankingIsWeakOrder
<1>6. Tied(x, y) => Tied(y, x)
  BY DEF Tied
<1>7. QED BY <1>2, <1>3, <1>4, <1>5, <1>6

\* The sort lists the better first and equals by their ids.
LEMMA FieldIsOrdered ==
  ASSUME NEW X, Field(X)
  PROVE  LinearOrder(Listed(X), X) /\ Ranks(Lead(X), Listed(X), X)
<1>1. \A x, y \in X : <<x, y>> \in Lead(X) <=> Better(x, y)
  BY DEF Lead
<1>2. \A x, y \in X : <<x, y>> \in Listed(X)
                        <=> IF x.id < y.id THEN ~Better(y, x) ELSE Better(x, y)
  BY DEF Listed
<1>3. \A x \in X : x.id \in Nat
  BY JudgmentAssumption DEF Field, Graded
<1>4. \A x, y \in X : Better(x, y) => ~Better(y, x)
  BY BetterIsAsymmetric DEF Field
<1>5. \A x, y, z \in X : Better(x, z) => Better(x, y) \/ Better(y, z)
  BY BetterSplits
<1>6. \A x, y \in X : x # y => x.id < y.id \/ y.id < x.id
  BY <1>3 DEF Field
<1>7. Ranks(Lead(X), Listed(X), X)
  <2>1. ASSUME NEW x \in X, NEW y \in X, Better(x, y)
        PROVE  <<x, y>> \in Listed(X) /\ ~Better(y, x)
    BY <2>1, <1>2, <1>4
  <2>2. QED BY <2>1, <1>1, <1>5 DEF Ranks
<1>8. LinearOrder(Listed(X), X)
  <2>1. \A x \in X : <<x, x>> \notin Listed(X)
    BY <1>2, <1>3, <1>4
  <2>2. ASSUME NEW x \in X, NEW y \in X, NEW z \in X,
               <<x, y>> \in Listed(X), <<y, z>> \in Listed(X)
        PROVE  <<x, z>> \in Listed(X)
    <3>1. /\ ~Better(y, x) /\ ~Better(z, y)
          /\ ~ x.id < y.id => Better(x, y)
          /\ ~ y.id < z.id => Better(y, z)
      BY <2>2, <1>2, <1>4
    <3>2. ~Better(z, x)
      BY <3>1, <1>5
    <3>3. ~ x.id < z.id => Better(x, z)
      <4>1. ~ x.id < z.id => ~ x.id < y.id \/ ~ y.id < z.id
        BY <1>3
      <4>2. QED BY <4>1, <3>1, <1>5
    <3>4. QED BY <3>2, <3>3, <1>2
  <2>3. \A x, y \in X : x # y => <<x, y>> \in Listed(X) \/ <<y, x>> \in Listed(X)
    BY <1>2, <1>3, <1>6
  <2>4. QED BY <2>1, <2>2, <2>3 DEF LinearOrder
<1>9. QED BY <1>7, <1>8

\* The sort is one: everybody once, in that order (rankCandidates).
LEMMA OrderedIsListed ==
  ASSUME NEW X, Field(X)
  PROVE  Enumerates(Ordered(X), X, Listed(X))
<1> DEFINE Before(l, r) == IF l.id < r.id THEN ~Better(r, l) ELSE Better(l, r)
           ahead == [x \in X |-> Cardinality({y \in X : Before(y, x)})]
<1>1. Ordered(X) = [i \in 1 .. Cardinality(X) |-> CHOOSE x \in X : ahead[x] = i - 1]
  BY DEF Ordered, Sorted
<1>2. \A x \in X : AheadOf(Listed(X), X, x) = {y \in X : Before(y, x)}
  BY DEF AheadOf, Listed
<1>3. \A x \in X : ahead[x] = Cardinality(AheadOf(Listed(X), X, x))
  BY <1>2
<1> HIDE DEF ahead
<1>4. IsFiniteSet(X) /\ LinearOrder(Listed(X), X)
  BY FieldIsOrdered DEF Field
<1>5. QED BY <1>1, <1>3, <1>4, SortedEnumerates

\* What ranks a gauge: the number of the better, and that of those not worse.
LEMMA CountsOfField ==
  ASSUME NEW X, Field(X), NEW x \in X
  PROVE  AheadOf(Lead(X), X, x) = Ahead(X, x) /\ NotAfter(Lead(X), X, x) = NotBehind(X, x)
BY DEF AheadOf, NotAfter, Lead, Ahead, NotBehind

\* The places of the sort, by those counts.
LEMMA PlacesInField ==
  ASSUME NEW X, Field(X), NEW x \in X
  PROVE  /\ Cardinality(X) \in Nat
         /\ Cardinality(Ahead(X, x)) \in 0 .. Cardinality(X)
         /\ Cardinality(NotBehind(X, x)) \in 0 .. Cardinality(X)
         /\ \A i \in 1 .. Cardinality(X) :
              /\ Ordered(X)[i] \in X
              /\ Better(Ordered(X)[i], x) <=> i <= Cardinality(Ahead(X, x))
              /\ ~Better(x, Ordered(X)[i]) <=> i <= Cardinality(NotBehind(X, x))
         /\ \E i \in 1 .. Cardinality(X) : Ordered(X)[i] = x
<1> DEFINE q == Ordered(X)
<1>1. /\ IsFiniteSet(X) /\ LinearOrder(Listed(X), X) /\ Ranks(Lead(X), Listed(X), X)
      /\ Enumerates(q, X, Listed(X))
  BY FieldIsOrdered, OrderedIsListed DEF Field
<1>2. \A i \in 1 .. Cardinality(X) : q[i] \in X
  BY <1>1 DEF Enumerates
<1>3. \E i \in 1 .. Cardinality(X) : q[i] = x
  BY <1>1 DEF Enumerates
<1>4. \A i \in 1 .. Cardinality(X) :
        /\ <<q[i], x>> \in Lead(X) <=> Better(q[i], x)
        /\ <<x, q[i]>> \in Lead(X) <=> Better(x, q[i])
  BY <1>2 DEF Lead
<1> HIDE DEF q
<1>5. /\ Cardinality(AheadOf(Lead(X), X, x)) \in 0 .. Cardinality(X)
      /\ Cardinality(NotAfter(Lead(X), X, x)) \in 0 .. Cardinality(X)
      /\ \A i \in 1 .. Cardinality(X) :
           /\ <<q[i], x>> \in Lead(X) <=> i <= Cardinality(AheadOf(Lead(X), X, x))
           /\ <<x, q[i]>> \notin Lead(X) <=> i <= Cardinality(NotAfter(Lead(X), X, x))
  BY <1>1, PlacesByCounts
<1>6. QED BY <1>1, <1>2, <1>3, <1>4, <1>5, CountsOfField, FS_CardinalityType DEF q

\* Nobody is listed twice.
LEMMA PlacesDiffer ==
  ASSUME NEW X, Field(X), NEW i \in 1 .. Cardinality(X), NEW j \in 1 .. Cardinality(X),
         Ordered(X)[i] = Ordered(X)[j]
  PROVE  i = j
<1>1. LinearOrder(Listed(X), X) /\ Enumerates(Ordered(X), X, Listed(X))
  BY FieldIsOrdered, OrderedIsListed
<1>2. /\ i < j <=> <<Ordered(X)[i], Ordered(X)[j]>> \in Listed(X)
      /\ j < i <=> <<Ordered(X)[j], Ordered(X)[i]>> \in Listed(X)
      /\ Ordered(X)[i] \in X
  BY <1>1 DEF Enumerates
<1>3. <<Ordered(X)[i], Ordered(X)[i]>> \notin Listed(X)
  BY <1>1, <1>2 DEF LinearOrder
<1>4. QED BY <1>2, <1>3

\* Where a gauge's group begins.
FirstPlace(X, i) == Cardinality(Ahead(X, Ordered(X)[i])) + 1

\* A group begins behind those ahead of it: at the place of the group before it when the
\* two are equals.
LEMMA GroupsOfField ==
  ASSUME NEW X, Field(X), NEW i \in 1 .. Cardinality(X)
  PROVE  /\ FirstPlace(X, i) \in 1 .. i
         /\ i = 1 => FirstPlace(X, i) = 1
         /\ i > 1 =>
              /\ FirstPlace(X, i - 1) \in 1 .. Cardinality(X)
              /\ IF Tied(Ordered(X)[FirstPlace(X, i - 1)], Ordered(X)[i])
                 THEN FirstPlace(X, i) = FirstPlace(X, i - 1) ELSE FirstPlace(X, i) = i
<1> DEFINE q == Ordered(X)
           begin(k) == Cardinality(AheadOf(Lead(X), X, q[k])) + 1
<1>1. /\ IsFiniteSet(X) /\ LinearOrder(Listed(X), X) /\ Ranks(Lead(X), Listed(X), X)
      /\ Enumerates(q, X, Listed(X))
  BY FieldIsOrdered, OrderedIsListed DEF Field
<1>2. \A k \in 1 .. Cardinality(X) : q[k] \in X
  BY <1>1 DEF Enumerates
<1>3. \A k \in 1 .. Cardinality(X) : begin(k) = FirstPlace(X, k)
  BY <1>2, CountsOfField DEF FirstPlace
<1>4. /\ begin(i) \in 1 .. i
      /\ i = 1 => begin(i) = 1
      /\ i > 1 =>
           /\ begin(i - 1) \in 1 .. Cardinality(X)
           /\ IF <<q[begin(i - 1)], q[i]>> \notin Lead(X)
                 /\ <<q[i], q[begin(i - 1)]>> \notin Lead(X)
              THEN begin(i) = begin(i - 1) ELSE begin(i) = i
  BY <1>1, GroupsBegin
<1>5. \A j, k \in 1 .. Cardinality(X) :
        Tied(q[j], q[k]) <=> <<q[j], q[k]>> \notin Lead(X) /\ <<q[k], q[j]>> \notin Lead(X)
  BY <1>2 DEF Lead, Tied
<1>6. Cardinality(X) \in Nat
  BY <1>1, FS_CardinalityType
<1>7. i > 1 => i - 1 \in 1 .. Cardinality(X)
  BY <1>6
<1> HIDE DEF begin, q
<1>8. QED BY <1>3, <1>4, <1>5, <1>7 DEF q

\* The function that rankCandidates fills place by place.
Grows(f, order) ==
  f = [i \in DOMAIN order |->
         IF i > 1 /\ Tied(order[f[i - 1]], order[i]) THEN f[i - 1] ELSE i]

\* The groups start where they begin (rankCandidates).
LEMMA GroupStartsAre ==
  ASSUME NEW X, Field(X)
  PROVE  GroupStarts(Ordered(X)) = [i \in 1 .. Cardinality(X) |-> FirstPlace(X, i)]
<1> DEFINE n == Cardinality(X)
           q == Ordered(X)
           g == [i \in 1 .. n |-> FirstPlace(X, i)]
           f == CHOOSE h : Grows(h, q)
<1>1. n \in Nat
  BY FS_CardinalityType DEF Field
<1>2. DOMAIN q = 1 .. n
  BY OrderedIsListed DEF Enumerates
<1>3. \A i \in 1 .. n :
        /\ g[i] \in 1 .. i
        /\ i = 1 => g[i] = 1
        /\ i > 1 => /\ i - 1 \in 1 .. n /\ g[i - 1] \in 1 .. n
                    /\ IF Tied(q[g[i - 1]], q[i]) THEN g[i] = g[i - 1] ELSE g[i] = i
  <2>1. ASSUME NEW i \in 1 .. n, i > 1 PROVE i - 1 \in 1 .. n
    BY <1>1, <2>1
  <2>2. QED BY <2>1, GroupsOfField
<1>4. GroupStarts(q) = [i \in DOMAIN q |-> f[i]]
  BY DEF GroupStarts, Grows
<1> HIDE DEF g, q
<1>5. Grows(g, q)
  <2>1. \A i \in 1 .. n :
          g[i] = IF i > 1 /\ Tied(q[g[i - 1]], q[i]) THEN g[i - 1] ELSE i
    BY <1>3, <1>1
  <2>2. g = [i \in 1 .. n |-> g[i]]
    BY DEF g
  <2>3. QED BY <1>2, <2>1, <2>2 DEF Grows
<1>6. Grows(f, q)
  BY <1>5
<1> HIDE DEF f
<1>7. \A i \in 1 .. n : f[i] = IF i > 1 /\ Tied(q[f[i - 1]], q[i]) THEN f[i - 1] ELSE i
  BY <1>2, <1>6 DEF Grows
<1>8. \A i \in 1 .. n : f[i] = g[i]
  <2> DEFINE Bad == {i \in 1 .. n : f[i] # g[i]}
  <2>1. SUFFICES ASSUME Bad # {} PROVE FALSE
    OBVIOUS
  <2>2. PICK i \in Bad : \A j \in Bad : i <= j
    <3>1. Bad \in SUBSET Nat
      BY <1>1
    <3> HIDE DEF Bad
    <3>2. QED BY <2>1, <3>1, MinIsLeast
  <2>3. i \in 1 .. n /\ f[i] # g[i]
    BY <2>2
  <2>4. CASE i = 1
    BY <2>3, <2>4, <1>3, <1>7
  <2>5. CASE i > 1
    <3>1. i - 1 \in 1 .. n /\ i - 1 \notin Bad
      BY <2>2, <2>3, <2>5, <1>1
    <3>2. f[i - 1] = g[i - 1]
      BY <3>1
    <3>3. QED BY <3>2, <2>3, <2>5, <1>3, <1>7
  <2>6. QED BY <2>3, <2>4, <2>5, <1>1
<1>9. QED BY <1>2, <1>4, <1>8 DEF g, q

\* The places of the group that the last seat falls in the middle of: more seats than
\* there are ahead of it, but not enough for all of it.
LEMMA StraddlingIs ==
  ASSUME NEW X, Field(X), NEW seats \in Nat, NEW i \in 1 .. Cardinality(X)
  PROVE  i \in Straddling(GroupStarts(Ordered(X)), seats)
           <=> /\ Cardinality(Ahead(X, Ordered(X)[i])) < seats
               /\ seats < Cardinality(NotBehind(X, Ordered(X)[i]))
<1> DEFINE n == Cardinality(X)
           q == Ordered(X)
           start == GroupStarts(q)
           a == Cardinality(Ahead(X, q[i]))
           e == Cardinality(NotBehind(X, q[i]))
           group == {j \in 1 .. n : start[j] = start[i]}
<1>1. n \in Nat /\ \A j \in 1 .. n : q[j] \in X
  BY OrderedIsListed DEF Enumerates
<1>2. /\ DOMAIN start = 1 .. n
      /\ \A j \in 1 .. n : start[j] = Cardinality(Ahead(X, q[j])) + 1
  BY GroupStartsAre DEF FirstPlace
<1>3. a \in 0 .. n /\ e \in 0 .. n
  BY <1>1, PlacesInField
<1>4. \A j \in 1 .. n : /\ Better(q[j], q[i]) <=> j <= a
                        /\ ~Better(q[i], q[j]) <=> j <= e
  BY <1>1, PlacesInField
<1>5. ASSUME NEW j \in 1 .. n
      PROVE  start[j] = start[i] <=> ~Better(q[j], q[i]) /\ ~Better(q[i], q[j])
  <2>1. CASE Better(q[j], q[i])
    <3>1. Cardinality(Ahead(X, q[j])) < j /\ j <= a
      <4>1. Cardinality(AheadOf(Lead(X), X, q[j])) < j
        BY OwnPlace, FieldIsOrdered, OrderedIsListed DEF Field
      <4>2. QED BY <4>1, <2>1, <1>1, <1>4, CountsOfField
    <3>2. Cardinality(Ahead(X, q[j])) \in 0 .. n
      BY <1>1, PlacesInField
    <3>3. QED BY <2>1, <3>1, <3>2, <1>2, <1>3
  <2>2. CASE Better(q[i], q[j])
    <3>1. i <= Cardinality(Ahead(X, q[j]))
      BY <2>2, <1>1, PlacesInField
    <3>2. a < i
      <4>1. Cardinality(AheadOf(Lead(X), X, q[i])) < i
        BY OwnPlace, FieldIsOrdered, OrderedIsListed DEF Field
      <4>2. QED BY <4>1, <1>1, CountsOfField
    <3>3. Cardinality(Ahead(X, q[j])) \in 0 .. n
      BY <1>1, PlacesInField
    <3>4. QED BY <2>2, <3>1, <3>2, <3>3, <1>2, <1>3
  <2>3. CASE ~Better(q[j], q[i]) /\ ~Better(q[i], q[j])
    <3>1. AheadOf(Lead(X), X, q[i]) = AheadOf(Lead(X), X, q[j])
      <4>1. <<q[i], q[j]>> \notin Lead(X) /\ <<q[j], q[i]>> \notin Lead(X)
        BY <2>3 DEF Lead
      <4>2. Ranks(Lead(X), Listed(X), X)
        BY FieldIsOrdered
      <4>3. QED BY <4>1, <4>2, <1>1, EqualsShareBounds
    <3>2. Ahead(X, q[i]) = Ahead(X, q[j])
      BY <3>1, <1>1, CountsOfField
    <3>3. QED BY <2>3, <3>2, <1>2
  <2>4. QED BY <2>1, <2>2, <2>3
<1> HIDE DEF q, start, a, e
<1>6. group = a + 1 .. e
  BY <1>1, <1>3, <1>4, <1>5
<1>7. Cardinality(group) = IF a + 1 > e THEN 0 ELSE e - (a + 1) + 1
  <2>1. a + 1 \in Int /\ e \in Int
    BY <1>3
  <2> HIDE DEF group
  <2>2. QED BY <2>1, <1>6, FS_Interval
<1>8. i \in Straddling(start, seats) <=>
        Cardinality(group) > 1 /\ start[i] <= seats /\ start[i] - 1 + Cardinality(group) > seats
  BY <1>2 DEF Straddling
<1>9. start[i] = a + 1
  BY <1>2 DEF a
<1> HIDE DEF group
<1>10. i \in Straddling(start, seats) <=> a < seats /\ seats < e
  BY <1>3, <1>7, <1>8, <1>9
<1>11. QED BY <1>10 DEF q, start, a, e

\* Raising a part of a candidate's power from one grade to a higher one never
\* makes the gauge worse, and so never moves another candidate before it: the

\* The smaller of two numbers.
LEMMA MinOfTwo ==
  ASSUME NEW x \in Nat, NEW y \in Nat
  PROVE  Min({x, y}) = IF x <= y THEN x ELSE y
<1>1. {x, y} \in SUBSET Nat /\ {x, y} # {}
  OBVIOUS
<1>2. Min({x, y}) \in {x, y} /\ \A n \in {x, y} : Min({x, y}) <= n
  BY <1>1, MinIsLeast
<1>3. QED BY <1>2

\* A list of what an order has at some places.
Shows(list, order, places) ==
  \A id : id \in ToSet(list) <=> \E i \in places : id = order[i]

\* A slice keeps those that are not in the group, each once.
LEMMA SettledPartIs ==
  ASSUME NEW order, NEW from \in Int, NEW to \in Int, NEW unresolved,
         NEW places, places = {i \in from .. to : order[i] \notin unresolved},
         NEW slice, slice = SettledPart(order, from, to, unresolved)
  PROVE  /\ Cardinality(places) \in Nat
         /\ Len(slice) = Cardinality(places)
         /\ Shows(slice, order, places)
<1> DEFINE ahead == [x \in places |-> Cardinality({y \in places : y < x})]
           sorted == [i \in 1 .. Cardinality(places) |-> CHOOSE x \in places : ahead[x] = i - 1]
           R == {p \in places \X places : p[1] < p[2]}
<1>1. slice = [n \in DOMAIN sorted |-> order[sorted[n]]]
  BY DEF SettledPart, Sorted
<1>2. IsFiniteSet(places)
  <2>1. IsFiniteSet(from .. to) /\ places \in SUBSET (from .. to)
    BY FS_Interval
  <2>2. QED BY <2>1, FS_Subset
<1>3. places \subseteq Int
  OBVIOUS
<1>4. LinearOrder(R, places)
  BY <1>3 DEF LinearOrder
<1>5. \A x \in places : ahead[x] = Cardinality(AheadOf(R, places, x))
  <2>1. ASSUME NEW x \in places PROVE {y \in places : y < x} = AheadOf(R, places, x)
    BY DEF AheadOf
  <2>2. QED BY <2>1
<1>6. Enumerates(sorted, places, R)
  <2> HIDE DEF ahead, R
  <2>1. QED BY <1>2, <1>4, <1>5, SortedEnumerates
<1> DEFINE n == Cardinality(places)
<1>7. n \in Nat
  BY <1>6 DEF Enumerates
<1>8. /\ \A i \in 1 .. n : sorted[i] \in places
      /\ \A x \in places : \E i \in 1 .. n : sorted[i] = x
  BY <1>6 DEF Enumerates
<1>9. DOMAIN sorted = 1 .. n
  OBVIOUS
<1> HIDE DEF sorted, n
<1>10. slice = [i \in 1 .. n |-> order[sorted[i]]]
  BY <1>1, <1>9
<1>11. Len(slice) = n
  BY <1>7, <1>10
<1>12. ToSet(slice) = {slice[i] : i \in 1 .. n}
  BY <1>10 DEF ToSet
<1>13. \A id : id \in ToSet(slice) <=> \E i \in places : id = order[i]
  BY <1>8, <1>10, <1>12
<1>14. QED BY <1>7, <1>11, <1>13 DEF n, Shows

-----------------------------------------------------------------------------
(* The gauges of an electorate *)

GaugeOf(b, c) == CandidateGauge(c, Histogram(b, c))
GaugesOf(b) == {GaugeOf(b, c) : c \in Candidates}
FieldOf(b, minimum) == Electable(GaugesOf(b), minimum)

\* Power adds up to a natural number.
LEMMA PowerIsNat == ASSUME NEW S \in SUBSET Voters PROVE PowerOf(S) \in Nat
<1>1. IsFiniteSet(S) /\ \A v \in S : Power[v] \in Nat
  BY JudgmentAssumption, FS_Subset
<1>2. SumOf(Power, S) \in Nat
  BY <1>1, SumIsNat
<1>3. QED BY <1>2 DEF PowerOf, SumOf

\* What is counted is a histogram (histogramForCandidate).
LEMMA HistogramIs == \A b, c : Histogram(b, c) \in Histograms
<1>1. SUFFICES ASSUME NEW b, NEW c PROVE Histogram(b, c) \in Histograms
  OBVIOUS
<1> DEFINE weight(g) == PowerOf({v \in Valid(b) : b[v][c] = g})
<1>2. \A g : {v \in Valid(b) : b[v][c] = g} \in SUBSET Voters
  BY DEF Valid
<1>3. \A g : weight(g) \in Nat
  BY <1>2, PowerIsNat
<1> HIDE DEF weight
<1>4. <<weight(0), weight(1), weight(2), weight(3), weight(4)>> \in [1..5 -> Nat]
  BY <1>3
<1>5. QED BY <1>4 DEF Histogram, Histograms, weight

\* A gauge names its candidate and is graded or has no grade (candidateGauge).
LEMMA GaugeIs ==
  ASSUME NEW b, NEW c \in Candidates
  PROVE  /\ GaugeOf(b, c).id = c
         /\ GaugeOf(b, c).grade # None => GaugeOf(b, c) \in Graded
<1> DEFINE h == Histogram(b, c)
           from == Cumulated(h)
           q == QualifyingGrade(from)
<1>1. h \in Histograms
  BY HistogramIs
<1> HIDE DEF h
<1>2. /\ from[1] \in Nat
      /\ \A g \in Grade : from[g + 1] \in Nat /\ from[g + 2] \in Nat /\ from[g + 1] <= from[1]
  BY <1>1 DEF Histograms, Cumulated, Grade
<1>3. GaugeOf(b, c) = IF q = None
        THEN [id |-> c, grade |-> None, above |-> 0, below |-> 0, band |-> None]
        ELSE [id |-> c, grade |-> q, above |-> from[q + 2], below |-> from[1] - from[q + 1],
              band |-> Band(from[q + 2], from[1] - from[q + 1])]
  BY DEF GaugeOf, CandidateGauge, h
<1>4. q # None => q \in Grade
  <2>1. CASE from[1] = 0
    BY <2>1 DEF QualifyingGrade
  <2>2. CASE from[1] # 0
    BY <2>2, <1>1, QualifyingGradeIsGreatest
  <2>3. QED BY <2>1, <2>2
<1> HIDE DEF from, q
<1>5. CASE q = None
  BY <1>3, <1>5
<1>6. CASE q # None
  <2>1. from[q + 2] \in Nat /\ from[1] - from[q + 1] \in Nat
    BY <1>2, <1>4, <1>6
  <2>2. Band(from[q + 2], from[1] - from[q + 1]) \in {"A", "B", "C"}
    BY DEF Band
  <2>3. QED BY <1>3, <1>4, <1>6, <2>1, <2>2 DEF Graded
<1>7. QED BY <1>5, <1>6

\* The electable are a field.
LEMMA ElectableAreField ==
  ASSUME NEW b, NEW m
  PROVE  /\ Field(FieldOf(b, m))
         /\ IsFiniteSet(GaugesOf(b))
         /\ \A l, r \in GaugesOf(b) : l.id = r.id => l = r
<1>1. IsFiniteSet(GaugesOf(b))
  <2> DEFINE f == [c \in Candidates |-> GaugeOf(b, c)]
  <2>1. f \in Surjection(Candidates, GaugesOf(b))
    BY DEF Surjection, GaugesOf
  <2> HIDE DEF f
  <2>2. QED BY <2>1, FS_Surjection, JudgmentAssumption
<1>2. \A l, r \in GaugesOf(b) : l.id = r.id => l = r
  BY GaugeIs DEF GaugesOf
<1>3. FieldOf(b, m) \in SUBSET GaugesOf(b)
  BY DEF FieldOf, Electable
<1>4. FieldOf(b, m) \subseteq Graded
  BY GaugeIs DEF FieldOf, Electable, GaugesOf
<1>5. QED BY <1>1, <1>2, <1>3, <1>4, FS_Subset DEF Field

-----------------------------------------------------------------------------
(* Seats by counts *)

\* Who is within the seats with all equals, who shares the last seat with equals that are
\* beyond it, and who is beyond the seats.
Within(X, k) == {x \in X : Cardinality(NotBehind(X, x)) <= k}
Astride(X, k) ==
  {x \in X : Cardinality(Ahead(X, x)) < k /\ k < Cardinality(NotBehind(X, x))}
Beyond(X, k) == {x \in X : k <= Cardinality(Ahead(X, x))}

IdsOf(S) == {x.id : x \in S}

\* The three part the field, and the places of the order show it.
LEMMA SeatsPart ==
  ASSUME NEW X, Field(X), NEW k \in Nat, NEW x \in X, NEW i \in 1 .. Cardinality(X),
         Ordered(X)[i] = x
  PROVE  /\ x \in Within(X, k) <=> i <= k /\ x \notin Astride(X, k)
         /\ x \in Beyond(X, k) <=> i > k /\ x \notin Astride(X, k)
         /\ Cardinality(Ahead(X, x)) < i /\ i <= Cardinality(NotBehind(X, x))
<1>1. /\ Cardinality(AheadOf(Lead(X), X, Ordered(X)[i])) < i
      /\ i <= Cardinality(NotAfter(Lead(X), X, Ordered(X)[i]))
  BY OwnPlace, FieldIsOrdered, OrderedIsListed DEF Field
<1>2. Cardinality(Ahead(X, x)) < i /\ i <= Cardinality(NotBehind(X, x))
  BY <1>1, CountsOfField
<1>3. /\ Cardinality(Ahead(X, x)) \in 0 .. Cardinality(X)
      /\ Cardinality(NotBehind(X, x)) \in 0 .. Cardinality(X)
  BY PlacesInField
<1>4. QED BY <1>2, <1>3 DEF Within, Astride, Beyond

\* One of the group astride the last seat speaks for all of it.
LEMMA AstrideIsOneGroup ==
  ASSUME NEW X, Field(X), NEW k \in Nat, NEW x \in Astride(X, k)
  PROVE  \A i \in 1 .. Cardinality(X) :
           Ordered(X)[i] \in Astride(X, k)
             <=> Cardinality(Ahead(X, x)) < i /\ i <= Cardinality(NotBehind(X, x))
<1>1. SUFFICES ASSUME NEW i \in 1 .. Cardinality(X)
               PROVE  Ordered(X)[i] \in Astride(X, k)
                        <=> /\ Cardinality(Ahead(X, x)) < i
                            /\ i <= Cardinality(NotBehind(X, x))
  OBVIOUS
<1> DEFINE y == Ordered(X)[i]
<1>2. x \in X /\ y \in X
  BY PlacesInField DEF Astride
<1>3. PICK j \in 1 .. Cardinality(X) : Ordered(X)[j] = x
  BY <1>2, PlacesInField
<1>4. /\ Better(y, x) <=> i <= Cardinality(Ahead(X, x))
      /\ ~Better(x, y) <=> i <= Cardinality(NotBehind(X, x))
      /\ Better(x, y) <=> j <= Cardinality(Ahead(X, y))
      /\ ~Better(y, x) <=> j <= Cardinality(NotBehind(X, y))
  BY <1>2, <1>3, PlacesInField
<1>5. /\ Cardinality(Ahead(X, x)) \in 0 .. Cardinality(X)
      /\ Cardinality(NotBehind(X, x)) \in 0 .. Cardinality(X)
      /\ Cardinality(Ahead(X, y)) \in 0 .. Cardinality(X)
      /\ Cardinality(NotBehind(X, y)) \in 0 .. Cardinality(X)
  BY <1>2, PlacesInField
<1>6. CASE Better(y, x)
  <2>1. NotBehind(X, y) \subseteq Ahead(X, x)
    BY <1>2, <1>6, BetterSplits DEF NotBehind, Ahead
  <2>2. Cardinality(NotBehind(X, y)) <= Cardinality(Ahead(X, x))
    <3>1. IsFiniteSet(Ahead(X, x))
      <4>1. Ahead(X, x) \in SUBSET X
        BY DEF Ahead
      <4>2. QED BY <4>1, FS_Subset DEF Field
    <3>2. QED BY <2>1, <3>1, FS_Subset
  <2>3. QED BY <2>2, <1>4, <1>5, <1>6 DEF Astride
<1>7. CASE Better(x, y)
  <2>1. NotBehind(X, x) \subseteq Ahead(X, y)
    BY <1>2, <1>7, BetterSplits DEF NotBehind, Ahead
  <2>2. Cardinality(NotBehind(X, x)) <= Cardinality(Ahead(X, y))
    <3>1. IsFiniteSet(Ahead(X, y))
      <4>1. Ahead(X, y) \in SUBSET X
        BY DEF Ahead
      <4>2. QED BY <4>1, FS_Subset DEF Field
    <3>2. QED BY <2>1, <3>1, FS_Subset
  <2>3. QED BY <2>2, <1>4, <1>5, <1>7 DEF Astride
<1>8. CASE ~Better(x, y) /\ ~Better(y, x)
  <2>1. <<x, y>> \notin Lead(X) /\ <<y, x>> \notin Lead(X)
    BY <1>8 DEF Lead
  <2>2. Ahead(X, x) = Ahead(X, y) /\ NotBehind(X, x) = NotBehind(X, y)
    <3>1. Ranks(Lead(X), Listed(X), X)
      BY FieldIsOrdered
    <3>2. QED BY <2>1, <3>1, <1>2, EqualsShareBounds, CountsOfField
  <2>3. QED BY <2>2, <1>2, <1>4, <1>5, <1>8 DEF Astride
<1>9. QED BY <1>6, <1>7, <1>8

-----------------------------------------------------------------------------
(* The result of a round *)

Quorate(b, p) == PowerOf(Valid(b)) >= p.quorum

\* What a result says of who is seated, tied, in reserve and ranked, by counts alone.
Reads(r, X, k, quorate) ==
  /\ r.unresolved = IF quorate THEN IdsOf(Astride(X, k)) ELSE {}
  /\ ToSet(r.seated) = IF quorate THEN IdsOf(Within(X, k)) ELSE {}
  /\ ToSet(r.reserve) = IF quorate THEN IdsOf(Beyond(X, k)) ELSE {}
  /\ \A c \in Candidates :
       /\ r.outcome[c] = IF c \in r.unresolved THEN "UNRESOLVED"
                         ELSE IF c \in ToSet(r.seated) THEN "SEATED"
                         ELSE IF c \in ToSet(r.reserve) THEN "RESERVE" ELSE "NOT_ELECTABLE"
       /\ c \notin IdsOf(X) => r.rank[c] = None
  /\ \A x \in X : r.rank[x.id] = Cardinality(Ahead(X, x)) + 1
  /\ quorate => /\ Len(r.seated) \in Nat
                /\ Astride(X, k) = {} =>
                     Len(r.seated) = IF k <= Cardinality(X) THEN k ELSE Cardinality(X)
                /\ \A x \in Astride(X, k) : Len(r.seated) = Cardinality(Ahead(X, x))
  /\ r.referred = IF r.unresolved # {} THEN 0 ELSE k - Len(r.seated)
  /\ r.reserveRuns = (quorate /\ r.unresolved = {})

\* The ids in the order of the gauges.
IdOrder(X) == [i \in 1 .. Cardinality(X) |-> Ordered(X)[i].id]

\* Ids tell the gauges of a field apart.
LEMMA IdsTellApart ==
  ASSUME NEW X, Field(X), NEW S \in SUBSET X, NEW x \in X
  PROVE  x.id \in IdsOf(S) <=> x \in S
BY DEF Field, IdsOf

\* The slices of the order, without the group astride the last seat.
LEMMA SlicesAre ==
  ASSUME NEW X, Field(X), NEW k \in Nat
  PROVE  LET n == Cardinality(X)
             tied == IdsOf(Astride(X, k))
             seated == SettledPart(IdOrder(X), 1, Min({k, n}), tied)
             reserve == SettledPart(IdOrder(X), k + 1, n, tied)
         IN  /\ ToSet(seated) = IdsOf(Within(X, k))
             /\ ToSet(reserve) = IdsOf(Beyond(X, k))
             /\ Len(seated) \in Nat
             /\ Astride(X, k) = {} => Len(seated) = IF k <= n THEN k ELSE n
             /\ \A x \in Astride(X, k) : Len(seated) = Cardinality(Ahead(X, x))
<1> DEFINE n == Cardinality(X)
           q == Ordered(X)
           ids == IdOrder(X)
           tied == IdsOf(Astride(X, k))
           least == Min({k, n})
           front == {i \in 1 .. least : ids[i] \notin tied}
           back == {i \in k + 1 .. n : ids[i] \notin tied}
           seated == SettledPart(ids, 1, least, tied)
           reserve == SettledPart(ids, k + 1, n, tied)
<1>1. n \in Nat /\ \A i \in 1 .. n : q[i] \in X
  BY OrderedIsListed DEF Enumerates
<1>2. least \in Nat /\ least = IF k <= n THEN k ELSE n
  BY <1>1, MinOfTwo
<1>3. \A i \in 1 .. n : ids[i] = q[i].id
  BY DEF IdOrder
<1>4. \A x \in X : \E i \in 1 .. n : q[i] = x
  BY PlacesInField
<1>5. Astride(X, k) \subseteq X /\ Within(X, k) \subseteq X /\ Beyond(X, k) \subseteq X
  BY DEF Astride, Within, Beyond
<1>6. \A i \in 1 .. n : ids[i] \in tied <=> q[i] \in Astride(X, k)
  BY <1>1, <1>3, <1>5, IdsTellApart
<1>7. /\ Len(seated) = Cardinality(front)
      /\ Cardinality(front) \in Nat
      /\ Shows(seated, ids, front)
  <2>1. least \in Int /\ 1 \in Int
    BY <1>2
  <2>2. /\ front = {i \in 1 .. least : ids[i] \notin tied}
        /\ seated = SettledPart(ids, 1, least, tied)
    OBVIOUS
  <2> HIDE DEF ids, tied, least, front, seated
  <2>3. QED BY <2>1, <2>2, SettledPartIs
<1>8. Shows(reserve, ids, back)
  <2>1. n \in Int /\ k + 1 \in Int
    BY <1>1
  <2>2. /\ back = {i \in k + 1 .. n : ids[i] \notin tied}
        /\ reserve = SettledPart(ids, k + 1, n, tied)
    OBVIOUS
  <2> HIDE DEF ids, tied, back, reserve
  <2>3. QED BY <2>1, <2>2, SettledPartIs
<1>9. \A i \in 1 .. n : /\ q[i] \in Within(X, k) <=> i <= k /\ q[i] \notin Astride(X, k)
                        /\ q[i] \in Beyond(X, k) <=> i > k /\ q[i] \notin Astride(X, k)
  BY <1>1, SeatsPart
<1> HIDE DEF ids, tied, q, least, seated, reserve
<1>10. \A i \in 1 .. n : (i \in front) <=> q[i] \in Within(X, k)
  BY <1>1, <1>2, <1>6, <1>9
<1>11. \A i \in 1 .. n : (i \in back) <=> q[i] \in Beyond(X, k)
  BY <1>1, <1>6, <1>9
<1>12. front \subseteq 1 .. n /\ back \subseteq 1 .. n
  BY <1>1, <1>2
<1>13. ToSet(seated) = IdsOf(Within(X, k))
  <2> HIDE DEF front
  <2>1. ASSUME NEW i \in front PROVE \E x \in Within(X, k) : ids[i] = x.id
    BY <1>3, <1>10, <1>12
  <2>2. ASSUME NEW x \in Within(X, k) PROVE \E i \in front : ids[i] = x.id
    <3>1. PICK i \in 1 .. n : q[i] = x
      BY <1>4, <1>5
    <3>2. i \in front /\ ids[i] = x.id
      BY <3>1, <1>3, <1>10
    <3>3. QED BY <3>2
  <2>3. QED BY <2>1, <2>2, <1>7 DEF IdsOf, Shows
<1>14. ToSet(reserve) = IdsOf(Beyond(X, k))
  <2> HIDE DEF back
  <2>1. ASSUME NEW i \in back PROVE \E x \in Beyond(X, k) : ids[i] = x.id
    BY <1>3, <1>11, <1>12
  <2>2. ASSUME NEW x \in Beyond(X, k) PROVE \E i \in back : ids[i] = x.id
    <3>1. PICK i \in 1 .. n : q[i] = x
      BY <1>4, <1>5
    <3>2. i \in back /\ ids[i] = x.id
      BY <3>1, <1>3, <1>11
    <3>3. QED BY <3>2
  <2>3. QED BY <2>1, <2>2, <1>8 DEF IdsOf, Shows
<1>15. Astride(X, k) = {} => Len(seated) = IF k <= n THEN k ELSE n
  <2>1. SUFFICES ASSUME Astride(X, k) = {} PROVE Len(seated) = least
    BY <1>2
  <2>2. front = 1 .. least
    BY <2>1, <1>1, <1>2, <1>6
  <2>3. Cardinality(1 .. least) = least
    BY <1>2, FS_Interval
  <2>4. QED BY <2>2, <2>3, <1>7
<1>16. ASSUME NEW x \in Astride(X, k) PROVE Len(seated) = Cardinality(Ahead(X, x))
  <2> DEFINE a == Cardinality(Ahead(X, x))
             e == Cardinality(NotBehind(X, x))
  <2>1. x \in X /\ a < k /\ k < e
    BY DEF Astride
  <2>2. a \in 0 .. n /\ e \in 0 .. n
    BY <2>1, PlacesInField
  <2>3. \A i \in 1 .. n : q[i] \in Astride(X, k) <=> a < i /\ i <= e
    BY AstrideIsOneGroup DEF q
  <2> HIDE DEF a, e
  <2>4. front = 1 .. a
    BY <2>1, <2>2, <2>3, <1>1, <1>2, <1>6
  <2>5. Cardinality(1 .. a) = a
    BY <2>2, FS_Interval
  <2>6. QED BY <2>4, <2>5, <1>7 DEF a
<1>17. Len(seated) \in Nat
  BY <1>7
<1> HIDE DEF front, back
<1>18. QED BY <1>13, <1>14, <1>15, <1>16, <1>17 DEF ids, tied, least, seated, reserve

\* The places of the group astride the last seat, as the code finds them.
LEMMA CutIs ==
  ASSUME NEW X, Field(X), NEW k \in Nat
  PROVE  (IF k > 0 THEN {Ordered(X)[i].id : i \in Straddling(GroupStarts(Ordered(X)), k)}
          ELSE {}) = IdsOf(Astride(X, k))
<1> DEFINE n == Cardinality(X)
           q == Ordered(X)
           cut == Straddling(GroupStarts(q), k)
<1>1. n \in Nat /\ \A i \in 1 .. n : q[i] \in X
  BY OrderedIsListed DEF Enumerates
<1>2. \A x \in X : /\ \E i \in 1 .. n : q[i] = x
                   /\ Cardinality(Ahead(X, x)) \in Nat
  BY PlacesInField
<1>3. cut \subseteq 1 .. n
  BY GroupStartsAre DEF Straddling
<1>4. \A i \in 1 .. n : i \in cut <=> q[i] \in Astride(X, k)
  BY <1>1, StraddlingIs DEF Astride
<1> HIDE DEF q, cut
<1>5. CASE k > 0
  <2>1. ASSUME NEW i \in cut PROVE \E x \in Astride(X, k) : q[i].id = x.id
    BY <1>3, <1>4
  <2>2. ASSUME NEW x \in Astride(X, k) PROVE \E i \in cut : q[i].id = x.id
    <3>1. PICK i \in 1 .. n : q[i] = x
      BY <1>2 DEF Astride
    <3>2. QED BY <3>1, <1>4
  <2>3. {q[i].id : i \in cut} = IdsOf(Astride(X, k))
    BY <2>1, <2>2 DEF IdsOf
  <2>4. QED BY <2>3, <1>5 DEF q, cut
<1>6. CASE ~ k > 0
  <2>1. Astride(X, k) = {}
    BY <1>2, <1>6 DEF Astride
  <2>2. QED BY <2>1, <1>6 DEF IdsOf
<1>7. QED BY <1>5, <1>6

\* The rank of a candidate is the place where the group begins.
LEMMA RankIs ==
  ASSUME NEW X, Field(X), NEW rank, NEW ids, NEW start,
         ids = IdOrder(X), start = GroupStarts(Ordered(X)),
         rank = [c \in Candidates |->
                   IF c \in ToSet(ids) THEN start[CHOOSE i \in DOMAIN ids : ids[i] = c]
                   ELSE None]
  PROVE  /\ \A c \in Candidates : c \notin IdsOf(X) => rank[c] = None
         /\ \A x \in X : rank[x.id] = Cardinality(Ahead(X, x)) + 1
<1> DEFINE n == Cardinality(X)
           q == Ordered(X)
<1>1. n \in Nat /\ \A i \in 1 .. n : q[i] \in X
  BY OrderedIsListed DEF Enumerates
<1>2. \A x \in X : \E i \in 1 .. n : q[i] = x
  BY PlacesInField
<1>3. DOMAIN ids = 1 .. n /\ \A i \in 1 .. n : ids[i] = q[i].id
  BY DEF IdOrder
<1>4. \A i \in 1 .. n : start[i] = Cardinality(Ahead(X, q[i])) + 1
  BY GroupStartsAre DEF FirstPlace
<1> HIDE DEF q
<1>5. ASSUME NEW c \in Candidates, c \notin IdsOf(X) PROVE rank[c] = None
  <2>1. c \notin ToSet(ids)
    BY <1>1, <1>3, <1>5 DEF ToSet, IdsOf
  <2>2. QED BY <2>1
<1>6. ASSUME NEW x \in X PROVE rank[x.id] = Cardinality(Ahead(X, x)) + 1
  <2> DEFINE c == x.id
             place == CHOOSE i \in DOMAIN ids : ids[i] = c
  <2>1. c \in Candidates
    BY DEF Field, Graded
  <2>2. PICK i \in 1 .. n : q[i] = x
    BY <1>2
  <2>3. i \in DOMAIN ids /\ ids[i] = c
    BY <2>2, <1>3
  <2>4. place \in DOMAIN ids /\ ids[place] = c
    BY <2>3
  <2> HIDE DEF place
  <2>5. q[place] = x
    BY <2>4, <1>1, <1>3 DEF Field
  <2>6. c \in ToSet(ids)
    BY <2>3 DEF ToSet
  <2>7. rank[c] = start[place]
    BY <2>1, <2>6 DEF place
  <2>8. QED BY <2>4, <2>5, <2>7, <1>3, <1>4
<1>7. QED BY <1>5, <1>6

\* The calculator says who is seated, tied, in reserve and ranked by counts alone: by how
\* many are better and how many are not worse (calculateMajorityJudgment).
LEMMA ResultByCounts ==
  ASSUME NEW b, NEW p, p.seats \in Nat
  PROVE  /\ Calculate(b, p).gauges = GaugesOf(b)
         /\ Reads(Calculate(b, p), FieldOf(b, p.minimum), p.seats, Quorate(b, p))
<1> DEFINE X == FieldOf(b, p.minimum)
           k == p.seats
           n == Cardinality(X)
           order == Ordered(X)
           start == GroupStarts(order)
           ids == [i \in DOMAIN order |-> order[i].id]
           quorumMet == Quorate(b, p)
           unresolved == IF quorumMet /\ k > 0
                         THEN {order[i].id : i \in Straddling(start, k)} ELSE {}
           seated == IF quorumMet THEN SettledPart(ids, 1, Min({k, Len(ids)}), unresolved)
                     ELSE <<>>
           reserve == IF quorumMet THEN SettledPart(ids, k + 1, Len(ids), unresolved)
                      ELSE <<>>
           rank == [c \in Candidates |->
                      IF c \in ToSet(ids) THEN start[CHOOSE i \in DOMAIN ids : ids[i] = c]
                      ELSE None]
           outcome == [c \in Candidates |-> Outcome(c, unresolved, seated, reserve)]
           r == Calculate(b, p)
<1>1. /\ r.gauges = GaugesOf(b)
      /\ r.rank = rank /\ r.outcome = outcome
      /\ r.seated = seated /\ r.reserve = reserve /\ r.unresolved = unresolved
      /\ r.referred = IF unresolved # {} THEN 0 ELSE k - Len(seated)
      /\ r.reserveRuns = (quorumMet /\ unresolved = {})
  BY DEF Calculate, GaugesOf, GaugeOf, FieldOf, Quorate
<1>2. Field(X)
  BY ElectableAreField
<1>3. DOMAIN order = 1 .. n /\ n \in Nat
  BY <1>2, OrderedIsListed DEF Enumerates
<1>4. ids = IdOrder(X)
  BY <1>3 DEF IdOrder
<1>5. Len(ids) = n
  <2>1. ids = [i \in 1 .. n |-> order[i].id]
    BY <1>3
  <2> HIDE DEF ids, order, n
  <2>2. QED BY <2>1, <1>3
<1>6. unresolved = IF quorumMet THEN IdsOf(Astride(X, k)) ELSE {}
  <2> HIDE DEF quorumMet
  <2>1. (IF k > 0 THEN {order[i].id : i \in Straddling(start, k)} ELSE {})
          = IdsOf(Astride(X, k))
    <3> HIDE DEF X, k
    <3>1. QED BY <1>2, CutIs DEF k
  <2> HIDE DEF order, start
  <2>2. QED BY <2>1
<1>7. /\ \A c \in Candidates : c \notin IdsOf(X) => rank[c] = None
      /\ \A x \in X : rank[x.id] = Cardinality(Ahead(X, x)) + 1
  <2>1. rank = [c \in Candidates |->
                   IF c \in ToSet(ids) THEN start[CHOOSE i \in DOMAIN ids : ids[i] = c]
                   ELSE None]
    OBVIOUS
  <2>2. start = GroupStarts(Ordered(X))
    OBVIOUS
  <2> HIDE DEF rank, ids, start, X
  <2>3. QED BY <2>1, <2>2, <1>2, <1>4, RankIs
<1> HIDE DEF X, ids, order, start, quorumMet, unresolved, rank, n, r
<1>8. \A c \in Candidates :
        outcome[c] = IF c \in unresolved THEN "UNRESOLVED"
                     ELSE IF c \in ToSet(seated) THEN "SEATED"
                     ELSE IF c \in ToSet(reserve) THEN "RESERVE" ELSE "NOT_ELECTABLE"
  BY DEF Outcome
<1> HIDE DEF outcome
<1>9. CASE quorumMet
  <2> DEFINE tied == IdsOf(Astride(X, k))
             s == SettledPart(IdOrder(X), 1, Min({k, n}), tied)
             t == SettledPart(IdOrder(X), k + 1, n, tied)
  <2>1. /\ ToSet(s) = IdsOf(Within(X, k))
        /\ ToSet(t) = IdsOf(Beyond(X, k))
        /\ Len(s) \in Nat
        /\ Astride(X, k) = {} => Len(s) = IF k <= n THEN k ELSE n
        /\ \A x \in Astride(X, k) : Len(s) = Cardinality(Ahead(X, x))
    BY <1>2, SlicesAre DEF n
  <2>2. seated = s /\ reserve = t
    BY <1>4, <1>5, <1>6, <1>9
  <2> HIDE DEF seated, reserve, s, t
  <2>3. Reads(r, X, k, quorumMet)
    BY <2>1, <2>2, <1>1, <1>6, <1>7, <1>8, <1>9 DEF Reads, n
  <2>4. QED BY <2>3, <1>1 DEF r, X, quorumMet
<1>10. CASE ~ quorumMet
  <2>1. seated = <<>> /\ reserve = <<>>
    BY <1>10
  <2>2. ToSet(seated) = {} /\ ToSet(reserve) = {}
    BY <2>1 DEF ToSet
  <2> HIDE DEF seated, reserve
  <2>3. Reads(r, X, k, quorumMet)
    BY <2>2, <1>1, <1>6, <1>7, <1>8, <1>10 DEF Reads
  <2>4. QED BY <2>3, <1>1 DEF r, X, quorumMet
<1>11. QED BY <1>9, <1>10

-----------------------------------------------------------------------------
(* The seats go to the best *)

\* Fewer are ahead of, and not behind, whoever is not worse.
LEMMA CountsFollow ==
  ASSUME NEW X, Field(X), NEW l \in X, NEW r \in X
  PROVE  /\ ~Better(l, r) =>
              /\ Cardinality(NotBehind(X, r)) <= Cardinality(NotBehind(X, l))
              /\ Cardinality(Ahead(X, r)) <= Cardinality(Ahead(X, l))
         /\ Better(l, r) => Cardinality(NotBehind(X, l)) <= Cardinality(Ahead(X, r))
         /\ Cardinality(Ahead(X, l)) < Cardinality(NotBehind(X, l))
         /\ Cardinality(Ahead(X, l)) \in Nat /\ Cardinality(NotBehind(X, l)) \in Nat
<1>1. IsFiniteSet(X)
  BY DEF Field
<1>2. \A x \in X : IsFiniteSet(Ahead(X, x)) /\ IsFiniteSet(NotBehind(X, x))
  <2>1. ASSUME NEW x \in X PROVE Ahead(X, x) \in SUBSET X /\ NotBehind(X, x) \in SUBSET X
    BY DEF Ahead, NotBehind
  <2>2. QED BY <2>1, <1>1, FS_Subset
<1>3. ASSUME ~Better(l, r)
      PROVE  NotBehind(X, r) \in SUBSET NotBehind(X, l) /\ Ahead(X, r) \in SUBSET Ahead(X, l)
  BY <1>3, BetterSplits DEF NotBehind, Ahead
<1>4. ASSUME Better(l, r) PROVE NotBehind(X, l) \in SUBSET Ahead(X, r)
  BY <1>4, BetterSplits DEF NotBehind, Ahead
<1>5. PICK i \in 1 .. Cardinality(X) : Ordered(X)[i] = l
  BY PlacesInField
<1>6. Cardinality(Ahead(X, l)) < i /\ i <= Cardinality(NotBehind(X, l))
  <2>1. 0 \in Nat
    OBVIOUS
  <2>2. QED BY <1>5, <2>1, SeatsPart
<1>7. /\ Cardinality(Ahead(X, l)) \in 0 .. Cardinality(X)
      /\ Cardinality(NotBehind(X, l)) \in 0 .. Cardinality(X)
  BY PlacesInField
<1>8. ~Better(l, r) => /\ Cardinality(NotBehind(X, r)) <= Cardinality(NotBehind(X, l))
                       /\ Cardinality(Ahead(X, r)) <= Cardinality(Ahead(X, l))
  BY <1>2, <1>3, FS_Subset
<1>9. Better(l, r) => Cardinality(NotBehind(X, l)) <= Cardinality(Ahead(X, r))
  BY <1>2, <1>4, FS_Subset
<1>10. Cardinality(Ahead(X, l)) < Cardinality(NotBehind(X, l))
  BY <1>6, <1>7
<1>11. QED BY <1>7, <1>8, <1>9, <1>10

\* Whoever is within the seats is better than whoever is not, and the group astride the
\* last seat is better than whoever is beyond; its members are equals.
LEMMA BestFirst ==
  ASSUME NEW X, Field(X), NEW k \in Nat
  PROVE  /\ \A l \in Within(X, k), r \in Astride(X, k) \cup Beyond(X, k) : Better(l, r)
         /\ \A l \in Astride(X, k), r \in Beyond(X, k) : Better(l, r)
         /\ \A l, r \in Astride(X, k) : Tied(l, r)
<1>1. ASSUME NEW l \in Within(X, k), NEW r \in Astride(X, k) \cup Beyond(X, k)
      PROVE  Better(l, r)
  <2>1. l \in X /\ r \in X /\ Cardinality(NotBehind(X, l)) <= k
    BY DEF Within, Astride, Beyond
  <2>2. /\ Cardinality(NotBehind(X, r)) \in Nat /\ Cardinality(Ahead(X, r)) \in Nat
        /\ Cardinality(NotBehind(X, l)) \in Nat
        /\ Cardinality(Ahead(X, r)) < Cardinality(NotBehind(X, r))
    BY <2>1, CountsFollow
  <2>3. k < Cardinality(NotBehind(X, r))
    BY <2>2 DEF Astride, Beyond
  <2>4. ~Better(l, r) => Cardinality(NotBehind(X, r)) <= Cardinality(NotBehind(X, l))
    BY <2>1, CountsFollow
  <2>5. QED BY <2>1, <2>2, <2>3, <2>4
<1>2. ASSUME NEW l \in Astride(X, k), NEW r \in Beyond(X, k)
      PROVE  Better(l, r)
  <2>1. l \in X /\ r \in X /\ Cardinality(Ahead(X, l)) < k /\ k <= Cardinality(Ahead(X, r))
    BY DEF Astride, Beyond
  <2>2. Cardinality(Ahead(X, l)) \in Nat /\ Cardinality(Ahead(X, r)) \in Nat
    BY <2>1, CountsFollow
  <2>3. ~Better(l, r) => Cardinality(Ahead(X, r)) <= Cardinality(Ahead(X, l))
    BY <2>1, CountsFollow
  <2>4. QED BY <2>1, <2>2, <2>3
<1>3. ASSUME NEW l \in Astride(X, k), NEW r \in Astride(X, k)
      PROVE  ~Better(l, r)
  <2>1. /\ l \in X /\ r \in X
        /\ k < Cardinality(NotBehind(X, l)) /\ Cardinality(Ahead(X, r)) < k
    BY DEF Astride
  <2>2. Cardinality(NotBehind(X, l)) \in Nat /\ Cardinality(Ahead(X, r)) \in Nat
    BY <2>1, CountsFollow
  <2>3. Better(l, r) => Cardinality(NotBehind(X, l)) <= Cardinality(Ahead(X, r))
    BY <2>1, CountsFollow
  <2>4. QED BY <2>1, <2>2, <2>3
<1>4. QED BY <1>1, <1>2, <1>3 DEF Tied

\* The group astride the last seat is as large as its part of the order.
LEMMA AstrideIsAsLarge ==
  ASSUME NEW X, Field(X), NEW k \in Nat, NEW x \in Astride(X, k)
  PROVE  Cardinality(IdsOf(Astride(X, k)))
           = Cardinality(NotBehind(X, x)) - Cardinality(Ahead(X, x))
<1> DEFINE n == Cardinality(X)
           a == Cardinality(Ahead(X, x))
           e == Cardinality(NotBehind(X, x))
           q == Ordered(X)
           f == [i \in a + 1 .. e |-> q[i].id]
           T == IdsOf(Astride(X, k))
<1>1. x \in X /\ Astride(X, k) \subseteq X
  BY DEF Astride
<1>2. a \in 0 .. n /\ e \in 0 .. n /\ a < e
  BY <1>1, PlacesInField, CountsFollow
<1>3. \A i \in 1 .. n : q[i] \in X /\ (q[i] \in Astride(X, k) <=> a < i /\ i <= e)
  <2>1. \A i \in 1 .. n : q[i] \in X
    BY OrderedIsListed DEF Enumerates
  <2>2. \A i \in 1 .. n : q[i] \in Astride(X, k) <=> a < i /\ i <= e
    BY AstrideIsOneGroup
  <2> HIDE DEF q, a, e, n
  <2>3. QED BY <2>1, <2>2
<1>4. \A y \in X : \E i \in 1 .. n : q[i] = y
  BY PlacesInField
<1>5. \A i, j \in 1 .. n : q[i] = q[j] => i = j
  BY PlacesDiffer
<1> HIDE DEF a, e, q
<1>6. \A i \in a + 1 .. e : i \in 1 .. n
  <2>1. n \in Nat
    BY FS_CardinalityType DEF Field
  <2>2. QED BY <2>1, <1>2
<1>7. f \in [a + 1 .. e -> T]
  BY <1>2, <1>3, <1>6 DEF IdsOf
<1>8. f \in Surjection(a + 1 .. e, T)
  <2>1. ASSUME NEW id \in T PROVE \E i \in a + 1 .. e : f[i] = id
    <3>1. PICK y \in Astride(X, k) : y.id = id
      BY DEF IdsOf
    <3>2. PICK i \in 1 .. n : q[i] = y
      BY <1>1, <1>4
    <3>3. i \in a + 1 .. e
      BY <3>2, <1>2, <1>3
    <3>4. QED BY <3>1, <3>2, <3>3
  <2>2. QED BY <2>1, <1>7 DEF Surjection
<1>9. f \in Injection(a + 1 .. e, T)
  <2>1. ASSUME NEW i \in a + 1 .. e, NEW j \in a + 1 .. e, f[i] = f[j] PROVE i = j
    <3>1. q[i].id = q[j].id /\ q[i] \in X /\ q[j] \in X
      BY <2>1, <1>3, <1>6
    <3>2. q[i] = q[j]
      BY <3>1 DEF Field
    <3>3. QED BY <3>2, <1>5, <1>6
  <2>2. QED BY <2>1, <1>7 DEF Injection, IsInjective
<1>10. IsFiniteSet(a + 1 .. e) /\ Cardinality(a + 1 .. e) = e - a
  <2>1. a + 1 \in Int /\ e \in Int /\ ~ a + 1 > e /\ e - (a + 1) + 1 = e - a
    BY <1>2
  <2>2. QED BY <2>1, FS_Interval
<1> HIDE DEF f, T
<1>11. Cardinality(T) = e - a
  <2>1. f \in Bijection(a + 1 .. e, T)
    BY <1>8, <1>9 DEF Bijection
  <2>2. ExistsBijection(a + 1 .. e, T)
    BY <2>1 DEF ExistsBijection
  <2>3. QED BY <2>2, <1>10, FS_Bijection
<1>12. QED BY <1>11 DEF a, e, T

\* The recorded verdict is what the calculator makes of the ballots.
JudgmentInv ==
  /\ ballots \in [Voters -> {None} \cup [Candidates -> GradesGiven]]
  /\ rules \in Rules
  /\ verdict = Calculate(ballots, rules)

\* It always is (MajorityJudgmentCalculation).
THEOREM JudgmentInvariant == Spec => []JudgmentInv
<1>1. Init => JudgmentInv
  BY DEF Init, JudgmentInv
<1>2. JudgmentInv /\ [Next]_vars => JudgmentInv'
  <2> SUFFICES ASSUME JudgmentInv, [Next]_vars PROVE JudgmentInv'
    OBVIOUS
  <2>1. ASSUME NEW v \in Voters, NEW given \in [Candidates -> GradesGiven], Vote(v, given)
        PROVE  JudgmentInv'
    BY <2>1 DEF Vote, JudgmentInv
  <2>2. ASSUME NEW v \in Voters, NEW c \in Candidates, NEW g \in GradesGiven, Regrade(v, c, g)
        PROVE  JudgmentInv'
    <3>1. ballots[v] \in [Candidates -> GradesGiven]
      BY <2>2 DEF Regrade, JudgmentInv
    <3>2. ballots' \in [Voters -> {None} \cup [Candidates -> GradesGiven]]
      BY <2>2, <3>1 DEF Regrade, JudgmentInv
    <3>3. QED BY <2>2, <3>2 DEF Regrade, JudgmentInv
  <2>3. CASE UNCHANGED vars
    BY <2>3 DEF vars, JudgmentInv
  <2>4. QED BY <2>1, <2>2, <2>3 DEF Next
<1>3. QED BY <1>1, <1>2, PTL DEF Spec

\* In every election, whatever its ballots, seats and grades: the seats go down the order
\* without a gap and stop short of a tie, and whoever is seated is strictly better than
\* whoever is drawn for or in reserve (calculateMajorityJudgment).
THEOREM SeatsAlwaysGoToTheBest == Spec => []SeatsGoToTheBest
<1>1. JudgmentInv => SeatsGoToTheBest
  <2> SUFFICES ASSUME JudgmentInv PROVE SeatsGoToTheBest
    OBVIOUS
  <2> DEFINE k == rules.seats
             X == FieldOf(ballots, rules.minimum)
             Of(S) == {g \in verdict.gauges : g.id \in S}
             seated == ToSet(verdict.seated)
             reserve == ToSet(verdict.reserve)
  <2>1. k \in Nat
    BY JudgmentAssumption DEF JudgmentInv
  <2>2. verdict.gauges = GaugesOf(ballots) /\ Reads(verdict, X, k, Quorate(ballots, rules))
    BY <2>1, ResultByCounts DEF JudgmentInv
  <2>3. /\ Field(X) /\ X \subseteq GaugesOf(ballots)
        /\ \A l, r \in GaugesOf(ballots) : l.id = r.id => l = r
        /\ Electable(verdict.gauges, rules.minimum) = X
    BY <2>2, ElectableAreField DEF FieldOf, Electable
  <2> HIDE DEF X, k
  <2>4. CASE ~Quorate(ballots, rules)
    <3>1. /\ verdict.unresolved = {} /\ seated = {} /\ reserve = {}
          /\ ~verdict.reserveRuns
      BY <2>2, <2>4 DEF Reads
    <3>2. QED BY <3>1 DEF SeatsGoToTheBest
  <2>5. CASE Quorate(ballots, rules)
    <3>1. /\ verdict.unresolved = IdsOf(Astride(X, k))
          /\ seated = IdsOf(Within(X, k)) /\ reserve = IdsOf(Beyond(X, k))
      BY <2>2, <2>5 DEF Reads
    <3>2. Within(X, k) \subseteq X /\ Astride(X, k) \subseteq X /\ Beyond(X, k) \subseteq X
      BY DEF Within, Astride, Beyond
    <3>3. \A S \in SUBSET X : Of(IdsOf(S)) = S
      BY <2>2, <2>3 DEF IdsOf
    <3>4. /\ Of(seated) = Within(X, k) /\ Of(verdict.unresolved) = Astride(X, k)
          /\ Of(reserve) = Beyond(X, k)
      BY <3>1, <3>2, <3>3
    <3>5. /\ Of(verdict.unresolved \cup reserve) = Astride(X, k) \cup Beyond(X, k)
          /\ Of(seated \cup reserve) = Within(X, k) \cup Beyond(X, k)
      BY <3>4
    <3>6. /\ \A l \in Within(X, k), r \in Astride(X, k) \cup Beyond(X, k) : Better(l, r)
          /\ \A l \in Astride(X, k), r \in Beyond(X, k) : Better(l, r)
          /\ \A l, r \in Astride(X, k) : Tied(l, r)
      BY <2>1, <2>3, BestFirst
    <3>7. Astride(X, k) = {} <=> verdict.unresolved = {}
      BY <3>1 DEF IdsOf
    <3>8. IF verdict.unresolved = {}
          THEN reserve # {} => verdict.referred = 0
          ELSE /\ Len(verdict.seated) < k
               /\ k < Len(verdict.seated) + Cardinality(verdict.unresolved)
      <4>1. ASSUME verdict.unresolved = {}, reserve # {} PROVE verdict.referred = 0
        <5>1. PICK x \in Beyond(X, k) : TRUE
          BY <4>1, <3>1 DEF IdsOf
        <5>2. k < Cardinality(X)
          <6>1. x \in X /\ k <= Cardinality(Ahead(X, x))
            BY DEF Beyond
          <6>2. /\ Cardinality(Ahead(X, x)) < Cardinality(NotBehind(X, x))
                /\ Cardinality(Ahead(X, x)) \in Nat
            BY <2>3, <6>1, CountsFollow
          <6>3. Cardinality(NotBehind(X, x)) \in 0 .. Cardinality(X) /\ Cardinality(X) \in Nat
            BY <2>3, <6>1, PlacesInField
          <6>4. QED BY <6>1, <6>2, <6>3, <2>1
        <5>3. Len(verdict.seated) = k
          BY <4>1, <5>2, <3>7, <2>1, <2>2, <2>3, <2>5 DEF Reads, Field
        <5>4. QED BY <5>3, <4>1, <2>1, <2>2 DEF Reads
      <4>2. ASSUME verdict.unresolved # {}
            PROVE  /\ Len(verdict.seated) < k
                   /\ k < Len(verdict.seated) + Cardinality(verdict.unresolved)
        <5>1. PICK x \in Astride(X, k) : TRUE
          BY <4>2, <3>7
        <5>2. /\ x \in X /\ Cardinality(Ahead(X, x)) < k /\ k < Cardinality(NotBehind(X, x))
          BY DEF Astride
        <5>3. Len(verdict.seated) = Cardinality(Ahead(X, x))
          BY <2>2, <2>5 DEF Reads
        <5>4. Cardinality(verdict.unresolved)
                = Cardinality(NotBehind(X, x)) - Cardinality(Ahead(X, x))
          BY <2>1, <2>3, <3>1, AstrideIsAsLarge
        <5>5. Cardinality(Ahead(X, x)) \in Nat /\ Cardinality(NotBehind(X, x)) \in Nat
          BY <2>3, <5>2, CountsFollow
        <5>6. QED BY <5>2, <5>3, <5>4, <5>5
      <4>3. QED BY <4>1, <4>2
    <3>9. verdict.reserveRuns => Within(X, k) \cup Beyond(X, k) = X
      <4>1. SUFFICES ASSUME verdict.reserveRuns, NEW x \in X
                     PROVE  x \in Within(X, k) \cup Beyond(X, k)
        BY <3>2
      <4>2. Astride(X, k) = {}
        BY <4>1, <3>7, <2>2 DEF Reads
      <4>3. Cardinality(Ahead(X, x)) \in Nat /\ Cardinality(NotBehind(X, x)) \in Nat
        BY <2>3, CountsFollow
      <4>4. QED BY <4>2, <4>3, <2>1 DEF Within, Astride, Beyond
    <3> HIDE DEF Of, seated, reserve
    <3>10. /\ \A l \in Of(seated), r \in Of(verdict.unresolved \cup reserve) : Better(l, r)
           /\ \A l \in Of(verdict.unresolved), r \in Of(reserve) : Better(l, r)
           /\ \A l, r \in Of(verdict.unresolved) : Tied(l, r)
      BY <3>4, <3>5, <3>6
    <3>11. verdict.reserveRuns => Of(seated \cup reserve)
                                    = Electable(verdict.gauges, rules.minimum)
      BY <3>5, <3>9, <2>3
    <3>12. QED BY <3>8, <3>10, <3>11 DEF SeatsGoToTheBest, Of, seated, reserve, k
  <2>6. QED BY <2>4, <2>5
<1>2. QED BY <1>1, JudgmentInvariant, PTL

-----------------------------------------------------------------------------
(* Outcomes by counts *)

\* What becomes of a candidate, and the rank, from the counts of the gauge.
LEMMA OutcomeByCounts ==
  ASSUME NEW b, NEW p, p.seats \in Nat, NEW c \in Candidates,
         NEW X, X = FieldOf(b, p.minimum), NEW x, x = GaugeOf(b, c),
         NEW r, r = Calculate(b, p)
  PROVE  /\ x \notin X \/ ~Quorate(b, p) => r.outcome[c] = "NOT_ELECTABLE"
         /\ x \in X /\ Quorate(b, p) =>
              r.outcome[c] = IF Cardinality(NotBehind(X, x)) <= p.seats THEN "SEATED"
                             ELSE IF Cardinality(Ahead(X, x)) < p.seats THEN "UNRESOLVED"
                             ELSE "RESERVE"
         /\ r.rank[c] = IF x \in X THEN Cardinality(Ahead(X, x)) + 1 ELSE None
<1> DEFINE k == p.seats
<1>1. Field(X) /\ Reads(r, X, k, Quorate(b, p))
  BY ElectableAreField, ResultByCounts
<1>2. x.id = c
  BY GaugeIs
<1>3. \A S \in SUBSET X : c \in IdsOf(S) <=> x \in S
  <2>1. \A y \in X : y.id = c => y = x
    <3>1. \A y \in X : y \in GaugesOf(b)
      BY DEF FieldOf, Electable
    <3>2. x \in GaugesOf(b)
      BY DEF GaugesOf
    <3>3. QED BY <3>1, <3>2, <1>2, ElectableAreField
  <2>2. QED BY <2>1, <1>2 DEF IdsOf
<1>4. Within(X, k) \subseteq X /\ Astride(X, k) \subseteq X /\ Beyond(X, k) \subseteq X
  BY DEF Within, Astride, Beyond
<1>5. /\ c \in IdsOf(Within(X, k)) <=> x \in Within(X, k)
      /\ c \in IdsOf(Astride(X, k)) <=> x \in Astride(X, k)
      /\ c \in IdsOf(Beyond(X, k)) <=> x \in Beyond(X, k)
      /\ c \in IdsOf(X) <=> x \in X
  BY <1>3, <1>4
<1>6. r.rank[c] = IF x \in X THEN Cardinality(Ahead(X, x)) + 1 ELSE None
  BY <1>1, <1>2, <1>5 DEF Reads
<1>7. /\ r.unresolved = IF Quorate(b, p) THEN IdsOf(Astride(X, k)) ELSE {}
      /\ ToSet(r.seated) = IF Quorate(b, p) THEN IdsOf(Within(X, k)) ELSE {}
      /\ ToSet(r.reserve) = IF Quorate(b, p) THEN IdsOf(Beyond(X, k)) ELSE {}
      /\ r.outcome[c] = IF c \in r.unresolved THEN "UNRESOLVED"
                        ELSE IF c \in ToSet(r.seated) THEN "SEATED"
                        ELSE IF c \in ToSet(r.reserve) THEN "RESERVE" ELSE "NOT_ELECTABLE"
  BY <1>1 DEF Reads
<1>8. x \notin X \/ ~Quorate(b, p) => r.outcome[c] = "NOT_ELECTABLE"
  BY <1>4, <1>5, <1>7
<1>9. ASSUME x \in X, Quorate(b, p)
      PROVE  r.outcome[c] = IF Cardinality(NotBehind(X, x)) <= k THEN "SEATED"
                            ELSE IF Cardinality(Ahead(X, x)) < k THEN "UNRESOLVED"
                            ELSE "RESERVE"
  <2>1. /\ Cardinality(Ahead(X, x)) < Cardinality(NotBehind(X, x))
        /\ Cardinality(Ahead(X, x)) \in Nat /\ Cardinality(NotBehind(X, x)) \in Nat
    BY <1>1, <1>9, CountsFollow
  <2>2. /\ x \in Within(X, k) <=> Cardinality(NotBehind(X, x)) <= k
        /\ x \in Astride(X, k)
             <=> Cardinality(Ahead(X, x)) < k /\ k < Cardinality(NotBehind(X, x))
        /\ x \in Beyond(X, k) <=> k <= Cardinality(Ahead(X, x))
    BY <1>9 DEF Within, Astride, Beyond
  <2> HIDE DEF k
  <2>3. k \in Nat
    BY DEF k
  <2>4. QED BY <2>1, <2>2, <2>3, <1>5, <1>7, <1>9
<1>10. QED BY <1>6, <1>8, <1>9

-----------------------------------------------------------------------------
(* Ids decide nothing *)

\* Fields that correspond have the same counts.
LEMMA SameCounts ==
  ASSUME NEW X, Field(X), NEW Y, Field(Y), NEW f \in [X -> Y],
         \A l, r \in X : f[l] = f[r] => l = r,
         \A y \in Y : \E x \in X : f[x] = y,
         \A l, r \in X : Better(l, r) <=> Better(f[l], f[r]),
         NEW x \in X
  PROVE  /\ Cardinality(Ahead(Y, f[x])) = Cardinality(Ahead(X, x))
         /\ Cardinality(NotBehind(Y, f[x])) = Cardinality(NotBehind(X, x))
<1>1. ASSUME NEW S \in SUBSET X, NEW T \in SUBSET Y, \A y \in X : y \in S <=> f[y] \in T
      PROVE  Cardinality(T) = Cardinality(S)
  <2> DEFINE g == [y \in S |-> f[y]]
  <2>1. IsFiniteSet(S)
    BY FS_Subset DEF Field
  <2>2. g \in [S -> T]
    BY <1>1
  <2>3. g \in Injection(S, T)
    BY <2>2 DEF Injection, IsInjective
  <2>4. g \in Surjection(S, T)
    BY <2>2, <1>1 DEF Surjection
  <2>5. ExistsBijection(S, T)
    BY <2>3, <2>4 DEF Bijection, ExistsBijection
  <2>6. QED BY <2>1, <2>5, FS_Bijection
<1>2. \A y \in X : y \in Ahead(X, x) <=> f[y] \in Ahead(Y, f[x])
  BY DEF Ahead
<1>3. \A y \in X : y \in NotBehind(X, x) <=> f[y] \in NotBehind(Y, f[x])
  BY DEF NotBehind
<1>4. /\ Ahead(X, x) \in SUBSET X /\ NotBehind(X, x) \in SUBSET X
      /\ Ahead(Y, f[x]) \in SUBSET Y /\ NotBehind(Y, f[x]) \in SUBSET Y
  BY DEF Ahead, NotBehind
<1>5. QED BY <1>1, <1>2, <1>3, <1>4

Swapped(c, d, x) == IF x = c THEN d ELSE IF x = d THEN c ELSE x
Exchanged(b, c, d) ==
  [v \in Voters |->
     IF b[v] = None THEN None ELSE [x \in Candidates |-> b[v][Swapped(c, d, x)]]]

\* A candidate whose id is exchanged keeps the gauge.
LEMMA ExchangedGauges ==
  ASSUME NEW b \in [Voters -> {None} \cup [Candidates -> GradesGiven]],
         NEW c \in Candidates, NEW d \in Candidates
  PROVE  LET e == Exchanged(b, c, d) IN
         /\ Valid(e) = Valid(b)
         /\ \A x \in Candidates :
              LET l == GaugeOf(e, x)
                  r == GaugeOf(b, Swapped(c, d, x))
              IN  /\ l.grade = r.grade /\ l.above = r.above
                  /\ l.below = r.below /\ l.band = r.band
<1> DEFINE e == Exchanged(b, c, d)
<1>1. \A x \in Candidates : Swapped(c, d, x) \in Candidates
  BY DEF Swapped
<1>2. ASSUME NEW v \in Voters
      PROVE  /\ e[v] = None <=> b[v] = None
             /\ b[v] # None => /\ DOMAIN e[v] = Candidates /\ DOMAIN b[v] = Candidates
                               /\ \A x \in Candidates : e[v][x] = b[v][Swapped(c, d, x)]
  <2>1. CASE b[v] = None
    BY <2>1 DEF Exchanged
  <2>2. CASE b[v] # None
    <3>1. e[v] = [x \in Candidates |-> b[v][Swapped(c, d, x)]]
      BY <2>2 DEF Exchanged
    <3>2. b[v] \in [Candidates -> GradesGiven]
      BY <2>2
    <3>3. e[v] \in [Candidates -> GradesGiven]
      BY <3>1, <3>2, <1>1
    <3>4. e[v] # None
      BY <3>3, NoneIsNoBallot
    <3>5. QED BY <2>2, <3>1, <3>2, <3>4
  <2>3. QED BY <2>1, <2>2
<1> HIDE DEF e
<1>3. Valid(e) = Valid(b)
  BY <1>2 DEF Valid
<1>4. ASSUME NEW x \in Candidates
      PROVE  Histogram(e, x) = Histogram(b, Swapped(c, d, x))
  <2>1. \A g : {v \in Valid(e) : e[v][x] = g} = {v \in Valid(b) : b[v][Swapped(c, d, x)] = g}
    BY <1>2, <1>3 DEF Valid
  <2>2. QED BY <2>1 DEF Histogram
<1>5. ASSUME NEW x \in Candidates, NEW y, NEW h
      PROVE  LET l == CandidateGauge(x, h)
                 r == CandidateGauge(y, h)
             IN  /\ l.grade = r.grade /\ l.above = r.above
                 /\ l.below = r.below /\ l.band = r.band
  BY DEF CandidateGauge
<1>6. QED BY <1>3, <1>4, <1>5 DEF GaugeOf, e

\* Exchanging two ids exchanges ranks and outcomes.
LEMMA ExchangeIsAll ==
  ASSUME NEW b \in [Voters -> {None} \cup [Candidates -> GradesGiven]],
         NEW p, p.seats \in Nat, NEW c \in Candidates, NEW d \in Candidates,
         NEW x \in Candidates, NEW e, e = Exchanged(b, c, d), NEW z, z = Swapped(c, d, x)
  PROVE  /\ Calculate(e, p).rank[x] = Calculate(b, p).rank[z]
         /\ Calculate(e, p).outcome[x] = Calculate(b, p).outcome[z]
<1> DEFINE m == p.minimum
           X == FieldOf(b, m)
           Y == FieldOf(e, m)
           other(y) == Swapped(c, d, y)
           f == [l \in X |-> GaugeOf(e, other(l.id))]
<1>1. /\ Field(X) /\ Field(Y)
      /\ \A l, r \in GaugesOf(b) : l.id = r.id => l = r
  BY ElectableAreField
<1>2. \A y \in Candidates : other(y) \in Candidates /\ other(other(y)) = y
  BY DEF Swapped
<1>3. \A y \in Candidates :
        /\ GaugeOf(b, y).id = y /\ GaugeOf(e, y).id = y
        /\ GaugeOf(e, y).grade = GaugeOf(b, other(y)).grade
        /\ GaugeOf(e, y).above = GaugeOf(b, other(y)).above
        /\ GaugeOf(e, y).below = GaugeOf(b, other(y)).below
        /\ GaugeOf(e, y).band = GaugeOf(b, other(y)).band
  BY GaugeIs, ExchangedGauges
<1>4. \A y \in Candidates :
        /\ GaugeOf(b, y) \in X <=> GaugeOf(b, y).grade # None /\ GaugeOf(b, y).grade >= m
        /\ GaugeOf(e, y) \in Y <=> GaugeOf(e, y).grade # None /\ GaugeOf(e, y).grade >= m
  BY DEF FieldOf, Electable, GaugesOf
<1>5. /\ \A l \in X : l.id \in Candidates /\ l = GaugeOf(b, l.id)
      /\ \A l \in Y : l.id \in Candidates /\ l = GaugeOf(e, l.id)
  BY <1>3 DEF FieldOf, Electable, GaugesOf
<1> HIDE DEF X, Y, other
<1>6. \A l \in X : f[l] = GaugeOf(e, other(l.id)) /\ f[l].id = other(l.id) /\ f[l] \in Y
                   /\ f[l].grade = l.grade /\ f[l].above = l.above
                   /\ f[l].below = l.below /\ f[l].band = l.band
  <2>1. ASSUME NEW l \in X
        PROVE  f[l] = GaugeOf(e, other(l.id)) /\ f[l].id = other(l.id) /\ f[l] \in Y
               /\ f[l].grade = l.grade /\ f[l].above = l.above
               /\ f[l].below = l.below /\ f[l].band = l.band
    <3>1. l.id \in Candidates /\ l = GaugeOf(b, l.id)
      BY <1>5
    <3>2. other(l.id) \in Candidates /\ other(other(l.id)) = l.id
      BY <3>1, <1>2
    <3>3. f[l] = GaugeOf(e, other(l.id))
      OBVIOUS
    <3>4. /\ f[l].id = other(l.id)
          /\ f[l].grade = l.grade /\ f[l].above = l.above
          /\ f[l].below = l.below /\ f[l].band = l.band
      BY <3>1, <3>2, <3>3, <1>3
    <3>5. f[l] \in Y
      BY <3>1, <3>2, <3>3, <3>4, <1>4
    <3>6. QED BY <3>3, <3>4, <3>5
  <2>2. QED BY <2>1
<1>7. f \in [X -> Y]
  BY <1>6
<1> HIDE DEF f
<1>8. \A l, r \in X : f[l] = f[r] => l = r
  BY <1>2, <1>5, <1>6
<1>9. \A y \in Y : \E l \in X : f[l] = y
  <2>1. SUFFICES ASSUME NEW y \in Y PROVE \E l \in X : f[l] = y
    OBVIOUS
  <2>2. y.id \in Candidates /\ y = GaugeOf(e, y.id)
    BY <1>5
  <2> DEFINE l == GaugeOf(b, other(y.id))
  <2>3. other(y.id) \in Candidates /\ other(other(y.id)) = y.id
    BY <2>2, <1>2
  <2>4. l.id = other(y.id) /\ l \in X
    BY <2>2, <2>3, <1>3, <1>4
  <2> HIDE DEF l
  <2>5. f[l] = y
    BY <2>2, <2>3, <2>4, <1>6
  <2>6. QED BY <2>4, <2>5
<1>10. \A l, r \in X : Better(l, r) <=> Better(f[l], f[r])
  BY <1>6 DEF Better
<1> DEFINE l == GaugeOf(b, z)
           r == GaugeOf(e, x)
<1>11. z \in Candidates /\ z = other(x) /\ other(z) = x
  BY <1>2 DEF other
<1>12. l.id = z /\ (l \in X => f[l] = r) /\ (l \in X <=> r \in Y)
  BY <1>3, <1>4, <1>6, <1>11
<1> HIDE DEF l, r
<1>13. l \in X => /\ Cardinality(Ahead(Y, r)) = Cardinality(Ahead(X, l))
                  /\ Cardinality(NotBehind(Y, r)) = Cardinality(NotBehind(X, l))
  BY <1>1, <1>7, <1>8, <1>9, <1>10, <1>12, SameCounts
<1>14. Quorate(e, p) <=> Quorate(b, p)
  <2>1. Valid(e) = Valid(b)
    BY ExchangedGauges
  <2>2. QED BY <2>1 DEF Quorate
<1> DEFINE R == Calculate(e, p)
           S == Calculate(b, p)
<1>15. /\ r \notin Y \/ ~Quorate(e, p) => R.outcome[x] = "NOT_ELECTABLE"
       /\ r \in Y /\ Quorate(e, p) =>
            R.outcome[x] = IF Cardinality(NotBehind(Y, r)) <= p.seats THEN "SEATED"
                           ELSE IF Cardinality(Ahead(Y, r)) < p.seats THEN "UNRESOLVED"
                           ELSE "RESERVE"
       /\ R.rank[x] = IF r \in Y THEN Cardinality(Ahead(Y, r)) + 1 ELSE None
  BY OutcomeByCounts DEF Y, r
<1>16. /\ l \notin X \/ ~Quorate(b, p) => S.outcome[z] = "NOT_ELECTABLE"
       /\ l \in X /\ Quorate(b, p) =>
            S.outcome[z] = IF Cardinality(NotBehind(X, l)) <= p.seats THEN "SEATED"
                           ELSE IF Cardinality(Ahead(X, l)) < p.seats THEN "UNRESOLVED"
                           ELSE "RESERVE"
       /\ S.rank[z] = IF l \in X THEN Cardinality(Ahead(X, l)) + 1 ELSE None
  BY <1>11, OutcomeByCounts DEF X, l
<1> HIDE DEF R, S
<1>17. R.rank[x] = S.rank[z] /\ R.outcome[x] = S.outcome[z]
  BY <1>12, <1>13, <1>14, <1>15, <1>16
<1>18. QED BY <1>17 DEF R, S

\* "Candidate ID must never become a silent mechanism-level tiebreaker": it never is one,
\* in any election (compareCandidateGauges, rankCandidates, calculateMajorityJudgment).
THEOREM AlwaysNeutralToIds == Spec => []NeutralToIds
<1>1. JudgmentInv => NeutralToIds
  <2> SUFFICES ASSUME JudgmentInv, NEW c \in Candidates, NEW d \in Candidates, c < d,
                      NEW x \in Candidates
               PROVE  LET s == Calculate(Exchanged(ballots, c, d), rules) IN
                      /\ s.rank[x] = verdict.rank[Swapped(c, d, x)]
                      /\ s.outcome[x] = verdict.outcome[Swapped(c, d, x)]
    BY DEF NeutralToIds, Exchanged, Swapped
  <2>1. rules.seats \in Nat
    BY JudgmentAssumption DEF JudgmentInv
  <2>2. QED BY <2>1, ExchangeIsAll DEF JudgmentInv
<1>2. QED BY <1>1, JudgmentInvariant, PTL

-----------------------------------------------------------------------------
(* Raising a grade *)

\* Taking a voter out of a group takes the voter's power out of the sum.
LEMMA PowerWithout ==
  ASSUME NEW S \in SUBSET Voters, NEW v \in S
  PROVE  PowerOf(S) = Power[v] + PowerOf(S \ {v})
<1>1. IsFiniteSet(S) /\ \A u \in S : Power[u] \in Nat
  BY JudgmentAssumption, FS_Subset
<1>2. SumOf(Power, S) = Power[v] + SumOf(Power, S \ {v})
  BY <1>1, SumWithout
<1>3. QED BY <1>2 DEF PowerOf, SumOf

\* The one ballot that changes, and how.
Changes(b, e, v, c, g) ==
  /\ b \in [Voters -> {None} \cup [Candidates -> GradesGiven]]
  /\ v \in Voters /\ c \in Candidates /\ g \in GradesGiven
  /\ b[v] \in [Candidates -> GradesGiven]
  /\ e = [b EXCEPT ![v][c] = g]

\* Nothing changes but that voter's grade for that candidate.
LEMMA ChangeIsLocal ==
  ASSUME NEW b, NEW e, NEW v, NEW c, NEW g, Changes(b, e, v, c, g)
  PROVE  /\ e[v] \in [Candidates -> GradesGiven] /\ e[v][c] = g
         /\ Valid(e) = Valid(b) /\ Quorate(e, rules) = Quorate(b, rules)
         /\ \A u \in Voters, x \in Candidates : (u # v \/ x # c) => e[u][x] = b[u][x]
<1>1. e[v] = [b[v] EXCEPT ![c] = g] /\ \A u \in Voters : u # v => e[u] = b[u]
  BY DEF Changes
<1>2. e[v] \in [Candidates -> GradesGiven] /\ e[v][c] = g
  BY <1>1 DEF Changes
<1>3. \A x \in Candidates : x # c => e[v][x] = b[v][x]
  BY <1>1 DEF Changes
<1>4. e[v] # None /\ b[v] # None
  BY <1>2, NoneIsNoBallot DEF Changes
<1>5. Valid(e) = Valid(b)
  BY <1>1, <1>2, <1>4 DEF Valid, Changes
<1>6. QED BY <1>1, <1>2, <1>3, <1>5 DEF Quorate

\* Another candidate's histogram stays, and without power behind the ballot, everybody's.
LEMMA OthersKeepHistograms ==
  ASSUME NEW b, NEW e, NEW v, NEW c, NEW g, Changes(b, e, v, c, g),
         NEW x \in Candidates, x # c \/ v \notin Valid(b)
  PROVE  Histogram(e, x) = Histogram(b, x)
<1>1. /\ Valid(e) = Valid(b)
      /\ \A u \in Voters, y \in Candidates : (u # v \/ y # c) => e[u][y] = b[u][y]
  BY ChangeIsLocal
<1>2. \A k : {u \in Valid(e) : e[u][x] = k} = {u \in Valid(b) : b[u][x] = k}
  BY <1>1 DEF Valid
<1>3. QED BY <1>2 DEF Histogram

\* The candidate's own histogram moves the voter's power up.
LEMMA OwnHistogramIsRaised ==
  ASSUME NEW b, NEW e, NEW v, NEW c, NEW g, Changes(b, e, v, c, g),
         v \in Valid(b), g > b[v][c]
  PROVE  /\ Histogram(e, c) = Raised(Histogram(b, c), b[v][c], g, Power[v])
         /\ Power[v] \in Nat /\ Power[v] <= Histogram(b, c)[b[v][c] + 1]
         /\ Cumulated(Histogram(b, c))[1] # 0
<1> DEFINE old == b[v][c]
           w == Power[v]
           Had(k) == {u \in Valid(b) : b[u][c] = k}
           Has(k) == {u \in Valid(e) : e[u][c] = k}
           h == Histogram(b, c)
           r == Histogram(e, c)
<1>1. /\ Valid(e) = Valid(b) /\ e[v][c] = g
      /\ \A u \in Voters : u # v => e[u][c] = b[u][c]
  <2>1. c \in Candidates
    BY DEF Changes
  <2>2. /\ Valid(e) = Valid(b) /\ e[v][c] = g
        /\ \A u \in Voters, x \in Candidates : (u # v \/ x # c) => e[u][x] = b[u][x]
    BY ChangeIsLocal
  <2>3. QED BY <2>1, <2>2
<1>2. old \in Grade /\ g \in Grade /\ old # g /\ old < g
  <2>1. b[v][c] \in GradesGiven /\ g \in GradesGiven
    BY DEF Changes
  <2>2. old \in Grade /\ g \in Grade
    BY <2>1, JudgmentAssumption
  <2>3. QED BY <2>2 DEF Grade
<1>3. w \in Nat /\ w > 0 /\ v \in Voters
  BY JudgmentAssumption DEF Valid
<1>4. \A k : Had(k) \in SUBSET Voters /\ Has(k) \in SUBSET Voters
  BY DEF Valid
<1>5. /\ h = <<PowerOf(Had(0)), PowerOf(Had(1)), PowerOf(Had(2)), PowerOf(Had(3)),
               PowerOf(Had(4))>>
      /\ r = <<PowerOf(Has(0)), PowerOf(Has(1)), PowerOf(Has(2)), PowerOf(Has(3)),
               PowerOf(Has(4))>>
  BY DEF Histogram
<1>6. v \in Had(old) /\ v \in Has(g) /\ v \notin Had(g) /\ v \notin Has(old)
  BY <1>1, <1>2
<1>7. /\ Has(old) = Had(old) \ {v} /\ Had(g) = Has(g) \ {v}
      /\ \A k : k # old /\ k # g => Has(k) = Had(k)
  <2>1. \A k : k # old /\ k # g => Has(k) = Had(k)
    <3>1. ASSUME NEW k, k # old, k # g, NEW u \in Valid(b) PROVE e[u][c] = k <=> b[u][c] = k
      <4>1. u \in Voters
        BY DEF Valid
      <4>2. QED BY <4>1, <3>1, <1>1
    <3>2. QED BY <3>1, <1>1
  <2>2. Has(old) = Had(old) \ {v}
    <3>1. ASSUME NEW u \in Valid(b)
          PROVE  e[u][c] = old <=> b[u][c] = old /\ u # v
      <4>1. u \in Voters
        BY DEF Valid
      <4>2. QED BY <4>1, <1>1, <1>2
    <3>2. QED BY <3>1, <1>1
  <2>3. Had(g) = Has(g) \ {v}
    <3>1. ASSUME NEW u \in Valid(b)
          PROVE  b[u][c] = g <=> e[u][c] = g /\ u # v
      <4>1. u \in Voters
        BY DEF Valid
      <4>2. QED BY <4>1, <1>1, <1>2
    <3>2. QED BY <3>1, <1>1
  <2>4. QED BY <2>1, <2>2, <2>3
<1> HIDE DEF Had, Has, old, w, h, r
<1>8. /\ PowerOf(Had(old)) = w + PowerOf(Has(old))
      /\ PowerOf(Has(g)) = w + PowerOf(Had(g))
  BY <1>4, <1>6, <1>7, PowerWithout DEF w
<1>9. \A k : PowerOf(Had(k)) \in Nat /\ PowerOf(Has(k)) \in Nat
  BY <1>4, PowerIsNat
<1>10. \A k \in Grade : h[k + 1] = PowerOf(Had(k)) /\ r[k + 1] = PowerOf(Has(k))
  BY <1>5 DEF Grade
<1>11. h \in [1 .. 5 -> Nat] /\ r \in [1 .. 5 -> Nat]
  BY HistogramIs DEF Histograms, h, r
<1>12. w <= h[old + 1]
  BY <1>2, <1>3, <1>8, <1>9, <1>10
<1>13. Cumulated(h)[1] # 0
  <2>1. h[old + 1] > 0
    BY <1>2, <1>3, <1>11, <1>12 DEF Grade
  <2>2. QED BY <2>1, <1>2, <1>11 DEF Cumulated, Grade
<1>14. r = Raised(h, old, g, w)
  <2>1. \A k \in Grade : r[k + 1] = IF k = old THEN h[k + 1] - w
                                    ELSE IF k = g THEN h[k + 1] + w ELSE h[k + 1]
    <3>1. SUFFICES ASSUME NEW k \in Grade
                   PROVE  r[k + 1] = IF k = old THEN h[k + 1] - w
                                     ELSE IF k = g THEN h[k + 1] + w ELSE h[k + 1]
      OBVIOUS
    <3>2. h[k + 1] = PowerOf(Had(k)) /\ r[k + 1] = PowerOf(Has(k))
      BY <1>10
    <3>3. CASE k = old
      BY <3>2, <3>3, <1>3, <1>8, <1>9
    <3>4. CASE k = g
      BY <3>2, <3>4, <1>2, <1>3, <1>8, <1>9
    <3>5. CASE k # old /\ k # g
      BY <3>2, <3>5, <1>7
    <3>6. QED BY <3>3, <3>4, <3>5
  <2>2. \A i \in 1 .. 5 : r[i] = Raised(h, old, g, w)[i]
    <3>1. SUFFICES ASSUME NEW i \in 1 .. 5 PROVE r[i] = Raised(h, old, g, w)[i]
      OBVIOUS
    <3>2. PICK k \in Grade : i = k + 1
      <4>1. i - 1 \in Grade /\ i = (i - 1) + 1
        BY DEF Grade
      <4>2. QED BY <4>1
    <3>3. Raised(h, old, g, w)[i] = IF k = old THEN h[i] - w
                                    ELSE IF k = g THEN h[i] + w ELSE h[i]
      BY <3>2, <1>2, <1>11 DEF Raised, Grade
    <3>4. QED BY <2>1, <3>2, <3>3
  <2>3. QED BY <2>2, <1>11 DEF Raised
<1>15. QED BY <1>3, <1>12, <1>13, <1>14 DEF old, w, h, r

\* Who gets no worse, all others as before, has no more gauges before it or beside it.
LEMMA CountsFall ==
  ASSUME NEW X, Field(X), NEW Y, Field(Y), NEW x \in X, NEW y \in Y, x.id = y.id,
         ~Better(x, y), \A z : z.id # x.id => (z \in X <=> z \in Y)
  PROVE  /\ Cardinality(Ahead(Y, y)) <= Cardinality(Ahead(X, x))
         /\ Cardinality(NotBehind(Y, y)) <= Cardinality(NotBehind(X, x))
<1>1. x \in Graded /\ y \in Graded /\ X \subseteq Graded /\ Y \subseteq Graded
  BY DEF Field
<1>2. /\ \A z \in Y : z # y => z \in X /\ z # x
      /\ ~Better(x, x) /\ ~Better(y, y)
  <2>1. \A z \in Y : z # y => z.id # y.id
    BY DEF Field
  <2>2. ~Better(x, x) /\ ~Better(y, y)
    BY <1>1, BetterIsAsymmetric
  <2>3. QED BY <2>1, <2>2
<1>3. \A z \in Graded : /\ Better(z, y) => Better(z, x)
                        /\ Better(x, z) => Better(y, z)
  BY <1>1, RankingIsWeakOrder DEF Tied
<1>4. Ahead(Y, y) \subseteq Ahead(X, x)
  BY <1>1, <1>2, <1>3 DEF Ahead
<1>5. NotBehind(Y, y) \ {y} \subseteq NotBehind(X, x) \ {x}
  BY <1>1, <1>2, <1>3 DEF NotBehind
<1>6. y \in NotBehind(Y, y) /\ x \in NotBehind(X, x)
  BY <1>2 DEF NotBehind
<1>7. IsFiniteSet(Ahead(X, x)) /\ IsFiniteSet(NotBehind(X, x)) /\ IsFiniteSet(NotBehind(Y, y))
  BY FS_Subset DEF Field, Ahead, NotBehind
<1>8. Cardinality(Ahead(Y, y)) <= Cardinality(Ahead(X, x))
  BY <1>4, <1>7, FS_Subset
<1>9. /\ Cardinality(NotBehind(Y, y) \ {y}) <= Cardinality(NotBehind(X, x) \ {x})
      /\ Cardinality(NotBehind(Y, y) \ {y}) = Cardinality(NotBehind(Y, y)) - 1
      /\ Cardinality(NotBehind(X, x) \ {x}) = Cardinality(NotBehind(X, x)) - 1
  BY <1>5, <1>6, <1>7, FS_Subset, FS_RemoveElement
<1>10. Cardinality(NotBehind(Y, y)) \in Nat /\ Cardinality(NotBehind(X, x)) \in Nat
  BY <1>7, FS_CardinalityType
<1>11. QED BY <1>8, <1>9, <1>10

\* The raised candidate's outcome is at least what it was.
LEMMA RaisedStands ==
  ASSUME NEW b, NEW e, NEW v, NEW c, NEW g, Changes(b, e, v, c, g), g > b[v][c],
         NEW p, p.seats \in Nat, p.minimum \in Grade
  PROVE  Standing[Calculate(e, p).outcome[c]] >= Standing[Calculate(b, p).outcome[c]]
<1> DEFINE m == p.minimum
           k == p.seats
           X == FieldOf(b, m)
           Y == FieldOf(e, m)
           x == GaugeOf(b, c)
           y == GaugeOf(e, c)
           R == Calculate(b, p).outcome[c]
           S == Calculate(e, p).outcome[c]
<1>1. c \in Candidates
  BY DEF Changes
<1>2. Quorate(e, p) <=> Quorate(b, p)
  BY ChangeIsLocal DEF Quorate
<1>3. /\ x \notin X \/ ~Quorate(b, p) => R = "NOT_ELECTABLE"
      /\ x \in X /\ Quorate(b, p) =>
           R = IF Cardinality(NotBehind(X, x)) <= k THEN "SEATED"
               ELSE IF Cardinality(Ahead(X, x)) < k THEN "UNRESOLVED" ELSE "RESERVE"
  BY <1>1, OutcomeByCounts
<1>4. /\ y \notin Y \/ ~Quorate(e, p) => S = "NOT_ELECTABLE"
      /\ y \in Y /\ Quorate(e, p) =>
           S = IF Cardinality(NotBehind(Y, y)) <= k THEN "SEATED"
               ELSE IF Cardinality(Ahead(Y, y)) < k THEN "UNRESOLVED" ELSE "RESERVE"
  BY <1>1, OutcomeByCounts
<1>5. k \in Nat
  OBVIOUS
<1> HIDE DEF k, X, Y, x, y, R, S
<1>6. CASE v \notin Valid(b)
  <2>1. \A d \in Candidates : GaugeOf(e, d) = GaugeOf(b, d)
    BY <1>6, OthersKeepHistograms DEF GaugeOf
  <2>2. X = Y /\ x = y
    BY <2>1, <1>1 DEF X, Y, x, y, FieldOf, GaugesOf
  <2>3. R = S
    BY <2>2, <1>2, <1>3, <1>4
  <2>4. Standing[R] \in Nat
    BY <1>3 DEF Standing
  <2>5. QED BY <2>3, <2>4 DEF R, S
<1>7. CASE v \in Valid(b) /\ x \in X /\ Quorate(b, p)
  <2>1. \A d \in Candidates : d # c => GaugeOf(e, d) = GaugeOf(b, d)
    BY OthersKeepHistograms DEF GaugeOf
  <2>2. Field(X) /\ Field(Y)
    BY ElectableAreField DEF X, Y
  <2>3. ~Better(x, y) /\ y.grade # None
    <3> DEFINE h == Histogram(b, c)
               old == b[v][c]
               w == Power[v]
    <3>1. /\ Histogram(e, c) = Raised(h, old, g, w)
          /\ w \in Nat /\ w <= h[old + 1] /\ Cumulated(h)[1] # 0
      BY <1>7, OwnHistogramIsRaised
    <3>2. old \in Grade /\ g \in Grade /\ old < g /\ h \in Histograms
      BY JudgmentAssumption, HistogramIs DEF Changes, Grade
    <3>3. x = CandidateGauge(c, h) /\ y = CandidateGauge(c, Raised(h, old, g, w))
      BY <3>1 DEF x, y, GaugeOf
    <3> HIDE DEF h, old, w
    <3>4. ~Better(x, y)
      BY <3>1, <3>2, <3>3, <1>1, RaisingNeverWorsensGauge
    <3>5. Raised(h, old, g, w) \in Histograms
      BY <3>1, HistogramIs
    <3>6. Cumulated(Raised(h, old, g, w))[1] # 0
      <4>1. \A i \in 1 .. 5 : Raised(h, old, g, w)[i] \in Nat
        BY <3>5 DEF Histograms
      <4>2. Raised(h, old, g, w)[g + 1] = h[g + 1] + w
        BY <3>2 DEF Raised, Histograms, Grade
      <4>3. w > 0 /\ h[g + 1] \in Nat
        BY <3>1, <3>2, <1>7 DEF Valid, w, Histograms, Grade
      <4>4. Raised(h, old, g, w)[g + 1] > 0
        BY <4>2, <4>3, <3>1
      <4> HIDE DEF h
      <4>5. QED BY <4>1, <4>4, <3>2 DEF Cumulated, Grade
    <3>7. QualifyingGrade(Cumulated(Raised(h, old, g, w))) \in Grade
      BY <3>5, <3>6, QualifyingGradeIsGreatest
    <3>8. y.grade # None
      BY <3>3, <3>7, NoneIsNoGrade DEF CandidateGauge
    <3>9. QED BY <3>4, <3>8
  <2>4. x \in Graded /\ y \in Graded /\ x.id = c /\ y.id = c
    <3>1. x.grade # None
      BY <1>7 DEF X, FieldOf, Electable
    <3>2. QED BY <2>3, <3>1, <1>1, GaugeIs DEF x, y
  <2>5. y \in Y
    <3>1. x.grade >= m
      BY <1>7 DEF X, FieldOf, Electable
    <3>2. x.grade \in Nat /\ y.grade \in Nat /\ x.grade <= y.grade
      BY <2>3, <2>4 DEF Better, Graded, Grade
    <3>3. m \in Nat
      BY DEF Grade
    <3> HIDE DEF m
    <3>4. y.grade >= m
      BY <3>1, <3>2, <3>3
    <3>5. y \in GaugesOf(e)
      BY <1>1 DEF GaugesOf, y
    <3>6. QED BY <3>4, <3>5, <2>3 DEF Y, FieldOf, Electable, m
  <2>6. \A z : z.id # x.id => (z \in X <=> z \in Y)
    <3>1. \A d \in Candidates : GaugeOf(e, d).id = d /\ GaugeOf(b, d).id = d
      BY GaugeIs
    <3>2. \A z : z.id # c => (z \in GaugesOf(b) <=> z \in GaugesOf(e))
      BY <2>1, <3>1 DEF GaugesOf
    <3>3. QED BY <3>2, <2>4 DEF X, Y, FieldOf, Electable
  <2>7. /\ Cardinality(Ahead(Y, y)) <= Cardinality(Ahead(X, x))
        /\ Cardinality(NotBehind(Y, y)) <= Cardinality(NotBehind(X, x))
    BY <2>2, <2>3, <2>4, <2>5, <2>6, <1>7, CountsFall
  <2>8. /\ Cardinality(Ahead(X, x)) \in Nat /\ Cardinality(NotBehind(X, x)) \in Nat
        /\ Cardinality(Ahead(Y, y)) \in Nat /\ Cardinality(NotBehind(Y, y)) \in Nat
    BY <2>2, <2>5, <1>7, CountsFollow
  <2>9. QED BY <2>5, <2>7, <2>8, <1>2, <1>3, <1>4, <1>5, <1>7 DEF Standing, R, S
<1>8. CASE x \notin X \/ ~Quorate(b, p)
  BY <1>3, <1>4, <1>8 DEF Standing, R, S
<1>9. QED BY <1>6, <1>7, <1>8

\* In every election: a voter who raises one candidate's grade, all else as before, never
\* lowers that candidate's outcome, whatever that does to medians, bands and ties
\* (calculateMajorityJudgment).
THEOREM RaisingNeverHurtsAnybody == Spec => RaisingNeverHurts
<1> DEFINE Raises == \A v \in Voters, c \in Candidates :
             ballots[v] # None /\ ballots'[v][c] > ballots[v][c]
             => Standing[verdict'.outcome[c]] >= Standing[verdict.outcome[c]]
<1>1. JudgmentInv /\ JudgmentInv' /\ [Next]_vars => [Raises]_vars
  <2>1. SUFFICES ASSUME JudgmentInv, JudgmentInv', Next,
                        NEW v \in Voters, NEW c \in Candidates,
                        ballots[v] # None, ballots'[v][c] > ballots[v][c]
                 PROVE  Standing[verdict'.outcome[c]] >= Standing[verdict.outcome[c]]
    BY DEF Raises
  <2>2. ballots[v] \in [Candidates -> GradesGiven] /\ ballots[v][c] \in Nat
    <3>1. ballots[v] \in [Candidates -> GradesGiven]
      BY <2>1 DEF JudgmentInv
    <3>2. ballots[v][c] \in Grade
      BY <3>1, JudgmentAssumption
    <3>3. QED BY <3>1, <3>2 DEF Grade
  <2>3. ballots' # ballots /\ ballots'[v] # ballots[v]
    BY <2>1, <2>2
  <2>4. ASSUME NEW u \in Voters, NEW given \in [Candidates -> GradesGiven], Vote(u, given)
        PROVE  FALSE
    <3>1. u # v
      BY <2>1, <2>4 DEF Vote
    <3>2. ballots'[v] = ballots[v]
      BY <2>1, <2>4, <3>1 DEF Vote, JudgmentInv
    <3>3. QED BY <2>3, <3>2
  <2>5. ASSUME NEW u \in Voters, NEW d \in Candidates, NEW g \in GradesGiven, Regrade(u, d, g)
        PROVE  Standing[verdict'.outcome[c]] >= Standing[verdict.outcome[c]]
    <3>1. u = v
      BY <2>1, <2>3, <2>5 DEF Regrade, JudgmentInv
    <3>2. d = c
      BY <2>1, <2>2, <2>5, <3>1 DEF Regrade, JudgmentInv
    <3>3. Changes(ballots, ballots', v, c, g) /\ ballots'[v][c] = g
      BY <2>1, <2>2, <2>5, <3>1, <3>2 DEF Regrade, JudgmentInv, Changes
    <3>4. /\ rules.seats \in Nat /\ rules.minimum \in Grade
          /\ verdict = Calculate(ballots, rules) /\ verdict' = Calculate(ballots', rules)
      BY <2>1, <2>5, JudgmentAssumption DEF JudgmentInv, Regrade
    <3>5. g > ballots[v][c]
      BY <2>1, <3>3
    <3>6. QED BY <3>3, <3>4, <3>5, RaisedStands
  <2>6. QED BY <2>1, <2>4, <2>5 DEF Next
<1>2. QED BY <1>1, JudgmentInvariant, PTL DEF Spec, RaisingNeverHurts

-----------------------------------------------------------------------------
(* Drawing the tied group *)

\* There is one way to list a set in a given order.
LEMMA OneEnumeration ==
  ASSUME NEW S, NEW R, NEW p, Enumerates(p, S, R), NEW q, Enumerates(q, S, R)
  PROVE  p = q
<1>1. ASSUME NEW i \in 1 .. Cardinality(S) PROVE p[i] = q[i]
  <2>1. p[i] \in S
    BY DEF Enumerates
  <2>2. PICK j \in 1 .. Cardinality(S) : q[j] = p[i]
    BY <2>1 DEF Enumerates
  <2>3. Cardinality(AheadOf(R, S, p[i])) = i - 1 /\ Cardinality(AheadOf(R, S, q[j])) = j - 1
    BY DEF Enumerates
  <2>4. i - 1 = j - 1 /\ i \in Int /\ j \in Int
    BY <2>2, <2>3
  <2>5. i = j
    BY <2>4
  <2>6. QED BY <2>2, <2>5
<1>2. p \in [1 .. Cardinality(S) -> S] /\ q \in [1 .. Cardinality(S) -> S]
  BY DEF Enumerates
<1>3. p = [i \in 1 .. Cardinality(S) |-> p[i]] /\ q = [i \in 1 .. Cardinality(S) |-> q[i]]
  BY <1>2
<1>4. QED BY <1>1, <1>3

\* There are as many ids as gauges.
LEMMA AsManyIds ==
  ASSUME NEW X, Field(X), NEW S \in SUBSET X
  PROVE  IsFiniteSet(IdsOf(S)) /\ Cardinality(IdsOf(S)) = Cardinality(S)
<1> DEFINE f == [x \in S |-> x.id]
<1>1. f \in [S -> IdsOf(S)] /\ \A x \in S : f[x] = x.id
  BY DEF IdsOf
<1>2. \A y \in IdsOf(S) : \E x \in S : f[x] = y
  BY <1>1 DEF IdsOf
<1>3. \A x, y \in S : f[x] = f[y] => x = y
  BY <1>1 DEF Field
<1> HIDE DEF f
<1>4. f \in Bijection(S, IdsOf(S))
  BY <1>1, <1>2, <1>3 DEF Bijection, Injection, IsInjective, Surjection
<1>5. IsFiniteSet(S) /\ ExistsBijection(S, IdsOf(S))
  BY <1>4, FS_Subset DEF Field, ExistsBijection
<1>6. QED BY <1>5, FS_Bijection

\* By rank and then by id, as the recorded order finds the candidates.
Placed(rank, S) ==
  {p \in S \X S : \/ rank[p[1]] < rank[p[2]]
                  \/ rank[p[1]] = rank[p[2]] /\ p[1] < p[2]}

\* Ranks and ids put the candidates in the order in which the gauges are.
LEMMA RanksPlaceAsListed ==
  ASSUME NEW X, Field(X), NEW rank, \A x \in X : rank[x.id] = Cardinality(Ahead(X, x)) + 1
  PROVE  \A l, r \in X :
           <<l.id, r.id>> \in Placed(rank, IdsOf(X)) <=> <<l, r>> \in Listed(X)
<1>1. SUFFICES ASSUME NEW l \in X, NEW r \in X
               PROVE  <<l.id, r.id>> \in Placed(rank, IdsOf(X)) <=> <<l, r>> \in Listed(X)
  OBVIOUS
<1>2. l \in Graded /\ r \in Graded /\ l.id \in Nat /\ r.id \in Nat
  BY JudgmentAssumption DEF Field, Graded
<1>3. l.id \in IdsOf(X) /\ r.id \in IdsOf(X)
  BY DEF IdsOf
<1> DEFINE m == Cardinality(Ahead(X, l))
           n == Cardinality(Ahead(X, r))
<1>4. m \in Nat /\ n \in Nat
  BY CountsFollow
<1>5. rank[l.id] = m + 1 /\ rank[r.id] = n + 1
  OBVIOUS
<1>6. Better(l, r) <=> m < n
  <2>1. /\ Better(l, r) => Cardinality(NotBehind(X, l)) <= n
        /\ m < Cardinality(NotBehind(X, l)) /\ Cardinality(NotBehind(X, l)) \in Nat
        /\ ~Better(l, r) => n <= m
    BY CountsFollow
  <2> HIDE DEF m, n
  <2>2. QED BY <2>1, <1>4
<1>7. Better(r, l) <=> n < m
  <2>1. /\ Better(r, l) => Cardinality(NotBehind(X, r)) <= m
        /\ n < Cardinality(NotBehind(X, r)) /\ Cardinality(NotBehind(X, r)) \in Nat
        /\ ~Better(r, l) => m <= n
    BY CountsFollow
  <2> HIDE DEF m, n
  <2>2. QED BY <2>1, <1>4
<1> HIDE DEF m, n
<1>8. <<l.id, r.id>> \in Placed(rank, IdsOf(X)) <=> m < n \/ (m = n /\ l.id < r.id)
  BY <1>3, <1>4, <1>5 DEF Placed
<1>9. <<l, r>> \in Listed(X) <=> IF l.id < r.id THEN ~Better(r, l) ELSE Better(l, r)
  BY DEF Listed
<1>10. QED BY <1>2, <1>4, <1>6, <1>7, <1>8, <1>9

\* The candidates S by rank and id.
ByRank(rank, S) ==
  Sorted(S, LAMBDA c, d : \/ rank[c] < rank[d]
                          \/ rank[c] = rank[d] /\ c < d)

\* So sorting by ranks gives the order of the gauges again
\* (applyMajorityJudgmentTieResolution).
LEMMA RanksGiveIdOrder ==
  ASSUME NEW X, Field(X), NEW rank, \A x \in X : rank[x.id] = Cardinality(Ahead(X, x)) + 1,
         NEW S, S = IdsOf(X)
  PROVE  ByRank(rank, S) = IdOrder(X)
<1> DEFINE R == Placed(rank, S)
           n == Cardinality(S)
           q == Ordered(X)
           ahead == [x \in S |-> Cardinality({y \in S : \/ rank[y] < rank[x]
                                                        \/ rank[y] = rank[x] /\ y < x})]
           order == [i \in 1 .. n |-> CHOOSE x \in S : ahead[x] = i - 1]
<1>1. IsFiniteSet(S) /\ n = Cardinality(X)
  BY AsManyIds
<1>2. /\ S \subseteq Nat
      /\ \A c \in S : \E x \in X : x.id = c
      /\ \A x \in X : x.id \in S
  BY JudgmentAssumption DEF IdsOf, Field, Graded
<1>3. \A c \in S : rank[c] \in Nat
  <2>1. ASSUME NEW x \in X PROVE rank[x.id] \in Nat
    <3>1. Cardinality(Ahead(X, x)) \in Nat
      BY CountsFollow
    <3>2. QED BY <3>1
  <2>2. QED BY <2>1, <1>2
<1>4. LinearOrder(R, S)
  BY <1>2, <1>3 DEF LinearOrder, Placed
<1>5. \A x \in S : ahead[x] = Cardinality(AheadOf(R, S, x))
  <2>1. \A x \in S : {y \in S : rank[y] < rank[x] \/ (rank[y] = rank[x] /\ y < x)}
                       = AheadOf(R, S, x)
    BY DEF AheadOf, Placed
  <2>2. QED BY <2>1
<1>6. Enumerates(order, S, R)
  <2> HIDE DEF ahead, R
  <2>1. QED BY <1>1, <1>4, <1>5, SortedEnumerates
<1>7. Enumerates(IdOrder(X), S, R)
  <2> HIDE DEF R
  <2>1. /\ Enumerates(q, X, Listed(X))
        /\ \A i \in 1 .. n : q[i] \in X /\ IdOrder(X)[i] = q[i].id
    BY <1>1, OrderedIsListed DEF Enumerates, IdOrder
  <2>2. \A l, r \in X : <<l.id, r.id>> \in R <=> <<l, r>> \in Listed(X)
    BY RanksPlaceAsListed DEF R
  <2> HIDE DEF q
  <2>3. n \in Nat /\ IdOrder(X) \in [1 .. n -> S]
    BY <1>1, <1>2, <2>1, FS_CardinalityType DEF IdOrder, q
  <2>4. \A c \in S : \E i \in 1 .. n : IdOrder(X)[i] = c
    BY <1>1, <1>2, <2>1 DEF Enumerates
  <2>5. \A i, j \in 1 .. n : i < j <=> <<IdOrder(X)[i], IdOrder(X)[j]>> \in R
    <3>1. ASSUME NEW i \in 1 .. n, NEW j \in 1 .. n
          PROVE  i < j <=> <<IdOrder(X)[i], IdOrder(X)[j]>> \in R
      <4>1. i < j <=> <<q[i], q[j]>> \in Listed(X)
        BY <1>1, <2>1 DEF Enumerates
      <4>2. <<q[i].id, q[j].id>> \in R <=> <<q[i], q[j]>> \in Listed(X)
        BY <2>1, <2>2
      <4>3. QED BY <4>1, <4>2, <2>1
    <3>2. QED BY <3>1
  <2>6. ASSUME NEW i \in 1 .. n
        PROVE  Cardinality(AheadOf(R, S, IdOrder(X)[i])) = i - 1
    <3> DEFINE A == AheadOf(Listed(X), X, q[i])
    <3>1. A \in SUBSET X /\ Cardinality(A) = i - 1
      BY <1>1, <2>1 DEF Enumerates, AheadOf
    <3>2. AheadOf(R, S, IdOrder(X)[i]) = IdsOf(A)
      <4>1. \A x \in X : <<x.id, IdOrder(X)[i]>> \in R <=> x \in A
        BY <2>1, <2>2 DEF AheadOf
      <4>2. QED BY <3>1, <4>1, <1>2 DEF AheadOf, IdsOf
    <3>3. QED BY <3>1, <3>2, AsManyIds
  <2>7. QED BY <2>3, <2>4, <2>5, <2>6 DEF Enumerates
<1>8. order = IdOrder(X)
  <2> HIDE DEF order, R
  <2>1. QED BY <1>6, <1>7, OneEnumeration
<1>9. QED BY <1>8 DEF ByRank, Sorted

\* The members of a group stand in the places behind a and up to e, of n.
StandsAt(group, order, n, a, e) ==
  /\ n \in Nat /\ a \in Nat /\ e \in Nat /\ a < e /\ e <= n
  /\ DOMAIN order = 1 .. n
  /\ \A i \in 1 .. n : order[i] \in group <=> a < i /\ i <= e

\* The group takes the drawn order in its places, and everybody else stays.
LEMMA RedrawnIs ==
  ASSUME NEW group, NEW order, NEW n, NEW a, NEW e, StandsAt(group, order, n, a, e), NEW drawn
  PROVE  /\ DOMAIN Redrawn(order, group, drawn) = 1 .. n
         /\ Len(Redrawn(order, group, drawn)) = n
         /\ \A i \in 1 .. n : Redrawn(order, group, drawn)[i]
                             = IF a < i /\ i <= e THEN drawn[i - a] ELSE order[i]
<1> USE DEF StandsAt
<1> DEFINE r == Redrawn(order, group, drawn)
<1> DEFINE Behind(i) == {j \in 1 .. n : order[j] \in group /\ j <= i}
<1>1. r = [i \in 1 .. n |-> IF order[i] \in group THEN drawn[Cardinality(Behind(i))]
                            ELSE order[i]]
  BY DEF Redrawn
<1>2. ASSUME NEW i \in 1 .. n, a < i, i <= e PROVE Cardinality(Behind(i)) = i - a
  <2>1. Behind(i) = a + 1 .. i
    BY <1>2
  <2>2. Cardinality(a + 1 .. i) = IF a + 1 > i THEN 0 ELSE i - (a + 1) + 1
    BY FS_Interval
  <2>3. ~ a + 1 > i /\ i - (a + 1) + 1 = i - a
    BY <1>2
  <2>4. QED BY <2>1, <2>2, <2>3
<1> HIDE DEF Behind, r
<1>3. \A i \in 1 .. n : r[i] = IF a < i /\ i <= e THEN drawn[i - a] ELSE order[i]
  BY <1>1, <1>2
<1>4. Len(r) = n
  BY <1>1
<1>5. QED BY <1>1, <1>3, <1>4 DEF r

\* An order of a group has each member once, and there are no others.
LEMMA OrdersAreWhole ==
  ASSUME NEW U, IsFiniteSet(U), NEW drawn \in SetToSeqs(U)
  PROVE  /\ Cardinality(U) \in Nat /\ drawn \in [1 .. Cardinality(U) -> U]
         /\ \A i, j \in 1 .. Cardinality(U) : drawn[i] = drawn[j] => i = j
         /\ \A u \in U : \E i \in 1 .. Cardinality(U) : drawn[i] = u
<1> DEFINE D == 1 .. Cardinality(U)
<1>1. Cardinality(U) \in Nat
  BY FS_CardinalityType
<1>2. drawn \in [D -> U] /\ \A i, j \in D : drawn[i] = drawn[j] => i = j
  BY DEF SetToSeqs
<1>3. drawn \in Injection(D, U)
  BY <1>2 DEF Injection, IsInjective
<1>4. Cardinality(D) = Cardinality(U)
  BY <1>1, FS_Interval
<1>5. drawn \in Surjection(D, U)
  BY <1>3, <1>4, FS_Injection
<1>6. QED BY <1>1, <1>2, <1>5 DEF Surjection

\* The places before and after the last seat, and what stands there.
Slice(r, from, to) == {r[i] : i \in from .. to}

\* A stretch of a list has what stands in its places.
LEMMA StretchIs ==
  ASSUME NEW r, NEW from \in Int, NEW to \in Int, from <= to + 1
  PROVE  ToSet(SubSeq(r, from, to)) = Slice(r, from, to)
         /\ Len(SubSeq(r, from, to)) = to - from + 1
<1> DEFINE S == Slice(r, from, to)
           t == SubSeq(r, from, to)
           m == to - from + 1
<1>1. \A i \in from .. to : r[i] \in S
  BY DEF Slice
<1>2. /\ t \in Seq(S)
      /\ Len(t) = IF from <= to THEN m ELSE 0
      /\ \A i \in 1 .. m : t[i] = r[from + i - 1]
  <2> HIDE DEF S
  <2>1. QED BY <1>1, SubSeqProperties
<1>3. Len(t) = m /\ m \in Nat
  BY <1>2
<1>4. DOMAIN t = 1 .. m
  BY <1>2, <1>3
<1>5. \A i \in 1 .. m : t[i] = r[from + i - 1]
  BY <1>2
<1> HIDE DEF t, m
<1>6. ASSUME NEW i \in 1 .. m PROVE t[i] \in S
  <2>1. from + i - 1 \in from .. to
    BY <1>6 DEF m
  <2>2. QED BY <2>1, <1>1, <1>5
<1>7. ASSUME NEW j \in from .. to PROVE \E i \in 1 .. m : t[i] = r[j]
  <2>1. j - from + 1 \in 1 .. m /\ from + (j - from + 1) - 1 = j
    BY DEF m
  <2>2. QED BY <2>1, <1>5
<1>8. ToSet(t) = S
  BY <1>4, <1>6, <1>7 DEF ToSet, Slice
<1>9. QED BY <1>3, <1>8 DEF m, t

ResultFields == {"status", "gauges", "rank", "outcome", "seated", "reserve", "unresolved",
           "referred", "reserveRuns"}

\* A result of the calculator has these fields.
LEMMA ResultHasFields == \A b, p : DOMAIN Calculate(b, p) = ResultFields
BY DEF Calculate, ResultFields

\* The candidates by rank and id, with the group in the drawn order.
NewOrder(result, drawn) ==
  Redrawn(ByRank(result.rank, {c \in Candidates : result.rank[c] # None}),
          result.unresolved, drawn)

\* Where somebody stands in an order.
PlaceOf(c, order) == CHOOSE i \in DOMAIN order : order[i] = c

\* s is a result with the seats and the reserve taken from an order.
Redraws(s, result, order, seats) ==
  /\ s.seated = SubSeq(order, 1, Min({seats, Len(order)}))
  /\ s.reserve = SubSeq(order, seats + 1, Len(order))
  /\ s.referred = seats - Len(s.seated)
  /\ \A c \in Candidates :
       /\ s.outcome[c] = Outcome(c, {}, s.seated, s.reserve)
       /\ s.rank[c] = IF c \in result.unresolved THEN PlaceOf(c, order) ELSE result.rank[c]

\* What the drawn order makes of a result.
LEMMA ResolveIs ==
  ASSUME NEW result, DOMAIN result = ResultFields, NEW drawn, NEW p
  PROVE  Redraws(Resolve(result, drawn, p), result, NewOrder(result, drawn), p.seats)
<1> DEFINE resolved == NewOrder(result, drawn)
           seated == SubSeq(resolved, 1, Min({p.seats, Len(resolved)}))
           reserve == SubSeq(resolved, p.seats + 1, Len(resolved))
           rank == [c \in Candidates |->
                      IF c \in result.unresolved
                      THEN CHOOSE i \in DOMAIN resolved : resolved[i] = c
                      ELSE result.rank[c]]
           outcome == [c \in Candidates |-> Outcome(c, {}, seated, reserve)]
           s == Resolve(result, drawn, p)
<1>1. s = [ result EXCEPT
              !.status = "FINAL", !.rank = rank, !.outcome = outcome, !.seated = seated,
              !.reserve = reserve, !.unresolved = {}, !.referred = p.seats - Len(seated),
              !.reserveRuns = TRUE ]
  BY DEF Resolve, NewOrder, ByRank
<1> HIDE DEF rank, outcome, s, seated, reserve
<1>2. /\ s.seated = seated /\ s.reserve = reserve /\ s.referred = p.seats - Len(seated)
      /\ s.rank = rank /\ s.outcome = outcome
  BY <1>1 DEF ResultFields
<1>3. \A c \in Candidates : rank[c] = IF c \in result.unresolved THEN PlaceOf(c, resolved)
                                     ELSE result.rank[c]
  BY DEF rank, PlaceOf
<1>4. \A c \in Candidates : outcome[c] = Outcome(c, {}, seated, reserve)
  BY DEF outcome
<1>5. QED BY <1>2, <1>3, <1>4 DEF s, seated, reserve, Redraws

\* The places of the tied group in the order, and who stands there.
LEMMA DrawIs ==
  ASSUME NEW X, Field(X), NEW k \in Nat, NEW x \in Astride(X, k), NEW T,
         T = IdsOf(Astride(X, k)), NEW drawn \in SetToSeqs(T),
         NEW r, r = Redrawn(IdOrder(X), T, drawn)
  PROVE  LET n == Cardinality(X)
             a == Cardinality(Ahead(X, x))
             e == Cardinality(NotBehind(X, x))
         IN  /\ n \in Nat /\ a \in Nat /\ e \in Nat /\ a < k /\ k < e /\ e <= n
             /\ DOMAIN r = 1 .. n /\ Len(r) = n
             /\ \A i \in 1 .. n :
                  /\ r[i] = IF a < i /\ i <= e THEN drawn[i - a] ELSE IdOrder(X)[i]
                  /\ IdOrder(X)[i] \in T <=> a < i /\ i <= e
             /\ drawn \in [1 .. e - a -> T]
             /\ \A i, j \in 1 .. e - a : drawn[i] = drawn[j] => i = j
             /\ \A u \in T : \E i \in 1 .. e - a : drawn[i] = u
             /\ \A y \in Astride(X, k) : Cardinality(Ahead(X, y)) = a
<1> DEFINE n == Cardinality(X)
           a == Cardinality(Ahead(X, x))
           e == Cardinality(NotBehind(X, x))
           q == Ordered(X)
<1>1. x \in X /\ Astride(X, k) \subseteq X /\ a < k /\ k < e
  BY DEF Astride
<1>2. n \in Nat /\ a \in 0 .. n /\ e \in 0 .. n
  BY <1>1, PlacesInField
<1>3. \A i \in 1 .. n : /\ q[i] \in X /\ IdOrder(X)[i] = q[i].id
                        /\ q[i] \in Astride(X, k) <=> a < i /\ i <= e
  <2>1. \A i \in 1 .. n : q[i] \in X
    BY OrderedIsListed DEF Enumerates
  <2>2. \A i \in 1 .. n : q[i] \in Astride(X, k) <=> a < i /\ i <= e
    BY AstrideIsOneGroup
  <2>3. QED BY <2>1, <2>2 DEF IdOrder
<1>4. \A i \in 1 .. n : IdOrder(X)[i] \in T <=> a < i /\ i <= e
  BY <1>1, <1>3, IdsTellApart
<1>5. DOMAIN IdOrder(X) = 1 .. n
  BY DEF IdOrder
<1>6. IsFiniteSet(T) /\ Cardinality(T) = e - a
  BY <1>1, AsManyIds, AstrideIsAsLarge
<1>7. /\ drawn \in [1 .. e - a -> T]
      /\ \A i, j \in 1 .. e - a : drawn[i] = drawn[j] => i = j
      /\ \A u \in T : \E i \in 1 .. e - a : drawn[i] = u
  <2> HIDE DEF a, e
  <2>1. QED BY <1>6, OrdersAreWhole
<1>8. \A y \in Astride(X, k) : Cardinality(Ahead(X, y)) = a
  <2>1. ASSUME NEW y \in Astride(X, k)
        PROVE  Cardinality(Ahead(X, y)) = a
    <3>1. y \in X /\ x \in X /\ Tied(x, y)
      BY <1>1, <2>1, BestFirst
    <3>2. /\ Cardinality(Ahead(X, y)) <= a /\ a <= Cardinality(Ahead(X, y))
          /\ Cardinality(Ahead(X, y)) \in Nat
      BY <3>1, CountsFollow DEF Tied
    <3> HIDE DEF a
    <3>3. QED BY <3>2, <1>2
  <2>2. QED BY <2>1
<1> HIDE DEF n, a, e, q
<1>9. /\ DOMAIN r = 1 .. n /\ Len(r) = n
      /\ \A i \in 1 .. n : r[i] = IF a < i /\ i <= e THEN drawn[i - a] ELSE IdOrder(X)[i]
  <2>1. n \in Nat /\ a \in Nat /\ e \in Nat /\ a < e /\ e <= n
    BY <1>1, <1>2
  <2> DEFINE order == IdOrder(X)
  <2>2. StandsAt(T, order, n, a, e)
    BY <2>1, <1>4, <1>5 DEF StandsAt
  <2> HIDE DEF order
  <2>3. /\ DOMAIN Redrawn(order, T, drawn) = 1 .. n /\ Len(Redrawn(order, T, drawn)) = n
        /\ \A i \in 1 .. n : Redrawn(order, T, drawn)[i]
                            = IF a < i /\ i <= e THEN drawn[i - a] ELSE order[i]
    BY <2>2, RedrawnIs
  <2>4. QED BY <2>3 DEF order
<1>10. QED BY <1>1, <1>2, <1>4, <1>7, <1>8, <1>9 DEF n, a, e

\* The drawn fill the contested seats and then the first places of the reserve, each in a
\* place of its own, and nobody else moves.
LEMMA DrawFills ==
  ASSUME NEW X, Field(X), NEW k \in Nat, NEW x \in Astride(X, k),
         NEW drawn \in SetToSeqs(IdsOf(Astride(X, k)))
  PROVE  LET T == IdsOf(Astride(X, k))
             r == Redrawn(IdOrder(X), T, drawn)
             a == Cardinality(Ahead(X, x))
             winners == Slice(drawn, 1, k - a)
         IN  /\ Slice(r, 1, k) = IdsOf(Within(X, k)) \cup winners
             /\ Slice(r, k + 1, Cardinality(X)) = IdsOf(Beyond(X, k)) \cup (T \ winners)
             /\ winners \subseteq T
             /\ DOMAIN drawn = 1 .. Cardinality(NotBehind(X, x)) - a
             /\ \A i \in DOMAIN drawn :
                  drawn[i] \in T /\ PlaceOf(drawn[i], r) = a + i
<1> DEFINE T == IdsOf(Astride(X, k))
           r == Redrawn(IdOrder(X), T, drawn)
           a == Cardinality(Ahead(X, x))
           n == Cardinality(X)
           winners == Slice(drawn, 1, k - a)
           e == Cardinality(NotBehind(X, x))
           q == Ordered(X)
           ids == IdOrder(X)
<1>1. /\ n \in Nat /\ a \in Nat /\ e \in Nat /\ a < k /\ k < e /\ e <= n
      /\ DOMAIN r = 1 .. n
      /\ \A i \in 1 .. n :
           /\ r[i] = IF a < i /\ i <= e THEN drawn[i - a] ELSE ids[i]
           /\ ids[i] \in T <=> a < i /\ i <= e
      /\ drawn \in [1 .. e - a -> T]
      /\ \A i, j \in 1 .. e - a : drawn[i] = drawn[j] => i = j
      /\ \A u \in T : \E i \in 1 .. e - a : drawn[i] = u
  BY DrawIs
<1>2. \A i \in 1 .. n : /\ q[i] \in X /\ ids[i] = q[i].id
                        /\ q[i] \in Astride(X, k) <=> a < i /\ i <= e
                        /\ q[i] \in Within(X, k) <=> i <= k /\ q[i] \notin Astride(X, k)
                        /\ q[i] \in Beyond(X, k) <=> i > k /\ q[i] \notin Astride(X, k)
  <2>1. \A i \in 1 .. n : q[i] \in X
    BY OrderedIsListed DEF Enumerates
  <2>2. \A i \in 1 .. n : q[i] \in Astride(X, k) <=> a < i /\ i <= e
    BY AstrideIsOneGroup
  <2>3. \A i \in 1 .. n : /\ q[i] \in Within(X, k) <=> i <= k /\ q[i] \notin Astride(X, k)
                          /\ q[i] \in Beyond(X, k) <=> i > k /\ q[i] \notin Astride(X, k)
    BY <2>1, SeatsPart
  <2>4. QED BY <2>1, <2>2, <2>3 DEF IdOrder
<1>3. \A y \in X : \E i \in 1 .. n : q[i] = y
  BY PlacesInField
<1>4. Within(X, k) \subseteq X /\ Beyond(X, k) \subseteq X
  BY DEF Within, Beyond
<1>0. winners = {drawn[i] : i \in 1 .. k - a}
  BY DEF Slice
<1> HIDE DEF T, r, a, n, winners, e, q, ids
<1>5. IdsOf(Within(X, k)) = {ids[i] : i \in 1 .. a}
  <2>1. ASSUME NEW y \in Within(X, k) PROVE \E i \in 1 .. a : ids[i] = y.id
    <3>1. PICK i \in 1 .. n : q[i] = y
      BY <1>3, <1>4
    <3>2. i \in 1 .. a /\ ids[i] = y.id
      BY <3>1, <1>1, <1>2
    <3>3. QED BY <3>2
  <2>2. ASSUME NEW i \in 1 .. a PROVE \E y \in Within(X, k) : ids[i] = y.id
    <3>1. i \in 1 .. n /\ q[i] \in Within(X, k) /\ ids[i] = q[i].id
      BY <1>1, <1>2
    <3>2. QED BY <3>1
  <2>3. QED BY <2>1, <2>2 DEF IdsOf
<1>6. IdsOf(Beyond(X, k)) = {ids[i] : i \in e + 1 .. n}
  <2>1. ASSUME NEW y \in Beyond(X, k) PROVE \E i \in e + 1 .. n : ids[i] = y.id
    <3>1. PICK i \in 1 .. n : q[i] = y
      BY <1>3, <1>4
    <3>2. i \in e + 1 .. n /\ ids[i] = y.id
      BY <3>1, <1>1, <1>2
    <3>3. QED BY <3>2
  <2>2. ASSUME NEW i \in e + 1 .. n PROVE \E y \in Beyond(X, k) : ids[i] = y.id
    <3>1. i \in 1 .. n /\ q[i] \in Beyond(X, k) /\ ids[i] = q[i].id
      BY <1>1, <1>2
    <3>2. QED BY <3>1
  <2>3. QED BY <2>1, <2>2 DEF IdsOf
<1>7. /\ \A i \in 1 .. a : r[i] = ids[i]
      /\ \A i \in e + 1 .. n : r[i] = ids[i]
      /\ \A i \in 1 .. e - a : a + i \in DOMAIN r /\ r[a + i] = drawn[i]
  <2>1. n \in Nat /\ a \in Nat /\ e \in Nat /\ a < e /\ e <= n
    BY <1>1
  <2>2. \A i \in 1 .. n : r[i] = IF a < i /\ i <= e THEN drawn[i - a] ELSE ids[i]
    BY <1>1
  <2>3. \A i \in 1 .. a : i \in 1 .. n /\ ~ a < i
    BY <2>1
  <2>4. \A i \in e + 1 .. n : i \in 1 .. n /\ ~ i <= e
    BY <2>1
  <2>5. \A i \in 1 .. e - a : a + i \in 1 .. n /\ a < a + i /\ a + i <= e /\ (a + i) - a = i
    BY <2>1
  <2>6. DOMAIN r = 1 .. n
    BY <1>1
  <2>7. QED BY <2>2, <2>3, <2>4, <2>5, <2>6
<1>8. Slice(r, 1, k) = IdsOf(Within(X, k)) \cup winners
  <2>1. \A i \in 1 .. k : IF i <= a THEN i \in 1 .. a
                          ELSE i - a \in 1 .. k - a /\ r[i] = drawn[i - a]
    BY <1>1
  <2>2. /\ \A i \in 1 .. a : i \in 1 .. k
        /\ \A i \in 1 .. k - a : a + i \in 1 .. k /\ i \in 1 .. e - a
    BY <1>1
  <2>3. Slice(r, 1, k) \subseteq {ids[i] : i \in 1 .. a} \cup winners
    BY <2>1, <1>0, <1>7 DEF Slice
  <2>4. {ids[i] : i \in 1 .. a} \cup winners \subseteq Slice(r, 1, k)
    BY <2>2, <1>0, <1>7 DEF Slice
  <2>5. QED BY <2>3, <2>4, <1>5
<1>9. T \ winners = {drawn[i] : i \in k - a + 1 .. e - a}
  <2>1. \A i \in 1 .. e - a : i \in 1 .. k - a \/ i \in k - a + 1 .. e - a
    BY <1>1
  <2>2. /\ \A i \in k - a + 1 .. e - a : i \in 1 .. e - a /\ i \notin 1 .. k - a
        /\ \A i \in 1 .. k - a : i \in 1 .. e - a
    BY <1>1
  <2>3. QED BY <2>1, <2>2, <1>0, <1>1
<1>10. Slice(r, k + 1, n) = IdsOf(Beyond(X, k)) \cup (T \ winners)
  <2> DEFINE rest == {drawn[i] : i \in k - a + 1 .. e - a}
  <2>1. \A i \in k + 1 .. n : IF i > e THEN i \in e + 1 .. n
                              ELSE i - a \in k - a + 1 .. e - a /\ r[i] = drawn[i - a]
    BY <1>1
  <2>2. /\ \A i \in e + 1 .. n : i \in k + 1 .. n
        /\ \A i \in k - a + 1 .. e - a : a + i \in k + 1 .. n /\ i \in 1 .. e - a
    BY <1>1
  <2>3. Slice(r, k + 1, n) \subseteq {ids[i] : i \in e + 1 .. n} \cup rest
    BY <2>1, <1>7 DEF Slice
  <2>4. {ids[i] : i \in e + 1 .. n} \cup rest \subseteq Slice(r, k + 1, n)
    BY <2>2, <1>7 DEF Slice
  <2>5. QED BY <2>3, <2>4, <1>6, <1>9
<1>11. winners \subseteq T
  <2>1. \A i \in 1 .. k - a : i \in 1 .. e - a
    BY <1>1
  <2>2. QED BY <2>1, <1>0, <1>1
<1>12. ASSUME NEW i \in 1 .. e - a PROVE PlaceOf(drawn[i], r) = a + i
  <2>1. a + i \in DOMAIN r /\ r[a + i] = drawn[i]
    BY <1>7
  <2>2. ASSUME NEW j \in DOMAIN r, r[j] = drawn[i] PROVE j = a + i
    <3>1. drawn[i] \in T
      BY <1>1
    <3>2. a < j /\ j <= e
      BY <2>2, <3>1, <1>1
    <3>3. j - a \in 1 .. e - a /\ r[j] = drawn[j - a]
      BY <2>2, <3>2, <1>1
    <3>4. j - a = i
      BY <2>2, <3>3, <1>1
    <3>5. j \in Int /\ a \in Int /\ i \in Int
      <4>1. n \in Nat /\ DOMAIN r = 1 .. n /\ a \in Nat
        BY <1>1
      <4>2. QED BY <2>2, <4>1
    <3>6. QED BY <3>4, <3>5
  <2>3. QED BY <2>1, <2>2 DEF PlaceOf
<1>13. DOMAIN drawn = 1 .. e - a /\ \A i \in DOMAIN drawn : drawn[i] \in T
  BY <1>1
<1>14. QED BY <1>8, <1>10, <1>11, <1>12, <1>13 DEF T, r, a, n, winners, e

\* In every election and for every order drawn: the order decides the tied group and nothing
\* else (applyMajorityJudgmentTieResolution).
THEOREM DrawAlwaysSettlesOnlyTheGroup == Spec => []DrawSettlesOnlyTheGroup
<1>1. JudgmentInv => DrawSettlesOnlyTheGroup
  <2> DEFINE k == rules.seats
             X == FieldOf(ballots, rules.minimum)
             T == verdict.unresolved
             quorate == Quorate(ballots, rules)
  <2>1. ASSUME JudgmentInv, NEW drawn \in Resolvable(verdict)
        PROVE  LET s == Resolve(verdict, drawn, rules)
                   winners == {drawn[i] : i \in 1..(rules.seats - Len(verdict.seated))}
               IN  /\ ToSet(s.seated) = ToSet(verdict.seated) \cup winners
                   /\ ToSet(s.reserve) = ToSet(verdict.reserve) \cup (verdict.unresolved \ winners)
                   /\ s.referred = 0
                   /\ \A i \in DOMAIN drawn : s.rank[drawn[i]] = verdict.rank[drawn[1]] + i - 1
                   /\ \A c \in Candidates \ verdict.unresolved :
                        s.outcome[c] = verdict.outcome[c] /\ s.rank[c] = verdict.rank[c]
    <3> DEFINE s == Resolve(verdict, drawn, rules)
               winners == {drawn[i] : i \in 1..(k - Len(verdict.seated))}
               r == NewOrder(verdict, drawn)
               n == Cardinality(X)
    <3>1. k \in Nat
      BY <2>1, JudgmentAssumption DEF JudgmentInv
    <3>2. /\ Reads(verdict, X, k, quorate) /\ Field(X) /\ DOMAIN verdict = ResultFields
      BY <2>1, <3>1, ResultByCounts, ElectableAreField, ResultHasFields DEF JudgmentInv
    <3>3. T # {} /\ drawn \in SetToSeqs(T)
      BY <2>1 DEF Resolvable
    <3> HIDE DEF k, X, T, quorate, s, n
    <3>4. quorate /\ T = IdsOf(Astride(X, k))
      BY <3>2, <3>3 DEF Reads, T
    <3>5. PICK x \in Astride(X, k) : TRUE
      BY <3>3, <3>4 DEF IdsOf
    <3> DEFINE a == Cardinality(Ahead(X, x))
               e == Cardinality(NotBehind(X, x))
    <3>6. /\ ToSet(verdict.seated) = IdsOf(Within(X, k))
          /\ ToSet(verdict.reserve) = IdsOf(Beyond(X, k))
          /\ Len(verdict.seated) = a
      BY <3>2, <3>4, <3>5 DEF Reads
    <3>7. r = Redrawn(IdOrder(X), T, drawn)
      <4>1. /\ \A y \in X : verdict.rank[y.id] = Cardinality(Ahead(X, y)) + 1
            /\ \A c \in Candidates : c \notin IdsOf(X) => verdict.rank[c] = None
        BY <3>2 DEF Reads
      <4>2. \A y \in X : y.id \in Candidates /\ verdict.rank[y.id] # None
        <5>1. ASSUME NEW y \in X PROVE verdict.rank[y.id] # None
          <6>1. Cardinality(Ahead(X, y)) + 1 \in Nat
            BY <3>2, CountsFollow
          <6>2. QED BY <4>1, <6>1, NoneIsNoNumber
        <5>2. QED BY <5>1, <3>2 DEF Field, Graded
      <4>3. {c \in Candidates : verdict.rank[c] # None} = IdsOf(X)
        BY <4>1, <4>2 DEF IdsOf
      <4>4. ByRank(verdict.rank, IdsOf(X)) = IdOrder(X)
        BY <3>2, <4>1, RanksGiveIdOrder
      <4>5. QED BY <4>3, <4>4 DEF NewOrder, T
    <3>8. /\ n \in Nat /\ a \in Nat /\ e \in Nat /\ a < k /\ k < e /\ e <= n /\ Len(r) = n
          /\ \A y \in Astride(X, k) : Cardinality(Ahead(X, y)) = a
      BY <3>1, <3>2, <3>3, <3>4, <3>5, <3>7, DrawIs DEF n
    <3>9. /\ Slice(r, 1, k) = IdsOf(Within(X, k)) \cup winners
          /\ Slice(r, k + 1, n) = IdsOf(Beyond(X, k)) \cup (T \ winners)
          /\ winners \subseteq T /\ DOMAIN drawn = 1 .. e - a
          /\ \A i \in DOMAIN drawn :
               drawn[i] \in T /\ PlaceOf(drawn[i], r) = a + i
      <4>1. winners = Slice(drawn, 1, k - a)
        BY <3>6 DEF Slice
      <4>2. drawn \in SetToSeqs(IdsOf(Astride(X, k))) /\ Field(X)
        BY <3>2, <3>3, <3>4
      <4> HIDE DEF winners, r
      <4>3. QED BY <4>1, <4>2, <3>1, <3>4, <3>5, <3>7, DrawFills DEF n
    <3> HIDE DEF winners, r, a, e
    <3>10. /\ s.seated = SubSeq(r, 1, Min({k, Len(r)}))
           /\ s.reserve = SubSeq(r, k + 1, Len(r))
           /\ s.referred = k - Len(s.seated)
           /\ \A c \in Candidates :
                /\ s.outcome[c] = Outcome(c, {}, s.seated, s.reserve)
                /\ s.rank[c] = IF c \in T THEN PlaceOf(c, r) ELSE verdict.rank[c]
      <4>1. DOMAIN verdict = ResultFields
        BY <3>2
      <4>2. Redraws(s, verdict, r, k)
        BY <4>1, ResolveIs DEF s, r, k
      <4>3. QED BY <4>2 DEF Redraws, T
    <3>11. Min({k, Len(r)}) = k
      BY <3>1, <3>8, MinOfTwo
    <3>12. /\ ToSet(s.seated) = Slice(r, 1, k) /\ Len(s.seated) = k
           /\ ToSet(s.reserve) = Slice(r, k + 1, n)
      <4>1. s.seated = SubSeq(r, 1, k) /\ s.reserve = SubSeq(r, k + 1, n)
        BY <3>8, <3>10, <3>11
      <4>2. ToSet(SubSeq(r, 1, k)) = Slice(r, 1, k) /\ Len(SubSeq(r, 1, k)) = k - 1 + 1
        BY <3>1, StretchIs
      <4>3. ToSet(SubSeq(r, k + 1, n)) = Slice(r, k + 1, n)
        BY <3>1, <3>8, StretchIs
      <4>4. QED BY <4>1, <4>2, <4>3, <3>1
    <3>13. /\ ToSet(s.seated) = ToSet(verdict.seated) \cup winners
           /\ ToSet(s.reserve) = ToSet(verdict.reserve) \cup (T \ winners)
      BY <3>6, <3>9, <3>12
    <3>14. s.referred = 0
      <4>1. s.referred = k - Len(s.seated)
        BY <3>10
      <4>2. Len(s.seated) = k
        BY <3>12
      <4>3. QED BY <4>1, <4>2, <3>1
    <3>15. T \subseteq Candidates
      BY <3>2, <3>4 DEF IdsOf, Astride, Field, Graded
    <3>16. \A i \in DOMAIN drawn : s.rank[drawn[i]] = verdict.rank[drawn[1]] + i - 1
      <4>1. ASSUME NEW i \in DOMAIN drawn PROVE s.rank[drawn[i]] = a + i
        BY <3>9, <3>10, <3>15
      <4>2. ASSUME NEW c \in T PROVE verdict.rank[c] = a + 1
        <5>1. PICK y \in Astride(X, k) : y.id = c
          BY <3>4 DEF IdsOf
        <5>2. verdict.rank[y.id] = Cardinality(Ahead(X, y)) + 1
          BY <3>2 DEF Reads, Astride
        <5>3. QED BY <5>1, <5>2, <3>8
      <4>3. DOMAIN drawn \subseteq Int /\ 1 \in DOMAIN drawn
        <5>1. DOMAIN drawn = 1 .. e - a
          BY <3>9
        <5>2. 1 <= e - a
          BY <3>1, <3>8
        <5>3. QED BY <5>1, <5>2
      <4>4. verdict.rank[drawn[1]] = a + 1
        BY <4>2, <4>3, <3>9
      <4>5. QED BY <4>1, <4>3, <4>4, <3>8
    <3>17. ASSUME NEW c \in Candidates \ T
           PROVE  s.outcome[c] = verdict.outcome[c] /\ s.rank[c] = verdict.rank[c]
      <4>1. s.rank[c] = verdict.rank[c] /\ s.outcome[c] = Outcome(c, {}, s.seated, s.reserve)
        BY <3>10
      <4>2. verdict.outcome[c] = IF c \in ToSet(verdict.seated) THEN "SEATED"
                                 ELSE IF c \in ToSet(verdict.reserve) THEN "RESERVE"
                                 ELSE "NOT_ELECTABLE"
        BY <3>2 DEF Reads, T
      <4>3. /\ c \in ToSet(s.seated) <=> c \in ToSet(verdict.seated)
            /\ c \in ToSet(s.reserve) <=> c \in ToSet(verdict.reserve)
        BY <3>9, <3>13
      <4>4. QED BY <4>1, <4>2, <4>3 DEF Outcome
    <3>18. QED BY <3>13, <3>14, <3>16, <3>17 DEF s, winners, T, k
  <2>2. QED BY <2>1 DEF DrawSettlesOnlyTheGroup
<1>2. QED BY <1>1, JudgmentInvariant, PTL

-----------------------------------------------------------------------------
(* Whole numbers *)

\* Dividing whole numbers never gains.
LEMMA DivisionFalls ==
  ASSUME NEW n \in Nat, NEW d \in Nat \ {0}
  PROVE  n \div d \in Nat /\ (n \div d) * d <= n
  OBVIOUS

\* A common factor can be left out.
LEMMA Cancel ==
  ASSUME NEW x \in Nat, NEW y \in Nat, NEW k \in Nat \ {0}, x * k <= y * k
  PROVE  x <= y
  OBVIOUS

\* A common factor keeps the order.
LEMMA Monotone ==
  ASSUME NEW x \in Nat, NEW y \in Nat, NEW k \in Nat, x <= y
  PROVE  x * k <= y * k
  OBVIOUS

\* One is not nothing.
LEMMA UnitPositive == Unit \in Nat \ {0}
  BY BaseAssumption DEF Unit

\* The factors of a product may be taken in any order.
LEMMA SwapFactors ==
  ASSUME NEW x \in Nat, NEW y \in Nat, NEW z \in Nat
  PROVE  (x * y) * z = (x * z) * y /\ x * y \in Nat /\ x * y = y * x
OBVIOUS

\* What is at most a number that is at most another is at most that.
LEMMA AtMostTransitive ==
  ASSUME NEW x \in Nat, NEW y \in Nat, NEW z \in Nat, x <= y, y <= z
  PROVE  x <= z
OBVIOUS

\* A share of an amount is, in proportion, no more than its claim.
LEMMA ShareInProportion ==
  ASSUME NEW claim \in Nat, NEW total \in Nat \ {0}, NEW amount \in Nat
  PROVE  /\ Share(claim, total, amount) \in Nat
         /\ Share(claim, total, amount) * total <= claim * amount
<1> DEFINE q == Divide(claim, total)
           s == Multiply(q, amount)
<1>1. q \in Nat /\ q * total <= claim * Unit
  <2>1. claim * Unit \in Nat
    BY UnitPositive
  <2>2. q = (claim * Unit) \div total
    BY DEF Divide
  <2>3. QED BY <2>1, <2>2, DivisionFalls
<1>2. s \in Nat /\ s * Unit <= q * amount
  <2> HIDE DEF q
  <2>1. q * amount \in Nat
    BY <1>1
  <2>2. s = (q * amount) \div Unit
    BY DEF Multiply
  <2>3. QED BY <2>1, <2>2, DivisionFalls, UnitPositive
<1> HIDE DEF q, s
<1>3. (s * Unit) * total <= (q * amount) * total
  <2>1. s * Unit \in Nat /\ q * amount \in Nat
    BY <1>1, <1>2, UnitPositive
  <2>2. QED BY <1>2, <2>1, Monotone
<1>4. (q * total) * amount <= (claim * Unit) * amount
  <2>1. q * total \in Nat /\ claim * Unit \in Nat
    BY <1>1, UnitPositive
  <2>2. QED BY <1>1, <2>1, Monotone
<1>5. /\ (s * Unit) * total = (s * total) * Unit
      /\ (q * amount) * total = (q * total) * amount
      /\ (claim * Unit) * amount = (claim * amount) * Unit
  BY <1>1, <1>2, UnitPositive, SwapFactors
<1>6. /\ s * total \in Nat /\ claim * amount \in Nat
      /\ (s * total) * Unit \in Nat /\ (q * total) * amount \in Nat
      /\ (claim * amount) * Unit \in Nat
  <2>1. s * total \in Nat /\ claim * amount \in Nat /\ q * total \in Nat
    BY <1>1, <1>2
  <2>2. QED BY <2>1, UnitPositive, SwapFactors
<1>7. (s * total) * Unit <= (claim * amount) * Unit
  BY <1>3, <1>4, <1>5, <1>6, AtMostTransitive
<1>8. s * total <= claim * amount
  BY <1>6, <1>7, UnitPositive, Cancel
<1>9. QED BY <1>2, <1>8 DEF Share, q, s

\* The claims on one total (shapePool.ts, computeClaimsXrd), however many they are, are
\* together given at most what the bin holds, although each is truncated twice.
THEOREM ClaimsNeverOverdraw ==
  ASSUME NEW S, IsFiniteSet(S), NEW claim, \A r \in S : claim[r] \in Nat,
         NEW total \in Nat, NEW amount \in Nat, SumOf(claim, S) <= total
  PROVE  LET shares == [r \in S |-> Share(claim[r], total, amount)]
         IN  (\A r \in S : shares[r] \in Nat) /\ SumOf(shares, S) <= amount
<1> DEFINE shares == [r \in S |-> Share(claim[r], total, amount)]
<1>1. CASE total = 0
  <2>1. \A r \in S : shares[r] = 0
    <3>1. 0 * amount = 0 /\ 0 \div Unit = 0
      BY UnitPositive
    <3>2. QED BY <1>1, <3>1 DEF Share, Divide, Multiply
  <2> HIDE DEF shares
  <2>2. {} \subseteq S /\ (\A r \in S : shares[r] \in Nat) /\ \A r \in S \ {} : shares[r] = 0
    BY <2>1
  <2>3. SumOf(shares, S) = SumOf(shares, {})
    BY <2>2, SumLeavesOut
  <2>4. SumOf(shares, S) <= amount
    BY <2>3, SumOfNothing
  <2>5. QED BY <2>2, <2>4 DEF shares
<1>2. CASE total # 0
  <2> DEFINE scaled == [r \in S |-> total * shares[r]]
             given == [r \in S |-> amount * claim[r]]
  <2>1. \A r \in S : shares[r] \in Nat /\ shares[r] * total <= claim[r] * amount
    BY <1>2, ShareInProportion
  <2> HIDE DEF shares
  <2>2. \A r \in S : scaled[r] \in Nat /\ given[r] \in Nat /\ scaled[r] <= given[r]
    BY <2>1, SwapFactors
  <2>3. SumOf(scaled, S) = total * SumOf(shares, S)
    <3>1. \A r \in S : shares[r] \in Nat /\ scaled[r] = total * shares[r]
      BY <2>1
    <3> HIDE DEF scaled
    <3>2. QED BY <3>1, SumTimes
  <2>4. SumOf(given, S) = amount * SumOf(claim, S)
    <3>1. \A r \in S : claim[r] \in Nat /\ given[r] = amount * claim[r]
      OBVIOUS
    <3> HIDE DEF given
    <3>2. QED BY <3>1, SumTimes
  <2>5. SumOf(scaled, S) <= SumOf(given, S)
    <3> HIDE DEF scaled, given
    <3>1. QED BY <2>2, SumOfLess
  <2> HIDE DEF scaled, given
  <2>6. SumOf(shares, S) \in Nat /\ SumOf(claim, S) \in Nat
    BY <2>1, SumIsNat
  <2> DEFINE out == SumOf(shares, S)
             in == SumOf(claim, S)
  <2> HIDE DEF out, in
  <2>7. out \in Nat /\ in \in Nat /\ in <= total /\ total * out <= amount * in
    BY <2>3, <2>4, <2>5, <2>6 DEF out, in
  <2>8. in * amount <= total * amount
    BY <2>7, Monotone
  <2>9. /\ total * out = out * total /\ amount * in = in * amount
        /\ total * amount = amount * total
        /\ total * out \in Nat /\ in * amount \in Nat /\ amount * total \in Nat
    BY <2>7, SwapFactors
  <2>10. out * total <= amount * total
    BY <2>7, <2>8, <2>9, AtMostTransitive
  <2>11. out <= amount
    BY <1>2, <2>7, <2>10, Cancel
  <2>12. QED BY <2>1, <2>11 DEF out, shares
<1>3. QED BY <1>1, <1>2

-----------------------------------------------------------------------------
(* The weighing of voters *)

Epoch == [from : Nat, sources : {c.sources : c \in Configs}, pools : {c.pools : c \in Configs}]

\* A list of epochs that grows at its front by one that begins later gives what it gave.
LEMMA PrependedLater ==
  ASSUME NEW list \in Seq(Epoch), list # <<>>, NEW start \in Nat,
         NEW e \in Epoch, start < e.from
  PROVE  FindEpoch(<<e>> \o list, start) = FindEpoch(list, start)
<1> DEFINE more == <<e>> \o list
           begun == {i \in DOMAIN list : list[i].from <= start}
           later == {i \in DOMAIN more : more[i].from <= start}
<1>1. /\ Len(list) \in Nat \ {0} /\ DOMAIN list = 1 .. Len(list)
      /\ more \in Seq(Epoch) /\ Len(more) = Len(list) + 1 /\ DOMAIN more = 1 .. Len(list) + 1
      /\ more[1] = e /\ \A i \in 1 .. Len(list) : more[i + 1] = list[i]
      /\ \A i \in 1 .. Len(list) : list[i].from \in Nat
  <2>1. Len(list) \in Nat \ {0} /\ DOMAIN list = 1 .. Len(list)
    OBVIOUS
  <2>2. <<e>> \in Seq(Epoch) /\ Len(<<e>>) = 1 /\ <<e>>[1] = e
    OBVIOUS
  <2>3. more \in Seq(Epoch) /\ Len(more) = Len(list) + 1 /\ more[1] = e
    BY <2>1, <2>2
  <2>4. \A i \in 1 .. Len(list) : more[i + 1] = list[i]
    BY <2>1, <2>2
  <2>5. \A i \in 1 .. Len(list) : list[i] \in Epoch
    OBVIOUS
  <2>6. \A i \in 1 .. Len(list) : list[i].from \in Nat
    BY <2>5 DEF Epoch
  <2>7. DOMAIN more = 1 .. Len(list) + 1
    BY <2>3
  <2> QED
    BY <2>1, <2>3, <2>4, <2>6, <2>7
<1> HIDE DEF more
<1>2. later = {i + 1 : i \in begun}
  <2>1. ASSUME NEW i \in later PROVE i - 1 \in begun /\ i = (i - 1) + 1
    <3>1. i # 1
      BY <1>1 DEF Epoch
    <3>2. i - 1 \in 1 .. Len(list) /\ more[(i - 1) + 1] = list[i - 1] /\ (i - 1) + 1 = i
      BY <1>1, <3>1
    <3> QED
      BY <3>2, <1>1
  <2>2. ASSUME NEW i \in begun PROVE i + 1 \in later
    <3>1. i \in 1 .. Len(list) /\ list[i].from <= start
      BY <1>1
    <3>2. more[i + 1] = list[i] /\ i + 1 \in 1 .. Len(list) + 1
      BY <1>1, <3>1
    <3> QED
      BY <1>1, <3>1, <3>2
  <2> QED
    BY <2>1, <2>2
<1>3. begun \in SUBSET Nat /\ later \in SUBSET Nat
  BY <1>1
<1>4. FindEpoch(list, start) = list[IF begun = {} THEN Len(list) ELSE Min(begun)]
  BY DEF FindEpoch
<1>5. FindEpoch(more, start) = more[IF later = {} THEN Len(list) + 1 ELSE Min(later)]
  BY <1>1 DEF FindEpoch
<1>6. CASE begun = {}
  <2>1. FindEpoch(more, start) = more[Len(list) + 1] /\ FindEpoch(list, start) = list[Len(list)]
    BY <1>2, <1>4, <1>5, <1>6
  <2>2. more[Len(list) + 1] = list[Len(list)]
    BY <1>1
  <2> QED
    BY <2>1, <2>2 DEF more
<1>7. CASE begun # {}
  <2>1. Min(begun) \in begun /\ \A n \in begun : Min(begun) <= n
    BY <1>3, <1>7, MinIsLeast
  <2>2. later # {}
    BY <1>2, <1>7
  <2>3. Min(later) \in later /\ \A n \in later : Min(later) <= n
    BY <1>3, <2>2, MinIsLeast
  <2>4. PICK i \in begun : Min(later) = i + 1
    BY <1>2, <2>3
  <2>5. Min(begun) + 1 \in later
    BY <1>2, <2>1
  <2> DEFINE b == Min(begun)
             l == Min(later)
  <2>6. l = b + 1
    <3>1. b <= i /\ l <= b + 1 /\ l = i + 1
      BY <2>1, <2>3, <2>4, <2>5
    <3>2. b \in Nat /\ l \in Nat /\ i \in Nat
      BY <1>3, <2>1, <2>3, <2>4
    <3> HIDE DEF b, l
    <3> QED
      BY <3>1, <3>2
  <2>7. b \in 1 .. Len(list)
    BY <2>1, <1>1
  <2>8. FindEpoch(more, start) = more[l] /\ FindEpoch(list, start) = list[b]
    BY <1>4, <1>5, <1>7, <2>2
  <2> HIDE DEF b, l
  <2> QED
    BY <1>1, <2>6, <2>7, <2>8 DEF more
<1> QED
  BY <1>6, <1>7 DEF more

\* The stake units of a validator that has registered since count for nothing.
LEMMA LaterValidatorsAreLeftOut ==
  ASSUME NEW state, NEW validators, DOMAIN state.redemption \subseteq validators
  PROVE  LsuMap(validators, state) = LsuMap(DOMAIN state.redemption, state)
  BY DEF LsuMap

\* The ledger keeps its first state while it grows, and its validators.
LEMMA LedgerGrows ==
  ASSUME HistoryStays, NEW state \in Worlds, MoveOn(state)
  PROVE  /\ ledger' \in Seq(Worlds) /\ ledger' # <<>>
         /\ world' = world /\ head' = state
         /\ DOMAIN world.redemption \subseteq DOMAIN head'.redemption
<1>1. /\ Len(ledger) \in Nat \ {0} /\ ledger' = Append(ledger, state)
      /\ head \in Worlds /\ Follows(head, state)
  BY DEF HistoryStays, MoveOn, head
<1>2. ledger' \in Seq(Worlds) /\ ledger' # <<>> /\ world' = world /\ head' = state
  BY <1>1 DEF HistoryStays, world, head, Start
<1> QED
  BY <1>1, <1>2, ValidatorsStay DEF HistoryStays

\* No step changes what was at the start, nor the epoch it falls in.
LEMMA StartStays ==
  ASSUME HistoryStays, [PowerNext]_powerVars
  PROVE  /\ HistoryStays'
         /\ mainnet' = mainnet /\ world' = world
         /\ FindEpoch(epochs, Start)' = FindEpoch(epochs, Start)
<1>1. CASE UNCHANGED <<ledger, epochs, mainnet>>
  BY <1>1 DEF HistoryStays, world, head, FindEpoch
<1>2. CASE \E state \in Worlds : MoveOn(state)
  <2>1. PICK state \in Worlds : MoveOn(state)
    BY <1>2
  <2>2. epochs' = epochs /\ mainnet' = mainnet
    BY <2>1 DEF MoveOn
  <2> QED
    BY <2>1, <2>2, LedgerGrows DEF HistoryStays, FindEpoch
<1>3. CASE \E config \in Configs : Deploy(config)
  <2>1. PICK config \in Configs : Deploy(config)
    BY <1>3
  <2> DEFINE e == [from |-> Len(ledger) + 1, sources |-> config.sources, pools |-> config.pools]
  <2>2. ledger' = ledger /\ mainnet' = mainnet /\ epochs' = <<e>> \o epochs
    BY <2>1 DEF Deploy
  <2>3. Len(ledger) \in Nat \ {0}
    BY DEF HistoryStays
  <2>4. e \in Epoch /\ Start < e.from /\ Start \in Nat
    BY <2>3 DEF Epoch, Start
  <2>5. epochs \in Seq(Epoch) /\ epochs # <<>>
    BY DEF HistoryStays, Epoch
  <2> HIDE DEF e
  <2>6. epochs' \in Seq(Epoch) /\ epochs' # <<>>
    BY <2>2, <2>4, <2>5
  <2>7. FindEpoch(epochs', Start) = FindEpoch(epochs, Start)
    BY <2>2, <2>4, <2>5, PrependedLater
  <2> QED
    BY <2>2, <2>6, <2>7 DEF HistoryStays, Epoch, world, head, Start
<1> QED
  BY <1>1, <1>2, <1>3
  DEF PowerNext, powerVars, Begin, ReadRate, ReadBalances, ReadValidators, ReadLsuMap,
      LsuMapFails, Weigh, StoringFails

\* A recount gives at every time what it gave.
LEMMA RecountStays ==
  ASSUME HistoryStays, [PowerNext]_powerVars, NEW a
  PROVE  Recount(a)' = Recount(a)
<1>1. HistoryStays' /\ mainnet' = mainnet /\ world' = world
      /\ FindEpoch(epochs, Start)' = FindEpoch(epochs, Start)
  BY StartStays
<1>2. LsuMap(DOMAIN head.redemption, world) = LsuMap(DOMAIN world.redemption, world)
  BY LaterValidatorsAreLeftOut DEF HistoryStays
<1>3. LsuMap(DOMAIN head.redemption, world)' = LsuMap(DOMAIN world.redemption, world)'
  <2>1. (DOMAIN world.redemption \subseteq DOMAIN head.redemption)'
    BY <1>1 DEF HistoryStays
  <2> QED
    BY <2>1 DEF LsuMap
<1>4. LsuMap(DOMAIN world.redemption, world)' = LsuMap(DOMAIN world.redemption, world)
  BY <1>1 DEF LsuMap
<1> QED
  BY <1>1, <1>2, <1>3, <1>4
  DEF Recount, WeighedPower, LsulpOf, NeedsPositions, NeedsLsulpRate, NeedsLsuMap, LsulpRate

-----------------------------------------------------------------------------
(* A snapshot *)

\* What the votes found by a poll are weighed by is what a recount weighs them by.
LEMMA ReadAsRecounted ==
  ASSUME HistoryStays, JobAsRecounted, PowerNext
  PROVE  JobAsRecounted'
<1> DEFINE config == FindEpoch(epochs, Start)
           Fields == {"at", "batch", "config", "rate", "held", "validators", "lsu"}
<1>1. /\ mainnet' = mainnet /\ world' = world /\ config' = config
  BY StartStays
<1>2. ASSUME job' # None /\ UNCHANGED job PROVE JobAsRecounted'
  BY <1>1, <1>2 DEF JobAsRecounted, NeedsLsulpRate
<1>3. ASSUME NEW batch, Begin(batch) PROVE JobAsRecounted'
  BY <1>1, <1>3 DEF JobAsRecounted, Begin
<1>4. ASSUME ReadRate PROVE JobAsRecounted'
  BY <1>1, <1>4 DEF JobAsRecounted, ReadRate, Reading, NeedsLsulpRate
<1>5. ASSUME ReadBalances PROVE JobAsRecounted'
  BY <1>1, <1>5 DEF JobAsRecounted, ReadBalances, Reading, NeedsLsulpRate
<1>6. ASSUME ReadValidators PROVE JobAsRecounted'
  BY <1>1, <1>6 DEF JobAsRecounted, ReadValidators, Reading, NeedsLsulpRate, HistoryStays
<1>7. ASSUME ReadLsuMap PROVE JobAsRecounted'
  BY <1>1, <1>7, LaterValidatorsAreLeftOut
  DEF JobAsRecounted, ReadLsuMap, Reading, NeedsLsulpRate
<1>8. ASSUME job' = None PROVE JobAsRecounted'
  BY <1>8 DEF JobAsRecounted
<1> QED
  BY <1>2, <1>3, <1>4, <1>5, <1>6, <1>7, <1>8
  DEF PowerNext, LsuMapFails, Weigh, StoringFails, Deploy, MoveOn

\* What a voter is weighed to be is what a recount makes of it.
LEMMA WeighedStays ==
  ASSUME HistoryStays, JobAsRecounted, WeighedAsRecounted, PowerNext
  PROVE  WeighedAsRecounted'
<1> SUFFICES ASSUME NEW a \in Accounts, power'[a] # None, company'[a] \subseteq world'.known
             PROVE  power'[a] = Recount(a)'
  BY DEF WeighedAsRecounted
<1>1. Recount(a)' = Recount(a) /\ world' = world
  BY RecountStays, StartStays
<1>2. CASE UNCHANGED <<power, company>>
  BY <1>1, <1>2 DEF WeighedAsRecounted
<1>3. CASE \E receipts \in Receipts : Reading("receipts") /\ Weigh(receipts)
  <2>1. PICK receipts \in Receipts : Weigh(receipts)
    BY <1>3
  <2>2. CASE a \notin job.batch
    BY <1>1, <2>1, <2>2 DEF Weigh, WeighedAsRecounted
  <2>3. CASE a \in job.batch
    <3> DEFINE config == FindEpoch(epochs, Start)
               rate == IF NeedsLsulpRate(config) THEN LsulpRate(world) ELSE 0
               lsu == IF NeedsLsuMap(config) THEN LsuMap(DOMAIN head.redemption, world)
                      ELSE <<>>
    <3>1. company'[a] = job.batch
      BY <2>1, <2>3 DEF Weigh
    <3>2. receipts = world.receipts
      BY <1>1, <2>1, <3>1 DEF Receipts
    <3>3. LsuMap(DOMAIN head.redemption, world) = LsuMap(DOMAIN world.redemption, world)
      BY LaterValidatorsAreLeftOut DEF HistoryStays
    <3>4. /\ job.config = config /\ job.rate = rate /\ job.lsu = lsu
          /\ job.held[a] = world.held[a]
      BY <1>3, <2>3, <3>3 DEF JobAsRecounted, Reading
    <3>5. power'[a] = WeighedPower(a, job.held[a], receipts, job.config,
                                   [lsulp |-> job.rate, lsu |-> job.lsu])
      BY <2>1, <2>3 DEF Weigh, Weighed
    <3>6. Recount(a) = WeighedPower(a, world.held[a], world.receipts, config,
                                    [lsulp |-> rate, lsu |-> lsu])
      BY DEF Recount
    <3> HIDE DEF config, rate, lsu
    <3> QED
      BY <1>1, <3>2, <3>4, <3>5, <3>6
  <2> QED
    BY <2>2, <2>3
<1> QED
  BY <1>2, <1>3
  DEF PowerNext, Begin, ReadRate, ReadBalances, ReadValidators, ReadLsuMap, LsuMapFails,
      StoringFails, Deploy, MoveOn

\* What is stored is exact.
LEMMA ExactStays ==
  ASSUME PowersAreExact, PowerNext
  PROVE  PowersAreExact'
<1>1. CASE UNCHANGED power
  BY <1>1 DEF PowersAreExact
<1>2. ASSUME NEW receipts, Weigh(receipts) PROVE PowersAreExact'
  <2> SUFFICES ASSUME NEW a \in Accounts, power'[a] # None PROVE IsExactDecimal(power'[a])
    BY DEF PowersAreExact
  <2>1. CASE a \in job.batch
    BY <1>2, <2>1 DEF Weigh
  <2>2. CASE a \notin job.batch
    BY <1>2, <2>2 DEF Weigh, PowersAreExact
  <2> QED
    BY <2>1, <2>2
<1> QED
  BY <1>1, <1>2
  DEF PowerNext, Begin, ReadRate, ReadBalances, ReadValidators, ReadLsuMap, LsuMapFails,
      StoringFails, Deploy, MoveOn

\* The weighing of the voters keeps to its inductive invariant.
THEOREM PowerInvariant == PowerSpec => []PowerInv
<1>1. PowerInit => PowerInv
  <2> SUFFICES ASSUME PowerInit PROVE PowerInv
    OBVIOUS
  <2>1. JobAsRecounted /\ WeighedAsRecounted /\ PowersAreExact
    BY DEF PowerInit, JobAsRecounted, WeighedAsRecounted, PowersAreExact
  <2>2. PICK state \in Worlds : ledger = <<state>>
    BY DEF PowerInit
  <2>3. PICK c \in Configs : epochs = <<[from |-> 0, sources |-> c.sources, pools |-> c.pools]>>
    BY DEF PowerInit
  <2> DEFINE e == [from |-> 0, sources |-> c.sources, pools |-> c.pools]
  <2>4. e \in Epoch
    BY DEF Epoch
  <2> HIDE DEF e
  <2>5. <<e>> \in Seq(Epoch) /\ <<e>> # <<>>
    BY <2>4
  <2>6. epochs \in Seq(Epoch) /\ epochs # <<>>
    BY <2>3, <2>5 DEF e
  <2>7. ledger \in Seq(Worlds) /\ ledger # <<>> /\ world = state /\ head = state
    BY <2>2 DEF world, head, Start
  <2> QED
    BY <2>1, <2>6, <2>7 DEF PowerInv, HistoryStays, Epoch
<1>2. PowerInv /\ [PowerNext]_powerVars => PowerInv'
  <2> SUFFICES ASSUME PowerInv, [PowerNext]_powerVars PROVE PowerInv'
    OBVIOUS
  <2>1. HistoryStays'
    BY StartStays DEF PowerInv
  <2>2. CASE PowerNext
    BY <2>1, <2>2, ReadAsRecounted, WeighedStays, ExactStays DEF PowerInv
  <2>3. CASE UNCHANGED powerVars
    <3>1. \A a \in Accounts : Recount(a)' = Recount(a)
      BY RecountStays DEF PowerInv
    <3>2. /\ mainnet' = mainnet /\ world' = world
          /\ FindEpoch(epochs, Start)' = FindEpoch(epochs, Start)
      BY StartStays DEF PowerInv
    <3>3. JobAsRecounted'
      BY <2>3, <3>2 DEF powerVars, PowerInv, JobAsRecounted, NeedsLsulpRate
    <3>4. WeighedAsRecounted'
      BY <2>3, <3>1, <3>2 DEF powerVars, PowerInv, WeighedAsRecounted
    <3>5. PowersAreExact'
      BY <2>3 DEF powerVars, PowerInv, PowersAreExact
    <3> QED
      BY <2>1, <3>3, <3>4, <3>5 DEF PowerInv
  <2> QED
    BY <2>2, <2>3
<1> QED
  BY <1>1, <1>2, PTL DEF PowerSpec

\* A voter's power is what a recount of today comes to (voteCalculation.ts, tally.ts).
THEOREM PowersAreWhatARecountGives == PowerSpec => []WeighedAsRecounted
<1>1. PowerInv => WeighedAsRecounted
  BY DEF PowerInv
<1> QED
  BY <1>1, PowerInvariant, PTL

-----------------------------------------------------------------------------
(* Positions in precision pools *)

\* A quotient of more by less is no less.
LEMMA QuotientGrows ==
  ASSUME NEW n \in Nat, NEW m \in Nat, NEW d \in Nat \ {0}, NEW e \in Nat \ {0},
         n <= m, e <= d
  PROVE  n \div d <= m \div e
<1> DEFINE q == n \div d
           r == m \div e
<1>1. q \in Nat /\ q * d <= n /\ r \in Nat /\ m < (r + 1) * e
  BY DivisionFalls
<1> HIDE DEF q, r
<1>2. SUFFICES ASSUME r + 1 <= q PROVE FALSE
  BY <1>1 DEF q, r
<1>3. (r + 1) * e <= q * e
  BY <1>1, <1>2, Monotone
<1>4. q * e <= q * d
  <2>1. e * q <= d * q
    BY <1>1, Monotone
  <2>2. e * q = q * e /\ d * q = q * d
    BY <1>1
  <2> QED
    BY <2>1, <2>2
<1>5. (r + 1) * e \in Nat /\ q * e \in Nat /\ q * d \in Nat
  BY <1>1
<1> QED
  BY <1>1, <1>3, <1>4, <1>5

\* What floorToDecimals gives grows with the amount and falls with the divisor.
LEMMA FloorGrows ==
  ASSUME NEW n \in Nat, NEW m \in Nat, NEW d \in Nat \ {0}, NEW e \in Nat \ {0},
         NEW grain \in Nat \ {0}, n <= m, e <= d
  PROVE  /\ FloorTo(n, d, grain) \in Nat /\ FloorTo(m, e, grain) \in Nat
         /\ FloorTo(n, d, grain) <= FloorTo(m, e, grain)
<1>1. d * grain \in Nat \ {0} /\ e * grain \in Nat \ {0} /\ e * grain <= d * grain
  BY Monotone
<1> DEFINE q == n \div (d * grain)
           r == m \div (e * grain)
<1>2. q \in Nat /\ r \in Nat /\ q <= r
  BY <1>1, QuotientGrows, DivisionFalls
<1>3. FloorTo(n, d, grain) = q * grain /\ FloorTo(m, e, grain) = r * grain
  BY DEF FloorTo
<1> HIDE DEF q, r
<1> QED
  BY <1>2, <1>3, Monotone

\* A product grows with each of its factors.
LEMMA ProductGrows ==
  ASSUME NEW a \in Nat, NEW b \in Nat, NEW c \in Nat, b <= c
  PROVE  a * b \in Nat /\ a * c \in Nat /\ a * b <= a * c
<1>1. b * a <= c * a
  BY Monotone
<1>2. a * b = b * a /\ a * c = c * a
  OBVIOUS
<1>3. a * b \in Nat /\ a * c \in Nat
  OBVIOUS
<1> QED
  BY <1>1, <1>2, <1>3

\* removableAmounts of a position, by the square roots of the prices.
From(price, left) == IF price <= left THEN left ELSE price
UpTo(price, right) == IF price >= right THEN right ELSE price

FirstToken(liquidity, left, right, price, grain) ==
  IF price >= right THEN 0
  ELSE FloorTo(liquidity * Unit * (right - From(price, left)), From(price, left) * right, grain)

SecondToken(liquidity, left, right, price, grain) ==
  IF price <= left THEN 0
  ELSE FloorTo(liquidity * (UpTo(price, right) - left), Unit, grain)

\* As the price rises, the first token of a position becomes less.
LEMMA FirstTokenFalls ==
  ASSUME NEW liquidity \in Nat, NEW left \in Nat \ {0}, NEW right \in Nat \ {0}, left < right,
         NEW p \in Nat \ {0}, NEW r \in Nat \ {0}, p <= r, NEW grain \in Nat \ {0}
  PROVE  /\ FirstToken(liquidity, left, right, p, grain) \in Nat
         /\ FirstToken(liquidity, left, right, r, grain) \in Nat
         /\ FirstToken(liquidity, left, right, r, grain)
              <= FirstToken(liquidity, left, right, p, grain)
<1> DEFINE f == From(p, left)
           g == From(r, left)
           d == f * right
           e == g * right
           X(price) == FirstToken(liquidity, left, right, price, grain)
<1>1. f \in Nat \ {0} /\ g \in Nat \ {0} /\ f <= g
  BY DEF From
<1>2. liquidity * Unit \in Nat
  BY UnitPositive
<1>3. /\ p < right => f < right
      /\ r < right => g < right
  BY DEF From
<1>4. /\ p < right => X(p) = FloorTo(liquidity * Unit * (right - f), d, grain)
      /\ r < right => X(r) = FloorTo(liquidity * Unit * (right - g), e, grain)
      /\ p >= right => X(p) = 0
      /\ r >= right => X(r) = 0
  BY DEF FirstToken
<1> HIDE DEF f, g, X
<1>5. d \in Nat \ {0} /\ e \in Nat \ {0} /\ d <= e
  <2>1. f * right <= g * right
    BY <1>1, Monotone
  <2>2. f * right \in Nat /\ g * right \in Nat /\ f * right # 0 /\ g * right # 0
    BY <1>1
  <2> QED
    BY <2>1, <2>2
<1> HIDE DEF d, e
<1>6. ASSUME p < right PROVE X(p) \in Nat
  <2>1. right - f \in Nat
    BY <1>1, <1>3, <1>6
  <2> DEFINE n == liquidity * Unit * (right - f)
  <2>2. n \in Nat /\ n <= n
    BY <1>2, <2>1, ProductGrows
  <2>3. X(p) = FloorTo(n, d, grain)
    BY <1>4, <1>6
  <2> HIDE DEF n
  <2> QED
    BY <1>5, <2>2, <2>3, FloorGrows
<1>7. ASSUME r < right PROVE X(r) \in Nat /\ X(r) <= X(p)
  <2>1. right - f \in Nat /\ right - g \in Nat /\ right - g <= right - f /\ p < right
    BY <1>1, <1>3, <1>7
  <2> DEFINE n == liquidity * Unit * (right - g)
             m == liquidity * Unit * (right - f)
  <2>2. n \in Nat /\ m \in Nat /\ n <= m
    BY <1>2, <2>1, ProductGrows
  <2>3. X(p) = FloorTo(m, d, grain) /\ X(r) = FloorTo(n, e, grain)
    BY <1>4, <1>7, <2>1
  <2> HIDE DEF n, m
  <2> QED
    BY <1>5, <2>2, <2>3, FloorGrows
<1>8. X(p) \in Nat /\ X(r) \in Nat /\ X(r) <= X(p)
  BY <1>4, <1>6, <1>7
<1> QED
  BY <1>8 DEF X

\* As the price rises, the second token of a position becomes more.
LEMMA SecondTokenGrows ==
  ASSUME NEW liquidity \in Nat, NEW left \in Nat \ {0}, NEW right \in Nat \ {0}, left < right,
         NEW p \in Nat \ {0}, NEW r \in Nat \ {0}, p <= r, NEW grain \in Nat \ {0}
  PROVE  /\ SecondToken(liquidity, left, right, p, grain) \in Nat
         /\ SecondToken(liquidity, left, right, r, grain) \in Nat
         /\ SecondToken(liquidity, left, right, p, grain)
              <= SecondToken(liquidity, left, right, r, grain)
<1> DEFINE f == UpTo(p, right) - left
           g == UpTo(r, right) - left
           Y(price) == SecondToken(liquidity, left, right, price, grain)
<1>1. /\ left < p => f \in Nat
      /\ left < r => g \in Nat
      /\ left < p => f <= g /\ left < r
  BY DEF UpTo
<1>2. /\ left < p => Y(p) = FloorTo(liquidity * f, Unit, grain)
      /\ left < r => Y(r) = FloorTo(liquidity * g, Unit, grain)
      /\ p <= left => Y(p) = 0
      /\ r <= left => Y(r) = 0
  BY DEF SecondToken
<1> HIDE DEF f, g, Y
<1>3. ASSUME left < r PROVE Y(r) \in Nat
  <2>1. liquidity * g \in Nat
    BY <1>1, <1>3, ProductGrows
  <2> QED
    BY <1>2, <1>3, <2>1, UnitPositive, FloorGrows
<1>4. ASSUME left < p PROVE Y(p) \in Nat /\ Y(p) <= Y(r)
  <2> DEFINE n == liquidity * f
             m == liquidity * g
  <2>1. n \in Nat /\ m \in Nat /\ n <= m
    BY <1>1, <1>4, ProductGrows
  <2>2. Y(p) = FloorTo(n, Unit, grain) /\ Y(r) = FloorTo(m, Unit, grain)
    BY <1>1, <1>2, <1>4
  <2> HIDE DEF n, m
  <2> QED
    BY <2>1, <2>2, UnitPositive, FloorGrows
<1>5. Y(p) \in Nat /\ Y(r) \in Nat /\ Y(p) <= Y(r)
  BY <1>2, <1>3, <1>4
<1> QED
  BY <1>5 DEF Y

\* As the price rises, a position exchanges its first token for the second, and has
\* nothing left to exchange once the price has left its range.
LEMMA RisingPrice ==
  ASSUME NEW position, NEW pool, NEW risen,
         position.liquidity \in Nat,
         PriceSqrt[position.left] \in Nat \ {0}, PriceSqrt[position.right] \in Nat \ {0},
         PriceSqrt[position.left] < PriceSqrt[position.right],
         pool.price \in Nat \ {0}, risen.price \in Nat \ {0}, pool.price <= risen.price,
         pool.grainX \in Nat \ {0}, pool.grainY \in Nat \ {0},
         risen.grainX = pool.grainX, risen.grainY = pool.grainY
  PROVE  LET before == RemovableAmounts(position, pool)
             after == RemovableAmounts(position, risen)
         IN  /\ after.x <= before.x /\ after.y >= before.y
             /\ pool.price >= PriceSqrt[position.right] => after = before
<1> DEFINE left == PriceSqrt[position.left]
           right == PriceSqrt[position.right]
           X(price) == FirstToken(position.liquidity, left, right, price, pool.grainX)
           Y(price) == SecondToken(position.liquidity, left, right, price, pool.grainY)
<1>1. /\ RemovableAmounts(position, pool) = [x |-> X(pool.price), y |-> Y(pool.price)]
      /\ RemovableAmounts(position, risen) = [x |-> X(risen.price), y |-> Y(risen.price)]
  BY DEF RemovableAmounts, FirstToken, SecondToken, From, UpTo
<1>2. ASSUME pool.price >= right
      PROVE  X(pool.price) = X(risen.price) /\ Y(pool.price) = Y(risen.price)
  BY <1>2 DEF FirstToken, SecondToken, UpTo
<1>3. /\ X(pool.price) \in Nat /\ X(risen.price) \in Nat /\ X(risen.price) <= X(pool.price)
      /\ Y(pool.price) \in Nat /\ Y(risen.price) \in Nat /\ Y(pool.price) <= Y(risen.price)
  BY FirstTokenFalls, SecondTokenGrows
<1> HIDE DEF X, Y
<1> QED
  BY <1>1, <1>2, <1>3

\* A trade that moves the price of a precision pool up gives no position more of the first
\* token nor less of the second (precisionPool.ts, removableAmounts).
THEOREM PositionsFollowThePrice == PowerSpec => AmountsFollowThePrice
<1>1. ASSUME HistoryStays, [PowerNext]_powerVars, ledger' # ledger,
             head'.precision # None, head.precision # None,
             NEW p \in head'.receipts.positions, head'.precision.price >= head.precision.price
      PROVE  LET before == RemovableAmounts(p, head.precision)
                 after == RemovableAmounts(p, head'.precision)
             IN  /\ after.x <= before.x /\ after.y >= before.y
                 /\ head.precision.price >= PriceSqrt[p.right] => after = before
  <2>1. PICK state \in Worlds : MoveOn(state)
    BY <1>1 DEF PowerNext, powerVars, Begin, ReadRate, ReadBalances, ReadValidators,
                ReadLsuMap, LsuMapFails, Weigh, StoringFails, Deploy
  <2>2. head \in Worlds /\ head' \in Worlds /\ Follows(head, head')
    BY <1>1, <2>1, LedgerGrows DEF HistoryStays, MoveOn, head
  <2> DEFINE pool == head.precision
             risen == head'.precision
  <2>3. /\ {pool.price, pool.grainX, pool.grainY} \subseteq Nat \ {0}
        /\ {risen.price, risen.grainX, risen.grainY} \subseteq Nat \ {0}
        /\ p.liquidity \in Nat
        /\ p.left \in DOMAIN PriceSqrt /\ p.right \in DOMAIN PriceSqrt /\ p.left < p.right
    BY <1>1, <2>2, PrecisionAssumption
  <2>4. risen.grainX = pool.grainX /\ risen.grainY = pool.grainY
    BY <1>1, <2>2, GrainsStay
  <2>5. /\ PriceSqrt[p.left] \in Nat \ {0} /\ PriceSqrt[p.right] \in Nat \ {0}
        /\ PriceSqrt[p.left] < PriceSqrt[p.right]
    BY <2>3, PriceSqrtAssumption
  <2>6. pool.price <= risen.price
    BY <1>1, <2>3
  <2> HIDE DEF pool, risen
  <2>7. LET before == RemovableAmounts(p, pool)
            after == RemovableAmounts(p, risen)
        IN  /\ after.x <= before.x /\ after.y >= before.y
            /\ pool.price >= PriceSqrt[p.right] => after = before
    BY <2>3, <2>4, <2>5, <2>6, RisingPrice
  <2> QED
    BY <2>7 DEF pool, risen
<1>2. HistoryStays /\ [PowerNext]_powerVars =>
        [ledger' # ledger /\ head'.precision # None /\ head.precision # None =>
           \A p \in head'.receipts.positions :
             head'.precision.price >= head.precision.price =>
               LET before == RemovableAmounts(p, head.precision)
                   after == RemovableAmounts(p, head'.precision)
               IN  /\ after.x <= before.x /\ after.y >= before.y
                   /\ head.precision.price >= PriceSqrt[p.right] => after = before]_powerVars
  BY <1>1
<1>3. PowerInv => HistoryStays
  BY DEF PowerInv
<1> QED
  BY <1>2, <1>3, PowerInvariant, PTL DEF PowerSpec, AmountsFollowThePrice

-----------------------------------------------------------------------------
(* Sort keys *)

\* What a table of place values, up to the n-th, is.
PlaceTable(t, n) == t = [k \in 0 .. n |-> IF k = 0 THEN 1 ELSE Base * t[k - 1]]

\* There is one, for every n.
LEMMA PlaceTableExists == \A n \in Nat : \E t : PlaceTable(t, n)
<1> DEFINE Bad == {n \in Nat : ~ \E t : PlaceTable(t, n)}
<1> SUFFICES ASSUME Bad # {} PROVE FALSE
  OBVIOUS
<1>1. Bad \in SUBSET Nat
  OBVIOUS
<1> DEFINE n == Min(Bad)
<1>2. n \in Bad /\ \A m \in Bad : n <= m
  <2> HIDE DEF Bad
  <2> QED BY <1>1, MinIsLeast
<1> HIDE DEF n
<1>3. n \in Nat
  BY <1>2
<1>4. CASE n = 0
  <2> DEFINE t == [k \in 0 .. n |-> 1]
  <2>1. PlaceTable(t, n)
    BY <1>4 DEF PlaceTable
  <2> QED BY <1>2, <2>1
<1>5. CASE n # 0
  <2>1. n - 1 \in Nat /\ n - 1 \notin Bad
    BY <1>2, <1>3, <1>5
  <2>2. PICK s : PlaceTable(s, n - 1)
    BY <2>1
  <2> DEFINE t == [k \in 0 .. n |-> IF k = 0 THEN 1 ELSE Base * s[k - 1]]
  <2>3. \A k \in 0 .. n - 1 : s[k] = IF k = 0 THEN 1 ELSE Base * s[k - 1]
    BY <2>2 DEF PlaceTable
  <2>4. \A k \in 0 .. n - 1 : t[k] = s[k]
    BY <1>3, <2>3
  <2>5. \A k \in 0 .. n : t[k] = IF k = 0 THEN 1 ELSE Base * t[k - 1]
    <3> SUFFICES ASSUME NEW k \in 0 .. n, k # 0 PROVE t[k] = Base * t[k - 1]
      OBVIOUS
    <3>1. k - 1 \in 0 .. n - 1
      BY <1>3
    <3>2. t[k - 1] = s[k - 1]
      BY <2>4, <3>1
    <3>3. t[k] = Base * s[k - 1]
      OBVIOUS
    <3> QED BY <3>2, <3>3
  <2>6. PlaceTable(t, n)
    <3>1. t = [k \in 0 .. n |-> t[k]]
      OBVIOUS
    <3> HIDE DEF t
    <3> QED BY <2>5, <3>1 DEF PlaceTable
  <2> QED BY <1>2, <2>6
<1> QED BY <1>4, <1>5

\* Tables agree on what both of them have.
LEMMA PlaceTablesAgree ==
  ASSUME NEW n \in Nat, NEW m \in Nat, NEW s, NEW t, PlaceTable(s, n), PlaceTable(t, m), n <= m
  PROVE  \A k \in 0 .. n : s[k] = t[k]
<1> DEFINE Bad == {k \in 0 .. n : s[k] # t[k]}
<1> SUFFICES ASSUME Bad # {} PROVE FALSE
  OBVIOUS
<1>1. Bad \in SUBSET Nat
  OBVIOUS
<1>2. PICK k \in Bad : \A j \in Bad : k <= j
  <2> HIDE DEF Bad
  <2> QED BY <1>1, MinIsLeast
<1>3. k \in 0 .. n /\ k \in 0 .. m /\ s[k] # t[k]
  OBVIOUS
<1>4. /\ s[k] = IF k = 0 THEN 1 ELSE Base * s[k - 1]
      /\ t[k] = IF k = 0 THEN 1 ELSE Base * t[k - 1]
  BY <1>3 DEF PlaceTable
<1>5. k # 0
  BY <1>3, <1>4
<1>6. k - 1 \in 0 .. n /\ k - 1 \notin Bad
  BY <1>2, <1>3, <1>5
<1> QED BY <1>3, <1>4, <1>5, <1>6

\* A place is worth as much as all digits of the place behind it.
LEMMA PlaceValues ==
  /\ PlaceValue[0] = 1
  /\ \A n \in Nat : PlaceValue[n + 1] = Base * PlaceValue[n]
<1> DEFINE Row(n) == CHOOSE t : PlaceTable(t, n)
           all == [n \in Nat |-> Row(n)[n]]
<1>1. \A n \in Nat : PlaceTable(Row(n), n)
  BY PlaceTableExists
<1>2. ASSUME NEW n \in Nat, n # 0 PROVE all[n] = Base * all[n - 1]
  <2>1. n - 1 \in Nat /\ n - 1 <= n
    BY <1>2
  <2>2. PlaceTable(Row(n), n) /\ PlaceTable(Row(n - 1), n - 1)
    BY <1>1, <2>1
  <2> HIDE DEF Row
  <2>3. Row(n)[n - 1] = Row(n - 1)[n - 1]
    BY <2>1, <2>2, PlaceTablesAgree
  <2>4. Row(n)[n] = Base * Row(n)[n - 1]
    BY <1>2, <2>2 DEF PlaceTable
  <2>5. all[n] = Row(n)[n] /\ all[n - 1] = Row(n - 1)[n - 1]
    BY <2>1
  <2> QED BY <2>3, <2>4, <2>5
<1>3. all[0] = 1
  <2>1. PlaceTable(Row(0), 0)
    BY <1>1
  <2> HIDE DEF Row
  <2> QED BY <2>1 DEF PlaceTable
<1>4. all = [n \in Nat |-> all[n]]
  OBVIOUS
<1> HIDE DEF all
<1>5. \A n \in Nat : all[n] = IF n = 0 THEN 1 ELSE Base * all[n - 1]
  BY <1>2, <1>3
<1>6. all = [n \in Nat |-> IF n = 0 THEN 1 ELSE Base * all[n - 1]]
  BY <1>4, <1>5
<1>7. PlaceValue = [n \in Nat |-> IF n = 0 THEN 1 ELSE Base * PlaceValue[n - 1]]
  BY <1>6 DEF PlaceValue
<1>8. ASSUME NEW n \in Nat PROVE PlaceValue[n + 1] = Base * PlaceValue[n]
  <2>1. n + 1 \in Nat /\ n + 1 # 0 /\ (n + 1) - 1 = n
    OBVIOUS
  <2> QED BY <1>7, <2>1
<1>9. PlaceValue[0] = 1
  BY <1>7
<1> QED BY <1>8, <1>9

\* And worth something.
LEMMA PlacesArePositive == \A n \in Nat : PlaceValue[n] \in Nat \ {0}
<1> DEFINE Bad == {n \in Nat : PlaceValue[n] \notin Nat \ {0}}
<1> SUFFICES ASSUME Bad # {} PROVE FALSE
  OBVIOUS
<1>1. Bad \in SUBSET Nat
  OBVIOUS
<1>2. PICK n \in Bad : \A m \in Bad : n <= m
  <2> HIDE DEF Bad
  <2> QED BY <1>1, MinIsLeast
<1>3. n # 0
  BY <1>2, PlaceValues
<1>4. n - 1 \in Nat /\ n - 1 \notin Bad
  BY <1>2, <1>3
<1>5. PlaceValue[n] = Base * PlaceValue[n - 1] /\ PlaceValue[n - 1] \in Nat \ {0}
  <2>1. PlaceValue[(n - 1) + 1] = Base * PlaceValue[n - 1]
    BY <1>4, PlaceValues
  <2> QED BY <1>4, <2>1
<1>6. PlaceValue[n] \in Nat \ {0}
  BY <1>5, BaseAssumption
<1> QED BY <1>6

\* The quotient is the number that fits so often.
LEMMA QuotientIs ==
  ASSUME NEW a \in Nat, NEW d \in Nat \ {0}, NEW r \in Nat, r * d <= a, a < r * d + d
  PROVE  a \div d = r
<1> DEFINE s == a \div d
<1>1. s \in Nat /\ s * d <= a /\ a < s * d + d
  BY Z3
<1> HIDE DEF s
<1>2. ASSUME s < r PROVE FALSE
  <2>1. (s + 1) * d <= r * d
    BY <1>1, <1>2, Monotone
  <2>2. (s + 1) * d = s * d + d /\ s * d \in Nat /\ r * d \in Nat
    BY <1>1, Z3
  <2> QED BY <1>1, <2>1, <2>2
<1>3. ASSUME r < s PROVE FALSE
  <2>1. (r + 1) * d <= s * d
    BY <1>1, <1>3, Monotone
  <2>2. (r + 1) * d = r * d + d /\ s * d \in Nat /\ r * d \in Nat
    BY <1>1, Z3
  <2> QED BY <1>1, <2>1, <2>2
<1>4. s = r
  BY <1>1, <1>2, <1>3
<1> QED BY <1>4 DEF s

\* Dividing by a product is dividing by its factors, one after the other.
LEMMA DivideTwice ==
  ASSUME NEW a \in Nat, NEW b \in Nat \ {0}, NEW c \in Nat \ {0}
  PROVE  a \div (c * b) = (a \div b) \div c
<1> DEFINE q == a \div b
           r == q \div c
<1>1. q \in Nat /\ q * b <= a /\ a < q * b + b
  BY Z3
<1> HIDE DEF q
<1>2. r \in Nat /\ r * c <= q /\ q < r * c + c
  BY <1>1, Z3
<1> HIDE DEF r
<1>3. r * c \in Nat /\ (r + 1) * c = r * c + c /\ q + 1 <= r * c + c
  BY <1>1, <1>2, Z3
<1>4. (r * c) * b <= q * b /\ (q + 1) * b <= (r * c + c) * b
  BY <1>1, <1>2, <1>3, Monotone
<1>5. (q + 1) * b = q * b + b /\ (r * c + c) * b = (r * c) * b + c * b
  BY <1>1, <1>3, Z3
<1>6. (r * c) * b = r * (c * b) /\ c * b \in Nat \ {0} /\ r * (c * b) \in Nat /\ q * b \in Nat
  BY <1>1, <1>2, Z3
<1>7. r * (c * b) <= a /\ a < r * (c * b) + c * b
  BY <1>1, <1>4, <1>5, <1>6
<1> DEFINE d == c * b
<1>8. d \in Nat \ {0} /\ r * d <= a /\ a < r * d + d
  BY <1>6, <1>7
<1> HIDE DEF d
<1>9. a \div d = r
  BY <1>2, <1>8, QuotientIs
<1> QED BY <1>9 DEF d, q, r

\* The first digit in which two numbers differ decides between them.
LEMMA DigitsDecide ==
  ASSUME NEW a \in Nat, NEW b \in Nat, NEW n \in Nat, a < b, b < PlaceValue[n]
  PROVE  \E i \in 1 .. n : /\ Digits(a, n)[i] < Digits(b, n)[i]
                           /\ \A j \in 1 .. i - 1 : Digits(a, n)[j] = Digits(b, n)[j]
<1> DEFINE Q(x, k) == x \div PlaceValue[k]
           Bad == {i \in 1 .. n : Q(a, n - i) # Q(b, n - i)}
<1>1. \A k \in Nat : PlaceValue[k] \in Nat \ {0}
  BY PlacesArePositive
<1>2. \A k \in Nat : Q(a, k) \in Nat /\ Q(b, k) \in Nat /\ Q(a, k) <= Q(b, k)
  <2> SUFFICES ASSUME NEW k \in Nat PROVE Q(a, k) \in Nat /\ Q(b, k) \in Nat /\ Q(a, k) <= Q(b, k)
    OBVIOUS
  <2>1. PlaceValue[k] \in Nat \ {0} /\ a <= b
    BY <1>1
  <2>2. Q(a, k) <= Q(b, k)
    BY <2>1, QuotientGrows
  <2> QED BY <2>1, <2>2
<1>3. Q(a, 0) = a /\ Q(b, 0) = b
  BY PlaceValues
<1>4. Q(a, n) = 0 /\ Q(b, n) = 0
  <2>1. PlaceValue[n] \in Nat \ {0}
    BY <1>1
  <2> DEFINE p == PlaceValue[n]
  <2>2. p \in Nat \ {0} /\ a < p /\ b < p
    BY <2>1
  <2> HIDE DEF p
  <2>3. a \div p = 0 /\ b \div p = 0
    BY <2>2, QuotientIs
  <2> QED BY <2>3 DEF p
<1>5. \A k \in Nat : /\ Q(a, k) = Base * Q(a, k + 1) + (Q(a, k) % Base)
                     /\ Q(b, k) = Base * Q(b, k + 1) + (Q(b, k) % Base)
                     /\ Q(a, k) % Base \in Nat /\ Q(b, k) % Base \in Nat
  <2> SUFFICES ASSUME NEW k \in Nat, NEW x \in Nat, Q(x, k) \in Nat
               PROVE  /\ Q(x, k) = Base * Q(x, k + 1) + (Q(x, k) % Base)
                      /\ Q(x, k) % Base \in Nat
    BY <1>2
  <2>1. PlaceValue[k + 1] = Base * PlaceValue[k] /\ PlaceValue[k] \in Nat \ {0}
    BY <1>1, PlaceValues
  <2>2. Q(x, k + 1) = Q(x, k) \div Base
    BY <2>1, BaseAssumption, DivideTwice
  <2> HIDE DEF Q
  <2>3. /\ Q(x, k) = Base * (Q(x, k) \div Base) + (Q(x, k) % Base)
        /\ Q(x, k) % Base \in Nat
    BY BaseAssumption, Z3
  <2> QED BY <2>2, <2>3
<1> HIDE DEF Q
<1>6. n \in Bad
  <2>1. n # 0
    BY <1>3, <1>4
  <2>2. n - n = 0
    OBVIOUS
  <2> QED BY <1>3, <2>1, <2>2
<1>7. PICK i \in Bad : \A j \in Bad : i <= j
  <2>1. Bad \in SUBSET Nat
    OBVIOUS
  <2> HIDE DEF Bad
  <2> QED BY <1>6, <2>1, MinIsLeast
<1>8. i \in 1 .. n /\ Q(a, n - i) # Q(b, n - i)
  OBVIOUS
<1>9. \A j \in 1 .. i - 1 : Q(a, n - j) = Q(b, n - j)
  BY <1>7, <1>8
<1> HIDE DEF Bad
<1> DEFINE k == n - i
<1>10. k \in Nat /\ k + 1 \in Nat
  BY <1>8
<1>11. Q(a, k + 1) = Q(b, k + 1)
  <2>1. CASE i = 1
    <3>1. k + 1 = n
      BY <1>8, <2>1
    <3> QED BY <1>4, <3>1
  <2>2. CASE i # 1
    <3>1. i - 1 \in 1 .. i - 1 /\ k + 1 = n - (i - 1)
      BY <1>8, <2>2
    <3> QED BY <1>9, <3>1
  <2> QED BY <2>1, <2>2
<1>12. Q(a, k) < Q(b, k)
  BY <1>2, <1>8, <1>10
<1> HIDE DEF k
<1>13. Q(a, k) % Base < Q(b, k) % Base
  <2> DEFINE c == Base * Q(a, k + 1)
  <2>1. c \in Nat
    BY <1>2, <1>10, BaseAssumption
  <2>2. Q(a, k) = c + (Q(a, k) % Base) /\ Q(b, k) = c + (Q(b, k) % Base)
    BY <1>5, <1>10, <1>11
  <2> HIDE DEF c
  <2> QED BY <1>5, <1>10, <1>12, <2>1, <2>2
<1>14. \A j \in 1 .. n : /\ Digits(a, n)[j] = Q(a, n - j) % Base
                         /\ Digits(b, n)[j] = Q(b, n - j) % Base
  BY DEF Digits, Q
<1>15. \A j \in 1 .. i - 1 : j \in 1 .. n
  BY <1>8
<1> QED BY <1>8, <1>9, <1>13, <1>14, <1>15 DEF k

\* A whole has three digits behind the point.
LEMMA WholeIsPlace == PlaceValue[3] = Whole /\ Whole \in Nat \ {0}
<1>1. PlaceValue[0 + 1] = Base * PlaceValue[0] /\ PlaceValue[0] = 1
  BY PlaceValues
<1>2. PlaceValue[1 + 1] = Base * PlaceValue[1]
  BY PlaceValues
<1>3. PlaceValue[2 + 1] = Base * PlaceValue[2]
  BY PlaceValues
<1>4. PlaceValue[1] = Base /\ PlaceValue[2] = Base * Base /\ PlaceValue[3] = Base * (Base * Base)
  BY <1>1, <1>2, <1>3, BaseAssumption
<1>5. Base * (Base * Base) = (Base * Base) * Base
  BY BaseAssumption
<1>6. PlaceValue[3] \in Nat \ {0}
  BY PlacesArePositive
<1> QED BY <1>4, <1>5, <1>6 DEF Whole, Unit

\* Digits are numbers.
LEMMA DigitsAreNumbers ==
  ASSUME NEW value \in Nat, NEW n \in Nat
  PROVE  /\ Digits(value, n) \in Seq(Nat) /\ Len(Digits(value, n)) = n
         /\ Digits(value, n) \in [1 .. n -> Nat]
<1>1. ASSUME NEW i \in 1 .. n PROVE (value \div PlaceValue[n - i]) % Base \in Nat
  <2> DEFINE p == PlaceValue[n - i]
  <2>1. p \in Nat \ {0}
    BY PlacesArePositive
  <2> HIDE DEF p
  <2>2. value \div p \in Nat
    BY <2>1
  <2>3. (value \div p) % Base \in Nat
    BY <2>2, BaseAssumption
  <2> QED BY <2>3 DEF p
<1>2. Digits(value, n) \in [1 .. n -> Nat]
  BY <1>1 DEF Digits
<1> HIDE DEF Digits
<1> QED BY <1>2

\* The fraction, padded at its end, has the digits of the number behind the point.
LEMMA PaddedFraction ==
  ASSUME NEW value \in Nat
  PROVE  /\ Fraction(value) \in Seq(Nat) /\ Len(Fraction(value)) \in 0 .. 3
         /\ Fraction(value) \o [i \in 1 .. 3 - Len(Fraction(value)) |-> 0]
              = Digits(value % Whole, 3)
<1> DEFINE d == Digits(value % Whole, 3)
           last == {i \in DOMAIN d : d[i] # 0}
           f == Fraction(value)
<1>1. d \in [1 .. 3 -> Nat] /\ d \in Seq(Nat) /\ Len(d) = 3
  <2>1. value % Whole \in Nat
    BY WholeIsPlace
  <2> QED BY <2>1, DigitsAreNumbers
<1>2. f = IF last = {} THEN <<>> ELSE SubSeq(d, 1, Max(last))
  BY DEF Fraction
<1> HIDE DEF d, f
<1>3. /\ f \in Seq(Nat) /\ Len(f) \in 0 .. 3
      /\ f \o [i \in 1 .. 3 - Len(f) |-> 0] = d
  <2>1. CASE last = {}
    <3>1. f = <<>> /\ Len(f) = 0
      BY <1>2, <2>1
    <3>2. \A i \in 1 .. 3 : d[i] = 0
      BY <1>1, <2>1
    <3>3. f \o [i \in 1 .. 3 - Len(f) |-> 0] = [i \in 1 .. 3 |-> 0]
      BY <3>1
    <3>4. d = [i \in 1 .. 3 |-> 0]
      BY <1>1, <3>2
    <3> QED BY <3>1, <3>3, <3>4
  <2>2. CASE last # {}
    <3> DEFINE m == Max(last)
    <3>1. m \in last /\ \A i \in last : m >= i
      <4>1. last \in SUBSET Nat /\ last \subseteq {1, 2, 3}
        BY <1>1
      <4>2. \E x \in last : \A y \in last : x >= y
        BY <2>2, <4>1
      <4> QED BY <4>2 DEF Max
    <3>2. f = SubSeq(d, 1, m)
      BY <1>2, <2>2
    <3> HIDE DEF m
    <3>3. m \in 1 .. 3 /\ \A i \in 1 .. 3 : i > m => d[i] = 0
      BY <1>1, <3>1
    <3>4. f = [i \in 1 .. m |-> d[i]]
      BY <1>1, <3>2, <3>3
    <3>5. f \in [1 .. m -> Nat]
      BY <1>1, <3>3, <3>4
    <3>6. f \in Seq(Nat) /\ Len(f) = m
      BY <3>3, <3>5
    <3> DEFINE pad == [i \in 1 .. 3 - m |-> 0]
               all == [i \in 1 .. 3 |-> IF i <= m THEN d[i] ELSE 0]
    <3>7. f \o pad = all
      BY <3>3, <3>4, <3>6
    <3>8. \A i \in 1 .. 3 : all[i] = d[i]
      BY <3>3
    <3>9. all \in [1 .. 3 -> Nat]
      BY <1>1
    <3> HIDE DEF all
    <3>10. all = d
      BY <1>1, <3>8, <3>9
    <3> QED BY <3>3, <3>6, <3>7, <3>10
  <2> QED BY <2>1, <2>2
<1> QED BY <1>3 DEF d, f

\* Two sequences put together, and three.
LEMMA TwoParts ==
  ASSUME NEW s \in Seq(Nat), NEW t \in Seq(Nat), NEW n \in Nat, Len(s) = n, Len(t) = 3
  PROVE  /\ DOMAIN (s \o t) = 1 .. n + 3
         /\ \A i \in 1 .. n : (s \o t)[i] = s[i]
         /\ \A i \in 1 .. 3 : (s \o t)[n + i] = t[i]
<1>1. /\ s \o t \in Seq(Nat)
      /\ Len(s \o t) = Len(s) + Len(t)
      /\ \A i \in 1 .. Len(s) + Len(t) : (s \o t)[i] = IF i <= Len(s) THEN s[i] ELSE t[i - Len(s)]
  BY ConcatProperties, Zenon
<1> DEFINE both == s \o t
<1>2. /\ both \in Seq(Nat) /\ Len(both) = Len(s) + Len(t)
      /\ \A i \in 1 .. Len(s) + Len(t) : both[i] = IF i <= Len(s) THEN s[i] ELSE t[i - Len(s)]
  BY <1>1
<1> HIDE DEF both
<1>3. both \in Seq(Nat) /\ Len(both) = n + 3
      /\ \A i \in 1 .. n + 3 : both[i] = IF i <= n THEN s[i] ELSE t[i - n]
  BY <1>2
<1>4. DOMAIN both = 1 .. n + 3 /\ \A i \in 1 .. n : both[i] = s[i]
  BY <1>3
<1>5. ASSUME NEW i \in 1 .. 3 PROVE both[n + i] = t[i]
  <2>1. n + i \in 1 .. n + 3 /\ ~(n + i <= n) /\ (n + i) - n = i
    OBVIOUS
  <2> QED BY <1>3, <2>1
<1> QED BY <1>4, <1>5 DEF both

LEMMA ThreeParts ==
  ASSUME NEW s \in Seq(Nat), NEW t \in Seq(Nat), NEW u \in Seq(Nat)
  PROVE  (s \o t) \o u = s \o (t \o u)
BY ConcatAssociative

\* A sort key has the digits before the point first, and then those behind it.
LEMMA KeyIs ==
  ASSUME NEW value \in Nat
  PROVE  /\ DOMAIN SortKey(value) = 1 .. IntegerDigits + 3
         /\ \A i \in 1 .. IntegerDigits :
              SortKey(value)[i] = Digits(value \div Whole, IntegerDigits)[i]
         /\ \A i \in 1 .. 3 : SortKey(value)[IntegerDigits + i] = Digits(value % Whole, 3)[i]
<1> DEFINE n == IntegerDigits
           before == Digits(value \div Whole, n)
           behind == Digits(value % Whole, 3)
           f == Fraction(value)
           pad == [i \in 1 .. 3 - Len(f) |-> 0]
<1>1. n \in Nat /\ value \div Whole \in Nat /\ value % Whole \in Nat
  BY IntegerDigitsAssumption, WholeIsPlace
<1>2. /\ before \in Seq(Nat) /\ Len(before) = n
      /\ behind \in Seq(Nat) /\ Len(behind) = 3
  BY <1>1, DigitsAreNumbers
<1>3. SortKey(value) = (before \o f) \o pad
  BY DEF SortKey
<1>4. f \in Seq(Nat) /\ Len(f) \in 0 .. 3 /\ f \o pad = behind
  BY PaddedFraction
<1> HIDE DEF before, behind, n, f
<1>5. pad \in Seq(Nat)
  BY <1>4
<1> HIDE DEF pad
<1>6. (before \o f) \o pad = before \o (f \o pad)
  BY <1>2, <1>4, <1>5, ThreeParts
<1>7. SortKey(value) = before \o behind
  BY <1>3, <1>4, <1>6
<1>8. /\ DOMAIN (before \o behind) = 1 .. n + 3
      /\ \A i \in 1 .. n : (before \o behind)[i] = before[i]
      /\ \A i \in 1 .. 3 : (before \o behind)[n + i] = behind[i]
  BY <1>1, <1>2, TwoParts
<1> QED BY <1>7, <1>8 DEF before, behind, n

\* The sort keys of decimals are in the order of the decimals.
LEMMA KeysInOrder ==
  ASSUME NEW a, NEW b, IsExactDecimal(a), IsExactDecimal(b), a < b
  PROVE  Precedes(SortKey(a), SortKey(b))
<1> DEFINE n == IntegerDigits
           k == SortKey(a)
           l == SortKey(b)
<1>1. a \in Nat /\ b \in Nat /\ n \in Nat /\ Whole \in Nat \ {0}
  BY IntegerDigitsAssumption, WholeIsPlace DEF IsExactDecimal
<1>2. /\ a \div Whole \in Nat /\ b \div Whole \in Nat /\ a \div Whole <= b \div Whole
      /\ a \div Whole < PlaceValue[n] /\ b \div Whole < PlaceValue[n]
  <2>1. a \div Whole < PlaceValue[n] /\ b \div Whole < PlaceValue[n]
    BY DEF IsExactDecimal
  <2> DEFINE w == Whole
  <2>2. w \in Nat \ {0}
    BY <1>1
  <2> HIDE DEF w
  <2>3. a \div w \in Nat /\ b \div w \in Nat
    BY <1>1, <2>2
  <2>4. a <= b /\ w <= w
    BY <1>1, <2>2
  <2>5. a \div w <= b \div w
    BY <1>1, <2>2, <2>4, QuotientGrows
  <2> QED BY <2>1, <2>3, <2>5 DEF w
<1>3. /\ DOMAIN k = 1 .. n + 3
      /\ \A i \in 1 .. n : k[i] = Digits(a \div Whole, n)[i]
      /\ \A i \in 1 .. 3 : k[n + i] = Digits(a % Whole, 3)[i]
      /\ \A i \in 1 .. n : l[i] = Digits(b \div Whole, n)[i]
      /\ \A i \in 1 .. 3 : l[n + i] = Digits(b % Whole, 3)[i]
  BY <1>1, KeyIs
<1> HIDE DEF n, k, l
<1>4. CASE a \div Whole < b \div Whole
  <2> DEFINE x == a \div Whole
             y == b \div Whole
  <2>1. PICK i \in 1 .. n : /\ Digits(x, n)[i] < Digits(y, n)[i]
                           /\ \A j \in 1 .. i - 1 : Digits(x, n)[j] = Digits(y, n)[j]
    <3>1. x \in Nat /\ y \in Nat /\ x < y /\ y < PlaceValue[n]
      BY <1>2, <1>4
    <3> HIDE DEF x, y
    <3> QED BY <1>1, <3>1, DigitsDecide
  <2>2. i \in 1 .. n + 3 /\ \A j \in 1 .. i - 1 : j \in 1 .. n
    BY <1>1
  <2>3. k[i] < l[i] /\ \A j \in 1 .. i - 1 : k[j] = l[j]
    BY <1>3, <2>1, <2>2
  <2> QED BY <1>3, <2>2, <2>3 DEF Precedes, k, l
<1>5. CASE a \div Whole = b \div Whole
  <2>1. /\ a % Whole \in Nat /\ b % Whole \in Nat /\ a % Whole < b % Whole
        /\ b % Whole < PlaceValue[3]
    <3> DEFINE w == Whole
    <3>1. /\ a = w * (a \div w) + (a % w) /\ b = w * (b \div w) + (b % w)
          /\ a % w \in Nat /\ b % w \in Nat /\ b % w < w
      <4>1. w \in Nat \ {0}
        BY <1>1
      <4> HIDE DEF w
      <4> QED BY <1>1, <4>1, Z3
    <3>2. w * (a \div w) \in Nat
      BY <1>1, <1>2
    <3>3. w * (a \div w) = w * (b \div w)
      BY <1>5
    <3>4. PlaceValue[3] = w
      BY WholeIsPlace
    <3> HIDE DEF w
    <3>5. a % w < b % w
      BY <1>1, <3>1, <3>2, <3>3
    <3> QED BY <3>1, <3>4, <3>5 DEF w
  <2> DEFINE x == a % Whole
             y == b % Whole
  <2>2. PICK i \in 1 .. 3 : /\ Digits(x, 3)[i] < Digits(y, 3)[i]
                           /\ \A j \in 1 .. i - 1 : Digits(x, 3)[j] = Digits(y, 3)[j]
    <3> HIDE DEF x, y
    <3> QED BY <2>1, DigitsDecide DEF x, y
  <2>3. n + i \in 1 .. n + 3 /\ k[n + i] < l[n + i]
    BY <1>1, <1>3, <2>2
  <2>4. ASSUME NEW j \in 1 .. n + i - 1 PROVE k[j] = l[j]
    <3>1. CASE j \in 1 .. n
      BY <1>3, <1>5, <3>1
    <3>2. CASE j \notin 1 .. n
      <4>1. j - n \in 1 .. i - 1 /\ j - n \in 1 .. 3 /\ n + (j - n) = j
        BY <1>1, <3>2
      <4> QED BY <1>3, <2>2, <4>1
    <3> QED BY <3>1, <3>2
  <2> DEFINE m == n + i
  <2>5. m \in DOMAIN k /\ k[m] < l[m]
    BY <1>3, <2>3
  <2>6. \A j \in 1 .. m - 1 : k[j] = l[j]
    BY <1>1, <2>4
  <2> HIDE DEF m
  <2> QED BY <2>5, <2>6 DEF Precedes, k, l
<1> QED BY <1>1, <1>2, <1>4, <1>5

\* The accounts' votes are listed in the order of their powers, whatever the powers are:
\* the order of the texts is that of the decimals (exactDecimal.ts, decimalSortKey).
THEOREM KeysAlwaysSortByPower == PowerSpec => []KeysSortByPower
<1>1. PowerInv => KeysSortByPower
  BY KeysInOrder DEF PowerInv, PowersAreExact, KeysSortByPower
<1> QED
  BY <1>1, PowerInvariant, PTL

-----------------------------------------------------------------------------
(***************************************************************************)
(* What the pools hold is counted once.  Each sum that the model takes is  *)
(* first put as a sum of a function's values, which the lemmas of SetLemmas  *)
(* are about: the provers instantiate no lemma with an operator.           *)
(***************************************************************************)

\* What a receipt claims of a pool's first token.
LEMMA FirstTokensAreSum ==
  ASSUME NEW claims, IsFiniteSet(DOMAIN claims), NEW pool
  PROVE  MapThenSumSet(LAMBDA t : ClaimX(t, claims[t], pool), DOMAIN claims)
           = SumOf([t \in DOMAIN claims |-> ClaimX(t, claims[t], pool)], DOMAIN claims)
<1> DEFINE f == [t \in DOMAIN claims |-> ClaimX(t, claims[t], pool)]
           entry(g, s) == IF s = {} THEN 0
                          ELSE ClaimX(Chosen(s), claims[Chosen(s)], pool) + g[s \ {Chosen(s)}]
           table == CHOOSE g : g = [s \in SUBSET (DOMAIN claims) |-> entry(g, s)]
<1>1. \A g : Table(g, f, DOMAIN claims) <=> g = [s \in SUBSET (DOMAIN claims) |-> entry(g, s)]
  BY ChosenIn DEF Table
<1>2. table = [s \in SUBSET (DOMAIN claims) |-> entry(table, s)]
  <2> HIDE DEF entry, f
  <2>1. \E g : g = [s \in SUBSET (DOMAIN claims) |-> entry(g, s)]
    BY <1>1, TableExists
  <2>2. QED BY <2>1
<1>3. MapThenSumSet(LAMBDA t : ClaimX(t, claims[t], pool), DOMAIN claims) = table[DOMAIN claims]
  BY DEF MapThenSumSet, MapThenFoldSet, Chosen
<1> HIDE DEF table, entry, f
<1>4. SumOf(f, DOMAIN claims) = table[DOMAIN claims]
  BY <1>1, <1>2, SumFromTable
<1>5. QED BY <1>3, <1>4 DEF f

\* What a receipt claims of its second token.
LEMMA SecondTokensAreSum ==
  ASSUME NEW claims, IsFiniteSet(DOMAIN claims), NEW pool
  PROVE  MapThenSumSet(LAMBDA t : ClaimY(t, claims[t], pool), DOMAIN claims)
           = SumOf([t \in DOMAIN claims |-> ClaimY(t, claims[t], pool)], DOMAIN claims)
<1> DEFINE f == [t \in DOMAIN claims |-> ClaimY(t, claims[t], pool)]
           entry(g, s) == IF s = {} THEN 0
                          ELSE ClaimY(Chosen(s), claims[Chosen(s)], pool) + g[s \ {Chosen(s)}]
           table == CHOOSE g : g = [s \in SUBSET (DOMAIN claims) |-> entry(g, s)]
<1>1. \A g : Table(g, f, DOMAIN claims) <=> g = [s \in SUBSET (DOMAIN claims) |-> entry(g, s)]
  BY ChosenIn DEF Table
<1>2. table = [s \in SUBSET (DOMAIN claims) |-> entry(table, s)]
  <2> HIDE DEF entry, f
  <2>1. \E g : g = [s \in SUBSET (DOMAIN claims) |-> entry(g, s)]
    BY <1>1, TableExists
  <2>2. QED BY <2>1
<1>3. MapThenSumSet(LAMBDA t : ClaimY(t, claims[t], pool), DOMAIN claims) = table[DOMAIN claims]
  BY DEF MapThenSumSet, MapThenFoldSet, Chosen
<1> HIDE DEF table, entry, f
<1>4. SumOf(f, DOMAIN claims) = table[DOMAIN claims]
  BY <1>1, <1>2, SumFromTable
<1>5. QED BY <1>3, <1>4 DEF f

\* What some receipts are worth.
LEMMA ReceiptsAreSum ==
  ASSUME NEW S, IsFiniteSet(S), NEW pool, NEW ctx
  PROVE  MapThenSumSet(LAMBDA r : ClaimsXrd((r).claims, pool, ctx), S)
           = SumOf([r \in S |-> ClaimsXrd((r).claims, pool, ctx)], S)
<1> DEFINE f == [r \in S |-> ClaimsXrd((r).claims, pool, ctx)]
           entry(g, s) == IF s = {} THEN 0
                          ELSE ClaimsXrd((Chosen(s)).claims, pool, ctx) + g[s \ {Chosen(s)}]
           table == CHOOSE g : g = [s \in SUBSET S |-> entry(g, s)]
<1>1. \A g : Table(g, f, S) <=> g = [s \in SUBSET S |-> entry(g, s)]
  BY ChosenIn DEF Table
<1>2. table = [s \in SUBSET S |-> entry(table, s)]
  <2> HIDE DEF entry, f
  <2>1. \E g : g = [s \in SUBSET S |-> entry(g, s)]
    BY <1>1, TableExists
  <2>2. QED BY <2>1
<1>3. MapThenSumSet(LAMBDA r : ClaimsXrd((r).claims, pool, ctx), S) = table[S]
  BY DEF MapThenSumSet, MapThenFoldSet, Chosen
<1> HIDE DEF table, entry, f
<1>4. SumOf(f, S) = table[S]
  BY <1>1, <1>2, SumFromTable
<1>5. QED BY <1>3, <1>4 DEF f

\* What all accounts have in a shape pool.
LEMMA AccountsAreSum ==
  ASSUME NEW receipts, NEW pool, NEW ctx
  PROVE  MapThenSumSet(LAMBDA a : ShapeXrd(ReceiptsOf(a, receipts), pool, ctx), Accounts)
           = SumOf([a \in Accounts |-> ShapeXrd(ReceiptsOf(a, receipts), pool, ctx)], Accounts)
<1> DEFINE f == [a \in Accounts |-> ShapeXrd(ReceiptsOf(a, receipts), pool, ctx)]
           entry(g, s) == IF s = {} THEN 0
                           ELSE ShapeXrd(ReceiptsOf(Chosen(s), receipts), pool, ctx)
                                + g[s \ {Chosen(s)}]
           table == CHOOSE g : g = [s \in SUBSET Accounts |-> entry(g, s)]
<1>1. \A g : Table(g, f, Accounts) <=> g = [s \in SUBSET Accounts |-> entry(g, s)]
  BY ChosenIn DEF Table
<1>2. table = [s \in SUBSET Accounts |-> entry(table, s)]
  <2> HIDE DEF entry, f
  <2>1. \E g : g = [s \in SUBSET Accounts |-> entry(g, s)]
    BY <1>1, TableExists, PoolsAssumption
  <2>2. QED BY <2>1
<1>3. MapThenSumSet(LAMBDA a : ShapeXrd(ReceiptsOf(a, receipts), pool, ctx), Accounts)
        = table[Accounts]
  BY DEF MapThenSumSet, MapThenFoldSet, Chosen
<1> HIDE DEF table, entry, f
<1>4. SumOf(f, Accounts) = table[Accounts]
  BY <1>1, <1>2, SumFromTable, PoolsAssumption
<1>5. QED BY <1>3, <1>4 DEF f

\* What some bins hold.
LEMMA BinsAreSum ==
  ASSUME NEW S, IsFiniteSet(S), NEW shape
  PROVE  MapThenSumSet(LAMBDA t : shape.bins[t].amount, S)
           = SumOf([t \in S |-> shape.bins[t].amount], S)
<1> DEFINE f == [t \in S |-> shape.bins[t].amount]
           entry(g, s) == IF s = {} THEN 0 ELSE shape.bins[Chosen(s)].amount + g[s \ {Chosen(s)}]
           table == CHOOSE g : g = [s \in SUBSET S |-> entry(g, s)]
<1>1. \A g : Table(g, f, S) <=> g = [s \in SUBSET S |-> entry(g, s)]
  BY ChosenIn DEF Table
<1>2. table = [s \in SUBSET S |-> entry(table, s)]
  <2> HIDE DEF entry, f
  <2>1. \E g : g = [s \in SUBSET S |-> entry(g, s)]
    BY <1>1, TableExists
  <2>2. QED BY <2>1
<1>3. MapThenSumSet(LAMBDA t : shape.bins[t].amount, S) = table[S]
  BY DEF MapThenSumSet, MapThenFoldSet, Chosen
<1> HIDE DEF table, entry, f
<1>4. SumOf(f, S) = table[S]
  BY <1>1, <1>2, SumFromTable
<1>5. QED BY <1>3, <1>4 DEF f

\* What some receipts claim at a tick.
LEMMA ClaimsAreSum ==
  ASSUME NEW S, IsFiniteSet(S), NEW tick
  PROVE  MapThenSumSet(LAMBDA r : (r).claims[tick], S)
           = SumOf([r \in S |-> (r).claims[tick]], S)
<1> DEFINE f == [r \in S |-> (r).claims[tick]]
           entry(g, s) == IF s = {} THEN 0 ELSE (Chosen(s)).claims[tick] + g[s \ {Chosen(s)}]
           table == CHOOSE g : g = [s \in SUBSET S |-> entry(g, s)]
<1>1. \A g : Table(g, f, S) <=> g = [s \in SUBSET S |-> entry(g, s)]
  BY ChosenIn DEF Table
<1>2. table = [s \in SUBSET S |-> entry(table, s)]
  <2> HIDE DEF entry, f
  <2>1. \E g : g = [s \in SUBSET S |-> entry(g, s)]
    BY <1>1, TableExists
  <2>2. QED BY <2>1
<1>3. MapThenSumSet(LAMBDA r : (r).claims[tick], S) = table[S]
  BY DEF MapThenSumSet, MapThenFoldSet, Chosen
<1> HIDE DEF table, entry, f
<1>4. SumOf(f, S) = table[S]
  BY <1>1, <1>2, SumFromTable
<1>5. QED BY <1>3, <1>4 DEF f

\* What the units of an account are worth in XRD.
LEMMA TokensAreSum ==
  ASSUME NEW units, NEW value, IsFiniteSet(DOMAIN value), NEW ctx
  PROVE  MapThenSumSet(LAMBDA token : ConvertToXrd(token, units * value[token], ctx),
                         DOMAIN value)
           = SumOf([token \in DOMAIN value |-> ConvertToXrd(token, units * value[token], ctx)],
                   DOMAIN value)
<1> DEFINE f == [token \in DOMAIN value |-> ConvertToXrd(token, units * value[token], ctx)]
           entry(g, s) == IF s = {} THEN 0
                           ELSE ConvertToXrd(Chosen(s), units * value[Chosen(s)], ctx)
                                + g[s \ {Chosen(s)}]
           table == CHOOSE g : g = [s \in SUBSET (DOMAIN value) |-> entry(g, s)]
<1>1. \A g : Table(g, f, DOMAIN value) <=> g = [s \in SUBSET (DOMAIN value) |-> entry(g, s)]
  BY ChosenIn DEF Table
<1>2. table = [s \in SUBSET (DOMAIN value) |-> entry(table, s)]
  <2> HIDE DEF entry, f
  <2>1. \E g : g = [s \in SUBSET (DOMAIN value) |-> entry(g, s)]
    BY <1>1, TableExists
  <2>2. QED BY <2>1
<1>3. MapThenSumSet(LAMBDA token : ConvertToXrd(token, units * value[token], ctx), DOMAIN value)
        = table[DOMAIN value]
  BY DEF MapThenSumSet, MapThenFoldSet, Chosen
<1> HIDE DEF table, entry, f
<1>4. SumOf(f, DOMAIN value) = table[DOMAIN value]
  BY <1>1, <1>2, SumFromTable
<1>5. QED BY <1>3, <1>4 DEF f

\* And those of all accounts.
LEMMA PoolUnitsAreSum ==
  ASSUME NEW held, NEW pool, NEW ctx
  PROVE  MapThenSumSet(LAMBDA a : PoolUnitXrd(held[a].units, pool, ctx), Accounts)
           = SumOf([a \in Accounts |-> PoolUnitXrd(held[a].units, pool, ctx)], Accounts)
<1> DEFINE f == [a \in Accounts |-> PoolUnitXrd(held[a].units, pool, ctx)]
           entry(g, s) == IF s = {} THEN 0
                          ELSE PoolUnitXrd(held[Chosen(s)].units, pool, ctx) + g[s \ {Chosen(s)}]
           table == CHOOSE g : g = [s \in SUBSET Accounts |-> entry(g, s)]
<1>1. \A g : Table(g, f, Accounts) <=> g = [s \in SUBSET Accounts |-> entry(g, s)]
  BY ChosenIn DEF Table
<1>2. table = [s \in SUBSET Accounts |-> entry(table, s)]
  <2> HIDE DEF entry, f
  <2>1. \E g : g = [s \in SUBSET Accounts |-> entry(g, s)]
    BY <1>1, TableExists, PoolsAssumption
  <2>2. QED BY <2>1
<1>3. MapThenSumSet(LAMBDA a : PoolUnitXrd(held[a].units, pool, ctx), Accounts) = table[Accounts]
  BY DEF MapThenSumSet, MapThenFoldSet, Chosen
<1> HIDE DEF table, entry, f
<1>4. SumOf(f, Accounts) = table[Accounts]
  BY <1>1, <1>2, SumFromTable, PoolsAssumption
<1>5. QED BY <1>3, <1>4 DEF f

\* The units that all accounts hold.
LEMMA UnitsAreSum ==
  ASSUME NEW held
  PROVE  MapThenSumSet(LAMBDA a : held[a].units, Accounts)
           = SumOf([a \in Accounts |-> held[a].units], Accounts)
<1> DEFINE f == [a \in Accounts |-> held[a].units]
           entry(g, s) == IF s = {} THEN 0 ELSE held[Chosen(s)].units + g[s \ {Chosen(s)}]
           table == CHOOSE g : g = [s \in SUBSET Accounts |-> entry(g, s)]
<1>1. \A g : Table(g, f, Accounts) <=> g = [s \in SUBSET Accounts |-> entry(g, s)]
  BY ChosenIn DEF Table
<1>2. table = [s \in SUBSET Accounts |-> entry(table, s)]
  <2> HIDE DEF entry, f
  <2>1. \E g : g = [s \in SUBSET Accounts |-> entry(g, s)]
    BY <1>1, TableExists, PoolsAssumption
  <2>2. QED BY <2>1
<1>3. MapThenSumSet(LAMBDA a : held[a].units, Accounts) = table[Accounts]
  BY DEF MapThenSumSet, MapThenFoldSet, Chosen
<1> HIDE DEF table, entry, f
<1>4. SumOf(f, Accounts) = table[Accounts]
  BY <1>1, <1>2, SumFromTable, PoolsAssumption
<1>5. QED BY <1>3, <1>4 DEF f

\* What a pool of units holds, and half of the last place for each unit.
LEMMA BoundsAreSum ==
  ASSUME NEW pool, IsFiniteSet(DOMAIN pool.holds), NEW ctx
  PROVE  MapThenSumSet(LAMBDA t : (2 * pool.holds[t] * Unit + pool.supply) * Rate(t, ctx),
                         DOMAIN pool.holds)
           = SumOf([t \in DOMAIN pool.holds |->
                      (2 * pool.holds[t] * Unit + pool.supply) * Rate(t, ctx)],
                   DOMAIN pool.holds)
<1> DEFINE f == [t \in DOMAIN pool.holds |->
                (2 * pool.holds[t] * Unit + pool.supply) * Rate(t, ctx)]
           entry(g, s) == IF s = {} THEN 0
                           ELSE (2 * pool.holds[Chosen(s)] * Unit + pool.supply)
                                  * Rate(Chosen(s), ctx) + g[s \ {Chosen(s)}]
           table == CHOOSE g : g = [s \in SUBSET (DOMAIN pool.holds) |-> entry(g, s)]
<1>1. \A g : Table(g, f, DOMAIN pool.holds) <=> g = [s \in SUBSET (DOMAIN pool.holds) |->
                entry(g, s)]
  BY ChosenIn DEF Table
<1>2. table = [s \in SUBSET (DOMAIN pool.holds) |-> entry(table, s)]
  <2> HIDE DEF entry, f
  <2>1. \E g : g = [s \in SUBSET (DOMAIN pool.holds) |-> entry(g, s)]
    BY <1>1, TableExists
  <2>2. QED BY <2>1
<1>3. MapThenSumSet(LAMBDA t : (2 * pool.holds[t] * Unit + pool.supply) * Rate(t, ctx),
                    DOMAIN pool.holds)
        = table[DOMAIN pool.holds]
  BY DEF MapThenSumSet, MapThenFoldSet, Chosen
<1> HIDE DEF table, entry, f
<1>4. SumOf(f, DOMAIN pool.holds) = table[DOMAIN pool.holds]
  BY <1>1, <1>2, SumFromTable
<1>5. QED BY <1>3, <1>4 DEF f

\* Receipts that claim parts of bins: numbers, no more on a bin than its total.
ClaimsFit(L, T, claims, total, amount) ==
  /\ \A r \in L : /\ IsFiniteSet(DOMAIN claims[r])
                 /\ \A t \in DOMAIN claims[r] : claims[r][t] \in Nat
  /\ \A t \in T : total[t] \in Nat /\ amount[t] \in Nat
  /\ \A t \in T : LET on == {r \in L : t \in DOMAIN claims[r]}
                 IN  SumOf([r \in on |-> claims[r][t]], on) <= total[t]

\* What each claim is worth: its share of the bin, if it is one of T.
WorthIsShare(worth, L, T, claims, total, amount) ==
  \A r \in L : \A t \in DOMAIN claims[r] :
    worth[r][t] = IF t \in T THEN Share(claims[r][t], total[t], amount[t]) ELSE 0

\* And what each receipt is worth.
RowsAreWorth(rows, worth, L, claims) ==
  \A r \in L : rows[r] = SumOf(worth[r], DOMAIN claims[r])

\* However the claims on the bins T are spread over receipts, their shares are together at
\* most what the bins hold.
LEMMA BinsNeverOverdrawn ==
  ASSUME NEW L, IsFiniteSet(L), NEW T, IsFiniteSet(T), NEW claims, NEW total, NEW amount,
         ClaimsFit(L, T, claims, total, amount),
         NEW worth, WorthIsShare(worth, L, T, claims, total, amount),
         NEW rows, RowsAreWorth(rows, worth, L, claims)
  PROVE  (\A r \in L : rows[r] \in Nat) /\ SumOf(rows, L) <= SumOf(amount, T)
<1> USE DEF ClaimsFit, WorthIsShare, RowsAreWorth
<1> DEFINE entry == [r \in L |-> [t \in T |-> IF t \in DOMAIN claims[r] THEN worth[r][t] ELSE 0]]
           columns == [t \in T |-> SumOf([r \in L |-> entry[r][t]], L)]
<1>1. ASSUME NEW t \in T
      PROVE  /\ \A r \in L : entry[r][t] \in Nat
             /\ columns[t] \in Nat /\ columns[t] <= amount[t]
  <2> DEFINE on == {r \in L : t \in DOMAIN claims[r]}
             claim == [r \in on |-> claims[r][t]]
             column == [r \in L |-> entry[r][t]]
             shares == [r \in on |-> Share(claim[r], total[t], amount[t])]
  <2>1. on \subseteq L /\ IsFiniteSet(on)
    BY FS_Subset
  <2>2. (\A r \in on : claim[r] \in Nat) /\ SumOf(claim, on) <= total[t]
    OBVIOUS
  <2>3. (\A r \in on : shares[r] \in Nat) /\ SumOf(shares, on) <= amount[t]
    <3>1. total[t] \in Nat /\ amount[t] \in Nat
      OBVIOUS
    <3> HIDE DEF on, claim
    <3>2. QED BY <2>1, <2>2, <3>1, ClaimsNeverOverdraw
  <2>4. \A r \in on : column[r] = shares[r] /\ shares[r] \in Nat
    <3>1. \A r \in on : column[r] = shares[r]
      OBVIOUS
    <3>2. QED BY <2>3, <3>1
  <2>5. \A r \in L \ on : column[r] = 0
    OBVIOUS
  <2>6. \A r \in L : entry[r][t] = column[r]
    OBVIOUS
  <2>7. columns[t] = SumOf(column, L)
    OBVIOUS
  <2> HIDE DEF on, claim, column, shares, entry, columns
  <2>8. \A r \in L : column[r] \in Nat
    BY <2>4, <2>5
  <2>9. SumOf(column, L) = SumOf(column, on)
    BY <2>1, <2>5, <2>8, SumLeavesOut
  <2>10. SumOf(column, on) = SumOf(shares, on)
    BY <2>1, <2>4, SumOfSame
  <2>11. SumOf(column, L) \in Nat
    BY <2>8, SumIsNat
  <2>12. QED BY <2>3, <2>6, <2>7, <2>8, <2>9, <2>10, <2>11
<1>2. ASSUME NEW r \in L PROVE rows[r] = SumOf(entry[r], T)
  <2> DEFINE ticks == DOMAIN claims[r]
             both == ticks \cap T
  <2>1. /\ IsFiniteSet(ticks) /\ IsFiniteSet(both)
        /\ both \subseteq ticks /\ both \subseteq T
    BY FS_Subset
  <2>2. \A t \in both : worth[r][t] = entry[r][t]
    OBVIOUS
  <2>3. (\A t \in ticks \ both : worth[r][t] = 0) /\ (\A t \in T \ both : entry[r][t] = 0)
    OBVIOUS
  <2>4. \A t \in T : entry[r][t] \in Nat
    BY <1>1
  <2>5. \A t \in ticks : worth[r][t] \in Nat
    <3> HIDE DEF entry, both, ticks
    <3>1. ASSUME NEW t \in both PROVE worth[r][t] \in Nat
      BY <2>1, <2>2, <2>4
    <3>2. ASSUME NEW t \in ticks \ both PROVE worth[r][t] \in Nat
      BY <2>3
    <3>3. TAKE t \in ticks
    <3>4. CASE t \in both
      BY <3>1, <3>4
    <3>5. CASE t \notin both
      BY <3>2, <3>5
    <3>6. QED BY <3>4, <3>5
  <2>6. rows[r] = SumOf(worth[r], ticks)
    OBVIOUS
  <2> HIDE DEF ticks, both, entry
  <2>7. SumOf(worth[r], ticks) = SumOf(worth[r], both)
    BY <2>1, <2>3, <2>5, SumLeavesOut
  <2>8. SumOf(entry[r], T) = SumOf(entry[r], both)
    BY <2>1, <2>3, <2>4, SumLeavesOut
  <2>9. SumOf(worth[r], both) = SumOf(entry[r], both)
    BY <2>1, <2>2, SumOfSame
  <2>10. QED BY <2>6, <2>7, <2>8, <2>9
<1>3. NatTable(entry, L, T)
  <2>1. \A t \in T : \A r \in L : entry[r][t] \in Nat
    BY <1>1
  <2> HIDE DEF entry
  <2>2. QED BY <2>1 DEF NatTable
<1>4. ByRows(rows, entry, L, T)
  <2> HIDE DEF entry
  <2>1. QED BY <1>2 DEF ByRows
<1>5. \A t \in T : amount[t] \in Nat /\ SumOf([r \in L |-> entry[r][t]], L) <= amount[t]
  <2>1. \A t \in T : columns[t] = SumOf([r \in L |-> entry[r][t]], L)
    OBVIOUS
  <2> HIDE DEF entry, columns
  <2>2. QED BY <1>1, <2>1
<1> HIDE DEF entry, columns
<1>6. QED BY <1>3, <1>4, <1>5, SumByBoundedColumns

\* What the receipts not burned get of one token of a shape pool, which the current tick
\* and the bins S on one side of it hold: worth[r][t] of a claim, rows[r] of a receipt.
TokenWorth(worth, rows, pool, receipts, S, active) ==
  \A r \in Live(receipts) :
    /\ \A t \in DOMAIN r.claims :
         worth[r][t] = IF t = pool.current THEN Share(r.claims[t], pool.activeTotal, active)
                       ELSE IF t \in S
                       THEN Share(r.claims[t], pool.bins[t].total, pool.bins[t].amount) ELSE 0
    /\ rows[r] = SumOf(worth[r], DOMAIN r.claims)

\* The receipts together get no more of the token than there is.
LEMMA TokenCountedOnce ==
  ASSUME NEW state \in Worlds, state.shape # None, state.shape.current # None,
         NEW S, S \subseteq DOMAIN state.shape.bins \ {state.shape.current},
         NEW active \in Nat, NEW worth, NEW rows,
         TokenWorth(worth, rows, state.shape, state.receipts.claims, S, active)
  PROVE  LET held == SumOf([t \in S |-> state.shape.bins[t].amount], S)
             L == Live(state.receipts.claims)
         IN  /\ \A r \in L : rows[r] \in Nat
             /\ SumOf(rows, L) \in Nat /\ held \in Nat
             /\ SumOf(rows, L) <= active + held
<1> DEFINE L == Live(state.receipts.claims)
           current == state.shape.current
           T == S \cup {current}
           claims == [r \in L |-> r.claims]
           total == [t \in T |-> IF t = current THEN state.shape.activeTotal
                                 ELSE state.shape.bins[t].total]
           amount == [t \in T |-> IF t = current THEN active ELSE state.shape.bins[t].amount]
           held == [t \in S |-> state.shape.bins[t].amount]
<1>1. ShapeAddsUp(state.shape, state.receipts.claims)
  BY PoolsAssumption
<1>2. /\ IsFiniteSet(L) /\ IsFiniteSet(S) /\ IsFiniteSet(T)
      /\ \A r \in L : IsFiniteSet(DOMAIN r.claims) /\ \A t \in DOMAIN r.claims : r.claims[t] \in Nat
  <2>1. L \subseteq state.receipts.claims
    BY DEF Live
  <2>2. IsFiniteSet(DOMAIN state.shape.bins) /\ IsFiniteSet(state.receipts.claims)
    BY <1>1 DEF ShapeAddsUp
  <2>3. IsFiniteSet(L) /\ IsFiniteSet(S)
    BY <2>1, <2>2, FS_Subset
  <2>4. IsFiniteSet(T)
    BY <2>3, FS_AddElement
  <2>5. \A r \in L : IsFiniteSet(DOMAIN r.claims) /\ \A t \in DOMAIN r.claims : r.claims[t] \in Nat
    BY <1>1 DEF ShapeAddsUp, Live
  <2>6. QED BY <2>3, <2>4, <2>5
<1>3. \A t \in T : total[t] \in Nat /\ amount[t] \in Nat
  BY <1>1 DEF ShapeAddsUp
<1>4. \A t \in T : LET on == {r \in L : t \in DOMAIN claims[r]}
                   IN  SumOf([r \in on |-> claims[r][t]], on) <= total[t]
  <2>1. ASSUME NEW t \in T
        PROVE  LET on == {r \in L : t \in DOMAIN claims[r]}
               IN  SumOf([r \in on |-> claims[r][t]], on) <= total[t]
    <3> DEFINE on == {r \in L : t \in DOMAIN claims[r]}
               there == {r \in state.receipts.claims : ~r.burned /\ t \in DOMAIN r.claims}
    <3>1. on = there /\ there \subseteq L /\ IsFiniteSet(there)
      <4>1. on = there /\ there \subseteq L
        BY DEF Live
      <4>2. QED BY <1>2, <4>1, FS_Subset
    <3>2. [r \in on |-> claims[r][t]] = [r \in there |-> r.claims[t]]
      BY <3>1
    <3>3. SumOf([r \in there |-> r.claims[t]], there)
            = MapThenSumSet(LAMBDA r : r.claims[t], there)
      BY <3>1, ClaimsAreSum
    <3>4. MapThenSumSet(LAMBDA r : r.claims[t], there) = ClaimedAt(t, state.receipts.claims)
      BY DEF ClaimedAt
    <3>5. ClaimedAt(t, state.receipts.claims) <= total[t]
      BY <1>1 DEF ShapeAddsUp
    <3> HIDE DEF there, total
    <3>6. QED BY <3>1, <3>2, <3>3, <3>4, <3>5
  <2>2. QED BY <2>1
<1>5. \A r \in L : \A t \in DOMAIN claims[r] :
        worth[r][t] = IF t \in T THEN Share(claims[r][t], total[t], amount[t]) ELSE 0
  BY DEF TokenWorth
<1>6. /\ \A r \in L : claims[r] = r.claims
      /\ current \in T /\ current \notin S /\ T \ {current} = S
      /\ amount[current] = active
      /\ \A t \in S : amount[t] = held[t]
  OBVIOUS
<1> HIDE DEF L, current, T, claims, total, amount, held
<1>7. (\A r \in L : rows[r] \in Nat) /\ SumOf(rows, L) <= SumOf(amount, T)
  <2>1. \A r \in L : /\ IsFiniteSet(DOMAIN claims[r])
                     /\ \A t \in DOMAIN claims[r] : claims[r][t] \in Nat
    BY <1>2, <1>6
  <2>2. \A r \in L : rows[r] = SumOf(worth[r], DOMAIN claims[r])
    BY <1>6 DEF TokenWorth, L
  <2>3. ClaimsFit(L, T, claims, total, amount)
    BY <1>3, <1>4, <2>1 DEF ClaimsFit
  <2>4. WorthIsShare(worth, L, T, claims, total, amount)
    BY <1>5 DEF WorthIsShare
  <2>5. RowsAreWorth(rows, worth, L, claims)
    BY <2>2 DEF RowsAreWorth
  <2>6. QED BY <1>2, <2>3, <2>4, <2>5, BinsNeverOverdrawn
<1>8. SumOf(amount, T) = active + SumOf(held, S) /\ SumOf(held, S) \in Nat
  <2>1. SumOf(amount, T) = amount[current] + SumOf(amount, S)
    <3>1. \A t \in T : amount[t] \in Nat
      BY <1>3
    <3>2. current \in T /\ S = T \ {current}
      BY <1>6
    <3>3. QED BY <1>2, <3>1, <3>2, SumWithout
  <2>2. SumOf(amount, S) = SumOf(held, S)
    BY <1>2, <1>6, SumOfSame
  <2>3. \A t \in S : held[t] \in Nat
    BY <1>3, <1>6
  <2>4. QED BY <1>2, <1>6, <2>1, <2>2, <2>3, SumIsNat
<1>9. SumOf(rows, L) \in Nat
  BY <1>2, <1>7, SumIsNat
<1>10. SumOf(rows, L) <= active + SumOf(held, S)
  BY <1>7, <1>8
<1>11. QED BY <1>7, <1>8, <1>9, <1>10 DEF held, L

\* What a receipt of a shape pool is worth is what it claims of the two tokens.
LEMMA ClaimsXrdIsOfBothTokens ==
  ASSUME NEW claims, IsFiniteSet(DOMAIN claims), NEW pool, pool.current # None, NEW ctx
  PROVE  ClaimsXrd(claims, pool, ctx)
           = ConvertToXrd(pool.x, SumOf([t \in DOMAIN claims |-> ClaimX(t, claims[t], pool)],
                                        DOMAIN claims), ctx)
             + ConvertToXrd(pool.y, SumOf([t \in DOMAIN claims |-> ClaimY(t, claims[t], pool)],
                                          DOMAIN claims), ctx)
<1>1. ClaimsXrd(claims, pool, ctx)
        = ConvertToXrd(pool.x, MapThenSumSet(LAMBDA t : ClaimX(t, claims[t], pool),
                                             DOMAIN claims), ctx)
          + ConvertToXrd(pool.y, MapThenSumSet(LAMBDA t : ClaimY(t, claims[t], pool),
                                               DOMAIN claims), ctx)
  BY DEF ClaimsXrd
<1>2. QED BY <1>1, FirstTokensAreSum, SecondTokensAreSum

\* What an account has in a shape pool is what its receipts that are not burned are worth.
LEMMA ShapeXrdIsOfReceipts ==
  ASSUME NEW state \in Worlds, state.shape # None, state.shape.current # None, NEW ctx, NEW a,
         NEW L, L = Live(state.receipts.claims),
         NEW W, \A r \in L : W[r] = ClaimsXrd(r.claims, state.shape, ctx)
  PROVE  ShapeXrd(ReceiptsOf(a, state.receipts.claims), state.shape, ctx)
           = SumOf(W, {r \in L : r.owner = a})
<1> DEFINE own == Live(ReceiptsOf(a, state.receipts.claims))
           mine == {r \in L : r.owner = a}
           worth == [r \in own |-> ClaimsXrd(r.claims, state.shape, ctx)]
<1>1. own = mine /\ mine \subseteq state.receipts.claims
  BY DEF Live, ReceiptsOf
<1>2. IsFiniteSet(mine)
  <2>1. IsFiniteSet(state.receipts.claims)
    BY PoolsAssumption DEF ShapeAddsUp
  <2>2. QED BY <1>1, <2>1, FS_Subset
<1>3. ShapeXrd(ReceiptsOf(a, state.receipts.claims), state.shape, ctx)
        = MapThenSumSet(LAMBDA r : ClaimsXrd(r.claims, state.shape, ctx),
                        Live(ReceiptsOf(a, state.receipts.claims)))
  BY DEF ShapeXrd
<1>4. MapThenSumSet(LAMBDA r : ClaimsXrd(r.claims, state.shape, ctx), own) = SumOf(worth, own)
  <2>1. IsFiniteSet(own)
    BY <1>1, <1>2
  <2> HIDE DEF own
  <2>2. QED BY <2>1, ReceiptsAreSum
<1>5. \A r \in mine : worth[r] = W[r]
  BY <1>1
<1>6. ShapeXrd(ReceiptsOf(a, state.receipts.claims), state.shape, ctx) = SumOf(worth, own)
  BY <1>3, <1>4
<1> HIDE DEF own, mine, worth
<1>7. SumOf(worth, mine) = SumOf(W, mine)
  BY <1>2, <1>5, SumOfSame
<1>8. QED BY <1>1, <1>6, <1>7 DEF mine

\* Two products bounded factor by factor.
LEMMA BothProductsGrow ==
  ASSUME NEW p \in Nat, NEW q \in Nat, NEW x \in Nat, NEW y \in Nat,
         NEW u \in Nat, NEW v \in Nat, x <= u, y <= v
  PROVE  p * x + q * y <= u * p + v * q
<1>1. p * x <= p * u /\ q * y <= q * v
  BY Monotone
<1>2. p * u = u * p /\ q * v = v * q
  OBVIOUS
<1>3. p * x \in Nat /\ q * y \in Nat /\ u * p \in Nat /\ v * q \in Nat
  OBVIOUS
<1>4. QED BY <1>1, <1>2, <1>3

\* What the voters get of the shape pool is within what it holds.
ShapeCounted(state, ctx) ==
  LET shape == state.shape
      Held(ticks) == MapThenSumSet(LAMBDA t : shape.bins[t].amount, ticks)
  IN  MapThenSumSet(LAMBDA a : ShapeXrd(ReceiptsOf(a, state.receipts.claims), shape, ctx),
                    Accounts)
        <= ConvertToXrd(shape.x, shape.activeX +
                        Held({t \in DOMAIN shape.bins : t > shape.current}), ctx)
           + ConvertToXrd(shape.y, shape.activeY +
                        Held({t \in DOMAIN shape.bins : t < shape.current}), ctx)

\* The liquidity of a shape pool is counted once.
LEMMA ShapeCountedOnce ==
  ASSUME NEW state \in Worlds, state.shape # None, state.shape.current # None,
         NEW ctx, \A token : Rate(token, ctx) \in Nat
  PROVE  ShapeCounted(state, ctx)
<1> DEFINE shape == state.shape
           L == Live(state.receipts.claims)
           above == {t \in DOMAIN state.shape.bins : t > state.shape.current}
           below == {t \in DOMAIN state.shape.bins : t < state.shape.current}
           heldX == MapThenSumSet(LAMBDA t : state.shape.bins[t].amount, above)
           heldY == MapThenSumSet(LAMBDA t : state.shape.bins[t].amount, below)
           worthX == [r \in L |-> [t \in DOMAIN r.claims |-> ClaimX(t, r.claims[t], shape)]]
           worthY == [r \in L |-> [t \in DOMAIN r.claims |-> ClaimY(t, r.claims[t], shape)]]
           X == [r \in L |-> SumOf(worthX[r], DOMAIN r.claims)]
           Y == [r \in L |-> SumOf(worthY[r], DOMAIN r.claims)]
           rateX == Rate(shape.x, ctx)
           rateY == Rate(shape.y, ctx)
           WX == [r \in L |-> rateX * X[r]]
           WY == [r \in L |-> rateY * Y[r]]
           W == [r \in L |-> ClaimsXrd(r.claims, shape, ctx)]
           owner == [r \in L |-> r.owner]
           F == [a \in Accounts |-> ShapeXrd(ReceiptsOf(a, state.receipts.claims),
                                             state.shape, ctx)]
<1>1. ShapeAddsUp(shape, state.receipts.claims) /\ IsFiniteSet(Accounts)
  BY PoolsAssumption
<1>2. /\ shape.activeX \in Nat /\ shape.activeY \in Nat /\ shape.current \in Nat
      /\ DOMAIN shape.bins \subseteq Nat
  BY <1>1 DEF ShapeAddsUp
<1>3. IsFiniteSet(L) /\ \A r \in L : IsFiniteSet(DOMAIN r.claims)
  <2>1. L \subseteq state.receipts.claims
    BY DEF Live
  <2>2. IsFiniteSet(state.receipts.claims) /\ \A r \in L : IsFiniteSet(DOMAIN r.claims)
    BY <1>1 DEF ShapeAddsUp, Live
  <2>3. QED BY <2>1, <2>2, FS_Subset
<1>4. /\ \A r \in L : X[r] \in Nat
      /\ SumOf(X, L) \in Nat /\ heldX \in Nat /\ SumOf(X, L) <= shape.activeX + heldX
  <2>1. above \subseteq DOMAIN state.shape.bins \ {state.shape.current}
    BY <1>2
  <2>2. TokenWorth(worthX, X, state.shape, state.receipts.claims, above, shape.activeX)
    BY DEF TokenWorth, ClaimX
  <2>3. heldX = SumOf([t \in above |-> state.shape.bins[t].amount], above)
    <3>1. IsFiniteSet(above)
      <4>1. IsFiniteSet(DOMAIN state.shape.bins)
        BY <1>1 DEF ShapeAddsUp
      <4>2. QED BY <4>1, FS_Subset
    <3> HIDE DEF above
    <3>2. QED BY <3>1, BinsAreSum
  <2> HIDE DEF worthX, X, above, heldX
  <2>4. QED BY <1>2, <2>1, <2>2, <2>3, TokenCountedOnce
<1>5. /\ \A r \in L : Y[r] \in Nat
      /\ SumOf(Y, L) \in Nat /\ heldY \in Nat /\ SumOf(Y, L) <= shape.activeY + heldY
  <2>1. below \subseteq DOMAIN state.shape.bins \ {state.shape.current}
    BY <1>2
  <2>2. TokenWorth(worthY, Y, state.shape, state.receipts.claims, below, shape.activeY)
    BY DEF TokenWorth, ClaimY
  <2>3. heldY = SumOf([t \in below |-> state.shape.bins[t].amount], below)
    <3>1. IsFiniteSet(below)
      <4>1. IsFiniteSet(DOMAIN state.shape.bins)
        BY <1>1 DEF ShapeAddsUp
      <4>2. QED BY <4>1, FS_Subset
    <3> HIDE DEF below
    <3>2. QED BY <3>1, BinsAreSum
  <2> HIDE DEF worthY, Y, below, heldY
  <2>4. QED BY <1>2, <2>1, <2>2, <2>3, TokenCountedOnce
<1>6. \A r \in L : W[r] = ConvertToXrd(shape.x, X[r], ctx) + ConvertToXrd(shape.y, Y[r], ctx)
  <2>1. ASSUME NEW r \in L
        PROVE  W[r] = ConvertToXrd(shape.x, X[r], ctx) + ConvertToXrd(shape.y, Y[r], ctx)
    <3>1. /\ worthX[r] = [t \in DOMAIN r.claims |-> ClaimX(t, r.claims[t], shape)]
          /\ worthY[r] = [t \in DOMAIN r.claims |-> ClaimY(t, r.claims[t], shape)]
          /\ W[r] = ClaimsXrd(r.claims, shape, ctx)
          /\ X[r] = SumOf(worthX[r], DOMAIN r.claims)
          /\ Y[r] = SumOf(worthY[r], DOMAIN r.claims)
      OBVIOUS
    <3>2. IsFiniteSet(DOMAIN r.claims)
      BY <1>3
    <3> HIDE DEF worthX, worthY, X, Y, W, L
    <3>3. QED BY <3>1, <3>2, ClaimsXrdIsOfBothTokens
  <2>2. QED BY <2>1
<1>7. rateX \in Nat /\ rateY \in Nat
  OBVIOUS
<1>8. \A r \in L : /\ WX[r] = rateX * X[r] /\ WY[r] = rateY * Y[r]
                   /\ WX[r] \in Nat /\ WY[r] \in Nat /\ W[r] = WX[r] + WY[r]
  <2>1. ASSUME NEW r \in L
        PROVE  /\ WX[r] = rateX * X[r] /\ WY[r] = rateY * Y[r]
               /\ WX[r] \in Nat /\ WY[r] \in Nat /\ W[r] = WX[r] + WY[r]
    <3>1. WX[r] = rateX * X[r] /\ WY[r] = rateY * Y[r]
      OBVIOUS
    <3>2. W[r] = X[r] * rateX + Y[r] * rateY
      BY <1>6 DEF ConvertToXrd
    <3>3. X[r] \in Nat /\ Y[r] \in Nat
      BY <1>4, <1>5
    <3> HIDE DEF X, Y, WX, WY, W, rateX, rateY
    <3>4. QED BY <3>1, <3>2, <3>3, <1>7
  <2>2. QED BY <2>1
<1>9. \A a \in Accounts : F[a] = SumOf(W, {r \in L : owner[r] = a})
  <2>1. ASSUME NEW a \in Accounts PROVE F[a] = SumOf(W, {r \in L : owner[r] = a})
    <3>1. {r \in L : owner[r] = a} = {r \in L : r.owner = a}
      OBVIOUS
    <3>2. /\ F[a] = ShapeXrd(ReceiptsOf(a, state.receipts.claims), state.shape, ctx)
          /\ \A r \in L : W[r] = ClaimsXrd(r.claims, state.shape, ctx)
          /\ L = Live(state.receipts.claims)
      OBVIOUS
    <3> HIDE DEF F, W, owner, L
    <3>3. QED BY <3>1, <3>2, ShapeXrdIsOfReceipts
  <2>2. QED BY <2>1
<1>10. MapThenSumSet(LAMBDA a : ShapeXrd(ReceiptsOf(a, state.receipts.claims),
                                         state.shape, ctx), Accounts) = SumOf(F, Accounts)
  BY AccountsAreSum
<1> DEFINE total == MapThenSumSet(LAMBDA a : ShapeXrd(ReceiptsOf(a, state.receipts.claims),
                                                      state.shape, ctx), Accounts)
<1>11. total = SumOf(F, Accounts)
  BY <1>10
<1> HIDE DEF F, W, WX, WY, X, Y, worthX, worthY, owner, L, rateX, rateY, total, heldX, heldY
<1>12. SumOf(F, Accounts) <= SumOf(W, L)
  <2>1. \A r \in L : W[r] \in Nat
    BY <1>8
  <2>2. GroupSums(F, Accounts, W, L, owner)
    BY <1>9 DEF GroupSums
  <2>3. QED BY <1>1, <1>3, <2>1, <2>2, SumOfGroups
<1>13. SumOf(W, L) = rateX * SumOf(X, L) + rateY * SumOf(Y, L)
  <2>1. SumOf(W, L) = SumOf(WX, L) + SumOf(WY, L)
    BY <1>3, <1>8, SumPlus
  <2>2. SumOf(WX, L) = rateX * SumOf(X, L)
    BY <1>3, <1>4, <1>7, <1>8, SumTimes
  <2>3. SumOf(WY, L) = rateY * SumOf(Y, L)
    BY <1>3, <1>5, <1>7, <1>8, SumTimes
  <2>4. QED BY <2>1, <2>2, <2>3
<1>14. rateX * SumOf(X, L) + rateY * SumOf(Y, L)
         <= (shape.activeX + heldX) * rateX + (shape.activeY + heldY) * rateY
  <2>1. shape.activeX + heldX \in Nat /\ shape.activeY + heldY \in Nat
    BY <1>2, <1>4, <1>5
  <2>2. QED BY <1>4, <1>5, <1>7, <2>1, BothProductsGrow
<1>15. /\ ConvertToXrd(shape.x, shape.activeX + heldX, ctx) = (shape.activeX + heldX) * rateX
       /\ ConvertToXrd(shape.y, shape.activeY + heldY, ctx) = (shape.activeY + heldY) * rateY
  BY DEF ConvertToXrd, rateX, rateY
<1>16. total <= ConvertToXrd(shape.x, shape.activeX + heldX, ctx)
                + ConvertToXrd(shape.y, shape.activeY + heldY, ctx)
  <2>1. rateX * SumOf(X, L) + rateY * SumOf(Y, L) \in Nat
    BY <1>4, <1>5, <1>7
  <2>2. /\ (shape.activeX + heldX) * rateX + (shape.activeY + heldY) * rateY \in Nat
        /\ SumOf(F, Accounts) \in Nat
    <3>1. \A r \in L : W[r] \in Nat
      BY <1>8
    <3>2. \A a \in Accounts : F[a] \in Nat
      <4>1. ASSUME NEW a \in Accounts PROVE F[a] \in Nat
        <5> DEFINE part == {r \in L : owner[r] = a}
        <5>1. part \subseteq L /\ F[a] = SumOf(W, part)
          BY <1>9
        <5> HIDE DEF part
        <5>2. QED BY <1>3, <3>1, <5>1, SumOfPart
      <4>2. QED BY <4>1
    <3>3. SumOf(F, Accounts) \in Nat
      BY <1>1, <3>2, SumIsNat
    <3>4. shape.activeX + heldX \in Nat /\ shape.activeY + heldY \in Nat
      BY <1>2, <1>4, <1>5
    <3> DEFINE x == shape.activeX + heldX
               y == shape.activeY + heldY
    <3>5. x \in Nat /\ y \in Nat
      BY <3>4
    <3> HIDE DEF x, y
    <3>6. x * rateX \in Nat /\ y * rateY \in Nat
      BY <1>7, <3>5, SwapFactors
    <3>7. x * rateX + y * rateY \in Nat
      BY <3>6
    <3>8. QED BY <3>3, <3>7 DEF x, y
  <2>3. total <= rateX * SumOf(X, L) + rateY * SumOf(Y, L)
    BY <1>11, <1>12, <1>13
  <2>4. total \in Nat
    BY <1>11, <2>2
  <2> DEFINE got == rateX * SumOf(X, L) + rateY * SumOf(Y, L)
             there == (shape.activeX + heldX) * rateX + (shape.activeY + heldY) * rateY
  <2>5. got \in Nat /\ there \in Nat /\ total <= got /\ got <= there
    BY <1>14, <2>1, <2>2, <2>3
  <2>6. there = ConvertToXrd(shape.x, shape.activeX + heldX, ctx)
                + ConvertToXrd(shape.y, shape.activeY + heldY, ctx)
    BY <1>15
  <2> HIDE DEF got, there
  <2>7. total <= there
    BY <2>4, <2>5, AtMostTransitive
  <2>8. QED BY <2>6, <2>7
<1>17. QED BY <1>16 DEF total, heldX, heldY, ShapeCounted

\* A rounded quotient of natural numbers is one.
LEMMA DividedByIsNat ==
  ASSUME NEW a \in Nat, NEW b \in Nat
  PROVE  DividedBy(a, b) \in Nat
<1>1. CASE b = 0
  BY <1>1 DEF DividedBy
<1>2. CASE b # 0
  <2> DEFINE n == 2 * a * Unit + b
             d == 2 * b
  <2>1. n \in Nat /\ d \in Nat \ {0} /\ DividedBy(a, b) = n \div d
    BY <1>2, UnitPositive DEF DividedBy
  <2> HIDE DEF n, d
  <2>2. QED BY <2>1, DivisionFalls
<1>3. QED BY <1>1, <1>2

\* What part of the supply is worth, at the value of a unit to the nearest last place, is
\* what the pool holds, but for half of the last place for each unit of the supply.
LEMMA UnitsWorthHoldings ==
  ASSUME NEW holds \in Nat, NEW supply \in Nat, NEW rate \in Nat, NEW units \in Nat,
         units <= supply
  PROVE  LET value == DividedBy(holds, supply)
         IN  /\ value \in Nat /\ (2 * holds * Unit + supply) * rate \in Nat
             /\ 2 * ((value * rate) * units) <= (2 * holds * Unit + supply) * rate
<1> DEFINE value == DividedBy(holds, supply)
           bound == 2 * holds * Unit + supply
<1>1. bound \in Nat
  BY UnitPositive
<1>2. value \in Nat /\ 2 * (value * supply) <= bound
  <2>1. CASE supply = 0
    <3>1. value = 0
      BY <2>1 DEF DividedBy
    <3> HIDE DEF value, bound
    <3>2. QED BY <2>1, <3>1, <1>1
  <2>2. CASE supply # 0
    <3> DEFINE twice == 2 * supply
    <3>1. value = bound \div twice /\ twice \in Nat \ {0}
      BY <2>2 DEF DividedBy
    <3> HIDE DEF value, bound
    <3>2. bound \div twice \in Nat /\ (bound \div twice) * twice <= bound
      <4> HIDE DEF twice
      <4>1. QED BY <1>1, <3>1, DivisionFalls
    <3>3. value \in Nat /\ value * twice <= bound
      BY <3>1, <3>2
    <3>4. value * twice = 2 * (value * supply)
      BY <3>3
    <3>5. QED BY <3>3, <3>4
  <2>3. QED BY <2>1, <2>2
<1> HIDE DEF value, bound
<1>3. value * units \in Nat /\ value * supply \in Nat /\ value * units <= value * supply
  BY <1>2, Monotone, SwapFactors
<1>4. 2 * (value * units) \in Nat /\ 2 * (value * units) <= bound
  BY <1>1, <1>2, <1>3
<1>5. rate * (2 * (value * units)) <= rate * bound
  BY <1>1, <1>4, Monotone
<1>6. rate * (2 * (value * units)) = 2 * ((value * rate) * units)
  <2>1. (value * rate) * units = (value * units) * rate
    BY <1>2, SwapFactors
  <2> DEFINE both == value * units
  <2>2. both \in Nat /\ rate * (2 * both) = 2 * (both * rate)
    <3>1. both \in Nat
      BY <1>3
    <3> HIDE DEF both
    <3>2. QED BY <3>1
  <2>3. QED BY <2>1, <2>2
<1>7. rate * bound = bound * rate /\ bound * rate \in Nat
  BY <1>1, SwapFactors
<1>8. 2 * ((value * rate) * units) <= bound * rate
  BY <1>5, <1>6, <1>7
<1>9. QED BY <1>2, <1>7, <1>8 DEF value, bound

\* What the voters get of the pool of units is within what it holds, but for the rounding.
UnitsCounted(state, ctx) ==
  LET simple == state.simple
  IN  2 * MapThenSumSet(LAMBDA a : PoolUnitXrd(state.held[a].units, simple, ctx), Accounts)
        <= MapThenSumSet(LAMBDA t : (2 * simple.holds[t] * Unit + simple.supply)
                                      * Rate(t, ctx), DOMAIN simple.holds)

\* The holdings of a pool whose token the accounts hold are counted once.
LEMMA UnitsCountedOnce ==
  ASSUME NEW state \in Worlds, NEW ctx, \A token : Rate(token, ctx) \in Nat
  PROVE  UnitsCounted(state, ctx)
<1> DEFINE pool == state.simple
           D == DOMAIN state.simple.holds
           value == PoolUnitValue(pool)
           u == [a \in Accounts |-> state.held[a].units]
           rate == [t \in D |-> Rate(t, ctx)]
           entry == [a \in Accounts |-> [t \in D |-> (u[a] * value[t]) * rate[t]]]
           G == [a \in Accounts |-> PoolUnitXrd(state.held[a].units, pool, ctx)]
           columns == [t \in D |-> SumOf([a \in Accounts |-> entry[a][t]], Accounts)]
           bound == [t \in D |-> (2 * state.simple.holds[t] * Unit + state.simple.supply)
                                   * Rate(t, ctx)]
           twice == [t \in D |-> 2 * columns[t]]
<1>1. UnitsAddUp(pool, state.held) /\ IsFiniteSet(Accounts)
  BY PoolsAssumption
<1>2. /\ IsFiniteSet(D) /\ pool.supply \in Nat
      /\ \A t \in D : pool.holds[t] \in Nat /\ rate[t] \in Nat /\ rate[t] = Rate(t, ctx)
      /\ \A a \in Accounts : u[a] \in Nat /\ u[a] = state.held[a].units
  BY <1>1 DEF UnitsAddUp
<1>3. SumOf(u, Accounts) \in Nat /\ SumOf(u, Accounts) <= pool.supply
  <2>1. MapThenSumSet(LAMBDA a : state.held[a].units, Accounts) <= pool.supply
    BY <1>1 DEF UnitsAddUp
  <2>2. MapThenSumSet(LAMBDA a : state.held[a].units, Accounts) = SumOf(u, Accounts)
    BY UnitsAreSum
  <2>3. SumOf(u, Accounts) <= pool.supply
    BY <2>1, <2>2
  <2>4. SumOf(u, Accounts) \in Nat
    <3> HIDE DEF u
    <3>1. QED BY <1>1, <1>2, SumIsNat
  <2>5. QED BY <2>3, <2>4
<1>4. /\ DOMAIN value = D
      /\ \A t \in D : value[t] = DividedBy(pool.holds[t], pool.supply)
  BY DEF PoolUnitValue
<1>5. \A t \in D : value[t] \in Nat
  BY <1>2, <1>4, DividedByIsNat
<1>6. /\ \A a \in Accounts, t \in D : entry[a][t] = (u[a] * value[t]) * rate[t]
      /\ \A t \in D : columns[t] = SumOf([a \in Accounts |-> entry[a][t]], Accounts)
      /\ \A t \in D : twice[t] = 2 * columns[t]
  OBVIOUS
<1>7. \A a \in Accounts, t \in D :
        entry[a][t] \in Nat /\ entry[a][t] = (value[t] * rate[t]) * u[a]
  <2>1. ASSUME NEW a \in Accounts, NEW t \in D
        PROVE  entry[a][t] \in Nat /\ entry[a][t] = (value[t] * rate[t]) * u[a]
    <3> DEFINE x == u[a]
               y == value[t]
               z == rate[t]
    <3>1. x \in Nat /\ y \in Nat /\ z \in Nat
      BY <1>2, <1>5
    <3>2. entry[a][t] = (x * y) * z
      BY <1>6
    <3> HIDE DEF x, y, z
    <3>3. x * y \in Nat /\ y * z \in Nat /\ x * y = y * x /\ (y * x) * z = (y * z) * x
      BY <3>1, SwapFactors
    <3>4. (x * y) * z \in Nat
      BY <3>1, <3>3, SwapFactors
    <3>5. entry[a][t] \in Nat /\ entry[a][t] = (y * z) * x
      BY <3>2, <3>3, <3>4
    <3>6. QED BY <3>5 DEF x, y, z
  <2> HIDE DEF u, value, rate, entry
  <2>2. QED BY <2>1
<1>8. ByRows(G, entry, Accounts, D)
  <2>1. ASSUME NEW a \in Accounts PROVE G[a] = SumOf(entry[a], D)
    <3> DEFINE worth == [t \in DOMAIN value |->
                           ConvertToXrd(t, state.held[a].units * value[t], ctx)]
    <3>1. G[a] = MapThenSumSet(LAMBDA t : ConvertToXrd(t, state.held[a].units * value[t], ctx),
                               DOMAIN value)
      BY DEF PoolUnitXrd
    <3>2. MapThenSumSet(LAMBDA t : ConvertToXrd(t, state.held[a].units * value[t], ctx),
                        DOMAIN value) = SumOf(worth, DOMAIN value)
      <4>1. IsFiniteSet(DOMAIN value)
        BY <1>2, <1>4
      <4> HIDE DEF value
      <4>2. QED BY <4>1, TokensAreSum
    <3>3. \A t \in D : worth[t] = entry[a][t]
      BY <1>2, <1>4, <1>6 DEF ConvertToXrd
    <3> HIDE DEF worth, value, entry, G
    <3>4. SumOf(worth, D) = SumOf(entry[a], D)
      BY <1>2, <3>3, SumOfSame
    <3>5. QED BY <1>4, <3>1, <3>2, <3>4
  <2> HIDE DEF G, entry
  <2>2. QED BY <2>1 DEF ByRows
<1>9. ByColumns(columns, entry, Accounts, D)
  BY <1>6 DEF ByColumns
<1>10. MapThenSumSet(LAMBDA a : PoolUnitXrd(state.held[a].units, state.simple, ctx), Accounts)
         = SumOf(G, Accounts)
  BY PoolUnitsAreSum
<1>11. MapThenSumSet(LAMBDA t : (2 * state.simple.holds[t] * Unit + state.simple.supply)
                                  * Rate(t, ctx), DOMAIN state.simple.holds) = SumOf(bound, D)
  BY <1>2, BoundsAreSum
<1>12. \A t \in D : bound[t] = (2 * pool.holds[t] * Unit + pool.supply) * rate[t]
  OBVIOUS
<1> HIDE DEF value, u, rate, entry, G, columns, bound, twice, pool, D
<1>13. \A t \in D : /\ columns[t] \in Nat /\ twice[t] \in Nat /\ bound[t] \in Nat
                    /\ twice[t] <= bound[t]
  <2>1. ASSUME NEW t \in D
        PROVE  /\ columns[t] \in Nat /\ twice[t] \in Nat /\ bound[t] \in Nat
               /\ twice[t] <= bound[t]
    <3> DEFINE k == value[t] * rate[t]
               column == [a \in Accounts |-> entry[a][t]]
    <3>1. k \in Nat
      BY <1>2, <1>5, SwapFactors
    <3>2. \A a \in Accounts : u[a] \in Nat /\ column[a] = k * u[a]
      BY <1>2, <1>7
    <3>3. columns[t] = SumOf(column, Accounts)
      BY <1>6
    <3> HIDE DEF k, column
    <3>4. SumOf(column, Accounts) = k * SumOf(u, Accounts)
      BY <1>1, <3>1, <3>2, SumTimes
    <3>5. columns[t] = k * SumOf(u, Accounts) /\ columns[t] \in Nat
      BY <1>3, <3>1, <3>3, <3>4, SwapFactors
    <3>6. /\ bound[t] \in Nat /\ 2 * (k * SumOf(u, Accounts)) <= bound[t]
      <4> DEFINE whole == SumOf(u, Accounts)
      <4>1. /\ whole \in Nat /\ whole <= pool.supply /\ pool.holds[t] \in Nat
            /\ pool.supply \in Nat /\ rate[t] \in Nat
        BY <1>2, <1>3
      <4>2. bound[t] = (2 * pool.holds[t] * Unit + pool.supply) * rate[t]
        BY <1>12
      <4>3. k = DividedBy(pool.holds[t], pool.supply) * rate[t]
        BY <1>4 DEF k
      <4> DEFINE holds == pool.holds[t]
                 supply == pool.supply
                 each == rate[t]
                 worth == DividedBy(holds, supply)
      <4>4. /\ whole \in Nat /\ whole <= supply /\ holds \in Nat /\ supply \in Nat
            /\ each \in Nat /\ bound[t] = (2 * holds * Unit + supply) * each
            /\ k = worth * each
        BY <4>1, <4>2, <4>3
      <4> HIDE DEF whole, holds, supply, each
      <4>5. /\ (2 * holds * Unit + supply) * each \in Nat
            /\ 2 * ((worth * each) * whole) <= (2 * holds * Unit + supply) * each
        BY <4>4, UnitsWorthHoldings
      <4> HIDE DEF worth
      <4>6. bound[t] \in Nat /\ 2 * (k * whole) <= bound[t]
        BY <4>4, <4>5
      <4>7. QED BY <4>6 DEF whole
    <3>7. twice[t] = 2 * columns[t]
      BY <1>6
    <3>8. QED BY <3>5, <3>6, <3>7
  <2>2. QED BY <2>1
<1>14. SumOf(G, Accounts) = SumOf(columns, D)
  <2>1. NatTable(entry, Accounts, D)
    BY <1>7 DEF NatTable
  <2>2. QED BY <1>1, <1>2, <1>8, <1>9, <2>1, SumByRowsAndColumns
<1>15. SumOf(twice, D) = 2 * SumOf(columns, D)
  <2>1. \A t \in D : columns[t] \in Nat /\ twice[t] = 2 * columns[t]
    BY <1>6, <1>13
  <2>2. QED BY <1>2, <2>1, SumTimes
<1>16. SumOf(twice, D) <= SumOf(bound, D)
  BY <1>2, <1>13, SumOfLess
<1>17. QED BY <1>10, <1>11, <1>14, <1>15, <1>16 DEF UnitsCounted

\* The rates of a state of the ledger are natural numbers.
LEMMA RatesAreNat ==
  ASSUME NEW state \in Worlds
  PROVE  LET ctx == [lsulp |-> LsulpRate(state),
                     lsu |-> LsuMap(DOMAIN state.redemption, state)]
         IN  \A token : Rate(token, ctx) \in Nat
<1>1. LsulpRate(state) \in Nat
  <2>1. CASE state.lsulp = None
    BY <2>1 DEF LsulpRate
  <2>2. CASE state.lsulp # None
    <3>1. state.lsulp.valuation \in Nat /\ state.lsulp.supply \in Nat
      BY <2>2, PoolsAssumption
    <3>2. QED BY <2>2, <3>1, DividedByIsNat DEF LsulpRate
  <2>3. QED BY <2>1, <2>2
<1>2. \A v \in DOMAIN LsuMap(DOMAIN state.redemption, state) :
        LsuMap(DOMAIN state.redemption, state)[v] \in Nat
  BY PoolsAssumption DEF LsuMap
<1>3. QED BY <1>1, <1>2, UnitPositive DEF Rate

\* At every state of the ledger the voters together get no more of a pool than it holds, as
\* far as the exchange's own contracts keep the claims on it within its totals.
THEOREM PoolsAlwaysCountedOnce == PowerSpec => []PoolsAreCountedOnce
<1>1. HistoryStays => PoolsAreCountedOnce
  <2> DEFINE ctx(i) == [lsulp |-> LsulpRate(ledger[i]),
                        lsu |-> LsuMap(DOMAIN ledger[i].redemption, ledger[i])]
  <2> SUFFICES ASSUME HistoryStays, NEW i \in DOMAIN ledger
               PROVE  /\ ledger[i].shape # None /\ ledger[i].shape.current # None =>
                           ShapeCounted(ledger[i], ctx(i))
                      /\ UnitsCounted(ledger[i], ctx(i))
    BY DEF PoolsAreCountedOnce, ShapeCounted, UnitsCounted
  <2>2. ledger[i] \in Worlds
    BY DEF HistoryStays
  <2>3. \A token : Rate(token, ctx(i)) \in Nat
    BY <2>2, RatesAreNat
  <2> HIDE DEF ctx
  <2>4. QED BY <2>2, <2>3, ShapeCountedOnce, UnitsCountedOnce
<1>2. PowerInv => HistoryStays
  BY DEF PowerInv
<1>3. QED BY <1>1, <1>2, PowerInvariant, PTL
=============================================================================
