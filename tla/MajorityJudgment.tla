-------------------------- MODULE MajorityJudgment --------------------------
(***************************************************************************)
(* The calculator of an election round (calculator.ts): weighted ballots   *)
(* to grades, gauges, ranks, seats, reserve and the tie at the seat        *)
(* boundary, and the recorded order that settles such a tie.  The          *)
(* calculator keeps no state; the state here is its input, the ballots,    *)
(* which change one at a time.                                             *)
(***************************************************************************)
EXTENDS Integers, Sequences, FiniteSets, FiniteSetsExt, SequencesExt, Unread, Sorting

CONSTANTS
  Candidates,     \* the positions of the candidates, natural numbers
  Voters,         \* the accounts with a ballot in the round
  Power,          \* [Voters -> Nat], the power at the round's snapshot
  GradesGiven,    \* the grades that occur on ballots, a part of Grade
  Rules           \* the [seats, quorum, minimum, round] a round may be held under

Grade == 0..4

ASSUME NoneIsNoNumber == None \notin Nat

ASSUME NoneIsNoBallot == None \notin [Candidates -> GradesGiven]

ASSUME JudgmentAssumption ==
  /\ IsFiniteSet(Candidates) /\ Candidates \subseteq Nat
  /\ IsFiniteSet(Voters) /\ Power \in [Voters -> Nat]
  /\ GradesGiven \subseteq Grade
  /\ \A r \in Rules : r.seats \in Nat /\ r.quorum \in Nat /\ r.minimum \in Grade

\* The share of the power that a candidate's grade must have behind it.
GRADE_QUANTILE == [num |-> 3, den |-> 5]

VARIABLES
  ballots,        \* [Voters -> None or [Candidates -> Grade]]
  rules,          \* the parameters of the round
  verdict         \* what the calculator makes of the ballots

vars == <<ballots, rules, verdict>>

-----------------------------------------------------------------------------
(* Counting *)

\* Only ballots with power behind them count, each of them complete.
Valid(b) ==
  {v \in Voters : Power[v] > 0 /\ b[v] # None /\ DOMAIN b[v] = Candidates}

PowerOf(S) == MapThenSumSet(LAMBDA v : Power[v], S)

\* The power behind each grade; the weight of grade g is h[g + 1].
Histogram(b, c) ==
  LET weight(g) == PowerOf({v \in Valid(b) : b[v][c] = g})
  IN  <<weight(0), weight(1), weight(2), weight(3), weight(4)>>

\* The power of the grades from each one upward.
Cumulated(h) ==
  <<h[1] + h[2] + h[3] + h[4] + h[5], h[2] + h[3] + h[4] + h[5], h[3] + h[4] + h[5],
    h[4] + h[5], h[5], 0>>

\* The highest grade that a share num/den of the power reaches or exceeds.
QualifyingGrade(from) ==
  IF from[1] = 0 THEN None
  ELSE Max({g \in Grade : from[g + 1] * GRADE_QUANTILE.den >= from[1] * GRADE_QUANTILE.num})

Band(above, below) ==
  IF above > below THEN "A" ELSE IF above < below THEN "C" ELSE "B"

CandidateGauge(c, h) ==
  LET from == Cumulated(h)
      q == QualifyingGrade(from) IN
  IF q = None
    THEN [id |-> c, grade |-> None, above |-> 0, below |-> 0, band |-> None]
    ELSE [id |-> c, grade |-> q, above |-> from[q + 2], below |-> from[1] - from[q + 1],
          band |-> Band(from[q + 2], from[1] - from[q + 1])]

-----------------------------------------------------------------------------
(* Ranking *)

BandOrder == [A |-> 0, B |-> 1, C |-> 2]

\* Mutant: in band C the share below counts for the candidate.
BetterBelowReversed(l, r) ==
  \/ l.grade > r.grade
  \/ /\ l.grade = r.grade
     /\ \/ BandOrder[l.band] < BandOrder[r.band]
        \/ l.band = "A" /\ r.band = "A" /\ l.above > r.above
        \/ l.band = "C" /\ r.band = "C" /\ l.below > r.below

\* Of two graded gauges, the first comes before the second.
Better(l, r) ==
  \/ l.grade > r.grade
  \/ /\ l.grade = r.grade
     /\ \/ BandOrder[l.band] < BandOrder[r.band]
        \/ l.band = "A" /\ r.band = "A" /\ l.above > r.above
        \/ l.band = "C" /\ r.band = "C" /\ l.below < r.below

Tied(l, r) == ~Better(l, r) /\ ~Better(r, l)

\* A stable sort of the gauges, which come in the order of their ids.
Ordered(gauges) ==
  Sorted(gauges, LAMBDA l, r : IF l.id < r.id THEN ~Better(r, l) ELSE Better(l, r))

\* Where the group of each place begins: a group grows while the next gauge ties
\* with its first.
GroupStarts(order) ==
  LET start[i \in DOMAIN order] ==
        IF i > 1 /\ Tied(order[start[i - 1]], order[i]) THEN start[i - 1] ELSE i
  IN [i \in DOMAIN order |-> start[i]]

-----------------------------------------------------------------------------
(* The result of a round *)

Electable(gauges, minimum) ==
  {g \in gauges : g.grade # None /\ g.grade >= minimum}

\* Mutant: a group that ends with the last seat counts as cut.
StraddlingInclusive(start, seats) ==
  {i \in DOMAIN start :
     LET group == {j \in DOMAIN start : start[j] = start[i]}
     IN  /\ Cardinality(group) > 1
         /\ start[i] <= seats
         /\ start[i] - 1 + Cardinality(group) >= seats}

\* Mutant: ties are left as the sort leaves them.
StraddlingIgnored(start, seats) == {}

\* The places of the tie group that the last seat falls in the middle of.
Straddling(start, seats) ==
  {i \in DOMAIN start :
     LET group == {j \in DOMAIN start : start[j] = start[i]}
     IN  /\ Cardinality(group) > 1
         /\ start[i] <= seats
         /\ start[i] - 1 + Cardinality(group) > seats}

SettledPart(order, from, to, unresolved) ==
  LET places == {i \in from .. to : order[i] \notin unresolved}
      sorted == Sorted(places, LAMBDA i, j : i < j)
  IN  [n \in DOMAIN sorted |-> order[sorted[n]]]

Outcome(c, unresolved, seated, reserve) ==
  IF c \in unresolved THEN "UNRESOLVED"
  ELSE IF c \in ToSet(seated) THEN "SEATED"
  ELSE IF c \in ToSet(reserve) THEN "RESERVE"
  ELSE "NOT_ELECTABLE"

Calculate(b, p) ==
  LET gauges == {CandidateGauge(c, Histogram(b, c)) : c \in Candidates}
      order == Ordered(Electable(gauges, p.minimum))
      start == GroupStarts(order)
      ids == [i \in DOMAIN order |-> order[i].id]
      quorumMet == PowerOf(Valid(b)) >= p.quorum
      unresolved == IF quorumMet /\ p.seats > 0
                    THEN {order[i].id : i \in Straddling(start, p.seats)} ELSE {}
      seated == IF quorumMet
                THEN SettledPart(ids, 1, Min({p.seats, Len(ids)}), unresolved) ELSE <<>>
      reserve == IF quorumMet
                 THEN SettledPart(ids, p.seats + 1, Len(ids), unresolved) ELSE <<>>
  IN [ status |-> IF ~quorumMet
                  THEN IF p.round = "Rerun" THEN "FAILED" ELSE "ROUND_1_FAILED"
                  ELSE IF unresolved # {} THEN "TIE_UNRESOLVED" ELSE "FINAL",
       gauges |-> gauges,
       rank |-> [c \in Candidates |->
                   IF c \in ToSet(ids) THEN start[CHOOSE i \in DOMAIN ids : ids[i] = c]
                   ELSE None],
       outcome |-> [c \in Candidates |-> Outcome(c, unresolved, seated, reserve)],
       seated |-> seated,
       reserve |-> reserve,
       unresolved |-> unresolved,
       referred |-> IF unresolved # {} THEN 0 ELSE p.seats - Len(seated),
       reserveRuns |-> quorumMet /\ unresolved = {} ]

\* Mutant: the drawn order is taken from its end.
RedrawnBackwards(order, group, drawn) ==
  [i \in DOMAIN order |->
     IF order[i] \in group
     THEN drawn[Cardinality({j \in DOMAIN order : order[j] \in group /\ j >= i})]
     ELSE order[i]]

\* The drawn order takes the places of the group, one after the other.
Redrawn(order, group, drawn) ==
  [i \in DOMAIN order |->
     IF order[i] \in group
     THEN drawn[Cardinality({j \in DOMAIN order : order[j] \in group /\ j <= i})]
     ELSE order[i]]

\* The result once a recorded order replaces the tied group.
Resolve(result, drawn, p) ==
  LET electable == {c \in Candidates : result.rank[c] # None}
      order == Sorted(electable, LAMBDA c, d :
                 \/ result.rank[c] < result.rank[d]
                 \/ result.rank[c] = result.rank[d] /\ c < d)
      resolved == Redrawn(order, result.unresolved, drawn)
      seated == SubSeq(resolved, 1, Min({p.seats, Len(resolved)}))
      reserve == SubSeq(resolved, p.seats + 1, Len(resolved))
  IN [ result EXCEPT
         !.status = "FINAL",
         !.rank = [c \in Candidates |->
                     IF c \in result.unresolved
                     THEN CHOOSE i \in DOMAIN resolved : resolved[i] = c ELSE @[c]],
         !.outcome = [c \in Candidates |-> Outcome(c, {}, seated, reserve)],
         !.seated = seated,
         !.reserve = reserve,
         !.unresolved = {},
         !.referred = p.seats - Len(seated),
         !.reserveRuns = TRUE ]

\* The orders the calculator accepts: the whole group, each member once.
Resolvable(result) ==
  IF result.unresolved = {} THEN {} ELSE SetToSeqs(result.unresolved)

-----------------------------------------------------------------------------
(* The ballots *)

Init ==
  /\ ballots \in [Voters -> {None} \cup [Candidates -> GradesGiven]]
  /\ rules \in Rules
  /\ verdict = Calculate(ballots, rules)

\* An account's first ballot in the round.
Vote(v, given) ==
  /\ ballots[v] = None
  /\ ballots' = [ballots EXCEPT ![v] = given]
  /\ verdict' = Calculate(ballots', rules)
  /\ UNCHANGED rules

\* An account changes its mind about one candidate and the round is calculated
\* anew; any other vote is reached by such changes.
Regrade(v, c, g) ==
  /\ ballots[v] # None
  /\ ballots' = [ballots EXCEPT ![v][c] = g]
  /\ verdict' = Calculate(ballots', rules)
  /\ UNCHANGED rules

Next == \E v \in Voters :
  \/ \E given \in [Candidates -> GradesGiven] : Vote(v, given)
  \/ \E c \in Candidates, g \in GradesGiven : Regrade(v, c, g)

Spec == Init /\ [][Next]_vars

-----------------------------------------------------------------------------
(* Properties *)

\* The seats go down the order without a gap and stop short of a tie: whoever
\* is seated is strictly better than whoever is drawn for or in reserve, the
\* drawn strictly better than the reserve, and the seats left over are either
\* contested by more candidates than seats or referred (slices, tie groups and
\* boundary of calculateMajorityJudgment).
SeatsGoToTheBest ==
  LET seated == ToSet(verdict.seated)
      reserve == ToSet(verdict.reserve)
      Of(S) == {g \in verdict.gauges : g.id \in S}
      Above(S, T) == \A l \in Of(S), r \in Of(T) : Better(l, r)
  IN  /\ Above(seated, verdict.unresolved \cup reserve)
      /\ Above(verdict.unresolved, reserve)
      /\ \A l, r \in Of(verdict.unresolved) : Tied(l, r)
      /\ IF verdict.unresolved = {}
         THEN reserve # {} => verdict.referred = 0
         ELSE /\ Len(verdict.seated) < rules.seats
              /\ rules.seats < Len(verdict.seated) + Cardinality(verdict.unresolved)
      /\ verdict.reserveRuns =>
           Of(seated \cup reserve) = Electable(verdict.gauges, rules.minimum)

\* "Candidate ID must never become a silent mechanism-level tiebreaker":
\* exchanging two candidates' ids exchanges their ranks and outcomes and does
\* nothing else, although the sort, the seat slices and the lists go by the ids.
NeutralToIds ==
  \A c, d \in Candidates :
    c < d =>
      LET other(x) == IF x = c THEN d ELSE IF x = d THEN c ELSE x
          exchanged == [v \in Voters |->
                          IF ballots[v] = None THEN None
                          ELSE [x \in Candidates |-> ballots[v][other(x)]]]
          s == Calculate(exchanged, rules)
      IN  \A x \in Candidates :
            s.rank[x] = verdict.rank[other(x)] /\ s.outcome[x] = verdict.outcome[other(x)]

\* An adjudicated order decides the tied group and nothing else: it fills every
\* contested seat in the order given, ranks the group at successive places, and
\* everybody else keeps the outcome, the rank and the list
\* (applyMajorityJudgmentTieResolution).
DrawSettlesOnlyTheGroup ==
  \A drawn \in Resolvable(verdict) :
    LET s == Resolve(verdict, drawn, rules)
        winners == {drawn[i] : i \in 1..(rules.seats - Len(verdict.seated))}
    IN  /\ ToSet(s.seated) = ToSet(verdict.seated) \cup winners
        /\ ToSet(s.reserve) = ToSet(verdict.reserve) \cup (verdict.unresolved \ winners)
        /\ s.referred = 0
        /\ \A i \in DOMAIN drawn : s.rank[drawn[i]] = verdict.rank[drawn[1]] + i - 1
        /\ \A c \in Candidates \ verdict.unresolved :
             s.outcome[c] = verdict.outcome[c] /\ s.rank[c] = verdict.rank[c]

Standing == [NOT_ELECTABLE |-> 0, RESERVE |-> 1, UNRESOLVED |-> 2, SEATED |-> 3]

\* A voter who raises one candidate's grade, all else as before, never lowers that
\* candidate's outcome, whatever that does to medians, bands and ties.
RaisingNeverHurts ==
  [][\A v \in Voters, c \in Candidates :
       ballots[v] # None /\ ballots'[v][c] > ballots[v][c]
       => Standing[verdict'.outcome[c]] >= Standing[verdict.outcome[c]]]_vars
=============================================================================
