---------------------------- MODULE MCGovernance ----------------------------
\* Small instances of Governance for TLC.
EXTENDS Governance, TLC

CONSTANTS a1, a2, election

\* Stages of one and two days; a rule that is not sound is refused.
Day(n) == [days |-> n, rule |-> "sound"]

AllRules == {"sound", "lower quorum", "zero quorum"}
Sound == {"sound", "lower quorum"}

Short == [variant |-> "Standard", check |-> Day(1), proposal |-> Day(1)]
Long == [variant |-> "Standard", check |-> Day(1), proposal |-> Day(2)]
Endless == [variant |-> "Standard", check |-> Day(1), proposal |-> Day(0)]
Void == [variant |-> "Standard", check |-> Day(1),
         proposal |-> [days |-> 1, rule |-> "zero quorum"]]
Seats == [variant |-> "MajorityJudgment", check |-> Day(1), election |-> Day(1),
          rerun |-> Day(2), reserveDays |-> 1]
LongSeats == [variant |-> "MajorityJudgment", check |-> Day(1), election |-> Day(2),
              rerun |-> Day(1), reserveDays |-> 1]
EasierRerun == [variant |-> "MajorityJudgment", check |-> Day(1), election |-> Day(1),
                rerun |-> [days |-> 1, rule |-> "lower quorum"], reserveDays |-> 1]

StageInputs == {Short, Endless, Seats}
EitherInputs == {Short, Long, Seats, LongSeats}

Single == [kind |-> "StandardProposal", options |-> 2, maxSelections |-> None]
Multiple == [kind |-> "StandardProposal", options |-> 2, maxSelections |-> 2]
TooMany == [kind |-> "StandardProposal", options |-> 1, maxSelections |-> 2]
Election == [kind |-> "MajorityJudgmentElection", seats |-> 1, candidates |-> <<"x", "y">>]
Twice == [kind |-> "MajorityJudgmentElection", seats |-> 1, candidates |-> <<"x", "x">>]

AllDrafts == {Multiple, TooMany, Election, Twice}
EitherDraft == {Election, Single}

CandidateOrders == {<<1, 0>>, <<0>>}
OneOrder == {<<1, 0>>}
OptionLists == {<<1, 0>>, <<0>>, <<1, 1>>}
NoLists == {<<>>}

Grade(c, g) == [candidate |-> c, grade |-> g]
GradeSet == {"Poor", "Good"}
Gradings == {<<Grade(0, "Poor"), Grade(1, "Good")>>, <<Grade(0, "Good")>>}
NoGradings == {<<>>}

Symmetry == Permutations(Accounts)
=============================================================================
