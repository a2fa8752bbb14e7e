------------------------- MODULE MCElectionCollector -------------------------
\* Small instances of ElectionCollector for TLC.
EXTENDS ElectionCollector, TLC

CONSTANTS r1, r2, a1, a2, clear, level

\* A ballot that settles the order of the candidates, and one that ties them.
ClearOrLevel == {{clear}, {level}}

\* No ballot is no quorum; a level ballot of anybody's leaves a tie.
SmallVerdict(k, ballots) ==
  CASE \A a \in Accounts : ballots[a] = {}       -> IF k = 1 THEN "ROUND_1_FAILED" ELSE "FAILED"
    [] \E a \in Accounts : ballots[a] = {level}  -> "TIE_UNRESOLVED"
    [] OTHER -> "FINAL"

OneDayEach == [k \in Rounds |-> 1]

Symmetry == Permutations(Runs)
=============================================================================
