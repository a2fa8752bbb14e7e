----------------------------- MODULE MCVoteTally -----------------------------
\* Small instances of VoteTally for TLC.
EXTENDS VoteTally, TLC

CONSTANTS r1, r2, a1, a2, o1, o2

\* Temperature-check ballots name one option; a proposal's may name several.
SingleChoice == {{o1}, {o2}}
MultipleChoice == {{o1}, {o1, o2}}

Symmetry == Permutations(Runs) \cup Permutations(Accounts)
=============================================================================
