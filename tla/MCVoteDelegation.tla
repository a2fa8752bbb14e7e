-------------------------- MODULE MCVoteDelegation --------------------------
\* A small instance of VoteDelegation for TLC.
EXTENDS VoteDelegation, TLC

Symmetry == Permutations(Delegators) \cup Permutations(Accounts \ Delegators)
=============================================================================
