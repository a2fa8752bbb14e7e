------------------------------- MODULE VoteLog -------------------------------
(***************************************************************************)
(* The vote log of one entity, as the contract's votes store keeps it: a   *)
(* ballot per vote id, in order, where a later vote of an account replaces *)
(* its earlier ones; and the counts taken from it.                         *)
(***************************************************************************)
EXTENDS Integers, Sequences

CONSTANTS
  Accounts,  \* voters
  Options,   \* vote options of the entity
  Ballots    \* the option sets a vote may choose

ASSUME BallotsAssumption == Ballots \subseteq (SUBSET Options) \ {{}}

Vote == [account : Accounts, ballot : Ballots]

\* The votes among positions from..to of the log that account a cast.
CastBy(log, from, to, a) == {i \in from..to : i <= Len(log) /\ log[i].account = a}

LastOf(S) == CHOOSE i \in S : \A j \in S : j <= i

\* fetchDeduped...Votes keeps the last ballot of each account in a slice; an
\* account without a vote in the slice is represented by the empty ballot.
LastBallot(log, from, to, a) ==
  LET cast == CastBy(log, from, to, a)
  IN  IF cast = {} THEN {} ELSE log[LastOf(cast)].ballot

\* Vote power is fixed per account at the entity's snapshot, so an option's
\* total is a formal sum: how many times each account's power is included.
Included(ballots, v, a) == IF v \in ballots[a] THEN 1 ELSE 0

\* The totals a count from scratch gives for the first k votes.
TallyOf(log, k) ==
  LET counted == [a \in Accounts |-> LastBallot(log, 1, k, a)]
  IN  [v \in Options |-> [a \in Accounts |-> Included(counted, v, a)]]
=============================================================================
