---------------------------- MODULE PublishedTally ----------------------------
(***************************************************************************)
(* What the collector promises the readers of /vote-results about an       *)
(* entity: the published totals are those of some prefix of the vote log,  *)
(* and each publication is of a longer prefix than the one before.         *)
(***************************************************************************)
EXTENDS VoteLog

VARIABLES
  log,        \* the votes cast so far
  published,  \* how many of them the published totals reflect
  totals      \* the published totals

abstractVars == <<log, published, totals>>

Init ==
  /\ log = <<>>
  /\ published = 0
  /\ totals = TallyOf(<<>>, 0)

Cast ==
  /\ \E a \in Accounts, b \in Ballots : log' = Append(log, [account |-> a, ballot |-> b])
  /\ UNCHANGED <<published, totals>>

Publish ==
  /\ published' \in (published + 1)..Len(log)
  /\ totals' = TallyOf(log, published')
  /\ UNCHANGED log

Next == Cast \/ Publish

Spec == Init /\ [][Next]_abstractVars
=============================================================================
