-------------------------- MODULE PublishedElection --------------------------
(***************************************************************************)
(* What the collector promises about the results of an election's rounds.  *)
(* While a round is open its result is provisional.  It is closed once,    *)
(* with the verdict on all the round's ballots, and stays as it is, except *)
(* that a recorded resolution makes an unresolved tie final.  A rerun is   *)
(* decided only where the first round has failed its quorum.               *)
(***************************************************************************)
EXTENDS VoteLog

CONSTANTS
  None,
  Verdict(_, _)  \* the calculator: a round and its ballots to a closed status

Rounds == {1, 2}

ClosedStatuses == {"ROUND_1_FAILED", "FAILED", "TIE_UNRESOLVED", "FINAL"}

VARIABLES
  cast,    \* per round: the votes cast
  results  \* per round: the status of the published result, if there is one

electionVars == <<cast, results>>

Decided(k) == results[k] \in ClosedStatuses

BallotsOf(log) == [a \in Accounts |-> LastBallot(log, 1, Len(log), a)]

Init ==
  /\ cast = [k \in Rounds |-> <<>>]
  /\ results = [k \in Rounds |-> None]

CastIn(k) ==
  /\ ~Decided(k)
  /\ \E v \in Vote : cast' = [cast EXCEPT ![k] = Append(@, v)]
  /\ UNCHANGED results

Publish(k) ==
  /\ ~Decided(k)
  /\ results' = [results EXCEPT ![k] = IF k = 1 THEN "LIVE" ELSE "RERUN_LIVE"]
  /\ UNCHANGED cast

Decide(k) ==
  /\ ~Decided(k)
  /\ k = 2 => results[1] = "ROUND_1_FAILED"
  /\ results' = [results EXCEPT ![k] = Verdict(k, BallotsOf(cast[k]))]
  /\ UNCHANGED cast

Resolve(k) ==
  /\ results[k] = "TIE_UNRESOLVED"
  /\ results' = [results EXCEPT ![k] = "FINAL"]
  /\ UNCHANGED cast

Next == \E k \in Rounds : CastIn(k) \/ Publish(k) \/ Decide(k) \/ Resolve(k)

Spec == Init /\ [][Next]_electionVars
=============================================================================
