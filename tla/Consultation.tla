----------------------------- MODULE Consultation -----------------------------
(***************************************************************************)
(* The course that a consultation takes, whoever keeps it.  Its polls open *)
(* one after the other, each when it is due and once, and take votes while *)
(* they are open.  The check is decided when it is over; a positive        *)
(* decision leads to a proposal or to an election's first round, not both; *)
(* a first round that is over may be rerun, unless its tie has been        *)
(* resolved; and one tie may be resolved, of a round that is over.         *)
(***************************************************************************)
CONSTANTS
  None,    \* neither decided nor adjudicated; not a Boolean, nor the name of a poll
  NoVotes  \* the ballots of a poll before the first vote

Polls == {"Check", "Proposal", "RoundOne", "Rerun"}

VARIABLES
  phase,       \* of each poll: pending, open or over
  ballots,     \* of each poll
  decision,    \* whether the check has passed
  adjudicated  \* the round whose tie has been resolved

courseVars == <<phase, ballots, decision, adjudicated>>

\* It is followed from before its check, or from the check on.
Init ==
  /\ \E check \in {"pending", "open", "over"} :
       phase = [p \in Polls |-> IF p = "Check" THEN check ELSE "pending"]
  /\ ballots = [p \in Polls |-> NoVotes]
  /\ decision = None
  /\ adjudicated = None

Due(p) ==
  \/ p = "Check"
  \/ /\ p \in {"Proposal", "RoundOne"}
     /\ decision = TRUE
     /\ phase["Proposal"] = "pending" /\ phase["RoundOne"] = "pending"
  \/ /\ p = "Rerun"
     /\ phase["RoundOne"] = "over"
     /\ adjudicated = None

OpenPoll(p) ==
  /\ phase[p] = "pending"
  /\ Due(p)
  /\ phase' = [phase EXCEPT ![p] = "open"]
  /\ UNCHANGED <<ballots, decision, adjudicated>>

CastVote(p) ==
  /\ phase[p] = "open"
  /\ ballots' = [ballots EXCEPT ![p] = ballots'[p]]
  /\ UNCHANGED <<phase, decision, adjudicated>>

ClosePoll(p) ==
  /\ phase[p] = "open"
  /\ phase' = [phase EXCEPT ![p] = "over"]
  /\ UNCHANGED <<ballots, decision, adjudicated>>

Decide(passed) ==
  /\ phase["Check"] = "over"
  /\ decision = None
  /\ decision' = passed
  /\ UNCHANGED <<phase, ballots, adjudicated>>

Adjudicate(round) ==
  /\ phase[round] = "over"
  /\ adjudicated = None
  /\ adjudicated' = round
  /\ UNCHANGED <<phase, ballots, decision>>

Next ==
  \/ \E p \in Polls : OpenPoll(p) \/ CastVote(p) \/ ClosePoll(p)
  \/ \E passed \in BOOLEAN : Decide(passed)
  \/ \E round \in {"RoundOne", "Rerun"} : Adjudicate(round)

Spec == Init /\ [][Next]_courseVars
=============================================================================
