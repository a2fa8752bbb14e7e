---------------------------- MODULE ElectionLedger ----------------------------
(***************************************************************************)
(* One majority-judgment election as the collector meets it: the ledger's  *)
(* clock, the election's state in the contract, its two vote logs, and the *)
(* stream of events, each with what the contract held at its version.      *)
(*                                                                         *)
(* The candidate list's check opens with the election, at time 0, and a    *)
(* round opens when it is started, so that the phases PENDING and          *)
(* RERUN_PENDING, which wait for a start in the future, do not arise.      *)
(***************************************************************************)
EXTENDS VoteLog, FiniteSets

CONSTANTS
  None,
  CheckDays,   \* the length of the candidate list's check,
  RoundDays,   \* and of each round
  MaxBallots,  \* bound: ballots cast in a round
  MaxToggles,  \* bound: changes of the election's visibility
  MaxTime      \* bound: the last instant of the clock

Rounds == {1, 2}

ASSUME NoneAssumption == None \notin Nat
ASSUME NoneIsNoOutcome == None \notin {"PASSED", "FAILED"}
ASSUME LedgerBounds ==
  /\ CheckDays \in Nat /\ RoundDays \in [Rounds -> Nat \ {0}]
  /\ MaxBallots \in Nat /\ MaxToggles \in Nat /\ MaxTime \in Nat

VARIABLES
  clock,
  outcome,  \* the recorded outcome of the check
  starts,   \* per round: when it was started
  tied,     \* whether a tie resolution is recorded
  logs,     \* per round: its votes, in the order of their ids
  stream,   \* the election's events
  tally     \* the weighted result of the check, and whether it is cached

contractVars == <<outcome, starts, tied, logs>>
ledgerVars == <<clock, contractVars, stream, tally>>

Outcomes == {"PASSED", "FAILED", None}
Tags == {"created", "outcome", "started", "voted", "tie", "toggled"}

Event == [tag : Tags, round : Rounds, count : Nat, exact : BOOLEAN,
          outcome : Outcomes, rounds : SUBSET Rounds]

LedgerType ==
  /\ clock \in 0..MaxTime
  /\ outcome \in Outcomes
  /\ starts \in [Rounds -> Nat \cup {None}]
  /\ tied \in BOOLEAN
  /\ logs \in [Rounds -> Seq(Vote)]
  /\ stream \in Seq(Event)
  /\ tally \in [passed : BOOLEAN, cached : BOOLEAN]

StartedRounds(s) == {k \in Rounds : s[k] # None}

Created == [tag |-> "created", round |-> 1, count |-> 0, exact |-> FALSE,
            outcome |-> None, rounds |-> {}]

LedgerInit ==
  /\ clock = 0
  /\ outcome = None
  /\ starts = [k \in Rounds |-> None]
  /\ tied = FALSE
  /\ logs = [k \in Rounds |-> <<>>]
  /\ stream = <<Created>>
  /\ \E passed \in BOOLEAN : tally = [passed |-> passed, cached |-> FALSE]

Deadline(k) == starts[k] + RoundDays[k]

Ended(k) == starts[k] # None /\ clock >= Deadline(k)

\* A transaction's event, read back at its own state version, shows the state
\* the transaction left.
Emit(tag, k, count, exact) ==
  stream' = Append(stream, [tag |-> tag, round |-> k, count |-> count, exact |-> exact,
                            outcome |-> outcome', rounds |-> StartedRounds(starts')])

-----------------------------------------------------------------------------
RecordOutcome(passed) ==
  /\ clock >= CheckDays
  /\ outcome = None
  /\ outcome' = IF passed THEN "PASSED" ELSE "FAILED"
  /\ UNCHANGED <<starts, tied>>
  /\ Emit("outcome", 1, 0, FALSE)
  /\ UNCHANGED <<clock, logs, tally>>

MayStart(k) ==
  /\ outcome = "PASSED"
  /\ starts[k] = None
  /\ k = 2 => Ended(1) /\ ~tied

StartRound(k) ==
  /\ MayStart(k)
  /\ starts' = [starts EXCEPT ![k] = clock]
  /\ UNCHANGED <<outcome, tied>>
  /\ Emit("started", k, 0, FALSE)
  /\ UNCHANGED <<clock, logs, tally>>

CastBallot(k, a, b) ==
  /\ starts[k] # None /\ ~Ended(k)
  /\ Len(logs[k]) < MaxBallots
  /\ logs' = [logs EXCEPT ![k] = Append(@, [account |-> a, ballot |-> b])]
  /\ UNCHANGED <<outcome, starts, tied>>
  /\ Emit("voted", k, Len(logs[k]) + 1, FALSE)
  /\ UNCHANGED <<clock, tally>>

\* The order names distinct candidates; whether they are exactly those the
\* collector left unresolved the contract cannot know.
RecordTie(k, exact) ==
  /\ Ended(k) /\ ~tied
  /\ tied' = TRUE
  /\ UNCHANGED <<outcome, starts>>
  /\ Emit("tie", k, 0, exact)
  /\ UNCHANGED <<clock, logs, tally>>

Toggles == {i \in DOMAIN stream : stream[i].tag = "toggled"}

ToggleHidden ==
  /\ Cardinality(Toggles) < MaxToggles
  /\ UNCHANGED <<outcome, starts, tied>>
  /\ Emit("toggled", 1, 0, FALSE)
  /\ UNCHANGED <<clock, logs, tally>>

\* The check's weighted tally, VoteTally's subject, becomes available.
CacheTally ==
  /\ ~tally.cached
  /\ tally' = [tally EXCEPT !.cached = TRUE]
  /\ UNCHANGED <<clock, contractVars, stream>>

Tick ==
  /\ clock < MaxTime
  /\ clock' = clock + 1
  /\ UNCHANGED <<contractVars, stream, tally>>

-----------------------------------------------------------------------------
(***************************************************************************)
(* The election as Consultation has it.  The check is its first poll, with *)
(* votes that are VoteTally's subject, and nothing is proposed.            *)
(***************************************************************************)
Polls == {"Check", "Proposal", "RoundOne", "Rerun"}
PollOf(k) == IF k = 1 THEN "RoundOne" ELSE "Rerun"

RoundPhase(k) ==
  IF starts[k] = None THEN "pending" ELSE IF Ended(k) THEN "over" ELSE "open"

Phase(poll) ==
  CASE poll = "Check" -> IF clock >= CheckDays THEN "over" ELSE "open"
    [] poll = "Proposal" -> "pending"
    [] poll = "RoundOne" -> RoundPhase(1)
    [] poll = "Rerun" -> RoundPhase(2)

BallotsIn(poll) ==
  CASE poll = "RoundOne" -> logs[1] [] poll = "Rerun" -> logs[2] [] OTHER -> <<>>

Decision == IF outcome = None THEN None ELSE outcome = "PASSED"

\* The round of the tie resolution is told by its event.
TieRounds == {stream[i].round : i \in {j \in DOMAIN stream : stream[j].tag = "tie"}}
Adjudicated == IF tied THEN PollOf(IF 1 \in TieRounds THEN 1 ELSE 2) ELSE None

Course == INSTANCE Consultation WITH
  NoVotes <- <<>>,
  phase <- [poll \in Polls |-> Phase(poll)],
  ballots <- [poll \in Polls |-> BallotsIn(poll)],
  decision <- Decision,
  adjudicated <- Adjudicated
=============================================================================
