-------------------------- MODULE OperatorConsole --------------------------
(***************************************************************************)
(* The Governance Operators' side of the web client: the controls that     *)
(* record the outcome of a temperature check, promote it, open the rounds  *)
(* of an election and adjudicate its tie.  Several operators work at a     *)
(* time, each on copies read some time ago; the ledger accepts whatever    *)
(* the contract accepts, and the collector publishes with a delay.         *)
(***************************************************************************)
EXTENDS Unread, Naturals, Sequences, SequencesExt

CONSTANTS
  Operators,
  Weighted,       \* Weighted[n + 1]: do the first n votes pass the check?
  TieGroup,       \* the candidates of a tie, in the order the collector lists them
  MaxMoves        \* bound: rearrangements of a tie's order

ASSUME WeightedAssumption == Weighted \in Seq(BOOLEAN) /\ Weighted # <<>>
ASSUME TieGroupAssumption == TieGroup \in Seq(Nat)
ASSUME NoneIsNoTie == None \notin [order : Seq(Nat), round : Nat]

VARIABLES
  kind,           \* "Proposal" or "Election", what the check is about
  ledger,         \* [votes, closed, outcome, proposals, round, ended, tie]
  collector,      \* [cached, counted, status, round, outcome]: what it publishes
  page,           \* per operator, the copies: [outcome, proposals, counted, status, round, order]
  request,        \* per operator, the transaction under way, or None
  moves

consoleVars == <<kind, ledger, collector, page, request, moves>>

EmptyPage == [outcome |-> None, proposals |-> 0, counted |-> None, status |-> None,
              round |-> 0, order |-> <<>>]

ConsoleInit ==
  /\ kind \in {"Proposal", "Election"}
  /\ ledger = [votes |-> 0, closed |-> FALSE, outcome |-> None, proposals |-> 0,
               round |-> 0, ended |-> TRUE, tie |-> None]
  /\ collector = [cached |-> FALSE, counted |-> 0, status |-> "TC_LIVE", round |-> 0,
                  outcome |-> None]
  /\ page = [o \in Operators |-> EmptyPage]
  /\ request = [o \in Operators |-> None]
  /\ moves = 0

-----------------------------------------------------------------------------
(* The ledger and the collector *)

CastVote ==
  /\ ~ledger.closed
  /\ ledger.votes + 1 < Len(Weighted)
  /\ ledger' = [ledger EXCEPT !.votes = @ + 1]
  /\ UNCHANGED <<kind, collector, page, request, moves>>

\* A deadline passes, of the check or of the round that is open.
DeadlinePasses ==
  /\ \/ ~ledger.closed /\ ledger' = [ledger EXCEPT !.closed = TRUE]
     \/ ~ledger.ended /\ ledger' = [ledger EXCEPT !.ended = TRUE]
  /\ UNCHANGED <<kind, collector, page, request, moves>>

\* The weighted tally follows the votes.
Count ==
  /\ \E n \in collector.counted .. ledger.votes :
       collector' = [collector EXCEPT !.cached = TRUE, !.counted = n]
  /\ collector' # collector
  /\ UNCHANGED <<kind, ledger, page, request, moves>>

Settle(status) == collector' = [collector EXCEPT !.status = status]

Project(status) == collector' = [collector EXCEPT !.status = status, !.round = ledger.round]

\* A round and the verdicts that may end it.
Open(k) == IF k = 1 THEN "LIVE" ELSE "RERUN_LIVE"
Verdicts(k) == {"FINAL", "TIE_UNRESOLVED", IF k = 1 THEN "ROUND_1_FAILED" ELSE "FAILED"}

\* The recorded outcome reaches the collector; the gate is resolved when every vote
\* of the closed check has been counted.
ProjectOutcome ==
  /\ ledger.outcome # collector.outcome
  /\ collector' = [collector EXCEPT !.outcome = ledger.outcome]
  /\ UNCHANGED <<kind, ledger, page, request, moves>>

ResolveGate ==
  /\ kind = "Election"
  /\ ledger.closed
  /\ collector.cached /\ collector.counted = ledger.votes
  /\ collector.status = "TC_LIVE"
  /\ collector.outcome # None
  /\ Settle(IF collector.outcome /\ Weighted[collector.counted + 1]
            THEN "MJ_PENDING" ELSE "TC_FAILED")
  /\ UNCHANGED <<kind, ledger, page, request, moves>>

\* A round is projected and, once it has ended, decided.
FollowRound ==
  /\ \/ /\ ledger.round = 1 /\ collector.status = "MJ_PENDING"
        /\ Project("LIVE")
     \/ /\ ledger.round = 2 /\ collector.status = "ROUND_1_FAILED"
        /\ Project("RERUN_LIVE")
     \/ /\ ledger.ended
        /\ ledger.round > 0 /\ collector.status = Open(ledger.round)
        /\ \E verdict \in Verdicts(ledger.round) : Settle(verdict)
     \/ /\ collector.status = "TIE_UNRESOLVED" /\ ledger.tie # None
        /\ Settle("FINAL")
  /\ UNCHANGED <<kind, ledger, page, request, moves>>

-----------------------------------------------------------------------------
(* The copies of an operator's page *)

Copy(o, copy) == page' = [page EXCEPT ![o] = copy]

\* The check and its continuation; on an election's page the outcome is the one the
\* collector has projected.
Fresh(p, onLedger) ==
  IF kind = "Election"
  THEN [p EXCEPT !.outcome = collector.outcome, !.status = collector.status,
                 !.round = collector.round,
                 !.order = IF collector.status = "TIE_UNRESOLVED" THEN TieGroup ELSE <<>>]
  ELSE [p EXCEPT !.outcome = onLedger.outcome, !.proposals = onLedger.proposals]

Load(o) ==
  /\ Copy(o, Fresh(page[o], ledger))
  /\ page' # page
  /\ UNCHANGED <<kind, ledger, collector, request, moves>>

\* The weighted result is read when the page is opened or by "Check again", not when
\* the deadline passes.
LoadResults(o) ==
  /\ Copy(o, [page[o] EXCEPT !.counted = IF collector.cached THEN collector.counted ELSE None])
  /\ page' # page
  /\ UNCHANGED <<kind, ledger, collector, request, moves>>

MoveCandidate(o) ==
  /\ moves < MaxMoves
  /\ page[o].status = "TIE_UNRESOLVED"
  /\ \E i \in 1 .. Len(page[o].order) - 1 :
       Copy(o, [page[o] EXCEPT !.order[i] = page[o].order[i + 1],
                               !.order[i + 1] = page[o].order[i]])
  /\ moves' = moves + 1
  /\ UNCHANGED <<kind, ledger, collector, request>>

-----------------------------------------------------------------------------
(* The controls *)

Ask(o, asked) ==
  /\ request[o] = None
  /\ request' = [request EXCEPT ![o] = asked]
  /\ UNCHANGED <<kind, ledger, collector, page, moves>>

\* The manifests: the method called, and with what.
OutcomeManifest(passed) == [method |-> "outcome", passed |-> passed]
ProposalManifest == [method |-> "proposal"]
RoundOneManifest == [method |-> "roundOne"]
RerunManifest == [method |-> "rerun"]
TieManifest(order, k) == [method |-> "tie", order |-> order, round |-> k]

\* Only the calculated outcome of a cached tally can be recorded, after the deadline.
Calculated(p) == Weighted[p.counted + 1]

OutcomeOffered(p) == ledger.closed /\ p.outcome = None /\ p.counted # None

RecordOutcome(o) ==
  /\ OutcomeOffered(page[o])
  /\ Ask(o, OutcomeManifest(Calculated(page[o])))

PromotionOffered(p) == kind = "Proposal" /\ p.outcome = TRUE /\ p.proposals = 0

Promote(o) == PromotionOffered(page[o]) /\ Ask(o, ProposalManifest)

CanOpenRoundOne(status) == status = "MJ_PENDING"

\* Mutant: a tie may be run again.
CanStartRerunOnTie(status) == status \in {"ROUND_1_FAILED", "TIE_UNRESOLVED"}

CanStartRerun(status) == status = "ROUND_1_FAILED"

RoundOneOffered(p) == p.status # None /\ CanOpenRoundOne(p.status)
RerunOffered(p) == p.status # None /\ CanStartRerun(p.status)
TieOffered(p) == p.status = "TIE_UNRESOLVED" /\ p.order # <<>>

\* The button goes by the page's copy; the status is read again before the wallet is
\* asked, and an operator who learns that it has changed is told so.
\* Mutant: any status after the check will do.
OpenRoundOneUnchecked(o) == page[o].outcome = TRUE /\ Ask(o, RoundOneManifest)

OpenRoundOne(o) ==
  /\ RoundOneOffered(page[o])
  /\ CanOpenRoundOne(collector.status)
  /\ Ask(o, RoundOneManifest)

StartRerun(o) ==
  /\ RerunOffered(page[o])
  /\ CanStartRerun(collector.status)
  /\ Ask(o, RerunManifest)

\* The order shown is recorded as it is, without another look at the status.
RecordTie(o) ==
  /\ TieOffered(page[o])
  /\ Ask(o, TieManifest(page[o].order, page[o].round))

-----------------------------------------------------------------------------
(* The transaction *)

\* What the contract accepts.
Accepted(r) ==
  CASE r.method = "outcome"   -> ledger.closed /\ ledger.outcome = None
    [] r.method = "proposal"  -> ledger.outcome = TRUE /\ ledger.proposals = 0
    [] r.method = "roundOne" -> ledger.outcome = TRUE /\ ledger.round = 0
    [] r.method = "rerun"     -> ledger.round = 1 /\ ledger.ended /\ ledger.tie = None
    [] r.method = "tie"       -> ledger.tie = None /\ Len(r.order) >= 2
                                   /\ (r.round < ledger.round \/ ledger.ended)

\* What it changes.
After(r) ==
  CASE r.method = "outcome"   -> [ledger EXCEPT !.outcome = r.passed]
    [] r.method = "proposal"  -> [ledger EXCEPT !.proposals = @ + 1]
    [] r.method = "roundOne" -> [ledger EXCEPT !.round = 1, !.ended = FALSE]
    [] r.method = "rerun"     -> [ledger EXCEPT !.round = 2, !.ended = FALSE]
    [] r.method = "tie"       -> [ledger EXCEPT !.tie = [order |-> r.order, round |-> r.round]]

\* The wallet's answer: a success refreshes the copies, a refusal leaves them.
Executed(o) ==
  /\ request[o] # None
  /\ IF Accepted(request[o])
     THEN ledger' = After(request[o]) /\ Copy(o, Fresh(page[o], After(request[o])))
     ELSE UNCHANGED <<ledger, page>>
  /\ request' = [request EXCEPT ![o] = None]
  /\ UNCHANGED <<kind, collector, moves>>

Rejected(o) ==
  /\ request[o] # None
  /\ request' = [request EXCEPT ![o] = None]
  /\ UNCHANGED <<kind, ledger, collector, page, moves>>

World == CastVote \/ DeadlinePasses \/ Count \/ ProjectOutcome \/ ResolveGate \/ FollowRound

ConsoleNext ==
  \/ World
  \/ \E o \in Operators :
       \/ Load(o) \/ LoadResults(o) \/ MoveCandidate(o)
       \/ RecordOutcome(o) \/ Promote(o)
       \/ OpenRoundOne(o) \/ StartRerun(o) \/ RecordTie(o)
       \/ Executed(o) \/ Rejected(o)

ConsoleSpec == ConsoleInit /\ [][ConsoleNext]_consoleVars

-----------------------------------------------------------------------------
(* The check and what follows it, as Consultation has them.  Only the check's votes and
   the ends of the check and of the rounds matter to the console. *)
Polls == {"Check", "Proposal", "RoundOne", "Rerun"}

RoundPhase(k) ==
  IF ledger.round < k THEN "pending"
  ELSE IF ledger.round = k /\ ~ledger.ended THEN "open" ELSE "over"

Phase(poll) ==
  CASE poll = "Check" -> IF ledger.closed THEN "over" ELSE "open"
    [] poll = "Proposal" -> IF ledger.proposals = 0 THEN "pending" ELSE "open"
    [] poll = "RoundOne" -> RoundPhase(1)
    [] poll = "Rerun" -> RoundPhase(2)

VotesIn(poll) == IF poll = "Check" THEN ledger.votes ELSE 0

Adjudicated ==
  IF ledger.tie = None THEN None ELSE IF ledger.tie.round = 1 THEN "RoundOne" ELSE "Rerun"

Course == INSTANCE Consultation WITH
  NoVotes <- 0,
  phase <- [poll \in Polls |-> Phase(poll)],
  ballots <- [poll \in Polls |-> VotesIn(poll)],
  decision <- ledger.outcome,
  adjudicated <- Adjudicated

-----------------------------------------------------------------------------
(* Properties *)

\* Whichever copies the operators' pages show: grading opens only on a list of candidates
\* that both the recorded outcome and the weighted votes approve (an outcome recorded from
\* a tally read too early, which the votes contradict, keeps the election shut); the rerun
\* is opened once, after a first round that failed its quorum; and the order of a tie is
\* adjudicated only for a round that ended in one.
RoundsFollowVerdicts ==
  [][/\ ledger'.round = 1 /\ ledger.round = 0 =>
          ledger.outcome = TRUE /\ Weighted[ledger.votes + 1]
     /\ ledger'.round = 2 /\ ledger.round = 1 => collector.status = "ROUND_1_FAILED"
     /\ ledger'.tie # ledger.tie =>
          /\ collector.status = "TIE_UNRESOLVED"
          /\ ledger'.tie.round = ledger.round
          /\ ToSet(ledger'.tie.order) = ToSet(TieGroup)]_consoleVars
=============================================================================
