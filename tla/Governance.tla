----------------------------- MODULE Governance -----------------------------
(***************************************************************************)
(* The governance component on the ledger: temperature checks, the         *)
(* proposals and majority-judgment elections that continue them, their     *)
(* votes, and the registry of the parameter sets they are held under.      *)
(*                                                                         *)
(* A method is one action: a transaction that fails an assertion leaves no *)
(* trace.  Texts, links, authors and the owner's badge are left out; an    *)
(* account votes for itself, as its owner rule demands.                    *)
(***************************************************************************)
EXTENDS ParameterSets, BallotBook, Sequences, Functions

CONSTANTS
  Drafts,         \* the follow-ups proposed with a consultation
  Orders,         \* candidate orders: of display, and of tie resolutions
  Selections,     \* the option lists a proposal's voter may send
  GradeLists,     \* the ballots an election's voter may send
  Grades,
  MaxVoteOptions, \* MAX_VOTE_OPTIONS
  MaxSelections,  \* MAX_SELECTIONS
  MaxCandidates,  \* MAX_MAJORITY_JUDGMENT_CANDIDATES
  MaxEntities,    \* u64::MAX: the limit of the entity counters
  MaxTime,        \* bound: the last instant of the ledger's clock
  MaxToggles      \* bound: calls of the toggle_..._hidden methods

ASSUME GovernanceBounds ==
  /\ MaxEntities \in Nat /\ MaxTime \in Nat /\ MaxToggles \in Nat
  /\ MaxVoteOptions \in Nat /\ MaxSelections \in Nat /\ MaxCandidates \in Nat

VARIABLES
  checks,     \* temperature_checks
  proposals,
  elections,  \* majority_judgment_elections
  counts,     \* the three ..._count fields
  now,        \* Clock::current_time_rounded_to_seconds
  toggles     \* history: toggles so far

entities == <<checks, proposals, elections, counts>>
vars == <<registry, checks, proposals, elections, counts, now, toggles>>

-----------------------------------------------------------------------------
(***************************************************************************)
(* Types                                                                   *)
(***************************************************************************)
CheckVotes == {"For", "Against"}

\* Candidates are listed by their references; the position less one is the id.
StandardFollowUp ==
  [kind : {"StandardProposal"}, options : Nat, maxSelections : Nat \cup {None}]
ElectionFollowUp ==
  [kind : {"MajorityJudgmentElection"}, seats : Nat, candidates : Seq(STRING)]

FollowUp == StandardFollowUp \cup ElectionFollowUp

ASSUME DraftsAssumption ==
  /\ Drafts \subseteq FollowUp
  /\ Orders \subseteq Seq(Nat)
  /\ Selections \subseteq Seq(Nat)
  /\ GradeLists \subseteq Seq([candidate : Nat, grade : Grades])

Snapshot == [id : SetIds, version : 1..MaxVersion, parameters : Parameters]

Outcome == [passed : BOOLEAN, at : Nat]

Continuation == [kind : {"Proposal", "MajorityJudgmentElection"}, id : Nat]

IsCheck(c) ==
  /\ c = [followUp |-> c.followUp, parameterSet |-> c.parameterSet, book |-> c.book,
          start |-> c.start, deadline |-> c.deadline, outcome |-> c.outcome,
          continuation |-> c.continuation, hidden |-> c.hidden]
  /\ c.followUp \in FollowUp /\ c.parameterSet \in Snapshot /\ IsBook(c.book, CheckVotes)
  /\ c.start \in Nat /\ c.deadline \in Nat /\ c.outcome \in Outcome \cup {None}
  /\ c.continuation \in Continuation \cup {None} /\ c.hidden \in BOOLEAN

IsProposal(p) ==
  /\ p = [parameterSet |-> p.parameterSet, options |-> p.options,
          maxSelections |-> p.maxSelections, book |-> p.book, start |-> p.start,
          deadline |-> p.deadline, check |-> p.check, hidden |-> p.hidden]
  /\ p.parameterSet \in Snapshot /\ p.options \in Nat /\ p.maxSelections \in Nat \cup {None}
  /\ IsBook(p.book, SUBSET Nat) /\ p.start \in Nat /\ p.deadline \in Nat
  /\ p.check \in Nat /\ p.hidden \in BOOLEAN

GradeBallots == UNION {[0..(n - 1) -> Grades] : n \in 0..MaxCandidates}

IsRound(r) ==
  /\ r = [snapshot |-> r.snapshot, start |-> r.start, deadline |-> r.deadline,
          rule |-> r.rule, book |-> r.book]
  /\ r.snapshot \in Nat /\ r.start \in Nat /\ r.deadline \in Nat /\ r.rule \in Rules
  /\ IsBook(r.book, GradeBallots)

RoundIds == {"RoundOne", "Rerun"}

TieResolution == [round : RoundIds, order : Orders, at : Nat]

IsElection(e) ==
  /\ e = [check |-> e.check, rounds |-> e.rounds, tie |-> e.tie, hidden |-> e.hidden]
  /\ e.check \in Nat
  /\ DOMAIN e.rounds = RoundIds
  /\ \A k \in RoundIds : e.rounds[k] = None \/ IsRound(e.rounds[k])
  /\ e.tie \in TieResolution \cup {None}
  /\ e.hidden \in BOOLEAN

\* What is stored is never mistaken for its absence.
ASSUME NoneIsNoRecord ==
  /\ None \notin Continuation /\ None \notin Outcome /\ None \notin TieResolution
  /\ None \notin Entry(CheckVotes) \cup Entry(SUBSET Nat) \cup Entry(GradeBallots)
  /\ None \notin [snapshot : Nat, start : Nat, deadline : Nat, rule : Rules,
                  book : Book(GradeBallots)]

Ids(n) == 0..(n - 1)

TypeOK ==
  /\ RegistryType
  /\ counts \in [{"checks", "proposals", "elections"} -> 0..MaxEntities]
  /\ DOMAIN checks = Ids(counts.checks) /\ \A c \in DOMAIN checks : IsCheck(checks[c])
  /\ DOMAIN proposals = Ids(counts.proposals)
  /\ \A p \in DOMAIN proposals : IsProposal(proposals[p])
  /\ DOMAIN elections = Ids(counts.elections)
  /\ \A e \in DOMAIN elections : IsElection(elections[e])
  /\ now \in 0..MaxTime
  /\ toggles \in 0..MaxToggles

Init ==
  /\ RegistryInit
  /\ checks = EmptyStore
  /\ proposals = EmptyStore
  /\ elections = EmptyStore
  /\ counts = [k \in {"checks", "proposals", "elections"} |-> 0]
  /\ now = 0
  /\ toggles = 0

-----------------------------------------------------------------------------
(***************************************************************************)
(* Temperature checks                                                      *)
(***************************************************************************)
OpenToDeadline(start, deadline) == start <= now /\ now <= deadline  \* mutant

Open(start, deadline) == start <= now /\ now < deadline

Ended(deadline) == now >= deadline

Passed(c) == checks[c].outcome # None /\ checks[c].outcome.passed

ValidStandardFollowUp(d) ==
  /\ d.kind = "StandardProposal"
  /\ d.options \in 1..MaxVoteOptions
  /\ d.maxSelections # None => d.maxSelections \in 1..MaxSelections
                               /\ d.maxSelections <= d.options

ValidElectionFollowUp(d) ==
  /\ d.kind = "MajorityJudgmentElection"
  /\ Len(d.candidates) \in 1..MaxCandidates
  /\ d.seats >= 1
  /\ IsInjective(d.candidates)

Permutes(order, n) == Len(order) = n /\ Range(order) = Ids(n)

NewCheck(draft, id, continuation) ==
  [followUp |-> draft, parameterSet |-> Resolved(id), book |-> EmptyBook,
   start |-> now, deadline |-> now + registry[id].parameters.check.days,
   outcome |-> None, continuation |-> continuation, hidden |-> FALSE]

\* insert_temperature_check
InsertCheck(draft, id, continuation) ==
  /\ counts.checks < MaxEntities
  /\ checks' = Extended(checks, counts.checks, NewCheck(draft, id, continuation))

MakeTemperatureCheck(draft, id) ==
  /\ Selectable(id)
  /\ IsStandard(registry[id].parameters)
  /\ ValidStandardFollowUp(draft)
  /\ InsertCheck(draft, id, None)
  /\ counts' = [counts EXCEPT !.checks = @ + 1]
  /\ UNCHANGED <<registry, proposals, elections, now, toggles>>

RecordOutcomeAgain(c, passed) ==  \* mutant: an outcome may be replaced
  /\ Ended(checks[c].deadline)
  /\ checks' = [checks EXCEPT ![c].outcome = [passed |-> passed, at |-> now]]
  /\ UNCHANGED <<registry, proposals, elections, counts, now, toggles>>

RecordOutcome(c, passed) ==
  /\ Ended(checks[c].deadline)
  /\ checks[c].outcome = None
  /\ checks' = [checks EXCEPT ![c].outcome = [passed |-> passed, at |-> now]]
  /\ UNCHANGED <<registry, proposals, elections, counts, now, toggles>>

VoteOnTemperatureCheck(a, c, vote) ==
  /\ Open(checks[c].start, checks[c].deadline)
  /\ checks[c].book.count < MaxVotes
  /\ checks' = [checks EXCEPT ![c].book = Cast(@, a, vote, now)]
  /\ UNCHANGED <<registry, proposals, elections, counts, now, toggles>>

-----------------------------------------------------------------------------
(***************************************************************************)
(* Proposals                                                               *)
(***************************************************************************)
ContinuableTwice(c) == Ended(checks[c].deadline) /\ Passed(c)  \* mutant: continues twice

Continuable(c) ==
  /\ Ended(checks[c].deadline)
  /\ Passed(c)
  /\ checks[c].continuation = None

NewProposalResolved(c) ==  \* mutant: held under the set as it is now
  [parameterSet |-> Resolved(checks[c].parameterSet.id),
   options |-> checks[c].followUp.options,
   maxSelections |-> checks[c].followUp.maxSelections, book |-> EmptyBook, start |-> now,
   deadline |-> now + registry[checks[c].parameterSet.id].parameters.proposal.days,
   check |-> c, hidden |-> FALSE]

NewProposal(c) ==
  [parameterSet |-> checks[c].parameterSet, options |-> checks[c].followUp.options,
   maxSelections |-> checks[c].followUp.maxSelections, book |-> EmptyBook, start |-> now,
   deadline |-> now + checks[c].parameterSet.parameters.proposal.days,
   check |-> c, hidden |-> FALSE]

MakeProposal(c) ==
  /\ Continuable(c)
  /\ checks[c].followUp.kind = "StandardProposal"
  /\ IsStandard(checks[c].parameterSet.parameters)
  /\ counts.proposals < MaxEntities
  /\ proposals' = Extended(proposals, counts.proposals, NewProposal(c))
  /\ checks' = [checks EXCEPT ![c].continuation =
       [kind |-> "Proposal", id |-> counts.proposals]]
  /\ counts' = [counts EXCEPT !.proposals = @ + 1]
  /\ UNCHANGED <<registry, elections, now, toggles>>

\* A selection is stored sorted; that no option repeats makes it a set.
ValidSelection(p, selection) ==
  /\ selection # <<>>
  /\ IF p.maxSelections = None THEN Len(selection) = 1 ELSE Len(selection) <= p.maxSelections
  /\ IsInjective(selection)
  /\ Range(selection) \subseteq Ids(p.options)

VoteOnProposal(a, p, selection) ==
  /\ Open(proposals[p].start, proposals[p].deadline)
  /\ ValidSelection(proposals[p], selection)
  /\ proposals[p].book.count < MaxVotes
  /\ proposals' = [proposals EXCEPT ![p].book = Cast(@, a, Range(selection), now)]
  /\ UNCHANGED <<registry, checks, elections, counts, now, toggles>>

-----------------------------------------------------------------------------
(***************************************************************************)
(* Elections                                                               *)
(***************************************************************************)
MakeMajorityJudgmentElection(draft, id, order) ==
  /\ Selectable(id)
  /\ ~IsStandard(registry[id].parameters)
  /\ ValidElectionFollowUp(draft)
  /\ Permutes(order, Len(draft.candidates))
  /\ counts.elections < MaxEntities
  /\ InsertCheck(draft, id, [kind |-> "MajorityJudgmentElection", id |-> counts.elections])
  /\ elections' = Extended(elections, counts.elections,
       [check |-> counts.checks, rounds |-> [k \in RoundIds |-> None], tie |-> None,
        hidden |-> FALSE])
  /\ counts' = [counts EXCEPT !.checks = @ + 1, !.elections = @ + 1]
  /\ UNCHANGED <<registry, proposals, now, toggles>>

CheckOf(e) == elections[e].check
CandidatesOf(e) == Len(checks[CheckOf(e)].followUp.candidates)
RulesOf(e) == checks[CheckOf(e)].parameterSet.parameters
RoundOf(e, k) == elections[e].rounds[k]

\* Every candidate is graded exactly once; the ballot is stored by candidate.
ValidBallot(e, grades) ==
  /\ Len(grades) = CandidatesOf(e)
  /\ {grades[i].candidate : i \in DOMAIN grades} = Ids(CandidatesOf(e))

ByCandidate(grades) ==
  [c \in Ids(Len(grades)) |-> (CHOOSE i \in DOMAIN grades : grades[i].candidate = c)]

VoteOnMajorityJudgmentElection(a, e, k, grades) ==
  /\ RoundOf(e, k) # None
  /\ ValidBallot(e, grades)
  /\ Open(RoundOf(e, k).start, RoundOf(e, k).deadline)
  /\ RoundOf(e, k).book.count < MaxVotes
  /\ elections' = [elections EXCEPT ![e].rounds[k].book =
       Cast(@, a, [c \in Ids(Len(grades)) |-> grades[ByCandidate(grades)[c]].grade], now)]
  /\ UNCHANGED <<registry, checks, proposals, counts, now, toggles>>

\* open_majority_judgment_round
OpenRound(e, k, snapshot, stage) ==
  /\ RoundOf(e, k) = None
  /\ elections' = [elections EXCEPT ![e].rounds[k] =
       [snapshot |-> snapshot, start |-> now, deadline |-> now + stage.days,
        rule |-> stage.rule, book |-> EmptyBook]]
  /\ UNCHANGED <<registry, checks, proposals, counts, now, toggles>>

StartRoundOne(e) ==
  /\ Passed(CheckOf(e))
  /\ Ended(checks[CheckOf(e)].deadline)
  /\ OpenRound(e, "RoundOne", now, RulesOf(e).election)

StartRerunResnapshot(e) ==  \* mutant: the rerun takes a snapshot of its own
  /\ Passed(CheckOf(e))
  /\ RoundOf(e, "RoundOne") # None
  /\ Ended(RoundOf(e, "RoundOne").deadline)
  /\ elections[e].tie = None
  /\ OpenRound(e, "Rerun", now, RulesOf(e).rerun)

StartRerunAfterTie(e) ==  \* mutant: an adjudicated election may be rerun
  /\ Passed(CheckOf(e))
  /\ RoundOf(e, "RoundOne") # None
  /\ Ended(RoundOf(e, "RoundOne").deadline)
  /\ OpenRound(e, "Rerun", RoundOf(e, "RoundOne").snapshot, RulesOf(e).rerun)

StartRerun(e) ==
  /\ Passed(CheckOf(e))
  /\ RoundOf(e, "RoundOne") # None
  /\ Ended(RoundOf(e, "RoundOne").deadline)
  /\ elections[e].tie = None
  /\ OpenRound(e, "Rerun", RoundOf(e, "RoundOne").snapshot, RulesOf(e).rerun)

RecordTieResolutionEarly(e, k, order) ==  \* mutant: the round may still be open
  /\ elections[e].tie = None
  /\ RoundOf(e, k) # None
  /\ Len(order) >= 2 /\ IsInjective(order) /\ Range(order) \subseteq Ids(CandidatesOf(e))
  /\ elections' = [elections EXCEPT ![e].tie = [round |-> k, order |-> order, at |-> now]]
  /\ UNCHANGED <<registry, checks, proposals, counts, now, toggles>>

RecordTieResolution(e, k, order) ==
  /\ elections[e].tie = None
  /\ RoundOf(e, k) # None
  /\ Ended(RoundOf(e, k).deadline)
  /\ Len(order) >= 2 /\ IsInjective(order) /\ Range(order) \subseteq Ids(CandidatesOf(e))
  /\ elections' = [elections EXCEPT ![e].tie = [round |-> k, order |-> order, at |-> now]]
  /\ UNCHANGED <<registry, checks, proposals, counts, now, toggles>>

-----------------------------------------------------------------------------
(***************************************************************************)
(* Parameter sets, visibility and time                                     *)
(***************************************************************************)
AddParameterSet(id, p) == AddSet(id, p) /\ UNCHANGED <<entities, now, toggles>>

UpdateParameterSet(id, p) == UpdateSet(id, p) /\ UNCHANGED <<entities, now, toggles>>

RetireParameterSet(id) == RetireSet(id) /\ UNCHANGED <<entities, now, toggles>>

Toggle == toggles < MaxToggles /\ toggles' = toggles + 1

ToggleCheckHidden(c) ==
  /\ Toggle
  /\ checks' = [checks EXCEPT ![c].hidden = ~@]
  /\ UNCHANGED <<registry, proposals, elections, counts, now>>

ToggleProposalHidden(p) ==
  /\ Toggle
  /\ proposals' = [proposals EXCEPT ![p].hidden = ~@]
  /\ UNCHANGED <<registry, checks, elections, counts, now>>

ToggleElectionHidden(e) ==
  /\ Toggle
  /\ elections' = [elections EXCEPT ![e].hidden = ~@]
  /\ UNCHANGED <<registry, checks, proposals, counts, now>>

Tick ==
  /\ now < MaxTime
  /\ now' = now + 1
  /\ UNCHANGED <<registry, entities, toggles>>

-----------------------------------------------------------------------------
CheckAction(c) ==
  \/ \E passed \in BOOLEAN : RecordOutcome(c, passed)
  \/ \E a \in Accounts, vote \in CheckVotes : VoteOnTemperatureCheck(a, c, vote)
  \/ MakeProposal(c)
  \/ ToggleCheckHidden(c)

ProposalAction(p) ==
  \/ \E a \in Accounts, selection \in Selections : VoteOnProposal(a, p, selection)
  \/ ToggleProposalHidden(p)

ElectionAction(e) ==
  \/ \E a \in Accounts, k \in RoundIds, grades \in GradeLists :
       VoteOnMajorityJudgmentElection(a, e, k, grades)
  \/ StartRoundOne(e)
  \/ StartRerun(e)
  \/ \E k \in RoundIds, order \in Orders : RecordTieResolution(e, k, order)
  \/ ToggleElectionHidden(e)

SetAction(id) ==
  \/ \E p \in Inputs : AddParameterSet(id, p) \/ UpdateParameterSet(id, p)
  \/ RetireParameterSet(id)
  \/ \E draft \in Drafts :
       \/ MakeTemperatureCheck(draft, id)
       \/ \E order \in Orders : MakeMajorityJudgmentElection(draft, id, order)

Next ==
  \/ \E c \in DOMAIN checks : CheckAction(c)
  \/ \E p \in DOMAIN proposals : ProposalAction(p)
  \/ \E e \in DOMAIN elections : ElectionAction(e)
  \/ \E id \in SetIds : SetAction(id)
  \/ Tick

Spec == Init /\ [][Next]_vars

-----------------------------------------------------------------------------
(***************************************************************************)
(* Properties                                                              *)
(***************************************************************************)
\* The contract, the collector (which reads the votes store slice by slice and
\* keeps each account's last vote) and a reader of the voters store agree on
\* every ballot of every check, proposal and round.
BooksConsistent ==
  /\ \A c \in DOMAIN checks : Consistent(checks[c].book)
  /\ \A p \in DOMAIN proposals : Consistent(proposals[p].book)
  /\ \A e \in DOMAIN elections, k \in RoundIds :
       RoundOf(e, k) # None => Consistent(RoundOf(e, k).book)

\* The contract's records are well typed, and their books agree.
RecordsInv == TypeOK /\ BooksConsistent

\* A temperature check is continued at most once, and check and continuation
\* name each other: no proposal or election is orphaned or shared.
ContinuationsPair ==
  /\ \A c \in DOMAIN checks :
       checks[c].continuation # None =>
         LET next == checks[c].continuation
         IN  IF next.kind = "Proposal"
             THEN next.id \in DOMAIN proposals /\ proposals[next.id].check = c
             ELSE next.id \in DOMAIN elections /\ CheckOf(next.id) = c
  /\ \A p \in DOMAIN proposals :
       /\ proposals[p].check \in DOMAIN checks
       /\ checks[proposals[p].check].continuation = [kind |-> "Proposal", id |-> p]
  /\ \A e \in DOMAIN elections :
       /\ CheckOf(e) \in DOMAIN checks
       /\ checks[CheckOf(e)].continuation = [kind |-> "MajorityJudgmentElection", id |-> e]

CastWithin(book, start, deadline) ==
  \A i \in 0..(book.count - 1) : start <= book.votes[i].at /\ book.votes[i].at < deadline

\* The phases of a consultation follow each other without overlap: a check is
\* decided after its deadline, continued after a positive decision; a rerun opens
\* after the first round has ended; a round is adjudicated after it has ended; and
\* every vote was cast inside its own phase.
PhasesInOrder ==
  /\ \A c \in DOMAIN checks :
       /\ CastWithin(checks[c].book, checks[c].start, checks[c].deadline)
       /\ checks[c].outcome # None => checks[c].outcome.at >= checks[c].deadline
  /\ \A p \in DOMAIN proposals :
       /\ CastWithin(proposals[p].book, proposals[p].start, proposals[p].deadline)
       /\ Passed(proposals[p].check)
       /\ proposals[p].start >= checks[proposals[p].check].outcome.at
  /\ \A e \in DOMAIN elections :
       /\ \A k \in RoundIds : RoundOf(e, k) # None =>
            CastWithin(RoundOf(e, k).book, RoundOf(e, k).start, RoundOf(e, k).deadline)
       /\ RoundOf(e, "RoundOne") # None =>
            /\ Passed(CheckOf(e))
            /\ RoundOf(e, "RoundOne").start >= checks[CheckOf(e)].outcome.at
       /\ RoundOf(e, "Rerun") # None =>
            /\ RoundOf(e, "RoundOne") # None
            /\ RoundOf(e, "Rerun").start >= RoundOf(e, "RoundOne").deadline
       /\ elections[e].tie # None =>
            /\ RoundOf(e, elections[e].tie.round) # None
            /\ elections[e].tie.at >= RoundOf(e, elections[e].tie.round).deadline

\* "A rerun changes only the duration": both rounds of an election are held under
\* the same rule and the same snapshot instant, each as long as the parameters its
\* check was created under say, and a proposal under those of its check.
HeldUnderItsCheck ==
  /\ \A p \in DOMAIN proposals :
       LET check == checks[proposals[p].check]
       IN  /\ proposals[p].parameterSet = check.parameterSet
           /\ IsStandard(check.parameterSet.parameters)
           /\ proposals[p].deadline =
                proposals[p].start + check.parameterSet.parameters.proposal.days
  /\ \A e \in DOMAIN elections, k \in RoundIds :
       RoundOf(e, k) # None =>
         /\ RoundOf(e, k).rule = RulesOf(e).election.rule
         /\ RoundOf(e, k).snapshot = RoundOf(e, "RoundOne").start
         /\ RoundOf(e, k).deadline = RoundOf(e, k).start
              + (IF k = "Rerun" THEN RulesOf(e).rerun.days ELSE RulesOf(e).election.days)

\* Readers show a consultation's rules by identifier and version: these determine
\* the parameters, in the registry and in every snapshot taken from it.
CurrentSets == {Resolved(id) : id \in {i \in SetIds : registry[i] # None}}
SnapshotsTaken == {checks[c].parameterSet : c \in DOMAIN checks}

VersionIdentifiesParameters ==
  \A s, t \in CurrentSets \cup SnapshotsTaken :
    s.id = t.id /\ s.version = t.version => s.parameters = t.parameters

\* Anyone can always propose a standard consultation: whatever the owner adds,
\* updates and retires, the default set stays selectable and Standard.
DefaultSelectable == Selectable(Default) /\ IsStandard(registry[Default].parameters)

\* The registry keeps both promises: readers can trust a version, proposers the default.
RegistryStaysUsable == VersionIdentifiesParameters /\ DefaultSelectable

\* What has been decided stays decided: the votes of a check with an outcome, those
\* of an adjudicated round (from which the collector recomputes the tied group), and
\* the decisions themselves never change, and an adjudicated election is not rerun.
DecidedIsFrozen ==
  [][/\ \A c \in DOMAIN checks : checks[c].outcome # None =>
          checks'[c].outcome = checks[c].outcome /\ checks'[c].book = checks[c].book
     /\ \A e \in DOMAIN elections : elections[e].tie # None =>
          LET adjudicated == elections[e].tie.round
          IN  /\ elections'[e].tie = elections[e].tie
              /\ elections'[e].rounds[adjudicated] = RoundOf(e, adjudicated)
              /\ RoundOf(e, "Rerun") = None => elections'[e].rounds["Rerun"] = None]_vars

-----------------------------------------------------------------------------
(***************************************************************************)
(* The consultations as Consultation has them: one for each check          *)
(***************************************************************************)
ContinuedBy(c, kind) ==
  /\ c \in DOMAIN checks
  /\ checks[c].continuation # None
  /\ checks[c].continuation.kind = kind

Opened(c, p) ==
  \/ p = "Check" /\ c \in DOMAIN checks
  \/ p = "Proposal" /\ ContinuedBy(c, "Proposal")
  \/ /\ p \in RoundIds /\ ContinuedBy(c, "MajorityJudgmentElection")
     /\ RoundOf(checks[c].continuation.id, p) # None

Poll(c, p) ==
  CASE p = "Check" -> checks[c]
    [] p = "Proposal" -> proposals[checks[c].continuation.id]
    [] p \in RoundIds -> RoundOf(checks[c].continuation.id, p)

Phase(c, p) ==
  IF Opened(c, p) THEN IF Ended(Poll(c, p).deadline) THEN "over" ELSE "open" ELSE "pending"

BallotsIn(c, p) == IF Opened(c, p) THEN Poll(c, p).book ELSE EmptyBook

DecisionOn(c) ==
  IF c \in DOMAIN checks /\ checks[c].outcome # None THEN checks[c].outcome.passed ELSE None

TieOf(c) ==
  IF ContinuedBy(c, "MajorityJudgmentElection")
  THEN elections[checks[c].continuation.id].tie ELSE None

Polls == {"Check", "Proposal"} \cup RoundIds

Course(c) == INSTANCE Consultation WITH
  NoVotes <- EmptyBook,
  phase <- [p \in Polls |-> Phase(c, p)],
  ballots <- [p \in Polls |-> BallotsIn(c, p)],
  decision <- DecisionOn(c),
  adjudicated <- IF TieOf(c) = None THEN None ELSE TieOf(c).round

\* Consultation by consultation the contract implements Consultation, whatever happens to
\* the others in between: a poll opens when it is due and once, its ballots change only while
\* it is open, a check is decided and a tie resolved once, in a phase that is over.
ConsultationsTakeTheirCourse ==
  /\ \A c \in Ids(MaxEntities) : Course(c)!Init
  /\ [][\A c \in Ids(MaxEntities) : [Course(c)!Next]_(Course(c)!courseVars)]_vars
=============================================================================
