---------------------------- MODULE ElectionPage ----------------------------
(***************************************************************************)
(* The voter's side of an election's page (election/$id): the copy of what *)
(* the collector publishes, refreshed now and then; the grades of a        *)
(* ballot, drafted next to the recorded one; the batch that submits them   *)
(* in the round shown.  Recorded ballots name their round.  A refresh of   *)
(* the election that fails, which takes the ballot off the page, is left   *)
(* out.                                                                    *)
(***************************************************************************)
EXTENDS WalletBatch

CONSTANTS
  Candidates, Grades,
  Earlier,        \* [Accounts -> first-round ballot or NoBallot], cast before
  MaxAttempts     \* the number of delays in AUTOMATIC_REFRESH_DELAYS_MS

ASSUME EarlierAssumption ==
  Earlier \subseteq [Accounts -> [round : {1}, grades : [Candidates -> Grades]] \cup {NoBallot}]

RoundBallots == [round : {1, 2}, grades : [Candidates -> Grades]]

ASSUME PageAssumption ==
  None \notin [ballot : RoundBallots, todo : SUBSET Accounts, done : Seq(BOOLEAN)]

VARIABLES
  round,          \* the round on the ledger: 1, or 2 the rerun
  former,         \* the first round's ballots, once the rerun has stores of its own
  published,      \* what the collector publishes: [round, live], or None; in round 0
                  \* the check is over and its outcome not projected yet
  shown,          \* the page's copy of it; None while the election is not indexed
  late,           \* the timer of the shown round's end has fired
  attempts,       \* automatic refreshes since the page last waited for nothing
  draft,          \* the grades on the page, a function on a part of the candidates
  picked,         \* history: candidates graded by hand since the draft was reset
  all             \* "Submit this ballot from all connected accounts"

electionVars == <<round, former, published>>
copyVars == <<shown, late, attempts>>
formVars == <<draft, picked, all>>
pageVars == <<walletVars, electionVars, copyVars, formVars>>

Entries == {a \in DOMAIN view : view[a] # NoBallot}
Entry == IF Current = None THEN NoBallot ELSE Known(view, Current)

\* Several recorded ballots, to be replaced together, that do not agree.
Mixed ==
  /\ all
  /\ Cardinality(Entries) > 1
  /\ \E a, b \in Entries : view[a].grades # view[b].grades

\* Mutant: mixed ballots go unnoticed.
InitialUnmixed ==
  IF Entry = NoBallot THEN <<"none", 0>> ELSE <<"entry", Current>>

\* Mutant: no grades are a fresh list at every render.
InitialFresh ==
  IF Mixed THEN <<"mixed", 0>>
  ELSE IF Entry = NoBallot THEN <<"none", <<shown, late>>>> ELSE <<"entry", Current>>

\* Which list of grades the ballot starts from; the two empty lists are constants of
\* the page, so that they are the same at every render.
Initial ==
  IF Mixed THEN <<"mixed", 0>>
  ELSE IF Entry = NoBallot THEN <<"none", 0>> ELSE <<"entry", Current>>

InitialGrades == IF Initial[1] = "entry" THEN Entry.grades ELSE <<>>

PriorBallot == InitialGrades # <<>>

\* The draft is reset when the list it starts from is another one than before; the
\* grades of an entry read again are another list, whatever they are.
DraftFollows(again) ==
  IF Initial' = Initial /\ ~(again /\ Initial'[1] = "entry")
  THEN UNCHANGED <<draft, picked>>
  ELSE draft' = InitialGrades' /\ picked' = {}

PageInit ==
  /\ WalletInit(Earlier)
  /\ round = 1
  /\ former = [a \in Accounts |-> NoBallot]
  /\ published \in {None, [round |-> 0, live |-> FALSE], [round |-> 1, live |-> TRUE]}
  /\ shown = None
  /\ late = FALSE
  /\ attempts = 0
  /\ draft = <<>>
  /\ picked = {}
  /\ all = FALSE

-----------------------------------------------------------------------------
(* The ledger and the collector *)

\* The operator opens the rerun, with vote stores of its own.
OpenRerun ==
  /\ round = 1 /\ ~open
  /\ round' = 2
  /\ open' = TRUE
  /\ former' = recorded
  /\ recorded' = [a \in Accounts |-> NoBallot]
  /\ UNCHANGED <<loose, wallet, view, reading, batch, signed, counts, published, copyVars,
                 formVars>>

\* A poll catches up with the ledger.
Collect ==
  /\ published' = [round |-> round, live |-> open]
  /\ published' # published
  /\ UNCHANGED <<walletVars, round, former, copyVars, formVars>>

-----------------------------------------------------------------------------
(* The page's copy *)

\* The page waits for the collector to index the election, or to project the outcome of
\* its check.
Waiting == shown # None => shown.round = 0

\* The round of a copy is over.
Ended(copy) == copy # None /\ copy.live /\ (copy.round = round => ~open)

\* The election is read again, the n-th time since the page began to wait.  A ballot that
\* is mounted looks at the clock; one that is shown already has a timer armed for the end
\* of its round, disarmed by another end.
Refreshed(n) ==
  /\ shown' = published
  /\ late' = IF shown = None THEN Ended(published)
             ELSE late /\ published.round = shown.round
  /\ attempts' = IF Waiting' THEN n ELSE 0

\* A page that waits asks again by itself, a few times.
RefreshAutomatically ==
  /\ Waiting
  /\ attempts < MaxAttempts
  /\ Refreshed(attempts + 1)
  /\ UNCHANGED <<walletVars, electionVars, all>>
  /\ DraftFollows(FALSE)

\* "Check now" of an election not indexed yet, or once the page has stopped asking.
CheckNow ==
  /\ Waiting
  /\ shown = None \/ attempts = MaxAttempts
  /\ Refreshed(0)
  /\ UNCHANGED <<walletVars, electionVars, all>>
  /\ DraftFollows(FALSE)

\* Bound: a behaviour has its visits and operators' transactions before the last change of
\* accounts that MaxSwitches allows.
BeforeLastSwitch == counts.switches < MaxSwitches

\* A transaction of an operator on this page (a round opened, a rerun, a tie resolved, the
\* election hidden) reads the election again, and nothing else: not the votes.
RefreshAfterOperation ==
  /\ BeforeLastSwitch
  /\ shown # None
  /\ Refreshed(attempts)
  /\ UNCHANGED <<walletVars, electionVars, all>>
  /\ DraftFollows(FALSE)

\* The page is left and visited again: all it had is gone, a batch under way included.
Visit ==
  /\ BeforeLastSwitch
  /\ Leave
  /\ shown' = published
  /\ late' = Ended(published)
  /\ attempts' = 0
  /\ draft' = <<>> /\ picked' = {} /\ all' = FALSE
  /\ UNCHANGED electionVars

\* The page's own clock passes the end of the round shown.
TimerFires ==
  /\ Ended(shown)
  /\ ~late
  /\ late' = TRUE
  /\ UNCHANGED <<walletVars, electionVars, shown, attempts, all>>
  /\ DraftFollows(FALSE)

VotingOpen == shown # None /\ shown.live /\ ~late

-----------------------------------------------------------------------------
(* The ballot *)

SelectGrade(c, g) ==
  /\ VotingOpen /\ Idle
  /\ draft' = [d \in DOMAIN draft \cup {c} |-> IF d = c THEN g ELSE draft[d]]
  /\ picked' = picked \cup {c}
  /\ UNCHANGED <<walletVars, electionVars, copyVars, all>>

UseAllAccounts ==
  /\ shown # None /\ shown.live /\ Idle
  /\ Cardinality(wallet.connected) > 1
  /\ all' = ~all
  /\ UNCHANGED <<walletVars, electionVars, copyVars>>
  /\ DraftFollows(FALSE)

Submit ==
  /\ VotingOpen /\ Idle
  /\ DOMAIN draft = Candidates
  /\ AccountsToVote(all) # {}
  /\ SubmitBatch([round |-> shown.round, grades |-> draft], all)
  /\ UNCHANGED <<electionVars, copyVars, formVars>>

\* A batch with a success refreshes the election as well as the votes.
Finish ==
  /\ BatchEnds
  /\ IF RefreshAfter(batch.done) THEN Refreshed(attempts) ELSE UNCHANGED copyVars
  /\ UNCHANGED <<electionVars, all>>
  /\ DraftFollows(FALSE)

\* The entries are read from the rerun once there is one, and drafts follow them.
VotesRead ==
  /\ ReadAnswers \/ ReadFails
  /\ UNCHANGED <<electionVars, copyVars, all>>
  /\ DraftFollows(TRUE)

AccountsChange ==
  /\ Connect \/ SwitchAccount
  /\ UNCHANGED <<electionVars, copyVars, all>>
  /\ DraftFollows(FALSE)

\* The contract accepts a ballot only in the round it has open.
InRound(ballot) == ballot.round = round

Transacts ==
  /\ \/ Sending /\ Confirmed(InRound(batch.ballot))
     \/ Refused \/ StatusLost \/ Close
     \/ \E t \in loose : LooseLands(t, InRound(t.ballot))
  /\ UNCHANGED <<electionVars, copyVars, formVars>>

PageNext ==
  \/ OpenRerun
  \/ Collect
  \/ RefreshAutomatically
  \/ CheckNow
  \/ RefreshAfterOperation
  \/ Visit
  \/ TimerFires
  \/ \E c \in Candidates, g \in Grades : SelectGrade(c, g)
  \/ UseAllAccounts
  \/ Submit
  \/ Finish
  \/ VotesRead
  \/ AccountsChange
  \/ Transacts

PageSpec == PageInit /\ [][PageNext]_pageVars

-----------------------------------------------------------------------------
(* Properties *)

\* The votes were read in the first round, and the rerun has opened since.  Nothing that
\* tells the page of a rerun reads the votes again (adminAtom.ts:227 and the page's own
\* refreshes read the election only), so that the page offers the grades of the first
\* round until a vote, another account or another visit has them read.
RerunUnread == Entry # NoBallot /\ Entry.round < round

\* A grade on a quiet page that the voter has not picked is the one the ledger holds for
\* the current account in the round it has open, or, on a page that has not read the votes
\* since the rerun opened, in the first; unless the wallet has lost sight of a transaction.
\* Where several accounts' ballots differ and are to be replaced together, every grade is
\* picked by hand ("Choose grades explicitly before replacing them together").
UnpickedAreRecorded ==
  \A c \in DOMAIN draft \ picked :
    /\ ~Mixed
    /\ Idle /\ ~reading /\ ~counts.lost =>
         LET ballots == IF RerunUnread THEN former ELSE recorded
         IN  /\ Current # None /\ ballots[Current] # NoBallot
             /\ draft[c] = ballots[Current].grades[c]

\* A page that renders again because the election was refreshed, the collector has
\* published or the voting has ended keeps the grades drafted so far ("a fresh
\* literal per render would discard the operator's in-progress grade"); a visit starts anew.
DraftSurvivesRefresh ==
  [][(copyVars' # copyVars /\ Idle /\ ~Visit) => draft' = draft]_pageVars
=============================================================================
