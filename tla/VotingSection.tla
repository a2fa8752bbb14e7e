--------------------------- MODULE VotingSection ---------------------------
(***************************************************************************)
(* The ballot of a temperature check or a proposal (the two                *)
(* VotingSection.tsx): a form that is open until the current account has   *)
(* voted, reopened by "Change vote", and follows the recorded vote while   *)
(* it is closed.                                                           *)
(***************************************************************************)
EXTENDS WalletBatch

CONSTANTS
  Options,        \* a ballot is a non-empty set of options
  MaxSelections   \* of a proposal; 0 for the two answers of a temperature check

ASSUME SectionAssumption ==
  /\ Ballots \subseteq SUBSET Options
  /\ None \notin [ballot : SUBSET Options, todo : SUBSET Accounts, done : Seq(BOOLEAN)]

VARIABLES
  selection,      \* the options chosen on the form
  editing,        \* "Change vote" was pressed
  voteAll         \* "Use all connected accounts"

choiceVars == <<selection, editing, voteAll>>
sectionVars == <<walletVars, choiceVars>>

CurrentVote == IF Current = None THEN NoBallot ELSE Known(view, Current)
HasVoted == CurrentVote # NoBallot
ShowForm == wallet.connected # {} /\ (~HasVoted \/ editing)

SectionInit ==
  /\ WalletInit([Accounts -> Ballots \cup {NoBallot}])
  /\ selection = {}
  /\ editing = FALSE
  /\ voteAll = FALSE

\* Mutant: the form follows the recorded vote even while it is edited.
FollowingAlways(vote, chosen, edited) == IF vote # NoBallot THEN vote ELSE chosen

\* Mutant: the form takes a recorded vote only to fill an empty choice.
FollowingOnce(vote, chosen, edited) ==
  IF vote # NoBallot /\ ~edited /\ chosen = {} THEN vote ELSE chosen

\* A closed form shows the recorded vote.
Following(vote, chosen, edited) ==
  IF vote # NoBallot /\ ~edited THEN vote ELSE chosen

\* The form after a step that leaves it "edited" or not; without an account there
\* is no form, and it starts afresh.
FormFollows(edited) ==
  IF wallet'.connected = {}
  THEN selection' = {} /\ editing' = FALSE /\ voteAll' = FALSE
  ELSE /\ editing' = edited
       /\ selection' = Following(CurrentVote', selection, edited)
       /\ UNCHANGED voteAll

\* A temperature check has one answer; a proposal's options are toggled, and with a
\* single selection the new one replaces the old.
Toggled(o) ==
  IF MaxSelections = 0 THEN {o}
  ELSE IF o \in selection THEN selection \ {o}
  ELSE IF MaxSelections > 1 /\ Cardinality(selection) >= MaxSelections THEN selection
  ELSE IF MaxSelections = 1 THEN {o}
  ELSE selection \cup {o}

Choose(o) ==
  /\ ShowForm /\ Idle
  /\ selection' = Toggled(o)
  /\ UNCHANGED <<walletVars, editing, voteAll>>

ChangeVote ==
  /\ HasVoted /\ ~editing
  /\ editing' = TRUE
  /\ UNCHANGED <<walletVars, selection, voteAll>>

Cancel ==
  /\ editing
  /\ editing' = FALSE
  /\ selection' = IF HasVoted THEN CurrentVote ELSE {}
  /\ UNCHANGED <<walletVars, voteAll>>

VoteAllAccounts ==
  /\ ShowForm /\ Idle
  /\ Cardinality(wallet.connected) >= 2
  /\ voteAll' = ~voteAll
  /\ UNCHANGED <<walletVars, selection, editing>>

CanSubmit ==
  /\ ShowForm /\ Idle
  /\ selection # {}
  /\ HasVoted => selection # CurrentVote

SignTransaction ==
  /\ CanSubmit
  /\ SubmitBatch(selection, voteAll)
  /\ UNCHANGED choiceVars

\* A batch with a success closes the form.
BatchDone ==
  /\ BatchEnds
  /\ FormFollows(editing /\ ~(TRUE \in ToSet(batch.done)))

WalletChanges == Connect \/ SwitchAccount \/ ReadAnswers \/ ReadFails

ChainMoves ==
  \/ Confirmed(TRUE) \/ Refused \/ StatusLost \/ Close
  \/ \E t \in loose : LooseLands(t, TRUE)

SectionNext ==
  \/ \E o \in Options : Choose(o)
  \/ ChangeVote
  \/ Cancel
  \/ VoteAllAccounts
  \/ SignTransaction
  \/ BatchDone
  \/ WalletChanges /\ FormFollows(editing)
  \/ ChainMoves /\ UNCHANGED choiceVars

SectionSpec == SectionInit /\ [][SectionNext]_sectionVars

\* A closed form shows what the ledger holds for the current account, as soon as the
\* page is quiet (effect on currentVote and isEditing).
ClosedFormIsRecorded ==
  (Idle /\ ~reading /\ ~counts.lost /\ HasVoted /\ ~editing)
    => selection = recorded[Current]

\* Nothing but the user changes the choice on a form that is being edited: votes
\* read, accounts switched or connected and batches ended leave the draft alone.
DraftIsTheUsers ==
  [][(editing /\ editing' /\ walletVars' # walletVars) => selection' = selection]_sectionVars
=============================================================================
