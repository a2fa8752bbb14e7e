---------------------------- MODULE ClientProofs ----------------------------
(***************************************************************************)
(* Proofs about the pages of the web client: what a voter signs is what is *)
(* sent, the pages show what the ledger holds once they are quiet, drafts  *)
(* survive what happens around them, the operators' controls, forms and    *)
(* panels keep to the rules although what they show may be old, and lists  *)
(* miss nothing.  Each page has an invariant of its own; the pages share   *)
(* no state.                                                               *)
(***************************************************************************)
EXTENDS MCClient, SetLemmas, SequenceTheorems, WellFoundedInduction, TLAPS

-----------------------------------------------------------------------------
(* The wallet and its batches *)

\* The account that comes first is one of the accounts.
LEMMA FirstIsOne ==
  ASSUME NEW S \in SUBSET Accounts, S # {}
  PROVE  First(S) \in S
<1>1. \E m \in S : \A n \in S : m <= n
  <2>1. S \in SUBSET Nat
    BY AccountsAssumption
  <2>2. PICK m \in S : \A n \in S : <<n, m>> \notin OpToRel(<, Nat)
    BY <2>1, NatLessThanWellFounded, WFMin
  <2>3. \A n \in S : ~(n < m)
    BY <2>1, <2>2 DEF OpToRel
  <2> QED
    BY <2>1, <2>3
<1> QED
  BY <1>1 DEF First

\* The shapes of what the wallet and the batches are made of.
WalletShape ==
  /\ DOMAIN recorded = Accounts
  /\ DOMAIN wallet = {"connected", "selected"} /\ wallet.connected \subseteq Accounts
  /\ batch # None => /\ DOMAIN batch = {"ballot", "todo", "done"}
                     /\ batch.todo \subseteq Accounts
  /\ \A t \in signed : t.account \in Accounts /\ t = [account |-> t.account, ballot |-> t.ballot]

\* What a batch has still to send has been signed, for the accounts it will be sent for.
BatchIsSigned ==
  batch # None => \A a \in batch.todo : [account |-> a, ballot |-> batch.ballot] \in signed

SignedInv == WalletShape /\ BatchIsSigned /\ OnlyWhatWasSigned

\* The steps of the wallet that the pages build theirs from.
WalletStep ==
  \/ Connect \/ SwitchAccount \/ ReadAnswers \/ ReadFails
  \/ \E ballot, all_ : SubmitBatch(ballot, all_)
  \/ BatchEnds \/ Refused \/ StatusLost \/ Close
  \/ \E accepted : Confirmed(accepted)
  \/ \E t \in loose : \E accepted : LooseLands(t, accepted)

\* Ballots are submitted for connected accounts only.
LEMMA VotersAreConnected ==
  ASSUME wallet.connected \subseteq Accounts, NEW all_
  PROVE  AccountsToVote(all_) \subseteq wallet.connected
  BY FirstIsOne DEF AccountsToVote, Current, CurrentIn

\* Every step of the wallet keeps to what was signed.
LEMMA WalletStepKeepsSigned ==
  ASSUME SignedInv, WalletStep
  PROVE  SignedInv'
<1>1. CASE Connect \/ SwitchAccount \/ ReadAnswers \/ ReadFails \/ Close
  BY <1>1 DEF Connect, SwitchAccount, ReadAnswers, ReadFails, Close, ledgerVars, SignedInv,
              WalletShape, BatchIsSigned, OnlyWhatWasSigned
<1>2. ASSUME NEW ballot, NEW all_, SubmitBatch(ballot, all_) PROVE SignedInv'
  <2>1. PICK voters : voters = AccountsToVote(all_)
    OBVIOUS
  <2>2. voters \subseteq Accounts
    BY <2>1, VotersAreConnected DEF SignedInv, WalletShape
  <2>3. /\ batch' = [ballot |-> ballot, todo |-> voters, done |-> <<>>]
        /\ signed' = signed \cup {[account |-> a, ballot |-> ballot] : a \in voters}
        /\ UNCHANGED <<recorded, loose, wallet>>
    BY <1>2, <2>1 DEF SubmitBatch, ledgerVars
  <2>4. WalletShape'
    BY <2>2, <2>3 DEF SignedInv, WalletShape
  <2>5. BatchIsSigned'
    BY <2>3 DEF BatchIsSigned
  <2>6. OnlyWhatWasSigned'
    BY <2>3 DEF SignedInv, OnlyWhatWasSigned
  <2> QED
    BY <2>4, <2>5, <2>6 DEF SignedInv
<1>3. CASE BatchEnds
  BY <1>3 DEF BatchEnds, ledgerVars, SignedInv, WalletShape, BatchIsSigned, OnlyWhatWasSigned
<1>4. ASSUME Sending
      PROVE  /\ Sender \in Accounts /\ [account |-> Sender, ballot |-> batch.ballot] \in signed
             /\ \A success : Answered(success) =>
                  /\ DOMAIN batch' = DOMAIN batch /\ batch'.ballot = batch.ballot
                  /\ batch'.todo \subseteq batch.todo
  <2>1. Sender \in batch.todo
    BY <1>4, FirstIsOne DEF Sending, Sender, SignedInv, WalletShape
  <2> QED
    BY <1>4, <2>1 DEF Sending, Answered, SignedInv, WalletShape, BatchIsSigned
<1>5. ASSUME NEW accepted, Confirmed(accepted) PROVE SignedInv'
  BY <1>4, <1>5 DEF Confirmed, Record, SignedInv, WalletShape, BatchIsSigned, OnlyWhatWasSigned,
                    Sending
<1>6. CASE Refused \/ StatusLost
  BY <1>4, <1>6 DEF Refused, StatusLost, ledgerVars, SignedInv, WalletShape, BatchIsSigned,
                    OnlyWhatWasSigned, Sending
<1>7. ASSUME NEW t \in loose, NEW accepted, LooseLands(t, accepted) PROVE SignedInv'
  <2>1. t \in signed
    BY DEF SignedInv, OnlyWhatWasSigned
  <2> QED
    BY <1>7, <2>1 DEF LooseLands, Record, SignedInv, WalletShape, BatchIsSigned,
                      OnlyWhatWasSigned
<1> QED
  BY <1>1, <1>2, <1>3, <1>5, <1>6, <1>7 DEF WalletStep

\* A page is opened with ballots that were signed on earlier visits.
LEMMA WalletInitIsSigned ==
  ASSUME NEW earlier, WalletInit(earlier), \A r \in earlier : DOMAIN r = Accounts
  PROVE  SignedInv
<1>1. /\ DOMAIN recorded = Accounts /\ batch = None /\ loose = {}
      /\ wallet = [connected |-> Accounts, selected |-> None]
  BY DEF WalletInit
<1>2. signed = {[account |-> a, ballot |-> recorded[a]] :
                  a \in {b \in Accounts : recorded[b] # NoBallot}}
  BY DEF WalletInit
<1> QED
  BY <1>1, <1>2 DEF SignedInv, WalletShape, BatchIsSigned, OnlyWhatWasSigned

\* The steps of a voting section are the wallet's, or leave it alone.
LEMMA SectionStepKeepsSigned ==
  ASSUME SignedInv, [SectionNext]_sectionVars
  PROVE  SignedInv'
<1>1. CASE UNCHANGED walletVars
  BY <1>1 DEF walletVars, SignedInv, WalletShape, BatchIsSigned, OnlyWhatWasSigned
<1>2. UNCHANGED walletVars \/ WalletStep
  BY DEF SectionNext, sectionVars, Choose, ChangeVote, Cancel, VoteAllAccounts, SignTransaction,
         BatchDone, WalletChanges, ChainMoves, WalletStep
<1> QED
  BY <1>1, <1>2, WalletStepKeepsSigned

\* What a voting section gets onto the ledger was signed for that account
\* (VotingSection.tsx, useVoteOnAccounts).
THEOREM SectionSendsWhatWasSigned == SectionSpec => []OnlyWhatWasSigned
<1>1. SectionInit => SignedInv
  BY WalletInitIsSigned DEF SectionInit
<1>2. SignedInv /\ [SectionNext]_sectionVars => SignedInv'
  BY SectionStepKeepsSigned
<1>3. SignedInv => OnlyWhatWasSigned
  BY DEF SignedInv
<1> QED
  BY <1>1, <1>2, <1>3, PTL DEF SectionSpec

\* A visit interrupts a batch, of what was signed.
LEMMA LeavingKeepsSigned ==
  ASSUME SignedInv, Leave
  PROVE  SignedInv'
<1>1. Sending => [account |-> Sender, ballot |-> batch.ballot] \in signed
  BY FirstIsOne DEF Sending, Sender, SignedInv, WalletShape, BatchIsSigned
<1>2. OnlyWhatWasSigned'
  BY <1>1 DEF Leave, SignedInv, OnlyWhatWasSigned
<1> QED
  BY <1>2 DEF Leave, SignedInv, WalletShape, BatchIsSigned

\* The steps of an election's page are the wallet's, leave it alone, visit the page anew, or
\* open a rerun, in which nobody has voted yet.
LEMMA PageStepKeepsSigned ==
  ASSUME SignedInv, [PageNext]_pageVars
  PROVE  SignedInv'
<1>1. CASE UNCHANGED walletVars
  BY <1>1 DEF walletVars, SignedInv, WalletShape, BatchIsSigned, OnlyWhatWasSigned
<1>2. CASE OpenRerun
  BY <1>2 DEF OpenRerun, SignedInv, WalletShape, BatchIsSigned, OnlyWhatWasSigned
<1>3. UNCHANGED walletVars \/ OpenRerun \/ Leave \/ WalletStep
  BY DEF PageNext, pageVars, Collect, RefreshAutomatically, CheckNow, RefreshAfterOperation,
         Visit, TimerFires, SelectGrade, UseAllAccounts, Submit, Finish, VotesRead,
         AccountsChange, Transacts, WalletStep
<1> QED
  BY <1>1, <1>2, <1>3, LeavingKeepsSigned, WalletStepKeepsSigned

\* What an election's page gets onto the ledger, in either round, was signed for that account
\* (election/$id, useSubmitBallot).
THEOREM PageSendsWhatWasSigned == PageSpec => []OnlyWhatWasSigned
<1>1. PageInit => SignedInv
  BY WalletInitIsSigned, EarlierAssumption DEF PageInit
<1>2. SignedInv /\ [PageNext]_pageVars => SignedInv'
  BY PageStepKeepsSigned
<1>3. SignedInv => OnlyWhatWasSigned
  BY DEF SignedInv
<1> QED
  BY <1>1, <1>2, <1>3, PTL DEF PageSpec

-----------------------------------------------------------------------------
(* The voting section *)

Votes == SUBSET Options
BatchOf(ballots) == [ballot : ballots, todo : SUBSET Accounts, done : Seq(BOOLEAN)]
Batch == BatchOf(Votes)

\* The types of a voting section.
SectionTypes ==
  /\ selection \in Votes
  /\ recorded \in [Accounts -> Votes \cup {NoBallot}]
  /\ \A a \in DOMAIN view : view[a] \in Votes \cup {NoBallot}
  /\ \A t \in loose : t.account \in Accounts /\ t.ballot \in Votes
  /\ DOMAIN wallet = {"connected", "selected"} /\ wallet.connected \subseteq Accounts
  /\ batch # None => batch \in Batch
  /\ DOMAIN counts = {"batches", "switches", "lost"} /\ counts.lost \in BOOLEAN

\* Nothing reaches the ledger unseen until a status is lost.
NothingLoose == ~counts.lost => loose = {}

\* The votes that were read are the ledger's, but for those of the batch under way.
ViewIsCurrent ==
  (Idle \/ TRUE \notin ToSet(batch.done)) /\ ~reading /\ ~counts.lost /\ DOMAIN view # {}
    => view = [a \in wallet.connected |-> recorded[a]]

\* A closed form shows the vote the page has read.
ClosedFormIsRead == HasVoted /\ ~editing => selection = CurrentVote

SectionInv == SectionTypes /\ NothingLoose /\ ViewIsCurrent /\ ClosedFormIsRead

\* An answer lengthens what the batch has done.
LEMMA AnswerLengthens ==
  ASSUME NEW B, batch \in BatchOf(B), batch.todo # {}, NEW success \in BOOLEAN, Answered(success)
  PROVE  /\ batch' \in BatchOf(B) /\ batch'.ballot = batch.ballot
         /\ Sender \in Accounts
         /\ TRUE \in ToSet(batch'.done) <=> success \/ TRUE \in ToSet(batch.done)
<1>2. batch' = [batch EXCEPT !.todo = batch.todo \ {Sender}, !.done = Append(batch.done, success)]
  BY DEF Answered
<1>3. batch' \in BatchOf(B) /\ batch'.done = Append(batch.done, success)
  <2>1. /\ batch.ballot \in B /\ batch.todo \in SUBSET Accounts
        /\ batch.done \in Seq(BOOLEAN)
        /\ batch = [ballot |-> batch.ballot, todo |-> batch.todo, done |-> batch.done]
    BY DEF BatchOf
  <2>2. Append(batch.done, success) \in Seq(BOOLEAN) /\ batch.todo \ {Sender} \in SUBSET Accounts
    BY <2>1
  <2>3. batch' = [ballot |-> batch.ballot, todo |-> batch.todo \ {Sender},
                  done |-> Append(batch.done, success)]
    BY <1>2, <2>1
  <2> QED
    BY <2>1, <2>2, <2>3 DEF BatchOf
<1>5. Sender \in Accounts
  BY FirstIsOne DEF BatchOf, Sender
<1>6. TRUE \in ToSet(batch'.done) <=> success \/ TRUE \in ToSet(batch.done)
  <2>1. batch.done \in Seq(BOOLEAN)
    BY DEF BatchOf
  <2>2. PICK d, e : d = batch.done /\ e = batch'.done
    OBVIOUS
  <2>3. /\ DOMAIN d = 1 .. Len(d) /\ DOMAIN e = 1 .. (Len(d) + 1) /\ Len(d) \in Nat
        /\ \A i \in 1 .. Len(d) : e[i] = d[i]
        /\ e[Len(d) + 1] = success
    BY <1>3, <2>1, <2>2
  <2>4. TRUE \in ToSet(d) <=> \E i \in 1 .. Len(d) : d[i] = TRUE
    BY <2>3 DEF ToSet
  <2>5. TRUE \in ToSet(e) <=> \E i \in 1 .. (Len(d) + 1) : e[i] = TRUE
    BY <2>3 DEF ToSet
  <2>6. TRUE \in ToSet(e) => success \/ TRUE \in ToSet(d)
    <3> SUFFICES ASSUME NEW i \in 1 .. (Len(d) + 1), e[i] = TRUE, ~success
                 PROVE  TRUE \in ToSet(d)
      BY <2>5
    <3>1. i \in 1 .. Len(d)
      BY <2>3
    <3> QED
      BY <2>3, <2>4, <3>1
  <2>7. TRUE \in ToSet(d) => TRUE \in ToSet(e)
    <3> SUFFICES ASSUME NEW i \in 1 .. Len(d), d[i] = TRUE PROVE TRUE \in ToSet(e)
      BY <2>4
    <3>1. i \in 1 .. (Len(d) + 1) /\ e[i] = TRUE
      BY <2>3
    <3> QED
      BY <2>5, <3>1
  <2>8. success => TRUE \in ToSet(e)
    <3> SUFFICES ASSUME success = TRUE PROVE TRUE \in ToSet(e)
      OBVIOUS
    <3>1. Len(d) + 1 \in 1 .. (Len(d) + 1) /\ e[Len(d) + 1] = TRUE
      BY <2>3
    <3> QED
      BY <2>5, <3>1
  <2> QED
    BY <2>2, <2>6, <2>7, <2>8
<1>7. batch'.ballot = batch.ballot
  BY <1>2 DEF BatchOf
<1> QED
  BY <1>3, <1>5, <1>6, <1>7

\* So it does in a voting section, where a batch is of votes.
LEMMA AnsweredBatch ==
  ASSUME SectionTypes, Sending, NEW success \in BOOLEAN, Answered(success)
  PROVE  /\ batch \in Batch /\ batch' \in Batch /\ batch' # None
         /\ Sender \in Accounts
         /\ TRUE \in ToSet(batch'.done) <=> success \/ TRUE \in ToSet(batch.done)
<1>1. batch \in BatchOf(Votes) /\ batch.todo # {}
  BY DEF Sending, SectionTypes, Batch
<1>2. /\ batch' \in BatchOf(Votes) /\ Sender \in Accounts
      /\ TRUE \in ToSet(batch'.done) <=> success \/ TRUE \in ToSet(batch.done)
  BY <1>1, AnswerLengthens
<1>3. batch' # None
  BY <1>2, SectionAssumption DEF BatchOf, Votes
<1> QED
  BY <1>1, <1>2, <1>3 DEF Batch

\* A vote the page shows is one it has read.
LEMMA VotesAreRead ==
  ASSUME SectionTypes, HasVoted
  PROVE  CurrentVote \in Votes /\ Current \in DOMAIN view /\ CurrentVote = view[Current]
  BY DEF SectionTypes, HasVoted, CurrentVote, Known

\* The form follows whatever the page has read.
LEMMA FollowedForm ==
  ASSUME NEW edited, FormFollows(edited), selection \in Votes,
         SectionTypes' \/ \A a \in DOMAIN view' : view'[a] \in Votes \cup {NoBallot}
  PROVE  ClosedFormIsRead' /\ selection' \in Votes
<1>1. CASE wallet'.connected = {}
  <2>1. Current' = None
    BY <1>1 DEF Current, CurrentIn
  <2> QED
    BY <1>1, <2>1 DEF FormFollows, ClosedFormIsRead, HasVoted, CurrentVote, Votes
<1>2. CASE wallet'.connected # {}
  <2>1. /\ editing' = edited
        /\ selection' = IF HasVoted' /\ ~edited THEN CurrentVote' ELSE selection
    BY <1>2 DEF FormFollows, Following, HasVoted
  <2>2. HasVoted' => CurrentVote' \in Votes
    BY DEF HasVoted, CurrentVote, Known, SectionTypes
  <2> QED
    BY <2>1, <2>2 DEF ClosedFormIsRead
<1> QED
  BY <1>1, <1>2

\* A step that leaves the accounts and what was read alone leaves the closed form current.
LEMMA SameViewSameForm ==
  ASSUME UNCHANGED <<wallet, view>>
  PROVE  CurrentVote' = CurrentVote /\ HasVoted' = HasVoted
  BY DEF CurrentVote, HasVoted, Current

\* The user's steps keep the invariant of the section.
LEMMA ChoiceKeepsSection ==
  ASSUME SectionInv,
         \/ \E o \in Options : Choose(o)
         \/ ChangeVote \/ Cancel \/ VoteAllAccounts \/ SignTransaction
  PROVE  SectionInv'
<1>1. CurrentVote' = CurrentVote /\ HasVoted' = HasVoted
  BY SameViewSameForm
  DEF Choose, ChangeVote, Cancel, VoteAllAccounts, SignTransaction, SubmitBatch, walletVars
<1>2. ASSUME NEW o \in Options, Choose(o) PROVE SectionInv'
  <2>1. selection' \in Votes
    BY <1>2 DEF Choose, Toggled, SectionInv, SectionTypes, Votes
  <2>2. UNCHANGED walletVars /\ ~(HasVoted /\ ~editing) /\ editing' = editing
    BY <1>2 DEF Choose, ShowForm
  <2> QED
    BY <1>1, <2>1, <2>2
    DEF SectionInv, SectionTypes, NothingLoose, ViewIsCurrent, ClosedFormIsRead, walletVars, Idle
<1>3. CASE ChangeVote \/ VoteAllAccounts
  BY <1>1, <1>3 DEF ChangeVote, VoteAllAccounts, SectionInv, SectionTypes, NothingLoose,
                    ViewIsCurrent, ClosedFormIsRead, walletVars, Idle
<1>4. CASE Cancel
  <2>1. selection' = IF HasVoted THEN CurrentVote ELSE {}
    BY <1>4 DEF Cancel
  <2>2. selection' \in Votes
    BY <2>1, VotesAreRead DEF SectionInv, Votes
  <2> QED
    BY <1>1, <1>4, <2>1, <2>2 DEF Cancel, SectionInv, SectionTypes, NothingLoose,
                    ViewIsCurrent, ClosedFormIsRead, walletVars, Idle
<1>5. CASE SignTransaction
  <2>1. /\ Idle
        /\ batch' = [ballot |-> selection, todo |-> AccountsToVote(voteAll), done |-> <<>>]
        /\ UNCHANGED <<recorded, loose, wallet, view, reading, selection, editing>>
        /\ counts' = [counts EXCEPT !.batches = @ + 1]
    BY <1>5 DEF SignTransaction, CanSubmit, SubmitBatch, choiceVars, ledgerVars
  <2>2. batch' \in Batch
    <3>1. AccountsToVote(voteAll) \subseteq Accounts
      BY VotersAreConnected DEF SectionInv, SectionTypes
    <3>2. <<>> \in Seq(BOOLEAN)
      OBVIOUS
    <3> QED
      BY <2>1, <3>1, <3>2 DEF SectionInv, SectionTypes, Batch, BatchOf
  <2> QED
    BY <1>1, <2>1, <2>2 DEF SectionInv, SectionTypes, NothingLoose, ViewIsCurrent,
                            ClosedFormIsRead, Idle
<1> QED
  BY <1>2, <1>3, <1>4, <1>5

\* The accounts, the votes read and the end of a batch keep the invariant of the section.
LEMMA WalletKeepsSection ==
  ASSUME SectionInv, BatchDone \/ (WalletChanges /\ FormFollows(editing))
  PROVE  SectionInv'
<1>1. \E edited : FormFollows(edited)
  BY DEF BatchDone
<1>2. CASE BatchDone
  <2>1. /\ batch # None /\ batch' = None
        /\ reading' = (reading \/ RefreshAfter(batch.done))
        /\ UNCHANGED <<recorded, loose, wallet, view, counts>>
    BY <1>2 DEF BatchDone, BatchEnds, ledgerVars
  <2>2. ClosedFormIsRead' /\ selection' \in Votes
    BY <1>1, <2>1, FollowedForm DEF SectionInv, SectionTypes
  <2> QED
    BY <2>1, <2>2 DEF SectionInv, SectionTypes, NothingLoose, ViewIsCurrent, RefreshAfter, Idle
<1>3. CASE Connect
  <2>1. /\ wallet'.connected \subseteq Accounts /\ DOMAIN wallet' = DOMAIN wallet
        /\ reading' = TRUE
        /\ DOMAIN counts' = DOMAIN counts /\ counts'.lost = counts.lost
        /\ UNCHANGED <<recorded, loose, view, batch>>
    BY <1>3 DEF Connect, Switched, ledgerVars, SectionInv, SectionTypes
  <2>2. ClosedFormIsRead' /\ selection' \in Votes
    BY <1>1, <2>1, FollowedForm DEF SectionInv, SectionTypes
  <2> QED
    BY <2>1, <2>2 DEF SectionInv, SectionTypes, NothingLoose, ViewIsCurrent
<1>4. CASE SwitchAccount
  <2>1. /\ wallet'.connected = wallet.connected /\ DOMAIN wallet' = DOMAIN wallet
        /\ DOMAIN counts' = DOMAIN counts /\ counts'.lost = counts.lost
        /\ UNCHANGED <<recorded, loose, view, reading, batch>>
    BY <1>4 DEF SwitchAccount, Switched, ledgerVars, SectionInv, SectionTypes
  <2>2. ClosedFormIsRead' /\ selection' \in Votes
    BY <1>1, <2>1, FollowedForm DEF SectionInv, SectionTypes
  <2> QED
    BY <2>1, <2>2 DEF SectionInv, SectionTypes, NothingLoose, ViewIsCurrent, Idle
<1>5. CASE ReadAnswers
  <2>1. /\ view' = [a \in wallet.connected |-> recorded[a]]
        /\ UNCHANGED <<recorded, loose, wallet, batch, counts>>
    BY <1>5 DEF ReadAnswers, ledgerVars
  <2>2. \A a \in DOMAIN view' : view'[a] \in Votes \cup {NoBallot}
    BY <2>1 DEF SectionInv, SectionTypes
  <2>3. ClosedFormIsRead' /\ selection' \in Votes
    BY <1>1, <2>2, FollowedForm DEF SectionInv, SectionTypes
  <2> QED
    BY <2>1, <2>2, <2>3 DEF SectionInv, SectionTypes, NothingLoose, ViewIsCurrent, Idle
<1>6. CASE ReadFails
  <2>1. view' = <<>> /\ UNCHANGED <<recorded, loose, wallet, batch, counts>>
    BY <1>6 DEF ReadFails, ledgerVars
  <2>2. DOMAIN view' = {}
    BY <2>1
  <2>3. ClosedFormIsRead' /\ selection' \in Votes
    BY <1>1, <2>2, FollowedForm DEF SectionInv, SectionTypes
  <2> QED
    BY <2>1, <2>2, <2>3 DEF SectionInv, SectionTypes, NothingLoose, ViewIsCurrent
<1> QED
  BY <1>2, <1>3, <1>4, <1>5, <1>6 DEF WalletChanges

\* What happens on the ledger keeps the invariant of the section.
LEMMA ChainKeepsSection ==
  ASSUME SectionInv, ChainMoves, UNCHANGED choiceVars
  PROVE  SectionInv'
<1>1. UNCHANGED <<wallet, view, reading, selection, editing>>
  BY DEF ChainMoves, Confirmed, Refused, StatusLost, Close, LooseLands, choiceVars
<1>2. CurrentVote' = CurrentVote /\ HasVoted' = HasVoted
  BY <1>1, SameViewSameForm
<1>3. CASE Confirmed(TRUE)
  <2>1. /\ batch \in Batch /\ batch' \in Batch /\ batch' # None
        /\ Sender \in Accounts /\ TRUE \in ToSet(batch'.done)
    BY <1>3, AnsweredBatch DEF Confirmed, SectionInv
  <2>2. /\ recorded' = [recorded EXCEPT ![Sender] = batch.ballot]
        /\ UNCHANGED <<loose, counts>>
    BY <1>3 DEF Confirmed, Record
  <2>3. recorded' \in [Accounts -> Votes \cup {NoBallot}]
    BY <2>1, <2>2 DEF SectionInv, SectionTypes, Batch, BatchOf
  <2> QED
    BY <1>1, <1>2, <2>1, <2>2, <2>3 DEF SectionInv, SectionTypes, NothingLoose, ViewIsCurrent,
                                        ClosedFormIsRead, Idle
<1>4. CASE Refused
  <2>1. /\ batch \in Batch /\ batch' \in Batch /\ batch' # None /\ batch # None
        /\ TRUE \in ToSet(batch'.done) <=> TRUE \in ToSet(batch.done)
    BY <1>4, AnsweredBatch DEF Refused, SectionInv, Sending
  <2>2. UNCHANGED <<recorded, loose, counts>>
    BY <1>4 DEF Refused, ledgerVars
  <2> QED
    BY <1>1, <1>2, <2>1, <2>2 DEF SectionInv, SectionTypes, NothingLoose, ViewIsCurrent,
                                  ClosedFormIsRead, Idle
<1>5. CASE StatusLost
  <2>1. /\ batch \in Batch /\ batch' \in Batch /\ Sender \in Accounts
    BY <1>5, AnsweredBatch DEF StatusLost, SectionInv
  <2>2. /\ loose' = loose \cup {[account |-> Sender, ballot |-> batch.ballot]}
        /\ recorded' = recorded
        /\ DOMAIN counts' = DOMAIN counts /\ counts'.lost = TRUE
    BY <1>5 DEF StatusLost, SectionInv, SectionTypes
  <2>3. \A t \in loose' : t.account \in Accounts /\ t.ballot \in Votes
    BY <2>1, <2>2 DEF SectionInv, SectionTypes, Batch, BatchOf
  <2> QED
    BY <1>1, <1>2, <2>1, <2>2, <2>3 DEF SectionInv, SectionTypes, NothingLoose, ViewIsCurrent,
                                        ClosedFormIsRead
<1>6. ASSUME NEW t \in loose, LooseLands(t, TRUE) PROVE SectionInv'
  <2>1. /\ recorded' = [recorded EXCEPT ![t.account] = t.ballot]
        /\ loose' = loose \ {t} /\ UNCHANGED <<batch, counts>>
    BY <1>6 DEF LooseLands, Record
  <2>2. recorded' \in [Accounts -> Votes \cup {NoBallot}]
    BY <2>1 DEF SectionInv, SectionTypes
  <2>3. counts.lost
    BY DEF SectionInv, NothingLoose
  <2> QED
    BY <1>1, <1>2, <2>1, <2>2, <2>3 DEF SectionInv, SectionTypes, NothingLoose, ViewIsCurrent,
                                        ClosedFormIsRead
<1>7. CASE Close
  <2>1. UNCHANGED <<recorded, loose, wallet, view, reading, batch, counts, selection, editing>>
    BY <1>1, <1>7 DEF Close
  <2>2. SectionTypes'
    BY <2>1 DEF SectionInv, SectionTypes
  <2>3. NothingLoose' /\ ViewIsCurrent'
    BY <2>1 DEF SectionInv, NothingLoose, ViewIsCurrent, Idle
  <2>4. ClosedFormIsRead'
    BY <1>2, <2>1 DEF SectionInv, ClosedFormIsRead
  <2> QED
    BY <2>2, <2>3, <2>4 DEF SectionInv
<1> QED
  BY <1>3, <1>4, <1>5, <1>6, <1>7 DEF ChainMoves

\* Every step keeps the invariant of the section.
LEMMA SectionStep ==
  ASSUME SectionInv, [SectionNext]_sectionVars
  PROVE  SectionInv'
<1>1. CASE UNCHANGED sectionVars
  <2>1. CurrentVote' = CurrentVote /\ HasVoted' = HasVoted
    BY <1>1, SameViewSameForm DEF sectionVars, walletVars
  <2> QED
    BY <1>1, <2>1 DEF sectionVars, walletVars, choiceVars, SectionInv, SectionTypes, NothingLoose,
                      ViewIsCurrent, ClosedFormIsRead, Idle
<1> QED
  BY <1>1, ChoiceKeepsSection, WalletKeepsSection, ChainKeepsSection DEF SectionNext

\* The invariant of the section holds when it opens.
LEMMA SectionStart ==
  ASSUME SectionInit
  PROVE  SectionInv
<1>1. /\ recorded \in [Accounts -> Ballots \cup {NoBallot}]
      /\ wallet = [connected |-> Accounts, selected |-> None]
      /\ reading = TRUE /\ loose = {} /\ view = <<>> /\ batch = None
      /\ counts = [batches |-> 0, switches |-> 0, lost |-> FALSE]
      /\ selection = {} /\ editing = FALSE
  BY DEF SectionInit, WalletInit
<1>2. DOMAIN view = {}
  BY <1>1
<1>3. ~HasVoted
  BY <1>2 DEF HasVoted, CurrentVote, Known
<1>4. recorded \in [Accounts -> Votes \cup {NoBallot}]
  BY <1>1, SectionAssumption DEF Votes
<1> QED
  BY <1>1, <1>2, <1>3, <1>4 DEF SectionInv, SectionTypes, NothingLoose, ViewIsCurrent,
                                ClosedFormIsRead, Votes

\* What the invariant says of a page on which nothing is under way.
LEMMA QuietSection ==
  ASSUME SectionInv
  PROVE  QuietPageIsCurrent /\ ClosedFormIsRecorded
<1>1. QuietPageIsCurrent
  BY DEF SectionInv, ViewIsCurrent, QuietPageIsCurrent
<1>2. ClosedFormIsRecorded
  <2> SUFFICES ASSUME Idle, ~reading, ~counts.lost, HasVoted, ~editing
               PROVE  selection = recorded[Current]
    BY DEF ClosedFormIsRecorded
  <2>1. Current \in DOMAIN view /\ selection = view[Current]
    BY VotesAreRead DEF SectionInv, ClosedFormIsRead
  <2>2. view = [a \in wallet.connected |-> recorded[a]]
    BY <2>1 DEF SectionInv, ViewIsCurrent
  <2> QED
    BY <2>1, <2>2
<1> QED
  BY <1>1, <1>2

\* On its page, or among the pages of the client, a voting section is current once nothing
\* is under way: it has read the ledger's votes, and its closed form shows them
\* (votesByAccountsAtom, VotingSection.tsx).
THEOREM SectionAlwaysCurrent == Spec => []SectionIsCurrent
<1> DEFINE Inv == scene = "section" => SectionInv
<1>1. MCInit => Inv
  BY SectionStart DEF MCInit
<1>2. Inv /\ [MCNext]_<<votingVars, consoleVars, editorVars, newFormVars, listVars, scene>> => Inv'
  <2> SUFFICES ASSUME Inv, scene' = "section",
                      [MCNext]_<<votingVars, consoleVars, editorVars, newFormVars, listVars, scene>>
               PROVE  SectionInv'
    OBVIOUS
  <2>1. scene = "section" /\ [SectionNext]_sectionVars
    BY DEF MCNext, votingVars, sectionVars
  <2> QED
    BY <2>1, SectionStep
<1>3. Inv => SectionIsCurrent
  BY QuietSection DEF SectionIsCurrent
<1> QED
  BY <1>1, <1>2, <1>3, PTL DEF Spec

\* A draft is the user's: no step of the wallet, of the ledger or of a read changes it
\* (the effect on currentVote of VotingSection.tsx).
THEOREM DraftIsAlwaysTheUsers == SectionSpec => DraftIsTheUsers
<1>1. [SectionNext]_sectionVars =>
        [(editing /\ editing' /\ walletVars' # walletVars) => selection' = selection]_sectionVars
  BY DEF SectionNext, sectionVars, choiceVars, Choose, ChangeVote, Cancel, VoteAllAccounts,
         SignTransaction, BatchDone, FormFollows, Following
<1> QED
  BY <1>1, PTL DEF SectionSpec, DraftIsTheUsers

-----------------------------------------------------------------------------
(* The election's page *)

\* What the collector may publish of an election; a page's copy is one of these.
Copies == {None, [round |-> 0, live |-> FALSE]} \cup [round : {1, 2}, live : BOOLEAN]
Recordable == RoundBallots \cup {NoBallot}

\* The types of an election's page.
PageTypes ==
  /\ round \in {1, 2} /\ open \in BOOLEAN
  /\ published \in Copies /\ shown \in Copies
  /\ recorded \in [Accounts -> Recordable] /\ former \in [Accounts -> Recordable]
  /\ DOMAIN view \subseteq Accounts /\ \A a \in DOMAIN view : view[a] \in Recordable
  /\ \A t \in loose : t.account \in Accounts /\ t.ballot \in RoundBallots
  /\ DOMAIN wallet = {"connected", "selected"} /\ wallet.connected \subseteq Accounts
  /\ batch # None => batch \in BatchOf(RoundBallots)
  /\ DOMAIN counts = {"batches", "switches", "lost"}
  /\ draft \in [DOMAIN draft -> Grades]

\* The rerun has vote stores of its own: a ballot tells by its round where it is.
RoundsApart ==
  \A a \in Accounts :
    /\ recorded[a] # NoBallot => recorded[a].round = round
    /\ former[a] # NoBallot => former[a].round = 1

\* A ballot that was read is on the ledger, or, once the rerun is open, was there when the
\* first round ended; but for those of the batch under way.
ViewIsOfLedger ==
  (Idle \/ TRUE \notin ToSet(batch.done)) /\ ~reading /\ ~counts.lost =>
    \A a \in DOMAIN view : view[a] # NoBallot =>
      view[a] = IF view[a].round < round THEN former[a] ELSE recorded[a]

PageInv == PageTypes /\ NothingLoose /\ RoundsApart /\ ViewIsOfLedger

\* A draft that follows its list consists of grades.
LEMMA FollowingDraftIsTyped ==
  ASSUME draft \in [DOMAIN draft -> Grades], NEW again \in BOOLEAN, DraftFollows(again),
         \A a \in DOMAIN view' : view'[a] \in Recordable
  PROVE  draft' \in [DOMAIN draft' -> Grades]
<1>1. CASE draft' = draft
  BY <1>1
<1>2. CASE draft' = InitialGrades'
  <2>1. CASE Initial'[1] = "entry"
    <3>1. Entry' # NoBallot /\ draft' = Entry'.grades
      BY <1>2, <2>1 DEF InitialGrades, Initial
    <3>2. Entry' \in RoundBallots
      BY <3>1 DEF Entry, Known, Recordable
    <3> QED
      BY <3>1, <3>2 DEF RoundBallots
  <2>2. CASE Initial'[1] # "entry"
    BY <1>2, <2>2 DEF InitialGrades
  <2> QED
    BY <2>1, <2>2
<1> QED
  BY <1>1, <1>2 DEF DraftFollows

\* A page is opened, for the first time or again, with the ballots of earlier visits.
LEMMA PageInvInit == PageInit => PageInv
<1> SUFFICES ASSUME PageInit PROVE PageInv
  OBVIOUS
<1>1. /\ round = 1 /\ open = TRUE /\ reading = TRUE /\ batch = None /\ loose = {}
      /\ former = [a \in Accounts |-> NoBallot]
      /\ wallet = [connected |-> Accounts, selected |-> None]
      /\ counts = [batches |-> 0, switches |-> 0, lost |-> FALSE]
  BY DEF PageInit, WalletInit
<1>2. recorded \in [Accounts -> [round : {1}, grades : [Candidates -> Grades]] \cup {NoBallot}]
  BY EarlierAssumption DEF PageInit, WalletInit
<1>3. view = <<>> /\ draft = <<>> /\ DOMAIN view = {} /\ draft \in [DOMAIN draft -> Grades]
  BY DEF PageInit, WalletInit
<1>4. published \in Copies /\ shown \in Copies
  <2>1. [round |-> 1, live |-> TRUE] \in [round : {1, 2}, live : BOOLEAN]
    OBVIOUS
  <2>2. published \in {None, [round |-> 0, live |-> FALSE], [round |-> 1, live |-> TRUE]}
    BY DEF PageInit
  <2>3. shown = None
    BY DEF PageInit
  <2> QED
    BY <2>1, <2>2, <2>3, Zenon DEF Copies
<1>5. recorded \in [Accounts -> Recordable] /\ former \in [Accounts -> Recordable]
  BY <1>1, <1>2 DEF Recordable, RoundBallots
<1>6. PageTypes
  BY <1>1, <1>3, <1>4, <1>5 DEF PageTypes
<1> QED
  BY <1>1, <1>2, <1>6 DEF PageInv, NothingLoose, RoundsApart, ViewIsOfLedger

\* Refreshes, the timer and the voter's choices concern the page alone.
LEMMA DisplayKeepsPage ==
  ASSUME PageInv, UNCHANGED <<walletVars, round, former>>,
         published' \in Copies, shown' \in Copies, draft' \in [DOMAIN draft' -> Grades]
  PROVE  PageInv'
  BY DEF PageInv, PageTypes, NothingLoose, RoundsApart, ViewIsOfLedger, walletVars, Idle

\* The steps of the page that leave the wallet and the ledger alone.
LEMMA QuietStepKeepsPage ==
  ASSUME PageInv,
         \/ UNCHANGED pageVars \/ Collect \/ RefreshAutomatically \/ CheckNow
         \/ RefreshAfterOperation \/ TimerFires \/ UseAllAccounts
         \/ \E c \in Candidates, g \in Grades : SelectGrade(c, g)
  PROVE  PageInv'
<1>1. draft \in [DOMAIN draft -> Grades] /\ \A a \in DOMAIN view : view[a] \in Recordable
  BY DEF PageInv, PageTypes
<1>2. CASE UNCHANGED pageVars
  BY <1>1, <1>2, DisplayKeepsPage DEF pageVars, electionVars, copyVars, formVars, PageInv, PageTypes
<1>3. CASE Collect
  <2>1. published' \in Copies
    BY <1>3 DEF Collect, Copies, PageInv, PageTypes
  <2> QED
    BY <1>1, <1>3, <2>1, DisplayKeepsPage DEF Collect, copyVars, formVars, PageInv, PageTypes
<1>4. CASE RefreshAutomatically \/ CheckNow \/ RefreshAfterOperation \/ TimerFires \/ UseAllAccounts
  <2>1. /\ UNCHANGED <<walletVars, electionVars>> /\ DraftFollows(FALSE)
        /\ shown' = shown \/ shown' = published
    BY <1>4 DEF RefreshAutomatically, CheckNow, RefreshAfterOperation, TimerFires, UseAllAccounts,
                Refreshed, copyVars
  <2>2. draft' \in [DOMAIN draft' -> Grades]
    BY <1>1, <2>1, FollowingDraftIsTyped DEF walletVars
  <2> QED
    BY <2>1, <2>2, DisplayKeepsPage DEF electionVars, PageInv, PageTypes
<1>5. ASSUME NEW c \in Candidates, NEW g \in Grades, SelectGrade(c, g)
      PROVE  PageInv'
  <2>1. draft' = [d \in DOMAIN draft \cup {c} |-> IF d = c THEN g ELSE draft[d]]
    BY <1>5 DEF SelectGrade
  <2>2. draft' \in [DOMAIN draft' -> Grades]
    BY <1>1, <2>1
  <2> QED
    BY <1>5, <2>2, DisplayKeepsPage DEF SelectGrade, electionVars, copyVars, PageInv, PageTypes
<1> QED
  BY <1>2, <1>3, <1>4, <1>5

\* In the rerun, what was read before is the first round's.
LEMMA RerunKeepsPage ==
  ASSUME PageInv, OpenRerun
  PROVE  PageInv'
<1>1. /\ round = 1 /\ round' = 2 /\ open' = TRUE /\ former' = recorded
      /\ recorded' = [a \in Accounts |-> NoBallot]
      /\ UNCHANGED <<loose, wallet, view, reading, batch, counts, published, shown, draft>>
  BY DEF OpenRerun, copyVars, formVars
<1>2. PageTypes'
  BY <1>1 DEF PageInv, PageTypes, Recordable
<1>3. RoundsApart' /\ NothingLoose'
  BY <1>1 DEF PageInv, PageTypes, RoundsApart, NothingLoose
<1>4. ViewIsOfLedger'
  <2> SUFFICES ASSUME ViewIsOfLedger, Idle \/ TRUE \notin ToSet(batch.done),
                      ~reading, ~counts.lost, NEW a \in DOMAIN view, view[a] # NoBallot
               PROVE  view[a] = IF view[a].round < 2 THEN recorded[a] ELSE NoBallot
    BY <1>1 DEF PageInv, ViewIsOfLedger, Idle
  <2>1. view[a].round \in {1, 2}
    BY DEF PageInv, PageTypes, Recordable, RoundBallots
  <2>2. view[a] = recorded[a]
    <3>1. view[a] = IF view[a].round < round THEN former[a] ELSE recorded[a]
      BY DEF ViewIsOfLedger
    <3> QED
      BY <1>1, <2>1, <3>1
  <2>3. view[a].round = 1
    BY <1>1, <2>2 DEF PageInv, PageTypes, RoundsApart
  <2> QED
    BY <2>2, <2>3
<1> QED
  BY <1>2, <1>3, <1>4 DEF PageInv

\* A ballot is submitted complete, in a round that was open.
LEMMA SubmitKeepsPage ==
  ASSUME PageInv, Submit
  PROVE  PageInv'
<1>1. /\ Idle /\ DOMAIN draft = Candidates /\ VotingOpen
      /\ batch' = [ballot |-> [round |-> shown.round, grades |-> draft],
                   todo |-> AccountsToVote(all), done |-> <<>>]
      /\ counts' = [counts EXCEPT !.batches = @ + 1]
      /\ UNCHANGED <<recorded, open, loose, wallet, view, reading, round, former, published,
                     shown, draft>>
  BY DEF Submit, SubmitBatch, ledgerVars, electionVars, copyVars, formVars
<1>2. shown.round \in {1, 2}
  BY <1>1 DEF VotingOpen, PageInv, PageTypes, Copies
<1>3. batch' \in BatchOf(RoundBallots)
  <2>1. [round |-> shown.round, grades |-> draft] \in RoundBallots
    BY <1>1, <1>2 DEF PageInv, PageTypes, RoundBallots
  <2>2. AccountsToVote(all) \subseteq Accounts
    BY VotersAreConnected DEF PageInv, PageTypes
  <2>3. <<>> \in Seq(BOOLEAN)
    OBVIOUS
  <2> QED
    BY <1>1, <2>1, <2>2, <2>3 DEF BatchOf
<1>4. PageTypes' /\ counts'.lost = counts.lost
  BY <1>1, <1>3 DEF PageInv, PageTypes
<1> QED
  BY <1>1, <1>4 DEF PageInv, NothingLoose, RoundsApart, ViewIsOfLedger, Idle

\* The end of a batch, reads, and changes of the accounts.
LEMMA WalletKeepsPage ==
  ASSUME PageInv, Finish \/ VotesRead \/ AccountsChange
  PROVE  PageInv'
<1>1. draft \in [DOMAIN draft -> Grades] /\ \A a \in DOMAIN view : view[a] \in Recordable
  BY DEF PageInv, PageTypes
<1>2. CASE Finish
  <2>1. /\ batch # None /\ batch' = None
        /\ reading' = (reading \/ RefreshAfter(batch.done))
        /\ UNCHANGED <<recorded, open, loose, wallet, view, counts, round, former, published>>
        /\ shown' = shown \/ shown' = published
        /\ DraftFollows(FALSE)
    BY <1>2 DEF Finish, BatchEnds, ledgerVars, electionVars, copyVars, Refreshed
  <2>2. draft' \in [DOMAIN draft' -> Grades]
    BY <1>1, <2>1, FollowingDraftIsTyped
  <2>3. PageTypes'
    BY <2>1, <2>2 DEF PageInv, PageTypes
  <2> QED
    BY <2>1, <2>3 DEF PageInv, NothingLoose, RoundsApart, ViewIsOfLedger, RefreshAfter, Idle
<1>3. CASE VotesRead
  <2>1. /\ UNCHANGED <<recorded, open, loose, wallet, batch, counts, round, former, published,
                       shown>>
        /\ \/ view' = [a \in wallet.connected |-> recorded[a]]
           \/ view' = <<>>
        /\ DraftFollows(TRUE)
    BY <1>3 DEF VotesRead, ReadAnswers, ReadFails, ledgerVars, electionVars, copyVars
  <2>2. CASE view' = <<>>
    <3>1. DOMAIN view' = {}
      BY <2>2
    <3>2. draft' \in [DOMAIN draft' -> Grades]
      BY <1>1, <2>1, <3>1, FollowingDraftIsTyped
    <3>3. PageTypes'
      BY <2>1, <3>1, <3>2 DEF PageInv, PageTypes
    <3> QED
      BY <2>1, <3>1, <3>3 DEF PageInv, NothingLoose, RoundsApart, ViewIsOfLedger
  <2>3. CASE view' = [a \in wallet.connected |-> recorded[a]]
    <3>1. \A a \in DOMAIN view' :
            a \in Accounts /\ view'[a] = recorded[a] /\ view'[a] \in Recordable
      BY <2>3 DEF PageInv, PageTypes
    <3>2. draft' \in [DOMAIN draft' -> Grades]
      BY <1>1, <2>1, <3>1, FollowingDraftIsTyped
    <3>3. PageTypes'
      BY <2>1, <3>1, <3>2 DEF PageInv, PageTypes
    <3>4. NothingLoose' /\ RoundsApart'
      BY <2>1 DEF PageInv, NothingLoose, RoundsApart
    <3>5. \A a \in DOMAIN view' : view'[a] # NoBallot => ~(view'[a].round < round)
      BY <3>1 DEF PageInv, PageTypes, RoundsApart
    <3>6. ViewIsOfLedger'
      BY <2>1, <3>1, <3>5 DEF ViewIsOfLedger
    <3> QED
      BY <3>3, <3>4, <3>6 DEF PageInv
  <2> QED
    BY <2>1, <2>2, <2>3
<1>4. CASE AccountsChange
  <2>1. /\ wallet'.connected \subseteq Accounts /\ DOMAIN wallet' = DOMAIN wallet
        /\ reading' \/ reading' = reading
        /\ DOMAIN counts' = DOMAIN counts /\ counts'.lost = counts.lost
        /\ UNCHANGED <<recorded, open, loose, view, batch, round, former, published, shown>>
        /\ DraftFollows(FALSE)
    BY <1>4 DEF AccountsChange, Connect, SwitchAccount, Switched, ledgerVars, electionVars,
                copyVars, PageInv, PageTypes
  <2>2. draft' \in [DOMAIN draft' -> Grades]
    BY <1>1, <2>1, FollowingDraftIsTyped
  <2>3. PageTypes'
    BY <2>1, <2>2 DEF PageInv, PageTypes
  <2>4. NothingLoose' /\ RoundsApart'
    BY <2>1 DEF PageInv, NothingLoose, RoundsApart
  <2>5. CASE reading'
    BY <2>3, <2>4, <2>5 DEF PageInv, ViewIsOfLedger
  <2>6. CASE reading' = reading
    BY <2>1, <2>3, <2>4, <2>6 DEF PageInv, ViewIsOfLedger, Idle
  <2> QED
    BY <2>1, <2>5, <2>6
<1> QED
  BY <1>2, <1>3, <1>4

\* A ballot reaches the ledger in the round it names; the batch, or the lost status, tells
\* that the page may not have read it.
LEMMA LedgerKeepsPage ==
  ASSUME PageInv, Transacts
  PROVE  PageInv'
<1>1. UNCHANGED <<wallet, view, reading, round, former, published, shown, draft>>
  BY DEF Transacts, Confirmed, Refused, StatusLost, Close, LooseLands, electionVars, copyVars,
         formVars
<1>2. ASSUME Sending, NEW success \in BOOLEAN, Answered(success)
      PROVE  /\ batch \in BatchOf(RoundBallots) /\ batch' \in BatchOf(RoundBallots)
             /\ batch # None /\ batch' # None /\ Sender \in Accounts
             /\ TRUE \in ToSet(batch'.done) <=> success \/ TRUE \in ToSet(batch.done)
  <2>1. batch # None /\ batch \in BatchOf(RoundBallots) /\ batch.todo # {}
    BY <1>2 DEF Sending, PageInv, PageTypes
  <2>2. /\ batch' \in BatchOf(RoundBallots) /\ Sender \in Accounts
        /\ TRUE \in ToSet(batch'.done) <=> success \/ TRUE \in ToSet(batch.done)
    BY <1>2, <2>1, AnswerLengthens
  <2> QED
    BY <2>1, <2>2, PageAssumption DEF BatchOf
<1>3. CASE Sending /\ Confirmed(InRound(batch.ballot))
  <2>1. /\ batch \in BatchOf(RoundBallots) /\ batch' \in BatchOf(RoundBallots)
        /\ batch' # None /\ Sender \in Accounts /\ TRUE \in ToSet(batch'.done)
    BY <1>2, <1>3 DEF Confirmed
  <2>2. /\ recorded' = [recorded EXCEPT ![Sender] = batch.ballot]
        /\ batch.ballot.round = round /\ UNCHANGED <<open, loose, counts>>
    BY <1>3 DEF Confirmed, Record, InRound
  <2>3. batch.ballot \in RoundBallots
    BY <2>1 DEF BatchOf
  <2>4. PageTypes'
    BY <1>1, <2>1, <2>2, <2>3 DEF PageInv, PageTypes, Recordable
  <2>5. RoundsApart' /\ NothingLoose'
    BY <1>1, <2>2 DEF PageInv, PageTypes, RoundsApart, NothingLoose
  <2>6. ViewIsOfLedger'
    BY <2>1 DEF ViewIsOfLedger, Idle
  <2> QED
    BY <2>4, <2>5, <2>6 DEF PageInv
<1>4. CASE Refused
  <2>1. /\ batch \in BatchOf(RoundBallots) /\ batch' \in BatchOf(RoundBallots)
        /\ batch' # None /\ batch # None
        /\ TRUE \in ToSet(batch'.done) => TRUE \in ToSet(batch.done)
        /\ TRUE \in ToSet(batch.done) => TRUE \in ToSet(batch'.done)
        /\ UNCHANGED <<recorded, open, loose, counts>>
    BY <1>2, <1>4 DEF Refused, ledgerVars
  <2>2. PageTypes'
    BY <1>1, <2>1 DEF PageInv, PageTypes
  <2> QED
    BY <1>1, <2>1, <2>2 DEF PageInv, NothingLoose, RoundsApart, ViewIsOfLedger, Idle
<1>5. CASE StatusLost
  <2>1. /\ batch \in BatchOf(RoundBallots) /\ batch' \in BatchOf(RoundBallots)
        /\ Sender \in Accounts
    BY <1>2, <1>5 DEF StatusLost
  <2>2. /\ loose' = loose \cup {[account |-> Sender, ballot |-> batch.ballot]}
        /\ counts' = [counts EXCEPT !.lost = TRUE] /\ UNCHANGED <<recorded, open>>
    BY <1>5 DEF StatusLost
  <2>3. PageTypes' /\ counts'.lost
    BY <1>1, <2>1, <2>2 DEF PageInv, PageTypes, BatchOf
  <2> QED
    BY <1>1, <2>2, <2>3 DEF PageInv, NothingLoose, RoundsApart, ViewIsOfLedger
<1>6. CASE Close
  <2>1. UNCHANGED <<recorded, loose, batch, counts>> /\ open' = FALSE
    BY <1>6 DEF Close
  <2> QED
    BY <1>1, <2>1 DEF PageInv, PageTypes, NothingLoose, RoundsApart, ViewIsOfLedger, Idle
<1>7. ASSUME NEW t \in loose, LooseLands(t, InRound(t.ballot)) PROVE PageInv'
  <2>1. /\ recorded' = [recorded EXCEPT ![t.account] = t.ballot] /\ loose' = loose \ {t}
        /\ t.ballot.round = round /\ t.account \in Accounts /\ t.ballot \in RoundBallots
        /\ UNCHANGED <<open, batch, counts>>
    BY <1>7 DEF LooseLands, Record, InRound, PageInv, PageTypes
  <2>2. PageTypes'
    BY <1>1, <2>1 DEF PageInv, PageTypes, Recordable
  <2>3. counts.lost
    BY DEF PageInv, NothingLoose
  <2>4. RoundsApart'
    BY <1>1, <2>1 DEF PageInv, PageTypes, RoundsApart
  <2> QED
    BY <2>1, <2>2, <2>3, <2>4 DEF PageInv, NothingLoose, ViewIsOfLedger
<1> QED
  BY <1>3, <1>4, <1>5, <1>6, <1>7 DEF Transacts

\* A visit has read nothing yet.
LEMMA VisitKeepsPage ==
  ASSUME PageInv, Visit
  PROVE  PageInv'
<1>1. /\ batch' = None /\ view' = <<>> /\ reading' = TRUE /\ draft' = <<>> /\ shown' = published
      /\ UNCHANGED <<recorded, open, wallet, round, former, published>>
      /\ \/ UNCHANGED <<loose, counts>>
         \/ /\ Sending
            /\ loose' = loose \cup {[account |-> Sender, ballot |-> batch.ballot]}
            /\ counts' = [counts EXCEPT !.lost = TRUE]
  BY DEF Visit, Leave, electionVars
<1>2. DOMAIN view' = {} /\ draft' \in [DOMAIN draft' -> Grades]
  BY <1>1
<1>3. Sending => Sender \in Accounts /\ batch.ballot \in RoundBallots
  <2> SUFFICES ASSUME Sending PROVE Sender \in Accounts /\ batch.ballot \in RoundBallots
    OBVIOUS
  <2>1. batch \in BatchOf(RoundBallots) /\ batch.todo # {}
    BY DEF Sending, PageInv, PageTypes
  <2> QED
    BY <2>1, FirstIsOne DEF Sender, BatchOf
<1>4. PageTypes' /\ NothingLoose'
  BY <1>1, <1>2, <1>3 DEF PageInv, PageTypes, NothingLoose
<1> QED
  BY <1>1, <1>4 DEF PageInv, RoundsApart, ViewIsOfLedger

\* What an election's page has read is the ledger's, of one round or the other.
LEMMA PageStepKeepsPage ==
  ASSUME PageInv, [PageNext]_pageVars
  PROVE  PageInv'
  BY QuietStepKeepsPage, RerunKeepsPage, SubmitKeepsPage, WalletKeepsPage, LedgerKeepsPage,
     VisitKeepsPage DEF PageNext

\* A grade that is not picked is the one of the entry the page has read.
UnpickedAreEntrys ==
  \A c \in DOMAIN draft \ picked :
    /\ ~Mixed
    /\ Entry # NoBallot
    /\ draft[c] = Entry.grades[c]

\* What the ballot starts from depends on the accounts and on the votes read, and on
\* whether all accounts vote: on nothing else.
LEMMA SameVotesSameStart ==
  ASSUME UNCHANGED <<wallet, view, all>>
  PROVE  Mixed' = Mixed /\ Entry' = Entry /\ Initial' = Initial
  BY DEF Mixed, Entries, Entry, Current, Initial

\* The list a ballot starts from tells the three cases apart.
LEMMA InitialTells ==
  /\ Initial[1] = "entry" <=> ~Mixed /\ Entry # NoBallot
  /\ Initial[1] = "entry" => Initial[2] = Current
  BY DEF Initial

\* A draft that follows its list stays the entry's where it is not picked.
LEMMA FollowingDraft ==
  ASSUME UnpickedAreEntrys, NEW again \in BOOLEAN, DraftFollows(again),
         again \/ view' = view
  PROVE  UnpickedAreEntrys'
<1>1. /\ Initial'[1] = "entry" <=> ~Mixed' /\ Entry' # NoBallot
      /\ Initial'[1] = "entry" => Initial'[2] = Current'
  BY DEF Initial
<1>2. CASE UNCHANGED <<draft, picked>> /\ Initial' = Initial /\ ~(again /\ Initial'[1] = "entry")
  <2> SUFFICES ASSUME NEW c \in DOMAIN draft \ picked
               PROVE  ~Mixed' /\ Entry' # NoBallot /\ draft[c] = Entry'.grades[c]
    BY <1>2 DEF UnpickedAreEntrys
  <2>1. ~Mixed /\ Entry # NoBallot /\ draft[c] = Entry.grades[c]
    BY DEF UnpickedAreEntrys
  <2>2. Initial[1] = "entry" /\ Initial[2] = Current
    BY <2>1, InitialTells
  <2>3. ~again /\ view' = view /\ Current' = Current
    BY <1>1, <1>2, <2>2
  <2>4. Entry' = Entry
    BY <2>3 DEF Entry
  <2> QED
    BY <1>1, <1>2, <2>1, <2>2, <2>4
<1>3. CASE draft' = InitialGrades' /\ picked' = {}
  <2>1. CASE Initial'[1] = "entry"
    <3>1. draft' = Entry'.grades
      BY <1>3, <2>1 DEF InitialGrades
    <3> QED
      BY <1>1, <2>1, <3>1 DEF UnpickedAreEntrys
  <2>2. CASE Initial'[1] # "entry"
    <3>1. draft' = <<>>
      BY <1>3, <2>2 DEF InitialGrades
    <3>2. DOMAIN draft' = {}
      BY <3>1
    <3> QED
      BY <3>2 DEF UnpickedAreEntrys
  <2> QED
    BY <2>1, <2>2
<1> QED
  BY <1>2, <1>3 DEF DraftFollows

\* A step that leaves the draft, the accounts and the votes read alone.
LEMMA OtherStepsKeepDraft ==
  ASSUME UnpickedAreEntrys, UNCHANGED <<wallet, view, all, draft, picked>>
  PROVE  UnpickedAreEntrys'
  BY SameVotesSameStart DEF UnpickedAreEntrys

\* Every step of the page keeps the draft the entry's where it is not picked.
LEMMA PageStepKeepsDraft ==
  ASSUME UnpickedAreEntrys, [PageNext]_pageVars
  PROVE  UnpickedAreEntrys'
<1>1. CASE UNCHANGED pageVars
  BY <1>1, OtherStepsKeepDraft DEF pageVars, walletVars, formVars
<1>2. CASE OpenRerun \/ Collect \/ Submit
  BY <1>2, OtherStepsKeepDraft DEF OpenRerun, Collect, Submit, SubmitBatch, walletVars, formVars
<1>3. CASE Transacts
  <2>1. UNCHANGED <<wallet, view, formVars>>
    BY <1>3 DEF Transacts, Confirmed, Refused, StatusLost, Close, LooseLands
  <2> QED
    BY <2>1, OtherStepsKeepDraft DEF formVars
<1>4. CASE RefreshAutomatically \/ CheckNow \/ RefreshAfterOperation \/ TimerFires \/ UseAllAccounts
  <2>1. DraftFollows(FALSE) /\ view' = view
    BY <1>4 DEF RefreshAutomatically, CheckNow, RefreshAfterOperation, TimerFires, UseAllAccounts,
                walletVars
  <2> QED
    BY <2>1, FollowingDraft
<1>5. CASE Finish \/ AccountsChange
  <2>1. DraftFollows(FALSE) /\ view' = view
    BY <1>5 DEF Finish, BatchEnds, AccountsChange, Connect, SwitchAccount
  <2> QED
    BY <2>1, FollowingDraft
<1>6. CASE VotesRead
  <2>1. DraftFollows(TRUE)
    BY <1>6 DEF VotesRead
  <2> QED
    BY <2>1, FollowingDraft
<1>7. ASSUME NEW c \in Candidates, NEW g \in Grades, SelectGrade(c, g)
      PROVE  UnpickedAreEntrys'
  <2>1. /\ draft' = [d \in DOMAIN draft \cup {c} |-> IF d = c THEN g ELSE draft[d]]
        /\ picked' = picked \cup {c} /\ UNCHANGED <<wallet, view, all>>
    BY <1>7 DEF SelectGrade, walletVars
  <2>2. Mixed' = Mixed /\ Entry' = Entry
    BY <2>1, SameVotesSameStart
  <2> QED
    BY <2>1, <2>2 DEF UnpickedAreEntrys
<1>8. CASE Visit
  <2>1. draft' = <<>>
    BY <1>8 DEF Visit
  <2>2. DOMAIN draft' = {}
    BY <2>1
  <2> QED
    BY <2>2 DEF UnpickedAreEntrys
<1> QED
  BY <1>1, <1>2, <1>3, <1>4, <1>5, <1>6, <1>7, <1>8 DEF PageNext

\* Whatever is read, refreshed, switched, submitted or visited in between, a grade on a quiet
\* page that the voter has not picked is the one the ledger holds; the first round's, where
\* the votes were not read since the rerun opened (MajorityJudgmentElectionView.tsx).
THEOREM UnpickedAlwaysRecorded == PageSpec => []UnpickedAreRecorded
<1>1. PageInit => UnpickedAreEntrys
  <2> SUFFICES ASSUME PageInit PROVE UnpickedAreEntrys
    OBVIOUS
  <2>1. draft = <<>>
    BY DEF PageInit
  <2>2. DOMAIN draft = {}
    BY <2>1
  <2> QED
    BY <2>2 DEF UnpickedAreEntrys
<1>2. UnpickedAreEntrys /\ [PageNext]_pageVars => UnpickedAreEntrys'
  BY PageStepKeepsDraft
<1>3. PageInit => PageInv
  BY PageInvInit
<1>4. PageInv /\ [PageNext]_pageVars => PageInv'
  BY PageStepKeepsPage
<1>5. PageInv /\ UnpickedAreEntrys => UnpickedAreRecorded
  <2> SUFFICES ASSUME PageInv, UnpickedAreEntrys, NEW c \in DOMAIN draft \ picked,
                      Idle, ~reading, ~counts.lost
               PROVE  /\ Current # None
                      /\ RerunUnread =>
                           former[Current] # NoBallot /\ draft[c] = former[Current].grades[c]
                      /\ ~RerunUnread =>
                           recorded[Current] # NoBallot /\ draft[c] = recorded[Current].grades[c]
    BY DEF UnpickedAreRecorded, UnpickedAreEntrys
  <2>1. Entry # NoBallot /\ draft[c] = Entry.grades[c]
    BY DEF UnpickedAreEntrys
  <2>2. Current # None /\ Current \in DOMAIN view /\ Entry = view[Current]
    BY <2>1 DEF Entry, Known
  <2>3. Entry = IF Entry.round < round THEN former[Current] ELSE recorded[Current]
    BY <2>1, <2>2 DEF PageInv, ViewIsOfLedger
  <2> QED
    BY <2>1, <2>2, <2>3 DEF RerunUnread
<1> QED
  BY <1>1, <1>2, <1>3, <1>4, <1>5, PTL DEF PageSpec

\* A refresh of the election, by itself, by hand or by the timer, leaves the grades drafted
\* so far in place; only a new visit starts anew (MajorityJudgmentElectionView.tsx).
THEOREM DraftsSurviveRefreshes == PageSpec => DraftSurvivesRefresh
<1>1. ASSUME [PageNext]_pageVars, copyVars' # copyVars, Idle, ~Visit
      PROVE  draft' = draft
  <2>1. RefreshAutomatically \/ CheckNow \/ RefreshAfterOperation \/ TimerFires
    BY <1>1 DEF PageNext, pageVars, Idle, OpenRerun, Collect, SelectGrade, UseAllAccounts, Submit,
                Finish, BatchEnds, VotesRead, AccountsChange, Transacts
  <2>2. DraftFollows(FALSE) /\ UNCHANGED <<wallet, view, all>>
    BY <2>1 DEF RefreshAutomatically, CheckNow, RefreshAfterOperation, TimerFires, walletVars
  <2> QED
    BY <2>2, SameVotesSameStart DEF DraftFollows
<1>2. [PageNext]_pageVars => [(copyVars' # copyVars /\ Idle /\ ~Visit) => draft' = draft]_pageVars
  BY <1>1
<1> QED
  BY <1>2, PTL DEF PageSpec, DraftSurvivesRefresh

-----------------------------------------------------------------------------
(* The operators' console *)

\* The gate has been passed: grading may open, has opened or is over.
GatePassed == collector.status \notin {"TC_LIVE", "TC_FAILED"}

\* An order to record for a tie, on a page or in a transaction: until a tie is recorded, the
\* collector waits for one, for the last round.
TieFits(tie) ==
  /\ tie.order \in Seq(Nat) /\ ToSet(tie.order) = ToSet(TieGroup)
  /\ ledger.tie = None => collector.status = "TIE_UNRESOLVED" /\ tie.round = ledger.round

RequestFits(r) ==
  /\ r.method \in {"outcome", "proposal", "roundOne", "rerun", "tie"}
  /\ r.method = "roundOne" => GatePassed
  /\ r.method = "rerun" =>
       \/ ledger.round = 2
       \/ ledger.round = 1 /\ collector.status = "ROUND_1_FAILED"
  /\ r.method = "tie" => TieFits(r)

\* The fields of the records.
ConsoleFields ==
  /\ DOMAIN ledger = {"votes", "closed", "outcome", "proposals", "round", "ended", "tie"}
  /\ DOMAIN collector = {"cached", "counted", "status", "round", "outcome"}
  /\ DOMAIN page = Operators /\ DOMAIN request = Operators
  /\ \A o \in Operators :
       DOMAIN page[o] = {"outcome", "proposals", "counted", "status", "round", "order"}

\* How far the collector has come with the rounds of the ledger.
RoundsKnown ==
  /\ ledger.round \in 0 .. 2
  /\ collector.status \in {"TC_LIVE", "TC_FAILED"} => ledger.round = 0
  /\ collector.status = "MJ_PENDING" => ledger.round \in {0, 1}
  /\ collector.status = "LIVE" => ledger.round = 1 /\ collector.round = 1
  /\ collector.status = "ROUND_1_FAILED" => ledger.round \in {1, 2}
  /\ collector.status \in {"RERUN_LIVE", "FAILED"} => ledger.round = 2 /\ collector.round = 2
  /\ collector.status = "TIE_UNRESOLVED" =>
       ledger.round \in {1, 2} /\ collector.round = ledger.round
  /\ collector.status = "FINAL" => ledger.round \in {1, 2}
  /\ collector.status \in {"TC_LIVE", "TC_FAILED", "MJ_PENDING", "LIVE", "ROUND_1_FAILED",
                           "RERUN_LIVE", "FAILED", "TIE_UNRESOLVED", "FINAL"}

\* The inductive invariant of the console: what the pages show and the transactions ask for
\* may be old, but not older than the contract's own conditions let pass.
ConsoleInv ==
  /\ ConsoleFields
  /\ RoundsKnown
  /\ GatePassed => ledger.closed /\ Weighted[ledger.votes + 1]
  /\ \A o \in Operators :
       /\ page[o].order \in Seq(Nat)
       /\ page[o].status = "TIE_UNRESOLVED" /\ page[o].order # <<>> => TieFits(page[o])
       /\ request[o] # None => RequestFits(request[o])

\* Exchanging two neighbours leaves an order of the same candidates.
LEMMA SwapKeepsCandidates ==
  ASSUME NEW s \in Seq(Nat), NEW i \in 1 .. Len(s) - 1
  PROVE  LET t == [s EXCEPT ![i] = s[i + 1], ![i + 1] = s[i]]
         IN  t \in Seq(Nat) /\ ToSet(t) = ToSet(s)
<1> DEFINE t == [s EXCEPT ![i] = s[i + 1], ![i + 1] = s[i]]
<1>1. /\ Len(s) \in Nat /\ DOMAIN s = 1 .. Len(s) /\ i \in DOMAIN s /\ i + 1 \in DOMAIN s
      /\ \A j \in DOMAIN s : s[j] \in Nat
  OBVIOUS
<1>2. /\ DOMAIN t = DOMAIN s /\ t[i] = s[i + 1] /\ t[i + 1] = s[i]
      /\ \A j \in DOMAIN s \ {i, i + 1} : t[j] = s[j]
  BY <1>1
<1>3. t \in Seq(Nat)
  <2>1. t \in [1 .. Len(s) -> Nat]
    BY <1>1
  <2> QED
    BY <1>1, <2>1
<1> HIDE DEF t
<1>4. ToSet(t) = ToSet(s)
  <2>1. ASSUME NEW j \in DOMAIN s PROVE \E k \in DOMAIN s : t[k] = s[j]
    <3>1. CASE j \notin {i, i + 1}
      BY <1>2, <3>1
    <3>2. CASE j = i
      BY <1>1, <1>2, <3>2
    <3>3. CASE j = i + 1
      BY <1>1, <1>2, <3>3
    <3> QED
      BY <3>1, <3>2, <3>3
  <2>2. ASSUME NEW j \in DOMAIN s PROVE \E k \in DOMAIN s : s[k] = t[j]
    <3>1. CASE j \notin {i, i + 1}
      BY <1>2, <3>1
    <3>2. CASE j = i
      BY <1>1, <1>2, <3>2
    <3>3. CASE j = i + 1
      BY <1>1, <1>2, <3>3
    <3> QED
      BY <3>1, <3>2, <3>3
  <2>3. ToSet(t) \subseteq ToSet(s)
    BY <1>2, <2>2 DEF ToSet
  <2>4. ToSet(s) \subseteq ToSet(t)
    BY <1>2, <2>1 DEF ToSet
  <2> QED
    BY <2>3, <2>4
<1> QED
  BY <1>3, <1>4 DEF t

\* What a page or a transaction has for a tie stays in place while the collector and the
\* ledger go on, unless a tie is recorded.
LEMMA TieFitsStays ==
  ASSUME NEW tie, TieFits(tie),
         \/ ledger'.tie # None
         \/ /\ ledger'.tie = ledger.tie /\ ledger'.round = ledger.round
            /\ collector.status = "TIE_UNRESOLVED" => collector'.status = "TIE_UNRESOLVED"
  PROVE  TieFits(tie)'
  BY DEF TieFits

\* The collector and the ledger go on; the pages stay as they are.
LEMMA WorldKeepsConsole ==
  ASSUME ConsoleInv, World
  PROVE  ConsoleInv'
<1>1. UNCHANGED <<page, request>>
  BY DEF World, CastVote, DeadlinePasses, Count, ProjectOutcome, ResolveGate, FollowRound
<1>2. /\ ledger'.tie = ledger.tie /\ ledger'.round = ledger.round
      /\ DOMAIN ledger' = DOMAIN ledger /\ DOMAIN collector' = DOMAIN collector
  <2>1. CASE CastVote \/ DeadlinePasses
    BY <2>1 DEF CastVote, DeadlinePasses, ConsoleInv, ConsoleFields
  <2>2. CASE Count \/ ProjectOutcome \/ ResolveGate
    BY <2>2 DEF Count, ProjectOutcome, ResolveGate, Settle, ConsoleInv, ConsoleFields
  <2>3. CASE FollowRound
    BY <2>3 DEF FollowRound, Settle, Project, ConsoleInv, ConsoleFields
  <2> QED
    BY <2>1, <2>2, <2>3 DEF World
<1>3. /\ GatePassed => GatePassed'
      /\ ledger.round = 1 /\ collector.status = "ROUND_1_FAILED"
           => collector'.status = "ROUND_1_FAILED"
      /\ ledger.tie = None /\ collector.status = "TIE_UNRESOLVED"
           => collector'.status = "TIE_UNRESOLVED"
  <2>1. CASE CastVote \/ DeadlinePasses \/ Count \/ ProjectOutcome
    <3>1. collector'.status = collector.status
      BY <2>1 DEF CastVote, DeadlinePasses, Count, ProjectOutcome, ConsoleInv, ConsoleFields
    <3> QED
      BY <3>1 DEF GatePassed
  <2>2. CASE ResolveGate
    BY <2>2 DEF ResolveGate, Settle, ConsoleInv, ConsoleFields, GatePassed
  <2>3. CASE FollowRound
    <3>1. /\ collector'.status \notin {"TC_LIVE", "TC_FAILED"}
          /\ \/ collector.status = "MJ_PENDING"
             \/ collector.status = "ROUND_1_FAILED" /\ ledger.round = 2
             \/ collector.status = Open(ledger.round)
             \/ collector.status = "TIE_UNRESOLVED" /\ ledger.tie # None
      BY <2>3 DEF FollowRound, Settle, Project, ConsoleInv, ConsoleFields, Verdicts
    <3> QED
      BY <3>1 DEF GatePassed, Open
  <2> QED
    BY <2>1, <2>2, <2>3 DEF World
<1>4. GatePassed' => ledger'.closed /\ Weighted[ledger'.votes + 1]
  BY DEF World, CastVote, DeadlinePasses, Count, ProjectOutcome, ResolveGate, FollowRound,
         Settle, Project, ConsoleInv, ConsoleFields, GatePassed, Open, Verdicts
<1>5. RoundsKnown'
  <2>1. CASE CastVote \/ DeadlinePasses \/ Count \/ ProjectOutcome
    <3>1. collector'.status = collector.status /\ collector'.round = collector.round
      BY <2>1 DEF CastVote, DeadlinePasses, Count, ProjectOutcome, ConsoleInv, ConsoleFields
    <3> QED
      BY <1>2, <3>1 DEF ConsoleInv, RoundsKnown
  <2>2. CASE ResolveGate
    <3>1. /\ collector'.status \in {"MJ_PENDING", "TC_FAILED"}
          /\ collector.status = "TC_LIVE"
      BY <2>2 DEF ResolveGate, Settle, ConsoleInv, ConsoleFields
    <3> QED
      BY <1>2, <3>1 DEF ConsoleInv, RoundsKnown
  <2>3. CASE FollowRound
    <3>1. \/ /\ ledger.round = 1 /\ collector'.status = "LIVE" /\ collector'.round = 1
          \/ /\ ledger.round = 2 /\ collector'.status = "RERUN_LIVE" /\ collector'.round = 2
          \/ /\ ledger.round > 0 /\ collector.status = Open(ledger.round)
             /\ collector'.status \in Verdicts(ledger.round)
             /\ collector'.round = collector.round
          \/ /\ collector.status = "TIE_UNRESOLVED" /\ collector'.status = "FINAL"
      BY <2>3 DEF FollowRound, Settle, Project, ConsoleInv, ConsoleFields
    <3> QED
      BY <1>2, <3>1 DEF ConsoleInv, RoundsKnown, Open, Verdicts
  <2> QED
    BY <2>1, <2>2, <2>3 DEF World
<1>6. ASSUME NEW tie, TieFits(tie) PROVE TieFits(tie)'
  BY <1>2, <1>3, <1>6 DEF TieFits
<1>7. ASSUME NEW r, RequestFits(r) PROVE RequestFits(r)'
  BY <1>2, <1>3, <1>6, <1>7 DEF RequestFits
<1> QED
  BY <1>1, <1>2, <1>4, <1>5, <1>6, <1>7 DEF ConsoleInv, ConsoleFields

\* An operator's page changes, and nothing else.
LEMMA PageKeepsConsole ==
  ASSUME ConsoleInv, NEW o \in Operators, NEW fresh, Copy(o, fresh),
         UNCHANGED <<ledger, collector, request>>,
         DOMAIN fresh = DOMAIN page[o], fresh.order \in Seq(Nat),
         fresh.status = "TIE_UNRESOLVED" /\ fresh.order # <<>> => TieFits(fresh)
  PROVE  ConsoleInv'
<1>1. /\ DOMAIN page' = Operators /\ page'[o] = fresh
      /\ \A p \in Operators \ {o} : page'[p] = page[p]
  BY DEF Copy, ConsoleInv, ConsoleFields
<1>2. /\ ConsoleFields' /\ RoundsKnown'
      /\ GatePassed' => ledger'.closed /\ Weighted[ledger'.votes + 1]
  BY <1>1 DEF ConsoleInv, ConsoleFields, RoundsKnown, GatePassed
<1>3. ASSUME NEW tie, TieFits(tie) PROVE TieFits(tie)'
  BY <1>3 DEF TieFits
<1>4. ASSUME NEW r, RequestFits(r) PROVE RequestFits(r)'
  BY <1>3, <1>4 DEF RequestFits, GatePassed
<1> QED
  BY <1>1, <1>2, <1>3, <1>4 DEF ConsoleInv

\* An operator asks for a transaction, or it comes to nothing.
LEMMA RequestKeepsConsole ==
  ASSUME ConsoleInv, NEW o \in Operators, NEW wanted, request' = [request EXCEPT ![o] = wanted],
         UNCHANGED <<ledger, collector, page>>, wanted # None => RequestFits(wanted)
  PROVE  ConsoleInv'
<1>1. /\ DOMAIN request' = Operators /\ request'[o] = wanted
      /\ \A p \in Operators \ {o} : request'[p] = request[p]
  BY DEF ConsoleInv, ConsoleFields
<1>2. /\ ConsoleFields' /\ RoundsKnown'
      /\ GatePassed' => ledger'.closed /\ Weighted[ledger'.votes + 1]
  BY <1>1 DEF ConsoleInv, ConsoleFields, RoundsKnown, GatePassed
<1>3. ASSUME NEW tie, TieFits(tie) PROVE TieFits(tie)'
  BY <1>3 DEF TieFits
<1>4. ASSUME NEW r, RequestFits(r) PROVE RequestFits(r)'
  BY <1>3, <1>4 DEF RequestFits, GatePassed
<1> QED
  BY <1>1, <1>2, <1>3, <1>4 DEF ConsoleInv

\* A page that is read shows the order of a tie only while the collector waits for one.
LEMMA FreshCopy ==
  ASSUME ConsoleInv, NEW o \in Operators, NEW l, NEW fresh, fresh = Fresh(page[o], l)
  PROVE  /\ DOMAIN fresh = DOMAIN page[o] /\ fresh.order \in Seq(Nat)
         /\ fresh.status = "TIE_UNRESOLVED" /\ fresh.order # <<>> => TieFits(fresh)
<1>1. /\ DOMAIN page[o] = {"outcome", "proposals", "counted", "status", "round", "order"}
      /\ page[o].order \in Seq(Nat)
      /\ page[o].status = "TIE_UNRESOLVED" /\ page[o].order # <<>> => TieFits(page[o])
      /\ collector.status = "TIE_UNRESOLVED" => collector.round = ledger.round
  BY DEF ConsoleInv, ConsoleFields, RoundsKnown
<1>2. CASE kind = "Election"
  <2>1. /\ DOMAIN fresh = DOMAIN page[o] /\ fresh.status = collector.status
        /\ fresh.round = collector.round
        /\ fresh.order = IF collector.status = "TIE_UNRESOLVED" THEN TieGroup ELSE <<>>
    BY <1>1, <1>2 DEF Fresh
  <2> QED
    BY <1>1, <2>1, TieGroupAssumption DEF TieFits
<1>3. CASE kind # "Election"
  <2>1. /\ DOMAIN fresh = DOMAIN page[o] /\ fresh.status = page[o].status
        /\ fresh.round = page[o].round /\ fresh.order = page[o].order
    BY <1>1, <1>3 DEF Fresh
  <2> QED
    BY <1>1, <2>1 DEF TieFits
<1> QED
  BY <1>2, <1>3

\* A transaction is executed or refused by the contract.
LEMMA ExecutedKeepsConsole ==
  ASSUME ConsoleInv, NEW o \in Operators, Executed(o)
  PROVE  ConsoleInv'
<1> DEFINE wanted == request[o]
<1>1. wanted # None /\ RequestFits(wanted) /\ collector' = collector
      /\ request' = [request EXCEPT ![o] = None]
  BY DEF Executed, ConsoleInv
<1>2. CASE ~Accepted(wanted)
  <2>1. UNCHANGED <<ledger, collector, page>>
    BY <1>1, <1>2 DEF Executed
  <2> QED
    BY <1>1, <2>1, RequestKeepsConsole
<1>3. CASE Accepted(wanted)
  <2>1. ledger' = After(wanted) /\ Copy(o, Fresh(page[o], ledger'))
    BY <1>3 DEF Executed
  <2> HIDE DEF wanted
  <2>2. DOMAIN ledger = {"votes", "closed", "outcome", "proposals", "round", "ended", "tie"}
    BY DEF ConsoleInv, ConsoleFields
  <2>3. wanted.method \in {"outcome", "proposal", "roundOne", "rerun", "tie"}
    BY <1>1 DEF RequestFits
  <2>4. /\ DOMAIN ledger' = DOMAIN ledger
        /\ ledger'.closed = ledger.closed /\ ledger'.votes = ledger.votes
        /\ wanted.method # "tie" => ledger'.tie = ledger.tie
        /\ wanted.method \notin {"roundOne", "rerun"} => ledger'.round = ledger.round
        /\ wanted.method = "roundOne" => ledger.round = 0 /\ ledger'.round = 1
        /\ wanted.method = "rerun" => ledger.round = 1 /\ ledger'.round = 2
        /\ wanted.method = "tie" =>
             ledger.tie = None /\ ledger'.tie = [order |-> wanted.order, round |-> wanted.round]
    BY <1>3, <2>1, <2>2, <2>3 DEF After, Accepted
  <2>5. RoundsKnown'
    BY <1>1, <2>3, <2>4 DEF RequestFits, GatePassed, ConsoleInv, RoundsKnown
  <2>6. \/ ledger'.tie # None
        \/ /\ ledger'.tie = ledger.tie
           /\ ledger'.round = ledger.round \/ collector.status # "TIE_UNRESOLVED"
    <3>1. CASE wanted.method = "tie"
      <4>1. wanted.order \in Seq(Nat) /\ wanted.round \in Nat
        BY <1>1, <2>4, <3>1 DEF RequestFits, TieFits, ConsoleInv, RoundsKnown
      <4> QED
        BY <2>4, <3>1, <4>1, NoneIsNoTie
    <3>2. CASE wanted.method # "tie"
      BY <1>1, <2>3, <2>4, <3>2 DEF RequestFits, ConsoleInv, RoundsKnown
    <3> QED
      BY <3>1, <3>2
  <2>7. ASSUME NEW tie, TieFits(tie) PROVE TieFits(tie)'
    BY <1>1, <2>6, <2>7 DEF TieFits
  <2>8. ASSUME NEW r, RequestFits(r) PROVE RequestFits(r)'
    <3>1. /\ ledger.round = 2 => ledger'.round = 2
          /\ ledger.round = 1 => ledger'.round \in {1, 2}
      BY <2>3, <2>4
    <3> QED
      BY <1>1, <2>7, <2>8, <3>1 DEF RequestFits, GatePassed
  <2>9. PICK fresh : fresh = Fresh(page[o], ledger')
    OBVIOUS
  <2>10. /\ DOMAIN fresh = DOMAIN page[o] /\ fresh.order \in Seq(Nat)
         /\ fresh.status = "TIE_UNRESOLVED" /\ fresh.order # <<>> => TieFits(fresh)
    BY <2>9, FreshCopy
  <2>11. /\ DOMAIN page' = Operators /\ page'[o] = fresh
         /\ \A p \in Operators \ {o} : page'[p] = page[p]
         /\ DOMAIN request' = Operators /\ request'[o] = None
         /\ \A p \in Operators \ {o} : request'[p] = request[p]
    BY <1>1, <2>1, <2>9 DEF Copy, ConsoleInv, ConsoleFields
  <2>12. /\ ConsoleFields'
         /\ GatePassed' => ledger'.closed /\ Weighted[ledger'.votes + 1]
    BY <1>1, <2>4, <2>10, <2>11 DEF ConsoleInv, ConsoleFields, GatePassed
  <2> QED
    BY <2>5, <2>7, <2>8, <2>10, <2>11, <2>12 DEF ConsoleInv
<1> QED
  BY <1>2, <1>3

\* Every step keeps the invariant of the console.
LEMMA ConsoleStep ==
  ASSUME ConsoleInv, [ConsoleNext]_consoleVars
  PROVE  ConsoleInv'
<1>1. CASE UNCHANGED consoleVars
  BY <1>1 DEF consoleVars, ConsoleInv, ConsoleFields, RoundsKnown, GatePassed, RequestFits, TieFits
<1>2. CASE World
  BY <1>2, WorldKeepsConsole
<1>3. ASSUME NEW o \in Operators, Load(o) PROVE ConsoleInv'
  <2>1. PICK fresh : fresh = Fresh(page[o], ledger)
    OBVIOUS
  <2>2. Copy(o, fresh) /\ UNCHANGED <<ledger, collector, request>>
    BY <1>3, <2>1 DEF Load
  <2> QED
    BY <2>1, <2>2, FreshCopy, PageKeepsConsole
<1>4. ASSUME NEW o \in Operators, LoadResults(o) PROVE ConsoleInv'
  <2>1. PICK fresh : fresh = [page[o] EXCEPT !.counted = IF collector.cached
                                                     THEN collector.counted ELSE None]
    OBVIOUS
  <2>2. Copy(o, fresh) /\ UNCHANGED <<ledger, collector, request>>
    BY <1>4, <2>1 DEF LoadResults
  <2>3. /\ DOMAIN fresh = DOMAIN page[o] /\ fresh.order = page[o].order
        /\ fresh.status = page[o].status /\ fresh.round = page[o].round
    BY <2>1 DEF ConsoleInv, ConsoleFields
  <2> QED
    BY <2>2, <2>3, PageKeepsConsole DEF ConsoleInv, TieFits
<1>5. ASSUME NEW o \in Operators, MoveCandidate(o) PROVE ConsoleInv'
  <2>1. PICK i \in 1 .. Len(page[o].order) - 1 :
          Copy(o, [page[o] EXCEPT !.order[i] = page[o].order[i + 1],
                                  !.order[i + 1] = page[o].order[i]])
    BY <1>5 DEF MoveCandidate
  <2>2. PICK fresh : fresh = [page[o] EXCEPT !.order[i] = page[o].order[i + 1],
                                         !.order[i + 1] = page[o].order[i]]
    OBVIOUS
  <2>3. page[o].order \in Seq(Nat)
    BY DEF ConsoleInv
  <2>4. /\ DOMAIN fresh = DOMAIN page[o]
        /\ fresh.order = [page[o].order EXCEPT ![i] = page[o].order[i + 1],
                                             ![i + 1] = page[o].order[i]]
        /\ fresh.status = page[o].status /\ fresh.round = page[o].round
    BY <2>2 DEF ConsoleInv, ConsoleFields
  <2>5. fresh.order \in Seq(Nat) /\ ToSet(fresh.order) = ToSet(page[o].order)
    BY <2>1, <2>3, <2>4, SwapKeepsCandidates
  <2>6. page[o].order # <<>> /\ page[o].status = "TIE_UNRESOLVED"
    BY <1>5, <2>1, <2>3 DEF MoveCandidate
  <2>7. TieFits(fresh)
    BY <2>4, <2>5, <2>6 DEF ConsoleInv, TieFits
  <2>8. Copy(o, fresh) /\ UNCHANGED <<ledger, collector, request>>
    BY <1>5, <2>1, <2>2 DEF MoveCandidate
  <2> QED
    BY <2>4, <2>5, <2>7, <2>8, PageKeepsConsole
<1>6. ASSUME NEW o \in Operators,
             RecordOutcome(o) \/ Promote(o) \/ OpenRoundOne(o) \/ StartRerun(o) \/ RecordTie(o)
      PROVE  ConsoleInv'
  <2>1. PICK wanted : Ask(o, wanted) /\ RequestFits(wanted)
    <3>1. CASE RecordOutcome(o)
      BY <3>1 DEF RecordOutcome, OutcomeManifest, RequestFits
    <3>2. CASE Promote(o)
      BY <3>2 DEF Promote, ProposalManifest, RequestFits
    <3>3. CASE OpenRoundOne(o)
      BY <3>3 DEF OpenRoundOne, CanOpenRoundOne, RoundOneManifest, RequestFits, GatePassed
    <3>4. CASE StartRerun(o)
      BY <3>4 DEF StartRerun, CanStartRerun, RerunManifest, RequestFits, ConsoleInv, RoundsKnown
    <3>5. CASE RecordTie(o)
      <4>1. TieFits(page[o])
        BY <3>5 DEF RecordTie, TieOffered, ConsoleInv
      <4>2. RequestFits(TieManifest(page[o].order, page[o].round))
        BY <4>1 DEF TieManifest, RequestFits, TieFits
      <4> QED
        BY <3>5, <4>2 DEF RecordTie
    <3> QED
      BY <1>6, <3>1, <3>2, <3>3, <3>4, <3>5
  <2>2. request' = [request EXCEPT ![o] = wanted] /\ UNCHANGED <<ledger, collector, page>>
    BY <2>1 DEF Ask
  <2> QED
    BY <2>1, <2>2, RequestKeepsConsole
<1>7. ASSUME NEW o \in Operators, Rejected(o) PROVE ConsoleInv'
  <2>1. request' = [request EXCEPT ![o] = None] /\ UNCHANGED <<ledger, collector, page>>
    BY <1>7 DEF Rejected
  <2>2. PICK wanted : wanted = None
    OBVIOUS
  <2> QED
    BY <2>1, <2>2, RequestKeepsConsole
<1> QED
  BY <1>1, <1>2, <1>3, <1>4, <1>5, <1>6, <1>7, ExecutedKeepsConsole DEF ConsoleNext

\* The console begins with pages that show nothing and with nothing asked for.
LEMMA ConsoleStarts == ConsoleInit => ConsoleInv
<1> SUFFICES ASSUME ConsoleInit PROVE ConsoleInv
  OBVIOUS
<1>1. ConsoleFields
  BY DEF ConsoleInit, EmptyPage, ConsoleFields
<1>2. RoundsKnown /\ ~GatePassed
  BY DEF ConsoleInit, RoundsKnown, GatePassed
<1>3. \A o \in Operators : page[o].order = <<>> /\ request[o] = None
  BY DEF ConsoleInit, EmptyPage
<1>4. \A o \in Operators :
        /\ page[o].order \in Seq(Nat)
        /\ page[o].status = "TIE_UNRESOLVED" /\ page[o].order # <<>> => TieFits(page[o])
        /\ request[o] # None => RequestFits(request[o])
  <2>1. <<>> \in Seq(Nat)
    OBVIOUS
  <2> QED
    BY <1>3, <2>1
<1> QED
  BY <1>1, <1>2, <1>4 DEF ConsoleInv

\* Whichever copies the operators' pages show, the rounds follow the verdicts (the
\* operators' controls of the web client).
THEOREM RoundsAlwaysFollowVerdicts == ConsoleSpec => RoundsFollowVerdicts
<1>1. ConsoleInit => ConsoleInv
  BY ConsoleStarts
<1>2. ASSUME ConsoleInv, [ConsoleNext]_consoleVars
      PROVE  /\ ledger'.round = 1 /\ ledger.round = 0 =>
                  ledger.outcome = TRUE /\ Weighted[ledger.votes + 1]
             /\ ledger'.round = 2 /\ ledger.round = 1 => collector.status = "ROUND_1_FAILED"
             /\ ledger'.tie # ledger.tie =>
                  /\ collector.status = "TIE_UNRESOLVED"
                  /\ ledger'.tie.round = ledger.round
                  /\ ToSet(ledger'.tie.order) = ToSet(TieGroup)
  <2>1. CASE ledger'.round = ledger.round /\ ledger'.tie = ledger.tie
    BY <1>2, <2>1
  <2>2. CASE ~(ledger'.round = ledger.round /\ ledger'.tie = ledger.tie)
    <3>1. PICK o \in Operators : Executed(o)
      BY <1>2, <2>2
      DEF ConsoleNext, consoleVars, ConsoleInv, ConsoleFields, World, CastVote, DeadlinePasses,
          Count, ProjectOutcome, ResolveGate, FollowRound, Load, LoadResults, MoveCandidate,
          RecordOutcome, Promote, OpenRoundOne, StartRerun, RecordTie, Ask, Rejected
    <3> DEFINE wanted == request[o]
    <3>2. /\ RequestFits(wanted) /\ Accepted(wanted) /\ ledger' = After(wanted)
      BY <1>2, <2>2, <3>1 DEF Executed, ConsoleInv
    <3> HIDE DEF wanted
    <3>3. DOMAIN ledger = {"votes", "closed", "outcome", "proposals", "round", "ended", "tie"}
      BY <1>2 DEF ConsoleInv, ConsoleFields
    <3>4. /\ wanted.method # "tie" => ledger'.tie = ledger.tie
          /\ wanted.method \notin {"roundOne", "rerun"} => ledger'.round = ledger.round
          /\ wanted.method = "roundOne" => ledger.outcome = TRUE /\ ledger'.round = 1
          /\ wanted.method = "rerun" => ledger.round = 1 /\ ledger'.round = 2
          /\ wanted.method = "tie" =>
               ledger.tie = None /\ ledger'.tie = [order |-> wanted.order, round |-> wanted.round]
      BY <3>2, <3>3 DEF RequestFits, Accepted, After
    <3> QED
      BY <1>2, <3>2, <3>4 DEF RequestFits, TieFits, ConsoleInv, RoundsKnown
  <2> QED
    BY <2>1, <2>2
<1>3. ConsoleInv /\ [ConsoleNext]_consoleVars => ConsoleInv'
  BY ConsoleStep
<1>4. ConsoleInv /\ [ConsoleNext]_consoleVars =>
        [/\ ledger'.round = 1 /\ ledger.round = 0 =>
              ledger.outcome = TRUE /\ Weighted[ledger.votes + 1]
         /\ ledger'.round = 2 /\ ledger.round = 1 => collector.status = "ROUND_1_FAILED"
         /\ ledger'.tie # ledger.tie =>
              /\ collector.status = "TIE_UNRESOLVED"
              /\ ledger'.tie.round = ledger.round
              /\ ToSet(ledger'.tie.order) = ToSet(TieGroup)]_consoleVars
  BY <1>2
<1> QED
  BY <1>1, <1>3, <1>4, PTL DEF ConsoleSpec, RoundsFollowVerdicts

-----------------------------------------------------------------------------
(* The panel of parameter sets *)

\* A registered set is a value of the contract's: the rerun of an election has the rules of
\* its first round.
SetFits(s) ==
  /\ s \in RegisteredSet
  /\ s.rerun = IF s.process = "Standard" THEN None ELSE s.vote

\* What an operator's form says agrees with the set, outside of the fields that were edited.
Agrees(check, vote, touched, s) ==
  /\ "check" \in touched \/ check = s.check
  /\ Second(s.process) \in touched \/ vote = s.vote

\* The form of a set of which this version, or an older one, was read.
EditorFits(e, s) ==
  /\ e \in SetEditor
  /\ s # None
  /\ e.form.process = s.process
  /\ e.base <= s.version
  /\ e.base = s.version => Agrees(e.form.check, e.form[Second(s.process)], e.touched, s)

\* The rules that a transaction carries.
InputFits(i) ==
  /\ i.process \in ProcessTypes /\ i.check \in Values /\ i.vote \in Values
  /\ i.rerun = IF i.process = "Standard" THEN None ELSE i.vote

\* An update that was asked for: what the form said then.
SaveFits(r, s) ==
  /\ s # None
  /\ r.base \in Nat /\ r.base <= s.version
  /\ r.base = s.version => Agrees(r.input.check, r.input.vote, r.touched, s)

SentFits(r) ==
  /\ r.id \in Sets
  /\ r.method \in {"add", "retire", "update"}
  /\ r.method # "retire" => InputFits(r.input)
  /\ r.method = "update" => SaveFits(r, sets[r.id])

\* The inductive invariant of the panels: forms and transactions are as old as the version
\* they name, and as the set was then but for the edits.
EditorInv ==
  /\ DOMAIN sets = Sets
  /\ DOMAIN copy = Admins /\ DOMAIN editor = Admins /\ DOMAIN sent = Admins
  /\ DOMAIN adding = Admins
  /\ \A s \in Sets : sets[s] # None => SetFits(sets[s])
  /\ \A a \in Admins :
       /\ DOMAIN editor[a] = Sets
       /\ \A s \in Sets : editor[a][s] # None => EditorFits(editor[a][s], sets[s])
       /\ DOMAIN adding[a] = {"id", "form"}
       /\ adding[a].form \in FormValues /\ (adding[a].id # None => adding[a].id \in Sets)
       /\ \A r \in sent[a] : SentFits(r)

\* The form of a set, newly filled, agrees with it.
LEMMA NewEditorFits ==
  ASSUME NEW s, SetFits(s)
  PROVE  NewEditor(s) # None /\ EditorFits(NewEditor(s), s)
<1> DEFINE f == ToFormValues(s)
           e == NewEditor(s)
<1>1. /\ s.process \in ProcessTypes /\ s.check \in Values /\ s.vote \in Values /\ s.version \in Nat
      /\ s # None
  BY EditorAssumption DEF SetFits, RegisteredSet
<1>2. /\ f \in FormValues /\ f.process = s.process /\ f.check = s.check
      /\ f[Second(s.process)] = s.vote
  BY <1>1, EditorAssumption DEF ToFormValues, EmptyForm, FormValues, Second, ProcessTypes
<1>3. e = [base |-> s.version, form |-> f, touched |-> {}]
  BY DEF NewEditor
<1> HIDE DEF f, e
<1>4. e \in SetEditor
  BY <1>1, <1>2, <1>3 DEF SetEditor
<1>5. e # None
  BY <1>4, EditorAssumption
<1>6. EditorFits(e, s)
  BY <1>1, <1>2, <1>3, <1>4 DEF EditorFits, Agrees
<1> QED
  BY <1>5, <1>6 DEF e

\* The editors of a panel that is read again fit what was read.
LEMMA RereadEditorsFit ==
  ASSUME NEW a, NEW registered,
         \A s \in Sets : registered[s] # None => SetFits(registered[s]),
         \A s \in Sets : editor[a][s] # None => EditorFits(editor[a][s], registered[s])
  PROVE  LET after == EditorsAfter(a, registered)
         IN  /\ DOMAIN after = Sets
             /\ \A s \in Sets : after[s] # None => EditorFits(after[s], registered[s])
<1> DEFINE after == EditorsAfter(a, registered)
<1>1. DOMAIN after = Sets
  BY DEF EditorsAfter
<1>2. ASSUME NEW s \in Sets, after[s] # None PROVE EditorFits(after[s], registered[s])
  <2>1. Active(registered, s) /\ after[s] \in {editor[a][s], NewEditor(registered[s])}
    BY <1>2 DEF EditorsAfter
  <2>2. SetFits(registered[s])
    BY <2>1 DEF Active
  <2>3. CASE after[s] = NewEditor(registered[s])
    <3>1. PICK r : r = registered[s]
      OBVIOUS
    <3> HIDE DEF after
    <3> QED
      BY <2>2, <2>3, <3>1, NewEditorFits
  <2> HIDE DEF after
  <2> QED
    BY <1>2, <2>1, <2>3
<1> QED
  BY <1>1, <1>2

\* A set that goes on from another: unchanged in what it says, or of a newer version.
Continues(t, s) ==
  s # None =>
    /\ t # None /\ t.process = s.process
    /\ \/ t.version > s.version
       \/ t.version = s.version /\ t.check = s.check /\ t.vote = s.vote

\* A form and a save fit the sets that go on from the one they fit.
LEMMA FitsContinue ==
  ASSUME NEW s, NEW t, s # None => SetFits(s), t # None => SetFits(t), Continues(t, s)
  PROVE  /\ \A e : EditorFits(e, s) => EditorFits(e, t)
         /\ \A r : SaveFits(r, s) => SaveFits(r, t)
<1> SUFFICES ASSUME s # None
             PROVE  /\ \A e : EditorFits(e, s) => EditorFits(e, t)
                    /\ \A r : SaveFits(r, s) => SaveFits(r, t)
  BY DEF EditorFits, SaveFits
<1>1. /\ t # None /\ t.process = s.process
      /\ \/ t.version > s.version
         \/ t.version = s.version /\ t.check = s.check /\ t.vote = s.vote
      /\ s.version \in Nat /\ t.version \in Nat
  BY DEF Continues, SetFits, RegisteredSet
<1>2. ASSUME NEW e, EditorFits(e, s) PROVE EditorFits(e, t)
  <2>1. e.base \in Nat
    BY <1>2 DEF EditorFits, SetEditor
  <2> QED
    BY <1>1, <1>2, <2>1 DEF EditorFits, Agrees
<1>3. ASSUME NEW r, SaveFits(r, s) PROVE SaveFits(r, t)
  BY <1>1, <1>3 DEF SaveFits, Agrees
<1> QED
  BY <1>2, <1>3

\* What an operator types into a form is marked as edited, and the rest still agrees.
LEMMA EditFits ==
  ASSUME NEW e, NEW s, EditorFits(e, s), NEW f \in {"check", Second(e.form.process)},
         NEW v \in Values
  PROVE  EditorFits([e EXCEPT !.form[f] = v, !.touched = @ \cup {f}], s)
<1> DEFINE d == [e EXCEPT !.form[f] = v, !.touched = @ \cup {f}]
<1>1. /\ e = [base |-> e.base, form |-> e.form, touched |-> e.touched]
      /\ e.base \in Nat /\ e.form \in FormValues /\ e.touched \in SUBSET Fields
      /\ e.form.process \in ProcessTypes
  BY DEF EditorFits, SetEditor, FormValues
<1>2. f \in {"check", "proposal", "election"} /\ f \in Fields
  BY DEF Second, Fields
<1>3. d = [base |-> e.base, form |-> [e.form EXCEPT ![f] = v], touched |-> e.touched \cup {f}]
  <2>1. DOMAIN e = {"base", "form", "touched"}
    BY <1>1
  <2>3. d.base = e.base
    BY <2>1
  <2>4. d.form = [e.form EXCEPT ![f] = v]
    BY <2>1
  <2>5. d.touched = e.touched \cup {f}
    BY <2>1
  <2>6. d = [x \in {"base", "form", "touched"} |-> d[x]]
    BY <2>1
  <2> HIDE DEF d
  <2>7. d = [base |-> d.base, form |-> d.form, touched |-> d.touched]
    BY <2>6
  <2> QED
    BY <2>3, <2>4, <2>5, <2>7
<1>4. PICK g : g = [e.form EXCEPT ![f] = v]
  OBVIOUS
<1>5. /\ g \in FormValues /\ g.process = e.form.process /\ g[f] = v
      /\ \A h \in Fields \ {f} : g[h] = e.form[h]
  BY <1>1, <1>2, <1>4 DEF FormValues, Fields
<1>6. d.base = e.base /\ d.form = g /\ d.touched = e.touched \cup {f} /\ d \in SetEditor
  <2>1. d = [base |-> e.base, form |-> g, touched |-> e.touched \cup {f}]
    BY <1>3, <1>4
  <2> QED
    BY <1>1, <1>2, <1>5, <2>1 DEF SetEditor
<1> HIDE DEF d
<1>7. e.base = s.version => Agrees(g.check, g[Second(s.process)], d.touched, s)
  <2>1. Second(s.process) \in Fields /\ "check" \in Fields
    BY DEF Second, Fields
  <2> QED
    BY <1>5, <1>6, <2>1 DEF EditorFits, Agrees
<1>8. EditorFits(d, s)
  BY <1>5, <1>6, <1>7 DEF EditorFits
<1> QED
  BY <1>8 DEF d

\* What a form becomes on its way into a transaction.
LEMMA InputOfForm ==
  ASSUME NEW f \in FormValues
  PROVE  /\ InputFits(ToInput(f)) /\ ToInput(f).process = f.process
         /\ ToInput(f).check = f.check /\ ToInput(f).vote = f[Second(f.process)]
<1>1. /\ f.process \in ProcessTypes /\ f.check \in Values /\ f.proposal \in Values
      /\ f.election \in Values
  BY DEF FormValues
<1>2. /\ ToInput(f).process = f.process /\ ToInput(f).check = f.check
      /\ ToInput(f).vote = f[Second(f.process)]
      /\ ToInput(f).rerun = IF f.process = "Standard" THEN None ELSE f.election
  BY DEF ToInput
<1>3. f[Second(f.process)] = IF f.process = "Standard" THEN f.proposal ELSE f.election
  BY DEF Second
<1> QED
  BY <1>1, <1>2, <1>3 DEF InputFits

\* A version of a set has the rules of the transaction that wrote it.
LEMMA NewVersionFits ==
  ASSUME NEW i, InputFits(i), NEW n \in Nat
  PROVE  LET s == NewVersion(i, n)
         IN  /\ SetFits(s) /\ s # None
             /\ s.process = i.process /\ s.check = i.check /\ s.vote = i.vote /\ s.rerun = i.rerun
             /\ s.version = n
<1> DEFINE s == NewVersion(i, n)
<1>1. s = [process |-> i.process, check |-> i.check, vote |-> i.vote, rerun |-> i.rerun,
           version |-> n, retired |-> FALSE]
  BY DEF NewVersion
<1>2. i.rerun \in Values \cup {None}
  BY DEF InputFits
<1>3. s \in RegisteredSet
  BY <1>1, <1>2 DEF InputFits, RegisteredSet
<1>4. s # None
  BY <1>3, EditorAssumption
<1> QED
  BY <1>1, <1>3, <1>4 DEF InputFits, SetFits

\* A panel is read, or read again: its editors fit the registry, and all else goes on.
LEMMA RereadKeepsEditors ==
  ASSUME EditorInv, NEW a \in Admins, NEW registered, sets' = registered, Reread(a, registered),
         DOMAIN registered = Sets,
         \A s \in Sets : registered[s] # None => SetFits(registered[s]),
         \A s \in Sets : Continues(registered[s], sets[s])
  PROVE  /\ DOMAIN copy' = Admins /\ DOMAIN editor' = Admins
         /\ \A b \in Admins : /\ DOMAIN editor'[b] = Sets
                              /\ \A s \in Sets : editor'[b][s] # None =>
                                   EditorFits(editor'[b][s], sets'[s])
         /\ \A b \in Admins : \A r \in sent[b] : SentFits(r)'
<1>1. \A s \in Sets : sets[s] # None => SetFits(sets[s])
  BY DEF EditorInv
<1>2. ASSUME NEW s \in Sets
      PROVE  /\ \A e : EditorFits(e, sets[s]) => EditorFits(e, registered[s])
             /\ \A r : SaveFits(r, sets[s]) => SaveFits(r, registered[s])
  <2>1. PICK old, new : old = sets[s] /\ new = registered[s]
    OBVIOUS
  <2>2. /\ old # None => SetFits(old)
        /\ new # None => SetFits(new)
        /\ Continues(new, old)
    BY <1>1, <2>1
  <2> QED
    BY <2>1, <2>2, FitsContinue
<1>3. \A b \in Admins : \A s \in Sets : editor[b][s] # None =>
        EditorFits(editor[b][s], registered[s])
  BY <1>2 DEF EditorInv
<1>4. PICK after : after = EditorsAfter(a, registered)
  OBVIOUS
<1>5. /\ DOMAIN after = Sets
      /\ \A s \in Sets : after[s] # None => EditorFits(after[s], registered[s])
  BY <1>3, <1>4, RereadEditorsFit
<1>6. /\ copy' = [copy EXCEPT ![a] = registered]
      /\ editor' = [editor EXCEPT ![a] = after]
  BY <1>4 DEF Reread
<1>7. DOMAIN copy' = Admins /\ DOMAIN editor' = Admins
  BY <1>6 DEF EditorInv
<1>8. ASSUME NEW b \in Admins
      PROVE  /\ DOMAIN editor'[b] = Sets
             /\ \A s \in Sets : editor'[b][s] # None => EditorFits(editor'[b][s], sets'[s])
  <2>1. editor'[b] = IF b = a THEN after ELSE editor[b]
    BY <1>6 DEF EditorInv
  <2> QED
    BY <1>3, <1>5, <2>1 DEF EditorInv
<1>9. ASSUME NEW b \in Admins, NEW r \in sent[b] PROVE SentFits(r)'
  <2>1. SentFits(r)
    BY DEF EditorInv
  <2> QED
    BY <1>2, <2>1 DEF SentFits
<1> QED
  BY <1>7, <1>8, <1>9

\* A transaction is asked for.
LEMMA AskKeepsEditors ==
  ASSUME EditorInv, NEW a \in Admins, NEW ask, AskFor(a, ask), SentFits(ask)
  PROVE  EditorInv'
<1>1. /\ sent' = [sent EXCEPT ![a] = sent[a] \cup {ask}]
      /\ UNCHANGED <<sets, badge, copy, editor, adding>>
  BY DEF AskFor
<1>2. ASSUME NEW r, SentFits(r) PROVE SentFits(r)'
  BY <1>1, <1>2 DEF SentFits
<1>3. DOMAIN sent' = Admins
      /\ \A b \in Admins : sent'[b] = IF b = a THEN sent[a] \cup {ask} ELSE sent[b]
  BY <1>1 DEF EditorInv
<1> QED
  BY <1>1, <1>2, <1>3 DEF EditorInv

\* What a transaction writes goes on from the set it is written over.
LEMMA WrittenFits ==
  ASSUME EditorInv, NEW a \in Admins, NEW r \in sent[a], Admitted(a, r)
  PROVE  /\ SetFits(Written(r)) /\ Continues(Written(r), sets[r.id]) /\ r.id \in Sets
         /\ r.method = "update" =>
              /\ sets[r.id] # None /\ sets[r.id].process = r.input.process
              /\ Written(r).check = r.input.check /\ Written(r).vote = r.input.vote
              /\ Written(r).rerun = r.input.rerun
<1>1. SentFits(r) /\ r.id \in Sets /\ r.method \in {"add", "retire", "update"}
  BY DEF EditorInv, SentFits
<1>2. PICK s : s = sets[r.id]
  OBVIOUS
<1>3. s # None => SetFits(s)
  BY <1>1, <1>2 DEF EditorInv
<1>4. PICK i : i = r.input
  OBVIOUS
<1>5. r.method # "retire" => InputFits(i)
  BY <1>1, <1>4 DEF SentFits
<1>6. CASE r.method = "add"
  <2>1. s = None /\ Written(r) = NewVersion(i, 1)
    BY <1>2, <1>4, <1>6 DEF Admitted, Written, FirstVersion
  <2> QED
    BY <1>1, <1>2, <1>5, <1>6, <2>1, NewVersionFits DEF Continues
<1>7. CASE r.method = "retire"
  <2>1. s # None /\ Written(r) = [s EXCEPT !.retired = TRUE]
    BY <1>2, <1>7 DEF Admitted, Written, Active
  <2>2. /\ s = [process |-> s.process, check |-> s.check, vote |-> s.vote, rerun |-> s.rerun,
                version |-> s.version, retired |-> s.retired]
        /\ s.process \in ProcessTypes /\ s.check \in Values /\ s.vote \in Values
        /\ s.rerun \in Values \cup {None} /\ s.version \in Nat
    BY <1>3, <2>1 DEF SetFits, RegisteredSet
  <2>3. Written(r) = [process |-> s.process, check |-> s.check, vote |-> s.vote,
                      rerun |-> s.rerun, version |-> s.version, retired |-> TRUE]
    BY <2>1, <2>2
  <2>4. Written(r) \in RegisteredSet
    BY <2>2, <2>3 DEF RegisteredSet
  <2>5. SetFits(Written(r)) /\ Written(r) # None
    BY <1>3, <2>1, <2>3, <2>4, EditorAssumption DEF SetFits
  <2> QED
    BY <1>1, <1>2, <1>7, <2>3, <2>5 DEF Continues
<1>8. CASE r.method = "update"
  <2>1. /\ s # None /\ s.process = i.process
        /\ Written(r) = NewVersion(i, s.version + 1)
    BY <1>2, <1>4, <1>8 DEF Admitted, Written, Active
  <2>2. s.version \in Nat
    BY <1>3, <2>1 DEF SetFits, RegisteredSet
  <2>3. PICK n \in Nat : n = s.version + 1
    BY <2>2
  <2>4. /\ SetFits(Written(r)) /\ Written(r) # None /\ Written(r).process = i.process
        /\ Written(r).check = i.check /\ Written(r).vote = i.vote
        /\ Written(r).rerun = i.rerun /\ Written(r).version = n
    BY <1>5, <1>8, <2>1, <2>3, NewVersionFits
  <2> QED
    BY <1>1, <1>2, <1>4, <1>8, <2>1, <2>2, <2>3, <2>4 DEF Continues
<1> QED
  BY <1>1, <1>6, <1>7, <1>8

\* A transaction is committed: everyone's forms and requests are as old as before.
LEMMA CommitKeepsEditors ==
  ASSUME EditorInv, NEW a \in Admins, Commit(a)
  PROVE  EditorInv'
<1>1. PICK r \in sent[a] :
        /\ Admitted(a, r)
        /\ sets' = [sets EXCEPT ![r.id] = Written(r)]
        /\ Reread(a, [sets EXCEPT ![r.id] = Written(r)])
        /\ adding' = IF r.method = "add"
                     THEN [adding EXCEPT ![a] = [id |-> None, form |-> EmptyForm]] ELSE adding
        /\ sent' = [sent EXCEPT ![a] = @ \ {r}]
  BY DEF Commit
<1>2. SetFits(Written(r)) /\ Continues(Written(r), sets[r.id]) /\ r.id \in Sets
  BY <1>1, WrittenFits
<1>3. PICK registered : registered = [sets EXCEPT ![r.id] = Written(r)]
  OBVIOUS
<1>4. /\ DOMAIN registered = Sets
      /\ \A s \in Sets : registered[s] = IF s = r.id THEN Written(r) ELSE sets[s]
  BY <1>2, <1>3 DEF EditorInv
<1>5. ASSUME NEW s \in Sets
      PROVE  /\ registered[s] # None => SetFits(registered[s])
             /\ Continues(registered[s], sets[s])
  BY <1>2, <1>4, <1>5 DEF EditorInv, Continues
<1>6. sets' = registered /\ Reread(a, registered)
  BY <1>1, <1>3
<1>7. /\ DOMAIN copy' = Admins /\ DOMAIN editor' = Admins
      /\ \A b \in Admins : /\ DOMAIN editor'[b] = Sets
                           /\ \A s \in Sets : editor'[b][s] # None =>
                                EditorFits(editor'[b][s], sets'[s])
      /\ \A b \in Admins : \A q \in sent[b] : SentFits(q)'
  BY <1>4, <1>5, <1>6, RereadKeepsEditors
<1>8. DOMAIN sent' = Admins /\ \A b \in Admins : sent'[b] \subseteq sent[b]
  BY <1>1 DEF EditorInv
<1>9. ASSUME NEW b \in Admins
      PROVE  /\ DOMAIN adding' = Admins /\ DOMAIN adding'[b] = {"id", "form"}
             /\ adding'[b].form \in FormValues /\ (adding'[b].id # None => adding'[b].id \in Sets)
  <2>1. EmptyForm \in FormValues
    BY EditorAssumption DEF EmptyForm, FormValues, ProcessTypes
  <2> QED
    BY <1>1, <2>1 DEF EditorInv
<1>10. DOMAIN adding' = Admins
  BY <1>1 DEF EditorInv
<1>11. /\ DOMAIN sets' = Sets
       /\ \A s \in Sets : sets'[s] # None => SetFits(sets'[s])
  BY <1>4, <1>5, <1>6
<1> QED
  BY <1>7, <1>8, <1>9, <1>10, <1>11 DEF EditorInv

\* A change of one operator's forms, with nothing else changed that they are held against.
LEMMA FormsKeepEditors ==
  ASSUME EditorInv, NEW a \in Admins, NEW forms, editor' = [editor EXCEPT ![a] = forms],
         UNCHANGED <<sets, adding, sent>>, DOMAIN copy' = Admins, DOMAIN forms = Sets,
         \A s \in Sets : forms[s] # None => EditorFits(forms[s], sets[s])
  PROVE  EditorInv'
<1>1. /\ DOMAIN editor' = Admins
      /\ \A b \in Admins : editor'[b] = IF b = a THEN forms ELSE editor[b]
  BY DEF EditorInv
<1>2. ASSUME NEW r, SentFits(r) PROVE SentFits(r)'
  BY <1>2 DEF SentFits
<1> QED
  BY <1>1, <1>2 DEF EditorInv

\* Every step keeps the invariant of the panels.
LEMMA EditorStep ==
  ASSUME EditorInv, [EditorNext]_editorVars
  PROVE  EditorInv'
<1>1. CASE UNCHANGED editorVars
  <2>1. ASSUME NEW r, SentFits(r) PROVE SentFits(r)'
    BY <1>1, <2>1 DEF editorVars, SentFits
  <2> QED
    BY <1>1, <2>1 DEF editorVars, EditorInv
<1>2. ASSUME NEW a \in Admins, OpenPanel(a) PROVE EditorInv'
  <2>1. /\ DOMAIN sets = Sets
        /\ \A s \in Sets : sets[s] # None => SetFits(sets[s])
        /\ \A s \in Sets : editor[a][s] # None => EditorFits(editor[a][s], sets[s])
    BY DEF EditorInv
  <2>2. PICK forms : forms = EditorsAfter(a, sets)
    OBVIOUS
  <2>3. /\ DOMAIN forms = Sets
        /\ \A s \in Sets : forms[s] # None => EditorFits(forms[s], sets[s])
    BY <2>1, <2>2, RereadEditorsFit
  <2>4. /\ editor' = [editor EXCEPT ![a] = forms]
        /\ UNCHANGED <<sets, adding, sent>> /\ DOMAIN copy' = Admins
    BY <1>2, <2>2 DEF OpenPanel, Reread, EditorInv
  <2> QED
    BY <2>3, <2>4, FormsKeepEditors
<1>3. ASSUME NEW a \in Admins, PanelFails(a) PROVE EditorInv'
  <2>1. PICK forms, blank : forms = NoEditors /\ blank = [id |-> None, form |-> EmptyForm]
    OBVIOUS
  <2>2. /\ editor' = [editor EXCEPT ![a] = forms]
        /\ adding' = [adding EXCEPT ![a] = blank]
        /\ copy' = [copy EXCEPT ![a] = None]
        /\ UNCHANGED <<sets, sent>>
    BY <1>3, <2>1 DEF PanelFails
  <2>3. DOMAIN forms = Sets /\ \A s \in Sets : forms[s] = None
    BY <2>1 DEF NoEditors
  <2>4. DOMAIN blank = {"id", "form"} /\ blank.id = None /\ blank.form \in FormValues
    BY <2>1, EditorAssumption DEF EmptyForm, FormValues, ProcessTypes
  <2>5. /\ DOMAIN copy' = Admins /\ DOMAIN editor' = Admins /\ DOMAIN adding' = Admins
        /\ \A b \in Admins : editor'[b] = IF b = a THEN forms ELSE editor[b]
        /\ \A b \in Admins : adding'[b] = IF b = a THEN blank ELSE adding[b]
    BY <2>2 DEF EditorInv
  <2>6. ASSUME NEW r, SentFits(r) PROVE SentFits(r)'
    BY <2>2, <2>6 DEF SentFits
  <2> QED
    BY <2>2, <2>3, <2>4, <2>5, <2>6 DEF EditorInv
<1>4. ASSUME NEW a \in Admins, NEW s \in Sets, Edit(a, s) PROVE EditorInv'
  <2>1. PICK f \in {"check", Second(editor[a][s].form.process)}, v \in Values :
          editor' = [editor EXCEPT ![a][s].form[f] = v, ![a][s].touched = @ \cup {f}]
    BY <1>4 DEF Edit
  <2>2. PICK e : e = editor[a][s]
    OBVIOUS
  <2>3. PICK d : d = [e EXCEPT !.form[f] = v, !.touched = @ \cup {f}]
    OBVIOUS
  <2>4. PICK forms : forms = [editor[a] EXCEPT ![s] = d]
    OBVIOUS
  <2>5. editor' = [editor EXCEPT ![a] = forms]
    BY <2>1, <2>2, <2>3, <2>4 DEF EditorInv
  <2>6. EditorFits(e, sets[s])
    BY <1>4, <2>2 DEF Edit, EditorInv
  <2>7. PICK t : t = sets[s]
    OBVIOUS
  <2>8. EditorFits(d, t)
    BY <2>1, <2>2, <2>3, <2>6, <2>7, EditFits
  <2>9. /\ DOMAIN forms = Sets
        /\ \A q \in Sets : forms[q] # None => EditorFits(forms[q], sets[q])
    BY <2>4, <2>7, <2>8 DEF EditorInv
  <2>10. UNCHANGED <<sets, adding, sent>> /\ DOMAIN copy' = Admins
    BY <1>4 DEF Edit, EditorInv
  <2> QED
    BY <2>5, <2>9, <2>10, FormsKeepEditors
<1>5. ASSUME NEW a \in Admins, EditNew(a) PROVE EditorInv'
  <2>1. PICK id \in Sets, process \in ProcessTypes :
          adding' = [adding EXCEPT ![a] = [id |-> id,
                                           form |-> [adding[a].form EXCEPT !.process = process]]]
    BY <1>5 DEF EditNew
  <2>2. [adding[a].form EXCEPT !.process = process] \in FormValues
    <3>1. adding[a].form \in FormValues
      BY DEF EditorInv
    <3> QED
      BY <3>1 DEF FormValues
  <2>3. UNCHANGED <<sets, copy, editor, sent>>
    BY <1>5 DEF EditNew
  <2>4. ASSUME NEW r, SentFits(r) PROVE SentFits(r)'
    BY <2>3, <2>4 DEF SentFits
  <2>5. /\ DOMAIN adding' = Admins
        /\ \A b \in Admins :
             /\ DOMAIN adding'[b] = {"id", "form"}
             /\ adding'[b].form \in FormValues /\ (adding'[b].id # None => adding'[b].id \in Sets)
    BY <2>1, <2>2 DEF EditorInv
  <2> QED
    BY <2>3, <2>4, <2>5 DEF EditorInv
<1>6. ASSUME NEW a \in Admins, NEW s \in Sets, Save(a, s) PROVE EditorInv'
  <2>1. PICK ask :
          ask = [method |-> "update", id |-> s, input |-> ToInput(editor[a][s].form),
                     proof |-> badge[a], base |-> editor[a][s].base,
                     touched |-> editor[a][s].touched]
    OBVIOUS
  <2>2. PICK e, t : e = editor[a][s] /\ t = sets[s]
    OBVIOUS
  <2>3. EditorFits(e, t) /\ AskFor(a, ask)
    BY <1>6, <2>1, <2>2 DEF Save, EditorInv
  <2>4. e.form \in FormValues /\ e.base \in Nat
    BY <2>3 DEF EditorFits, SetEditor
  <2>5. PICK f : f = e.form
    OBVIOUS
  <2>6. /\ InputFits(ToInput(f)) /\ ToInput(f).check = f.check
        /\ ToInput(f).vote = f[Second(f.process)]
    BY <2>4, <2>5, InputOfForm
  <2>7. /\ ask.id = s /\ ask.method = "update" /\ ask.input = ToInput(f)
        /\ ask.base = e.base /\ ask.touched = e.touched
    BY <2>1, <2>2, <2>5
  <2>8. SaveFits(ask, t)
    BY <2>3, <2>4, <2>5, <2>6, <2>7 DEF EditorFits, SaveFits
  <2>9. SentFits(ask)
    BY <2>2, <2>6, <2>7, <2>8 DEF SentFits
  <2> QED
    BY <2>3, <2>9, AskKeepsEditors
<1>7. ASSUME NEW a \in Admins, NEW s \in Sets, Retire(a, s) PROVE EditorInv'
  <2>1. PICK ask : ask = [method |-> "retire", id |-> s, proof |-> badge[a]]
    OBVIOUS
  <2>2. AskFor(a, ask) /\ SentFits(ask)
    BY <1>7, <2>1 DEF Retire, SentFits
  <2> QED
    BY <2>2, AskKeepsEditors
<1>8. ASSUME NEW a \in Admins, Add(a) PROVE EditorInv'
  <2>1. PICK ask : ask = [method |-> "add", id |-> adding[a].id,
                                  input |-> ToInput(adding[a].form), proof |-> badge[a]]
    OBVIOUS
  <2>2. PICK f : f = adding[a].form
    OBVIOUS
  <2>3. f \in FormValues /\ adding[a].id \in Sets /\ AskFor(a, ask)
    BY <1>8, <2>1, <2>2 DEF Add, EditorInv
  <2>4. InputFits(ToInput(f))
    BY <2>3, InputOfForm
  <2>5. SentFits(ask)
    BY <2>1, <2>2, <2>3, <2>4 DEF SentFits
  <2> QED
    BY <2>3, <2>5, AskKeepsEditors
<1>9. ASSUME NEW a \in Admins, Refuse(a) PROVE EditorInv'
  <2>1. /\ DOMAIN sent' = Admins /\ \A b \in Admins : sent'[b] \subseteq sent[b]
        /\ UNCHANGED <<sets, copy, editor, adding>>
    BY <1>9 DEF Refuse, EditorInv
  <2>2. ASSUME NEW r, SentFits(r) PROVE SentFits(r)'
    BY <2>1, <2>2 DEF SentFits
  <2> QED
    BY <2>1, <2>2 DEF EditorInv
<1>10. ASSUME NEW a \in Admins, NEW b \in Admins, HandOver(a, b) PROVE EditorInv'
  <2>1. UNCHANGED <<sets, copy, editor, adding, sent>>
    BY <1>10 DEF HandOver
  <2>2. ASSUME NEW r, SentFits(r) PROVE SentFits(r)'
    BY <2>1, <2>2 DEF SentFits
  <2> QED
    BY <2>1, <2>2 DEF EditorInv
<1> QED
  BY <1>1, <1>2, <1>3, <1>4, <1>5, <1>6, <1>7, <1>8, <1>9, <1>10, CommitKeepsEditors
  DEF EditorNext

\* The invariant of the panels holds before the first is opened.
LEMMA EditorStart ==
  ASSUME EditorInit
  PROVE  EditorInv
<1>1. PICK v \in Values, others \in {"None", "MajorityJudgment"} :
        sets = [s \in Sets |->
                  IF s = DefaultSet THEN FirstVersion([process |-> "Standard", check |-> v,
                                                       vote |-> v, rerun |-> None])
                  ELSE IF others = "None" THEN None
                  ELSE FirstVersion([process |-> others, check |-> v, vote |-> v, rerun |-> v])]
  BY DEF EditorInit
<1>2. PICK i, j : /\ i = [process |-> "Standard", check |-> v, vote |-> v, rerun |-> None]
                  /\ j = [process |-> "MajorityJudgment", check |-> v, vote |-> v, rerun |-> v]
  OBVIOUS
<1>3. InputFits(i) /\ InputFits(j)
  BY <1>2 DEF InputFits, ProcessTypes
<1>4. SetFits(FirstVersion(i)) /\ SetFits(FirstVersion(j))
  BY <1>3, NewVersionFits DEF FirstVersion
<1>5. /\ DOMAIN sets = Sets
      /\ \A s \in Sets : sets[s] \in {None, FirstVersion(i), FirstVersion(j)}
  BY <1>1, <1>2
<1>6. EmptyForm \in FormValues
  BY EditorAssumption DEF EmptyForm, FormValues, ProcessTypes
<1>7. /\ copy = [a \in Admins |-> None] /\ editor = [a \in Admins |-> NoEditors]
      /\ adding = [a \in Admins |-> [id |-> None, form |-> EmptyForm]]
      /\ sent = [a \in Admins |-> {}]
  BY DEF EditorInit
<1> QED
  BY <1>4, <1>5, <1>6, <1>7 DEF EditorInv, NoEditors

\* Whoever edits and saves in between, an operator's edits arrive as they were typed, and
\* what is typed is kept for as long as its version stands (the admin panel, -admin).
THEOREM EditsAlwaysRespected == EditorSpec => EditsAreRespected
<1>1. ASSUME EditorInv, [EditorNext]_editorVars
      PROVE  \A a \in Admins : \A r \in sent[a] \ sent'[a] :
               r.method = "update" /\ sets'[r.id] # sets[r.id] /\ r.base = sets[r.id].version =>
                 /\ "check" \in r.touched \/ sets'[r.id].check = sets[r.id].check
                 /\ Second(sets[r.id].process) \in r.touched
                      \/ /\ sets'[r.id].vote = sets[r.id].vote
                         /\ sets'[r.id].rerun = sets[r.id].rerun
  <2> SUFFICES ASSUME NEW a \in Admins, NEW r \in sent[a] \ sent'[a], r.method = "update",
                      sets'[r.id] # sets[r.id], r.base = sets[r.id].version
               PROVE  /\ "check" \in r.touched \/ sets'[r.id].check = sets[r.id].check
                      /\ Second(sets[r.id].process) \in r.touched
                           \/ /\ sets'[r.id].vote = sets[r.id].vote
                              /\ sets'[r.id].rerun = sets[r.id].rerun
    OBVIOUS
  <2>1. Commit(a)
    <3>1. PICK b \in Admins : Commit(b)
      <4>1. sets' # sets
        OBVIOUS
      <4>2. ASSUME NEW b \in Admins,
                   \/ OpenPanel(b) \/ PanelFails(b) \/ EditNew(b) \/ Add(b) \/ Refuse(b)
                   \/ \E s \in Sets : Edit(b, s) \/ Save(b, s) \/ Retire(b, s)
                   \/ \E c \in Admins : HandOver(b, c)
            PROVE  sets' = sets
        BY <4>2 DEF OpenPanel, PanelFails, EditNew, Add, Edit, Save, Retire, AskFor, Refuse,
                    HandOver
      <4> QED
        BY <1>1, <4>1, <4>2 DEF EditorNext, editorVars
    <3>2. CASE b # a
      BY <3>1, <3>2, <1>1 DEF Commit, EditorInv
    <3> QED
      BY <3>1, <3>2
  <2>2. PICK q \in sent[a] : /\ Admitted(a, q)
                             /\ sets' = [sets EXCEPT ![q.id] = Written(q)]
                             /\ sent' = [sent EXCEPT ![a] = sent[a] \ {q}]
    BY <2>1 DEF Commit
  <2>3. q = r
    BY <1>1, <2>2 DEF EditorInv
  <2>4. /\ SetFits(Written(r)) /\ r.id \in Sets
        /\ sets[r.id] # None /\ sets[r.id].process = r.input.process
        /\ Written(r).check = r.input.check /\ Written(r).vote = r.input.vote
        /\ Written(r).rerun = r.input.rerun
    BY <1>1, <2>2, <2>3, WrittenFits
  <2>5. sets'[r.id] = Written(r)
    BY <1>1, <2>2, <2>3, <2>4 DEF EditorInv
  <2>6. PICK s, i : s = sets[r.id] /\ i = r.input
    OBVIOUS
  <2>7. SetFits(s) /\ SaveFits(r, s) /\ InputFits(i)
    BY <1>1, <2>4, <2>6 DEF EditorInv, SentFits
  <2>8. Agrees(i.check, i.vote, r.touched, s)
    BY <2>6, <2>7 DEF SaveFits
  <2>9. i.vote = s.vote => i.rerun = s.rerun
    BY <2>4, <2>6, <2>7 DEF SetFits, InputFits
  <2> QED
    BY <2>4, <2>5, <2>6, <2>8, <2>9 DEF Agrees
<1>2. ASSUME EditorInv, [EditorNext]_editorVars
      PROVE  \A a \in Admins, s \in Sets :
               editor[a][s] # None /\ copy'[a] # None /\ Active(copy'[a], s)
                 /\ copy'[a][s].version = editor[a][s].base =>
                 editor'[a][s] # None /\ editor[a][s].touched \subseteq editor'[a][s].touched
  <2> SUFFICES ASSUME NEW a \in Admins, NEW s \in Sets, editor[a][s] # None,
                      copy'[a] # None, Active(copy'[a], s),
                      copy'[a][s].version = editor[a][s].base
               PROVE  /\ editor'[a][s] # None
                      /\ editor[a][s].touched \subseteq editor'[a][s].touched
    OBVIOUS
  <2>1. CASE editor'[a] = editor[a]
    BY <2>1
  <2>2. ASSUME NEW registered, Reread(a, registered)
        PROVE  editor'[a][s] = editor[a][s]
    <3>1. copy'[a] = registered /\ editor'[a] = EditorsAfter(a, registered)
      BY <1>2, <2>2 DEF Reread, EditorInv
    <3> QED
      BY <3>1 DEF EditorsAfter
  <2>3. ASSUME NEW t \in Sets, Edit(a, t)
        PROVE  /\ editor'[a][s] # None
               /\ editor[a][s].touched \subseteq editor'[a][s].touched
    <3>1. PICK f \in {"check", Second(editor[a][t].form.process)}, v \in Values :
            editor' = [editor EXCEPT ![a][t].form[f] = v, ![a][t].touched = @ \cup {f}]
      BY <2>3 DEF Edit
    <3>2. CASE s # t
      <4>1. editor'[a][s] = editor[a][s]
        BY <1>2, <3>1, <3>2 DEF EditorInv
      <4> QED
        BY <4>1
    <3>3. CASE s = t
      <4>1. PICK e, d : /\ e = editor[a][s]
                        /\ d = [e EXCEPT !.form[f] = v, !.touched = @ \cup {f}]
        OBVIOUS
      <4>2. editor'[a][s] = d
        BY <1>2, <3>1, <3>3, <4>1 DEF EditorInv
      <4>3. PICK u : u = sets[s]
        OBVIOUS
      <4>4. EditorFits(e, u)
        BY <1>2, <4>1, <4>3 DEF EditorInv
      <4>5. EditorFits(d, u)
        BY <3>1, <3>3, <4>1, <4>4, EditFits
      <4>6. d # None
        BY <4>5, EditorAssumption DEF EditorFits
      <4>7. d.touched = e.touched \cup {f}
        BY <4>1, <4>4 DEF EditorFits, SetEditor
      <4> QED
        BY <4>1, <4>2, <4>6, <4>7
    <3> QED
      BY <3>2, <3>3
  <2>4. \/ editor'[a] = editor[a] \/ \E registered : Reread(a, registered)
        \/ \E t \in Sets : Edit(a, t)
    <3>1. CASE UNCHANGED editorVars
      BY <3>1 DEF editorVars
    <3>2. PICK b \in Admins :
            \/ OpenPanel(b) \/ PanelFails(b) \/ EditNew(b) \/ Add(b)
            \/ \E t \in Sets : Edit(b, t) \/ Save(b, t) \/ Retire(b, t)
            \/ Commit(b) \/ Refuse(b)
            \/ \E c \in Admins : HandOver(b, c)
          \/ UNCHANGED editorVars
      BY <1>2 DEF EditorNext
    <3>3. CASE OpenPanel(b) \/ Commit(b)
      <4>1. PICK registered : Reread(b, registered)
        BY <3>3 DEF OpenPanel, Commit
      <4> QED
        BY <1>2, <4>1 DEF Reread, EditorInv
    <3>4. CASE PanelFails(b)
      BY <1>2, <3>4 DEF PanelFails, EditorInv
    <3>5. ASSUME NEW t \in Sets, Edit(b, t) PROVE b = a \/ editor'[a] = editor[a]
      BY <1>2, <3>5 DEF Edit, EditorInv
    <3>6. CASE EditNew(b) \/ Add(b) \/ Refuse(b)
      BY <3>6 DEF EditNew, Add, AskFor, Refuse
    <3>7. ASSUME NEW t \in Sets, Save(b, t) \/ Retire(b, t) PROVE editor' = editor
      BY <3>7 DEF Save, Retire, AskFor
    <3>8. ASSUME NEW c \in Admins, HandOver(b, c) PROVE editor' = editor
      BY <3>8 DEF HandOver
    <3> QED
      BY <3>1, <3>2, <3>3, <3>4, <3>5, <3>6, <3>7, <3>8
  <2> QED
    BY <2>1, <2>2, <2>3, <2>4
<1>3. EditorInv /\ [EditorNext]_editorVars =>
        [\A a \in Admins : \A r \in sent[a] \ sent'[a] :
           r.method = "update" /\ sets'[r.id] # sets[r.id] /\ r.base = sets[r.id].version =>
             /\ "check" \in r.touched \/ sets'[r.id].check = sets[r.id].check
             /\ Second(sets[r.id].process) \in r.touched
                  \/ /\ sets'[r.id].vote = sets[r.id].vote
                     /\ sets'[r.id].rerun = sets[r.id].rerun]_editorVars
  BY <1>1
<1>4. EditorInv /\ [EditorNext]_editorVars =>
        [\A a \in Admins, s \in Sets :
           editor[a][s] # None /\ copy'[a] # None /\ Active(copy'[a], s)
             /\ copy'[a][s].version = editor[a][s].base =>
             editor'[a][s] # None /\ editor[a][s].touched \subseteq editor'[a][s].touched
        ]_editorVars
  BY <1>2
<1>5. EditorInit => EditorInv
  BY EditorStart
<1>6. EditorInv /\ [EditorNext]_editorVars => EditorInv'
  BY EditorStep
<1> QED
  BY <1>3, <1>4, <1>5, <1>6, PTL
  DEF EditorSpec, EditsAreRespected, SaveChangesOnlyEdits, DraftsAreKept

-----------------------------------------------------------------------------
(* The form that creates a temperature check *)

\* What the form can hold, and the list it follows.
EntryTypes ==
  /\ DOMAIN entry = {"profile", "process", "options", "pick", "abstain", "candidates"}
  /\ entry.process \in Processes
  /\ entry.options \in Nat /\ entry.options >= 2
  /\ entry.pick \in Nat /\ entry.pick >= 1
  /\ entry.candidates \in Nat
  /\ listed # None => listed \subseteq DOMAIN Profiles

\* A single choice asked for by an account without the badge offers Abstain.
AskedWithAbstain(a) ==
  a.input.process = "Standard" /\ a.input.pick = 1 /\ ~a.operator => a.input.abstain

\* The inductive invariant of the form: the page takes nobody for an operator who is none,
\* and what is under way keeps the promises of what is created.
FormInv ==
  /\ EntryTypes
  /\ isAdmin => operator
  /\ DOMAIN asked = Processes
  /\ \A p \in Processes : asked[p] # None => AskedWithAbstain(asked[p])
  /\ FormsAreHonoured

\* The process of a profile on the list is one of the two.
LEMMA ProcessIsKnown ==
  ASSUME NEW p, NEW s, s # None => s \subseteq DOMAIN Profiles
  PROVE  ProcessOf(p, s) \in Processes
  BY FormAssumption DEF ProcessOf, Processes

\* A form that is changed by hand keeps its types.
LEMMA ChangedKeepsForm ==
  ASSUME FormInv, NEW next, Changed(next),
         DOMAIN next = DOMAIN entry, next.process \in Processes,
         next.options \in Nat, next.options >= 2, next.pick \in Nat, next.pick >= 1,
         next.candidates \in Nat
  PROVE  FormInv'
  BY DEF FormInv, Changed, EntryTypes, AskedWithAbstain, FormsAreHonoured, ValidFormsAreBuilt,
         AbstainUnlessOperator

\* A valid form can be built, but for the number of selections.
LEMMA ValidIsBuildable ==
  ASSUME EntryTypes, Valid(entry, isAdmin), ~Buildable(FollowUp(entry, isAdmin))
  PROVE  /\ FollowUp(entry, isAdmin).process = "Standard"
         /\ FollowUp(entry, isAdmin).pick > MaxPick
<1> USE FormAssumption
<1>1. CASE entry.process = "Standard"
  <2> DEFINE input == FollowUp(entry, isAdmin)
  <2>1. /\ input.process = "Standard" /\ input.pick = entry.pick
        /\ input.options = entry.options + (IF WithAbstain(entry, isAdmin) THEN 1 ELSE 0)
    BY <1>1 DEF FollowUp
  <2>2. input.options \in 2 .. MaxOptions
    BY <1>1, <2>1 DEF EntryTypes, Valid
  <2> HIDE DEF input
  <2>3. ~(input.pick \in 1 .. MaxPick)
    BY <2>1, <2>2 DEF Buildable, input
  <2> QED
    BY <2>1, <2>3 DEF EntryTypes, input
<1>2. CASE entry.process # "Standard"
  <2>1. /\ FollowUp(entry, isAdmin).process = "MajorityJudgment"
        /\ FollowUp(entry, isAdmin).candidates = entry.candidates
    BY <1>2 DEF FollowUp
  <2> QED
    BY <1>2, <2>1 DEF Valid, Buildable
<1> QED
  BY <1>1, <1>2

\* Every step keeps the invariant of the form.
LEMMA FormStep ==
  ASSUME FormInv, [NewFormNext]_newFormVars
  PROVE  FormInv'
<1> USE DEF FormsAreHonoured
<1>1. CASE UNCHANGED newFormVars
  BY <1>1 DEF newFormVars, FormInv, EntryTypes, AskedWithAbstain, ValidFormsAreBuilt,
              AbstainUnlessOperator
<1>2. CASE ListProfiles
  <2>1. PICK found \in {DOMAIN Profiles \ retired, None} :
          /\ listed' = found
          /\ entry' = [entry EXCEPT !.process = ProcessOf(entry.profile, found)]
    BY <1>2 DEF ListProfiles
  <2>2. listed' # None => listed' \subseteq DOMAIN Profiles
    BY <2>1
  <2>3. ProcessOf(entry.profile, found) \in Processes
    BY <2>1, <2>2, ProcessIsKnown
  <2>4. EntryTypes'
    BY <2>1, <2>2, <2>3 DEF FormInv, EntryTypes
  <2> QED
    BY <1>2, <2>4 DEF ListProfiles, FormInv, AskedWithAbstain, ValidFormsAreBuilt,
                      AbstainUnlessOperator
<1>3. CASE LookUpBadge \/ SwitchToOther \/ RetireProfile
  BY <1>3 DEF LookUpBadge, SwitchToOther, RetireProfile, FormInv, EntryTypes, AskedWithAbstain,
              ValidFormsAreBuilt, AbstainUnlessOperator
<1>4. CASE SelectProfile
  <2>1. PICK p \in listed :
          Changed([entry EXCEPT !.profile = p, !.process = ProcessOf(p, listed)])
    BY <1>4 DEF SelectProfile
  <2>2. ProcessOf(p, listed) \in Processes
    BY ProcessIsKnown DEF FormInv, EntryTypes
  <2>3. PICK next : next = [entry EXCEPT !.profile = p, !.process = ProcessOf(p, listed)]
    OBVIOUS
  <2> QED
    BY <2>1, <2>2, <2>3, ChangedKeepsForm DEF FormInv, EntryTypes
<1>5. CASE AddOption
  <2>1. PICK next : next = [entry EXCEPT !.options = @ + 1]
    OBVIOUS
  <2> QED
    BY <1>5, <2>1, ChangedKeepsForm DEF AddOption, FormInv, EntryTypes
<1>6. CASE RemoveOption
  <2>1. PICK next :
          next = [entry EXCEPT !.options = @ - 1,
                    !.pick = IF @ > entry.options - 1 THEN entry.options - 1 ELSE @]
    OBVIOUS
  <2>2. Changed(next) /\ entry.options > 2
    BY <1>6, <2>1 DEF RemoveOption
  <2>3. EntryTypes
    BY DEF FormInv
  <2>4. /\ DOMAIN next = DOMAIN entry /\ next.process = entry.process
        /\ next.options = entry.options - 1 /\ next.candidates = entry.candidates
        /\ next.pick \in {entry.pick, entry.options - 1}
    BY <2>1, <2>3 DEF EntryTypes
  <2>5. /\ next.options \in Nat /\ next.options >= 2 /\ next.pick \in Nat /\ next.pick >= 1
        /\ next.process \in Processes /\ next.candidates \in Nat
    BY <2>2, <2>3, <2>4 DEF EntryTypes
  <2> QED
    BY <2>2, <2>4, <2>5, ChangedKeepsForm
<1>7. CASE ChoosePick
  <2>1. PICK n \in 1 .. MaxOptions :
          Changed([entry EXCEPT !.pick = IF n > entry.options THEN entry.options ELSE n])
    BY <1>7 DEF ChoosePick
  <2>2. PICK next : next = [entry EXCEPT !.pick = IF n > entry.options THEN entry.options ELSE n]
    OBVIOUS
  <2> QED
    BY <2>1, <2>2, FormAssumption, ChangedKeepsForm DEF FormInv, EntryTypes
<1>8. CASE TickAbstain
  <2>1. PICK next : next = [entry EXCEPT !.abstain = ~@]
    OBVIOUS
  <2> QED
    BY <1>8, <2>1, ChangedKeepsForm DEF TickAbstain, FormInv, EntryTypes
<1>9. CASE ChangeCandidates
  <2>1. CASE entry.candidates < MaxCandidates /\ Changed([entry EXCEPT !.candidates = @ + 1])
    <3>1. PICK next : next = [entry EXCEPT !.candidates = @ + 1]
      OBVIOUS
    <3> QED
      BY <2>1, <3>1, ChangedKeepsForm DEF FormInv, EntryTypes
  <2>2. CASE entry.candidates > 1 /\ Changed([entry EXCEPT !.candidates = @ - 1])
    <3>1. PICK next : next = [entry EXCEPT !.candidates = @ - 1]
      OBVIOUS
    <3> QED
      BY <2>2, <3>1, ChangedKeepsForm DEF FormInv, EntryTypes
  <2> QED
    BY <1>9, <2>1, <2>2 DEF ChangeCandidates
<1>10. CASE SubmitForm
  <2>1. PICK input : input = FollowUp(entry, isAdmin)
    OBVIOUS
  <2>2. /\ UNCHANGED <<listed, operator, isAdmin, entry, created>>
        /\ Valid(entry, isAdmin)
        /\ \/ /\ asked' = [asked EXCEPT ![entry.process] =
                             [input |-> input, operator |-> operator]]
              /\ unbuilt' = unbuilt
           \/ /\ ~Buildable(input)
              /\ unbuilt' = unbuilt \cup {input} /\ asked' = asked
    BY <1>10, <2>1 DEF SubmitForm
  <2>3. AskedWithAbstain([input |-> input, operator |-> operator])
    <3>1. CASE entry.process = "Standard"
      <4>1. input.pick = entry.pick /\ input.abstain = WithAbstain(entry, isAdmin)
        BY <2>1, <3>1 DEF FollowUp
      <4> QED
        BY <4>1 DEF AskedWithAbstain, WithAbstain, FormInv
    <3>2. CASE entry.process # "Standard"
      <4>1. input.process = "MajorityJudgment"
        BY <2>1, <3>2 DEF FollowUp
      <4> QED
        BY <4>1 DEF AskedWithAbstain
    <3> QED
      BY <3>1, <3>2
  <2>4. ~Buildable(input) => input.process = "Standard" /\ input.pick > MaxPick
    BY <2>1, <2>2, ValidIsBuildable DEF FormInv
  <2>5. EntryTypes' /\ DOMAIN asked' = Processes /\ AbstainUnlessOperator'
        /\ (isAdmin' => operator')
    BY <2>2 DEF FormInv, EntryTypes, AbstainUnlessOperator
  <2>6. ValidFormsAreBuilt'
    BY <2>2, <2>4 DEF FormInv, ValidFormsAreBuilt
  <2>7. \A p \in Processes : asked'[p] # None => AskedWithAbstain(asked'[p])
    BY <2>2, <2>3 DEF FormInv
  <2> QED
    BY <2>5, <2>6, <2>7 DEF FormInv, AskedWithAbstain
<1>11. ASSUME NEW p \in Processes, Create(p) PROVE FormInv'
  BY <1>11 DEF Create, FormInv, EntryTypes, AskedWithAbstain, ValidFormsAreBuilt,
               AbstainUnlessOperator
<1>12. ASSUME NEW p \in Processes, NotCreated(p) PROVE FormInv'
  BY <1>12 DEF NotCreated, FormInv, EntryTypes, AskedWithAbstain, ValidFormsAreBuilt,
               AbstainUnlessOperator
<1> QED
  BY <1>1, <1>2, <1>3, <1>4, <1>5, <1>6, <1>7, <1>8, <1>9, <1>10, <1>11, <1>12 DEF NewFormNext

\* However the options, the selections and the account change before a temperature check is
\* submitted, what was validated can be built, and a single choice by an account without the
\* badge offers Abstain (TemperatureCheckForm.tsx, temperatureCheckFollowUp).
THEOREM FormsAlwaysHonoured == NewFormSpec => []FormsAreHonoured
<1>1. FormInit => FormInv
  BY FormAssumption DEF FormInit, FormInv, EntryTypes, FormsAreHonoured, ValidFormsAreBuilt,
         AbstainUnlessOperator, Processes
<1>2. FormInv /\ [NewFormNext]_newFormVars => FormInv'
  BY FormStep
<1>3. FormInv => FormsAreHonoured
  BY DEF FormInv
<1> QED
  BY <1>1, <1>2, <1>3, PTL DEF NewFormSpec

-----------------------------------------------------------------------------
(* The lists *)

\* The list of count ids in an order.
WholeList(order, count) == [i \in 1 .. count |-> IF order = "asc" THEN i - 1 ELSE count - i]

\* As many pages as are needed for so many ids, and no more.
LEMMA PagesReachTheEnd ==
  ASSUME NEW c \in Nat
  PROVE  /\ TotalPages(c) \in Nat /\ c <= TotalPages(c) * ItemsPerPage
         /\ \A p \in 1 .. TotalPages(c) : (p - 1) * ItemsPerPage < c
<1> DEFINE I == ItemsPerPage
           t == (c + I - 1) \div I
<1>1. I \in Nat \ {0}
  BY ListAssumption
<1>2. t \in Nat /\ t * I <= c + I - 1 /\ c + I - 1 < t * I + I
  BY <1>1, Z3
<1> HIDE DEF I, t
<1>3. ASSUME NEW p \in 1 .. t PROVE (p - 1) * I < c
  <2>1. p \in Nat /\ p <= t
    BY <1>2
  <2>2. p * I <= t * I /\ p * I \in Nat /\ t * I \in Nat /\ (p - 1) * I = p * I - I
    BY <1>1, <1>2, <2>1, Z3
  <2>3. QED BY <1>1, <1>2, <2>2
<1>4. c <= t * I
  BY <1>1, <1>2, Z3
<1>5. QED BY <1>2, <1>3, <1>4 DEF I, t, TotalPages

\* A page below the end shows what comes next of the list, and a page behind it nothing.
LEMMA PageIsSlice ==
  ASSUME NEW c \in Nat, NEW order \in Orders, NEW p \in Nat \ {0}
  PROVE  LET first == (p - 1) * ItemsPerPage
             ids == PageIds(p, order, c)
         IN  /\ first \in Nat
             /\ first < c =>
                  /\ ids = SubSeq(WholeList(order, c), first + 1,
                                  Lower(p * ItemsPerPage, c))
                  /\ ids # <<>>
             /\ first >= c => ids = <<>>
             /\ \E n \in Nat : ids \in [1 .. n -> Ids(c)]
<1> DEFINE I == ItemsPerPage
           m == (p - 1) * I
           ids == PageIds(p, order, c)
           n == Lower(m + I, c) - m
<1>1. I \in Nat \ {0} /\ p - 1 \in Nat
  BY ListAssumption
<1>2. m \in Nat /\ p * I = m + I
  BY <1>1, Z3
<1> HIDE DEF I, m
<1>3. ASSUME m >= c PROVE ids = <<>> /\ \E k \in Nat : ids \in [1 .. k -> Ids(c)]
  <2>1. ids = <<>>
    <3>1. CASE order = "desc"
      BY <1>2, <1>3, <3>1 DEF I, m, PageIds, PageIdsDescending
    <3>2. CASE order = "asc"
      BY <1>2, <1>3, <3>2 DEF I, m, PageIds, PageIdsAscending
    <3>3. QED BY <3>1, <3>2 DEF Orders
  <2>2. <<>> \in [1 .. 0 -> Ids(c)]
    OBVIOUS
  <2>3. QED BY <2>1, <2>2
<1>4. ASSUME m < c
      PROVE  /\ n \in Nat \ {0} /\ m + n = Lower(m + I, c) /\ m + n <= c
             /\ ids = [i \in 1 .. n |-> WholeList(order, c)[i + m]]
  <2>1. n \in Nat \ {0} /\ m + n = Lower(m + I, c) /\ m + n <= c
    BY <1>1, <1>2, <1>4 DEF Lower
  <2>2. \A i \in 1 .. n : WholeList(order, c)[i + m] =
                            IF order = "asc" THEN i + m - 1 ELSE c - (i + m)
    BY <1>2, <2>1 DEF WholeList
  <2>3. CASE order = "desc"
    <3>1. ids = [i \in 1 .. (c - 1 - m) - Higher(c - 1 - m - I + 1, 0) + 1 |->
                   c - 1 - m - i + 1]
      BY <1>2, <1>4, <2>3 DEF I, m, PageIds, PageIdsDescending
    <3>2. (c - 1 - m) - Higher(c - 1 - m - I + 1, 0) + 1 = n
      BY <1>1, <1>2, <1>4 DEF Higher, Lower
    <3>3. \A i \in 1 .. n : c - 1 - m - i + 1 = WholeList(order, c)[i + m]
      BY <1>2, <2>1, <2>2, <2>3
    <3> HIDE DEF ids, n
    <3>4. QED BY <2>1, <3>1, <3>2, <3>3
  <2>4. CASE order = "asc"
    <3>1. ids = [i \in 1 .. Lower(m + I - 1, c - 1) - m + 1 |-> m + i - 1]
      BY <1>2, <1>4, <2>4 DEF I, m, PageIds, PageIdsAscending
    <3>2. Lower(m + I - 1, c - 1) - m + 1 = n
      BY <1>1, <1>2, <1>4 DEF Lower
    <3>3. \A i \in 1 .. n : m + i - 1 = WholeList(order, c)[i + m]
      BY <1>2, <2>1, <2>2, <2>4
    <3> HIDE DEF ids, n
    <3>4. QED BY <2>1, <3>1, <3>2, <3>3
  <2>5. QED BY <2>1, <2>3, <2>4 DEF Orders
<1>5. ASSUME m < c
      PROVE  /\ ids = SubSeq(WholeList(order, c), m + 1, Lower(p * I, c)) /\ ids # <<>>
             /\ \E k \in Nat : ids \in [1 .. k -> Ids(c)]
  <2> DEFINE w == WholeList(order, c)
  <2>1. w \in Seq(Ids(c)) /\ Len(w) = c /\ \A i \in 1 .. c : w[i] \in Ids(c)
    <3>1. w \in [1 .. c -> Ids(c)]
      BY DEF WholeList, Ids
    <3>2. QED BY <3>1
  <2> HIDE DEF w, ids, n
  <2>2. SubSeq(w, m + 1, m + n) = [i \in 1 .. n |-> w[i + m]]
    BY <1>2, <1>4, <1>5, <2>1
  <2>3. ids = [i \in 1 .. n |-> w[i + m]] /\ n \in Nat \ {0} /\ m + n <= c
        /\ m + n = Lower(m + I, c)
    BY <1>4, <1>5 DEF w
  <2>4. \A i \in 1 .. n : w[i + m] \in Ids(c)
    BY <1>2, <2>1, <2>3
  <2>5. ids \in [1 .. n -> Ids(c)] /\ ids # <<>>
    BY <2>3, <2>4
  <2>6. QED BY <1>2, <2>2, <2>3, <2>5 DEF w
<1>6. QED BY <1>2, <1>3, <1>5 DEF I, m

\* Whatever the ledger holds, the pages show it, once and in order.
LEMMA PagesAlwaysPartition ==
  ASSUME Len(checks) \in Nat
  PROVE  PagesPartition
<1> SUFFICES ASSUME NEW order \in Orders
             PROVE  LET count == Len(checks)
                        whole == WholeList(order, count)
                        Upto(p) == Lower(p * ItemsPerPage, count)
                    IN  /\ \A p \in 1 .. TotalPages(count) :
                             /\ PageIds(p, order, count) = SubSeq(whole, Upto(p - 1) + 1, Upto(p))
                             /\ PageIds(p, order, count) # <<>>
                        /\ Upto(TotalPages(count)) = count
                        /\ PageIds(TotalPages(count) + 1, order, count) = <<>>
  BY DEF PagesPartition, WholeList
<1> DEFINE c == Len(checks)
           t == TotalPages(c)
<1>1. /\ t \in Nat /\ c <= t * ItemsPerPage
      /\ \A p \in 1 .. t : (p - 1) * ItemsPerPage < c
  BY PagesReachTheEnd
<1> HIDE DEF t
<1>2. ASSUME NEW p \in 1 .. t
      PROVE  /\ PageIds(p, order, c) = SubSeq(WholeList(order, c),
                  Lower((p - 1) * ItemsPerPage, c) + 1, Lower(p * ItemsPerPage, c))
             /\ PageIds(p, order, c) # <<>>
  <2>1. p \in Nat \ {0} /\ (p - 1) * ItemsPerPage < c
    BY <1>1
  <2>2. (p - 1) * ItemsPerPage \in Nat
    BY <2>1, PageIsSlice
  <2>3. Lower((p - 1) * ItemsPerPage, c) = (p - 1) * ItemsPerPage
    BY <2>1, <2>2 DEF Lower
  <2>4. QED BY <2>1, <2>3, PageIsSlice
<1>3. Lower(t * ItemsPerPage, c) = c /\ PageIds(t + 1, order, c) = <<>>
  <2>1. t + 1 \in Nat \ {0} /\ (t + 1) - 1 = t
    BY <1>1
  <2>2. t * ItemsPerPage \in Nat
    BY <2>1, PageIsSlice
  <2>3. PageIds(t + 1, order, c) = <<>>
    BY <1>1, <2>1, <2>2, PageIsSlice
  <2>4. QED BY <1>1, <2>2, <2>3 DEF Lower
<1>4. QED BY <1>2, <1>3 DEF t

\* The ledger knows the ids below its count, and returns their entries as they were asked for.
LEMMA KnownAreAll ==
  ASSUME NEW n \in Nat, NEW stored, NEW ids \in [1 .. n -> Ids(Len(stored))]
  PROVE  KnownEntries(ids, stored) = ids
<1> DEFINE S == {i \in DOMAIN ids : ids[i] \in Ids(Len(stored))}
<1>1. KnownEntries(ids, stored) = [i \in DOMAIN Ascending(S) |-> ids[Ascending(S)[i]]]
  BY DEF KnownEntries, Filtered, Sorted, Ascending, NumberBelow
<1>2. S = 1 .. n
  OBVIOUS
<1> HIDE DEF S
<1>3. Ascending(S) = [i \in 1 .. n |-> i]
  BY <1>2, AscendingAll
<1>4. QED BY <1>1, <1>3

\* The registry lists each check that leads to an election.
LEMMA ElectionsAreListed ==
  ASSUME NEW stored, Len(stored) \in Nat
  PROVE  /\ \E n \in Nat : DOMAIN ElectionChecks(stored) = 1 .. n
         /\ \A id \in Ids(Len(stored)) :
              stored[id + 1] = "Election" => id \in ToSet(ElectionChecks(stored))
<1> DEFINE ids == [i \in 1 .. Len(stored) |-> i - 1]
           S == {i \in DOMAIN ids : stored[ids[i] + 1] = "Election"}
<1>1. ElectionChecks(stored) = [i \in DOMAIN Ascending(S) |-> ids[Ascending(S)[i]]]
  BY DEF ElectionChecks, Filtered, Sorted, Ascending, NumberBelow
<1>2. S \in SUBSET (1 .. Len(stored)) /\ S \in SUBSET Nat
  OBVIOUS
<1>3. \A id \in Ids(Len(stored)) : stored[id + 1] = "Election" => id + 1 \in S /\ ids[id + 1] = id
  BY DEF Ids
<1> HIDE DEF S, ids
<1>a. IsFiniteSet(1 .. Len(stored))
  BY FS_Interval
<1>4. IsFiniteSet(S)
  BY <1>2, <1>a, FS_Subset
<1>5. /\ Cardinality(S) \in Nat /\ DOMAIN Ascending(S) = 1 .. Cardinality(S)
      /\ \A x \in S : \E i \in 1 .. Cardinality(S) : Ascending(S)[i] = x
  BY <1>2, <1>4, AscendingEnumerates
<1>6. ASSUME NEW id \in Ids(Len(stored)), stored[id + 1] = "Election"
      PROVE  id \in ToSet(ElectionChecks(stored))
  <2>1. PICK i \in DOMAIN Ascending(S) : Ascending(S)[i] = id + 1
    BY <1>3, <1>5, <1>6
  <2>2. i \in DOMAIN ElectionChecks(stored) /\ ElectionChecks(stored)[i] = id
    BY <1>1, <1>3, <1>6, <2>1
  <2>3. QED BY <2>2 DEF ToSet
<1>7. DOMAIN ElectionChecks(stored) = 1 .. Cardinality(S)
  BY <1>1, <1>5
<1>8. QED BY <1>5, <1>6, <1>7

\* An election is joined when its check is known and leads to one.
LEMMA JoinedAreListed ==
  ASSUME NEW n \in Nat, NEW elections, DOMAIN elections = 1 .. n, NEW known,
         NEW id \in ToSet(elections), id < Len(known), known[id + 1] = "Election"
  PROVE  id \in ToSet(Joined(elections, known))
<1> DEFINE S == {i \in DOMAIN elections :
                   elections[i] < Len(known) /\ known[elections[i] + 1] = "Election"}
<1>1. Joined(elections, known) = [i \in DOMAIN Ascending(S) |-> elections[Ascending(S)[i]]]
  BY DEF Joined, Filtered, Sorted, Ascending, NumberBelow
<1>2. PICK k \in 1 .. n : elections[k] = id
  BY DEF ToSet
<1>3. S \in SUBSET (1 .. n) /\ S \in SUBSET Nat /\ k \in S
  BY <1>2
<1> HIDE DEF S
<1>a. IsFiniteSet(1 .. n)
  BY FS_Interval
<1>4. IsFiniteSet(S)
  BY <1>3, <1>a, FS_Subset
<1>5. PICK i \in 1 .. Cardinality(S) : Ascending(S)[i] = k
  BY <1>3, <1>4, AscendingEnumerates
<1>6. i \in DOMAIN Ascending(S)
  BY <1>3, <1>4, AscendingEnumerates
<1>7. i \in DOMAIN Joined(elections, known) /\ Joined(elections, known)[i] = id
  BY <1>1, <1>2, <1>5, <1>6
<1>8. QED BY <1>7 DEF ToSet

\* A reader who began when the ledger held begun checks, and what has been read for it: all
\* the elections among those, and those checks themselves, as they still are.
HasElections(elections, begun) ==
  /\ \E n \in Nat : DOMAIN elections = 1 .. n
  /\ \A id \in Ids(begun) : checks[id + 1] = "Election" => id \in ToSet(elections)

HasChecks(known, begun) ==
  /\ Len(known) \in Nat /\ begun <= Len(known)
  /\ \A id \in Ids(begun) : known[id + 1] = checks[id + 1]

\* The inductive invariant of the lists.
ListInv ==
  /\ checks \in Seq({"Proposal", "Election"})
  /\ listing.page \in Int /\ listing.count \in Nat /\ EntriesKeepTheirIds
  /\ paging # None =>
       /\ paging.page \in Nat \ {0} /\ paging.order \in Orders
       /\ paging.count \in 0 .. Len(checks)
  /\ joining # None =>
       /\ joining = [begun |-> joining.begun, elections |-> joining.elections,
                     counted |-> joining.counted, checks |-> joining.checks]
       /\ joining.begun \in 0 .. Len(checks)
       /\ joining.elections # None => HasElections(joining.elections, joining.begun)
       /\ joining.checks # None => HasChecks(joining.checks, joining.begun)
  /\ electionList # None => electionList.begun \in 0 .. Len(checks)
  /\ SettledElectionsAreListed

\* The links lead to pages.
LEMMA LinksArePages ==
  ASSUME NEW current \in Int, NEW pages \in Nat, NEW p \in {1} \cup PageLinks(current, pages)
  PROVE  p \in Nat \ {0}
<1>1. CASE pages <= 7
  BY <1>1 DEF PageLinks
<1>2. CASE ~ pages <= 7
  BY <1>2 DEF PageLinks, Higher, Lower
<1>3. QED BY <1>1, <1>2

\* A page that is read shows entries under the ids they were asked for.
LEMMA PageReadKeepsIds ==
  ASSUME ListInv, PageRead
  PROVE  ListInv'
<1> DEFINE ids == PageIds(paging.page, paging.order, paging.count)
<1>1. /\ paging.page \in Nat \ {0} /\ paging.order \in Orders
      /\ paging.count \in Nat /\ paging.count <= Len(checks) /\ Len(checks) \in Nat
  BY DEF PageRead, ListInv
<1>2. PICK n \in Nat : ids \in [1 .. n -> Ids(Len(checks))]
  <2>1. PICK n \in Nat : ids \in [1 .. n -> Ids(paging.count)]
    BY <1>1, PageIsSlice
  <2>2. Ids(paging.count) \subseteq Ids(Len(checks))
    BY <1>1 DEF Ids
  <2> HIDE DEF ids
  <2>3. ids \in [1 .. n -> Ids(Len(checks))]
    BY <2>1, <2>2
  <2>4. QED BY <2>3
<1>3. KnownEntries(ids, checks) = ids
  BY <1>2, KnownAreAll
<1>4. /\ listing' = [page |-> paging.page, order |-> paging.order, count |-> paging.count,
                     items |-> Labelled(ids, KnownEntries(ids, checks))]
      /\ paging' = None /\ UNCHANGED <<checks, joining, electionList, reads>>
  BY DEF PageRead
<1> HIDE DEF ids
<1>5. Len(ids) \in Nat /\ DOMAIN ids = 1 .. Len(ids)
  BY <1>2
<1>6. EntriesKeepTheirIds'
  <2>1. listing'.items = [i \in 1 .. Len(ids) |-> [label |-> ids[i], check |-> ids[i]]]
    BY <1>3, <1>4 DEF Labelled
  <2>2. QED BY <2>1, <1>5 DEF EntriesKeepTheirIds
<1>7. listing'.page \in Int /\ listing'.count \in Nat
  BY <1>1, <1>4
<1>8. SettledElectionsAreListed'
  BY <1>4 DEF ListInv, SettledElectionsAreListed
<1>9. QED BY <1>4, <1>6, <1>7, <1>8 DEF ListInv, HasElections, HasChecks

\* Every step of the lists keeps the invariant.
LEMMA ListStep ==
  ASSUME ListInv, [ListNext]_listVars
  PROVE  ListInv'
<1> USE DEF ListInv
<1>0. Len(checks) \in Nat
  OBVIOUS
<1>1. CASE UNCHANGED listVars
  BY <1>1 DEF listVars, EntriesKeepTheirIds, SettledElectionsAreListed, HasElections, HasChecks
<1>2. CASE CreateCheck
  <2>1. /\ checks' \in Seq({"Proposal", "Election"}) /\ Len(checks') = Len(checks) + 1
        /\ \A id \in Ids(Len(checks)) : checks'[id + 1] = checks[id + 1]
        /\ UNCHANGED <<listing, paging, joining, electionList, reads>>
    BY <1>2 DEF CreateCheck, Ids
  <2>2. \A n \in 0 .. Len(checks) : Ids(n) \subseteq Ids(Len(checks))
    BY <1>0 DEF Ids
  <2>3. EntriesKeepTheirIds'
    BY <2>1 DEF EntriesKeepTheirIds
  <2>4. joining # None =>
          /\ joining.elections # None => HasElections(joining.elections, joining.begun)'
          /\ joining.checks # None => HasChecks(joining.checks, joining.begun)'
    BY <2>1, <2>2 DEF HasElections, HasChecks
  <2>5. SettledElectionsAreListed'
    BY <2>1, <2>2 DEF SettledElectionsAreListed
  <2>6. \A n \in 0 .. Len(checks) : n \in 0 .. Len(checks')
    BY <2>1, <1>0
  <2>7. QED BY <2>1, <2>3, <2>4, <2>5, <2>6
<1>3. CASE ChoosePage
  <2>1. PICK order \in Orders, p \in {1} \cup PageLinks(listing.page, TotalPages(listing.count)) :
          paging' = [page |-> p, order |-> order, count |-> Len(checks)]
    BY <1>3 DEF ChoosePage
  <2>2. p \in Nat \ {0}
    BY <2>1, LinksArePages, PagesReachTheEnd
  <2>3. UNCHANGED <<checks, listing, joining, electionList>>
    BY <1>3 DEF ChoosePage
  <2>4. QED BY <1>0, <2>1, <2>2, <2>3 DEF EntriesKeepTheirIds, SettledElectionsAreListed,
                                        HasElections, HasChecks
<1>4. CASE PageRead
  BY <1>4, PageReadKeepsIds
<1>5. CASE OpenElections
  BY <1>0, <1>5 DEF OpenElections, EntriesKeepTheirIds, SettledElectionsAreListed
<1>6. CASE ReadElections
  <2>1. HasElections(ElectionChecks(checks), joining.begun)
    <3>1. Ids(joining.begun) \subseteq Ids(Len(checks))
      BY <1>0, <1>6 DEF ReadElections, Ids
    <3>2. QED BY <1>0, <3>1, ElectionsAreListed DEF HasElections
  <2>2. /\ joining' = [joining EXCEPT !.elections = ElectionChecks(checks)]
        /\ joining # None
        /\ UNCHANGED <<checks, listing, paging, electionList, reads>>
    BY <1>6 DEF ReadElections
  <2>3. QED BY <2>1, <2>2 DEF EntriesKeepTheirIds, SettledElectionsAreListed,
                              HasElections, HasChecks
<1>7. CASE CountChecks
  <2>1. checks = <<>> => HasChecks(<<>>, joining.begun)
    BY <1>0, <1>7 DEF CountChecks, HasChecks, Ids
  <2>2. /\ joining' = [joining EXCEPT !.counted = Len(checks),
                                      !.checks = IF checks = <<>> THEN <<>> ELSE None]
        /\ joining # None
        /\ UNCHANGED <<checks, listing, paging, electionList, reads>>
    BY <1>7 DEF CountChecks
  <2>3. QED BY <2>1, <2>2 DEF EntriesKeepTheirIds, SettledElectionsAreListed,
                              HasElections, HasChecks
<1>8. CASE ReadChecks
  <2>1. HasChecks(checks, joining.begun)
    BY <1>0, <1>8 DEF ReadChecks, HasChecks
  <2>2. /\ joining' = [joining EXCEPT !.checks = checks] /\ joining # None
        /\ UNCHANGED <<checks, listing, paging, electionList, reads>>
    BY <1>8 DEF ReadChecks
  <2>3. QED BY <2>1, <2>2 DEF EntriesKeepTheirIds, SettledElectionsAreListed,
                              HasElections, HasChecks
<1>9. CASE Join
  <2>1. /\ electionList' = [begun |-> joining.begun,
                            ids |-> Joined(joining.elections, joining.checks)]
        /\ joining' = None
        /\ UNCHANGED <<checks, listing, paging, reads>>
    BY <1>9 DEF Join
  <2>2. /\ HasElections(joining.elections, joining.begun)
        /\ HasChecks(joining.checks, joining.begun)
        /\ joining.begun \in 0 .. Len(checks)
    BY <1>9 DEF Join
  <2>3. ASSUME NEW id \in Ids(joining.begun), checks[id + 1] = "Election"
        PROVE  id \in ToSet(Joined(joining.elections, joining.checks))
    <3>1. id < Len(joining.checks) /\ joining.checks[id + 1] = "Election"
      BY <2>2, <2>3 DEF HasChecks, Ids
    <3>2. QED BY <2>2, <2>3, <3>1, JoinedAreListed DEF HasElections
  <2>4. SettledElectionsAreListed'
    BY <2>1, <2>3 DEF SettledElectionsAreListed
  <2>5. QED BY <2>1, <2>2, <2>4 DEF EntriesKeepTheirIds
<1>10. QED BY <1>1, <1>2, <1>3, <1>4, <1>5, <1>6, <1>7, <1>8, <1>9 DEF ListNext

\* Although checks are created between the reads of a list, and the two reads of the
\* elections see different ledgers: a card links to the check it shows, the pages show each
\* check once, and no election is missing that was there when the list was asked for
\* (getPaginatedTemperatureChecks, majorityJudgmentElectionsAtom).
THEOREM ListsAlwaysFaithful == ListSpec => []ListsAreFaithful
<1>1. ListInit => ListInv
  <2>1. <<>> \in Seq({"Proposal", "Election"})
    OBVIOUS
  <2>2. QED BY <2>1 DEF ListInit, ListInv, EntriesKeepTheirIds, SettledElectionsAreListed
<1>2. ListInv /\ [ListNext]_listVars => ListInv'
  BY ListStep
<1>3. ListInv => ListsAreFaithful
  BY PagesAlwaysPartition DEF ListInv, ListsAreFaithful
<1>4. QED BY <1>1, <1>2, <1>3, PTL DEF ListSpec

-----------------------------------------------------------------------------
(* What the console asks of the contract is in the order of Consultation *)

\* A transaction under way is for the kind of check it was asked for.
RequestIsDue(r) ==
  /\ r.method = "outcome" => r.passed \in BOOLEAN
  /\ r.method = "proposal" => kind = "Proposal"
  /\ r.method = "roundOne" => kind = "Election"

\* A check is about a proposal or an election, and what is read of its votes was counted.
CourseInv ==
  /\ kind \in {"Proposal", "Election"}
  /\ kind = "Proposal" => collector.status = "TC_LIVE"
  /\ kind = "Election" => ledger.proposals = 0
  /\ ledger.votes \in Nat /\ ledger.votes < Len(Weighted)
  /\ ledger.round = 0 => ledger.ended
  /\ ledger.closed \in BOOLEAN /\ ledger.ended \in BOOLEAN
  /\ collector.counted \in 0 .. ledger.votes
  /\ \A o \in Operators :
       /\ page[o].counted # None => page[o].counted \in 0 .. ledger.votes
       /\ request[o] # None => RequestIsDue(request[o])

\* The phases of the polls stay as they are.
SamePhases == \A poll \in Polls : Phase(poll)' = Phase(poll)

\* A vote falls into an open check.
LEMMA CourseCasts ==
  ASSUME Phase("Check") = "open", SamePhases, ledger'.outcome = ledger.outcome,
         Adjudicated' = Adjudicated
  PROVE  Course!Next
<1>1. \A poll \in Polls \ {"Check"} : VotesIn(poll)' = VotesIn(poll)
  BY DEF VotesIn
<1>2. Course!CastVote("Check")
  BY <1>1 DEF SamePhases, Polls, Course!CastVote
<1>3. QED BY <1>2 DEF Course!Next, Course!Polls

\* A poll that is due is opened.
LEMMA CourseOpens ==
  ASSUME NEW poll \in Polls \ {"Check"}, Phase(poll) = "pending", Phase(poll)' = "open",
         \A q \in Polls : q # poll => Phase(q)' = Phase(q), ledger'.votes = ledger.votes,
         ledger'.outcome = ledger.outcome, Adjudicated' = Adjudicated,
         poll \in {"Proposal", "RoundOne"} =>
           /\ ledger.outcome = TRUE
           /\ Phase("Proposal") = "pending" /\ Phase("RoundOne") = "pending",
         poll = "Rerun" => Phase("RoundOne") = "over" /\ Adjudicated = None
  PROVE  Course!Next
<1>1. \A q \in Polls : VotesIn(q)' = VotesIn(q)
  BY DEF VotesIn
<1>2. QED BY <1>1 DEF Polls, Course!Next, Course!OpenPoll, Course!Due, Course!Polls

\* A deadline passes.
LEMMA CourseCloses ==
  ASSUME NEW poll \in Polls, Phase(poll) = "open", Phase(poll)' = "over",
         \A q \in Polls : q # poll => Phase(q)' = Phase(q), ledger'.votes = ledger.votes,
         ledger'.outcome = ledger.outcome, Adjudicated' = Adjudicated
  PROVE  Course!Next
<1>1. \A q \in Polls : VotesIn(q)' = VotesIn(q)
  BY DEF VotesIn
<1>2. QED BY <1>1 DEF Polls, Course!Next, Course!ClosePoll, Course!Polls

\* The outcome is recorded, of a check that is over.
LEMMA CourseDecides ==
  ASSUME NEW passed \in BOOLEAN, Phase("Check") = "over", SamePhases,
         ledger'.votes = ledger.votes, ledger.outcome = None, ledger'.outcome = passed,
         Adjudicated' = Adjudicated
  PROVE  Course!Next
<1>1. \A q \in Polls : VotesIn(q)' = VotesIn(q)
  BY DEF VotesIn
<1>2. QED BY <1>1 DEF SamePhases, Polls, Course!Next, Course!Decide

\* A tie is resolved, of a round that is over.
LEMMA CourseAdjudicates ==
  ASSUME NEW k \in {"RoundOne", "Rerun"}, Phase(k) = "over", SamePhases,
         ledger'.votes = ledger.votes, ledger'.outcome = ledger.outcome,
         Adjudicated = None, Adjudicated' = k
  PROVE  Course!Next
<1>1. \A q \in Polls : VotesIn(q)' = VotesIn(q)
  BY DEF VotesIn
<1>2. QED BY <1>1 DEF SamePhases, Polls, Course!Next, Course!Adjudicate

\* Only the ledger takes part in the course.
LEMMA CourseStays ==
  ASSUME UNCHANGED ledger
  PROVE  UNCHANGED Course!courseVars
BY DEF Phase, RoundPhase, VotesIn, Adjudicated, Course!courseVars

\* Which part of the ledger decides about what.
LEMMA PhasesFollow ==
  /\ /\ ledger'.closed = ledger.closed /\ ledger'.proposals = ledger.proposals
     /\ ledger'.round = ledger.round /\ ledger'.ended = ledger.ended
     => SamePhases
  /\ ledger'.tie = ledger.tie => Adjudicated' = Adjudicated
BY DEF SamePhases, Phase, RoundPhase, Adjudicated

\* A step of the course, or none.
Takes == Course!Next \/ UNCHANGED Course!courseVars

\* The ledger moves on by votes, deadlines and transactions.
LEMMA WorldTakesCourse ==
  ASSUME ConsoleInv, CourseInv, World
  PROVE  Takes
<1>1. DOMAIN ledger = {"votes", "closed", "outcome", "proposals", "round", "ended", "tie"}
  BY DEF ConsoleInv, ConsoleFields
<1>2. CASE CastVote
  <2>1. /\ ~ledger.closed
        /\ ledger' = [ledger EXCEPT !.votes = @ + 1]
    BY <1>2 DEF CastVote
  <2>2. /\ ledger'.closed = ledger.closed /\ ledger'.proposals = ledger.proposals
        /\ ledger'.round = ledger.round /\ ledger'.ended = ledger.ended
        /\ ledger'.tie = ledger.tie /\ ledger'.outcome = ledger.outcome
    BY <1>1, <2>1
  <2>3. Phase("Check") = "open"
    BY <2>1 DEF Phase
  <2>4. QED BY <2>2, <2>3, PhasesFollow, CourseCasts DEF Takes
<1>3. CASE DeadlinePasses /\ ledger' = [ledger EXCEPT !.closed = TRUE] /\ ~ledger.closed
  <2>1. /\ ledger'.closed = TRUE /\ ledger'.proposals = ledger.proposals
        /\ ledger'.round = ledger.round /\ ledger'.ended = ledger.ended
        /\ ledger'.tie = ledger.tie /\ ledger'.outcome = ledger.outcome
        /\ ledger'.votes = ledger.votes
    BY <1>1, <1>3
  <2>2. Phase("Check") = "open" /\ Phase("Check")' = "over"
    BY <1>3, <2>1 DEF Phase
  <2>3. \A q \in Polls : q # "Check" => Phase(q)' = Phase(q)
    BY <2>1 DEF Phase, RoundPhase, Polls
  <2>4. QED BY <2>1, <2>2, <2>3, PhasesFollow, CourseCloses DEF Takes, Polls
<1>4. CASE DeadlinePasses /\ ledger' = [ledger EXCEPT !.ended = TRUE] /\ ~ledger.ended
  <2>1. /\ ledger'.closed = ledger.closed /\ ledger'.proposals = ledger.proposals
        /\ ledger'.round = ledger.round /\ ledger'.ended = TRUE
        /\ ledger'.tie = ledger.tie /\ ledger'.outcome = ledger.outcome
        /\ ledger'.votes = ledger.votes
    BY <1>1, <1>4
  <2>2. ledger.round \in {1, 2}
    BY <1>4 DEF CourseInv, ConsoleInv, RoundsKnown
  <2>3. PICK poll \in Polls : poll = IF ledger.round = 1 THEN "RoundOne" ELSE "Rerun"
    BY DEF Polls
  <2>4. Phase(poll) = "open" /\ Phase(poll)' = "over"
    BY <1>4, <2>1, <2>2, <2>3 DEF Phase, RoundPhase
  <2>5. \A q \in Polls : q # poll => Phase(q)' = Phase(q)
    BY <1>4, <2>1, <2>2, <2>3 DEF Phase, RoundPhase, Polls
  <2>6. QED BY <2>1, <2>4, <2>5, PhasesFollow, CourseCloses DEF Takes
<1>5. CASE Count \/ ProjectOutcome \/ ResolveGate \/ FollowRound
  <2>1. ledger' = ledger
    BY <1>5 DEF Count, ProjectOutcome, ResolveGate, FollowRound
  <2>2. QED BY <2>1, CourseStays DEF Takes
<1>6. QED BY <1>2, <1>3, <1>4, <1>5 DEF World, DeadlinePasses

\* A transaction takes the ledger on as the contract accepts it, whatever page it was asked from.
LEMMA ExecutedTakesCourse ==
  ASSUME ConsoleInv, CourseInv, NEW o \in Operators, Executed(o)
  PROVE  Takes
<1> DEFINE wanted == request[o]
<1>1. wanted # None /\ RequestFits(wanted) /\ RequestIsDue(wanted)
  BY DEF Executed, ConsoleInv, CourseInv
<1>2. DOMAIN ledger = {"votes", "closed", "outcome", "proposals", "round", "ended", "tie"}
  BY DEF ConsoleInv, ConsoleFields
<1>3. ledger.round \in 0 .. 2
  BY DEF ConsoleInv, RoundsKnown
<1>4. CASE ~Accepted(wanted)
  BY <1>1, <1>4, CourseStays DEF Executed, Takes
<1>5. CASE Accepted(wanted)
  <2>1. ledger' = After(wanted)
    BY <1>1, <1>5 DEF Executed
  <2> HIDE DEF wanted
  <2>2. CASE wanted.method = "outcome"
    <3>1. /\ ledger'.closed = ledger.closed /\ ledger'.proposals = ledger.proposals
          /\ ledger'.round = ledger.round /\ ledger'.ended = ledger.ended
          /\ ledger'.tie = ledger.tie /\ ledger'.outcome = wanted.passed
          /\ ledger'.votes = ledger.votes
      BY <1>2, <2>1, <2>2 DEF After
    <3>2. Phase("Check") = "over" /\ ledger.outcome = None /\ wanted.passed \in BOOLEAN
      BY <1>1, <1>5, <2>2 DEF Accepted, Phase, RequestIsDue
    <3>3. QED BY <3>1, <3>2, PhasesFollow, CourseDecides DEF Takes
  <2>3. CASE wanted.method = "proposal"
    <3>1. /\ ledger'.closed = ledger.closed /\ ledger'.proposals = 1
          /\ ledger'.round = ledger.round /\ ledger'.ended = ledger.ended
          /\ ledger'.tie = ledger.tie /\ ledger'.outcome = ledger.outcome
          /\ ledger'.votes = ledger.votes /\ ledger.proposals = 0 /\ ledger.outcome = TRUE
      BY <1>2, <1>5, <2>1, <2>3 DEF After, Accepted
    <3>2. ledger.round = 0
      BY <1>1, <2>3 DEF RequestIsDue, CourseInv, ConsoleInv, RoundsKnown
    <3>3. /\ Phase("Proposal") = "pending" /\ Phase("Proposal")' = "open"
          /\ Phase("RoundOne") = "pending"
          /\ \A q \in Polls : q # "Proposal" => Phase(q)' = Phase(q)
      BY <3>1, <3>2 DEF Phase, RoundPhase
    <3>4. QED BY <3>1, <3>3, PhasesFollow, CourseOpens DEF Takes, Polls
  <2>4. CASE wanted.method = "roundOne"
    <3>1. /\ ledger'.closed = ledger.closed /\ ledger'.proposals = ledger.proposals
          /\ ledger'.round = 1 /\ ledger'.ended = FALSE
          /\ ledger'.tie = ledger.tie /\ ledger'.outcome = ledger.outcome
          /\ ledger'.votes = ledger.votes /\ ledger.round = 0 /\ ledger.outcome = TRUE
      BY <1>2, <1>5, <2>1, <2>4 DEF After, Accepted
    <3>2. ledger.proposals = 0
      BY <1>1, <2>4 DEF RequestIsDue, CourseInv
    <3>3. /\ Phase("RoundOne") = "pending" /\ Phase("RoundOne")' = "open"
          /\ Phase("Proposal") = "pending"
          /\ \A q \in Polls : q # "RoundOne" => Phase(q)' = Phase(q)
      BY <3>1, <3>2 DEF Phase, RoundPhase
    <3>4. QED BY <3>1, <3>3, PhasesFollow, CourseOpens DEF Takes, Polls
  <2>5. CASE wanted.method = "rerun"
    <3>1. /\ ledger'.closed = ledger.closed /\ ledger'.proposals = ledger.proposals
          /\ ledger'.round = 2 /\ ledger'.ended = FALSE
          /\ ledger'.tie = ledger.tie /\ ledger'.outcome = ledger.outcome
          /\ ledger'.votes = ledger.votes /\ ledger.round = 1 /\ ledger.ended
          /\ ledger.tie = None
      BY <1>2, <1>5, <2>1, <2>5 DEF After, Accepted
    <3>2. /\ Phase("Rerun") = "pending" /\ Phase("Rerun")' = "open"
          /\ Phase("RoundOne") = "over" /\ Adjudicated = None
          /\ \A q \in Polls : q # "Rerun" => Phase(q)' = Phase(q)
      BY <3>1 DEF Phase, RoundPhase, Adjudicated
    <3>3. QED BY <3>1, <3>2, PhasesFollow, CourseOpens DEF Takes, Polls
  <2>6. CASE wanted.method = "tie"
    <3>1. /\ ledger'.closed = ledger.closed /\ ledger'.proposals = ledger.proposals
          /\ ledger'.round = ledger.round /\ ledger'.ended = ledger.ended
          /\ ledger'.tie = [order |-> wanted.order, round |-> wanted.round]
          /\ ledger'.outcome = ledger.outcome /\ ledger'.votes = ledger.votes
          /\ ledger.tie = None
          /\ wanted.round < ledger.round \/ ledger.ended
      BY <1>2, <1>5, <2>1, <2>6 DEF After, Accepted
    <3>2. /\ wanted.order \in Seq(Nat) /\ wanted.round = ledger.round /\ ledger.round \in {1, 2}
      BY <1>1, <2>6, <3>1 DEF RequestFits, TieFits, ConsoleInv, RoundsKnown
    <3>3. ledger'.tie # None /\ ledger'.tie.round = ledger.round
      BY <3>1, <3>2, NoneIsNoTie
    <3>4. PICK k \in {"RoundOne", "Rerun"} : k = IF ledger.round = 1 THEN "RoundOne" ELSE "Rerun"
      OBVIOUS
    <3>5. Phase(k) = "over" /\ Adjudicated = None /\ Adjudicated' = k
      BY <3>1, <3>2, <3>3, <3>4 DEF Phase, RoundPhase, Adjudicated
    <3>6. QED BY <3>1, <3>5, PhasesFollow, CourseAdjudicates DEF Takes
  <2>7. QED BY <1>1, <2>2, <2>3, <2>4, <2>5, <2>6 DEF RequestFits
<1>6. QED BY <1>4, <1>5

\* The steps of the pages and the requests are no steps of the course.
LEMMA ConsoleTakesCourse ==
  ASSUME ConsoleInv, CourseInv, [ConsoleNext]_consoleVars
  PROVE  Takes
<1>1. CASE UNCHANGED consoleVars
  BY <1>1, CourseStays DEF consoleVars, Takes
<1>2. CASE World
  BY <1>2, WorldTakesCourse
<1>3. ASSUME NEW o \in Operators,
             \/ Load(o) \/ LoadResults(o) \/ MoveCandidate(o)
             \/ RecordOutcome(o) \/ Promote(o)
             \/ OpenRoundOne(o) \/ StartRerun(o) \/ RecordTie(o) \/ Rejected(o)
      PROVE  Takes
  <2>1. ledger' = ledger
    BY <1>3 DEF Load, LoadResults, MoveCandidate, RecordOutcome, Promote, OpenRoundOne,
                StartRerun, RecordTie, Rejected, Ask
  <2>2. QED BY <2>1, CourseStays DEF Takes
<1>4. QED BY <1>1, <1>2, <1>3, ExecutedTakesCourse DEF ConsoleNext

\* The fields that the invariant speaks of.
LEMMA CourseInvKept ==
  ASSUME CourseInv, kind' = kind, ledger' = ledger, collector' = collector,
         \A o \in Operators : page'[o].counted = page[o].counted, request' = request
  PROVE  CourseInv'
BY DEF CourseInv, RequestIsDue

\* The invariant is kept by the world outside of the console,
LEMMA WorldKeepsCourse ==
  ASSUME ConsoleInv, CourseInv, World
  PROVE  CourseInv'
<1>1. /\ DOMAIN ledger = {"votes", "closed", "outcome", "proposals", "round", "ended", "tie"}
      /\ DOMAIN collector = {"cached", "counted", "status", "round", "outcome"}
      /\ ledger.round \in 0 .. 2 /\ Len(Weighted) \in Nat
  BY WeightedAssumption DEF ConsoleInv, ConsoleFields, RoundsKnown
<1>2. UNCHANGED <<kind, page, request>>
  BY DEF World, CastVote, DeadlinePasses, Count, ProjectOutcome, ResolveGate, FollowRound
<1>3. CASE CastVote
  <2>1. /\ ledger'.votes = ledger.votes + 1 /\ ledger'.votes < Len(Weighted)
        /\ ledger'.closed = ledger.closed /\ ledger'.proposals = ledger.proposals
        /\ ledger'.round = ledger.round /\ ledger'.ended = ledger.ended
        /\ collector' = collector
    BY <1>1, <1>3 DEF CastVote
  <2>2. 0 .. ledger.votes \subseteq 0 .. ledger'.votes /\ ledger'.votes \in Nat
    BY <2>1 DEF CourseInv
  <2>3. QED BY <1>2, <2>1, <2>2 DEF CourseInv, RequestIsDue
<1>4. CASE DeadlinePasses
  <2>1. /\ ledger'.votes = ledger.votes /\ ledger'.proposals = ledger.proposals
        /\ ledger'.round = ledger.round /\ collector' = collector
        /\ ledger'.closed \in {ledger.closed, TRUE} /\ ledger'.ended \in {ledger.ended, TRUE}
    BY <1>1, <1>4 DEF DeadlinePasses
  <2>2. QED BY <1>2, <2>1 DEF CourseInv, RequestIsDue
<1>5. CASE Count \/ ProjectOutcome \/ ResolveGate \/ FollowRound
  <2>1. ledger' = ledger
    BY <1>5 DEF Count, ProjectOutcome, ResolveGate, FollowRound
  <2>2. collector'.counted \in 0 .. ledger.votes
    <3>1. CASE Count
      <4>1. PICK n \in collector.counted .. ledger.votes : collector'.counted = n
        BY <1>1, <3>1 DEF Count
      <4>2. QED BY <4>1 DEF CourseInv
    <3>2. CASE ProjectOutcome \/ ResolveGate \/ FollowRound
      <4>1. collector'.counted = collector.counted
        BY <1>1, <3>2 DEF ProjectOutcome, ResolveGate, FollowRound, Settle, Project
      <4>2. QED BY <4>1 DEF CourseInv
    <3>3. QED BY <1>5, <3>1, <3>2
  <2>3. kind = "Proposal" => collector'.status = "TC_LIVE"
    <3> SUFFICES ASSUME kind = "Proposal" PROVE collector'.status = collector.status
      BY DEF CourseInv
    <3>1. CASE Count \/ ProjectOutcome
      BY <1>1, <3>1 DEF Count, ProjectOutcome
    <3>2. CASE ResolveGate \/ FollowRound
      BY <3>2 DEF ResolveGate, FollowRound, Open, CourseInv
    <3>3. QED BY <1>5, <3>1, <3>2
  <2>4. QED BY <1>2, <2>1, <2>2, <2>3 DEF CourseInv, RequestIsDue
<1>6. QED BY <1>3, <1>4, <1>5 DEF World

\* by what the pages load and show,
LEMMA PagesKeepCourse ==
  ASSUME ConsoleInv, CourseInv, NEW o \in Operators,
         Load(o) \/ LoadResults(o) \/ MoveCandidate(o)
  PROVE  CourseInv'
<1>1. UNCHANGED <<kind, ledger, collector, request>>
  BY DEF Load, LoadResults, MoveCandidate
<1>2. /\ DOMAIN page = Operators
      /\ DOMAIN page[o] = {"outcome", "proposals", "counted", "status", "round", "order"}
  BY DEF ConsoleInv, ConsoleFields
<1>3. \A p \in Operators : \/ page'[p].counted = page[p].counted
                           \/ page'[p].counted \in {collector.counted, None}
  <2>1. CASE Load(o)
    <3>1. Fresh(page[o], ledger).counted = page[o].counted
      BY <1>2 DEF Fresh
    <3>2. QED BY <1>2, <2>1, <3>1 DEF Load, Copy
  <2>2. CASE LoadResults(o)
    BY <1>2, <2>2 DEF LoadResults, Copy
  <2>3. CASE MoveCandidate(o)
    <3>1. PICK i : Copy(o, [page[o] EXCEPT !.order[i] = page[o].order[i + 1],
                                           !.order[i + 1] = page[o].order[i]])
      BY <2>3 DEF MoveCandidate
    <3>2. PICK fresh : fresh = [page[o] EXCEPT !.order[i] = page[o].order[i + 1],
                                               !.order[i + 1] = page[o].order[i]]
      OBVIOUS
    <3>3. fresh.counted = page[o].counted
      BY <1>2, <3>2
    <3>4. Copy(o, fresh)
      BY <3>1, <3>2
    <3>5. QED BY <1>2, <3>3, <3>4 DEF Copy
  <2>4. QED BY <2>1, <2>2, <2>3
<1>4. QED BY <1>1, <1>3 DEF CourseInv, RequestIsDue

\* by what the controls ask for,
LEMMA RequestsKeepCourse ==
  ASSUME ConsoleInv, CourseInv, NEW o \in Operators,
         \/ RecordOutcome(o) \/ Promote(o) \/ OpenRoundOne(o) \/ StartRerun(o)
         \/ RecordTie(o) \/ Rejected(o)
  PROVE  CourseInv'
<1>1. UNCHANGED <<kind, ledger, collector, page>>
  BY DEF RecordOutcome, Promote, OpenRoundOne, StartRerun, RecordTie, Rejected, Ask
<1>2. DOMAIN request = Operators
  BY DEF ConsoleInv, ConsoleFields
<1>3. PICK wanted : /\ request' = [request EXCEPT ![o] = wanted]
                    /\ wanted # None => RequestIsDue(wanted)
  <2>1. CASE RecordOutcome(o)
    <3>1. page[o].counted \in 0 .. ledger.votes
      BY <2>1 DEF RecordOutcome, OutcomeOffered, CourseInv
    <3>2. page[o].counted + 1 \in 1 .. Len(Weighted)
      BY <3>1, WeightedAssumption DEF CourseInv
    <3>3. Calculated(page[o]) \in BOOLEAN
      BY <3>2, WeightedAssumption DEF Calculated
    <3>4. RequestIsDue(OutcomeManifest(Calculated(page[o])))
      BY <3>3 DEF OutcomeManifest, RequestIsDue
    <3>5. QED BY <2>1, <3>4 DEF RecordOutcome, Ask
  <2>2. CASE Promote(o)
    <3>1. RequestIsDue(ProposalManifest)
      BY <2>2 DEF Promote, PromotionOffered, ProposalManifest, RequestIsDue
    <3>2. QED BY <2>2, <3>1 DEF Promote, Ask
  <2>3. CASE OpenRoundOne(o)
    <3>1. RequestIsDue(RoundOneManifest)
      BY <2>3 DEF OpenRoundOne, CanOpenRoundOne, RoundOneManifest, RequestIsDue, CourseInv
    <3>2. QED BY <2>3, <3>1 DEF OpenRoundOne, Ask
  <2>4. CASE StartRerun(o)
    <3>1. RequestIsDue(RerunManifest)
      BY DEF RerunManifest, RequestIsDue
    <3>2. QED BY <2>4, <3>1 DEF StartRerun, Ask
  <2>5. CASE RecordTie(o)
    <3>1. RequestIsDue(TieManifest(page[o].order, page[o].round))
      BY DEF TieManifest, RequestIsDue
    <3>2. QED BY <2>5, <3>1 DEF RecordTie, Ask
  <2>6. CASE Rejected(o)
    BY <2>6 DEF Rejected
  <2>7. QED BY <2>1, <2>2, <2>3, <2>4, <2>5, <2>6
<1>4. \A p \in Operators : request'[p] # None => RequestIsDue(request'[p])
  BY <1>2, <1>3 DEF CourseInv
<1>5. QED BY <1>1, <1>4 DEF CourseInv, RequestIsDue

\* by what is executed of it,
LEMMA ExecutedKeepsCourse ==
  ASSUME ConsoleInv, CourseInv, NEW o \in Operators, Executed(o)
  PROVE  CourseInv'
<1> DEFINE wanted == request[o]
<1>1. /\ UNCHANGED <<kind, collector>> /\ wanted # None
      /\ request' = [request EXCEPT ![o] = None]
  BY DEF Executed
<1>2. RequestFits(wanted) /\ RequestIsDue(wanted)
  BY <1>1 DEF ConsoleInv, CourseInv
<1>3. /\ DOMAIN ledger = {"votes", "closed", "outcome", "proposals", "round", "ended", "tie"}
      /\ DOMAIN page = Operators /\ DOMAIN request = Operators
      /\ DOMAIN page[o] = {"outcome", "proposals", "counted", "status", "round", "order"}
  BY DEF ConsoleInv, ConsoleFields
<1>4. \A p \in Operators : request'[p] # None => request'[p] = request[p]
  BY <1>1, <1>3
<1>5. CASE ~Accepted(wanted)
  <2>1. UNCHANGED <<ledger, page>>
    BY <1>5 DEF Executed
  <2>2. QED BY <1>1, <1>4, <2>1 DEF CourseInv, RequestIsDue
<1>6. CASE Accepted(wanted)
  <2>1. ledger' = After(wanted) /\ Copy(o, Fresh(page[o], After(wanted)))
    BY <1>6 DEF Executed
  <2>2. Fresh(page[o], After(wanted)).counted = page[o].counted
    BY <1>3 DEF Fresh
  <2>3. \A p \in Operators : page'[p].counted = page[p].counted
    BY <1>3, <2>1, <2>2 DEF Copy
  <2> HIDE DEF wanted
  <2>4. /\ ledger'.votes = ledger.votes /\ ledger'.closed = ledger.closed
        /\ ledger'.ended \in {ledger.ended, FALSE}
        /\ \/ ledger'.ended = ledger.ended /\ ledger'.round = ledger.round
           \/ ledger'.round \in {1, 2}
        /\ wanted.method # "proposal" => ledger'.proposals = ledger.proposals
    BY <1>2, <1>3, <2>1 DEF After, RequestFits
  <2>5. kind = "Election" => ledger'.proposals = 0
    BY <1>2, <2>4 DEF RequestIsDue, CourseInv
  <2>6. ledger'.round = 0 => ledger'.ended
    BY <2>4 DEF CourseInv
  <2>7. /\ kind' = kind /\ collector' = collector
        /\ ledger'.closed \in BOOLEAN /\ ledger'.ended \in BOOLEAN
    BY <1>1, <2>4 DEF CourseInv
  <2>8. \A p \in Operators :
          /\ page'[p].counted # None => page'[p].counted \in 0 .. ledger'.votes
          /\ (request[p] # None => RequestIsDue(request[p]))'
    BY <1>4, <2>3, <2>4, <2>7 DEF CourseInv, RequestIsDue
  <2>9. QED BY <2>4, <2>5, <2>6, <2>7, <2>8 DEF CourseInv, RequestIsDue
<1>7. QED BY <1>5, <1>6

\* The console begins with an open check.
LEMMA CourseStarts == ConsoleInit => CourseInv /\ Course!Init
<1> SUFFICES ASSUME ConsoleInit PROVE CourseInv /\ Course!Init
  OBVIOUS
<1>1. Len(Weighted) \in Nat /\ 0 < Len(Weighted)
  BY WeightedAssumption
<1>2. CourseInv
  BY <1>1 DEF ConsoleInit, EmptyPage, CourseInv
<1>3. /\ \A q \in Polls : /\ Phase(q) = IF q = "Check" THEN "open" ELSE "pending"
                         /\ VotesIn(q) = 0
      /\ Adjudicated = None /\ ledger.outcome = None
  BY DEF ConsoleInit, Phase, RoundPhase, VotesIn, Adjudicated, Polls
<1>4. Course!Init
  BY <1>3 DEF Polls, Course!Init, Course!Polls
<1>5. QED BY <1>2, <1>4

\* and so by every step of the console.
LEMMA ConsoleKeepsCourse ==
  ASSUME ConsoleInv, CourseInv, [ConsoleNext]_consoleVars
  PROVE  CourseInv'
<1>1. CASE UNCHANGED consoleVars
  BY <1>1, CourseInvKept DEF consoleVars
<1>2. QED BY <1>1, WorldKeepsCourse, PagesKeepCourse, RequestsKeepCourse, ExecutedKeepsCourse
          DEF ConsoleNext

\* However many operators act on pages however old, the check, proposal and rounds that they ask for
\* take the course that Consultation states, which the contract implements.
THEOREM ConsoleImplementsConsultation == ConsoleSpec => Course!Spec
<1>1. ConsoleInit => ConsoleInv /\ CourseInv /\ Course!Init
  BY ConsoleStarts, CourseStarts
<1>2. ConsoleInv /\ CourseInv /\ [ConsoleNext]_consoleVars => ConsoleInv' /\ CourseInv'
  BY ConsoleStep, ConsoleKeepsCourse
<1>3. ConsoleInv /\ CourseInv /\ [ConsoleNext]_consoleVars =>
        [Course!Next]_(Course!courseVars)
  BY ConsoleTakesCourse DEF Takes
<1>4. QED BY <1>1, <1>2, <1>3, PTL DEF ConsoleSpec, Course!Spec
=============================================================================
