----------------------------- MODULE WalletBatch -----------------------------
(***************************************************************************)
(* What every page on which people vote does around the wallet: it knows   *)
(* the connected accounts and the current one, reads the ballots recorded  *)
(* for them, and sends a batch of transactions, one account at a time,     *)
(* each of which the wallet confirms, refuses, or loses sight of.          *)
(***************************************************************************)
EXTENDS Unread, Naturals, Sequences, FiniteSets, SequencesExt

CONSTANTS
  Accounts,       \* numbered in the order in which the wallet lists them
  Ballots,        \* what may be voted
  NoBallot,       \* the absence of a ballot
  MaxBatches,     \* bound: batches submitted
  MaxSwitches     \* bound: changes of the connected or the current account

ASSUME AccountsAssumption == Accounts \subseteq Nat

VARIABLES
  recorded,       \* on the ledger: [Accounts -> Ballots or NoBallot]
  open,           \* the ledger accepts ballots
  loose,          \* transactions submitted whose status was never confirmed
  wallet,         \* [connected, selected], the wallet's accounts and the choice among them
  view,           \* the votes read last: [a set of accounts -> Ballots or NoBallot]
  reading,        \* a read of the votes is under way
  batch,          \* the batch under way, or None
  signed,         \* history: the ballots the user has submitted, with their accounts
  counts          \* [batches, switches] for the bounds; lost, a status was lost

walletVars == <<recorded, open, loose, wallet, view, reading, batch, signed, counts>>
ledgerVars == <<recorded, open, loose>>

Idle == batch = None

\* The accounts are listed, and a batch is sent, in this order.
First(accounts) == CHOOSE a \in accounts : \A b \in accounts : a <= b

\* The selected account while it is connected, or else the first one.
CurrentIn(w) ==
  IF w.connected = {} THEN None
  ELSE IF w.selected \in w.connected THEN w.selected
  ELSE First(w.connected)

Current == CurrentIn(wallet)

\* The ballot the page knows of an account; an account it has not read has none.
Known(v, a) == IF a \in DOMAIN v THEN v[a] ELSE NoBallot

\* The page is opened with ballots of earlier visits on the ledger.
WalletInit(earlier) ==
  /\ recorded \in earlier
  /\ signed = {[account |-> a, ballot |-> recorded[a]] :
                 a \in {b \in Accounts : recorded[b] # NoBallot}}
  /\ wallet = [connected |-> Accounts, selected |-> None]
  /\ reading = TRUE
  /\ open = TRUE
  /\ loose = {}
  /\ view = <<>>
  /\ batch = None
  /\ counts = [batches |-> 0, switches |-> 0, lost |-> FALSE]

Switched == counts' = [counts EXCEPT !.switches = @ + 1]

\* The wallet shares other accounts; the votes atom depends on them and is read anew.
Connect ==
  /\ counts.switches < MaxSwitches
  /\ \E shared \in SUBSET Accounts :
       /\ shared # wallet.connected
       /\ wallet' = [wallet EXCEPT !.connected = shared]
  /\ reading' = TRUE
  /\ Switched
  /\ UNCHANGED <<ledgerVars, view, batch, signed>>

SwitchAccount ==
  /\ counts.switches < MaxSwitches
  /\ \E a \in wallet.connected :
       /\ a # Current
       /\ wallet' = [wallet EXCEPT !.selected = a]
  /\ Switched
  /\ UNCHANGED <<ledgerVars, view, reading, batch, signed>>

\* The read answers with the ledger of this moment; a failed one leaves nothing.
ReadAnswers ==
  /\ reading
  /\ view' = [a \in wallet.connected |-> recorded[a]]
  /\ reading' = FALSE
  /\ UNCHANGED <<ledgerVars, wallet, batch, signed, counts>>

ReadFails ==
  /\ reading
  /\ view' = <<>>
  /\ reading' = FALSE
  /\ UNCHANGED <<ledgerVars, wallet, batch, signed, counts>>

\* The accounts a ballot is submitted for.
AccountsToVote(all) ==
  IF all THEN wallet.connected ELSE IF Current = None THEN {} ELSE {Current}

SubmitBatch(ballot, all) ==
  /\ Idle
  /\ counts.batches < MaxBatches
  /\ batch' = [ballot |-> ballot, todo |-> AccountsToVote(all), done |-> <<>>]
  /\ signed' = signed \cup {[account |-> a, ballot |-> ballot] : a \in AccountsToVote(all)}
  /\ counts' = [counts EXCEPT !.batches = @ + 1]
  /\ UNCHANGED <<ledgerVars, wallet, view, reading>>

Sending == batch # None /\ batch.todo # {}
Sender == First(batch.todo)

\* The next account's transaction ended, as far as the page can tell.
Answered(success) ==
  batch' = [batch EXCEPT !.todo = @ \ {Sender}, !.done = Append(@, success)]

Record(a, ballot) == recorded' = [recorded EXCEPT ![a] = ballot]

\* Mutant: the transaction is made for the account current when it is sent.
ConfirmedForCurrent(accepted) ==
  /\ Sending
  /\ open /\ accepted
  /\ Current # None
  /\ Record(Current, batch.ballot)
  /\ Answered(TRUE)
  /\ UNCHANGED <<open, loose, wallet, view, reading, signed, counts>>

Confirmed(accepted) ==
  /\ Sending
  /\ open /\ accepted
  /\ Record(Sender, batch.ballot)
  /\ Answered(TRUE)
  /\ UNCHANGED <<open, loose, wallet, view, reading, signed, counts>>

\* No manifest, refused by the user or the wallet, or failed on the ledger.
Refused ==
  /\ Sending
  /\ Answered(FALSE)
  /\ UNCHANGED <<ledgerVars, wallet, view, reading, signed, counts>>

\* "The transaction was submitted, but its final status could not be confirmed":
\* the batch counts it as failed and goes on.
StatusLost ==
  /\ Sending
  /\ loose' = loose \cup {[account |-> Sender, ballot |-> batch.ballot]}
  /\ Answered(FALSE)
  /\ counts' = [counts EXCEPT !.lost = TRUE]
  /\ UNCHANGED <<recorded, open, wallet, view, reading, signed>>

\* A transaction nobody waits for any more is executed after all.
LooseLands(t, accepted) ==
  /\ open /\ accepted
  /\ Record(t.account, t.ballot)
  /\ loose' = loose \ {t}
  /\ UNCHANGED <<open, wallet, view, reading, batch, signed, counts>>

\* Mutant: the votes are read again only when every account succeeded.
RefreshAfterAll(done) == FALSE \notin ToSet(done)

\* The votes are read again when a transaction of the batch succeeded.
RefreshAfter(done) == TRUE \in ToSet(done)

BatchEnds ==
  /\ batch # None /\ batch.todo = {}
  /\ batch' = None
  /\ reading' = (reading \/ RefreshAfter(batch.done))
  /\ UNCHANGED <<ledgerVars, wallet, view, signed, counts>>

\* The page is left and opened again: the batch under way is interrupted, the transaction
\* the wallet was asked for may still reach the ledger, and the votes are read anew.
Leave ==
  /\ batch' = None
  /\ view' = <<>>
  /\ reading' = TRUE
  /\ \/ UNCHANGED <<loose, counts>>
     \/ /\ Sending
        /\ loose' = loose \cup {[account |-> Sender, ballot |-> batch.ballot]}
        /\ counts' = [counts EXCEPT !.lost = TRUE]
  /\ UNCHANGED <<recorded, open, wallet, signed>>

\* The deadline passes on the ledger.
Close ==
  /\ open
  /\ open' = FALSE
  /\ UNCHANGED <<recorded, loose, wallet, view, reading, batch, signed, counts>>

-----------------------------------------------------------------------------
(* What the pages promise *)

\* Whatever is on the ledger for an account, or may still get there, its user has
\* submitted on the page, for that account and with that content, although the
\* wallet may switch accounts while a batch is under way.
OnlyWhatWasSigned ==
  /\ \A a \in Accounts :
       recorded[a] # NoBallot => [account |-> a, ballot |-> recorded[a]] \in signed
  /\ loose \subseteq signed

\* Once nothing is under way any more, the page knows the ledger's ballot of every
\* connected account, also after a batch that failed in part, unless the wallet has
\* lost sight of a transaction or the read failed.
QuietPageIsCurrent ==
  (Idle /\ ~reading /\ ~counts.lost /\ DOMAIN view # {})
    => view = [a \in wallet.connected |-> recorded[a]]
=============================================================================
