----------------------------- MODULE BallotBook -----------------------------
(***************************************************************************)
(* The votes of one poll as the contract stores them: a record per vote id *)
(* in the store votes, and per account the latest of its votes in the      *)
(* store voters.  Temperature checks, proposals and the rounds of an       *)
(* election each keep such a book and write it in the same way.            *)
(***************************************************************************)
EXTENDS KeyValueStore, FiniteSets

CONSTANTS
  Accounts,
  MaxVotes   \* u64::MAX: the limit of the vote counter

ASSUME VotersAssumption == IsFiniteSet(Accounts)
ASSUME LimitAssumption == MaxVotes \in Nat

Entry(C) == [vote : Nat, choice : C]

\* The field at is the time of the vote's event.
Record(C) == [voter : Accounts, choice : C, replacing : Nat \cup {None}, at : Nat]

EmptyBook ==
  [count |-> 0, revotes |-> 0, voters |-> [a \in Accounts |-> None],
   votes |-> EmptyStore]

\* Every book, and what makes one: TLC tests the latter and need not list the former.
Book(C) ==
  [count : 0..MaxVotes, revotes : 0..MaxVotes, voters : [Accounts -> Entry(C) \cup {None}],
   votes : UNION {[0..(n - 1) -> Record(C)] : n \in 0..MaxVotes}]

IsBook(book, C) ==
  /\ book = [count |-> book.count, revotes |-> book.revotes, voters |-> book.voters,
             votes |-> book.votes]
  /\ book.count \in 0..MaxVotes /\ book.revotes \in 0..MaxVotes
  /\ book.voters \in [Accounts -> Entry(C) \cup {None}]
  /\ book.votes \in [0..(book.count - 1) -> Record(C)]

Replaced(book, a) == IF book.voters[a] = None THEN None ELSE book.voters[a].vote

CastForgettingRevote(book, a, choice, time) ==  \* mutant: no look at voters
  [count   |-> book.count + 1,
   revotes |-> book.revotes,
   voters  |-> [book.voters EXCEPT ![a] = [vote |-> book.count, choice |-> choice]],
   votes   |-> Extended(book.votes, book.count,
                 [voter |-> a, choice |-> choice, replacing |-> None, at |-> time])]

CastUncounted(book, a, choice, time) ==  \* mutant: the next vote gets the same id
  [CastForgettingRevote(book, a, choice, time) EXCEPT !.count = book.count]

Cast(book, a, choice, time) ==
  [count   |-> book.count + 1,
   revotes |-> book.revotes + (IF Replaced(book, a) = None THEN 0 ELSE 1),
   voters  |-> [book.voters EXCEPT ![a] = [vote |-> book.count, choice |-> choice]],
   votes   |-> Extended(book.votes, book.count,
                 [voter |-> a, choice |-> choice,
                  replacing |-> Replaced(book, a), at |-> time])]

-----------------------------------------------------------------------------
VotesOf(book, a) == {i \in 0..(book.count - 1) : book.votes[i].voter = a}

Voted(book) == {a \in Accounts : book.voters[a] # None}

\* What a reader of the votes store, who keeps the last vote of each account,
\* finds is what voters says; the replaced votes chain back to the first one;
\* and the counters say how many accounts have voted.
VotersAreLast(book) ==
  \A a \in Accounts :
    IF book.voters[a] = None
    THEN VotesOf(book, a) = {}
    ELSE /\ book.voters[a].vote \in VotesOf(book, a)
         /\ \A i \in VotesOf(book, a) : i <= book.voters[a].vote
         /\ book.votes[book.voters[a].vote].choice = book.voters[a].choice

ReplacementsChain(book) ==
  \A i \in 0..(book.count - 1) :
    LET earlier == {j \in VotesOf(book, book.votes[i].voter) : j < i}
        previous == book.votes[i].replacing
    IN  IF previous = None
        THEN earlier = {}
        ELSE previous \in earlier /\ \A j \in earlier : j <= previous

Consistent(book) ==
  /\ VotersAreLast(book)
  /\ ReplacementsChain(book)
  /\ book.revotes = book.count - Cardinality(Voted(book))
=============================================================================
