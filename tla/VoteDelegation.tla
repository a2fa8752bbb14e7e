--------------------------- MODULE VoteDelegation ---------------------------
(***************************************************************************)
(* The vote delegation component: each delegator's list of delegations and *)
(* the mirror index by delegatee, both changed by every call.              *)
(*                                                                         *)
(* Fractions are counted in units of which Whole make 1.  The list is kept *)
(* as a set, its order being of no consequence to any method.              *)
(***************************************************************************)
EXTENDS KeyValueStore, FiniteSets, FiniteSetsExt

CONSTANTS
  Accounts,
  Whole,           \* Decimal::ONE, in units
  MinFraction,     \* MIN_DELEGATION_FRACTION, in units
  MaxDelegations,  \* MAX_DELEGATIONS
  Delegators,      \* bound: the accounts that call the component
  MaxTime          \* bound: the last instant of the ledger's clock

ASSUME AccountsAssumption == IsFiniteSet(Accounts) /\ Delegators \subseteq Accounts
ASSUME SizesAssumption ==
  /\ Whole \in Nat \ {0} /\ MinFraction \in 1..Whole
  /\ MaxDelegations \in Nat \ {0} /\ MaxTime \in Nat

VARIABLES
  delegators,  \* delegator -> its delegations
  delegatees,  \* delegatee -> delegator -> fraction
  now          \* Clock::current_time_rounded_to_seconds

vars == <<delegators, delegatees, now>>

Delegation == [delegatee : Accounts, fraction : Nat, until : Nat]

TypeOK ==
  /\ delegators \in [Accounts -> SUBSET Delegation]
  /\ delegatees \in [Accounts -> [Accounts -> Nat \cup {None}]]
  /\ now \in 0..MaxTime

Init ==
  /\ delegators = [d \in Accounts |-> {}]
  /\ delegatees = [e \in Accounts |-> [d \in Accounts |-> None]]
  /\ now = 0

-----------------------------------------------------------------------------
InForce(x) == x.until > now

\* The delegations of d that a call about delegatee e carries over, and those it
\* drops because they have expired.
KeptIgnoringTarget(d, e) == {x \in delegators[d] : InForce(x)}  \* mutant: e's entry stays

KeptNone(d, e) == {}  \* mutant: the new entry replaces the list

Kept(d, e) == {x \in delegators[d] : InForce(x) /\ x.delegatee # e}

ExpiredDelegatees(d) == {x.delegatee : x \in {y \in delegators[d] : ~InForce(y)}}

Total(S) == MapThenSumSet(LAMBDA x : x.fraction, S)

UnmirroredNothing(index, d, E) == index  \* mutant: expired entries stay mirrored

\* The mirror index without d's entries under the delegatees in E.
Unmirrored(index, d, E) ==
  [e \in Accounts |-> IF e \in E THEN [index[e] EXCEPT ![d] = None] ELSE index[e]]

\* mutant: the delegatee is stored for the fraction
MirroredSwapped(d, e, f) ==
  [Unmirrored(delegatees, d, ExpiredDelegatees(d)) EXCEPT ![e][d] = e]

\* Expired entries are cleared first, since e's own may be among them.
MirroredClearingLast(d, e, f) ==  \* mutant: the new entry may be cleared again
  Unmirrored([delegatees EXCEPT ![e][d] = f], d, ExpiredDelegatees(d))

Mirrored(d, e, f) ==
  [Unmirrored(delegatees, d, ExpiredDelegatees(d)) EXCEPT ![e][d] = f]

MakeDelegation(d, e, f, until) ==
  /\ f \in MinFraction..Whole
  /\ d # e
  /\ until > now
  /\ Total(Kept(d, e)) + f <= Whole
  /\ Cardinality(Kept(d, e)) + 1 <= MaxDelegations
  /\ delegators' = [delegators EXCEPT ![d] =
       Kept(d, e) \cup {[delegatee |-> e, fraction |-> f, until |-> until]}]
  /\ delegatees' = Mirrored(d, e, f)
  /\ UNCHANGED now

\* The target need not be in force, but it must be on the list.
RemoveDelegation(d, e) ==
  /\ \E x \in delegators[d] : x.delegatee = e
  /\ delegators' = [delegators EXCEPT ![d] = Kept(d, e)]
  /\ delegatees' = Unmirrored(delegatees, d, ExpiredDelegatees(d) \cup {e})
  /\ UNCHANGED now

Tick ==
  /\ now < MaxTime
  /\ now' = now + 1
  /\ UNCHANGED <<delegators, delegatees>>

Next ==
  \/ \E d \in Delegators, e \in Accounts :
       \/ \E f \in 0..(Whole + 1), until \in 0..(MaxTime + 1) : MakeDelegation(d, e, f, until)
       \/ RemoveDelegation(d, e)
  \/ Tick

Spec == Init /\ [][Next]_vars

-----------------------------------------------------------------------------
(***************************************************************************)
(* Properties                                                              *)
(***************************************************************************)
\* A delegator's list names a delegatee once and is never longer than allowed,
\* expired entries included.
ListsBounded ==
  \A d \in Accounts :
    /\ Cardinality(delegators[d]) <= MaxDelegations
    /\ \A x, y \in delegators[d] : x.delegatee = y.delegatee => x = y

\* get_delegations and get_delegatee_delegators tell the same story: the mirror
\* holds a fraction exactly where the list has a delegation of that fraction,
\* although the two stores are pruned lazily and by different loops.
MirrorAgrees ==
  \A d, e \in Accounts :
    {x.fraction : x \in {y \in delegators[d] : y.delegatee = e}} = {delegatees[e][d]} \ {None}

\* The two stores are well typed, bounded and agree.
StoresInv == TypeOK /\ ListsBounded /\ MirrorAgrees

\* "Total delegation cannot exceed 100%": not even for a reader of the mirror
\* index, which shows expired delegations until a later call clears them.
MirroredWithinWhole ==
  \A d \in Accounts :
    MapThenSumSet(LAMBDA e : IF delegatees[e][d] = None THEN 0 ELSE delegatees[e][d],
                  Accounts) <= Whole

\* The delegations in force on d's list that a step puts on it or takes off it.
Changed(d) ==
  {x \in (delegators[d] \ delegators'[d]) \cup (delegators'[d] \ delegators[d]) :
     x.until > now'}

\* A call touches no delegation in force but the one it is about: whatever it adds
\* and takes away is of one delegator to one delegatee.
OthersInForceKept ==
  [][\A d1, d2 \in Accounts : \A x \in Changed(d1), y \in Changed(d2) :
       d1 = d2 /\ x.delegatee = y.delegatee]_vars
=============================================================================
