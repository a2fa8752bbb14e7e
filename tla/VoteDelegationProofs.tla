------------------------ MODULE VoteDelegationProofs ------------------------
(***************************************************************************)
(* Proofs about VoteDelegation for any number of accounts, any bound on    *)
(* the delegations and any granularity of the fractions.                   *)
(***************************************************************************)
EXTENDS VoteDelegation, SetLemmas

\* What a call makes of delegator d's list and of the mirror index.
Unique(S) == \A x, y \in S : x.delegatee = y.delegatee => x = y

AgreesAt(d, e) ==
  /\ delegatees[e][d] = None => \A x \in delegators[d] : x.delegatee # e
  /\ delegatees[e][d] # None =>
       \E x \in delegators[d] : x.delegatee = e /\ x.fraction = delegatees[e][d]

ListOK(d) ==
  /\ IsFiniteSet(delegators[d])
  /\ Cardinality(delegators[d]) <= MaxDelegations
  /\ Unique(delegators[d])

\* The inductive invariant: lists are finite, and the mirror agrees entry by entry.
DelegationInv ==
  /\ TypeOK
  /\ \A d \in Accounts : ListOK(d)
  /\ \A d, e \in Accounts : AgreesAt(d, e)

-----------------------------------------------------------------------------
\* Before any call the lists and the index are empty.
LEMMA InvInit == Init => DelegationInv
<1> SUFFICES ASSUME Init PROVE DelegationInv
  OBVIOUS
<1>1. TypeOK
  BY SizesAssumption DEF Init, TypeOK
<1>2. \A d \in Accounts : delegators[d] = {}
  BY DEF Init
<1>3. IsFiniteSet({}) /\ Cardinality({}) = 0
  BY FS_EmptySet
<1>4. \A d \in Accounts : ListOK(d)
  BY <1>2, <1>3, SizesAssumption DEF ListOK, Unique
<1>5. \A d, e \in Accounts : AgreesAt(d, e)
  BY <1>2 DEF AgreesAt, Init
<1>6. QED BY <1>1, <1>4, <1>5 DEF DelegationInv

\* The delegations carried over are some of the list's: finite, unique and not more.
LEMMA KeptIsSmaller ==
  ASSUME DelegationInv, NEW d \in Accounts, NEW e \in Accounts
  PROVE  /\ Kept(d, e) \subseteq delegators[d]
         /\ Kept(d, e) \subseteq Delegation
         /\ IsFiniteSet(Kept(d, e))
         /\ Cardinality(Kept(d, e)) <= Cardinality(delegators[d])
         /\ Cardinality(Kept(d, e)) \in Nat /\ Cardinality(delegators[d]) \in Nat
<1>1. Kept(d, e) \subseteq delegators[d] /\ delegators[d] \subseteq Delegation
  BY DEF Kept, DelegationInv, TypeOK
<1>2. IsFiniteSet(delegators[d])
  BY DEF DelegationInv, ListOK
<1>3. IsFiniteSet(Kept(d, e)) /\ Cardinality(Kept(d, e)) <= Cardinality(delegators[d])
  BY <1>1, <1>2, FS_Subset
<1>4. Cardinality(Kept(d, e)) \in Nat /\ Cardinality(delegators[d]) \in Nat
  BY <1>2, <1>3, FS_CardinalityType
<1>5. QED BY <1>1, <1>3, <1>4

\* Clearing the mirror changes delegator d's entries under the given delegatees only.
LEMMA UnmirroredEntries ==
  ASSUME TypeOK, NEW d \in Accounts, NEW E
  PROVE  /\ Unmirrored(delegatees, d, E) \in [Accounts -> [Accounts -> Nat \cup {None}]]
         /\ \A e \in Accounts, c \in Accounts :
              Unmirrored(delegatees, d, E)[e][c] =
                IF e \in E /\ c = d THEN None ELSE delegatees[e][c]
BY DEF Unmirrored, TypeOK

\* A new or renewed delegation.
LEMMA MakeStep ==
  ASSUME DelegationInv, NEW d \in Accounts, NEW e \in Accounts, NEW f \in Nat,
         NEW until \in Nat, MakeDelegation(d, e, f, until)
  PROVE  DelegationInv'
<1> DEFINE new == [delegatee |-> e, fraction |-> f, until |-> until]
           cleared == Unmirrored(delegatees, d, ExpiredDelegatees(d))
<1>1. new \in Delegation /\ new.delegatee = e /\ new.fraction = f
  BY DEF Delegation
<1>2. /\ delegators' = [delegators EXCEPT ![d] = Kept(d, e) \cup {new}]
      /\ delegatees' = [cleared EXCEPT ![e][d] = f]
      /\ now' = now
  BY DEF MakeDelegation, Mirrored
<1>3. /\ cleared \in [Accounts -> [Accounts -> Nat \cup {None}]]
      /\ \A b \in Accounts, c \in Accounts :
           cleared[b][c] = IF b \in ExpiredDelegatees(d) /\ c = d THEN None
                           ELSE delegatees[b][c]
  BY UnmirroredEntries DEF DelegationInv
<1> HIDE DEF new, cleared
<1>4. /\ delegators'[d] = Kept(d, e) \cup {new}
      /\ \A c \in Accounts \ {d} : delegators'[c] = delegators[c]
  BY <1>2 DEF DelegationInv, TypeOK
<1>5. \A b \in Accounts, c \in Accounts :
        delegatees'[b][c] = IF b = e /\ c = d THEN f ELSE cleared[b][c]
  BY <1>2, <1>3
<1>6. TypeOK'
  <2>1. Kept(d, e) \cup {new} \in SUBSET Delegation
    BY <1>1, KeptIsSmaller
  <2>2. delegators' \in [Accounts -> SUBSET Delegation]
    BY <1>2, <2>1 DEF DelegationInv, TypeOK
  <2>3. delegatees' \in [Accounts -> [Accounts -> Nat \cup {None}]]
    BY <1>2, <1>3
  <2>4. QED BY <1>2, <2>2, <2>3 DEF DelegationInv, TypeOK
<1>7. ListOK(d)'
  <2>1. IsFiniteSet(Kept(d, e) \cup {new})
        /\ (Cardinality(Kept(d, e) \cup {new}) = Cardinality(Kept(d, e))
            \/ Cardinality(Kept(d, e) \cup {new}) = Cardinality(Kept(d, e)) + 1)
    BY KeptIsSmaller, FS_AddElement
  <2>2. Cardinality(Kept(d, e)) + 1 <= MaxDelegations
    BY DEF MakeDelegation
  <2>3. Cardinality(Kept(d, e) \cup {new}) <= MaxDelegations
    BY <2>1, <2>2, KeptIsSmaller, SizesAssumption
  <2>4. Unique(Kept(d, e) \cup {new})
    BY <1>1, KeptIsSmaller DEF Unique, Kept, DelegationInv, ListOK
  <2>5. QED BY <1>4, <2>1, <2>3, <2>4 DEF ListOK
<1>8. \A c \in Accounts : ListOK(c)'
  BY <1>4, <1>7 DEF ListOK, DelegationInv
<1>9. ASSUME NEW b \in Accounts PROVE AgreesAt(d, b)'
  <2>1. CASE b = e
    <3>1. delegatees'[b][d] = f /\ f # None
      BY <1>5, <2>1, NoneAssumption
    <3>2. new \in delegators'[d]
      BY <1>4
    <3>3. QED BY <1>1, <2>1, <3>1, <3>2 DEF AgreesAt
  <2>2. CASE b # e /\ b \in ExpiredDelegatees(d)
    <3>1. delegatees'[b][d] = None
      BY <1>3, <1>5, <2>2
    <3>2. PICK y \in delegators[d] : ~InForce(y) /\ y.delegatee = b
      BY <2>2 DEF ExpiredDelegatees
    <3>3. \A x \in Kept(d, e) : x.delegatee # b
      BY <3>2 DEF Kept, DelegationInv, ListOK, Unique
    <3>4. \A x \in delegators'[d] : x.delegatee # b
      BY <1>1, <1>4, <2>2, <3>3
    <3>5. QED BY <3>1, <3>4 DEF AgreesAt
  <2>3. CASE b # e /\ b \notin ExpiredDelegatees(d)
    <3>1. delegatees'[b][d] = delegatees[b][d]
      BY <1>3, <1>5, <2>3
    <3>2. \A x \in delegators[d] : x.delegatee = b => x \in Kept(d, e)
      BY <2>3 DEF ExpiredDelegatees, Kept
    <3>3. \A x \in delegators'[d] : x.delegatee = b => x \in delegators[d]
      BY <1>1, <1>4, <2>3, KeptIsSmaller
    <3>4. AgreesAt(d, b)
      BY DEF DelegationInv
    <3>5. QED BY <1>4, <3>1, <3>2, <3>3, <3>4 DEF AgreesAt
  <2>4. QED BY <2>1, <2>2, <2>3
<1>10. ASSUME NEW c \in Accounts \ {d}, NEW b \in Accounts PROVE AgreesAt(c, b)'
  BY <1>3, <1>4, <1>5 DEF AgreesAt, DelegationInv
<1>11. QED BY <1>6, <1>8, <1>9, <1>10 DEF DelegationInv

\* A removal, which also clears what has expired.
LEMMA RemoveStep ==
  ASSUME DelegationInv, NEW d \in Accounts, NEW e \in Accounts, RemoveDelegation(d, e)
  PROVE  DelegationInv'
<1> DEFINE E == ExpiredDelegatees(d) \cup {e}
<1>1. /\ delegators' = [delegators EXCEPT ![d] = Kept(d, e)]
      /\ delegatees' = Unmirrored(delegatees, d, E)
      /\ now' = now
  BY DEF RemoveDelegation
<1>2. /\ delegatees' \in [Accounts -> [Accounts -> Nat \cup {None}]]
      /\ \A b \in Accounts, c \in Accounts :
           delegatees'[b][c] = IF b \in E /\ c = d THEN None ELSE delegatees[b][c]
  BY <1>1, UnmirroredEntries DEF DelegationInv
<1>3. /\ delegators'[d] = Kept(d, e)
      /\ \A c \in Accounts \ {d} : delegators'[c] = delegators[c]
  BY <1>1 DEF DelegationInv, TypeOK
<1>4. TypeOK'
  <2>1. Kept(d, e) \in SUBSET Delegation
    BY KeptIsSmaller
  <2>2. delegators' \in [Accounts -> SUBSET Delegation]
    BY <1>1, <2>1 DEF DelegationInv, TypeOK
  <2>3. QED BY <1>1, <1>2, <2>2 DEF DelegationInv, TypeOK
<1>5. ListOK(d)'
  <2>1. Cardinality(Kept(d, e)) <= MaxDelegations
    BY KeptIsSmaller, SizesAssumption DEF DelegationInv, ListOK
  <2>2. Unique(Kept(d, e))
    BY KeptIsSmaller DEF Unique, DelegationInv, ListOK
  <2>3. QED BY <1>3, <2>1, <2>2, KeptIsSmaller DEF ListOK
<1>6. \A c \in Accounts : ListOK(c)'
  BY <1>3, <1>5 DEF ListOK, DelegationInv
<1>7. ASSUME NEW b \in Accounts PROVE AgreesAt(d, b)'
  <2>1. CASE b \in E
    <3>1. \A x \in Kept(d, e) : x.delegatee # b
      BY <2>1 DEF Kept, ExpiredDelegatees, DelegationInv, ListOK, Unique
    <3>2. QED BY <1>2, <1>3, <2>1, <3>1 DEF AgreesAt
  <2>2. CASE b \notin E
    <3>1. \A x \in delegators[d] : x.delegatee = b => x \in Kept(d, e)
      BY <2>2 DEF ExpiredDelegatees, Kept
    <3>2. AgreesAt(d, b)
      BY DEF DelegationInv
    <3>3. QED BY <1>2, <1>3, <2>2, <3>1, <3>2, KeptIsSmaller DEF AgreesAt
  <2>3. QED BY <2>1, <2>2
<1>8. ASSUME NEW c \in Accounts \ {d}, NEW b \in Accounts PROVE AgreesAt(c, b)'
  BY <1>2, <1>3 DEF AgreesAt, DelegationInv
<1>9. QED BY <1>4, <1>6, <1>7, <1>8 DEF DelegationInv

\* Time alone changes neither store, although it lets delegations expire.
LEMMA InvStep == DelegationInv /\ [Next]_vars => DelegationInv'
<1> SUFFICES ASSUME DelegationInv, [Next]_vars PROVE DelegationInv'
  OBVIOUS
<1>1. ASSUME NEW d \in Delegators, NEW e \in Accounts, NEW f \in 0..(Whole + 1),
             NEW until \in 0..(MaxTime + 1), MakeDelegation(d, e, f, until)
      PROVE  DelegationInv'
  <2>1. d \in Accounts /\ f \in Nat /\ until \in Nat
    BY AccountsAssumption
  <2>2. QED BY <1>1, <2>1, MakeStep
<1>2. ASSUME NEW d \in Delegators, NEW e \in Accounts, RemoveDelegation(d, e)
      PROVE  DelegationInv'
  BY <1>2, AccountsAssumption, RemoveStep
<1>3. ASSUME Tick \/ UNCHANGED vars PROVE DelegationInv'
  <2>1. delegators' = delegators /\ delegatees' = delegatees /\ now' \in 0..MaxTime
    BY <1>3, SizesAssumption DEF Tick, vars, DelegationInv, TypeOK
  <2>2. QED BY <2>1 DEF DelegationInv, TypeOK, ListOK, AgreesAt
<1>4. QED BY <1>1, <1>2, <1>3 DEF Next

\* Lists are finite and the two stores agree in every reachable state.
THEOREM DelegationInvariant == Spec => []DelegationInv
BY InvInit, InvStep, PTL DEF Spec

\* Type correctness.
THEOREM DelegationTypes == Spec => []TypeOK
<1>1. DelegationInv => TypeOK
  BY DEF DelegationInv
<1>2. QED BY <1>1, DelegationInvariant, PTL

\* The list of a delegator is bounded and names a delegatee once.
THEOREM ListsAreBounded == Spec => []ListsBounded
<1>1. DelegationInv => ListsBounded
  BY DEF DelegationInv, ListOK, Unique, ListsBounded
<1>2. QED BY <1>1, DelegationInvariant, PTL

\* The list of a delegator and the mirror index of its delegatees agree.
THEOREM MirrorIsExact == Spec => []MirrorAgrees
<1>1. ASSUME DelegationInv, NEW d \in Accounts, NEW e \in Accounts
      PROVE  {x.fraction : x \in {y \in delegators[d] : y.delegatee = e}}
               = {delegatees[e][d]} \ {None}
  <2> DEFINE mine == {y \in delegators[d] : y.delegatee = e}
  <2>1. AgreesAt(d, e) /\ Unique(delegators[d])
    BY <1>1 DEF DelegationInv, ListOK
  <2>2. CASE delegatees[e][d] = None
    <3>1. mine = {}
      BY <2>1, <2>2 DEF AgreesAt
    <3>2. QED BY <2>2, <3>1
  <2>3. CASE delegatees[e][d] # None
    <3>1. PICK x \in delegators[d] : x.delegatee = e /\ x.fraction = delegatees[e][d]
      BY <2>1, <2>3 DEF AgreesAt
    <3>2. mine = {x}
      BY <2>1, <3>1 DEF Unique
    <3>3. QED BY <2>3, <3>1, <3>2
  <2>4. QED BY <2>2, <2>3
<1>2. DelegationInv => MirrorAgrees
  BY <1>1 DEF MirrorAgrees
<1>3. QED BY <1>2, DelegationInvariant, PTL

\* The stores are well typed and bounded and agree, for any accounts, calls and limits.
THEOREM StoresAreSound == Spec => []StoresInv
BY DelegationTypes, ListsAreBounded, MirrorIsExact, PTL DEF StoresInv

\* A call changes only its delegator's list and, on it, only what has expired and
\* what it is about.
LEMMA OnlyTargetChanged ==
  ASSUME TypeOK, NEW d \in Accounts, NEW e \in Accounts, NEW S, \A x \in S : x.delegatee = e,
         delegators' = [delegators EXCEPT ![d] = Kept(d, e) \cup S], now' = now
  PROVE  \A c \in Accounts : \A x \in Changed(c) : c = d /\ x.delegatee = e
<1>1. \A c \in Accounts : delegators'[c] = IF c = d THEN Kept(d, e) \cup S ELSE delegators[c]
  BY DEF TypeOK
<1>2. QED BY <1>1 DEF Kept, InForce, Changed

\* A call touches no delegation in force but the one it is about.
THEOREM OnlyTargetTouched == Spec => OthersInForceKept
<1> DEFINE Kind == \A d1, d2 \in Accounts : \A x \in Changed(d1), y \in Changed(d2) :
                     d1 = d2 /\ x.delegatee = y.delegatee
<1>1. TypeOK /\ [Next]_vars => [Kind]_vars
  <2> SUFFICES ASSUME TypeOK, [Next]_vars PROVE Kind
    OBVIOUS
  <2>1. ASSUME NEW d \in Delegators, NEW e \in Accounts, NEW f, NEW until,
               MakeDelegation(d, e, f, until)
        PROVE  Kind
    <3> DEFINE S == {[delegatee |-> e, fraction |-> f, until |-> until]}
    <3>1. delegators' = [delegators EXCEPT ![d] = Kept(d, e) \cup S] /\ now' = now
      BY <2>1 DEF MakeDelegation
    <3>2. \A x \in S : x.delegatee = e
      OBVIOUS
    <3> HIDE DEF S
    <3>3. \A c \in Accounts : \A x \in Changed(c) : c = d /\ x.delegatee = e
      BY <3>1, <3>2, AccountsAssumption, OnlyTargetChanged
    <3>4. QED BY <3>3
  <2>2. ASSUME NEW d \in Delegators, NEW e \in Accounts, RemoveDelegation(d, e)
        PROVE  Kind
    <3> DEFINE S == {}
    <3>1. delegators' = [delegators EXCEPT ![d] = Kept(d, e) \cup S] /\ now' = now
      BY <2>2 DEF RemoveDelegation
    <3>2. \A x \in S : x.delegatee = e
      OBVIOUS
    <3> HIDE DEF S
    <3>3. \A c \in Accounts : \A x \in Changed(c) : c = d /\ x.delegatee = e
      BY <3>1, <3>2, AccountsAssumption, OnlyTargetChanged
    <3>4. QED BY <3>3
  <2>3. CASE Tick \/ UNCHANGED vars
    BY <2>3 DEF Tick, vars, Changed
  <2>4. QED BY <2>1, <2>2, <2>3 DEF Next
<1>2. QED BY <1>1, DelegationTypes, PTL DEF Spec, OthersInForceKept

-----------------------------------------------------------------------------
(* What is given away *)

\* What each delegation of a set gives away.
Fractions(S) == [x \in S |-> x.fraction]

\* What delegator d has given to each account, by the mirror index.
Shares(d) == [e \in Accounts |-> IF delegatees[e][d] = None THEN 0 ELSE delegatees[e][d]]

\* The total of a list is the sum of its fractions.
LEMMA TotalIsSum ==
  ASSUME NEW S, IsFiniteSet(S)
  PROVE  Total(S) = SumOf(Fractions(S), S)
<1> DEFINE entry(t, s) == IF s = {} THEN 0 ELSE (Chosen(s)).fraction + t[s \ {Chosen(s)}]
           table == CHOOSE t : t = [s \in SUBSET S |-> entry(t, s)]
<1>1. Total(S) = table[S]
  BY DEF Total, MapThenSumSet, MapThenFoldSet, Chosen
<1>2. PICK g : Table(g, Fractions(S), S)
  BY TableExists
<1>3. ASSUME NEW s \in SUBSET S, s # {} PROVE Fractions(S)[Chosen(s)] = (Chosen(s)).fraction
  BY <1>3, ChosenIn DEF Fractions
<1>4. \A t : Table(t, Fractions(S), S) <=> t = [s \in SUBSET S |-> entry(t, s)]
  BY <1>3 DEF Table
<1>5. table = [s \in SUBSET S |-> entry(table, s)]
  <2> HIDE DEF entry
  <2>1. QED BY <1>2, <1>4
<1>6. Table(table, Fractions(S), S)
  BY <1>4, <1>5
<1> HIDE DEF table
<1>7. QED BY <1>1, <1>6, SumFromTable

\* The sum that a reader of the mirror index makes for a delegator.
MirroredTotal(d) ==
  MapThenSumSet(LAMBDA e : IF delegatees[e][d] = None THEN 0 ELSE delegatees[e][d], Accounts)

\* It is the sum of what the index says of each account.
LEMMA MirroredTotalIsSum ==
  ASSUME NEW d \in Accounts
  PROVE  MirroredTotal(d) = SumOf(Shares(d), Accounts)
<1> DEFINE share(e) == IF delegatees[e][d] = None THEN 0 ELSE delegatees[e][d]
           entry(t, s) == IF s = {} THEN 0 ELSE share(Chosen(s)) + t[s \ {Chosen(s)}]
           table == CHOOSE t : t = [s \in SUBSET Accounts |-> entry(t, s)]
<1>1. MirroredTotal(d) = table[Accounts]
  BY DEF MirroredTotal, MapThenSumSet, MapThenFoldSet, Chosen
<1>2. PICK g : Table(g, Shares(d), Accounts)
  BY TableExists, AccountsAssumption
<1>3. ASSUME NEW s \in SUBSET Accounts, s # {} PROVE Shares(d)[Chosen(s)] = share(Chosen(s))
  BY <1>3, ChosenIn DEF Shares
<1> HIDE DEF share
<1>4. \A t : Table(t, Shares(d), Accounts) <=> t = [s \in SUBSET Accounts |-> entry(t, s)]
  BY <1>3 DEF Table
<1>5. table = [s \in SUBSET Accounts |-> entry(table, s)]
  <2> HIDE DEF entry
  <2>1. QED BY <1>2, <1>4
<1>6. Table(table, Shares(d), Accounts)
  BY <1>4, <1>5
<1> HIDE DEF table
<1>7. QED BY <1>1, <1>6, SumFromTable, AccountsAssumption

\* The delegations of each list, expired ones included, give away no more than all.
ListsWithinWhole == \A d \in Accounts : Total(delegators[d]) <= Whole

\* The inductive invariant of what is given away.
WithinInv == DelegationInv /\ ListsWithinWhole

\* A list's total is a natural number, and so is that of any part, which is not larger.
LEMMA TotalOfPart ==
  ASSUME NEW S, S \subseteq Delegation, IsFiniteSet(S), NEW T, T \subseteq S
  PROVE  Total(T) \in Nat /\ Total(S) \in Nat /\ Total(T) <= Total(S)
<1>1. \A x \in S : Fractions(S)[x] \in Nat
  BY DEF Fractions, Delegation
<1>2. IsFiniteSet(T)
  BY FS_Subset
<1>3. Total(S) = SumOf(Fractions(S), S) /\ Total(T) = SumOf(Fractions(T), T)
  BY <1>2, TotalIsSum
<1>4. SumOf(Fractions(T), T) = SumOf(Fractions(S), T)
  <2>1. \A x \in T : Fractions(T)[x] = Fractions(S)[x]
    BY DEF Fractions
  <2>2. QED BY <1>2, <2>1, SumOfSame
<1>5. QED BY <1>1, <1>3, <1>4, SumOfPart

\* A new delegation adds its fraction.
LEMMA TotalWithOneMore ==
  ASSUME NEW S, S \subseteq Delegation, IsFiniteSet(S), NEW x \in Delegation, x \notin S
  PROVE  Total(S \cup {x}) = Total(S) + x.fraction
<1> DEFINE all == S \cup {x}
<1>1. IsFiniteSet(all) /\ \A y \in all : Fractions(all)[y] \in Nat
  BY FS_AddElement DEF Fractions, Delegation
<1>2. SumOf(Fractions(all), all) = Fractions(all)[x] + SumOf(Fractions(all), all \ {x})
  <2>1. x \in all
    OBVIOUS
  <2> HIDE DEF all
  <2>2. QED BY <1>1, <2>1, SumWithout
<1>3. all \ {x} = S /\ Fractions(all)[x] = x.fraction
  BY DEF Fractions
<1>4. SumOf(Fractions(all), S) = SumOf(Fractions(S), S)
  <2>1. \A y \in S : Fractions(all)[y] = Fractions(S)[y]
    BY DEF Fractions
  <2> HIDE DEF all
  <2>2. QED BY <2>1, SumOfSame
<1>5. Total(all) = SumOf(Fractions(all), all) /\ Total(S) = SumOf(Fractions(S), S)
  <2> HIDE DEF all
  <2>1. QED BY <1>1, TotalIsSum
<1>6. SumOf(Fractions(S), S) \in Nat
  <2>1. \A y \in S : Fractions(S)[y] \in Nat
    BY DEF Fractions, Delegation
  <2>2. QED BY <2>1, SumIsNat
<1>7. x.fraction \in Nat
  BY DEF Delegation
<1> HIDE DEF all
<1>8. SumOf(Fractions(all), all \ {x}) = SumOf(Fractions(S), S)
  BY <1>3, <1>4
<1>9. Total(all) = Total(S) + x.fraction
  BY <1>2, <1>3, <1>5, <1>6, <1>7, <1>8
<1>10. QED BY <1>9 DEF all

\* Nobody has given anything at first.
LEMMA WithinInit == Init => WithinInv
<1> SUFFICES ASSUME Init PROVE WithinInv
  OBVIOUS
<1>1. Total({}) = 0
  BY TotalIsSum, FS_EmptySet, SumOfNothing
<1>2. QED BY <1>1, InvInit, SizesAssumption DEF Init, WithinInv, ListsWithinWhole

\* A call leaves the totals of the others alone, and checks that of its own.
LEMMA WithinStep == WithinInv /\ [Next]_vars => WithinInv'
<1> SUFFICES ASSUME WithinInv, [Next]_vars PROVE ListsWithinWhole'
  BY InvStep DEF WithinInv
<1>1. /\ DelegationInv /\ TypeOK
      /\ \A d \in Accounts : IsFiniteSet(delegators[d]) /\ delegators[d] \subseteq Delegation
      /\ \A d \in Accounts : Total(delegators[d]) <= Whole
  BY DEF WithinInv, DelegationInv, TypeOK, ListOK, ListsWithinWhole
<1>2. Whole \in Nat
  BY SizesAssumption
<1>3. ASSUME NEW d \in Delegators, NEW e \in Accounts, NEW f \in 0..(Whole + 1),
             NEW until \in 0..(MaxTime + 1), MakeDelegation(d, e, f, until)
      PROVE  ListsWithinWhole'
  <2> DEFINE new == [delegatee |-> e, fraction |-> f, until |-> until]
  <2>1. d \in Accounts /\ f \in Nat /\ until \in Nat
    BY AccountsAssumption
  <2>2. /\ delegators' = [delegators EXCEPT ![d] = Kept(d, e) \cup {new}]
        /\ Total(Kept(d, e)) + f <= Whole
    BY <1>3 DEF MakeDelegation
  <2>3. new \in Delegation /\ new.fraction = f /\ new \notin Kept(d, e)
    BY <2>1 DEF Delegation, Kept
  <2> HIDE DEF new
  <2>4. Total(Kept(d, e) \cup {new}) = Total(Kept(d, e)) + f
    BY <1>1, <2>1, <2>3, KeptIsSmaller, TotalWithOneMore
  <2>5. \A c \in Accounts :
          delegators'[c] = IF c = d THEN Kept(d, e) \cup {new} ELSE delegators[c]
    BY <1>1, <2>2 DEF TypeOK
  <2>6. QED BY <1>1, <2>2, <2>4, <2>5 DEF ListsWithinWhole
<1>4. ASSUME NEW d \in Delegators, NEW e \in Accounts, RemoveDelegation(d, e)
      PROVE  ListsWithinWhole'
  <2>1. d \in Accounts
    BY AccountsAssumption
  <2>2. /\ Total(Kept(d, e)) \in Nat /\ Total(delegators[d]) \in Nat
        /\ Total(Kept(d, e)) <= Total(delegators[d])
    BY <1>1, <2>1, KeptIsSmaller, TotalOfPart
  <2>3. Total(Kept(d, e)) <= Whole
    BY <1>1, <1>2, <2>1, <2>2
  <2>4. \A c \in Accounts : delegators'[c] = IF c = d THEN Kept(d, e) ELSE delegators[c]
    BY <1>1, <1>4 DEF RemoveDelegation, TypeOK
  <2>5. QED BY <1>1, <2>3, <2>4 DEF ListsWithinWhole
<1>5. ASSUME Tick \/ UNCHANGED vars PROVE ListsWithinWhole'
  BY <1>5, <1>1 DEF Tick, vars, ListsWithinWhole
<1>6. QED BY <1>3, <1>4, <1>5 DEF Next

\* A reader of the mirror index finds under a delegator what its list gives away.
LEMMA MirroredIsListed ==
  ASSUME WithinInv, NEW d \in Accounts
  PROVE  MirroredTotal(d) <= Whole
<1> DEFINE named == {e \in Accounts : delegatees[e][d] # None}
           entry == [e \in named |-> CHOOSE x \in delegators[d] :
                                        x.delegatee = e /\ x.fraction = delegatees[e][d]]
           list == delegators[d]
<1>1. /\ TypeOK /\ IsFiniteSet(list) /\ list \subseteq Delegation
      /\ Total(list) <= Whole /\ Whole \in Nat /\ IsFiniteSet(Accounts)
      /\ \A e \in Accounts : AgreesAt(d, e)
  BY SizesAssumption, AccountsAssumption
  DEF WithinInv, DelegationInv, TypeOK, ListOK, ListsWithinWhole
<1>2. \A e \in Accounts :
        /\ Shares(d)[e] \in Nat
        /\ e \notin named => Shares(d)[e] = 0
        /\ e \in named => Shares(d)[e] = delegatees[e][d]
  BY <1>1 DEF Shares, TypeOK
<1>3. ASSUME NEW e \in named
      PROVE  entry[e] \in list /\ entry[e].delegatee = e /\ entry[e].fraction = delegatees[e][d]
  <2>1. \E x \in delegators[d] : x.delegatee = e /\ x.fraction = delegatees[e][d]
    BY <1>1 DEF AgreesAt
  <2>2. QED BY <2>1
<1>4. named \subseteq Accounts /\ IsFiniteSet(named)
  BY <1>1, FS_Subset
<1>5. /\ entry \in [named -> list]
      /\ \A x, y \in named : entry[x] = entry[y] => x = y
      /\ \A x \in named : Shares(d)[x] <= Fractions(list)[entry[x]]
  <2>1. \A x \in named : Fractions(list)[entry[x]] = delegatees[x][d]
    BY <1>3 DEF Fractions
  <2>2. entry \in [named -> list]
    BY <1>3
  <2>3. \A x, y \in named : entry[x] = entry[y] => x = y
    BY <1>3
  <2>4. \A x \in named : Shares(d)[x] = delegatees[x][d] /\ Shares(d)[x] \in Nat
    BY <1>2
  <2> HIDE DEF named, entry, list
  <2>5. QED BY <2>1, <2>2, <2>3, <2>4
<1>6. \A y \in list : Fractions(list)[y] \in Nat
  BY <1>1 DEF Fractions, Delegation
<1> HIDE DEF named, entry, list
<1>7. SumOf(Shares(d), named) <= SumOf(Fractions(list), list)
  BY <1>1, <1>2, <1>4, <1>5, <1>6, SumInjects
<1>8. SumOf(Shares(d), Accounts) = SumOf(Shares(d), named)
  BY <1>1, <1>2, <1>4, SumLeavesOut
<1>9. SumOf(Shares(d), named) \in Nat /\ SumOf(Fractions(list), list) \in Nat
  BY <1>1, <1>2, <1>4, <1>6, SumIsNat
<1>10. QED BY <1>1, <1>7, <1>8, <1>9, MirroredTotalIsSum, TotalIsSum

\* Whatever is delegated, renewed, removed or left to expire, a reader of the mirror index
\* never sees more than the whole of an account's power given away.
THEOREM MirroredNeverBeyondWhole == Spec => []MirroredWithinWhole
<1>1. WithinInv => MirroredWithinWhole
  BY MirroredIsListed DEF MirroredWithinWhole, MirroredTotal
<1>2. Spec => []WithinInv
  BY WithinInit, WithinStep, PTL DEF Spec
<1>3. QED BY <1>1, <1>2, PTL
=============================================================================
