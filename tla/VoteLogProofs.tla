---------------------------- MODULE VoteLogProofs ----------------------------
(***************************************************************************)
(* What the last ballot of a slice of the vote log is, for logs of any     *)
(* length: it does not change when votes are appended behind the slice,    *)
(* and a prefix can be counted by replacing, in the count of a shorter     *)
(* prefix, the ballots of the accounts that voted since.                   *)
(***************************************************************************)
EXTENDS VoteLog, FiniteSets, FiniteSetTheorems, WellFoundedInduction, TLAPS

\* A nonempty set of vote positions has a last one: the re-count of a slice
\* always finds the ballot that counts.
LEMMA LastPositionExists ==
  ASSUME NEW n \in Nat, NEW T, T \subseteq 1..n, T # {}
  PROVE  LastOf(T) \in T /\ \A j \in T : j <= LastOf(T)
<1> DEFINE Above(x) == {y \in T : x < y}
           W == {Above(x) : x \in T}
<1>1. T \subseteq Int
  OBVIOUS
<1>2. IsFiniteSet(T)
  BY FS_Interval, FS_Subset, 1 \in Int, n \in Int
<1>3. W \subseteq FiniteSubsetsOf(T) /\ W # {}
  <2>1. FiniteSubsetsOf(T) = SUBSET T
    BY <1>2, FS_FiniteSubsetsOfFinite
  <2>2. \A x \in T : Above(x) \in SUBSET T
    OBVIOUS
  <2>3. W \subseteq SUBSET T
    BY <2>2
  <2>4. W # {}
    OBVIOUS
  <2>5. QED BY <2>1, <2>3, <2>4
<1>4. PICK U \in W : \A V \in W : ~ (<<V, U>> \in StrictSubsetOrdering(T))
  <2>1. IsWellFoundedOn(StrictSubsetOrdering(T), FiniteSubsetsOf(T))
    BY FS_StrictSubsetOrderingWellFounded
  <2> HIDE DEF W
  <2>2. QED BY <1>3, <2>1, WFMin
<1>5. PICK x \in T : U = Above(x)
  BY <1>4
<1>6. ASSUME NEW y \in T, x < y
      PROVE  FALSE
  <2>1. y \in Above(x) /\ y \notin Above(y)
    BY <1>6, <1>1
  <2>2. ASSUME NEW z \in Above(y)
        PROVE  z \in Above(x)
    <3>1. x \in Int /\ y \in Int /\ z \in Int /\ z \in T /\ y < z
      BY <1>1, <2>2
    <3>2. x < z
      BY <3>1, <1>6
    <3>3. QED BY <3>1, <3>2
  <2>3. <<Above(y), U>> \in StrictSubsetOrdering(T)
    BY <2>1, <2>2, <1>5 DEF StrictSubsetOrdering
  <2>4. QED BY <2>3, <1>4
<1>7. \A j \in T : j <= x
  BY <1>6, <1>1
<1>8. QED BY <1>7 DEF LastOf

\* An account's last ballot in a slice is that of a vote of the account which
\* no later vote of the slice replaces; without a vote it is the empty ballot.
LEMMA LastBallotMeaning ==
  ASSUME NEW log \in Seq(Vote), NEW from \in Nat \ {0}, NEW to \in Nat, NEW a \in Accounts
  PROVE  LET cast == CastBy(log, from, to, a)
         IN  /\ cast = {} => LastBallot(log, from, to, a) = {}
             /\ cast # {} =>
                  /\ LastOf(cast) \in cast
                  /\ \A j \in cast : j <= LastOf(cast)
                  /\ LastBallot(log, from, to, a) = log[LastOf(cast)].ballot
                  /\ LastBallot(log, from, to, a) # {}
<1> DEFINE cast == CastBy(log, from, to, a)
<1>1. cast \subseteq 1..to
  BY DEF CastBy
<1>2. CASE cast = {}
  BY <1>2 DEF LastBallot
<1>3. CASE cast # {}
  <2>1. LastOf(cast) \in cast /\ \A j \in cast : j <= LastOf(cast)
    <3> HIDE DEF cast
    <3>1. QED BY <1>1, <1>3, LastPositionExists
  <2>2. LastOf(cast) \in 1..Len(log)
    BY <2>1 DEF CastBy
  <2>3. log[LastOf(cast)].ballot # {}
    <3>1. log[LastOf(cast)] \in Vote
      <4> HIDE DEF cast
      <4>1. QED BY <2>2
    <3>2. \A v \in Vote : v.ballot # {}
      BY BallotsAssumption DEF Vote
    <3>3. QED BY <3>1, <3>2
  <2>4. QED BY <1>3, <2>1, <2>3 DEF LastBallot
<1>4. QED BY <1>2, <1>3

\* The last ballot of an account in a slice is a set of options.
LEMMA LastBallotType ==
  ASSUME NEW log \in Seq(Vote), NEW from \in Nat \ {0}, NEW to \in Nat, NEW a \in Accounts
  PROVE  LastBallot(log, from, to, a) \in SUBSET Options
<1> DEFINE cast == CastBy(log, from, to, a)
<1>1. CASE cast = {}
  BY <1>1 DEF LastBallot
<1>2. CASE cast # {}
  <2>1. LastOf(cast) \in cast /\ LastBallot(log, from, to, a) = log[LastOf(cast)].ballot
    BY <1>2, LastBallotMeaning
  <2>2. LastOf(cast) \in 1..Len(log)
    BY <2>1 DEF CastBy
  <2>3. log[LastOf(cast)] \in Vote
    <3> HIDE DEF cast
    <3>1. QED BY <2>2
  <2>4. \A v \in Vote : v.ballot \in SUBSET Options
    BY BallotsAssumption DEF Vote
  <2>5. QED BY <2>1, <2>3, <2>4
<1>3. QED BY <1>1, <1>2

\* A vote cast later does not change the count of a slice already cast.
LEMMA LastBallotStable ==
  ASSUME NEW log \in Seq(Vote), NEW x \in Vote, NEW a \in Accounts,
         NEW from \in Nat \ {0}, NEW to \in 0..Len(log)
  PROVE  LastBallot(Append(log, x), from, to, a) = LastBallot(log, from, to, a)
<1>1. \A i \in from..to : i \in 1..Len(log) /\ Append(log, x)[i] = log[i]
  OBVIOUS
<1>2. CastBy(Append(log, x), from, to, a) = CastBy(log, from, to, a)
  BY <1>1 DEF CastBy
<1>3. CASE CastBy(log, from, to, a) = {}
  BY <1>2, <1>3 DEF LastBallot
<1>4. CASE CastBy(log, from, to, a) # {}
  <2>1. LastOf(CastBy(log, from, to, a)) \in CastBy(log, from, to, a)
    BY <1>4, LastBallotMeaning, to \in Nat
  <2>2. LastOf(CastBy(log, from, to, a)) \in from..to
    BY <2>1 DEF CastBy
  <2>3. QED BY <1>1, <1>2, <1>4, <2>2 DEF LastBallot
<1>5. QED BY <1>3, <1>4

\* Positions behind the end of the log hold no vote.
LEMMA LastBallotClipped ==
  ASSUME NEW log \in Seq(Vote), NEW a \in Accounts, NEW from \in Nat \ {0}
  PROVE  LastBallot(log, from, Len(log) + 1, a) = LastBallot(log, from, Len(log), a)
<1>1. CastBy(log, from, Len(log) + 1, a) = CastBy(log, from, Len(log), a)
  BY DEF CastBy
<1>2. QED BY <1>1 DEF LastBallot

\* Counting incrementally: the count of the first m votes is that of any k
\* first votes, last <= k <= m, updated with the ballots of the votes after the
\* first last ones.  The votes last + 1..k are counted again, to no effect.
LEMMA LastBallotIncremental ==
  ASSUME NEW log \in Seq(Vote), NEW a \in Accounts,
         NEW last \in Nat, NEW k \in Nat, NEW m \in Nat,
         last <= k, k <= m, m <= Len(log)
  PROVE  LastBallot(log, 1, m, a) =
           IF LastBallot(log, last + 1, m, a) = {} THEN LastBallot(log, 1, k, a)
           ELSE LastBallot(log, last + 1, m, a)
<1> DEFINE recent == CastBy(log, last + 1, m, a)
           earlier == CastBy(log, 1, k, a)
           all == CastBy(log, 1, m, a)
<1>1. CASE recent = {}
  <2>1. all = earlier
    BY <1>1 DEF CastBy
  <2>2. LastBallot(log, last + 1, m, a) = {}
    BY <1>1, LastBallotMeaning
  <2>3. QED BY <2>1, <2>2 DEF LastBallot
<1>2. CASE recent # {}
  <2>1. /\ LastOf(recent) \in recent
        /\ \A j \in recent : j <= LastOf(recent)
        /\ LastBallot(log, last + 1, m, a) = log[LastOf(recent)].ballot
        /\ LastBallot(log, last + 1, m, a) # {}
    BY <1>2, LastBallotMeaning
  <2>2. recent \subseteq all /\ all \subseteq Int
    BY DEF CastBy
  <2>3. /\ LastOf(all) \in all
        /\ \A j \in all : j <= LastOf(all)
        /\ LastBallot(log, 1, m, a) = log[LastOf(all)].ballot
    BY <1>2, <2>2, LastBallotMeaning
  <2>4. LastOf(all) \in recent
    BY <2>1, <2>2, <2>3 DEF CastBy
  <2>5. LastOf(all) = LastOf(recent)
    BY <2>1, <2>2, <2>3, <2>4
  <2>6. QED BY <2>1, <2>3, <2>5
<1>3. QED BY <1>1, <1>2
=============================================================================
