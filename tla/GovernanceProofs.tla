-------------------------- MODULE GovernanceProofs --------------------------
(***************************************************************************)
(* Proofs about Governance for any number of accounts, consultations,      *)
(* votes and parameter sets, and any durations.                            *)
(***************************************************************************)
EXTENDS Governance, FiniteSetTheorems, TLAPS

-----------------------------------------------------------------------------
(* Books *)

\* A book before the first vote.
LEMMA EmptyBookIsGood ==
  ASSUME NEW C
  PROVE  IsBook(EmptyBook, C) /\ Consistent(EmptyBook)
<1>1. IsBook(EmptyBook, C)
  <2>1. EmptyStore \in [0..(0 - 1) -> Record(C)]
    BY DEF EmptyStore
  <2>2. QED BY <2>1, LimitAssumption DEF IsBook, EmptyBook
<1>2. Voted(EmptyBook) = {}
  BY DEF Voted, EmptyBook
<1>3. Cardinality({}) = 0
  BY FS_EmptySet
<1>4. QED BY <1>1, <1>2, <1>3 DEF Consistent, VotersAreLast, ReplacementsChain, EmptyBook, VotesOf

\* What IsBook says of a book's fields.
LEMMA BookFields ==
  ASSUME NEW C, NEW b, IsBook(b, C)
  PROVE  /\ b.count \in Nat /\ b.count <= MaxVotes
         /\ b.revotes \in Nat
         /\ b.voters \in [Accounts -> Entry(C) \cup {None}]
         /\ b.votes \in [0..(b.count - 1) -> Record(C)]
BY LimitAssumption DEF IsBook

\* A vote keeps the two stores and the two counters in agreement.
LEMMA CastKeepsBooks ==
  ASSUME NEW C, None \notin Entry(C), NEW b, IsBook(b, C), Consistent(b),
         b.count < MaxVotes,
         NEW a \in Accounts, NEW x \in C, NEW t \in Nat
  PROVE  IsBook(Cast(b, a, x, t), C) /\ Consistent(Cast(b, a, x, t))
<1> DEFINE d == Cast(b, a, x, t)
           n == b.count
           new == [vote |-> n, choice |-> x]
           rec == [voter |-> a, choice |-> x, replacing |-> Replaced(b, a), at |-> t]
<1>1. /\ n \in Nat /\ n < MaxVotes /\ b.revotes \in Nat
      /\ b.voters \in [Accounts -> Entry(C) \cup {None}]
      /\ b.votes \in [0..(n - 1) -> Record(C)]
  BY BookFields
<1>2. new \in Entry(C) /\ new # None
  BY <1>1 DEF Entry
<1>3. Replaced(b, a) \in Nat \cup {None} /\ (Replaced(b, a) = None <=> b.voters[a] = None)
  BY <1>1, NoneAssumption DEF Replaced, Entry
<1>4. /\ d.count = n + 1
      /\ d.revotes = b.revotes + (IF b.voters[a] = None THEN 0 ELSE 1)
      /\ d.voters = [b.voters EXCEPT ![a] = new]
      /\ d.votes = [i \in 0..n |-> IF i = n THEN rec ELSE b.votes[i]]
  BY <1>3 DEF Cast, Extended
<1>5. rec \in Record(C)
  BY <1>3 DEF Record
<1>6. d.votes \in [0..n -> Record(C)]
  BY <1>1, <1>4, <1>5
<1>7. /\ d.voters[a] = new
      /\ \A y \in Accounts \ {a} : d.voters[y] = b.voters[y]
  BY <1>1, <1>4
<1>8. /\ VotesOf(d, a) = VotesOf(b, a) \cup {n}
      /\ \A y \in Accounts \ {a} : VotesOf(d, y) = VotesOf(b, y)
  BY <1>1, <1>4 DEF VotesOf
<1>9. VotersAreLast(b) /\ ReplacementsChain(b) /\ b.revotes = n - Cardinality(Voted(b))
  BY DEF Consistent
<1>10. VotersAreLast(d)
  <2> SUFFICES ASSUME NEW y \in Accounts
               PROVE  IF d.voters[y] = None
                      THEN VotesOf(d, y) = {}
                      ELSE /\ d.voters[y].vote \in VotesOf(d, y)
                           /\ \A i \in VotesOf(d, y) : i <= d.voters[y].vote
                           /\ d.votes[d.voters[y].vote].choice = d.voters[y].choice
    BY DEF VotersAreLast
  <2>1. CASE y = a
    <3>1. \A i \in VotesOf(b, a) : i <= n
      BY <1>1 DEF VotesOf
    <3>2. d.votes[n].choice = x
      BY <1>1, <1>4
    <3>3. QED BY <2>1, <1>1, <1>2, <1>7, <1>8, <3>1, <3>2
  <2>2. CASE y # a
    <3>1. d.voters[y] = b.voters[y] /\ VotesOf(d, y) = VotesOf(b, y)
      BY <2>2, <1>7, <1>8
    <3>2. \A i \in VotesOf(b, y) : d.votes[i] = b.votes[i]
      BY <1>1, <1>4 DEF VotesOf
    <3>3. QED BY <3>1, <3>2, <1>9 DEF VotersAreLast
  <2>3. QED BY <2>1, <2>2
<1>11. ReplacementsChain(d)
  <2> SUFFICES ASSUME NEW i \in 0..n
               PROVE  LET earlier == {j \in VotesOf(d, d.votes[i].voter) : j < i}
                          previous == d.votes[i].replacing
                      IN  IF previous = None
                          THEN earlier = {}
                          ELSE previous \in earlier /\ \A j \in earlier : j <= previous
    <3>1. 0..(d.count - 1) = 0..n
      BY <1>1, <1>4
    <3>2. QED BY <3>1 DEF ReplacementsChain
  <2> DEFINE y == d.votes[i].voter
  <2>1. CASE i = n
    <3>1. d.votes[i] = rec
      BY <2>1, <1>1, <1>4
    <3>2. {j \in VotesOf(d, a) : j < n} = VotesOf(b, a)
      BY <1>1, <1>8 DEF VotesOf
    <3>3. CASE b.voters[a] = None
      BY <2>1, <3>1, <3>2, <3>3, <1>3, <1>9 DEF VotersAreLast
    <3>4. CASE b.voters[a] # None
      BY <2>1, <3>1, <3>2, <3>4, <1>3, <1>9 DEF VotersAreLast, Replaced
    <3>5. QED BY <3>3, <3>4
  <2>2. CASE i # n
    <3>0. i \in 0..(n - 1)
      BY <2>2, <1>1
    <3>1. i \in 0..(n - 1) /\ d.votes[i] = b.votes[i]
      BY <3>0, <2>2, <1>4
    <3>4. b.votes[i] \in Record(C)
      BY <3>1, <1>1
    <3>5. y \in Accounts
      BY <3>1, <3>4 DEF Record
    <3>2. {j \in VotesOf(d, y) : j < i} = {j \in VotesOf(b, y) : j < i}
      BY <3>1, <3>5, <1>1, <1>8 DEF VotesOf
    <3>3. QED BY <3>1, <3>2, <1>9 DEF ReplacementsChain
  <2>3. QED BY <2>1, <2>2
<1>12. Voted(d) = Voted(b) \cup {a} /\ (a \in Voted(b) <=> b.voters[a] # None)
  BY <1>2, <1>7 DEF Voted
<1>13. IsFiniteSet(Voted(b)) /\ Cardinality(Voted(b)) \in Nat
  BY VotersAssumption, FS_Subset, FS_CardinalityType DEF Voted
<1>14. Cardinality(Voted(d)) = Cardinality(Voted(b)) + (IF b.voters[a] = None THEN 1 ELSE 0)
  <2>1. a \in Accounts /\ a \notin Voted(b) =>
          Cardinality(Voted(b) \cup {a}) = Cardinality(Voted(b)) + 1
    BY <1>13, FS_AddElement
  <2>2. a \in Voted(b) => Voted(b) \cup {a} = Voted(b)
    OBVIOUS
  <2>3. CASE b.voters[a] = None
    BY <2>1, <2>3, <1>12, <1>13
  <2>4. CASE b.voters[a] # None
    BY <2>2, <2>4, <1>12, <1>13
  <2>5. QED BY <2>3, <2>4
<1>15. d.revotes = d.count - Cardinality(Voted(d))
  BY <1>1, <1>4, <1>9, <1>13, <1>14
<1>16. Cardinality(Voted(d)) \in Nat
  BY <1>13, <1>14
<1>17. d.revotes \in 0..MaxVotes /\ d.count \in 0..MaxVotes
  BY <1>1, <1>4, <1>15, <1>16, LimitAssumption
<1>18. d.voters \in [Accounts -> Entry(C) \cup {None}]
  BY <1>1, <1>2, <1>4
<1>19. d.votes \in [0..(d.count - 1) -> Record(C)]
  <2>1. 0..(d.count - 1) = 0..n
    BY <1>1, <1>4
  <2>2. QED BY <2>1, <1>6
<1>20. d = [count |-> d.count, revotes |-> d.revotes, voters |-> d.voters, votes |-> d.votes]
  BY DEF Cast
<1>21. QED BY <1>10, <1>11, <1>15, <1>17, <1>18, <1>19, <1>20 DEF IsBook, Consistent

\* A vote cast inside a phase leaves every vote of the book inside it.
LEMMA CastStaysWithin ==
  ASSUME NEW C, NEW b, IsBook(b, C), NEW a \in Accounts, NEW x \in C, NEW t \in Nat,
         NEW start \in Nat, NEW deadline \in Nat, CastWithin(b, start, deadline),
         start <= t, t < deadline
  PROVE  CastWithin(Cast(b, a, x, t), start, deadline)
<1> DEFINE d == Cast(b, a, x, t)
           n == b.count
<1>1. n \in Nat /\ d.count = n + 1 /\ d.votes[n].at = t
      /\ \A i \in 0..(n - 1) : d.votes[i] = b.votes[i]
  BY BookFields DEF Cast, Extended
<1> SUFFICES ASSUME NEW i \in 0..(d.count - 1)
             PROVE  start <= d.votes[i].at /\ d.votes[i].at < deadline
  BY DEF CastWithin
<1>2. i = n \/ i \in 0..(n - 1)
  BY <1>1
<1>3. QED BY <1>1, <1>2 DEF CastWithin

\* Nothing is outside the phase of an empty book.
LEMMA EmptyIsWithin ==
  ASSUME NEW start, NEW deadline
  PROVE  CastWithin(EmptyBook, start, deadline)
BY DEF CastWithin, EmptyBook

-----------------------------------------------------------------------------
(* The registry *)

\* Sets are well typed and valid, and the default set can be chosen.
RegistryInv ==
  /\ RegistryType
  /\ DefaultSelectable
  /\ \A id \in SetIds : registry[id] # None => ValidParameters(registry[id].parameters)

\* A parameter set has the stages that its variant says.
LEMMA ParameterFields ==
  ASSUME NEW p \in Parameters
  PROVE  /\ p.check \in Stage
         /\ IsStandard(p) => p \in Standard /\ p.proposal \in Stage
         /\ ~IsStandard(p) => p \in MajorityJudgment /\ p.election \in Stage /\ p.rerun \in Stage
BY DEF Parameters, Standard, MajorityJudgment, IsStandard

\* What the registry holds is a parameter set.
LEMMA RegistryFields ==
  ASSUME RegistryType, NEW id \in SetIds, registry[id] # None
  PROVE  /\ registry[id] \in ParameterSet
         /\ registry[id].version \in 1..MaxVersion /\ registry[id].version \in Nat
         /\ registry[id].parameters \in Parameters
BY RegistryAssumption DEF RegistryType, ParameterSet

\* The registry starts with the default set alone, and in order.
LEMMA RegistryStarts == RegistryInit => RegistryInv
<1> SUFFICES ASSUME RegistryInit PROVE RegistryInv
  OBVIOUS
<1>1. PICK p \in Inputs :
        /\ ValidParameters(p) /\ IsStandard(p)
        /\ registry = [id \in SetIds |-> IF id = Default THEN NewSet(p) ELSE None]
  BY DEF RegistryInit
<1>2. p \in Parameters
  BY RegistryAssumption
<1>3. NewSet(p) \in ParameterSet /\ NewSet(p).parameters = p /\ ~NewSet(p).retired
  BY <1>2, RegistryAssumption DEF NewSet, ParameterSet
<1>4. NewSet(p) # None
  BY <1>3, NoneIsNoSet
<1>5. RegistryType
  BY <1>1, <1>3 DEF RegistryType
<1>6. DefaultSelectable
  BY <1>1, <1>3, <1>4, RegistryAssumption DEF DefaultSelectable, Selectable
<1>7. QED BY <1>1, <1>3, <1>5, <1>6 DEF RegistryInv

\* A set that is added, updated or retired keeps the registry in order, and a set that was
\* there has a newer version or the parameters it had.
LEMMA RegistrySteps ==
  ASSUME RegistryInv, NEW id \in SetIds,
         \/ \E p \in Inputs : AddSet(id, p) \/ UpdateSet(id, p)
         \/ RetireSet(id)
  PROVE  /\ RegistryInv'
         /\ \A i \in SetIds : registry[i] # None =>
              /\ registry'[i] # None
              /\ \/ registry'[i].version > registry[i].version
                 \/ /\ registry'[i].version = registry[i].version
                    /\ registry'[i].parameters = registry[i].parameters
<1> USE RegistryAssumption
<1>1. RegistryType /\ Default \in SetIds
  BY DEF RegistryInv
<1>2. ASSUME NEW p \in Inputs, AddSet(id, p)
      PROVE  /\ NewSet(p) \in ParameterSet /\ ValidParameters(NewSet(p).parameters)
             /\ registry' = [registry EXCEPT ![id] = NewSet(p)] /\ registry[id] = None
  BY <1>2 DEF AddSet, NewSet, ParameterSet
<1>3. ASSUME NEW p \in Inputs, UpdateSet(id, p)
      PROVE  LET s == Updated(registry[id], p)
             IN  /\ s \in ParameterSet /\ s.parameters = p /\ ValidParameters(p)
                 /\ s.version = registry[id].version + 1 /\ s.retired = registry[id].retired
                 /\ registry[id] # None /\ ~registry[id].retired
                 /\ id = Default => IsStandard(p)
                 /\ registry' = [registry EXCEPT ![id] = s]
  <2>1. registry[id] \in ParameterSet
    BY <1>1, <1>3, RegistryFields DEF UpdateSet, Selectable
  <2>2. p \in Parameters
    OBVIOUS
  <2>3. Updated(registry[id], p) =
          [version |-> registry[id].version + 1, retired |-> registry[id].retired,
           parameters |-> p]
    BY DEF Updated
  <2>4. registry[id].version + 1 \in 1..MaxVersion
    BY <1>3, <2>1 DEF ParameterSet, UpdateSet
  <2>5. registry[id].retired \in BOOLEAN
    BY <2>1 DEF ParameterSet
  <2>6. QED BY <1>3, <2>2, <2>3, <2>4, <2>5 DEF UpdateSet, Selectable, ParameterSet
<1>4. ASSUME RetireSet(id)
      PROVE  LET s == [registry[id] EXCEPT !.retired = TRUE]
             IN  /\ s \in ParameterSet /\ s.parameters = registry[id].parameters
                 /\ s.version = registry[id].version
                 /\ registry[id] # None /\ id # Default
                 /\ registry' = [registry EXCEPT ![id] = s]
  BY <1>1, <1>4, RegistryFields DEF RetireSet, Selectable, ParameterSet
<1>5. CASE \E p \in Inputs : AddSet(id, p)
  <2>1. PICK p \in Inputs : AddSet(id, p)
    BY <1>5
  <2> DEFINE s == NewSet(p)
  <2>2. /\ s \in ParameterSet /\ ValidParameters(s.parameters)
        /\ registry' = [registry EXCEPT ![id] = s] /\ registry[id] = None
    BY <2>1, <1>2
  <2> HIDE DEF s
  <2>3. Default # id /\ registry'[Default] = registry[Default]
    BY <1>1, <2>2 DEF RegistryInv, RegistryType, DefaultSelectable, Selectable
  <2>4. registry' \in [SetIds -> ParameterSet \cup {None}]
    BY <1>1, <2>2 DEF RegistryType
  <2>5. \A i \in SetIds : i # id => registry'[i] = registry[i]
    BY <1>1, <2>2 DEF RegistryType
  <2>6. registry'[id] = s
    BY <1>1, <2>2 DEF RegistryType
  <2>7. RegistryInv'
    BY <2>2, <2>3, <2>4, <2>5, <2>6
       DEF RegistryInv, RegistryType, DefaultSelectable, Selectable
  <2>8. QED BY <2>2, <2>5, <2>7
<1>6. CASE \E p \in Inputs : UpdateSet(id, p)
  <2>1. PICK p \in Inputs : UpdateSet(id, p)
    BY <1>6
  <2> DEFINE s == Updated(registry[id], p)
  <2>2. /\ s \in ParameterSet /\ s.parameters = p /\ ValidParameters(p)
        /\ s.version = registry[id].version + 1 /\ s.retired = registry[id].retired
        /\ registry[id] # None /\ ~registry[id].retired
        /\ id = Default => IsStandard(p)
        /\ registry' = [registry EXCEPT ![id] = s]
    BY <2>1, <1>3
  <2> HIDE DEF s
  <2>3. registry[id].version \in Nat
    BY <1>1, <2>2, RegistryFields
  <2>4. QED
    BY <1>1, <2>2, <2>3, NoneIsNoSet
       DEF RegistryInv, RegistryType, DefaultSelectable, Selectable
<1>7. CASE RetireSet(id)
  <2> DEFINE s == [registry[id] EXCEPT !.retired = TRUE]
  <2>2. /\ s \in ParameterSet /\ s.parameters = registry[id].parameters
        /\ s.version = registry[id].version
        /\ registry[id] # None /\ id # Default
        /\ registry' = [registry EXCEPT ![id] = s]
    BY <1>7, <1>4
  <2> HIDE DEF s
  <2>3. QED
    BY <1>1, <2>2, NoneIsNoSet
       DEF RegistryInv, RegistryType, DefaultSelectable, Selectable
<1>8. QED BY <1>5, <1>6, <1>7

-----------------------------------------------------------------------------
(* The invariant *)

\* What is true of a check, a proposal, a round and an election on its own, at time t.
CheckInv(c, t) ==
  /\ IsCheck(c)
  /\ Consistent(c.book) /\ CastWithin(c.book, c.start, c.deadline)
  /\ ValidParameters(c.parameterSet.parameters)
  /\ c.followUp.kind = "MajorityJudgmentElection" => Len(c.followUp.candidates) <= MaxCandidates
  /\ c.outcome # None => c.deadline <= c.outcome.at /\ c.outcome.at <= t

ProposalInv(p) ==
  IsProposal(p) /\ Consistent(p.book) /\ CastWithin(p.book, p.start, p.deadline)

RoundInv(r) ==
  IsRound(r) /\ Consistent(r.book) /\ CastWithin(r.book, r.start, r.deadline)

ElectionInv(e, t) ==
  /\ IsElection(e)
  /\ \A k \in RoundIds : e.rounds[k] # None => RoundInv(e.rounds[k])
  /\ e.rounds["Rerun"] # None =>
       /\ e.rounds["RoundOne"] # None
       /\ e.rounds["RoundOne"].deadline <= e.rounds["Rerun"].start
       /\ e.rounds["Rerun"].start <= t
  /\ e.tie # None =>
       /\ e.rounds[e.tie.round] # None
       /\ e.rounds[e.tie.round].deadline <= e.tie.at /\ e.tie.at <= t

Records ==
  /\ counts \in [{"checks", "proposals", "elections"} -> 0..MaxEntities]
  /\ DOMAIN checks = Ids(counts.checks) /\ \A c \in DOMAIN checks : CheckInv(checks[c], now)
  /\ DOMAIN proposals = Ids(counts.proposals)
  /\ \A p \in DOMAIN proposals : ProposalInv(proposals[p])
  /\ DOMAIN elections = Ids(counts.elections)
  /\ \A e \in DOMAIN elections : ElectionInv(elections[e], now)
  /\ now \in 0..MaxTime
  /\ toggles \in 0..MaxToggles

\* How a continuation is tied to its check c.
LinkedCheck(c) ==
  checks[c].continuation # None =>
    LET next == checks[c].continuation
    IN  IF next.kind = "Proposal"
        THEN next.id \in DOMAIN proposals /\ proposals[next.id].check = c
        ELSE next.id \in DOMAIN elections /\ elections[next.id].check = c

LinkedProposal(p, id) ==
  /\ p.check \in DOMAIN checks
  /\ checks[p.check].continuation = [kind |-> "Proposal", id |-> id]
  /\ p.parameterSet = checks[p.check].parameterSet
  /\ IsStandard(p.parameterSet.parameters)
  /\ p.deadline = p.start + p.parameterSet.parameters.proposal.days
  /\ Passed(p.check)
  /\ p.start >= checks[p.check].outcome.at

LinkedElection(e, id) ==
  /\ e.check \in DOMAIN checks
  /\ checks[e.check].continuation = [kind |-> "MajorityJudgmentElection", id |-> id]
  /\ checks[e.check].followUp.kind = "MajorityJudgmentElection"
  /\ ~IsStandard(checks[e.check].parameterSet.parameters)
  /\ e.rounds["RoundOne"] # None =>
       Passed(e.check) /\ e.rounds["RoundOne"].start >= checks[e.check].outcome.at
  /\ \A k \in RoundIds : e.rounds[k] # None =>
       LET parameters == checks[e.check].parameterSet.parameters
       IN  /\ e.rounds[k].rule = parameters.election.rule
           /\ e.rounds[k].snapshot = e.rounds["RoundOne"].start
           /\ e.rounds[k].deadline = e.rounds[k].start
                + (IF k = "Rerun" THEN parameters.rerun.days ELSE parameters.election.days)

Links ==
  /\ \A c \in DOMAIN checks : LinkedCheck(c)
  /\ \A p \in DOMAIN proposals : LinkedProposal(proposals[p], p)
  /\ \A e \in DOMAIN elections : LinkedElection(elections[e], e)

\* A snapshot is of a set that is registered: an earlier version of it, or what it is now.
Snapshots ==
  /\ \A c \in DOMAIN checks :
       LET s == checks[c].parameterSet
       IN  /\ registry[s.id] # None
           /\ \/ registry[s.id].version > s.version
              \/ registry[s.id].version = s.version /\ registry[s.id].parameters = s.parameters
  /\ \A c, d \in DOMAIN checks :
       LET s == checks[c].parameterSet
           u == checks[d].parameterSet
       IN  s.id = u.id /\ s.version = u.version => s.parameters = u.parameters

\* The inductive invariant.
GovernanceInv == RegistryInv /\ Records /\ Links /\ Snapshots

-----------------------------------------------------------------------------
(* One record changes *)

\* A check changes in nothing but its book, its outcome, once, or its visibility.
LEMMA CheckChanges ==
  ASSUME GovernanceInv, NEW c \in DOMAIN checks, NEW new, CheckInv(new, now),
         checks' = [checks EXCEPT ![c] = new],
         new.followUp = checks[c].followUp, new.parameterSet = checks[c].parameterSet,
         new.continuation = checks[c].continuation,
         checks[c].outcome # None => new.outcome = checks[c].outcome,
         UNCHANGED <<registry, proposals, elections, counts, now>>,
         toggles' \in 0..MaxToggles
  PROVE  GovernanceInv'
<1>1. DOMAIN checks' = DOMAIN checks
  OBVIOUS
<1>2. /\ checks'[c] = new
      /\ \A d \in DOMAIN checks : d # c => checks'[d] = checks[d]
  OBVIOUS
<1>3. RegistryInv'
  BY DEF GovernanceInv, RegistryInv, RegistryType, DefaultSelectable, Selectable
<1>4. Records'
  BY <1>1, <1>2 DEF GovernanceInv, Records
<1>5. \A d \in DOMAIN checks :
        /\ checks'[d].followUp = checks[d].followUp
        /\ checks'[d].parameterSet = checks[d].parameterSet
        /\ checks'[d].continuation = checks[d].continuation
        /\ checks[d].outcome # None => checks'[d].outcome = checks[d].outcome
  BY <1>2
<1> HIDE DEF GovernanceInv
<1>6. Links'
  BY <1>1, <1>5
     DEF GovernanceInv, Links, LinkedCheck, LinkedProposal, LinkedElection, Passed
<1>7. Snapshots'
  BY <1>1, <1>5 DEF GovernanceInv, Snapshots
<1>8. QED BY <1>3, <1>4, <1>6, <1>7 DEF GovernanceInv

\* A proposal changes in nothing but its book or its visibility.
LEMMA ProposalChanges ==
  ASSUME GovernanceInv, NEW p \in DOMAIN proposals, NEW new, ProposalInv(new),
         proposals' = [proposals EXCEPT ![p] = new],
         new.check = proposals[p].check, new.parameterSet = proposals[p].parameterSet,
         new.start = proposals[p].start, new.deadline = proposals[p].deadline,
         UNCHANGED <<registry, checks, elections, counts, now>>,
         toggles' \in 0..MaxToggles
  PROVE  GovernanceInv'
<1>1. DOMAIN proposals' = DOMAIN proposals
  OBVIOUS
<1>2. /\ proposals'[p] = new
      /\ \A q \in DOMAIN proposals : q # p => proposals'[q] = proposals[q]
  OBVIOUS
<1>3. RegistryInv'
  BY DEF GovernanceInv, RegistryInv, RegistryType, DefaultSelectable, Selectable
<1>4. Records'
  BY <1>1, <1>2 DEF GovernanceInv, Records
<1>5. \A q \in DOMAIN proposals :
        /\ proposals'[q].check = proposals[q].check
        /\ proposals'[q].parameterSet = proposals[q].parameterSet
        /\ proposals'[q].start = proposals[q].start
        /\ proposals'[q].deadline = proposals[q].deadline
  BY <1>2
<1>6. Links'
  BY <1>1, <1>5
     DEF GovernanceInv, Links, LinkedCheck, LinkedProposal, LinkedElection, Passed
<1>7. Snapshots'
  BY DEF GovernanceInv, Snapshots
<1>8. QED BY <1>3, <1>4, <1>6, <1>7 DEF GovernanceInv

\* An election changes in its rounds, its tie or its visibility, and stays linked.
LEMMA ElectionChanges ==
  ASSUME GovernanceInv, NEW e \in DOMAIN elections, NEW new, ElectionInv(new, now),
         LinkedElection(new, e),
         elections' = [elections EXCEPT ![e] = new],
         new.check = elections[e].check,
         UNCHANGED <<registry, checks, proposals, counts, now>>,
         toggles' \in 0..MaxToggles
  PROVE  GovernanceInv'
<1>1. DOMAIN elections' = DOMAIN elections
  OBVIOUS
<1>2. /\ elections'[e] = new
      /\ \A f \in DOMAIN elections : f # e => elections'[f] = elections[f]
  OBVIOUS
<1>3. RegistryInv'
  BY DEF GovernanceInv, RegistryInv, RegistryType, DefaultSelectable, Selectable
<1>4. Records'
  BY <1>1, <1>2 DEF GovernanceInv, Records
<1>5. \A c \in DOMAIN checks' : LinkedCheck(c)'
  <2>1. \A f \in DOMAIN elections : elections'[f].check = elections[f].check
    BY <1>2
  <2>2. QED BY <1>1, <2>1 DEF GovernanceInv, Links, LinkedCheck
<1>6. \A p \in DOMAIN proposals' : LinkedProposal(proposals[p], p)'
  BY DEF GovernanceInv, Links, LinkedProposal, Passed
<1>7. \A f \in DOMAIN elections' : LinkedElection(elections[f], f)'
  <2> SUFFICES ASSUME NEW f \in DOMAIN elections
               PROVE  LinkedElection(elections[f], f)'
    BY <1>1
  <2>1. LinkedElection(elections[f], f)
    BY DEF GovernanceInv, Links
  <2>2. CASE f = e
    BY <1>2, <2>2 DEF LinkedElection, Passed
  <2>3. CASE f # e
    BY <1>2, <2>1, <2>3 DEF LinkedElection, Passed
  <2>4. QED BY <2>2, <2>3
<1>8. Snapshots'
  BY DEF GovernanceInv, Snapshots
<1>9. QED BY <1>3, <1>4, <1>5, <1>6, <1>7, <1>8 DEF GovernanceInv, Links

-----------------------------------------------------------------------------
(* The actions *)

\* Votes, outcomes and toggles of a check keep the invariant.
LEMMA CheckSteps ==
  ASSUME GovernanceInv, NEW c \in DOMAIN checks, CheckAction(c), ~MakeProposal(c)
  PROVE  GovernanceInv'
<1> DEFINE k == checks[c]
<1>1. CheckInv(k, now) /\ now \in Nat /\ toggles \in 0..MaxToggles
  BY GovernanceBounds DEF GovernanceInv, Records
<1>2. IsCheck(k) /\ k.deadline \in Nat /\ k.start \in Nat
  BY <1>1 DEF CheckInv, IsCheck
<1>3. ASSUME NEW passed \in BOOLEAN, RecordOutcome(c, passed)
      PROVE  GovernanceInv'
  <2> DEFINE o == [passed |-> passed, at |-> now]
             new == [k EXCEPT !.outcome = o]
  <2>1. new = [followUp |-> k.followUp, parameterSet |-> k.parameterSet, book |-> k.book,
               start |-> k.start, deadline |-> k.deadline, outcome |-> o,
               continuation |-> k.continuation, hidden |-> k.hidden]
    BY <1>2 DEF IsCheck
  <2>2. checks' = [checks EXCEPT ![c] = new] /\ now >= k.deadline /\ k.outcome = None
    BY <1>3 DEF RecordOutcome, Ended
  <2>3. o \in Outcome /\ o.at = now
    BY <1>1 DEF Outcome
  <2> HIDE DEF o, new
  <2>4. CheckInv(new, now)
    BY <1>1, <1>2, <2>1, <2>2, <2>3 DEF CheckInv, IsCheck
  <2>5. QED BY <1>1, <1>3, <2>1, <2>2, <2>4, CheckChanges DEF RecordOutcome
<1>4. ASSUME NEW a \in Accounts, NEW vote \in CheckVotes, VoteOnTemperatureCheck(a, c, vote)
      PROVE  GovernanceInv'
  <2> DEFINE b == Cast(k.book, a, vote, now)
             new == [k EXCEPT !.book = b]
  <2>1. new = [followUp |-> k.followUp, parameterSet |-> k.parameterSet, book |-> b,
               start |-> k.start, deadline |-> k.deadline, outcome |-> k.outcome,
               continuation |-> k.continuation, hidden |-> k.hidden]
    BY <1>2 DEF IsCheck
  <2>2. /\ checks' = [checks EXCEPT ![c] = new]
        /\ k.start <= now /\ now < k.deadline /\ k.book.count < MaxVotes
    BY <1>4 DEF VoteOnTemperatureCheck, Open
  <2>3. IsBook(b, CheckVotes) /\ Consistent(b)
    BY <1>1, <2>2, CastKeepsBooks, NoneIsNoRecord DEF CheckInv, IsCheck
  <2>4. CastWithin(b, k.start, k.deadline)
    BY <1>1, <1>2, <2>2, CastStaysWithin DEF CheckInv, IsCheck
  <2> HIDE DEF b, new
  <2>5. CheckInv(new, now)
    BY <1>1, <1>2, <2>1, <2>3, <2>4 DEF CheckInv, IsCheck
  <2>6. QED BY <1>1, <1>4, <2>1, <2>2, <2>5, CheckChanges DEF VoteOnTemperatureCheck
<1>5. ASSUME ToggleCheckHidden(c)
      PROVE  GovernanceInv'
  <2> DEFINE new == [k EXCEPT !.hidden = ~@]
  <2>1. new = [followUp |-> k.followUp, parameterSet |-> k.parameterSet, book |-> k.book,
               start |-> k.start, deadline |-> k.deadline, outcome |-> k.outcome,
               continuation |-> k.continuation, hidden |-> ~k.hidden]
    BY <1>2 DEF IsCheck
  <2>2. checks' = [checks EXCEPT ![c] = new] /\ toggles' \in 0..MaxToggles
    BY <1>1, <1>5, GovernanceBounds DEF ToggleCheckHidden, Toggle
  <2> HIDE DEF new
  <2>3. CheckInv(new, now)
    BY <1>1, <1>2, <2>1 DEF CheckInv, IsCheck
  <2>4. QED BY <1>1, <1>5, <2>1, <2>2, <2>3, CheckChanges DEF ToggleCheckHidden
<1>6. QED BY <1>3, <1>4, <1>5 DEF CheckAction

\* Votes and toggles of a proposal keep the invariant.
LEMMA ProposalSteps ==
  ASSUME GovernanceInv, NEW p \in DOMAIN proposals, ProposalAction(p)
  PROVE  GovernanceInv'
<1> DEFINE k == proposals[p]
<1>1. ProposalInv(k) /\ now \in Nat /\ toggles \in 0..MaxToggles
  BY GovernanceBounds DEF GovernanceInv, Records
<1>2. IsProposal(k) /\ k.deadline \in Nat /\ k.start \in Nat /\ k.options \in Nat
  BY <1>1 DEF ProposalInv, IsProposal
<1>3. ASSUME NEW a \in Accounts, NEW selection \in Selections, VoteOnProposal(a, p, selection)
      PROVE  GovernanceInv'
  <2> DEFINE b == Cast(k.book, a, Range(selection), now)
             new == [k EXCEPT !.book = b]
  <2>1. new = [parameterSet |-> k.parameterSet, options |-> k.options,
               maxSelections |-> k.maxSelections, book |-> b, start |-> k.start,
               deadline |-> k.deadline, check |-> k.check, hidden |-> k.hidden]
    BY <1>2 DEF IsProposal
  <2>2. /\ proposals' = [proposals EXCEPT ![p] = new]
        /\ k.start <= now /\ now < k.deadline /\ k.book.count < MaxVotes
        /\ Range(selection) \subseteq Ids(k.options)
    BY <1>3 DEF VoteOnProposal, Open, ValidSelection
  <2>3. Range(selection) \in SUBSET Nat
    BY <1>2, <2>2 DEF Ids
  <2>4. IsBook(b, SUBSET Nat) /\ Consistent(b)
    BY <1>1, <2>2, <2>3, CastKeepsBooks, NoneIsNoRecord DEF ProposalInv, IsProposal
  <2>5. CastWithin(b, k.start, k.deadline)
    BY <1>1, <1>2, <2>2, <2>3, CastStaysWithin DEF ProposalInv, IsProposal
  <2> HIDE DEF b, new
  <2>6. ProposalInv(new)
    BY <1>1, <1>2, <2>1, <2>4, <2>5 DEF ProposalInv, IsProposal
  <2>7. QED BY <1>1, <1>3, <2>1, <2>2, <2>6, ProposalChanges DEF VoteOnProposal
<1>4. ASSUME ToggleProposalHidden(p)
      PROVE  GovernanceInv'
  <2> DEFINE new == [k EXCEPT !.hidden = ~@]
  <2>1. new = [parameterSet |-> k.parameterSet, options |-> k.options,
               maxSelections |-> k.maxSelections, book |-> k.book, start |-> k.start,
               deadline |-> k.deadline, check |-> k.check, hidden |-> ~k.hidden]
    BY <1>2 DEF IsProposal
  <2>2. proposals' = [proposals EXCEPT ![p] = new] /\ toggles' \in 0..MaxToggles
    BY <1>1, <1>4, GovernanceBounds DEF ToggleProposalHidden, Toggle
  <2> HIDE DEF new
  <2>3. ProposalInv(new)
    BY <1>1, <1>2, <2>1 DEF ProposalInv, IsProposal
  <2>4. QED BY <1>1, <1>4, <2>1, <2>2, <2>3, ProposalChanges DEF ToggleProposalHidden
<1>5. QED BY <1>3, <1>4 DEF ProposalAction

\* A round is never mistaken for its absence.
LEMMA RoundIsThere ==
  ASSUME NEW r, IsRound(r)
  PROVE  r # None
<1> DEFINE b == r.book
<1>1. IsBook(b, GradeBallots)
  BY DEF IsRound
<1>2. b.votes \in UNION {[0..(n - 1) -> Record(GradeBallots)] : n \in 0..MaxVotes}
  BY <1>1 DEF IsBook
<1>3. b \in Book(GradeBallots)
  BY <1>1, <1>2 DEF IsBook, Book
<1>4. r \in [snapshot : Nat, start : Nat, deadline : Nat, rule : Rules, book : Book(GradeBallots)]
  BY <1>3 DEF IsRound
<1>5. QED BY <1>4, NoneIsNoRecord

\* A round of an election opens as its check says, or only its book changes.
LEMMA RoundChanges ==
  ASSUME GovernanceInv, NEW e \in DOMAIN elections, NEW j \in RoundIds, NEW r, RoundInv(r),
         elections' = [elections EXCEPT ![e].rounds[j] = r],
         UNCHANGED <<registry, checks, proposals, counts, now, toggles>>,
         LET old == elections[e].rounds[j]
             first == elections[e].rounds["RoundOne"]
         IN  \/ /\ old # None
                /\ r.start = old.start /\ r.deadline = old.deadline
                /\ r.snapshot = old.snapshot /\ r.rule = old.rule
             \/ /\ old = None
                /\ Passed(CheckOf(e))
                /\ r.start = now /\ r.rule = RulesOf(e).election.rule
                /\ r.deadline = r.start
                     + (IF j = "Rerun" THEN RulesOf(e).rerun.days ELSE RulesOf(e).election.days)
                /\ IF j = "Rerun"
                   THEN first # None /\ now >= first.deadline /\ r.snapshot = first.start
                   ELSE r.snapshot = now
  PROVE  GovernanceInv'
<1> DEFINE k == elections[e]
           rounds == [k.rounds EXCEPT ![j] = r]
           new == [k EXCEPT !.rounds = rounds]
<1>1. /\ ElectionInv(k, now) /\ LinkedElection(k, e) /\ now \in Nat /\ toggles \in 0..MaxToggles
      /\ \A c \in DOMAIN checks : CheckInv(checks[c], now)
  BY GovernanceBounds DEF GovernanceInv, Records, Links
<1>2. IsElection(k) /\ DOMAIN k.rounds = RoundIds /\ j \in {"RoundOne", "Rerun"}
  BY <1>1 DEF ElectionInv, IsElection, RoundIds
<1>3. new = [check |-> k.check, rounds |-> rounds, tie |-> k.tie, hidden |-> k.hidden]
  BY <1>2 DEF IsElection
<1>4. elections' = [elections EXCEPT ![e] = new]
  OBVIOUS
<1>5. /\ DOMAIN rounds = RoundIds /\ rounds[j] = r
      /\ \A i \in RoundIds : i # j => rounds[i] = k.rounds[i]
  BY <1>2
<1>6. r # None /\ IsRound(r)
  BY RoundIsThere DEF RoundInv
<1>7. r.start \in Nat /\ r.deadline \in Nat
  BY <1>6 DEF IsRound
<1> HIDE DEF rounds, new
<1>8. IsElection(new)
  BY <1>2, <1>3, <1>5, <1>6 DEF IsElection
<1>9. \A i \in RoundIds : rounds[i] # None => RoundInv(rounds[i])
  BY <1>1, <1>5 DEF ElectionInv
<1>10. rounds["Rerun"] # None =>
         /\ rounds["RoundOne"] # None
         /\ rounds["RoundOne"].deadline <= rounds["Rerun"].start
         /\ rounds["Rerun"].start <= now
  <2>1. k.rounds["RoundOne"] # None => k.rounds["RoundOne"].deadline \in Nat
    BY <1>1, <1>2 DEF ElectionInv, IsElection, IsRound, RoundIds
  <2>2. CASE j = "RoundOne"
    BY <1>1, <1>5, <1>6, <2>2 DEF ElectionInv, RoundIds
  <2>3. CASE j = "Rerun"
    BY <1>1, <1>5, <1>6, <1>7, <2>1, <2>3 DEF ElectionInv, RoundIds
  <2>4. QED BY <1>2, <2>2, <2>3
<1>11. k.tie # None =>
         /\ rounds[k.tie.round] # None
         /\ rounds[k.tie.round].deadline <= k.tie.at /\ k.tie.at <= now
  <2>1. k.tie # None => k.tie.round \in RoundIds
    BY <1>2 DEF IsElection, TieResolution
  <2>2. QED BY <1>1, <1>5, <1>6, <2>1 DEF ElectionInv
<1>12. ElectionInv(new, now)
  BY <1>3, <1>8, <1>9, <1>10, <1>11 DEF ElectionInv
<1>13. rounds["RoundOne"] # None =>
         Passed(k.check) /\ rounds["RoundOne"].start >= checks[k.check].outcome.at
  <2>1. k.check \in DOMAIN checks
    BY <1>1 DEF LinkedElection
  <2>2. checks[k.check].outcome # None => checks[k.check].outcome.at <= now
    BY <1>1, <2>1 DEF CheckInv
  <2>3. checks[k.check].outcome # None => checks[k.check].outcome.at \in Nat
    BY <1>1, <2>1 DEF CheckInv, IsCheck, Outcome
  <2>4. CASE j = "RoundOne"
    BY <1>1, <1>5, <2>1, <2>2, <2>3, <2>4 DEF LinkedElection, CheckOf, Passed
  <2>5. CASE j # "RoundOne"
    BY <1>1, <1>5, <2>5 DEF LinkedElection, RoundIds
  <2>6. QED BY <2>4, <2>5
<1>14. \A i \in RoundIds : rounds[i] # None =>
         LET parameters == checks[k.check].parameterSet.parameters
         IN  /\ rounds[i].rule = parameters.election.rule
             /\ rounds[i].snapshot = rounds["RoundOne"].start
             /\ rounds[i].deadline = rounds[i].start
                  + (IF i = "Rerun" THEN parameters.rerun.days ELSE parameters.election.days)
  <2>1. j = "RoundOne" \/ j = "Rerun"
    BY <1>2
  <2>2. CASE j = "RoundOne"
    <3>1. k.rounds["RoundOne"] = None => k.rounds["Rerun"] = None
      BY <1>1 DEF ElectionInv
    <3>2. QED BY <1>1, <1>5, <2>2, <3>1 DEF LinkedElection, CheckOf, RulesOf, RoundIds
  <2>3. CASE j = "Rerun"
    BY <1>1, <1>5, <2>3 DEF LinkedElection, CheckOf, RulesOf, RoundIds
  <2>4. QED BY <2>1, <2>2, <2>3
<1>15. LinkedElection(new, e)
  BY <1>1, <1>3, <1>13, <1>14 DEF LinkedElection
<1>16. QED BY <1>1, <1>3, <1>4, <1>12, <1>15, ElectionChanges

\* A ballot that grades every candidate once is one that a round may store.
LEMMA BallotIsStored ==
  ASSUME NEW grades \in GradeLists, NEW n \in Nat, n <= MaxCandidates, Len(grades) = n,
         {grades[i].candidate : i \in DOMAIN grades} = Ids(n)
  PROVE  [c \in Ids(Len(grades)) |-> grades[ByCandidate(grades)[c]].grade] \in GradeBallots
<1>1. grades \in Seq([candidate : Nat, grade : Grades])
  BY DraftsAssumption
<1>2. \A i \in DOMAIN grades : grades[i].grade \in Grades
  <2> DEFINE S == [candidate : Nat, grade : Grades]
  <2>1. grades \in Seq(S)
    BY <1>1
  <2> HIDE DEF S
  <2>2. grades \in [1..Len(grades) -> S]
    BY <2>1
  <2>3. \A i \in DOMAIN grades : grades[i] \in S
    BY <2>2
  <2>4. QED BY <2>3 DEF S
<1>3. ASSUME NEW c \in Ids(n)
      PROVE  ByCandidate(grades)[c] \in DOMAIN grades
  <2>1. \E i \in DOMAIN grades : grades[i].candidate = c
    OBVIOUS
  <2>2. QED BY <2>1 DEF ByCandidate
<1>4. [c \in Ids(Len(grades)) |-> grades[ByCandidate(grades)[c]].grade] \in [Ids(n) -> Grades]
  BY <1>2, <1>3
<1>5. QED BY <1>4, GovernanceBounds DEF GradeBallots, Ids

\* A vote in a round changes nothing of the round but its book.
LEMMA RoundTakesVote ==
  ASSUME GovernanceInv, NEW e \in DOMAIN elections, NEW a \in Accounts, NEW j \in RoundIds,
         NEW grades \in GradeLists, VoteOnMajorityJudgmentElection(a, e, j, grades)
  PROVE  LET old == elections[e].rounds[j]
         IN  /\ old # None /\ now < old.deadline
             /\ \E r : /\ RoundInv(r) /\ elections' = [elections EXCEPT ![e].rounds[j] = r]
                      /\ r.start = old.start /\ r.deadline = old.deadline
                      /\ r.snapshot = old.snapshot /\ r.rule = old.rule
<1> DEFINE k == elections[e]
           check == checks[k.check]
           old == k.rounds[j]
           ballot == [c \in Ids(Len(grades)) |-> grades[ByCandidate(grades)[c]].grade]
           b == Cast(old.book, a, ballot, now)
           r == [snapshot |-> old.snapshot, start |-> old.start, deadline |-> old.deadline,
                 rule |-> old.rule, book |-> b]
<1>1. /\ ElectionInv(k, now) /\ LinkedElection(k, e) /\ now \in Nat
      /\ k.check \in DOMAIN checks /\ CheckInv(check, now)
  BY GovernanceBounds DEF GovernanceInv, Records, Links, LinkedElection
<1>2. /\ old # None /\ ValidBallot(e, grades)
      /\ old.start <= now /\ now < old.deadline /\ old.book.count < MaxVotes
      /\ elections' = [elections EXCEPT ![e].rounds[j].book = b]
  BY DEF VoteOnMajorityJudgmentElection, RoundOf, Open
<1>3. RoundInv(old) /\ IsRound(old)
  BY <1>1, <1>2 DEF ElectionInv, RoundInv
<1>4. ballot \in GradeBallots
  <2>1. check.followUp \in FollowUp /\ check.followUp.kind = "MajorityJudgmentElection"
        /\ Len(check.followUp.candidates) <= MaxCandidates
    BY <1>1 DEF CheckInv, IsCheck, LinkedElection
  <2>2. Len(check.followUp.candidates) \in Nat
    BY <2>1 DEF FollowUp, StandardFollowUp, ElectionFollowUp
  <2>3. QED BY <2>1, <2>2, <1>2, BallotIsStored DEF ValidBallot, CandidatesOf, CheckOf
<1> HIDE DEF ballot
<1>5. IsBook(b, GradeBallots) /\ Consistent(b)
  BY <1>1, <1>2, <1>3, <1>4, CastKeepsBooks, NoneIsNoRecord DEF RoundInv, IsRound
<1>6. CastWithin(b, old.start, old.deadline)
  BY <1>1, <1>2, <1>3, <1>4, CastStaysWithin DEF RoundInv, IsRound
<1>7. [old EXCEPT !.book = b] = r
  BY <1>3 DEF IsRound
<1>8. elections' = [elections EXCEPT ![e].rounds[j] = r]
  BY <1>2, <1>7
<1> HIDE DEF b
<1>9. RoundInv(r)
  BY <1>3, <1>5, <1>6 DEF RoundInv, IsRound
<1>10. /\ r.start = old.start /\ r.deadline = old.deadline
       /\ r.snapshot = old.snapshot /\ r.rule = old.rule
  OBVIOUS
<1> HIDE DEF r
<1>11. QED BY <1>2, <1>8, <1>9, <1>10

\* A round that opens is well formed, and has no votes.
LEMMA RoundIsOpened ==
  ASSUME GovernanceInv, NEW e \in DOMAIN elections, NEW j \in RoundIds, NEW snapshot \in Nat,
         NEW stage \in Stage, OpenRound(e, j, snapshot, stage)
  PROVE  /\ elections[e].rounds[j] = None
         /\ \E r : /\ RoundInv(r) /\ elections' = [elections EXCEPT ![e].rounds[j] = r]
                  /\ r.snapshot = snapshot /\ r.start = now /\ r.deadline = now + stage.days
                  /\ r.rule = stage.rule /\ r.book = EmptyBook
<1> DEFINE r == [snapshot |-> snapshot, start |-> now, deadline |-> now + stage.days,
                 rule |-> stage.rule, book |-> EmptyBook]
<1>1. now \in Nat /\ stage.days \in Nat /\ stage.rule \in Rules
  BY GovernanceBounds DEF GovernanceInv, Records, Stage
<1>2. elections[e].rounds[j] = None /\ elections' = [elections EXCEPT ![e].rounds[j] = r]
  BY DEF OpenRound, RoundOf
<1>3. RoundInv(r)
  BY <1>1, EmptyBookIsGood, EmptyIsWithin DEF RoundInv, IsRound
<1>4. /\ r.snapshot = snapshot /\ r.start = now /\ r.deadline = now + stage.days
      /\ r.rule = stage.rule /\ r.book = EmptyBook
  OBVIOUS
<1> HIDE DEF r
<1>5. QED BY <1>2, <1>3, <1>4

\* Votes, rounds, tie resolutions and toggles of an election keep the invariant.
LEMMA ElectionSteps ==
  ASSUME GovernanceInv, NEW e \in DOMAIN elections, ElectionAction(e)
  PROVE  GovernanceInv'
<1> DEFINE k == elections[e]
           check == checks[k.check]
           rules == check.parameterSet.parameters
<1>1. /\ ElectionInv(k, now) /\ LinkedElection(k, e) /\ now \in Nat /\ toggles \in 0..MaxToggles
      /\ k.check \in DOMAIN checks /\ CheckInv(check, now)
  BY GovernanceBounds DEF GovernanceInv, Records, Links, LinkedElection
<1>2. IsElection(k)
  BY <1>1 DEF ElectionInv
<1>3. rules \in Parameters /\ ~IsStandard(rules) /\ ValidParameters(rules)
  BY <1>1 DEF CheckInv, IsCheck, Snapshot, LinkedElection
<1>4. rules.election \in Stage /\ rules.rerun \in Stage
  BY <1>3, ParameterFields
<1>5. /\ rules.election.days \in Nat /\ rules.election.rule \in Rules
      /\ rules.rerun.days \in Nat /\ rules.rerun.rule = rules.election.rule
  BY <1>3, <1>4 DEF Stage, ValidParameters
<1>6. \A j \in RoundIds : k.rounds[j] # None =>
        RoundInv(k.rounds[j]) /\ IsRound(k.rounds[j])
  BY <1>1 DEF ElectionInv, RoundInv
<1>7. ASSUME NEW a \in Accounts, NEW j \in RoundIds, NEW grades \in GradeLists,
             VoteOnMajorityJudgmentElection(a, e, j, grades)
      PROVE  GovernanceInv'
  <2>1. UNCHANGED <<registry, checks, proposals, counts, now, toggles>>
    BY <1>7 DEF VoteOnMajorityJudgmentElection
  <2>2. QED BY <1>7, <2>1, RoundTakesVote, RoundChanges
<1>8. ASSUME NEW j \in RoundIds, NEW snapshot \in Nat, NEW stage \in Stage,
             stage.rule = rules.election.rule,
             stage.days = IF j = "Rerun" THEN rules.rerun.days ELSE rules.election.days,
             OpenRound(e, j, snapshot, stage), Passed(CheckOf(e)),
             IF j = "Rerun"
             THEN /\ k.rounds["RoundOne"] # None /\ now >= k.rounds["RoundOne"].deadline
                  /\ snapshot = k.rounds["RoundOne"].start
             ELSE snapshot = now
      PROVE  GovernanceInv'
  <2>1. UNCHANGED <<registry, checks, proposals, counts, now, toggles>>
    BY <1>8 DEF OpenRound
  <2>2. PICK r : /\ RoundInv(r) /\ elections' = [elections EXCEPT ![e].rounds[j] = r]
                 /\ k.rounds[j] = None
                 /\ r.snapshot = snapshot /\ r.start = now /\ r.deadline = now + stage.days
                 /\ r.rule = stage.rule
    BY <1>8, RoundIsOpened
  <2>3. /\ r.rule = RulesOf(e).election.rule
        /\ r.deadline = r.start
             + (IF j = "Rerun" THEN RulesOf(e).rerun.days ELSE RulesOf(e).election.days)
    BY <1>8, <2>2 DEF RulesOf, CheckOf
  <2>4. QED BY <1>8, <2>1, <2>2, <2>3, RoundChanges
<1>9. CASE StartRoundOne(e)
  <2>1. OpenRound(e, "RoundOne", now, rules.election) /\ Passed(CheckOf(e))
    BY <1>9 DEF StartRoundOne, RulesOf, CheckOf
  <2>2. QED BY <1>1, <1>4, <1>8, <2>1 DEF RoundIds
<1>10. CASE StartRerun(e)
  <2>1. /\ OpenRound(e, "Rerun", k.rounds["RoundOne"].snapshot, rules.rerun)
        /\ Passed(CheckOf(e))
        /\ k.rounds["RoundOne"] # None /\ now >= k.rounds["RoundOne"].deadline
    BY <1>10 DEF StartRerun, RulesOf, CheckOf, RoundOf, Ended
  <2>2. k.rounds["RoundOne"].snapshot = k.rounds["RoundOne"].start
    BY <1>1, <2>1 DEF LinkedElection, RoundIds
  <2>3. k.rounds["RoundOne"].snapshot \in Nat
    BY <1>6, <2>1 DEF RoundIds, IsRound
  <2>4. QED BY <1>4, <1>5, <1>8, <2>1, <2>2, <2>3 DEF RoundIds
<1>11. ASSUME NEW j \in RoundIds, NEW order \in Orders, RecordTieResolution(e, j, order)
       PROVE  GovernanceInv'
  <2> DEFINE tie == [round |-> j, order |-> order, at |-> now]
             new == [k EXCEPT !.tie = tie]
  <2>1. /\ elections' = [elections EXCEPT ![e] = new]
        /\ k.rounds[j] # None /\ k.rounds[j].deadline <= now
        /\ UNCHANGED <<registry, checks, proposals, counts, now, toggles>>
    <3>1. now >= k.rounds[j].deadline
      BY <1>11 DEF RecordTieResolution, RoundOf, Ended
    <3>2. k.rounds[j] # None
      BY <1>11 DEF RecordTieResolution, RoundOf
    <3>3. k.rounds[j].deadline \in Nat
      BY <1>6, <3>2 DEF IsRound
    <3>4. QED BY <1>1, <1>11, <3>1, <3>2, <3>3 DEF RecordTieResolution
  <2>2. new = [check |-> k.check, rounds |-> k.rounds, tie |-> tie, hidden |-> k.hidden]
    BY <1>2 DEF IsElection
  <2>3. tie \in TieResolution /\ tie.round = j /\ tie.at = now
    BY <1>1 DEF TieResolution
  <2> HIDE DEF tie, new
  <2>4. ElectionInv(new, now)
    BY <1>1, <2>1, <2>2, <2>3 DEF ElectionInv, IsElection
  <2>5. LinkedElection(new, e)
    BY <1>1, <2>2 DEF LinkedElection
  <2>6. QED BY <1>1, <2>1, <2>2, <2>4, <2>5, ElectionChanges
<1>12. CASE ToggleElectionHidden(e)
  <2> DEFINE new == [k EXCEPT !.hidden = ~@]
  <2>1. /\ elections' = [elections EXCEPT ![e] = new] /\ toggles' \in 0..MaxToggles
        /\ UNCHANGED <<registry, checks, proposals, counts, now>>
    BY <1>1, <1>12, GovernanceBounds DEF ToggleElectionHidden, Toggle
  <2>2. new = [check |-> k.check, rounds |-> k.rounds, tie |-> k.tie, hidden |-> ~k.hidden]
    BY <1>2 DEF IsElection
  <2> HIDE DEF new
  <2>3. ElectionInv(new, now)
    BY <1>1, <2>2 DEF ElectionInv, IsElection
  <2>4. LinkedElection(new, e)
    BY <1>1, <2>2 DEF LinkedElection
  <2>5. QED BY <2>1, <2>2, <2>3, <2>4, ElectionChanges
<1>13. QED BY <1>7, <1>9, <1>10, <1>11, <1>12 DEF ElectionAction

\* A store with one more entry keeps those it had.
LEMMA StoreGrows ==
  ASSUME NEW n \in Nat, NEW f, DOMAIN f = Ids(n), NEW x
  PROVE  LET g == Extended(f, n, x)
         IN  /\ DOMAIN g = Ids(n + 1) /\ DOMAIN g = DOMAIN f \cup {n}
             /\ n \notin DOMAIN f /\ g[n] = x
             /\ \A i \in DOMAIN f : g[i] = f[i]
BY DEF Extended, Ids

\* The proposal that continues a check keeps the invariant.
LEMMA MakeProposalSteps ==
  ASSUME GovernanceInv, NEW c \in DOMAIN checks, MakeProposal(c)
  PROVE  GovernanceInv'
<1> DEFINE k == checks[c]
           n == counts.proposals
           next == [kind |-> "Proposal", id |-> n]
           new == [k EXCEPT !.continuation = next]
           p == NewProposal(c)
           parameters == k.parameterSet.parameters
<1>1. /\ CheckInv(k, now) /\ IsCheck(k) /\ now \in Nat
      /\ counts \in [{"checks", "proposals", "elections"} -> 0..MaxEntities]
  BY GovernanceBounds DEF GovernanceInv, Records, CheckInv
<1>2. /\ n \in Nat /\ n < MaxEntities /\ DOMAIN proposals = Ids(n)
      /\ DOMAIN checks = Ids(counts.checks) /\ DOMAIN elections = Ids(counts.elections)
  BY <1>1, GovernanceBounds DEF MakeProposal, GovernanceInv, Records
<1>3. /\ checks' = [checks EXCEPT ![c] = new] /\ proposals' = Extended(proposals, n, p)
      /\ k.followUp.kind = "StandardProposal" /\ IsStandard(parameters)
      /\ k.continuation = None /\ now >= k.deadline /\ Passed(c)
      /\ UNCHANGED <<registry, elections, now, toggles>>
  BY DEF MakeProposal, Continuable, Ended
<1>4. /\ DOMAIN proposals' = Ids(n + 1) /\ DOMAIN proposals' = DOMAIN proposals \cup {n}
      /\ n \notin DOMAIN proposals /\ proposals'[n] = p
      /\ \A q \in DOMAIN proposals : proposals'[q] = proposals[q]
  <2>1. n \in Nat /\ DOMAIN proposals = Ids(n) /\ proposals' = Extended(proposals, n, p)
    BY <1>2, <1>3
  <2> HIDE DEF n, p
  <2>2. QED BY <2>1, StoreGrows
<1>5. /\ DOMAIN checks' = DOMAIN checks /\ checks'[c] = new
      /\ \A d \in DOMAIN checks : d # c => checks'[d] = checks[d]
  BY <1>3
<1>6. next \in Continuation /\ next # None
  <2>1. next \in Continuation
    BY <1>2 DEF Continuation
  <2>2. QED BY <2>1, NoneIsNoRecord
<1>7. new = [followUp |-> k.followUp, parameterSet |-> k.parameterSet, book |-> k.book,
             start |-> k.start, deadline |-> k.deadline, outcome |-> k.outcome,
             continuation |-> next, hidden |-> k.hidden]
  BY <1>1 DEF IsCheck
<1>8. /\ counts'.checks = counts.checks /\ counts'.proposals = n + 1
      /\ counts'.elections = counts.elections
      /\ counts' \in [{"checks", "proposals", "elections"} -> 0..MaxEntities]
  <2>1. counts' = [counts EXCEPT !.proposals = n + 1] /\ n + 1 \in 0..MaxEntities
    BY <1>2, GovernanceBounds DEF MakeProposal
  <2>2. QED BY <1>1, <2>1
<1>9. ProposalInv(p)
  <2>1. /\ parameters \in Parameters /\ k.parameterSet \in Snapshot
        /\ k.followUp \in StandardFollowUp
    BY <1>1, <1>3 DEF IsCheck, Snapshot, FollowUp, ElectionFollowUp
  <2>2. parameters.proposal.days \in Nat
    BY <1>3, <2>1, ParameterFields DEF Stage
  <2>3. k.followUp.options \in Nat /\ k.followUp.maxSelections \in Nat \cup {None}
    BY <2>1 DEF StandardFollowUp
  <2>4. c \in Nat
    BY <1>1, <1>2 DEF Ids
  <2>5. QED BY <1>1, <2>1, <2>2, <2>3, <2>4, EmptyBookIsGood, EmptyIsWithin
            DEF ProposalInv, IsProposal, NewProposal
<1>10. /\ p.check = c /\ p.parameterSet = k.parameterSet /\ p.start = now
       /\ p.deadline = p.start + p.parameterSet.parameters.proposal.days
  BY DEF NewProposal
<1> HIDE DEF next, new, p
<1>11. CheckInv(new, now)
  BY <1>1, <1>6, <1>7 DEF CheckInv, IsCheck
<1>12. RegistryInv'
  BY <1>3 DEF GovernanceInv, RegistryInv, RegistryType, DefaultSelectable, Selectable
<1>13. Records'
  BY <1>2, <1>3, <1>4, <1>5, <1>8, <1>9, <1>11 DEF GovernanceInv, Records
<1>14. \A d \in DOMAIN checks :
         /\ checks'[d].followUp = checks[d].followUp
         /\ checks'[d].parameterSet = checks[d].parameterSet
         /\ checks'[d].outcome = checks[d].outcome
         /\ checks[d].continuation # None => checks'[d].continuation = checks[d].continuation
  BY <1>3, <1>5, <1>7
<1>15. \A d \in DOMAIN checks : LinkedCheck(d)'
  <2> SUFFICES ASSUME NEW d \in DOMAIN checks PROVE LinkedCheck(d)'
    OBVIOUS
  <2>1. CASE d = c
    BY <2>1, <1>4, <1>5, <1>7, <1>10 DEF LinkedCheck, next
  <2>2. CASE d # c
    BY <2>2, <1>3, <1>4, <1>5 DEF GovernanceInv, Links, LinkedCheck
  <2>3. QED BY <2>1, <2>2
<1>16. \A q \in DOMAIN proposals' : LinkedProposal(proposals[q], q)'
  <2> SUFFICES ASSUME NEW q \in DOMAIN proposals' PROVE LinkedProposal(proposals[q], q)'
    OBVIOUS
  <2>1. CASE q = n
    <3>1. checks'[c].outcome = k.outcome /\ checks'[c].parameterSet = k.parameterSet
          /\ checks'[c].continuation = next
      BY <1>5, <1>7
    <3>2. k.outcome # None /\ k.outcome.passed /\ now >= k.outcome.at
      <4>1. k.outcome # None /\ k.outcome.passed
        BY <1>3 DEF Passed
      <4>2. k.outcome.at \in Nat /\ k.outcome.at <= now
        BY <1>1, <4>1 DEF CheckInv, IsCheck, Outcome
      <4>3. QED BY <1>1, <4>1, <4>2
    <3>3. QED BY <2>1, <3>1, <3>2, <1>3, <1>4, <1>5, <1>10 DEF LinkedProposal, Passed, next
  <2>2. CASE q # n
    <3>1. q \in DOMAIN proposals /\ proposals'[q] = proposals[q]
      BY <2>2, <1>4
    <3>2. LinkedProposal(proposals[q], q)
      BY <3>1 DEF GovernanceInv, Links
    <3>3. proposals[q].check # c
      <4>1. [kind |-> "Proposal", id |-> q] \in Continuation
        BY <3>1, <1>2 DEF Continuation, Ids
      <4>2. QED BY <4>1, <3>2, <1>3, NoneIsNoRecord DEF LinkedProposal
    <3>4. QED BY <3>1, <3>2, <3>3, <1>5 DEF LinkedProposal, Passed
  <2>3. QED BY <2>1, <2>2
<1>17. \A e \in DOMAIN elections' : LinkedElection(elections[e], e)'
  <2> SUFFICES ASSUME NEW e \in DOMAIN elections PROVE LinkedElection(elections[e], e)'
    BY <1>3
  <2>1. LinkedElection(elections[e], e)
    BY DEF GovernanceInv, Links
  <2>2. elections[e].check # c
    <3>1. e \in Nat
      BY <1>1, <1>2 DEF Ids
    <3>2. [kind |-> "MajorityJudgmentElection", id |-> e] \in Continuation
      BY <3>1 DEF Continuation
    <3>3. QED BY <3>2, <2>1, <1>3, NoneIsNoRecord DEF LinkedElection
  <2>3. QED BY <1>3, <1>5, <2>1, <2>2 DEF LinkedElection, Passed
<1>18. Links'
  BY <1>5, <1>15, <1>16, <1>17 DEF Links
<1>19. Snapshots'
  BY <1>3, <1>5, <1>14 DEF GovernanceInv, Snapshots
<1>20. QED BY <1>12, <1>13, <1>18, <1>19 DEF GovernanceInv

\* A new check is in order, and its snapshot is of the set as it is now.
LEMMA InsertCheckSteps ==
  ASSUME GovernanceInv, NEW draft \in Drafts, NEW id \in SetIds, Selectable(id),
         ValidStandardFollowUp(draft) \/ ValidElectionFollowUp(draft),
         NEW continuation \in Continuation \cup {None},
         InsertCheck(draft, id, continuation), UNCHANGED <<registry, now>>
  PROVE  LET n == counts.checks
         IN  /\ n \in Nat /\ n < MaxEntities /\ DOMAIN checks = Ids(n)
             /\ DOMAIN checks' = Ids(n + 1) /\ DOMAIN checks' = DOMAIN checks \cup {n}
             /\ n \notin DOMAIN checks /\ checks'[n] = NewCheck(draft, id, continuation)
             /\ \A d \in DOMAIN checks : checks'[d] = checks[d]
             /\ \A d \in DOMAIN checks' : CheckInv(checks'[d], now)
             /\ Snapshots'
<1> DEFINE n == counts.checks
           new == NewCheck(draft, id, continuation)
           s == registry[id]
<1>1. /\ now \in Nat /\ DOMAIN checks = Ids(n)
      /\ counts \in [{"checks", "proposals", "elections"} -> 0..MaxEntities]
      /\ \A d \in DOMAIN checks : CheckInv(checks[d], now)
  BY GovernanceBounds DEF GovernanceInv, Records
<1>2. n \in Nat /\ n < MaxEntities /\ checks' = Extended(checks, n, new)
  BY <1>1, GovernanceBounds DEF InsertCheck
<1>3. /\ DOMAIN checks' = Ids(n + 1) /\ DOMAIN checks' = DOMAIN checks \cup {n}
      /\ n \notin DOMAIN checks /\ checks'[n] = new
      /\ \A d \in DOMAIN checks : checks'[d] = checks[d]
  <2>1. n \in Nat /\ DOMAIN checks = Ids(n) /\ checks' = Extended(checks, n, new)
    BY <1>1, <1>2
  <2> HIDE DEF n, new
  <2>2. QED BY <2>1, StoreGrows
<1>4. /\ s # None /\ s.version \in 1..MaxVersion /\ s.parameters \in Parameters
      /\ ValidParameters(s.parameters) /\ registry' = registry
  BY RegistryFields DEF GovernanceInv, RegistryInv, Selectable
<1>5. s.parameters.check.days \in Nat
  BY <1>4, ParameterFields DEF Stage
<1>6. Resolved(id) \in Snapshot /\ Resolved(id).parameters = s.parameters
      /\ Resolved(id).id = id /\ Resolved(id).version = s.version
  BY <1>4 DEF Resolved, Snapshot
<1>7. /\ draft \in FollowUp
      /\ draft.kind = "MajorityJudgmentElection" => Len(draft.candidates) <= MaxCandidates
  BY DraftsAssumption, GovernanceBounds DEF ValidStandardFollowUp, ValidElectionFollowUp
<1>8. /\ new = [followUp |-> draft, parameterSet |-> Resolved(id), book |-> EmptyBook,
                start |-> now, deadline |-> now + s.parameters.check.days,
                outcome |-> None, continuation |-> continuation, hidden |-> FALSE]
  BY DEF NewCheck
<1> HIDE DEF new, n
<1>9. CheckInv(new, now)
  <2>1. /\ new.book = EmptyBook /\ new.followUp = draft /\ new.outcome = None
        /\ new.parameterSet = Resolved(id) /\ new.continuation = continuation
        /\ new.start = now /\ new.deadline = now + s.parameters.check.days
        /\ new.hidden = FALSE
    BY <1>8
  <2>2. new.start \in Nat /\ new.deadline \in Nat
    BY <1>1, <1>5, <2>1
  <2>3. IsBook(new.book, CheckVotes) /\ Consistent(new.book)
    BY <2>1, EmptyBookIsGood
  <2>4. CastWithin(new.book, new.start, new.deadline)
    BY <2>1, EmptyIsWithin
  <2>5. IsCheck(new)
    BY <1>6, <1>7, <1>8, <2>1, <2>2, <2>3 DEF IsCheck
  <2>6. QED BY <1>4, <1>6, <1>7, <2>1, <2>3, <2>4, <2>5 DEF CheckInv
<1>10. \A d \in DOMAIN checks' : CheckInv(checks'[d], now)
  BY <1>1, <1>3, <1>9
<1>11. Snapshots'
  <2>1. /\ \A c \in DOMAIN checks :
             LET u == checks[c].parameterSet
             IN  /\ registry[u.id] # None
                 /\ \/ registry[u.id].version > u.version
                    \/ /\ registry[u.id].version = u.version
                       /\ registry[u.id].parameters = u.parameters
        /\ \A c, d \in DOMAIN checks :
             LET u == checks[c].parameterSet
                 v == checks[d].parameterSet
             IN  u.id = v.id /\ u.version = v.version => u.parameters = v.parameters
    BY DEF GovernanceInv, Snapshots
  <2>2. \A c \in DOMAIN checks : checks[c].parameterSet.version \in Nat
    BY <1>1, RegistryAssumption DEF CheckInv, IsCheck, Snapshot
  <2>3. /\ new.parameterSet.id = id /\ new.parameterSet.version = s.version
        /\ new.parameterSet.parameters = s.parameters /\ s.version \in Nat
    BY <1>4, <1>6, <1>8, RegistryAssumption
  <2>4. \A c \in DOMAIN checks' :
          LET u == checks'[c].parameterSet
          IN  /\ registry[u.id] # None
              /\ \/ registry[u.id].version > u.version
                 \/ /\ registry[u.id].version = u.version
                    /\ registry[u.id].parameters = u.parameters
    BY <1>3, <1>4, <2>1, <2>3
  <2>5. ASSUME NEW c \in DOMAIN checks', NEW d \in DOMAIN checks',
               checks'[c].parameterSet.id = checks'[d].parameterSet.id,
               checks'[c].parameterSet.version = checks'[d].parameterSet.version
        PROVE  checks'[c].parameterSet.parameters = checks'[d].parameterSet.parameters
    <3>1. CASE c # n /\ d # n
      BY <1>3, <2>1, <2>5, <3>1
    <3>2. CASE c = n /\ d # n
      BY <1>3, <2>1, <2>2, <2>3, <2>5, <3>2
    <3>3. CASE c # n /\ d = n
      BY <1>3, <2>1, <2>2, <2>3, <2>5, <3>3
    <3>4. QED BY <3>1, <3>2, <3>3
  <2>6. QED BY <1>4, <2>4, <2>5 DEF Snapshots
<1>12. QED BY <1>1, <1>2, <1>3, <1>10, <1>11 DEF new, n

\* A new check disturbs no link between those that were there.
LEMMA OldLinksStay ==
  ASSUME GovernanceInv, UNCHANGED proposals,
         \A d \in DOMAIN checks : d \in DOMAIN checks' /\ checks'[d] = checks[d],
         \A e \in DOMAIN elections : e \in DOMAIN elections' /\ elections'[e] = elections[e]
  PROVE  /\ \A d \in DOMAIN checks : LinkedCheck(d)'
         /\ \A p \in DOMAIN proposals' : LinkedProposal(proposals[p], p)'
         /\ \A e \in DOMAIN elections : LinkedElection(elections[e], e)'
<1>1. Links
  BY DEF GovernanceInv
<1>2. ASSUME NEW d \in DOMAIN checks
      PROVE  LinkedCheck(d)'
  <2>1. LinkedCheck(d) /\ checks'[d] = checks[d] /\ proposals' = proposals
    BY <1>1 DEF Links
  <2>2. QED BY <2>1 DEF LinkedCheck
<1>3. \A p \in DOMAIN proposals' : LinkedProposal(proposals[p], p)'
  <2> SUFFICES ASSUME NEW p \in DOMAIN proposals PROVE LinkedProposal(proposals[p], p)'
    OBVIOUS
  <2>1. LinkedProposal(proposals[p], p) /\ proposals'[p] = proposals[p]
    BY <1>1 DEF Links
  <2>2. QED BY <2>1 DEF LinkedProposal, Passed
<1>4. ASSUME NEW e \in DOMAIN elections
      PROVE  LinkedElection(elections[e], e)'
  <2>1. LinkedElection(elections[e], e) /\ elections'[e] = elections[e]
    BY <1>1 DEF Links
  <2>2. QED BY <2>1 DEF LinkedElection, Passed
<1>5. QED BY <1>2, <1>3, <1>4

\* A new temperature check keeps the invariant.
LEMMA MakeTemperatureCheckSteps ==
  ASSUME GovernanceInv, NEW draft \in Drafts, NEW id \in SetIds,
         MakeTemperatureCheck(draft, id)
  PROVE  GovernanceInv'
<1> DEFINE n == counts.checks
<1>1. /\ Selectable(id) /\ ValidStandardFollowUp(draft) /\ InsertCheck(draft, id, None)
      /\ counts' = [counts EXCEPT !.checks = @ + 1]
      /\ UNCHANGED <<registry, proposals, elections, now, toggles>>
  BY DEF MakeTemperatureCheck
<1>2. /\ n \in Nat /\ n < MaxEntities /\ DOMAIN checks = Ids(n)
      /\ DOMAIN checks' = Ids(n + 1) /\ DOMAIN checks' = DOMAIN checks \cup {n}
      /\ n \notin DOMAIN checks /\ checks'[n] = NewCheck(draft, id, None)
      /\ \A d \in DOMAIN checks : checks'[d] = checks[d]
      /\ \A d \in DOMAIN checks' : CheckInv(checks'[d], now)
      /\ Snapshots'
  BY <1>1, InsertCheckSteps
<1>3. counts \in [{"checks", "proposals", "elections"} -> 0..MaxEntities]
  BY DEF GovernanceInv, Records
<1>4. /\ counts'.checks = n + 1 /\ counts'.proposals = counts.proposals
      /\ counts'.elections = counts.elections
      /\ counts' \in [{"checks", "proposals", "elections"} -> 0..MaxEntities]
  <2>1. counts' = [counts EXCEPT !.checks = n + 1] /\ n + 1 \in 0..MaxEntities
    BY <1>1, <1>2, GovernanceBounds
  <2>2. QED BY <1>3, <2>1
<1>5. RegistryInv'
  BY <1>1 DEF GovernanceInv, RegistryInv, RegistryType, DefaultSelectable, Selectable
<1>6. Records'
  BY <1>1, <1>2, <1>4 DEF GovernanceInv, Records
<1> HIDE DEF n
<1>7. /\ \A d \in DOMAIN checks : LinkedCheck(d)'
      /\ \A p \in DOMAIN proposals' : LinkedProposal(proposals[p], p)'
      /\ \A e \in DOMAIN elections : LinkedElection(elections[e], e)'
  <2>1. UNCHANGED proposals /\ elections' = elections
    BY <1>1
  <2>2. \A d \in DOMAIN checks : d \in DOMAIN checks' /\ checks'[d] = checks[d]
    BY <1>2
  <2>3. QED BY <2>1, <2>2, OldLinksStay
<1>8. ASSUME NEW d \in DOMAIN checks', d \notin DOMAIN checks
      PROVE  LinkedCheck(d)'
  <2>1. checks'[d].continuation = None
    BY <1>2, <1>8 DEF NewCheck
  <2>2. QED BY <2>1 DEF LinkedCheck
<1>9. Links'
  <2>1. \A d \in DOMAIN checks' : LinkedCheck(d)'
    BY <1>7, <1>8
  <2>2. \A e \in DOMAIN elections' : LinkedElection(elections[e], e)'
    BY <1>1, <1>7
  <2>3. QED BY <1>7, <2>1, <2>2 DEF Links
<1>10. QED BY <1>2, <1>5, <1>6, <1>9 DEF GovernanceInv

\* A new election, made with its check, keeps the invariant.
LEMMA MakeElectionSteps ==
  ASSUME GovernanceInv, NEW draft \in Drafts, NEW id \in SetIds, NEW order \in Orders,
         MakeMajorityJudgmentElection(draft, id, order)
  PROVE  GovernanceInv'
<1>1. PICK n, m : n = counts.checks /\ m = counts.elections
  OBVIOUS
<1> DEFINE next == [kind |-> "MajorityJudgmentElection", id |-> m]
           new == [check |-> n, rounds |-> [k \in RoundIds |-> None], tie |-> None,
                   hidden |-> FALSE]
<1>2. /\ Selectable(id) /\ ~IsStandard(registry[id].parameters) /\ ValidElectionFollowUp(draft)
      /\ m < MaxEntities /\ InsertCheck(draft, id, next)
      /\ elections' = Extended(elections, m, new)
      /\ counts' = [counts EXCEPT !.checks = @ + 1, !.elections = @ + 1]
      /\ UNCHANGED <<registry, proposals, now, toggles>>
  BY <1>1 DEF MakeMajorityJudgmentElection
<1>3. /\ counts \in [{"checks", "proposals", "elections"} -> 0..MaxEntities]
      /\ DOMAIN elections = Ids(m) /\ m \in Nat
  BY <1>1, GovernanceBounds DEF GovernanceInv, Records
<1>4. next \in Continuation /\ next # None
  <2>1. next \in Continuation
    BY <1>3 DEF Continuation
  <2>2. QED BY <2>1, NoneIsNoRecord
<1>5. /\ n \in Nat /\ n < MaxEntities /\ DOMAIN checks = Ids(n)
      /\ DOMAIN checks' = Ids(n + 1) /\ DOMAIN checks' = DOMAIN checks \cup {n}
      /\ n \notin DOMAIN checks /\ checks'[n] = NewCheck(draft, id, next)
      /\ \A d \in DOMAIN checks : checks'[d] = checks[d]
      /\ \A d \in DOMAIN checks' : CheckInv(checks'[d], now)
      /\ Snapshots'
  <2>1. next \in Continuation \cup {None} /\ UNCHANGED <<registry, now>>
    BY <1>2, <1>4
  <2> HIDE DEF next
  <2>2. QED BY <1>1, <1>2, <2>1, InsertCheckSteps
<1>6. /\ DOMAIN elections' = Ids(m + 1) /\ DOMAIN elections' = DOMAIN elections \cup {m}
      /\ m \notin DOMAIN elections /\ elections'[m] = new
      /\ \A e \in DOMAIN elections : elections'[e] = elections[e]
  <2>1. m \in Nat /\ DOMAIN elections = Ids(m) /\ elections' = Extended(elections, m, new)
    BY <1>2, <1>3
  <2> HIDE DEF new
  <2>2. QED BY <2>1, StoreGrows
<1>7. /\ counts'.checks = n + 1 /\ counts'.proposals = counts.proposals
      /\ counts'.elections = m + 1
      /\ counts' \in [{"checks", "proposals", "elections"} -> 0..MaxEntities]
  <2>1. n + 1 \in 0..MaxEntities /\ m + 1 \in 0..MaxEntities
    BY <1>2, <1>3, <1>5, GovernanceBounds
  <2>2. counts' = [[counts EXCEPT !.checks = n + 1] EXCEPT !.elections = m + 1]
    BY <1>1, <1>2
  <2>3. [counts EXCEPT !.checks = n + 1]
          \in [{"checks", "proposals", "elections"} -> 0..MaxEntities]
    BY <1>3, <2>1
  <2>4. QED BY <1>1, <1>3, <2>1, <2>2, <2>3
<1>8. new.check = n /\ new.tie = None /\ \A k \in RoundIds : new.rounds[k] = None
  OBVIOUS
<1>9. ElectionInv(new, now)
  BY <1>5, <1>8 DEF ElectionInv, IsElection, RoundIds
<1>10. /\ checks'[n].continuation = next
       /\ checks'[n].followUp.kind = "MajorityJudgmentElection"
       /\ ~IsStandard(checks'[n].parameterSet.parameters)
  BY <1>2, <1>5 DEF NewCheck, Resolved, ValidElectionFollowUp
<1>11. next.kind # "Proposal" /\ next.id = m
  OBVIOUS
<1>12. RegistryInv'
  BY <1>2 DEF GovernanceInv, RegistryInv, RegistryType, DefaultSelectable, Selectable
<1> HIDE DEF new
<1>13. Records'
  BY <1>2, <1>5, <1>6, <1>7, <1>9 DEF GovernanceInv, Records
<1>14. /\ \A d \in DOMAIN checks : LinkedCheck(d)'
       /\ \A p \in DOMAIN proposals' : LinkedProposal(proposals[p], p)'
       /\ \A e \in DOMAIN elections : LinkedElection(elections[e], e)'
  <2>1. UNCHANGED proposals
        /\ \A e \in DOMAIN elections : e \in DOMAIN elections' /\ elections'[e] = elections[e]
    BY <1>2, <1>6
  <2>2. \A d \in DOMAIN checks : d \in DOMAIN checks' /\ checks'[d] = checks[d]
    BY <1>5
  <2>3. QED BY <2>1, <2>2, OldLinksStay
<1>15. LinkedCheck(n)'
  <2>1. m \in DOMAIN elections' /\ elections'[m].check = n
    BY <1>6, <1>8
  <2> HIDE DEF next
  <2>2. QED BY <1>10, <1>11, <2>1 DEF LinkedCheck
<1>16. LinkedElection(elections[m], m)'
  <2>1. elections'[m] = new /\ n \in DOMAIN checks' /\ new.check = n
        /\ \A k \in RoundIds : new.rounds[k] = None
    BY <1>5, <1>6, <1>8
  <2>2. "RoundOne" \in RoundIds
    BY DEF RoundIds
  <2>3. QED BY <1>10, <2>1, <2>2 DEF LinkedElection
<1>17. Links'
  <2>1. \A d \in DOMAIN checks' : LinkedCheck(d)'
    BY <1>5, <1>14, <1>15
  <2>2. \A e \in DOMAIN elections' : LinkedElection(elections[e], e)'
    BY <1>6, <1>14, <1>16
  <2>3. QED BY <1>14, <2>1, <2>2 DEF Links
<1>18. QED BY <1>5, <1>12, <1>13, <1>17 DEF GovernanceInv

\* The owner's changes to the registry keep the invariant: a snapshot of a set stays older than
\* the set, or equal to it.
LEMMA RegistryKeepsInv ==
  ASSUME GovernanceInv, NEW id \in SetIds,
         \/ \E p \in Inputs : AddParameterSet(id, p) \/ UpdateParameterSet(id, p)
         \/ RetireParameterSet(id)
  PROVE  GovernanceInv'
<1>1. /\ \/ \E p \in Inputs : AddSet(id, p) \/ UpdateSet(id, p)
         \/ RetireSet(id)
      /\ UNCHANGED <<checks, proposals, elections, counts, now, toggles>>
  BY DEF AddParameterSet, UpdateParameterSet, RetireParameterSet, entities
<1>2. /\ RegistryInv'
      /\ \A i \in SetIds : registry[i] # None =>
           /\ registry'[i] # None
           /\ \/ registry'[i].version > registry[i].version
              \/ /\ registry'[i].version = registry[i].version
                 /\ registry'[i].parameters = registry[i].parameters
  BY <1>1, RegistrySteps DEF GovernanceInv
<1>3. Records'
  BY <1>1 DEF GovernanceInv, Records
<1>4. Links'
  BY <1>1 DEF GovernanceInv, Links, LinkedCheck, LinkedProposal, LinkedElection, Passed
<1>5. \A i \in SetIds : /\ registry[i] # None => registry[i].version \in Nat
                        /\ registry'[i] # None => registry'[i].version \in Nat
  BY <1>2, RegistryAssumption DEF GovernanceInv, RegistryInv, RegistryType, ParameterSet
<1>6. \A c \in DOMAIN checks : checks[c].parameterSet.id \in SetIds
                               /\ checks[c].parameterSet.version \in Nat
  BY RegistryAssumption DEF GovernanceInv, Records, CheckInv, IsCheck, Snapshot
<1>7. Snapshots'
  <2>1. ASSUME NEW c \in DOMAIN checks
        PROVE  LET s == checks[c].parameterSet
               IN  /\ registry'[s.id] # None
                   /\ \/ registry'[s.id].version > s.version
                      \/ /\ registry'[s.id].version = s.version
                         /\ registry'[s.id].parameters = s.parameters
    BY <1>2, <1>5, <1>6 DEF GovernanceInv, Snapshots
  <2>2. QED BY <1>1, <2>1 DEF GovernanceInv, Snapshots
<1>8. QED BY <1>2, <1>3, <1>4, <1>7 DEF GovernanceInv

\* The passing of time keeps the invariant.
LEMMA TickKeepsInv == GovernanceInv /\ Tick => GovernanceInv'
<1> SUFFICES ASSUME GovernanceInv, Tick PROVE GovernanceInv'
  OBVIOUS
<1>1. /\ now' = now + 1 /\ now \in Nat /\ now' \in 0..MaxTime
      /\ UNCHANGED <<registry, checks, proposals, elections, counts, toggles>>
  BY GovernanceBounds DEF Tick, entities, GovernanceInv, Records
<1>2. ASSUME NEW c, CheckInv(c, now) PROVE CheckInv(c, now')
  <2>1. c.outcome # None => c.outcome.at \in Nat
    BY <1>2 DEF CheckInv, IsCheck, Outcome
  <2>2. QED BY <1>1, <1>2, <2>1 DEF CheckInv
<1>3. ASSUME NEW e, ElectionInv(e, now) PROVE ElectionInv(e, now')
  <2>1. e.tie # None => e.tie.at \in Nat
    BY <1>3 DEF ElectionInv, IsElection, TieResolution
  <2>2. e.rounds["Rerun"] # None => e.rounds["Rerun"].start \in Nat
    BY <1>3 DEF ElectionInv, IsElection, IsRound, RoundIds
  <2>3. QED BY <1>1, <1>3, <2>1, <2>2 DEF ElectionInv
<1>4. RegistryInv'
  BY <1>1 DEF GovernanceInv, RegistryInv, RegistryType, DefaultSelectable, Selectable
<1>5. Records'
  BY <1>1, <1>2, <1>3 DEF GovernanceInv, Records
<1>6. Links'
  BY <1>1 DEF GovernanceInv, Links, LinkedCheck, LinkedProposal, LinkedElection, Passed
<1>7. Snapshots'
  BY <1>1 DEF GovernanceInv, Snapshots
<1>8. QED BY <1>4, <1>5, <1>6, <1>7 DEF GovernanceInv

\* The invariant holds at the start.
LEMMA GovernanceStarts == Init => GovernanceInv
<1> SUFFICES ASSUME Init PROVE GovernanceInv
  OBVIOUS
<1>1. RegistryInv
  BY RegistryStarts DEF Init
<1>2. checks = EmptyStore /\ proposals = EmptyStore /\ elections = EmptyStore
      /\ DOMAIN EmptyStore = {} /\ Ids(0) = {}
  BY DEF Init, EmptyStore, Ids
<1>3. Records
  BY <1>2, GovernanceBounds DEF Init, Records
<1>4. Links /\ Snapshots
  BY <1>2 DEF Links, Snapshots
<1>5. QED BY <1>1, <1>3, <1>4 DEF GovernanceInv

\* Every step keeps the invariant.
LEMMA GovernanceSteps == GovernanceInv /\ [Next]_vars => GovernanceInv'
<1> SUFFICES ASSUME GovernanceInv, [Next]_vars PROVE GovernanceInv'
  OBVIOUS
<1>1. CASE \E c \in DOMAIN checks : CheckAction(c)
  BY <1>1, CheckSteps, MakeProposalSteps
<1>2. CASE \E p \in DOMAIN proposals : ProposalAction(p)
  BY <1>2, ProposalSteps
<1>3. CASE \E e \in DOMAIN elections : ElectionAction(e)
  BY <1>3, ElectionSteps
<1>4. CASE \E id \in SetIds : SetAction(id)
  <2>1. PICK id \in SetIds : SetAction(id)
    BY <1>4
  <2>2. \/ \E p \in Inputs : AddParameterSet(id, p) \/ UpdateParameterSet(id, p)
        \/ RetireParameterSet(id)
        \/ \E draft \in Drafts : MakeTemperatureCheck(draft, id)
        \/ \E draft \in Drafts, order \in Orders :
             MakeMajorityJudgmentElection(draft, id, order)
    BY <2>1 DEF SetAction
  <2>3. QED BY <2>2, RegistryKeepsInv, MakeTemperatureCheckSteps, MakeElectionSteps
<1>5. CASE Tick
  BY <1>5, TickKeepsInv
<1>6. CASE UNCHANGED vars
  <2>1. UNCHANGED <<registry, checks, proposals, elections, counts, now, toggles>>
    BY <1>6 DEF vars
  <2>2. RegistryInv'
    BY <2>1 DEF GovernanceInv, RegistryInv, RegistryType, DefaultSelectable, Selectable
  <2>3. Records'
    BY <2>1 DEF GovernanceInv, Records
  <2>4. Links'
    BY <2>1 DEF GovernanceInv, Links, LinkedCheck, LinkedProposal, LinkedElection, Passed
  <2>5. Snapshots'
    BY <2>1 DEF GovernanceInv, Snapshots
  <2>6. QED BY <2>2, <2>3, <2>4, <2>5 DEF GovernanceInv
<1>7. QED BY <1>1, <1>2, <1>3, <1>4, <1>5, <1>6 DEF Next

\* The inductive invariant holds in every state that can be reached.
LEMMA GovernanceIsInductive == Spec => []GovernanceInv
BY GovernanceStarts, GovernanceSteps, PTL DEF Spec

-----------------------------------------------------------------------------
(* The properties *)

\* In every reachable state the records of the contract are well typed, and the votes, the
\* voters and the counters of every poll agree.
THEOREM RecordsAreSound == Spec => []RecordsInv
<1>1. GovernanceInv => TypeOK
  BY DEF GovernanceInv, Records, RegistryInv, CheckInv, ProposalInv, ElectionInv, TypeOK
<1>2. GovernanceInv => BooksConsistent
  <2> SUFFICES ASSUME GovernanceInv PROVE BooksConsistent
    OBVIOUS
  <2>1. \A c \in DOMAIN checks : Consistent(checks[c].book)
    BY DEF GovernanceInv, Records, CheckInv
  <2>2. \A p \in DOMAIN proposals : Consistent(proposals[p].book)
    BY DEF GovernanceInv, Records, ProposalInv
  <2>3. \A e \in DOMAIN elections, k \in RoundIds :
          RoundOf(e, k) # None => Consistent(RoundOf(e, k).book)
    BY DEF GovernanceInv, Records, ElectionInv, RoundInv, RoundOf
  <2>4. QED BY <2>1, <2>2, <2>3 DEF BooksConsistent
<1>3. QED BY <1>1, <1>2, GovernanceIsInductive, PTL DEF RecordsInv

\* Whatever the owner adds, updates and retires, the default set can be chosen.
THEOREM DefaultStaysSelectable == Spec => []DefaultSelectable
<1>1. GovernanceInv => DefaultSelectable
  BY DEF GovernanceInv, RegistryInv
<1>2. QED BY <1>1, GovernanceIsInductive, PTL

\* A check and its continuation name each other: a check is continued at most once.
THEOREM ContinuationsArePaired == Spec => []ContinuationsPair
<1>1. GovernanceInv => ContinuationsPair
  BY DEF GovernanceInv, Links, LinkedCheck, LinkedProposal, LinkedElection,
         ContinuationsPair, CheckOf
<1>2. QED BY <1>1, GovernanceIsInductive, PTL

\* The phases of a consultation never overlap, and each vote was cast inside its own.
THEOREM PhasesAreInOrder == Spec => []PhasesInOrder
<1>1. ASSUME GovernanceInv
      PROVE  PhasesInOrder
  <2>1. ASSUME NEW c \in DOMAIN checks
        PROVE  /\ CastWithin(checks[c].book, checks[c].start, checks[c].deadline)
               /\ checks[c].outcome # None => checks[c].outcome.at >= checks[c].deadline
    <3>1. CheckInv(checks[c], now)
      BY <1>1 DEF GovernanceInv, Records
    <3>2. QED BY <3>1 DEF CheckInv, IsCheck, Outcome
  <2>2. ASSUME NEW p \in DOMAIN proposals
        PROVE  /\ CastWithin(proposals[p].book, proposals[p].start, proposals[p].deadline)
               /\ Passed(proposals[p].check)
               /\ proposals[p].start >= checks[proposals[p].check].outcome.at
    BY <1>1 DEF GovernanceInv, Records, ProposalInv, Links, LinkedProposal
  <2>3. ASSUME NEW e \in DOMAIN elections
        PROVE  /\ \A k \in RoundIds : RoundOf(e, k) # None =>
                    CastWithin(RoundOf(e, k).book, RoundOf(e, k).start, RoundOf(e, k).deadline)
               /\ RoundOf(e, "RoundOne") # None =>
                    /\ Passed(CheckOf(e))
                    /\ RoundOf(e, "RoundOne").start >= checks[CheckOf(e)].outcome.at
               /\ RoundOf(e, "Rerun") # None =>
                    /\ RoundOf(e, "RoundOne") # None
                    /\ RoundOf(e, "Rerun").start >= RoundOf(e, "RoundOne").deadline
               /\ elections[e].tie # None =>
                    /\ RoundOf(e, elections[e].tie.round) # None
                    /\ elections[e].tie.at >= RoundOf(e, elections[e].tie.round).deadline
    <3>1. ElectionInv(elections[e], now) /\ LinkedElection(elections[e], e)
      BY <1>1 DEF GovernanceInv, Records, Links
    <3>2. QED BY <3>1 DEF ElectionInv, RoundInv, LinkedElection, RoundOf, CheckOf
  <2>4. QED BY <2>1, <2>2, <2>3 DEF PhasesInOrder
<1>2. QED BY <1>1, GovernanceIsInductive, PTL

\* Proposals and both rounds of an election are held under the rules their check was created
\* under, whatever has happened to the registered set since.
THEOREM HeldAsCreated == Spec => []HeldUnderItsCheck
<1>1. ASSUME GovernanceInv
      PROVE  HeldUnderItsCheck
  <2>1. ASSUME NEW p \in DOMAIN proposals
        PROVE  LET check == checks[proposals[p].check]
               IN  /\ proposals[p].parameterSet = check.parameterSet
                   /\ IsStandard(check.parameterSet.parameters)
                   /\ proposals[p].deadline =
                        proposals[p].start + check.parameterSet.parameters.proposal.days
    BY <1>1 DEF GovernanceInv, Links, LinkedProposal
  <2>2. ASSUME NEW e \in DOMAIN elections, NEW k \in RoundIds, RoundOf(e, k) # None
        PROVE  /\ RoundOf(e, k).rule = RulesOf(e).election.rule
               /\ RoundOf(e, k).snapshot = RoundOf(e, "RoundOne").start
               /\ RoundOf(e, k).deadline = RoundOf(e, k).start
                    + (IF k = "Rerun" THEN RulesOf(e).rerun.days ELSE RulesOf(e).election.days)
    <3>1. LinkedElection(elections[e], e)
      BY <1>1 DEF GovernanceInv, Links
    <3>2. QED BY <2>2, <3>1 DEF LinkedElection, RoundOf, RulesOf, CheckOf
  <2>3. QED BY <2>1, <2>2 DEF HeldUnderItsCheck
<1>2. QED BY <1>1, GovernanceIsInductive, PTL

\* An identifier and a version name one list of parameters, in the registry and in the
\* snapshots that consultations took of it, whenever they took them.
THEOREM VersionsIdentify == Spec => []VersionIdentifiesParameters
<1>1. ASSUME GovernanceInv
      PROVE  VersionIdentifiesParameters
  <2> SUFFICES ASSUME NEW s \in CurrentSets \cup SnapshotsTaken,
                      NEW t \in CurrentSets \cup SnapshotsTaken,
                      s.id = t.id, s.version = t.version
               PROVE  s.parameters = t.parameters
    BY DEF VersionIdentifiesParameters
  <2>1. ASSUME NEW u \in CurrentSets
        PROVE  /\ registry[u.id].version = u.version /\ registry[u.id].version \in Nat
               /\ registry[u.id].parameters = u.parameters
    <3>1. PICK id \in SetIds : registry[id] # None /\ u = Resolved(id)
      BY DEF CurrentSets
    <3>2. u.id = id /\ u.version = registry[id].version
          /\ u.parameters = registry[id].parameters
      BY <3>1 DEF Resolved
    <3>3. registry[id].version \in Nat
      BY <1>1, <3>1, RegistryFields DEF GovernanceInv, RegistryInv
    <3>4. QED BY <3>2, <3>3
  <2>2. ASSUME NEW u \in SnapshotsTaken
        PROVE  \E c \in DOMAIN checks : u = checks[c].parameterSet
    BY DEF SnapshotsTaken
  <2>3. CASE s \in CurrentSets /\ t \in CurrentSets
    BY <2>1, <2>3
  <2>4. ASSUME NEW u \in CurrentSets, NEW v \in SnapshotsTaken,
               u.id = v.id, u.version = v.version
        PROVE  u.parameters = v.parameters
    <3>1. PICK c \in DOMAIN checks : v = checks[c].parameterSet
      BY <2>2
    <3>2. \/ registry[v.id].version > v.version
          \/ /\ registry[v.id].version = v.version
             /\ registry[v.id].parameters = v.parameters
      BY <1>1, <3>1 DEF GovernanceInv, Snapshots
    <3>3. QED BY <2>1, <2>4, <3>2
  <2>5. CASE s \in SnapshotsTaken /\ t \in SnapshotsTaken
    BY <1>1, <2>2, <2>5 DEF GovernanceInv, Snapshots
  <2>6. QED BY <2>3, <2>4, <2>5
<1>2. QED BY <1>1, GovernanceIsInductive, PTL

\* Readers can trust a version, and proposers the default set, in every reachable state.
THEOREM RegistryAlwaysUsable == Spec => []RegistryStaysUsable
BY DefaultStaysSelectable, VersionsIdentify, PTL DEF RegistryStaysUsable

\* What a step may not do to a decided check and to an adjudicated election.
CheckFrozen(c) ==
  checks[c].outcome # None =>
    checks'[c].outcome = checks[c].outcome /\ checks'[c].book = checks[c].book

ElectionFrozen(e) ==
  elections[e].tie # None =>
    LET adjudicated == elections[e].tie.round
    IN  /\ elections'[e].tie = elections[e].tie
        /\ elections'[e].rounds[adjudicated] = RoundOf(e, adjudicated)
        /\ RoundOf(e, "Rerun") = None => elections'[e].rounds["Rerun"] = None

\* The deadline of what has been decided is past.
LEMMA DecidedIsOver ==
  ASSUME GovernanceInv
  PROVE  /\ now \in Nat
         /\ \A c \in DOMAIN checks : checks[c].outcome # None => ~(now < checks[c].deadline)
         /\ \A e \in DOMAIN elections : elections[e].tie # None =>
              ~(now < RoundOf(e, elections[e].tie.round).deadline)
<1>1. now \in Nat
  BY GovernanceBounds DEF GovernanceInv, Records
<1>2. ASSUME NEW c \in DOMAIN checks, checks[c].outcome # None
      PROVE  ~(now < checks[c].deadline)
  <2>1. CheckInv(checks[c], now)
    BY DEF GovernanceInv, Records
  <2>2. checks[c].outcome.at \in Nat /\ checks[c].deadline \in Nat
        /\ checks[c].deadline <= checks[c].outcome.at /\ checks[c].outcome.at <= now
    BY <1>2, <2>1 DEF CheckInv, IsCheck, Outcome
  <2>3. QED BY <1>1, <2>2
<1>3. ASSUME NEW e \in DOMAIN elections, elections[e].tie # None
      PROVE  ~(now < RoundOf(e, elections[e].tie.round).deadline)
  <2> DEFINE r == elections[e].rounds[elections[e].tie.round]
  <2>1. ElectionInv(elections[e], now)
    BY DEF GovernanceInv, Records
  <2>2. elections[e].tie.at \in Nat /\ elections[e].tie.round \in RoundIds
        /\ r # None /\ r.deadline <= elections[e].tie.at /\ elections[e].tie.at <= now
    BY <1>3, <2>1 DEF ElectionInv, IsElection, TieResolution
  <2>3. r.deadline \in Nat
    BY <2>1, <2>2 DEF ElectionInv, RoundInv, IsRound
  <2>4. QED BY <1>1, <2>2, <2>3 DEF RoundOf
<1>4. QED BY <1>1, <1>2, <1>3

\* A check that a step leaves alone stays frozen, and so does an election.
LEMMA UntouchedIsFrozen ==
  /\ \A c \in DOMAIN checks : checks'[c] = checks[c] => CheckFrozen(c)
  /\ \A e \in DOMAIN elections : elections'[e] = elections[e] => ElectionFrozen(e)
BY DEF CheckFrozen, ElectionFrozen, RoundOf

\* What is done to a check leaves decided checks as they are.
LEMMA CheckActionFreezes ==
  ASSUME GovernanceInv, NEW c \in DOMAIN checks, CheckAction(c)
  PROVE  /\ \A d \in DOMAIN checks : CheckFrozen(d)
         /\ \A e \in DOMAIN elections : ElectionFrozen(e)
<1> DEFINE k == checks[c]
<1>1. IsCheck(k) /\ (k.outcome # None => ~(now < k.deadline))
  BY DecidedIsOver DEF GovernanceInv, Records, CheckInv
<1>2. elections' = elections /\ \A d \in DOMAIN checks : d # c => checks'[d] = checks[d]
  BY DEF CheckAction, RecordOutcome, VoteOnTemperatureCheck, MakeProposal, ToggleCheckHidden
<1>3. CheckFrozen(c)
  <2>1. ASSUME NEW passed \in BOOLEAN, RecordOutcome(c, passed)
        PROVE  CheckFrozen(c)
    BY <2>1 DEF RecordOutcome, CheckFrozen
  <2>2. ASSUME NEW a \in Accounts, NEW vote \in CheckVotes, VoteOnTemperatureCheck(a, c, vote)
        PROVE  CheckFrozen(c)
    BY <1>1, <2>2 DEF VoteOnTemperatureCheck, Open, CheckFrozen
  <2>3. CASE MakeProposal(c)
    <3> DEFINE next == [kind |-> "Proposal", id |-> counts.proposals]
    <3>1. checks'[c] = [k EXCEPT !.continuation = next]
      BY <2>3 DEF MakeProposal
    <3> HIDE DEF next
    <3>2. [k EXCEPT !.continuation = next].outcome = k.outcome
          /\ [k EXCEPT !.continuation = next].book = k.book
      BY <1>1 DEF IsCheck
    <3>3. QED BY <3>1, <3>2 DEF CheckFrozen
  <2>4. CASE ToggleCheckHidden(c)
    <3>1. checks'[c] = [k EXCEPT !.hidden = ~@]
      BY <2>4 DEF ToggleCheckHidden
    <3>2. [k EXCEPT !.hidden = ~@].outcome = k.outcome
          /\ [k EXCEPT !.hidden = ~@].book = k.book
      BY <1>1 DEF IsCheck
    <3>3. QED BY <3>1, <3>2 DEF CheckFrozen
  <2>5. QED BY <2>1, <2>2, <2>3, <2>4 DEF CheckAction
<1>4. QED BY <1>2, <1>3, UntouchedIsFrozen

\* What is done to an election leaves adjudicated elections as they are.
LEMMA ElectionActionFreezes ==
  ASSUME GovernanceInv, NEW e \in DOMAIN elections, ElectionAction(e)
  PROVE  /\ \A c \in DOMAIN checks : CheckFrozen(c)
         /\ \A f \in DOMAIN elections : ElectionFrozen(f)
<1> DEFINE k == elections[e]
<1>1. IsElection(k) /\ DOMAIN k.rounds = RoundIds
      /\ (k.tie # None => ~(now < RoundOf(e, k.tie.round).deadline))
  BY DecidedIsOver DEF GovernanceInv, Records, ElectionInv, IsElection
<1>2. k.tie # None => k.tie.round \in RoundIds /\ RoundOf(e, k.tie.round) # None
  BY DEF GovernanceInv, Records, ElectionInv, IsElection, TieResolution, RoundOf
<1>3. "RoundOne" \in RoundIds /\ "Rerun" \in RoundIds
  BY DEF RoundIds
<1>4. checks' = checks /\ \A f \in DOMAIN elections : f # e => elections'[f] = elections[f]
  BY DEF ElectionAction, VoteOnMajorityJudgmentElection, StartRoundOne, StartRerun, OpenRound,
         RecordTieResolution, ToggleElectionHidden
<1>5. ASSUME NEW j \in RoundIds, NEW r, elections'[e] = [k EXCEPT !.rounds[j] = r],
             k.tie # None => j # k.tie.round /\ (j = "Rerun" => k.rounds[j] # None)
      PROVE  ElectionFrozen(e)
  <2> DEFINE rounds == [k.rounds EXCEPT ![j] = r]
  <2>1. elections'[e].tie = k.tie /\ elections'[e].rounds = rounds
    BY <1>1, <1>5 DEF IsElection
  <2>2. \A i \in RoundIds : i # j => rounds[i] = k.rounds[i]
    BY <1>1
  <2> HIDE DEF rounds
  <2>3. QED BY <1>2, <1>3, <1>5, <2>1, <2>2 DEF ElectionFrozen, RoundOf
<1>6. ASSUME NEW a \in Accounts, NEW j \in RoundIds, NEW grades \in GradeLists,
             VoteOnMajorityJudgmentElection(a, e, j, grades)
      PROVE  ElectionFrozen(e)
  <2> DEFINE r == [k.rounds[j] EXCEPT !.book =
                     Cast(@, a, [c \in Ids(Len(grades)) |-> grades[ByCandidate(grades)[c]].grade],
                          now)]
  <2>1. elections'[e] = [k EXCEPT !.rounds[j] = r]
    BY <1>6 DEF VoteOnMajorityJudgmentElection
  <2>2. k.rounds[j] # None /\ now < k.rounds[j].deadline
    BY <1>6 DEF VoteOnMajorityJudgmentElection, RoundOf, Open
  <2>3. k.tie # None => j # k.tie.round
    BY <1>1, <2>2 DEF RoundOf
  <2> HIDE DEF r
  <2>4. QED BY <1>5, <2>1, <2>2, <2>3
<1>7. ASSUME StartRoundOne(e) \/ StartRerun(e)
      PROVE  ElectionFrozen(e)
  <2>0. PICK j \in RoundIds : \E snapshot, stage :
          /\ OpenRound(e, j, snapshot, stage)
          /\ j = "Rerun" => k.tie = None
    BY <1>3, <1>7 DEF StartRoundOne, StartRerun
  <2>1. PICK snapshot, stage :
          /\ OpenRound(e, j, snapshot, stage)
          /\ j = "Rerun" => k.tie = None
    BY <2>0
  <2> DEFINE r == [snapshot |-> snapshot, start |-> now, deadline |-> now + stage.days,
                   rule |-> stage.rule, book |-> EmptyBook]
  <2>2. elections'[e] = [k EXCEPT !.rounds[j] = r] /\ k.rounds[j] = None
    BY <2>1 DEF OpenRound, RoundOf
  <2>3. k.tie # None => j # k.tie.round
    BY <1>2, <2>2 DEF RoundOf
  <2> HIDE DEF r
  <2>4. QED BY <1>5, <2>1, <2>2, <2>3
<1>8. ASSUME NEW j \in RoundIds, NEW order \in Orders, RecordTieResolution(e, j, order)
      PROVE  ElectionFrozen(e)
  BY <1>8 DEF RecordTieResolution, ElectionFrozen
<1>9. ASSUME ToggleElectionHidden(e)
      PROVE  ElectionFrozen(e)
  <2>1. elections'[e] = [k EXCEPT !.hidden = ~@]
    BY <1>9 DEF ToggleElectionHidden
  <2>2. [k EXCEPT !.hidden = ~@].tie = k.tie /\ [k EXCEPT !.hidden = ~@].rounds = k.rounds
    BY <1>1 DEF IsElection
  <2>3. QED BY <2>1, <2>2 DEF ElectionFrozen, RoundOf
<1>10. ElectionFrozen(e)
  BY <1>6, <1>7, <1>8, <1>9 DEF ElectionAction
<1>11. QED BY <1>4, <1>10, UntouchedIsFrozen

\* What has been decided stays decided: the outcome and the votes of a decided check, the
\* resolution of a tie and the round it was drawn from never change again.
THEOREM DecisionsAreFinal == Spec => DecidedIsFrozen
<1> DEFINE Frozen == /\ \A c \in DOMAIN checks : CheckFrozen(c)
                     /\ \A e \in DOMAIN elections : ElectionFrozen(e)
<1>1. GovernanceInv /\ [Next]_vars => [Frozen]_vars
  <2> SUFFICES ASSUME GovernanceInv, Next PROVE Frozen
    OBVIOUS
  <2>1. DOMAIN checks = Ids(counts.checks) /\ DOMAIN elections = Ids(counts.elections)
        /\ counts \in [{"checks", "proposals", "elections"} -> 0..MaxEntities]
    BY DEF GovernanceInv, Records
  <2>2. CASE \E c \in DOMAIN checks : CheckAction(c)
    BY <2>2, CheckActionFreezes
  <2>3. CASE \E e \in DOMAIN elections : ElectionAction(e)
    BY <2>3, ElectionActionFreezes
  <2>4. CASE \E p \in DOMAIN proposals : ProposalAction(p)
    <3>1. checks' = checks /\ elections' = elections
      BY <2>4 DEF ProposalAction, VoteOnProposal, ToggleProposalHidden
    <3>2. QED BY <3>1, UntouchedIsFrozen
  <2>5. CASE \E id \in SetIds : SetAction(id)
    <3>1. PICK id \in SetIds : SetAction(id)
      BY <2>5
    <3>2. ASSUME NEW draft \in Drafts, MakeTemperatureCheck(draft, id)
          PROVE  Frozen
      <4>1. /\ InsertCheck(draft, id, None) /\ elections' = elections
        BY <3>2 DEF MakeTemperatureCheck
      <4>2. \A c \in DOMAIN checks : checks'[c] = checks[c]
        BY <2>1, <4>1 DEF InsertCheck, Extended, Ids
      <4>3. QED BY <4>1, <4>2, UntouchedIsFrozen
    <3>3. ASSUME NEW draft \in Drafts, NEW order \in Orders,
                 MakeMajorityJudgmentElection(draft, id, order)
          PROVE  Frozen
      <4>1. \A c \in DOMAIN checks : checks'[c] = checks[c]
        BY <2>1, <3>3 DEF MakeMajorityJudgmentElection, InsertCheck, Extended, Ids
      <4>2. \A e \in DOMAIN elections : elections'[e] = elections[e]
        BY <2>1, <3>3 DEF MakeMajorityJudgmentElection, Extended, Ids
      <4>3. QED BY <4>1, <4>2, UntouchedIsFrozen
    <3>4. CASE \/ \E p \in Inputs : AddParameterSet(id, p) \/ UpdateParameterSet(id, p)
               \/ RetireParameterSet(id)
      <4>1. checks' = checks /\ elections' = elections
        BY <3>4 DEF AddParameterSet, UpdateParameterSet, RetireParameterSet, entities
      <4>2. QED BY <4>1, UntouchedIsFrozen
    <3>5. QED BY <3>1, <3>2, <3>3, <3>4 DEF SetAction
  <2>6. CASE Tick
    <3>1. checks' = checks /\ elections' = elections
      BY <2>6 DEF Tick, entities
    <3>2. QED BY <3>1, UntouchedIsFrozen
  <2>7. QED BY <2>2, <2>3, <2>4, <2>5, <2>6 DEF Next
<1>2. QED BY <1>1, GovernanceIsInductive, PTL
          DEF Spec, DecidedIsFrozen, CheckFrozen, ElectionFrozen

-----------------------------------------------------------------------------
(***************************************************************************)
(* Every consultation implements Consultation                              *)
(***************************************************************************)

\* What a step of a consultation's course is, in terms of its four variables.
Same(c) ==
  /\ \A p \in Polls : Phase(c, p)' = Phase(c, p)
  /\ DecisionOn(c)' = DecisionOn(c)
  /\ TieOf(c)' = TieOf(c)

SameBallots(c) == \A p \in Polls : BallotsIn(c, p)' = BallotsIn(c, p)

LEMMA CourseStays ==
  ASSUME NEW c, Same(c), SameBallots(c)
  PROVE  UNCHANGED Course(c)!courseVars
BY DEF Same, SameBallots, Course!courseVars

LEMMA CourseCasts ==
  ASSUME NEW c, NEW p \in Polls, Same(c), Phase(c, p) = "open",
         \A q \in Polls : q # p => BallotsIn(c, q)' = BallotsIn(c, q)
  PROVE  Course(c)!Next
BY DEF Same, Course!Next, Course!CastVote, Course!Polls, Polls, RoundIds

LEMMA CourseOpens ==
  ASSUME NEW c, NEW p \in Polls, Phase(c, p) = "pending", Phase(c, p)' = "open",
         \A q \in Polls : q # p => Phase(c, q)' = Phase(c, q),
         SameBallots(c), DecisionOn(c)' = DecisionOn(c), TieOf(c)' = TieOf(c),
         p \in {"Proposal", "RoundOne"} =>
           /\ DecisionOn(c) = TRUE
           /\ Phase(c, "Proposal") = "pending" /\ Phase(c, "RoundOne") = "pending",
         p = "Rerun" => Phase(c, "RoundOne") = "over" /\ TieOf(c) = None
  PROVE  Course(c)!Next
BY DEF SameBallots, Course!Next, Course!OpenPoll, Course!Due, Course!Polls, Polls, RoundIds

LEMMA CourseCloses ==
  ASSUME NEW c, NEW p \in Polls, Phase(c, p) = "open", Phase(c, p)' = "over",
         \A q \in Polls : q # p => Phase(c, q)' = Phase(c, q),
         SameBallots(c), DecisionOn(c)' = DecisionOn(c), TieOf(c)' = TieOf(c)
  PROVE  Course(c)!Next
BY DEF SameBallots, Course!Next, Course!ClosePoll, Course!Polls, Polls, RoundIds

LEMMA CourseDecides ==
  ASSUME NEW c, NEW passed \in BOOLEAN, Phase(c, "Check") = "over",
         \A p \in Polls : Phase(c, p)' = Phase(c, p),
         SameBallots(c), DecisionOn(c) = None, DecisionOn(c)' = passed, TieOf(c)' = TieOf(c)
  PROVE  Course(c)!Next
BY DEF SameBallots, Course!Next, Course!Decide, Polls

LEMMA CourseAdjudicates ==
  ASSUME NEW c, NEW k \in RoundIds, Phase(c, k) = "over",
         \A p \in Polls : Phase(c, p)' = Phase(c, p),
         SameBallots(c), DecisionOn(c)' = DecisionOn(c), TieOf(c) = None,
         TieOf(c)' # None, TieOf(c)'.round = k
  PROVE  Course(c)!Next
BY DEF SameBallots, Course!Next, Course!Adjudicate, Polls, RoundIds

\* The polls of a consultation whose records keep their deadlines are in the phases they were in.
PollsKept(c) ==
  /\ now' = now
  /\ c \in DOMAIN checks' <=> c \in DOMAIN checks
  /\ c \in DOMAIN checks =>
       /\ checks'[c].deadline = checks[c].deadline
       /\ checks'[c].continuation = checks[c].continuation
  /\ LET id == checks[c].continuation.id
     IN  /\ ContinuedBy(c, "Proposal") => proposals'[id].deadline = proposals[id].deadline
         /\ ContinuedBy(c, "MajorityJudgmentElection") =>
              \A k \in RoundIds :
                /\ elections'[id].rounds[k] = None <=> elections[id].rounds[k] = None
                /\ elections[id].rounds[k] # None =>
                     elections'[id].rounds[k].deadline = elections[id].rounds[k].deadline

LEMMA PhasesStay ==
  ASSUME NEW c, PollsKept(c), NEW p \in Polls
  PROVE  /\ Opened(c, p)' <=> Opened(c, p)
         /\ Phase(c, p)' = Phase(c, p)
<1>1. CASE p = "Check"
  BY <1>1 DEF PollsKept, Opened, Phase, Poll, Ended, RoundIds
<1>2. CASE p = "Proposal"
  BY <1>2 DEF PollsKept, Opened, Phase, Poll, Ended, RoundIds, ContinuedBy
<1>3. CASE p \in RoundIds
  <2>1. p # "Check" /\ p # "Proposal"
    BY <1>3 DEF RoundIds
  <2>2. ContinuedBy(c, "MajorityJudgmentElection")' <=> ContinuedBy(c, "MajorityJudgmentElection")
    BY DEF PollsKept, ContinuedBy
  <2>3. QED BY <1>3, <2>1, <2>2 DEF PollsKept, Opened, Phase, Poll, Ended, RoundOf, ContinuedBy
<1>4. QED BY <1>1, <1>2, <1>3 DEF Polls

\* So do the ballots of a poll that keeps its book.
LEMMA BallotsStay ==
  ASSUME NEW c, PollsKept(c), NEW p \in Polls,
         Opened(c, p) => Poll(c, p)'.book = Poll(c, p).book
  PROVE  BallotsIn(c, p)' = BallotsIn(c, p)
BY PhasesStay DEF BallotsIn

\* Whose books these are.
LEMMA PollsAre ==
  ASSUME NEW c
  PROVE  LET id == checks[c].continuation.id
         IN  /\ Poll(c, "Check") = checks[c] /\ Poll(c, "Check")' = checks'[c]
             /\ Poll(c, "Proposal") = proposals[id]
             /\ Poll(c, "Proposal")' = proposals'[id']
             /\ \A k \in RoundIds : /\ Poll(c, k) = elections[id].rounds[k]
                                   /\ Poll(c, k)' = elections'[id'].rounds[k]
BY DEF Poll, RoundOf, RoundIds

\* A consultation whose records stay as they are stays where it is.
Untouched(c) ==
  /\ now' = now
  /\ c \in DOMAIN checks' <=> c \in DOMAIN checks
  /\ c \in DOMAIN checks => checks'[c] = checks[c]
  /\ LET id == checks[c].continuation.id
     IN  /\ ContinuedBy(c, "Proposal") => proposals'[id] = proposals[id]
         /\ ContinuedBy(c, "MajorityJudgmentElection") => elections'[id] = elections[id]

LEMMA UntouchedStays ==
  ASSUME NEW c, Untouched(c)
  PROVE  UNCHANGED Course(c)!courseVars
<1>1. PollsKept(c)
  BY DEF Untouched, PollsKept
<1>2. ASSUME NEW p \in Polls, Opened(c, p)
      PROVE  Poll(c, p)'.book = Poll(c, p).book
  <2>1. CASE p = "Check"
    BY <1>2, <2>1, PollsAre DEF Untouched, Opened, RoundIds
  <2>2. CASE p = "Proposal"
    BY <1>2, <2>2, PollsAre DEF Untouched, Opened, RoundIds, ContinuedBy
  <2>3. CASE p \in RoundIds
    <3>1. ContinuedBy(c, "MajorityJudgmentElection")
      BY <1>2, <2>3 DEF Opened, RoundIds
    <3>2. QED BY <2>3, <3>1, PollsAre DEF Untouched, ContinuedBy
  <2>4. QED BY <2>1, <2>2, <2>3 DEF Polls
<1>3. DecisionOn(c)' = DecisionOn(c) /\ TieOf(c)' = TieOf(c)
  BY DEF Untouched, DecisionOn, TieOf, ContinuedBy
<1>4. QED BY <1>1, <1>2, <1>3, PhasesStay, BallotsStay, CourseStays DEF Same, SameBallots

\* What the invariant says of a consultation and of what continues it.
LEMMA ConsultationFacts ==
  ASSUME GovernanceInv, NEW c \in DOMAIN checks
  PROVE  LET id == checks[c].continuation.id
         IN  /\ now \in Nat /\ IsCheck(checks[c]) /\ checks[c].deadline \in Nat
             /\ ValidParameters(checks[c].parameterSet.parameters)
             /\ checks[c].outcome # None =>
                  now >= checks[c].deadline /\ checks[c].outcome.passed \in BOOLEAN
             /\ ~(/\ ContinuedBy(c, "Proposal")
                  /\ ContinuedBy(c, "MajorityJudgmentElection"))
             /\ ContinuedBy(c, "Proposal") =>
                  /\ id \in DOMAIN proposals /\ IsProposal(proposals[id]) /\ Passed(c)
             /\ ContinuedBy(c, "MajorityJudgmentElection") =>
                  /\ id \in DOMAIN elections /\ CheckOf(id) = c
                  /\ ElectionInv(elections[id], now) /\ LinkedElection(elections[id], id)
<1> DEFINE id == checks[c].continuation.id
<1>1. /\ CheckInv(checks[c], now) /\ IsCheck(checks[c]) /\ LinkedCheck(c) /\ now \in Nat
      /\ \A p \in DOMAIN proposals : IsProposal(proposals[p]) /\ LinkedProposal(proposals[p], p)
      /\ \A e \in DOMAIN elections : /\ ElectionInv(elections[e], now)
                                    /\ LinkedElection(elections[e], e)
  BY GovernanceBounds DEF GovernanceInv, Records, Links, CheckInv, ProposalInv
<1>2. checks[c].deadline \in Nat /\ ValidParameters(checks[c].parameterSet.parameters)
  BY <1>1 DEF CheckInv, IsCheck
<1>3. checks[c].outcome # None =>
        now >= checks[c].deadline /\ checks[c].outcome.passed \in BOOLEAN
  <2> HAVE checks[c].outcome # None
  <2>1. checks[c].outcome.at \in Nat /\ checks[c].outcome.passed \in BOOLEAN
    BY <1>1 DEF IsCheck, Outcome
  <2>2. QED BY <1>1, <1>2, <2>1 DEF CheckInv
<1>4. ContinuedBy(c, "Proposal") =>
        /\ id \in DOMAIN proposals /\ IsProposal(proposals[id]) /\ Passed(c)
  BY <1>1 DEF ContinuedBy, LinkedCheck, LinkedProposal
<1>5. ContinuedBy(c, "MajorityJudgmentElection") =>
        /\ id \in DOMAIN elections /\ CheckOf(id) = c
        /\ ElectionInv(elections[id], now) /\ LinkedElection(elections[id], id)
  BY <1>1 DEF ContinuedBy, LinkedCheck, CheckOf
<1>6. ~(ContinuedBy(c, "Proposal") /\ ContinuedBy(c, "MajorityJudgmentElection"))
  BY DEF ContinuedBy
<1>7. QED BY <1>1, <1>2, <1>3, <1>4, <1>5, <1>6

\* What is done to a check is a step of its consultation, and of no other.
LEMMA CheckTakesCourse ==
  ASSUME GovernanceInv, NEW d \in DOMAIN checks, CheckAction(d), NEW c
  PROVE  Course(c)!Next \/ UNCHANGED Course(c)!courseVars
<1> DEFINE k == checks[d]
<1>1. /\ IsCheck(k) /\ k.deadline \in Nat /\ now \in Nat
      /\ ValidParameters(k.parameterSet.parameters)
      /\ k.outcome # None => now >= k.deadline
  BY ConsultationFacts
<1>2. /\ now' = now /\ elections' = elections /\ DOMAIN checks' = DOMAIN checks
      /\ \A b \in DOMAIN checks : b # d => checks'[b] = checks[b]
  BY DEF CheckAction, RecordOutcome, VoteOnTemperatureCheck, MakeProposal, ToggleCheckHidden
<1>3. CASE c # d /\ ~MakeProposal(d)
  <2>1. proposals' = proposals
    BY <1>3 DEF CheckAction, RecordOutcome, VoteOnTemperatureCheck, ToggleCheckHidden
  <2>2. Untouched(c)
    BY <1>2, <1>3, <2>1 DEF Untouched
  <2>3. QED BY <2>2, UntouchedStays
<1>4. ASSUME c = d, proposals' = proposals,
             checks'[d].deadline = k.deadline, checks'[d].continuation = k.continuation
      PROVE  /\ \A p \in Polls : Phase(c, p)' = Phase(c, p)
             /\ TieOf(c)' = TieOf(c)
             /\ \A p \in Polls : p # "Check" \/ checks'[d].book = k.book =>
                  BallotsIn(c, p)' = BallotsIn(c, p)
             /\ checks'[d].outcome = k.outcome => DecisionOn(c)' = DecisionOn(c)
  <2>1. PollsKept(c)
    BY <1>2, <1>4 DEF PollsKept
  <2>2. ASSUME NEW p \in Polls, p # "Check" \/ checks'[d].book = k.book
        PROVE  Poll(c, p)'.book = Poll(c, p).book
    BY <1>2, <1>4, <2>2, PollsAre DEF Polls
  <2>3. TieOf(c)' = TieOf(c)
    BY <1>2, <1>4 DEF TieOf, ContinuedBy
  <2>4. checks'[d].outcome = k.outcome => DecisionOn(c)' = DecisionOn(c)
    BY <1>2, <1>4 DEF DecisionOn
  <2>5. QED BY <2>1, <2>2, <2>3, <2>4, PhasesStay, BallotsStay
<1>5. Phase(d, "Check") = IF now >= k.deadline THEN "over" ELSE "open"
  BY PollsAre DEF Phase, Opened, Ended
<1>6. ASSUME NEW passed \in BOOLEAN, RecordOutcome(d, passed), c = d
      PROVE  Course(c)!Next
  <2> DEFINE o == [passed |-> passed, at |-> now]
             new == [k EXCEPT !.outcome = o]
  <2>1. /\ checks'[d] = new /\ k.outcome = None /\ now >= k.deadline /\ proposals' = proposals
    BY <1>6 DEF RecordOutcome, Ended
  <2>2. /\ new.deadline = k.deadline /\ new.continuation = k.continuation /\ new.book = k.book
        /\ new.outcome = o
    BY <1>1 DEF IsCheck
  <2>3. o # None /\ o.passed = passed
    BY <1>1, NoneIsNoRecord DEF Outcome
  <2> HIDE DEF new, o
  <2>4. DecisionOn(c) = None /\ DecisionOn(c)' = passed
    BY <1>2, <1>6, <2>1, <2>2, <2>3 DEF DecisionOn
  <2>5. Phase(c, "Check") = "over"
    BY <1>5, <1>6, <2>1
  <2>6. QED BY <1>4, <1>6, <2>1, <2>2, <2>4, <2>5, CourseDecides DEF SameBallots
<1>7. ASSUME NEW a \in Accounts, NEW vote \in CheckVotes, VoteOnTemperatureCheck(a, d, vote),
             c = d
      PROVE  Course(c)!Next
  <2> DEFINE b == Cast(k.book, a, vote, now)
             new == [k EXCEPT !.book = b]
  <2>1. /\ checks'[d] = new /\ now < k.deadline /\ proposals' = proposals
    BY <1>7 DEF VoteOnTemperatureCheck, Open
  <2>2. /\ new.deadline = k.deadline /\ new.continuation = k.continuation
        /\ new.outcome = k.outcome
    BY <1>1 DEF IsCheck
  <2> HIDE DEF new
  <2>3. Phase(c, "Check") = "open"
    BY <1>1, <1>5, <1>7, <2>1
  <2>4. "Check" \in Polls
    BY DEF Polls
  <2>5. QED BY <1>4, <1>7, <2>1, <2>2, <2>3, <2>4, CourseCasts DEF Same
<1>8. ASSUME ToggleCheckHidden(d), c = d
      PROVE  UNCHANGED Course(c)!courseVars
  <2> DEFINE new == [k EXCEPT !.hidden = ~@]
  <2>1. checks'[d] = new /\ proposals' = proposals
    BY <1>8 DEF ToggleCheckHidden
  <2>2. /\ new.deadline = k.deadline /\ new.continuation = k.continuation /\ new.book = k.book
        /\ new.outcome = k.outcome
    BY <1>1 DEF IsCheck
  <2> HIDE DEF new
  <2>3. QED BY <1>4, <1>8, <2>1, <2>2, CourseStays DEF Same, SameBallots
<1>9. CASE MakeProposal(d)
  <2> DEFINE n == counts.proposals
             next == [kind |-> "Proposal", id |-> n]
             new == [k EXCEPT !.continuation = next]
             p == NewProposal(d)
  <2>1. /\ checks'[d] = new /\ proposals' = Extended(proposals, n, p)
        /\ k.continuation = None /\ Passed(d) /\ now >= k.deadline
        /\ IsStandard(k.parameterSet.parameters)
    BY <1>9 DEF MakeProposal, Continuable, Ended
  <2>2. /\ new.deadline = k.deadline /\ new.continuation = next /\ new.book = k.book
        /\ new.outcome = k.outcome
    BY <1>1 DEF IsCheck
  <2>3. n \in Nat /\ DOMAIN proposals = Ids(n)
    BY GovernanceBounds DEF GovernanceInv, Records
  <2>4. /\ DOMAIN proposals' = Ids(n + 1) /\ DOMAIN proposals' = DOMAIN proposals \cup {n}
        /\ n \notin DOMAIN proposals /\ proposals'[n] = p
        /\ \A q \in DOMAIN proposals : proposals'[q] = proposals[q]
    <3>1. n \in Nat /\ DOMAIN proposals = Ids(n) /\ proposals' = Extended(proposals, n, p)
      BY <2>1, <2>3
    <3> HIDE DEF n, p
    <3>2. QED BY <3>1, StoreGrows
  <2>5. next # None /\ next.kind = "Proposal" /\ next.id = n
    BY <2>3, NoneIsNoRecord DEF Continuation
  <2>6. p.book = EmptyBook /\ now < p.deadline
    <3>1. k.parameterSet.parameters.proposal.days > 0
          /\ k.parameterSet.parameters.proposal.days \in Nat
      <4>1. k.parameterSet.parameters \in Parameters
        BY <1>1 DEF IsCheck, Snapshot
      <4>2. QED BY <1>1, <2>1, <4>1, ParameterFields DEF ValidParameters, SoundStage, Stage
    <3>2. QED BY <1>1, <3>1 DEF NewProposal
  <2> HIDE DEF n, next, new, p
  <2>7. CASE c # d
    <3>1. ContinuedBy(c, "Proposal") => checks[c].continuation.id \in DOMAIN proposals
      BY ConsultationFacts DEF ContinuedBy
    <3>2. Untouched(c)
      BY <1>2, <2>4, <2>7, <3>1 DEF Untouched
    <3>3. QED BY <3>2, UntouchedStays
  <2>8. CASE c = d
    <3>1. /\ ~ContinuedBy(c, "Proposal") /\ ~ContinuedBy(c, "MajorityJudgmentElection")
          /\ ContinuedBy(c, "Proposal")' /\ ~ContinuedBy(c, "MajorityJudgmentElection")'
      BY <1>2, <2>1, <2>2, <2>5, <2>8 DEF ContinuedBy
    <3>2. /\ Opened(c, "Check") /\ Opened(c, "Check")'
          /\ ~Opened(c, "Proposal") /\ Opened(c, "Proposal")'
          /\ \A j \in RoundIds : ~Opened(c, j) /\ ~Opened(c, j)'
      BY <1>2, <2>8, <3>1 DEF Opened, RoundIds
    <3>3. /\ Phase(c, "Check")' = Phase(c, "Check")
          /\ Phase(c, "Proposal") = "pending" /\ Phase(c, "Proposal")' = "open"
          /\ \A j \in RoundIds : Phase(c, j) = "pending" /\ Phase(c, j)' = "pending"
      <4>1. Phase(c, "Check")' = Phase(c, "Check")
        BY <1>2, <2>1, <2>2, <2>8, <3>2, PollsAre DEF Phase, Ended
      <4>2. Poll(c, "Proposal")' = p
        BY <2>1, <2>2, <2>4, <2>5, <2>8, PollsAre
      <4>3. ~(now' >= p.deadline)
        <5>1. p.deadline \in Nat
          <6>1. k.parameterSet.parameters \in Parameters
            BY <1>1 DEF IsCheck, Snapshot
          <6>2. QED BY <1>1, <2>1, <6>1, ParameterFields DEF Stage, NewProposal, p
        <5>2. QED BY <1>1, <1>2, <2>6, <5>1
      <4>4. QED BY <3>2, <4>1, <4>2, <4>3 DEF Phase, Ended
    <3>4. SameBallots(c)
      <4>1. BallotsIn(c, "Check")' = BallotsIn(c, "Check")
        BY <2>1, <2>2, <2>8, <3>2, PollsAre DEF BallotsIn
      <4>2. BallotsIn(c, "Proposal")' = BallotsIn(c, "Proposal")
        BY <2>1, <2>2, <2>4, <2>5, <2>6, <2>8, <3>2, PollsAre DEF BallotsIn
      <4>3. \A j \in RoundIds : BallotsIn(c, j)' = BallotsIn(c, j)
        BY <3>2 DEF BallotsIn
      <4>4. QED BY <4>1, <4>2, <4>3 DEF SameBallots, Polls
    <3>5. DecisionOn(c) = TRUE /\ DecisionOn(c)' = DecisionOn(c) /\ TieOf(c)' = TieOf(c)
      <4>1. DecisionOn(c)' = DecisionOn(c)
        BY <1>2, <2>1, <2>2, <2>8 DEF DecisionOn
      <4>2. TieOf(c)' = TieOf(c)
        BY <3>1 DEF TieOf
      <4>3. DecisionOn(c) = k.outcome.passed /\ k.outcome.passed \in BOOLEAN /\ k.outcome.passed
        BY <2>1, <2>8, ConsultationFacts DEF DecisionOn, Passed
      <4>4. QED BY <4>1, <4>2, <4>3
    <3>6. "Proposal" \in Polls /\ \A q \in Polls : q = "Check" \/ q = "Proposal" \/ q \in RoundIds
      BY DEF Polls
    <3>7. Phase(c, "RoundOne") = "pending"
      BY <3>3 DEF RoundIds
    <3>8. QED BY <3>3, <3>4, <3>5, <3>6, <3>7, CourseOpens
  <2>9. QED BY <2>7, <2>8
<1>10. QED BY <1>3, <1>6, <1>7, <1>8, <1>9 DEF CheckAction

\* What is done to a proposal is a step of the consultation that it continues.
LEMMA ProposalTakesCourse ==
  ASSUME GovernanceInv, NEW q \in DOMAIN proposals, ProposalAction(q), NEW c
  PROVE  Course(c)!Next \/ UNCHANGED Course(c)!courseVars
<1> DEFINE k == proposals[q]
<1>1. /\ now' = now /\ elections' = elections /\ checks' = checks
      /\ \A p \in DOMAIN proposals : p # q => proposals'[p] = proposals[p]
  BY DEF ProposalAction, VoteOnProposal, ToggleProposalHidden
<1>2. IsProposal(k) /\ k.deadline \in Nat /\ now \in Nat
  BY GovernanceBounds DEF GovernanceInv, Records, ProposalInv, IsProposal
<1>3. CASE ~(ContinuedBy(c, "Proposal") /\ checks[c].continuation.id = q)
  <2>1. ContinuedBy(c, "Proposal") => checks[c].continuation.id \in DOMAIN proposals
    BY ConsultationFacts DEF ContinuedBy
  <2>2. Untouched(c)
    BY <1>1, <1>3, <2>1 DEF Untouched
  <2>3. QED BY <2>2, UntouchedStays
<1>4. CASE ContinuedBy(c, "Proposal") /\ checks[c].continuation.id = q
  <2>1. PollsKept(c) /\ DecisionOn(c)' = DecisionOn(c) /\ TieOf(c)' = TieOf(c)
    <3>1. proposals'[q].deadline = k.deadline
      BY <1>2 DEF ProposalAction, VoteOnProposal, ToggleProposalHidden, IsProposal
    <3>2. ~ContinuedBy(c, "MajorityJudgmentElection")
      BY <1>4 DEF ContinuedBy
    <3>3. QED BY <1>1, <1>4, <3>1, <3>2 DEF PollsKept, DecisionOn, TieOf, ContinuedBy
  <2>2. ASSUME NEW p \in Polls, p # "Proposal" \/ proposals'[q].book = k.book
        PROVE  BallotsIn(c, p)' = BallotsIn(c, p)
    <3>1. Poll(c, p)'.book = Poll(c, p).book
      BY <1>1, <1>4, <2>2, PollsAre DEF Polls
    <3>2. QED BY <2>1, <3>1, BallotsStay
  <2>3. ASSUME NEW a \in Accounts, NEW selection \in Selections, VoteOnProposal(a, q, selection)
        PROVE  Course(c)!Next
    <3>1. Poll(c, "Proposal") = k /\ Opened(c, "Proposal") /\ now < k.deadline
      BY <1>4, <2>3, PollsAre DEF Opened, VoteOnProposal, Open
    <3>2. Phase(c, "Proposal") = "open"
      BY <1>2, <3>1 DEF Phase, Ended
    <3>3. "Proposal" \in Polls
      BY DEF Polls
    <3>4. QED BY <2>1, <2>2, <3>2, <3>3, PhasesStay, CourseCasts DEF Same
  <2>4. ASSUME ToggleProposalHidden(q)
        PROVE  UNCHANGED Course(c)!courseVars
    <3>1. proposals'[q].book = k.book
      BY <1>2, <2>4 DEF ToggleProposalHidden, IsProposal
    <3>2. QED BY <2>1, <2>2, <3>1, PhasesStay, CourseStays DEF Same, SameBallots
  <2>5. QED BY <2>3, <2>4 DEF ProposalAction
<1>5. QED BY <1>3, <1>4

\* A step that changes one round of an election or its tie leaves the phases of the other
\* polls of its consultation, and their ballots, as they are.
LEMMA OtherPollsStay ==
  ASSUME NEW c, NEW e, NEW j \in RoundIds,
         ContinuedBy(c, "MajorityJudgmentElection"), checks[c].continuation.id = e,
         now' = now, checks' = checks, proposals' = proposals,
         \A i \in RoundIds : i # j => elections'[e].rounds[i] = elections[e].rounds[i]
  PROVE  /\ DecisionOn(c)' = DecisionOn(c)
         /\ \A p \in Polls : p # j =>
              Phase(c, p)' = Phase(c, p) /\ BallotsIn(c, p)' = BallotsIn(c, p)
<1>1. ContinuedBy(c, "MajorityJudgmentElection")' /\ checks'[c].continuation.id = e
  BY DEF ContinuedBy
<1>2. DecisionOn(c)' = DecisionOn(c)
  BY DEF DecisionOn
<1>3. ASSUME NEW p \in Polls, p # j
      PROVE  Opened(c, p)' = Opened(c, p)
  <2>1. CASE p \in RoundIds
    BY <1>1, <1>3, <2>1 DEF Opened, RoundOf, RoundIds
  <2>2. CASE p \notin RoundIds
    BY <1>1, <2>2 DEF Opened, RoundIds, ContinuedBy
  <2>3. QED BY <2>1, <2>2
<1>4. ASSUME NEW p \in Polls, p # j
      PROVE  Poll(c, p)' = Poll(c, p)
  BY <1>1, <1>4, PollsAre DEF Polls
<1>5. QED BY <1>2, <1>3, <1>4 DEF Phase, BallotsIn, Ended

\* What is done to an election is a step of the consultation that it continues.
LEMMA ElectionTakesCourse ==
  ASSUME GovernanceInv, NEW e \in DOMAIN elections, ElectionAction(e), NEW c
  PROVE  Course(c)!Next \/ UNCHANGED Course(c)!courseVars
<1> DEFINE k == elections[e]
<1>1. /\ now' = now /\ proposals' = proposals /\ checks' = checks
      /\ \A f \in DOMAIN elections : f # e => elections'[f] = elections[f]
  BY DEF ElectionAction, VoteOnMajorityJudgmentElection, StartRoundOne, StartRerun, OpenRound,
         RecordTieResolution, ToggleElectionHidden
<1>2. /\ ElectionInv(k, now) /\ IsElection(k) /\ DOMAIN k.rounds = RoundIds /\ now \in Nat
  BY GovernanceBounds DEF GovernanceInv, Records, ElectionInv, IsElection
<1>3. \A j \in RoundIds : k.rounds[j] # None =>
        IsRound(k.rounds[j]) /\ k.rounds[j].deadline \in Nat
  BY <1>2 DEF IsElection, IsRound
<1>4. CASE ~(ContinuedBy(c, "MajorityJudgmentElection") /\ checks[c].continuation.id = e)
  <2>1. ContinuedBy(c, "MajorityJudgmentElection") =>
          checks[c].continuation.id \in DOMAIN elections
    BY ConsultationFacts DEF ContinuedBy
  <2>2. Untouched(c)
    BY <1>1, <1>4, <2>1 DEF Untouched
  <2>3. QED BY <2>2, UntouchedStays
<1>5. CASE ContinuedBy(c, "MajorityJudgmentElection") /\ checks[c].continuation.id = e
  <2>1. /\ c \in DOMAIN checks /\ CheckOf(e) = c /\ LinkedElection(k, e)
        /\ ~ContinuedBy(c, "Proposal") /\ ~ContinuedBy(c, "Proposal")'
        /\ ContinuedBy(c, "MajorityJudgmentElection")'
    <3>1. c \in DOMAIN checks
      BY <1>5 DEF ContinuedBy
    <3>2. QED BY <1>1, <1>5, <3>1, ConsultationFacts DEF ContinuedBy
  <2>2. /\ TieOf(c) = k.tie /\ TieOf(c)' = elections'[e].tie
        /\ \A j \in RoundIds :
             /\ j # "Check" /\ j # "Proposal" /\ j \in Polls
             /\ Opened(c, j) <=> k.rounds[j] # None
             /\ Opened(c, j)' <=> elections'[e].rounds[j] # None
             /\ Poll(c, j) = k.rounds[j] /\ Poll(c, j)' = elections'[e].rounds[j]
    BY <1>1, <1>5, <2>1, PollsAre DEF TieOf, Opened, RoundOf, RoundIds, Polls
  <2>3. \A j \in RoundIds :
          /\ k.rounds[j] = None => Phase(c, j) = "pending"
          /\ k.rounds[j] # None =>
               Phase(c, j) = IF now >= k.rounds[j].deadline THEN "over" ELSE "open"
    BY <2>2 DEF Phase, Ended
  <2>4. ASSUME elections'[e].rounds = k.rounds
        PROVE  /\ DecisionOn(c)' = DecisionOn(c) /\ SameBallots(c)
               /\ \A p \in Polls : Phase(c, p)' = Phase(c, p)
    <3>1. PollsKept(c) /\ DecisionOn(c)' = DecisionOn(c)
      BY <1>1, <1>5, <2>1, <2>4 DEF PollsKept, DecisionOn
    <3>2. \A p \in Polls : Poll(c, p)' = Poll(c, p)
      BY <1>1, <1>5, <2>4, PollsAre DEF Polls
    <3>3. QED BY <3>1, <3>2, PhasesStay, BallotsStay DEF SameBallots
  <2>5. ASSUME NEW j \in RoundIds, NEW r, elections' = [elections EXCEPT ![e].rounds[j] = r]
        PROVE  /\ elections'[e].tie = k.tie /\ elections'[e].rounds[j] = r
               /\ \A i \in RoundIds : i # j => elections'[e].rounds[i] = k.rounds[i]
    <3> DEFINE rounds == [k.rounds EXCEPT ![j] = r]
    <3>1. elections'[e].tie = k.tie /\ elections'[e].rounds = rounds
      BY <1>2, <2>5 DEF IsElection
    <3>2. rounds[j] = r /\ \A i \in RoundIds : i # j => rounds[i] = k.rounds[i]
      BY <1>2
    <3>3. QED BY <3>1, <3>2
  <2>6. ASSUME NEW a \in Accounts, NEW j \in RoundIds, NEW grades \in GradeLists,
               VoteOnMajorityJudgmentElection(a, e, j, grades)
        PROVE  Course(c)!Next
    <3>1. PICK r : /\ RoundInv(r) /\ elections' = [elections EXCEPT ![e].rounds[j] = r]
                   /\ r.deadline = k.rounds[j].deadline
      BY <2>6, RoundTakesVote
    <3>2. k.rounds[j] # None /\ now < k.rounds[j].deadline
      BY <2>6, RoundTakesVote
    <3>3. /\ elections'[e].tie = k.tie /\ elections'[e].rounds[j] = r
          /\ \A i \in RoundIds : i # j => elections'[e].rounds[i] = k.rounds[i]
      BY <3>1, <2>5
    <3>4. r # None
      BY <3>1, RoundIsThere DEF RoundInv
    <3>5. Phase(c, j) = "open" /\ Phase(c, j)' = Phase(c, j)
      BY <1>1, <1>2, <1>3, <2>2, <3>1, <3>2, <3>3, <3>4 DEF Phase, Ended
    <3>6. /\ DecisionOn(c)' = DecisionOn(c)
          /\ \A p \in Polls : p # j =>
               Phase(c, p)' = Phase(c, p) /\ BallotsIn(c, p)' = BallotsIn(c, p)
      BY <1>1, <1>5, <3>3, OtherPollsStay
    <3>7. QED BY <2>2, <3>3, <3>5, <3>6, CourseCasts DEF Same
  <2>7. ASSUME NEW j \in RoundIds, NEW snapshot \in Nat, NEW stage \in Stage,
               OpenRound(e, j, snapshot, stage), stage.days > 0, Passed(c),
               j = "Rerun" => Phase(c, "RoundOne") = "over" /\ k.tie = None
        PROVE  Course(c)!Next
    <3>1. PICK r : /\ RoundInv(r) /\ elections' = [elections EXCEPT ![e].rounds[j] = r]
                   /\ r.deadline = now + stage.days /\ r.book = EmptyBook
      BY <2>7, RoundIsOpened
    <3>2. k.rounds[j] = None
      BY <2>7, RoundIsOpened
    <3>3. /\ elections'[e].tie = k.tie /\ elections'[e].rounds[j] = r
          /\ \A i \in RoundIds : i # j => elections'[e].rounds[i] = k.rounds[i]
      BY <3>1, <2>5
    <3>4. r # None
      BY <3>1, RoundIsThere DEF RoundInv
    <3>5. Phase(c, j) = "pending" /\ Phase(c, j)' = "open"
      <4>1. ~(now' >= r.deadline)
        BY <1>1, <1>2, <2>7, <3>1 DEF Stage
      <4>2. QED BY <2>2, <2>3, <3>2, <3>3, <3>4, <4>1 DEF Phase, Ended
    <3>6. BallotsIn(c, j)' = BallotsIn(c, j)
      BY <2>2, <3>1, <3>2, <3>3, <3>4 DEF BallotsIn
    <3>7. /\ DecisionOn(c)' = DecisionOn(c)
          /\ \A p \in Polls : p # j =>
               Phase(c, p)' = Phase(c, p) /\ BallotsIn(c, p)' = BallotsIn(c, p)
      BY <1>1, <1>5, <3>3, OtherPollsStay
    <3>8. DecisionOn(c) = TRUE
      BY <2>1, <2>7, ConsultationFacts DEF DecisionOn, Passed
    <3>9. Phase(c, "Proposal") = "pending"
      BY <2>1 DEF Phase, Opened, RoundIds
    <3>10. SameBallots(c) /\ TieOf(c)' = TieOf(c)
      BY <2>2, <3>3, <3>6, <3>7 DEF SameBallots
    <3>11. j \in {"Proposal", "RoundOne"} => Phase(c, "RoundOne") = "pending"
      BY <3>5 DEF RoundIds
    <3>12. QED BY <2>2, <2>7, <3>5, <3>7, <3>8, <3>9, <3>10, <3>11, CourseOpens
  <2>8. c \in DOMAIN checks /\ RulesOf(e) \in Parameters /\ ~IsStandard(RulesOf(e))
        /\ ValidParameters(RulesOf(e))
    <3>1. RulesOf(e) = checks[c].parameterSet.parameters /\ k.check = c
      BY <2>1 DEF RulesOf, CheckOf
    <3>2. IsCheck(checks[c]) /\ ValidParameters(checks[c].parameterSet.parameters)
      BY <2>1, ConsultationFacts
    <3>3. checks[c].parameterSet.parameters \in Parameters
      BY <3>2 DEF IsCheck, Snapshot
    <3>4. ~IsStandard(checks[c].parameterSet.parameters)
      BY <2>1, <3>1 DEF LinkedElection
    <3>5. QED BY <2>1, <3>1, <3>2, <3>3, <3>4
  <2>9. /\ RulesOf(e).election \in Stage /\ RulesOf(e).election.days > 0
        /\ RulesOf(e).rerun \in Stage /\ RulesOf(e).rerun.days > 0
    BY <2>8, ParameterFields DEF ValidParameters, SoundStage
  <2>10. CASE StartRoundOne(e)
    <3>1. OpenRound(e, "RoundOne", now, RulesOf(e).election) /\ Passed(c)
      BY <2>1, <2>10 DEF StartRoundOne
    <3>2. QED BY <1>2, <2>7, <2>9, <3>1 DEF RoundIds
  <2>11. CASE StartRerun(e)
    <3>1. /\ OpenRound(e, "Rerun", k.rounds["RoundOne"].snapshot, RulesOf(e).rerun) /\ Passed(c)
          /\ k.rounds["RoundOne"] # None /\ now >= k.rounds["RoundOne"].deadline
          /\ k.tie = None
      BY <2>1, <2>11 DEF StartRerun, RoundOf, Ended
    <3>2. k.rounds["RoundOne"].snapshot \in Nat /\ Phase(c, "RoundOne") = "over"
      BY <1>3, <2>3, <3>1 DEF RoundIds, IsRound
    <3>3. QED BY <2>7, <2>9, <3>1, <3>2 DEF RoundIds
  <2>12. ASSUME NEW j \in RoundIds, NEW order \in Orders, RecordTieResolution(e, j, order)
         PROVE  Course(c)!Next
    <3> DEFINE tie == [round |-> j, order |-> order, at |-> now]
               new == [k EXCEPT !.tie = tie]
    <3>1. /\ k.tie = None /\ k.rounds[j] # None /\ now >= k.rounds[j].deadline
          /\ elections'[e] = new
      BY <2>12 DEF RecordTieResolution, RoundOf, Ended
    <3>2. new.tie = tie /\ new.rounds = k.rounds
      BY <1>2 DEF IsElection
    <3>3. tie.round = j /\ tie # None
      BY <1>2, NoneIsNoRecord DEF TieResolution
    <3> HIDE DEF tie, new
    <3>4. Phase(c, j) = "over"
      BY <2>3, <3>1
    <3>5. TieOf(c) = None /\ TieOf(c)' # None /\ TieOf(c)'.round = j
      BY <2>2, <3>1, <3>2, <3>3
    <3>6. elections'[e].rounds = k.rounds
      BY <3>1, <3>2
    <3>7. QED BY <2>4, <3>4, <3>5, <3>6, CourseAdjudicates
  <2>13. CASE ToggleElectionHidden(e)
    <3>1. elections'[e] = [k EXCEPT !.hidden = ~@]
      BY <2>13 DEF ToggleElectionHidden
    <3>2. elections'[e].rounds = k.rounds /\ elections'[e].tie = k.tie
      BY <1>2, <3>1 DEF IsElection
    <3>3. QED BY <2>2, <2>4, <3>2, CourseStays DEF Same
  <2>14. QED BY <2>6, <2>10, <2>11, <2>12, <2>13 DEF ElectionAction
<1>6. QED BY <1>4, <1>5

\* A new check begins the course of a new consultation.
LEMMA BeginsCourse ==
  ASSUME NEW n \in Nat, n \notin DOMAIN checks, n \in DOMAIN checks', now' = now, now \in Nat,
         checks'[n].deadline \in Nat, now < checks'[n].deadline,
         checks'[n].book = EmptyBook, checks'[n].outcome = None,
         \/ checks'[n].continuation = None
         \/ LET next == checks'[n].continuation
            IN  /\ next.kind = "MajorityJudgmentElection"
                /\ elections'[next.id].tie = None
                /\ \A k \in RoundIds : elections'[next.id].rounds[k] = None
  PROVE  Course(n)!Next
<1>1. /\ ~ContinuedBy(n, "Proposal") /\ ~ContinuedBy(n, "Proposal")'
      /\ ~ContinuedBy(n, "MajorityJudgmentElection")
  BY DEF ContinuedBy
<1>2. /\ ~Opened(n, "Check") /\ Opened(n, "Check")'
      /\ \A p \in Polls : p # "Check" => ~Opened(n, p) /\ ~Opened(n, p)'
  BY <1>1 DEF Opened, ContinuedBy, RoundOf, RoundIds, Polls
<1>3. /\ Phase(n, "Check") = "pending" /\ Phase(n, "Check")' = "open"
      /\ \A p \in Polls : p # "Check" => Phase(n, p) = "pending" /\ Phase(n, p)' = "pending"
  BY <1>2, PollsAre DEF Phase, Ended
<1>4. SameBallots(n)
  BY <1>2, PollsAre DEF SameBallots, BallotsIn
<1>5. DecisionOn(n)' = DecisionOn(n) /\ TieOf(n)' = TieOf(n)
  BY <1>1 DEF DecisionOn, TieOf, ContinuedBy
<1>6. "Check" \in Polls
  BY DEF Polls
<1>7. QED BY <1>3, <1>4, <1>5, <1>6, CourseOpens

\* The contract's new checks, and the elections made with them.
LEMMA CreationTakesCourse ==
  ASSUME GovernanceInv, NEW draft \in Drafts, NEW id \in SetIds, NEW c,
         \/ MakeTemperatureCheck(draft, id)
         \/ \E order \in Orders : MakeMajorityJudgmentElection(draft, id, order)
  PROVE  Course(c)!Next \/ UNCHANGED Course(c)!courseVars
<1>1. PICK n, m : n = counts.checks /\ m = counts.elections
  OBVIOUS
<1>2. /\ m \in Nat /\ DOMAIN elections = Ids(m) /\ now \in Nat
  BY <1>1, GovernanceBounds DEF GovernanceInv, Records
<1>3. PICK next \in Continuation \cup {None} :
        /\ Selectable(id) /\ (ValidStandardFollowUp(draft) \/ ValidElectionFollowUp(draft))
        /\ InsertCheck(draft, id, next)
        /\ UNCHANGED <<registry, proposals, now>>
        /\ \/ next = None /\ elections' = elections
           \/ \E new : /\ next.kind = "MajorityJudgmentElection" /\ next.id = m
                       /\ elections' = Extended(elections, m, new)
                       /\ new.tie = None /\ \A k \in RoundIds : new.rounds[k] = None
  <2>1. CASE MakeTemperatureCheck(draft, id)
    BY <2>1 DEF MakeTemperatureCheck
  <2>2. CASE \E order \in Orders : MakeMajorityJudgmentElection(draft, id, order)
    <3> DEFINE nx == [kind |-> "MajorityJudgmentElection", id |-> m]
               new == [check |-> n, rounds |-> [k \in RoundIds |-> None], tie |-> None,
                       hidden |-> FALSE]
    <3>1. /\ Selectable(id) /\ ValidElectionFollowUp(draft) /\ InsertCheck(draft, id, nx)
          /\ UNCHANGED <<registry, proposals, now>>
          /\ elections' = Extended(elections, m, new)
      BY <1>1, <2>2 DEF MakeMajorityJudgmentElection
    <3>2. nx \in Continuation /\ nx.kind = "MajorityJudgmentElection" /\ nx.id = m
      BY <1>2 DEF Continuation
    <3>3. new.tie = None /\ \A k \in RoundIds : new.rounds[k] = None
      OBVIOUS
    <3> HIDE DEF nx, new
    <3>4. QED BY <3>1, <3>2, <3>3
  <2>3. QED BY <2>1, <2>2
<1>4. /\ n \in Nat /\ n \notin DOMAIN checks /\ DOMAIN checks' = DOMAIN checks \cup {n}
      /\ checks'[n] = NewCheck(draft, id, next)
      /\ \A d \in DOMAIN checks : checks'[d] = checks[d]
  <2>1. InsertCheck(draft, id, next) /\ UNCHANGED <<registry, now>>
    BY <1>3
  <2>2. QED BY <1>1, <1>3, <2>1, InsertCheckSteps
<1>5. /\ \A e \in DOMAIN elections : elections'[e] = elections[e]
      /\ next # None => /\ next.kind = "MajorityJudgmentElection"
                        /\ elections'[next.id].tie = None
                        /\ \A k \in RoundIds : elections'[next.id].rounds[k] = None
  <2>1. CASE next = None /\ elections' = elections
    BY <2>1
  <2>2. ASSUME NEW new, next.kind = "MajorityJudgmentElection", next.id = m,
               elections' = Extended(elections, m, new),
               new.tie = None, \A k \in RoundIds : new.rounds[k] = None
        PROVE  /\ \A e \in DOMAIN elections : elections'[e] = elections[e]
               /\ elections'[next.id].tie = None
               /\ \A k \in RoundIds : elections'[next.id].rounds[k] = None
    <3>1. /\ DOMAIN elections' = Ids(m + 1) /\ DOMAIN elections' = DOMAIN elections \cup {m}
          /\ m \notin DOMAIN elections /\ elections'[m] = new
          /\ \A e \in DOMAIN elections : elections'[e] = elections[e]
      BY <1>2, <2>2, StoreGrows
    <3>2. QED BY <2>2, <3>1
  <2>3. QED BY <1>3, <2>1, <2>2
<1>6. CASE c # n
  <2>1. /\ ContinuedBy(c, "MajorityJudgmentElection") =>
             checks[c].continuation.id \in DOMAIN elections
    BY ConsultationFacts DEF ContinuedBy
  <2>2. Untouched(c)
    BY <1>3, <1>4, <1>5, <1>6, <2>1 DEF Untouched, ContinuedBy
  <2>3. QED BY <2>2, UntouchedStays
<1>7. CASE c = n
  <2>1. /\ checks'[n].book = EmptyBook /\ checks'[n].outcome = None
        /\ checks'[n].continuation = next
        /\ checks'[n].deadline = now + registry[id].parameters.check.days
    BY <1>4 DEF NewCheck
  <2>2. registry[id].parameters.check.days \in Nat /\ registry[id].parameters.check.days > 0
    <3>1. registry[id].parameters \in Parameters /\ ValidParameters(registry[id].parameters)
      BY <1>3, RegistryFields DEF GovernanceInv, RegistryInv, Selectable
    <3>2. QED BY <3>1, ParameterFields DEF ValidParameters, SoundStage, Stage
  <2>3. checks'[n].deadline \in Nat /\ now < checks'[n].deadline
    BY <1>2, <2>1, <2>2
  <2>4. QED BY <1>2, <1>3, <1>4, <1>5, <1>7, <2>1, <2>3, BeginsCourse
<1>8. QED BY <1>6, <1>7

\* At no time are two polls of one consultation open.
LEMMA OnePollIsOpen ==
  ASSUME GovernanceInv, NEW c, NEW p \in Polls, NEW q \in Polls,
         Phase(c, p) = "open", Phase(c, q) = "open"
  PROVE  p = q
<1> DEFINE id == checks[c].continuation.id
<1>1. c \in DOMAIN checks /\ Opened(c, p) /\ Opened(c, q)
  BY DEF Phase, Opened, ContinuedBy
<1>2. \A r \in Polls : r = "Check" \/ r = "Proposal" \/ r = "RoundOne" \/ r = "Rerun"
  BY DEF Polls, RoundIds
<1>3. ~(Phase(c, "Check") = "open" /\ Passed(c))
  BY <1>1, PollsAre, ConsultationFacts DEF Phase, Ended, Passed
<1>4. Opened(c, "Proposal") => Passed(c) /\ ~Opened(c, "RoundOne") /\ ~Opened(c, "Rerun")
  BY <1>1, ConsultationFacts DEF Opened, RoundIds
<1>5. Opened(c, "RoundOne") \/ Opened(c, "Rerun") => Passed(c)
  <2> SUFFICES ASSUME Opened(c, "RoundOne") \/ Opened(c, "Rerun") PROVE Passed(c)
    OBVIOUS
  <2>1. ContinuedBy(c, "MajorityJudgmentElection")
        /\ (RoundOf(id, "RoundOne") # None \/ RoundOf(id, "Rerun") # None)
    BY DEF Opened, RoundIds
  <2>2. ElectionInv(elections[id], now) /\ LinkedElection(elections[id], id) /\ CheckOf(id) = c
    BY <1>1, <2>1, ConsultationFacts
  <2>3. QED BY <2>1, <2>2 DEF ElectionInv, LinkedElection, RoundOf, CheckOf
<1>6. ~(Phase(c, "RoundOne") = "open" /\ Phase(c, "Rerun") = "open")
  <2> SUFFICES ASSUME Phase(c, "RoundOne") = "open", Phase(c, "Rerun") = "open" PROVE FALSE
    OBVIOUS
  <2>1. ContinuedBy(c, "MajorityJudgmentElection")
        /\ RoundOf(id, "RoundOne") # None /\ RoundOf(id, "Rerun") # None
    BY DEF Phase, Opened, RoundIds
  <2>2. ElectionInv(elections[id], now) /\ now \in Nat
    BY <1>1, <2>1, ConsultationFacts
  <2>3. PICK e : e = elections[id]
    OBVIOUS
  <2>4. /\ e.rounds["RoundOne"].deadline \in Nat /\ e.rounds["Rerun"].start \in Nat
        /\ e.rounds["RoundOne"].deadline <= e.rounds["Rerun"].start
        /\ e.rounds["Rerun"].start <= now
    <3>1. e.rounds["RoundOne"] # None /\ e.rounds["Rerun"] # None /\ ElectionInv(e, now)
      BY <2>1, <2>2, <2>3 DEF RoundOf
    <3>2. IsRound(e.rounds["RoundOne"]) /\ IsRound(e.rounds["Rerun"])
      BY <3>1 DEF ElectionInv, IsElection, RoundIds
    <3>3. QED BY <3>1, <3>2 DEF ElectionInv, IsRound
  <2>5. Ended(Poll(c, "RoundOne").deadline)
    BY <2>2, <2>3, <2>4, PollsAre DEF Ended, RoundIds
  <2>6. QED BY <2>5 DEF Phase
<1>7. \A r \in Polls : Phase(c, r) = "open" => Opened(c, r)
  BY DEF Phase
<1>8. QED BY <1>2, <1>3, <1>4, <1>5, <1>6, <1>7

\* The passing of time closes at most one poll of a consultation.
LEMMA TimeTakesCourse ==
  ASSUME GovernanceInv, Tick, NEW c
  PROVE  Course(c)!Next \/ UNCHANGED Course(c)!courseVars
<1>1. /\ now' = now + 1 /\ now \in Nat
      /\ checks' = checks /\ proposals' = proposals /\ elections' = elections
  BY GovernanceBounds DEF Tick, entities, GovernanceInv, Records
<1>2. ASSUME NEW p \in Polls
      PROVE  /\ Opened(c, p)' <=> Opened(c, p)
             /\ Poll(c, p)' = Poll(c, p)
             /\ Opened(c, p) => Poll(c, p).deadline \in Nat
  <2>1. Opened(c, p)' <=> Opened(c, p)
    BY <1>1 DEF Opened, ContinuedBy, RoundOf
  <2>2. Poll(c, p)' = Poll(c, p)
    BY <1>1 DEF Poll, RoundOf
  <2>3. ASSUME Opened(c, p)
        PROVE  Poll(c, p).deadline \in Nat
    <3>1. c \in DOMAIN checks
      BY <2>3 DEF Opened, ContinuedBy
    <3>2. CASE p = "Check"
      BY <3>1, <3>2, PollsAre, ConsultationFacts
    <3>3. CASE p = "Proposal"
      <4>1. ContinuedBy(c, "Proposal")
        BY <2>3, <3>3 DEF Opened, RoundIds
      <4>2. QED BY <3>1, <3>3, <4>1, PollsAre, ConsultationFacts DEF IsProposal
    <3>4. CASE p \in RoundIds
      <4>1. ContinuedBy(c, "MajorityJudgmentElection")
            /\ elections[checks[c].continuation.id].rounds[p] # None
        BY <2>3, <3>4 DEF Opened, RoundOf, RoundIds
      <4>2. ElectionInv(elections[checks[c].continuation.id], now)
        BY <3>1, <4>1, ConsultationFacts
      <4>3. Poll(c, p) = elections[checks[c].continuation.id].rounds[p]
        BY <3>4, PollsAre
      <4>4. IsRound(Poll(c, p))
        <5>1. PICK e : e = elections[checks[c].continuation.id]
          OBVIOUS
        <5>2. ElectionInv(e, now) /\ e.rounds[p] # None
          BY <4>1, <4>2, <5>1
        <5>3. IsElection(e)
          BY <5>2 DEF ElectionInv
        <5>4. IsRound(e.rounds[p])
          BY <3>4, <5>2, <5>3 DEF IsElection
        <5>5. QED BY <4>3, <5>1, <5>4
      <4>5. QED BY <4>4 DEF IsRound
    <3>5. QED BY <3>2, <3>3, <3>4 DEF Polls
  <2>4. QED BY <2>1, <2>2, <2>3
<1>3. SameBallots(c) /\ DecisionOn(c)' = DecisionOn(c) /\ TieOf(c)' = TieOf(c)
  BY <1>1, <1>2 DEF SameBallots, BallotsIn, DecisionOn, TieOf, ContinuedBy
<1>4. ASSUME NEW p \in Polls
      PROVE  \/ Phase(c, p)' = Phase(c, p)
             \/ Phase(c, p) = "open" /\ Phase(c, p)' = "over"
  BY <1>1, <1>2 DEF Phase, Ended
<1>5. CASE \A p \in Polls : Phase(c, p)' = Phase(c, p)
  BY <1>3, <1>5, CourseStays DEF Same
<1>6. CASE \E p \in Polls : Phase(c, p)' # Phase(c, p)
  <2>1. PICK p \in Polls : Phase(c, p)' # Phase(c, p)
    BY <1>6
  <2>2. Phase(c, p) = "open" /\ Phase(c, p)' = "over"
    BY <1>4, <2>1
  <2>3. \A q \in Polls : q # p => Phase(c, q) # "open"
    BY <2>2, OnePollIsOpen
  <2>4. \A q \in Polls : q # p => Phase(c, q)' = Phase(c, q)
    BY <1>4, <2>3
  <2>5. QED BY <1>3, <2>2, <2>4, CourseCloses
<1>7. QED BY <1>5, <1>6

\* Every step of the contract is a step of a consultation's course, or none of it.
LEMMA StepsTakeCourse ==
  ASSUME GovernanceInv, [Next]_vars, NEW c
  PROVE  [Course(c)!Next]_(Course(c)!courseVars)
<1>1. CASE \E d \in DOMAIN checks : CheckAction(d)
  BY <1>1, CheckTakesCourse
<1>2. CASE \E q \in DOMAIN proposals : ProposalAction(q)
  BY <1>2, ProposalTakesCourse
<1>3. CASE \E e \in DOMAIN elections : ElectionAction(e)
  BY <1>3, ElectionTakesCourse
<1>4. CASE \E id \in SetIds : SetAction(id)
  <2>1. PICK id \in SetIds : SetAction(id)
    BY <1>4
  <2>2. CASE \E draft \in Drafts :
               \/ MakeTemperatureCheck(draft, id)
               \/ \E order \in Orders : MakeMajorityJudgmentElection(draft, id, order)
    BY <2>2, CreationTakesCourse
  <2>3. CASE \/ \E p \in Inputs : AddParameterSet(id, p) \/ UpdateParameterSet(id, p)
             \/ RetireParameterSet(id)
    <3>1. UNCHANGED <<checks, proposals, elections, now>>
      BY <2>3 DEF AddParameterSet, UpdateParameterSet, RetireParameterSet, entities
    <3>2. QED BY <3>1, UntouchedStays DEF Untouched
  <2>4. QED BY <2>1, <2>2, <2>3 DEF SetAction
<1>5. CASE Tick
  BY <1>5, TimeTakesCourse
<1>6. CASE UNCHANGED vars
  <2>1. Untouched(c)
    BY <1>6 DEF Untouched, vars
  <2>2. QED BY <2>1, UntouchedStays
<1>7. QED BY <1>1, <1>2, <1>3, <1>4, <1>5, <1>6 DEF Next

\* No consultation has begun.
LEMMA CourseStarts ==
  ASSUME Init, NEW c
  PROVE  Course(c)!Init
<1>1. c \notin DOMAIN checks
  BY DEF Init, EmptyStore
<1>2. \A p \in Polls : ~Opened(c, p)
  BY <1>1 DEF Opened, ContinuedBy
<1>3. \A p \in Polls : Phase(c, p) = "pending" /\ BallotsIn(c, p) = EmptyBook
  BY <1>2 DEF Phase, BallotsIn
<1>4. DecisionOn(c) = None /\ TieOf(c) = None
  BY <1>1 DEF DecisionOn, TieOf, ContinuedBy
<1>5. Polls = {"Check", "Proposal", "RoundOne", "Rerun"}
  BY DEF Polls, RoundIds
<1>6. QED BY <1>3, <1>4, <1>5 DEF Course!Init, Course!Polls

\* Whatever its id, a consultation behaves as Consultation specifies: its polls open one at a
\* time, when they are due and once, and ballots, decision and adjudication change only in
\* the phases that are for them, however the steps of other consultations come in between.
THEOREM ConsultationsImplementConsultation ==
  ASSUME NEW c
  PROVE  Spec => Course(c)!Spec
<1>1. Init => Course(c)!Init
  BY CourseStarts
<1>2. GovernanceInv /\ [Next]_vars => [Course(c)!Next]_(Course(c)!courseVars)
  BY StepsTakeCourse
<1>3. QED BY <1>1, <1>2, GovernanceIsInductive, PTL DEF Spec, Course!Spec

\* All consultations take their course at once, as the run checks it of the first few.
THEOREM CoursesAreTaken == Spec => ConsultationsTakeTheirCourse
<1> DEFINE All == \A c \in Ids(MaxEntities) : [Course(c)!Next]_(Course(c)!courseVars)
           First == \A c \in Ids(MaxEntities) : Course(c)!Init
<1>1. Init => First
  BY CourseStarts
<1>2. GovernanceInv /\ [Next]_vars => [All]_vars
  BY StepsTakeCourse
<1>3. ConsultationsTakeTheirCourse <=> First /\ [][All]_vars
  BY DEF ConsultationsTakeTheirCourse
<1> HIDE DEF All, First
<1>4. QED BY <1>1, <1>2, <1>3, GovernanceIsInductive, PTL DEF Spec
=============================================================================
