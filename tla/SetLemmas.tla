------------------------------ MODULE SetLemmas ------------------------------
(***************************************************************************)
(* Lemmas about finite sets that several proofs need.  Sums over them      *)
(* (MapThenSumSet), for any set and any summands: the recursion behind     *)
(* them is well defined, and the order in which it takes the members does  *)
(* not matter; instead of an induction, the proofs take a smallest subset  *)
(* for which the claim would fail.  And sorting by counts: what has each   *)
(* member of a set at the place that the number of those before it names   *)
(* lists the whole set once, in order.                                     *)
(***************************************************************************)
EXTENDS Sorting, Integers, FiniteSets, FiniteSetsExt, FiniteSetTheorems, WellFoundedInduction, TLAPS

\* The sum of a function's values.
SumOf(f, S) == MapThenSumSet(LAMBDA x : f[x], S)

\* The member that the sum takes first.
Chosen(s) == CHOOSE x \in s : TRUE

\* g is the table of the sums over the subsets of S.
Table(g, f, S) ==
  g = [s \in SUBSET S |-> IF s = {} THEN 0 ELSE f[Chosen(s)] + g[s \ {Chosen(s)}]]

\* A nonempty collection of subsets of a finite set has a smallest member.
LEMMA SmallestSubset ==
  ASSUME NEW S, IsFiniteSet(S), NEW C \in SUBSET SUBSET S, C # {}
  PROVE  \E s \in C : \A t \in C : t \subseteq s => t = s
<1>1. IsWellFoundedOn(StrictSubsetOrdering(S), FiniteSubsetsOf(S))
  BY FS_StrictSubsetOrderingWellFounded
<1>2. C \subseteq FiniteSubsetsOf(S)
  BY FS_Subset DEF FiniteSubsetsOf
<1>3. PICK s \in C : \A t \in C : ~ (<<t, s>> \in StrictSubsetOrdering(S))
  BY <1>1, <1>2, WFMin
<1>4. QED BY <1>3 DEF StrictSubsetOrdering

\* It is one of them.
LEMMA ChosenIn == ASSUME NEW s, s # {} PROVE Chosen(s) \in s
BY DEF Chosen

\* An entry of a table.
LEMMA TableAt ==
  ASSUME NEW g, NEW f, NEW S, Table(g, f, S), NEW s, s \subseteq S
  PROVE  g[s] = IF s = {} THEN 0 ELSE f[Chosen(s)] + g[s \ {Chosen(s)}]
BY DEF Table

\* Two tables agree on what is in both.
LEMMA TablesAgree ==
  ASSUME NEW f, NEW S, IsFiniteSet(S), NEW T, NEW g, NEW h, Table(g, f, S), Table(h, f, T),
         NEW u, u \subseteq S, u \subseteq T
  PROVE  g[u] = h[u]
<1> DEFINE Bad == {s \in SUBSET S : s \subseteq T /\ g[s] # h[s]}
<1> SUFFICES Bad = {}
  OBVIOUS
<1> SUFFICES ASSUME Bad # {} PROVE FALSE
  OBVIOUS
<1>1. PICK s \in Bad : \A t \in Bad : t \subseteq s => t = s
  <2>1. Bad \in SUBSET SUBSET S
    OBVIOUS
  <2> HIDE DEF Bad
  <2>2. QED BY <2>1, SmallestSubset
<1>2. s \in SUBSET S /\ s \in SUBSET T
  OBVIOUS
<1>3. /\ g[s] = IF s = {} THEN 0 ELSE f[Chosen(s)] + g[s \ {Chosen(s)}]
      /\ h[s] = IF s = {} THEN 0 ELSE f[Chosen(s)] + h[s \ {Chosen(s)}]
  BY <1>2 DEF Table
<1>4. s # {}
  BY <1>3
<1>5. s \ {Chosen(s)} \notin Bad
  BY <1>1, <1>4, ChosenIn
<1>6. g[s \ {Chosen(s)}] = h[s \ {Chosen(s)}]
  BY <1>2, <1>5
<1>7. QED BY <1>3, <1>6

\* There is a table.
LEMMA TableExists ==
  ASSUME NEW f, NEW S, IsFiniteSet(S)
  PROVE  \E g : Table(g, f, S)
<1> DEFINE Bad == {s \in SUBSET S : ~ \E g : Table(g, f, s)}
<1> SUFFICES ASSUME Bad # {} PROVE FALSE
  BY S \in SUBSET S
<1>1. PICK s \in Bad : \A t \in Bad : t \subseteq s => t = s
  <2>1. Bad \in SUBSET SUBSET S
    OBVIOUS
  <2> HIDE DEF Bad
  <2>2. QED BY <2>1, SmallestSubset
<1>2. \A t \in SUBSET s : t # s => \E g : Table(g, f, t)
  BY <1>1
<1>3. \A t \in SUBSET s : IsFiniteSet(t)
  BY FS_Subset
<1> DEFINE below(t) == CHOOSE g : Table(g, f, t)
           sum(t) == IF t = {} THEN 0 ELSE f[Chosen(t)] + below(t \ {Chosen(t)})[t \ {Chosen(t)}]
           table == [t \in SUBSET s |-> sum(t)]
<1>4. \A t \in SUBSET s : t # s => Table(below(t), f, t)
  BY <1>2
<1>5. ASSUME NEW t \in SUBSET s, t # s PROVE sum(t) = below(t)[t]
  <2>1. below(t)[t] = IF t = {} THEN 0 ELSE f[Chosen(t)] + below(t)[t \ {Chosen(t)}]
    <3>1. Table(below(t), f, t)
      BY <1>4, <1>5
    <3> HIDE DEF below
    <3>2. QED BY <3>1, TableAt
  <2>2. CASE t = {}
    BY <2>1, <2>2
  <2>3. CASE t # {}
    <3> DEFINE u == t \ {Chosen(t)}
    <3>1. u \in SUBSET s /\ u # s /\ u \subseteq t
      BY <1>5, <2>3, ChosenIn
    <3>2. Table(below(u), f, u) /\ Table(below(t), f, t)
      BY <1>4, <1>5, <3>1
    <3>3. IsFiniteSet(t)
      BY <1>3
    <3> HIDE DEF below, u
    <3>4. below(t)[u] = below(u)[u]
      BY <3>1, <3>2, <3>3, TablesAgree
    <3>5. QED BY <2>1, <2>3, <3>4 DEF u
  <2>4. QED BY <2>2, <2>3
<1>6. ASSUME NEW t \in SUBSET s
      PROVE  table[t] = IF t = {} THEN 0 ELSE f[Chosen(t)] + table[t \ {Chosen(t)}]
  <2>1. CASE t = {}
    BY <2>1
  <2>2. CASE t # {}
    <3>1. t \ {Chosen(t)} \in SUBSET s /\ t \ {Chosen(t)} # s
      BY <2>2, ChosenIn
    <3>2. table[t \ {Chosen(t)}] = below(t \ {Chosen(t)})[t \ {Chosen(t)}]
      BY <1>5, <3>1
    <3>3. QED BY <2>2, <3>2
  <2>3. QED BY <2>1, <2>2
<1>7. Table(table, f, s)
  <2> HIDE DEF sum, below
  <2>1. QED BY <1>6 DEF Table
<1>8. QED BY <1>1, <1>7

\* The sum over S, as the table of any larger finite set has it.
LEMMA SumFromTable ==
  ASSUME NEW f, NEW S, NEW T, IsFiniteSet(T), S \subseteq T, NEW g, Table(g, f, T)
  PROVE  SumOf(f, S) = g[S]
<1> DEFINE it == CHOOSE h : Table(h, f, S)
<1>1. SumOf(f, S) = it[S]
  BY DEF SumOf, MapThenSumSet, MapThenFoldSet, Table, Chosen
<1>2. IsFiniteSet(S)
  BY FS_Subset
<1>3. Table(it, f, S)
  BY <1>2, TableExists
<1> HIDE DEF it
<1>4. QED BY <1>1, <1>2, <1>3, TablesAgree

\* The sum, one member after the other in the order the members are chosen.
LEMMA SumUnfolds ==
  ASSUME NEW f, NEW S, IsFiniteSet(S)
  PROVE  SumOf(f, S) = IF S = {} THEN 0 ELSE f[Chosen(S)] + SumOf(f, S \ {Chosen(S)})
<1>1. PICK g : Table(g, f, S)
  BY TableExists
<1>2. g[S] = IF S = {} THEN 0 ELSE f[Chosen(S)] + g[S \ {Chosen(S)}]
  BY <1>1 DEF Table
<1>3. SumOf(f, S) = g[S] /\ SumOf(f, S \ {Chosen(S)}) = g[S \ {Chosen(S)}]
  BY <1>1, SumFromTable
<1>4. QED BY <1>2, <1>3

\* Nothing adds up to nothing.
LEMMA SumOfNothing == \A f : SumOf(f, {}) = 0
BY SumUnfolds, FS_EmptySet

\* A sum of natural numbers is one.
LEMMA SumIsNat ==
  ASSUME NEW S, IsFiniteSet(S), NEW f, \A x \in S : f[x] \in Nat
  PROVE  SumOf(f, S) \in Nat
<1> DEFINE Bad == {s \in SUBSET S : SumOf(f, s) \notin Nat}
<1> SUFFICES ASSUME Bad # {} PROVE FALSE
  BY S \in SUBSET S
<1>1. PICK s \in Bad : \A t \in Bad : t \subseteq s => t = s
  <2>1. Bad \in SUBSET SUBSET S
    OBVIOUS
  <2> HIDE DEF Bad
  <2>2. QED BY <2>1, SmallestSubset
<1>2. IsFiniteSet(s)
  BY FS_Subset
<1>3. SumOf(f, s) = IF s = {} THEN 0 ELSE f[Chosen(s)] + SumOf(f, s \ {Chosen(s)})
  BY <1>2, SumUnfolds
<1>4. CASE s = {}
  BY <1>3, <1>4
<1>5. CASE s # {}
  <2>1. Chosen(s) \in s
    BY <1>5, ChosenIn
  <2>2. SumOf(f, s \ {Chosen(s)}) \in Nat
    BY <1>1, <2>1
  <2>3. QED BY <1>3, <1>5, <2>1, <2>2
<1>6. QED BY <1>4, <1>5

\* Any member may be taken first.
LEMMA SumWithout ==
  ASSUME NEW S, IsFiniteSet(S), NEW f, \A x \in S : f[x] \in Nat, NEW x \in S
  PROVE  SumOf(f, S) = f[x] + SumOf(f, S \ {x})
<1> DEFINE Bad == {s \in SUBSET S : \E y \in s : SumOf(f, s) # f[y] + SumOf(f, s \ {y})}
<1> SUFFICES ASSUME Bad # {} PROVE FALSE
  BY S \in SUBSET S
<1>1. PICK s \in Bad : \A t \in Bad : t \subseteq s => t = s
  <2>1. Bad \in SUBSET SUBSET S
    OBVIOUS
  <2> HIDE DEF Bad
  <2>2. QED BY <2>1, SmallestSubset
<1>2. PICK y \in s : SumOf(f, s) # f[y] + SumOf(f, s \ {y})
  OBVIOUS
<1> DEFINE c == Chosen(s)
<1>3. IsFiniteSet(s) /\ \A t \in SUBSET s : IsFiniteSet(t) /\ SumOf(f, t) \in Nat
  <2>1. ASSUME NEW t \in SUBSET s PROVE IsFiniteSet(t) /\ SumOf(f, t) \in Nat
    <3>1. IsFiniteSet(t) /\ \A z \in t : f[z] \in Nat
      BY FS_Subset
    <3>2. QED BY <3>1, SumIsNat
  <2>2. QED BY <2>1, FS_Subset
<1>4. c \in s /\ s # {}
  BY ChosenIn
<1>5. SumOf(f, s) = f[c] + SumOf(f, s \ {c})
  BY <1>3, <1>4, SumUnfolds
<1> HIDE DEF c
<1>6. y # c
  BY <1>2, <1>5
<1>7. SumOf(f, s \ {c}) = f[y] + SumOf(f, (s \ {c}) \ {y})
  <2>1. s \ {c} \notin Bad
    BY <1>1, <1>4
  <2>2. QED BY <1>6, <2>1
<1>8. SumOf(f, s \ {y}) = f[c] + SumOf(f, (s \ {y}) \ {c})
  <2>1. s \ {y} \notin Bad
    BY <1>1, <1>2
  <2>2. QED BY <1>4, <1>6, <2>1
<1>9. (s \ {c}) \ {y} = (s \ {y}) \ {c}
  OBVIOUS
<1>10. f[c] \in Nat /\ f[y] \in Nat /\ SumOf(f, (s \ {y}) \ {c}) \in Nat
  BY <1>3, <1>4
<1>11. QED BY <1>2, <1>5, <1>7, <1>8, <1>9, <1>10

\* A sum is of the values only.
LEMMA SumOfSame ==
  ASSUME NEW S, IsFiniteSet(S), NEW f, NEW g, \A x \in S : f[x] = g[x]
  PROVE  SumOf(f, S) = SumOf(g, S)
<1> DEFINE Bad == {s \in SUBSET S : SumOf(f, s) # SumOf(g, s)}
<1> SUFFICES ASSUME Bad # {} PROVE FALSE
  BY S \in SUBSET S
<1>1. PICK s \in Bad : \A t \in Bad : t \subseteq s => t = s
  <2>1. Bad \in SUBSET SUBSET S
    OBVIOUS
  <2> HIDE DEF Bad
  <2>2. QED BY <2>1, SmallestSubset
<1>2. IsFiniteSet(s)
  BY FS_Subset
<1>3. /\ SumOf(f, s) = IF s = {} THEN 0 ELSE f[Chosen(s)] + SumOf(f, s \ {Chosen(s)})
      /\ SumOf(g, s) = IF s = {} THEN 0 ELSE g[Chosen(s)] + SumOf(g, s \ {Chosen(s)})
  BY <1>2, SumUnfolds
<1>4. s # {}
  BY <1>3
<1>5. Chosen(s) \in s
  BY <1>4, ChosenIn
<1>6. SumOf(f, s \ {Chosen(s)}) = SumOf(g, s \ {Chosen(s)})
  BY <1>1, <1>5
<1>7. QED BY <1>3, <1>5, <1>6

\* A part of the summands comes to no more.
LEMMA SumOfPart ==
  ASSUME NEW S, IsFiniteSet(S), NEW f, \A x \in S : f[x] \in Nat, NEW T, T \subseteq S
  PROVE  SumOf(f, T) \in Nat /\ SumOf(f, S) \in Nat /\ SumOf(f, T) <= SumOf(f, S)
<1> DEFINE Bad == {s \in SUBSET S : T \subseteq s /\ ~ (SumOf(f, T) <= SumOf(f, s))}
<1>1. \A s \in SUBSET S : IsFiniteSet(s) /\ SumOf(f, s) \in Nat
  <2>1. ASSUME NEW s \in SUBSET S PROVE IsFiniteSet(s) /\ SumOf(f, s) \in Nat
    <3>1. IsFiniteSet(s) /\ \A z \in s : f[z] \in Nat
      BY FS_Subset
    <3>2. QED BY <3>1, SumIsNat
  <2>2. QED BY <2>1
<1>2. Bad = {}
  <2> SUFFICES ASSUME Bad # {} PROVE FALSE
    OBVIOUS
  <2>1. PICK s \in Bad : \A t \in Bad : t \subseteq s => t = s
    <3>1. Bad \in SUBSET SUBSET S
      OBVIOUS
    <3> HIDE DEF Bad
    <3>2. QED BY <3>1, SmallestSubset
  <2>2. s # T
    BY <1>1
  <2>3. PICK x \in s : x \notin T
    BY <2>2
  <2>4. SumOf(f, T) <= SumOf(f, s \ {x})
    BY <2>1, <2>3
  <2>5. SumOf(f, s) = f[x] + SumOf(f, s \ {x})
    <3>1. IsFiniteSet(s) /\ \A z \in s : f[z] \in Nat
      BY <1>1
    <3>2. QED BY <3>1, SumWithout
  <2>6. f[x] \in Nat /\ SumOf(f, T) \in Nat /\ SumOf(f, s \ {x}) \in Nat
    BY <1>1, <2>3
  <2>7. QED BY <2>4, <2>5, <2>6
<1>3. QED BY <1>1, <1>2, S \in SUBSET S, T \in SUBSET S

\* Summands that are nothing may be left out.
LEMMA SumLeavesOut ==
  ASSUME NEW S, IsFiniteSet(S), NEW f, \A x \in S : f[x] \in Nat,
         NEW T, T \subseteq S, \A x \in S \ T : f[x] = 0
  PROVE  SumOf(f, S) = SumOf(f, T)
<1> DEFINE Bad == {s \in SUBSET S : T \subseteq s /\ SumOf(f, T) # SumOf(f, s)}
<1> SUFFICES ASSUME Bad # {} PROVE FALSE
  BY S \in SUBSET S
<1>1. PICK s \in Bad : \A t \in Bad : t \subseteq s => t = s
  <2>1. Bad \in SUBSET SUBSET S
    OBVIOUS
  <2> HIDE DEF Bad
  <2>2. QED BY <2>1, SmallestSubset
<1>2. PICK x \in s : x \notin T
  OBVIOUS
<1>3. SumOf(f, T) = SumOf(f, s \ {x})
  BY <1>1, <1>2
<1>4. SumOf(f, s) = f[x] + SumOf(f, s \ {x})
  <2>1. IsFiniteSet(s) /\ \A z \in s : f[z] \in Nat
    BY FS_Subset
  <2>2. QED BY <2>1, SumWithout
<1>5. SumOf(f, s \ {x}) \in Nat
  <2>1. IsFiniteSet(s \ {x}) /\ \A z \in s \ {x} : f[z] \in Nat
    BY FS_Subset, s \ {x} \subseteq S
  <2>2. QED BY <2>1, SumIsNat
<1>6. QED BY <1>2, <1>3, <1>4, <1>5

\* Where each summand has one of its own that is as large, the sum is no larger.
LEMMA SumInjects ==
  ASSUME NEW S, IsFiniteSet(S), NEW T, IsFiniteSet(T),
         NEW f, \A x \in S : f[x] \in Nat, NEW g, \A y \in T : g[y] \in Nat,
         NEW h \in [S -> T], \A x, y \in S : h[x] = h[y] => x = y,
         \A x \in S : f[x] <= g[h[x]]
  PROVE  SumOf(f, S) <= SumOf(g, T)
<1> DEFINE To(s) == {h[x] : x \in s}
           Bad == {s \in SUBSET S : ~ (SumOf(f, s) <= SumOf(g, To(s)))}
<1>1. \A s \in SUBSET S : /\ IsFiniteSet(s) /\ SumOf(f, s) \in Nat
                         /\ To(s) \subseteq T /\ IsFiniteSet(To(s)) /\ SumOf(g, To(s)) \in Nat
  <2>1. ASSUME NEW s \in SUBSET S
        PROVE  /\ IsFiniteSet(s) /\ SumOf(f, s) \in Nat
               /\ To(s) \subseteq T /\ IsFiniteSet(To(s)) /\ SumOf(g, To(s)) \in Nat
    <3>1. IsFiniteSet(s) /\ (\A z \in s : f[z] \in Nat) /\ To(s) \subseteq T
      BY FS_Subset
    <3> HIDE DEF To
    <3>2. IsFiniteSet(To(s)) /\ \A z \in To(s) : g[z] \in Nat
      BY <3>1, FS_Subset
    <3>3. QED BY <3>1, <3>2, SumIsNat
  <2>2. QED BY <2>1
<1>2. Bad = {}
  <2> SUFFICES ASSUME Bad # {} PROVE FALSE
    OBVIOUS
  <2>1. PICK s \in Bad : \A t \in Bad : t \subseteq s => t = s
    <3>1. Bad \in SUBSET SUBSET S
      OBVIOUS
    <3> HIDE DEF Bad
    <3>2. QED BY <3>1, SmallestSubset
  <2>2. s # {}
    <3>1. SUFFICES ASSUME s = {} PROVE FALSE
      OBVIOUS
    <3>2. SumOf(f, s) = 0 /\ SumOf(g, To(s)) \in Nat
      BY <1>1, <3>1, SumOfNothing
    <3>3. ~ (SumOf(f, s) <= SumOf(g, To(s)))
      BY <2>1
    <3> HIDE DEF To, Bad
    <3>4. QED BY <3>2, <3>3
  <2>3. PICK x \in s : TRUE
    BY <2>2
  <2>4. SumOf(f, s) = f[x] + SumOf(f, s \ {x})
    <3>1. IsFiniteSet(s) /\ \A z \in s : f[z] \in Nat
      BY <1>1
    <3>2. QED BY <3>1, SumWithout
  <2>5. To(s) \ {h[x]} = To(s \ {x}) /\ h[x] \in To(s)
    BY <2>3
  <2>6. SumOf(g, To(s)) = g[h[x]] + SumOf(g, To(s \ {x}))
    <3>1. IsFiniteSet(To(s)) /\ \A z \in To(s) : g[z] \in Nat
      BY <1>1
    <3> HIDE DEF To, Bad
    <3>2. SumOf(g, To(s)) = g[h[x]] + SumOf(g, To(s) \ {h[x]})
      BY <2>5, <3>1, SumWithout
    <3>3. QED BY <2>5, <3>2
  <2>7. SumOf(f, s \ {x}) <= SumOf(g, To(s \ {x}))
    BY <2>1, <2>3
  <2>8. s \ {x} \in SUBSET S /\ ~ (SumOf(f, s) <= SumOf(g, To(s)))
    BY <2>1
  <2>9. /\ f[x] \in Nat /\ g[h[x]] \in Nat /\ f[x] <= g[h[x]]
        /\ SumOf(f, s \ {x}) \in Nat /\ SumOf(g, To(s \ {x})) \in Nat
    BY <1>1, <2>3, <2>8
  <2> HIDE DEF To, Bad
  <2>10. QED BY <2>4, <2>6, <2>7, <2>8, <2>9
<1>3. SumOf(f, S) <= SumOf(g, To(S))
  BY <1>2, S \in SUBSET S
<1>4. To(S) \subseteq T /\ SumOf(f, S) \in Nat
  BY <1>1, S \in SUBSET S
<1> HIDE DEF To
<1>5. SumOf(g, To(S)) \in Nat /\ SumOf(g, T) \in Nat /\ SumOf(g, To(S)) <= SumOf(g, T)
  BY <1>4, SumOfPart
<1>6. QED BY <1>3, <1>4, <1>5

\* The summands of two disjoint sets.
LEMMA SumOfUnion ==
  ASSUME NEW S, IsFiniteSet(S), NEW T, IsFiniteSet(T), S \cap T = {},
         NEW f, \A x \in S \cup T : f[x] \in Nat
  PROVE  SumOf(f, S \cup T) = SumOf(f, S) + SumOf(f, T)
<1> DEFINE Bad == {s \in SUBSET S : SumOf(f, s \cup T) # SumOf(f, s) + SumOf(f, T)}
<1> SUFFICES ASSUME Bad # {} PROVE FALSE
  BY S \in SUBSET S
<1>1. PICK s \in Bad : \A t \in Bad : t \subseteq s => t = s
  <2>1. Bad \in SUBSET SUBSET S
    OBVIOUS
  <2> HIDE DEF Bad
  <2>2. QED BY <2>1, SmallestSubset
<1>2. s \subseteq S /\ SumOf(f, s \cup T) # SumOf(f, s) + SumOf(f, T)
  OBVIOUS
<1>3. IsFiniteSet(s) /\ IsFiniteSet(s \cup T)
  BY <1>2, FS_Subset, FS_Union
<1>4. SumOf(f, T) \in Nat
  BY SumIsNat
<1>5. s # {}
  <2>1. SUFFICES ASSUME s = {} PROVE FALSE
    OBVIOUS
  <2>2. s \cup T = T /\ SumOf(f, s) = 0
    BY <2>1, SumOfNothing
  <2>3. SumOf(f, s \cup T) = SumOf(f, T)
    BY <2>2
  <2> HIDE DEF Bad
  <2>4. QED BY <1>2, <1>4, <2>2, <2>3
<1>6. PICK x \in s : TRUE
  BY <1>5
<1>7. SumOf(f, s) = f[x] + SumOf(f, s \ {x})
  BY <1>2, <1>3, SumWithout
<1>8. SumOf(f, s \cup T) = f[x] + SumOf(f, (s \ {x}) \cup T)
  <2>1. x \in s \cup T /\ \A y \in s \cup T : f[y] \in Nat
    BY <1>2
  <2>2. SumOf(f, s \cup T) = f[x] + SumOf(f, (s \cup T) \ {x})
    BY <1>3, <2>1, SumWithout
  <2>3. (s \cup T) \ {x} = (s \ {x}) \cup T
    BY <1>2
  <2>4. QED BY <2>2, <2>3
<1>9. SumOf(f, (s \ {x}) \cup T) = SumOf(f, s \ {x}) + SumOf(f, T)
  BY <1>1, <1>2
<1>10. f[x] \in Nat /\ SumOf(f, s \ {x}) \in Nat
  <2>1. IsFiniteSet(s \ {x}) /\ \A y \in s \ {x} : f[y] \in Nat
    BY <1>2, <1>3, FS_Subset
  <2>2. QED BY <1>2, <2>1, SumIsNat
<1> HIDE DEF Bad
<1>11. QED BY <1>2, <1>4, <1>7, <1>8, <1>9, <1>10

\* Sums are added summand by summand.
LEMMA SumPlus ==
  ASSUME NEW S, IsFiniteSet(S), NEW f, NEW g, NEW h,
         \A x \in S : f[x] \in Nat /\ g[x] \in Nat /\ h[x] = f[x] + g[x]
  PROVE  SumOf(h, S) = SumOf(f, S) + SumOf(g, S)
<1> DEFINE Bad == {s \in SUBSET S : SumOf(h, s) # SumOf(f, s) + SumOf(g, s)}
<1> SUFFICES ASSUME Bad # {} PROVE FALSE
  BY S \in SUBSET S
<1>1. PICK s \in Bad : \A t \in Bad : t \subseteq s => t = s
  <2>1. Bad \in SUBSET SUBSET S
    OBVIOUS
  <2> HIDE DEF Bad
  <2>2. QED BY <2>1, SmallestSubset
<1>2. s \subseteq S /\ IsFiniteSet(s) /\ SumOf(h, s) # SumOf(f, s) + SumOf(g, s)
  BY FS_Subset
<1>3. s # {}
  BY <1>2, SumOfNothing
<1>4. PICK x \in s : TRUE
  BY <1>3
<1>5. \A y \in s : f[y] \in Nat /\ g[y] \in Nat /\ h[y] \in Nat /\ h[y] = f[y] + g[y]
  BY <1>2
<1>6. /\ SumOf(f, s) = f[x] + SumOf(f, s \ {x})
      /\ SumOf(g, s) = g[x] + SumOf(g, s \ {x})
      /\ SumOf(h, s) = h[x] + SumOf(h, s \ {x})
  <2> HIDE DEF Bad
  <2>1. QED BY <1>2, <1>5, SumWithout
<1>7. SumOf(h, s \ {x}) = SumOf(f, s \ {x}) + SumOf(g, s \ {x})
  BY <1>1, <1>2
<1>8. SumOf(f, s \ {x}) \in Nat /\ SumOf(g, s \ {x}) \in Nat
  <2>1. IsFiniteSet(s \ {x})
    BY <1>2, FS_Subset
  <2> HIDE DEF Bad
  <2>2. QED BY <1>5, <2>1, SumIsNat
<1> HIDE DEF Bad
<1>9. QED BY <1>2, <1>5, <1>6, <1>7, <1>8

\* A common factor.
LEMMA SumTimes ==
  ASSUME NEW S, IsFiniteSet(S), NEW k \in Nat, NEW f, NEW h,
         \A x \in S : f[x] \in Nat /\ h[x] = k * f[x]
  PROVE  SumOf(h, S) = k * SumOf(f, S)
<1> DEFINE Bad == {s \in SUBSET S : SumOf(h, s) # k * SumOf(f, s)}
<1> SUFFICES ASSUME Bad # {} PROVE FALSE
  BY S \in SUBSET S
<1>1. PICK s \in Bad : \A t \in Bad : t \subseteq s => t = s
  <2>1. Bad \in SUBSET SUBSET S
    OBVIOUS
  <2> HIDE DEF Bad
  <2>2. QED BY <2>1, SmallestSubset
<1>2. s \subseteq S /\ IsFiniteSet(s) /\ SumOf(h, s) # k * SumOf(f, s)
  BY FS_Subset
<1>3. s # {}
  <2>1. SUFFICES ASSUME s = {} PROVE FALSE
    OBVIOUS
  <2>2. SumOf(f, s) = 0 /\ SumOf(h, s) = 0 /\ k * 0 = 0
    BY <2>1, SumOfNothing
  <2> HIDE DEF Bad
  <2>3. k * SumOf(f, s) = 0
    BY <2>2
  <2>4. QED BY <1>2, <2>2, <2>3
<1>4. PICK x \in s : TRUE
  BY <1>3
<1>5. \A y \in s : f[y] \in Nat /\ h[y] \in Nat /\ h[y] = k * f[y]
  BY <1>2
<1>6. /\ SumOf(f, s) = f[x] + SumOf(f, s \ {x})
      /\ SumOf(h, s) = h[x] + SumOf(h, s \ {x})
  <2> HIDE DEF Bad
  <2>1. QED BY <1>2, <1>5, SumWithout
<1>7. SumOf(h, s \ {x}) = k * SumOf(f, s \ {x})
  BY <1>1, <1>2
<1>8. SumOf(f, s \ {x}) \in Nat
  <2>1. IsFiniteSet(s \ {x})
    BY <1>2, FS_Subset
  <2> HIDE DEF Bad
  <2>2. QED BY <1>5, <2>1, SumIsNat
<1> HIDE DEF Bad
<1>9. \A a, b \in Nat : k * (a + b) = k * a + k * b
  OBVIOUS
<1>10. k * SumOf(f, s) = k * f[x] + k * SumOf(f, s \ {x})
  <2>1. f[x] \in Nat
    BY <1>5
  <2>2. k * (f[x] + SumOf(f, s \ {x})) = k * f[x] + k * SumOf(f, s \ {x})
    BY <1>8, <1>9, <2>1
  <2>3. QED BY <1>6, <2>2
<1>11. QED BY <1>2, <1>5, <1>6, <1>7, <1>10

\* Smaller summands, a smaller sum.
LEMMA SumOfLess ==
  ASSUME NEW S, IsFiniteSet(S), NEW f, NEW g,
         \A x \in S : f[x] \in Nat /\ g[x] \in Nat /\ f[x] <= g[x]
  PROVE  SumOf(f, S) <= SumOf(g, S)
<1> DEFINE same == [x \in S |-> x]
<1>1. /\ same \in [S -> S] /\ \A x, y \in S : same[x] = same[y] => x = y
      /\ \A x \in S : f[x] <= g[same[x]]
  OBVIOUS
<1> HIDE DEF same
<1>2. QED BY <1>1, SumInjects

\* The sums over the groups of S: those with the same group.
GroupSums(F, A, f, S, group) == \A a \in A : F[a] = SumOf(f, {x \in S : group[x] = a})

\* The sum of the groups' sums is part of the sum over all.
LEMMA SumOfGroups ==
  ASSUME NEW S, IsFiniteSet(S), NEW f, \A x \in S : f[x] \in Nat,
         NEW A, IsFiniteSet(A), NEW group, NEW F, GroupSums(F, A, f, S, group)
  PROVE  SumOf(F, A) <= SumOf(f, S)
<1> USE DEF GroupSums
<1> DEFINE In(B) == {x \in S : group[x] \in B}
           Bad == {B \in SUBSET A : SumOf(F, B) # SumOf(f, In(B))}
<1>1. \A B : /\ In(B) \subseteq S /\ IsFiniteSet(In(B)) /\ SumOf(f, In(B)) \in Nat
             /\ \A x \in In(B) : f[x] \in Nat
  <2>1. ASSUME NEW B
        PROVE  /\ In(B) \subseteq S /\ IsFiniteSet(In(B)) /\ SumOf(f, In(B)) \in Nat
               /\ \A x \in In(B) : f[x] \in Nat
    <3>1. In(B) \subseteq S
      OBVIOUS
    <3> HIDE DEF In
    <3>2. QED BY <3>1, SumOfPart, FS_Subset
  <2>2. QED BY <2>1
<1>2. \A a \in A : F[a] = SumOf(f, In({a})) /\ F[a] \in Nat
  <2>1. ASSUME NEW a \in A PROVE F[a] = SumOf(f, In({a}))
    <3>1. {x \in S : group[x] = a} = In({a})
      OBVIOUS
    <3>2. QED BY <3>1
  <2> HIDE DEF In
  <2>2. QED BY <1>1, <2>1
<1>3. Bad = {}
  <2> SUFFICES ASSUME Bad # {} PROVE FALSE
    OBVIOUS
  <2>1. PICK B \in Bad : \A C \in Bad : C \subseteq B => C = B
    <3>1. Bad \in SUBSET SUBSET A
      OBVIOUS
    <3> HIDE DEF Bad
    <3>2. QED BY <3>1, SmallestSubset
  <2>2. B \subseteq A /\ IsFiniteSet(B) /\ SumOf(F, B) # SumOf(f, In(B))
    BY FS_Subset
  <2>3. B # {}
    <3>1. In({}) = {}
      OBVIOUS
    <3> HIDE DEF In
    <3>2. QED BY <2>2, <3>1, SumOfNothing
  <2>4. PICK a \in B : TRUE
    BY <2>3
  <2>5. SumOf(F, B) = F[a] + SumOf(F, B \ {a})
    <3>1. \A b \in B : F[b] \in Nat
      BY <1>2, <2>2
    <3> HIDE DEF Bad, In
    <3>2. QED BY <2>2, <3>1, SumWithout
  <2>6. /\ In(B) = In({a}) \cup In(B \ {a})
        /\ In({a}) \cap In(B \ {a}) = {}
    BY <2>4
  <2>7. SumOf(F, B \ {a}) = SumOf(f, In(B \ {a}))
    <3>1. B \ {a} \in SUBSET A /\ B \ {a} \notin Bad
      BY <2>1, <2>2, <2>4
    <3> HIDE DEF In
    <3>2. QED BY <3>1
  <2>8. a \in A
    BY <2>2
  <2> HIDE DEF Bad, In
  <2>9. \A x \in In({a}) \cup In(B \ {a}) : f[x] \in Nat
    BY <1>1
  <2>10. SumOf(f, In({a}) \cup In(B \ {a})) = SumOf(f, In({a})) + SumOf(f, In(B \ {a}))
    BY <1>1, <2>6, <2>9, SumOfUnion
  <2>11. QED BY <1>2, <2>2, <2>5, <2>6, <2>7, <2>8, <2>10
<1>4. SumOf(F, A) = SumOf(f, In(A))
  <2>1. A \in SUBSET A
    OBVIOUS
  <2> HIDE DEF In
  <2>2. QED BY <1>3, <2>1
<1> HIDE DEF In
<1>5. SumOf(f, In(A)) <= SumOf(f, S)
  BY <1>1, SumOfPart
<1>6. QED BY <1>4, <1>5

\* A table of numbers: entry[x][y] for x in S and y in T.
NatTable(entry, S, T) == \A x \in S, y \in T : entry[x][y] \in Nat

\* The sums of its rows and those of its columns.
ByRows(rows, entry, S, T) == \A x \in S : rows[x] = SumOf(entry[x], T)
ByColumns(columns, entry, S, T) ==
  \A y \in T : columns[y] = SumOf([x \in S |-> entry[x][y]], S)

\* A table may be summed by its rows or by its columns.
LEMMA SumByRowsAndColumns ==
  ASSUME NEW S, IsFiniteSet(S), NEW T, IsFiniteSet(T), NEW entry, NatTable(entry, S, T),
         NEW rows, ByRows(rows, entry, S, T), NEW columns, ByColumns(columns, entry, S, T)
  PROVE  SumOf(rows, S) = SumOf(columns, T)
<1> USE DEF NatTable, ByRows, ByColumns
<1> DEFINE column(y) == [x \in S |-> entry[x][y]]
           upto(s) == [y \in T |-> SumOf(column(y), s)]
           Bad == {s \in SUBSET S : SumOf(rows, s) # SumOf(upto(s), T)}
<1>1. \A x \in S : rows[x] \in Nat
  BY SumIsNat
<1>2. \A y \in T, s \in SUBSET S :
        /\ IsFiniteSet(s) /\ SumOf(column(y), s) \in Nat
        /\ \A x \in s : column(y)[x] = entry[x][y] /\ column(y)[x] \in Nat
  <2>1. ASSUME NEW y \in T, NEW s \in SUBSET S
        PROVE  /\ IsFiniteSet(s) /\ SumOf(column(y), s) \in Nat
               /\ \A x \in s : column(y)[x] = entry[x][y] /\ column(y)[x] \in Nat
    <3>1. IsFiniteSet(s) /\ \A x \in s : column(y)[x] = entry[x][y] /\ column(y)[x] \in Nat
      BY FS_Subset
    <3> HIDE DEF column
    <3>2. QED BY <3>1, SumIsNat
  <2>2. QED BY <2>1
<1>3. Bad = {}
  <2> SUFFICES ASSUME Bad # {} PROVE FALSE
    OBVIOUS
  <2>1. PICK s \in Bad : \A t \in Bad : t \subseteq s => t = s
    <3>1. Bad \in SUBSET SUBSET S
      OBVIOUS
    <3> HIDE DEF Bad
    <3>2. QED BY <3>1, SmallestSubset
  <2>2. s \in SUBSET S /\ IsFiniteSet(s) /\ SumOf(rows, s) # SumOf(upto(s), T)
    BY FS_Subset
  <2>3. s # {}
    <3>1. SUFFICES ASSUME s = {} PROVE FALSE
      OBVIOUS
    <3>2. \A y \in T : upto({})[y] = 0
      BY SumOfNothing
    <3>3. SumOf(upto({}), T) = 0
      <4>1. \A y \in T : upto({})[y] \in Nat
        BY <3>2
      <4>2. {} \subseteq T /\ \A y \in T \ {} : upto({})[y] = 0
        BY <3>2
      <4> HIDE DEF upto
      <4>3. SumOf(upto({}), T) = SumOf(upto({}), {})
        BY <4>1, <4>2, SumLeavesOut
      <4>4. QED BY <4>3, SumOfNothing
    <3> HIDE DEF upto
    <3>4. QED BY <2>2, <3>1, <3>3, SumOfNothing
  <2>4. PICK c \in s : TRUE
    BY <2>3
  <2> DEFINE less == s \ {c}
  <2>5. less \in SUBSET S /\ less \notin Bad /\ c \in S
    BY <2>1, <2>2, <2>4
  <2>6. SumOf(rows, less) = SumOf(upto(less), T)
    BY <2>5
  <2>7. SumOf(rows, s) = rows[c] + SumOf(rows, less)
    <3>1. \A x \in s : rows[x] \in Nat
      BY <1>1, <2>2
    <3>2. QED BY <2>2, <3>1, SumWithout
  <2>8. ASSUME NEW y \in T
        PROVE  /\ entry[c][y] \in Nat /\ upto(less)[y] \in Nat
               /\ upto(s)[y] = entry[c][y] + upto(less)[y]
    <3>1. SumOf(column(y), s) = column(y)[c] + SumOf(column(y), less)
      <4>1. \A x \in s : column(y)[x] \in Nat
        BY <1>2, <2>2
      <4> HIDE DEF column
      <4>2. QED BY <2>2, <4>1, SumWithout
    <3>2. column(y)[c] = entry[c][y] /\ SumOf(column(y), less) \in Nat
      BY <1>2, <2>5
    <3>3. entry[c][y] \in Nat
      BY <2>5
    <3> HIDE DEF column, less, Bad
    <3>4. QED BY <3>1, <3>2, <3>3
  <2> HIDE DEF upto, less, Bad, column
  <2>9. SumOf(upto(s), T) = SumOf(entry[c], T) + SumOf(upto(less), T)
    BY <2>8, SumPlus
  <2>10. rows[c] = SumOf(entry[c], T)
    BY <2>5
  <2>11. QED BY <2>2, <2>6, <2>7, <2>9, <2>10
<1>4. SumOf(rows, S) = SumOf(upto(S), T)
  BY <1>3, S \in SUBSET S
<1>5. SumOf(upto(S), T) = SumOf(columns, T)
  <2>1. \A y \in T : upto(S)[y] = columns[y]
    OBVIOUS
  <2> HIDE DEF upto
  <2>2. QED BY <2>1, SumOfSame
<1>6. QED BY <1>4, <1>5

\* A table whose columns are bounded one by one is bounded by the sum of the bounds.
LEMMA SumByBoundedColumns ==
  ASSUME NEW S, IsFiniteSet(S), NEW T, IsFiniteSet(T), NEW entry, NatTable(entry, S, T),
         NEW rows, ByRows(rows, entry, S, T),
         NEW bound, \A y \in T : /\ bound[y] \in Nat
                                 /\ SumOf([x \in S |-> entry[x][y]], S) <= bound[y]
  PROVE  (\A x \in S : rows[x] \in Nat) /\ SumOf(rows, S) <= SumOf(bound, T)
<1> DEFINE columns == [y \in T |-> SumOf([x \in S |-> entry[x][y]], S)]
<1>1. \A x \in S : rows[x] \in Nat
  BY SumIsNat DEF NatTable, ByRows
<1>2. ASSUME NEW y \in T
      PROVE  columns[y] \in Nat /\ bound[y] \in Nat /\ columns[y] <= bound[y]
  <2> DEFINE column == [x \in S |-> entry[x][y]]
  <2>1. \A x \in S : column[x] \in Nat
    BY DEF NatTable
  <2>2. columns[y] = SumOf(column, S) /\ SumOf(column, S) <= bound[y] /\ bound[y] \in Nat
    OBVIOUS
  <2> HIDE DEF column, columns
  <2>3. QED BY <2>1, <2>2, SumIsNat
<1>3. ByColumns(columns, entry, S, T)
  BY DEF ByColumns
<1> HIDE DEF columns
<1>4. SumOf(rows, S) = SumOf(columns, T)
  BY <1>3, SumByRowsAndColumns
<1>5. SumOf(columns, T) <= SumOf(bound, T)
  BY <1>2, SumOfLess
<1>6. QED BY <1>1, <1>4, <1>5

-----------------------------------------------------------------------------
(* Sorting by counts *)

\* R orders the members of S, one after the other.
LinearOrder(R, S) ==
  /\ \A x \in S : <<x, x>> \notin R
  /\ \A x, y, z \in S : <<x, y>> \in R /\ <<y, z>> \in R => <<x, z>> \in R
  /\ \A x, y \in S : x # y => <<x, y>> \in R \/ <<y, x>> \in R

\* Those of S that come before x.
AheadOf(R, S, x) == {y \in S : <<y, x>> \in R}

\* q has every member of S once, in the order of R.
Enumerates(q, S, R) ==
  /\ Cardinality(S) \in Nat
  /\ q \in [1 .. Cardinality(S) -> S]
  /\ \A x \in S : \E i \in 1 .. Cardinality(S) : q[i] = x
  /\ \A i \in 1 .. Cardinality(S) : Cardinality(AheadOf(R, S, q[i])) = i - 1
  /\ \A i, j \in 1 .. Cardinality(S) : i < j <=> <<q[i], q[j]>> \in R

\* What comes before a member is fewer than all, and more comes before a later one.
LEMMA AheadGrows ==
  ASSUME NEW S, IsFiniteSet(S), NEW R, LinearOrder(R, S), NEW x \in S
  PROVE  /\ Cardinality(AheadOf(R, S, x)) \in 0 .. Cardinality(S) - 1
         /\ \A y \in S : <<x, y>> \in R =>
              Cardinality(AheadOf(R, S, x)) < Cardinality(AheadOf(R, S, y))
<1>1. \A y \in S : IsFiniteSet(AheadOf(R, S, y)) /\ Cardinality(AheadOf(R, S, y)) \in Nat
  <2>1. ASSUME NEW y \in S PROVE IsFiniteSet(AheadOf(R, S, y))
    <3>1. AheadOf(R, S, y) \in SUBSET S
      BY DEF AheadOf
    <3>2. QED BY <3>1, FS_Subset
  <2>2. QED BY <2>1, FS_CardinalityType
<1>2. Cardinality(S) \in Nat
  BY FS_CardinalityType
<1>3. Cardinality(AheadOf(R, S, x)) < Cardinality(S)
  <2>1. AheadOf(R, S, x) \in SUBSET S /\ x \notin AheadOf(R, S, x)
    BY DEF AheadOf, LinearOrder
  <2>2. /\ Cardinality(AheadOf(R, S, x)) <= Cardinality(S)
        /\ Cardinality(S) = Cardinality(AheadOf(R, S, x)) => S = AheadOf(R, S, x)
    BY <2>1, FS_Subset
  <2>3. QED BY <2>1, <2>2, <1>1, <1>2
<1>4. ASSUME NEW y \in S, <<x, y>> \in R
      PROVE  Cardinality(AheadOf(R, S, x)) < Cardinality(AheadOf(R, S, y))
  <2>1. /\ AheadOf(R, S, x) \in SUBSET AheadOf(R, S, y)
        /\ x \in AheadOf(R, S, y) /\ x \notin AheadOf(R, S, x)
    BY <1>4 DEF AheadOf, LinearOrder
  <2>2. /\ Cardinality(AheadOf(R, S, x)) <= Cardinality(AheadOf(R, S, y))
        /\ Cardinality(AheadOf(R, S, y)) = Cardinality(AheadOf(R, S, x))
             => AheadOf(R, S, y) = AheadOf(R, S, x)
    BY <2>1, <1>1, FS_Subset
  <2>3. QED BY <2>1, <2>2, <1>1
<1>5. QED BY <1>1, <1>2, <1>3, <1>4

\* A finite set is enumerated by the number of members before each.
LEMMA SortedEnumerates ==
  ASSUME NEW S, IsFiniteSet(S), NEW R, LinearOrder(R, S), NEW ahead, NEW q,
         \A x \in S : ahead[x] = Cardinality(AheadOf(R, S, x)),
         q = [i \in 1 .. Cardinality(S) |-> CHOOSE x \in S : ahead[x] = i - 1]
  PROVE  Enumerates(q, S, R)
<1> DEFINE n == Cardinality(S)
           place == [x \in S |-> Cardinality(AheadOf(R, S, x)) + 1]
<1>1. n \in Nat
  BY FS_CardinalityType
<1>2. \A x \in S : Cardinality(AheadOf(R, S, x)) \in 0 .. n - 1
  BY AheadGrows
<1>3. \A x, y \in S : <<x, y>> \in R =>
        Cardinality(AheadOf(R, S, x)) < Cardinality(AheadOf(R, S, y))
  BY AheadGrows
<1>4. place \in [S -> 1 .. n] /\ \A x, y \in S : <<x, y>> \in R <=> place[x] < place[y]
  <2>1. place \in [S -> 1 .. n]
    BY <1>1, <1>2
  <2>2. ASSUME NEW x \in S, NEW y \in S PROVE <<x, y>> \in R <=> place[x] < place[y]
    <3>1. <<x, y>> \in R => place[x] < place[y]
      BY <2>1, <1>2, <1>3
    <3>2. <<y, x>> \in R => place[y] < place[x]
      BY <2>1, <1>2, <1>3
    <3>3. x # y => <<x, y>> \in R \/ <<y, x>> \in R
      BY DEF LinearOrder
    <3>4. place[x] \in Nat /\ place[y] \in Nat
      BY <2>1
    <3> HIDE DEF place
    <3>5. QED BY <3>1, <3>2, <3>3, <3>4
  <2>3. QED BY <2>1, <2>2
<1> HIDE DEF place
<1>5. \A x, y \in S : x # y => place[x] # place[y]
  <2>1. \A x, y \in S : x # y => <<x, y>> \in R \/ <<y, x>> \in R
    BY DEF LinearOrder
  <2>2. \A x \in S : place[x] \in Nat
    BY <1>4
  <2>3. ASSUME NEW x \in S, NEW y \in S, x # y PROVE place[x] # place[y]
    <3>1. <<x, y>> \in R => place[x] < place[y]
      BY <1>4
    <3>2. <<y, x>> \in R => place[y] < place[x]
      BY <1>4
    <3>3. QED BY <2>1, <2>2, <2>3, <3>1, <3>2
  <2>4. QED BY <2>3
<1>6. \A x \in S : ahead[x] = place[x] - 1 /\ Cardinality(AheadOf(R, S, x)) = place[x] - 1
  BY <1>1, <1>2 DEF place
<1>7. \A i \in 1 .. n : \E x \in S : place[x] = i
  <2>1. IsFiniteSet(1 .. n) /\ Cardinality(1 .. n) = n
    BY <1>1, FS_Interval
  <2>2. place \in Injection(S, 1 .. n)
    BY <1>4, <1>5 DEF Injection, IsInjective
  <2>3. place \in Surjection(S, 1 .. n)
    BY <2>1, <2>2, FS_Injection
  <2>4. QED BY <2>3 DEF Surjection
<1>8. \A i \in 1 .. n : q[i] \in S /\ place[q[i]] = i
  <2>1. ASSUME NEW i \in 1 .. n PROVE q[i] \in S /\ place[q[i]] = i
    <3>1. PICK x \in S : place[x] = i
      BY <1>7
    <3>0. ahead[x] = i - 1
      BY <3>1, <1>6
    <3>2. q[i] \in S /\ ahead[q[i]] = i - 1
      <4>1. q[i] = CHOOSE y \in S : ahead[y] = i - 1
        OBVIOUS
      <4>2. QED BY <4>1, <3>0
    <3>3. QED BY <3>2, <1>1, <1>4, <1>6
  <2>2. QED BY <2>1
<1>9. \A x \in S : \E i \in 1 .. n : q[i] = x
  <2>1. ASSUME NEW x \in S PROVE place[x] \in 1 .. n /\ q[place[x]] = x
    BY <1>4, <1>5, <1>8
  <2>2. QED BY <2>1
<1>10. q \in [1 .. n -> S]
  BY <1>8
<1>11. \A i, j \in 1 .. n : i < j <=> <<q[i], q[j]>> \in R
  <2>1. \A x, y \in S : <<x, y>> \in R <=> place[x] < place[y]
    BY <1>4
  <2>2. QED BY <2>1, <1>8
<1>12. \A i \in 1 .. n : Cardinality(AheadOf(R, S, q[i])) = i - 1
  BY <1>6, <1>8
<1>13. QED BY <1>1, <1>9, <1>10, <1>11, <1>12 DEF Enumerates

\* How many members of S are below each, and what Sorted makes of a set of numbers.
NumberBelow(S) == [x \in S |-> Cardinality({y \in S : y < x})]
Ascending(S) == [i \in 1 .. Cardinality(S) |-> CHOOSE x \in S : NumberBelow(S)[x] = i - 1]

\* It lists all of them; and of all numbers up to n, each is at its own place.
LEMMA AscendingEnumerates ==
  ASSUME NEW S \in SUBSET Nat, IsFiniteSet(S)
  PROVE  /\ Cardinality(S) \in Nat /\ Ascending(S) \in [1 .. Cardinality(S) -> S]
         /\ \A x \in S : \E i \in 1 .. Cardinality(S) : Ascending(S)[i] = x
         /\ \A i \in 1 .. Cardinality(S) : Cardinality({y \in S : y < Ascending(S)[i]}) = i - 1
<1> DEFINE R == {p \in S \X S : p[1] < p[2]}
<1>1. LinearOrder(R, S)
  BY DEF LinearOrder
<1>2. \A x \in S : {y \in S : y < x} = AheadOf(R, S, x)
  BY DEF AheadOf
<1>3. \A x \in S : NumberBelow(S)[x] = Cardinality(AheadOf(R, S, x))
  BY <1>2 DEF NumberBelow
<1> HIDE DEF R
<1>4. Enumerates(Ascending(S), S, R)
  BY <1>1, <1>3, SortedEnumerates DEF Ascending
<1>5. QED BY <1>2, <1>4 DEF Enumerates

LEMMA AscendingAll ==
  ASSUME NEW n \in Nat
  PROVE  Ascending(1 .. n) = [i \in 1 .. n |-> i]
<1> DEFINE S == 1 .. n
<1>1. \A k \in Nat : IsFiniteSet(1 .. k) /\ Cardinality(1 .. k) = k
  BY FS_Interval
<1>a. S \in SUBSET Nat /\ IsFiniteSet(S) /\ Cardinality(S) = n
  BY <1>1
<1> HIDE DEF S
<1>2. /\ Ascending(S) \in [1 .. n -> S]
      /\ \A i \in 1 .. n : Cardinality({y \in S : y < Ascending(S)[i]}) = i - 1
  BY <1>a, AscendingEnumerates
<1> USE DEF S
<1>3. \A k \in S : {y \in S : y < k} = 1 .. k - 1
  OBVIOUS
<1>4. ASSUME NEW i \in 1 .. n PROVE Ascending(S)[i] = i
  <2>1. Ascending(S)[i] \in S /\ Cardinality({y \in S : y < Ascending(S)[i]}) = i - 1
    BY <1>2, <1>4
  <2>2. Cardinality(1 .. Ascending(S)[i] - 1) = i - 1
    BY <1>3, <2>1
  <2>3. Cardinality(1 .. Ascending(S)[i] - 1) = Ascending(S)[i] - 1
    BY <1>1, <2>1
  <2>4. QED BY <2>1, <2>2, <2>3
<1>5. QED BY <1>2, <1>4
=============================================================================
