------------------------------- MODULE Sorting -------------------------------
\* Sorting and filtering, as Array.sort and Array.filter do them, by counts: the place of a
\* member is how many come before it.
EXTENDS Naturals, Sequences, FiniteSets

\* The members of S, each behind all those that come before it.
Sorted(S, Before(_, _)) ==
  LET ahead == [x \in S |-> Cardinality({y \in S : Before(y, x)})]
  IN  [i \in 1 .. Cardinality(S) |-> CHOOSE x \in S : ahead[x] = i - 1]

\* The entries of s that pass, in the order they are in.
Filtered(s, Passes(_)) ==
  LET places == Sorted({i \in DOMAIN s : Passes(s[i])}, LAMBDA i, j : i < j)
  IN  [n \in DOMAIN places |-> s[places[n]]]
=============================================================================
