---------------------------- MODULE KeyValueStore ----------------------------
(***************************************************************************)
(* The ledger's key-value stores, as functions: a key without an entry has *)
(* the value None, and a store whose keys are the ids 0, 1, ..., n - 1 is  *)
(* a function on these.                                                    *)
(***************************************************************************)
EXTENDS Integers

CONSTANT None  \* no entry

ASSUME NoneAssumption == None \notin Int

EmptyStore == [i \in {} |-> None]

\* The store f, whose keys are 0..n-1, with an entry for n.
Extended(f, n, x) == [i \in 0..n |-> IF i = n THEN x ELSE f[i]]
=============================================================================
