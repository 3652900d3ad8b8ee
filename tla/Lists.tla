------------------------------- MODULE Lists -------------------------------
(***************************************************************************)
(* Unlinking from the middle of a list.  The ready list, the lists of      *)
(* blocked threads and the sleep list are singly linked lists with an      *)
(* intrusive next pointer; as sequences, unlinking some members leaves the *)
(* others in their order.  The definition is not recursive, so that it can *)
(* be proved about (Routines_proofs.tla).                                  *)
(***************************************************************************)
EXTENDS Integers, Sequences, FiniteSets, Functions

Kept(q, W) == {i \in DOMAIN q : q[i] \notin W}

\* How many kept positions there are up to i.
Rank(K, i) == Cardinality({h \in K : h <= i})

Without(q, W) ==
  LET K == Kept(q, W)
  IN  [j \in 1 .. Cardinality(K) |-> q[CHOOSE i \in K : Rank(K, i) = j]]

Only(q, W) == Without(q, Range(q) \ W)

\* The members of a finite set, one after the other.
InSomeOrder(S) == CHOOSE q \in [1 .. Cardinality(S) -> S] : IsInjective(q)
=============================================================================
