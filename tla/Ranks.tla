------------------------------- MODULE Ranks -------------------------------
(***************************************************************************)
(* Members of finite sets of numbers, and members of a sequence, in order. *)
(***************************************************************************)
EXTENDS Integers, Sequences, FiniteSets

\* the place of i in K, from 1, and the member at a place
Rank(K, i) == Cardinality({j \in K : j <= i})
Nth(K, k) == CHOOSE i \in K : Rank(K, i) = k

\* the members of s at the positions K, in their order
Taken(s, K) == [k \in 1..Cardinality(K) |-> s[Nth(K, k)]]
=============================================================================
