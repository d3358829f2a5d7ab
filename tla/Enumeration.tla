---------------------------- MODULE Enumeration ----------------------------
(***************************************************************************)
(* The places in a text at which something is found, in their order: what  *)
(* a loop around std::string::find goes through.                           *)
(***************************************************************************)
EXTENDS Integers, FiniteSets

(* The number of places in S up to i. *)
Rank(S, i) == Cardinality({j \in S : j <= i})

InOrder(S) == [k \in 1..Cardinality(S) |-> CHOOSE i \in S : Rank(S, i) = k]
=============================================================================
