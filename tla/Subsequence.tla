---------------------------- MODULE Subsequence ----------------------------
(***************************************************************************)
(* What is left of a sequence when some of its positions are kept: how     *)
(* filters and loops with "continue" are stated here.                      *)
(***************************************************************************)
EXTENDS Integers, FiniteSets

(* What a sequence holds at these of its positions, in order. *)
Only(s, kept) ==
    [n \in 1..Cardinality(kept) |-> s[CHOOSE i \in kept : Cardinality({j \in kept : j <= i}) = n]]
=============================================================================
