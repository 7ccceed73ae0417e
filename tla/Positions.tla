------------------------------ MODULE Positions ------------------------------
(***************************************************************************)
(* A set of numbers as the list of them, and what a sequence holds at some *)
(* of its positions.  They stand where SetToSortSeq and SelectSeq would in *)
(* the modules there are proofs about: the provers do not expand those.    *)
(***************************************************************************)
EXTENDS Integers, Sequences, FiniteSets

\* The member of S with n smaller ones.
Nth(S, n) == CHOOSE x \in S : Cardinality({y \in S : y < x}) = n

InOrder(S) == [k \in 1 .. Cardinality(S) |-> Nth(S, k - 1)]
Picked(s, at) == [k \in 1 .. Cardinality(at) |-> s[Nth(at, k - 1)]]
==============================================================================
