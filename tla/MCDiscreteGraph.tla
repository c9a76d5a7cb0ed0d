--------------------------- MODULE MCDiscreteGraph ---------------------------
(***************************************************************************)
(* Three versions, of which the pool numbers two itself: a version can be  *)
(* written before it begins, begun twice, or never begun.  Four references *)
(* leave one for the graph made while three are held by the pool.          *)
(***************************************************************************)
EXTENDS DiscreteGraph, TLC

Versions == 1..3
Symmetric == Permutations(Ref) \cup Permutations(Node)
=============================================================================
