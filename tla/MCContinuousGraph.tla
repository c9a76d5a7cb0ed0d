-------------------------- MODULE MCContinuousGraph --------------------------
(***************************************************************************)
(* One client of the in-memory graph: two nodes and a relation, versions   *)
(* on both sides of those the counter issues.                              *)
(***************************************************************************)
EXTENDS ContinuousGraph, TLC

Symmetric == Permutations(Node)
=============================================================================
