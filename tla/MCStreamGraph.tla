---------------------------- MODULE MCStreamGraph ----------------------------
(***************************************************************************)
(* A stream of versions with two nodes and one relation between them (or a *)
(* loop): enough for a dangling relation, an entity deleted twice, and an  *)
(* id that is rolled back and given out again.                             *)
(***************************************************************************)
EXTENDS StreamGraph, TLC

Versions == 0..MaxIssued
Symmetric == Permutations(Node)
=============================================================================
