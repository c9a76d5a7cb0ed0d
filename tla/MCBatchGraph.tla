----------------------------- MODULE MCBatchGraph -----------------------------
(***************************************************************************)
(* Two nodes and a relation at two versions: a version may be written or   *)
(* read before it begins, and an id may be rolled back and given out again *)
(* with other ends.                                                        *)
(***************************************************************************)
EXTENDS BatchGraph, TLC

Versions == 1..2
Symmetric == Permutations(Ref) \cup Permutations(Node)
=============================================================================
