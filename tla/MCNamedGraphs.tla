---------------------------- MODULE MCNamedGraphs ----------------------------
(***************************************************************************)
(* Two sessions, two nodes, two names and three graphs: one graph may      *)
(* replace another of its name twice, or beside one of the other name.     *)
(***************************************************************************)
EXTENDS NamedGraphs, TLC

Symmetric == Permutations(Session) \cup Permutations(Node) \cup Permutations(GraphName)
=============================================================================
