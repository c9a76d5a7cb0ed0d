-------------------------- MODULE MCVersionedWrites --------------------------
(***************************************************************************)
(* Two sessions that create two entities of a kind, with a version from    *)
(* which each is visible, with two versions in the wrong order, with a     *)
(* clause that CREATEV does not take, or with none.                        *)
(***************************************************************************)
EXTENDS VersionedWrites, TLC

Windows == {<<1>>, <<2, 1>>, <<>>}
Symmetric == Permutations(Node) \cup Permutations(Session)
=============================================================================
