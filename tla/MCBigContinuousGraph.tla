------------------------- MODULE MCBigContinuousGraph -------------------------
(***************************************************************************)
(* Two entities and three writes: an entity added, deleted and added again *)
(* while the other is scanned, with a failure anywhere.  The queries ask   *)
(* for a version, for a range, and for either of two versions.             *)
(***************************************************************************)
EXTENDS BigContinuousGraph

SomeQueries == {AtVersion(1), Within(1, 2), AtSome({1, 2})}
=============================================================================
