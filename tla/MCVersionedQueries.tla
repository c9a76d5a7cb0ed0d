------------------------- MODULE MCVersionedQueries -------------------------
(***************************************************************************)
(* Queries of two sessions: n1 lives at version 1 only, n2 from version 2  *)
(* on, n3 has no versions; relation r1 lives from version 1 on, and r2 at  *)
(* version 1 only, or has no versions.  One graph is named.                *)
(***************************************************************************)
EXTENDS VersionedQueries, TLC

CONSTANTS n1, n2, n3, r1, r2, g1

Ats == {AtFilter(1), AtFilter(2)}
AtsAndBefore == Ats \cup {[op |-> "lt", version |-> 1]}   \* nothing ends before 1
OneNamed == g1 :> {n1, n3}
NoneNamed == [g \in {} |-> {}]

Unversioned ==
    [present |-> {n1, n2, r1},
     create  |-> n1 :> 1 @@ n2 :> 2 @@ n3 :> NoVersion @@ r1 :> 1 @@ r2 :> NoVersion,
     delete  |-> n1 :> 1 @@ n2 :> LongMax @@ n3 :> NoVersion @@ r1 :> LongMax @@ r2 :> NoVersion]
Versioned ==
    [present |-> {n1, n2, r1, r2},
     create  |-> [Unversioned.create EXCEPT ![r2] = 1],
     delete  |-> [Unversioned.delete EXCEPT ![r2] = 1]]

OneGraph == {Unversioned}
TwoGraphs == {Unversioned, Versioned}
=============================================================================
