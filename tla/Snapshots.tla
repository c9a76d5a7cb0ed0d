------------------------------ MODULE Snapshots ------------------------------
(***************************************************************************)
(* What a pool of version graphs promises: every version has entities of   *)
(* its own, a write at a version touches that version alone, and a version *)
(* that begins starts empty or, when copying, as the version that was last *)
(* opened: by a read as well as by a write.                                *)
(*                                                                         *)
(* There are no graph objects and no references here: see DiscreteGraph    *)
(* for how the code keeps this promise with objects shared by reference.   *)
(***************************************************************************)
EXTENDS Integers

CONSTANTS Entity, Version, MaxIssued, Null

VARIABLES
    copying,   \* whether a new version starts as a copy
    issued,    \* how many versions the pool numbered itself
    newest,    \* the version that began last
    open,      \* the version that was opened last
    known,     \* the versions the pool knows
    shown      \* shown[v]: the entities of version v

vars == <<copying, issued, newest, open, known, shown>>

Init ==
    /\ copying \in BOOLEAN
    /\ issued = 0
    /\ newest = Null
    /\ open = Null
    /\ known = {}
    /\ shown = [v \in Version |-> {}]

Begin(v) ==
    /\ newest' = v
    /\ open' = v
    /\ known' = known \cup {v}
    /\ shown' = [shown EXCEPT ![v] = IF copying /\ open # Null THEN shown[open] ELSE {}]
    /\ UNCHANGED copying

BeginNext ==
    /\ issued < MaxIssued
    /\ issued' = issued + 1
    /\ Begin(issued + 1)

\* Opening a version that is unknown makes it known, and empty; S is what the
\* version holds then.
Open(v, S) ==
    /\ open' = v
    /\ known' = known \cup {v}
    /\ shown' = [shown EXCEPT ![v] = S]
    /\ UNCHANGED <<copying, issued, newest>>

OpenNewest ==
    /\ open' = newest
    /\ UNCHANGED <<copying, issued, newest, known, shown>>

Next ==
    \/ BeginNext
    \/ \E v \in Version : Begin(v) /\ UNCHANGED issued
    \/ OpenNewest
    \/ \E v \in Version : Open(v, shown[v])
    \/ \E v \in Version, x \in Entity :
           Open(v, shown[v] \cup {x}) \/ Open(v, shown[v] \ {x})

Spec == Init /\ [][Next]_vars
=============================================================================
