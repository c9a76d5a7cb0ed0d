---------------------------- MODULE TemporalGraph ----------------------------
(***************************************************************************)
(* What a stream of versions promises: a graph that grows and shrinks at   *)
(* the newest version while every earlier version stays as it was.         *)
(*                                                                         *)
(* An entity removed at the newest version is still part of that version   *)
(* and absent from the next one on.  There is no notion here of creation   *)
(* or deletion versions, of transactions, or of what was rolled back: see  *)
(* StreamGraph for how the code keeps this promise.                        *)
(***************************************************************************)
EXTENDS Integers

CONSTANTS Entity, MaxIssued

VARIABLES
    now,     \* the newest version; 0 before the first one begins
    shown,   \* shown[v]: the entities of version v
    live     \* the entities that the next version starts with

vars == <<now, shown, live>>

Init ==
    /\ now = 0
    /\ shown = [v \in 0..MaxIssued |-> {}]
    /\ live = {}

BeginVersion ==
    /\ now < MaxIssued
    /\ now' = now + 1
    /\ shown' = [shown EXCEPT ![now + 1] = live]
    /\ UNCHANGED live

Create(x) ==
    /\ x \notin live
    /\ shown' = [shown EXCEPT ![now] = @ \cup {x}]
    /\ live' = live \cup {x}
    /\ UNCHANGED now

Remove(x) ==
    /\ x \in live
    /\ live' = live \ {x}
    /\ UNCHANGED <<now, shown>>

Next == BeginVersion \/ \E x \in Entity : Create(x) \/ Remove(x)

Spec == Init /\ [][Next]_vars
=============================================================================
