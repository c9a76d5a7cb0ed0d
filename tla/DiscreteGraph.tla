---------------------------- MODULE DiscreteGraph ----------------------------
(***************************************************************************)
(* cn.DynamicGraph.graphdb.kernel.DiscreteGraph: one graph object for each *)
(* version, in a pool.                                                     *)
(*                                                                         *)
(* The object remembers the graph it touched last.  Every call that names  *)
(* a version moves it there, the reads AllNodes and AllRelations as well,  *)
(* and puts an empty graph in the pool when the version is unknown.  A     *)
(* graph is an object: the pool and the field currentGraph hold references *)
(* to it, and a write through one is seen through the other.  Nodes and    *)
(* relations live in two sets that behave alike; both are Entity here.     *)
(***************************************************************************)
EXTENDS Integers

CONSTANTS
    Node, Relation,
    Version,     \* the versions callers name
    MaxIssued,   \* bound: how often the pool numbers a version itself
    Ref,         \* references to graph objects
    Null

Entity == Node \cup Relation

ASSUME DiscreteAssumption ==
    /\ MaxIssued \in Nat
    /\ 1..MaxIssued \subseteq Version
    /\ Null \notin Version
    /\ Null \notin Ref

VARIABLES
    isCopy,           \* whether a new version starts as a copy
    version,          \* the counter of nextGraph()
    latestVersion, currentVersion,
    currentGraph,     \* the reference to the graph touched last, or Null
    graphPool,        \* graphPool[v]: the reference to v's graph, or Null
    graphs            \* graphs[r]: what the graph object r contains

vars == <<isCopy, version, latestVersion, currentVersion, currentGraph, graphPool, graphs>>

Reachable == {graphPool[v] : v \in Version} \cup {currentGraph}

\* The reference of a new object.
Fresh(r) == r \in Ref \ Reachable

Contents(r) == IF r \in Reachable THEN graphs[r] ELSE {}

\* The entities of version v, none if the pool does not know it.
AtVersion(v) == IF graphPool[v] = Null THEN {} ELSE graphs[graphPool[v]]

Init ==
    /\ isCopy \in BOOLEAN
    /\ version = 0
    /\ latestVersion = Null
    /\ currentVersion = Null
    /\ currentGraph = Null
    /\ graphPool = [v \in Version |-> Null]
    /\ graphs = [r \in Ref |-> {}]

-----------------------------------------------------------------------------
\* A faulty variant: copy() gives the new graph the relations only.
NextGraphWithoutNodes(v) ==
    /\ latestVersion' = v
    /\ currentVersion' = v
    /\ \E r \in Ref :
           /\ Fresh(r)
           /\ currentGraph' = r
           /\ graphPool' = [graphPool EXCEPT ![v] = r]
           /\ graphs' = [graphs EXCEPT ![r] =
                  IF isCopy /\ currentGraph # Null THEN graphs[currentGraph] \cap Relation ELSE {}]
    /\ UNCHANGED isCopy

\* A faulty variant: copy() hands over the graph it was asked to copy.
NextGraphShared(v) ==
    /\ latestVersion' = v
    /\ currentVersion' = v
    /\ \E r \in Ref :
           /\ IF isCopy /\ currentGraph # Null THEN r = currentGraph ELSE Fresh(r)
           /\ currentGraph' = r
           /\ graphPool' = [graphPool EXCEPT ![v] = r]
           /\ graphs' = [graphs EXCEPT ![r] = Contents(r)]
    /\ UNCHANGED isCopy

\* nextGraph(version): version v starts anew, even if the pool has it.
NextGraphAt(v) ==
    /\ latestVersion' = v
    /\ currentVersion' = v
    /\ \E r \in Ref :
           /\ Fresh(r)
           /\ currentGraph' = r
           /\ graphPool' = [graphPool EXCEPT ![v] = r]
           /\ graphs' = [graphs EXCEPT ![r] =
                  IF isCopy /\ currentGraph # Null THEN graphs[currentGraph] ELSE {}]
    /\ UNCHANGED isCopy

\* A faulty variant: the next number is that of the current version plus one.
NextGraphAfterCurrent ==
    /\ version < MaxIssued
    /\ version' = version + 1
    /\ NextGraphAt(IF currentVersion = Null THEN 1 ELSE (currentVersion % MaxIssued) + 1)

\* nextGraph()
NextGraph ==
    /\ version < MaxIssued
    /\ version' = version + 1
    /\ NextGraphAt(version + 1)

\* seekGraphByVersion: r becomes the graph of version v, made if need be.
SeekGraph(v, r) ==
    /\ IF graphPool[v] # Null THEN r = graphPool[v] ELSE Fresh(r)
    /\ currentVersion' = v
    /\ currentGraph' = r
    /\ graphPool' = [graphPool EXCEPT ![v] = r]
    /\ UNCHANGED <<isCopy, version, latestVersion>>

\* Also AllNodes and AllRelations: the iterator they return reads currentGraph'.
SeekGraphByVersion(v) ==
    \E r \in Ref : /\ SeekGraph(v, r)
                   /\ graphs' = [graphs EXCEPT ![r] = Contents(r)]

Latest ==
    /\ currentVersion' = latestVersion
    /\ currentGraph' = IF latestVersion = Null THEN Null ELSE graphPool[latestVersion]
    /\ UNCHANGED <<isCopy, version, latestVersion, graphPool, graphs>>

\* The calls without a version; without a graph they throw.
ChangeCurrent(S) ==
    /\ currentGraph # Null
    /\ graphs' = [graphs EXCEPT ![currentGraph] = S]
    /\ UNCHANGED <<isCopy, version, latestVersion, currentVersion, currentGraph, graphPool>>

AddToCurrent(x) == ChangeCurrent(Contents(currentGraph) \cup {x})
DeleteFromCurrent(x) == ChangeCurrent(Contents(currentGraph) \ {x})

\* The test currentVersion != version compares two boxed Longs by reference:
\* for equal versions the seek is left out or, beyond the cache of small
\* values, made again.
GraphFor(v, r) ==
    \/ /\ currentVersion = v
       /\ r = currentGraph
       /\ UNCHANGED <<isCopy, version, latestVersion, currentVersion, currentGraph, graphPool>>
    \/ SeekGraph(v, r)

Add(x, v) ==
    \E r \in Ref : /\ GraphFor(v, r)
                   /\ graphs' = [graphs EXCEPT ![r] = Contents(r) \cup {x}]

Delete(x, v) ==
    \E r \in Ref : /\ GraphFor(v, r)
                   /\ graphs' = [graphs EXCEPT ![r] = Contents(r) \ {x}]

Next ==
    \/ NextGraph
    \/ \E v \in Version :
           \/ NextGraphAt(v) /\ UNCHANGED version
           \/ SeekGraphByVersion(v)
           \/ \E x \in Entity : Add(x, v) \/ Delete(x, v)
    \/ Latest
    \/ \E x \in Entity : AddToCurrent(x) \/ DeleteFromCurrent(x)

Spec == Init /\ [][Next]_vars

-----------------------------------------------------------------------------
TypeOK ==
    /\ isCopy \in BOOLEAN
    /\ version \in 0..MaxIssued
    /\ latestVersion \in Version \cup {Null}
    /\ currentVersion \in Version \cup {Null}
    /\ currentGraph \in Ref \cup {Null}
    /\ graphPool \in [Version -> Ref \cup {Null}]
    /\ graphs \in [Ref -> SUBSET Entity]

\* The graph remembered is the one the pool holds for the version remembered:
\* the calls that skip the seek (DiscreteGraph.java:101) write to the same
\* object as the calls that make it.
CurrentInPool ==
    currentGraph = IF currentVersion = Null THEN Null ELSE graphPool[currentVersion]

\* No two versions share a graph object, whatever was copied, sought or begun
\* again: copy() is deep enough (BasicGraph.java:43).
VersionsApart ==
    \A v, w \in Version : graphPool[v] = graphPool[w] /\ v # w => graphPool[v] = Null

\* Once a version has begun, latest() and the writes that name no version
\* always find a graph (DiscreteGraph.java:69, 86); before, a latest() after
\* a read sets currentGraph back to null.
BegunIsWritable == latestVersion # Null => currentGraph # Null

\* A write that names a version lands there and nowhere else, whichever graph
\* the calls before it left behind (DiscreteGraph.java:100).
NamedWrite ==
    \A v \in Version, x \in Entity :
        /\ Add(x, v) => x \in AtVersion(v)'
        /\ Delete(x, v) => x \notin AtVersion(v)'
        /\ Add(x, v) \/ Delete(x, v) =>
               \A w \in Version \ {v} : AtVersion(w)' = AtVersion(w)
NamedWritesAreLocal == [][NamedWrite]_vars

\* The pool of graph objects behaves as independent sets of entities.
Abstract == INSTANCE Snapshots WITH
    copying <- isCopy, issued <- version, newest <- latestVersion, open <- currentVersion,
    known <- {v \in Version : graphPool[v] # Null},
    shown <- [v \in Version |-> AtVersion(v)]
ImplementsSnapshots == Abstract!Spec
=============================================================================
