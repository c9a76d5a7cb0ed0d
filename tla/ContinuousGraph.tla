--------------------------- MODULE ContinuousGraph ---------------------------
(***************************************************************************)
(* cn.DynamicGraph.graphdb.kernel.ContinuousGraph: the in-memory temporal  *)
(* graph.  It keeps the set of entities ever added (basicGraph) and, in    *)
(* two separate maps, the version each was created and deleted at; an      *)
(* entity is never removed by a deletion, and lives from its creation to   *)
(* its deletion version, both included.                                    *)
(*                                                                         *)
(* Nodes and relations have the same operations on stores of their own, so *)
(* one function over both kinds of entity stands for each pair of maps.    *)
(* The read-mode flags of the class belong to the queries that share them: *)
(* see VersionedQueries.                                                   *)
(***************************************************************************)
EXTENDS FilterVersion

CONSTANTS
    Node, Relation,  \* the ids of nodes and of relations
    NoVersion,       \* what a version map returns for an unknown entity: null
    MaxIssued        \* bound: how many versions the counter issues

Entity == Node \cup Relation

ASSUME EntityAssumption ==
    /\ Node \cap Relation = {}
    /\ NoVersion \notin Int
    /\ MaxIssued \in Nat

VARIABLES
    present,     \* basicGraph: the entities that were added
    create,      \* nodesCreateVersion, relationsCreateVersion
    delete,      \* nodesDeleteVersion, relationsDeleteVersion
    version,     \* the version counter
    versionSet   \* the versions that listAllVersions reports

graphVars == <<present, create, delete, version, versionSet>>

Init ==
    /\ present = {}
    /\ create = [x \in Entity |-> NoVersion]
    /\ delete = [x \in Entity |-> NoVersion]
    /\ version = 0
    /\ versionSet = {}

-----------------------------------------------------------------------------
\* A faulty variant of Add that keeps a delete version already recorded.
AddKeepsEnd(x, v) ==
    /\ versionSet' = versionSet \cup {v}
    /\ present' = present \cup {x}
    /\ create' = [create EXCEPT ![x] = v]
    /\ delete' = [delete EXCEPT ![x] = IF @ = NoVersion THEN LongMax ELSE @]
    /\ UNCHANGED version

\* addNode, addRelation: an entity starts a new life, whatever was known of it.
Add(x, v) ==
    /\ versionSet' = versionSet \cup {v}
    /\ present' = present \cup {x}
    /\ create' = [create EXCEPT ![x] = v]
    /\ delete' = [delete EXCEPT ![x] = LongMax]
    /\ UNCHANGED version

\* deleteNode, deleteRelation: only the delete version is recorded, for any
\* id, known or not.
Delete(x, v) ==
    /\ delete' = [delete EXCEPT ![x] = v]
    /\ UNCHANGED <<present, create, version, versionSet>>

GetNextVersion ==
    /\ version' = version + 1
    /\ versionSet' = versionSet \cup {version + 1}
    /\ UNCHANGED <<present, create, delete>>

\* reSet: everything is forgotten but the counter.
ReSet ==
    /\ present' = {}
    /\ create' = [x \in Entity |-> NoVersion]
    /\ delete' = [x \in Entity |-> NoVersion]
    /\ versionSet' = {}
    /\ UNCHANGED version

-----------------------------------------------------------------------------
\* Whether the versions of x can be read: otherwise unboxing null throws.
Known(x) == create[x] # NoVersion /\ delete[x] # NoVersion

\* The ids among S visible at version v: AllNodesByVersion and
\* AllRelationsByVersion, which throw unless every entity is known.
AllByVersion(S, v) == {x \in present \cap S : create[x] <= v /\ delete[x] >= v}

\* AllNodesByFilterVersion, AllRelationsByFilterVersion.
AllByFilter(S, f) == {x \in present \cap S : IsOk(f, create[x], delete[x])}

\* A faulty variant of Kept: what lives at either end.
KeptAtEitherEnd(vStart, vEnd) == {x \in present : create[x] <= vStart \/ vEnd <= delete[x]}

\* The entities that live from vStart to vEnd.
Kept(vStart, vEnd) == {x \in present : create[x] <= vStart /\ vEnd <= delete[x]}

\* subGraph: a new graph of the entities kept, each added and then deleted at
\* its own versions.
SubGraph(vStart, vEnd) ==
    LET kept == Kept(vStart, vEnd) IN
    [present    |-> kept,
     create     |-> [x \in Entity |-> IF x \in kept THEN create[x] ELSE NoVersion],
     delete     |-> [x \in Entity |-> IF x \in kept THEN delete[x] ELSE NoVersion],
     versionSet |-> {create[x] : x \in kept}]

-----------------------------------------------------------------------------
(* One client at a time.  The callers in the code never delete an entity   *)
(* at a version before its creation: CREATEV orders its two versions, and  *)
(* StreamGraphImpl deletes at the newest version.                          *)

Next ==
    \/ \E x \in Entity, v \in Version :
          \/ Add(x, v)
          \/ (x \in present => create[x] <= v) /\ Delete(x, v)
    \/ version < MaxIssued /\ GetNextVersion
    \/ ReSet

Spec == Init /\ [][Next]_graphVars

-----------------------------------------------------------------------------
TypeOK ==
    /\ present \subseteq Entity
    /\ create \in [Entity -> Version \cup {NoVersion}]
    /\ delete \in [Entity -> Version \cup {NoVersion, LongMax}]
    /\ version \in Nat
    /\ versionSet \subseteq Version \cup Nat

\* No read of the graph can throw: whatever was added, deleted, re-added or
\* deleted without ever being added, and however often the graph was reset,
\* every entity that a scan meets has both of its versions.
WellVersioned == \A x \in present : Known(x)

\* codebaby.listVersion reports the creation version of every entity that a
\* scan can return.
CreationListed == \A x \in present : create[x] \in versionSet

\* No entity is deleted before it is created, so every life has a version
\* and the filters mean what FilterMeansPredicates says; a deletion recorded
\* for an id that is added later does not shorten the new life.
OrderedLife == \A x \in present : create[x] <= delete[x]

\* subGraph(vStart, vEnd) holds what is visible at every version from vStart
\* to vEnd, when vStart <= vEnd, and what is visible at some version from vEnd
\* to vStart when the bounds are exchanged.
SubGraphCoversRange ==
    \A vStart, vEnd \in Version :
        LET sub == SubGraph(vStart, vEnd) IN
        IF vStart <= vEnd
        THEN sub.present = {x \in present :
                               \A t \in vStart..vEnd : x \in AllByVersion(Entity, t)}
        ELSE sub.present = {x \in present :
                               \E t \in vEnd..vStart : x \in AllByVersion(Entity, t)}

\* The subgraph is a temporal graph of its own: every filter selects from it
\* what it selects from the whole graph, its creation versions are listed in
\* both, and it is what AndFilter(AtFilter(vStart), AtFilter(vEnd)) selects.
SubGraphIsAGraph ==
    \A vStart, vEnd \in Version :
        LET sub == SubGraph(vStart, vEnd)
            selected == AllByFilter(Entity, AndFilter(AtFilter(vStart), AtFilter(vEnd)))
        IN vStart <= vEnd =>
            /\ sub.present = selected
            /\ sub.versionSet \subseteq versionSet
            /\ \A f \in Comparison :
                  {x \in sub.present : IsOk(f, sub.create[x], sub.delete[x])}
                      = AllByFilter(Entity, f) \cap selected
=============================================================================
