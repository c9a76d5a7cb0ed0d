----------------------------- MODULE StreamGraph -----------------------------
(***************************************************************************)
(* cn.DynamicGraph.graphdb.StreamGraphImpl: a stream of versions over a    *)
(* Neo4j database.  Entities are stored by Neo4j, inside the transaction   *)
(* bound to the calling thread; their versions are kept by a               *)
(* ContinuousGraph, which no transaction protects.                         *)
(*                                                                         *)
(* The object keeps the first transaction it opens and never lets go of    *)
(* it: a later beginNextVersion opens none, and a later commit acts on the *)
(* old handle.  Neo4j (external) is modelled by what it does here: one     *)
(* transaction per thread, a placebo for a nested one, a rollback when a   *)
(* commit fails, ids never shared by two stored entities.                  *)
(***************************************************************************)
EXTENDS ContinuousGraph

CONSTANT NoEnds   \* the endpoints of a relation that was never created

VARIABLES
    currentVersion,
    tx,        \* the field tx: "null", "top" (a transaction) or "placebo"
    bound,     \* the thread's transaction: "none", "top" (that of tx) or "read"
    stored,    \* the entities Neo4j has committed
    pending,   \* the entities created in the thread's transaction
    lost,      \* the entities that a failed commit rolled back
    ends       \* the two end nodes of a relation

streamVars == <<currentVersion, tx, bound, stored, pending, lost, ends>>
vars == <<graphVars, streamVars>>

ASSUME StreamAssumption ==
    /\ 0..MaxIssued \subseteq Version
    /\ MaxIssued < LongMax
    /\ NoEnds \notin Node \X Node

StreamInit ==
    /\ Init
    /\ currentVersion = 0
    /\ tx = "null"
    /\ bound = "none"
    /\ stored = {}
    /\ pending = {}
    /\ lost = {}
    /\ ends = [r \in Relation |-> NoEnds]

InNeo4j(x) == x \in stored \cup pending

-----------------------------------------------------------------------------
\* beginTx is called only the first time; inside a transaction of the thread
\* it returns a placebo.
BeginNextVersion ==
    /\ version < MaxIssued
    /\ GetNextVersion
    /\ currentVersion' = version'
    /\ IF tx # "null" THEN UNCHANGED <<tx, bound>>
       ELSE IF bound = "none" THEN tx' = "top" /\ bound' = "top"
       ELSE tx' = "placebo" /\ UNCHANGED bound
    /\ UNCHANGED <<stored, pending, lost, ends>>

\* beginRead: the transaction it opens is kept by nobody, and never closed.
BeginRead ==
    /\ bound = "none"
    /\ bound' = "read"
    /\ UNCHANGED <<graphVars, currentVersion, tx, stored, pending, lost, ends>>

\* Whether tx.close() ends the transaction of the thread: if it is that of
\* tx; if it is a later one, only when Neo4j gave the later one the same
\* pooled kernel transaction.
ClosesThread ==
    \/ tx = "top" /\ bound = "top"
    \/ tx = "top" /\ bound = "read"

\* A faulty variant of Commit: a placebo ends the transaction it is nested in.
CommitAny ==
    /\ tx # "null" /\ bound # "none"
    /\ bound' = "none"
    /\ stored' = stored \cup pending
    /\ pending' = {}
    /\ UNCHANGED <<graphVars, currentVersion, tx, lost, ends>>

\* commit() that ends the thread's transaction and keeps its changes.
Commit ==
    /\ ClosesThread
    /\ bound' = "none"
    /\ stored' = stored \cup pending
    /\ pending' = {}
    /\ UNCHANGED <<graphVars, currentVersion, tx, lost, ends>>

\* commit() that Neo4j refuses: the changes are rolled back, the versions
\* recorded for them are not.
CommitFails ==
    /\ ClosesThread
    /\ bound' = "none"
    /\ lost' = lost \cup pending
    /\ pending' = {}
    /\ UNCHANGED <<graphVars, currentVersion, tx, stored, ends>>

\* commit() that ends no transaction: on a placebo or a handle gone stale.
CommitNothing ==
    /\ \/ tx = "placebo"
       \/ tx = "top" /\ bound # "top"
    /\ UNCHANGED vars

-----------------------------------------------------------------------------
\* Neo4j gives x a new id, in the thread's transaction.
Neo4jCreates(x) ==
    /\ bound # "none"
    /\ ~InNeo4j(x)
    /\ pending' = pending \cup {x}
    /\ lost' = lost \ {x}
    /\ UNCHANGED <<currentVersion, tx, bound, stored>>

\* A faulty variant of CreateNode: the version is recorded even when Neo4j
\* throws because no transaction is open.
CreateNodeUnchecked(n) ==
    /\ ~InNeo4j(n)
    /\ pending' = IF bound # "none" THEN pending \cup {n} ELSE pending
    /\ lost' = lost \ {n}
    /\ Add(n, currentVersion)
    /\ UNCHANGED <<currentVersion, tx, bound, stored, ends>>

CreateNode(n) ==
    /\ Neo4jCreates(n)
    /\ Add(n, currentVersion)
    /\ UNCHANGED ends

\* A faulty variant of CreateRelationship: created at the first version.
CreateRelationshipAtFirst(r, a, b) ==
    /\ InNeo4j(a) /\ InNeo4j(b)
    /\ Neo4jCreates(r)
    /\ Add(r, IF currentVersion = 0 THEN 0 ELSE 1)
    /\ ends' = [ends EXCEPT ![r] = <<a, b>>]

CreateRelationship(r, a, b) ==
    /\ InNeo4j(a) /\ InNeo4j(b)
    /\ Neo4jCreates(r)
    /\ Add(r, currentVersion)
    /\ ends' = [ends EXCEPT ![r] = <<a, b>>]

\* The application creates a node in the database without the stream.
CreateOutside(n) ==
    /\ Neo4jCreates(n)
    /\ UNCHANGED <<graphVars, ends>>

\* A faulty variant of DeleteEntity: as of the version before.
DeleteBefore(x) ==
    /\ Delete(x, IF currentVersion = 0 THEN 0 ELSE currentVersion - 1)
    /\ UNCHANGED streamVars

\* deleteNode, deleteRelation: the version is recorded, for any entity the
\* client has a handle of; Neo4j is not called.
DeleteEntity(x) ==
    /\ Delete(x, currentVersion)
    /\ UNCHANGED streamVars

Handle(x) == InNeo4j(x) \/ x \in lost

StreamNext ==
    \/ BeginNextVersion
    \/ BeginRead
    \/ Commit
    \/ CommitFails
    \/ CommitNothing
    \/ \E n \in Node : CreateNode(n) \/ CreateOutside(n)
    \/ \E r \in Relation, a, b \in Node : CreateRelationship(r, a, b)
    \/ \E x \in Entity : Handle(x) /\ DeleteEntity(x)

StreamSpec == StreamInit /\ [][StreamNext]_vars

-----------------------------------------------------------------------------
(* A careful client: it deletes an entity once, a node only after its      *)
(* relations, connects only live nodes, and no commit of it fails.         *)

Live(x) == x \in present /\ delete[x] = LongMax

CarefulNext ==
    \/ BeginNextVersion
    \/ BeginRead
    \/ Commit
    \/ CommitNothing
    \/ \E n \in Node : CreateNode(n) \/ CreateOutside(n)
    \/ \E r \in Relation, a, b \in Node :
          Live(a) /\ Live(b) /\ CreateRelationship(r, a, b)
    \/ \E x \in Entity :
          /\ Live(x)
          /\ \A r \in Relation : x \in Node /\ Live(r) => x # ends[r][1] /\ x # ends[r][2]
          /\ DeleteEntity(x)

CarefulSpec == StreamInit /\ [][CarefulNext]_vars

-----------------------------------------------------------------------------
Visible(v) == AllByVersion(Entity, v)

StreamTypeOK ==
    /\ TypeOK
    /\ currentVersion \in 0..MaxIssued
    /\ tx \in {"null", "top", "placebo"}
    /\ bound \in {"none", "top", "read"}
    /\ stored \subseteq Entity
    /\ pending \subseteq Entity
    /\ lost \subseteq Entity
    /\ ends \in [Relation -> (Node \X Node) \cup {NoEnds}]

\* getAllNodes and getAllRelationships return an entity that Neo4j does not
\* have, and so throw while they are iterated, only after a commit failed and
\* rolled that entity back.
MissingWereLost == \A x \in present : InNeo4j(x) \/ x \in lost

\* Every version at which something begins or ends is one that
\* listAllVersions reports, so listing the versions and reading each of them
\* meets every change of the graph.
ChangesListed ==
    \A x \in present : create[x] \in versionSet /\ delete[x] \in versionSet \cup {LongMax}

\* What an earlier version shows changes only for an entity deleted once
\* more (the later deletion replaces the earlier, and the entity reappears in
\* between) or whose id was rolled back and then given out again.
PastStep ==
    \A v \in 0..currentVersion - 1, x \in Entity :
        (x \in Visible(v)') # (x \in Visible(v)) =>
            x \in present /\ (delete[x] # LongMax \/ x \in lost)
PastChangesOnlyTwice == [][PastStep]_vars

\* A stream whose first version begins inside a transaction opened by
\* beginRead holds a placebo for ever: none of its commits, however often they
\* are called, makes anything durable.
NestedStreamNeverDurable == tx = "placebo" => stored = {}

\* Every version is a graph: a relation it shows has both its ends in it.
EndsVisible ==
    \A v \in 0..MaxIssued, r \in Relation :
        r \in Visible(v) => ends[r][1] \in Visible(v) /\ ends[r][2] \in Visible(v)

\* To a careful client the stream is a TemporalGraph.
TG == INSTANCE TemporalGraph WITH
        now   <- currentVersion,
        shown <- [v \in 0..MaxIssued |-> IF v <= currentVersion THEN Visible(v) ELSE {}],
        live  <- {x \in Entity : Live(x)}

ImplementsTemporalGraph == TG!Spec
=============================================================================
