------------------------------ MODULE BatchGraph ------------------------------
(***************************************************************************)
(* cn.DynamicGraph.graphdb.BatchGraphImpl: entities stored by Neo4j, in    *)
(* transactions that are the client's business, and listed at a version by *)
(* a DiscreteGraph that no transaction protects.                           *)
(*                                                                         *)
(* Neo4j (external) is modelled by what it does here: it refuses to create *)
(* an entity outside a transaction, forgets what a rolled back transaction *)
(* created, and never gives the id of a stored entity to another one; the  *)
(* id of a forgotten entity may be given out again.                        *)
(***************************************************************************)
EXTENDS DiscreteGraph

CONSTANT NoEnds   \* the endpoints of a relation that was never created

VARIABLES
    inTx,        \* whether the thread is in a transaction
    stored,      \* the entities Neo4j has committed
    pending,     \* those created in the transaction
    rolledBack,  \* those that a rollback forgot, some time
    misplaced,   \* relations created at a version that lacked an end node
    ends         \* the two end nodes of a relation

batchVars == <<inTx, stored, pending, rolledBack, misplaced, ends>>
allVars == <<vars, batchVars>>

ASSUME BatchAssumption ==
    /\ Node \cap Relation = {}
    /\ NoEnds \notin Node \X Node

BatchInit ==
    /\ Init
    /\ inTx = FALSE
    /\ stored = {}
    /\ pending = {}
    /\ rolledBack = {}
    /\ misplaced = {}
    /\ ends = [r \in Relation |-> NoEnds]

InNeo4j(x) == x \in stored \cup pending

BeginTx ==
    /\ ~inTx
    /\ inTx' = TRUE
    /\ UNCHANGED <<vars, stored, pending, rolledBack, misplaced, ends>>

Commit ==
    /\ inTx
    /\ inTx' = FALSE
    /\ stored' = stored \cup pending
    /\ pending' = {}
    /\ UNCHANGED <<vars, rolledBack, misplaced, ends>>

\* Rolling back removes nothing from the DiscreteGraph.
Rollback ==
    /\ inTx
    /\ inTx' = FALSE
    /\ pending' = {}
    /\ rolledBack' = rolledBack \cup pending
    /\ UNCHANGED <<vars, stored, misplaced, ends>>

BeginNextVersion == NextGraph /\ UNCHANGED batchVars

Neo4jCreates(x) ==
    /\ inTx
    /\ ~InNeo4j(x)
    /\ pending' = pending \cup {x}
    /\ UNCHANGED <<inTx, stored, rolledBack>>

\* A faulty variant: the version is recorded first, and stays when Neo4j refuses.
CreateNodeVersionFirst(n, v) ==
    /\ ~InNeo4j(n)
    /\ Add(n, v)
    /\ pending' = IF inTx THEN pending \cup {n} ELSE pending
    /\ UNCHANGED <<inTx, stored, rolledBack, misplaced, ends>>

CreateNode(n, v) ==
    /\ Neo4jCreates(n)
    /\ Add(n, v)
    /\ UNCHANGED <<misplaced, ends>>

CreateRelationship(r, a, b, v) ==
    /\ InNeo4j(a) /\ InNeo4j(b)
    /\ Neo4jCreates(r)
    /\ Add(r, v)
    /\ ends' = [ends EXCEPT ![r] = <<a, b>>]
    /\ misplaced' = IF {a, b} \subseteq AtVersion(v) THEN misplaced \ {r} ELSE misplaced \cup {r}

\* getAllNodes and getAllRelationships move the DiscreteGraph when the result
\* is iterated, and may create the version they name.
GetAll(v) == SeekGraphByVersion(v) /\ UNCHANGED batchVars

BatchNext ==
    \/ BeginTx \/ Commit \/ Rollback
    \/ BeginNextVersion
    \/ \E v \in Version :
           \/ GetAll(v)
           \/ \E n \in Node : CreateNode(n, v)
           \/ \E r \in Relation, a, b \in Node : CreateRelationship(r, a, b, v)

BatchSpec == BatchInit /\ [][BatchNext]_allVars

-----------------------------------------------------------------------------
\* getNodeById and getRelationshipById throw while a version is read
\* (BatchGraphImpl.java:60, 82) only for an entity that was rolled back.
MissingWereRolledBack ==
    \A v \in Version : \A x \in AtVersion(v) : InNeo4j(x) \/ x \in rolledBack

\* What is listed at a version that has begun is never lost: no read, copy or
\* later version takes it away.  Only a version written before it begins is
\* emptied, when it begins (DiscreteGraph.java:39).
BegunIsKept ==
    [][\A v \in 1..version : AtVersion(v) \subseteq AtVersion(v)']_allVars

\* Every version is a graph: a relation that was created at a version with
\* both its end nodes is nowhere without them, copies included, unless its id
\* was rolled back once and now names another relation.
VersionsAreGraphs ==
    \A v \in Version, r \in Relation :
        r \in AtVersion(v) /\ r \notin rolledBack \cup misplaced
            => ends[r][1] \in AtVersion(v) /\ ends[r][2] \in AtVersion(v)
=============================================================================
