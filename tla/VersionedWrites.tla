--------------------------- MODULE VersionedWrites ---------------------------
(***************************************************************************)
(* CREATEV and the procedures codebaby.nextVersion and clearVersion, run   *)
(* by concurrent sessions: how the versions of an entity, kept in plain    *)
(* Java collections, keep up with the entity, kept by Neo4j's              *)
(* transactions.                                                           *)
(*                                                                         *)
(* Creating an entity with a version takes one put into each of four       *)
(* collections; deleting or clearing is as little atomic.  The collections *)
(* (HashSet, HashMap) are not synchronised: when two puts into one of them *)
(* overlap, any of its entries may be lost, and a put into a store that    *)
(* clearVersion replaces meanwhile may go to the old one.  Neo4j           *)
(* (external) isolates what is pending from what is stored and gives out   *)
(* the ids of entities that were rolled back or deleted once more.         *)
(***************************************************************************)
EXTENDS ContinuousGraph, Sequences

CONSTANTS
    Session,
    Window      \* the version clauses of CREATEV: <<v>> for "at v", <<v1, v2>>
                \* for "at v1 and v2", <<>> for a clause of another form

VARIABLES
    pc, job,      \* of each session: what it does next, and the entity it is
                  \* creating with its first and last version
    pending,      \* of each session: the entities created in its transaction
    stale,        \* the sessions putting into a collection that was replaced
    stored,       \* the entities Neo4j has committed
    asked,        \* history: the first and last version that CREATEV asked for
                  \* an entity, NoVersion once it has none to show
    gone,         \* history: the ids of entities that were rolled back, or
                  \* deleted in Neo4j
    shaken        \* history: two puts into a collection, or a creation and a
                  \* clearVersion, overlapped

sessionVars == <<pc, job, pending, stale>>
neo4jVars == <<stored, asked, gone>>
writeVars == <<graphVars, sessionVars, neo4jVars, shaken>>

ASSUME WindowAssumption ==
    /\ \A w \in Window :
          w = <<>> \/ w \in {<<a>> : a \in Version} \cup (Version \X Version)
    /\ NoVersion \notin Int \X Int

NoJob == [entity |-> NoVersion, from |-> NoVersion, to |-> NoVersion]

WriteInit ==
    /\ Init
    /\ pc = [s \in Session |-> "idle"]
    /\ job = [s \in Session |-> NoJob]
    /\ pending = [s \in Session |-> {}]
    /\ stale = {}
    /\ stored = {}
    /\ asked = [x \in Entity |-> NoVersion]
    /\ gone = {}
    /\ shaken = FALSE

-----------------------------------------------------------------------------
\* The collection that a session is putting into at each step.
Collection ==
    [l \in {"next", "list", "node", "create", "delete", "end"} |->
        CASE l \in {"next", "list"} -> "versionSet"
          [] l = "node" -> "basicGraph"
          [] l = "create" -> "createVersion"
          [] OTHER -> "deleteVersion"]

Putting(s, c) == pc[s] \in DOMAIN Collection /\ Collection[pc[s]] = c
Adding(s) == pc[s] \in DOMAIN Collection \ {"next"}
Clearing(s) == pc[s] \in {"clearNodes", "clearRelations", "clearList"}
SameKind(x, y) == x \in Node <=> y \in Node

\* Another session is in the middle of a put into the same collection.
Races(s) ==
    \E t \in Session \ {s} :
        /\ Putting(t, Collection[pc[s]])
        /\ Collection[pc[s]] # "versionSet" => SameKind(job[s].entity, job[t].entity)

\* The entries that overlapping puts can lose: any of the collection.
LostEntities(s) ==
    IF Races(s) THEN SUBSET {x \in Entity : SameKind(x, job[s].entity)} ELSE {{}}
LostVersions(s) == IF Races(s) THEN SUBSET versionSet ELSE {{}}

\* What a put that turns old into new leaves in a map.
PutInMap(s, old, new) ==
    {[x \in Entity |-> IF x \in lost THEN NoVersion ELSE new[x]] : lost \in LostEntities(s)}
        \cup IF s \in stale THEN {old} ELSE {}

\* versionSet.add(v), of session s.
List(s, v) ==
    \/ \E lost \in LostVersions(s) : versionSet' = (versionSet \ lost) \cup {v}
    \/ (s \in stale \/ Races(s)) /\ UNCHANGED versionSet

\* The step after which session s goes to l, having put something.
Put(s, l) ==
    /\ pc' = [pc EXCEPT ![s] = l]
    /\ stale' = stale \ {s}
    /\ shaken' = (shaken \/ Races(s) \/ s \in stale)
    /\ UNCHANGED <<job, pending, neo4jVars>>

\* Session s goes to l; a creation and a clearVersion under way overlap.
Goto(s, l) ==
    /\ pc' = [pc EXCEPT ![s] = l]
    /\ shaken' = (shaken \/ \E t, u \in Session : Adding(t)' /\ Clearing(u)')

-----------------------------------------------------------------------------
BeginTx(s) ==
    /\ pc[s] = "idle"
    /\ Goto(s, "tx")
    /\ UNCHANGED <<graphVars, job, pending, stale, neo4jVars>>

InNeo4j(x) == x \in stored \cup UNION {pending[s] : s \in Session}

\* Neo4j creates x in the transaction of s.
Neo4jCreates(s, x) ==
    /\ pc[s] = "tx"
    /\ ~InNeo4j(x)
    /\ pending' = [pending EXCEPT ![s] = @ \cup {x}]

\* CREATE: no versions.
Create(s, x) ==
    /\ Neo4jCreates(s, x)
    /\ asked' = [asked EXCEPT ![x] = NoVersion]
    /\ UNCHANGED <<graphVars, pc, job, stale, stored, gone, shaken>>

\* A faulty variant of FirstLast that takes the versions as they are written.
FirstLastAsWritten(w) == <<w[1], IF Len(w) = 1 THEN LongMax ELSE w[2]>>

\* The first and the last version of an entity, by its version clause.
FirstLast(w) ==
    IF Len(w) = 1 THEN <<w[1], LongMax>>
    ELSE IF w[1] >= w[2] THEN <<w[2], w[1]>> ELSE <<w[1], w[2]>>

\* What a version clause asks for: to be visible at the versions it names,
\* and at none before the first or, if it names two, after the last.
Asked(w) ==
    IF w = <<>> THEN NoVersion
    ELSE LET named == {w[i] : i \in DOMAIN w} IN
         CHOOSE life \in named \X (named \cup {LongMax}) :
            /\ \A v \in named : life[1] <= v
            /\ IF Len(w) = 1 THEN life[2] = LongMax
                             ELSE life[2] \in named /\ \A v \in named : v <= life[2]

\* A faulty variant of CreateV that never creates the entity in Neo4j.
CreateVOnlyVersions(s, x, w) ==
    /\ pc[s] = "tx" /\ ~InNeo4j(x) /\ w # <<>>
    /\ asked' = [asked EXCEPT ![x] = Asked(w)]
    /\ Goto(s, "list")
    /\ job' = [job EXCEPT ![s] = [entity |-> x, from |-> FirstLast(w)[1], to |-> FirstLast(w)[2]]]
    /\ UNCHANGED <<graphVars, pending, stale, stored, gone>>

\* createNodeV, createRelationshipV: for a clause of another form the match
\* fails, when Neo4j has already created the entity.
CreateV(s, x, w) ==
    /\ Neo4jCreates(s, x)
    /\ asked' = [asked EXCEPT ![x] = Asked(w)]
    /\ IF w = <<>>
       THEN Goto(s, "failed") /\ UNCHANGED job
       ELSE /\ Goto(s, "list")
            /\ job' = [job EXCEPT ![s] = [entity |-> x, from |-> FirstLast(w)[1],
                                          to |-> FirstLast(w)[2]]]
    /\ UNCHANGED <<graphVars, stale, stored, gone>>

\* addNode, addRelation: four puts, then deleteNode for a bounded window.
AddToList(s) ==
    /\ pc[s] = "list"
    /\ List(s, job[s].from)
    /\ Put(s, "node")
    /\ UNCHANGED <<present, create, delete, version>>

\* A faulty variant of AddToGraph after which the creation version is forgotten.
AddToGraphOnly(s) ==
    /\ pc[s] = "node"
    /\ present' = present \cup {job[s].entity}
    /\ Put(s, "delete")
    /\ UNCHANGED <<create, delete, version, versionSet>>

AddToGraph(s) ==
    /\ pc[s] = "node"
    /\ \/ \E lost \in LostEntities(s) : present' = (present \cup {job[s].entity}) \ lost
       \/ s \in stale /\ UNCHANGED present
    /\ Put(s, "create")
    /\ UNCHANGED <<create, delete, version, versionSet>>

PutCreate(s) ==
    /\ pc[s] = "create"
    /\ create' \in PutInMap(s, create, [create EXCEPT ![job[s].entity] = job[s].from])
    /\ Put(s, "delete")
    /\ UNCHANGED <<present, delete, version, versionSet>>

PutDelete(s) ==
    /\ pc[s] = "delete"
    /\ delete' \in PutInMap(s, delete, [delete EXCEPT ![job[s].entity] = LongMax])
    /\ Put(s, IF job[s].to = LongMax THEN "properties" ELSE "end")
    /\ UNCHANGED <<present, create, version, versionSet>>

PutEnd(s) ==
    /\ pc[s] = "end"
    /\ delete' \in PutInMap(s, delete, [delete EXCEPT ![job[s].entity] = job[s].to])
    /\ Put(s, "properties")
    /\ UNCHANGED <<present, create, version, versionSet>>

\* setProperties, which throws for a property that Neo4j cannot store.
SetProperties(s) ==
    /\ pc[s] = "properties"
    /\ \/ Goto(s, "tx")
       \/ Goto(s, "failed")
    /\ job' = [job EXCEPT ![s] = NoJob]
    /\ UNCHANGED <<graphVars, pending, stale, neo4jVars>>

Commit(s) ==
    /\ pc[s] = "tx"
    /\ Goto(s, "idle")
    /\ stored' = stored \cup pending[s]
    /\ pending' = [pending EXCEPT ![s] = {}]
    /\ UNCHANGED <<graphVars, job, stale, asked, gone>>

\* Neo4j forgets the entities of the transaction; their versions stay.
Rollback(s) ==
    /\ pc[s] \in {"tx", "failed"}
    /\ Goto(s, "idle")
    /\ gone' = gone \cup pending[s]
    /\ pending' = [pending EXCEPT ![s] = {}]
    /\ UNCHANGED <<graphVars, job, stale, stored, asked>>

\* A query deletes x: Neo4j forgets it, and its versions stay.
Neo4jDelete(x) ==
    /\ x \in stored
    /\ stored' = stored \ {x}
    /\ gone' = gone \cup {x}
    /\ UNCHANGED <<graphVars, sessionVars, asked, shaken>>

-----------------------------------------------------------------------------
\* nextVersion: an atomic counter, then a put.
NextVersion(s) ==
    /\ pc[s] = "idle"
    /\ version < MaxIssued
    /\ version' = version + 1
    /\ Goto(s, "next")
    /\ job' = [job EXCEPT ![s].from = version + 1]
    /\ UNCHANGED <<present, create, delete, versionSet, pending, stale, neo4jVars>>

ListNext(s) ==
    /\ pc[s] = "next"
    /\ List(s, job[s].from)
    /\ pc' = [pc EXCEPT ![s] = "idle"]
    /\ job' = [job EXCEPT ![s] = NoJob]
    /\ stale' = stale \ {s}
    /\ shaken' = (shaken \/ Races(s) \/ s \in stale)
    /\ UNCHANGED <<present, create, delete, version, pending, neo4jVars>>

\* clearVersion replaces the four collections in this order.  A session that
\* is putting into one of them keeps the old one, or takes the new one.
ReplacesFor(c, S) ==
    stale' = stale \cup {t \in Session : Putting(t, c) /\ job[t].entity \in S}

ClearGraph(s) ==
    /\ pc[s] = "idle"
    /\ present' = {}
    /\ ReplacesFor("basicGraph", Entity)
    /\ asked' = [x \in Entity |-> NoVersion]
    /\ Goto(s, "clearNodes")
    /\ UNCHANGED <<create, delete, version, versionSet, job, pending, stored, gone>>

ClearKind(s, l, next, S) ==
    /\ pc[s] = l
    /\ create' = [x \in Entity |-> IF x \in S THEN NoVersion ELSE create[x]]
    /\ delete' = [x \in Entity |-> IF x \in S THEN NoVersion ELSE delete[x]]
    /\ stale' = stale \cup {t \in Session : job[t].entity \in S
                               /\ (Putting(t, "createVersion") \/ Putting(t, "deleteVersion"))}
    /\ Goto(s, next)
    /\ UNCHANGED <<present, version, versionSet, job, pending, neo4jVars>>

ClearNodes(s) == ClearKind(s, "clearNodes", "clearRelations", Node)
ClearRelations(s) == ClearKind(s, "clearRelations", "clearList", Relation)

ClearList(s) ==
    /\ pc[s] = "clearList"
    /\ versionSet' = {}
    /\ stale' = stale \cup {t \in Session : Putting(t, "versionSet")}
    /\ Goto(s, "idle")
    /\ UNCHANGED <<present, create, delete, version, job, pending, neo4jVars>>

-----------------------------------------------------------------------------
WriteNext ==
    \/ \E s \in Session :
          \/ BeginTx(s) \/ Commit(s) \/ Rollback(s)
          \/ AddToList(s) \/ AddToGraph(s) \/ PutCreate(s) \/ PutDelete(s) \/ PutEnd(s)
          \/ SetProperties(s)
          \/ NextVersion(s) \/ ListNext(s)
          \/ ClearGraph(s) \/ ClearNodes(s) \/ ClearRelations(s) \/ ClearList(s)
          \/ \E x \in Entity : Create(s, x) \/ \E w \in Window : CreateV(s, x, w)
    \/ \E x \in Entity : Neo4jDelete(x)

WriteSpec == WriteInit /\ [][WriteNext]_writeVars

-----------------------------------------------------------------------------
BeingAdded(x) == \E s \in Session : Adding(s) /\ job[s].entity = x

\* A scan of a version throws on an entity without versions only while the
\* very call that adds it is under way, unless calls have overlapped that
\* share a collection.
TornOnlyByOverlap ==
    ~shaken =>
        \A x \in present :
            Known(x) \/ \E s \in Session : pc[s] \in {"create", "delete"} /\ job[s].entity = x

\* Unless calls have overlapped, an entity that CREATEV has created is found
\* with the versions it asked for, in whichever order, from the moment the
\* call is done and whatever its id showed in an earlier life; its creation
\* version is listed.  One created without a version is in no version, unless
\* its id had an earlier life that was rolled back or deleted.
VersionsAsAsked ==
    ~shaken =>
        /\ \A x \in Entity :
              asked[x] # NoVersion /\ InNeo4j(x) /\ ~BeingAdded(x) =>
                  /\ x \in present /\ create[x] \in versionSet
                  /\ create[x] = asked[x][1] /\ delete[x] = asked[x][2]
        /\ \A x \in present : asked[x] = NoVersion => x \in gone

\* An entity that a version shows and Neo4j does not have was rolled back, or
\* deleted without the version graph being told.
GhostsWereGone == \A x \in present : InNeo4j(x) \/ x \in gone
=============================================================================
