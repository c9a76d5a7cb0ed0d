-------------------------- MODULE VersionedQueries --------------------------
(***************************************************************************)
(* Queries that read a version of the graph, or a named graph, while       *)
(* others do.  A query announces what it wants to read in fields of the    *)
(* database's one ContinuousGraph (the read mode), and the first scan of   *)
(* all nodes that runs afterwards, whosever it is, obeys the read mode     *)
(* and takes it down.                                                      *)
(*                                                                         *)
(* What a query's plan reads:                                              *)
(*   "all"    scans all nodes once                                         *)
(*   "pair"   scans all nodes for each row of one such scan:               *)
(*            MATCH (a), (b)                                               *)
(*   "store"  never scans all nodes: a label or index scan, a count store  *)
(*   "load"   loads the relations of a projected graph (codebaby           *)
(*            shortestPath), each one tested against the read mode         *)
(*                                                                         *)
(* The graph does not change here: VersionedWrites has the writers.  Each  *)
(* access to a shared field is a step; the fields are plain Java fields,   *)
(* and every step reads the newest value written.                          *)
(***************************************************************************)
EXTENDS ContinuousGraph

CONSTANTS
    Session,     \* the threads that run queries
    Filters,     \* the filters that queries ask for
    Graphs,      \* the graphs that queries may find: what was added, and its lives
    GraphPool,   \* the named graphs: a function from names to sets of nodes
    Leaf,        \* what the plans read, among the above
    NoQuery, Nothing

VARIABLES
    byVersion, filter,   \* isReadByVersion and its filter
    byName, graphName,   \* isReadByName and its name
    raisedFor,           \* history: what the last query to set isReadByVersion reads
    namedBy, namedFor,   \* history: whose the last query to set isReadByName is,
    overtaken,           \* what it reads, and whether it has met isReadByVersion
    query, pc,           \* of each session, the query and what it does next
    todo, result,        \* the entities still to visit, and those returned so far
    rows,                \* the rows of the first pattern that the second one has
                         \* not been scanned for; Nothing before the first scan
    alone, clear         \* history: no other query has run since this one
                         \* began; the read mode was down when it began

nameHistory == <<namedBy, namedFor, overtaken>>
readMode == <<byVersion, filter, byName, graphName, raisedFor, nameHistory>>
control == <<query, pc, todo, result, rows, alone, clear>>
queryVars == <<readMode, control, graphVars>>

Name == DOMAIN GraphPool
Query ==
    [select : {"none"}, leaf : Leaf]
        \cup [select : {"version"}, filter : Filters, leaf : Leaf]
        \cup [select : {"name"}, name : Name, leaf : Leaf \ {"load"}]

ASSUME QueryAssumption ==
    /\ Filters \subseteq Filter
    /\ \A g \in Graphs :
          /\ g.present \subseteq Entity
          /\ \A x \in g.present : g.create[x] # NoVersion /\ g.delete[x] # NoVersion
          /\ \A x \in Entity \ g.present : g.create[x] = NoVersion
    /\ GraphPool \in [Name -> SUBSET Node]
    /\ Leaf \subseteq {"all", "pair", "store", "load"}
    /\ NoQuery \notin Query
    /\ \A S \in SUBSET Entity : Nothing # S

QueryInit ==
    /\ \E g \in Graphs :
          /\ present = g.present /\ create = g.create /\ delete = g.delete
          /\ versionSet = {g.create[x] : x \in g.present}
    /\ version = 0
    /\ byVersion = FALSE /\ filter = Nothing
    /\ byName = FALSE /\ graphName = Nothing
    /\ raisedFor = Nothing
    /\ namedBy = Nothing /\ namedFor = Nothing /\ overtaken = FALSE
    /\ query = [s \in Session |-> NoQuery]
    /\ pc = [s \in Session |-> "idle"]
    /\ todo = [s \in Session |-> {}]
    /\ result = [s \in Session |-> {}]
    /\ rows = [s \in Session |-> Nothing]
    /\ alone = [s \in Session |-> FALSE]
    /\ clear = [s \in Session |-> FALSE]

-----------------------------------------------------------------------------
Goto(s, l) == pc' = [pc EXCEPT ![s] = l]
At(s, l) == pc[s] = l
Reads(s, l) == At(s, "read") /\ query[s].leaf \in l

Begin(s, q) ==
    /\ At(s, "idle")
    /\ query' = [query EXCEPT ![s] = q]
    /\ Goto(s, IF q.select = "none" THEN "read" ELSE "select")
    /\ alone' = [t \in Session |-> t = s /\ \A u \in Session : pc[u] = "idle"]
    /\ clear' = [clear EXCEPT ![s] = ~byVersion /\ ~byName]
    /\ UNCHANGED <<readMode, todo, result, rows>>

\* setFilterVersion and setReadName: first what to read, then the flag.
Select(s) ==
    /\ At(s, "select")
    /\ IF query[s].select = "version"
       THEN filter' = query[s].filter /\ UNCHANGED graphName
       ELSE graphName' = query[s].name /\ UNCHANGED filter
    /\ Goto(s, "raise")
    /\ UNCHANGED <<byVersion, byName, raisedFor, nameHistory, query, todo, result, rows, alone,
                   clear>>

Raise(s) ==
    /\ At(s, "raise")
    /\ IF query[s].select = "version"
       THEN byVersion' = TRUE /\ raisedFor' = query[s].leaf /\ UNCHANGED <<byName, nameHistory>>
       ELSE /\ byName' = TRUE
            /\ namedBy' = s /\ namedFor' = query[s].leaf /\ overtaken' = FALSE
            /\ UNCHANGED <<byVersion, raisedFor>>
    /\ Goto(s, "read")
    /\ UNCHANGED <<filter, graphName, query, todo, result, rows, alone, clear>>

-----------------------------------------------------------------------------
\* nodeOps.all: the two flags are read one after the other, so that a version
\* that is found keeps a query that reads by name from its name.
CheckVersion(s) ==
    /\ Reads(s, {"all", "pair"})
    /\ IF byVersion
       THEN Goto(s, "visit") /\ todo' = [todo EXCEPT ![s] = present \cap Node]
       ELSE Goto(s, "checkName") /\ UNCHANGED todo
    /\ result' = [result EXCEPT ![s] = {}]
    /\ overtaken' = (overtaken \/ (byVersion /\ query[s].select = "name" /\ namedBy = s))
    /\ UNCHANGED <<byVersion, filter, byName, graphName, raisedFor, namedBy, namedFor, query, rows,
                   alone, clear>>

\* A scan has returned S: the rows that a "pair" has yet to scan again for.
Left(s, S) ==
    IF query[s].leaf # "pair" THEN {{}}
    ELSE IF rows[s] = Nothing THEN {S}
    ELSE {rows[s] \ {n} : n \in rows[s]}

Scanned(s, S) ==
    /\ result' = [result EXCEPT ![s] = S]
    /\ \E left \in Left(s, S) :
          /\ rows' = [rows EXCEPT ![s] = left]
          /\ Goto(s, IF left = {} THEN "done" ELSE "read")

\* No read mode: Neo4j's own scan, of nodes with and without versions.
CheckName(s) ==
    /\ At(s, "checkName")
    /\ IF byName THEN Goto(s, "lowerName") /\ UNCHANGED <<result, rows>>
                 ELSE Scanned(s, Node)
    /\ UNCHANGED <<readMode, query, todo, alone, clear>>

Selected(x) == IF IsOk(filter, create[x], delete[x]) THEN {x} ELSE {}

\* AllNodesByFilterVersion tests each node against the filter it finds.
Visit(s) ==
    /\ At(s, "visit")
    /\ \E n \in todo[s] :
          /\ todo' = [todo EXCEPT ![s] = @ \ {n}]
          /\ result' = [result EXCEPT ![s] = @ \cup Selected(n)]
    /\ UNCHANGED <<readMode, query, pc, rows, alone, clear>>

\* A faulty variant of LowerVersion that forgets the flag.
LowerVersionForgets(s) ==
    /\ At(s, "visit") /\ todo[s] = {}
    /\ Scanned(s, result[s])
    /\ UNCHANGED <<readMode, query, todo, alone, clear>>

LowerVersion(s) ==
    /\ At(s, "visit") /\ todo[s] = {}
    /\ byVersion' = FALSE
    /\ Scanned(s, result[s])
    /\ UNCHANGED <<filter, byName, graphName, raisedFor, nameHistory, query, todo, alone, clear>>

\* A faulty variant of LowerName that forgets the flag.
LowerNameForgets(s) ==
    /\ At(s, "lowerName")
    /\ Goto(s, "named")
    /\ UNCHANGED <<readMode, query, todo, result, rows, alone, clear>>

\* AllNodesByGraphName takes the flag down first.
LowerName(s) ==
    /\ At(s, "lowerName")
    /\ byName' = FALSE
    /\ Goto(s, "named")
    /\ UNCHANGED <<byVersion, filter, graphName, raisedFor, nameHistory, query, todo, result, rows,
                   alone, clear>>

ReadNamed(s) ==
    /\ At(s, "named")
    /\ Scanned(s, GraphPool[graphName])
    /\ UNCHANGED <<readMode, query, todo, alone, clear>>

-----------------------------------------------------------------------------
\* A plan that never asks for all nodes never looks at the read mode.
ReadStore(s) ==
    /\ Reads(s, {"store"})
    /\ result' = [result EXCEPT ![s] = Node]
    /\ Goto(s, "done")
    /\ UNCHANGED <<readMode, query, todo, rows, alone, clear>>

StartLoad(s) ==
    /\ Reads(s, {"load"})
    /\ todo' = [todo EXCEPT ![s] = Relation]
    /\ Goto(s, "load")
    /\ UNCHANGED <<readMode, query, result, rows, alone, clear>>

\* A faulty variant of Load that keeps what the filter rejects.
LoadUnfiltered(s) ==
    /\ At(s, "load")
    /\ \E r \in todo[s] :
          IF byVersion /\ ~Known(r)
          THEN Goto(s, "failed") /\ UNCHANGED <<todo, result>>
          ELSE /\ todo' = [todo EXCEPT ![s] = @ \ {r}]
               /\ result' = [result EXCEPT ![s] = @ \cup {r}]
               /\ UNCHANGED pc
    /\ UNCHANGED <<readMode, query, rows, alone, clear>>

\* visitRelationships: isOkRelation throws for a relation without versions.
Load(s) ==
    /\ At(s, "load")
    /\ \E r \in todo[s] :
          IF byVersion /\ ~Known(r)
          THEN Goto(s, "failed") /\ UNCHANGED <<todo, result>>
          ELSE /\ todo' = [todo EXCEPT ![s] = @ \ {r}]
               /\ result' = [result EXCEPT ![s] = @ \cup IF byVersion THEN Selected(r) ELSE {r}]
               /\ UNCHANGED pc
    /\ UNCHANGED <<readMode, query, rows, alone, clear>>

\* Nothing takes the flag down after a load.
Loaded(s) ==
    /\ At(s, "load") /\ todo[s] = {}
    /\ Goto(s, "done")
    /\ UNCHANGED <<readMode, query, todo, result, rows, alone, clear>>

End(s) ==
    /\ pc[s] \in {"done", "failed"}
    /\ Goto(s, "idle")
    /\ query' = [query EXCEPT ![s] = NoQuery]
    /\ todo' = [todo EXCEPT ![s] = {}]
    /\ result' = [result EXCEPT ![s] = {}]
    /\ rows' = [rows EXCEPT ![s] = Nothing]
    /\ alone' = [alone EXCEPT ![s] = FALSE]
    /\ clear' = [clear EXCEPT ![s] = FALSE]
    /\ UNCHANGED readMode

Step(s) ==
    \/ Select(s) \/ Raise(s)
    \/ CheckVersion(s) \/ CheckName(s) \/ Visit(s) \/ LowerVersion(s)
    \/ LowerName(s) \/ ReadNamed(s)
    \/ ReadStore(s) \/ StartLoad(s) \/ Load(s) \/ Loaded(s)
    \/ End(s)

QueryNext ==
    /\ \E s \in Session : Step(s) \/ \E q \in Query : Begin(s, q)
    /\ UNCHANGED graphVars

QuerySpec == QueryInit /\ [][QueryNext]_queryVars

\* A query that has begun runs on: its thread is scheduled.
FairQuerySpec == QuerySpec /\ \A s \in Session : WF_queryVars(Step(s) /\ UNCHANGED graphVars)

-----------------------------------------------------------------------------
QueryTypeOK ==
    /\ byVersion \in BOOLEAN /\ byName \in BOOLEAN
    /\ filter \in Filters \cup {Nothing}
    /\ graphName \in Name \cup {Nothing}
    /\ raisedFor \in Leaf \cup {Nothing}
    /\ namedBy \in Session \cup {Nothing} /\ namedFor \in Leaf \cup {Nothing}
    /\ overtaken \in BOOLEAN
    /\ query \in [Session -> Query \cup {NoQuery}]
    /\ pc \in [Session -> {"idle", "select", "raise", "read", "visit", "checkName", "lowerName",
                            "named", "load", "done", "failed"}]
    /\ todo \in [Session -> SUBSET Entity]
    /\ result \in [Session -> SUBSET Entity]
    /\ rows \in [Session -> (SUBSET Entity) \cup {Nothing}]
    /\ alone \in [Session -> BOOLEAN]
    /\ clear \in [Session -> BOOLEAN]

\* What a query should return.
Asked(q) ==
    LET all == IF q.leaf = "load" THEN Relation ELSE Node IN
    CASE q.select = "none"    -> all
      [] q.select = "version" -> AllByFilter(all, q.filter)
      [] q.select = "name"    -> GraphPool[q.name]

\* When every plan scans all nodes, the version read mode is up only on behalf
\* of a query that has yet to start its scan, or during a scan that will take
\* it down: it is never left behind, however the queries interleave.
FlagOwned ==
    byVersion => \E s \in Session :
        At(s, "visit") \/ (At(s, "read") /\ query[s].select = "version")

\* ... and so, when no query reads by name either, a query that no other one
\* overlaps answers for its version, whatever ran before it.
AloneIsRight ==
    \A s \in Session :
        At(s, "done") /\ alone[s] /\ query[s].leaf = "all" => result[s] = Asked(query[s])

\* A version clause reaches only the first pattern of a query: undisturbed,
\* every scan for the second pattern returns the nodes of all versions, and
\* those without any; there is one for each node of the version.
SecondPatternUnversioned ==
    \A s \in Session :
        At(s, "done") /\ alone[s] /\ query[s].leaf = "pair" =>
            result[s] = IF Asked(query[s]) = {} THEN {} ELSE Node

\* The read mode comes down again and again: no mix of scans keeps it up.
FlagFalls == []<>~byVersion

\* Whatever the plans read: a query that nothing overlaps, and that begins
\* with the read mode down, returns what it asks for, unless it never looks.
RightIfUndisturbed ==
    \A s \in Session :
        At(s, "done") /\ alone[s] /\ clear[s] /\ query[s].leaf \in {"all", "load"} =>
            result[s] = Asked(query[s])

\* isReadByVersion left up, for the next query of anyone to obey, was raised by
\* a query whose plan does not scan all nodes.
VersionLeakOrigin ==
    byVersion /\ (\A s \in Session : At(s, "idle")) => raisedFor \in {"store", "load"}

\* isReadByName can be left up by a scan as well: it was raised by a query whose
\* plan does not scan all nodes, or by one that found isReadByVersion up first
\* and was answered with a version instead.
NameLeakOrigin ==
    byName /\ (\A s \in Session : At(s, "idle")) => namedFor = "store" \/ overtaken
=============================================================================
