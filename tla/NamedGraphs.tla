------------------------------ MODULE NamedGraphs ------------------------------
(***************************************************************************)
(* cn.DynamicGraph.graphdb.kernel.UserGraph, the named graphs of the       *)
(* database, and the queries that fill and read them.  CREATE GRAPH        *)
(* (CreateGraphPipe) reads its source to the end, puts an empty graph      *)
(* under the name, and then adds the nodes one by one, looking the name up *)
(* again for each.  A scan by name looks it up once and keeps an iterator. *)
(* Nothing is locked: a HashMap and HashSets are shared by all sessions.   *)
(*                                                                         *)
(* Overlapping puts into one collection may lose any of its entries, and a *)
(* look-up during a put may miss the name.  An iterator throws when it     *)
(* finds the modification count changed, which an add changes only after   *)
(* it has inserted.  Which name a scan reads is VersionedQueries' matter.  *)
(***************************************************************************)
EXTENDS Integers, FiniteSets

CONSTANTS
    Session, Node,
    GraphName, NoName,
    MaxGraphs     \* bound: graphs ever put under a name

ASSUME NamedAssumption ==
    IsFiniteSet(Session) /\ MaxGraphs \in Nat /\ NoName \notin GraphName

VARIABLES
    graphPool,    \* the number of the graph under each name
    graphs, made, \* the contents of the graphs, and how many there are
    pc, name,     \* what each session does next, and to which name
    nodes,        \* nodeIds still to be added
    target,       \* the graph looked up, to add to or to iterate over
    seen, result, \* a reader: what there was at first, what it has returned
    stale,        \* the modification count is not the one the iterator has
    asked, joining,  \* history of each graph: the nodes of its CREATE GRAPH, and
                     \* those that earlier ones of the name had yet to add
    during,       \* history: the name was being filled when the read began
    shaken        \* history: an entry was, or may have been, lost or missed

pool == <<graphPool, graphs, made>>
control == <<pc, name, nodes, target>>
reading == <<seen, result, stale, during>>
history == <<asked, joining, shaken>>
vars == <<pool, control, reading, history>>

NoGraph == 0
Graph == 1..MaxGraphs

Init ==
    /\ graphPool = [n \in GraphName |-> NoGraph]
    /\ graphs = [g \in Graph |-> {}] /\ made = 0
    /\ pc = [s \in Session |-> "idle"]
    /\ name = [s \in Session |-> NoName]
    /\ nodes = [s \in Session |-> {}]
    /\ target = [s \in Session |-> NoGraph]
    /\ seen = nodes /\ result = nodes
    /\ stale = [s \in Session |-> FALSE]
    /\ asked = graphs /\ joining = graphs
    /\ during = stale
    /\ shaken = FALSE

-----------------------------------------------------------------------------
Filling(s, n) == pc[s] \in {"lookup", "add", "count"} /\ name[s] = n
BeingFilled(n) == \E s \in Session : Filling(s, n)

\* Another session is in the middle of a put into the HashMap of the names.
PoolInUse(s) == \E t \in Session \ {s} : pc[t] = "put"

\* What looking n up may find.
Found(s, n) == {graphPool[n]} \cup (IF PoolInUse(s) THEN {NoGraph} ELSE {})

\* What changing the entry of n to g may leave in the HashMap.
PoolWith(s, n, g) ==
    {[m \in GraphName |->
         IF m \in lost THEN NoGraph ELSE IF m = n THEN g ELSE graphPool[m]] :
        lost \in IF PoolInUse(s) THEN SUBSET GraphName ELSE {{}}}

\* Another session is in the middle of an add to the HashSet of the same graph.
GraphInUse(s) ==
    \E t \in Session \ {s} : pc[t] \in {"add", "count"} /\ target[t] = target[s]

\* The loop goes on while there are nodes.
NextNode(s, left) ==
    IF left # {} THEN pc' = [pc EXCEPT ![s] = "lookup"] /\ UNCHANGED name
                 ELSE pc' = [pc EXCEPT ![s] = "idle"] /\ name' = [name EXCEPT ![s] = NoName]

-----------------------------------------------------------------------------
\* CREATE GRAPH n has read its source to the end, and found S: the nodes, and
\* the end nodes of relations.  Any other value is a match error, which ends
\* the query before it has changed anything.
Collect(s, n, S) ==
    /\ pc[s] = "idle"
    /\ made + Cardinality({t \in Session : pc[t] = "put"}) < MaxGraphs
    /\ pc' = [pc EXCEPT ![s] = "put"]
    /\ name' = [name EXCEPT ![s] = n]
    /\ nodes' = [nodes EXCEPT ![s] = S]
    /\ UNCHANGED <<pool, target, reading, history>>

\* A faulty variant: a name that has a graph is emptied and keeps it.
AddGraphReuses(s) ==
    LET n == name[s]
        g == IF graphPool[n] = NoGraph THEN made + 1 ELSE graphPool[n] IN
    /\ pc[s] = "put"
    /\ graphPool' \in PoolWith(s, n, g)
    /\ graphs' = [graphs EXCEPT ![g] = {}]
    /\ made' = IF graphPool[n] = NoGraph THEN g ELSE made
    /\ NextNode(s, nodes[s])
    /\ stale' = [t \in Session |-> stale[t] \/ (pc[t] = "read" /\ target[t] = g)]
    /\ asked' = [asked EXCEPT ![g] = nodes[s]]
    /\ joining' = [joining EXCEPT ![g] =
                      UNION {nodes[t] : t \in {u \in Session \ {s} : Filling(u, n)}}]
    /\ shaken' = (shaken \/ PoolInUse(s))
    /\ UNCHANGED <<nodes, target, seen, result, during>>

\* addGraph: a new graph replaces the one that had the name.
AddGraph(s) ==
    LET n == name[s]
        g == made + 1 IN
    /\ pc[s] = "put"
    /\ graphPool' \in PoolWith(s, n, g)
    /\ made' = g
    /\ NextNode(s, nodes[s])
    /\ asked' = [asked EXCEPT ![g] = nodes[s]]
    /\ joining' = [joining EXCEPT ![g] =
                      UNION {nodes[t] : t \in {u \in Session \ {s} : Filling(u, n)}}]
    /\ shaken' = (shaken \/ PoolInUse(s))
    /\ UNCHANGED <<graphs, nodes, target, reading>>

\* A faulty variant: the graph made for a missing name is kept under it.
LookupPuts(s) ==
    /\ pc[s] = "lookup"
    /\ IF graphPool[name[s]] = NoGraph /\ made < MaxGraphs
       THEN /\ made' = made + 1
            /\ graphPool' = [graphPool EXCEPT ![name[s]] = made + 1]
            /\ target' = [target EXCEPT ![s] = made + 1]
       ELSE /\ target' = [target EXCEPT ![s] = graphPool[name[s]]]
            /\ UNCHANGED <<made, graphPool>>
    /\ pc' = [pc EXCEPT ![s] = "add"]
    /\ UNCHANGED <<graphs, name, nodes, reading, history>>

\* getGraph, for the next node: a graph of nobody's if there is none.
Lookup(s) ==
    /\ pc[s] = "lookup"
    /\ \E g \in Found(s, name[s]) :
          /\ target' = [target EXCEPT ![s] = g]
          /\ shaken' = (shaken \/ g # graphPool[name[s]])
    /\ pc' = [pc EXCEPT ![s] = "add"]
    /\ UNCHANGED <<pool, name, nodes, reading, asked, joining>>

\* addNode: the set is changed first, ...
Insert(s) ==
    /\ pc[s] = "add"
    /\ \E x \in nodes[s] :
          LET g == target[s] IN
          /\ nodes' = [nodes EXCEPT ![s] = @ \ {x}]
          /\ IF g = NoGraph \/ x \in graphs[g]
             THEN /\ NextNode(s, nodes[s] \ {x})
                  /\ target' = [target EXCEPT ![s] = NoGraph]
                  /\ UNCHANGED <<graphs, shaken>>
             ELSE /\ pc' = [pc EXCEPT ![s] = "count"] /\ UNCHANGED <<name, target>>
                  /\ \E lost \in IF GraphInUse(s) THEN SUBSET (graphs[g] \cup {x}) ELSE {{}} :
                        graphs' = [graphs EXCEPT ![g] = (@ \cup {x}) \ lost]
                  /\ shaken' = (shaken \/ GraphInUse(s))
    /\ UNCHANGED <<graphPool, made, reading, asked, joining>>

\* ... its modification count afterwards.
Count(s) ==
    /\ pc[s] = "count"
    /\ stale' = [t \in Session |-> stale[t] \/ (pc[t] = "read" /\ target[t] = target[s])]
    /\ NextNode(s, nodes[s])
    /\ target' = [target EXCEPT ![s] = NoGraph]
    /\ UNCHANGED <<pool, nodes, seen, result, during, history>>

\* deleteGraph, by a program that embeds the database: no query calls it.
DeleteGraph(s, n) ==
    /\ pc[s] = "idle"
    /\ graphPool[n] # NoGraph
    /\ graphPool' \in PoolWith(s, n, NoGraph)
    /\ shaken' = (shaken \/ PoolInUse(s))
    /\ UNCHANGED <<graphs, made, control, reading, asked, joining>>

-----------------------------------------------------------------------------
\* AllNodesByGraphName: the name is looked up and an iterator made.
Open(s, n) ==
    /\ pc[s] = "idle"
    /\ \E g \in Found(s, n) :
          /\ target' = [target EXCEPT ![s] = g]
          /\ seen' = [seen EXCEPT ![s] = IF g = NoGraph THEN {} ELSE graphs[g]]
          /\ shaken' = (shaken \/ g # graphPool[n])
    /\ pc' = [pc EXCEPT ![s] = "read"]
    /\ result' = [result EXCEPT ![s] = {}]
    /\ stale' = [stale EXCEPT ![s] = FALSE]
    /\ during' = [during EXCEPT ![s] = BeingFilled(n)]
    /\ UNCHANGED <<pool, name, nodes, asked, joining>>

Ahead(s) == (IF target[s] = NoGraph THEN {} ELSE graphs[target[s]]) \ result[s]

\* The next node, which may have come after the iterator; or it throws.
Fetch(s) ==
    /\ pc[s] = "read"
    /\ \E x \in Ahead(s) :
          IF stale[s] THEN pc' = [pc EXCEPT ![s] = "failed"] /\ UNCHANGED result
                      ELSE result' = [result EXCEPT ![s] = @ \cup {x}] /\ UNCHANGED pc
    /\ UNCHANGED <<pool, name, nodes, target, seen, stale, during, history>>

\* The iterator is past what it was made for; what came later may be behind it.
Finish(s) ==
    /\ pc[s] = "read"
    /\ Ahead(s) \cap seen[s] = {}
    /\ pc' = [pc EXCEPT ![s] = "done"]
    /\ UNCHANGED <<pool, name, nodes, target, reading, history>>

Close(s) ==
    /\ pc[s] \in {"done", "failed"}
    /\ pc' = [pc EXCEPT ![s] = "idle"]
    /\ target' = [target EXCEPT ![s] = NoGraph]
    /\ seen' = [seen EXCEPT ![s] = {}] /\ result' = [result EXCEPT ![s] = {}]
    /\ stale' = [stale EXCEPT ![s] = FALSE] /\ during' = [during EXCEPT ![s] = FALSE]
    /\ UNCHANGED <<pool, name, nodes, history>>

Next ==
    \E s \in Session :
        \/ \E n \in GraphName, S \in SUBSET Node : Collect(s, n, S)
        \/ AddGraph(s) \/ Lookup(s) \/ Insert(s) \/ Count(s)
        \/ \E n \in GraphName : DeleteGraph(s, n) \/ Open(s, n)
        \/ Fetch(s) \/ Finish(s) \/ Close(s)

Spec == Init /\ [][Next]_vars

-----------------------------------------------------------------------------
\* Unless an entry was lost, the graph under a name holds what the CREATE GRAPH
\* that put it there collected, when none is under way, however many overlapped
\* and whatever was deleted; and nothing else but what earlier
\* ones of the same name had yet to add (CreateGraphPipe.scala:44).
NamedAsAsked ==
    ~shaken =>
        \A n \in GraphName :
            LET g == graphPool[n] IN
            g # NoGraph =>
                /\ graphs[g] \subseteq asked[g] \cup joining[g]
                /\ ~BeingFilled(n) => asked[g] \subseteq graphs[g]

\* A read by name that begins while nobody fills that graph never throws,
\* though the name be given to another graph or deleted meanwhile, and returns
\* what the CREATE GRAPH of its graph collected, none of it left out.
ReadIsWhole ==
    ~shaken =>
        \A s \in Session :
            ~during[s] =>
                /\ pc[s] # "failed"
                /\ pc[s] = "done" /\ target[s] # NoGraph =>
                       /\ asked[target[s]] \subseteq result[s]
                       /\ result[s] \subseteq asked[target[s]] \cup joining[target[s]]
=============================================================================
