--------------------------- MODULE NamedGraphsProofs ---------------------------
(***************************************************************************)
(* Theorems of NamedGraphs, for any number of sessions, names, nodes and   *)
(* graphs.  The invariant says whose a graph is: one name has it, only     *)
(* sessions that fill that name hold it, each node in it or still to be    *)
(* added to it was collected for it, and each node that is not in it yet   *)
(* is held by a session that will look up this graph.  A reader that began *)
(* while nobody filled its graph is then alone with it for good, because   *)
(* the next CREATE GRAPH of the name makes another graph first.            *)
(***************************************************************************)
EXTENDS NamedGraphs, FiniteSetTheorems, TLAPS

Busy == {"put", "lookup", "add", "count"}
Reading(s) == pc[s] \in {"read", "done", "failed"}
Adding(s) == pc[s] \in {"add", "count"}

TypeOK ==
    /\ made \in 0..MaxGraphs
    /\ graphPool \in [GraphName -> 0..made]
    /\ graphs \in [Graph -> SUBSET Node]
    /\ pc \in [Session -> Busy \cup {"idle", "read", "done", "failed"}]
    /\ name \in [Session -> GraphName \cup {NoName}]
    /\ \A s \in Session : pc[s] \in Busy => name[s] \in GraphName
    /\ nodes \in [Session -> SUBSET Node]
    /\ target \in [Session -> 0..made]
    /\ seen \in [Session -> SUBSET Node]
    /\ result \in [Session -> SUBSET Node]
    /\ stale \in [Session -> BOOLEAN]
    /\ during \in [Session -> BOOLEAN]
    /\ asked \in [Graph -> SUBSET Node]
    /\ joining \in [Graph -> SUBSET Node]
    /\ shaken \in BOOLEAN

\* Every CREATE GRAPH that is under way finds room for its graph.
Putting == {t \in Session : pc[t] = "put"}
Room == made + Cardinality(Putting) <= MaxGraphs

\* A graph has one name, also for who has looked it up before.
OneName ==
    /\ \A m, n \in GraphName : graphPool[m] = graphPool[n] /\ graphPool[n] # NoGraph => m = n
    /\ \A t \in Session, n \in GraphName :
          Adding(t) /\ target[t] = graphPool[n] /\ target[t] # NoGraph => n = name[t]
    /\ \A t \in Session : pc[t] = "count" => target[t] # NoGraph

Expected(g) == asked[g] \cup joining[g]

\* Nothing is in a graph, or on its way into it, that was not collected for it.
OnlyExpected ==
    /\ \A g \in Graph : g > made => graphs[g] = {}
    /\ \A g \in Graph : graphs[g] \subseteq Expected(g)
    /\ \A t \in Session, n \in GraphName :
          Filling(t, n) /\ graphPool[n] # NoGraph => nodes[t] \subseteq Expected(graphPool[n])
    /\ \A t \in Session :
          Adding(t) /\ target[t] # NoGraph => nodes[t] \subseteq Expected(target[t])

\* x is still to come into the graph of n: t has it and will find that graph.
Brings(t, x, n) ==
    /\ Filling(t, n)
    /\ x \in nodes[t]
    /\ pc[t] = "add" => target[t] = graphPool[n]

NothingForgotten ==
    ~shaken =>
        \A n \in GraphName :
            graphPool[n] # NoGraph =>
                \A x \in asked[graphPool[n]] \ graphs[graphPool[n]] :
                    \E t \in Session : Brings(t, x, n)

\* Nobody adds to the graph g or will find it to add to it.
Rests(g) ==
    /\ \A t \in Session : Adding(t) => target[t] # g
    /\ \A n \in GraphName : graphPool[n] = g => ~BeingFilled(n)

Served(s) ==
    /\ target[s] # NoGraph => result[s] \subseteq Expected(target[s])
    /\ ~during[s] => pc[s] # "failed" /\ ~stale[s]
    /\ ~during[s] /\ target[s] # NoGraph =>
           /\ Rests(target[s])
           /\ ~shaken => /\ asked[target[s]] \subseteq seen[s]
                         /\ seen[s] \subseteq graphs[target[s]]
                         /\ pc[s] = "done" => seen[s] \subseteq result[s]

ReadersServed == \A s \in Session : Reading(s) => Served(s)

NamedInv ==
    /\ TypeOK
    /\ Room
    /\ OneName
    /\ OnlyExpected
    /\ NothingForgotten
    /\ ReadersServed

-----------------------------------------------------------------------------
\* What the steps have in common.

\* A change of the HashMap leaves every name with what it should have, or with
\* nothing, and the latter only if puts overlap.
LEMMA PoolAfter ==
  ASSUME TypeOK, NEW s \in Session, NEW n \in GraphName, NEW g \in Nat,
         graphPool' \in PoolWith(s, n, g)
  PROVE  /\ \A m \in GraphName :
               graphPool'[m] = NoGraph \/ graphPool'[m] = IF m = n THEN g ELSE graphPool[m]
         /\ ~PoolInUse(s) =>
               \A m \in GraphName : graphPool'[m] = IF m = n THEN g ELSE graphPool[m]
         /\ \A k \in Nat : made <= k /\ g <= k => graphPool' \in [GraphName -> 0..k]
  <1>1. PICK lost : /\ lost \in (IF PoolInUse(s) THEN SUBSET GraphName ELSE {{}})
                    /\ graphPool' = [m \in GraphName |->
                          IF m \in lost THEN NoGraph ELSE IF m = n THEN g ELSE graphPool[m]]
    BY DEF PoolWith
  <1>2. \A m \in GraphName :
           graphPool'[m] = IF m \in lost THEN NoGraph ELSE IF m = n THEN g ELSE graphPool[m]
    BY <1>1
  <1>3. ~PoolInUse(s) => lost = {}
    BY <1>1
  <1>4. ASSUME NEW k \in Nat, made <= k, g <= k
        PROVE  graphPool' \in [GraphName -> 0..k]
    <2>1. \A m \in GraphName : graphPool[m] \in 0..k
      BY <1>4, NamedAssumption DEF TypeOK
    <2>2. NoGraph \in 0..k /\ g \in 0..k
      BY <1>4 DEF NoGraph
    <2>3. QED
      BY <1>1, <2>1, <2>2
  <1>5. QED
    BY <1>2, <1>3, <1>4

\* The loop over the nodes goes on with this name, or ends.
LEMMA NextNodeAfter ==
  ASSUME TypeOK, NEW s \in Session, NEW left, NextNode(s, left)
  PROVE  /\ pc' = [pc EXCEPT ![s] = IF left # {} THEN "lookup" ELSE "idle"]
         /\ \A t \in Session \ {s} : pc'[t] = pc[t] /\ name'[t] = name[t]
         /\ pc'[s] = IF left # {} THEN "lookup" ELSE "idle"
         /\ left # {} => name'[s] = name[s]
         /\ name' \in [Session -> GraphName \cup {NoName}]
  BY DEF TypeOK, NextNode

\* The session that puts has a name and room for its graph.
LEMMA RoomForOne ==
  ASSUME TypeOK, Room, NEW s \in Session, pc[s] = "put"
  PROVE  /\ name[s] \in GraphName
         /\ made + 1 \in Graph /\ made \in Nat
         /\ IsFiniteSet(Putting)
         /\ Cardinality(Putting \ {s}) = Cardinality(Putting) - 1
         /\ Cardinality(Putting) \in Nat
  <1>1. IsFiniteSet(Putting)
    BY NamedAssumption, FS_Subset DEF Putting
  <1>2. s \in Putting
    BY DEF Putting
  <1>3. /\ Cardinality(Putting) \in Nat
        /\ Cardinality(Putting \ {s}) \in Nat
        /\ IsFiniteSet(Putting \ {s})
    BY <1>1, FS_CardinalityType, FS_RemoveElement
  <1>4. Cardinality(Putting \ {s}) = Cardinality(Putting) - 1
    BY <1>1, <1>2, FS_RemoveElement
  <1>5. made + 1 \in Graph /\ made \in Nat
    BY <1>3, <1>4, NamedAssumption DEF TypeOK, Room, Graph
  <1>6. QED
    BY <1>1, <1>3, <1>4, <1>5 DEF TypeOK, Busy

\* addGraph makes the next graph, with nothing in it that was not there, and
\* changes what is known of no other.
LEMMA AddGraphDoes ==
  ASSUME TypeOK, Room, NEW s \in Session, AddGraph(s)
  PROVE  /\ name[s] \in GraphName /\ made + 1 \in Graph /\ made \in Nat
         /\ made' = made + 1
         /\ \A m \in GraphName :
               \/ graphPool'[m] = NoGraph
               \/ graphPool'[m] = IF m = name[s] THEN made + 1 ELSE graphPool[m]
         /\ ~PoolInUse(s) =>
               \A m \in GraphName :
                  graphPool'[m] = IF m = name[s] THEN made + 1 ELSE graphPool[m]
         /\ graphPool' \in [GraphName -> 0..made']
         /\ \A h \in Graph \ {made + 1} : asked'[h] = asked[h] /\ joining'[h] = joining[h]
         /\ asked'[made + 1] = nodes[s]
         /\ \A t \in Session \ {s} :
               Filling(t, name[s]) => nodes[t] \subseteq joining'[made + 1]
         /\ asked' \in [Graph -> SUBSET Node] /\ joining' \in [Graph -> SUBSET Node]
  <1>1. /\ pc[s] = "put"
        /\ graphPool' \in PoolWith(s, name[s], made + 1)
        /\ made' = made + 1
        /\ asked' = [asked EXCEPT ![made + 1] = nodes[s]]
        /\ joining' = [joining EXCEPT ![made + 1] =
                          UNION {nodes[t] : t \in {u \in Session \ {s} : Filling(u, name[s])}}]
    BY DEF AddGraph
  <1>2. name[s] \in GraphName /\ made + 1 \in Graph /\ made \in Nat
    BY <1>1, RoomForOne
  <1>3. graphPool' \in [GraphName -> 0..made']
    BY <1>1, <1>2, PoolAfter
  <1>4. UNION {nodes[t] : t \in {u \in Session \ {s} : Filling(u, name[s])}} \in SUBSET Node
    BY DEF TypeOK
  <1>5. /\ asked' \in [Graph -> SUBSET Node] /\ joining' \in [Graph -> SUBSET Node]
        /\ \A h \in Graph \ {made + 1} : asked'[h] = asked[h] /\ joining'[h] = joining[h]
        /\ asked'[made + 1] = nodes[s]
    BY <1>1, <1>2, <1>4 DEF TypeOK
  <1>6. joining'[made + 1] =
           UNION {nodes[t] : t \in {u \in Session \ {s} : Filling(u, name[s])}}
    BY <1>1, <1>2 DEF TypeOK
  <1>7. \A t \in Session \ {s} : Filling(t, name[s]) => nodes[t] \subseteq joining'[made + 1]
    BY <1>6
  <1>8. /\ \A m \in GraphName :
              \/ graphPool'[m] = NoGraph
              \/ graphPool'[m] = IF m = name[s] THEN made + 1 ELSE graphPool[m]
        /\ ~PoolInUse(s) =>
              \A m \in GraphName :
                 graphPool'[m] = IF m = name[s] THEN made + 1 ELSE graphPool[m]
    BY <1>1, <1>2, PoolAfter
  <1>9. QED
    BY <1>1, <1>2, <1>3, <1>5, <1>7, <1>8

\* addNode: the node is there, or there is no graph, and the loop goes on; or it
\* is put into the graph, where others may be lost if puts overlap.
InsertAlready(s, x) ==
    /\ target[s] = NoGraph \/ x \in graphs[target[s]]
    /\ NextNode(s, nodes[s] \ {x})
    /\ target' = [target EXCEPT ![s] = NoGraph]
    /\ UNCHANGED <<graphs, shaken>>

InsertNow(s, x) ==
    /\ target[s] \in Graph /\ x \notin graphs[target[s]]
    /\ pc' = [pc EXCEPT ![s] = "count"]
    /\ UNCHANGED <<name, target>>
    /\ graphs' \in [Graph -> SUBSET Node]
    /\ \A h \in Graph \ {target[s]} : graphs'[h] = graphs[h]
    /\ graphs'[target[s]] \subseteq graphs[target[s]] \cup {x}
    /\ ~shaken' => graphs'[target[s]] = graphs[target[s]] \cup {x}
    /\ shaken' \in BOOLEAN /\ (shaken => shaken')

LEMMA InsertDoes ==
  ASSUME TypeOK, NEW s \in Session, Insert(s)
  PROVE  /\ pc[s] = "add"
         /\ \E x \in nodes[s] :
               /\ nodes' = [nodes EXCEPT ![s] = @ \ {x}]
               /\ InsertAlready(s, x) \/ InsertNow(s, x)
         /\ UNCHANGED <<graphPool, made, seen, result, stale, during, asked, joining>>
  <1>1. PICK x \in nodes[s] :
               LET g == target[s] IN
               /\ nodes' = [nodes EXCEPT ![s] = @ \ {x}]
               /\ IF g = NoGraph \/ x \in graphs[g]
                  THEN /\ NextNode(s, nodes[s] \ {x})
                       /\ target' = [target EXCEPT ![s] = NoGraph]
                       /\ UNCHANGED <<graphs, shaken>>
                  ELSE /\ pc' = [pc EXCEPT ![s] = "count"] /\ UNCHANGED <<name, target>>
                       /\ \E lost \in IF GraphInUse(s) THEN SUBSET (graphs[g] \cup {x})
                                                       ELSE {{}} :
                             graphs' = [graphs EXCEPT ![g] = (@ \cup {x}) \ lost]
                       /\ shaken' = (shaken \/ GraphInUse(s))
    BY DEF Insert
  <1>2. CASE target[s] = NoGraph \/ x \in graphs[target[s]]
    <2>1. InsertAlready(s, x)
      BY <1>1, <1>2 DEF InsertAlready
    <2>2. QED
      BY <1>1, <2>1 DEF Insert, reading
  <1>3. CASE ~(target[s] = NoGraph \/ x \in graphs[target[s]])
    <2> DEFINE g == target[s]
    <2>1. g \in Graph /\ x \in Node
      BY <1>3, NamedAssumption DEF TypeOK, NoGraph, Graph
    <2>2. PICK lost \in (IF GraphInUse(s) THEN SUBSET (graphs[g] \cup {x}) ELSE {{}}) :
                 graphs' = [graphs EXCEPT ![g] = (@ \cup {x}) \ lost]
      BY <1>1, <1>3
    <2>3. shaken' = (shaken \/ GraphInUse(s))
      BY <1>1, <1>3
    <2>4. /\ graphs'[g] = (graphs[g] \cup {x}) \ lost
          /\ \A h \in Graph \ {g} : graphs'[h] = graphs[h]
          /\ graphs' \in [Graph -> SUBSET Node]
      BY <2>1, <2>2 DEF TypeOK
    <2>5. ~shaken' => lost = {}
      BY <2>3, <2>2
    <2>6. shaken' \in BOOLEAN
      BY <2>3, Zenon
    <2>7. InsertNow(s, x)
      BY <1>1, <1>3, <2>1, <2>3, <2>4, <2>5, <2>6 DEF InsertNow
    <2>8. QED
      BY <1>1, <2>7 DEF Insert, reading
  <1>4. QED
    BY <1>2, <1>3

-----------------------------------------------------------------------------
LEMMA InitNamedInv == Init => NamedInv
  <1> SUFFICES ASSUME Init
               PROVE  NamedInv
    OBVIOUS
  <1> USE NamedAssumption DEF Init
  <1>1. TypeOK
    <2>1. /\ seen = [s \in Session |-> {}] /\ result = [s \in Session |-> {}]
          /\ asked = [g \in Graph |-> {}] /\ joining = [g \in Graph |-> {}]
          /\ during = [s \in Session |-> FALSE]
      OBVIOUS
    <2>2. /\ made \in 0..MaxGraphs /\ NoGraph \in 0..made
          /\ graphPool \in [GraphName -> 0..made] /\ target \in [Session -> 0..made]
      BY DEF NoGraph
    <2>3. /\ pc \in [Session -> Busy \cup {"idle", "read", "done", "failed"}]
          /\ \A s \in Session : pc[s] \notin Busy
      BY DEF Busy
    <2>4. QED
      BY <2>1, <2>2, <2>3 DEF TypeOK
  <1>2. Room
    <2>1. Putting = {}
      BY DEF Putting
    <2>2. QED
      BY <2>1, FS_EmptySet DEF Room
  <1>3. OneName /\ OnlyExpected /\ NothingForgotten /\ ReadersServed
    BY DEF OneName, OnlyExpected, NothingForgotten, ReadersServed, Filling, Adding, Reading
  <1>4. QED
    BY <1>1, <1>2, <1>3 DEF NamedInv

LEMMA TypeStep == TypeOK /\ Room /\ [Next]_vars => TypeOK'
  <1> SUFFICES ASSUME TypeOK, Room, [Next]_vars
               PROVE  TypeOK'
    OBVIOUS
  <1> USE NamedAssumption DEF TypeOK, Busy
  <1>1. ASSUME NEW s \in Session, NEW n \in GraphName, NEW S \in SUBSET Node, Collect(s, n, S)
        PROVE  TypeOK'
    BY <1>1 DEF Collect, pool, reading, history
  <1>2. ASSUME NEW s \in Session, AddGraph(s)
        PROVE  TypeOK'
    <2>1. /\ made' \in 0..MaxGraphs
          /\ made \in Nat /\ made' = made + 1
          /\ graphPool' \in [GraphName -> 0..made']
          /\ asked' \in [Graph -> SUBSET Node] /\ joining' \in [Graph -> SUBSET Node]
      BY <1>2, AddGraphDoes DEF Graph
    <2>2. /\ pc[s] = "put"
          /\ NextNode(s, nodes[s])
          /\ shaken' = (shaken \/ PoolInUse(s))
          /\ UNCHANGED <<graphs, nodes, target, reading>>
      BY <1>2 DEF AddGraph
    <2>3. /\ pc' = [pc EXCEPT ![s] = IF nodes[s] # {} THEN "lookup" ELSE "idle"]
          /\ name' \in [Session -> GraphName \cup {NoName}]
          /\ \A t \in Session : pc'[t] \in Busy => name'[t] \in GraphName
      BY <2>2, NextNodeAfter
    <2>4. target' \in [Session -> 0..made']
      BY <2>1, <2>2
    <2>5. shaken' \in BOOLEAN
      BY <2>2, Zenon
    <2>6. QED
      BY <2>1, <2>2, <2>3, <2>4, <2>5 DEF reading
  <1>3. ASSUME NEW s \in Session, Lookup(s)
        PROVE  TypeOK'
    <2>1. PICK g \in Found(s, name[s]) :
                 /\ target' = [target EXCEPT ![s] = g]
                 /\ shaken' = (shaken \/ g # graphPool[name[s]])
      BY <1>3 DEF Lookup
    <2>2. g \in 0..made
      BY <1>3, <2>1 DEF Lookup, Found, NoGraph
    <2>3. shaken' \in BOOLEAN
      BY <2>1, Zenon
    <2>4. QED
      BY <1>3, <2>1, <2>2, <2>3 DEF Lookup, pool, reading
  <1>4. ASSUME NEW s \in Session, Insert(s)
        PROVE  TypeOK'
    <2>1. PICK x \in nodes[s] :
               /\ nodes' = [nodes EXCEPT ![s] = @ \ {x}]
               /\ InsertAlready(s, x) \/ InsertNow(s, x)
      BY <1>4, InsertDoes
    <2>2. /\ pc[s] = "add"
          /\ UNCHANGED <<graphPool, made, seen, result, stale, during, asked, joining>>
      BY <1>4, InsertDoes
    <2>3. CASE InsertAlready(s, x)
      <3>1. /\ pc' = [pc EXCEPT ![s] = IF nodes[s] \ {x} # {} THEN "lookup" ELSE "idle"]
            /\ name' \in [Session -> GraphName \cup {NoName}]
            /\ \A t \in Session \ {s} : pc'[t] = pc[t] /\ name'[t] = name[t]
            /\ pc'[s] \in Busy => name'[s] = name[s]
        BY <2>3, NextNodeAfter DEF InsertAlready
      <3>2. \A t \in Session : pc'[t] \in Busy => name'[t] \in GraphName
        BY <2>2, <3>1
      <3>3. QED
        BY <2>1, <2>2, <2>3, <3>1, <3>2 DEF InsertAlready, NoGraph
    <2>4. CASE InsertNow(s, x)
      BY <2>1, <2>2, <2>4 DEF InsertNow
    <2>5. QED
      BY <2>1, <2>3, <2>4
  <1>5. ASSUME NEW s \in Session, Count(s)
        PROVE  TypeOK'
    <2>1. /\ pc' = [pc EXCEPT ![s] = IF nodes[s] # {} THEN "lookup" ELSE "idle"]
          /\ name' \in [Session -> GraphName \cup {NoName}]
          /\ \A t \in Session : pc'[t] \in Busy => name'[t] \in GraphName
      BY <1>5, NextNodeAfter DEF Count
    <2>2. stale' \in [Session -> BOOLEAN]
      BY <1>5, Zenon DEF Count
    <2>3. QED
      BY <1>5, <2>1, <2>2 DEF Count, pool, history, NoGraph
  <1>6. ASSUME NEW s \in Session, NEW n \in GraphName, DeleteGraph(s, n)
        PROVE  TypeOK'
    <2>1. graphPool' \in [GraphName -> 0..made]
      <3>1. NoGraph \in Nat /\ made \in Nat /\ made <= made /\ NoGraph <= made
        BY DEF NoGraph
      <3>2. graphPool' \in PoolWith(s, n, NoGraph)
        BY <1>6 DEF DeleteGraph
      <3>3. QED
        BY <3>1, <3>2, PoolAfter
    <2>2. shaken' \in BOOLEAN
      BY <1>6, Zenon DEF DeleteGraph
    <2>3. QED
      BY <1>6, <2>1, <2>2 DEF DeleteGraph, control, reading
  <1>7. ASSUME NEW s \in Session, NEW n \in GraphName, Open(s, n)
        PROVE  TypeOK'
    <2>1. PICK g \in Found(s, n) :
                 /\ target' = [target EXCEPT ![s] = g]
                 /\ seen' = [seen EXCEPT ![s] = IF g = NoGraph THEN {} ELSE graphs[g]]
                 /\ shaken' = (shaken \/ g # graphPool[n])
      BY <1>7 DEF Open
    <2>2. g \in 0..made
      BY <2>1 DEF Found, NoGraph
    <2>3. g # NoGraph => g \in Graph
      BY <2>2 DEF NoGraph, Graph
    <2>4. (IF g = NoGraph THEN {} ELSE graphs[g]) \in SUBSET Node
      BY <2>3
    <2>5. shaken' \in BOOLEAN
      BY <2>1, Zenon
    <2>6. BeingFilled(n) \in BOOLEAN
      BY DEF BeingFilled
    <2>7. QED
      BY <1>7, <2>1, <2>2, <2>4, <2>5, <2>6 DEF Open, pool
  <1>8. ASSUME NEW s \in Session, Fetch(s)
        PROVE  TypeOK'
    <2>1. PICK x \in Ahead(s) :
                 IF stale[s] THEN pc' = [pc EXCEPT ![s] = "failed"] /\ UNCHANGED result
                             ELSE result' = [result EXCEPT ![s] = @ \cup {x}] /\ UNCHANGED pc
      BY <1>8 DEF Fetch
    <2>2. target[s] # NoGraph => target[s] \in Graph
      BY DEF NoGraph, Graph
    <2>3. x \in Node
      BY <2>2 DEF Ahead
    <2>4. QED
      BY <1>8, <2>1, <2>3 DEF Fetch, pool, history
  <1>9. ASSUME NEW s \in Session, Finish(s)
        PROVE  TypeOK'
    BY <1>9 DEF Finish, pool, reading, history
  <1>10. ASSUME NEW s \in Session, Close(s)
         PROVE  TypeOK'
    BY <1>10 DEF Close, pool, history, NoGraph
  <1>11. CASE UNCHANGED vars
    BY <1>11 DEF vars, pool, control, reading, history
  <1>12. QED
    BY <1>1, <1>2, <1>3, <1>4, <1>5, <1>6, <1>7, <1>8, <1>9, <1>10, <1>11 DEF Next

\* A CREATE GRAPH that begins takes the room for its graph, and addGraph uses it.
LEMMA RoomStep == TypeOK /\ Room /\ [Next]_vars => Room'
  <1> SUFFICES ASSUME TypeOK, Room, [Next]_vars
               PROVE  Room'
    OBVIOUS
  <1>1. IsFiniteSet(Putting) /\ Cardinality(Putting) \in Nat
    BY NamedAssumption, FS_Subset, FS_CardinalityType DEF Putting
  <1>2. ASSUME Putting' = Putting, made' = made
        PROVE  Room'
    BY <1>2 DEF Room
  <1>3. ASSUME NEW s \in Session, NEW n \in GraphName, NEW S \in SUBSET Node, Collect(s, n, S)
        PROVE  Room'
    <2>1. Putting' = Putting \cup {s} /\ s \notin Putting
      BY <1>3 DEF Collect, Putting, TypeOK
    <2>2. Cardinality(Putting') = Cardinality(Putting) + 1
      BY <1>1, <2>1, FS_AddElement
    <2>3. made' = made /\ made + Cardinality(Putting) < MaxGraphs /\ made \in Nat
      BY <1>3 DEF Collect, pool, Putting, TypeOK
    <2>4. QED
      BY <1>1, <2>2, <2>3, NamedAssumption DEF Room
  <1>4. ASSUME NEW s \in Session, AddGraph(s)
        PROVE  Room'
    <2>1. pc[s] = "put" /\ NextNode(s, nodes[s]) /\ made' = made + 1
      BY <1>4 DEF AddGraph
    <2>2. pc' = [pc EXCEPT ![s] = IF nodes[s] # {} THEN "lookup" ELSE "idle"]
      BY <2>1, NextNodeAfter
    <2>3. Putting' = Putting \ {s}
      BY <2>2 DEF Putting, TypeOK
    <2>4. Cardinality(Putting \ {s}) = Cardinality(Putting) - 1 /\ made \in Nat
      BY <2>1, RoomForOne
    <2>5. QED
      BY <1>1, <2>1, <2>3, <2>4, NamedAssumption DEF Room
  <1>5. ASSUME NEW s \in Session, pc[s] # "put", pc'[s] # "put", made' = made,
               \A t \in Session \ {s} : pc'[t] = pc[t]
        PROVE  Room'
    <2>1. Putting' = Putting
      BY <1>5 DEF Putting
    <2>2. QED
      BY <1>2, <1>5, <2>1
  <1>6. ASSUME NEW s \in Session, Lookup(s)
        PROVE  Room'
    BY <1>5, <1>6 DEF Lookup, pool, TypeOK
  <1>7. ASSUME NEW s \in Session, Insert(s)
        PROVE  Room'
    <2>1. PICK x \in nodes[s] : InsertAlready(s, x) \/ InsertNow(s, x)
      BY <1>7, InsertDoes
    <2>2. pc[s] = "add" /\ made' = made
      BY <1>7, InsertDoes
    <2>3. pc'[s] # "put" /\ \A t \in Session \ {s} : pc'[t] = pc[t]
      BY <2>1, NextNodeAfter DEF InsertAlready, InsertNow, TypeOK
    <2>4. QED
      BY <1>5, <2>2, <2>3
  <1>8. ASSUME NEW s \in Session, Count(s)
        PROVE  Room'
    <2>1. pc'[s] # "put" /\ \A t \in Session \ {s} : pc'[t] = pc[t]
      BY <1>8, NextNodeAfter DEF Count
    <2>2. QED
      BY <1>5, <1>8, <2>1 DEF Count, pool
  <1>9. ASSUME NEW s \in Session, NEW n \in GraphName, DeleteGraph(s, n)
        PROVE  Room'
    BY <1>2, <1>9 DEF DeleteGraph, control, Putting
  <1>10. ASSUME NEW s \in Session, NEW n \in GraphName, Open(s, n)
         PROVE  Room'
    BY <1>5, <1>10 DEF Open, pool, TypeOK
  <1>11. ASSUME NEW s \in Session, Fetch(s)
         PROVE  Room'
    <2>1. pc[s] = "read" /\ made' = made
      BY <1>11 DEF Fetch, pool
    <2>2. pc' = [pc EXCEPT ![s] = "failed"] \/ pc' = pc
      BY <1>11 DEF Fetch
    <2>3. QED
      BY <1>5, <2>1, <2>2 DEF TypeOK
  <1>12. ASSUME NEW s \in Session, Finish(s)
         PROVE  Room'
    BY <1>5, <1>12 DEF Finish, pool, TypeOK
  <1>13. ASSUME NEW s \in Session, Close(s)
         PROVE  Room'
    BY <1>5, <1>13 DEF Close, pool, TypeOK
  <1>14. CASE UNCHANGED vars
    BY <1>2, <1>14 DEF vars, pool, control, Putting
  <1>15. QED
    BY <1>3, <1>4, <1>6, <1>7, <1>8, <1>9, <1>10, <1>11, <1>12, <1>13, <1>14 DEF Next

\* A graph keeps its one name: addGraph takes a number that nobody holds, and a
\* look-up gives the number that the name has.
LEMMA OneNameStep == TypeOK /\ Room /\ OneName /\ [Next]_vars => OneName'
  <1> SUFFICES ASSUME TypeOK, Room, OneName, [Next]_vars
               PROVE  OneName'
    OBVIOUS
  <1>1. ASSUME \A n \in GraphName : graphPool'[n] = NoGraph \/ graphPool'[n] = graphPool[n],
               \A t \in Session : Adding(t)' =>
                   pc'[t] = pc[t] /\ name'[t] = name[t] /\ target'[t] = target[t]
        PROVE  OneName'
    BY <1>1 DEF OneName, Adding
  <1>2. ASSUME NEW s \in Session, NEW n \in GraphName, NEW S \in SUBSET Node, Collect(s, n, S)
        PROVE  OneName'
    BY <1>1, <1>2 DEF Collect, pool, Adding, TypeOK
  <1>3. ASSUME NEW s \in Session, AddGraph(s)
        PROVE  OneName'
    <2>1. /\ made \in Nat /\ name[s] \in GraphName
          /\ \A m \in GraphName :
                \/ graphPool'[m] = NoGraph
                \/ graphPool'[m] = IF m = name[s] THEN made + 1 ELSE graphPool[m]
      BY <1>3, AddGraphDoes
    <2>2. NextNode(s, nodes[s]) /\ target' = target
      BY <1>3 DEF AddGraph
    <2>3. /\ \A t \in Session \ {s} : pc'[t] = pc[t] /\ name'[t] = name[t]
          /\ ~Adding(s)' /\ pc'[s] # "count"
      BY <2>2, NextNodeAfter DEF Adding
    <2>4. /\ \A m \in GraphName : graphPool[m] \in 0..made
          /\ \A t \in Session : target[t] \in 0..made
      BY DEF TypeOK
    <2>5. \A m \in GraphName : graphPool[m] # made + 1
      BY <2>1, <2>4
    <2>6. \A t \in Session : target[t] # made + 1
      BY <2>1, <2>4
    <2>7. \A m, n \in GraphName :
             graphPool'[m] = graphPool'[n] /\ graphPool'[n] # NoGraph => m = n
      BY <2>1, <2>5 DEF OneName
    <2>8. \A t \in Session \ {s}, m \in GraphName :
             Adding(t)' /\ target'[t] = graphPool'[m] /\ target'[t] # NoGraph => m = name'[t]
      BY <2>1, <2>2, <2>3, <2>6 DEF OneName, Adding
    <2>9. \A t \in Session : pc'[t] = "count" => target'[t] # NoGraph
      BY <2>2, <2>3 DEF OneName
    <2>10. QED
      BY <2>3, <2>7, <2>8, <2>9 DEF OneName
  <1>4. ASSUME NEW s \in Session, Lookup(s)
        PROVE  OneName'
    <2>1. PICK g \in Found(s, name[s]) : target' = [target EXCEPT ![s] = g]
      BY <1>4 DEF Lookup
    <2>2. pc[s] = "lookup" /\ pc' = [pc EXCEPT ![s] = "add"] /\ UNCHANGED <<graphPool, name>>
      BY <1>4 DEF Lookup, pool
    <2>3. g = NoGraph \/ g = graphPool[name[s]]
      BY <2>1 DEF Found
    <2>4. name[s] \in GraphName
      BY <2>2 DEF TypeOK, Busy
    <2>5. \A t \in Session \ {s} : pc'[t] = pc[t] /\ target'[t] = target[t]
      BY <2>1, <2>2 DEF TypeOK
    <2>6. pc'[s] = "add" /\ target'[s] = g
      BY <2>1, <2>2 DEF TypeOK
    <2>7. QED
      BY <2>2, <2>3, <2>4, <2>5, <2>6 DEF OneName, Adding
  <1>5. ASSUME NEW s \in Session, Insert(s)
        PROVE  OneName'
    <2>1. PICK x \in nodes[s] : InsertAlready(s, x) \/ InsertNow(s, x)
      BY <1>5, InsertDoes
    <2>2. pc[s] = "add" /\ graphPool' = graphPool
      BY <1>5, InsertDoes
    <2>3. CASE InsertAlready(s, x)
      <3>1. /\ \A t \in Session \ {s} : pc'[t] = pc[t] /\ name'[t] = name[t]
            /\ ~Adding(s)'
        BY <2>3, NextNodeAfter DEF InsertAlready, Adding
      <3>2. \A t \in Session \ {s} : target'[t] = target[t]
        BY <2>3 DEF InsertAlready, TypeOK
      <3>3. QED
        BY <1>1, <2>2, <3>1, <3>2
    <2>4. CASE InsertNow(s, x)
      <3>1. /\ target[s] # NoGraph /\ UNCHANGED <<name, target>>
            /\ pc'[s] = "count" /\ \A t \in Session \ {s} : pc'[t] = pc[t]
        BY <2>4 DEF InsertNow, TypeOK, Graph, NoGraph
      <3>2. QED
        BY <2>2, <3>1 DEF OneName, Adding
    <2>5. QED
      BY <2>1, <2>3, <2>4
  <1>6. ASSUME NEW s \in Session, Count(s)
        PROVE  OneName'
    <2>1. /\ \A t \in Session \ {s} : pc'[t] = pc[t] /\ name'[t] = name[t]
          /\ ~Adding(s)'
      BY <1>6, NextNodeAfter DEF Count, Adding
    <2>2. /\ graphPool' = graphPool
          /\ \A t \in Session \ {s} : target'[t] = target[t]
      BY <1>6 DEF Count, pool, TypeOK
    <2>3. QED
      BY <1>1, <2>1, <2>2
  <1>7. ASSUME NEW s \in Session, NEW n \in GraphName, DeleteGraph(s, n)
        PROVE  OneName'
    <2>1. graphPool' \in PoolWith(s, n, NoGraph) /\ NoGraph \in Nat
      BY <1>7 DEF DeleteGraph, NoGraph
    <2>2. \A m \in GraphName : graphPool'[m] = NoGraph \/ graphPool'[m] = graphPool[m]
      BY <2>1, PoolAfter
    <2>3. QED
      BY <1>1, <1>7, <2>2 DEF DeleteGraph, control, Adding
  <1>8. ASSUME NEW s \in Session, NEW n \in GraphName, Open(s, n)
        PROVE  OneName'
    <2>1. pc' = [pc EXCEPT ![s] = "read"] /\ UNCHANGED <<graphPool, name>>
      BY <1>8 DEF Open, pool
    <2>2. \A t \in Session \ {s} : target'[t] = target[t]
      BY <1>8 DEF Open, TypeOK
    <2>3. QED
      BY <1>1, <2>1, <2>2 DEF Adding, TypeOK
  <1>9. ASSUME NEW s \in Session, Fetch(s)
        PROVE  OneName'
    <2>1. pc' = [pc EXCEPT ![s] = "failed"] \/ pc' = pc
      BY <1>9 DEF Fetch
    <2>2. QED
      BY <1>1, <1>9, <2>1 DEF Fetch, pool, Adding, TypeOK
  <1>10. ASSUME NEW s \in Session, Finish(s)
         PROVE  OneName'
    BY <1>1, <1>10 DEF Finish, pool, Adding, TypeOK
  <1>11. ASSUME NEW s \in Session, Close(s)
         PROVE  OneName'
    BY <1>1, <1>11 DEF Close, pool, Adding, TypeOK
  <1>12. CASE UNCHANGED vars
    BY <1>1, <1>12 DEF vars, pool, control, Adding
  <1>13. QED
    BY <1>2, <1>3, <1>4, <1>5, <1>6, <1>7, <1>8, <1>9, <1>10, <1>11, <1>12 DEF Next

\* Nothing comes into a graph, or on its way, that was not collected for it.
LEMMA ExpectedStep == TypeOK /\ Room /\ OneName /\ OnlyExpected /\ [Next]_vars => OnlyExpected'
  <1> SUFFICES ASSUME TypeOK, Room, OneName, OnlyExpected, [Next]_vars
               PROVE  OnlyExpected'
    OBVIOUS
  <1>1. ASSUME UNCHANGED <<made, graphs, asked, joining>>,
               \A n \in GraphName : graphPool'[n] = NoGraph \/ graphPool'[n] = graphPool[n],
               \A t \in Session : pc'[t] \in {"lookup", "add", "count"} =>
                   /\ pc[t] \in {"lookup", "add", "count"} /\ name'[t] = name[t]
                   /\ nodes'[t] \subseteq nodes[t],
               \A t \in Session : Adding(t)' => Adding(t) /\ target'[t] = target[t]
        PROVE  OnlyExpected'
    <2>1. ASSUME NEW t \in Session, NEW n \in GraphName, Filling(t, n)', graphPool'[n] # NoGraph
          PROVE  nodes'[t] \subseteq asked'[graphPool'[n]] \cup joining'[graphPool'[n]]
      <3>1. Filling(t, n) /\ nodes'[t] \subseteq nodes[t] /\ graphPool'[n] = graphPool[n]
        BY <1>1, <2>1 DEF Filling
      <3>2. nodes[t] \subseteq asked[graphPool[n]] \cup joining[graphPool[n]]
        BY <2>1, <3>1 DEF OnlyExpected, Expected
      <3>3. QED
        BY <1>1, <3>1, <3>2
    <2>2. ASSUME NEW t \in Session, Adding(t)', target'[t] # NoGraph
          PROVE  nodes'[t] \subseteq asked'[target'[t]] \cup joining'[target'[t]]
      <3>1. Adding(t) /\ nodes'[t] \subseteq nodes[t] /\ target'[t] = target[t]
        BY <1>1, <2>2 DEF Adding
      <3>2. nodes[t] \subseteq asked[target[t]] \cup joining[target[t]]
        BY <2>2, <3>1 DEF OnlyExpected, Expected
      <3>3. QED
        BY <1>1, <3>1, <3>2
    <2>3. QED
      BY <1>1, <2>1, <2>2 DEF OnlyExpected, Expected
  <1>2. ASSUME NEW s \in Session, NEW n \in GraphName, NEW S \in SUBSET Node, Collect(s, n, S)
        PROVE  OnlyExpected'
    <2>1. /\ pc'[s] = "put" /\ \A t \in Session \ {s} : pc'[t] = pc[t]
          /\ \A t \in Session \ {s} : name'[t] = name[t] /\ nodes'[t] = nodes[t]
      BY <1>2 DEF Collect, TypeOK
    <2>2. UNCHANGED <<graphPool, made, graphs, asked, joining, target>>
      BY <1>2 DEF Collect, pool, history
    <2>3. QED
      BY <1>1, <2>1, <2>2 DEF Adding
  <1>3. ASSUME NEW s \in Session, AddGraph(s)
        PROVE  OnlyExpected'
    <2> DEFINE g == made + 1
               n == name[s]
    <2>1. /\ made \in Nat /\ n \in GraphName /\ g \in Graph /\ made' = g
          /\ \A m \in GraphName :
                \/ graphPool'[m] = NoGraph
                \/ graphPool'[m] = IF m = n THEN g ELSE graphPool[m]
          /\ \A h \in Graph \ {g} : asked'[h] = asked[h] /\ joining'[h] = joining[h]
          /\ asked'[g] = nodes[s]
          /\ \A t \in Session \ {s} : Filling(t, n) => nodes[t] \subseteq joining'[g]
      BY <1>3, AddGraphDoes
    <2>2. pc[s] = "put" /\ NextNode(s, nodes[s]) /\ UNCHANGED <<graphs, nodes, target>>
      BY <1>3 DEF AddGraph
    <2>3. /\ \A t \in Session \ {s} : pc'[t] = pc[t] /\ name'[t] = name[t]
          /\ pc'[s] = IF nodes[s] # {} THEN "lookup" ELSE "idle"
          /\ nodes[s] # {} => name'[s] = n
      BY <2>2, NextNodeAfter
    <2>4. /\ \A m \in GraphName : graphPool[m] # NoGraph => graphPool[m] \in Graph \ {g}
          /\ \A t \in Session : target[t] # NoGraph => target[t] \in Graph \ {g}
      <3>1. \A k \in 0..made : k # NoGraph => k \in Graph \ {g}
        BY <2>1, NamedAssumption DEF Graph, NoGraph
      <3>2. QED
        BY <3>1 DEF TypeOK
    <2>5. ASSUME NEW h \in Graph
          PROVE  /\ h > made' => graphs'[h] = {}
                 /\ graphs'[h] \subseteq asked'[h] \cup joining'[h]
      <3>1. g > made /\ (h > g => h > made)
        BY <2>1 DEF Graph
      <3>2. CASE h = g
        BY <2>1, <2>2, <3>1, <3>2 DEF OnlyExpected
      <3>3. CASE h # g
        BY <2>1, <2>2, <3>1, <3>3 DEF OnlyExpected, Expected
      <3>4. QED
        BY <3>2, <3>3
    <2>6. ASSUME NEW t \in Session, NEW m \in GraphName, Filling(t, m)', graphPool'[m] # NoGraph
          PROVE  nodes'[t] \subseteq asked'[graphPool'[m]] \cup joining'[graphPool'[m]]
      <3>1. CASE m = n
        <4>1. graphPool'[m] = g
          BY <2>1, <2>6, <3>1
        <4>2. CASE t = s
          BY <2>1, <2>2, <4>1, <4>2
        <4>3. CASE t # s
          <5>1. Filling(t, n)
            BY <2>3, <2>6, <3>1, <4>3 DEF Filling
          <5>2. QED
            BY <2>1, <2>2, <4>1, <4>3, <5>1
        <4>4. QED
          BY <4>2, <4>3
      <3>2. CASE m # n
        <4>1. graphPool'[m] = graphPool[m]
          BY <2>1, <2>6, <3>2
        <4>2. t # s /\ Filling(t, m)
          BY <2>3, <2>6, <3>2 DEF Filling
        <4>3. nodes[t] \subseteq asked[graphPool[m]] \cup joining[graphPool[m]]
          BY <2>6, <4>1, <4>2 DEF OnlyExpected, Expected
        <4>4. graphPool[m] \in Graph \ {g}
          BY <2>4, <2>6, <4>1
        <4>5. QED
          BY <2>1, <2>2, <4>1, <4>3, <4>4
      <3>3. QED
        BY <3>1, <3>2
    <2>7. ASSUME NEW t \in Session, Adding(t)', target'[t] # NoGraph
          PROVE  nodes'[t] \subseteq asked'[target'[t]] \cup joining'[target'[t]]
      <3>1. t # s /\ Adding(t)
        BY <2>3, <2>7 DEF Adding
      <3>2. target[t] \in Graph \ {g}
        BY <2>2, <2>4, <2>7
      <3>3. nodes[t] \subseteq asked[target[t]] \cup joining[target[t]]
        BY <2>2, <2>7, <3>1 DEF OnlyExpected, Expected
      <3>4. QED
        BY <2>1, <2>2, <3>2, <3>3
    <2>8. QED
      BY <2>5, <2>6, <2>7 DEF OnlyExpected, Expected
  <1>4. ASSUME NEW s \in Session, Lookup(s)
        PROVE  OnlyExpected'
    <2>1. PICK g \in Found(s, name[s]) : target' = [target EXCEPT ![s] = g]
      BY <1>4 DEF Lookup
    <2>2. /\ pc[s] = "lookup" /\ pc' = [pc EXCEPT ![s] = "add"]
          /\ UNCHANGED <<graphPool, made, graphs, name, nodes, asked, joining>>
      BY <1>4 DEF Lookup, pool
    <2>3. g = NoGraph \/ g = graphPool[name[s]]
      BY <2>1 DEF Found
    <2>4. name[s] \in GraphName
      BY <2>2 DEF TypeOK, Busy
    <2>5. /\ \A t \in Session \ {s} : pc'[t] = pc[t] /\ target'[t] = target[t]
          /\ pc'[s] = "add" /\ target'[s] = g
      BY <2>1, <2>2 DEF TypeOK
    <2>6. g # NoGraph => nodes[s] \subseteq asked[g] \cup joining[g]
      BY <2>2, <2>3, <2>4 DEF OnlyExpected, Expected, Filling
    <2>7. \A t \in Session, n \in GraphName : Filling(t, n)' => Filling(t, n)
      BY <2>2, <2>5 DEF Filling
    <2>8. ASSUME NEW t \in Session, Adding(t)', target'[t] # NoGraph
          PROVE  nodes'[t] \subseteq asked'[target'[t]] \cup joining'[target'[t]]
      BY <2>2, <2>5, <2>6, <2>8 DEF OnlyExpected, Expected, Adding
    <2>9. QED
      BY <2>2, <2>7, <2>8 DEF OnlyExpected, Expected
  <1>5. ASSUME NEW s \in Session, Insert(s)
        PROVE  OnlyExpected'
    <2>1. PICK x \in nodes[s] :
               /\ nodes' = [nodes EXCEPT ![s] = @ \ {x}]
               /\ InsertAlready(s, x) \/ InsertNow(s, x)
      BY <1>5, InsertDoes
    <2>2. pc[s] = "add" /\ UNCHANGED <<graphPool, made, asked, joining>>
      BY <1>5, InsertDoes
    <2>3. \A t \in Session : nodes'[t] \subseteq nodes[t]
      BY <2>1 DEF TypeOK
    <2>4. CASE InsertAlready(s, x)
      <3>1. /\ \A t \in Session \ {s} : pc'[t] = pc[t] /\ name'[t] = name[t]
            /\ pc'[s] = IF nodes[s] \ {x} # {} THEN "lookup" ELSE "idle"
            /\ nodes[s] \ {x} # {} => name'[s] = name[s]
        BY <2>4, NextNodeAfter DEF InsertAlready
      <3>2. graphs' = graphs /\ \A t \in Session \ {s} : target'[t] = target[t]
        BY <2>4 DEF InsertAlready, TypeOK
      <3>3. QED
        BY <1>1, <2>2, <2>3, <3>1, <3>2 DEF Adding
    <2>5. CASE InsertNow(s, x)
      <3>1. /\ UNCHANGED <<name, target>>
            /\ pc'[s] = "count" /\ \A t \in Session \ {s} : pc'[t] = pc[t]
            /\ target[s] \in Graph /\ target[s] # NoGraph
            /\ \A h \in Graph \ {target[s]} : graphs'[h] = graphs[h]
            /\ graphs'[target[s]] \subseteq graphs[target[s]] \cup {x}
        BY <2>5 DEF InsertNow, TypeOK, Graph, NoGraph
      <3>2. x \in asked[target[s]] \cup joining[target[s]]
        BY <2>2, <3>1 DEF OnlyExpected, Expected, Adding
      <3>3. target[s] <= made
        BY NamedAssumption DEF TypeOK
      <3>4. \A h \in Graph : h > made => graphs'[h] = {}
        <4>1. \A h \in Graph : h > made => h # target[s]
          BY <3>3, NamedAssumption DEF Graph, TypeOK
        <4>2. QED
          BY <3>1, <4>1 DEF OnlyExpected
      <3>5. \A h \in Graph : graphs'[h] \subseteq asked[h] \cup joining[h]
        BY <3>1, <3>2 DEF OnlyExpected, Expected
      <3>6. ASSUME NEW t \in Session, NEW n \in GraphName, Filling(t, n)', graphPool[n] # NoGraph
            PROVE  nodes'[t] \subseteq asked[graphPool[n]] \cup joining[graphPool[n]]
        <4>1. Filling(t, n)
          BY <2>2, <3>1, <3>6 DEF Filling
        <4>2. QED
          BY <2>3, <3>6, <4>1 DEF OnlyExpected, Expected
      <3>7. ASSUME NEW t \in Session, Adding(t)', target[t] # NoGraph
            PROVE  nodes'[t] \subseteq asked[target[t]] \cup joining[target[t]]
        <4>1. Adding(t)
          BY <2>2, <3>1, <3>7 DEF Adding
        <4>2. QED
          BY <2>3, <3>7, <4>1 DEF OnlyExpected, Expected
      <3>8. QED
        BY <2>2, <3>1, <3>4, <3>5, <3>6, <3>7 DEF OnlyExpected, Expected
    <2>6. QED
      BY <2>1, <2>4, <2>5
  <1>6. ASSUME NEW s \in Session, Count(s)
        PROVE  OnlyExpected'
    <2>1. pc[s] = "count" /\ NextNode(s, nodes[s])
          /\ UNCHANGED <<graphPool, made, graphs, nodes, asked, joining>>
      BY <1>6 DEF Count, pool, history
    <2>2. /\ \A t \in Session \ {s} : pc'[t] = pc[t] /\ name'[t] = name[t]
          /\ pc'[s] = IF nodes[s] # {} THEN "lookup" ELSE "idle"
          /\ nodes[s] # {} => name'[s] = name[s]
      BY <2>1, NextNodeAfter
    <2>3. \A t \in Session \ {s} : target'[t] = target[t]
      BY <1>6 DEF Count, TypeOK
    <2>4. QED
      BY <1>1, <2>1, <2>2, <2>3 DEF Adding
  <1>7. ASSUME NEW s \in Session, NEW n \in GraphName, DeleteGraph(s, n)
        PROVE  OnlyExpected'
    <2>1. graphPool' \in PoolWith(s, n, NoGraph) /\ NoGraph \in Nat
      BY <1>7 DEF DeleteGraph, NoGraph
    <2>2. \A m \in GraphName : graphPool'[m] = NoGraph \/ graphPool'[m] = graphPool[m]
      BY <2>1, PoolAfter
    <2>3. QED
      BY <1>1, <1>7, <2>2 DEF DeleteGraph, control, Adding
  <1>8. ASSUME NEW s \in Session, NEW n \in GraphName, Open(s, n)
        PROVE  OnlyExpected'
    <2>1. /\ pc' = [pc EXCEPT ![s] = "read"]
          /\ UNCHANGED <<graphPool, made, graphs, name, nodes, asked, joining>>
      BY <1>8 DEF Open, pool
    <2>2. \A t \in Session \ {s} : target'[t] = target[t] /\ pc'[t] = pc[t]
      BY <1>8 DEF Open, TypeOK
    <2>3. pc'[s] = "read"
      BY <2>1 DEF TypeOK
    <2>4. QED
      BY <1>1, <2>1, <2>2, <2>3 DEF Adding
  <1>9. ASSUME NEW s \in Session, Fetch(s) \/ Finish(s) \/ Close(s)
        PROVE  OnlyExpected'
    <2>1. /\ pc'[s] \notin {"lookup", "add", "count"}
          /\ \A t \in Session \ {s} : pc'[t] = pc[t] /\ target'[t] = target[t]
      <3>1. CASE Fetch(s)
        BY <3>1 DEF Fetch, TypeOK
      <3>2. CASE Finish(s)
        BY <3>2 DEF Finish, TypeOK
      <3>3. CASE Close(s)
        BY <3>3 DEF Close, TypeOK
      <3>4. QED
        BY <1>9, <3>1, <3>2, <3>3
    <2>2. UNCHANGED <<graphPool, made, graphs, name, nodes, asked, joining>>
      BY <1>9 DEF Fetch, Finish, Close, pool, history
    <2>3. QED
      BY <1>1, <2>1, <2>2 DEF Adding
  <1>10. CASE UNCHANGED vars
    BY <1>1, <1>10 DEF vars, pool, control, history, Adding
  <1>11. QED
    BY <1>2, <1>3, <1>4, <1>5, <1>6, <1>7, <1>8, <1>9, <1>10 DEF Next

\* Unless entries are lost, a node that is not in its graph yet is still brought
\* by somebody.
LEMMA ForgottenStep ==
  TypeOK /\ Room /\ OneName /\ OnlyExpected /\ NothingForgotten /\ [Next]_vars => NothingForgotten'
  <1> SUFFICES ASSUME TypeOK, Room, OneName, OnlyExpected, NothingForgotten, [Next]_vars,
                      ~shaken',
                      NEW n \in GraphName, graphPool'[n] # NoGraph,
                      NEW x \in asked'[graphPool'[n]] \ graphs'[graphPool'[n]]
               PROVE  \E t \in Session : Brings(t, x, n)'
    BY DEF NothingForgotten
  <1> DEFINE g == graphPool[n]
  <1>1. ASSUME ~shaken, g # NoGraph, x \in asked[g] \ graphs[g]
        PROVE  \E t \in Session : Brings(t, x, n)
    BY <1>1 DEF NothingForgotten
  <1>2. ASSUME ~shaken, UNCHANGED <<asked, graphs>>, graphPool'[n] = g,
               \A t \in Session : Brings(t, x, n) => Brings(t, x, n)'
        PROVE  \E t \in Session : Brings(t, x, n)'
    BY <1>1, <1>2
  <1>3. ASSUME NEW s \in Session, NEW m \in GraphName, NEW S \in SUBSET Node, Collect(s, m, S)
        PROVE  \E t \in Session : Brings(t, x, n)'
    <2>1. /\ pc[s] = "idle"
          /\ \A t \in Session \ {s} : pc'[t] = pc[t] /\ name'[t] = name[t] /\ nodes'[t] = nodes[t]
          /\ UNCHANGED <<graphPool, graphs, target, asked, shaken>>
      BY <1>3 DEF Collect, pool, history, TypeOK
    <2>2. \A t \in Session : Brings(t, x, n) => Brings(t, x, n)'
      BY <2>1 DEF Brings, Filling
    <2>3. QED
      BY <1>2, <2>1, <2>2
  <1>4. ASSUME NEW s \in Session, AddGraph(s)
        PROVE  \E t \in Session : Brings(t, x, n)'
    <2>1. /\ made \in Nat /\ made + 1 \in Graph
          /\ \A h \in Graph \ {made + 1} : asked'[h] = asked[h]
          /\ asked'[made + 1] = nodes[s]
          /\ ~PoolInUse(s) =>
               \A m \in GraphName :
                  graphPool'[m] = IF m = name[s] THEN made + 1 ELSE graphPool[m]
      BY <1>4, AddGraphDoes
    <2>2. /\ pc[s] = "put" /\ NextNode(s, nodes[s])
          /\ shaken' = (shaken \/ PoolInUse(s))
          /\ UNCHANGED <<graphs, nodes, target>>
      BY <1>4 DEF AddGraph
    <2>3. ~shaken /\ ~PoolInUse(s)
      BY <2>2
    <2>4. /\ \A t \in Session \ {s} : pc'[t] = pc[t] /\ name'[t] = name[t]
          /\ pc'[s] = IF nodes[s] # {} THEN "lookup" ELSE "idle"
          /\ nodes[s] # {} => name'[s] = name[s]
      BY <2>2, NextNodeAfter
    <2>5. CASE n = name[s]
      <3>1. graphPool'[n] = made + 1
        BY <2>1, <2>3, <2>5
      <3>2. x \in nodes[s]
        BY <2>1, <3>1
      <3>3. Brings(s, x, n)'
        BY <2>2, <2>4, <2>5, <3>2 DEF Brings, Filling
      <3>4. QED
        BY <3>3
    <2>6. CASE n # name[s]
      <3>1. graphPool'[n] = g
        BY <2>1, <2>3, <2>6
      <3>2. g \in Graph \ {made + 1}
        BY <2>1, <3>1, NamedAssumption DEF TypeOK, Graph, NoGraph
      <3>3. x \in asked[g] \ graphs[g]
        BY <2>1, <2>2, <3>1, <3>2
      <3>4. PICK t \in Session : Brings(t, x, n)
        BY <1>1, <2>3, <3>1, <3>3
      <3>5. t # s
        BY <2>2, <3>4 DEF Brings, Filling
      <3>6. Brings(t, x, n)'
        BY <2>2, <2>4, <3>1, <3>4, <3>5 DEF Brings, Filling
      <3>7. QED
        BY <3>6
    <2>7. QED
      BY <2>5, <2>6
  <1>5. ASSUME NEW s \in Session, Lookup(s)
        PROVE  \E t \in Session : Brings(t, x, n)'
    <2>1. PICK k \in Found(s, name[s]) :
                 /\ target' = [target EXCEPT ![s] = k]
                 /\ shaken' = (shaken \/ k # graphPool[name[s]])
      BY <1>5 DEF Lookup
    <2>2. /\ pc[s] = "lookup" /\ pc' = [pc EXCEPT ![s] = "add"]
          /\ UNCHANGED <<graphPool, graphs, name, nodes, asked>>
      BY <1>5 DEF Lookup, pool
    <2>3. ~shaken /\ k = graphPool[name[s]]
      BY <2>1
    <2>4. /\ \A t \in Session \ {s} : pc'[t] = pc[t] /\ target'[t] = target[t]
          /\ pc'[s] = "add" /\ target'[s] = graphPool[name[s]]
      BY <2>1, <2>2, <2>3 DEF TypeOK
    <2>5. \A t \in Session : Brings(t, x, n) => Brings(t, x, n)'
      BY <2>2, <2>4 DEF Brings, Filling
    <2>6. QED
      BY <1>2, <2>2, <2>3, <2>5
  <1>6. ASSUME NEW s \in Session, Insert(s)
        PROVE  \E t \in Session : Brings(t, x, n)'
    <2>1. PICK y \in nodes[s] :
               /\ nodes' = [nodes EXCEPT ![s] = @ \ {y}]
               /\ InsertAlready(s, y) \/ InsertNow(s, y)
      BY <1>6, InsertDoes
    <2>2. pc[s] = "add" /\ UNCHANGED <<graphPool, asked>>
      BY <1>6, InsertDoes
    <2>3. /\ \A t \in Session \ {s} : nodes'[t] = nodes[t]
          /\ nodes'[s] = nodes[s] \ {y}
      BY <2>1 DEF TypeOK
    <2>4. g \in Graph
      BY <2>2, NamedAssumption DEF TypeOK, Graph, NoGraph
    <2>5. CASE InsertAlready(s, y)
      <3>1. /\ \A t \in Session \ {s} : pc'[t] = pc[t] /\ name'[t] = name[t]
            /\ pc'[s] = IF nodes[s] \ {y} # {} THEN "lookup" ELSE "idle"
            /\ nodes[s] \ {y} # {} => name'[s] = name[s]
        BY <2>5, NextNodeAfter DEF InsertAlready
      <3>2. /\ graphs' = graphs /\ shaken' = shaken
            /\ \A t \in Session \ {s} : target'[t] = target[t]
        BY <2>5 DEF InsertAlready, TypeOK
      <3>3. PICK t \in Session : Brings(t, x, n)
        BY <1>1, <2>2, <3>2
      <3>4. CASE t # s
        <4>1. Brings(t, x, n)'
          BY <2>2, <2>3, <3>1, <3>2, <3>3, <3>4 DEF Brings, Filling
        <4>2. QED
          BY <4>1
      <3>5. CASE t = s
        <4>1. target[s] = g /\ x \in nodes[s] /\ name[s] = n
          BY <2>2, <3>3, <3>5 DEF Brings, Filling
        <4>2. y \in graphs[g]
          BY <2>2, <2>5, <4>1 DEF InsertAlready
        <4>3. x # y
          BY <2>2, <3>2, <4>2
        <4>4. Brings(s, x, n)'
          BY <2>3, <3>1, <4>1, <4>3 DEF Brings, Filling
        <4>5. QED
          BY <4>4
      <3>6. QED
        BY <3>4, <3>5
    <2>6. CASE InsertNow(s, y)
      <3>1. /\ UNCHANGED <<name, target>>
            /\ pc'[s] = "count" /\ \A t \in Session \ {s} : pc'[t] = pc[t]
            /\ \A h \in Graph \ {target[s]} : graphs'[h] = graphs[h]
            /\ graphs'[target[s]] = graphs[target[s]] \cup {y}
            /\ ~shaken
        BY <2>6 DEF InsertNow, TypeOK
      <3>2. x \in asked[g] \ graphs[g]
        BY <2>2, <2>4, <3>1
      <3>3. PICK t \in Session : Brings(t, x, n)
        BY <1>1, <2>2, <3>1, <3>2
      <3>4. CASE t # s
        <4>1. Brings(t, x, n)'
          BY <2>2, <2>3, <3>1, <3>3, <3>4 DEF Brings, Filling
        <4>2. QED
          BY <4>1
      <3>5. CASE t = s
        <4>1. target[s] = g /\ x \in nodes[s] /\ name[s] = n
          BY <2>2, <3>3, <3>5 DEF Brings, Filling
        <4>2. x # y
          BY <2>2, <3>1, <4>1
        <4>3. Brings(s, x, n)'
          BY <2>3, <3>1, <4>1, <4>2 DEF Brings, Filling
        <4>4. QED
          BY <4>3
      <3>6. QED
        BY <3>4, <3>5
    <2>7. QED
      BY <2>1, <2>5, <2>6
  <1>7. ASSUME NEW s \in Session, Count(s)
        PROVE  \E t \in Session : Brings(t, x, n)'
    <2>1. /\ pc[s] = "count" /\ NextNode(s, nodes[s])
          /\ UNCHANGED <<graphPool, graphs, nodes, asked, shaken>>
      BY <1>7 DEF Count, pool, history
    <2>2. /\ \A t \in Session \ {s} : pc'[t] = pc[t] /\ name'[t] = name[t]
          /\ pc'[s] = IF nodes[s] # {} THEN "lookup" ELSE "idle"
          /\ nodes[s] # {} => name'[s] = name[s]
      BY <2>1, NextNodeAfter
    <2>3. \A t \in Session \ {s} : target'[t] = target[t]
      BY <1>7 DEF Count, TypeOK
    <2>4. \A t \in Session : Brings(t, x, n) => Brings(t, x, n)'
      BY <2>1, <2>2, <2>3 DEF Brings, Filling
    <2>5. QED
      BY <1>2, <2>1, <2>4
  <1>8. ASSUME NEW s \in Session, NEW m \in GraphName, DeleteGraph(s, m)
        PROVE  \E t \in Session : Brings(t, x, n)'
    <2>1. /\ graphPool' \in PoolWith(s, m, NoGraph) /\ NoGraph \in Nat
          /\ shaken' = (shaken \/ PoolInUse(s))
          /\ UNCHANGED <<graphs, asked, pc, name, nodes, target>>
      BY <1>8 DEF DeleteGraph, control, NoGraph
    <2>2. graphPool'[n] = g
      BY <2>1, PoolAfter
    <2>3. \A t \in Session : Brings(t, x, n) => Brings(t, x, n)'
      BY <2>1, <2>2 DEF Brings, Filling
    <2>4. QED
      BY <1>2, <2>1, <2>2, <2>3
  <1>9. ASSUME NEW s \in Session,
               (\E m \in GraphName : Open(s, m)) \/ Fetch(s) \/ Finish(s) \/ Close(s)
        PROVE  \E t \in Session : Brings(t, x, n)'
    <2>1. /\ UNCHANGED <<graphPool, graphs, name, nodes, asked>>
          /\ shaken => shaken'
          /\ pc[s] \notin {"lookup", "add", "count"}
          /\ \A t \in Session \ {s} : pc'[t] = pc[t] /\ target'[t] = target[t]
      <3>1. CASE \E m \in GraphName : Open(s, m)
        <4>1. PICK m \in GraphName : Open(s, m)
          BY <3>1
        <4>2. UNCHANGED <<graphPool, graphs, name, nodes, asked>> /\ pc[s] = "idle"
          BY <4>1 DEF Open, pool
        <4>3. shaken => shaken'
          BY <4>1 DEF Open
        <4>4. \A t \in Session \ {s} : pc'[t] = pc[t] /\ target'[t] = target[t]
          BY <4>1 DEF Open, TypeOK
        <4>5. QED
          BY <4>2, <4>3, <4>4
      <3>2. CASE Fetch(s)
        BY <3>2 DEF Fetch, pool, history, TypeOK
      <3>3. CASE Finish(s)
        BY <3>3 DEF Finish, pool, history, TypeOK
      <3>4. CASE Close(s)
        BY <3>4 DEF Close, pool, history, TypeOK
      <3>5. QED
        BY <1>9, <3>1, <3>2, <3>3, <3>4
    <2>2. \A t \in Session : Brings(t, x, n) => Brings(t, x, n)'
      BY <2>1 DEF Brings, Filling
    <2>3. QED
      BY <1>2, <2>1, <2>2
  <1>10. CASE UNCHANGED vars
    BY <1>2, <1>10 DEF vars, pool, control, history, Brings, Filling
  <1>11. QED
    BY <1>3, <1>4, <1>5, <1>6, <1>7, <1>8, <1>9, <1>10 DEF Next

\* A graph at rest stays at rest: another CREATE GRAPH of its name makes another
\* graph before it looks the name up.
LEMMA RestsStep ==
  ASSUME TypeOK, Room, OneName, [Next]_vars,
         NEW g \in 1..made, Rests(g)
  PROVE  /\ \A t \in Session : Adding(t)' => target'[t] # g
         /\ \A n \in GraphName : graphPool'[n] = g => ~BeingFilled(n)'
  <1> DEFINE Goal == /\ \A t \in Session : Adding(t)' => target'[t] # g
                     /\ \A n \in GraphName : graphPool'[n] = g => ~BeingFilled(n)'
  <1> SUFFICES Goal
    OBVIOUS
  <1>0. g # NoGraph /\ g # made + 1
    BY NamedAssumption DEF TypeOK, NoGraph
  <1>1. /\ \A t \in Session : Adding(t) => target[t] # g
        /\ \A t \in Session, n \in GraphName : graphPool[n] = g => ~Filling(t, n)
    BY DEF Rests, BeingFilled
  <1>2. ASSUME \A n \in GraphName : graphPool'[n] = g => graphPool[n] = g,
               \A t \in Session : Adding(t)' => target'[t] # g,
               \A t \in Session, n \in GraphName :
                   graphPool'[n] = g /\ Filling(t, n)' => Filling(t, n)
        PROVE  Goal
    BY <1>1, <1>2 DEF BeingFilled
  <1>3. ASSUME NEW s \in Session, NEW n \in GraphName, NEW S \in SUBSET Node, Collect(s, n, S)
        PROVE  Goal
    <2>1. /\ pc'[s] = "put" /\ \A t \in Session \ {s} : pc'[t] = pc[t] /\ name'[t] = name[t]
          /\ UNCHANGED <<graphPool, target>>
      BY <1>3 DEF Collect, pool, TypeOK
    <2>2. QED
      BY <1>1, <1>2, <2>1 DEF Adding, Filling
  <1>4. ASSUME NEW s \in Session, AddGraph(s)
        PROVE  Goal
    <2>1. \A m \in GraphName :
             \/ graphPool'[m] = NoGraph
             \/ graphPool'[m] = IF m = name[s] THEN made + 1 ELSE graphPool[m]
      BY <1>4, AddGraphDoes
    <2>2. pc[s] = "put" /\ NextNode(s, nodes[s]) /\ target' = target
      BY <1>4 DEF AddGraph
    <2>3. /\ \A t \in Session \ {s} : pc'[t] = pc[t] /\ name'[t] = name[t]
          /\ pc'[s] = IF nodes[s] # {} THEN "lookup" ELSE "idle"
          /\ nodes[s] # {} => name'[s] = name[s]
      BY <2>2, NextNodeAfter
    <2>4. \A m \in GraphName : graphPool'[m] = g => m # name[s] /\ graphPool[m] = g
      BY <1>0, <2>1
    <2>5. \A t \in Session : Adding(t)' => target'[t] # g
      BY <1>1, <2>2, <2>3 DEF Adding
    <2>6. \A t \in Session, m \in GraphName :
             graphPool'[m] = g /\ Filling(t, m)' => Filling(t, m)
      BY <2>3, <2>4 DEF Filling
    <2>7. QED
      BY <1>2, <2>4, <2>5, <2>6
  <1>5. ASSUME NEW s \in Session, Lookup(s)
        PROVE  Goal
    <2>1. PICK k \in Found(s, name[s]) : target' = [target EXCEPT ![s] = k]
      BY <1>5 DEF Lookup
    <2>2. /\ pc[s] = "lookup" /\ pc' = [pc EXCEPT ![s] = "add"]
          /\ UNCHANGED <<graphPool, name>>
      BY <1>5 DEF Lookup, pool
    <2>3. name[s] \in GraphName /\ (k = NoGraph \/ k = graphPool[name[s]])
      BY <2>1, <2>2 DEF Found, TypeOK, Busy
    <2>4. k # g
      BY <1>0, <1>1, <2>2, <2>3 DEF Filling
    <2>5. /\ \A t \in Session \ {s} : pc'[t] = pc[t] /\ target'[t] = target[t]
          /\ pc'[s] = "add" /\ target'[s] = k
      BY <2>1, <2>2 DEF TypeOK
    <2>6. \A t \in Session : Adding(t)' => target'[t] # g
      BY <1>1, <2>4, <2>5 DEF Adding
    <2>7. \A t \in Session, n \in GraphName : Filling(t, n)' => Filling(t, n)
      BY <2>2, <2>5 DEF Filling
    <2>8. QED
      BY <1>2, <2>2, <2>6, <2>7
  <1>6. ASSUME NEW s \in Session, Adding(s), graphPool' = graphPool,
               \A t \in Session \ {s} : pc'[t] = pc[t] /\ name'[t] = name[t]
                                                      /\ target'[t] = target[t],
               \/ pc'[s] = "idle"
               \/ pc'[s] = "lookup" /\ name'[s] = name[s]
               \/ pc'[s] = "count" /\ name'[s] = name[s] /\ target'[s] = target[s]
        PROVE  Goal
    <2>1. \A t \in Session : Adding(t)' => target'[t] # g
      BY <1>1, <1>6 DEF Adding
    <2>2. \A t \in Session, n \in GraphName : Filling(t, n)' => Filling(t, n)
      BY <1>6 DEF Filling, Adding
    <2>3. QED
      BY <1>2, <1>6, <2>1, <2>2
  <1>7. ASSUME NEW s \in Session, Insert(s)
        PROVE  Goal
    <2>1. PICK x \in nodes[s] : InsertAlready(s, x) \/ InsertNow(s, x)
      BY <1>7, InsertDoes
    <2>2. pc[s] = "add" /\ graphPool' = graphPool
      BY <1>7, InsertDoes
    <2>3. CASE InsertAlready(s, x)
      <3>1. /\ \A t \in Session \ {s} : pc'[t] = pc[t] /\ name'[t] = name[t]
            /\ pc'[s] = IF nodes[s] \ {x} # {} THEN "lookup" ELSE "idle"
            /\ nodes[s] \ {x} # {} => name'[s] = name[s]
        BY <2>3, NextNodeAfter DEF InsertAlready
      <3>2. \A t \in Session \ {s} : target'[t] = target[t]
        BY <2>3 DEF InsertAlready, TypeOK
      <3>3. QED
        BY <1>6, <2>2, <3>1, <3>2 DEF Adding
    <2>4. CASE InsertNow(s, x)
      <3>1. /\ UNCHANGED <<name, target>>
            /\ pc'[s] = "count" /\ \A t \in Session \ {s} : pc'[t] = pc[t]
        BY <2>4 DEF InsertNow, TypeOK
      <3>2. QED
        BY <1>6, <2>2, <3>1 DEF Adding
    <2>5. QED
      BY <2>1, <2>3, <2>4
  <1>8. ASSUME NEW s \in Session, Count(s)
        PROVE  Goal
    <2>1. pc[s] = "count" /\ NextNode(s, nodes[s]) /\ graphPool' = graphPool
      BY <1>8 DEF Count, pool
    <2>2. /\ \A t \in Session \ {s} : pc'[t] = pc[t] /\ name'[t] = name[t]
          /\ pc'[s] = IF nodes[s] # {} THEN "lookup" ELSE "idle"
          /\ nodes[s] # {} => name'[s] = name[s]
      BY <2>1, NextNodeAfter
    <2>3. \A t \in Session \ {s} : target'[t] = target[t]
      BY <1>8 DEF Count, TypeOK
    <2>4. QED
      BY <1>6, <2>1, <2>2, <2>3 DEF Adding
  <1>9. ASSUME NEW s \in Session, NEW n \in GraphName, DeleteGraph(s, n)
        PROVE  Goal
    <2>1. graphPool' \in PoolWith(s, n, NoGraph) /\ NoGraph \in Nat
      BY <1>9 DEF DeleteGraph, NoGraph
    <2>2. \A m \in GraphName : graphPool'[m] = g => graphPool[m] = g
      BY <1>0, <2>1, PoolAfter
    <2>3. QED
      BY <1>1, <1>2, <1>9, <2>2 DEF DeleteGraph, control, Adding, Filling
  <1>10. ASSUME NEW s \in Session,
                (\E m \in GraphName : Open(s, m)) \/ Fetch(s) \/ Finish(s) \/ Close(s)
         PROVE  Goal
    <2>1. /\ UNCHANGED <<graphPool, name>>
          /\ pc'[s] \notin {"lookup", "add", "count"}
          /\ \A t \in Session \ {s} : pc'[t] = pc[t] /\ target'[t] = target[t]
      <3>1. CASE \E m \in GraphName : Open(s, m)
        BY <3>1 DEF Open, pool, TypeOK
      <3>2. CASE Fetch(s)
        BY <3>2 DEF Fetch, pool, TypeOK
      <3>3. CASE Finish(s)
        BY <3>3 DEF Finish, pool, TypeOK
      <3>4. CASE Close(s)
        BY <3>4 DEF Close, pool, TypeOK
      <3>5. QED
        BY <1>10, <3>1, <3>2, <3>3, <3>4
    <2>2. QED
      BY <1>1, <1>2, <2>1 DEF Adding, Filling
  <1>11. CASE UNCHANGED vars
    BY <1>1, <1>2, <1>11 DEF vars, pool, control, Adding, Filling
  <1>12. QED
    BY <1>3, <1>4, <1>5, <1>7, <1>8, <1>9, <1>10, <1>11 DEF Next

\* What a step leaves alone of the graphs that are made, and of shaken.
LEMMA MadeKept ==
  ASSUME TypeOK, Room, [Next]_vars
  PROVE  /\ \A g \in 1..made : asked'[g] = asked[g] /\ joining'[g] = joining[g]
         /\ ~shaken' => ~shaken
         /\ ~shaken' => \A g \in 1..made : graphs[g] \subseteq graphs'[g]
  <1> DEFINE Goal == /\ \A g \in 1..made : asked'[g] = asked[g] /\ joining'[g] = joining[g]
                     /\ ~shaken' => ~shaken
                     /\ ~shaken' => \A g \in 1..made : graphs[g] \subseteq graphs'[g]
  <1> SUFFICES Goal
    OBVIOUS
  <1>1. ASSUME UNCHANGED <<graphs, asked, joining>>, shaken => shaken'
        PROVE  Goal
    BY <1>1
  <1>2. ASSUME NEW s \in Session, AddGraph(s)
        PROVE  Goal
    <2>1. /\ made \in Nat
          /\ \A h \in Graph \ {made + 1} : asked'[h] = asked[h] /\ joining'[h] = joining[h]
      BY <1>2, AddGraphDoes
    <2>2. \A g \in 1..made : g \in Graph \ {made + 1}
      BY <2>1, NamedAssumption DEF TypeOK, Graph
    <2>3. graphs' = graphs /\ (shaken => shaken')
      BY <1>2 DEF AddGraph
    <2>4. QED
      BY <2>1, <2>2, <2>3
  <1>3. ASSUME NEW s \in Session, Insert(s)
        PROVE  Goal
    <2>1. PICK x \in nodes[s] : InsertAlready(s, x) \/ InsertNow(s, x)
      BY <1>3, InsertDoes
    <2>2. UNCHANGED <<asked, joining>>
      BY <1>3, InsertDoes
    <2>3. CASE InsertAlready(s, x)
      BY <1>1, <2>2, <2>3 DEF InsertAlready
    <2>4. CASE InsertNow(s, x)
      <3>1. \A g \in 1..made : g \in Graph
        BY NamedAssumption DEF TypeOK, Graph
      <3>2. QED
        BY <2>2, <2>4, <3>1 DEF InsertNow
    <2>5. QED
      BY <2>1, <2>3, <2>4
  <1>4. ASSUME NEW s \in Session,
               \/ \E n \in GraphName, S \in SUBSET Node : Collect(s, n, S)
               \/ Count(s) \/ Fetch(s) \/ Finish(s) \/ Close(s)
        PROVE  Goal
    BY <1>1, <1>4 DEF Collect, Count, Fetch, Finish, Close, pool, history
  <1>5. ASSUME NEW s \in Session,
               Lookup(s) \/ \E n \in GraphName : DeleteGraph(s, n) \/ Open(s, n)
        PROVE  Goal
    BY <1>1, <1>5 DEF Lookup, DeleteGraph, Open, pool
  <1>6. CASE UNCHANGED vars
    BY <1>1, <1>6 DEF vars, pool, history
  <1>7. QED
    BY <1>2, <1>3, <1>4, <1>5, <1>6 DEF Next

\* A reader that began while nobody filled its graph goes on alone with it.
LEMMA ReadersStep == NamedInv /\ [Next]_vars => ReadersServed'
  <1> SUFFICES ASSUME NamedInv, [Next]_vars,
                      NEW r \in Session, Reading(r)'
               PROVE  Served(r)'
    BY DEF ReadersServed
  <1> USE DEF NamedInv
  <1>1. /\ \A g \in 1..made : asked'[g] = asked[g] /\ joining'[g] = joining[g]
        /\ ~shaken' => ~shaken
        /\ ~shaken' => \A g \in 1..made : graphs[g] \subseteq graphs'[g]
    BY MadeKept
  <1>2. target[r] # NoGraph => target[r] \in 1..made
    BY NamedAssumption DEF TypeOK, NoGraph
  <1>3. ASSUME pc'[r] = pc[r], target'[r] = target[r], seen'[r] = seen[r],
               result'[r] = result[r], during'[r] = during[r],
               ~during[r] => ~stale'[r]
        PROVE  Served(r)'
    <2>1. Reading(r) /\ Served(r)
      BY <1>3 DEF Reading, ReadersServed
    <2>2. target[r] # NoGraph => result'[r] \subseteq asked'[target[r]] \cup joining'[target[r]]
      BY <1>1, <1>2, <1>3, <2>1 DEF Served, Expected
    <2>3. ASSUME ~during[r], target[r] # NoGraph
          PROVE  /\ \A t \in Session : Adding(t)' => target'[t] # target[r]
                 /\ \A n \in GraphName : graphPool'[n] = target[r] => ~BeingFilled(n)'
                 /\ ~shaken' => /\ asked'[target[r]] \subseteq seen[r]
                                /\ seen[r] \subseteq graphs'[target[r]]
                                /\ pc[r] = "done" => seen[r] \subseteq result[r]
      <3>1. PICK g \in 1..made : g = target[r]
        BY <1>2, <2>3
      <3>2. Rests(g)
        BY <2>1, <2>3, <3>1 DEF Served
      <3>3. /\ \A t \in Session : Adding(t)' => target'[t] # g
            /\ \A n \in GraphName : graphPool'[n] = g => ~BeingFilled(n)'
        BY <3>2, RestsStep
      <3>4. ~shaken' => /\ asked'[g] \subseteq seen[r]
                        /\ seen[r] \subseteq graphs'[g]
                        /\ pc[r] = "done" => seen[r] \subseteq result[r]
        BY <1>1, <2>1, <2>3, <3>1 DEF Served
      <3>5. QED
        BY <3>1, <3>3, <3>4
    <2>4. ~during[r] => pc[r] # "failed"
      BY <2>1 DEF Served
    <2>5. QED
      BY <1>3, <2>2, <2>3, <2>4 DEF Served, Expected, Rests
  <1>4. ASSUME NEW s \in Session, NEW n \in GraphName, NEW S \in SUBSET Node, Collect(s, n, S)
        PROVE  Served(r)'
    <2>1. r # s
      BY <1>4 DEF Collect, Reading, TypeOK
    <2>2. pc'[r] = pc[r] /\ UNCHANGED <<target, seen, result, stale, during>>
      BY <1>4, <2>1 DEF Collect, reading, TypeOK
    <2>3. QED
      BY <1>3, <2>2 DEF ReadersServed, Served, Reading
  <1>5. ASSUME NEW s \in Session, AddGraph(s)
        PROVE  Served(r)'
    <2>1. NextNode(s, nodes[s]) /\ UNCHANGED <<target, seen, result, stale, during>>
      BY <1>5 DEF AddGraph, reading
    <2>2. r # s /\ pc'[r] = pc[r]
      BY <2>1, NextNodeAfter DEF Reading
    <2>3. QED
      BY <1>3, <2>1, <2>2 DEF ReadersServed, Served, Reading
  <1>6. ASSUME NEW s \in Session, Lookup(s)
        PROVE  Served(r)'
    <2>1. r # s
      BY <1>6 DEF Lookup, Reading, TypeOK
    <2>2. /\ pc'[r] = pc[r] /\ target'[r] = target[r]
          /\ UNCHANGED <<seen, result, stale, during>>
      BY <1>6, <2>1 DEF Lookup, reading, TypeOK
    <2>3. QED
      BY <1>3, <2>2 DEF ReadersServed, Served, Reading
  <1>7. ASSUME NEW s \in Session, Insert(s)
        PROVE  Served(r)'
    <2>1. PICK x \in nodes[s] : InsertAlready(s, x) \/ InsertNow(s, x)
      BY <1>7, InsertDoes
    <2>2. UNCHANGED <<seen, result, stale, during>>
      BY <1>7, InsertDoes
    <2>3. r # s /\ pc'[r] = pc[r] /\ target'[r] = target[r]
      <3>1. CASE InsertAlready(s, x)
        <4>1. r # s /\ pc'[r] = pc[r]
          BY <3>1, NextNodeAfter DEF InsertAlready, Reading
        <4>2. QED
          BY <3>1, <4>1 DEF InsertAlready, TypeOK
      <3>2. CASE InsertNow(s, x)
        BY <3>2 DEF InsertNow, Reading, TypeOK
      <3>3. QED
        BY <2>1, <3>1, <3>2
    <2>4. QED
      BY <1>3, <2>2, <2>3 DEF ReadersServed, Served, Reading
  <1>8. ASSUME NEW s \in Session, Count(s)
        PROVE  Served(r)'
    <2>1. /\ pc[s] = "count" /\ NextNode(s, nodes[s])
          /\ stale' = [t \in Session |-> stale[t] \/ (pc[t] = "read" /\ target[t] = target[s])]
          /\ target' = [target EXCEPT ![s] = NoGraph]
          /\ UNCHANGED <<seen, result, during>>
      BY <1>8 DEF Count
    <2>2. r # s /\ pc'[r] = pc[r]
      BY <2>1, NextNodeAfter DEF Reading
    <2>3. target'[r] = target[r]
      BY <2>1, <2>2 DEF TypeOK
    <2>4. Served(r)
      BY <2>2 DEF ReadersServed, Reading
    <2>5. ~during[r] => target[r] # target[s]
      <3>1. target[s] # NoGraph /\ Adding(s)
        BY <2>1 DEF OneName, Adding
      <3>2. QED
        BY <2>4, <3>1 DEF Served, Rests
    <2>6. ~during[r] => ~stale'[r]
      BY <2>1, <2>4, <2>5 DEF Served
    <2>7. QED
      BY <1>3, <2>1, <2>2, <2>3, <2>6
  <1>9. ASSUME NEW s \in Session, NEW n \in GraphName, DeleteGraph(s, n)
        PROVE  Served(r)'
    <2>1. UNCHANGED <<pc, target, seen, result, stale, during>>
      BY <1>9 DEF DeleteGraph, control, reading
    <2>2. QED
      BY <1>3, <2>1 DEF ReadersServed, Served, Reading
  <1>10. ASSUME NEW s \in Session, NEW n \in GraphName, Open(s, n)
         PROVE  Served(r)'
    <2>1. PICK k \in Found(s, n) :
                 /\ target' = [target EXCEPT ![s] = k]
                 /\ seen' = [seen EXCEPT ![s] = IF k = NoGraph THEN {} ELSE graphs[k]]
                 /\ shaken' = (shaken \/ k # graphPool[n])
      BY <1>10 DEF Open
    <2>2. /\ pc' = [pc EXCEPT ![s] = "read"]
          /\ result' = [result EXCEPT ![s] = {}]
          /\ stale' = [stale EXCEPT ![s] = FALSE]
          /\ during' = [during EXCEPT ![s] = BeingFilled(n)]
          /\ UNCHANGED <<graphPool, graphs, made, name, nodes, asked, joining>>
      BY <1>10 DEF Open, pool
    <2>3. CASE r # s
      <3>1. /\ pc'[r] = pc[r] /\ target'[r] = target[r] /\ seen'[r] = seen[r]
            /\ result'[r] = result[r] /\ stale'[r] = stale[r] /\ during'[r] = during[r]
        BY <2>1, <2>2, <2>3 DEF TypeOK
      <3>2. QED
        BY <1>3, <3>1 DEF ReadersServed, Served, Reading
    <2>4. CASE r = s
      <3>1. /\ pc'[r] = "read" /\ target'[r] = k /\ result'[r] = {}
            /\ seen'[r] = IF k = NoGraph THEN {} ELSE graphs[k]
            /\ ~stale'[r] /\ during'[r] = BeingFilled(n)
        BY <2>1, <2>2, <2>4 DEF TypeOK
      <3>2. k = NoGraph \/ k = graphPool[n]
        BY <2>1 DEF Found
      <3>3. ASSUME ~BeingFilled(n), k # NoGraph
            PROVE  /\ Rests(k)
                   /\ ~shaken' => asked[k] \subseteq graphs[k]
        <4>1. \A m \in GraphName : graphPool[m] = k => m = n
          BY <3>2, <3>3 DEF OneName
        <4>2. \A t \in Session : Adding(t) => target[t] # k
          BY <3>2, <3>3 DEF OneName, Adding, BeingFilled, Filling
        <4>3. ~shaken' => asked[k] \subseteq graphs[k]
          BY <1>1, <3>2, <3>3 DEF NothingForgotten, Brings, BeingFilled
        <4>4. QED
          BY <3>3, <4>1, <4>2, <4>3 DEF Rests
      <3>4. k # NoGraph => k \in 1..made
        BY <3>2, NamedAssumption DEF TypeOK, NoGraph
      <3>5. ASSUME ~BeingFilled(n), k # NoGraph
            PROVE  /\ \A t \in Session : Adding(t)' => target'[t] # k
                   /\ \A m \in GraphName : graphPool'[m] = k => ~BeingFilled(m)'
        BY <3>3, <3>4, <3>5, RestsStep
      <3>6. QED
        BY <2>2, <3>1, <3>3, <3>5 DEF Served, Expected, Rests
    <2>5. QED
      BY <2>3, <2>4
  <1>11. ASSUME NEW s \in Session, Fetch(s)
         PROVE  Served(r)'
    <2>1. PICK x \in Ahead(s) :
                 IF stale[s] THEN pc' = [pc EXCEPT ![s] = "failed"] /\ UNCHANGED result
                             ELSE result' = [result EXCEPT ![s] = @ \cup {x}] /\ UNCHANGED pc
      BY <1>11 DEF Fetch
    <2>2. /\ pc[s] = "read"
          /\ UNCHANGED <<graphPool, graphs, made, name, nodes, target, seen, stale, during,
                         asked, joining, shaken>>
      BY <1>11 DEF Fetch, pool, history
    <2>3. CASE r # s
      <3>1. pc'[r] = pc[r] /\ result'[r] = result[r]
        BY <2>1, <2>3 DEF TypeOK
      <3>2. QED
        BY <1>3, <2>2, <3>1 DEF ReadersServed, Served, Reading
    <2>4. CASE r = s
      <3>1. Served(r)
        BY <2>2, <2>4 DEF ReadersServed, Reading
      <3>2. target[r] # NoGraph => x \in Expected(target[r])
        <4>1. target[r] # NoGraph => target[r] \in Graph
          BY <1>2, NamedAssumption DEF TypeOK, Graph
        <4>2. QED
          BY <2>1, <2>4, <4>1 DEF Ahead, OnlyExpected
      <3>3. /\ pc'[r] \in {"read", "failed"}
            /\ ~stale[r] => pc'[r] # "failed"
            /\ result'[r] \subseteq result[r] \cup {x}
        BY <2>1, <2>2, <2>4 DEF TypeOK
      <3>4. ASSUME ~during[r], target[r] # NoGraph
            PROVE  /\ \A t \in Session : Adding(t)' => target'[t] # target[r]
                   /\ \A n \in GraphName : graphPool'[n] = target[r] => ~BeingFilled(n)'
        <4>1. PICK g \in 1..made : g = target[r]
          BY <1>2, <3>4
        <4>2. Rests(g)
          BY <3>1, <3>4, <4>1 DEF Served
        <4>3. QED
          BY <4>1, <4>2, RestsStep
      <3>5. QED
        BY <2>2, <3>1, <3>2, <3>3, <3>4 DEF Served, Expected, Rests
    <2>5. QED
      BY <2>3, <2>4
  <1>12. ASSUME NEW s \in Session, Finish(s)
         PROVE  Served(r)'
    <2>1. /\ pc[s] = "read" /\ Ahead(s) \cap seen[s] = {}
          /\ pc' = [pc EXCEPT ![s] = "done"]
          /\ UNCHANGED <<graphPool, graphs, made, name, nodes, target, seen, result, stale,
                         during, asked, joining, shaken>>
      BY <1>12 DEF Finish, pool, reading, history
    <2>2. CASE r # s
      <3>1. pc'[r] = pc[r]
        BY <2>1, <2>2 DEF TypeOK
      <3>2. QED
        BY <1>3, <2>1, <3>1 DEF ReadersServed, Served, Reading
    <2>3. CASE r = s
      <3>1. Served(r) /\ pc'[r] = "done"
        BY <2>1, <2>3 DEF ReadersServed, Reading, TypeOK
      <3>2. ASSUME target[r] # NoGraph, seen[r] \subseteq graphs[target[r]]
            PROVE  seen[r] \subseteq result[r]
        BY <2>1, <2>3, <3>2 DEF Ahead
      <3>3. ASSUME ~during[r], target[r] # NoGraph
            PROVE  /\ \A t \in Session : Adding(t)' => target'[t] # target[r]
                   /\ \A n \in GraphName : graphPool'[n] = target[r] => ~BeingFilled(n)'
        <4>1. PICK g \in 1..made : g = target[r]
          BY <1>2, <3>3
        <4>2. Rests(g)
          BY <3>1, <3>3, <4>1 DEF Served
        <4>3. QED
          BY <4>1, <4>2, RestsStep
      <3>4. QED
        BY <2>1, <3>1, <3>2, <3>3 DEF Served, Expected, Rests
    <2>4. QED
      BY <2>2, <2>3
  <1>13. ASSUME NEW s \in Session, Close(s)
         PROVE  Served(r)'
    <2>1. r # s
      BY <1>13 DEF Close, Reading, TypeOK
    <2>2. /\ pc'[r] = pc[r] /\ target'[r] = target[r] /\ seen'[r] = seen[r]
          /\ result'[r] = result[r] /\ stale'[r] = stale[r] /\ during'[r] = during[r]
      BY <1>13, <2>1 DEF Close, TypeOK
    <2>3. QED
      BY <1>3, <2>2 DEF ReadersServed, Served, Reading
  <1>14. CASE UNCHANGED vars
    BY <1>3, <1>14 DEF vars, control, reading, ReadersServed, Served, Reading
  <1>15. QED
    BY <1>4, <1>5, <1>6, <1>7, <1>8, <1>9, <1>10, <1>11, <1>12, <1>13, <1>14 DEF Next

-----------------------------------------------------------------------------
LEMMA AlwaysNamedInv == Spec => []NamedInv
  <1>1. NamedInv /\ [Next]_vars => NamedInv'
    BY TypeStep, RoomStep, OneNameStep, ExpectedStep, ForgottenStep, ReadersStep DEF NamedInv
  <1>2. QED
    BY InitNamedInv, <1>1, PTL DEF Spec

\* The graph under a name holds what its own CREATE GRAPH collected and, but for
\* what earlier ones of the name had yet to add, nothing else, for any number of
\* sessions that create and delete it (CreateGraphPipe.scala:44).
THEOREM NamesHoldWhatWasAsked == Spec => []NamedAsAsked
  <1>1. NamedInv => NamedAsAsked
    <2> SUFFICES ASSUME NamedInv, ~shaken, NEW n \in GraphName, graphPool[n] # NoGraph
                 PROVE  /\ graphs[graphPool[n]] \subseteq asked[graphPool[n]] \cup joining[graphPool[n]]
                        /\ ~BeingFilled(n) => asked[graphPool[n]] \subseteq graphs[graphPool[n]]
      BY DEF NamedAsAsked
    <2>1. graphPool[n] \in Graph
      BY NamedAssumption DEF NamedInv, TypeOK, Graph, NoGraph
    <2>2. QED
      BY <2>1 DEF NamedInv, OnlyExpected, Expected, NothingForgotten, Brings, BeingFilled
  <1>2. QED
    BY <1>1, AlwaysNamedInv, PTL

\* A read by name that begins while nobody fills the name returns the whole of its
\* graph and never throws, whatever becomes of the name (UserGraph.java).
THEOREM ReadsAreWhole == Spec => []ReadIsWhole
  <1>1. NamedInv => ReadIsWhole
    BY DEF NamedInv, ReadersServed, Served, Reading, Expected, ReadIsWhole
  <1>2. QED
    BY <1>1, AlwaysNamedInv, PTL
=============================================================================
