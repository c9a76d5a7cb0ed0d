----------------------- MODULE VersionedQueriesProofs -----------------------
(***************************************************************************)
(* Theorems of VersionedQueries, for any number of sessions.  For queries  *)
(* whose plans all scan all nodes and that name no graph: the read mode is *)
(* never left behind, and a query which nothing overlaps answers for its   *)
(* version.  For every kind of plan: a version flag is left behind only by *)
(* one that scans no nodes, a name flag also by a scan that found the      *)
(* version flag first; and a query that finds both down and that nothing   *)
(* overlaps answers what it asks for.                                      *)
(*                                                                         *)
(* And of the filters that queries ask for, as MCFilterVersion builds      *)
(* them: what TransFormer makes of a version clause selects what the       *)
(* clause says, for any number of predicates of every form, any versions   *)
(* and any life.  That proof follows the filters from the inside: a        *)
(* comparison, a predicate, the ways in which predicates are packed.       *)
(***************************************************************************)
EXTENDS VersionedQueries, MCFilterVersion, FiniteSetTheorems, TLAPS

\* A session that is not idle runs a query; one that selects, selects something.
QueryKnown ==
    \A s \in Session :
        /\ pc[s] # "idle" => query[s] \in Query
        /\ pc[s] \in {"select", "raise"} => query[s].select # "none"

\* The name to read by is set before its flag.
NameKnown ==
    /\ byName => graphName \in Name
    /\ \A s \in Session :
          \/ pc[s] = "raise" /\ query[s].select = "name"
          \/ pc[s] \in {"lowerName", "named"}
          => graphName \in Name

\* A query that selects has not scanned yet; one that scans again has rows left.
ScansLeft ==
    \A s \in Session :
        /\ pc[s] \in {"idle", "select", "raise"} => rows[s] = Nothing
        /\ pc[s] \notin {"done", "failed"} /\ rows[s] # Nothing =>
              query[s].leaf = "pair" /\ rows[s] # {}

QInv == QueryTypeOK /\ QueryKnown /\ NameKnown /\ ScansLeft

LEMMA InitQInv == QueryInit => QInv
  <1> SUFFICES ASSUME QueryInit PROVE QInv
    OBVIOUS
  <1> USE DEF QueryInit
  <1>1. byVersion \in BOOLEAN /\ byName \in BOOLEAN
    OBVIOUS
  <1>2. alone \in [Session -> BOOLEAN] /\ clear \in [Session -> BOOLEAN]
    BY Zenon
  <1>3. rows \in [Session -> (SUBSET Entity) \cup {Nothing}]
    OBVIOUS
  <1>4. QueryTypeOK
    BY <1>1, <1>2, <1>3 DEF QueryTypeOK
  <1>5. QueryKnown /\ NameKnown /\ ScansLeft
    BY DEF QueryKnown, NameKnown, ScansLeft
  <1> QED
    BY <1>4, <1>5 DEF QInv

LEMMA BeginQInv ==
    ASSUME QInv, NEW s \in Session, NEW q \in Query, Begin(s, q)
    PROVE  QInv'
  <1> USE DEF QInv, QueryTypeOK, Begin, Goto, At, readMode, nameHistory
  <1>1. alone' \in [Session -> BOOLEAN] /\ clear' \in [Session -> BOOLEAN]
    BY Zenon
  <1>2. pc' = [pc EXCEPT ![s] = IF q.select = "none" THEN "read" ELSE "select"]
    OBVIOUS
  <1>3. QueryTypeOK'
    BY <1>1, <1>2
  <1>4. QueryKnown' /\ NameKnown' /\ ScansLeft'
    BY <1>2 DEF QueryKnown, NameKnown, ScansLeft
  <1> QED
    BY <1>3, <1>4

\* The step that every scan ends with.
LEMMA ScannedQInv ==
    ASSUME QInv, QueryAssumption, NEW s \in Session, NEW S \in SUBSET Entity, Scanned(s, S),
           pc[s] \notin {"idle", "done", "failed"},
           byVersion' \in BOOLEAN, byName' = byName,
           UNCHANGED <<filter, graphName, raisedFor, nameHistory, query, todo, alone, clear>>
    PROVE  QInv'
  <1> USE DEF QInv, QueryTypeOK, nameHistory, Scanned, Goto
  <1>1. PICK left \in Left(s, S) :
           /\ rows' = [rows EXCEPT ![s] = left]
           /\ Goto(s, IF left = {} THEN "done" ELSE "read")
    OBVIOUS
  <1>2. left \in SUBSET Entity /\ (left # {} => query[s].leaf = "pair")
    BY <1>1 DEF Left
  <1>3. left # Nothing
    BY <1>2 DEF QueryAssumption
  <1>4. QueryTypeOK'
    BY <1>1, <1>2
  <1>5. QueryKnown' /\ NameKnown'
    BY <1>1 DEF QueryKnown, NameKnown
  <1>6. ScansLeft'
    BY <1>1, <1>2 DEF ScansLeft
  <1> QED
    BY <1>4, <1>5, <1>6

LEMMA StepQInv ==
    ASSUME QInv, QueryAssumption, NEW s \in Session, Step(s), UNCHANGED graphVars
    PROVE  QInv'
  <1> USE DEF QInv, QueryTypeOK, QueryKnown, NameKnown, ScansLeft, Goto, At, Reads, readMode,
             nameHistory
  <1>1. CASE Select(s)
    <2>1. query[s] \in Query /\ query[s].select # "none"
      BY <1>1 DEF Select
    <2>2. query[s].select = "version" => query[s].filter \in Filters
      BY <2>1 DEF Query
    <2>3. query[s].select # "version" => query[s].name \in Name
      BY <2>1 DEF Query
    <2>4. QueryTypeOK'
      BY <1>1, <2>2, <2>3 DEF Select
    <2>5. QueryKnown' /\ NameKnown' /\ ScansLeft'
      BY <1>1, <2>1, <2>3 DEF Select
    <2> QED
      BY <2>4, <2>5
  <1>2. CASE Raise(s)
    <2>1. query[s] \in Query /\ query[s].select # "none"
      BY <1>2 DEF Raise
    <2>2. query[s].leaf \in Leaf /\ query[s].select \in {"version", "name"}
      BY <2>1 DEF Query
    <2>3. QueryTypeOK'
      BY <1>2, <2>2 DEF Raise
    <2>4. QueryKnown' /\ NameKnown' /\ ScansLeft'
      BY <1>2, <2>2 DEF Raise
    <2> QED
      BY <2>3, <2>4
  <1>3. CASE CheckVersion(s)
    <2>1. QueryTypeOK'
      BY <1>3 DEF CheckVersion, Entity
    <2>2. QueryKnown' /\ NameKnown' /\ ScansLeft'
      BY <1>3 DEF CheckVersion
    <2> QED
      BY <2>1, <2>2
  <1>4. CASE CheckName(s)
    <2>1. CASE byName
      <3>1. QueryTypeOK'
        BY <1>4, <2>1 DEF CheckName
      <3>2. QueryKnown' /\ NameKnown' /\ ScansLeft'
        BY <1>4, <2>1 DEF CheckName
      <3> QED
        BY <3>1, <3>2
    <2>2. CASE ~byName
      <3>1. Node \in SUBSET Entity
        BY DEF Entity
      <3> QED
        BY <1>4, <2>2, <3>1, ScannedQInv DEF CheckName
    <2> QED
      BY <2>1, <2>2
  <1>5. CASE Visit(s)
    <2> PICK n \in todo[s] :
           /\ todo' = [todo EXCEPT ![s] = @ \ {n}]
           /\ result' = [result EXCEPT ![s] = @ \cup Selected(n)]
      BY <1>5 DEF Visit
    <2>1. Selected(n) \subseteq Entity
      BY DEF Selected
    <2>2. QueryTypeOK'
      BY <1>5, <2>1 DEF Visit
    <2>3. QueryKnown' /\ NameKnown' /\ ScansLeft'
      BY <1>5 DEF Visit
    <2> QED
      BY <2>2, <2>3
  <1>6. CASE LowerVersion(s)
    <2>1. result[s] \in SUBSET Entity
      OBVIOUS
    <2>2. byVersion' \in BOOLEAN
      BY <1>6 DEF LowerVersion
    <2> QED
      BY <1>6, <2>1, <2>2, ScannedQInv DEF LowerVersion
  <1>7. CASE LowerName(s)
    <2>1. QueryTypeOK'
      BY <1>7 DEF LowerName
    <2>2. QueryKnown' /\ NameKnown' /\ ScansLeft'
      BY <1>7 DEF LowerName
    <2> QED
      BY <2>1, <2>2
  <1>8. CASE ReadNamed(s)
    <2>1. GraphPool[graphName] \in SUBSET Entity
      BY <1>8 DEF ReadNamed, QueryAssumption, Entity
    <2> QED
      BY <1>8, <2>1, ScannedQInv DEF ReadNamed
  <1>9. CASE ReadStore(s)
    <2>1. QueryTypeOK'
      BY <1>9 DEF ReadStore, Entity
    <2>2. QueryKnown' /\ NameKnown' /\ ScansLeft'
      BY <1>9 DEF ReadStore
    <2> QED
      BY <2>1, <2>2
  <1>10. CASE StartLoad(s)
    <2>1. QueryTypeOK'
      BY <1>10 DEF StartLoad, Entity
    <2>2. QueryKnown' /\ NameKnown' /\ ScansLeft'
      BY <1>10 DEF StartLoad
    <2> QED
      BY <2>1, <2>2
  <1>11. CASE Load(s)
    <2> PICK r \in todo[s] :
          IF byVersion /\ ~Known(r)
          THEN Goto(s, "failed") /\ UNCHANGED <<todo, result>>
          ELSE /\ todo' = [todo EXCEPT ![s] = @ \ {r}]
               /\ result' = [result EXCEPT ![s] = @ \cup IF byVersion THEN Selected(r) ELSE {r}]
               /\ UNCHANGED pc
      BY <1>11 DEF Load
    <2>1. Selected(r) \subseteq Entity /\ {r} \subseteq Entity
      BY DEF Selected
    <2>2. result' \in [Session -> SUBSET Entity] /\ todo' \in [Session -> SUBSET Entity]
      BY <2>1
    <2>3. pc' = pc \/ pc' = [pc EXCEPT ![s] = "failed"]
      OBVIOUS
    <2>4. QueryTypeOK'
      BY <1>11, <2>2, <2>3 DEF Load
    <2>5. QueryKnown' /\ NameKnown' /\ ScansLeft'
      BY <1>11, <2>3 DEF Load
    <2> QED
      BY <2>4, <2>5
  <1>12. CASE Loaded(s)
    <2>1. QueryTypeOK'
      BY <1>12 DEF Loaded
    <2>2. QueryKnown' /\ NameKnown' /\ ScansLeft'
      BY <1>12 DEF Loaded
    <2> QED
      BY <2>1, <2>2
  <1>13. CASE End(s)
    <2>1. alone' \in [Session -> BOOLEAN] /\ clear' \in [Session -> BOOLEAN]
      BY <1>13 DEF End
    <2>2. rows' \in [Session -> (SUBSET Entity) \cup {Nothing}]
      BY <1>13 DEF End
    <2>3. QueryTypeOK'
      BY <1>13, <2>1, <2>2 DEF End
    <2>4. QueryKnown' /\ NameKnown' /\ ScansLeft'
      BY <1>13 DEF End
    <2> QED
      BY <2>3, <2>4
  <1> QED
    BY <1>1, <1>2, <1>3, <1>4, <1>5, <1>6, <1>7, <1>8, <1>9, <1>10, <1>11, <1>12, <1>13 DEF Step

LEMMA NextQInv == QueryAssumption /\ QInv /\ [QueryNext]_queryVars => QInv'
  <1> SUFFICES ASSUME QueryAssumption, QInv, [QueryNext]_queryVars PROVE QInv'
    OBVIOUS
  <1>1. CASE UNCHANGED queryVars
    BY <1>1 DEF QInv, QueryTypeOK, QueryKnown, NameKnown, ScansLeft, queryVars, readMode,
               nameHistory, control
  <1>2. ASSUME NEW s \in Session, Step(s), UNCHANGED graphVars PROVE QInv'
    BY <1>2, StepQInv
  <1>3. ASSUME NEW s \in Session, NEW q \in Query, Begin(s, q) PROVE QInv'
    BY <1>3, BeginQInv
  <1> QED
    BY <1>1, <1>2, <1>3 DEF QueryNext

LEMMA QueryInvariant == QuerySpec => []QInv
  <1>1. QuerySpec => QInv
    BY InitQInv DEF QuerySpec
  <1>2. QInv /\ [QueryNext]_queryVars => QInv'
    BY NextQInv, QueryAssumption
  <1> QED
    BY <1>1, <1>2, PTL DEF QuerySpec

\* The read mode and the sessions keep their types, whatever the queries.
THEOREM QueryTypeCorrect == QuerySpec => []QueryTypeOK
  <1>1. QInv => QueryTypeOK
    BY DEF QInv
  <1> QED
    BY <1>1, QueryInvariant, PTL

-----------------------------------------------------------------------------
(* Queries whose plans all scan all nodes.                                 *)

OnlyScans == Leaf \subseteq {"all", "pair"}

LEMMA StepFlagOwned ==
    ASSUME OnlyScans, QInv, FlagOwned, NEW s \in Session, Step(s)
    PROVE  FlagOwned'
  <1> USE DEF QInv, QueryTypeOK, Goto, At, Reads, readMode
  <1>1. pc[s] # "idle" => query[s].leaf \in {"all", "pair"}
    BY DEF OnlyScans, QueryKnown, Query
  <1>2. ~ReadStore(s) /\ ~StartLoad(s)
    BY <1>1 DEF ReadStore, StartLoad
  <1>3. CASE Raise(s)
    BY <1>3 DEF Raise, FlagOwned
  <1>4. CASE CheckVersion(s)
    BY <1>4 DEF CheckVersion, FlagOwned
  <1>5. CASE LowerVersion(s)
    BY <1>5 DEF LowerVersion, FlagOwned
  <1>6. CASE Visit(s)
    BY <1>6 DEF Visit, FlagOwned
  <1>7. ASSUME Select(s) \/ CheckName(s) \/ LowerName(s) \/ ReadNamed(s)
                 \/ Load(s) \/ Loaded(s) \/ End(s)
        PROVE  FlagOwned'
    <2>1. byVersion' = byVersion
      BY <1>7 DEF Select, CheckName, LowerName, ReadNamed, Load, Loaded, End
    <2>2. pc[s] \notin {"read", "visit"}
      BY <1>7 DEF Select, CheckName, LowerName, ReadNamed, Load, Loaded, End
    <2>3. \A t \in Session \ {s} : pc'[t] = pc[t] /\ query'[t] = query[t]
      BY <1>7 DEF Select, CheckName, LowerName, ReadNamed, Load, Loaded, End, Scanned
    <2> QED
      BY <2>1, <2>2, <2>3 DEF FlagOwned
  <1> QED
    BY <1>2, <1>3, <1>4, <1>5, <1>6, <1>7 DEF Step

LEMMA NextFlagOwned ==
    OnlyScans /\ QInv /\ FlagOwned /\ [QueryNext]_queryVars => FlagOwned'
  <1> SUFFICES ASSUME OnlyScans, QInv, FlagOwned, [QueryNext]_queryVars PROVE FlagOwned'
    OBVIOUS
  <1>1. CASE UNCHANGED queryVars
    BY <1>1 DEF FlagOwned, At, queryVars, readMode, control
  <1>2. ASSUME NEW s \in Session, Step(s) PROVE FlagOwned'
    BY <1>2, StepFlagOwned
  <1>3. ASSUME NEW s \in Session, NEW q \in Query, Begin(s, q) PROVE FlagOwned'
    BY <1>3 DEF Begin, FlagOwned, Goto, At, readMode, QInv, QueryTypeOK
  <1> QED
    BY <1>1, <1>2, <1>3 DEF QueryNext

\* When every plan scans all nodes, no interleaving leaves the read mode up.
THEOREM FlagNeverLeft == ASSUME OnlyScans PROVE QuerySpec => []FlagOwned
  <1>1. QuerySpec => FlagOwned
    BY DEF QuerySpec, QueryInit, FlagOwned
  <1>2. QInv /\ FlagOwned /\ [QueryNext]_queryVars => FlagOwned'
    BY NextFlagOwned
  <1> QED
    BY <1>1, <1>2, QueryInvariant, PTL DEF QuerySpec

-----------------------------------------------------------------------------
(* ... and that name no graph: where a query that runs alone stands.       *)

VersionsOnly == OnlyScans /\ Name = {}

\* What the query of s, running alone, knows at each step.
Alone(s) ==
    LET q == query[s] IN
    /\ \A t \in Session \ {s} : pc[t] = "idle"
    /\ pc[s] \in {"select", "raise", "read", "visit", "checkName", "done"}
    /\ pc[s] \in {"select", "raise"} => ~byVersion /\ rows[s] = Nothing /\ q.select = "version"
    /\ pc[s] = "raise" => filter = q.filter
    /\ pc[s] = "read" /\ rows[s] = Nothing =>
          (byVersion <=> q.select = "version") /\ (byVersion => filter = q.filter)
    /\ pc[s] \in {"read", "checkName"} /\ rows[s] # Nothing =>
          ~byVersion /\ q.leaf = "pair" /\ rows[s] # {} /\ Asked(q) # {}
    /\ pc[s] = "checkName" => ~byVersion /\ (rows[s] = Nothing => q.select = "none")
    /\ pc[s] = "visit" =>
          /\ rows[s] = Nothing /\ q.select = "version" /\ filter = q.filter
          /\ todo[s] \subseteq present \cap Node
          /\ result[s] = AllByFilter(Node, filter) \ todo[s]
    /\ pc[s] = "done" /\ q.leaf = "all" => result[s] = Asked(q)
    /\ pc[s] = "done" /\ q.leaf = "pair" => result[s] = IF Asked(q) = {} THEN {} ELSE Node

AloneInv == \A s \in Session : alone[s] => Alone(s)

\* What a query asks for depends on the graph alone.
LEMMA AskedKept ==
    ASSUME UNCHANGED graphVars
    PROVE  /\ \A q : Asked(q)' = Asked(q)
           /\ \A f : AllByFilter(Node, f)' = AllByFilter(Node, f)
  BY DEF Asked, AllByFilter, graphVars

LEMMA BeginAlone ==
    ASSUME VersionsOnly, QInv, FlagOwned, AloneInv, NEW s \in Session, NEW q \in Query,
           Begin(s, q), UNCHANGED graphVars
    PROVE  AloneInv'
  <1> USE DEF QInv, QueryTypeOK, Goto, At, readMode, Begin
  <1>1. ASSUME NEW t \in Session, alone'[t] PROVE Alone(t)'
    <2>1. t = s /\ \A u \in Session : pc[u] = "idle"
      BY <1>1
    <2>2. ~byVersion
      BY <2>1 DEF FlagOwned
    <2>3. q.select \in {"none", "version"}
      BY DEF VersionsOnly, Query
    <2>4. rows'[s] = Nothing
      BY <2>1 DEF ScansLeft
    <2>5. query'[s] = q /\ pc'[s] = IF q.select = "none" THEN "read" ELSE "select"
      OBVIOUS
    <2> QED
      BY <2>1, <2>2, <2>3, <2>4, <2>5 DEF Alone
  <1> QED
    BY <1>1 DEF AloneInv

LEMMA StepAlone ==
    ASSUME QueryAssumption, VersionsOnly, QInv, AloneInv, NEW s \in Session, Step(s),
           UNCHANGED graphVars
    PROVE  AloneInv'
  <1> USE DEF QInv, QueryTypeOK, Goto, At, Reads, readMode
  <1>1. \A t \in Session \ {s} : ~alone[t]
    <2>1. pc[s] # "idle"
      BY DEF Step, Select, Raise, CheckVersion, CheckName, Visit, LowerVersion, LowerName,
             ReadNamed, ReadStore, StartLoad, Load, Loaded, End
    <2> QED
      BY <2>1 DEF AloneInv, Alone
  <1>2. alone' = alone \/ alone' = [alone EXCEPT ![s] = FALSE]
    BY DEF Step, Select, Raise, CheckVersion, CheckName, Visit, LowerVersion, LowerName,
           ReadNamed, ReadStore, StartLoad, Load, Loaded, End
  <1>3. SUFFICES ASSUME alone[s], alone'[s] PROVE Alone(s)'
    BY <1>1, <1>2 DEF AloneInv
  <1>4. Alone(s) /\ query[s] \in Query /\ query[s].leaf \in {"all", "pair"}
        /\ query[s].select \in {"none", "version"} /\ ~byName
    BY <1>3 DEF AloneInv, Alone, QueryKnown, NameKnown, VersionsOnly, OnlyScans, Query
  <1>5. ~End(s) /\ ~ReadStore(s) /\ ~StartLoad(s) /\ ~Load(s) /\ ~Loaded(s)
        /\ ~LowerName(s) /\ ~ReadNamed(s)
    BY <1>3, <1>4 DEF Alone, End, ReadStore, StartLoad, Load, Loaded, LowerName, ReadNamed
  <1> USE <1>4 DEF Alone
  <1>6. CASE Select(s)
    BY <1>6 DEF Select
  <1>7. CASE Raise(s)
    BY <1>7 DEF Raise
  <1>8. CASE CheckVersion(s)
    <2>1. CASE byVersion
      <3>1. AllByFilter(Node, filter) \subseteq present \cap Node
        BY DEF AllByFilter
      <3>2. rows[s] = Nothing /\ query[s].select = "version" /\ filter = query[s].filter
        BY <1>8, <2>1 DEF CheckVersion
      <3>3. todo'[s] = present \cap Node /\ result'[s] = {} /\ pc'[s] = "visit"
        BY <1>8, <2>1 DEF CheckVersion
      <3>4. AllByFilter(Node, filter)' = AllByFilter(Node, filter)
        BY <1>8 DEF CheckVersion, AllByFilter, graphVars
      <3>5. result'[s] = AllByFilter(Node, filter)' \ todo'[s]
        BY <3>1, <3>3, <3>4
      <3>6. \A t \in Session \ {s} : pc'[t] = "idle"
        BY <1>8, <2>1 DEF CheckVersion
      <3> QED
        BY <1>8, <3>2, <3>3, <3>5, <3>6 DEF CheckVersion, graphVars
    <2>2. CASE ~byVersion
      <3>1. /\ pc' = [pc EXCEPT ![s] = "checkName"] /\ pc[s] = "read"
            /\ UNCHANGED <<query, rows, byVersion>>
        BY <1>8, <2>2 DEF CheckVersion
      <3>2. Asked(query[s])' = Asked(query[s])
        BY <3>1, AskedKept
      <3> QED
        BY <2>2, <3>1, <3>2
    <2> QED
      BY <2>1, <2>2
  <1>9. CASE CheckName(s)
    <2>1. /\ pc[s] = "checkName" /\ ~byVersion' /\ query' = query /\ result'[s] = Node
          /\ Asked(query[s])' = Asked(query[s])
      BY <1>9, AskedKept DEF CheckName, Scanned
    <2>2. PICK left \in Left(s, Node) :
             /\ rows' = [rows EXCEPT ![s] = left]
             /\ pc' = [pc EXCEPT ![s] = IF left = {} THEN "done" ELSE "read"]
      BY <1>9 DEF CheckName, Scanned
    <2>3. left \in SUBSET Entity /\ (left # {} => query[s].leaf = "pair")
      BY <2>2 DEF Left, Entity
    <2>4. left # Nothing
      BY <2>3 DEF QueryAssumption
    <2>5. CASE rows[s] = Nothing
      <3>1. Asked(query[s]) = Node
        BY <2>1, <2>5 DEF Asked
      <3>2. query[s].leaf = "pair" => left = Node
        BY <2>2, <2>5 DEF Left
      <3> QED
        BY <1>9, <2>1, <2>2, <2>3, <2>4, <3>1, <3>2 DEF CheckName
    <2>6. CASE rows[s] # Nothing
      <3>1. query[s].leaf = "pair" /\ Asked(query[s]) # {}
        BY <2>1, <2>6
      <3> QED
        BY <1>9, <2>1, <2>2, <2>3, <2>4, <2>6, <3>1 DEF CheckName
    <2> QED
      BY <2>5, <2>6
  <1>10. CASE Visit(s)
    <2> PICK n \in todo[s] :
           /\ todo' = [todo EXCEPT ![s] = @ \ {n}]
           /\ result' = [result EXCEPT ![s] = @ \cup Selected(n)]
      BY <1>10 DEF Visit
    <2>1. pc[s] = "visit"
      BY <1>10 DEF Visit
    <2>2. n \in Selected(n) <=> n \in AllByFilter(Node, filter)
      BY <2>1 DEF Selected, AllByFilter
    <2>3. Selected(n) \subseteq {n}
      BY DEF Selected
    <2>4. AllByFilter(Node, filter)' = AllByFilter(Node, filter)
      BY <1>10 DEF Visit, AllByFilter, graphVars
    <2>5. result'[s] = result[s] \cup Selected(n) /\ todo'[s] = todo[s] \ {n}
      OBVIOUS
    <2>6. result'[s] = AllByFilter(Node, filter)' \ todo'[s]
      BY <2>1, <2>2, <2>3, <2>4, <2>5
    <2> QED
      BY <1>10, <2>1, <2>5, <2>6 DEF Visit, graphVars
  <1>11. CASE LowerVersion(s)
    <2>1. pc[s] = "visit" /\ todo[s] = {} /\ rows[s] = Nothing
      BY <1>11 DEF LowerVersion
    <2>2. result[s] = Asked(query[s])
      BY <2>1 DEF Asked
    <2>3. Asked(query[s])' = Asked(query[s])
      BY <1>11 DEF LowerVersion, Asked, AllByFilter, graphVars
    <2>4. result'[s] = result[s] /\ ~byVersion' /\ query' = query
      BY <1>11, <2>1 DEF LowerVersion, Scanned
    <2>5. PICK left \in Left(s, result[s]) :
             /\ rows' = [rows EXCEPT ![s] = left]
             /\ pc' = [pc EXCEPT ![s] = IF left = {} THEN "done" ELSE "read"]
      BY <1>11, <2>1 DEF LowerVersion, Scanned
    <2>6. left = IF query[s].leaf = "pair" THEN result[s] ELSE {}
      BY <2>1, <2>5 DEF Left
    <2>7. left # Nothing
      BY <2>6 DEF QueryAssumption
    <2> QED
      BY <1>11, <2>2, <2>3, <2>4, <2>5, <2>6, <2>7 DEF LowerVersion
  <1> QED
    BY <1>5, <1>6, <1>7, <1>8, <1>9, <1>10, <1>11 DEF Step

LEMMA NextAlone ==
    VersionsOnly /\ QInv /\ FlagOwned /\ AloneInv /\ [QueryNext]_queryVars => AloneInv'
  <1> SUFFICES ASSUME VersionsOnly, QInv, FlagOwned, AloneInv, [QueryNext]_queryVars
               PROVE  AloneInv'
    OBVIOUS
  <1>1. CASE UNCHANGED queryVars
    <2>1. UNCHANGED <<byVersion, filter, query, pc, todo, result, rows, alone, present,
                      create, delete>>
      BY <1>1 DEF queryVars, readMode, control, graphVars
    <2>2. \A s \in Session : Asked(query[s])' = Asked(query[s])
      BY <2>1 DEF Asked, AllByFilter
    <2>3. AllByFilter(Node, filter)' = AllByFilter(Node, filter)
      BY <2>1 DEF AllByFilter
    <2> QED
      BY <2>1, <2>2, <2>3 DEF AloneInv, Alone
  <1>2. ASSUME NEW s \in Session, Step(s), UNCHANGED graphVars PROVE AloneInv'
    BY <1>2, StepAlone, QueryAssumption
  <1>3. ASSUME NEW s \in Session, NEW q \in Query, Begin(s, q), UNCHANGED graphVars
        PROVE  AloneInv'
    BY <1>3, BeginAlone
  <1> QED
    BY <1>1, <1>2, <1>3 DEF QueryNext

LEMMA AloneInvariant == ASSUME VersionsOnly PROVE QuerySpec => []AloneInv
  <1>1. OnlyScans
    BY DEF VersionsOnly
  <1>2. QuerySpec => []FlagOwned
    BY <1>1, FlagNeverLeft
  <1>3. QuerySpec => AloneInv
    BY DEF QuerySpec, QueryInit, AloneInv
  <1>4. QInv /\ FlagOwned /\ AloneInv /\ [QueryNext]_queryVars => AloneInv'
    BY NextAlone
  <1> QED
    BY <1>2, <1>3, <1>4, QueryInvariant, PTL DEF QuerySpec

\* Whatever ran before it, a query that no other query overlaps answers for
\* its version.
THEOREM AloneAnswers == ASSUME VersionsOnly PROVE QuerySpec => []AloneIsRight
  <1>1. AloneInv => AloneIsRight
    BY DEF AloneInv, Alone, AloneIsRight, At
  <1> QED
    BY <1>1, AloneInvariant, PTL

\* ... for its first pattern: the second one is read without the version.
THEOREM SecondPatternPlain == ASSUME VersionsOnly PROVE QuerySpec => []SecondPatternUnversioned
  <1>1. AloneInv => SecondPatternUnversioned
    BY DEF AloneInv, Alone, SecondPatternUnversioned, At
  <1> QED
    BY <1>1, AloneInvariant, PTL

-----------------------------------------------------------------------------
(* Plans of every kind: who can leave a flag of the read mode up.          *)

\* isReadByVersion was raised for a plan that does not look at it, or is on its
\* way down: a scan that will lower it is under way, or about to begin.
ScanWillLower(s) ==
    \/ pc[s] = "visit"
    \/ pc[s] = "read" /\ query[s].select = "version" /\ query[s].leaf \in {"all", "pair"}
VersionLeakInv ==
    byVersion => raisedFor \in {"store", "load"} \/ \E s \in Session : ScanWillLower(s)

LEMMA StepVersionLeak ==
    ASSUME QueryAssumption, QInv, VersionLeakInv, NEW s \in Session, Step(s)
    PROVE  VersionLeakInv'
  <1> USE DEF QInv, QueryTypeOK, Goto, At, Reads, readMode
  <1>1. CASE Raise(s)
    <2>1. CASE query[s].select = "version"
      <3>1. query[s].leaf \in {"all", "pair", "store", "load"}
        BY <1>1 DEF Raise, QueryKnown, Query, QueryAssumption
      <3>2. raisedFor' = query[s].leaf /\ pc'[s] = "read" /\ query' = query
        BY <1>1, <2>1 DEF Raise
      <3>3. raisedFor' \in {"store", "load"} \/ ScanWillLower(s)'
        BY <2>1, <3>1, <3>2 DEF ScanWillLower
      <3> QED
        BY <3>3 DEF VersionLeakInv
    <2>2. CASE query[s].select # "version"
      <3>1. byVersion' = byVersion /\ raisedFor' = raisedFor
        BY <1>1, <2>2 DEF Raise
      <3>2. \A t \in Session : ScanWillLower(t) => ScanWillLower(t)'
        BY <1>1 DEF Raise, ScanWillLower
      <3> QED
        BY <3>1, <3>2 DEF VersionLeakInv
    <2> QED
      BY <2>1, <2>2
  <1>2. CASE CheckVersion(s)
    <2>1. byVersion' => byVersion /\ pc'[s] = "visit"
      BY <1>2 DEF CheckVersion
    <2> QED
      BY <2>1 DEF VersionLeakInv, ScanWillLower
  <1>3. CASE LowerVersion(s)
    BY <1>3 DEF LowerVersion, VersionLeakInv
  <1>4. ASSUME Select(s) \/ CheckName(s) \/ Visit(s) \/ LowerName(s) \/ ReadNamed(s)
                 \/ ReadStore(s) \/ StartLoad(s) \/ Load(s) \/ Loaded(s) \/ End(s)
        PROVE  VersionLeakInv'
    <2>1. byVersion' = byVersion /\ raisedFor' = raisedFor
      BY <1>4 DEF Select, CheckName, Visit, LowerName, ReadNamed, ReadStore, StartLoad, Load,
                  Loaded, End
    <2>2. \A t \in Session \ {s} : pc'[t] = pc[t] /\ query'[t] = query[t]
      BY <1>4 DEF Select, CheckName, Visit, LowerName, ReadNamed, ReadStore, StartLoad, Load,
                  Loaded, End, Scanned
    <2>3. ScanWillLower(s) => ScanWillLower(s)'
      BY <1>4 DEF ScanWillLower, Select, CheckName, Visit, LowerName, ReadNamed, ReadStore,
                  StartLoad, Load, Loaded, End
    <2> QED
      BY <2>1, <2>2, <2>3 DEF VersionLeakInv, ScanWillLower
  <1> QED
    BY <1>1, <1>2, <1>3, <1>4 DEF Step

LEMMA NextVersionLeak == QInv /\ VersionLeakInv /\ [QueryNext]_queryVars => VersionLeakInv'
  <1> SUFFICES ASSUME QInv, VersionLeakInv, [QueryNext]_queryVars PROVE VersionLeakInv'
    OBVIOUS
  <1>1. CASE UNCHANGED queryVars
    BY <1>1 DEF VersionLeakInv, ScanWillLower, queryVars, readMode, control
  <1>2. ASSUME NEW s \in Session, Step(s) PROVE VersionLeakInv'
    BY <1>2, StepVersionLeak, QueryAssumption
  <1>3. ASSUME NEW s \in Session, NEW q \in Query, Begin(s, q) PROVE VersionLeakInv'
    <2>1. byVersion' = byVersion /\ raisedFor' = raisedFor
      BY <1>3 DEF Begin, readMode
    <2>2. \A t \in Session : ScanWillLower(t) => ScanWillLower(t)'
      BY <1>3 DEF Begin, ScanWillLower, Goto, At, QInv, QueryTypeOK
    <2> QED
      BY <2>1, <2>2 DEF VersionLeakInv
  <1> QED
    BY <1>1, <1>2, <1>3 DEF QueryNext

\* Whatever the plans read: isReadByVersion, up when no query runs, was raised
\* by one whose plan does not scan all nodes.
THEOREM VersionLeaksFromOtherPlans == QuerySpec => []VersionLeakOrigin
  <1>1. QuerySpec => VersionLeakInv
    BY DEF QuerySpec, QueryInit, VersionLeakInv
  <1>2. VersionLeakInv => VersionLeakOrigin
    BY DEF VersionLeakInv, VersionLeakOrigin, ScanWillLower, At
  <1> QED
    BY <1>1, <1>2, NextVersionLeak, QueryInvariant, PTL DEF QuerySpec

\* The query that raised isReadByName will take it down: it scans, and has not
\* met isReadByVersion.
NameWillLower(s) ==
    \/ pc[s] = "lowerName"
    \/ pc[s] \in {"read", "checkName"} /\ query[s].select = "name" /\ query[s].leaf \in {"all", "pair"}
NameLeakInv ==
    byName => namedBy \in Session /\ (namedFor = "store" \/ overtaken \/ NameWillLower(namedBy))

LEMMA StepNameLeak ==
    ASSUME QueryAssumption, QInv, NameLeakInv, NEW s \in Session, Step(s)
    PROVE  NameLeakInv'
  <1> USE DEF QInv, QueryTypeOK, Goto, At, Reads, readMode, nameHistory
  <1>1. CASE Raise(s)
    <2>1. CASE query[s].select = "version"
      <3>1. UNCHANGED <<byName, nameHistory, query>> /\ pc' = [pc EXCEPT ![s] = "read"]
        BY <1>1, <2>1 DEF Raise
      <3>2. namedBy \in Session /\ NameWillLower(namedBy) => NameWillLower(namedBy)'
        BY <1>1, <3>1 DEF Raise, NameWillLower
      <3> QED
        BY <3>1, <3>2 DEF NameLeakInv
    <2>2. CASE query[s].select # "version"
      <3>1. query[s].leaf \in {"all", "pair", "store"} /\ query[s].select = "name"
        BY <1>1, <2>2 DEF Raise, QueryKnown, Query, QueryAssumption
      <3>2. namedBy' = s /\ namedFor' = query[s].leaf /\ pc'[s] = "read" /\ query' = query
        BY <1>1, <2>2 DEF Raise
      <3>3. namedFor' = "store" \/ NameWillLower(s)'
        BY <3>1, <3>2 DEF NameWillLower
      <3>4. NameWillLower(s)' => NameWillLower(namedBy)'
        BY <3>2 DEF NameWillLower
      <3> QED
        BY <3>2, <3>3, <3>4 DEF NameLeakInv
    <2> QED
      BY <2>1, <2>2
  <1>2. CASE CheckVersion(s)
    <2>1. /\ UNCHANGED <<byName, namedBy, namedFor, query>> /\ pc[s] = "read"
          /\ overtaken' = (overtaken \/ (byVersion /\ query[s].select = "name" /\ namedBy = s))
          /\ pc' = [pc EXCEPT ![s] = IF byVersion THEN "visit" ELSE "checkName"]
      BY <1>2 DEF CheckVersion
    <2>2. ASSUME byName, NameWillLower(namedBy) PROVE overtaken' \/ NameWillLower(namedBy)'
      <3>1. CASE namedBy = s
        BY <2>1, <2>2, <3>1 DEF NameWillLower
      <3>2. CASE namedBy # s
        BY <2>1, <2>2, <3>2 DEF NameWillLower, NameLeakInv
      <3> QED
        BY <3>1, <3>2
    <2> QED
      BY <2>1, <2>2 DEF NameLeakInv
  <1>3. CASE LowerName(s)
    BY <1>3 DEF LowerName, NameLeakInv
  <1>4. CASE CheckName(s)
    <2>1. UNCHANGED <<byName, nameHistory, query>>
      BY <1>4 DEF CheckName
    <2>2. byName => pc' = [pc EXCEPT ![s] = "lowerName"]
      BY <1>4 DEF CheckName
    <2>3. byName /\ NameWillLower(namedBy) => NameWillLower(namedBy)'
      BY <2>1, <2>2 DEF NameWillLower, NameLeakInv
    <2> QED
      BY <2>1, <2>3 DEF NameLeakInv
  <1>5. ASSUME Select(s) \/ Visit(s) \/ LowerVersion(s) \/ ReadNamed(s) \/ ReadStore(s)
                 \/ StartLoad(s) \/ Load(s) \/ Loaded(s) \/ End(s)
        PROVE  NameLeakInv'
    <2>1. UNCHANGED <<byName, nameHistory>>
      BY <1>5 DEF Select, Visit, LowerVersion, ReadNamed, ReadStore, StartLoad, Load, Loaded, End
    <2>2. \A t \in Session \ {s} : pc'[t] = pc[t] /\ query'[t] = query[t]
      BY <1>5 DEF Select, Visit, LowerVersion, ReadNamed, ReadStore, StartLoad, Load, Loaded, End,
                  Scanned
    <2>3. ~NameWillLower(s)
      BY <1>5 DEF NameWillLower, Select, Visit, LowerVersion, ReadNamed, ReadStore, StartLoad,
                  Load, Loaded, End
    <2>4. byName /\ NameWillLower(namedBy) => NameWillLower(namedBy)'
      BY <2>1, <2>2, <2>3 DEF NameWillLower, NameLeakInv
    <2> QED
      BY <2>1, <2>4 DEF NameLeakInv
  <1> QED
    BY <1>1, <1>2, <1>3, <1>4, <1>5 DEF Step

LEMMA NextNameLeak == QInv /\ NameLeakInv /\ [QueryNext]_queryVars => NameLeakInv'
  <1> SUFFICES ASSUME QInv, NameLeakInv, [QueryNext]_queryVars PROVE NameLeakInv'
    OBVIOUS
  <1>1. CASE UNCHANGED queryVars
    BY <1>1 DEF NameLeakInv, NameWillLower, queryVars, readMode, nameHistory, control
  <1>2. ASSUME NEW s \in Session, Step(s) PROVE NameLeakInv'
    BY <1>2, StepNameLeak, QueryAssumption
  <1>3. ASSUME NEW s \in Session, NEW q \in Query, Begin(s, q) PROVE NameLeakInv'
    <2>1. UNCHANGED <<byName, nameHistory>>
      BY <1>3 DEF Begin, readMode
    <2>2. \A t \in Session : NameWillLower(t) => NameWillLower(t)'
      BY <1>3 DEF Begin, NameWillLower, Goto, At, QInv, QueryTypeOK
    <2>3. byName /\ NameWillLower(namedBy) => NameWillLower(namedBy)'
      BY <2>1, <2>2 DEF NameLeakInv, NameWillLower, nameHistory
    <2> QED
      BY <2>1, <2>3 DEF NameLeakInv, nameHistory
  <1> QED
    BY <1>1, <1>2, <1>3 DEF QueryNext

\* Whatever the plans read: isReadByName, up when no query runs, was raised by
\* one whose plan does not scan all nodes, or whose scan found isReadByVersion
\* up and answered with a version.
THEOREM NameLeaksExplained == QuerySpec => []NameLeakOrigin
  <1>1. QuerySpec => NameLeakInv
    BY DEF QuerySpec, QueryInit, NameLeakInv
  <1>2. NameLeakInv => NameLeakOrigin
    BY DEF NameLeakInv, NameLeakOrigin, NameWillLower, At
  <1> QED
    BY <1>1, <1>2, NextNameLeak, QueryInvariant, PTL DEF QuerySpec

-----------------------------------------------------------------------------
(* Plans of every kind, and queries by name: where a query stands that     *)
(* nothing overlaps and that began with the read mode down.                *)

\* A load meets no relation that has versions and was never added.
AddedIsKnown == \A x \in Entity \ present : create[x] = NoVersion

\* A query has returned nothing before it reads.
EmptyBefore ==
    \A s \in Session :
        \/ pc[s] \in {"idle", "select", "raise"}
        \/ pc[s] = "read" /\ query[s].leaf = "load"
        => result[s] = {}

\* The read mode is that of query q.
ModeOf(q) ==
    /\ byVersion <=> q.select = "version"
    /\ byName <=> q.select = "name"
    /\ q.select = "version" => filter = q.filter
    /\ q.select = "name" => graphName = q.name

Undisturbed(s) ==
    LET q == query[s] IN
    /\ \A t \in Session \ {s} : pc[t] = "idle"
    /\ pc[s] \in {"select", "raise", "read", "visit", "checkName", "lowerName", "named", "load",
                  "done", "failed"}
    /\ pc[s] \in {"select", "raise"} => ~byVersion /\ ~byName /\ q.select # "none"
    /\ pc[s] = "raise" /\ q.select = "version" => filter = q.filter
    /\ pc[s] = "raise" /\ q.select = "name" => graphName = q.name
    /\ pc[s] \in {"read", "visit", "checkName", "lowerName", "load"} => ModeOf(q)
    /\ pc[s] \in {"visit", "checkName", "lowerName", "named"} => q.leaf = "all"
    /\ pc[s] = "visit" =>
          /\ q.select = "version"
          /\ todo[s] \subseteq present \cap Node
          /\ result[s] = AllByFilter(Node, q.filter) \ todo[s]
    /\ pc[s] = "checkName" => q.select # "version"
    /\ pc[s] \in {"lowerName", "named"} => q.select = "name" /\ graphName = q.name
    /\ pc[s] = "load" =>
          /\ q.leaf = "load" /\ q.select \in {"none", "version"}
          /\ todo[s] \subseteq Relation
          /\ result[s] = Asked(q) \ todo[s]
    /\ pc[s] = "done" => result[s] = Asked(q)

UndisturbedInv ==
    /\ AddedIsKnown
    /\ EmptyBefore
    /\ \A s \in Session :
          alone[s] /\ clear[s] /\ query[s].leaf \in {"all", "load"} => Undisturbed(s)

LEMMA BeginUndisturbed ==
    ASSUME QInv, UndisturbedInv, NEW s \in Session, NEW q \in Query, Begin(s, q),
           UNCHANGED graphVars
    PROVE  UndisturbedInv'
  <1> USE DEF QInv, QueryTypeOK, Goto, At, readMode, Begin
  <1>1. AddedIsKnown'
    BY DEF UndisturbedInv, AddedIsKnown, graphVars
  <1>2. EmptyBefore'
    BY DEF UndisturbedInv, EmptyBefore
  <1>3. ASSUME NEW t \in Session, alone'[t], clear'[t] PROVE Undisturbed(t)'
    <2>1. t = s /\ \A u \in Session : pc[u] = "idle"
      BY <1>3
    <2>2. ~byVersion /\ ~byName
      BY <1>3, <2>1
    <2>3. query'[s] = q /\ pc'[s] = IF q.select = "none" THEN "read" ELSE "select"
      OBVIOUS
    <2>4. \A u \in Session \ {s} : pc'[u] = "idle"
      BY <2>1
    <2>5. byVersion' = byVersion /\ byName' = byName
      OBVIOUS
    <2> QED
      BY <2>1, <2>2, <2>3, <2>4, <2>5 DEF Undisturbed, ModeOf
  <1> QED
    BY <1>1, <1>2, <1>3 DEF UndisturbedInv

\* Only the first pattern of two leaves a scan to be made.
LEMMA ScannedEnds ==
    ASSUME QInv, NEW s \in Session, NEW S, Scanned(s, S)
    PROVE  /\ result'[s] = S
           /\ pc'[s] = "done" \/ query[s].leaf = "pair"
           /\ pc'[s] \in {"read", "done"}
           /\ \A t \in Session \ {s} : pc'[t] = pc[t]
  <1> USE DEF QInv, QueryTypeOK, Goto
  <1>1. PICK left \in Left(s, S) :
           pc' = [pc EXCEPT ![s] = IF left = {} THEN "done" ELSE "read"]
    BY DEF Scanned
  <1>2. left # {} => query[s].leaf = "pair"
    BY <1>1 DEF Left
  <1> QED
    BY <1>1, <1>2 DEF Scanned

LEMMA StepEmptyBefore ==
    ASSUME QInv, EmptyBefore, NEW s \in Session, Step(s)
    PROVE  EmptyBefore'
  <1> USE DEF QInv, QueryTypeOK, Goto, At, Reads, readMode, EmptyBefore
  <1>1. \A t \in Session \ {s} : pc'[t] = pc[t] /\ query'[t] = query[t] /\ result'[t] = result[t]
    BY DEF Step, Select, Raise, CheckVersion, CheckName, Visit, LowerVersion, LowerName, ReadNamed,
           ReadStore, StartLoad, Load, Loaded, End, Scanned
  <1>2. \/ pc'[s] \in {"idle", "select", "raise"}
        \/ pc'[s] = "read" /\ query'[s].leaf = "load"
        => result'[s] = {}
    <2>1. CASE Select(s)
      BY <2>1 DEF Select
    <2>2. CASE Raise(s)
      BY <2>2 DEF Raise
    <2>3. CASE End(s)
      BY <2>3 DEF End
    <2>4. CASE CheckName(s) \/ LowerVersion(s) \/ ReadNamed(s)
      BY <2>4, ScannedEnds DEF CheckName, LowerVersion, ReadNamed
    <2>5. CASE CheckVersion(s) \/ Visit(s) \/ LowerName(s) \/ ReadStore(s) \/ StartLoad(s)
                 \/ Load(s) \/ Loaded(s)
      BY <2>5 DEF CheckVersion, Visit, LowerName, ReadStore, StartLoad, Load, Loaded
    <2> QED
      BY <2>1, <2>2, <2>3, <2>4, <2>5 DEF Step
  <1> QED
    BY <1>1, <1>2

\* A load: each relation is tested against the filter, and one that has no
\* versions is in no version.
LEMMA LoadUndisturbed ==
    ASSUME QInv, UndisturbedInv, NEW s \in Session, Load(s), UNCHANGED graphVars, Undisturbed(s)
    PROVE  Undisturbed(s)'
  <1> USE DEF QInv, QueryTypeOK, Goto, At, readMode, Load, Undisturbed
  <1> DEFINE q == query[s]
  <1>1. PICK r \in todo[s] :
          IF byVersion /\ ~Known(r)
          THEN Goto(s, "failed") /\ UNCHANGED <<todo, result>>
          ELSE /\ todo' = [todo EXCEPT ![s] = @ \ {r}]
               /\ result' = [result EXCEPT ![s] = @ \cup IF byVersion THEN Selected(r) ELSE {r}]
               /\ UNCHANGED pc
    OBVIOUS
  <1>2. CASE byVersion /\ ~Known(r)
    BY <1>1, <1>2
  <1>3. CASE ~(byVersion /\ ~Known(r))
    <2>1. /\ todo'[s] = todo[s] \ {r}
          /\ result'[s] = result[s] \cup IF byVersion THEN Selected(r) ELSE {r}
          /\ pc' = pc /\ pc[s] = "load" /\ query' = query
      BY <1>1, <1>3
    <2>2. q.leaf = "load" /\ ModeOf(q) /\ r \in Relation /\ q.select \in {"none", "version"}
      BY <2>1
    <2>3. Asked(q)' = Asked(q)
      BY <2>1, AskedKept
    <2>4. CASE byVersion
      <3>1. q.select = "version" /\ filter = q.filter
        BY <2>2, <2>4 DEF ModeOf
      <3>2. Asked(q) = AllByFilter(Relation, filter)
        BY <2>2, <3>1 DEF Asked
      <3>3. r \in present
        BY <1>3, <2>2, <2>4 DEF UndisturbedInv, AddedIsKnown, Known, Entity
      <3>4. Selected(r) = AllByFilter(Relation, filter) \cap {r}
        BY <2>2, <3>3 DEF Selected, AllByFilter
      <3>5. result'[s] = Asked(q)' \ todo'[s]
        BY <2>1, <2>3, <2>4, <3>2, <3>4
      <3> QED
        BY <2>1, <2>2, <3>5 DEF ModeOf
    <2>5. CASE ~byVersion
      <3>1. q.select = "none"
        BY <2>2, <2>5 DEF ModeOf
      <3>2. Asked(q) = Relation
        BY <2>2, <3>1 DEF Asked
      <3>3. result'[s] = Asked(q)' \ todo'[s]
        BY <2>1, <2>2, <2>3, <2>5, <3>2
      <3> QED
        BY <2>1, <2>2, <3>3 DEF ModeOf
    <2> QED
      BY <2>4, <2>5
  <1> QED
    BY <1>2, <1>3

LEMMA StepUndisturbed ==
    ASSUME QueryAssumption, QInv, UndisturbedInv, NEW s \in Session, Step(s), UNCHANGED graphVars
    PROVE  UndisturbedInv'
  <1> USE DEF QInv, QueryTypeOK, Goto, At, Reads, readMode
  <1>1. AddedIsKnown'
    BY DEF UndisturbedInv, AddedIsKnown, graphVars
  <1>2. EmptyBefore'
    BY StepEmptyBefore DEF UndisturbedInv
  <1>3. ASSUME NEW t \in Session \ {s}, alone'[t], clear'[t], query'[t].leaf \in {"all", "load"}
        PROVE  FALSE
    <2>1. pc[s] # "idle"
      BY DEF Step, Select, Raise, CheckVersion, CheckName, Visit, LowerVersion, LowerName,
             ReadNamed, ReadStore, StartLoad, Load, Loaded, End
    <2>2. alone[t] /\ clear[t] /\ query[t] = query'[t]
      BY <1>3 DEF Step, Select, Raise, CheckVersion, CheckName, Visit, LowerVersion, LowerName,
             ReadNamed, ReadStore, StartLoad, Load, Loaded, End
    <2> QED
      BY <1>3, <2>1, <2>2 DEF UndisturbedInv, Undisturbed
  <1>4. SUFFICES ASSUME alone'[s], clear'[s], query'[s].leaf \in {"all", "load"}
                 PROVE  Undisturbed(s)'
    BY <1>1, <1>2, <1>3 DEF UndisturbedInv
  <1>5. ~End(s)
    BY <1>4 DEF End
  <1>6. alone[s] /\ clear[s] /\ query' = query
    BY <1>4, <1>5 DEF Step, Select, Raise, CheckVersion, CheckName, Visit, LowerVersion, LowerName,
           ReadNamed, ReadStore, StartLoad, Load, Loaded
  <1>7. Undisturbed(s) /\ query[s].leaf \in {"all", "load"}
    BY <1>4, <1>6 DEF UndisturbedInv
  <1>8. /\ query[s] \in Query
        /\ query[s].select \in {"none", "version", "name"}
        /\ query[s].leaf = "load" => query[s].select # "name"
    BY <1>7 DEF Undisturbed, QueryKnown, Query
  <1>9. Asked(query[s])' = Asked(query[s])
    BY <1>6, AskedKept
  <1> USE <1>6, <1>7, <1>8, <1>9 DEF Undisturbed
  <1>10. CASE Select(s)
    BY <1>10 DEF Select
  <1>11. CASE Raise(s)
    BY <1>11 DEF Raise, ModeOf
  <1>12. CASE CheckVersion(s)
    <2>1. pc[s] = "read" /\ ModeOf(query[s]) /\ query[s].leaf = "all"
      BY <1>12 DEF CheckVersion
    <2>2. ModeOf(query[s])' /\ result'[s] = {} /\ \A t \in Session \ {s} : pc'[t] = "idle"
      BY <1>12, <2>1 DEF CheckVersion, ModeOf
    <2>3. CASE byVersion
      <3>1. pc'[s] = "visit" /\ todo'[s] = present \cap Node /\ present' = present
        BY <1>12, <2>3 DEF CheckVersion, graphVars
      <3>2. AllByFilter(Node, query[s].filter)' \subseteq present \cap Node
        BY <3>1 DEF AllByFilter
      <3> QED
        BY <2>1, <2>2, <2>3, <3>1, <3>2 DEF ModeOf
    <2>4. CASE ~byVersion
      <3>1. pc'[s] = "checkName"
        BY <1>12, <2>4 DEF CheckVersion
      <3> QED
        BY <2>1, <2>2, <2>4, <3>1 DEF ModeOf
    <2> QED
      BY <2>3, <2>4
  <1>13. CASE CheckName(s)
    <2>1. pc[s] = "checkName" /\ ModeOf(query[s]) /\ query[s].leaf = "all"
      BY <1>13 DEF CheckName
    <2>2. CASE byName
      <3>1. pc'[s] = "lowerName" /\ query[s].select = "name"
        BY <1>13, <2>1, <2>2 DEF CheckName, ModeOf
      <3> QED
        BY <1>13, <2>1, <3>1 DEF CheckName, ModeOf
    <2>3. CASE ~byName
      <3>1. query[s].select = "none"
        BY <1>13, <2>1, <2>3 DEF ModeOf
      <3>2. pc'[s] = "done" /\ result'[s] = Node /\ Asked(query[s]) = Node
        BY <1>13, <2>1, <2>3, <3>1, ScannedEnds DEF CheckName, Asked
      <3> QED
        BY <1>13, <2>3, <3>2, ScannedEnds DEF CheckName
    <2> QED
      BY <2>2, <2>3
  <1>14. CASE Visit(s)
    <2> PICK n \in todo[s] :
           /\ todo' = [todo EXCEPT ![s] = @ \ {n}]
           /\ result' = [result EXCEPT ![s] = @ \cup Selected(n)]
      BY <1>14 DEF Visit
    <2>1. pc[s] = "visit" /\ pc' = pc /\ ModeOf(query[s]) /\ query[s].select = "version"
      BY <1>14 DEF Visit
    <2>2. filter = query[s].filter
      BY <2>1 DEF ModeOf
    <2>3. Selected(n) = AllByFilter(Node, query[s].filter) \cap {n}
      BY <2>1, <2>2 DEF Selected, AllByFilter
    <2>4. AllByFilter(Node, query[s].filter)' = AllByFilter(Node, query[s].filter)
      BY AskedKept
    <2>5. result'[s] = result[s] \cup Selected(n) /\ todo'[s] = todo[s] \ {n}
      OBVIOUS
    <2>6. result'[s] = AllByFilter(Node, query[s].filter)' \ todo'[s]
      BY <2>1, <2>3, <2>4, <2>5
    <2>7. ModeOf(query[s])' /\ present' = present
      BY <1>14, <2>1 DEF Visit, ModeOf, graphVars
    <2> QED
      BY <2>1, <2>5, <2>6, <2>7
  <1>15. CASE LowerVersion(s)
    <2>1. pc[s] = "visit" /\ todo[s] = {} /\ query[s].leaf = "all" /\ query[s].select = "version"
      BY <1>15 DEF LowerVersion
    <2>2. result[s] = Asked(query[s])
      BY <2>1 DEF Asked
    <2>3. pc'[s] = "done" /\ result'[s] = result[s]
      BY <1>15, <2>1, ScannedEnds DEF LowerVersion
    <2> QED
      BY <1>15, <2>2, <2>3, ScannedEnds DEF LowerVersion
  <1>16. CASE LowerName(s)
    BY <1>16 DEF LowerName, ModeOf
  <1>17. CASE ReadNamed(s)
    <2>1. pc[s] = "named" /\ query[s].leaf = "all" /\ query[s].select = "name"
            /\ graphName = query[s].name
      BY <1>17 DEF ReadNamed
    <2>2. pc'[s] = "done" /\ result'[s] = Asked(query[s])
      BY <1>17, <2>1, ScannedEnds DEF ReadNamed, Asked
    <2> QED
      BY <1>17, <2>2, ScannedEnds DEF ReadNamed
  <1>18. CASE ReadStore(s)
    BY <1>18 DEF ReadStore
  <1>19. CASE StartLoad(s)
    <2>1. pc[s] = "read" /\ query[s].leaf = "load" /\ result[s] = {} /\ ModeOf(query[s])
      BY <1>19 DEF StartLoad, UndisturbedInv, EmptyBefore
    <2>2. Asked(query[s]) \subseteq Relation
      BY <2>1 DEF Asked, AllByFilter
    <2>3. pc'[s] = "load" /\ todo'[s] = Relation /\ result'[s] = {} /\ ModeOf(query[s])'
      BY <1>19, <2>1 DEF StartLoad, ModeOf
    <2>4. \A t \in Session \ {s} : pc'[t] = "idle"
      BY <1>19 DEF StartLoad
    <2> QED
      BY <2>1, <2>2, <2>3, <2>4
  <1>20. CASE Load(s)
    BY <1>20, LoadUndisturbed
  <1>21. CASE Loaded(s)
    BY <1>21 DEF Loaded
  <1> QED
    BY <1>5, <1>10, <1>11, <1>12, <1>13, <1>14, <1>15, <1>16, <1>17, <1>18, <1>19, <1>20, <1>21
       DEF Step

LEMMA NextUndisturbed == QInv /\ UndisturbedInv /\ [QueryNext]_queryVars => UndisturbedInv'
  <1> SUFFICES ASSUME QInv, UndisturbedInv, [QueryNext]_queryVars PROVE UndisturbedInv'
    OBVIOUS
  <1>1. CASE UNCHANGED queryVars
    <2>1. UNCHANGED graphVars
      BY <1>1 DEF queryVars
    <2>2. UNCHANGED <<byVersion, filter, byName, graphName, query, pc, todo, result, alone, clear,
                      present, create>>
      BY <1>1 DEF queryVars, readMode, control, graphVars
    <2>3. \A s \in Session : Undisturbed(s) => Undisturbed(s)'
      BY <2>1, <2>2, AskedKept DEF Undisturbed, ModeOf
    <2> QED
      BY <2>2, <2>3 DEF UndisturbedInv, AddedIsKnown, EmptyBefore
  <1>2. ASSUME NEW s \in Session, Step(s), UNCHANGED graphVars PROVE UndisturbedInv'
    BY <1>2, StepUndisturbed, QueryAssumption
  <1>3. ASSUME NEW s \in Session, NEW q \in Query, Begin(s, q), UNCHANGED graphVars
        PROVE  UndisturbedInv'
    BY <1>3, BeginUndisturbed
  <1> QED
    BY <1>1, <1>2, <1>3 DEF QueryNext

\* Whatever the plans read: a query that nothing overlaps and that begins with
\* the read mode down returns what it asks for, by version, by name or by
\* neither, unless its plan does not look or looks twice.
THEOREM UndisturbedIsRight == QuerySpec => []RightIfUndisturbed
  <1>1. QuerySpec => UndisturbedInv
    BY QueryAssumption DEF QuerySpec, QueryInit, UndisturbedInv, AddedIsKnown, EmptyBefore
  <1>2. UndisturbedInv => RightIfUndisturbed
    BY DEF UndisturbedInv, Undisturbed, RightIfUndisturbed, At
  <1> QED
    BY <1>1, <1>2, NextUndisturbed, QueryInvariant, PTL DEF QuerySpec

-----------------------------------------------------------------------------
\* What a clause may consist of.
Predicate == Operand \cup [op : {"Ands", "Ors"}, exprs : (SUBSET Operand) \ {{}}]

\* A life ends when it begins, or later.
Life == born \in Int /\ died \in Int /\ born <= died

\* What a readable comparison is turned into.
LEMMA OperandFilter ==
  ASSUME NEW x \in Operand, Readable(x)
  PROVE  /\ x.op \in {"=", "<", "<=", ">", ">=", "literal"}
         /\ x.rhs \in Version
         /\ TransformOperand(x) = [op |-> FilterOp[x.op], version |-> x.rhs]
         /\ FilterOp[x.op] \in {"at", "lt", "le", "gt", "ge"}
  <1>1. x.op \in {"=", "<", "<=", ">", ">=", "literal"} /\ x.rhs \in Version
    BY DEF Operand, Readable
  <1>2. QED
    BY <1>1 DEF TransformOperand, FilterOp

\* A comparison of the two ends of a life is what it asks of all of the life.
LEMMA OperandMeant ==
  ASSUME Life, NEW x \in Operand, Readable(x)
  PROVE  CompareOk(TransformOperand(x), born, died) <=> MeetsOperand(x)
  <1> DEFINE v == x.rhs
             f == TransformOperand(x)
  <1>1. /\ x.op \in {"=", "<", "<=", ">", ">=", "literal"}
        /\ v \in Int /\ f.version = v /\ f.op = FilterOp[x.op]
    <2>1. x.rhs \in Version /\ f = [op |-> FilterOp[x.op], version |-> x.rhs]
      BY OperandFilter
    <2>2. v \in Int
      BY <2>1, VersionAssumption
    <2>3. f.version = v /\ f.op = FilterOp[x.op]
      <3> HIDE DEF f
      <3>1. QED
        BY <2>1
    <2>4. QED
      BY <2>2, <2>3, OperandFilter
  <1>2. /\ born \in Alive /\ died \in Alive
        /\ \A t : t \in Alive <=> t \in Int /\ born <= t /\ t <= died
    <2>1. \A t : t \in born..died <=> t \in Int /\ born <= t /\ t <= died
      BY SMT DEF Life
    <2>2. QED
      BY <2>1, SMT DEF Life, Alive
  <1>3. CASE x.op \in {"=", "literal"}
    <2>1. f.op = "at"
      BY <1>1, <1>3 DEF FilterOp
    <2>2. v \in Alive <=> born <= v /\ v <= died
      BY <1>1, <1>2
    <2>3. CompareOk(f, born, died) <=> born <= v /\ died >= v
      BY <1>1, <2>1 DEF CompareOk
    <2>4. MeetsOperand(x) <=> v \in Alive
      BY <1>3 DEF MeetsOperand
    <2>5. QED
      BY <1>1, <2>2, <2>3, <2>4 DEF Life
  <1>4. CASE x.op = "<"
    <2>1. f.op = "lt"
      BY <1>1, <1>4 DEF FilterOp
    <2>2. died < v <=> \A t \in Alive : t < v
      BY <1>1, <1>2 DEF Life
    <2>3. QED
      BY <1>1, <1>4, <2>1, <2>2 DEF CompareOk, MeetsOperand
  <1>5. CASE x.op = "<="
    <2>1. f.op = "le"
      BY <1>1, <1>5 DEF FilterOp
    <2>2. died <= v <=> \A t \in Alive : t <= v
      BY <1>1, <1>2 DEF Life
    <2>3. QED
      BY <1>1, <1>5, <2>1, <2>2 DEF CompareOk, MeetsOperand
  <1>6. CASE x.op = ">"
    <2>1. f.op = "gt"
      BY <1>1, <1>6 DEF FilterOp
    <2>2. born > v <=> \A t \in Alive : t > v
      BY <1>1, <1>2 DEF Life
    <2>3. QED
      BY <1>1, <1>6, <2>1, <2>2 DEF CompareOk, MeetsOperand
  <1>7. CASE x.op = ">="
    <2>1. f.op = "ge"
      BY <1>1, <1>7 DEF FilterOp
    <2>2. born >= v <=> \A t \in Alive : t >= v
      BY <1>1, <1>2 DEF Life
    <2>3. QED
      BY <1>1, <1>7, <2>1, <2>2 DEF CompareOk, MeetsOperand
  <1>8. QED
    BY <1>1, <1>3, <1>4, <1>5, <1>6, <1>7

\* A predicate is a comparison or a connective over comparisons, and so is what
\* it is turned into; what is not understood is unreadable.
LEMMA PredicateMeant ==
  ASSUME Life, NEW p \in Predicate, Understood(p)
  PROVE  /\ ClauseOk(TransformExpr(p), born, died) <=> Meets(p)
         /\ IsOk(TransformExpr(p), born, died) <=> Meets(p)
  <1> DEFINE f == TransformExpr(p)
  <1>1. CASE p \in Operand
    <2>1. p.op \notin {"Ands", "Ors"} /\ Readable(p)
      BY <1>1 DEF Operand, Understood
    <2>2. f = TransformOperand(p) /\ f.op \in {"at", "lt", "le", "gt", "ge"}
      BY <1>1, <2>1, OperandFilter DEF TransformExpr
    <2>3. CompareOk(f, born, died) <=> Meets(p)
      BY <1>1, <2>1, <2>2, OperandMeant DEF Meets
    <2>4. QED
      BY <2>2, <2>3 DEF IsOk, ClauseOk
  <1>2. CASE p \in [op : {"Ands", "Ors"}, exprs : (SUBSET Operand) \ {{}}]
    <2>1. p.op \in {"Ands", "Ors"} /\ \A y \in p.exprs : y \in Operand /\ Readable(y)
      BY <1>2 DEF Understood
    <2>2. f = [op |-> IF p.op = "Ands" THEN "ands" ELSE "ors",
               filters |-> {TransformOperand(y) : y \in p.exprs}]
      BY <2>1 DEF TransformExpr
    <2>3. \A y \in p.exprs : /\ CompareOk(TransformOperand(y), born, died) <=> MeetsOperand(y)
                             /\ TransformOperand(y).op \in {"at", "lt", "le", "gt", "ge"}
      BY <2>1, OperandMeant, OperandFilter
    <2>4. \A g \in f.filters : ClauseOk(g, born, died) <=> CompareOk(g, born, died)
      BY <2>2, <2>3 DEF ClauseOk
    <2>5. CASE p.op = "Ands"
      <3>1. f.op = "ands" /\ f.filters = {TransformOperand(y) : y \in p.exprs}
        BY <2>2, <2>5
      <3>2. (\A g \in f.filters : CompareOk(g, born, died)) <=> Meets(p)
        BY <2>3, <2>5, <3>1 DEF Meets
      <3>3. QED
        BY <2>4, <3>1, <3>2 DEF IsOk, ClauseOk
    <2>6. CASE p.op = "Ors"
      <3>1. f.op = "ors" /\ f.filters = {TransformOperand(y) : y \in p.exprs}
        BY <2>2, <2>6
      <3>2. (\E g \in f.filters : CompareOk(g, born, died)) <=> Meets(p)
        BY <2>3, <2>6, <3>1 DEF Meets
      <3>3. QED
        BY <2>4, <3>1, <3>2 DEF IsOk, ClauseOk
    <2>7. QED
      BY <2>1, <2>5, <2>6
  <1>3. QED
    BY <1>1, <1>2 DEF Predicate

\* What is understood becomes a filter, what is not becomes unreadable.
LEMMA PredicateRead ==
  ASSUME NEW p \in Predicate
  PROVE  Understood(p) <=> TransformExpr(p) # Unreadable
  <1>1. CASE p \in Operand
    <2>1. p.op \notin {"Ands", "Ors"}
      BY <1>1 DEF Operand
    <2>2. CASE Readable(p)
      <3>1. TransformOperand(p) \in Comparison
        BY <1>1, <2>2, OperandFilter DEF Comparison
      <3>2. QED
        BY <2>1, <2>2, <3>1, OutcomeAssumption
           DEF Understood, TransformExpr, Filter, Clause
    <2>3. CASE ~Readable(p)
      BY <2>1, <2>3 DEF Understood, TransformExpr, TransformOperand
    <2>4. QED
      BY <2>2, <2>3
  <1>2. CASE p \in [op : {"Ands", "Ors"}, exprs : (SUBSET Operand) \ {{}}]
    <2>1. p.op \in {"Ands", "Ors"} /\ p.exprs \subseteq Operand /\ p.exprs # {}
      BY <1>2
    <2>2. CASE \A y \in p.exprs : Readable(y)
      <3> DEFINE F == {TransformOperand(y) : y \in p.exprs}
                 o == IF p.op = "Ands" THEN "ands" ELSE "ors"
      <3>1. \A y \in p.exprs : TransformOperand(y) \in Comparison
        BY <2>1, <2>2, OperandFilter DEF Comparison
      <3>2. F \in (SUBSET Comparison) \ {{}}
        BY <2>1, <3>1
      <3>3. TransformExpr(p) = [op |-> o, filters |-> F]
        BY <2>1, <2>2 DEF TransformExpr
      <3> HIDE DEF F
      <3>4. TransformExpr(p) \in Connective(Comparison)
        BY <3>2, <3>3 DEF Connective
      <3>5. QED
        BY <2>1, <2>2, <3>4, OutcomeAssumption DEF Understood, Filter, Clause
    <2>3. CASE ~\A y \in p.exprs : Readable(y)
      BY <2>1, <2>3 DEF Understood, TransformExpr
    <2>4. QED
      BY <2>2, <2>3
  <1>3. QED
    BY <1>1, <1>2 DEF Predicate

\* A set of two is its first element and another one.
LEMMA FirstAndOther ==
  ASSUME NEW P, IsFiniteSet(P), Cardinality(P) = 2
  PROVE  P = {CHOOSE p \in P : TRUE, CHOOSE p \in P : p # CHOOSE q \in P : TRUE}
  <1> DEFINE first == CHOOSE p \in P : TRUE
             other == CHOOSE p \in P : p # first
  <1>1. P # {}
    BY FS_EmptySet
  <1>2. first \in P
    BY <1>1
  <1>3. IsFiniteSet(P \ {first}) /\ Cardinality(P \ {first}) = 2 - 1
    BY <1>2, FS_RemoveElement, Zenon
  <1>4. PICK q : P \ {first} = {q}
    <2>1. Cardinality(P \ {first}) = 1
      BY <1>3
    <2>2. QED
      BY <1>3, <2>1, FS_Singleton, Zenon
  <1>5. other = q
    <2> HIDE DEF first
    <2>1. QED
      BY <1>4
  <1>6. P = {first, other}
    <2> HIDE DEF first, other
    <2>1. QED
      BY <1>2, <1>4, <1>5
  <1>7. QED
    BY <1>6

\* TransFormer and FilterVersion: the filter of a clause selects a life exactly
\* when it meets every predicate of the clause, and the transformation throws
\* exactly when a predicate is not understood.
THEOREM FilterIsFaithful ==
  ASSUME Life, clause \in SUBSET Predicate, IsFiniteSet(clause)
  PROVE  FilterMeansPredicates
  <1> DEFINE F == {TransformExpr(p) : p \in clause}
  <1>1. Unreadable \in F <=> \E p \in clause : ~Understood(p)
    BY PredicateRead
  <1>2. CASE \E p \in clause : ~Understood(p)
    BY <1>1, <1>2 DEF FilterMeansPredicates, Transform
  <1>3. CASE \A p \in clause : Understood(p)
    <2>1. \A p \in clause : /\ ClauseOk(TransformExpr(p), born, died) <=> Meets(p)
                            /\ IsOk(TransformExpr(p), born, died) <=> Meets(p)
      BY <1>3, PredicateMeant
    <2>2. SUFFICES IsOk(Transform(clause), born, died) <=> \A p \in clause : Meets(p)
      BY <1>3 DEF FilterMeansPredicates
    <2>3. CASE clause = {}
      BY <2>3 DEF Transform, IsOk, NoneFilter
    <2>4. CASE clause # {} /\ Cardinality(clause) = 1
      <3>1. PICK p : clause = {p}
        BY <2>4, FS_Singleton
      <3>2. F = {TransformExpr(p)}
        BY <3>1
      <3>3. Transform(clause) = TransformExpr(p)
        BY <1>1, <1>3, <2>4, <3>2 DEF Transform
      <3>4. QED
        BY <2>1, <3>1, <3>3
    <2>5. CASE clause # {} /\ Cardinality(clause) = 2
      <3> DEFINE first == CHOOSE p \in clause : TRUE
                 other == CHOOSE p \in clause : p # first
                 l == TransformExpr(first)
                 r == TransformExpr(other)
      <3>1. Transform(clause) = AndFilter(l, r)
        <4>1. Unreadable \notin F /\ Cardinality(clause) # 1
          BY <1>1, <1>3, <2>5
        <4>2. QED
          BY <2>5, <4>1, Zenon DEF Transform
      <3> HIDE DEF first, other
      <3>2. clause = {first, other}
        BY <2>5, FirstAndOther, Zenon DEF first, other
      <3>3. IsOk(AndFilter(l, r), born, died) <=> ClauseOk(l, born, died) /\ ClauseOk(r, born, died)
        BY DEF IsOk, AndFilter
      <3>4. QED
        BY <2>1, <3>1, <3>2, <3>3
    <2>6. CASE clause # {} /\ Cardinality(clause) \notin {1, 2}
      <3>1. Transform(clause) = [op |-> "ands", filters |-> F]
        BY <1>1, <1>3, <2>6 DEF Transform
      <3> DEFINE G == F
      <3>2. IsOk([op |-> "ands", filters |-> G], born, died) <=> \A f \in G : ClauseOk(f, born, died)
        <4> HIDE DEF G
        <4>1. QED
          BY DEF IsOk
      <3>3. QED
        BY <2>1, <3>1, <3>2
    <2>7. QED
      BY <2>3, <2>4, <2>5, <2>6
  <1>4. QED
    BY <1>2, <1>3

-----------------------------------------------------------------------------
\* A clause is a finite set of predicates, and nothing ends before it begins.
ClauseInv == Life /\ clause \in SUBSET Predicate /\ IsFiniteSet(clause)

LEMMA ClauseInvInit == ClauseInit => ClauseInv
  <1> SUFFICES ASSUME ClauseInit PROVE ClauseInv
    OBVIOUS
  <1>1. Life
    BY VersionAssumption DEF ClauseInit, Life
  <1>2. clause \in SUBSET Predicate /\ IsFiniteSet(clause)
    BY FS_EmptySet DEF ClauseInit
  <1>3. QED
    BY <1>1, <1>2 DEF ClauseInv

LEMMA ClauseInvNext == ClauseInv /\ [ClauseNext]_clauseVars => ClauseInv'
  <1> SUFFICES ASSUME ClauseInv, [ClauseNext]_clauseVars PROVE ClauseInv'
    OBVIOUS
  <1>1. ASSUME NEW x \in Predicate, Where(x) PROVE ClauseInv'
    <2>1. IsFiniteSet(clause \cup {x})
      BY FS_AddElement DEF ClauseInv
    <2>2. QED
      BY <1>1, <2>1 DEF ClauseInv, Life, Where
  <1>2. ASSUME NEW v \in born..LongMax - 1, Deleted(v) PROVE ClauseInv'
    BY <1>2, VersionAssumption DEF ClauseInv, Life, Deleted
  <1>3. CASE UNCHANGED clauseVars
    BY <1>3 DEF ClauseInv, Life, clauseVars
  <1>4. Operands \cup Disjunctions \cup Conjunctions \subseteq Predicate
    <2>1. Operands \subseteq Operand
      BY DEF Operands
    <2>2. \A x, y \in Operands : {x, y} \in (SUBSET Operand) \ {{}}
      BY <2>1
    <2>3. QED
      BY <2>1, <2>2 DEF Disjunctions, Conjunctions, Predicate
  <1>5. QED
    BY <1>1, <1>2, <1>3, <1>4 DEF ClauseNext

\* TransFormer: every clause that is ever built, of every entity, as it grows
\* and as the entity is deleted.
THEOREM ClausesAreFaithful == ClauseSpec => []FilterMeansPredicates
  <1>1. ClauseInv => FilterMeansPredicates
    BY FilterIsFaithful DEF ClauseInv
  <1>2. QED
    BY <1>1, ClauseInvInit, ClauseInvNext, PTL DEF ClauseSpec
=============================================================================
