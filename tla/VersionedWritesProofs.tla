------------------------ MODULE VersionedWritesProofs ------------------------
(***************************************************************************)
(* Theorems of VersionedWrites, for every set of sessions, entities and    *)
(* version clauses, and whatever the overlapping puts of the sessions      *)
(* lose.                                                                   *)
(*                                                                         *)
(* What holds of every step is Settled: an entity under way is pending in  *)
(* the transaction of the session that creates it, and of no other, and a  *)
(* ghost was rolled back or deleted.  What holds until calls overlap is    *)
(* Calm: how far each creation has come, that none is under way during a   *)
(* clearVersion, and that every other entity has what it was asked for.    *)
(***************************************************************************)
EXTENDS VersionedWrites, TLAPS

Steps == {"idle", "tx", "failed", "next", "list", "node", "create", "delete", "end", "properties",
          "clearNodes", "clearRelations", "clearList"}

WriteTypeOK ==
    /\ present \subseteq Entity
    /\ create \in [Entity -> Int \cup {NoVersion}]
    /\ delete \in [Entity -> Int \cup {NoVersion}]
    /\ version \in Nat
    /\ pc \in [Session -> Steps]
    /\ job \in [Session -> [entity : Entity \cup {NoVersion}, from : Int \cup {NoVersion},
                            to : Int \cup {NoVersion}]]
    /\ pending \in [Session -> SUBSET Entity]
    /\ stale \subseteq Session
    /\ stored \subseteq Entity
    /\ asked \in [Entity -> (Int \X Int) \cup {NoVersion}]
    /\ gone \subseteq Entity
    /\ shaken \in BOOLEAN

\* The entity that a session is adding is its own, and has its versions.
JobPending ==
    \A s \in Session :
        Adding(s) \/ pc[s] = "properties" =>
            /\ job[s].entity \in pending[s]
            /\ job[s].from \in Int
            /\ job[s].to \in Int

\* No entity is pending in two transactions.
PendingApart ==
    \A s, t \in Session : s # t => pending[s] \cap pending[t] = {}

Settled == WriteTypeOK /\ JobPending /\ PendingApart /\ GhostsWereGone

\* How far the creation of an entity has come.
Progress(s) ==
    LET x == job[s].entity IN
    /\ asked[x] = <<job[s].from, job[s].to>>
    /\ pc[s] \in {"node", "create", "delete", "end"} => job[s].from \in versionSet
    /\ pc[s] \in {"create", "delete", "end"} => x \in present
    /\ pc[s] \in {"delete", "end"} => create[x] = job[s].from

\* A creation never overlaps a clearVersion, and what that empties stays empty.
ClearedApart ==
    /\ \A s, t \in Session : ~(Adding(s) /\ Clearing(t))
    /\ \A s \in Session : Clearing(s) => present = {}

\* The three parts of TornOnlyByOverlap and VersionsAsAsked.
TornWhileAdded ==
    \A x \in present :
        Known(x) \/ \E s \in Session : pc[s] \in {"create", "delete"} /\ job[s].entity = x
AsAsked(x) ==
    /\ x \in present /\ create[x] \in versionSet
    /\ create[x] = asked[x][1] /\ delete[x] = asked[x][2]
AddedAsAsked ==
    \A x \in Entity : asked[x] # NoVersion /\ InNeo4j(x) /\ ~BeingAdded(x) => AsAsked(x)
UnaskedAreGone ==
    \A x \in present : asked[x] = NoVersion => x \in gone

Calm ==
    /\ ClearedApart
    /\ \A s \in Session : Adding(s) => Progress(s)
    /\ TornWhileAdded
    /\ AddedAsAsked
    /\ UnaskedAreGone

WInv == Settled /\ (~shaken => Calm)

-----------------------------------------------------------------------------
\* The steps at which a session is adding, before and after a step.
LEMMA AddingSteps ==
  ASSUME NEW s \in Session
  PROVE  /\ Adding(s) <=> pc[s] \in {"list", "node", "create", "delete", "end"}
         /\ Adding(s)' <=> pc'[s] \in {"list", "node", "create", "delete", "end"}
  BY DEF Adding, Collection

LEMMA InNeo4jIs ==
  ASSUME NEW x
  PROVE  /\ InNeo4j(x) <=> x \in stored \/ \E s \in Session : x \in pending[s]
         /\ InNeo4j(x)' <=> x \in stored' \/ \E s \in Session : x \in pending'[s]
  BY DEF InNeo4j

\* An entity under way is in Neo4j, and in the hands of one session.
LEMMA OneAdds ==
  ASSUME Settled, NEW s \in Session, Adding(s) \/ pc[s] = "properties"
  PROVE  /\ job[s].entity \in pending[s]
         /\ job[s].entity \in Entity
         /\ InNeo4j(job[s].entity)
         /\ \A t \in Session \ {s} : Adding(t) => job[t].entity # job[s].entity
  BY InNeo4jIs DEF Settled, JobPending, PendingApart, WriteTypeOK

\* Whatever is lost, a map of versions stays one.
LEMMA PutInMapTyped ==
  ASSUME NEW s \in Session,
         NEW old \in [Entity -> Int \cup {NoVersion}],
         NEW new \in [Entity -> Int \cup {NoVersion}]
  PROVE  PutInMap(s, old, new) \subseteq [Entity -> Int \cup {NoVersion}]
  BY DEF PutInMap

\* A put that nothing disturbs does what it says.
LEMMA PutUndisturbed ==
  ASSUME NEW s \in Session, NEW l, Put(s, l), ~shaken'
  PROVE  /\ ~shaken
         /\ LostEntities(s) = {{}}
         /\ \A v : List(s, v) => versionSet' = versionSet \cup {v}
         /\ s \notin stale
  <1>1. ~shaken /\ ~Races(s) /\ s \notin stale
    BY DEF Put
  <1>2. LostEntities(s) = {{}} /\ LostVersions(s) = {{}}
    BY <1>1 DEF LostEntities, LostVersions
  <1>3. \A v : List(s, v) => versionSet' = versionSet \cup {v}
    BY <1>1, <1>2 DEF List
  <1>4. QED
    BY <1>1, <1>2, <1>3

LEMMA MapUndisturbed ==
  ASSUME NEW s \in Session, NEW l, Put(s, l), ~shaken',
         NEW old, NEW new \in [Entity -> Int \cup {NoVersion}], NEW m \in PutInMap(s, old, new)
  PROVE  m = new
  <1>1. LostEntities(s) = {{}} /\ s \notin stale
    BY PutUndisturbed
  <1>2. m = [x \in Entity |-> new[x]]
    BY <1>1 DEF PutInMap
  <1>3. QED
    BY <1>2

\* CREATEV gives an entity the first and the last version that its clause
\* asks for, in whichever order it names them.
LEMMA FirstLastIsAsked ==
  ASSUME NEW w \in Window, w # <<>>
  PROVE  /\ Asked(w) = FirstLast(w)
         /\ FirstLast(w) \in Int \X Int
         /\ FirstLast(w) = <<FirstLast(w)[1], FirstLast(w)[2]>>
  <1> USE VersionAssumption
  <1>1. CASE \E a \in Version : w = <<a>>
    <2>1. PICK a \in Version : w = <<a>>
      BY <1>1
    <2>2. Len(w) = 1 /\ w[1] = a /\ {w[i] : i \in DOMAIN w} = {a}
      BY <2>1
    <2>3. FirstLast(w) = <<a, LongMax>>
      BY <2>2 DEF FirstLast
    <2>4. Asked(w) = <<a, LongMax>>
      <3>1. Asked(w) = CHOOSE life \in {a} \X ({a} \cup {LongMax}) :
                          /\ \A v \in {a} : life[1] <= v
                          /\ life[2] = LongMax
        BY <2>2 DEF Asked
      <3>2. <<a, LongMax>> \in {a} \X ({a} \cup {LongMax})
        OBVIOUS
      <3>3. \A life \in {a} \X ({a} \cup {LongMax}) :
               (\A v \in {a} : life[1] <= v) /\ life[2] = LongMax <=> life = <<a, LongMax>>
        OBVIOUS
      <3>4. QED
        BY <3>1, <3>2, <3>3
    <2>5. QED
      BY <2>3, <2>4
  <1>2. CASE \E a, b \in Version : w = <<a, b>>
    <2>1. PICK a \in Version, b \in Version : w = <<a, b>>
      BY <1>2
    <2>2. Len(w) = 2 /\ w[1] = a /\ w[2] = b /\ {w[i] : i \in DOMAIN w} = {a, b}
      BY <2>1
    <2> DEFINE life2 == IF a >= b THEN <<b, a>> ELSE <<a, b>>
    <2>3. FirstLast(w) = life2
      BY <2>2 DEF FirstLast
    <2>4. Asked(w) = life2
      <3>1. Asked(w) = CHOOSE life \in {a, b} \X ({a, b} \cup {LongMax}) :
                          /\ \A v \in {a, b} : life[1] <= v
                          /\ life[2] \in {a, b} /\ \A v \in {a, b} : v <= life[2]
        BY <2>2 DEF Asked
      <3>2. life2 \in {a, b} \X ({a, b} \cup {LongMax})
        OBVIOUS
      <3>3. ASSUME NEW life \in {a, b} \X ({a, b} \cup {LongMax})
            PROVE  (/\ \A v \in {a, b} : life[1] <= v
                    /\ life[2] \in {a, b} /\ \A v \in {a, b} : v <= life[2])
                   <=> life = life2
        <4>1. PICK i \in {a, b}, j \in {a, b} \cup {LongMax} : life = <<i, j>>
          OBVIOUS
        <4>2. a \in Int /\ b \in Int /\ LongMax \in Int
          OBVIOUS
        <4>3. QED
          BY <4>1, <4>2
      <3>4. QED
        BY <3>1, <3>2, <3>3
    <2>5. QED
      BY <2>3, <2>4
  <1>3. QED
    BY <1>1, <1>2, WindowAssumption

-----------------------------------------------------------------------------
(* Settled: what no overlap disturbs.                                      *)

LEMMA GotoTyped ==
  ASSUME WriteTypeOK, NEW s \in Session, NEW l \in Steps, Goto(s, l)
  PROVE  pc' \in [Session -> Steps] /\ shaken' \in BOOLEAN
  <1>1. shaken' \in BOOLEAN
    BY Zenon DEF Goto
  <1>2. QED
    BY <1>1 DEF Goto, WriteTypeOK

LEMMA PutTyped ==
  ASSUME WriteTypeOK, NEW s \in Session, NEW l \in Steps, Put(s, l)
  PROVE  /\ pc' \in [Session -> Steps]
         /\ stale' \subseteq Session
         /\ shaken' \in BOOLEAN
         /\ UNCHANGED <<job, pending, stored, asked, gone>>
  <1>1. shaken' \in BOOLEAN
    BY Zenon DEF Put
  <1>2. QED
    BY <1>1 DEF Put, WriteTypeOK, neo4jVars

\* A put adds no entity but the one that its session has in Neo4j.
LEMMA PutSettled ==
  ASSUME Settled, NEW s \in Session, Adding(s),
         NEW l \in {"node", "create", "delete", "end", "properties"}, Put(s, l),
         present' \subseteq present \cup {job[s].entity},
         create' \in [Entity -> Int \cup {NoVersion}],
         delete' \in [Entity -> Int \cup {NoVersion}],
         version' = version
  PROVE  Settled'
  <1> USE DEF Settled
  <1>1. l \in Steps
    BY DEF Steps
  <1>2. WriteTypeOK'
    BY <1>1, PutTyped, OneAdds DEF WriteTypeOK
  <1>3. JobPending'
    <2> SUFFICES ASSUME NEW t \in Session, Adding(t)' \/ pc'[t] = "properties"
                 PROVE  /\ job'[t].entity \in pending'[t]
                        /\ job'[t].from \in Int
                        /\ job'[t].to \in Int
      BY DEF JobPending
    <2>1. Adding(t) \/ pc[t] = "properties"
      BY AddingSteps DEF Put, WriteTypeOK
    <2>2. QED
      BY <1>1, <2>1, PutTyped DEF JobPending
  <1>4. PendingApart'
    BY <1>1, PutTyped DEF PendingApart
  <1>5. GhostsWereGone'
    <2>1. \A x : InNeo4j(x) => InNeo4j(x)'
      BY <1>1, PutTyped, InNeo4jIs
    <2>2. InNeo4j(job[s].entity)
      BY OneAdds
    <2>3. gone' = gone
      BY <1>1, PutTyped
    <2>4. QED
      BY <2>1, <2>2, <2>3 DEF GhostsWereGone
  <1>6. QED
    BY <1>2, <1>3, <1>4, <1>5

LEMMA PutsSettled ==
  ASSUME Settled, NEW s \in Session,
         AddToList(s) \/ AddToGraph(s) \/ PutCreate(s) \/ PutDelete(s) \/ PutEnd(s)
  PROVE  Settled'
  <1>1. WriteTypeOK
    BY DEF Settled
  <1>2. /\ Adding(s)
        /\ job[s].entity \in Entity
        /\ job[s].from \in Int /\ job[s].to \in Int
    BY AddingSteps, OneAdds
       DEF AddToList, AddToGraph, PutCreate, PutDelete, PutEnd, Settled, JobPending
  <1>3. CASE AddToList(s)
    BY <1>1, <1>2, <1>3, PutSettled DEF AddToList, WriteTypeOK
  <1>4. CASE AddToGraph(s)
    <2>1. present' \subseteq present \cup {job[s].entity}
      BY <1>4 DEF AddToGraph
    <2>2. QED
      BY <1>1, <1>2, <1>4, <2>1, PutSettled DEF AddToGraph, WriteTypeOK
  <1>5. CASE PutCreate(s)
    <2>1. create' \in [Entity -> Int \cup {NoVersion}]
      <3>1. [create EXCEPT ![job[s].entity] = job[s].from] \in [Entity -> Int \cup {NoVersion}]
        BY <1>1, <1>2 DEF WriteTypeOK
      <3>2. QED
        BY <1>1, <1>5, <3>1, PutInMapTyped DEF PutCreate, WriteTypeOK
    <2>2. QED
      BY <1>1, <1>2, <1>5, <2>1, PutSettled DEF PutCreate, WriteTypeOK
  <1>6. ASSUME NEW v \in Int, delete' \in PutInMap(s, delete, [delete EXCEPT ![job[s].entity] = v])
        PROVE  delete' \in [Entity -> Int \cup {NoVersion}]
    <2>1. [delete EXCEPT ![job[s].entity] = v] \in [Entity -> Int \cup {NoVersion}]
      BY <1>1, <1>2 DEF WriteTypeOK
    <2>2. QED
      BY <1>1, <1>6, <2>1, PutInMapTyped DEF WriteTypeOK
  <1>7. CASE PutDelete(s)
    <2>1. delete' \in [Entity -> Int \cup {NoVersion}]
      BY <1>6, <1>7, VersionAssumption DEF PutDelete
    <2>2. QED
      BY <1>1, <1>2, <1>7, <2>1, PutSettled DEF PutDelete, WriteTypeOK
  <1>8. CASE PutEnd(s)
    <2>1. delete' \in [Entity -> Int \cup {NoVersion}]
      BY <1>2, <1>6, <1>8 DEF PutEnd
    <2>2. QED
      BY <1>1, <1>2, <1>8, <2>1, PutSettled DEF PutEnd, WriteTypeOK
  <1>9. QED
    BY <1>3, <1>4, <1>5, <1>7, <1>8

\* A step that adds nothing and starts no creation.
LEMMA RestSettled ==
  ASSUME Settled, WriteTypeOK', UNCHANGED <<pending, stored, gone>>, present' \subseteq present,
         \A t \in Session : pc'[t] \in {"list", "node", "create", "delete", "end", "properties"} =>
                                pc'[t] = pc[t] /\ job'[t] = job[t]
  PROVE  Settled'
  <1> USE DEF Settled
  <1>1. JobPending'
    BY AddingSteps DEF JobPending
  <1>2. PendingApart'
    BY DEF PendingApart
  <1>3. GhostsWereGone'
    BY InNeo4jIs DEF GhostsWereGone
  <1>4. QED
    BY <1>1, <1>2, <1>3

LEMMA StepsSettled ==
  ASSUME Settled, NEW s \in Session,
         \/ BeginTx(s) \/ SetProperties(s) \/ NextVersion(s) \/ ListNext(s)
         \/ ClearGraph(s) \/ ClearNodes(s) \/ ClearRelations(s) \/ ClearList(s)
  PROVE  Settled'
  <1> USE DEF graphVars, neo4jVars
  <1>1. WriteTypeOK
    BY DEF Settled
  <1>2. {"idle", "tx", "failed", "next", "clearNodes", "clearRelations", "clearList"} \subseteq Steps
    BY DEF Steps
  <1>3. NoJob \in [entity : Entity \cup {NoVersion}, from : Int \cup {NoVersion},
                   to : Int \cup {NoVersion}]
    BY DEF NoJob
  <1>4. \A l \in Steps : Goto(s, l) => /\ pc' \in [Session -> Steps]
                                       /\ pc' = [pc EXCEPT ![s] = l]
                                       /\ shaken' \in BOOLEAN
    BY <1>1, GotoTyped DEF Goto
  <1>5. CASE BeginTx(s)
    <2>1. WriteTypeOK'
      BY <1>1, <1>2, <1>4, <1>5 DEF BeginTx, WriteTypeOK
    <2>2. QED
      BY <1>1, <1>2, <1>4, <1>5, <2>1, RestSettled DEF BeginTx, WriteTypeOK
  <1>6. CASE SetProperties(s)
    <2>1. \E l \in {"tx", "failed"} : Goto(s, l)
      BY <1>6 DEF SetProperties
    <2>2. WriteTypeOK'
      BY <1>1, <1>2, <1>3, <1>4, <1>6, <2>1 DEF SetProperties, WriteTypeOK
    <2>3. QED
      BY <1>1, <1>2, <1>4, <1>6, <2>1, <2>2, RestSettled DEF SetProperties, WriteTypeOK
  <1>7. CASE NextVersion(s)
    <2>1. WriteTypeOK'
      BY <1>1, <1>2, <1>4, <1>7 DEF NextVersion, WriteTypeOK
    <2>2. QED
      BY <1>1, <1>2, <1>4, <1>7, <2>1, RestSettled DEF NextVersion, WriteTypeOK
  <1>8. CASE ListNext(s)
    <2>1. shaken' \in BOOLEAN
      BY <1>8, Zenon DEF ListNext
    <2>2. WriteTypeOK'
      BY <1>1, <1>2, <1>3, <1>8, <2>1 DEF ListNext, WriteTypeOK
    <2>3. QED
      BY <1>1, <1>8, <2>2, RestSettled DEF ListNext, WriteTypeOK
  <1>9. CASE ClearGraph(s)
    <2>1. WriteTypeOK'
      BY <1>1, <1>2, <1>4, <1>9 DEF ClearGraph, ReplacesFor, WriteTypeOK
    <2>2. QED
      BY <1>1, <1>2, <1>4, <1>9, <2>1, RestSettled DEF ClearGraph, WriteTypeOK
  <1>10. ASSUME NEW l, NEW next \in {"clearRelations", "clearList"}, NEW S, ClearKind(s, l, next, S)
         PROVE  Settled'
    <2>1. WriteTypeOK'
      BY <1>1, <1>2, <1>4, <1>10 DEF ClearKind, WriteTypeOK
    <2>2. QED
      BY <1>1, <1>2, <1>4, <1>10, <2>1, RestSettled DEF ClearKind, WriteTypeOK
  <1>11. CASE ClearList(s)
    <2>1. WriteTypeOK'
      BY <1>1, <1>2, <1>4, <1>11 DEF ClearList, WriteTypeOK
    <2>2. QED
      BY <1>1, <1>2, <1>4, <1>11, <2>1, RestSettled DEF ClearList, WriteTypeOK
  <1>12. QED
    BY <1>5, <1>6, <1>7, <1>8, <1>9, <1>10, <1>11 DEF ClearNodes, ClearRelations

\* Neo4j creates x in a transaction of its own.
LEMMA CreatesSettled ==
  ASSUME Settled, NEW s \in Session, NEW x \in Entity, Neo4jCreates(s, x), WriteTypeOK',
         UNCHANGED <<present, stored, gone>>,
         \A t \in Session \ {s} : pc'[t] = pc[t] /\ job'[t] = job[t],
         Adding(s)' => job'[s].entity = x /\ job'[s].from \in Int /\ job'[s].to \in Int,
         pc'[s] # "properties"
  PROVE  Settled'
  <1> USE DEF Settled
  <1>1. /\ pending' = [pending EXCEPT ![s] = @ \cup {x}]
        /\ \A t \in Session : x \notin pending[t]
    BY InNeo4jIs DEF Neo4jCreates
  <1>2. \A t \in Session : pending'[t] = IF t = s THEN pending[t] \cup {x} ELSE pending[t]
    BY <1>1 DEF WriteTypeOK
  <1>3. JobPending'
    BY <1>2, AddingSteps DEF JobPending
  <1>4. PendingApart'
    BY <1>1, <1>2 DEF PendingApart
  <1>5. GhostsWereGone'
    BY <1>2, InNeo4jIs DEF GhostsWereGone
  <1>6. QED
    BY <1>3, <1>4, <1>5

LEMMA TransactionsSettled ==
  ASSUME Settled, NEW s \in Session, Commit(s) \/ Rollback(s)
  PROVE  Settled'
  <1> USE DEF Settled, graphVars
  <1>1. /\ pc[s] \in {"tx", "failed"}
        /\ Goto(s, "idle")
        /\ pending' = [pending EXCEPT ![s] = {}]
        /\ UNCHANGED <<present, create, delete, version, job, stale, asked>>
    BY DEF Commit, Rollback
  <1>2. /\ stored' \subseteq Entity /\ gone' \subseteq Entity
        /\ stored \subseteq stored' /\ gone \subseteq gone'
        /\ \A x \in pending[s] : x \in stored' \/ x \in gone'
    BY DEF Commit, Rollback, WriteTypeOK
  <1>3. "idle" \in Steps
    BY DEF Steps
  <1>4. WriteTypeOK'
    BY <1>1, <1>2, <1>3, GotoTyped DEF WriteTypeOK
  <1>5. \A t \in Session : pending'[t] = IF t = s THEN {} ELSE pending[t]
    BY <1>1 DEF WriteTypeOK
  <1>6. JobPending'
    BY <1>1, <1>5, AddingSteps DEF Goto, JobPending, WriteTypeOK
  <1>7. PendingApart'
    BY <1>5 DEF PendingApart
  <1>8. GhostsWereGone'
    BY <1>1, <1>2, <1>5, InNeo4jIs DEF GhostsWereGone
  <1>9. QED
    BY <1>4, <1>6, <1>7, <1>8

LEMMA Neo4jDeleteSettled ==
  ASSUME Settled, NEW x \in Entity, Neo4jDelete(x)
  PROVE  Settled'
  <1> USE DEF Settled, graphVars, sessionVars, Neo4jDelete
  <1>1. WriteTypeOK'
    BY DEF WriteTypeOK
  <1>2. JobPending'
    BY AddingSteps DEF JobPending
  <1>3. PendingApart'
    BY DEF PendingApart
  <1>4. GhostsWereGone'
    BY InNeo4jIs DEF GhostsWereGone
  <1>5. QED
    BY <1>1, <1>2, <1>3, <1>4

\* CREATE and CREATEV.
LEMMA CreationsSettled ==
  ASSUME Settled, NEW s \in Session, NEW x \in Entity,
         Create(s, x) \/ \E w \in Window : CreateV(s, x, w)
  PROVE  Settled'
  <1> USE DEF graphVars
  <1>1. WriteTypeOK
    BY DEF Settled
  <1>2. {"failed", "list"} \subseteq Steps
    BY DEF Steps
  <1>3. CASE Create(s, x)
    <2>1. WriteTypeOK'
      BY <1>1, <1>3 DEF Create, Neo4jCreates, WriteTypeOK
    <2>2. pc'[s] = "tx" /\ pc' = pc /\ job' = job
      BY <1>3 DEF Create, Neo4jCreates
    <2>3. QED
      BY <1>3, <2>1, <2>2, AddingSteps, CreatesSettled DEF Create
  <1>4. ASSUME NEW w \in Window, CreateV(s, x, w)
        PROVE  Settled'
    <2>1. /\ Neo4jCreates(s, x)
          /\ asked' = [asked EXCEPT ![x] = Asked(w)]
          /\ UNCHANGED <<present, create, delete, version, stale, stored, gone>>
      BY <1>4 DEF CreateV
    <2>2. pending' \in [Session -> SUBSET Entity]
      BY <1>1, <2>1 DEF Neo4jCreates, WriteTypeOK
    <2>3. CASE w = <<>>
      <3>1. Goto(s, "failed") /\ job' = job
        BY <1>4, <2>3 DEF CreateV
      <3>2. asked' \in [Entity -> (Int \X Int) \cup {NoVersion}]
        BY <1>1, <2>1, <2>3 DEF Asked, WriteTypeOK
      <3>3. WriteTypeOK'
        BY <1>1, <1>2, <2>1, <2>2, <3>1, <3>2, GotoTyped DEF WriteTypeOK
      <3>4. pc'[s] = "failed" /\ \A t \in Session \ {s} : pc'[t] = pc[t]
        BY <1>1, <3>1 DEF Goto, WriteTypeOK
      <3>5. QED
        BY <2>1, <3>1, <3>3, <3>4, AddingSteps, CreatesSettled
    <2>4. CASE w # <<>>
      <3>1. /\ Goto(s, "list")
            /\ job' = [job EXCEPT ![s] = [entity |-> x, from |-> FirstLast(w)[1],
                                          to |-> FirstLast(w)[2]]]
        BY <1>4, <2>4 DEF CreateV
      <3>2. Asked(w) \in Int \X Int /\ FirstLast(w)[1] \in Int /\ FirstLast(w)[2] \in Int
        BY <2>4, FirstLastIsAsked
      <3>3. asked' \in [Entity -> (Int \X Int) \cup {NoVersion}]
        BY <1>1, <2>1, <3>2 DEF WriteTypeOK
      <3>4. job' \in [Session -> [entity : Entity \cup {NoVersion}, from : Int \cup {NoVersion},
                                  to : Int \cup {NoVersion}]]
        BY <1>1, <3>1, <3>2 DEF WriteTypeOK
      <3>5. WriteTypeOK'
        BY <1>1, <1>2, <2>1, <2>2, <3>1, <3>3, <3>4, GotoTyped DEF WriteTypeOK
      <3>6. /\ pc'[s] = "list"
            /\ job'[s].entity = x /\ job'[s].from \in Int /\ job'[s].to \in Int
            /\ \A t \in Session \ {s} : pc'[t] = pc[t] /\ job'[t] = job[t]
        BY <1>1, <3>1, <3>2 DEF Goto, WriteTypeOK
      <3>7. QED
        BY <2>1, <3>5, <3>6, CreatesSettled
    <2>5. QED
      BY <2>3, <2>4
  <1>5. QED
    BY <1>3, <1>4

-----------------------------------------------------------------------------
(* Calm: what holds until calls overlap.                                   *)

\* A put of the entity under way, which leaves the others alone.
LEMMA PutCalm ==
  ASSUME Settled, Calm, NEW s \in Session, Adding(s),
         NEW l \in {"node", "create", "delete", "end", "properties"}, Put(s, l),
         present \subseteq present', present' \subseteq present \cup {job[s].entity},
         versionSet \subseteq versionSet',
         \A y \in Entity \ {job[s].entity} : create'[y] = create[y] /\ delete'[y] = delete[y],
         l # "properties" => Progress(s)',
         l = "properties" => AsAsked(job[s].entity)',
         job[s].entity \in present' => Known(job[s].entity)' \/ l \in {"create", "delete"}
  PROVE  Calm'
  <1> DEFINE x == job[s].entity
  <1> USE DEF Calm
  <1>0. WriteTypeOK /\ present' \subseteq Entity
    BY OneAdds DEF Settled, WriteTypeOK
  <1>1. /\ x \in Entity /\ InNeo4j(x)
        /\ \A t \in Session \ {s} : Adding(t) => job[t].entity # x
    BY OneAdds
  <1>2. /\ UNCHANGED <<job, pending, stored, asked, gone>>
        /\ pc'[s] = l
        /\ \A t \in Session \ {s} : pc'[t] = pc[t]
    BY <1>0 DEF Put, neo4jVars, WriteTypeOK
  <1>3. /\ \A t \in Session \ {s} : Adding(t)' <=> Adding(t)
        /\ Adding(s)' <=> l # "properties"
        /\ \A t \in Session : Clearing(t)' => Clearing(t)
    BY <1>2, AddingSteps DEF Clearing
  <1>4. ClearedApart'
    BY <1>3 DEF ClearedApart
  <1>5. ASSUME NEW t \in Session, Adding(t)'
        PROVE  Progress(t)'
    <2>1. CASE t = s
      BY <1>3, <1>5, <2>1
    <2>2. CASE t # s
      <3>1. Adding(t) /\ Progress(t) /\ job[t].entity # x /\ job[t].entity \in Entity
        BY <1>1, <1>3, <1>5, <2>2, OneAdds
      <3>2. QED
        BY <1>2, <2>2, <3>1 DEF Progress
    <2>3. QED
      BY <2>1, <2>2
  <1>6. TornWhileAdded'
    <2> SUFFICES ASSUME NEW y \in present'
                 PROVE  Known(y)' \/ \E t \in Session : pc'[t] \in {"create", "delete"}
                                                        /\ job'[t].entity = y
      BY DEF TornWhileAdded
    <2>1. CASE y = x
      BY <1>2, <2>1
    <2>2. CASE y # x
      <3>1. Known(y) => Known(y)'
        BY <1>0, <2>2 DEF Known
      <3>2. y \in present
        BY <2>2
      <3>3. QED
        BY <1>2, <2>2, <3>1, <3>2 DEF TornWhileAdded
    <2>3. QED
      BY <2>1, <2>2
  <1>7. AddedAsAsked'
    <2> SUFFICES ASSUME NEW y \in Entity, asked'[y] # NoVersion, InNeo4j(y)', ~BeingAdded(y)'
                 PROVE  AsAsked(y)'
      BY DEF AddedAsAsked
    <2>1. CASE y = x
      BY <1>2, <1>3, <2>1 DEF BeingAdded
    <2>2. CASE y # x
      <3>1. InNeo4j(y) /\ ~BeingAdded(y)
        BY <1>2, <1>3, <2>2, InNeo4jIs DEF BeingAdded
      <3>2. AsAsked(y)
        BY <1>2, <3>1 DEF AddedAsAsked
      <3>3. QED
        BY <1>2, <2>2, <3>2 DEF AsAsked
    <2>3. QED
      BY <2>1, <2>2
  <1>8. UnaskedAreGone'
    <2>1. asked[x] # NoVersion
      <3>1. asked[x] = <<job[s].from, job[s].to>>
        BY DEF Progress
      <3>2. job[s].from \in Int /\ job[s].to \in Int
        BY DEF Settled, JobPending
      <3>3. asked[x] \in Int \X Int
        BY <3>1, <3>2
      <3>4. QED
        BY <3>3, WindowAssumption
    <2>2. QED
      BY <1>2, <2>1 DEF UnaskedAreGone
  <1>9. QED
    BY <1>4, <1>5, <1>6, <1>7, <1>8

LEMMA PutsCalm ==
  ASSUME Settled, Calm, ~shaken', NEW s \in Session,
         AddToList(s) \/ AddToGraph(s) \/ PutCreate(s) \/ PutDelete(s) \/ PutEnd(s)
  PROVE  Calm'
  <1> DEFINE x == job[s].entity
             from == job[s].from
             to == job[s].to
  <1> USE EntityAssumption, VersionAssumption
  <1>1. WriteTypeOK
    BY DEF Settled
  <1>2. /\ Adding(s) /\ Progress(s)
        /\ x \in Entity /\ from \in Int /\ to \in Int
        /\ from # NoVersion /\ to # NoVersion /\ LongMax # NoVersion
    BY AddingSteps, OneAdds
       DEF AddToList, AddToGraph, PutCreate, PutDelete, PutEnd, Settled, JobPending, Calm
  <1>3. ASSUME NEW l, Put(s, l)
        PROVE  pc'[s] = l /\ UNCHANGED <<job, asked>>
    BY <1>1, <1>3 DEF Put, neo4jVars, WriteTypeOK
  <1>4. \A t \in Session \ {s} : Adding(t) => job[t].entity # x
    BY <1>2, OneAdds
  <1>5. x \in present /\ pc[s] \notin {"create", "delete"} => Known(x)
    BY <1>4, AddingSteps DEF Calm, TornWhileAdded
  <1>6. CASE AddToList(s)
    <2>1. Put(s, "node") /\ versionSet' = versionSet \cup {from}
      BY <1>6, PutUndisturbed DEF AddToList
    <2>2. UNCHANGED <<present, create, delete>> /\ pc[s] = "list"
      BY <1>6 DEF AddToList
    <2>3. Progress(s)'
      BY <1>2, <1>3, <2>1 DEF Progress
    <2>4. x \in present' => Known(x)'
      BY <1>2, <1>3, <1>5, <2>1, <2>2 DEF Known
    <2>5. QED
      BY <1>2, <2>1, <2>2, <2>3, <2>4, PutCalm
  <1>7. CASE AddToGraph(s)
    <2>1. Put(s, "create") /\ present' = present \cup {x} /\ pc[s] = "node"
      BY <1>7, PutUndisturbed DEF AddToGraph
    <2>2. UNCHANGED <<create, delete, versionSet>>
      BY <1>7 DEF AddToGraph
    <2>3. Progress(s)'
      BY <1>2, <1>3, <2>1, <2>2 DEF Progress
    <2>4. QED
      BY <1>2, <2>1, <2>2, <2>3, PutCalm
  <1>8. CASE PutCreate(s)
    <2>1. /\ Put(s, "delete") /\ pc[s] = "create"
          /\ UNCHANGED <<present, delete, versionSet>>
      BY <1>8 DEF PutCreate
    <2>2. [create EXCEPT ![x] = from] \in [Entity -> Int \cup {NoVersion}]
      BY <1>1, <1>2 DEF WriteTypeOK
    <2>3. create'[x] = from /\ \A y \in Entity \ {x} : create'[y] = create[y]
      <3>1. create' = [create EXCEPT ![x] = from]
        BY <1>8, <2>1, <2>2, MapUndisturbed DEF PutCreate
      <3>2. QED
        BY <1>1, <1>2, <3>1 DEF WriteTypeOK
    <2>4. Progress(s)'
      BY <1>2, <1>3, <2>1, <2>3 DEF Progress
    <2>5. QED
      BY <1>2, <2>1, <2>3, <2>4, PutCalm
  <1>9. ASSUME NEW v \in Int, NEW l, Put(s, l),
               delete' \in PutInMap(s, delete, [delete EXCEPT ![x] = v])
        PROVE  delete'[x] = v /\ \A y \in Entity \ {x} : delete'[y] = delete[y]
    <2>1. [delete EXCEPT ![x] = v] \in [Entity -> Int \cup {NoVersion}]
      BY <1>1, <1>2 DEF WriteTypeOK
    <2>2. delete' = [delete EXCEPT ![x] = v]
      BY <1>9, <2>1, MapUndisturbed
    <2>3. QED
      BY <1>1, <1>2, <2>2 DEF WriteTypeOK
  <1>10. ASSUME NEW v \in {to, LongMax}, NEW l \in {"end", "properties"}, Put(s, l),
                pc[s] \in {"delete", "end"}, UNCHANGED <<present, create, versionSet>>,
                delete' \in PutInMap(s, delete, [delete EXCEPT ![x] = v]),
                l = "properties" => v = to
         PROVE  Calm'
    <2>1. delete'[x] = v /\ \A y \in Entity \ {x} : delete'[y] = delete[y]
      BY <1>2, <1>9, <1>10
    <2>2. asked[x] = <<from, to>> /\ create[x] = from /\ x \in present /\ from \in versionSet
      BY <1>2, <1>10 DEF Progress
    <2>3. Progress(s)'
      BY <1>2, <1>3, <1>10, <2>2 DEF Progress
    <2>4. Known(x)'
      BY <1>2, <1>3, <1>10, <2>1, <2>2 DEF Known
    <2>5. l = "properties" => AsAsked(x)'
      BY <1>3, <1>10, <2>1, <2>2 DEF AsAsked
    <2>6. QED
      BY <1>2, <1>10, <2>1, <2>3, <2>4, <2>5, PutCalm
  <1>11. CASE PutDelete(s)
    BY <1>10, <1>11 DEF PutDelete
  <1>12. CASE PutEnd(s)
    BY <1>10, <1>12 DEF PutEnd
  <1>13. QED
    BY <1>6, <1>7, <1>8, <1>11, <1>12

\* A step that concerns no creation and no clearVersion.
LEMMA RestCalm ==
  ASSUME Settled, Calm, UNCHANGED <<present, create, delete, asked>>,
         versionSet \subseteq versionSet', gone \subseteq gone',
         \A x \in Entity : InNeo4j(x)' => InNeo4j(x),
         \A t \in Session : Clearing(t)' => Clearing(t),
         \A t \in Session : Adding(t) \/ Adding(t)' => pc'[t] = pc[t] /\ job'[t] = job[t]
  PROVE  Calm'
  <1> USE DEF Calm
  <1>1. \A t \in Session : Adding(t) <=> Adding(t)'
    BY AddingSteps
  <1>2. ClearedApart'
    BY <1>1 DEF ClearedApart
  <1>3. \A t \in Session : Adding(t)' => Progress(t)'
    BY <1>1 DEF Progress
  <1>4. TornWhileAdded'
    BY <1>1, AddingSteps DEF TornWhileAdded, Known
  <1>5. \A x \in Entity : BeingAdded(x) => BeingAdded(x)'
    BY <1>1 DEF BeingAdded
  <1>6. AddedAsAsked'
    BY <1>5 DEF AddedAsAsked, AsAsked
  <1>7. UnaskedAreGone'
    BY DEF UnaskedAreGone
  <1>8. QED
    BY <1>2, <1>3, <1>4, <1>6, <1>7

\* A step of a clearVersion, while nothing is added and the graph is empty.
LEMMA ClearingCalm ==
  ASSUME Settled, Calm, NEW s \in Session, Clearing(s),
         NEW l \in {"clearRelations", "clearList", "idle"}, pc' = [pc EXCEPT ![s] = l],
         UNCHANGED <<present, asked, stored, pending, gone, job>>
  PROVE  Calm'
  <1> USE DEF Calm
  <1>1. present = {} /\ \A t \in Session : ~Adding(t)
    BY DEF ClearedApart
  <1>2. \A t \in Session : ~Adding(t)'
    BY <1>1, AddingSteps DEF Settled, WriteTypeOK
  <1>3. ClearedApart' /\ TornWhileAdded' /\ UnaskedAreGone'
    BY <1>1, <1>2 DEF ClearedApart, TornWhileAdded, UnaskedAreGone
  <1>4. \A x \in Entity : ~(asked[x] # NoVersion /\ InNeo4j(x))
    BY <1>1 DEF AddedAsAsked, AsAsked, BeingAdded
  <1>5. AddedAsAsked'
    BY <1>4, InNeo4jIs DEF AddedAsAsked
  <1>6. QED
    BY <1>2, <1>3, <1>5

\* A new entity, which x is when Neo4j creates it, has what its clause asks.
LEMMA CreateCalm ==
  ASSUME Settled, Calm, NEW s \in Session, NEW x \in Entity, Neo4jCreates(s, x),
         \A y \in Entity \ {x} : asked'[y] = asked[y],
         UNCHANGED <<present, create, delete, versionSet, stored, gone>>,
         \A t \in Session \ {s} : pc'[t] = pc[t] /\ job'[t] = job[t],
         ~Clearing(s)',
         \/ asked'[x] = NoVersion /\ ~Adding(s)'
         \/ /\ pc'[s] = "list" /\ job'[s].entity = x
            /\ asked'[x] = <<job'[s].from, job'[s].to>>
            /\ \A t \in Session : ~Clearing(t)'
  PROVE  Calm'
  <1> USE DEF Calm
  <1>0. WriteTypeOK
    BY DEF Settled
  <1>1. /\ ~InNeo4j(x) /\ pc[s] = "tx" /\ ~Adding(s)
        /\ \A t \in Session : pending'[t] = IF t = s THEN pending[t] \cup {x} ELSE pending[t]
    BY <1>0, AddingSteps DEF Neo4jCreates, WriteTypeOK
  <1>2. \A y \in Entity \ {x} : InNeo4j(y)' => InNeo4j(y)
    BY <1>1, InNeo4jIs
  <1>3. \A t \in Session : Adding(t) => job[t].entity \in Entity \ {x}
    BY <1>1, OneAdds
  <1>4. /\ \A t \in Session \ {s} : Adding(t) <=> Adding(t)'
        /\ \A t \in Session \ {s} : Clearing(t) <=> Clearing(t)'
    BY AddingSteps DEF Clearing
  <1>5. ClearedApart'
    BY <1>4 DEF ClearedApart
  <1>6. ASSUME NEW t \in Session, Adding(t)'
        PROVE  Progress(t)'
    <2>1. CASE t = s
      BY <1>6, <2>1 DEF Progress
    <2>2. CASE t # s
      BY <1>3, <1>4, <1>6, <2>2 DEF Progress
    <2>3. QED
      BY <2>1, <2>2
  <1>7. TornWhileAdded'
    <2>1. \A t \in Session : pc[t] \in {"create", "delete"} => t # s
      BY <1>1
    <2>2. QED
      BY <2>1 DEF TornWhileAdded, Known
  <1>8. AddedAsAsked'
    <2> SUFFICES ASSUME NEW y \in Entity, asked'[y] # NoVersion, InNeo4j(y)', ~BeingAdded(y)'
                 PROVE  AsAsked(y)'
      BY DEF AddedAsAsked
    <2>1. y # x
      BY AddingSteps DEF BeingAdded
    <2>2. ~BeingAdded(y)
      BY <1>1, <1>4 DEF BeingAdded
    <2>3. AsAsked(y)
      BY <1>2, <2>1, <2>2 DEF AddedAsAsked
    <2>4. QED
      BY <2>1, <2>3 DEF AsAsked
  <1>9. UnaskedAreGone'
    <2>1. x \in present => x \in gone
      BY <1>1 DEF Settled, GhostsWereGone
    <2>2. QED
      BY <2>1 DEF UnaskedAreGone, Settled, WriteTypeOK
  <1>10. QED
    BY <1>5, <1>6, <1>7, <1>8, <1>9

\* The steps of a session other than its puts.
LEMMA SessionCalm ==
  ASSUME Settled, Settled', Calm, ~shaken', NEW s \in Session,
         \/ BeginTx(s) \/ Commit(s) \/ Rollback(s) \/ SetProperties(s)
         \/ NextVersion(s) \/ ListNext(s)
         \/ ClearGraph(s) \/ ClearNodes(s) \/ ClearRelations(s) \/ ClearList(s)
  PROVE  Calm'
  <1> USE DEF graphVars, neo4jVars
  <1>1. WriteTypeOK
    BY DEF Settled
  <1>2. ASSUME NEW l, Goto(s, l)
        PROVE  /\ pc' = [pc EXCEPT ![s] = l]
               /\ pc'[s] = l
               /\ \A t \in Session \ {s} : pc'[t] = pc[t]
               /\ \A t, u \in Session : ~(Adding(t)' /\ Clearing(u)')
    BY <1>1, <1>2 DEF Goto, WriteTypeOK
  <1>3. ASSUME NEW l \in {"idle", "tx", "failed", "next"}, pc' = [pc EXCEPT ![s] = l], ~Adding(s),
               \A t \in Session \ {s} : job'[t] = job[t],
               UNCHANGED <<present, create, delete, asked>>,
               versionSet \subseteq versionSet', gone \subseteq gone',
               \A x \in Entity : InNeo4j(x)' => InNeo4j(x)
        PROVE  Calm'
    <2>1. pc'[s] = l /\ \A t \in Session \ {s} : pc'[t] = pc[t]
      BY <1>1, <1>3 DEF WriteTypeOK
    <2>2. \A t \in Session : Clearing(t)' => Clearing(t)
      BY <2>1 DEF Clearing
    <2>3. \A t \in Session : Adding(t) \/ Adding(t)' => t # s
      BY <1>3, <2>1, AddingSteps
    <2>4. QED
      BY <1>3, <2>1, <2>2, <2>3, RestCalm
  <1>4. CASE BeginTx(s)
    <2>1. \A x \in Entity : InNeo4j(x)' => InNeo4j(x)
      BY <1>4, InNeo4jIs DEF BeginTx
    <2>2. QED
      BY <1>2, <1>3, <1>4, <2>1, AddingSteps DEF BeginTx
  <1>5. CASE Commit(s) \/ Rollback(s)
    <2>1. \A x \in Entity : InNeo4j(x)' => InNeo4j(x)
      BY <1>1, <1>5, InNeo4jIs DEF Commit, Rollback, WriteTypeOK
    <2>2. QED
      BY <1>2, <1>3, <1>5, <2>1, AddingSteps DEF Commit, Rollback
  <1>6. CASE SetProperties(s)
    <2>1. \A x \in Entity : InNeo4j(x)' => InNeo4j(x)
      BY <1>6, InNeo4jIs DEF SetProperties
    <2>2. PICK l \in {"tx", "failed"} : Goto(s, l)
      BY <1>6 DEF SetProperties
    <2>3. \A t \in Session \ {s} : job'[t] = job[t]
      BY <1>1, <1>6 DEF SetProperties, WriteTypeOK
    <2>4. QED
      BY <1>2, <1>3, <1>6, <2>1, <2>2, <2>3, AddingSteps DEF SetProperties
  <1>7. CASE NextVersion(s)
    <2>1. \A x \in Entity : InNeo4j(x)' => InNeo4j(x)
      BY <1>7, InNeo4jIs DEF NextVersion
    <2>2. \A t \in Session \ {s} : job'[t] = job[t]
      BY <1>1, <1>7 DEF NextVersion, WriteTypeOK
    <2>3. QED
      BY <1>2, <1>3, <1>7, <2>1, <2>2, AddingSteps DEF NextVersion
  <1>8. CASE ListNext(s)
    <2>1. \A x \in Entity : InNeo4j(x)' => InNeo4j(x)
      BY <1>8, InNeo4jIs DEF ListNext
    <2>2. \A t \in Session \ {s} : job'[t] = job[t]
      BY <1>1, <1>8 DEF ListNext, WriteTypeOK
    <2>3. versionSet \subseteq versionSet'
      BY <1>8 DEF ListNext, List, LostVersions
    <2>4. QED
      BY <1>3, <1>8, <2>1, <2>2, <2>3, AddingSteps DEF ListNext
  <1>9. CASE ClearGraph(s)
    <2>1. present' = {} /\ \A x \in Entity : asked'[x] = NoVersion
      BY <1>9 DEF ClearGraph
    <2>2. Clearing(s)' /\ \A t \in Session : ~Adding(t)'
      BY <1>2, <1>9 DEF ClearGraph, Clearing
    <2>3. QED
      BY <2>1, <2>2
         DEF Calm, ClearedApart, TornWhileAdded, AddedAsAsked, UnaskedAreGone
  <1>10. ASSUME NEW l \in {"clearNodes", "clearRelations"},
                NEW next \in {"clearRelations", "clearList"}, NEW S, ClearKind(s, l, next, S)
         PROVE  Calm'
    BY <1>2, <1>10, ClearingCalm DEF ClearKind, Clearing
  <1>11. CASE ClearList(s)
    BY <1>2, <1>11, ClearingCalm DEF ClearList, Clearing
  <1>12. QED
    BY <1>4, <1>5, <1>6, <1>7, <1>8, <1>9, <1>10, <1>11 DEF ClearNodes, ClearRelations

LEMMA CreationsCalm ==
  ASSUME Settled, Calm, ~shaken', NEW s \in Session, NEW x \in Entity,
         Create(s, x) \/ \E w \in Window : CreateV(s, x, w)
  PROVE  Calm'
  <1> USE DEF graphVars
  <1>1. WriteTypeOK
    BY DEF Settled
  <1>2. CASE Create(s, x)
    <2>1. pc'[s] = "tx" /\ pc' = pc /\ job' = job
      BY <1>2 DEF Create, Neo4jCreates
    <2>2. ~Adding(s)' /\ ~Clearing(s)'
      BY <2>1, AddingSteps DEF Clearing
    <2>3. asked'[x] = NoVersion /\ \A y \in Entity \ {x} : asked'[y] = asked[y]
      BY <1>1, <1>2 DEF Create, WriteTypeOK
    <2>4. QED
      BY <1>2, <2>1, <2>2, <2>3, CreateCalm DEF Create
  <1>3. ASSUME NEW w \in Window, CreateV(s, x, w)
        PROVE  Calm'
    <2>1. /\ Neo4jCreates(s, x)
          /\ asked'[x] = Asked(w) /\ \A y \in Entity \ {x} : asked'[y] = asked[y]
          /\ UNCHANGED <<present, create, delete, versionSet, stored, gone>>
      BY <1>1, <1>3 DEF CreateV, WriteTypeOK
    <2>2. CASE w = <<>>
      <3>1. Goto(s, "failed") /\ job' = job /\ Asked(w) = NoVersion
        BY <1>3, <2>2 DEF CreateV, Asked
      <3>2. pc'[s] = "failed" /\ \A t \in Session \ {s} : pc'[t] = pc[t]
        BY <1>1, <3>1 DEF Goto, WriteTypeOK
      <3>3. ~Adding(s)' /\ ~Clearing(s)'
        BY <3>2, AddingSteps DEF Clearing
      <3>4. QED
        BY <2>1, <3>1, <3>2, <3>3, CreateCalm
    <2>3. CASE w # <<>>
      <3>1. /\ Goto(s, "list")
            /\ job' = [job EXCEPT ![s] = [entity |-> x, from |-> FirstLast(w)[1],
                                          to |-> FirstLast(w)[2]]]
        BY <1>3, <2>3 DEF CreateV
      <3>2. /\ pc'[s] = "list"
            /\ job'[s].entity = x
            /\ job'[s].from = FirstLast(w)[1] /\ job'[s].to = FirstLast(w)[2]
            /\ \A t \in Session \ {s} : pc'[t] = pc[t] /\ job'[t] = job[t]
        BY <1>1, <3>1 DEF Goto, WriteTypeOK
      <3>3. asked'[x] = <<job'[s].from, job'[s].to>>
        BY <2>1, <2>3, <3>2, FirstLastIsAsked
      <3>4. \A t \in Session : ~Clearing(t)'
        <4>1. Adding(s)'
          BY <3>2, AddingSteps
        <4>2. QED
          BY <3>1, <4>1 DEF Goto
      <3>5. QED
        BY <2>1, <3>2, <3>3, <3>4, CreateCalm
    <2>4. QED
      BY <2>2, <2>3
  <1>4. QED
    BY <1>2, <1>3

-----------------------------------------------------------------------------
LEMMA WriteInitInv == WriteInit => WInv
  <1> SUFFICES ASSUME WriteInit
               PROVE  WInv
    OBVIOUS
  <1> USE DEF WriteInit, Init
  <1>1. WriteTypeOK
    BY DEF WriteTypeOK, NoJob, Steps
  <1>2. \A s \in Session : ~Adding(s) /\ ~Clearing(s) /\ pc[s] # "properties"
    BY AddingSteps DEF Clearing
  <1>3. Settled
    BY <1>1, <1>2 DEF Settled, JobPending, PendingApart, GhostsWereGone
  <1>4. Calm
    BY <1>2 DEF Calm, ClearedApart, TornWhileAdded, AddedAsAsked, UnaskedAreGone
  <1>5. QED
    BY <1>3, <1>4 DEF WInv

\* Calls that have overlapped once stay so.
LEMMA ShakenStays ==
  ASSUME [WriteNext]_writeVars, shaken
  PROVE  shaken'
  BY DEF WriteNext, BeginTx, Commit, Rollback, AddToList, AddToGraph, PutCreate, PutDelete, PutEnd,
         SetProperties, NextVersion, ListNext, ClearGraph, ClearNodes, ClearRelations, ClearKind,
         ClearList, Create, CreateV, Neo4jDelete, Put, Goto, writeVars

LEMMA WriteNextInv == WInv /\ [WriteNext]_writeVars => WInv'
  <1> SUFFICES ASSUME WInv, [WriteNext]_writeVars
               PROVE  WInv'
    OBVIOUS
  <1>1. Settled
    BY DEF WInv
  <1>2. ~shaken' => Calm
    BY ShakenStays DEF WInv
  <1>3. ASSUME NEW s \in Session,
               AddToList(s) \/ AddToGraph(s) \/ PutCreate(s) \/ PutDelete(s) \/ PutEnd(s)
        PROVE  WInv'
    BY <1>1, <1>2, <1>3, PutsSettled, PutsCalm DEF WInv
  <1>4. ASSUME NEW s \in Session, Commit(s) \/ Rollback(s)
        PROVE  WInv'
    BY <1>1, <1>2, <1>4, TransactionsSettled, SessionCalm DEF WInv
  <1>5. ASSUME NEW s \in Session,
               \/ BeginTx(s) \/ SetProperties(s) \/ NextVersion(s) \/ ListNext(s)
               \/ ClearGraph(s) \/ ClearNodes(s) \/ ClearRelations(s) \/ ClearList(s)
        PROVE  WInv'
    BY <1>1, <1>2, <1>5, StepsSettled, SessionCalm DEF WInv
  <1>6. ASSUME NEW s \in Session, NEW x \in Entity,
               Create(s, x) \/ \E w \in Window : CreateV(s, x, w)
        PROVE  WInv'
    BY <1>1, <1>2, <1>6, CreationsSettled, CreationsCalm DEF WInv
  <1>7. ASSUME NEW x \in Entity, Neo4jDelete(x)
        PROVE  WInv'
    <2>1. /\ UNCHANGED <<present, create, delete, versionSet, asked, pc, job, pending, shaken>>
          /\ stored' \subseteq stored /\ gone \subseteq gone'
      BY <1>7 DEF Neo4jDelete, graphVars, sessionVars
    <2>2. Calm => Calm'
      BY <1>1, <2>1, RestCalm, InNeo4jIs DEF Clearing
    <2>3. QED
      BY <1>1, <1>2, <1>7, <2>2, Neo4jDeleteSettled DEF WInv
  <1>8. CASE UNCHANGED writeVars
    <2>1. UNCHANGED <<present, create, delete, version, versionSet, pc, job, pending, stale, stored,
                      asked, gone, shaken>>
      BY <1>8 DEF writeVars, graphVars, sessionVars, neo4jVars
    <2>2. WriteTypeOK'
      BY <1>1, <2>1 DEF Settled, WriteTypeOK
    <2>3. Settled'
      BY <1>1, <2>1, <2>2, RestSettled
    <2>4. Calm => Calm'
      BY <1>1, <2>1, RestCalm, InNeo4jIs DEF Clearing
    <2>5. QED
      BY <1>2, <2>3, <2>4 DEF WInv
  <1>9. QED
    BY <1>3, <1>4, <1>5, <1>6, <1>7, <1>8 DEF WriteNext

LEMMA WriteInductive == WriteSpec => []WInv
  BY WriteInitInv, WriteNextInv, PTL DEF WriteSpec

\* What a version shows and Neo4j does not have was rolled back or deleted,
\* whatever the sessions lose of each other's puts.
THEOREM GhostsExplained == WriteSpec => []GhostsWereGone
  <1>1. WInv => GhostsWereGone
    BY DEF WInv, Settled
  <1>2. QED
    BY WriteInductive, <1>1, PTL

\* Until calls overlap that share a collection, only the very call that adds
\* an entity can be seen to have given it half of its versions.
THEOREM TornNeedsOverlap == WriteSpec => []TornOnlyByOverlap
  <1>1. WInv => TornOnlyByOverlap
    BY DEF WInv, Calm, TornWhileAdded, TornOnlyByOverlap
  <1>2. QED
    BY WriteInductive, <1>1, PTL

\* Until then, CREATEV leaves an entity with the versions it asked for, and
\* CREATE leaves it with none.
THEOREM CreatedAsAsked == WriteSpec => []VersionsAsAsked
  <1>1. WInv => VersionsAsAsked
    BY DEF WInv, Calm, AddedAsAsked, AsAsked, UnaskedAreGone, VersionsAsAsked
  <1>2. QED
    BY WriteInductive, <1>1, PTL
=============================================================================
