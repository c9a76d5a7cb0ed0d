-------------------------- MODULE DiscreteGraphProofs --------------------------
(***************************************************************************)
(* Theorems of DiscreteGraph and BatchGraph, for every set of entities,    *)
(* versions and references.  The invariant of the discrete graph adds to   *)
(* the parts that are checked on instances that the versions the object    *)
(* remembers are in the pool.                                              *)
(*                                                                         *)
(* One lemma carries the proofs: every step that writes replaces the       *)
(* contents of one version through a reference that no other version has.  *)
(*                                                                         *)
(* In the batch graph the DiscreteGraph keeps its invariant (IInv), and    *)
(* the two invariants of the batch graph need each other: a relation whose *)
(* id is given out again was rolled back if a version still lists it       *)
(* (MissingWereRolledBack), so its new ends are only promised at the       *)
(* version it is created at.                                               *)
(***************************************************************************)
EXTENDS BatchGraph, TLAPS

Listed(v) == v = Null \/ graphPool[v] # Null

IInv ==
    /\ TypeOK
    /\ CurrentInPool
    /\ VersionsApart
    /\ Listed(currentVersion)
    /\ Listed(latestVersion)
    /\ latestVersion # Null => currentVersion # Null

Known == {v \in Version : graphPool[v] # Null}
Shown == [v \in Version |-> AtVersion(v)]

\* What the steps have in common: S becomes the contents of version v.
Replaces(v, r, S) ==
    /\ graphPool[v] = r \/ Fresh(r)
    /\ graphPool' = [graphPool EXCEPT ![v] = r]
    /\ graphs' = [graphs EXCEPT ![r] = S]

\* A replacement is seen at v and at no other version.
LEMMA ReplacedAlone ==
  ASSUME TypeOK, VersionsApart, NEW v \in Version, NEW r \in Ref, NEW S \in SUBSET Entity,
         Replaces(v, r, S)
  PROVE  /\ graphPool' \in [Version -> Ref \cup {Null}]
         /\ graphs' \in [Ref -> SUBSET Entity]
         /\ VersionsApart'
         /\ Known' = Known \cup {v}
         /\ Shown' = [Shown EXCEPT ![v] = S]
         /\ graphPool'[v] = r
         /\ \A w \in Version : graphPool[w] # Null => graphPool'[w] # Null
  <1> USE DiscreteAssumption DEF Replaces
  <1>1. /\ graphPool \in [Version -> Ref \cup {Null}]
        /\ graphs \in [Ref -> SUBSET Entity]
    BY DEF TypeOK
  <1>2. /\ graphPool' \in [Version -> Ref \cup {Null}]
        /\ graphs' \in [Ref -> SUBSET Entity]
        /\ graphPool'[v] = r
        /\ graphs'[r] = S
        /\ r # Null
    BY <1>1
  <1>3. ASSUME NEW w \in Version, w # v
        PROVE  /\ graphPool'[w] = graphPool[w]
               /\ graphPool[w] # r
    <2>1. CASE graphPool[v] = r
      BY <1>1, <1>2, <1>3, <2>1 DEF VersionsApart
    <2>2. CASE Fresh(r)
      BY <1>1, <1>3, <2>2 DEF Fresh, Reachable
    <2>3. QED
      BY <2>1, <2>2
  <1>4. VersionsApart'
    BY <1>2, <1>3 DEF VersionsApart
  <1>5. Known' = Known \cup {v}
    BY <1>2, <1>3 DEF Known
  <1>6. AtVersion(v)' = S
    BY <1>2 DEF AtVersion
  <1>7. ASSUME NEW w \in Version, w # v
        PROVE  AtVersion(w)' = AtVersion(w)
    BY <1>1, <1>3, <1>7 DEF AtVersion
  <1>8. Shown' = [Shown EXCEPT ![v] = S]
    BY <1>6, <1>7 DEF Shown
  <1>9. \A w \in Version : graphPool[w] # Null => graphPool'[w] # Null
    BY <1>2, <1>3
  <1>10. QED
    BY <1>2, <1>4, <1>5, <1>8, <1>9

\* The same, of the contents of the versions.
LEMMA SeenWhereReplaced ==
  ASSUME IInv, NEW v \in Version, NEW r \in Ref, NEW S \in SUBSET Entity, Replaces(v, r, S)
  PROVE  AtVersion(v)' = S /\ \A w \in Version \ {v} : AtVersion(w)' = AtVersion(w)
  <1>1. Shown' = [Shown EXCEPT ![v] = S]
    BY ReplacedAlone DEF IInv
  <1>2. \A w \in Version : Shown'[w] = AtVersion(w)' /\ Shown[w] = AtVersion(w)
    BY DEF Shown
  <1>3. QED
    BY <1>1, <1>2 DEF Shown

\* S becomes the contents of version v, and v the version remembered.
Writes(v, S) ==
    \E r \in Ref :
        /\ Replaces(v, r, S)
        /\ currentVersion' = v
        /\ currentGraph' = r
        /\ UNCHANGED <<isCopy, version, latestVersion>>

\* A call that names a version finds a reference that holds that version's
\* entities, whether it seeks or not.
LEMMA GraphForWrites ==
  ASSUME IInv, NEW v \in Version, NEW r \in Ref, GraphFor(v, r),
         NEW S, graphs' = [graphs EXCEPT ![r] = S]
  PROVE  Writes(v, S) /\ Contents(r) = AtVersion(v)
  <1> USE DiscreteAssumption DEF IInv
  <1>1. graphPool \in [Version -> Ref \cup {Null}]
    BY DEF TypeOK
  <1>2. CASE currentVersion = v /\ r = currentGraph
             /\ UNCHANGED <<isCopy, version, latestVersion, currentVersion, currentGraph, graphPool>>
    <2>1. graphPool[v] = r /\ r # Null
      BY <1>2 DEF CurrentInPool
    <2>2. graphPool' = [graphPool EXCEPT ![v] = r]
      BY <1>1, <1>2, <2>1
    <2>3. Contents(r) = AtVersion(v)
      BY <1>2, <2>1 DEF Contents, Reachable, AtVersion
    <2>4. QED
      BY <1>2, <2>1, <2>2, <2>3 DEF Writes, Replaces
  <1>3. CASE SeekGraph(v, r)
    <2>1. Contents(r) = AtVersion(v)
      BY <1>1, <1>3 DEF SeekGraph, Contents, AtVersion, Fresh, Reachable
    <2>2. Writes(v, S)
      BY <1>3 DEF SeekGraph, Writes, Replaces
    <2>3. QED
      BY <2>1, <2>2
  <1>4. QED
    BY <1>2, <1>3 DEF GraphFor

\* Opening, adding and deleting write at the version they name.
LEMMA NamedWrites ==
  ASSUME IInv, NEW v \in Version
  PROVE  /\ SeekGraphByVersion(v) => Writes(v, AtVersion(v))
         /\ \A x \in Entity : Add(x, v) => Writes(v, AtVersion(v) \cup {x})
         /\ \A x \in Entity : Delete(x, v) => Writes(v, AtVersion(v) \ {x})
  <1>1. ASSUME SeekGraphByVersion(v)
        PROVE  Writes(v, AtVersion(v))
    <2>1. PICK r \in Ref : SeekGraph(v, r) /\ graphs' = [graphs EXCEPT ![r] = Contents(r)]
      BY <1>1 DEF SeekGraphByVersion
    <2>2. GraphFor(v, r)
      BY <2>1 DEF GraphFor
    <2>3. QED
      BY <2>1, <2>2, GraphForWrites
  <1>2. ASSUME NEW x \in Entity, Add(x, v)
        PROVE  Writes(v, AtVersion(v) \cup {x})
    <2>1. PICK r \in Ref : GraphFor(v, r) /\ graphs' = [graphs EXCEPT ![r] = Contents(r) \cup {x}]
      BY <1>2 DEF Add
    <2>2. QED
      BY <2>1, GraphForWrites
  <1>3. ASSUME NEW x \in Entity, Delete(x, v)
        PROVE  Writes(v, AtVersion(v) \ {x})
    <2>1. PICK r \in Ref : GraphFor(v, r) /\ graphs' = [graphs EXCEPT ![r] = Contents(r) \ {x}]
      BY <1>3 DEF Delete
    <2>2. QED
      BY <2>1, GraphForWrites
  <1>4. QED
    BY <1>1, <1>2, <1>3

\* The calls that name no version write at the version remembered.
LEMMA CurrentWrites ==
  ASSUME IInv, NEW S, ChangeCurrent(S)
  PROVE  /\ currentVersion \in Version
         /\ Contents(currentGraph) = AtVersion(currentVersion)
         /\ Writes(currentVersion, S)
  <1> USE DiscreteAssumption DEF IInv, ChangeCurrent
  <1>1. /\ currentVersion \in Version
        /\ graphPool[currentVersion] = currentGraph
        /\ currentGraph \in Ref
    BY DEF TypeOK, CurrentInPool
  <1>2. Contents(currentGraph) = AtVersion(currentVersion)
    BY <1>1 DEF Contents, Reachable, AtVersion
  <1>3. graphPool' = [graphPool EXCEPT ![currentVersion] = currentGraph]
    BY <1>1 DEF TypeOK
  <1>4. QED
    BY <1>1, <1>2, <1>3 DEF Writes, Replaces

\* What a version that begins starts with.
Start == IF isCopy /\ currentVersion # Null THEN AtVersion(currentVersion) ELSE {}

LEMMA BeginWrites ==
  ASSUME IInv, NEW v \in Version, NextGraphAt(v)
  PROVE  \E r \in Ref : Replaces(v, r, Start) /\ currentVersion' = v /\ currentGraph' = r
                        /\ latestVersion' = v /\ isCopy' = isCopy
  <1> USE DiscreteAssumption DEF IInv
  <1>1. PICK r \in Ref :
          /\ Fresh(r)
          /\ currentGraph' = r
          /\ graphPool' = [graphPool EXCEPT ![v] = r]
          /\ graphs' = [graphs EXCEPT ![r] =
                 IF isCopy /\ currentGraph # Null THEN graphs[currentGraph] ELSE {}]
    BY DEF NextGraphAt
  <1>2. Start = IF isCopy /\ currentGraph # Null THEN graphs[currentGraph] ELSE {}
    BY DEF Start, CurrentInPool, Listed, AtVersion
  <1>3. Replaces(v, r, Start)
    BY <1>1, <1>2 DEF Replaces
  <1>4. QED
    BY <1>1, <1>3 DEF NextGraphAt

LEMMA ContentsAreEntities ==
  ASSUME TypeOK, NEW v \in Version
  PROVE  AtVersion(v) \in SUBSET Entity
  BY DEF TypeOK, AtVersion

-----------------------------------------------------------------------------
LEMMA InitIInv == Init => IInv
  BY DiscreteAssumption
     DEF Init, IInv, TypeOK, CurrentInPool, VersionsApart, Listed

\* A replacement that also moves the object there keeps the invariant.
LEMMA ReplacingKeeps ==
  ASSUME IInv, NEW v \in Version, NEW r \in Ref, NEW S \in SUBSET Entity, Replaces(v, r, S),
         currentVersion' = v, currentGraph' = r, isCopy' = isCopy,
         latestVersion' \in {latestVersion, v}, version' \in 0..MaxIssued
  PROVE  IInv'
  <1> USE DiscreteAssumption DEF IInv
  <1>1. /\ graphPool' \in [Version -> Ref \cup {Null}]
        /\ graphs' \in [Ref -> SUBSET Entity]
        /\ VersionsApart'
        /\ graphPool'[v] = r
        /\ \A w \in Version : graphPool[w] # Null => graphPool'[w] # Null
    BY ReplacedAlone
  <1>2. TypeOK'
    BY <1>1 DEF TypeOK
  <1>3. CurrentInPool'
    BY <1>1 DEF CurrentInPool
  <1>4. Listed(currentVersion)' /\ Listed(latestVersion)'
    BY <1>1 DEF Listed, TypeOK
  <1>5. QED
    BY <1>1, <1>2, <1>3, <1>4

LEMMA WritingKeeps ==
  ASSUME IInv, NEW v \in Version, NEW S \in SUBSET Entity, Writes(v, S)
  PROVE  IInv'
  <1>1. PICK r \in Ref :
          /\ Replaces(v, r, S)
          /\ currentVersion' = v
          /\ currentGraph' = r
          /\ UNCHANGED <<isCopy, version, latestVersion>>
    BY DEF Writes
  <1>2. version' \in 0..MaxIssued
    BY <1>1 DEF IInv, TypeOK
  <1>3. QED
    BY <1>1, <1>2, ReplacingKeeps

LEMMA BeginKeeps ==
  ASSUME IInv, NEW v \in Version, NextGraphAt(v), version' \in 0..MaxIssued
  PROVE  IInv'
  <1>1. PICK r \in Ref : Replaces(v, r, Start) /\ currentVersion' = v /\ currentGraph' = r
                         /\ latestVersion' = v /\ isCopy' = isCopy
    BY BeginWrites
  <1>2. Start \in SUBSET Entity
    BY ContentsAreEntities DEF Start, IInv, TypeOK
  <1>3. QED
    BY <1>1, <1>2, ReplacingKeeps

LEMMA NextIInv == IInv /\ [Next]_vars => IInv'
  <1> SUFFICES ASSUME IInv, [Next]_vars
               PROVE  IInv'
    OBVIOUS
  <1> USE DiscreteAssumption
  <1>0. TypeOK
    BY DEF IInv
  <1>1. CASE NextGraph
    <2>1. version + 1 \in Version /\ version' \in 0..MaxIssued
      BY <1>0, <1>1 DEF NextGraph, TypeOK
    <2>2. QED
      BY <1>1, <2>1, BeginKeeps DEF NextGraph
  <1>2. ASSUME NEW v \in Version, NextGraphAt(v) /\ UNCHANGED version
        PROVE  IInv'
    BY <1>0, <1>2, BeginKeeps DEF TypeOK
  <1>3. ASSUME NEW v \in Version, SeekGraphByVersion(v)
        PROVE  IInv'
    BY <1>0, <1>3, NamedWrites, WritingKeeps, ContentsAreEntities
  <1>4. ASSUME NEW v \in Version, NEW x \in Entity, Add(x, v) \/ Delete(x, v)
        PROVE  IInv'
    <2>1. AtVersion(v) \cup {x} \in SUBSET Entity /\ AtVersion(v) \ {x} \in SUBSET Entity
      BY <1>0, ContentsAreEntities
    <2>2. QED
      BY <1>4, <2>1, NamedWrites, WritingKeeps
  <1>5. CASE Latest
    <2>1. TypeOK' /\ VersionsApart'
      BY <1>0, <1>5 DEF Latest, IInv, TypeOK, VersionsApart
    <2>2. QED
      BY <1>5, <2>1 DEF Latest, IInv, CurrentInPool, Listed
  <1>6. ASSUME NEW x \in Entity, AddToCurrent(x) \/ DeleteFromCurrent(x)
        PROVE  IInv'
    <2>1. PICK S : ChangeCurrent(S) /\ S \in {Contents(currentGraph) \cup {x}, Contents(currentGraph) \ {x}}
      BY <1>6 DEF AddToCurrent, DeleteFromCurrent
    <2>2. S \in SUBSET Entity
      BY <1>0, <2>1, CurrentWrites, ContentsAreEntities
    <2>3. QED
      BY <2>1, <2>2, CurrentWrites, WritingKeeps
  <1>7. CASE UNCHANGED vars
    BY <1>7 DEF vars, IInv, TypeOK, CurrentInPool, VersionsApart, Listed
  <1>8. QED
    BY <1>1, <1>2, <1>3, <1>4, <1>5, <1>6, <1>7 DEF Next

\* The inductive invariant holds in every behaviour.
LEMMA Inductive == Spec => []IInv
  BY InitIInv, NextIInv, PTL DEF Spec

-----------------------------------------------------------------------------
\* The fields keep their types: in particular currentVersion is never a
\* version that no call named.
THEOREM TypeCorrect == Spec => []TypeOK
  <1>1. IInv => TypeOK
    BY DEF IInv
  <1>2. QED
    BY Inductive, <1>1, PTL

\* The graph remembered is the pool's graph of the version remembered, so the
\* calls that skip the seek write where the others do.
THEOREM CurrentIsPooled == Spec => []CurrentInPool
  <1>1. IInv => CurrentInPool
    BY DEF IInv
  <1>2. QED
    BY Inductive, <1>1, PTL

\* No two versions ever share a graph object.
THEOREM NoSharedGraph == Spec => []VersionsApart
  <1>1. IInv => VersionsApart
    BY DEF IInv
  <1>2. QED
    BY Inductive, <1>1, PTL

\* Once a version has begun there is a graph to write to.
THEOREM BegunWritable == Spec => []BegunIsWritable
  <1>1. IInv => BegunIsWritable
    BY DEF IInv, BegunIsWritable, CurrentInPool, Listed
  <1>2. QED
    BY Inductive, <1>1, PTL

\* A write that names a version lands there and nowhere else.
THEOREM WritesLandWhereNamed == Spec => NamedWritesAreLocal
  <1>1. ASSUME IInv, [Next]_vars
        PROVE  NamedWrite
    <2>1. ASSUME NEW v \in Version, NEW S \in SUBSET Entity, Writes(v, S)
          PROVE  AtVersion(v)' = S /\ \A w \in Version \ {v} : AtVersion(w)' = AtVersion(w)
      BY <1>1, <2>1, SeenWhereReplaced DEF Writes
    <2>2. ASSUME NEW v \in Version, NEW x \in Entity
          PROVE  AtVersion(v) \cup {x} \in SUBSET Entity /\ AtVersion(v) \ {x} \in SUBSET Entity
      BY <1>1, ContentsAreEntities DEF IInv
    <2>3. ASSUME NEW v \in Version, NEW x \in Entity, Add(x, v)
          PROVE  x \in AtVersion(v)' /\ \A w \in Version \ {v} : AtVersion(w)' = AtVersion(w)
      <3>1. Writes(v, AtVersion(v) \cup {x})
        BY <1>1, <2>3, NamedWrites
      <3>2. QED
        BY <2>1, <2>2, <3>1
    <2>4. ASSUME NEW v \in Version, NEW x \in Entity, Delete(x, v)
          PROVE  x \notin AtVersion(v)' /\ \A w \in Version \ {v} : AtVersion(w)' = AtVersion(w)
      <3>1. Writes(v, AtVersion(v) \ {x})
        BY <1>1, <2>4, NamedWrites
      <3>2. QED
        BY <2>1, <2>2, <3>1
    <2>5. QED
      BY <2>3, <2>4 DEF NamedWrite
  <1>2. QED
    BY <1>1, Inductive, PTL DEF Spec, NamedWritesAreLocal

\* The steps of Snapshots, in terms of this module.
OpensSnapshot(v, S) ==
    /\ currentVersion' = v
    /\ Known' = Known \cup {v}
    /\ Shown' = [Shown EXCEPT ![v] = S]
    /\ UNCHANGED <<isCopy, version, latestVersion>>

BeginsSnapshot(v) ==
    /\ latestVersion' = v
    /\ currentVersion' = v
    /\ Known' = Known \cup {v}
    /\ Shown' = [Shown EXCEPT ![v] =
           IF isCopy /\ currentVersion # Null THEN Shown[currentVersion] ELSE {}]
    /\ UNCHANGED isCopy

\* The pool of graph objects implements independent sets of entities, one for
\* each version, whatever references it shares.
THEOREM PoolImplements == Spec => ImplementsSnapshots
  <1> USE DiscreteAssumption
  <1>1. Init => Abstract!Init
    BY DEF Init, Abstract!Init, AtVersion
  <1>2. ASSUME IInv, [Next]_vars
        PROVE  [Abstract!Next]_(Abstract!vars)
    <2> USE <1>2
    <2>0. TypeOK /\ VersionsApart
      BY DEF IInv
    <2>1. ASSUME NEW v \in Version, NextGraphAt(v)
          PROVE  BeginsSnapshot(v)
      <3>1. PICK r \in Ref : Replaces(v, r, Start) /\ currentVersion' = v /\ currentGraph' = r
                             /\ latestVersion' = v /\ isCopy' = isCopy
        BY <2>1, BeginWrites
      <3>2. Start \in SUBSET Entity
        BY <2>0, ContentsAreEntities DEF Start, TypeOK
      <3>3. Known' = Known \cup {v} /\ Shown' = [Shown EXCEPT ![v] = Start]
        BY <2>0, <3>1, <3>2, ReplacedAlone
      <3>4. Start = IF isCopy /\ currentVersion # Null THEN Shown[currentVersion] ELSE {}
        BY <2>0 DEF Start, Shown, TypeOK
      <3>5. QED
        BY <3>1, <3>3, <3>4 DEF BeginsSnapshot
    <2>2. ASSUME NEW v \in Version, NEW S \in SUBSET Entity, Writes(v, S)
          PROVE  OpensSnapshot(v, S)
      <3>1. PICK r \in Ref :
              /\ Replaces(v, r, S)
              /\ currentVersion' = v
              /\ currentGraph' = r
              /\ UNCHANGED <<isCopy, version, latestVersion>>
        BY <2>2 DEF Writes
      <3>2. Known' = Known \cup {v} /\ Shown' = [Shown EXCEPT ![v] = S]
        BY <2>0, <3>1, ReplacedAlone
      <3>3. QED
        BY <3>1, <3>2 DEF OpensSnapshot
    <2>3. \A v \in Version : Shown[v] = AtVersion(v)
      BY DEF Shown
    <2>4. CASE NextGraph
      <3>1. version + 1 \in Version
        BY <2>0, <2>4 DEF NextGraph, TypeOK
      <3>2. BeginsSnapshot(version + 1)
        BY <2>1, <2>4, <3>1 DEF NextGraph
      <3>3. Abstract!BeginNext
        BY <2>4, <3>2 DEF NextGraph, Abstract!BeginNext, Abstract!Begin, BeginsSnapshot, Known, Shown
      <3>4. QED
        BY <3>3 DEF Abstract!Next
    <2>5. ASSUME NEW v \in Version, NextGraphAt(v) /\ UNCHANGED version
          PROVE  Abstract!Next
      BY <2>1, <2>5 DEF Abstract!Next, Abstract!Begin, BeginsSnapshot, Known, Shown
    <2>6. ASSUME NEW v \in Version, SeekGraphByVersion(v)
          PROVE  Abstract!Next
      <3>1. OpensSnapshot(v, AtVersion(v))
        BY <2>0, <2>2, <2>6, NamedWrites, ContentsAreEntities
      <3>2. QED
        BY <2>3, <3>1 DEF Abstract!Next, Abstract!Open, OpensSnapshot, Known, Shown
    <2>7. ASSUME NEW v \in Version, NEW x \in Entity,
                 Writes(v, AtVersion(v) \cup {x}) \/ Writes(v, AtVersion(v) \ {x})
          PROVE  Abstract!Next
      <3>1. AtVersion(v) \cup {x} \in SUBSET Entity /\ AtVersion(v) \ {x} \in SUBSET Entity
        BY <2>0, ContentsAreEntities
      <3>2. OpensSnapshot(v, AtVersion(v) \cup {x}) \/ OpensSnapshot(v, AtVersion(v) \ {x})
        BY <2>2, <2>7, <3>1
      <3>3. QED
        BY <2>3, <3>2 DEF Abstract!Next, Abstract!Open, OpensSnapshot, Known, Shown
    <2>8. ASSUME NEW v \in Version, NEW x \in Entity, Add(x, v) \/ Delete(x, v)
          PROVE  Abstract!Next
      BY <2>7, <2>8, NamedWrites
    <2>9. CASE Latest
      BY <2>9 DEF Latest, Abstract!Next, Abstract!OpenNewest, AtVersion
    <2>10. ASSUME NEW x \in Entity, AddToCurrent(x) \/ DeleteFromCurrent(x)
           PROVE  Abstract!Next
      <3>1. CASE AddToCurrent(x)
        BY <2>7, <3>1, CurrentWrites DEF AddToCurrent
      <3>2. CASE DeleteFromCurrent(x)
        BY <2>7, <3>2, CurrentWrites DEF DeleteFromCurrent
      <3>3. QED
        BY <2>10, <3>1, <3>2
    <2>11. CASE UNCHANGED vars
      BY <2>11 DEF vars, Abstract!vars, AtVersion
    <2>12. QED
      BY <2>4, <2>5, <2>6, <2>8, <2>9, <2>10, <2>11 DEF Next
  <1>3. QED
    BY <1>1, <1>2, Inductive, PTL DEF Spec, ImplementsSnapshots, Abstract!Spec

-----------------------------------------------------------------------------
\* The batch graph.

BatchTypeOK ==
    /\ inTx \in BOOLEAN
    /\ stored \subseteq Entity
    /\ pending \subseteq Entity
    /\ rolledBack \subseteq Entity
    /\ misplaced \subseteq Relation
    /\ ends \in [Relation -> (Node \X Node) \cup {NoEnds}]

BatchInv == IInv /\ BatchTypeOK /\ MissingWereRolledBack /\ VersionsAreGraphs

LEMMA BatchInitInv == BatchInit => BatchInv
  <1>1. Init => IInv
    BY InitIInv
  <1>2. QED
    BY <1>1, DiscreteAssumption
       DEF BatchInit, Init, BatchInv, BatchTypeOK, MissingWereRolledBack, VersionsAreGraphs, AtVersion

\* What the steps that reach the DiscreteGraph have in common.
OnlyAt(v, S) ==
    /\ AtVersion(v)' = S
    /\ \A w \in Version \ {v} : AtVersion(w)' = AtVersion(w)

\* Creating an entity adds it at the version named.
LEMMA AddOnlyAt ==
  ASSUME IInv, NEW v \in Version, NEW x \in Entity, Add(x, v)
  PROVE  IInv' /\ OnlyAt(v, AtVersion(v) \cup {x}) /\ version' = version
  <1>1. Writes(v, AtVersion(v) \cup {x})
    BY NamedWrites
  <1>2. AtVersion(v) \cup {x} \in SUBSET Entity
    BY ContentsAreEntities DEF IInv
  <1>3. QED
    BY <1>1, <1>2, WritingKeeps, SeenWhereReplaced DEF Writes, OnlyAt

\* Reading a version changes no version.
LEMMA GetAllOnlyAt ==
  ASSUME IInv, NEW v \in Version, GetAll(v)
  PROVE  IInv' /\ OnlyAt(v, AtVersion(v)) /\ UNCHANGED <<version, batchVars>>
  <1>1. SeekGraphByVersion(v) /\ UNCHANGED batchVars
    BY DEF GetAll
  <1>2. Writes(v, AtVersion(v))
    BY <1>1, NamedWrites
  <1>3. AtVersion(v) \in SUBSET Entity
    BY ContentsAreEntities DEF IInv
  <1>4. QED
    BY <1>1, <1>2, <1>3, WritingKeeps, SeenWhereReplaced DEF Writes, OnlyAt

\* A version that begins is one the counter has not reached, and starts empty
\* or with the contents of another version.
LEMMA NextVersionOnlyAt ==
  ASSUME IInv, BeginNextVersion
  PROVE  /\ IInv'
         /\ \E v \in Version \ (1..version) : OnlyAt(v, Start)
         /\ Start = {} \/ \E w \in Version : Start = AtVersion(w)
         /\ UNCHANGED batchVars
  <1> USE DiscreteAssumption
  <1>1. TypeOK
    BY DEF IInv
  <1>2. PICK v \in Version \ (1..version) :
          version' \in 0..MaxIssued /\ NextGraphAt(v) /\ UNCHANGED batchVars
    BY <1>1 DEF BeginNextVersion, NextGraph, TypeOK
  <1>3. PICK r \in Ref : Replaces(v, r, Start)
    BY <1>2, BeginWrites
  <1>4. Start = {} \/ \E w \in Version : Start = AtVersion(w)
    BY <1>1 DEF Start, TypeOK
  <1>5. Start \in SUBSET Entity
    BY <1>1, <1>4, ContentsAreEntities
  <1>6. IInv'
    BY <1>2, BeginKeeps
  <1>7. OnlyAt(v, Start)
    BY <1>3, <1>5, SeenWhereReplaced DEF OnlyAt
  <1>8. QED
    BY <1>2, <1>4, <1>6, <1>7

-----------------------------------------------------------------------------
\* The transactions change no version.
LEMMA TransactionKeeps ==
  ASSUME BatchInv, BeginTx \/ Commit \/ Rollback
  PROVE  BatchInv'
  <1> USE DEF BatchInv
  <1>1. UNCHANGED <<vars, misplaced, ends>> /\ rolledBack \subseteq rolledBack'
    BY DEF BeginTx, Commit, Rollback
  <1>2. IInv'
    BY <1>1, NextIInv
  <1>3. \A v \in Version : AtVersion(v)' = AtVersion(v)
    BY <1>1 DEF vars, AtVersion
  <1>4. \A x : InNeo4j(x) \/ x \in rolledBack => InNeo4j(x)' \/ x \in rolledBack'
    BY DEF BeginTx, Commit, Rollback, InNeo4j
  <1>5. BatchTypeOK'
    BY DEF BeginTx, Commit, Rollback, BatchTypeOK
  <1>6. MissingWereRolledBack'
    BY <1>3, <1>4 DEF MissingWereRolledBack
  <1>7. VersionsAreGraphs'
    BY <1>1, <1>3 DEF VersionsAreGraphs
  <1>8. QED
    BY <1>2, <1>5, <1>6, <1>7

\* A version that takes the contents of another one, or none.
LEMMA CopyKeeps ==
  ASSUME BatchInv, IInv', UNCHANGED batchVars, NEW v \in Version, NEW S, OnlyAt(v, S),
         S = {} \/ \E w \in Version : S = AtVersion(w)
  PROVE  BatchInv'
  <1> USE DEF BatchInv, batchVars
  <1>1. \A u \in Version : AtVersion(u)' = {} \/ \E w \in Version : AtVersion(u)' = AtVersion(w)
    BY DEF OnlyAt
  <1>2. BatchTypeOK'
    BY DEF BatchTypeOK
  <1>3. MissingWereRolledBack'
    BY <1>1 DEF MissingWereRolledBack, InNeo4j
  <1>4. VersionsAreGraphs'
    BY <1>1 DEF VersionsAreGraphs
  <1>5. QED
    BY <1>2, <1>3, <1>4

\* What creating an entity, of either kind, does to what Neo4j knows.
LEMMA CreateMissing ==
  ASSUME BatchInv, NEW v \in Version, NEW x \in Entity, Neo4jCreates(x), Add(x, v)
  PROVE  MissingWereRolledBack'
  <1>1. OnlyAt(v, AtVersion(v) \cup {x})
    BY AddOnlyAt DEF BatchInv
  <1>2. InNeo4j(x)' /\ rolledBack' = rolledBack /\ \A y : InNeo4j(y) => InNeo4j(y)'
    BY DEF Neo4jCreates, InNeo4j
  <1>3. QED
    BY <1>1, <1>2 DEF OnlyAt, BatchInv, MissingWereRolledBack

LEMMA CreateNodeKeeps ==
  ASSUME BatchInv, NEW v \in Version, NEW n \in Node, CreateNode(n, v)
  PROVE  BatchInv'
  <1> USE DEF BatchInv
  <1>1. n \in Entity /\ n \notin Relation
    BY BatchAssumption DEF Entity
  <1>2. Neo4jCreates(n) /\ Add(n, v) /\ UNCHANGED <<misplaced, ends>>
    BY DEF CreateNode
  <1>3. IInv' /\ OnlyAt(v, AtVersion(v) \cup {n})
    BY <1>1, <1>2, AddOnlyAt
  <1>4. BatchTypeOK'
    BY <1>1, <1>2 DEF BatchTypeOK, Neo4jCreates
  <1>5. MissingWereRolledBack'
    BY <1>1, <1>2, CreateMissing
  <1>6. VersionsAreGraphs'
    BY <1>1, <1>2, <1>3 DEF VersionsAreGraphs, OnlyAt, Neo4jCreates
  <1>7. QED
    BY <1>3, <1>4, <1>5, <1>6

LEMMA CreateRelationshipKeeps ==
  ASSUME BatchInv, NEW v \in Version, NEW r \in Relation, NEW a \in Node, NEW b \in Node,
         CreateRelationship(r, a, b, v)
  PROVE  BatchInv'
  <1> USE DEF BatchInv
  <1>1. r \in Entity
    BY DEF Entity
  <1>2. /\ Neo4jCreates(r)
        /\ Add(r, v)
        /\ ends' = [ends EXCEPT ![r] = <<a, b>>]
        /\ misplaced' = IF {a, b} \subseteq AtVersion(v) THEN misplaced \ {r} ELSE misplaced \cup {r}
    BY DEF CreateRelationship
  <1>3. IInv' /\ OnlyAt(v, AtVersion(v) \cup {r})
    BY <1>1, <1>2, AddOnlyAt
  <1>4. BatchTypeOK'
    BY <1>1, <1>2 DEF BatchTypeOK, Neo4jCreates
  <1>5. MissingWereRolledBack'
    BY <1>1, <1>2, CreateMissing
  <1>6. rolledBack' = rolledBack /\ ~InNeo4j(r)
    BY <1>2 DEF Neo4jCreates
  <1>7. ASSUME NEW w \in Version, NEW q \in Relation,
               q \in AtVersion(w)', q \notin (rolledBack \cup misplaced)'
        PROVE  ends'[q][1] \in AtVersion(w)' /\ ends'[q][2] \in AtVersion(w)'
    <2>1. AtVersion(w) \subseteq AtVersion(w)'
      BY <1>3 DEF OnlyAt
    <2>2. CASE q # r
      <3>1. q \in AtVersion(w)
        BY <1>3, <1>7, <2>2 DEF OnlyAt
      <3>2. q \notin rolledBack \cup misplaced
        BY <1>2, <1>6, <1>7, <2>2
      <3>3. ends'[q] = ends[q]
        BY <1>2, <2>2 DEF BatchTypeOK
      <3>4. QED
        BY <2>1, <3>1, <3>2, <3>3 DEF VersionsAreGraphs
    <2>3. CASE q = r
      <3>1. r \notin AtVersion(w)
        BY <1>6, <1>7, <2>3 DEF MissingWereRolledBack
      <3>2. w = v
        BY <1>3, <1>7, <2>3, <3>1 DEF OnlyAt
      <3>3. {a, b} \subseteq AtVersion(v)
        BY <1>2, <1>7, <2>3
      <3>4. ends'[q] = <<a, b>>
        BY <1>2, <2>3 DEF BatchTypeOK
      <3>5. QED
        BY <2>1, <3>2, <3>3, <3>4
    <2>4. QED
      BY <2>2, <2>3
  <1>8. VersionsAreGraphs'
    BY <1>7 DEF VersionsAreGraphs
  <1>9. QED
    BY <1>3, <1>4, <1>5, <1>8

LEMMA BatchNextInv == BatchInv /\ [BatchNext]_allVars => BatchInv'
  <1> SUFFICES ASSUME BatchInv, [BatchNext]_allVars
               PROVE  BatchInv'
    OBVIOUS
  <1>0. IInv
    BY DEF BatchInv
  <1>1. CASE BeginTx \/ Commit \/ Rollback
    BY <1>1, TransactionKeeps
  <1>2. CASE BeginNextVersion
    BY <1>0, <1>2, NextVersionOnlyAt, CopyKeeps
  <1>3. ASSUME NEW v \in Version, GetAll(v)
        PROVE  BatchInv'
    BY <1>0, <1>3, GetAllOnlyAt, CopyKeeps
  <1>4. ASSUME NEW v \in Version, NEW n \in Node, CreateNode(n, v)
        PROVE  BatchInv'
    BY <1>4, CreateNodeKeeps
  <1>5. ASSUME NEW v \in Version, NEW r \in Relation, NEW a \in Node, NEW b \in Node,
               CreateRelationship(r, a, b, v)
        PROVE  BatchInv'
    BY <1>5, CreateRelationshipKeeps
  <1>6. CASE UNCHANGED allVars
    <2>1. IInv'
      BY <1>0, <1>6, NextIInv DEF allVars
    <2>2. \A v \in Version : AtVersion(v)' = AtVersion(v)
      BY <1>6 DEF allVars, vars, AtVersion
    <2>3. QED
      BY <1>6, <2>1, <2>2 DEF allVars, batchVars, BatchInv, BatchTypeOK, MissingWereRolledBack,
                              VersionsAreGraphs, InNeo4j
  <1>7. QED
    BY <1>1, <1>2, <1>3, <1>4, <1>5, <1>6 DEF BatchNext

LEMMA BatchInductive == BatchSpec => []BatchInv
  BY BatchInitInv, BatchNextInv, PTL DEF BatchSpec

-----------------------------------------------------------------------------
\* A read of a version fails in Neo4j only for an entity that was rolled back.
THEOREM OnlyRolledBackMissing == BatchSpec => []MissingWereRolledBack
  <1>1. BatchInv => MissingWereRolledBack
    BY DEF BatchInv
  <1>2. QED
    BY BatchInductive, <1>1, PTL

\* No version lists a relation without the two end nodes it was created with,
\* unless it was created so or its id was rolled back.
THEOREM GraphsAtVersions == BatchSpec => []VersionsAreGraphs
  <1>1. BatchInv => VersionsAreGraphs
    BY DEF BatchInv
  <1>2. QED
    BY BatchInductive, <1>1, PTL

\* A version that has begun never loses what it lists.
THEOREM BegunVersionsGrow == BatchSpec => BegunIsKept
  <1>1. ASSUME BatchInv, [BatchNext]_allVars
        PROVE  \A v \in 1..version : AtVersion(v) \subseteq AtVersion(v)'
    <2> SUFFICES ASSUME NEW v \in 1..version
                 PROVE  AtVersion(v) \subseteq AtVersion(v)'
      OBVIOUS
    <2>0. IInv
      BY <1>1 DEF BatchInv
    <2>1. v \in Version
      BY <2>0, DiscreteAssumption DEF IInv, TypeOK
    <2>2. CASE BeginTx \/ Commit \/ Rollback \/ UNCHANGED allVars
      BY <2>2 DEF BeginTx, Commit, Rollback, allVars, vars, AtVersion
    <2>3. CASE BeginNextVersion
      BY <2>0, <2>1, <2>3, NextVersionOnlyAt DEF OnlyAt
    <2>4. ASSUME NEW w \in Version, GetAll(w)
          PROVE  AtVersion(v) \subseteq AtVersion(v)'
      BY <2>0, <2>1, <2>4, GetAllOnlyAt DEF OnlyAt
    <2>5. ASSUME NEW w \in Version, NEW x \in Entity, Add(x, w)
          PROVE  AtVersion(v) \subseteq AtVersion(v)'
      BY <2>0, <2>1, <2>5, AddOnlyAt DEF OnlyAt
    <2>6. QED
      BY <1>1, <2>2, <2>3, <2>4, <2>5 DEF BatchNext, CreateNode, CreateRelationship, Entity
  <1>2. QED
    BY <1>1, BatchInductive, PTL DEF BatchSpec, BegunIsKept
=============================================================================
