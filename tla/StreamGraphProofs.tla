-------------------------- MODULE StreamGraphProofs --------------------------
(***************************************************************************)
(* Theorems of ContinuousGraph and of StreamGraph, for every set of nodes, *)
(* relations and versions.                                                 *)
(*                                                                         *)
(* The in-memory graph.  The invariants are proved together: OrderedLife   *)
(* needs to know that the two versions it compares are there               *)
(* (WellVersioned) and are integers (TypeOK).                              *)
(*                                                                         *)
(* The stream.  The invariant of the in-memory graph (IInv) is carried     *)
(* over, and strengthened by what the stream adds: versions come only from *)
(* the counter, so every recorded version is at most the newest one, and   *)
(* the newest one is listed.                                               *)
(*                                                                         *)
(* Careful clients.  Every version is a graph, and the stream implements   *)
(* TemporalGraph.  The invariant adds to StreamInv that nothing was rolled *)
(* back, and that a relation begins after its two nodes and ends before    *)
(* them.                                                                   *)
(***************************************************************************)
EXTENDS StreamGraph, TLAPS

IInv == TypeOK /\ WellVersioned /\ CreationListed /\ OrderedLife

LEMMA InitIInv == Init => IInv
  BY DEF Init, IInv, TypeOK, WellVersioned, CreationListed, OrderedLife

\* A new life replaces whatever was known of the entity.
LEMMA AddIInv ==
  ASSUME IInv, NEW x \in Entity, NEW v \in Version, Add(x, v)
  PROVE  IInv'
  <1> USE VersionAssumption, EntityAssumption DEF IInv, Add
  <1>1. TypeOK'
    BY DEF TypeOK
  <1>2. ASSUME NEW y \in present'
        PROVE  Known(y)' /\ create'[y] \in versionSet' /\ create'[y] <= delete'[y]
    <2>1. CASE y = x
      BY <2>1 DEF TypeOK, Known
    <2>2. CASE y # x
      BY <1>2, <2>2 DEF TypeOK, WellVersioned, Known, CreationListed, OrderedLife
    <2>3. QED
      BY <2>1, <2>2
  <1>3. QED
    BY <1>1, <1>2 DEF WellVersioned, CreationListed, OrderedLife

\* A deletion only moves the end of a life, and not before its start.
LEMMA DeleteIInv ==
  ASSUME IInv, NEW x \in Entity, NEW v \in Version,
         x \in present => create[x] <= v, Delete(x, v)
  PROVE  IInv'
  <1> USE VersionAssumption, EntityAssumption DEF IInv, Delete
  <1>1. TypeOK'
    BY DEF TypeOK
  <1>2. ASSUME NEW y \in present'
        PROVE  Known(y)' /\ create'[y] \in versionSet' /\ create'[y] <= delete'[y]
    <2>1. CASE y = x
      BY <1>2, <2>1 DEF TypeOK, WellVersioned, Known, CreationListed
    <2>2. CASE y # x
      BY <1>2, <2>2 DEF TypeOK, WellVersioned, Known, CreationListed, OrderedLife
    <2>3. QED
      BY <2>1, <2>2
  <1>3. QED
    BY <1>1, <1>2 DEF WellVersioned, CreationListed, OrderedLife

LEMMA NextIInv == IInv /\ [Next]_graphVars => IInv'
  <1> SUFFICES ASSUME IInv, [Next]_graphVars
               PROVE  IInv'
    OBVIOUS
  <1>1. ASSUME NEW x \in Entity, NEW v \in Version, Add(x, v)
        PROVE  IInv'
    BY <1>1, AddIInv
  <1>2. ASSUME NEW x \in Entity, NEW v \in Version,
               x \in present => create[x] <= v, Delete(x, v)
        PROVE  IInv'
    BY <1>2, DeleteIInv
  <1>3. CASE GetNextVersion
    BY <1>3 DEF GetNextVersion, IInv, TypeOK, WellVersioned, Known, CreationListed, OrderedLife
  <1>4. CASE ReSet
    BY <1>4 DEF ReSet, IInv, TypeOK, WellVersioned, CreationListed, OrderedLife
  <1>5. CASE UNCHANGED graphVars
    BY <1>5 DEF graphVars, IInv, TypeOK, WellVersioned, Known, CreationListed, OrderedLife
  <1>6. QED
    BY <1>1, <1>2, <1>3, <1>4, <1>5 DEF Next

\* The inductive invariant holds in every behaviour.
LEMMA Inductive == Spec => []IInv
  BY InitIInv, NextIInv, PTL DEF Spec

\* The variables keep their types: the versions on record are versions that a
\* client passed, or the end of a live entity.
THEOREM TypeCorrect == Spec => []TypeOK
  <1>1. IInv => TypeOK
    BY DEF IInv
  <1>2. QED
    BY Inductive, <1>1, PTL

\* No scan of the graph throws: every entity it meets has both its versions.
THEOREM NoUnknownVersion == Spec => []WellVersioned
  <1>1. IInv => WellVersioned
    BY DEF IInv
  <1>2. QED
    BY Inductive, <1>1, PTL

\* codebaby.listVersion reports the creation version of every entity in the
\* graph.
THEOREM ListingComplete == Spec => []CreationListed
  <1>1. IInv => CreationListed
    BY DEF IInv
  <1>2. QED
    BY Inductive, <1>1, PTL

\* No life ends before it starts, for clients that never delete an entity at
\* a version before its creation.
THEOREM LivesOrdered == Spec => []OrderedLife
  <1>1. IInv => OrderedLife
    BY DEF IInv
  <1>2. QED
    BY Inductive, <1>1, PTL

\* subGraph over a range, in either direction, is the intersection or the
\* union of the graphs visible at its versions.
THEOREM SubGraphRange == Spec => []SubGraphCoversRange
  <1>1. IInv => SubGraphCoversRange
    <2> SUFFICES ASSUME IInv, NEW vStart \in Version, NEW vEnd \in Version
                 PROVE  IF vStart <= vEnd
                        THEN Kept(vStart, vEnd) = {x \in present :
                               \A t \in vStart..vEnd : x \in AllByVersion(Entity, t)}
                        ELSE Kept(vStart, vEnd) = {x \in present :
                               \E t \in vEnd..vStart : x \in AllByVersion(Entity, t)}
      BY DEF SubGraphCoversRange, SubGraph
    <2> USE VersionAssumption, EntityAssumption DEF IInv
    <2>1. \A x \in present : create[x] \in Int /\ delete[x] \in Int /\ create[x] <= delete[x]
      BY DEF TypeOK, WellVersioned, Known, OrderedLife
    <2>2. present \cap Entity = present
      BY DEF TypeOK
    <2>3. vStart \in Int /\ vEnd \in Int
      OBVIOUS
    <2>4. CASE vStart <= vEnd
      <3>1. vStart \in vStart..vEnd /\ vEnd \in vStart..vEnd
        BY <2>3, <2>4
      <3>2. \A x \in present :
              (create[x] <= vStart /\ vEnd <= delete[x])
                <=> \A t \in vStart..vEnd : create[x] <= t /\ delete[x] >= t
        BY <2>1, <2>3, <3>1
      <3>3. QED
        BY <2>2, <2>4, <3>2 DEF Kept, AllByVersion
    <2>5. CASE ~(vStart <= vEnd)
      <3>1. ASSUME NEW x \in present
            PROVE  (create[x] <= vStart /\ vEnd <= delete[x])
                     <=> \E t \in vEnd..vStart : create[x] <= t /\ delete[x] >= t
        <4>1. CASE create[x] <= vStart /\ vEnd <= delete[x]
          <5>1. CASE create[x] <= vEnd
            BY <2>3, <2>5, <4>1, <5>1
          <5>2. CASE ~(create[x] <= vEnd)
            <6>1. create[x] \in vEnd..vStart
              BY <2>1, <2>3, <4>1, <5>2
            <6>2. QED
              BY <2>1, <4>1, <6>1
          <5>3. QED
            BY <5>1, <5>2
        <4>2. ASSUME NEW t \in vEnd..vStart, create[x] <= t /\ delete[x] >= t
              PROVE  create[x] <= vStart /\ vEnd <= delete[x]
          BY <2>1, <2>3, <4>2
        <4>3. QED
          BY <4>1, <4>2
      <3>2. QED
        BY <2>2, <2>5, <3>1 DEF Kept, AllByVersion
    <2>6. QED
      BY <2>4, <2>5
  <1>2. QED
    BY Inductive, <1>1, PTL

\* What the filter of a range selects, of an entity created at s and deleted
\* at e.
LEMMA RangeFilter ==
  ASSUME NEW vStart, NEW vEnd, NEW s, NEW e
  PROVE  IsOk(AndFilter(AtFilter(vStart), AtFilter(vEnd)), s, e)
           <=> (s <= vStart /\ e >= vStart) /\ (s <= vEnd /\ e >= vEnd)
  <1>1. ASSUME NEW v
        PROVE  ClauseOk(AtFilter(v), s, e) <=> s <= v /\ e >= v
    <2>1. AtFilter(v).op = "at" /\ AtFilter(v).version = v
      BY DEF AtFilter
    <2>2. QED
      BY <2>1 DEF ClauseOk, CompareOk
  <1>2. DEFINE f == AndFilter(AtFilter(vStart), AtFilter(vEnd))
  <1>3. f.op = "and" /\ f.left = AtFilter(vStart) /\ f.right = AtFilter(vEnd)
    BY DEF AndFilter
  <1>4. IsOk(f, s, e) <=> ClauseOk(f.left, s, e) /\ ClauseOk(f.right, s, e)
    <2> HIDE DEF f
    <2>1. QED
      BY <1>3 DEF IsOk
  <1>5. QED
    BY <1>1, <1>3, <1>4

\* subGraph over an ascending range is a temporal graph: the filters select
\* from it what they select from the whole graph, and its listing is part of
\* the whole graph's.
THEOREM SubGraphOfLives == Spec => []SubGraphIsAGraph
  <1>1. IInv => SubGraphIsAGraph
    <2> SUFFICES ASSUME IInv, NEW vStart \in Version, NEW vEnd \in Version, vStart <= vEnd
                 PROVE  LET sub == SubGraph(vStart, vEnd)
                            selected == AllByFilter(Entity, AndFilter(AtFilter(vStart), AtFilter(vEnd)))
                        IN  /\ sub.present = selected
                            /\ sub.versionSet \subseteq versionSet
                            /\ \A f \in Comparison :
                                  {x \in sub.present : IsOk(f, sub.create[x], sub.delete[x])}
                                      = AllByFilter(Entity, f) \cap selected
      BY DEF SubGraphIsAGraph
    <2> DEFINE sub == SubGraph(vStart, vEnd)
               selected == AllByFilter(Entity, AndFilter(AtFilter(vStart), AtFilter(vEnd)))
               kept == Kept(vStart, vEnd)
    <2> USE VersionAssumption, EntityAssumption DEF IInv
    <2>1. \A x \in present : create[x] \in Int /\ delete[x] \in Int
      BY DEF TypeOK, WellVersioned, Known
    <2>2. present \subseteq Entity
      BY DEF TypeOK
    <2>3. vStart \in Int /\ vEnd \in Int
      OBVIOUS
    <2>4. ASSUME NEW x \in present
          PROVE  create[x] <= vStart /\ vEnd <= delete[x]
                   <=> IsOk(AndFilter(AtFilter(vStart), AtFilter(vEnd)), create[x], delete[x])
      <3>1. create[x] <= vStart /\ vEnd <= delete[x]
              <=> (create[x] <= vStart /\ delete[x] >= vStart)
                     /\ (create[x] <= vEnd /\ delete[x] >= vEnd)
        BY <2>1, <2>3
      <3>2. QED
        BY <3>1, RangeFilter
    <2>5. kept = selected
      BY <2>2, <2>4 DEF Kept, AllByFilter
    <2>6. sub.present = kept /\ sub.versionSet = {create[x] : x \in kept}
      BY DEF SubGraph
    <2>7. \A x \in kept : x \in present /\ sub.create[x] = create[x] /\ sub.delete[x] = delete[x]
      BY <2>2 DEF SubGraph, Kept
    <2>8. sub.versionSet \subseteq versionSet
      BY <2>6, <2>7 DEF CreationListed
    <2>9. ASSUME NEW f \in Comparison
          PROVE  {x \in kept : IsOk(f, sub.create[x], sub.delete[x])}
                   = AllByFilter(Entity, f) \cap kept
      <3>1. {x \in kept : IsOk(f, sub.create[x], sub.delete[x])}
              = {x \in kept : IsOk(f, create[x], delete[x])}
        BY <2>7
      <3>2. QED
        BY <2>2, <2>7, <3>1 DEF AllByFilter
    <2>10. QED
      BY <2>5, <2>6, <2>8, <2>9
  <1>2. QED
    BY Inductive, <1>1, PTL

-----------------------------------------------------------------------------
\* The stream.

VersionsFromCounter ==
    /\ version = currentVersion
    /\ currentVersion # 0 => currentVersion \in versionSet
    /\ \A x \in present : create[x] \in 0..currentVersion
    /\ \A x \in Entity : delete[x] \in (0..currentVersion) \cup {LongMax, NoVersion}

OnlyTopCommits == tx # "top" => stored = {}

StreamInv ==
    /\ IInv
    /\ StreamTypeOK
    /\ VersionsFromCounter
    /\ ChangesListed
    /\ MissingWereLost
    /\ OnlyTopCommits

LEMMA StreamInitInv == StreamInit => StreamInv
  <1> USE StreamAssumption, EntityAssumption
  <1>1. Init => IInv
    BY InitIInv
  <1>2. QED
    BY <1>1 DEF StreamInit, Init, StreamInv, StreamTypeOK, IInv, VersionsFromCounter,
                ChangesListed, MissingWereLost, OnlyTopCommits

\* Adding an entity at the newest version keeps what is said of versions.
LEMMA AddVersions ==
  ASSUME StreamInv, NEW x \in Entity, Add(x, currentVersion), UNCHANGED currentVersion
  PROVE  IInv' /\ VersionsFromCounter' /\ ChangesListed'
  <1> USE StreamAssumption, VersionAssumption, EntityAssumption
  <1>1. currentVersion \in Version
    BY DEF StreamInv, StreamTypeOK
  <1>2. IInv'
    BY <1>1, AddIInv DEF StreamInv
  <1>3. VersionsFromCounter'
    BY DEF StreamInv, StreamTypeOK, IInv, TypeOK, VersionsFromCounter, Add
  <1>4. ChangesListed'
    BY DEF StreamInv, IInv, TypeOK, ChangesListed, Add
  <1>5. QED
    BY <1>2, <1>3, <1>4

\* So does deleting one, whatever is known of it.
LEMMA DeleteVersions ==
  ASSUME StreamInv, NEW x \in Entity, Delete(x, currentVersion), UNCHANGED currentVersion
  PROVE  IInv' /\ VersionsFromCounter' /\ ChangesListed'
  <1> USE StreamAssumption, VersionAssumption, EntityAssumption
  <1>1. currentVersion \in Version /\ currentVersion \in Int
    BY DEF StreamInv, StreamTypeOK
  <1>2. x \in present => create[x] <= currentVersion
    BY <1>1 DEF StreamInv, VersionsFromCounter
  <1>3. IInv'
    BY <1>1, <1>2, DeleteIInv DEF StreamInv
  <1>4. VersionsFromCounter'
    BY <1>1 DEF StreamInv, StreamTypeOK, IInv, TypeOK, VersionsFromCounter, Delete
  <1>5. x \in present => currentVersion \in versionSet
    <2>1. CASE currentVersion # 0
      BY <2>1 DEF StreamInv, VersionsFromCounter
    <2>2. CASE currentVersion = 0
      BY <2>2 DEF StreamInv, IInv, CreationListed, VersionsFromCounter
    <2>3. QED
      BY <2>1, <2>2
  <1>6. ChangesListed'
    BY <1>5 DEF StreamInv, IInv, TypeOK, ChangesListed, Delete
  <1>7. QED
    BY <1>3, <1>4, <1>6

LEMMA UnchangedGraph ==
  ASSUME StreamInv, UNCHANGED <<graphVars, currentVersion>>
  PROVE  IInv' /\ VersionsFromCounter' /\ ChangesListed'
  BY DEF StreamInv, graphVars, IInv, TypeOK, WellVersioned, Known, CreationListed,
         OrderedLife, VersionsFromCounter, ChangesListed

LEMMA StreamNextInv == StreamInv /\ [StreamNext]_vars => StreamInv'
  <1> SUFFICES ASSUME StreamInv, [StreamNext]_vars
               PROVE  StreamInv'
    OBVIOUS
  <1> USE StreamAssumption, VersionAssumption, EntityAssumption
  <1>0. StreamTypeOK /\ MissingWereLost /\ OnlyTopCommits /\ present \subseteq Entity
    BY DEF StreamInv, IInv, TypeOK
  <1>1. CASE BeginNextVersion
    <2>1. IInv'
      BY <1>1, NextIInv DEF BeginNextVersion, Next, StreamInv
    <2>2. VersionsFromCounter' /\ ChangesListed'
      BY <1>1 DEF BeginNextVersion, GetNextVersion, StreamInv, StreamTypeOK,
                  VersionsFromCounter, ChangesListed
    <2>3. StreamTypeOK'
      BY <1>0, <1>1, <2>1 DEF BeginNextVersion, GetNextVersion, StreamInv, IInv,
                              VersionsFromCounter, StreamTypeOK
    <2>4. MissingWereLost' /\ OnlyTopCommits'
      BY <1>0, <1>1 DEF BeginNextVersion, GetNextVersion, MissingWereLost, InNeo4j, OnlyTopCommits
    <2>5. QED
      BY <2>1, <2>2, <2>3, <2>4 DEF StreamInv
  <1>2. CASE BeginRead \/ Commit \/ CommitFails \/ CommitNothing
    <2>1. UNCHANGED <<graphVars, currentVersion>>
      BY <1>2 DEF BeginRead, Commit, CommitFails, CommitNothing, vars, streamVars
    <2>2. IInv' /\ VersionsFromCounter' /\ ChangesListed'
      BY <2>1, UnchangedGraph
    <2>3. StreamTypeOK' /\ MissingWereLost' /\ OnlyTopCommits'
      BY <1>0, <1>2, <2>2 DEF BeginRead, Commit, CommitFails, CommitNothing, ClosesThread,
           vars, streamVars, graphVars, StreamTypeOK, IInv, MissingWereLost, InNeo4j, OnlyTopCommits
    <2>4. QED
      BY <2>2, <2>3 DEF StreamInv
  <1>3. ASSUME NEW n \in Node, CreateNode(n)
        PROVE  StreamInv'
    <2>1. n \in Entity /\ Add(n, currentVersion) /\ UNCHANGED currentVersion
      BY <1>3 DEF CreateNode, Neo4jCreates, Entity
    <2>2. IInv' /\ VersionsFromCounter' /\ ChangesListed'
      BY <2>1, AddVersions
    <2>3. StreamTypeOK' /\ MissingWereLost' /\ OnlyTopCommits'
      BY <1>0, <1>3, <2>1, <2>2 DEF CreateNode, Neo4jCreates, Add, StreamTypeOK, IInv,
                                    MissingWereLost, InNeo4j, OnlyTopCommits
    <2>4. QED
      BY <2>2, <2>3 DEF StreamInv
  <1>4. ASSUME NEW n \in Node, CreateOutside(n)
        PROVE  StreamInv'
    <2>1. n \in Entity /\ UNCHANGED <<graphVars, currentVersion>>
      BY <1>4 DEF CreateOutside, Neo4jCreates, Entity
    <2>2. IInv' /\ VersionsFromCounter' /\ ChangesListed'
      BY <2>1, UnchangedGraph
    <2>3. StreamTypeOK' /\ MissingWereLost' /\ OnlyTopCommits'
      BY <1>0, <1>4, <2>1, <2>2 DEF CreateOutside, Neo4jCreates, graphVars, StreamTypeOK, IInv,
                                    MissingWereLost, InNeo4j, OnlyTopCommits
    <2>4. QED
      BY <2>2, <2>3 DEF StreamInv
  <1>5. ASSUME NEW r \in Relation, NEW a \in Node, NEW b \in Node, CreateRelationship(r, a, b)
        PROVE  StreamInv'
    <2>1. r \in Entity /\ Add(r, currentVersion) /\ UNCHANGED currentVersion
      BY <1>5 DEF CreateRelationship, Neo4jCreates, Entity
    <2>2. IInv' /\ VersionsFromCounter' /\ ChangesListed'
      BY <2>1, AddVersions
    <2>3. StreamTypeOK' /\ MissingWereLost' /\ OnlyTopCommits'
      BY <1>0, <1>5, <2>1, <2>2 DEF CreateRelationship, Neo4jCreates, Add, StreamTypeOK, IInv,
                                    MissingWereLost, InNeo4j, OnlyTopCommits
    <2>4. QED
      BY <2>2, <2>3 DEF StreamInv
  <1>6. ASSUME NEW x \in Entity, DeleteEntity(x)
        PROVE  StreamInv'
    <2>1. Delete(x, currentVersion) /\ UNCHANGED currentVersion
      BY <1>6 DEF DeleteEntity, streamVars
    <2>2. IInv' /\ VersionsFromCounter' /\ ChangesListed'
      BY <2>1, DeleteVersions
    <2>3. StreamTypeOK' /\ MissingWereLost' /\ OnlyTopCommits'
      BY <1>0, <1>6, <2>2 DEF DeleteEntity, Delete, streamVars, StreamTypeOK, IInv,
                              MissingWereLost, InNeo4j, OnlyTopCommits
    <2>4. QED
      BY <2>2, <2>3 DEF StreamInv
  <1>7. CASE UNCHANGED vars
    <2>1. UNCHANGED <<graphVars, currentVersion>>
      BY <1>7 DEF vars, streamVars
    <2>2. IInv' /\ VersionsFromCounter' /\ ChangesListed'
      BY <2>1, UnchangedGraph
    <2>3. StreamTypeOK' /\ MissingWereLost' /\ OnlyTopCommits'
      BY <1>0, <1>7, <2>2 DEF vars, streamVars, graphVars, StreamTypeOK, IInv,
                              MissingWereLost, InNeo4j, OnlyTopCommits
    <2>4. QED
      BY <2>2, <2>3 DEF StreamInv
  <1>8. QED
    BY <1>1, <1>2, <1>3, <1>4, <1>5, <1>6, <1>7 DEF StreamNext

LEMMA StreamInductive == StreamSpec => []StreamInv
  BY StreamInitInv, StreamNextInv, PTL DEF StreamSpec

\* The stream's variables keep their types.
THEOREM StreamTypeCorrect == StreamSpec => []StreamTypeOK
  <1>1. StreamInv => StreamTypeOK
    BY DEF StreamInv
  <1>2. QED
    BY StreamInductive, <1>1, PTL

\* Reading any version of a stream never meets an entity without versions,
\* whatever the client deletes and whichever commits fail.
THEOREM StreamNoUnknownVersion == StreamSpec => []WellVersioned
  <1>1. StreamInv => WellVersioned
    BY DEF StreamInv, IInv
  <1>2. QED
    BY StreamInductive, <1>1, PTL

\* getAllNodes and getAllRelationships throw only on what a failed commit
\* rolled back.
THEOREM StreamMissing == StreamSpec => []MissingWereLost
  <1>1. StreamInv => MissingWereLost
    BY DEF StreamInv
  <1>2. QED
    BY StreamInductive, <1>1, PTL

\* Reading the listed versions meets every change of the graph.
THEOREM StreamListing == StreamSpec => []ChangesListed
  <1>1. StreamInv => ChangesListed
    BY DEF StreamInv
  <1>2. QED
    BY StreamInductive, <1>1, PTL

\* A stream that holds a placebo never makes anything durable.
THEOREM StreamNested == StreamSpec => []NestedStreamNeverDurable
  <1>1. StreamInv => NestedStreamNeverDurable
    BY DEF StreamInv, OnlyTopCommits, NestedStreamNeverDurable
  <1>2. QED
    BY StreamInductive, <1>1, PTL

\* No life in a stream ends before it starts: a deletion is at the newest
\* version, and every creation was at one no newer.
THEOREM StreamLivesOrdered == StreamSpec => []OrderedLife
  <1>1. StreamInv => OrderedLife
    BY DEF StreamInv, IInv
  <1>2. QED
    BY StreamInductive, <1>1, PTL

-----------------------------------------------------------------------------
\* What a past version shows of y after x starts a new life now.
LEMMA AddShows ==
  ASSUME StreamInv, NEW x \in Entity, Add(x, currentVersion),
         NEW v \in Int, v < currentVersion, NEW y \in Entity,
         y = x => x \notin present
  PROVE  (y \in Visible(v)') <=> (y \in Visible(v))
  BY StreamAssumption, VersionAssumption, EntityAssumption
     DEF StreamInv, StreamTypeOK, IInv, TypeOK, Add, Visible, AllByVersion

\* What a version up to the newest shows of y after x is deleted now, unless
\* x had been deleted before.
LEMMA DeleteShows ==
  ASSUME StreamInv, NEW x \in Entity, Delete(x, currentVersion),
         NEW v \in Int, v <= currentVersion, NEW y \in Entity,
         y = x => x \notin present \/ delete[x] = LongMax
  PROVE  (y \in Visible(v)') <=> (y \in Visible(v))
  <1> USE StreamAssumption, VersionAssumption, EntityAssumption
      DEF StreamInv, StreamTypeOK, IInv, TypeOK, Delete, Visible, AllByVersion
  <1>1. CASE y # x
    BY <1>1
  <1>2. CASE y = x /\ x \notin present
    BY <1>2
  <1>3. CASE y = x /\ delete[x] = LongMax
    BY <1>3
  <1>4. QED
    BY <1>1, <1>2, <1>3

\* Past versions of a stream change only for an entity deleted once more, or
\* whose id was rolled back and given out again.
THEOREM PastKept == StreamSpec => PastChangesOnlyTwice
  <1> DEFINE Changed(v, x) == (x \in Visible(v)') # (x \in Visible(v))
             Twice(x) == x \in present /\ (delete[x] # LongMax \/ x \in lost)
  <1>1. ASSUME StreamInv, [StreamNext]_vars,
               NEW v \in 0..currentVersion - 1, NEW y \in Entity, ~Twice(y)
        PROVE  ~Changed(v, y)
    <2> USE <1>1
    <2>0. v \in Int /\ v < currentVersion /\ v <= currentVersion
      BY StreamAssumption DEF StreamInv, StreamTypeOK
    <2>1. CASE UNCHANGED <<present, create, delete>>
      BY <2>1 DEF Visible, AllByVersion
    <2>2. ASSUME NEW x \in Entity, Neo4jCreates(x), Add(x, currentVersion)
          PROVE  ~Changed(v, y)
      <3>1. y = x => x \notin present
        BY <2>2 DEF Neo4jCreates, StreamInv, MissingWereLost
      <3>2. QED
        BY <2>0, <2>2, <3>1, AddShows
    <2>3. ASSUME NEW x \in Entity, DeleteEntity(x)
          PROVE  ~Changed(v, y)
      BY <2>0, <2>3, DeleteShows DEF DeleteEntity
    <2>4. CASE BeginNextVersion \/ BeginRead \/ Commit \/ CommitFails \/ CommitNothing
      BY <2>1, <2>4 DEF BeginNextVersion, GetNextVersion, BeginRead, Commit, CommitFails,
                        CommitNothing, vars, graphVars
    <2>5. ASSUME NEW n \in Node, CreateNode(n) \/ CreateOutside(n)
          PROVE  ~Changed(v, y)
      <3>1. n \in Entity
        BY DEF Entity
      <3>2. CASE CreateNode(n)
        BY <2>2, <3>1, <3>2 DEF CreateNode
      <3>3. CASE CreateOutside(n)
        BY <2>1, <3>3 DEF CreateOutside, graphVars
      <3>4. QED
        BY <2>5, <3>2, <3>3
    <2>6. ASSUME NEW r \in Relation, NEW a \in Node, NEW b \in Node,
                 CreateRelationship(r, a, b)
          PROVE  ~Changed(v, y)
      BY <2>2, <2>6 DEF CreateRelationship, Entity
    <2>7. CASE UNCHANGED vars
      BY <2>1, <2>7 DEF vars, graphVars
    <2>8. QED
      BY <2>3, <2>4, <2>5, <2>6, <2>7 DEF StreamNext
  <1>2. StreamInv /\ [StreamNext]_vars => PastStep
    BY <1>1 DEF PastStep
  <1>3. QED
    BY <1>2, StreamInductive, PTL DEF StreamSpec, PastChangesOnlyTwice

-----------------------------------------------------------------------------
\* Careful clients.

EndsOutlive(r, n) == n \in present /\ create[n] <= create[r] /\ delete[r] <= delete[n]

RelationsBetweenNodes ==
    \A r \in present \cap Relation :
        /\ ends[r] \in Node \X Node
        /\ EndsOutlive(r, ends[r][1])
        /\ EndsOutlive(r, ends[r][2])

CarefulInv ==
    /\ StreamInv
    /\ lost = {}
    /\ RelationsBetweenNodes

LEMMA CarefulInitInv == StreamInit => CarefulInv
  BY StreamInitInv DEF StreamInit, Init, CarefulInv, RelationsBetweenNodes

\* What a careful client does, any client may do.
LEMMA CarefulIsAllowed == CarefulInv /\ [CarefulNext]_vars => [StreamNext]_vars
  <1> SUFFICES ASSUME CarefulInv, CarefulNext
               PROVE  StreamNext
    OBVIOUS
  <1>1. ASSUME NEW x \in Entity, Live(x)
        PROVE  Handle(x)
    BY <1>1 DEF Live, CarefulInv, StreamInv, MissingWereLost, Handle
  <1>2. QED
    BY <1>1 DEF CarefulNext, StreamNext

\* An entity that Neo4j creates was never seen before, as no id was rolled back.
LEMMA NewIsUnknown ==
  ASSUME CarefulInv, NEW x, Neo4jCreates(x)
  PROVE  x \notin present /\ lost' = {}
  BY DEF CarefulInv, StreamInv, MissingWereLost, Neo4jCreates

\* Creating a node or a relation between live nodes keeps RelationsBetweenNodes.
LEMMA CreateBetween ==
  ASSUME CarefulInv, NEW x \in Entity, x \notin present, Add(x, currentVersion),
         x \in Node => ends' = ends,
         x \in Relation => \E a, b \in Node :
             Live(a) /\ Live(b) /\ ends' = [ends EXCEPT ![x] = <<a, b>>]
  PROVE  RelationsBetweenNodes'
  <1> USE StreamAssumption, VersionAssumption, EntityAssumption
  <1>1. SUFFICES ASSUME NEW r \in Relation, r \in present'
                 PROVE  \E a, b \in Node : /\ ends'[r] = <<a, b>>
                                           /\ EndsOutlive(r, a)'
                                           /\ EndsOutlive(r, b)'
    BY DEF RelationsBetweenNodes, EndsOutlive
  <1>2. currentVersion \in Int /\ present \subseteq Entity /\ ends \in [Relation -> (Node \X Node) \cup {NoEnds}]
    BY DEF CarefulInv, StreamInv, IInv, TypeOK, StreamTypeOK
  <1>3. create \in [Entity -> Version \cup {NoVersion}] /\ delete \in [Entity -> Version \cup {NoVersion, LongMax}]
    BY DEF CarefulInv, StreamInv, IInv, TypeOK
  <1>4. CASE r = x
    <2>1. PICK a, b \in Node : Live(a) /\ Live(b) /\ ends' = [ends EXCEPT ![x] = <<a, b>>]
      BY <1>4
    <2>2. ends'[r] = <<a, b>> /\ a # x /\ b # x /\ a \in Entity /\ b \in Entity
      BY <1>2, <1>4, <2>1 DEF Entity
    <2>3. create[a] <= currentVersion /\ create[b] <= currentVersion
      BY <1>2, <2>1 DEF Live, CarefulInv, StreamInv, VersionsFromCounter
    <2>4. delete[a] = LongMax /\ delete[b] = LongMax /\ a \in present /\ b \in present
      BY <2>1 DEF Live
    <2>5. EndsOutlive(r, a)' /\ EndsOutlive(r, b)'
      BY <1>3, <1>4, <2>2, <2>3, <2>4 DEF Add, EndsOutlive
    <2>6. QED
      BY <2>2, <2>5
  <1>5. CASE r # x
    <2>1. r \in present
      BY <1>1, <1>5 DEF Add
    <2>2. ends'[r] = ends[r]
      BY <1>2, <1>5 DEF Entity
    <2>3. PICK a, b \in Node : ends[r] = <<a, b>> /\ EndsOutlive(r, a) /\ EndsOutlive(r, b)
      BY <2>1 DEF CarefulInv, RelationsBetweenNodes
    <2>4. a # x /\ b # x
      BY <2>3 DEF EndsOutlive
    <2>5. EndsOutlive(r, a)' /\ EndsOutlive(r, b)'
      BY <1>2, <1>3, <1>5, <2>1, <2>3, <2>4 DEF Add, EndsOutlive
    <2>6. QED
      BY <2>2, <2>3, <2>5
  <1>6. QED
    BY <1>4, <1>5

\* Deleting a live entity keeps it, if no live relation needs that entity.
LEMMA DeleteBetween ==
  ASSUME CarefulInv, NEW x \in Entity, Live(x), Delete(x, currentVersion), UNCHANGED ends,
         \A r \in Relation : x \in Node /\ Live(r) => x # ends[r][1] /\ x # ends[r][2]
  PROVE  RelationsBetweenNodes'
  <1> USE StreamAssumption, VersionAssumption, EntityAssumption
  <1>1. SUFFICES ASSUME NEW r \in Relation, r \in present, NEW i \in {1, 2}
                 PROVE  EndsOutlive(r, ends[r][i])'
    BY DEF RelationsBetweenNodes, CarefulInv, Delete
  <1>2. /\ currentVersion \in Int /\ currentVersion <= LongMax /\ 0 <= currentVersion
        /\ delete \in [Entity -> Version \cup {NoVersion, LongMax}]
        /\ x \in present /\ delete[x] = LongMax /\ r \in Entity
    BY DEF CarefulInv, StreamInv, IInv, TypeOK, StreamTypeOK, Live, Entity
  <1>3. ends[r][i] \in Node /\ EndsOutlive(r, ends[r][i])
    BY <1>1 DEF CarefulInv, RelationsBetweenNodes
  <1>4. /\ delete[r] \in (0..currentVersion) \cup {LongMax}
        /\ delete[ends[r][i]] \in (0..currentVersion) \cup {LongMax}
    BY <1>1, <1>3 DEF CarefulInv, StreamInv, IInv, VersionsFromCounter, WellVersioned, Known,
                      EndsOutlive, Entity
  <1>5. CASE x = r
    <2>1. x # ends[r][i]
      BY <1>3, <1>5
    <2>2. delete[ends[r][i]] = LongMax
      BY <1>2, <1>3, <1>4, <1>5 DEF EndsOutlive
    <2>3. QED
      BY <1>2, <1>3, <1>5, <2>1, <2>2 DEF Delete, EndsOutlive
  <1>6. CASE x = ends[r][i]
    <2>1. x \in Node /\ x # r /\ ~Live(r)
      BY <1>1, <1>3, <1>6
    <2>2. delete[r] <= currentVersion
      BY <1>1, <1>2, <1>4, <2>1 DEF Live
    <2>3. QED
      BY <1>2, <1>3, <1>6, <2>1, <2>2 DEF Delete, EndsOutlive
  <1>7. CASE x # r /\ x # ends[r][i]
    BY <1>2, <1>3, <1>7 DEF Delete, EndsOutlive, Entity
  <1>8. QED
    BY <1>5, <1>6, <1>7

LEMMA CarefulNextInv == CarefulInv /\ [CarefulNext]_vars => CarefulInv'
  <1> SUFFICES ASSUME CarefulInv, [CarefulNext]_vars
               PROVE  CarefulInv'
    OBVIOUS
  <1>1. StreamInv'
    BY CarefulIsAllowed, StreamNextInv DEF CarefulInv
  <1>2. ASSUME UNCHANGED <<present, create, delete, ends, lost>>
        PROVE  CarefulInv'
    BY <1>1, <1>2 DEF CarefulInv, RelationsBetweenNodes, EndsOutlive
  <1>3. CASE BeginNextVersion \/ BeginRead \/ Commit \/ CommitNothing \/ UNCHANGED vars
    BY <1>2, <1>3 DEF BeginNextVersion, GetNextVersion, BeginRead, Commit, CommitNothing,
                      vars, graphVars, streamVars
  <1>4. ASSUME NEW n \in Node, CreateNode(n) \/ CreateOutside(n)
        PROVE  CarefulInv'
    <2>1. n \notin present /\ lost' = {} /\ n \in Entity /\ n \notin Relation
      BY <1>4, NewIsUnknown, EntityAssumption DEF CreateNode, CreateOutside, Entity
    <2>2. CASE CreateNode(n)
      BY <1>1, <2>1, <2>2, CreateBetween DEF CreateNode, CarefulInv
    <2>3. CASE CreateOutside(n)
      BY <1>2, <2>1, <2>3 DEF CreateOutside, graphVars, CarefulInv
    <2>4. QED
      BY <1>4, <2>2, <2>3
  <1>5. ASSUME NEW r \in Relation, NEW a \in Node, NEW b \in Node,
               Live(a), Live(b), CreateRelationship(r, a, b)
        PROVE  CarefulInv'
    <2>1. r \notin present /\ lost' = {} /\ r \in Entity /\ r \notin Node
      BY <1>5, NewIsUnknown, EntityAssumption DEF CreateRelationship, Entity
    <2>2. RelationsBetweenNodes'
      BY <1>5, <2>1, CreateBetween DEF CreateRelationship
    <2>3. QED
      BY <1>1, <2>1, <2>2 DEF CarefulInv
  <1>6. ASSUME NEW x \in Entity, Live(x), DeleteEntity(x),
               \A r \in Relation : x \in Node /\ Live(r) => x # ends[r][1] /\ x # ends[r][2]
        PROVE  CarefulInv'
    BY <1>1, <1>6, DeleteBetween DEF DeleteEntity, streamVars, CarefulInv
  <1>7. QED
    BY <1>3, <1>4, <1>5, <1>6 DEF CarefulNext

LEMMA CarefulInductive == CarefulSpec => []CarefulInv
  BY CarefulInitInv, CarefulNextInv, PTL DEF CarefulSpec

\* A careful client reads a graph at every version: each relation has both
\* its nodes.
THEOREM VersionsAreGraphs == CarefulSpec => []EndsVisible
  <1>1. CarefulInv => EndsVisible
    <2> SUFFICES ASSUME CarefulInv, NEW v \in 0..MaxIssued, NEW r \in Relation,
                        r \in Visible(v), NEW i \in {1, 2}
                 PROVE  ends[r][i] \in Visible(v)
      BY DEF EndsVisible
    <2>1. r \in present /\ create[r] <= v /\ delete[r] >= v
      BY DEF Visible, AllByVersion
    <2>2. ends[r][i] \in Node /\ EndsOutlive(r, ends[r][i])
      BY <2>1 DEF CarefulInv, RelationsBetweenNodes
    <2>3. \A x \in present : create[x] \in Int /\ delete[x] \in Int
      BY StreamAssumption, VersionAssumption, EntityAssumption
         DEF CarefulInv, StreamInv, IInv, TypeOK, WellVersioned, Known
    <2>4. QED
      BY <2>1, <2>2, <2>3, EntityAssumption DEF EndsOutlive, Visible, AllByVersion, Entity
  <1>2. QED
    BY CarefulInductive, <1>1, PTL

-----------------------------------------------------------------------------
Shown == [v \in 0..MaxIssued |-> IF v <= currentVersion THEN Visible(v) ELSE {}]
LiveSet == {x \in Entity : Live(x)}

\* The version that begins shows exactly what is live.
LEMMA NextShowsLive ==
  ASSUME CarefulInv, currentVersion < MaxIssued
  PROVE  Visible(currentVersion + 1) = LiveSet
  <1> USE StreamAssumption, VersionAssumption, EntityAssumption
  <1>1. \A x \in present : /\ create[x] \in 0..currentVersion
                           /\ delete[x] \in (0..currentVersion) \cup {LongMax}
    BY DEF CarefulInv, StreamInv, IInv, TypeOK, VersionsFromCounter, WellVersioned, Known
  <1>2. currentVersion \in Int /\ currentVersion + 1 <= LongMax /\ present \subseteq Entity
    BY DEF CarefulInv, StreamInv, IInv, TypeOK, StreamTypeOK
  <1>3. QED
    BY <1>1, <1>2 DEF Visible, AllByVersion, LiveSet, Live

\* Steps that leave the in-memory graph alone stutter.
LEMMA SameGraph ==
  ASSUME UNCHANGED <<present, create, delete, currentVersion>>
  PROVE  UNCHANGED <<currentVersion, Shown, LiveSet>>
  BY DEF Shown, LiveSet, Live, Visible, AllByVersion

LEMMA CreateMaps ==
  ASSUME CarefulInv, NEW x \in Entity, x \notin present,
         Add(x, currentVersion), UNCHANGED currentVersion
  PROVE  /\ x \notin LiveSet
         /\ Shown' = [Shown EXCEPT ![currentVersion] = @ \cup {x}]
         /\ LiveSet' = LiveSet \cup {x}
  <1> USE StreamAssumption, VersionAssumption, EntityAssumption
      DEF CarefulInv, StreamInv, IInv, TypeOK, StreamTypeOK
  <1>1. x \notin LiveSet /\ LiveSet' = LiveSet \cup {x}
    BY DEF LiveSet, Live, Add
  <1>2. \A v \in 0..MaxIssued : v < currentVersion => Visible(v)' = Visible(v)
    BY DEF Add, Visible, AllByVersion
  <1>3. Visible(currentVersion)' = Visible(currentVersion) \cup {x}
    BY DEF Add, Visible, AllByVersion
  <1>4. ASSUME NEW v \in 0..MaxIssued
        PROVE  Shown'[v] = [Shown EXCEPT ![currentVersion] = @ \cup {x}][v]
    <2>1. CASE v < currentVersion
      BY <1>2, <2>1 DEF Shown
    <2>2. CASE v = currentVersion
      BY <1>3, <2>2 DEF Shown
    <2>3. CASE v > currentVersion
      <3>1. v # currentVersion /\ ~(v <= currentVersion) /\ ~(v <= currentVersion')
        BY <2>3
      <3>2. Shown'[v] = {} /\ Shown[v] = {}
        BY <3>1 DEF Shown
      <3>3. QED
        BY <3>1, <3>2 DEF Shown
    <2>4. QED
      BY <2>1, <2>2, <2>3
  <1>5. QED
    BY <1>1, <1>4 DEF Shown

LEMMA DeleteMaps ==
  ASSUME CarefulInv, NEW x \in Entity, Live(x),
         Delete(x, currentVersion), UNCHANGED currentVersion
  PROVE  x \in LiveSet /\ Shown' = Shown /\ LiveSet' = LiveSet \ {x}
  <1> USE StreamAssumption, VersionAssumption, EntityAssumption
      DEF CarefulInv, StreamInv, IInv, TypeOK, StreamTypeOK
  <1>1. x \in LiveSet /\ LiveSet' = LiveSet \ {x}
    BY DEF LiveSet, Live, Delete
  <1>2. \A v \in 0..MaxIssued : v <= currentVersion => Visible(v)' = Visible(v)
    BY DEF Live, Delete, Visible, AllByVersion
  <1>3. QED
    BY <1>1, <1>2 DEF Shown

\* To a careful client a stream of versions is a temporal graph: only the
\* newest version changes, and every version starts as the last one ended.
THEOREM StreamImplements == CarefulSpec => ImplementsTemporalGraph
  <1> USE StreamAssumption, VersionAssumption, EntityAssumption
  <1>1. StreamInit => TG!Init
    BY DEF StreamInit, Init, TG!Init, Visible, AllByVersion, Live
  <1>2. ASSUME CarefulInv, [CarefulNext]_vars
        PROVE  [TG!Next]_(TG!vars)
    <2> USE <1>2
    <2>1. ASSUME UNCHANGED <<present, create, delete, currentVersion>>
          PROVE  UNCHANGED TG!vars
      BY <2>1, SameGraph DEF TG!vars, Shown, LiveSet
    <2>2. CASE BeginNextVersion
      <3>1. /\ currentVersion < MaxIssued /\ currentVersion \in 0..MaxIssued
            /\ currentVersion' = currentVersion + 1
            /\ UNCHANGED <<present, create, delete>>
        BY <2>2 DEF BeginNextVersion, GetNextVersion, CarefulInv, StreamInv, StreamTypeOK,
                    VersionsFromCounter
      <3>2. \A v : Visible(v)' = Visible(v)
        BY <3>1 DEF Visible, AllByVersion
      <3>3. LiveSet' = LiveSet
        BY <3>1 DEF LiveSet, Live
      <3>4. Shown' = [Shown EXCEPT ![currentVersion + 1] = LiveSet]
        <4>1. ASSUME NEW v \in 0..MaxIssued
              PROVE  Shown'[v] = [Shown EXCEPT ![currentVersion + 1] = LiveSet][v]
          <5>1. CASE v <= currentVersion
            BY <3>1, <3>2, <5>1 DEF Shown
          <5>2. CASE v = currentVersion + 1
            BY <3>1, <3>2, <5>2, NextShowsLive DEF Shown
          <5>3. CASE v > currentVersion + 1
            <6>1. /\ v # currentVersion + 1
                  /\ ~(v <= currentVersion) /\ ~(v <= currentVersion')
              BY <3>1, <5>3
            <6>2. Shown'[v] = {} /\ Shown[v] = {}
              BY <6>1 DEF Shown
            <6>3. QED
              BY <6>1, <6>2 DEF Shown
          <5>4. QED
            BY <3>1, <5>1, <5>2, <5>3
        <4>2. QED
          BY <4>1 DEF Shown
      <3>5. QED
        BY <3>1, <3>3, <3>4 DEF TG!Next, TG!BeginVersion, Shown, LiveSet
    <2>3. CASE BeginRead \/ Commit \/ CommitNothing \/ UNCHANGED vars
      BY <2>1, <2>3 DEF BeginRead, Commit, CommitNothing, vars, graphVars, streamVars
    <2>4. ASSUME NEW x \in Entity, Neo4jCreates(x), Add(x, currentVersion)
          PROVE  TG!Next
      <3>1. x \notin present /\ UNCHANGED currentVersion
        BY <2>4, NewIsUnknown DEF Neo4jCreates
      <3>2. TG!Create(x)
        BY <2>4, <3>1, CreateMaps DEF TG!Create, Shown, LiveSet
      <3>3. QED
        BY <3>2 DEF TG!Next
    <2>5. ASSUME NEW n \in Node, CreateNode(n) \/ CreateOutside(n)
          PROVE  [TG!Next]_(TG!vars)
      <3>1. CASE CreateNode(n)
        BY <2>4, <3>1 DEF CreateNode, Entity
      <3>2. CASE CreateOutside(n)
        BY <2>1, <3>2 DEF CreateOutside, Neo4jCreates, graphVars
      <3>3. QED
        BY <2>5, <3>1, <3>2
    <2>6. ASSUME NEW r \in Relation, NEW a \in Node, NEW b \in Node,
                 CreateRelationship(r, a, b)
          PROVE  TG!Next
      BY <2>4, <2>6 DEF CreateRelationship, Entity
    <2>7. ASSUME NEW x \in Entity, Live(x), DeleteEntity(x)
          PROVE  TG!Next
      <3>1. Delete(x, currentVersion) /\ UNCHANGED currentVersion
        BY <2>7 DEF DeleteEntity, streamVars
      <3>2. TG!Remove(x)
        BY <2>7, <3>1, DeleteMaps DEF TG!Remove, Shown, LiveSet
      <3>3. QED
        BY <3>2 DEF TG!Next
    <2>8. QED
      BY <2>2, <2>3, <2>5, <2>6, <2>7 DEF CarefulNext
  <1>3. QED
    BY <1>1, <1>2, CarefulInductive, PTL DEF CarefulSpec, ImplementsTemporalGraph, TG!Spec
=============================================================================
