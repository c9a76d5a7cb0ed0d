# EasyDynamicGraph in TLA+

EasyDynamicGraph adds versions to an embedded Neo4j 3.5: an entity (node or
relation) lives from a creation version to a deletion version, a query can ask
for the graph of a version, and a client can write a graph version by version.
Neo4j stores the entities; their versions are kept beside it, in Java objects
that no Neo4j transaction protects. Most of what is hard about the program
comes from that split.

This directory holds specifications of the program's own logic, the TLC
configurations that check them, and proofs of theorems about them. `tlc -config
X.cfg M` checks a run, `tlapm M.tla` a proof module; `PROJECT.json` maps every
definition to the lines it models and lists the runs, the faulty variants each
property is known to catch, the hazards and the theorems. Paths below are
relative to `src/src/main`; `J` is `java/cn/DynamicGraph`, `S` is
`scala/cn/DynamicGraph`, `P` is
`scala/org/neo4j/cypher/internal/runtime/interpreted`, `W` is
`resources/Web/BaiduMap`, `C` is `resources/browser/assets/js/canvg`.

## 1. The system

| component | code | state | operations |
|---|---|---|---|
| version filters | `S/Version/FilterVersion.scala`, `TransFormer.scala` | none | translate the predicates of a version clause; test a life (creation, deletion) |
| continuous graph | `J/graphdb/kernel/ContinuousGraph.java` and its stores | entities, their two versions, the listed versions, a counter, the read mode | add, delete, next version, reset, list, scan by version / filter / name, subGraph |
| stream graph | `J/graphdb/StreamGraphImpl.java` | a continuous graph, the current version, one transaction handle | begin version, commit, begin read, create, delete, list, read a version |
| discrete graph | `J/graphdb/kernel/DiscreteGraph.java` | one graph object per version, current and latest version | next graph (numbered by itself or by the caller), seek, latest, write with or without a version, read |
| batch graph | `J/graphdb/BatchGraphImpl.java` | a discrete graph | begin version, create at a version, list, read |
| versioned reads | `P/pipes/GraphVersionSelectPipe.scala`, `GraphNameSelectPipe.scala`, `AllNodesScanPipe.scala`, `P/TransactionBoundQueryContext.scala`, `DynamicShortestPathProc`, `RelationshipLoader` | the read mode of the database's one continuous graph | raise the read mode; scan or load under it; lower it |
| versioned writes | `P/pipes/CreatePipe.scala`, `VersionProc` | the same continuous graph | CREATEV with one or two versions; `nextVersion`, `clearVersion`, `listVersion` |
| named graphs | `J/graphdb/kernel/UserGraph.java`, `CreateGraphPipe.scala` | a graph per name | create, fill, read |
| RocksDB temporal graph | `J/graphdb/welding`, `J/KVStore` | four RocksDB databases | add, delete, flush, scan by version, subGraph |
| road map page | `W/getData.js`, `dataProcess.js`, `map.html` | what the page read, the queries in flight, the line on the map | open the page; ask for a path at a version; draw its answer |
| SVG renderer | `C/canvg.js` (third-party, served with the Neo4j browser) | the tree of a document, its loop and its animations | build a document, draw it, draw it again |
| its colours and blur | `C/rgbcolor.js`, `StackBlur.js` (likewise) | none; an image | read a colour; blur an image |
| the rest | caches, serializers, store policies, version manager, graph algorithms, Cypher parser and planner, server, samples, the browser's bundles | | section 8 |

How they interact. `GraphDatabaseFacade` holds one `ContinuousGraph` for the
whole database, and every session's queries reach it directly: CREATEV pipes
write to it entity by entity, select pipes set fields of it (the *read mode*:
a flag and a filter, or a flag and a graph name) that a later node scan, or
the loader of a graph algorithm, consults. It has no locks and its fields are
plain. `StreamGraphImpl` and `BatchGraphImpl` are library classes with a
versioned graph of their own over a `GraphDatabaseService`; one thread calls
them, inside Neo4j transactions. The road map page is the one client in the
repository: it runs a procedure at a version through the Bolt driver, as an
`async` function for each click. The SVG renderer runs in the same kind of event
loop and knows nothing of graphs: a page calls `canvg` on a canvas; the document
is built, `draw()` walks its tree, an interval updates the animations and draws
again; filters call StackBlur, and everything that paints calls RGBColor.

What is hard, and which component has to get it right:

- *a state kept outside the transactions* (stream, batch, CREATEV): a rollback
  takes back the entity and leaves its versions; Neo4j then gives the id to
  another entity. Right: a read meets a missing entity only after a rollback
  or a deletion; the past changes only for reused ids.
- *one read mode for everyone* (versioned reads): interleaved queries filter
  each other; a plan that scans no nodes leaves the mode up. Right: a scan
  leaves no version behind, and a name only when it met a version instead of its
  name; an undisturbed query is answered for its version.
- *several unsynchronised puts for one change* (continuous graph under CREATEV
  and clearVersion). Right: without overlap, an entity has the versions that
  were asked for, and scans never meet half of them.
- *reads that write* (discrete graph): reading an unknown version creates it
  and moves what the next version is copied from. Right: versions never share
  a graph object; a version that has begun keeps what it lists.
- *arithmetic of lives* (filters, subGraph): bounds are inclusive at both
  ends, and may be exchanged.
- *look-ups repeated, iterators kept* (named graphs): each node of a CREATE GRAPH
  looks the name up again, a read never does. Right: the graph of a name holds
  what its CREATE GRAPH collected, and a read is of one graph.
- *two databases for one life* (RocksDB temporal graph): errors are dropped
  and a process can end between two puts. Right: what was flushed is whole, and
  a scan throws only for an entity whose own write was hit.
- *protocols nobody enforces* (stream, discrete): deleting twice, beginning a
  read first, committing twice, `latest()` first.
- *answers in any order* (road map page): a query may be answered before an
  earlier one, and its line is drawn later than its answer is stored. Right: the
  map shows one path, the one answered last.
- *callbacks into oneself* (renderer): `canvg` is called again from the callback
  of its own first drawing, or for a canvas that has a loop. Right: one loop
  draws on a canvas and does what it was built for.
- *drawing that changes what is drawn* (renderer): masks, filters, clip paths and
  uses take parts of the tree away and put them back; animations write into
  properties that elements share; a drawing that throws puts nothing back. Right:
  every later drawing shows what the first one did.
- *arithmetic without divisions* (blur): running sums over a ring, divided by a
  multiplication and a shift of 32 bits.

`PROJECT.json` lists the hazards one by one, at their lines.

## 2. Modules

| module | models | extends |
|---|---|---|
| `FilterVersion` | filters, `TransFormer` | |
| `ContinuousGraph` | the continuous graph, one call at a time | `FilterVersion` |
| `StreamGraph` | `StreamGraphImpl` and Neo4j's transactions | `ContinuousGraph` |
| `TemporalGraph` | abstract: what a stream promises | |
| `DiscreteGraph` | the discrete graph, with object references | |
| `Snapshots` | abstract: what a pool of versions promises | |
| `BatchGraph` | `BatchGraphImpl` and its client's transactions | `DiscreteGraph` |
| `VersionedQueries` | reads of sessions that share the read mode | `ContinuousGraph` |
| `VersionedWrites` | CREATEV and the procedures, put by put | `ContinuousGraph` |
| `NamedGraphs` | CREATE GRAPH, deletion and reads by name, step by step | |
| `BigContinuousGraph` | lives in RocksDB: puts, flushes, iterators, failures | |
| `RoadMap` | the page of the road network and its overlapping queries | |
| `SvgLoop` | the life of canvg's render loop: calls, callbacks, images, events | |
| `SvgAnimation` | the animations a loop updates at each frame | |
| `SvgRender` | one drawing after another over a tree that drawings change | |
| `SvgStyles` | rules, declarations and the fill of each element | |
| `SvgPaint` | RGBColor, fills with opacities, the tween of a colour | |
| `SvgPath` | the path parser beside what SVG says of the same data | |
| `StackBlur` | both blurs and their two callers | |
| `StreamGraphProofs` | theorems of `ContinuousGraph` and `StreamGraph` | `StreamGraph` |
| `DiscreteGraphProofs` | theorems of `DiscreteGraph` and `BatchGraph` | `BatchGraph` |
| `VersionedQueriesProofs` | theorems of `FilterVersion`, of what clauses mean, and of `VersionedQueries` | `VersionedQueries`, `MCFilterVersion` |
| `VersionedWritesProofs`, `NamedGraphsProofs`, `BigContinuousGraphProofs` | theorems | the module named |
| `BrowserProofs` | theorems of `RoadMap`, `SvgLoop` and `SvgAnimation` | these three |
| `SvgProofs` | theorems of `SvgPath`, `SvgPaint`, `SvgStyles` and `StackBlur` | these four |
| `MC...` | instances for TLC | |
| `MCClauseQueries`, `MCBrowser`, `MCSvg` | instances of several parts at once | |

A definition whose comment starts with "A faulty variant" belongs to no
specification. It is the definition that follows it with a plausible
mistake; replacing the one by the other must break the property named in
`PROJECT.json`.

**FilterVersion.** A filter is a record; `IsOk` is `isOk` of the filter
classes. `Transform` follows `transFormer` on the *set* of predicates and
returns `Unreadable` where the code throws (a comparison with something other
than a literal, an expression of another kind).

**ContinuousGraph.** `present` is the basic graph, `create` and `delete` the
maps of the version stores (`NoVersion` for no entry), `versionSet` and
`version` the fields of those names, `LongMax` stands for `Long.MAX_VALUE`.
Nodes and relations have separate but identical stores and are one set
`Entity`. `AllByVersion`, `AllByFilter` are the scans as values.

**StreamGraph.** `tx` is the handle that the object opens once and keeps;
`bound` is the transaction of the calling thread. `Commit`, `CommitFails` and
`CommitNothing` are the outcomes of `commit()`: it ends the thread's
transaction, is refused by Neo4j, or acts on a placebo or closed handle.
`CarefulNext` restricts the client: it deletes once, relations before their
nodes, connects live nodes, and no commit fails.

**DiscreteGraph, BatchGraph.** `Ref` are references to graph objects, `graphs`
their contents, `graphPool` and `currentGraph` hold references. `Fresh` is
`new`. `GraphFor` has both outcomes of the comparison of two boxed `Long`s in
`addNode(Node, Long)`. In `BatchGraph`, `rolledBack` and `misplaced` are
history; `GetAll` is the iteration of the lazy result of `getAllNodes`.

**VersionedQueries.** A session's query raises the read mode in two steps
(value, then flag), then scans or loads step by step: each access to a shared
field and each entity visited is a step. `Leaf` says what a plan reads. Of two
patterns the second is scanned again for each row of the first, and `rows` are
those it is still to be scanned for. A
query has one selection only: `PlanSingleQuery` lets a graph name replace a
version. `raisedFor` and `namedFor` (the plan that raised a flag), `namedBy` (its
session), `overtaken`, `alone` and `clear` are history. `CheckVersion` looks at the
version flag first, as the code does (`TransactionBoundQueryContext.scala:643`): a
scan by name that finds one left behind lowers that one and leaves its own, and its
name is `overtaken`.

**VersionedWrites.** A CREATEV is Neo4j's creation, then the list of versions,
the graph, the two maps, possibly the end version, then the properties; each
is a step. Two puts into one `HashMap` that overlap may lose any entries of
it: the model sets `shaken`, after which the properties about values promise
nothing. `clearVersion` replaces the collections one after the other while
others may hold the old ones (`stale`).

**NamedGraphs.** Graph objects are numbered as they are made; `graphPool` maps a
name to a number. A CREATE GRAPH is `Collect`, `AddGraph`, then `Lookup`,
`Insert` and `Count` for each node; a read is `Open`, then `Fetch` until
`Finish`. Overlapping puts may lose entries and a look-up during a put may miss
the name; `shaken` records that this happened, or may have. `stale` says that
the set's modification count is no longer the iterator's. `asked`, `joining`,
`during` are history.

**BigContinuousGraph.** `mem` is what the creation and the deletion database
show, `disk` what they would hold after the machine fails. An add is
`AddCreate` then `AddDelete`, a flush `FlushCreate` then `FlushDelete`; each
takes whether RocksDB succeeded. Nodes and relations have databases of their
own that share nothing, so one kind is modelled. `HasNext` moves the iterator
to the next answer and fills `temp`, `TakeNext` reads it. `wanted`, `dirty`,
`damaged`, `quiet` and `peeked` are history.

**RoadMap.** The page waits in three places, `getNodes`, `getRelations` and
`callPath`; each answer is an action, and so is the rest of `markPath`, a job
that runs later than the `Answer` that queued it (`jobs`). `overlays` is what the
map library shows, `lastline` what the page remembers of it.

**SvgLoop.** `stack` holds the calls and ticks that have begun and wait for a
callback; nothing else runs meanwhile. `FirstDraw`, `SetInterval` and `Return` are
the rest of `canvg`, `Tick` is one turn of the interval. `under` and `completed`
are history.

**SvgAnimation.** A frame updates every animation in the order of the document:
`Update` is that of one, and `turn` says how many of them the frame has updated.
Whether one of them asked for a drawing is `updated`, which is complete between
frames. What an animation leaves in its parent (`animationFrozen` and its value) are
the fields of `parent`.

**SvgRender.** A drawing is one step: it is synchronous and nothing can see the
middle of it. `Render` passes the tree on as a record `s`, `thrown` when an
exception unwinds it, and what was taken off stays off then. `Shown` is the
picture that the document asks for, defined without the tree that drawings
change.

**SvgStyles.** The document is made element by element. An element looks at one
selector in a step (`AddStyles`) and takes its style attribute after the last
(`CreateElement`); a style element adds one rule in a step (`AddRule`,
`CreateStyle`); the root looks at all of them once more before `Complete`. A drawing
fills one element in a step (`RenderNext`). A `Property` has an identity, since one
of a rule belongs to all the elements it matches. `up` is the way from an element to
the root, and `Nearest` the first on it of a set: the code climbs it by recursion.
`Cascade` is the reference; `Parts` lists, each under its own name, the ways in which
the code is known to part from it.

**SvgPaint.** A text is a record of the form RGBColor or the canvas tells it
apart by. `SetFill` is `setContext` for the fill, `CalcValue` that of
`animateColor`, `Target` the element whose property the animation writes.

**SvgPath.** `command` to `current` are the fields of the parser, `drawn` the last
call on the context; `meant` is what SVG says, read beside it. `off` is
history: it marks the smooth curves for which the parser takes, or leaves, a
control point against SVG.

**StackBlur.** `BlurRows` and `BlurColumns` are the two passes as folds over a ring
with two ends and three running sums. `Scaled` is the product with the entry of
`mul_table` and the shift by the entry of `shg_table`, in 32 bits.

**Instances of several parts.** `MCClauseQueries`, `MCBrowser` and `MCSvg` check
several specifications that share no state in one run. A variable says which part
moves in a behaviour; that part begins in any of its initial states and takes its
own steps, the others stand in one. In `MCClauseQueries` they do follow one
another: a query's clause is planned, then the query runs.

## 3. Runs

All runs finish with every action fired. "States" are distinct states.

| run | instance | states | what it shows |
|---|---|---|---|
| `continuous_graph` | two nodes, one relation, versions 0..3, counter up to 2 | 53 766 | lives ordered (`OrderedLife`); `SubGraphCoversRange` states what exchanged bounds mean. That no read throws and that a subgraph is a temporal graph of its own is proved (section 4) and has no run |
| `stream` | two nodes, one relation, versions 0..3 | 87 530 | `MissingWereLost`, `PastChangesOnlyTwice`, `NestedStreamNeverDurable`, for any order of calls |
| `careful_stream` | the same, careful client | 13 602 | `EndsVisible`; the stream implements `TemporalGraph` |
| `discrete_graph` | two nodes, three versions, two numbered by the pool, four references | 12 442 | the pool implements `Snapshots` |
| `batch_graph` | two nodes, one relation, two versions, three references | 399 523 | `MissingWereRolledBack`, `VersionsAreGraphs`, `BegunIsKept` |
| `scans` | two sessions, scans of one or two patterns, three filters, one of which selects nothing | 599 406 | `FlagOwned`, `AloneIsRight`; `SecondPatternUnversioned`: the second pattern of an undisturbed query reads the store, unless the first found nothing; `FlagFalls` (liveness) |
| `queries` | clauses of up to two predicates, nested, or three comparisons, over versions 1 and 2 and every life from 0 to 3; then two sessions, scans, store reads and loads, one named graph, two graphs | 3 364 763 | `FilterMeansPredicates`: a clause selects the lives that meet all its predicates, or is refused; `RightIfUndisturbed`; `VersionLeakOrigin`, `NameLeakOrigin`: how each flag comes to be left up |
| `writes` | two sessions, two nodes, windows `<<1>>`, `<<2,1>>`, none | 1 103 000 | `TornOnlyByOverlap`, `VersionsAsAsked`, `GhostsWereGone` |
| `named_graphs` | two sessions, two nodes, two names, three graphs | 3 270 520 | `NamedAsAsked`: the last CREATE GRAPH of a name wins, and loses nothing; `ReadIsWhole`: a read that begins while the name is not being filled never throws |
| `big_graph` | two entities, three writes, versions 1 and 2, queries for a version, a range and a choice | 1 823 577 | `WrittenAsAsked`: flushed or undamaged, both databases say what was asked for; `ScanIsExact`: a scan throws only at half an add, and returns each of its answers once |
| `browser` | three cities, two roads, three paths, three queries; three calls on a canvas, one image, one event; one or two animations of two attributes | 176 705 | `ShowsLastAnswer`, `OneLoop`, `EndsAsAsked`; liveness: `EveryAnswerSettles`, `LoopDoesItsWork`, `AnimationsEnd` |
| `svg` | the documents below | 571 305 | `DrawnAsMeant`, `MarkersFollowThePath` (paths); `PaintedAsTweened`, `SiblingKeepsItsPaint` (colours); `FilledByCascade` (styles); `ShowsTheDocument` (drawings); `EachPassAverages`, `HiddenColoursDoNotShow` (blur) |

Some of these say what the code does where one may expect more, and are worth
reading as documentation: `NestedStreamNeverDurable` (after `beginRead` first,
nothing a stream commits is kept) and `PastChangesOnlyTwice` (a second deletion
rewrites the past); with them `SecondPatternUnversioned` (a version clause reaches
the first pattern of a query only). `FlagOwned`
and `AloneIsRight` hold because every plan of `scans` scans nodes and none reads
by name; `queries` admits the plans that leak. `VersionLeakOrigin`: when all are
idle, a version flag still up was raised for a plan that does not scan all nodes.
Of the name flag the same would be false, and `NameLeakOrigin` says what holds: it
was raised for such a plan, or its own query was `overtaken`, that is, scanned while
a version flag was up and lowered that one instead. The
properties of the renderer carry their exceptions as named definitions
(`MadeBeforeItsRules`, `SharesFilter`, `ResizesSvg`, `off` and their like): each is
a way in which canvg parts from SVG, and the property says that there is no other
in the documents of the run.

Bounds and why they are enough. The code never compares more than two
versions of an entity with one queried version, so three versions show every
order of them; a fourth number serves as `LongMax`. Two entities of a kind
show one disturbing another; a relation with its two end nodes shows dangling.
Two sessions show every pairwise race on a field, and the properties of
interleavings talk about one session and "the others". `MaxIssued` bounds how
often a counter is advanced, and two or three suffice for a version before,
at and after the newest. References in `DiscreteGraph` are one more than the
versions, as the code drops the old graph only after it has the new one.
`MaxGraphs` and `MaxWrites` are three: what is there, what replaces it, and
once more; a scan, a failure or a reader fits anywhere between.
`MaxQueries` is three: two queries in the air and one that drew before them; the
proof needs no bound. `MaxCalls` is three: a loop, the one that replaces it from
within it, and one after both; `MaxEvents` is one, since a loop takes all that wait
at once. Animations have lengths of less than a frame, of whole frames and of
neither. Paths have up to four segments of every kind (`MaxSegments`): a curve,
what stands between, and the curve that looks back; their coordinates differ, so
no wrong place coincides with a right one. Fills are read from one text of each
form; a tween runs to one frame beyond its end (`Beyond`). A sheet has two rules,
in every order of specificity, and the style element stands before, between and
after what it matches. Documents have a group with a shape or an image, a nested
svg, a use, a mask, a clip path and a symbol, put together in every way the choices
allow, drawn any number of times while images load, loaded or broken. `MaxDepth`
is nine calls of `render`, as many as the deepest document needs that does not
contain itself; a use of what contains it reaches the bound, and throws as the
full stack does. Images to blur are all those of three pixels over two colours and
three alphas, with radii below, at and beyond their size, and plain columns for
radii at the ends of the tables.

Deadlock is checked in every run but `browser` and `svg`: a page whose queries are
answered has nothing left to do until somebody clicks, and the clicks are
bounded; a path, a blur and a tween end.

Fairness. `FairQuerySpec` of `scans` assumes weak fairness of each session's
`Step`: a thread that runs a query is scheduled and its iterator is drained.
Beginning a query is not fair, so sessions may stop asking. `BrowserSpec` of
`browser` assumes what a browser promises: a job that is queued runs (`MarkPath`),
the thread goes on with what it has begun (`FirstDraw`, `SetInterval`, `Return`), an
interval keeps ticking (`Tick` without an animation that asks for a drawing,
`Update` of each animation), an image loads or fails; and that the driver answers or refuses every
query (`Settle`). Clicks, calls, events and new cities are not fair. Nothing else is
assumed; the code has no waiting or locking that a stronger assumption would
describe.

## 4. Proofs

TLAPS proves these for every value of the constants; the only assumptions are
the named ASSUMEs of the modules. They say that versions are integers, that
sentinels are not values and nodes are not relations, that paths are sequences of
cities, that what a transformation throws is no filter (`OutcomeAssumption`), and

- of `VersionedQueries` (`QueryAssumption`), that in the graph on which queries run
  exactly what was added has versions, as the specification has no writers; and that
  `Nothing`, the result of a query that has none, is no set of entities;
- of `VersionedWrites` (`WindowAssumption`), that a CREATEV names no version, one or
  two;
- of `BigContinuousGraph` (`BigAssumption`), that entities are naturals, their ids,
  in whose order RocksDB iterates;
- of `NamedGraphs` (`NamedAssumption`), that there are finitely many sessions: the
  model counts those that have a graph to make;
- of `SvgAnimation` (`AnimationAssumption`), that an animation has a length, a `from`
  and a `to`, and that these differ by a multiple of the length: with any others the
  code computes with fractions, and the model divides;
- of `SvgPath` (`PathAssumption`), that points are pairs of integers, and `None` is
  neither one nor a letter nor an angle;
- of `SvgPaint` (`PaintAssumption`), that texts are of the forms the code tells
  apart, and that an animation has a frame;
- of `SvgStyles` (`SheetAssumption`), what makes a document: the root comes first,
  every element stands in it once and after those that it is in, rules of one selector
  match the same elements with the same specificity. The root has a `color` and none
  is `currentColor`: without one, a fill `currentColor` would be written over by
  nothing;
- of `StackBlur` (`BlurAssumption`), that pixels are bytes and a radius is a natural
  number, as the code makes it (`radius |= 0`, and none below 1 is used).

TLC evaluates them, and those of the modules without theorems, on every run that
uses them.

**`StreamGraphProofs`.** The continuous graph: `TypeCorrect`, `NoUnknownVersion`,
`ListingComplete`, `LivesOrdered`, `SubGraphRange`, `SubGraphOfLives`. The invariant
`IInv` is the conjunction of the first four: that lives are ordered needs that both
versions are there and are integers. `SubGraphOfLives` says that every comparison
selects from a subgraph what it selects from the whole. The stream: the invariants of `stream`, and
`PastChangesOnlyTwice` as an action property. `StreamInv` adds to `IInv` that every
recorded version came from the counter, which is what makes "deleted at the current
version" mean "after its creation". For a careful client every version is a graph,
and the stream implements `TemporalGraph`: `CarefulInv` adds that nothing was rolled
back and that a relation begins after its ends and ends before them.

**`DiscreteGraphProofs`.** `TypeCorrect`, `CurrentIsPooled`, `NoSharedGraph`,
`BegunWritable`, `WritesLandWhereNamed` and `PoolImplements` (the pool implements
`Snapshots`). The invariant adds that the current and the latest version are in the
pool. One lemma, `ReplacedAlone`, carries both the invariant and the refinement:
every write replaces the contents of one version through a reference that no other
version holds. The batch graph: `OnlyRolledBackMissing`, `GraphsAtVersions`,
`BegunVersionsGrow`. The first two are proved as one invariant, `BatchInv`: a
relation whose id is given out again has new ends, and an older version that still
lists it need not list them; that such a relation was rolled back, and so is excepted,
is what `MissingWereRolledBack` says. The pool's lemmas add that a step reaches one
version.

**`VersionedQueriesProofs`.** Of the clauses, `FilterIsFaithful`: of any finite set
of predicates of every form, any versions and any life. The nesting is two levels
deep, so the argument goes from the inside (a comparison, a predicate, the ways in
which predicates are packed) and needs no recursion. `ClausesAreFaithful` states it
of the clauses of `queries` as they grow. Of the sessions, `QueryTypeCorrect`; `FlagNeverLeft` and `AloneAnswers`
when all plans scan (and, for the latter, none reads by name); `SecondPatternPlain`.
For plans of every kind: `VersionLeaksFromOtherPlans`, `NameLeaksExplained` and
`UndisturbedIsRight`. The
invariants: `QInv` (types, the query of a busy session is known, scans left to do),
`FlagOwned` itself, `AloneInv`, which follows one undisturbed query from its select
to its answer, `VersionLeakInv` (while the version flag is up, either such a plan
raised it or a scan will still lower it), `NameLeakInv` (while the name flag is up, the
query that raised it will lower it, reads the store, or was overtaken) and `UndisturbedInv`, which says of each step of such a
query which mode is raised and how much of its answer it has.

**`VersionedWritesProofs`.** `GhostsExplained`, `TornNeedsOverlap`, `CreatedAsAsked`.
`Settled` holds of every step, whatever overlaps: an entity under way is pending in
the transaction of the session that adds it, and in no other. `Calm` holds until
puts overlap: how far each creation has come and what it has put by then, that none
is under way during a `clearVersion`, and that every other entity is as asked. The
two properties are not inductive alone: that an entity is whole when its last put is
made needs to know what the earlier ones left.

**`NamedGraphsProofs`.** `NamesHoldWhatWasAsked`, `ReadsAreWhole`. `NamedInv` says
whose a graph is: it has one name, also for the sessions that have looked it up; what
is in it or on its way was collected for it (`OnlyExpected`); what is missing is held
by a session that will find this graph (`NothingForgotten`). A reader that began
while nobody filled its graph is alone with it for good (`Rests`): the next CREATE
GRAPH of the name makes another graph before anyone looks the name up.

**`BigContinuousGraphProofs`.** `FlushedIsWritten`, `ScansAreExact`. `WriteInv`
follows a change through the databases: what they show is what was asked for but for
the add under way, what the machine would restore is that but for what is dirty, and
between the two flushes of a flush the first has done its part. `ScanInv` accounts
for the answers of a scan: each was returned, is held in `temp`, or lies ahead.
`AheadInv` adds that what lies ahead comes after all that was returned or is held, so
nothing is returned twice.
`hasNext` passes over what is no answer to the first key that is one; that there is a
first is `FirstKey`, from the well-foundedness of the naturals.

**`BrowserProofs`.** `MapShowsLastAnswer`, for any number of queries, cities and
paths, and whatever the map library does at an undefined point. `JobsInv` adds that
the jobs end with the query answered last and that `paths` is what it was answered.
`OneLoopDraws`, for any number of calls and however deep they stand within each
other's callbacks: `OneLoop` says nothing of a loop that is not set yet, so `LoopInv`
adds that a call stands on the stack once, has no interval before it returns, and is
current or on record as one that was built when another began. `AnimationsEndAsked`,
for any number of animations of any lengths and values, at every step of a frame: the
property speaks of an animation that has its attribute for itself, and `AnimationInv`
says of each such one (`AloneInv`) what its initial value is, that it is frozen or
removed only after its end and as its fill says, and that its clock is at most a
frame beyond the end while it stands where the clock does. The updates of the others
leave it alone, since they write other attributes; what they leave in the parent
matters only if one of them freezes.

**`SvgProofs`.** What canvg draws, part by part.

- `PathsDrawnAsMeant`, `PathMarkersFollow`, for paths of any length, points and
  control points. `PenInv` says that the parser stands where SVG does and holds the
  control point that SVG would reflect, unless the curve before was `off`. A marker's
  angle may come later, so `AnglesInv` says of each that it has its angle or that the
  one after it does; `OpenInv` says which is still open (the last, at a moveto) and
  that nothing but moves and closings has been read since.
- `ColoursPaintedAsTweened`, `SiblingsKeepTheirPaint`, for any texts and any number
  of frames. `ShapeInv` says that the picture is that of the present fill, and that
  the shape shows the value of the frame; `GroupInv` says when an animation can have
  written into the group. Most of the work lies below: RGBColor reads numbers, a
  tween between two channels lies between them (`TweenBetween`), and an opacity is
  applied once (`OpacityOnce`).
- `FillsFollowTheCascade`, for documents of any size, rules in any number and order,
  and any number of drawings. `KnownInv` says that each selector known stands there
  once, with the last of its rules; `ElementInv` that an element has the most specific
  of the rules it has looked at, or what it has without them; `ColourInv` that a
  Property holds what the document gave it, or the colour of one of its owners;
  `DrawnInv` that what was drawn has no `currentColor` left. The proof that a fill is
  that of the cascade (`SetFillStyleKeeps`) has two halves: unless it parts, an element
  has of its own what the cascade gives it (`Agrees`), and otherwise both take it from
  the same ancestor (`SameAncestor`).
- `HiddenColoursHidden`, for images of any size and any radius. `BlurInv` says what
  the data are in each phase; two images that differ only where nothing is seen are
  the same once they are multiplied by their alpha (`BlackenedReadsSame`).

Type invariants and what holds by the way versions are written (`TypeCorrect`,
`ListingComplete`, `NoSharedGraph` and others) are proved and not repeated in the
runs. Of the invariants and action properties of the runs, all but two are proved.

Only model-checked: liveness (`FlagFalls` and the three properties of `browser`),
which is beyond the prover; `ShowsTheDocument`, where a drawing recurs over a tree of
any depth; and `EachPassAverages`, which says what a fold over a line sums up, in 32
bits: both need induction over data, which the prover's backends cannot use.

## 5. Assumptions of the models

- Neo4j is external: it creates entities in the thread's transaction, forgets
  them on rollback, returns a placebo for a nested transaction, and may give
  the id of a forgotten entity out again.
- RocksDB is external: a put is seen at once, a flush that succeeds makes a
  database's puts durable, the system may do so earlier and always in their
  order, an iterator has the keys of the moment it was made.
- Plain Java fields are read and written atomically and in program order.
  `HashMap` and `HashSet` are given the loss of entries when writers overlap,
  but no corrupted structure.
- A scan does not overlap a write: `VersionedQueries` has no writers and
  `VersionedWrites` no readers.
- The client of `BatchGraphImpl` deletes nothing through Neo4j directly.
- Versions are far from the limits of a long.
- The map library and the Bolt driver are external: a query is answered or
  refused once; drawing through an undefined point throws, or not.
- The canvas is external: it ignores a colour that it cannot read, clamps the
  numbers of others, and throws for a broken image.
- JavaScript has one thread; a callback is the only way for other code to run
  while a function has not returned.
- Numbers of the renderer are exact. A specificity counts below ten ids, classes
  and names, so that the text the code compares is a number of three digits. Masks
  have a size, and no symbol has a clip path.

## 6. Where the code and its comments disagree

Met while modelling, in the third-party part; the models follow the code.

- `C/canvg.js:13` lets the document be a URL. The function that would fetch it is
  commented out (`:3629`), so the call throws, and by then the previous loop was
  stopped: `CanvgUrl`.
- `:422` speaks of milliseconds; a time in `ms` matches the test for `s` before it
  (`:426`) and counts a thousand times as long: `ToMilliseconds`.
- `:3247` and `:3269` take the mask off an element for as long as it is drawn and
  put it back. When the drawing throws, it stays off: `MaskApply`, and `thrown` in
  `ShowsTheDocument`.
- `:623` and `:625` number the control points of a quadratic curve turned into a
  cubic one; what `:627` passes on is in another order, which concerns the bounding
  box only and is left out.

## 7. Plan

1. (done) filters, continuous graph, stream graph, their proofs.
2. (done) versioned reads and writes, the read mode's theorems.
3. (done) discrete and batch graph, `Snapshots`, the refinement proof.
4. (done) named graphs: CREATE GRAPH by two sessions, graphs replaced and
   removed while they are read.
5. (done) RocksDB temporal graph: puts, flushes, failures, scans.
6. (done) the road map page and the renderer of the browser, with their theorems.

Left, with the hazards of `PROJECT.json` that no property covers:

- a reader in `VersionedWrites`: a scan whose iterator fails or meets half an
  entity; relations in that run;
- `subGraph` of the RocksDB graph into a directory that an earlier one used, and
  that the graph implements `ContinuousGraph` between failures;
- version encoding (`DGVersion`), where a comment (`DGVersion.java:5`) says that
  an end version of 0 means alive, and the code uses 65535; the set algebra of
  graphs (`UnionPipe` and its like).

## 8. Not modelled

- The graph caches (`J/graphdb/welding/cache`): `graphPool` is never assigned,
  so every call that would change one throws first.
- The copy of the Neo4j graph algorithms under `java/org/neo4j/graphalgo`, but
  for the version test of its loader, and the patched Cypher parser, AST and
  planner, but for what they decide about versions and names.
- Store policies and the version manager, which nothing calls; serializers,
  RocksDB options, server start-up, HTTP handlers, sample data: no behaviour
  over time, or I/O.
- The bundles of the Neo4j browser (`resources/browser/*.js`): minified by a build
  that is not in the repository, with lines of up to megabytes and no names left.
- In canvg: text and fonts, gradients and patterns, transforms, the geometry of the
  basic shapes and of arcs, bounding boxes, cutting a text into tokens: layout and
  geometry over real numbers. Text alone has state worth a model, the widths that
  `tspan`s add up.

