-------------------------------- MODULE RoadMap --------------------------------
(***************************************************************************)
(* The page of the road network (resources/Web/BaiduMap: getData.js,       *)
(* dataProcess.js, map.html).  When it opens it reads the cities, fills    *)
(* the two selects and marks the cities, then reads the roads and draws    *)
(* them.  A click on Query asks for the shortest path at a version, and    *)
(* the answer replaces the line of the previous one.                       *)
(*                                                                         *)
(* The page has one thread and three places where it waits: getNodes,      *)
(* getRelations and callPath.  Queries overlap: nothing stops the user     *)
(* from asking again, and the answers come in any order.  What callPath    *)
(* leaves in the global paths is drawn by the rest of markPath, which runs *)
(* later, as a job of the browser's queue.  A click waits for the queue to *)
(* be empty; an answer need not.                                           *)
(***************************************************************************)
EXTENDS Integers, Sequences, FiniteSets

CONSTANTS
    City,        \* names of cities
    Road,        \* the roads that there may be, pairs of names
    Path,        \* the answers that there may be, sequences of names
    NoLine,
    MaxQueries   \* bound: clicks on Query

RoadMapAssumption ==
    /\ Path \subseteq Seq(City) /\ Road \subseteq City \X City
    /\ MaxQueries \in Nat
    /\ NoLine \notin [query : Nat, path : Seq(City)]
ASSUME RoadMapAssumption

VARIABLES
    db,           \* the cities in the database
    phase,        \* what run() waits for
    nodes, relations, \* what was read
    options, namePoints, \* the cities in the selects, and with a point
    drawnRoads,
    asked,        \* queries asked so far; they are numbered
    flying,       \* those that wait for an answer
    jobs,         \* those answered whose line is not drawn yet, in order
    paths,        \* the global that callPath fills
    lastline, overlays, \* the line remembered, and the lines on the map
    answers       \* history: the queries answered, in order, with their paths

loading == <<phase, nodes, relations, options, namePoints, drawnRoads>>
querying == <<asked, flying, jobs, paths, lastline, overlays, answers>>
vars == <<db, loading, querying>>

InDatabase(r) == r[1] \in db /\ r[2] \in db

Init ==
    /\ db \in SUBSET City
    /\ phase = "cities"
    /\ nodes = {} /\ relations = {} /\ options = {} /\ namePoints = {}
    /\ drawnRoads = {}
    /\ asked = 0 /\ flying = {} /\ jobs = <<>> /\ paths = <<>>
    /\ lastline = NoLine /\ overlays = {} /\ answers = <<>>

-----------------------------------------------------------------------------
\* Somebody adds a city while the page is open.
AddCity(c) ==
    /\ c \notin db
    /\ db' = db \cup {c}
    /\ UNCHANGED <<loading, querying>>

\* getNodes is answered; addOptions and the rest of markPoint follow at once,
\* and markLines asks for the roads.
ReadCities ==
    /\ phase = "cities"
    /\ nodes' = db
    /\ options' = nodes'
    /\ namePoints' = nodes'
    /\ phase' = "roads"
    /\ UNCHANGED <<db, relations, drawnRoads, querying>>

\* getRelations is answered and markLine draws the roads that begin at a city
\* read before.  The other end may be a city that has no point: the library may
\* throw at that road, with any of the other roads drawn before it.
ReadRoads ==
    LET begun == {r \in relations' : r[1] \in nodes} IN
    /\ phase = "roads"
    /\ relations' = {r \in Road : InDatabase(r)}
    /\ \/ drawnRoads' = begun /\ phase' = "open"
       \/ /\ \E r \in begun : r[2] \notin namePoints /\ drawnRoads' \in SUBSET (begun \ {r})
          /\ phase' = "failed"
    /\ UNCHANGED <<db, nodes, options, namePoints, querying>>

\* Either is refused: run() ends there, with what it has done so far.
LoadingFails ==
    /\ phase \in {"cities", "roads"}
    /\ phase' = "failed"
    /\ UNCHANGED <<db, nodes, relations, options, namePoints, drawnRoads, querying>>

\* A click on Query.  With nothing to select onQuery throws, and nothing is asked.
OnQuery ==
    /\ options # {} /\ jobs = <<>>
    /\ asked < MaxQueries
    /\ asked' = asked + 1
    /\ flying' = flying \cup {asked'}
    /\ UNCHANGED <<db, loading, jobs, paths, lastline, overlays, answers>>

\* A faulty variant: as callShortestPath does, the answer is added to paths.
AnswerAdds(q, p) ==
    /\ q \in flying /\ \A i \in DOMAIN p : p[i] \in db
    /\ flying' = flying \ {q}
    /\ paths' = paths \o p
    /\ jobs' = Append(jobs, q)
    /\ answers' = Append(answers, [query |-> q, path |-> p])
    /\ UNCHANGED <<db, loading, asked, lastline, overlays>>

\* callPath gets its answer and replaces paths; markPath goes on as a job.
Answer(q, p) ==
    /\ q \in flying /\ \A i \in DOMAIN p : p[i] \in db
    /\ flying' = flying \ {q}
    /\ paths' = p
    /\ jobs' = Append(jobs, q)
    /\ answers' = Append(answers, [query |-> q, path |-> p])
    /\ UNCHANGED <<db, loading, asked, lastline, overlays>>

\* callPath is refused: markPath ends there.
Refuse(q) ==
    /\ q \in flying
    /\ flying' = flying \ {q}
    /\ UNCHANGED <<db, loading, asked, jobs, paths, lastline, overlays, answers>>

\* A faulty variant: there must be a line to replace.
MarkPathReplaces ==
    LET line == [query |-> Head(jobs), path |-> paths] IN
    /\ jobs # <<>> /\ lastline # NoLine
    /\ jobs' = Tail(jobs)
    /\ lastline' = line /\ overlays' = (overlays \ {lastline}) \cup {line}
    /\ UNCHANGED <<db, loading, asked, flying, paths, answers>>

\* markPath removes the line it remembers and draws one through the points of
\* paths.  The library may throw at a point that is undefined, when it makes
\* the line or when it is given it to show.
MarkPath ==
    LET line == [query |-> Head(jobs), path |-> paths]
        others == overlays \ {lastline} IN
    /\ jobs # <<>>
    /\ jobs' = Tail(jobs)
    /\ \/ lastline' = line /\ overlays' = others \cup {line}
       \/ /\ \E i \in DOMAIN paths : paths[i] \notin namePoints
          /\ lastline' \in {NoLine, line} /\ overlays' = others
    /\ UNCHANGED <<db, loading, asked, flying, paths, answers>>

Next ==
    \/ \E c \in City : AddCity(c)
    \/ ReadCities \/ ReadRoads \/ LoadingFails
    \/ OnQuery
    \/ \E q \in 1..MaxQueries :
         \/ \E p \in Path : Answer(q, p)
         \/ Refuse(q)
    \/ MarkPath

Spec == Init /\ [][Next]_vars

\* The browser runs the jobs of its queue, and the driver settles a query.
Settle(q) == Refuse(q) \/ \E p \in Path : Answer(q, p)
FairSpec ==
    /\ Spec
    /\ WF_vars(MarkPath)
    /\ \A q \in 1..MaxQueries : WF_vars(Settle(q))

-----------------------------------------------------------------------------
Last(s) == s[Len(s)]

\* When no job waits, the map shows one path at most, the one remembered, and
\* it is that of the query answered last (not asked last): no answer leaves a
\* line behind, and none is drawn with the path of an answer before it.
ShowsLastAnswer ==
    jobs = <<>> =>
        /\ overlays \subseteq {lastline} \ {NoLine}
        /\ lastline # NoLine => lastline = Last(answers)

\* Every answer is drawn, or replaced by a later one: no job stays in the queue.
EveryAnswerSettles ==
    \A q \in 1..MaxQueries :
        q \in flying ~> q \notin flying /\ jobs = <<>>
=============================================================================
