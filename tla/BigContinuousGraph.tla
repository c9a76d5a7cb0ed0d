-------------------------- MODULE BigContinuousGraph --------------------------
(***************************************************************************)
(* cn.DynamicGraph.graphdb.welding.BigContinuousGraph: the lives of        *)
(* entities in RocksDB, the creation versions in one database and the      *)
(* deletion versions in another.  An add is two puts, a flush two flushes, *)
(* and nothing ties the two databases together.  Errors of RocksDB are     *)
(* printed and forgotten (RocksDBStorage).  Nodes and relations have two   *)
(* databases each, which behave alike and share nothing: one kind is       *)
(* modelled.                                                               *)
(*                                                                         *)
(* RocksDB (external): a put is seen at once, and survives the end of the  *)
(* process; it survives a failure of the machine once it, and so all that  *)
(* the same database was given before, is on disk, by a flush or when the  *)
(* system gets round to it.  An iterator goes through the keys there were  *)
(* when it was made, in order.                                             *)
(***************************************************************************)
EXTENDS Integers

CONSTANTS
    Entity,       \* ids, in the order of their keys
    Version, LongMax,
    NoVersion,    \* a key that a database does not have
    Queries,      \* what scans ask for
    MaxWrites,    \* bound: calls that add or delete
    Nothing       \* no scan, or no key

ASSUME BigAssumption ==
    /\ Entity \subseteq Nat
    /\ Version \subseteq Int
    /\ LongMax \in Int
    /\ NoVersion \notin Int
    /\ MaxWrites \in Nat
    /\ Nothing \notin Entity /\ Nothing \notin Queries

VARIABLES
    mem, disk,   \* what each database shows, and what the machine would restore
    pc, key,     \* what the call under way does next, and for which entity
    synced,      \* whether the first flush of the call under way succeeded
    scan, at,    \* the query of the iterator in use, and where it stands
    todo, temp, returned,   \* keys ahead, the field temp, what next() returned
    writes,      \* calls made, for the bound
    wanted,      \* history: the two versions that the calls asked for
    dirty,       \* history: written since the last flush that succeeded
    damaged,     \* history: one of its puts failed or may have been lost
    quiet, peeked   \* history: no write since the scan began; hasNext asked twice

stores == <<mem, disk>>
iterator == <<scan, at, todo, temp, returned, quiet, peeked>>
history == <<writes, wanted, dirty, damaged>>
vars == <<stores, pc, key, synced, iterator, history>>

Database == {"create", "delete"}

Init ==
    /\ mem = [db \in Database |-> [x \in Entity |-> NoVersion]]
    /\ disk = mem
    /\ pc = "idle" /\ key = Nothing /\ synced = TRUE
    /\ scan = Nothing /\ at = "closed"
    /\ todo = {} /\ temp = Nothing /\ returned = {}
    /\ quiet = FALSE /\ peeked = FALSE
    /\ writes = 0
    /\ wanted = [x \in Entity |-> <<NoVersion, NoVersion>>]
    /\ dirty = {}
    /\ damaged = {}

-----------------------------------------------------------------------------
\* RocksDBStorage.put: an error leaves the database as it was, and is dropped.
Put(db, x, v, ok) == mem' = IF ok THEN [mem EXCEPT ![db][x] = v] ELSE mem

Damaging(x, ok) == damaged' = IF ok THEN damaged ELSE damaged \cup {x}

\* The call writes x; an iterator in use is no longer quiet.
Writing(x) ==
    /\ writes < MaxWrites
    /\ writes' = writes + 1
    /\ dirty' = dirty \cup {x}
    /\ quiet' = FALSE
    /\ UNCHANGED <<disk, synced, scan, at, todo, temp, returned, peeked>>

\* The first put of addNode and addRelation, and the second.
AddCreate(x, v, ok) ==
    /\ pc = "idle"
    /\ Writing(x)
    /\ Put("create", x, v, ok)
    /\ pc' = "putDelete" /\ key' = x
    /\ wanted' = [wanted EXCEPT ![x] = <<v, LongMax>>]
    /\ damaged' = IF ok THEN damaged \ {x} ELSE damaged \cup {x}

AddDelete(ok) ==
    /\ pc = "putDelete"
    /\ Put("delete", key, LongMax, ok)
    /\ Damaging(key, ok)
    /\ pc' = "idle" /\ key' = Nothing
    /\ UNCHANGED <<disk, synced, iterator, writes, wanted, dirty>>

Delete(x, v, ok) ==
    /\ pc = "idle"
    /\ Writing(x)
    /\ Put("delete", x, v, ok)
    /\ wanted' = [wanted EXCEPT ![x][2] = v]
    /\ Damaging(x, ok)
    /\ UNCHANGED <<pc, key>>

FlushCreate(ok) ==
    /\ pc = "idle"
    /\ disk' = IF ok THEN [disk EXCEPT !["create"] = mem["create"]] ELSE disk
    /\ synced' = ok
    /\ pc' = "flushDelete"
    /\ UNCHANGED <<mem, key, iterator, history>>

\* A faulty variant: the databases of deletion versions are not flushed.
FlushDeleteForgets(ok) ==
    /\ pc = "flushDelete"
    /\ dirty' = IF ok /\ synced THEN {} ELSE dirty
    /\ pc' = "idle" /\ synced' = TRUE
    /\ UNCHANGED <<stores, key, iterator, writes, wanted, damaged>>

FlushDelete(ok) ==
    /\ pc = "flushDelete"
    /\ disk' = IF ok THEN [disk EXCEPT !["delete"] = mem["delete"]] ELSE disk
    /\ dirty' = IF ok /\ synced THEN {} ELSE dirty
    /\ pc' = "idle" /\ synced' = TRUE
    /\ UNCHANGED <<mem, key, iterator, writes, wanted, damaged>>

\* The system writes a database's log to disk.
WriteBack(db) ==
    /\ disk[db] # mem[db]
    /\ disk' = [disk EXCEPT ![db] = mem[db]]
    /\ UNCHANGED <<mem, pc, key, synced, iterator, history>>

Reopened ==
    /\ pc' = "idle" /\ key' = Nothing /\ synced' = TRUE
    /\ scan' = Nothing /\ at' = "closed"
    /\ todo' = {} /\ temp' = Nothing /\ returned' = {}
    /\ quiet' = FALSE /\ peeked' = FALSE

\* The process ends, anywhere, and opens the databases again.
Restart ==
    /\ Reopened
    /\ damaged' = IF pc = "putDelete" THEN damaged \cup {key} ELSE damaged
    /\ UNCHANGED <<stores, writes, wanted, dirty>>

\* The machine fails.
Crash ==
    /\ Reopened
    /\ mem' = disk
    /\ damaged' = damaged \cup dirty
    /\ dirty' = {}
    /\ UNCHANGED <<disk, writes, wanted>>

-----------------------------------------------------------------------------
AtVersion(v) == [op |-> "at", version |-> v]
Within(vStart, vEnd) == [op |-> "within", start |-> vStart, end |-> vEnd]
AtSome(V) == [op |-> "some", versions |-> V]

\* isOk: whether a life from s to e is part of the answer to q.
IsOk(q, s, e) ==
    \/ q.op = "at" /\ s <= q.version /\ q.version <= e
    \/ q.op = "within" /\ s <= q.start /\ q.end <= e
    \/ q.op = "some" /\ \E v \in q.versions : s <= v /\ v <= e

\* A key without a deletion version: converting it throws.
Torn(x) == mem["create"][x] # NoVersion /\ mem["delete"][x] = NoVersion

Answers(q, x) ==
    /\ mem["create"][x] # NoVersion
    /\ mem["delete"][x] # NoVersion
    /\ IsOk(q, mem["create"][x], mem["delete"][x])

OpenScan(q) ==
    /\ pc = "idle" /\ scan = Nothing
    /\ scan' = q /\ at' = "open"
    /\ todo' = {x \in Entity : mem["create"][x] # NoVersion}
    /\ temp' = Nothing /\ returned' = {}
    /\ quiet' = TRUE /\ peeked' = FALSE
    /\ UNCHANGED <<stores, pc, key, synced, history>>

\* The first key ahead at which the loop of hasNext stops.
Stops(x) ==
    /\ x \in todo /\ (Torn(x) \/ Answers(scan, x))
    /\ \A y \in todo : y < x => ~Torn(y) /\ ~Answers(scan, y)

\* A faulty variant: the loop gives up at the first key it rejects.
HasNextGivesUp ==
    /\ pc = "idle" /\ at \in {"open", "ready", "threw"}
    /\ peeked' = (peeked \/ at = "ready")
    /\ \/ \E x \in todo :
              /\ \A y \in todo : x <= y
              /\ Answers(scan, x)
              /\ temp' = x /\ todo' = todo \ {x} /\ at' = "ready"
       \/ /\ \A x \in todo : (\A y \in todo : x <= y) => ~Answers(scan, x)
          /\ todo' = {} /\ at' = "end" /\ temp' = temp
    /\ UNCHANGED <<stores, pc, key, synced, scan, returned, quiet, history>>

\* hasNext moves on to the next answer, also when the last one has not been
\* taken by next(), and after it threw.
HasNext ==
    /\ pc = "idle" /\ at \in {"open", "ready", "threw"}
    /\ peeked' = (peeked \/ at = "ready")
    /\ \/ \E x \in todo :
              /\ Stops(x)
              /\ todo' = {y \in todo : y > x}
              /\ IF Torn(x) THEN at' = "threw" /\ temp' = temp ELSE at' = "ready" /\ temp' = x
       \/ /\ \A x \in todo : ~Stops(x)
          /\ todo' = {} /\ at' = "end" /\ temp' = temp
    /\ UNCHANGED <<stores, pc, key, synced, scan, returned, quiet, history>>

\* next() only reads temp; clients call it once for each hasNext that was true.
TakeNext ==
    /\ pc = "idle" /\ at = "ready"
    /\ returned' = returned \cup {temp}
    /\ at' = "open"
    /\ UNCHANGED <<stores, pc, key, synced, scan, todo, temp, quiet, peeked, history>>

CloseScan ==
    /\ at \in {"end", "threw"}
    /\ scan' = Nothing /\ at' = "closed"
    /\ todo' = {} /\ temp' = Nothing /\ returned' = {}
    /\ quiet' = FALSE /\ peeked' = FALSE
    /\ UNCHANGED <<stores, pc, key, synced, history>>

Next ==
    \/ \E x \in Entity, v \in Version, ok \in BOOLEAN : AddCreate(x, v, ok) \/ Delete(x, v, ok)
    \/ \E ok \in BOOLEAN : AddDelete(ok) \/ FlushCreate(ok) \/ FlushDelete(ok)
    \/ \E db \in Database : WriteBack(db)
    \/ Restart \/ Crash
    \/ \E q \in Queries : OpenScan(q)
    \/ HasNext \/ TakeNext \/ CloseScan

Spec == Init /\ [][Next]_vars

-----------------------------------------------------------------------------
\* Between calls, the two databases together say of an entity what was asked
\* for, whatever crashed since the last flush, unless one of its own puts
\* failed, was cut off by the end of the process, or was not yet flushed when
\* the machine failed: a flush that succeeds covers both databases
\* (BigContinuousGraph.java:43, 312).
WrittenAsAsked ==
    pc = "idle" =>
        \A x \in Entity \ damaged :
            mem["create"][x] = wanted[x][1] /\ mem["delete"][x] = wanted[x][2]

\* hasNext never comes back to an entity that was returned.  A scan that nothing
\* writes under throws only at an entity half of whose add was lost; it returns
\* only answers, and all of them if hasNext is never asked twice for one
\* (BigContinuousGraph.java:178).
ScanIsExact ==
    /\ at = "ready" => temp \notin returned
    /\ quiet =>
          /\ at = "threw" => \E x \in damaged : Torn(x)
          /\ at = "end" =>
                 LET answers == {x \in Entity : Answers(scan, x)} IN
                 returned \subseteq answers /\ (~peeked => returned = answers)
=============================================================================
