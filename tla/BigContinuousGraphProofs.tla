----------------------- MODULE BigContinuousGraphProofs -----------------------
(***************************************************************************)
(* Theorems of BigContinuousGraph, for every set of entities, versions and *)
(* queries and any number of writes, flushes, restarts and failures.       *)
(*                                                                         *)
(* The invariant of the writes follows one change through the databases:   *)
(* what they show is what was asked for but for the add under way, what    *)
(* the machine would restore is what was asked for but for what is dirty,  *)
(* and between the two flushes of a flush the first has done its part.     *)
(* The invariants of the scans count the answers: each was returned, is    *)
(* held in temp, or lies ahead, and what lies ahead is later than the      *)
(* others.                                                                 *)
(***************************************************************************)
EXTENDS BigContinuousGraph, WellFoundedInduction, TLAPS

Stored == Version \cup {LongMax, NoVersion}

TypeOK ==
    /\ mem \in [Database -> [Entity -> Stored]]
    /\ disk \in [Database -> [Entity -> Stored]]
    /\ pc \in {"idle", "putDelete", "flushDelete"}
    /\ pc = "putDelete" => key \in Entity
    /\ synced \in BOOLEAN
    /\ at \in {"closed", "open", "ready", "threw", "end"}
    /\ todo \subseteq Entity
    /\ quiet \in BOOLEAN /\ peeked \in BOOLEAN
    /\ wanted \in [Entity -> Stored \X Stored]

\* The entity whose add has made its first put and not its second.
UnderWay(x) == pc = "putDelete" /\ x = key

ShownAsAsked ==
    \A x \in Entity \ damaged :
        /\ mem["create"][x] = wanted[x][1]
        /\ UnderWay(x) \/ mem["delete"][x] = wanted[x][2]

RestoredAsAsked ==
    \A x \in Entity \ (damaged \cup dirty) :
        disk["create"][x] = wanted[x][1] /\ disk["delete"][x] = wanted[x][2]

HalfFlushed ==
    pc = "flushDelete" /\ synced =>
        \A x \in Entity \ damaged : disk["create"][x] = wanted[x][1]

HalfAdded == pc = "putDelete" => key \in dirty /\ wanted[key][2] = LongMax

\* No call asks for a creation without a deletion version.
WholeLives == \A x \in Entity : wanted[x][1] # NoVersion => wanted[x][2] # NoVersion

WriteInv == ShownAsAsked /\ RestoredAsAsked /\ HalfFlushed /\ HalfAdded /\ WholeLives

AllAnswers == {x \in Entity : Answers(scan, x)}
Held == IF at = "ready" THEN {temp} ELSE {}

ScanInv ==
    quiet =>
        /\ pc # "putDelete"
        /\ at = "threw" => \E x \in damaged : Torn(x)
        /\ at = "end" => todo = {}
        /\ returned \cup Held \subseteq AllAnswers
        /\ ~peeked => AllAnswers \subseteq returned \cup Held \cup todo

\* What lies ahead comes after all that was returned or is held.
AheadInv ==
    /\ returned \subseteq Entity
    /\ at = "ready" => temp \in Entity \ returned
    /\ \A x \in returned \cup Held, y \in todo : x < y

BigInv == TypeOK /\ WriteInv /\ ScanInv /\ AheadInv

-----------------------------------------------------------------------------
LEMMA InitInv == Init => BigInv
  <1> SUFFICES ASSUME Init
               PROVE  BigInv
    OBVIOUS
  <1> USE BigAssumption DEF Init
  <1>1. TypeOK
    BY DEF TypeOK, Stored
  <1>2. \A db \in Database, x \in Entity : mem[db][x] = NoVersion /\ disk[db][x] = NoVersion
    OBVIOUS
  <1>3. WriteInv
    BY <1>2 DEF WriteInv, ShownAsAsked, RestoredAsAsked, HalfFlushed, HalfAdded, WholeLives, Database
  <1>4. ScanInv
    BY DEF ScanInv
  <1>5. AheadInv
    BY DEF AheadInv, Held
  <1>6. QED
    BY <1>1, <1>3, <1>4, <1>5 DEF BigInv

\* A put changes one entry of one database, or nothing.
LEMMA PutType ==
  ASSUME mem \in [Database -> [Entity -> Stored]],
         NEW db \in Database, NEW x \in Entity, NEW v \in Stored, NEW ok \in BOOLEAN,
         Put(db, x, v, ok)
  PROVE  /\ mem' \in [Database -> [Entity -> Stored]]
         /\ mem'[db][x] = IF ok THEN v ELSE mem[db][x]
         /\ \A y \in Entity \ {x} : mem'[db][y] = mem[db][y]
         /\ \A d \in Database \ {db} : mem'[d] = mem[d]
  BY DEF Put

LEMMA TypeStep == TypeOK /\ [Next]_vars => TypeOK'
  <1> SUFFICES ASSUME TypeOK, [Next]_vars
               PROVE  TypeOK'
    OBVIOUS
  <1> USE BigAssumption DEF TypeOK
  <1> /\ "create" \in Database /\ "delete" \in Database
      /\ Version \subseteq Stored /\ LongMax \in Stored /\ NoVersion \in Stored
    BY DEF Database, Stored
  <1>1. ASSUME NEW x \in Entity, NEW v \in Version, NEW ok \in BOOLEAN, AddCreate(x, v, ok)
        PROVE  TypeOK'
    <2>1. mem' \in [Database -> [Entity -> Stored]]
      BY <1>1, PutType DEF AddCreate
    <2>2. wanted' \in [Entity -> Stored \X Stored]
      BY <1>1 DEF AddCreate
    <2>3. QED
      BY <1>1, <2>1, <2>2 DEF AddCreate, Writing
  <1>2. ASSUME NEW x \in Entity, NEW v \in Version, NEW ok \in BOOLEAN, Delete(x, v, ok)
        PROVE  TypeOK'
    <2>1. mem' \in [Database -> [Entity -> Stored]]
      BY <1>2, PutType DEF Delete
    <2>2. wanted' = [wanted EXCEPT ![x] = <<wanted[x][1], v>>]
      BY <1>2 DEF Delete
    <2>3. wanted' \in [Entity -> Stored \X Stored]
      BY <2>2
    <2>4. QED
      BY <1>2, <2>1, <2>3 DEF Delete, Writing
  <1>3. ASSUME NEW ok \in BOOLEAN, AddDelete(ok)
        PROVE  TypeOK'
    <2>1. key \in Entity /\ Put("delete", key, LongMax, ok)
      BY <1>3 DEF AddDelete
    <2>2. mem' \in [Database -> [Entity -> Stored]]
      BY <2>1, PutType
    <2>3. QED
      BY <1>3, <2>2 DEF AddDelete, iterator
  <1>4. ASSUME NEW ok \in BOOLEAN, FlushCreate(ok)
        PROVE  TypeOK'
    BY <1>4 DEF FlushCreate, iterator, history
  <1>5. ASSUME NEW ok \in BOOLEAN, FlushDelete(ok)
        PROVE  TypeOK'
    BY <1>5 DEF FlushDelete, iterator
  <1>6. ASSUME NEW db \in Database, WriteBack(db)
        PROVE  TypeOK'
    BY <1>6 DEF WriteBack, iterator, history
  <1>7. CASE Restart
    BY <1>7 DEF Restart, Reopened, stores
  <1>8. CASE Crash
    BY <1>8 DEF Crash, Reopened
  <1>9. ASSUME NEW q \in Queries, OpenScan(q)
        PROVE  TypeOK'
    BY <1>9 DEF OpenScan, stores, history
  <1>10. CASE HasNext
    BY <1>10 DEF HasNext, stores, history
  <1>11. CASE TakeNext
    BY <1>11 DEF TakeNext, stores, history
  <1>12. CASE CloseScan
    BY <1>12 DEF CloseScan, stores, history
  <1>13. CASE UNCHANGED vars
    BY <1>13 DEF vars, stores, iterator, history
  <1>14. QED
    BY <1>1, <1>2, <1>3, <1>4, <1>5, <1>6, <1>7, <1>8, <1>9, <1>10, <1>11, <1>12, <1>13 DEF Next

\* Any step keeps the invariant of the writes.
LEMMA WriteStep == TypeOK /\ WriteInv /\ [Next]_vars => WriteInv'
  <1> SUFFICES ASSUME TypeOK, WriteInv, [Next]_vars
               PROVE  WriteInv'
    OBVIOUS
  <1> USE BigAssumption DEF TypeOK, WriteInv, UnderWay
  <1> /\ "create" \in Database /\ "delete" \in Database
      /\ Version \subseteq Stored /\ LongMax \in Stored /\ NoVersion \in Stored
      /\ Database \ {"create"} = {"delete"} /\ Database \ {"delete"} = {"create"}
    BY DEF Database, Stored
  <1>1. ASSUME NEW x \in Entity, NEW v \in Version, NEW ok \in BOOLEAN, AddCreate(x, v, ok)
        PROVE  WriteInv'
    <2>1. /\ mem'["create"][x] = IF ok THEN v ELSE mem["create"][x]
          /\ \A y \in Entity \ {x} : mem'["create"][y] = mem["create"][y]
          /\ mem'["delete"] = mem["delete"]
      BY <1>1, PutType DEF AddCreate
    <2>2. /\ wanted'[x] = <<v, LongMax>>
          /\ \A y \in Entity \ {x} : wanted'[y] = wanted[y]
      BY <1>1 DEF AddCreate
    <2>3. /\ pc' = "putDelete" /\ key' = x /\ disk' = disk /\ dirty' = dirty \cup {x}
          /\ pc = "idle"
          /\ damaged' = IF ok THEN damaged \ {x} ELSE damaged \cup {x}
      BY <1>1 DEF AddCreate, Writing
    <2>4. ShownAsAsked'
      <3>1. ASSUME NEW y \in Entity, y \notin damaged'
            PROVE  /\ mem'["create"][y] = wanted'[y][1]
                   /\ y # x => mem'["delete"][y] = wanted'[y][2]
        <4>1. CASE y = x
          BY <2>1, <2>2, <2>3, <3>1, <4>1
        <4>2. CASE y # x
          BY <2>1, <2>2, <2>3, <3>1, <4>2 DEF ShownAsAsked
        <4>3. QED
          BY <4>1, <4>2
      <3>2. QED
        BY <2>3, <3>1 DEF ShownAsAsked
    <2>5. RestoredAsAsked'
      BY <2>2, <2>3 DEF RestoredAsAsked
    <2>6. HalfFlushed' /\ HalfAdded'
      BY <2>2, <2>3 DEF HalfFlushed, HalfAdded
    <2>7. WholeLives'
      <3>1. wanted'[x][2] = LongMax /\ LongMax # NoVersion
        BY <2>2
      <3>2. \A y \in Entity : y # x => wanted'[y] = wanted[y]
        BY <2>2
      <3>3. QED
        BY <3>1, <3>2 DEF WholeLives
    <2>8. QED
      BY <2>4, <2>5, <2>6, <2>7
  <1>2. ASSUME NEW x \in Entity, NEW v \in Version, NEW ok \in BOOLEAN, Delete(x, v, ok)
        PROVE  WriteInv'
    <2>1. /\ mem'["delete"][x] = IF ok THEN v ELSE mem["delete"][x]
          /\ \A y \in Entity \ {x} : mem'["delete"][y] = mem["delete"][y]
          /\ mem'["create"] = mem["create"]
      BY <1>2, PutType DEF Delete
    <2>2. /\ wanted'[x] = <<wanted[x][1], v>>
          /\ \A y \in Entity \ {x} : wanted'[y] = wanted[y]
      BY <1>2 DEF Delete
    <2>3. /\ pc' = pc /\ key' = key /\ disk' = disk /\ dirty' = dirty \cup {x}
          /\ pc = "idle"
          /\ damaged' = IF ok THEN damaged ELSE damaged \cup {x}
      BY <1>2 DEF Delete, Writing, Damaging
    <2>4. ShownAsAsked'
      BY <2>1, <2>2, <2>3 DEF ShownAsAsked
    <2>5. RestoredAsAsked'
      BY <2>2, <2>3 DEF RestoredAsAsked
    <2>6. HalfFlushed' /\ HalfAdded'
      BY <2>2, <2>3 DEF HalfFlushed, HalfAdded
    <2>7. WholeLives'
      BY <2>2 DEF WholeLives
    <2>8. QED
      BY <2>4, <2>5, <2>6, <2>7
  <1>3. ASSUME NEW ok \in BOOLEAN, AddDelete(ok)
        PROVE  WriteInv'
    <2>1. key \in Entity /\ Put("delete", key, LongMax, ok)
      BY <1>3 DEF AddDelete
    <2>2. /\ mem'["delete"][key] = IF ok THEN LongMax ELSE mem["delete"][key]
          /\ \A y \in Entity \ {key} : mem'["delete"][y] = mem["delete"][y]
          /\ mem'["create"] = mem["create"]
      BY <2>1, PutType
    <2>3. /\ pc = "putDelete" /\ pc' = "idle"
          /\ damaged' = IF ok THEN damaged ELSE damaged \cup {key}
          /\ UNCHANGED <<disk, wanted, dirty>>
      BY <1>3 DEF AddDelete, Damaging
    <2>4. ASSUME NEW x \in Entity, x \notin damaged'
          PROVE  mem'["create"][x] = wanted'[x][1] /\ mem'["delete"][x] = wanted'[x][2]
      <3>1. mem'["create"][x] = wanted'[x][1] /\ x \notin damaged
        BY <2>2, <2>3, <2>4 DEF ShownAsAsked
      <3>2. CASE x = key
        BY <2>2, <2>3, <2>4, <3>1, <3>2 DEF HalfAdded
      <3>3. CASE x # key
        BY <2>2, <2>3, <3>1, <3>3 DEF ShownAsAsked
      <3>4. QED
        BY <3>1, <3>2, <3>3
    <2>5. ShownAsAsked'
      BY <2>4 DEF ShownAsAsked
    <2>6. RestoredAsAsked' /\ HalfFlushed' /\ HalfAdded' /\ WholeLives'
      BY <2>3 DEF RestoredAsAsked, HalfFlushed, HalfAdded, WholeLives
    <2>7. QED
      BY <2>5, <2>6
  <1>4. ASSUME NEW ok \in BOOLEAN, FlushCreate(ok)
        PROVE  WriteInv'
    <2>1. /\ pc = "idle" /\ pc' = "flushDelete" /\ synced' = ok
          /\ disk'["create"] = IF ok THEN mem["create"] ELSE disk["create"]
          /\ disk'["delete"] = disk["delete"]
          /\ UNCHANGED <<mem, key, wanted, dirty, damaged>>
      BY <1>4 DEF FlushCreate, history
    <2>2. QED
      BY <2>1 DEF ShownAsAsked, RestoredAsAsked, HalfFlushed, HalfAdded, WholeLives
  <1>5. ASSUME NEW ok \in BOOLEAN, FlushDelete(ok)
        PROVE  WriteInv'
    <2>1. /\ pc = "flushDelete" /\ pc' = "idle"
          /\ disk'["delete"] = IF ok THEN mem["delete"] ELSE disk["delete"]
          /\ disk'["create"] = disk["create"]
          /\ dirty' = IF ok /\ synced THEN {} ELSE dirty
          /\ UNCHANGED <<mem, key, wanted, damaged>>
      BY <1>5 DEF FlushDelete
    <2>2. RestoredAsAsked'
      BY <2>1 DEF RestoredAsAsked, ShownAsAsked, HalfFlushed
    <2>3. QED
      BY <2>1, <2>2 DEF ShownAsAsked, HalfFlushed, HalfAdded, WholeLives
  <1>6. ASSUME NEW db \in Database, WriteBack(db)
        PROVE  WriteInv'
    <2>1. /\ disk'[db] = mem[db]
          /\ \A d \in Database \ {db} : disk'[d] = disk[d]
          /\ UNCHANGED <<mem, pc, key, synced, wanted, dirty, damaged>>
      BY <1>6 DEF WriteBack, history
    <2>2. RestoredAsAsked' /\ HalfFlushed'
      BY <2>1 DEF RestoredAsAsked, ShownAsAsked, HalfFlushed, HalfAdded, Database
    <2>3. QED
      BY <2>1, <2>2 DEF ShownAsAsked, HalfAdded, WholeLives
  <1>7. CASE Restart
    <2>1. /\ pc' = "idle"
          /\ damaged' = IF pc = "putDelete" THEN damaged \cup {key} ELSE damaged
          /\ UNCHANGED <<mem, disk, wanted, dirty>>
      BY <1>7 DEF Restart, Reopened, stores
    <2>2. QED
      BY <2>1 DEF ShownAsAsked, RestoredAsAsked, HalfFlushed, HalfAdded, WholeLives
  <1>8. CASE Crash
    <2>1. /\ pc' = "idle" /\ mem' = disk /\ disk' = disk /\ wanted' = wanted
          /\ damaged' = damaged \cup dirty /\ dirty' = {}
      BY <1>8 DEF Crash, Reopened
    <2>2. QED
      BY <2>1 DEF ShownAsAsked, RestoredAsAsked, HalfFlushed, HalfAdded, WholeLives
  <1>9. ASSUME UNCHANGED <<mem, disk, pc, key, synced, wanted, dirty, damaged>>
        PROVE  WriteInv'
    BY <1>9 DEF ShownAsAsked, RestoredAsAsked, HalfFlushed, HalfAdded, WholeLives
  <1>10. ASSUME NEW q \in Queries, OpenScan(q)
         PROVE  WriteInv'
    BY <1>9, <1>10 DEF OpenScan, stores, history
  <1>11. CASE HasNext
    BY <1>9, <1>11 DEF HasNext, stores, history
  <1>12. CASE TakeNext
    BY <1>9, <1>12 DEF TakeNext, stores, history
  <1>13. CASE CloseScan
    BY <1>9, <1>13 DEF CloseScan, stores, history
  <1>14. CASE UNCHANGED vars
    BY <1>9, <1>14 DEF vars, stores, history
  <1>15. QED
    BY <1>1, <1>2, <1>3, <1>4, <1>5, <1>6, <1>7, <1>8, <1>10, <1>11, <1>12, <1>13, <1>14 DEF Next

\* A set of keys has a first one.
LEMMA FirstKey ==
  ASSUME NEW S \in SUBSET Nat, S # {}
  PROVE  \E x \in S : \A y \in S : ~(y < x)
  <1> DEFINE R == {p \in Nat \X Nat : p[1] < p[2]}
  <1>1. R = OpToRel(<, Nat)
    BY DEF OpToRel
  <1>2. IsWellFoundedOn(R, Nat)
    BY <1>1, NatLessThanWellFounded
  <1>3. PICK x \in S : \A y \in S : ~(<<y, x>> \in R)
    <2> HIDE DEF R
    <2> QED
      BY <1>2, WFMin
  <1>4. ASSUME NEW y \in S
        PROVE  ~(y < x)
    <2>1. ~(<<y, x>> \in R)
      BY <1>3
    <2>2. <<y, x>> \in Nat \X Nat
      OBVIOUS
    <2>3. QED
      BY <2>1, <2>2
  <1>5. QED
    BY <1>4

\* If hasNext finds no key to stop at, no answer lies ahead.
LEMMA NothingAhead ==
  ASSUME TypeOK, \A x \in todo : ~Stops(x)
  PROVE  todo \cap AllAnswers = {}
  <1> DEFINE S == {x \in todo : Torn(x) \/ Answers(scan, x)}
  <1>1. S \in SUBSET Nat
    BY BigAssumption DEF TypeOK
  <1>2. S = {}
    <2>1. SUFFICES ASSUME S # {}
                   PROVE  FALSE
      OBVIOUS
    <2>2. PICK x \in S : \A y \in S : ~(y < x)
      BY <1>1, <2>1, FirstKey
    <2>3. Stops(x)
      BY <2>2 DEF Stops
    <2>4. QED
      BY <2>2, <2>3
  <1>3. QED
    BY <1>2 DEF AllAnswers

\* What hasNext passes on its way to the key it stops at are no answers.
LEMMA PassedOver ==
  ASSUME TypeOK, NEW x \in todo, Stops(x)
  PROVE  todo \cap AllAnswers \subseteq {y \in todo : y > x} \cup {x}
  <1>1. \A y \in todo : y \in Nat /\ x \in Nat
    BY BigAssumption DEF TypeOK
  <1>2. QED
    BY <1>1 DEF Stops, AllAnswers

\* Any step keeps the invariant of the scans.
LEMMA ScanStep == TypeOK /\ WriteInv /\ ScanInv /\ [Next]_vars => ScanInv'
  <1> SUFFICES ASSUME TypeOK, WriteInv, ScanInv, [Next]_vars, quiet'
               PROVE  ScanInv'
    BY DEF ScanInv
  <1>1. ASSUME UNCHANGED <<mem, scan, at, todo, temp, returned, quiet, peeked>>,
               damaged \subseteq damaged', pc' # "putDelete"
        PROVE  ScanInv'
    <2>1. AllAnswers' = AllAnswers /\ \A x : Torn(x)' = Torn(x)
      BY <1>1 DEF AllAnswers, Answers, Torn
    <2>2. QED
      BY <1>1, <2>1 DEF ScanInv, Held
  <1>2. ASSUME NEW x \in Entity, NEW v \in Version, NEW ok \in BOOLEAN,
               AddCreate(x, v, ok) \/ Delete(x, v, ok)
        PROVE  FALSE
    BY <1>2 DEF AddCreate, Delete, Writing
  <1>3. ASSUME NEW ok \in BOOLEAN, AddDelete(ok)
        PROVE  FALSE
    BY <1>3 DEF AddDelete, iterator, ScanInv
  <1>4. CASE Restart \/ Crash
    BY <1>4 DEF Restart, Crash, Reopened
  <1>5. ASSUME NEW ok \in BOOLEAN, FlushCreate(ok) \/ FlushDelete(ok)
        PROVE  ScanInv'
    BY <1>1, <1>5 DEF FlushCreate, FlushDelete, iterator, history
  <1>6. ASSUME NEW db \in Database, WriteBack(db)
        PROVE  ScanInv'
    BY <1>1, <1>6 DEF WriteBack, iterator, history, ScanInv
  <1>7. ASSUME NEW q \in Queries, OpenScan(q)
        PROVE  ScanInv'
    <2>1. /\ pc' = "idle" /\ at' = "open" /\ returned' = {}
          /\ todo' = {x \in Entity : mem'["create"][x] # NoVersion}
      BY <1>7 DEF OpenScan, stores
    <2>2. AllAnswers' \subseteq todo'
      BY <2>1 DEF AllAnswers, Answers
    <2>3. QED
      BY <2>1, <2>2 DEF ScanInv, Held
  <1>8. CASE HasNext
    <2>1. /\ pc' = "idle"
          /\ UNCHANGED <<mem, scan, returned, quiet, damaged>>
          /\ peeked' = (peeked \/ at = "ready")
      BY <1>8 DEF HasNext, stores, history
    <2>2. AllAnswers' = AllAnswers /\ \A x : Torn(x)' = Torn(x)
      BY <2>1 DEF AllAnswers, Answers, Torn
    <2>3. returned \subseteq AllAnswers /\ (~peeked' => AllAnswers \subseteq returned \cup todo)
      BY <2>1 DEF ScanInv, Held
    <2>4. CASE \A x \in todo : ~Stops(x)
      <3>1. todo' = {} /\ at' = "end"
        BY <1>8, <2>4 DEF HasNext
      <3>2. QED
        BY <2>1, <2>2, <2>3, <2>4, <3>1, NothingAhead DEF ScanInv, Held
    <2>5. CASE \E x \in todo : Stops(x)
      <3>1. PICK x \in todo :
                   /\ Stops(x)
                   /\ todo' = {y \in todo : y > x}
                   /\ IF Torn(x) THEN at' = "threw" /\ temp' = temp
                                 ELSE at' = "ready" /\ temp' = x
        BY <1>8, <2>5 DEF HasNext
      <3>2. x \in Entity
        BY DEF TypeOK
      <3>3. AllAnswers \cap todo \subseteq todo' \cup {x}
        BY <3>1, PassedOver
      <3>4. CASE Torn(x)
        <4>1. x \in damaged
          BY <2>1, <3>2, <3>4
             DEF Torn, WriteInv, ShownAsAsked, WholeLives, UnderWay, ScanInv
        <4>2. x \notin AllAnswers
          BY <3>4 DEF Torn, AllAnswers, Answers
        <4>3. QED
          BY <2>1, <2>2, <2>3, <3>1, <3>3, <3>4, <4>1, <4>2 DEF ScanInv, Held
      <3>5. CASE ~Torn(x)
        <4>1. x \in AllAnswers
          BY <3>1, <3>2, <3>5 DEF Stops, AllAnswers
        <4>2. QED
          BY <2>1, <2>2, <2>3, <3>1, <3>3, <3>5, <4>1 DEF ScanInv, Held
      <3>6. QED
        BY <3>4, <3>5
    <2>6. QED
      BY <2>4, <2>5
  <1>9. CASE TakeNext
    <2>1. /\ pc' = "idle" /\ at = "ready" /\ at' = "open" /\ returned' = returned \cup {temp}
          /\ UNCHANGED <<mem, scan, todo, quiet, peeked>>
      BY <1>9 DEF TakeNext, stores
    <2>2. AllAnswers' = AllAnswers
      BY <2>1 DEF AllAnswers, Answers
    <2>3. QED
      BY <2>1, <2>2 DEF ScanInv, Held
  <1>10. CASE CloseScan
    BY <1>10 DEF CloseScan
  <1>11. CASE UNCHANGED vars
    BY <1>1, <1>11 DEF vars, stores, iterator, history, ScanInv
  <1>12. QED
    BY <1>2, <1>3, <1>4, <1>5, <1>6, <1>7, <1>8, <1>9, <1>10, <1>11 DEF Next

\* Any step keeps what lies ahead ahead, also a write under the scan.
LEMMA AheadStep == TypeOK /\ AheadInv /\ [Next]_vars => AheadInv'
  <1> SUFFICES ASSUME TypeOK, AheadInv, [Next]_vars
               PROVE  AheadInv'
    OBVIOUS
  <1>1. ASSUME UNCHANGED <<at, todo, temp, returned>>
        PROVE  AheadInv'
    BY <1>1 DEF AheadInv, Held
  <1>2. ASSUME returned' = {}, at' # "ready"
        PROVE  AheadInv'
    BY <1>2 DEF AheadInv, Held
  <1>3. ASSUME NEW x \in Entity, NEW v \in Version, NEW ok \in BOOLEAN,
               AddCreate(x, v, ok) \/ Delete(x, v, ok)
        PROVE  AheadInv'
    BY <1>1, <1>3 DEF AddCreate, Delete, Writing
  <1>4. ASSUME NEW ok \in BOOLEAN, AddDelete(ok) \/ FlushCreate(ok) \/ FlushDelete(ok)
        PROVE  AheadInv'
    BY <1>1, <1>4 DEF AddDelete, FlushCreate, FlushDelete, iterator
  <1>5. ASSUME NEW db \in Database, WriteBack(db)
        PROVE  AheadInv'
    BY <1>1, <1>5 DEF WriteBack, iterator
  <1>6. CASE Restart \/ Crash \/ CloseScan
    BY <1>2, <1>6 DEF Restart, Crash, CloseScan, Reopened
  <1>7. ASSUME NEW q \in Queries, OpenScan(q)
        PROVE  AheadInv'
    BY <1>2, <1>7 DEF OpenScan
  <1>8. CASE HasNext
    <2>1. returned' = returned
      BY <1>8 DEF HasNext
    <2>2. CASE todo' = {} /\ at' = "end"
      BY <2>1, <2>2 DEF AheadInv, Held
    <2>3. ASSUME NEW x \in todo, todo' = {y \in todo : y > x},
                 \/ at' = "threw" /\ temp' = temp
                 \/ at' = "ready" /\ temp' = x
          PROVE  AheadInv'
      <3>1. x \in Entity /\ \A y \in todo : y \in Nat /\ (y > x <=> x < y)
        BY BigAssumption DEF TypeOK
      <3>2. x \notin returned
        <4>1. \A z \in returned : z < x
          BY DEF AheadInv
        <4>2. ~(x < x)
          BY <3>1
        <4>3. QED
          BY <4>1, <4>2
      <3>3. QED
        BY <2>1, <2>3, <3>1, <3>2 DEF AheadInv, Held
    <2>4. QED
      BY <1>8, <2>2, <2>3 DEF HasNext
  <1>9. CASE TakeNext
    BY <1>9 DEF TakeNext, AheadInv, Held
  <1>10. CASE UNCHANGED vars
    BY <1>1, <1>10 DEF vars, iterator
  <1>11. QED
    BY <1>3, <1>4, <1>5, <1>6, <1>7, <1>8, <1>9, <1>10 DEF Next

-----------------------------------------------------------------------------
LEMMA AlwaysBigInv == Spec => []BigInv
  <1>1. BigInv /\ [Next]_vars => BigInv'
    BY TypeStep, WriteStep, ScanStep, AheadStep DEF BigInv
  <1>2. QED
    BY InitInv, <1>1, PTL DEF Spec

\* Between calls both databases say what was asked for, of every entity whose
\* puts succeeded, were not cut off and were not lost with the machine: for any
\* number of calls, flushes that fail or not, restarts and failures
\* (BigContinuousGraph.java:43, 312).
THEOREM FlushedIsWritten == Spec => []WrittenAsAsked
  <1>1. BigInv => WrittenAsAsked
    BY DEF BigInv, WriteInv, ShownAsAsked, UnderWay, WrittenAsAsked
  <1>2. QED
    BY <1>1, AlwaysBigInv, PTL

\* A scan returns nothing twice; without writes under it, it throws only at half
\* an add, and returns the answers and no other, if hasNext is asked once for each
\* (BigContinuousGraph.java:178).
THEOREM ScansAreExact == Spec => []ScanIsExact
  <1>1. BigInv => ScanIsExact
    BY DEF BigInv, ScanInv, AheadInv, ScanIsExact, AllAnswers, Held
  <1>2. QED
    BY <1>1, AlwaysBigInv, PTL
=============================================================================
