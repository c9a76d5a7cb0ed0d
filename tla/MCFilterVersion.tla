--------------------------- MODULE MCFilterVersion ---------------------------
(***************************************************************************)
(* Checks the filters against what a version clause means for an entity    *)
(* that is alive at every version from born to died: every predicate set   *)
(* of up to two clauses, or three comparisons, on every life that fits.    *)
(***************************************************************************)
EXTENDS FilterVersion

CONSTANT MaxPredicates   \* bound: predicates in one version clause

VARIABLES
    clause,        \* the predicates of the query's version clause
    born, died     \* the life of the entity that is filtered

clauseVars == <<clause, born, died>>

Operands == {x \in Operand : Readable(x) \/ x.op \in {"=", "other"}}
Disjunctions == {[op |-> "Ors", exprs |-> {x, y}] : x, y \in Operands}
Conjunctions == {[op |-> "Ands", exprs |-> {x, y}] : x, y \in Operands}

ClauseInit ==
    /\ clause = {}
    /\ born \in 0..LongMax - 1
    /\ died = LongMax

\* The clause gains a predicate; beyond two, only comparisons are added.
Where(x) ==
    /\ died = LongMax
    /\ x \notin clause
    /\ Cardinality(clause) < MaxPredicates
    /\ Cardinality(clause) > 0 => x.op # "Ands"
    /\ Cardinality(clause) > 1 => clause \subseteq Operands
    /\ clause' = clause \cup {x}
    /\ UNCHANGED <<born, died>>

\* The entity is deleted at version v.
Deleted(v) ==
    /\ died = LongMax
    /\ died' = v
    /\ UNCHANGED <<clause, born>>

ClauseNext ==
    \/ \E x \in Operands : Where(x)
    \/ /\ Cardinality(clause) < 2
       /\ \E x \in Disjunctions \cup Conjunctions : Where(x)
    \/ \E v \in born..LongMax - 1 : Deleted(v)

ClauseSpec == ClauseInit /\ [][ClauseNext]_clauseVars

-----------------------------------------------------------------------------
Alive == born..died

\* What a comparison asks of a life, without reference to how it is tested.
MeetsOperand(x) ==
    CASE x.op \in {"=", "literal"} -> x.rhs \in Alive
      [] x.op = "<"  -> \A t \in Alive : t < x.rhs
      [] x.op = "<=" -> \A t \in Alive : t <= x.rhs
      [] x.op = ">"  -> \A t \in Alive : t > x.rhs
      [] x.op = ">=" -> \A t \in Alive : t >= x.rhs

Meets(x) ==
    CASE x.op = "Ands" -> \A y \in x.exprs : MeetsOperand(y)
      [] x.op = "Ors"  -> \E y \in x.exprs : MeetsOperand(y)
      [] OTHER -> MeetsOperand(x)

Understood(x) ==
    IF x.op \in {"Ands", "Ors"} THEN \A y \in x.exprs : Readable(y) ELSE Readable(x)

\* The filter that TransFormer builds selects an entity exactly when its life
\* meets every predicate of the clause, through every way the predicates are
\* packed (none, one, AndFilter of two, AndsFilter of more), and the
\* transformation throws exactly when some comparison is not with a literal.
FilterMeansPredicates ==
    IF \A p \in clause : Understood(p)
    THEN IsOk(Transform(clause), born, died) <=> \A p \in clause : Meets(p)
    ELSE Transform(clause) = Unreadable
=============================================================================
