---------------------------- MODULE FilterVersion ----------------------------
(***************************************************************************)
(* The version filters of cn.DynamicGraph.Version: what FilterVersion.isOk *)
(* answers for an entity created at version s and deleted at version e,    *)
(* and how TransFormer turns the predicates of a query's version clause    *)
(* into one filter.                                                        *)
(*                                                                         *)
(* A filter is a comparison, or a connective over comparisons, or a        *)
(* connective over both: the planner hands TransFormer a conjunction of    *)
(* predicates, each a comparison or a disjunction or conjunction of        *)
(* comparisons, so two levels of connectives are all that can be built.    *)
(***************************************************************************)
EXTENDS Integers, FiniteSets

CONSTANTS
    Version,     \* the versions that queries and clients name
    LongMax,     \* Long.MAX_VALUE, the delete version of a live entity
    Unreadable   \* the outcome of a transformation that throws

ASSUME VersionAssumption ==
    /\ LongMax \in Int
    /\ Version \subseteq Int
    /\ \A v \in Version : v <= LongMax

-----------------------------------------------------------------------------
Comparison == [op : {"at", "lt", "le", "gt", "ge"}, version : Version]

CompareOk(f, s, e) ==
    CASE f.op = "at" -> s <= f.version /\ e >= f.version
      [] f.op = "lt" -> e < f.version
      [] f.op = "le" -> e <= f.version
      [] f.op = "gt" -> s > f.version
      [] f.op = "ge" -> s >= f.version

\* A faulty variant of CompareOk: a half-open life, as if an entity deleted
\* at v were already gone at v.
CompareOkHalfOpen(f, s, e) ==
    CASE f.op = "at" -> s <= f.version /\ e > f.version
      [] f.op = "lt" -> e < f.version
      [] f.op = "le" -> e <= f.version
      [] f.op = "gt" -> s > f.version
      [] f.op = "ge" -> s >= f.version

Connective(F) == [op : {"ands", "ors"}, filters : (SUBSET F) \ {{}}]
Clause == Comparison \cup Connective(Comparison)
NoneFilter == [op |-> "none"]
AtFilter(v) == [op |-> "at", version |-> v]
AndFilter(l, r) == [op |-> "and", left |-> l, right |-> r]
Filter == {NoneFilter} \cup Clause \cup [op : {"and"}, left : Clause, right : Clause]
             \cup Connective(Clause)

\* To throw is not to return a filter.
ASSUME OutcomeAssumption == Unreadable \notin Filter

ClauseOk(f, s, e) ==
    CASE f.op = "ands" -> \A g \in f.filters : CompareOk(g, s, e)
      [] f.op = "ors"  -> \E g \in f.filters : CompareOk(g, s, e)
      [] OTHER -> CompareOk(f, s, e)

\* FilterVersion.isOk of every filter class.
IsOk(f, s, e) ==
    CASE f.op = "none" -> TRUE
      [] f.op = "and"  -> ClauseOk(f.left, s, e) /\ ClauseOk(f.right, s, e)
      [] f.op = "ands" -> \A g \in f.filters : ClauseOk(g, s, e)
      [] f.op = "ors"  -> \E g \in f.filters : ClauseOk(g, s, e)
      [] OTHER -> ClauseOk(f, s, e)

-----------------------------------------------------------------------------
(* Expressions of a version clause: [op, rhs] compares the version with a  *)
(* literal, or with something that is not a literal (rhs = Unreadable:     *)
(* asInstanceOf throws); ["literal"] is a bare version; "other" is any     *)
(* expression transFormer has no case for (MatchError).                    *)

Operand == [op : {"=", "<", "<=", ">", ">=", "literal"}, rhs : Version]
             \cup [op : {"=", "<", "<=", ">", ">="}, rhs : {Unreadable}]
             \cup [op : {"other"}]

\* The filter class that stands for each comparison.
FilterOp == [o \in {"=", "<", "<=", ">", ">=", "literal"} |->
    CASE o \in {"=", "literal"} -> "at"
      [] o = "<"  -> "lt"
      [] o = "<=" -> "le"
      [] o = ">"  -> "gt"
      [] o = ">=" -> "ge"]

Readable(x) == x.op # "other" /\ x.rhs # Unreadable

TransformOperand(x) ==
    IF Readable(x) THEN [op |-> FilterOp[x.op], version |-> x.rhs] ELSE Unreadable

\* transFormer(p: Expression).
TransformExpr(x) ==
    IF x.op \in {"Ands", "Ors"}
    THEN IF \E y \in x.exprs : ~Readable(y) THEN Unreadable
         ELSE [op |-> IF x.op = "Ands" THEN "ands" ELSE "ors",
               filters |-> {TransformOperand(y) : y \in x.exprs}]
    ELSE TransformOperand(x)

\* A faulty variant of Transform: only the first predicate of two is kept.
TransformDropsSecond(P) ==
    IF P = {} THEN NoneFilter
    ELSE LET F == {TransformExpr(p) : p \in P} IN
         IF Unreadable \in F THEN Unreadable
         ELSE IF Cardinality(P) <= 2 THEN CHOOSE f \in F : TRUE
         ELSE [op |-> "ands", filters |-> F]

\* transFormer(p: Set[Predicate]): nothing, one, two, or more predicates.
Transform(P) ==
    IF P = {} THEN NoneFilter
    ELSE LET F == {TransformExpr(p) : p \in P} IN
         IF Unreadable \in F THEN Unreadable
         ELSE IF Cardinality(P) = 1 THEN CHOOSE f \in F : TRUE
         ELSE IF Cardinality(P) = 2
              THEN \* head and last of a Set, in whichever order it iterates
                   LET first == CHOOSE p \in P : TRUE
                       other == CHOOSE p \in P : p # first
                   IN AndFilter(TransformExpr(first), TransformExpr(other))
              ELSE [op |-> "ands", filters |-> F]

=============================================================================
