--------------------------- MODULE MCClauseQueries ---------------------------
(***************************************************************************)
(* Queries with a version clause: what the clause of a query is turned     *)
(* into (MCFilterVersion) and what two sessions read with filters          *)
(* (MCVersionedQueries).  The planner transforms a clause before the query *)
(* runs and shares no state with it: clauses are built first, and queries  *)
(* run then.                                                               *)
(***************************************************************************)
EXTENDS MCVersionedQueries, MCFilterVersion

VARIABLE planning   \* clauses are built; else queries run

PlanInit ==
    /\ planning \in BOOLEAN
    /\ QueryInit /\ ClauseInit
    /\ planning => present = Unversioned.present
    /\ ~planning => born = 0

Planned ==
    /\ planning /\ planning' = FALSE
    /\ clause' = {} /\ born' = 0 /\ died' = LongMax
    /\ UNCHANGED queryVars
Plan == planning /\ ClauseNext /\ UNCHANGED <<planning, queryVars>>
Run == ~planning /\ QueryNext /\ UNCHANGED <<planning, clauseVars>>

PlanSpec == PlanInit /\ [][Plan \/ Planned \/ Run]_<<planning, clauseVars, queryVars>>
=============================================================================
