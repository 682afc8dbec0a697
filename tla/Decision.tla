------------------------------ MODULE Decision ------------------------------
(***************************************************************************)
(* The vocabulary of decisions: evidence statuses, verdicts, and what the  *)
(* decision policy concludes from a set of statuses and from a plan.       *)
(* An obligation is a record with an id and the set of the criteria it     *)
(* checks; its kind, description and payload decide nothing here.          *)
(***************************************************************************)
EXTENDS FiniteSets

Statuses == {"PASSED", "FAILED", "INCONCLUSIVE", "ERROR"}

Verdicts == {"VERIFIED", "REJECTED", "INCONCLUSIVE", "ERROR"}

\* The precedence of the statuses a plan produced.  The last alternative is
\* the fail-closed branch of the code: no status at all is an ERROR.
VerdictOf(statuses) ==
  IF "ERROR" \in statuses THEN "ERROR"
  ELSE IF "INCONCLUSIVE" \in statuses THEN "INCONCLUSIVE"
  ELSE IF "FAILED" \in statuses THEN "REJECTED"
  ELSE IF statuses = {"PASSED"} THEN "VERIFIED"
  ELSE "ERROR"

\* The criteria named by the obligations of a plan.
CriteriaOf(plan) == UNION {o.criteria : o \in plan}

\* The policy decides only a non-empty plan that names every authorized
\* criterion and no other one; it raises ValueError for any other plan.
Decidable(criteria, plan) ==
  /\ plan # {}
  /\ CriteriaOf(plan) = criteria

\* What a plan concludes, given the status of each of its obligations.
Conclusion(plan, status) == VerdictOf({status[o] : o \in plan})
=============================================================================
