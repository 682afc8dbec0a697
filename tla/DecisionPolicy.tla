--------------------------- MODULE DecisionPolicy ---------------------------
(***************************************************************************)
(* DecisionPolicy.decide (decision.py) as the loop the code runs: the      *)
(* checks on the ids, one iteration per obligation that fills `mapped`,    *)
(* the coverage check, and the verdict.  The inputs are any sequences of   *)
(* well-formed values; every ValueError is the outcome "refused".          *)
(***************************************************************************)
EXTENDS Decision, SequencesExt

CONSTANTS
  CriterionIds,     \* every criterion id a spec or an obligation may name
  ObligationIds,    \* every obligation id
  MaxObligations    \* the longest obligation tuple

ASSUME MaxObligationsIsNat == MaxObligations \in Nat

VARIABLES
  criteria,      \* criterion ids of the authorized spec, in order
  obligations,   \* the obligation tuple
  observations,  \* the observation tuple
  next,          \* index of the obligation the mapping loop reads next
  mapped,        \* criterion id -> ids of the obligations that name it
  step,          \* where the call is
  outcome        \* "none", "refused" or the verdict

vars == <<criteria, obligations, observations, next, mapped, step, outcome>>
inputs == <<criteria, obligations, observations>>

Obligation  == [id : ObligationIds, criteria : SUBSET CriterionIds \ {{}}]
Observation == [obligation_id : ObligationIds, status : Statuses]

\* SpecProposal refuses empty or repeated criteria, so a spec never has them.
AuthorizedCriteria ==
  {s \in SeqOf(CriterionIds, Cardinality(CriterionIds)) : s # <<>> /\ IsInjective(s)}

Init ==
  /\ criteria \in AuthorizedCriteria
  /\ obligations \in SeqOf(Obligation, MaxObligations)
  /\ observations \in SeqOf(Observation, MaxObligations)
  /\ next = 1
  /\ mapped = [c \in ToSet(criteria) |-> <<>>]
  /\ step = "ids"
  /\ outcome = "none"

Refuse ==
  /\ step' = "done"
  /\ outcome' = "refused"
  /\ UNCHANGED <<next, mapped>>

UniqueIds == \A i, j \in 1..Len(obligations) :
               obligations[i].id = obligations[j].id => i = j

ObservationsMatch ==
  /\ Len(observations) = Len(obligations)
  /\ \A i \in 1..Len(obligations) :
       observations[i].obligation_id = obligations[i].id

\* The guards before the loop: non-empty plan, unique ids, observations in
\* the order of the obligations.
CheckIds ==
  /\ step = "ids"
  /\ IF obligations # <<>> /\ UniqueIds /\ ObservationsMatch
     THEN /\ step' = "map"
          /\ UNCHANGED <<next, mapped, outcome>>
     ELSE Refuse
  /\ UNCHANGED inputs

\* Mutant: a later obligation replaces the trace instead of extending it.
MapObligationReplaces ==
  /\ step = "map"
  /\ next <= Len(obligations)
  /\ LET o == obligations[next] IN
       IF o.criteria \subseteq DOMAIN mapped
       THEN /\ mapped' = [c \in DOMAIN mapped |->
                            IF c \in o.criteria THEN <<o.id>> ELSE mapped[c]]
            /\ next' = next + 1
            /\ UNCHANGED <<step, outcome>>
       ELSE Refuse
  /\ UNCHANGED inputs

\* One iteration: an unknown criterion refuses the call, a known one gains
\* this obligation at the end of its list.
MapObligation ==
  /\ step = "map"
  /\ next <= Len(obligations)
  /\ LET o == obligations[next] IN
       IF o.criteria \subseteq DOMAIN mapped
       THEN /\ mapped' = [c \in DOMAIN mapped |->
                            IF c \in o.criteria THEN Append(mapped[c], o.id)
                                                ELSE mapped[c]]
            /\ next' = next + 1
            /\ UNCHANGED <<step, outcome>>
       ELSE Refuse
  /\ UNCHANGED inputs

\* Mutant: only a plan that covers nothing is refused (all for any).
CheckCoverageAll ==
  /\ step = "map"
  /\ next > Len(obligations)
  /\ IF \A c \in DOMAIN mapped : mapped[c] = <<>>
     THEN Refuse
     ELSE /\ step' = "conclude"
          /\ UNCHANGED <<next, mapped, outcome>>
  /\ UNCHANGED inputs

CheckCoverage ==
  /\ step = "map"
  /\ next > Len(obligations)
  /\ IF \E c \in DOMAIN mapped : mapped[c] = <<>>
     THEN Refuse
     ELSE /\ step' = "conclude"
          /\ UNCHANGED <<next, mapped, outcome>>
  /\ UNCHANGED inputs

Conclude ==
  /\ step = "conclude"
  /\ outcome' = VerdictOf({observations[i].status : i \in 1..Len(observations)})
  /\ step' = "done"
  /\ UNCHANGED <<next, mapped>>
  /\ UNCHANGED inputs

Next == CheckIds \/ MapObligation \/ CheckCoverage \/ Conclude

Spec == Init /\ [][Next]_vars

-----------------------------------------------------------------------------
(* Properties *)

TypeOK ==
  /\ criteria \in AuthorizedCriteria
  /\ obligations \in SeqOf(Obligation, MaxObligations)
  /\ observations \in SeqOf(Observation, MaxObligations)
  /\ next \in 1..(MaxObligations + 1)
  /\ mapped \in [ToSet(criteria) -> Seq(ObligationIds)]
  /\ step \in {"ids", "map", "conclude", "done"}
  /\ outcome \in Verdicts \cup {"none", "refused"}

\* What the whole call must return, stated without the loop: the status of
\* an obligation is the one observed at its place, and the plan is decided
\* exactly when it covers the authorized criteria.
Plan == ToSet(obligations)
StatusAt(o) == observations[CHOOSE i \in 1..Len(obligations) : obligations[i] = o].status
Expected ==
  IF UniqueIds /\ ObservationsMatch /\ Decidable(ToSet(criteria), Plan)
  THEN Conclusion(Plan, [o \in Plan |-> StatusAt(o)])
  ELSE "refused"

\* The loop computes the verdict of the declarative definition the kernel and
\* runtime models use (DecisionPolicy.decide as a whole).
DecidesAsExpected == step = "done" => outcome = Expected

\* The policy says VERIFIED only when every authorized criterion is traced to
\* an obligation of the plan and every obligation of the plan was observed
\* PASSED: no criterion is approved on the strength of another one's check.
VerifiedIsEarned ==
  outcome = "VERIFIED" =>
    /\ \A c \in ToSet(criteria) : \E i \in 1..Len(obligations) :
         /\ c \in obligations[i].criteria
         /\ observations[i] = [obligation_id |-> obligations[i].id, status |-> "PASSED"]
    /\ \A i \in 1..Len(observations) : observations[i].status = "PASSED"

\* The trace of a criterion lists exactly the obligations that name it, in the
\* order of the plan: the receipt that embeds it can be recomputed.
TracesExact ==
  step = "conclude" =>
    \A c \in DOMAIN mapped :
      /\ ToSet(mapped[c]) =
           {obligations[i].id : i \in {k \in 1..Len(obligations) : c \in obligations[k].criteria}}
      /\ \A i, j \in 1..Len(obligations) : \A m, n \in 1..Len(mapped[c]) :
           (mapped[c][m] = obligations[i].id /\ mapped[c][n] = obligations[j].id /\ m < n)
             => i < j
=============================================================================
