------------------------ MODULE DecisionPolicyProofs ------------------------
(* A VERIFIED decision is earned for every spec, plan and observations.     *)
EXTENDS DecisionPolicy, SequenceTheorems, TLAPS

\* A bounded sequence is a sequence no longer than the bound.
LEMMA SeqOfIsSeq ==
  ASSUME NEW S, NEW n \in Nat, NEW s \in SeqOf(S, n)
  PROVE  s \in Seq(S) /\ Len(s) \in 0..n /\ DOMAIN s = 1..Len(s)
<1>1. PICK k \in 0..n : s \in [1..k -> S]
  BY DEF SeqOf
<1>2. s \in Seq(S)
  BY <1>1, SeqDef
<1>3. Len(s) = k
  BY <1>1, <1>2, LenProperties
<1> QED
  BY <1>2, <1>3, LenProperties

\* More obligations never turn a plan that was not VERIFIED into one that is:
\* what a critic adds to the baseline can only make the verdict worse.
THEOREM AddedChecksNeverUpgrade ==
  ASSUME NEW plan, NEW larger, plan \subseteq larger, plan # {},
         NEW status, Conclusion(larger, status) = "VERIFIED"
  PROVE  Conclusion(plan, status) = "VERIFIED"
<1>1. \A o \in larger : status[o] = "PASSED"
  BY DEF Conclusion, VerdictOf
<1>2. {status[o] : o \in plan} = {"PASSED"}
  BY <1>1
<1> QED
  BY <1>2 DEF Conclusion, VerdictOf

-----------------------------------------------------------------------------
(* The inputs never change and are well-formed sequences. *)

LEMMA InputFacts ==
  ASSUME TypeOK
  PROVE  /\ obligations \in Seq(Obligation) /\ Len(obligations) \in 0..MaxObligations
         /\ observations \in Seq(Observation)
         /\ DOMAIN obligations = 1..Len(obligations)
         /\ DOMAIN observations = 1..Len(observations)
BY MaxObligationsIsNat, SeqOfIsSeq DEF TypeOK

\* What the loop has established: the ids were checked, a criterion with a
\* non-empty trace is named by an obligation already read, and no verdict is
\* given before the end.
LoopInv ==
  /\ TypeOK
  /\ next \in 1..(Len(obligations) + 1)
  /\ step \in {"map", "conclude"} => obligations # <<>> /\ ObservationsMatch
  /\ step # "done" => outcome = "none"
  /\ \A c \in ToSet(criteria) : mapped[c] # <<>> =>
       \E i \in 1..Len(obligations) : c \in obligations[i].criteria
  /\ step = "conclude" => \A c \in ToSet(criteria) : mapped[c] # <<>>
  /\ VerifiedIsEarned

LEMMA LoopInvInit == Init => LoopInv
<1> SUFFICES ASSUME Init PROVE LoopInv
  OBVIOUS
<1>1. TypeOK
  BY MaxObligationsIsNat DEF Init, TypeOK
<1>2. next \in 1..(Len(obligations) + 1)
  BY <1>1, InputFacts DEF Init
<1> QED
  BY <1>1, <1>2 DEF Init, LoopInv, VerifiedIsEarned

LEMMA CheckIdsKeeps == LoopInv /\ CheckIds => LoopInv'
<1> SUFFICES ASSUME LoopInv, CheckIds PROVE LoopInv'
  OBVIOUS
<1>1. TypeOK'
  BY DEF LoopInv, TypeOK, CheckIds, Refuse, inputs
<1> QED
  BY <1>1 DEF LoopInv, CheckIds, Refuse, inputs, ObservationsMatch, VerifiedIsEarned

LEMMA MapObligationKeeps == LoopInv /\ MapObligation => LoopInv'
<1> SUFFICES ASSUME LoopInv, MapObligation PROVE LoopInv'
  OBVIOUS
<1> DEFINE o == obligations[next]
<1>0. /\ TypeOK
      /\ next \in 1..Len(obligations)
      /\ next + 1 \in 1..(Len(obligations) + 1)
      /\ next + 1 \in 1..(MaxObligations + 1)
      /\ o \in Obligation
  BY InputFacts, MaxObligationsIsNat, ElementOfSeq DEF LoopInv, MapObligation, TypeOK
<1>1. CASE o.criteria \subseteq DOMAIN mapped
  <2>1. /\ mapped' = [c \in DOMAIN mapped |->
                       IF c \in o.criteria THEN Append(mapped[c], o.id) ELSE mapped[c]]
        /\ next' = next + 1
        /\ UNCHANGED <<step, outcome, criteria, obligations, observations>>
    BY <1>1 DEF MapObligation, inputs
  <2>2. DOMAIN mapped = ToSet(criteria) /\ o.id \in ObligationIds
    BY <1>0 DEF TypeOK, Obligation
  <2>3. mapped' \in [ToSet(criteria') -> Seq(ObligationIds)]
    BY <1>0, <2>1, <2>2 DEF TypeOK
  <2>4. TypeOK'
    BY <1>0, <2>1, <2>3 DEF TypeOK
  <2>5. step = "map"
    BY DEF MapObligation
  <2>6. \A c \in ToSet(criteria) : mapped'[c] # <<>> =>
          \E i \in 1..Len(obligations) : c \in obligations[i].criteria
    BY <1>0, <2>1, <2>2 DEF LoopInv
  <2> QED
    BY <1>0, <2>1, <2>4, <2>5, <2>6 DEF LoopInv, ObservationsMatch, VerifiedIsEarned
<1>2. CASE ~(o.criteria \subseteq DOMAIN mapped)
  <2>1. Refuse /\ UNCHANGED inputs
    BY <1>2 DEF MapObligation
  <2> QED
    BY <2>1 DEF Refuse, inputs, LoopInv, TypeOK, VerifiedIsEarned
<1> QED
  BY <1>1, <1>2

LEMMA CheckCoverageKeeps == LoopInv /\ CheckCoverage => LoopInv'
<1> SUFFICES ASSUME LoopInv, CheckCoverage PROVE LoopInv'
  OBVIOUS
<1>1. TypeOK'
  BY DEF LoopInv, TypeOK, CheckCoverage, Refuse, inputs
<1>2. DOMAIN mapped = ToSet(criteria)
  BY DEF LoopInv, TypeOK
<1> QED
  BY <1>1, <1>2 DEF LoopInv, CheckCoverage, Refuse, inputs, ObservationsMatch, VerifiedIsEarned

\* The verdict of the last step is VERIFIED only for all-PASSED observations,
\* and by then every criterion has a non-empty trace.
LEMMA ConcludeKeeps == LoopInv /\ Conclude => LoopInv'
<1> SUFFICES ASSUME LoopInv, Conclude PROVE LoopInv'
  OBVIOUS
<1> DEFINE seen == {observations[i].status : i \in 1..Len(observations)}
<1>1. outcome' = VerdictOf(seen) /\ step' = "done"
      /\ UNCHANGED <<next, mapped, criteria, obligations, observations>>
  BY DEF Conclude, inputs
<1>2. TypeOK'
  BY <1>1 DEF LoopInv, TypeOK, VerdictOf, Verdicts
<1>3. VerifiedIsEarned'
  <2> SUFFICES ASSUME outcome' = "VERIFIED" PROVE VerifiedIsEarned'
    BY DEF VerifiedIsEarned
  <2>1. \A i \in 1..Len(observations) : observations[i].status = "PASSED"
    BY <1>1 DEF VerdictOf
  <2>2. /\ Len(observations) = Len(obligations)
        /\ \A i \in 1..Len(obligations) :
             observations[i].obligation_id = obligations[i].id
    BY DEF LoopInv, Conclude, ObservationsMatch
  <2>3. \A i \in 1..Len(obligations) :
          observations[i] = [obligation_id |-> obligations[i].id, status |-> "PASSED"]
    <3>1. \A i \in 1..Len(observations) : observations[i] \in Observation
      BY InputFacts, ElementOfSeq DEF LoopInv
    <3> QED
      BY <2>1, <2>2, <3>1 DEF Observation
  <2>4. \A c \in ToSet(criteria) : \E i \in 1..Len(obligations) : c \in obligations[i].criteria
    BY DEF LoopInv, Conclude
  <2> QED
    BY <1>1, <2>1, <2>3, <2>4 DEF VerifiedIsEarned
<1> QED
  BY <1>1, <1>2, <1>3 DEF LoopInv

THEOREM LoopInvariance == Spec => []LoopInv
<1>1. LoopInv /\ UNCHANGED vars => LoopInv'
  BY DEF LoopInv, vars, TypeOK, ObservationsMatch, VerifiedIsEarned
<1>2. LoopInv /\ [Next]_vars => LoopInv'
  BY <1>1, CheckIdsKeeps, MapObligationKeeps, CheckCoverageKeeps, ConcludeKeeps DEF Next
<1> QED
  BY <1>2, LoopInvInit, PTL DEF Spec

\* No criterion is approved without a passing obligation of its own, and no
\* VERIFIED decision hides a status other than PASSED.
THEOREM VerifiedIsEarnedHolds == Spec => []VerifiedIsEarned
<1>1. LoopInv => VerifiedIsEarned
  BY DEF LoopInv
<1> QED
  BY <1>1, LoopInvariance, PTL

-----------------------------------------------------------------------------
(* The traces, and the verdict *)

\* The trace of a criterion, of the obligations before n: it lists those that
\* name the criterion, and no other, in their order.
Traces(trace, c, n) ==
  /\ \A m \in 1..Len(trace) : \E i \in 1..(n - 1) :
       c \in obligations[i].criteria /\ trace[m] = obligations[i].id
  /\ \A i \in 1..(n - 1) : c \in obligations[i].criteria =>
       \E m \in 1..Len(trace) : trace[m] = obligations[i].id
  /\ \A i, j \in 1..(n - 1) : \A k, m \in 1..Len(trace) :
       trace[k] = obligations[i].id /\ trace[m] = obligations[j].id /\ k < m => i < j

\* What the loop has established about the obligations it has read.
TracedSoFar ==
  /\ step = "ids" => next = 1 /\ \A c \in ToSet(criteria) : mapped[c] = <<>>
  /\ step \in {"map", "conclude"} =>
       /\ UniqueIds
       /\ \A i \in 1..(next - 1) : obligations[i].criteria \subseteq ToSet(criteria)
       /\ \A c \in ToSet(criteria) : Traces(mapped[c], c, next)
  /\ step = "conclude" => next = Len(obligations) + 1

LEMMA TraceExtended ==
  ASSUME NEW n \in 1..Len(obligations), obligations \in Seq(Obligation), UniqueIds,
         NEW trace \in Seq(ObligationIds), NEW c, Traces(trace, c, n)
  PROVE  Traces(IF c \in obligations[n].criteria THEN Append(trace, obligations[n].id) ELSE trace,
                c, n + 1)
<1>1. n \in 1..((n + 1) - 1) /\ \A i \in 1..((n + 1) - 1) : i \in 1..(n - 1) \/ i = n
  OBVIOUS
<1>2. \A i \in 1..(n - 1) : i \in 1..((n + 1) - 1) /\ i \in 1..Len(obligations) /\ i < n
  OBVIOUS
<1>3. \A i, j \in 1..((n + 1) - 1) : obligations[i].id = obligations[j].id => i = j
  BY DEF UniqueIds
<1>4. CASE c \notin obligations[n].criteria
  <2>1. \A m \in 1..Len(trace) : trace[m] # obligations[n].id
    BY <1>1, <1>2, <1>3, <1>4 DEF Traces
  <2> QED BY <1>1, <1>2, <1>4, <2>1 DEF Traces
<1>5. CASE c \in obligations[n].criteria
  <2>1. PICK id, longer : id = obligations[n].id /\ longer = Append(trace, id)
    OBVIOUS
  <2>2. id \in ObligationIds
    <3>1. obligations[n] \in Obligation
      BY ElementOfSeq
    <3> QED BY <2>1, <3>1 DEF Obligation
  <2>3. /\ Len(longer) = Len(trace) + 1 /\ Len(trace) \in Nat /\ longer[Len(trace) + 1] = id
        /\ \A m \in 1..Len(trace) : longer[m] = trace[m]
    BY <2>1, <2>2
  <2>4. \A m \in 1..Len(longer) : m \in 1..Len(trace) \/ m = Len(trace) + 1
    BY <2>3
  <2>5. \A m \in 1..Len(trace) : m \in 1..Len(longer) /\ m < Len(trace) + 1
    BY <2>3
  <2>6. Len(trace) + 1 \in 1..Len(longer)
    BY <2>3
  <2>7. \A m \in 1..Len(trace) : trace[m] # id
    BY <1>1, <1>2, <1>3, <2>1 DEF Traces
  <2>8. ASSUME NEW m \in 1..Len(longer)
        PROVE  \E i \in 1..((n + 1) - 1) : c \in obligations[i].criteria /\ longer[m] = obligations[i].id
    BY <1>2, <1>5, <2>1, <2>3, <2>4 DEF Traces
  <2>9. ASSUME NEW i \in 1..((n + 1) - 1), c \in obligations[i].criteria
        PROVE  \E m \in 1..Len(longer) : longer[m] = obligations[i].id
    BY <1>1, <2>1, <2>3, <2>5, <2>6, <2>9 DEF Traces
  <2>10. ASSUME NEW i \in 1..((n + 1) - 1), NEW j \in 1..((n + 1) - 1),
                NEW k \in 1..Len(longer), NEW m \in 1..Len(longer),
                longer[k] = obligations[i].id, longer[m] = obligations[j].id, k < m
         PROVE  i < j
    <3>1. k \in 1..Len(trace) /\ longer[k] = trace[k]
      BY <2>3, <2>10
    <3>2. i \in 1..(n - 1)
      BY <1>1, <2>1, <2>7, <2>10, <3>1
    <3>3. CASE m \in 1..Len(trace)
      <4>1. j \in 1..(n - 1)
        BY <1>1, <2>1, <2>3, <2>7, <2>10, <3>3
      <4> QED BY <2>3, <2>10, <3>1, <3>2, <3>3, <4>1 DEF Traces
    <3>4. CASE m = Len(trace) + 1
      <4>1. j = n
        BY <1>3, <2>1, <2>3, <2>10, <3>4
      <4> QED BY <3>2, <4>1
    <3> QED BY <2>4, <3>3, <3>4
  <2> QED BY <1>5, <2>1, <2>8, <2>9, <2>10 DEF Traces
<1> QED BY <1>4, <1>5

LEMMA TracedStep == LoopInv /\ TracedSoFar /\ [Next]_vars => TracedSoFar'
<1> SUFFICES ASSUME LoopInv, TracedSoFar, [Next]_vars PROVE TracedSoFar'
  OBVIOUS
<1>1. CASE UNCHANGED vars
  BY <1>1 DEF vars, TracedSoFar, Traces, UniqueIds
<1>2. CASE CheckIds
  <2>1. next = 1 /\ \A c \in ToSet(criteria) : mapped[c] = <<>>
    BY <1>2 DEF CheckIds, TracedSoFar
  <2> QED BY <1>2 DEF CheckIds, Refuse, inputs, TracedSoFar, Traces, UniqueIds
<1>3. CASE MapObligation
  <2>1. CASE Refuse
    BY <2>1 DEF Refuse, TracedSoFar
  <2>2. CASE ~Refuse
    <3> DEFINE o == obligations[next]
    <3>1. /\ step = "map" /\ step' = "map" /\ next' = next + 1 /\ next \in 1..Len(obligations)
          /\ mapped' = [c \in DOMAIN mapped |->
                          IF c \in o.criteria THEN Append(mapped[c], o.id) ELSE mapped[c]]
          /\ o.criteria \subseteq DOMAIN mapped /\ UNCHANGED <<criteria, obligations>>
      BY <1>3, <2>2 DEF MapObligation, LoopInv, inputs
    <3>2. obligations \in Seq(Obligation) /\ mapped \in [ToSet(criteria) -> Seq(ObligationIds)]
      BY InputFacts DEF LoopInv, TypeOK
    <3>3. ASSUME NEW c \in ToSet(criteria) PROVE Traces(mapped[c], c, next)'
      <4>1. PICK n, trace : n = next /\ trace = mapped[c] /\ trace \in Seq(ObligationIds)
        BY <3>2
      <4>2. Traces(IF c \in obligations[n].criteria THEN Append(trace, obligations[n].id)
                                                    ELSE trace, c, n + 1)
        BY <3>1, <3>2, <4>1, TraceExtended DEF TracedSoFar
      <4>3. /\ mapped'[c] = IF c \in obligations[n].criteria THEN Append(trace, obligations[n].id)
                                                            ELSE trace
            /\ next' = n + 1
        BY <3>1, <3>2, <4>1
      <4>4. PICK longer : longer = IF c \in obligations[n].criteria
                                   THEN Append(trace, obligations[n].id) ELSE trace
        OBVIOUS
      <4>5. /\ Traces(longer, c, n + 1) /\ mapped'[c] = longer
            /\ next' = n + 1 /\ obligations' = obligations
        BY <3>1, <4>2, <4>3, <4>4
      <4> QED BY <4>5 DEF Traces
    <3>4. \A i \in 1..(next' - 1) : i \in 1..(next - 1) \/ i = next
      BY <3>1
    <3> QED BY <3>1, <3>2, <3>3, <3>4 DEF TracedSoFar, UniqueIds
  <2> QED BY <2>1, <2>2
<1>4. CASE CheckCoverage
  <2>1. CASE Refuse
    BY <2>1 DEF Refuse, TracedSoFar
  <2>2. CASE ~Refuse
    <3>1. /\ step = "map" /\ step' = "conclude" /\ next = Len(obligations) + 1
          /\ UNCHANGED <<next, mapped, criteria, obligations>>
      BY <1>4, <2>2, InputFacts DEF CheckCoverage, inputs, LoopInv
    <3> QED BY <3>1 DEF TracedSoFar, Traces, UniqueIds
  <2> QED BY <2>1, <2>2
<1>5. CASE Conclude
  BY <1>5 DEF Conclude, TracedSoFar
<1> QED BY <1>1, <1>2, <1>3, <1>4, <1>5 DEF Next

\* The trace a receipt embeds lists exactly the obligations that name the
\* criterion, in the order of the plan, for any plan (DecisionPolicy.decide).
THEOREM TracesExactHolds == Spec => []TracesExact
<1>1. Init => TracedSoFar
  BY DEF Init, TracedSoFar
<1>2. LoopInv /\ TracedSoFar => TracesExact
  <2> SUFFICES ASSUME LoopInv, TracedSoFar, step = "conclude", NEW c \in DOMAIN mapped
               PROVE  /\ ToSet(mapped[c]) =
                           {obligations[i].id : i \in {k \in 1..Len(obligations) :
                                                         c \in obligations[k].criteria}}
                      /\ \A i, j \in 1..Len(obligations) : \A m, n \in 1..Len(mapped[c]) :
                           (mapped[c][m] = obligations[i].id /\ mapped[c][n] = obligations[j].id
                              /\ m < n) => i < j
    BY DEF TracesExact
  <2>1. /\ mapped[c] \in Seq(ObligationIds) /\ c \in ToSet(criteria) /\ Len(obligations) \in Nat
        /\ next - 1 = Len(obligations)
    BY InputFacts DEF LoopInv, TypeOK, TracedSoFar
  <2>2. Traces(mapped[c], c, next)
    BY <2>1 DEF TracedSoFar
  <2>3. ToSet(mapped[c]) = {mapped[c][m] : m \in 1..Len(mapped[c])}
    BY <2>1 DEF ToSet
  <2>4. ASSUME NEW id
        PROVE  id \in ToSet(mapped[c]) <=>
                 \E i \in 1..Len(obligations) : c \in obligations[i].criteria /\ id = obligations[i].id
    <3>1. id \in ToSet(mapped[c]) <=> \E m \in 1..Len(mapped[c]) : mapped[c][m] = id
      BY <2>3
    <3>2. PICK n, trace : n = next - 1 /\ trace = mapped[c] /\ n = Len(obligations)
      BY <2>1
    <3>3. /\ \A m \in 1..Len(trace) : \E i \in 1..n :
               c \in obligations[i].criteria /\ trace[m] = obligations[i].id
          /\ \A i \in 1..n : c \in obligations[i].criteria =>
               \E m \in 1..Len(trace) : trace[m] = obligations[i].id
      BY <2>2, <3>2 DEF Traces
    <3>4. id \in ToSet(trace) <=> \E m \in 1..Len(trace) : trace[m] = id
      BY <3>1, <3>2
    <3>5. id \in ToSet(trace) <=> \E i \in 1..n : c \in obligations[i].criteria /\ id = obligations[i].id
      BY <3>3, <3>4
    <3> QED BY <3>2, <3>5
  <2> QED BY <2>1, <2>2, <2>4 DEF Traces
<1> QED BY <1>1, <1>2, TracedStep, LoopInvariance, PTL DEF Spec

\* The reasons to refuse are those of the declarative definition, and the
\* verdict is its verdict.
LEMMA DecidedAsExpected ==
  LoopInv /\ TracedSoFar /\ DecidesAsExpected /\ [Next]_vars => DecidesAsExpected'
<1> SUFFICES ASSUME LoopInv, TracedSoFar, DecidesAsExpected, [Next]_vars
             PROVE  DecidesAsExpected'
  OBVIOUS
<1>1. criteria' = criteria /\ obligations' = obligations /\ observations' = observations
  BY DEF Next, vars, CheckIds, MapObligation, CheckCoverage, Conclude, inputs
<1>2. Expected' = Expected
  BY <1>1 DEF Expected, UniqueIds, ObservationsMatch, Plan, StatusAt, Conclusion, Decidable,
     CriteriaOf
<1>3. /\ obligations \in Seq(Obligation) /\ Len(obligations) \in Nat
      /\ DOMAIN obligations = 1..Len(obligations)
      /\ Plan = {obligations[i] : i \in 1..Len(obligations)}
  BY InputFacts DEF LoopInv, Plan, ToSet
<1>4. ASSUME step' = "done", step # "done" PROVE outcome' = Expected
  <2>1. CASE CheckIds
    <3>1. outcome' = "refused" /\ (obligations = <<>> \/ ~UniqueIds \/ ~ObservationsMatch)
      BY <1>4, <2>1 DEF CheckIds, Refuse
    <3>2. obligations = <<>> => Plan = {}
      BY <1>3
    <3> QED BY <3>1, <3>2 DEF Expected, Decidable
  <2>2. CASE MapObligation
    <3>1. /\ outcome' = "refused" /\ next \in 1..Len(obligations)
          /\ ~(obligations[next].criteria \subseteq DOMAIN mapped)
      BY <1>3, <1>4, <2>2 DEF MapObligation, Refuse, LoopInv
    <3>2. DOMAIN mapped = ToSet(criteria) /\ obligations[next] \in Plan
      BY <1>3, <3>1 DEF LoopInv, TypeOK
    <3>3. CriteriaOf(Plan) # ToSet(criteria)
      BY <3>1, <3>2 DEF CriteriaOf
    <3> QED BY <3>1, <3>3 DEF Expected, Decidable
  <2>3. CASE CheckCoverage
    <3>1. /\ outcome' = "refused" /\ next - 1 = Len(obligations)
          /\ \E c \in DOMAIN mapped : mapped[c] = <<>>
      BY <1>3, <1>4, <2>3 DEF CheckCoverage, Refuse, LoopInv
    <3>2. PICK c \in ToSet(criteria) : mapped[c] = <<>>
      BY <3>1 DEF LoopInv, TypeOK
    <3>3. Traces(mapped[c], c, next)
      BY <2>3, <3>2 DEF TracedSoFar, CheckCoverage
    <3>4. \A i \in 1..Len(obligations) : c \notin obligations[i].criteria
      BY <3>1, <3>2, <3>3 DEF Traces
    <3>5. c \notin CriteriaOf(Plan)
      BY <1>3, <3>4 DEF CriteriaOf
    <3> QED BY <3>1, <3>2, <3>5 DEF Expected, Decidable
  <2>4. CASE Conclude
    <3>1. /\ outcome' = VerdictOf({observations[i].status : i \in 1..Len(observations)})
          /\ step = "conclude"
      BY <2>4 DEF Conclude
    <3>2. /\ UniqueIds /\ ObservationsMatch /\ obligations # <<>>
          /\ next - 1 = Len(obligations)
          /\ \A c \in ToSet(criteria) : Traces(mapped[c], c, next) /\ mapped[c] # <<>>
          /\ \A i \in 1..(next - 1) : obligations[i].criteria \subseteq ToSet(criteria)
          /\ \A c \in ToSet(criteria) : mapped[c] \in Seq(ObligationIds)
      BY <1>3, <3>1 DEF LoopInv, TracedSoFar, TypeOK
    <3>3. Plan # {}
      <4>1. Len(obligations) # 0
        BY <1>3, <3>2
      <4>2. 1 \in 1..Len(obligations)
        BY <1>3, <4>1
      <4> QED BY <1>3, <4>2
    <3>4. CriteriaOf(Plan) = ToSet(criteria)
      <4>1. ASSUME NEW c \in ToSet(criteria) PROVE c \in CriteriaOf(Plan)
        <5>1. 1 \in 1..Len(mapped[c])
          BY <3>2
        <5>2. \E i \in 1..Len(obligations) : c \in obligations[i].criteria
          BY <3>2, <5>1 DEF Traces
        <5> QED BY <1>3, <5>2 DEF CriteriaOf
      <4>2. \A i \in 1..Len(obligations) : obligations[i].criteria \subseteq ToSet(criteria)
        BY <3>2
      <4>3. CriteriaOf(Plan) \subseteq ToSet(criteria)
        BY <1>3, <4>2 DEF CriteriaOf
      <4> QED BY <4>1, <4>3
    <3>5. ASSUME NEW i \in 1..Len(obligations) PROVE StatusAt(obligations[i]) = observations[i].status
      <4>1. \A k \in 1..Len(obligations) : obligations[k] = obligations[i] => k = i
        BY <3>2 DEF UniqueIds
      <4>2. (CHOOSE k \in 1..Len(obligations) : obligations[k] = obligations[i]) = i
        BY <4>1
      <4> QED BY <4>2 DEF StatusAt
    <3>6. {[p \in Plan |-> StatusAt(p)][o] : o \in Plan}
            = {observations[i].status : i \in 1..Len(observations)}
      <4>1. {[p \in Plan |-> StatusAt(p)][o] : o \in Plan} = {StatusAt(o) : o \in Plan}
        OBVIOUS
      <4>2. Len(observations) = Len(obligations)
        BY <3>2 DEF ObservationsMatch
      <4>3. ASSUME NEW x
            PROVE  x \in {StatusAt(o) : o \in Plan}
                     <=> \E i \in 1..Len(obligations) : x = StatusAt(obligations[i])
        BY <1>3
      <4>4. ASSUME NEW x
            PROVE  x \in {StatusAt(o) : o \in Plan}
                     <=> x \in {observations[i].status : i \in 1..Len(observations)}
        BY <3>5, <4>2, <4>3
      <4> QED BY <4>1, <4>4
    <3> QED BY <3>1, <3>2, <3>3, <3>4, <3>6 DEF Expected, Decidable, Conclusion
  <2> QED BY <1>4, <2>1, <2>2, <2>3, <2>4 DEF Next, vars
<1>5. ASSUME step = "done" PROVE outcome' = outcome
  BY <1>5 DEF Next, CheckIds, MapObligation, CheckCoverage, Conclude, vars
<1> QED BY <1>2, <1>4, <1>5 DEF DecidesAsExpected

\* For any spec, plan and observations the loop returns what the declarative
\* definition says, which is the one the kernel and the runtime are modelled
\* with (DecisionPolicy.decide).
THEOREM DecidesAsExpectedHolds == Spec => []DecidesAsExpected
<1>1. Init => TracedSoFar /\ DecidesAsExpected
  BY DEF Init, TracedSoFar, DecidesAsExpected
<1> QED BY <1>1, TracedStep, DecidedAsExpected, LoopInvariance, PTL DEF Spec
=============================================================================
