---------------------------- MODULE MCTrustKernel ----------------------------
(* Two runs of one task, an approved spec and one the policy refuses, and    *)
(* the evidence a backend may authenticate about them.                       *)
EXTENDS TrustKernel

CONSTANTS run1, run2, task, crit1, crit2, ob1, ob2, m1, m2

MCContexts == {[run |-> run1, task |-> task], [run |-> run2, task |-> task]}
ctx1 == [run |-> run1, task |-> task]
ctx2 == [run |-> run2, task |-> task]

spec1 == [task |-> task, criteria |-> {crit1, crit2}]
spec2 == [task |-> task, criteria |-> {crit1}]
MCProposals == {spec1, spec2}

claim1 == [id |-> m1, run |-> run1]
claim2 == [id |-> m2, run |-> run2]
MCApproved == {spec1}

MCClaims == {claim1, claim2}

both == {[id |-> ob1, criteria |-> {crit1}], [id |-> ob2, criteria |-> {crit2}]}
first == {[id |-> ob1, criteria |-> {crit1}]}

Evidence(c, s, m, plan, failing) ==
  [context |-> c, spec |-> s, claim |-> m,
   status |-> [o \in plan |-> IF o.id \in failing THEN "FAILED" ELSE "PASSED"]]

\* A passing and a failing bundle, one that leaves a criterion uncovered, one
\* for the unapproved spec, and one that binds the claim of another run.
good    == Evidence(ctx1, spec1, claim1, both, {})
bad     == Evidence(ctx1, spec1, claim1, both, {ob2})
partial == Evidence(ctx1, spec1, claim1, first, {})
other   == Evidence(ctx1, spec2, claim1, first, {})
crossed == Evidence(ctx1, spec1, claim2, both, {})
MCCandidates == {good, bad, partial, other, crossed}

\* Every mix of values in one call.
Mixed == [context : MCContexts, spec : MCProposals, claim : MCClaims,
          evidence : MCCandidates]

\* The values of one run, passed as they belong together.
Args(b) == [context |-> b.context, spec |-> b.spec, claim |-> b.claim, evidence |-> b]

\* A failing and two passing bundles of two runs, and a call that mixes them up.
good2 == Evidence(ctx2, spec1, claim2, both, {})
RaceCandidates == {good, bad, good2}
RaceArguments == {Args(b) : b \in RaceCandidates} \cup {[Args(good) EXCEPT !.claim = claim2]}

\* Start after the authorities have done their part: a state Spec reaches.
Prepared ==
  /\ opened = MCContexts /\ authorized = MCApproved /\ signed = Candidates
  /\ issued = {} /\ known = {}
  /\ used = [id \in ReceiptIds |-> Unused]
  /\ audit = <<[run |-> run1, kind |-> "RUN_OPENED", subject |-> ctx1],
               [run |-> run2, kind |-> "RUN_OPENED", subject |-> ctx2]>>
  /\ released = <<>>
  /\ pc = [t \in Threads |-> "idle"]
  /\ call = [t \in Threads |-> NoCall]
  /\ calls = 0 /\ faults = 0 /\ restarts = 0

PreparedSpec == Prepared /\ [][Next]_vars
=============================================================================
