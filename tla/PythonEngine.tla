---------------------------- MODULE PythonEngine ----------------------------
(***************************************************************************)
(* TrustGateEngine.run (engine.py), the sequential repair loop of the      *)
(* 0.1.x interface: planner, worker, critic and verifier are called        *)
(* through AgentCallBoundary (boundary.py), the verifier's receipt is      *)
(* bridged into the trust kernel (python_adapter.py), and only the         *)
(* kernel's gate mints an artifact.                                        *)
(*                                                                         *)
(* A component answers, with something usable or not, or raises.  What it  *)
(* raises matters in one way: a ComponentFailure cannot be built from a    *)
(* blank message, so the handler that was to contain the error raises      *)
(* instead.  Answers of a wrong type are an "error".  An exception that    *)
(* leaves run() ends the model in "raised", with its cause: a component,   *)
(* an interrupt, or one of log_state's prints, of which all but the one    *)
(* before the gate are outside every handler.  One run is modelled, on its *)
(* own context; the kernel is taken as in TrustKernel, its audit sink      *)
(* takes every event.                                                      *)
(***************************************************************************)
EXTENDS Decision, Naturals, Sequences

CONSTANTS
  Specs,           \* specs a planner may return
  OfTask,          \* those with the task id that was asked for
  Registered,      \* those the spec authority approves
  Codes,           \* what a worker may put in a claim
  Unwrappable,     \* codes of claims that pass validation but that
                   \*   claim_to_envelope refuses (an attempt of 1.0, say)
  Baseline,        \* the harness's own obligation
  Proposed,        \* obligations a critic may propose, Baseline included
  Allowed,         \* those the challenge policy allows
  MaxObligations,  \* the challenge policy's limit
  MaxRepairs,      \* engine.max_repairs
  ErrorKinds,      \* what components raise: "error", or "blank" for an
                   \*   exception whose message is only white space
  None             \* no value yet

Attempts == 1..(MaxRepairs + 1)

Claim == [attempt : Attempts, code : Codes]

\* A legacy receipt: what it is about, what passed, whether it is complete,
\* final and for this spec and protocol, and whether its signature verifies.
Receipt == [claim : Claim, obligations : SUBSET Proposed,
            passed : SUBSET Proposed, wellFormed : BOOLEAN, signed : BOOLEAN]

\* What run() returns.
Result == [status : {"APPROVED", "REJECTED"}, state : {"PASSED", "REJECTED"},
           attempts : 0..(MaxRepairs + 1), claim : Claim \cup {None},
           receipt : Receipt \cup {None}, verdict : Verdicts,
           artifact : Claim \cup {None}]

ASSUME EngineConstants ==
  /\ OfTask \subseteq Specs /\ Registered \subseteq Specs
  /\ Unwrappable \subseteq Codes
  /\ Baseline \in Proposed
  /\ Allowed \subseteq Proposed \ {Baseline}
  /\ MaxObligations \in Nat /\ MaxRepairs \in Nat
  /\ ErrorKinds \subseteq {"error", "blank"}
  /\ None \notin Specs \cup Claim \cup Receipt \cup Result
  /\ None # "unreachable"

VARIABLES
  pc,           \* the next call run() makes, or how it ended
  state,        \* engine.state
  spec,         \* the spec, once authorized
  attempt,
  round,        \* iteration of the repair loop
  claim,        \* the current claim
  parent,       \* the claim it repairs, or None
  obligations,  \* what the critic's challenge left to be verified
  receipt,      \* the verifier's receipt for the claim
  verdict,      \* the kernel's decision on the claim
  audit,        \* the events of this run
  result,       \* what run() is about to return or has returned, or None
  cause         \* why it raised, or None

vars == <<pc, state, spec, attempt, round, claim, parent, obligations, receipt,
          verdict, audit, result, cause>>
round_vars == <<attempt, round, claim, parent>>
check_vars == <<obligations, receipt, verdict>>

\* An audit event; a quarantined claim is recorded with the claim it repairs.
Event(kind, about) == [kind |-> kind, claim |-> about, parent |-> None]

Init ==
  /\ pc = "plan" /\ state = "PLANNING"
  /\ spec = None /\ attempt = 0 /\ round = 1 /\ claim = None /\ parent = None
  /\ obligations = {} /\ receipt = None /\ verdict = None
  /\ audit = <<Event("RUN_OPENED", None)>>
  /\ result = None /\ cause = None

-----------------------------------------------------------------------------
(* How a run ends *)

Ended == pc \in {"returned", "raised"}

Answer(status, about, evidence, answer, artifact) ==
  /\ result' = [status |-> status, state |-> state', attempts |-> attempt,
                claim |-> about, receipt |-> evidence, verdict |-> answer,
                artifact |-> artifact]
  /\ UNCHANGED <<spec, round_vars, check_vars, cause>>

Escape(why) ==
  /\ pc' = "raised"
  /\ cause' = why /\ result' = None
  /\ UNCHANGED <<state, spec, round_vars, check_vars, audit>>

\* The state comes first; the event, the print and the return follow.
GiveUp(events, about, evidence, answer) ==
  /\ pc' = "record" /\ state' = "REJECTED"
  /\ audit' = audit \o events
  /\ Answer("REJECTED", about, evidence, answer, None)

Record ==
  /\ pc = "record"
  /\ pc' = "report"
  /\ audit' = Append(audit, Event("RUN_REJECTED", result.claim))
  /\ UNCHANGED <<state, spec, round_vars, check_vars, result, cause>>

Report ==
  /\ pc = "report"
  /\ pc' = "returned"
  /\ UNCHANGED <<state, spec, round_vars, check_vars, audit, result, cause>>

\* log_state's print raises: the terminal is gone, or cannot encode what a
\* component's message says.  At these stages it comes next, outside every handler.
PrintFails ==
  /\ pc \in {"plan", "propose", "challenge", "verify", "repair", "report"}
  /\ Escape("print")

\* _reject_component_failure.
Reject(events, about, evidence) == GiveUp(events, about, evidence, "ERROR")

\* A component raised, and no second handler surrounds its call.  The boundary
\* normalizes the error; with a blank message that itself raises a ValueError.
\* (An answer that is refused is rejected with the harness's own message.)
Fails(about, evidence) ==
  \E e \in ErrorKinds :
    IF e = "error" THEN Reject(<<>>, about, evidence) ELSE Escape("component")

\* KeyboardInterrupt and GeneratorExit pass through every handler.
Interrupt ==
  /\ ~Ended
  /\ Escape("interrupt")

-----------------------------------------------------------------------------
(* Before the loop *)

CreateSpec ==
  /\ pc = "plan"
  /\ \/ \E s \in OfTask :
          /\ pc' = "authorize"
          /\ spec' = s
          /\ UNCHANGED <<state, round_vars, check_vars, audit, result, cause>>
     \/ Specs # OfTask /\ Reject(<<>>, None, None)
     \/ Fails(None, None)

AuthorizeSpec ==
  /\ pc = "authorize"
  /\ \/ /\ spec \in Registered
        /\ pc' = "propose" /\ state' = "WORKING" /\ attempt' = 1
        /\ UNCHANGED <<spec, round, claim, parent, check_vars, audit, result, cause>>
     \/ spec \notin Registered /\ Reject(<<>>, None, None)
     \/ Fails(None, None)

\* Mutant: any attempt number is accepted in a worker's claim.
WorkerAnswersAny(c) == TRUE

\* _validate_claim.
WorkerAnswers(c) == c.attempt = attempt

\* The worker answers propose or repair: a valid claim enters the loop.
WorkerReturns(about, evidence) ==
  \/ \E c \in Claim :
       /\ WorkerAnswers(c)
       /\ pc' = "wrap" /\ claim' = c
       /\ UNCHANGED <<state, spec, attempt, round, parent, check_vars, audit, result, cause>>
  \/ \E c \in Claim : ~WorkerAnswers(c) /\ Reject(<<>>, about, evidence)
  \/ Fails(about, evidence)

Propose ==
  /\ pc = "propose"
  /\ WorkerReturns(None, None)

-----------------------------------------------------------------------------
(* One iteration of the loop *)

\* The head of the loop, and claim_to_envelope, which no handler covers.
Wrap ==
  /\ pc = "wrap"
  /\ \/ /\ round <= MaxRepairs + 1 /\ claim.code \notin Unwrappable
        /\ pc' = "challenge" /\ state' = "CHALLENGING"
        /\ UNCHANGED <<spec, round_vars, check_vars, audit, result, cause>>
     \/ /\ round > MaxRepairs + 1 \/ claim.code \in Unwrappable
        /\ Escape(IF round > MaxRepairs + 1 THEN "unreachable" ELSE "component")

AuthorizedChallenge(proposals) ==
  {Baseline} \cup {proposals[i] : i \in DOMAIN proposals}

\* ChallengePolicy.authorize.
PolicyAccepts(proposals) ==
  /\ Len(proposals) <= MaxObligations
  /\ \A i \in DOMAIN proposals : proposals[i] \in Allowed
  /\ \A i, j \in DOMAIN proposals : proposals[i] = proposals[j] => i = j

\* Answers of up to one obligation more than the limit.
CriticAnswers == UNION {[1..n -> Proposed] : n \in 0..(MaxObligations + 1)}

\* Whatever the critic raises, and whatever the policy refuses, is rejected: a
\* second handler surrounds both.  What else its data raise in the policy comes to
\* that second handler at once.
Challenge ==
  /\ pc = "challenge"
  /\ \/ \E proposals \in CriticAnswers :
          /\ PolicyAccepts(proposals)
          /\ pc' = "verify" /\ state' = "VERIFYING"
          /\ obligations' = AuthorizedChallenge(proposals)
          /\ receipt' = None /\ verdict' = None
          /\ UNCHANGED <<spec, round_vars, audit, result, cause>>
     \/ Reject(<<>>, claim, None)
     \/ Fails(claim, None)

\* Mutant: a failed receipt is believed without its signature.
ReceiptValidUnsigned(r, require_pass) ==
  /\ r.wellFormed
  /\ r.claim = claim
  /\ r.obligations = obligations
  /\ require_pass => r.signed /\ r.obligations \subseteq r.passed

\* Mutant: the obligations of the receipt are not compared.
ReceiptValidAnyPlan(r, require_pass) ==
  /\ r.wellFormed
  /\ r.claim = claim
  /\ r.signed
  /\ require_pass => r.obligations \subseteq r.passed

\* TrustGate.validate_receipt.
ReceiptValid(r, require_pass) ==
  /\ r.wellFormed
  /\ r.claim = claim
  /\ r.obligations = obligations
  /\ r.signed
  /\ require_pass => r.obligations \subseteq r.passed

\* The verifier answers with any receipt, or raises; checking the signature
\* calls it again, under the outer handler only.
Verify ==
  /\ pc = "verify"
  /\ \/ \E r \in Receipt :
          IF ReceiptValid(r, FALSE)
          THEN /\ pc' = "quarantine"
               /\ receipt' = r
               /\ UNCHANGED <<state, spec, round_vars, obligations, verdict, audit, result, cause>>
          ELSE Reject(<<>>, claim, r)
     \/ Reject(<<>>, claim, None)
     \/ \E r \in Receipt :
          /\ r.wellFormed /\ r.claim = claim /\ r.obligations = obligations
          /\ Fails(claim, r)

\* The bridge signs the evidence and kernel.evaluate quarantines the claim.
Quarantine ==
  /\ pc = "quarantine"
  /\ \/ /\ pc' = "decide"
        /\ audit' = Append(audit, [Event("CLAIM_QUARANTINED", claim) EXCEPT !.parent = parent])
        /\ UNCHANGED <<state, spec, round_vars, check_vars, result, cause>>
     \/ Fails(claim, receipt)

Passed == receipt.obligations \subseteq receipt.passed

\* receipt_to_evidence_bundle: what did not pass, failed.
BridgedStatus ==
  [o \in receipt.obligations |-> IF o \in receipt.passed THEN "PASSED" ELSE "FAILED"]

Decide ==
  /\ pc = "decide"
  /\ \/ /\ verdict' = Conclusion(receipt.obligations, BridgedStatus)
        /\ audit' = Append(audit, Event("DECISION_ISSUED", claim))
        /\ pc' = IF Passed THEN "gate" ELSE "withhold"
        /\ UNCHANGED <<state, spec, round_vars, obligations, receipt, result, cause>>
     \/ Fails(claim, receipt)

\* TrustGate.propagate validates once more, asking the verifier again; then
\* approved_result sets PASSED before the kernel's gate has answered.
Gate ==
  /\ pc = "gate"
  /\ \/ /\ ReceiptValid(receipt, TRUE)
        /\ pc' = "propagate" /\ state' = "PASSED"
        /\ UNCHANGED <<spec, round_vars, check_vars, audit, result, cause>>
     \/ Fails(claim, receipt)

\* Mutant: the propagation is audited before the receipt is consumed.
PropagateEarly ==
  /\ pc = "propagate"
  /\ \/ /\ verdict = "VERIFIED"
        /\ pc' = "approve"
        /\ audit' = Append(audit, Event("ARTIFACT_PROPAGATED", claim))
        /\ UNCHANGED <<state, spec, round_vars, check_vars, result, cause>>
     \/ Reject(<<Event("ARTIFACT_PROPAGATED", claim)>>, claim, receipt)

\* The kernel's gate mints the artifact; or the verdict, a replay or the use
\* store stops it: it audits that (it cannot when the message is blank) and
\* raises; or the print before it has raised.
Propagate ==
  /\ pc = "propagate"
  /\ \/ /\ verdict = "VERIFIED"
        /\ pc' = "approve"
        /\ audit' = Append(audit, Event("ARTIFACT_PROPAGATED", claim))
        /\ UNCHANGED <<state, spec, round_vars, check_vars, result, cause>>
     \/ \E events \in {<<>>, <<Event("PROPAGATION_BLOCKED", claim)>>} :
          Reject(events, claim, receipt)

Approve ==
  /\ pc = "approve"
  /\ UNCHANGED <<state, audit>>
  /\ pc' = "returned"
  /\ Answer("APPROVED", claim, receipt, verdict, claim)

\* Mutants: one repair too few, one too many.
RepairsLeftFewer == attempt < MaxRepairs
RepairsLeftMore == attempt <= MaxRepairs + 1

RepairsLeft == attempt <= MaxRepairs

\* A failed receipt: the block is audited; the repairs are used up or the
\* worker is asked to repair.
Withhold ==
  LET blocked == Event("PROPAGATION_BLOCKED", claim) IN
  /\ pc = "withhold"
  /\ \/ /\ ~RepairsLeft
        /\ GiveUp(<<blocked>>, claim, receipt, "REJECTED")
     \/ /\ RepairsLeft
        /\ pc' = "repair" /\ state' = "REPAIRING"
        /\ audit' = Append(audit, blocked)
        /\ parent' = claim
        /\ attempt' = attempt + 1
        /\ round' = round + 1
        /\ UNCHANGED <<spec, claim, check_vars, result, cause>>

Repair ==
  /\ pc = "repair"
  /\ WorkerReturns(claim, receipt)

Next ==
  \/ CreateSpec \/ AuthorizeSpec \/ Propose
  \/ Wrap \/ Challenge \/ Verify \/ Quarantine \/ Decide
  \/ Gate \/ Propagate \/ Approve \/ Withhold \/ Repair
  \/ Record \/ Report \/ PrintFails \/ Interrupt

Spec == Init /\ [][Next]_vars

-----------------------------------------------------------------------------
(* Properties *)

AuditEvent == [kind : {"RUN_OPENED", "CLAIM_QUARANTINED", "DECISION_ISSUED",
                       "PROPAGATION_BLOCKED", "ARTIFACT_PROPAGATED", "RUN_REJECTED"},
               claim : Claim \cup {None}, parent : Claim \cup {None}]

TypeOK ==
  /\ pc \in {"plan", "authorize", "propose", "wrap", "challenge", "verify", "quarantine",
             "decide", "gate", "propagate", "approve", "withhold", "repair",
             "record", "report", "returned", "raised"}
  /\ state \in {"PLANNING", "WORKING", "CHALLENGING", "VERIFYING", "REPAIRING",
               "PASSED", "REJECTED"}
  /\ spec \in Specs \cup {None}
  /\ attempt \in 0..(MaxRepairs + 1) /\ round \in 1..(MaxRepairs + 1)
  /\ claim \in Claim \cup {None} /\ parent \in Claim \cup {None}
  /\ obligations \subseteq Proposed
  /\ receipt \in Receipt \cup {None} /\ verdict \in Verdicts \cup {None}
  /\ audit \in Seq(AuditEvent)
  /\ result \in Result \cup {None}
  /\ cause \in {None, "component", "print", "interrupt", "unreachable"}

\* What run() reports as approved passed everything: the registered contract of
\* the task, the harness's own obligation and every challenge of this attempt,
\* on a signed receipt about the very claim that is returned, and the kernel
\* agreed (TrustGateEngine.run, approved_result).
ApprovedIsVerified ==
  result # None /\ result.status = "APPROVED" =>
    /\ spec \in OfTask \cap Registered
    /\ result.artifact = result.claim
    /\ result.receipt.claim = result.claim
    /\ result.receipt.signed
    /\ result.receipt.obligations = obligations
    /\ Baseline \in obligations
    /\ obligations \subseteq result.receipt.passed
    /\ result.verdict = "VERIFIED"

\* The audit trail, the result and the engine's state tell one story: a run is
\* propagated or rejected at most once, nothing is recorded after that, and what
\* is returned is what the last event says.  Once the end is on record nothing a
\* component does keeps run() from returning it: an interrupt may, and the print
\* of a rejection.
OneEnding ==
  LET last == audit[Len(audit)].kind IN
  /\ \A i \in 1..(Len(audit) - 1) :
       audit[i].kind \notin {"ARTIFACT_PROPAGATED", "RUN_REJECTED"}
  /\ pc = "returned" =>
       LET approved == result.status = "APPROVED" IN
       /\ last = IF approved THEN "ARTIFACT_PROPAGATED" ELSE "RUN_REJECTED"
       /\ approved <=> result.artifact # None
       /\ result.state = IF approved THEN "PASSED" ELSE "REJECTED"
  /\ last = "ARTIFACT_PROPAGATED" =>
       state = "PASSED" /\ (pc = "raised" => cause = "interrupt")
  /\ last = "RUN_REJECTED" =>
       state = "REJECTED" /\ (pc = "raised" => cause \in {"interrupt", "print"})

\* A worker is asked to repair only what an authentic receipt shows to have
\* failed: the receipt is signed, is about the claim to be repaired and about
\* all its obligations, and the block is on record ("Forged failed receipts
\* never reach repair", test_forged_failed_receipt_never_reaches_repair).
RepairIsInformed ==
  pc = "repair" =>
    /\ receipt.signed /\ receipt.wellFormed
    /\ receipt.claim = claim /\ claim = parent
    /\ receipt.obligations = obligations
    /\ ~(receipt.obligations \subseteq receipt.passed)
    /\ verdict = "REJECTED"
    /\ audit[Len(audit)] = Event("PROPAGATION_BLOCKED", claim)

\* Where the kernel quarantined a claim, and where it withheld one.
Quarantined == {i \in DOMAIN audit : audit[i].kind = "CLAIM_QUARANTINED"}
Blocked == {i \in DOMAIN audit : audit[i].kind = "PROPAGATION_BLOCKED"}

\* The claim at i is the first to be quarantined, or it repairs the one
\* quarantined last before it and counts one attempt more.
Descends(i) ==
  \/ /\ \A k \in Quarantined : k >= i
     /\ audit[i].claim.attempt = 1 /\ audit[i].parent = None
  \/ \E j \in Quarantined :
       /\ j < i /\ \A k \in Quarantined : k <= j \/ k >= i
       /\ audit[i].claim.attempt = audit[j].claim.attempt + 1
       /\ audit[i].parent = audit[j].claim

\* The kernel's record of a run is one line of descent: the n-th quarantined
\* claim is attempt n, and every one but the first repairs the one before it,
\* whatever attempt numbers workers put into their claims.
AttemptsInOrder == \A i \in Quarantined : Descends(i)

\* The claim of attempt n was quarantined, and then withheld.
CheckedAndBlocked(n) ==
  \E i \in Quarantined, j \in Blocked :
    i < j /\ audit[i].claim.attempt = n /\ audit[j].claim = audit[i].claim

\* A run is rejected without a failing component only when the first claim and
\* every repair it was entitled to were checked and blocked.
RejectionIsEarned ==
  result # None /\ result.verdict = "REJECTED" =>
    \A n \in Attempts : CheckedAndBlocked(n)

\* "Component failures now produce a controlled REJECTED result instead of
\* escaping the engine" (CHANGELOG.md 0.1.1): only an interrupt and a failing print
\* leave run().  It also says that the end of run() is unreachable, as its last
\* line claims.
ComponentFailureContained == cause \in {None, "interrupt", "print"}
=============================================================================
