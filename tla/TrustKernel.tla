---------------------------- MODULE TrustKernel ----------------------------
(***************************************************************************)
(* The trust-bearing core: VerificationKernel (kernel.py), TrustGate       *)
(* (gate.py) and the three HMAC authorities (authority.py), called by the  *)
(* threads of one controller process that may be restarted.                *)
(*                                                                         *)
(* A digest is the value it digests, and a signature is membership in the  *)
(* set of values its authority signed: a MAC verifies exactly for what was *)
(* signed.  evaluate and propagate are split where they touch shared       *)
(* state (the audit sink and the receipt-use store); a call that raises    *)
(* before its first effect changes nothing and is not a step; one that     *)
(* raises or is interrupted later leaves what it has done.  The use        *)
(* store is the atomic registry of ReceiptUse; it survives a restart       *)
(* (SQLiteReceiptUseStore).  With the in-memory store the documentation    *)
(* promises single use within one process only: that is MaxRestarts = 0.   *)
(***************************************************************************)
EXTENDS Decision, Naturals, Sequences, FiniteSets

CONSTANTS
  Threads,      \* threads that call the kernel and the gate
  Contexts,     \* run contexts [run, task] that may be opened
  Proposals,    \* spec proposals [task, criteria]
  Approved,     \* the proposals the approval policy accepts
  Claims,       \* claim envelopes [id, run]
  Candidates,   \* evidence the verification backend may authenticate:
                \*   [context, spec, claim, status], status from the plan's
                \*   obligations to Statuses
  Arguments,    \* the argument tuples callers pass, right or mixed up
  ReceiptIds,   \* fresh ids receipts are issued with
  Unused,       \* no entry in the use store
  NoReceipt,    \* a call that holds no receipt yet
  NoCall,       \* a thread outside any call
  MaxCalls,     \* bound: evaluate and propagate calls in one behaviour
  MaxFaults,    \* bound: interrupts, and failures of the use store or the audit sink
  MaxRestarts   \* bound: restarts of the controller

Receipt == [id : ReceiptIds, context : Contexts, spec : Proposals,
            claim : Claims, evidence : Candidates, verdict : Verdicts]

ASSUME KernelConstants ==
  /\ Approved \subseteq Proposals
  /\ Arguments \subseteq [context : Contexts, spec : Proposals,
                         claim : Claims, evidence : Candidates]
  /\ IsFiniteSet(Threads)
  /\ MaxCalls \in Nat /\ MaxFaults \in Nat /\ MaxRestarts \in Nat
  /\ NoReceipt \notin Receipt /\ Unused \notin Receipt

VARIABLES
  opened,      \* contexts open_run returned
  authorized,  \* specs the spec authority signed
  signed,      \* evidence bundles the evidence authority signed
  issued,      \* receipts the receipt authority signed
  known,       \* receipts an evaluate call returned: what callers may pass on
  used,        \* receipt-use store: id -> receipt it was consumed for, or Unused
  audit,       \* events of the process-local audit sink, in order
  released,    \* artifacts returned to callers, in order
  pc,          \* thread -> where its call is
  call,        \* thread -> the arguments and the receipt of its call
  calls, faults, restarts

vars == <<opened, authorized, signed, issued, known, used, audit, released,
          pc, call, calls, faults, restarts>>
authorities == <<opened, authorized, signed>>
counters == <<calls, faults, restarts>>

Call == [context : Contexts, spec : Proposals, claim : Claims,
         evidence : Candidates, receipt : Receipt \cup {NoReceipt},
         evaluating : BOOLEAN, propagate : BOOLEAN]

Artifact == [context : Contexts, claim : Claims, spec : Proposals, receipt : Receipt]

Init ==
  /\ opened = {} /\ authorized = {} /\ signed = {} /\ issued = {} /\ known = {}
  /\ used = [id \in ReceiptIds |-> Unused]
  /\ audit = <<>>
  /\ released = <<>>
  /\ pc = [t \in Threads |-> "idle"]
  /\ call = [t \in Threads |-> NoCall]
  /\ calls = 0 /\ faults = 0 /\ restarts = 0

-----------------------------------------------------------------------------
(* What the kernel and the gate check *)

\* Mutant: the claim the evidence is about is not compared with the claim.
EvaluateAcceptsAnyClaim(c, s, m, b) ==
  /\ s.task = c.task
  /\ s \in authorized
  /\ b \in signed
  /\ b.context = c
  /\ b.spec = s
  /\ m.run = c.run

\* The guards of evaluate: every argument belongs to the same run and task, and
\* spec and evidence verify against their authorities.
EvaluateAccepts(c, s, m, b) ==
  /\ m.run = c.run
  /\ s.task = c.task
  /\ s \in authorized
  /\ b \in signed
  /\ b.context = c
  /\ b.spec = s
  /\ b.claim = m

PlanOf(b) == DOMAIN b.status

PolicyDecides(s, b) == Decidable(s.criteria, PlanOf(b))

PolicyVerdict(b) == Conclusion(PlanOf(b), b.status)

\* TrustGate.validate_decision_receipt: the same bindings, the receipt's own,
\* its signature, and the verdict recomputed from the evidence.
ReceiptValid(c, s, m, b, r) ==
  /\ EvaluateAccepts(c, s, m, b)
  /\ r.context = c
  /\ r.spec = s
  /\ r.claim = m
  /\ r.evidence = b
  /\ r \in issued
  /\ PolicyDecides(s, b)
  /\ r.verdict = PolicyVerdict(b)

CallValid(k) == ReceiptValid(k.context, k.spec, k.claim, k.evidence, k.receipt)

-----------------------------------------------------------------------------
(* Authorities *)

Append2Audit(run, kind, subject) ==
  audit' = Append(audit, [run |-> run, kind |-> kind, subject |-> subject])

\* kernel.open_run: a fresh context, audited.
OpenRun(c) ==
  /\ c \notin opened
  /\ opened' = opened \cup {c}
  /\ Append2Audit(c.run, "RUN_OPENED", c)
  /\ UNCHANGED <<authorized, signed, issued, known, used, released, pc, call, counters>>

\* Mutant: the spec authority signs without asking the approval policy.
AuthorizeAny(s) ==
  /\ authorized' = authorized \cup {s}
  /\ UNCHANGED <<opened, signed, issued, known, used, audit, released, pc, call, counters>>

\* kernel.authorize: the approval policy accepts or the call raises.
Authorize(s) ==
  /\ s \in Approved
  /\ authorized' = authorized \cup {s}
  /\ UNCHANGED <<opened, signed, issued, known, used, audit, released, pc, call, counters>>

\* HMACEvidenceAuthority.issue signs what the backend gives it: it does not
\* compare the claim's run or the spec's task with the context.
IssueEvidence(b) ==
  /\ signed' = signed \cup {b}
  /\ UNCHANGED <<opened, authorized, issued, known, used, audit, released, pc, call, counters>>

-----------------------------------------------------------------------------
(* Calls *)

GoTo(t, from, to) ==
  /\ pc[t] = from
  /\ pc' = [pc EXCEPT ![t] = to]

Start(t, k, to) ==
  /\ pc[t] = "idle"
  /\ calls < MaxCalls
  /\ calls' = calls + 1
  /\ pc' = [pc EXCEPT ![t] = to]
  /\ call' = [call EXCEPT ![t] = k]
  /\ UNCHANGED <<authorities, issued, known, used, audit, released, faults, restarts>>

\* kernel.evaluate, up to its first effect.
Evaluate(t, a, propagate) ==
  /\ a.context \in opened
  /\ EvaluateAccepts(a.context, a.spec, a.claim, a.evidence)
  /\ Start(t, [context |-> a.context, spec |-> a.spec, claim |-> a.claim,
               evidence |-> a.evidence, receipt |-> NoReceipt,
               evaluating |-> TRUE, propagate |-> propagate], "quarantine")

\* A receipt as a caller may hold it: as returned, or a copy whose verdict no
\* longer is the one that was signed.
Heldable == known \cup {[r EXCEPT !.verdict = "VERIFIED"] : r \in known}

\* TrustGate.propagate called directly.
Propagate(t, a, r) ==
  /\ a.context \in opened
  /\ Start(t, [context |-> a.context, spec |-> a.spec, claim |-> a.claim,
               evidence |-> a.evidence, receipt |-> r,
               evaluating |-> FALSE, propagate |-> TRUE], "gate")

\* The call raised: the thread leaves it.
Abandon(t, from) ==
  /\ GoTo(t, from, "idle")
  /\ call' = [call EXCEPT ![t] = NoCall]

\* Mutant: the claim is not put on record before the decision.
QuarantineSilent(t) ==
  /\ GoTo(t, "quarantine", "decide")
  /\ UNCHANGED <<authorities, issued, known, used, audit, released, call, counters>>

\* evaluate audits CLAIM_QUARANTINED before anything is decided.
Quarantine(t) ==
  /\ GoTo(t, "quarantine", "decide")
  /\ Append2Audit(call[t].context.run, "CLAIM_QUARANTINED", call[t].claim)
  /\ UNCHANGED <<authorities, issued, known, used, released, call, counters>>

FreshIds == ReceiptIds \ {r.id : r \in issued}

\* The policy decides, the receipt authority signs under a fresh id, and the
\* gate validates the new receipt; a plan the policy cannot decide raises.
Decide(t) ==
  LET k == call[t] IN
  \/ \E id \in FreshIds :
       LET r == [id |-> id, context |-> k.context, spec |-> k.spec,
                 claim |-> k.claim, evidence |-> k.evidence,
                 verdict |-> PolicyVerdict(k.evidence)] IN
       /\ GoTo(t, "decide", "record")
       /\ PolicyDecides(k.spec, k.evidence)
       /\ issued' = issued \cup {r}
       /\ call' = [call EXCEPT ![t].receipt = r]
       /\ UNCHANGED <<authorities, known, used, audit, released, counters>>
  \/ /\ Abandon(t, "decide")
     /\ ~PolicyDecides(k.spec, k.evidence)
     /\ UNCHANGED <<authorities, issued, known, used, audit, released, counters>>

\* Where evaluate goes once the decision is audited.
AfterDecision(k) ==
  IF ~k.propagate THEN "return"
  ELSE IF k.receipt.verdict = "VERIFIED" THEN "gate" ELSE "withhold"

RecordDecision(t) ==
  /\ GoTo(t, "record", AfterDecision(call[t]))
  /\ Append2Audit(call[t].context.run, "DECISION_ISSUED", call[t].receipt)
  /\ UNCHANGED <<authorities, issued, known, used, released, call, counters>>

\* A verdict that does not authorize propagation is audited as blocked.
Withhold(t) ==
  /\ GoTo(t, "withhold", "return")
  /\ Append2Audit(call[t].context.run, "PROPAGATION_BLOCKED", call[t].receipt)
  /\ UNCHANGED <<authorities, issued, known, used, released, call, counters>>

\* The gate validates, requires VERIFIED, and only then consumes the receipt.
Consume(t) ==
  LET r == call[t].receipt IN
  /\ GoTo(t, "gate", "announce")
  /\ CallValid(call[t])
  /\ r.verdict = "VERIFIED"
  /\ used[r.id] = Unused
  /\ used' = [used EXCEPT ![r.id] = r]
  /\ UNCHANGED <<authorities, issued, known, audit, released, call, counters>>

\* Mutant: the receipt is consumed first and validated afterwards.
GateRaisesSpent(t) ==
  LET r == call[t].receipt IN
  /\ GoTo(t, "gate", "blocked")
  /\ ~(CallValid(call[t]) /\ r.verdict = "VERIFIED" /\ used[r.id] = Unused)
  /\ used' = [used EXCEPT ![r.id] = IF @ = Unused THEN r ELSE @]
  /\ UNCHANGED <<authorities, issued, known, audit, released, call, counters>>

\* Validation, the verdict or a replay raises.
GateRaises(t) ==
  LET r == call[t].receipt IN
  /\ GoTo(t, "gate", "blocked")
  /\ ~(CallValid(call[t]) /\ r.verdict = "VERIFIED" /\ used[r.id] = Unused)
  /\ UNCHANGED <<authorities, issued, known, used, audit, released, call, counters>>

\* The use store itself fails: before it recorded the receipt, or after (the
\* commit went through and what followed raised).
ConsumeFails(t) ==
  LET r == call[t].receipt IN
  /\ faults < MaxFaults
  /\ faults' = faults + 1
  /\ GoTo(t, "gate", "blocked")
  /\ CallValid(call[t])
  /\ r.verdict = "VERIFIED"
  /\ \/ UNCHANGED used
     \/ used[r.id] = Unused /\ used' = [used EXCEPT ![r.id] = r]
  /\ UNCHANGED <<authorities, issued, known, audit, released, call, calls, restarts>>

\* The gate audits the failure and re-raises it.
AuditBlocked(t) ==
  /\ Abandon(t, "blocked")
  /\ Append2Audit(call[t].context.run, "PROPAGATION_BLOCKED", call[t].receipt)
  /\ UNCHANGED <<authorities, issued, known, used, released, counters>>

\* Mutant: the propagation is not audited.
AnnounceSilent(t) ==
  /\ GoTo(t, "announce", "return")
  /\ UNCHANGED <<authorities, issued, known, used, audit, released, call, counters>>

\* The artifact is minted and its propagation audited.
Announce(t) ==
  /\ GoTo(t, "announce", "return")
  /\ Append2Audit(call[t].context.run, "ARTIFACT_PROPAGATED", call[t].receipt)
  /\ UNCHANGED <<authorities, issued, known, used, released, call, counters>>

\* The call carries an artifact: it passed the gate.
Minted(k) == k.propagate /\ k.receipt.verdict = "VERIFIED"

\* evaluate returns its receipt, and the artifact if one was minted.
Return(t) ==
  LET k == call[t] IN
  /\ Abandon(t, "return")
  /\ known' = IF k.evaluating THEN known \cup {k.receipt} ELSE known
  /\ released' = IF Minted(k)
                 THEN Append(released, [context |-> k.context, claim |-> k.claim,
                                        spec |-> k.spec, receipt |-> k.receipt])
                 ELSE released
  /\ UNCHANGED <<authorities, issued, used, audit, counters>>

\* Mutant: the use store does not survive the process.
RestartForgets ==
  /\ restarts < MaxRestarts
  /\ restarts' = restarts + 1
  /\ pc' = [t \in Threads |-> "idle"]
  /\ call' = [t \in Threads |-> NoCall]
  /\ audit' = <<>>
  /\ used' = [id \in ReceiptIds |-> Unused]
  /\ UNCHANGED <<authorities, issued, known, released, calls, faults>>

\* The controller dies and is started again with the same keys: every call and
\* the process-local audit sink are gone, the use store is not.
Restart ==
  /\ restarts < MaxRestarts
  /\ restarts' = restarts + 1
  /\ pc' = [t \in Threads |-> "idle"]
  /\ call' = [t \in Threads |-> NoCall]
  /\ audit' = <<>>
  /\ UNCHANGED <<authorities, issued, known, used, released, calls, faults>>

\* The call ends where it is, with what it has done: an interrupt, an append the
\* audit sink refuses (so also after consume, before or after the propagation is
\* on record), an error whose message is blank (ComponentFailure refuses it, and
\* the gate audits nothing).
Interrupted(t) ==
  /\ faults < MaxFaults
  /\ faults' = faults + 1
  /\ pc[t] # "idle"
  /\ Abandon(t, pc[t])
  /\ UNCHANGED <<authorities, issued, known, used, audit, released, calls, restarts>>

Step(t) ==
  \/ Quarantine(t) \/ Decide(t) \/ RecordDecision(t) \/ Withhold(t)
  \/ Consume(t) \/ GateRaises(t) \/ AuditBlocked(t) \/ Announce(t) \/ Return(t)

Next ==
  \/ \E c \in Contexts : OpenRun(c)
  \/ \E s \in Proposals : Authorize(s)
  \/ \E b \in Candidates : IssueEvidence(b)
  \/ \E t \in Threads, a \in Arguments :
       \/ \E propagate \in BOOLEAN : Evaluate(t, a, propagate)
       \/ \E r \in Heldable : Propagate(t, a, r)
  \/ \E t \in Threads : Step(t) \/ ConsumeFails(t) \/ Interrupted(t)
  \/ Restart

Spec == Init /\ [][Next]_vars

-----------------------------------------------------------------------------
(* Properties *)

TypeOK ==
  /\ opened \subseteq Contexts
  /\ authorized \subseteq Approved
  /\ signed \subseteq Candidates
  /\ issued \subseteq Receipt
  /\ known \subseteq issued
  /\ used \in [ReceiptIds -> Receipt \cup {Unused}]
  /\ released \in Seq(Artifact)
  /\ pc \in [Threads -> {"idle", "quarantine", "decide", "record", "withhold",
                        "gate", "blocked", "announce", "return"}]
  /\ call \in [Threads -> Call \cup {NoCall}]
  /\ calls \in 0..MaxCalls /\ faults \in 0..MaxFaults /\ restarts \in 0..MaxRestarts

\* An artifact carries exactly what was approved and checked: a spec the policy
\* accepted for the task of the run, a claim of that run, and authentic evidence
\* about this very claim and spec in which every criterion is covered and every
\* check passed.  Mixing values of several runs, specs or claims in one call
\* never releases anything (TrustGate.propagate, VerificationKernel.evaluate).
ArtifactEarned ==
  \A i \in 1..Len(released) :
    LET a == released[i]
        b == a.receipt.evidence
    IN  /\ a.spec \in Approved
        /\ a.spec.task = a.context.task
        /\ a.claim.run = a.context.run
        /\ b \in signed
        /\ b.context = a.context /\ b.spec = a.spec /\ b.claim = a.claim
        /\ CriteriaOf(PlanOf(b)) = a.spec.criteria
        /\ \A o \in PlanOf(b) : b.status[o] = "PASSED"

\* "A successful receipt is consumable at most once" (docs/threat-model.md):
\* no two artifacts carry one receipt id, whichever threads race for it and
\* however often the controller restarts.
OneArtifactPerReceipt ==
  \A i, j \in 1..Len(released) :
    released[i].receipt.id = released[j].receipt.id => i = j

Delivered(id) == \E i \in 1..Len(released) : released[i].receipt = used[id]

\* A call is past the gate with the receipt and has not returned yet.
OnItsWay(t, id) ==
  /\ pc[t] \in {"announce", "return"}
  /\ call[t].propagate
  /\ call[t].receipt = used[id]

\* The receipts spent for nothing.
Lost ==
  {id \in ReceiptIds :
     used[id] # Unused /\ ~Delivered(id) /\ ~ \E t \in Threads : OnItsWay(t, id)}

\* A receipt is spent before its artifact is out, so a failure in between costs
\* it, and nothing else does: each interrupt or failure costs at most one, a
\* restart at most one of each thread.  Mismatched, rejected and replayed calls,
\* of whatever threads, burn no receipt.
LossIsAccounted == Cardinality(Lost) <= faults + restarts * Cardinality(Threads)

\* An artifact nobody can find in the audit trail does not exist: each released
\* artifact has its ARTIFACT_PROPAGATED event, exactly one for its receipt.
ReleaseIsAudited ==
  restarts = 0 =>
    \A i \in 1..Len(released) :
      \E n \in 1..Len(audit) :
        /\ audit[n].kind = "ARTIFACT_PROPAGATED"
        /\ audit[n].subject = released[i].receipt
        /\ audit[n].run = released[i].context.run
        /\ \A m \in 1..Len(audit) :
             audit[m].kind = "ARTIFACT_PROPAGATED" /\ audit[m].subject = audit[n].subject
               => m = n

Before(n, kind, subject) ==
  \E m \in 1..(n - 1) : /\ audit[m].kind = kind
                        /\ audit[m].subject = subject
                        /\ audit[m].run = audit[n].run

\* The trail tells the story in order, also when threads interleave: a claim is
\* on record as quarantined before any decision on it, and (until a restart
\* empties the sink) a decision before the propagation it authorizes.
AuditInOrder ==
  \A n \in 1..Len(audit) :
    /\ audit[n].kind = "DECISION_ISSUED" =>
         Before(n, "CLAIM_QUARANTINED", audit[n].subject.claim)
    /\ audit[n].kind = "ARTIFACT_PROPAGATED" /\ restarts = 0 =>
         Before(n, "DECISION_ISSUED", audit[n].subject)
=============================================================================
