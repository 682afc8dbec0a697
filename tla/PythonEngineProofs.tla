------------------------- MODULE PythonEngineProofs -------------------------
(* What approval, repair and the end of a run rest on in the 0.1.x engine,   *)
(* for any number of repairs and whatever the components answer or raise;    *)
(* and, in its second half, what a pass or failure of its verifier rests on. *)
EXTENDS PythonEngine, PythonVerifier, SequenceTheorems, TLAPS

-----------------------------------------------------------------------------
(* The inductive invariant *)

InLoop == {"wrap", "challenge", "verify", "quarantine", "decide", "gate",
           "propagate", "approve", "withhold", "repair"}

Checked == {"quarantine", "decide", "gate", "propagate", "approve", "withhold", "repair"}

\* The contract is the registered one once the worker has been asked.
SpecKnown ==
  /\ pc = "authorize" => spec \in OfTask
  /\ pc \in InLoop \cup {"propose"} => spec \in OfTask \cap Registered

\* The attempt number and the iteration of the loop move together.
RoundIsAttempt ==
  /\ pc \in {"plan", "authorize"} => round = 1
  /\ pc \in InLoop \cup {"propose"} => round = attempt

\* What is known of the claim, its challenge and its receipt, stage by stage.
ReceiptKnown ==
  /\ pc \in InLoop => claim \in Claim
  /\ pc \in Checked \cup {"verify"} => Baseline \in obligations
  /\ pc \in Checked => receipt \in Receipt /\ ReceiptValid(receipt, FALSE)
  /\ pc \in {"gate", "propagate", "approve"} => Passed /\ verdict = "VERIFIED"
  /\ pc \in {"propagate", "approve"} => state = "PASSED"
  /\ pc \in {"withhold", "repair"} => ~Passed /\ verdict = "REJECTED"
  /\ pc = "repair" => claim = parent /\ audit[Len(audit)] = Event("PROPAGATION_BLOCKED", claim)

Final == {"ARTIFACT_PROPAGATED", "RUN_REJECTED"}

\* Where the audit trail stands.
TrailKnown ==
  /\ Len(audit) >= 1
  /\ \A i \in 1..(Len(audit) - 1) : audit[i].kind \notin Final
  /\ pc \notin {"approve", "report", "returned", "raised"} => audit[Len(audit)].kind \notin Final
  /\ pc = "approve" => audit[Len(audit)].kind = "ARTIFACT_PROPAGATED"
  /\ pc = "report" => audit[Len(audit)].kind = "RUN_REJECTED"
  /\ pc \in {"record", "report"} =>
       /\ state = "REJECTED" /\ result \in Result
       /\ result.status = "REJECTED" /\ result.state = "REJECTED" /\ result.artifact = None
  /\ pc = "returned" => result # None
  /\ pc \notin {"record", "report", "returned"} => result = None
  /\ cause # "unreachable"

\* Before the end of the run is decided.
Going == pc \notin {"approve", "record", "report", "returned", "raised"}

IInv ==
  /\ TypeOK
  /\ SpecKnown
  /\ RoundIsAttempt
  /\ ReceiptKnown
  /\ TrailKnown
  /\ ApprovedIsVerified
  /\ OneEnding

\* The bridged statuses conclude VERIFIED exactly when everything passed.
LEMMA BridgedVerdict ==
  ASSUME receipt.obligations # {}
  PROVE  Conclusion(receipt.obligations, BridgedStatus) =
           IF Passed THEN "VERIFIED" ELSE "REJECTED"
<1> DEFINE S == {BridgedStatus[o] : o \in receipt.obligations}
<1>1. S \subseteq {"PASSED", "FAILED"} /\ S # {}
  BY DEF BridgedStatus
<1>2. Passed <=> "FAILED" \notin S
  BY DEF BridgedStatus, Passed
<1>3. Conclusion(receipt.obligations, BridgedStatus) = VerdictOf(S)
  BY DEF Conclusion
<1> HIDE DEF S
<1>4. CASE Passed
  BY <1>1, <1>2, <1>3, <1>4, S = {"PASSED"} DEF VerdictOf
<1>5. CASE ~Passed
  BY <1>1, <1>2, <1>3, <1>5 DEF VerdictOf
<1> QED BY <1>4, <1>5

LEMMA EventType ==
  ASSUME NEW about \in Claim \cup {None},
         NEW kind \in {"RUN_OPENED", "CLAIM_QUARANTINED", "DECISION_ISSUED",
                       "PROPAGATION_BLOCKED", "ARTIFACT_PROPAGATED", "RUN_REJECTED"}
  PROVE  Event(kind, about) \in AuditEvent /\ Event(kind, about).kind = kind
BY DEF Event, AuditEvent

LEMMA IInvInit == Init => IInv
<1> SUFFICES ASSUME Init PROVE IInv
  OBVIOUS
<1>1. /\ audit \in Seq(AuditEvent) /\ Len(audit) = 1
      /\ audit[1].kind = "RUN_OPENED"
  BY EventType DEF Init
<1>2. TypeOK
  BY <1>1, EngineConstants DEF Init, TypeOK
<1> QED BY <1>1, <1>2, EngineConstants DEF Init, IInv, SpecKnown, RoundIsAttempt, ReceiptKnown,
      TrailKnown, ApprovedIsVerified, OneEnding, InLoop, Checked, Final

-----------------------------------------------------------------------------
(* How a run ends *)

\* An exception leaves run(): what is on record stays, nothing is recorded.
LEMMA EscapeStep ==
  ASSUME IInv, ~Ended, NEW why \in {"component", "print", "interrupt"}, Escape(why),
         Going \/ why = "interrupt" \/ (pc = "report" /\ why = "print")
  PROVE  IInv'
<1> USE DEF Escape
<1>1. TypeOK'
  BY DEF IInv, TypeOK, round_vars, check_vars
<1>2. SpecKnown' /\ RoundIsAttempt' /\ ReceiptKnown' /\ ApprovedIsVerified'
  BY DEF SpecKnown, RoundIsAttempt, ReceiptKnown, ApprovedIsVerified, InLoop, Checked
<1>3. TrailKnown'
  BY EngineConstants DEF IInv, TrailKnown
<1>4. OneEnding'
  <2>1. CASE Going
    <3>1. audit[Len(audit)].kind \notin Final
      BY <2>1 DEF Going, IInv, TrailKnown
    <3> QED BY <3>1 DEF IInv, OneEnding, Final
  <2>2. CASE ~Going
    <3>1. /\ pc = "approve" => state = "PASSED" /\ audit[Len(audit)].kind = "ARTIFACT_PROPAGATED"
          /\ pc = "record" => audit[Len(audit)].kind \notin Final
          /\ pc = "report" => state = "REJECTED" /\ audit[Len(audit)].kind = "RUN_REJECTED"
          /\ pc \in {"approve", "record", "report"}
      BY <2>2 DEF Going, Ended, IInv, TrailKnown, ReceiptKnown
    <3> QED BY <2>2, <3>1 DEF IInv, OneEnding, Final
  <2> QED BY <2>1, <2>2
<1> QED BY <1>1, <1>2, <1>3, <1>4 DEF IInv

\* A run is given up from any stage before its end is decided.
LEMMA GiveUpStep ==
  ASSUME IInv, Going,
         NEW events \in {<<>>, <<Event("PROPAGATION_BLOCKED", claim)>>},
         NEW about \in Claim \cup {None}, NEW given \in Receipt \cup {None},
         NEW said \in {"ERROR", "REJECTED"},
         GiveUp(events, about, given, said)
  PROVE  IInv'
<1> DEFINE b == Event("PROPAGATION_BLOCKED", claim)
<1>a. b \in AuditEvent /\ b.kind \notin Final
  BY EventType DEF IInv, TypeOK, Final
<1>b. events = <<>> \/ events = <<b>>
  OBVIOUS
<1>1. events \in Seq(AuditEvent) /\ \A i \in DOMAIN events : events[i].kind \notin Final
  <2> HIDE DEF b
  <2>1. <<>> \in Seq(AuditEvent) /\ <<b>> \in Seq(AuditEvent)
    BY <1>a
  <2>2. CASE events = <<>>
    BY ONLY <2>1, <2>2
  <2>3. CASE events = <<b>>
    BY ONLY <1>a, <2>1, <2>3
  <2> QED BY ONLY <1>b, <2>2, <2>3
<1>2. audit' = audit \o events
  BY DEF GiveUp
<1> HIDE DEF b
<1>3. /\ audit' \in Seq(AuditEvent) /\ Len(audit') >= 1
      /\ \A i \in 1..Len(audit') : audit'[i].kind \notin Final
  BY <1>1, <1>2 DEF IInv, TypeOK, TrailKnown, Going
<1>4. /\ result' \in Result /\ result'.status = "REJECTED" /\ result'.state = "REJECTED"
      /\ result'.artifact = None
  BY EngineConstants DEF GiveUp, Answer, Result, IInv, TypeOK, Verdicts
<1>5. TypeOK'
  BY <1>3, <1>4 DEF GiveUp, Answer, IInv, TypeOK, round_vars, check_vars
<1>6. SpecKnown' /\ RoundIsAttempt' /\ ReceiptKnown'
  BY DEF GiveUp, SpecKnown, RoundIsAttempt, ReceiptKnown, InLoop, Checked
<1>7. TrailKnown' /\ OneEnding' /\ ApprovedIsVerified'
  BY <1>3, <1>4 DEF GiveUp, Answer, IInv, TypeOK, TrailKnown, OneEnding, ApprovedIsVerified, Final
<1> QED BY <1>5, <1>6, <1>7 DEF IInv

LEMMA RejectStep ==
  ASSUME IInv, Going,
         NEW events \in {<<>>, <<Event("PROPAGATION_BLOCKED", claim)>>},
         NEW about \in Claim \cup {None}, NEW given \in Receipt \cup {None},
         Reject(events, about, given)
  PROVE  IInv'
BY GiveUpStep DEF Reject

\* The rejection goes on record.
LEMMA RecordStep ==
  ASSUME IInv, Record
  PROVE  IInv'
<1> DEFINE e == Event("RUN_REJECTED", result.claim)
<1>1. /\ pc = "record" /\ audit' = Append(audit, e) /\ pc' = "report"
      /\ UNCHANGED <<state, spec, round_vars, check_vars, result, cause>>
  BY DEF Record
<1>2. /\ state = "REJECTED" /\ result \in Result
      /\ result.status = "REJECTED" /\ result.state = "REJECTED" /\ result.artifact = None
      /\ \A i \in 1..Len(audit) : audit[i].kind \notin Final
      /\ audit \in Seq(AuditEvent) /\ Len(audit) >= 1
  BY <1>1 DEF IInv, TypeOK, TrailKnown
<1>3. e \in AuditEvent /\ e.kind = "RUN_REJECTED"
  <2>1. result.claim \in Claim \cup {None}
    BY <1>2 DEF Result
  <2> QED BY <2>1, EventType
<1> HIDE DEF e
<1>4. /\ audit' \in Seq(AuditEvent) /\ Len(audit') = Len(audit) + 1
      /\ audit'[Len(audit')].kind = "RUN_REJECTED"
      /\ \A i \in 1..(Len(audit') - 1) : audit'[i].kind \notin Final
  BY <1>1, <1>2, <1>3
<1>5. TypeOK'
  BY <1>1, <1>4 DEF IInv, TypeOK, round_vars, check_vars
<1>6. SpecKnown' /\ RoundIsAttempt' /\ ReceiptKnown' /\ ApprovedIsVerified'
  BY <1>1, <1>2 DEF SpecKnown, RoundIsAttempt, ReceiptKnown, ApprovedIsVerified, InLoop, Checked
<1>7. TrailKnown' /\ OneEnding'
  BY <1>1, <1>2, <1>4 DEF IInv, TrailKnown, OneEnding, Final
<1> QED BY <1>5, <1>6, <1>7 DEF IInv

\* And is printed and returned.
LEMMA ReportStep ==
  ASSUME IInv, Report
  PROVE  IInv'
<1> USE DEF Report
<1>1. TypeOK'
  BY DEF IInv, TypeOK, round_vars, check_vars
<1>2. SpecKnown' /\ RoundIsAttempt' /\ ReceiptKnown'
  BY DEF SpecKnown, RoundIsAttempt, ReceiptKnown, InLoop, Checked
<1>3. /\ state = "REJECTED" /\ result \in Result
      /\ result.status = "REJECTED" /\ result.state = "REJECTED" /\ result.artifact = None
      /\ audit[Len(audit)].kind = "RUN_REJECTED"
  BY DEF IInv, TrailKnown
<1>4. TrailKnown' /\ OneEnding' /\ ApprovedIsVerified'
  BY <1>3, EngineConstants DEF IInv, TrailKnown, OneEnding, ApprovedIsVerified, Final
<1> QED BY <1>1, <1>2, <1>4 DEF IInv

\* A failure that no second handler covers.
LEMMA FailsStep ==
  ASSUME IInv, Going,
         NEW about \in Claim \cup {None}, NEW given \in Receipt \cup {None},
         Fails(about, given)
  PROVE  IInv'
BY EscapeStep, RejectStep DEF Fails, Going, Ended

-----------------------------------------------------------------------------
(* The stages *)

\* A step that goes on without an audit event keeps the trail as it is.
LEMMA SilentTrail ==
  ASSUME IInv, Going, Going',
         UNCHANGED <<audit, result, cause>>
  PROVE  TrailKnown' /\ OneEnding' /\ ApprovedIsVerified'
BY DEF IInv, TrailKnown, OneEnding, ApprovedIsVerified, Going, Final

\* A step that goes on with one more event, which is final if it leads to
\* approve and only then.
LEMMA RecordedTrail ==
  ASSUME IInv, Going, Going' \/ (pc' = "approve" /\ state' = "PASSED"),
         NEW e \in AuditEvent, audit' = Append(audit, e),
         pc' = "approve" => e.kind = "ARTIFACT_PROPAGATED",
         pc' # "approve" => e.kind \notin Final,
         UNCHANGED <<result, cause>>
  PROVE  /\ audit' \in Seq(AuditEvent) /\ audit'[Len(audit')] = e
         /\ TrailKnown' /\ OneEnding' /\ ApprovedIsVerified'
<1>1. /\ audit' \in Seq(AuditEvent)
      /\ Len(audit') = Len(audit) + 1
      /\ audit'[Len(audit')] = e
      /\ \A i \in 1..Len(audit) : audit'[i] = audit[i]
  BY DEF IInv, TypeOK
<1>2. \A i \in 1..(Len(audit') - 1) : audit'[i].kind \notin Final
  BY <1>1 DEF IInv, TypeOK, TrailKnown, Going
<1> QED BY <1>1, <1>2 DEF IInv, TypeOK, TrailKnown, OneEnding, ApprovedIsVerified, Going, Final

LEMMA CreateSpecStep ==
  ASSUME IInv, CreateSpec
  PROVE  IInv'
<1> USE DEF CreateSpec, Going
<1>1. ASSUME NEW s \in OfTask, pc' = "authorize", spec' = s,
             UNCHANGED <<state, round_vars, check_vars, audit, result, cause>>
      PROVE  IInv'
  BY <1>1, SilentTrail, EngineConstants DEF IInv, TypeOK, SpecKnown, RoundIsAttempt,
     ReceiptKnown, InLoop, Checked, round_vars, check_vars
<1>2. ASSUME Reject(<<>>, None, None) PROVE IInv'
  BY <1>2, RejectStep
<1>3. ASSUME Fails(None, None) PROVE IInv'
  BY <1>3, FailsStep
<1> QED BY <1>1, <1>2, <1>3

LEMMA AuthorizeSpecStep ==
  ASSUME IInv, AuthorizeSpec
  PROVE  IInv'
<1> USE DEF AuthorizeSpec, Going
<1>1. ASSUME spec \in Registered, pc' = "propose", state' = "WORKING", attempt' = 1,
             UNCHANGED <<spec, round, claim, parent, check_vars, audit, result, cause>>
      PROVE  IInv'
  BY <1>1, SilentTrail, EngineConstants DEF IInv, TypeOK, SpecKnown, RoundIsAttempt,
     ReceiptKnown, InLoop, Checked, check_vars
<1>2. ASSUME Reject(<<>>, None, None) PROVE IInv'
  BY <1>2, RejectStep
<1>3. ASSUME Fails(None, None) PROVE IInv'
  BY <1>3, FailsStep
<1> QED BY <1>1, <1>2, <1>3

\* The worker's answer, to propose or to repair.
LEMMA WorkerStep ==
  ASSUME IInv, pc \in {"propose", "repair"},
         NEW about \in Claim \cup {None}, NEW given \in Receipt \cup {None},
         WorkerReturns(about, given)
  PROVE  IInv'
<1> USE DEF WorkerReturns, Going
<1>1. ASSUME NEW c \in Claim, WorkerAnswers(c), pc' = "wrap", claim' = c,
             UNCHANGED <<state, spec, attempt, round, parent, check_vars, audit, result, cause>>
      PROVE  IInv'
  <2>1. TrailKnown' /\ OneEnding' /\ ApprovedIsVerified'
    BY <1>1, SilentTrail
  <2>2. TypeOK'
    BY <1>1 DEF IInv, TypeOK, check_vars
  <2>3. SpecKnown' /\ RoundIsAttempt' /\ ReceiptKnown'
    BY <1>1 DEF IInv, SpecKnown, RoundIsAttempt, ReceiptKnown, InLoop, Checked
  <2> QED BY <2>1, <2>2, <2>3 DEF IInv
<1>2. ASSUME Reject(<<>>, about, given) PROVE IInv'
  BY <1>2, RejectStep
<1>3. ASSUME Fails(about, given) PROVE IInv'
  BY <1>3, FailsStep
<1> QED BY <1>1, <1>2, <1>3

LEMMA ProposeStep ==
  ASSUME IInv, Propose
  PROVE  IInv'
BY WorkerStep DEF Propose

LEMMA RepairStep ==
  ASSUME IInv, Repair
  PROVE  IInv'
BY WorkerStep DEF Repair, IInv, ReceiptKnown, InLoop, Checked

\* The end of the loop is never reached: the round is the attempt.
LEMMA WrapStep ==
  ASSUME IInv, Wrap
  PROVE  IInv'
<1> USE DEF Wrap, Going
<1>1. round <= MaxRepairs + 1
  BY DEF IInv, TypeOK
<1>2. ASSUME pc' = "challenge", state' = "CHALLENGING",
             UNCHANGED <<spec, round_vars, check_vars, audit, result, cause>>
      PROVE  IInv'
  BY <1>2, SilentTrail DEF IInv, TypeOK, SpecKnown, RoundIsAttempt,
     ReceiptKnown, InLoop, Checked, round_vars, check_vars
<1>3. ASSUME Escape("component") PROVE IInv'
  BY <1>3, EscapeStep DEF Ended
<1>4. ~(round > MaxRepairs + 1)
  BY <1>1, EngineConstants DEF IInv, TypeOK
<1> QED BY <1>2, <1>3, <1>4

LEMMA ChallengeStep ==
  ASSUME IInv, Challenge
  PROVE  IInv'
<1> USE DEF Challenge, Going
<1>1. ASSUME NEW proposals \in CriticAnswers, PolicyAccepts(proposals),
             pc' = "verify", state' = "VERIFYING",
             obligations' = AuthorizedChallenge(proposals), receipt' = None, verdict' = None,
             UNCHANGED <<spec, round_vars, audit, result, cause>>
      PROVE  IInv'
  <2>1. obligations' \subseteq Proposed /\ Baseline \in obligations'
    BY <1>1, EngineConstants DEF AuthorizedChallenge, PolicyAccepts
  <2> QED BY <1>1, <2>1, SilentTrail DEF IInv, TypeOK, SpecKnown, RoundIsAttempt,
        ReceiptKnown, InLoop, Checked, round_vars
<1>2. ASSUME Reject(<<>>, claim, None) PROVE IInv'
  BY <1>2, RejectStep DEF IInv, TypeOK
<1>3. ASSUME Fails(claim, None) PROVE IInv'
  BY <1>3, FailsStep DEF IInv, TypeOK
<1> QED BY <1>1, <1>2, <1>3

LEMMA VerifyStep ==
  ASSUME IInv, Verify
  PROVE  IInv'
<1> USE DEF Verify, Going
<1>1. ASSUME NEW r \in Receipt, ReceiptValid(r, FALSE), pc' = "quarantine", receipt' = r,
             UNCHANGED <<state, spec, round_vars, obligations, verdict, audit, result, cause>>
      PROVE  IInv'
  BY <1>1, SilentTrail DEF IInv, TypeOK, SpecKnown, RoundIsAttempt, ReceiptKnown,
     ReceiptValid, InLoop, Checked, round_vars
<1>2. ASSUME NEW r \in Receipt \cup {None}, Reject(<<>>, claim, r) PROVE IInv'
  BY <1>2, RejectStep DEF IInv, TypeOK
<1>3. ASSUME NEW r \in Receipt, Fails(claim, r) PROVE IInv'
  BY <1>3, FailsStep DEF IInv, TypeOK
<1> QED BY <1>1, <1>2, <1>3

LEMMA QuarantineStep ==
  ASSUME IInv, Quarantine
  PROVE  IInv'
<1> USE DEF Quarantine, Going
<1> DEFINE e == [Event("CLAIM_QUARANTINED", claim) EXCEPT !.parent = parent]
<1>1. ASSUME pc' = "decide", audit' = Append(audit, e),
             UNCHANGED <<state, spec, round_vars, check_vars, result, cause>>
      PROVE  IInv'
  <2>1. e \in AuditEvent /\ e.kind \notin Final
    BY DEF Event, AuditEvent, IInv, TypeOK, Final
  <2> HIDE DEF e
  <2>2. audit' \in Seq(AuditEvent) /\ TrailKnown' /\ OneEnding' /\ ApprovedIsVerified'
    BY <1>1, <2>1, RecordedTrail
  <2>3. TypeOK'
    BY <1>1, <2>2 DEF IInv, TypeOK, round_vars, check_vars
  <2>4. SpecKnown' /\ RoundIsAttempt' /\ ReceiptKnown'
    BY <1>1 DEF IInv, SpecKnown, RoundIsAttempt, ReceiptKnown, ReceiptValid, Passed,
       InLoop, Checked, round_vars, check_vars
  <2> QED BY <2>2, <2>3, <2>4 DEF IInv
<1>2. ASSUME Fails(claim, receipt) PROVE IInv'
  BY <1>2, FailsStep DEF IInv, TypeOK
<1> QED BY <1>1, <1>2

\* The kernel decides what the receipt says.
LEMMA DecideStep ==
  ASSUME IInv, Decide
  PROVE  IInv'
<1> USE DEF Decide, Going
<1> DEFINE e == Event("DECISION_ISSUED", claim)
<1>1. ASSUME verdict' = Conclusion(receipt.obligations, BridgedStatus),
             audit' = Append(audit, e), pc' = IF Passed THEN "gate" ELSE "withhold",
             UNCHANGED <<state, spec, round_vars, obligations, receipt, result, cause>>
      PROVE  IInv'
  <2>1. e \in AuditEvent /\ e.kind \notin Final
    BY EventType DEF IInv, TypeOK, Final
  <2> HIDE DEF e
  <2>2. audit' \in Seq(AuditEvent) /\ TrailKnown' /\ OneEnding' /\ ApprovedIsVerified'
    BY <1>1, <2>1, RecordedTrail
  <2>3. receipt.obligations # {}
    BY DEF IInv, ReceiptKnown, Checked, ReceiptValid
  <2>4. verdict' = IF Passed THEN "VERIFIED" ELSE "REJECTED"
    BY <1>1, <2>3, BridgedVerdict
  <2>5. TypeOK'
    BY <1>1, <2>2, <2>4 DEF IInv, TypeOK, Verdicts, round_vars
  <2>6. SpecKnown' /\ RoundIsAttempt' /\ ReceiptKnown'
    BY <1>1, <2>4 DEF IInv, SpecKnown, RoundIsAttempt, ReceiptKnown, ReceiptValid, Passed,
       InLoop, Checked, round_vars
  <2> QED BY <2>2, <2>5, <2>6 DEF IInv
<1>2. ASSUME Fails(claim, receipt) PROVE IInv'
  BY <1>2, FailsStep DEF IInv, TypeOK
<1> QED BY <1>1, <1>2

LEMMA GateStep ==
  ASSUME IInv, Gate
  PROVE  IInv'
<1> USE DEF Gate, Going
<1>1. ASSUME pc' = "propagate", state' = "PASSED",
             UNCHANGED <<spec, round_vars, check_vars, audit, result, cause>>
      PROVE  IInv'
  <2>1. TrailKnown' /\ OneEnding' /\ ApprovedIsVerified'
    BY <1>1, SilentTrail
  <2>2. TypeOK'
    BY <1>1 DEF IInv, TypeOK, round_vars, check_vars
  <2>3. SpecKnown' /\ RoundIsAttempt' /\ ReceiptKnown'
    BY <1>1 DEF IInv, SpecKnown, RoundIsAttempt, ReceiptKnown, ReceiptValid, Passed,
       InLoop, Checked, round_vars, check_vars
  <2> QED BY <2>1, <2>2, <2>3 DEF IInv
<1>2. ASSUME Fails(claim, receipt) PROVE IInv'
  BY <1>2, FailsStep DEF IInv, TypeOK
<1> QED BY <1>1, <1>2

LEMMA PropagateStep ==
  ASSUME IInv, Propagate
  PROVE  IInv'
<1> USE DEF Propagate, Going
<1> DEFINE e == Event("ARTIFACT_PROPAGATED", claim)
<1>1. ASSUME pc' = "approve", audit' = Append(audit, e),
             UNCHANGED <<state, spec, round_vars, check_vars, result, cause>>
      PROVE  IInv'
  <2>1. e \in AuditEvent /\ e.kind = "ARTIFACT_PROPAGATED"
    BY EventType DEF IInv, TypeOK
  <2> HIDE DEF e
  <2>2. audit' \in Seq(AuditEvent) /\ TrailKnown' /\ OneEnding' /\ ApprovedIsVerified'
    <3>1. pc = "propagate" /\ state' = "PASSED"
      BY <1>1 DEF IInv, ReceiptKnown
    <3> QED BY <1>1, <2>1, <3>1, RecordedTrail
  <2>3. TypeOK'
    BY <1>1, <2>2 DEF IInv, TypeOK, round_vars, check_vars
  <2>4. SpecKnown' /\ RoundIsAttempt' /\ ReceiptKnown'
    BY <1>1 DEF IInv, SpecKnown, RoundIsAttempt, ReceiptKnown, ReceiptValid, Passed,
       InLoop, Checked, round_vars, check_vars
  <2> QED BY <2>2, <2>3, <2>4 DEF IInv
<1>2. ASSUME NEW events \in {<<>>, <<Event("PROPAGATION_BLOCKED", claim)>>},
             Reject(events, claim, receipt)
      PROVE  IInv'
  BY <1>2, RejectStep DEF IInv, TypeOK
<1> QED BY <1>1, <1>2

\* What is returned as approved is what the stages established.
LEMMA ApproveStep ==
  ASSUME IInv, Approve
  PROVE  IInv'
<1> USE DEF Approve, Answer
<1>1. /\ claim \in Claim /\ receipt \in Receipt /\ verdict = "VERIFIED" /\ state = "PASSED"
      /\ ReceiptValid(receipt, FALSE) /\ Passed /\ Baseline \in obligations
      /\ spec \in OfTask \cap Registered
      /\ audit[Len(audit)].kind = "ARTIFACT_PROPAGATED"
  BY DEF IInv, ReceiptKnown, SpecKnown, TrailKnown, InLoop, Checked
<1>2. result' \in Result /\ result' # None /\ claim # None
  BY <1>1, EngineConstants DEF IInv, TypeOK, Result, Verdicts
<1>3. TypeOK'
  BY <1>2 DEF IInv, TypeOK, round_vars, check_vars
<1>4. ApprovedIsVerified'
  BY <1>1 DEF ApprovedIsVerified, ReceiptValid, Passed, check_vars
<1>5. OneEnding' /\ TrailKnown'
  BY <1>1, <1>2 DEF IInv, TrailKnown, OneEnding, Final
<1>6. SpecKnown' /\ RoundIsAttempt' /\ ReceiptKnown'
  BY DEF SpecKnown, RoundIsAttempt, ReceiptKnown, InLoop, Checked
<1> QED BY <1>3, <1>4, <1>5, <1>6 DEF IInv

\* A blocked claim: the last attempt is rejected, any other is repaired.
LEMMA WithholdStep ==
  ASSUME IInv, Withhold
  PROVE  IInv'
<1> DEFINE b == Event("PROPAGATION_BLOCKED", claim)
<1>1. b \in AuditEvent /\ b.kind \notin Final
  BY EventType DEF IInv, TypeOK, Final
<1>2. ASSUME RepairsLeft, pc' = "repair", state' = "REPAIRING", audit' = Append(audit, b),
             parent' = claim, attempt' = attempt + 1, round' = round + 1,
             UNCHANGED <<spec, claim, check_vars, result, cause>>
      PROVE  IInv'
  <2>1. /\ audit' \in Seq(AuditEvent) /\ audit'[Len(audit')] = b
        /\ TrailKnown' /\ OneEnding' /\ ApprovedIsVerified'
    <3> HIDE DEF b
    <3> QED BY <1>1, <1>2, RecordedTrail DEF Withhold, Going
  <2>2. attempt' \in 0..(MaxRepairs + 1) /\ round' \in 1..(MaxRepairs + 1) /\ round' = attempt'
    BY <1>2, EngineConstants DEF Withhold, RepairsLeft, IInv, TypeOK, RoundIsAttempt, InLoop
  <2>3. TypeOK'
    BY <1>2, <2>1, <2>2 DEF IInv, TypeOK, check_vars
  <2>4. SpecKnown' /\ RoundIsAttempt'
    BY <1>2, <2>2 DEF Withhold, IInv, SpecKnown, RoundIsAttempt, InLoop
  <2>5. ReceiptKnown'
    BY <1>2, <2>1 DEF Withhold, Event, IInv, ReceiptKnown, ReceiptValid, Passed, InLoop,
       Checked, check_vars
  <2> QED BY <2>1, <2>3, <2>4, <2>5 DEF IInv
<1>3. ASSUME pc = "withhold", GiveUp(<<b>>, claim, receipt, "REJECTED")
      PROVE  IInv'
  BY <1>3, GiveUpStep DEF IInv, TypeOK, Going
<1> QED BY <1>2, <1>3 DEF Withhold

-----------------------------------------------------------------------------
(* Theorems *)

LEMMA IInvStutter ==
  ASSUME IInv, UNCHANGED vars
  PROVE  IInv'
BY DEF vars, IInv, TypeOK, SpecKnown, RoundIsAttempt, ReceiptKnown, TrailKnown,
   ApprovedIsVerified, OneEnding, Passed, ReceiptValid

LEMMA IInvNext == IInv /\ [Next]_vars => IInv'
<1> SUFFICES ASSUME IInv, [Next]_vars PROVE IInv'
  OBVIOUS
<1>1. CASE Interrupt
  BY <1>1, EscapeStep DEF Interrupt
<1>2. CASE PrintFails
  BY <1>2, EscapeStep DEF PrintFails, Going, Ended
<1> QED BY <1>1, <1>2, RecordStep, ReportStep, CreateSpecStep, AuthorizeSpecStep, ProposeStep, WrapStep, ChallengeStep,
      VerifyStep, QuarantineStep, DecideStep, GateStep, PropagateStep, ApproveStep,
      WithholdStep, RepairStep, IInvStutter DEF Next

\* The inductive invariant.
THEOREM Invariance == Spec => []IInv
BY IInvInit, IInvNext, PTL DEF Spec

\* Type correctness of the engine.
THEOREM TypeCorrect == Spec => []TypeOK
BY Invariance, PTL DEF IInv

\* Every approved result passed all checks on the registered contract.
THEOREM ApprovedIsVerifiedHolds == Spec => []ApprovedIsVerified
BY Invariance, PTL DEF IInv

\* Audit trail, result and state of a run agree on one ending, and from then on
\* only an interrupt, or the print of a rejection, makes run() raise.
THEOREM OneEndingHolds == Spec => []OneEnding
BY Invariance, PTL DEF IInv

LEMMA IInvRepair == IInv => RepairIsInformed
BY DEF IInv, ReceiptKnown, ReceiptValid, Passed, RepairIsInformed, Checked

\* Only authentic failed receipts about the claim reach the worker's repair.
THEOREM RepairIsInformedHolds == Spec => []RepairIsInformed
BY Invariance, IInvRepair, PTL

\* The line of the code that claims so is right: the end of run() is
\* unreachable, because the repairs run out in the iteration in which the loop
\* does.
THEOREM EndUnreachable == Spec => [](cause # "unreachable")
BY Invariance, PTL DEF IInv, TrailKnown

Normalizable == Unwrappable = {} /\ ErrorKinds \subseteq {"error"}

LEMMA ContainedStep ==
  ASSUME Normalizable, IInv, ComponentFailureContained, [Next]_vars
  PROVE  ComponentFailureContained'
<1> USE DEF ComponentFailureContained, Normalizable
<1>1. ASSUME NEW events, NEW about, NEW given, Reject(events, about, given)
      PROVE  UNCHANGED cause
  BY <1>1 DEF Reject, GiveUp, Answer
<1>2. ASSUME NEW about, NEW given, Fails(about, given) PROVE UNCHANGED cause
  BY <1>1, <1>2 DEF Fails
<1>3. CASE CreateSpec \/ AuthorizeSpec \/ Propose \/ Repair
  BY <1>1, <1>2, <1>3 DEF CreateSpec, AuthorizeSpec, Propose, Repair, WorkerReturns
<1>4. CASE Wrap
  BY <1>4, EngineConstants DEF Wrap, IInv, TypeOK
<1>5. CASE Challenge \/ Verify
  BY <1>1, <1>2, <1>5 DEF Challenge, Verify
<1>6. CASE Quarantine \/ Decide \/ Gate \/ Propagate
  BY <1>1, <1>2, <1>6 DEF Quarantine, Decide, Gate, Propagate
<1>7. CASE Approve \/ Withhold \/ Record \/ Report
  BY <1>7 DEF Approve, Withhold, Record, Report, GiveUp, Answer
<1>8. CASE PrintFails \/ Interrupt
  BY <1>8 DEF PrintFails, Interrupt, Escape
<1>9. CASE UNCHANGED vars
  BY <1>9 DEF vars
<1> QED BY <1>3, <1>4, <1>5, <1>6, <1>7, <1>8, <1>9 DEF Next

\* When every error message can be normalized and every claim that passes
\* validation can be wrapped, only an interrupt and a failing print leave run().
THEOREM ContainedHolds ==
  ASSUME Normalizable
  PROVE  Spec => []ComponentFailureContained
<1>1. Init => ComponentFailureContained
  BY DEF Init, ComponentFailureContained
<1>2. IInv /\ ComponentFailureContained /\ [Next]_vars => ComponentFailureContained'
  BY ContainedStep
<1> QED BY <1>1, <1>2, Invariance, PTL DEF Spec

-----------------------------------------------------------------------------
(* The line of descent.  The audit trail only grows, and what is known of its *)
(* last quarantined claim depends on the stage: it is the one that is being   *)
(* repaired until the next one is quarantined.                                *)

Unrecorded == {"propose", "wrap", "challenge", "verify", "quarantine", "repair"}
Recorded == {"decide", "gate", "propagate", "approve", "withhold"}

\* c is the claim that was quarantined last.
LastQuarantined(c) ==
  \E j \in Quarantined : audit[j].claim = c /\ \A k \in Quarantined : k <= j

\* Nothing is quarantined yet, and this is attempt 1; or the last quarantined
\* claim is the one that this attempt repairs.
ParentKnown ==
  \/ attempt = 1 /\ parent = None /\ Quarantined = {}
  \/ attempt > 1 /\ parent \in Claim /\ parent.attempt = attempt - 1 /\ LastQuarantined(parent)

LineKnown ==
  /\ AttemptsInOrder
  /\ pc \in {"plan", "authorize", "propose"} => Quarantined = {} /\ parent = None
  /\ pc = "propose" => attempt = 1
  /\ pc \in InLoop => claim.attempt = IF pc = "repair" THEN attempt - 1 ELSE attempt
  /\ pc \in Unrecorded => ParentKnown
  /\ pc \in Recorded => LastQuarantined(claim)
  /\ pc \in InLoop => \A n \in Attempts : n < attempt => CheckedAndBlocked(n)
  /\ RejectionIsEarned

\* The trail keeps what it has.
Grows ==
  /\ audit' \in Seq(AuditEvent)
  /\ Len(audit') >= Len(audit)
  /\ \A i \in 1..Len(audit) : audit'[i] = audit[i]

\* What it is extended by quarantines no claim.
NoneQuarantined ==
  \A i \in 1..Len(audit') : i > Len(audit) => audit'[i].kind # "CLAIM_QUARANTINED"

LEMMA GrowthKeeps ==
  ASSUME audit \in Seq(AuditEvent), Grows
  PROVE  /\ Quarantined \subseteq Quarantined' /\ Blocked \subseteq Blocked'
         /\ \A k \in Quarantined' : k \in Quarantined \/ k > Len(audit)
         /\ \A n : CheckedAndBlocked(n) => CheckedAndBlocked(n)'
         /\ \A i \in Quarantined : Descends(i) => Descends(i)'
<1> USE DEF Grows
<1>1. /\ Quarantined \subseteq Quarantined' /\ Blocked \subseteq Blocked'
      /\ \A k \in Quarantined' : k \in Quarantined \/ k > Len(audit)
  BY DEF Quarantined, Blocked
<1>2. \A i \in Quarantined \cup Blocked : audit'[i] = audit[i]
  BY DEF Quarantined, Blocked
<1>3. \A k \in Quarantined : k \in Nat /\ k <= Len(audit)
  BY DEF Quarantined
<1>4. \A k \in Quarantined' : k \in Nat
  BY DEF Quarantined
<1>5. ASSUME NEW n, CheckedAndBlocked(n) PROVE CheckedAndBlocked(n)'
  BY <1>1, <1>2, <1>5 DEF CheckedAndBlocked
<1>6. ASSUME NEW i \in Quarantined, Descends(i) PROVE Descends(i)'
  <2>1. CASE \A k \in Quarantined : k >= i
    BY <1>1, <1>2, <1>3, <1>4, <1>6, <2>1 DEF Descends
  <2>2. ASSUME NEW j \in Quarantined, j < i, \A k \in Quarantined : k <= j \/ k >= i,
               audit[i].claim.attempt = audit[j].claim.attempt + 1,
               audit[i].parent = audit[j].claim
        PROVE  Descends(i)'
    <3>1. \A k \in Quarantined' : k <= j \/ k >= i
      BY <1>1, <1>3, <1>4, <2>2
    <3> QED BY <1>1, <1>2, <2>2, <3>1 DEF Descends
  <2> QED BY <1>6, <2>1, <2>2 DEF Descends
<1> QED BY <1>1, <1>5, <1>6

LEMMA QuietGrowth ==
  ASSUME audit \in Seq(AuditEvent), Grows, NoneQuarantined, AttemptsInOrder
  PROVE  /\ Quarantined' = Quarantined
         /\ AttemptsInOrder'
         /\ \A c : LastQuarantined(c) => LastQuarantined(c)'
<1>1. Quarantined' = Quarantined
  BY GrowthKeeps DEF Grows, NoneQuarantined, Quarantined
<1>2. \A i \in Quarantined : audit'[i] = audit[i]
  BY DEF Grows, Quarantined
<1>3. AttemptsInOrder'
  BY <1>1, GrowthKeeps DEF AttemptsInOrder
<1>4. ASSUME NEW c, LastQuarantined(c) PROVE LastQuarantined(c)'
  BY <1>1, <1>2, <1>4 DEF LastQuarantined
<1> QED BY <1>1, <1>3, <1>4

LEMMA SilentLine ==
  ASSUME IInv, UNCHANGED audit
  PROVE  Grows /\ NoneQuarantined
BY DEF IInv, TypeOK, Grows, NoneQuarantined

LEMMA AppendedLine ==
  ASSUME IInv, NEW e \in AuditEvent, audit' = Append(audit, e)
  PROVE  /\ Grows
         /\ e.kind # "CLAIM_QUARANTINED" => NoneQuarantined
         /\ Len(audit') = Len(audit) + 1 /\ audit'[Len(audit) + 1] = e
BY DEF IInv, TypeOK, Grows, NoneQuarantined

\* A run that raises, or is rejected for a failure, records no claim.
LEMMA EscapeLine ==
  ASSUME IInv, LineKnown, NEW why, Escape(why)
  PROVE  LineKnown'
<1>1. Grows /\ NoneQuarantined
  BY DEF Escape, Grows, NoneQuarantined, IInv, TypeOK
<1>2. AttemptsInOrder' /\ \A n : CheckedAndBlocked(n) => CheckedAndBlocked(n)'
  BY <1>1, QuietGrowth, GrowthKeeps DEF IInv, TypeOK, LineKnown
<1> QED BY <1>2 DEF Escape, LineKnown, RejectionIsEarned, InLoop, Unrecorded, Recorded

LEMMA RejectLine ==
  ASSUME IInv, LineKnown,
         NEW events \in {<<>>, <<Event("PROPAGATION_BLOCKED", claim)>>},
         NEW about, NEW given, Reject(events, about, given)
  PROVE  LineKnown'
<1> DEFINE b == Event("PROPAGATION_BLOCKED", claim)
<1>1. b \in AuditEvent /\ b.kind # "CLAIM_QUARANTINED"
  BY EventType DEF IInv, TypeOK
<1>2. events = <<>> \/ events = <<b>>
  OBVIOUS
<1>3. audit \in Seq(AuditEvent) /\ audit' = audit \o events
  BY DEF Reject, GiveUp, IInv, TypeOK
<1>4. Grows /\ NoneQuarantined
  <2> HIDE DEF b
  <2>1. CASE events = <<>>
    BY <1>1, <1>3, <2>1 DEF Grows, NoneQuarantined
  <2>2. CASE events = <<b>>
    BY <1>1, <1>3, <2>2 DEF Grows, NoneQuarantined
  <2> QED BY <1>2, <2>1, <2>2
<1>5. AttemptsInOrder'
  BY <1>4, QuietGrowth DEF IInv, TypeOK, LineKnown
<1>6. result'.verdict = "ERROR" /\ pc' = "record"
  BY DEF Reject, GiveUp, Answer
<1> QED BY <1>5, <1>6 DEF LineKnown, RejectionIsEarned, InLoop, Unrecorded, Recorded

\* The end of a rejected run.
LEMMA EndLine ==
  ASSUME IInv, LineKnown, Record \/ Report
  PROVE  LineKnown'
<1>1. UNCHANGED result /\ pc' \in {"report", "returned"}
  BY DEF Record, Report
<1>2. Grows /\ NoneQuarantined
  <2>1. CASE Record
    <3> DEFINE e == Event("RUN_REJECTED", result.claim)
    <3>1. result.claim \in Claim \cup {None}
      BY <2>1 DEF Record, IInv, TrailKnown, Result
    <3>2. e \in AuditEvent /\ e.kind # "CLAIM_QUARANTINED" /\ audit' = Append(audit, e)
      BY <2>1, <3>1, EventType DEF Record
    <3> HIDE DEF e
    <3> QED BY <3>2, AppendedLine
  <2>2. CASE Report
    BY <2>2, SilentLine DEF Report
  <2> QED BY <2>1, <2>2
<1>3. AttemptsInOrder' /\ \A n : CheckedAndBlocked(n) => CheckedAndBlocked(n)'
  BY <1>2, QuietGrowth, GrowthKeeps DEF IInv, TypeOK, LineKnown
<1> QED BY <1>1, <1>3 DEF LineKnown, RejectionIsEarned, InLoop, Unrecorded, Recorded

LEMMA FailsLine ==
  ASSUME IInv, LineKnown, NEW about \in Claim \cup {None}, NEW given,
         Fails(about, given)
  PROVE  LineKnown'
BY EscapeLine, RejectLine DEF Fails

\* A step that records no claim and goes on in the same attempt.
LEMMA SameAttemptLine ==
  ASSUME IInv, LineKnown, Grows, NoneQuarantined,
         pc \in InLoop, pc' \in InLoop, pc # "repair", pc' # "repair",
         pc \in Unrecorded <=> pc' \in Unrecorded,
         UNCHANGED <<attempt, claim, parent, result>>
  PROVE  LineKnown'
<1>1. /\ Quarantined' = Quarantined /\ AttemptsInOrder'
      /\ \A c : LastQuarantined(c) => LastQuarantined(c)'
      /\ \A n : CheckedAndBlocked(n) => CheckedAndBlocked(n)'
  BY QuietGrowth, GrowthKeeps DEF IInv, TypeOK, LineKnown
<1>2. pc' \notin {"plan", "authorize", "propose"} /\ (pc \in Recorded <=> pc' \in Recorded)
  BY DEF InLoop, Unrecorded, Recorded
<1>3. RejectionIsEarned'
  BY <1>1 DEF LineKnown, RejectionIsEarned
<1>4. ParentKnown => ParentKnown'
  BY <1>1 DEF ParentKnown
<1> QED BY <1>1, <1>2, <1>3, <1>4 DEF LineKnown

-----------------------------------------------------------------------------
(* The steps, once more *)

LEMMA PlanLine ==
  ASSUME IInv, LineKnown, CreateSpec \/ AuthorizeSpec
  PROVE  LineKnown'
<1>1. ASSUME Reject(<<>>, None, None) PROVE LineKnown'
  BY <1>1, RejectLine
<1>2. ASSUME Fails(None, None) PROVE LineKnown'
  BY <1>2, FailsLine
<1>3. ASSUME pc \in {"plan", "authorize"}, pc' \in {"authorize", "propose"},
             pc' = "propose" => attempt' = 1, UNCHANGED <<parent, audit, result>>
      PROVE  LineKnown'
  <2>1. Grows /\ NoneQuarantined
    BY <1>3, SilentLine
  <2>2. /\ Quarantined' = Quarantined /\ AttemptsInOrder'
        /\ \A n : CheckedAndBlocked(n) => CheckedAndBlocked(n)'
    BY <2>1, QuietGrowth, GrowthKeeps DEF IInv, TypeOK, LineKnown
  <2>3. RejectionIsEarned'
    BY <1>3, <2>2 DEF LineKnown, RejectionIsEarned
  <2> QED BY <1>3, <2>2, <2>3 DEF LineKnown, ParentKnown, InLoop, Unrecorded, Recorded
<1> QED BY <1>1, <1>2, <1>3 DEF CreateSpec, AuthorizeSpec, round_vars

\* The worker's claim has the attempt number that was asked for.
LEMMA WorkerLine ==
  ASSUME IInv, LineKnown, pc \in {"propose", "repair"},
         NEW about \in Claim \cup {None}, NEW given,
         WorkerReturns(about, given)
  PROVE  LineKnown'
<1>1. ASSUME NEW c \in Claim, WorkerAnswers(c), pc' = "wrap", claim' = c,
             UNCHANGED <<state, spec, attempt, round, parent, check_vars, audit, result, cause>>
      PROVE  LineKnown'
  <2>1. Grows /\ NoneQuarantined
    BY <1>1, SilentLine
  <2>2. /\ Quarantined' = Quarantined /\ AttemptsInOrder'
        /\ \A d : LastQuarantined(d) => LastQuarantined(d)'
        /\ \A n : CheckedAndBlocked(n) => CheckedAndBlocked(n)'
    BY <2>1, QuietGrowth, GrowthKeeps DEF IInv, TypeOK, LineKnown
  <2>3. RejectionIsEarned'
    BY <1>1, <2>2 DEF LineKnown, RejectionIsEarned
  <2>4. ParentKnown'
    BY <1>1, <2>2 DEF LineKnown, ParentKnown, Unrecorded
  <2>5. \A n \in Attempts : n < attempt => CheckedAndBlocked(n)
    <3>1. CASE pc = "propose"
      BY <3>1, EngineConstants DEF LineKnown, Attempts
    <3>2. CASE pc = "repair"
      BY <3>2 DEF LineKnown, InLoop
    <3> QED BY <3>1, <3>2
  <2>6. claim'.attempt = attempt'
    BY <1>1 DEF WorkerAnswers
  <2> QED BY <1>1, <2>2, <2>3, <2>4, <2>5, <2>6 DEF LineKnown, InLoop, Unrecorded, Recorded
<1>2. ASSUME Reject(<<>>, about, given) PROVE LineKnown'
  BY <1>2, RejectLine
<1>3. ASSUME Fails(about, given) PROVE LineKnown'
  BY <1>3, FailsLine
<1> QED BY <1>1, <1>2, <1>3 DEF WorkerReturns

\* Up to the kernel's evaluation nothing is recorded.
LEMMA BeforeLine ==
  ASSUME IInv, LineKnown, Wrap \/ Challenge \/ Verify
  PROVE  LineKnown'
<1>1. ASSUME pc \in {"wrap", "challenge", "verify"},
             pc' \in {"challenge", "verify", "quarantine"},
             UNCHANGED <<attempt, claim, parent, audit, result>>
      PROVE  LineKnown'
  BY <1>1, SilentLine, SameAttemptLine DEF InLoop, Unrecorded
<1>2. ASSUME NEW why, Escape(why) PROVE LineKnown'
  BY <1>2, EscapeLine
<1>3. ASSUME NEW given, Reject(<<>>, claim, given) PROVE LineKnown'
  BY <1>3, RejectLine DEF IInv, TypeOK
<1>4. ASSUME NEW given, Fails(claim, given) PROVE LineKnown'
  BY <1>4, FailsLine DEF IInv, TypeOK
<1>5. CASE Wrap
  BY <1>1, <1>2, <1>5 DEF Wrap, round_vars
<1>6. CASE Challenge
  BY <1>1, <1>3, <1>4, <1>6 DEF Challenge, round_vars
<1>7. CASE Verify
  BY <1>1, <1>3, <1>4, <1>7 DEF Verify, round_vars
<1> QED BY <1>5, <1>6, <1>7

\* The claim that is quarantined repairs the one before it.
LEMMA QuarantineLine ==
  ASSUME IInv, LineKnown, Quarantine
  PROVE  LineKnown'
<1> DEFINE e == [Event("CLAIM_QUARANTINED", claim) EXCEPT !.parent = parent]
<1>0. PICK here : here = Len(audit) + 1
  OBVIOUS
<1>1. ASSUME pc' = "decide", audit' = Append(audit, e),
             UNCHANGED <<state, spec, round_vars, check_vars, result, cause>>
      PROVE  LineKnown'
  <2>1. /\ e \in AuditEvent /\ e.kind = "CLAIM_QUARANTINED"
        /\ e.claim = claim /\ e.parent = parent
    BY DEF Event, AuditEvent, IInv, TypeOK
  <2> HIDE DEF e
  <2>2. Grows /\ Len(audit') = here /\ audit'[here] = e /\ here \in Nat /\ here > Len(audit)
    BY <1>0, <1>1, <2>1, AppendedLine DEF IInv, TypeOK
  <2>3. /\ Quarantined \subseteq Quarantined'
        /\ \A n : CheckedAndBlocked(n) => CheckedAndBlocked(n)'
        /\ \A i \in Quarantined : Descends(i) => Descends(i)'
    BY <2>2, GrowthKeeps DEF IInv, TypeOK
  <2>4. Quarantined' = Quarantined \cup {here}
    BY <1>0, <2>1, <2>2 DEF Quarantined, Grows, IInv, TypeOK
  <2>5. \A k \in Quarantined : k \in Nat /\ k < here /\ audit'[k] = audit[k]
    BY <2>2 DEF Quarantined, Grows, IInv, TypeOK
  <2>6. /\ claim.attempt = attempt /\ ParentKnown /\ pc = "quarantine"
        /\ \A n \in Attempts : n < attempt => CheckedAndBlocked(n)
        /\ attempt \in Nat
    BY EngineConstants DEF Quarantine, LineKnown, InLoop, Unrecorded, IInv, TypeOK
  <2>7. Descends(here)'
    <3>1. CASE attempt = 1 /\ parent = None /\ Quarantined = {}
      BY <2>1, <2>2, <2>4, <2>6, <3>1 DEF Descends
    <3>2. CASE attempt > 1 /\ parent.attempt = attempt - 1 /\ LastQuarantined(parent)
      <4>1. PICK j \in Quarantined : audit[j].claim = parent /\ \A k \in Quarantined : k <= j
        BY <3>2 DEF LastQuarantined
      <4>2. j \in Quarantined' /\ j < here /\ \A k \in Quarantined' : k <= j \/ k >= here
        BY <2>2, <2>4, <2>5, <4>1
      <4>3. audit'[here].claim.attempt = audit'[j].claim.attempt + 1
            /\ audit'[here].parent = audit'[j].claim
        BY <2>1, <2>2, <2>5, <2>6, <3>2, <4>1
      <4> QED BY <4>2, <4>3 DEF Descends
    <3> QED BY <2>6, <3>1, <3>2 DEF ParentKnown
  <2>8. AttemptsInOrder'
    BY <2>3, <2>4, <2>7 DEF AttemptsInOrder, LineKnown
  <2>9. LastQuarantined(claim)'
    BY <1>1, <2>1, <2>2, <2>4, <2>5 DEF LastQuarantined, round_vars
  <2>10. RejectionIsEarned'
    BY <1>1, <2>3 DEF RejectionIsEarned, LineKnown
  <2> QED BY <1>1, <2>3, <2>6, <2>8, <2>9, <2>10 DEF LineKnown, InLoop, Unrecorded, Recorded,
        round_vars
<1>2. ASSUME Fails(claim, receipt) PROVE LineKnown'
  BY <1>2, FailsLine DEF IInv, TypeOK
<1> QED BY <1>1, <1>2 DEF Quarantine

\* From there to the artifact the attempt stays the same.
LEMMA AfterLine ==
  ASSUME IInv, LineKnown, Decide \/ Gate \/ Propagate
  PROVE  LineKnown'
<1>1. ASSUME pc \in {"decide", "gate", "propagate"},
             pc' \in {"gate", "withhold", "propagate", "approve"},
             Grows, NoneQuarantined, UNCHANGED <<attempt, claim, parent, result>>
      PROVE  LineKnown'
  BY <1>1, SameAttemptLine DEF InLoop, Unrecorded
<1>2. ASSUME NEW events \in {<<>>, <<Event("PROPAGATION_BLOCKED", claim)>>}, NEW given,
             Reject(events, claim, given)
      PROVE  LineKnown'
  BY <1>2, RejectLine DEF IInv, TypeOK
<1>3. ASSUME NEW given, Fails(claim, given) PROVE LineKnown'
  BY <1>3, FailsLine DEF IInv, TypeOK
<1>4. ASSUME NEW kind \in {"DECISION_ISSUED", "ARTIFACT_PROPAGATED"},
             audit' = Append(audit, Event(kind, claim))
      PROVE  Grows /\ NoneQuarantined
  <2>1. Event(kind, claim) \in AuditEvent /\ Event(kind, claim).kind # "CLAIM_QUARANTINED"
    BY EventType DEF IInv, TypeOK
  <2> QED BY <1>4, <2>1, AppendedLine
<1>5. CASE Decide
  BY <1>1, <1>3, <1>4, <1>5 DEF Decide, round_vars
<1>6. CASE Gate
  BY <1>1, <1>3, <1>6, SilentLine DEF Gate, round_vars
<1>7. CASE Propagate
  BY <1>1, <1>2, <1>4, <1>7 DEF Propagate, round_vars
<1> QED BY <1>5, <1>6, <1>7

LEMMA ApproveLine ==
  ASSUME IInv, LineKnown, Approve
  PROVE  LineKnown'
<1>1. Grows /\ NoneQuarantined
  BY SilentLine DEF Approve
<1>2. AttemptsInOrder'
  BY <1>1, QuietGrowth DEF IInv, TypeOK, LineKnown
<1>3. result'.verdict = "VERIFIED" /\ pc' = "returned"
  BY DEF Approve, Answer, IInv, ReceiptKnown
<1> QED BY <1>2, <1>3 DEF LineKnown, RejectionIsEarned, InLoop, Unrecorded, Recorded

\* The claim of this attempt is now quarantined and withheld; if it was the
\* last repair, so are all of them.
LEMMA WithholdLine ==
  ASSUME IInv, LineKnown, Withhold
  PROVE  LineKnown'
<1> DEFINE b == Event("PROPAGATION_BLOCKED", claim)
           here == Len(audit) + 1
<1>1. b \in AuditEvent /\ b.kind = "PROPAGATION_BLOCKED" /\ b.claim = claim
  BY EventType DEF IInv, TypeOK, Event
<1>2. /\ pc = "withhold" /\ claim \in Claim /\ claim.attempt = attempt /\ attempt \in Nat
      /\ LastQuarantined(claim)
      /\ \A n \in Attempts : n < attempt => CheckedAndBlocked(n)
  BY DEF Withhold, LineKnown, InLoop, Recorded, IInv, TypeOK, ReceiptKnown
<1>3. audit' = Append(audit, b) \/ audit' = audit \o <<b>>
  BY DEF Withhold, GiveUp
<1>4. /\ Grows /\ NoneQuarantined /\ Len(audit') >= here /\ audit'[here] = b
      /\ here \in Nat /\ here > Len(audit)
  <2> HIDE DEF b
  <2>1. audit \in Seq(AuditEvent)
    BY DEF IInv, TypeOK
  <2> QED BY <1>1, <1>3, <2>1 DEF Grows, NoneQuarantined
<1> HIDE DEF b
<1>5. /\ Quarantined' = Quarantined /\ AttemptsInOrder'
      /\ \A c : LastQuarantined(c) => LastQuarantined(c)'
      /\ \A n : CheckedAndBlocked(n) => CheckedAndBlocked(n)'
  BY <1>4, QuietGrowth, GrowthKeeps DEF IInv, TypeOK, LineKnown
<1>6. here \in Blocked'
  BY <1>1, <1>4 DEF Blocked, Grows
<1> HIDE DEF here
<1>7. ASSUME NEW a, a = attempt PROVE CheckedAndBlocked(a)'
  <2>1. PICK i \in Quarantined : audit[i].claim = claim
    BY <1>2 DEF LastQuarantined
  <2>2. i \in Nat /\ i < here /\ audit'[i] = audit[i]
    BY <1>4 DEF Quarantined, Grows, IInv, TypeOK
  <2> QED BY <1>1, <1>2, <1>4, <1>5, <1>6, <1>7, <2>1, <2>2 DEF CheckedAndBlocked
<1>8. ASSUME RepairsLeft, pc' = "repair", parent' = claim, attempt' = attempt + 1,
             UNCHANGED <<spec, claim, check_vars, result, cause>>
      PROVE  LineKnown'
  <2>1. ParentKnown'
    <3>1. LastQuarantined(parent)'
      BY <1>2, <1>5, <1>8 DEF LastQuarantined
    <3>2. attempt >= 1
      BY DEF IInv, RoundIsAttempt, TypeOK, InLoop, Withhold
    <3> QED BY <1>2, <1>8, <3>1, <3>2 DEF ParentKnown
  <2>2. \A n \in Attempts : n < attempt' => CheckedAndBlocked(n)'
    BY <1>2, <1>5, <1>7, <1>8 DEF Attempts
  <2>3. RejectionIsEarned'
    BY <1>5, <1>8 DEF LineKnown, RejectionIsEarned
  <2> QED BY <1>2, <1>5, <1>8, <2>1, <2>2, <2>3 DEF LineKnown, InLoop, Unrecorded, Recorded
<1>9. ASSUME ~RepairsLeft, pc' = "record" PROVE LineKnown'
  <2>1. \A n \in Attempts : CheckedAndBlocked(n)'
    <3>1. \A n \in Attempts : n < attempt \/ n = attempt
      BY <1>2, <1>9, EngineConstants DEF RepairsLeft, Attempts
    <3> QED BY <1>2, <1>5, <1>7, <3>1
  <2> QED BY <1>5, <1>9, <2>1 DEF LineKnown, RejectionIsEarned, InLoop, Unrecorded, Recorded
<1> QED BY <1>8, <1>9 DEF Withhold, GiveUp

LEMMA LineInit == Init => LineKnown
<1> SUFFICES ASSUME Init PROVE LineKnown
  OBVIOUS
<1>1. Quarantined = {}
  BY DEF Init, Quarantined, Event
<1> QED BY <1>1, EngineConstants DEF Init, LineKnown, AttemptsInOrder, RejectionIsEarned,
      InLoop, Unrecorded, Recorded

LEMMA LineNext == IInv /\ LineKnown /\ [Next]_vars => LineKnown'
<1> SUFFICES ASSUME IInv, LineKnown, [Next]_vars PROVE LineKnown'
  OBVIOUS
<1>1. CASE Propose \/ Repair
  BY <1>1, WorkerLine DEF Propose, Repair, IInv, TypeOK
<1>2. CASE PrintFails \/ Interrupt
  BY <1>2, EscapeLine DEF PrintFails, Interrupt
<1>3. CASE UNCHANGED vars
  BY <1>3 DEF vars, LineKnown, AttemptsInOrder, RejectionIsEarned, Descends, CheckedAndBlocked,
     ParentKnown, LastQuarantined, Quarantined, Blocked
<1> QED BY <1>1, <1>2, <1>3, PlanLine, BeforeLine, QuarantineLine, AfterLine, ApproveLine,
      WithholdLine, EndLine DEF Next

LEMMA LineHolds == Spec => []LineKnown
BY Invariance, LineInit, LineNext, PTL DEF Spec

\* The quarantined claims of a run are one line of descent.
THEOREM AttemptsInOrderHolds == Spec => []AttemptsInOrder
BY LineHolds, PTL DEF LineKnown

\* A verdict of REJECTED is returned only after the first claim and every
\* repair were checked and blocked, for any number of repairs.
THEOREM RejectionIsEarnedHolds == Spec => []RejectionIsEarned
BY LineHolds, PTL DEF LineKnown

-----------------------------------------------------------------------------
(* The verifier whose receipts the engine acts on, for any plan, candidate   *)
(* and number of test cases, and whatever the children do beside it.         *)

Output == Values \cup {"nothing"}
Words == [by : {"runner", "candidate"}, says : {"noise", "blank", "answer", "error"},
          output : Output]
Process == [at : {"none", "candidate", "reported", "exited", "killed"}, out : Seq(Words),
            code : {0, 1}, computed : Output]
Run == [item : Nat, case : DOMAIN Expected, child : Process]
Observation == [id : {plan[n].id : n \in Nat}, status : {"PASSED", "FAILED"}]

\* The runner's answer in the pipe is what the candidate computed, and there is one
\* as soon as it has computed something.
Reported(word) == word.by = "runner" /\ word.says = "answer"

Truthful(c) ==
  /\ \A w \in DOMAIN c.out : Reported(c.out[w]) => c.out[w].output = c.computed
  /\ c.computed # "nothing" => \E w \in DOMAIN c.out : Reported(c.out[w])
  /\ c.at \in {"none", "candidate"} =>
       c.computed = "nothing" /\ \A w \in DOMAIN c.out : ~Reported(c.out[w])

VerifierTypes ==
  /\ stage \in {"called", "next", "case", "wait", "judge", "returned", "raised"}
  /\ case \in DOMAIN Expected \cup {0}
  /\ child \in Process /\ Truthful(child)
  /\ evidence \in Seq(Observation)
  /\ runs \in Seq(Run)

\* Shown, PassIsEarned and FailureIsOwn, of any sequence of runs.
Shown(rs, n, before, k) ==
  {i \in DOMAIN rs : rs[i].item = n} = (before + 1)..(before + k)

\* The last k runs are those of item n, one for each test case up to k, all right.
Tried(rs, n, k) ==
  \E before \in 0..Len(rs) :
    /\ before + k = Len(rs)
    /\ Shown(rs, n, before, k)
    /\ \A c \in 1..k : Right(c, rs[before + c])

Earned(rs, n) ==
  \E before \in 0..Len(rs) :
    /\ Shown(rs, n, before, Len(Expected))
    /\ \A c \in DOMAIN Expected : Right(c, rs[before + c])

Own(rs, n) ==
  \E before \in 0..Len(rs), k \in DOMAIN Expected :
    /\ Shown(rs, n, before, k)
    /\ \A c \in 1..(k - 1) : Right(c, rs[before + c])
    /\ Wrong(k, rs[before + k].child)

\* While the test cases of an item are run, its children are the last ones,
\* one for every case before this one, and they were right.
CasesKnown ==
  /\ \A i \in DOMAIN runs : runs[i].item <= item
  /\ stage \in {"called", "next"} => \A i \in DOMAIN runs : runs[i].item < item
  /\ stage \in {"case", "wait", "judge"} =>
       case \in DOMAIN Expected /\ Tried(runs, item, case - 1)

VerifierInv ==
  /\ VerifierTypes /\ CasesKnown
  /\ \A n \in DOMAIN evidence :
       evidence[n].status = "PASSED" /\ plan[n].kind = "TEST_EXECUTION" => Earned(runs, n)
  /\ \A n \in DOMAIN evidence :
       evidence[n].status = "FAILED" /\ plan[n].kind = "TEST_EXECUTION" => Own(runs, n)

LEMMA ExpectedFacts ==
  /\ Len(Expected) \in Nat /\ Len(Expected) >= 1
         /\ DOMAIN Expected = 1..Len(Expected) /\ 1 \in DOMAIN Expected
         /\ "nothing" \notin Values
         /\ \A c \in DOMAIN Expected : Expected[c] # "nothing"
BY VerifierConstants DEF Range

LEMMA FreshProcess ==
  /\ Fresh \in Process /\ Truthful(Fresh)
  /\ NoChild \in Process /\ Truthful(NoChild)
  /\ NoChild.at = "none"
<1> DEFINE f == [at |-> "candidate", out |-> <<>>, code |-> 0, computed |-> "nothing"]
           n == [at |-> "none", out |-> <<>>, code |-> 0, computed |-> "nothing"]
<1>1. Fresh = f /\ NoChild = n
  BY DEF Fresh, NoChild
<1>2. f \in Process /\ n \in Process
  BY DEF Process, Output
<1>3. Truthful(f) /\ Truthful(n)
  BY DEF Truthful
<1> QED BY <1>1, <1>2, <1>3

\* The properties the run checks are two of the invariant's conjuncts.
LEMMA VerifierPromises ==
  ASSUME VerifierInv
  PROVE  PassIsEarned /\ FailureIsOwn
BY DEF VerifierInv, PassIsEarned, FailureIsOwn, Earned, Own, Shown, Ran

LEMMA VerifierStarts ==
  ASSUME VerifierInit
  PROVE  VerifierInv
<1>1. VerifierTypes
  BY FreshProcess DEF VerifierInit, VerifierTypes
<1> QED BY <1>1 DEF VerifierInit, VerifierInv, CasesKnown

-----------------------------------------------------------------------------
(* The child *)

\* One more word that is no answer of the runner's, or its first.
LEMMA Speaks ==
  ASSUME NEW c \in Process, Truthful(c), NEW word \in Words, NEW d \in Process,
         d.out = Append(c.out, word),
         \/ /\ ~Reported(word) /\ d.computed = c.computed
            /\ d.at = c.at \/ d.at = "reported"
         \/ /\ Reported(word) /\ d.computed = word.output /\ d.at = "reported"
            /\ c.at = "candidate"
  PROVE  Truthful(d)
<1>1. /\ c.out \in Seq(Words) /\ d.out \in Seq(Words)
      /\ Len(d.out) = Len(c.out) + 1 /\ d.out[Len(c.out) + 1] = word
      /\ \A w \in DOMAIN c.out : w \in DOMAIN d.out /\ d.out[w] = c.out[w]
      /\ \A w \in DOMAIN d.out : w \in DOMAIN c.out \/ w = Len(c.out) + 1
      /\ Len(c.out) + 1 \in DOMAIN d.out
  BY DEF Process
<1> QED BY <1>1 DEF Truthful

\* The child after it wrote the word.
Later(c, word, at, v) ==
  [at |-> at, out |-> Append(c.out, word), code |-> c.code, computed |-> v]

LEMMA Wrote ==
  ASSUME NEW c, c \in Process, NEW word, word \in Words,
         NEW at, at \in {"candidate", "reported"}, NEW v, v \in Output
  PROVE  /\ Later(c, word, at, v) \in Process
         /\ Later(c, word, at, v).out = Append(c.out, word)
         /\ Later(c, word, at, v).computed = v
         /\ Later(c, word, at, v).at = at
<1>1. PICK o : o = Append(c.out, word)
  OBVIOUS
<1>2. o \in Seq(Words) /\ c.code \in {0, 1}
  BY <1>1 DEF Process
<1>3. Later(c, word, at, v) = [at |-> at, out |-> o, code |-> c.code, computed |-> v]
  BY <1>1 DEF Later
<1> QED BY <1>1, <1>2, <1>3 DEF Process

LEMMA ChildMoves ==
  ASSUME VerifierInv, Child
  PROVE  VerifierInv'
<1>0. child \in Process /\ Truthful(child) /\ child.computed \in Output
  BY DEF VerifierInv, VerifierTypes, Process
<1>1. ASSUME NEW word, word \in Words, ~Reported(word), Alive,
             NEW at \in {child.at, "reported"},
             child' = [child EXCEPT !.at = at, !.out = Append(child.out, word)]
      PROVE  child' \in Process /\ Truthful(child')
  <2>1. PICK d : d = Later(child, word, at, child.computed)
    OBVIOUS
  <2>2. at \in {"candidate", "reported"}
    BY <1>1 DEF Alive
  <2>3. child' = d
    <3>1. PICK o : o = Append(child.out, word)
      OBVIOUS
    <3>2. child' = [child EXCEPT !.at = at, !.out = o]
      BY <1>1, <3>1
    <3>3. d = [at |-> at, out |-> o, code |-> child.code, computed |-> child.computed]
      BY <2>1, <3>1 DEF Later
    <3>4. PICK e : e = [child EXCEPT !.at = at, !.out = o]
      OBVIOUS
    <3>5. e = [at |-> at, out |-> o, code |-> child.code, computed |-> child.computed]
      BY <1>0, <3>4 DEF Process
    <3> QED BY <3>2, <3>3, <3>4, <3>5, Zenon
  <2>4. /\ d \in Process /\ d.out = Append(child.out, word)
        /\ d.computed = child.computed /\ d.at = at
    BY <1>0, <1>1, <2>1, <2>2, Wrote
  <2> QED BY <1>0, <1>1, <2>3, <2>4, Speaks
<1>2. ASSUME NEW v \in Values, ChildAnswers(v)
      PROVE  child' \in Process /\ Truthful(child')
  <2>1. PICK word : word = [by |-> "runner", says |-> "answer", output |-> v]
    OBVIOUS
  <2>2. word \in Words /\ Reported(word) /\ word.output = v /\ v \in Output
    BY <2>1 DEF Words, Output, Reported
  <2>3. PICK d : d = Later(child, word, "reported", v)
    OBVIOUS
  <2>4. /\ d \in Process /\ d.out = Append(child.out, word)
        /\ d.computed = v /\ d.at = "reported"
    BY <1>0, <2>2, <2>3, Wrote
  <2>5. child' = d /\ child.at = "candidate"
    <3>1. PICK o : o = Append(child.out, word)
      OBVIOUS
    <3>2. child' = [child EXCEPT !.at = "reported", !.computed = v, !.out = o]
      BY <1>2, <2>1, <3>1 DEF ChildAnswers, Word
    <3>3. d = [at |-> "reported", out |-> o, code |-> child.code, computed |-> v]
      BY <2>3, <3>1 DEF Later
    <3>4. PICK e : e = [child EXCEPT !.at = "reported", !.computed = v, !.out = o]
      OBVIOUS
    <3>5. e = [at |-> "reported", out |-> o, code |-> child.code, computed |-> v]
      BY <1>0, <3>4 DEF Process
    <3>6. child' = d
      BY <3>2, <3>3, <3>4, <3>5, Zenon
    <3> QED BY <1>2, <3>6 DEF ChildAnswers
  <2> QED BY <1>0, <2>2, <2>4, <2>5, Speaks
<1>3. ASSUME NEW c \in {0, 1}, ChildExits(c)
      PROVE  child' \in Process /\ Truthful(child')
  BY <1>0, <1>3 DEF ChildExits, Process, Truthful
<1>4. child' \in Process /\ Truthful(child')
  <2>1. ASSUME NEW word \in OwnWords, ChildWrites(word)
        PROVE  child' \in Process /\ Truthful(child')
    <3>1. word \in Words /\ ~Reported(word)
      BY DEF OwnWords, Noise, Word, Words, Output, Reported
    <3>2. child' = [child EXCEPT !.at = child.at, !.out = Append(child.out, word)]
      BY <1>0, <2>1 DEF ChildWrites, Process
    <3> QED BY <1>1, <2>1, <3>1, <3>2 DEF ChildWrites
  <2>2. CASE ChildReportsError
    <3>1. PICK word : word = [by |-> "runner", says |-> "error", output |-> "nothing"]
      OBVIOUS
    <3>2. word \in Words /\ ~Reported(word)
      BY <3>1 DEF Words, Output, Reported
    <3>3. child' = [child EXCEPT !.at = "reported", !.out = Append(child.out, word)]
      BY <2>2, <3>1 DEF ChildReportsError, Word
    <3> QED BY <1>1, <2>2, <3>2, <3>3 DEF ChildReportsError
  <2> QED BY <1>2, <1>3, <2>1, <2>2 DEF Child
<1>5. UNCHANGED <<stage, plan, code, case, evidence, runs>>
  BY DEF Child
<1>6. VerifierTypes'
  BY <1>4, <1>5 DEF VerifierInv, VerifierTypes, Observation
<1> QED BY <1>5, <1>6 DEF VerifierInv, CasesKnown, item

-----------------------------------------------------------------------------
(* The runs of the test cases *)

\* The sequence qs is rs with the run r behind it.
Longer(rs, r, qs) ==
  /\ Len(rs) \in Nat /\ Len(qs) = Len(rs) + 1
  /\ DOMAIN rs = 1..Len(rs) /\ DOMAIN qs = 1..Len(qs)
  /\ qs[Len(rs) + 1] = r
  /\ \A i \in DOMAIN rs : i \in DOMAIN qs /\ qs[i] = rs[i]
  /\ \A i \in DOMAIN qs : i \in DOMAIN rs \/ i = Len(rs) + 1

LEMMA RunAdded ==
  ASSUME NEW rs \in Seq(Run), NEW r \in Run, NEW qs, qs = Append(rs, r)
  PROVE  Longer(rs, r, qs) /\ qs \in Seq(Run)
BY DEF Longer

\* The k runs behind b are the same in both.
Same(qs, rs, b, k) == \A c \in 1..k : qs[b + c] = rs[b + c]

\* A new run leaves those of the other items where they are.
LEMMA OldRuns ==
  ASSUME NEW rs, NEW r, NEW qs, Longer(rs, r, qs),
         NEW n, n # r.item, NEW b, NEW k, b \in 0..Len(rs), k \in Nat, Shown(rs, n, b, k)
  PROVE  /\ b \in 0..Len(qs) /\ Shown(qs, n, b, k)
         /\ Same(qs, rs, b, k)
<1>1. {i \in DOMAIN qs : qs[i].item = n} = {i \in DOMAIN rs : rs[i].item = n}
  BY DEF Longer
<1>2. b \in Nat /\ b \in 0..Len(qs)
  BY DEF Longer
<1>3. \A c \in 1..k : b + c \in (b + 1)..(b + k)
  BY <1>2
<1>4. \A c \in 1..k : b + c \in DOMAIN rs
  BY <1>3 DEF Shown
<1> QED BY <1>1, <1>2, <1>4 DEF Shown, Longer, Same

LEMMA OldItems ==
  ASSUME NEW rs, NEW r, NEW qs, Longer(rs, r, qs), NEW n, n # r.item
  PROVE  (Earned(rs, n) => Earned(qs, n)) /\ (Own(rs, n) => Own(qs, n))
<1>1. ASSUME Earned(rs, n) PROVE Earned(qs, n)
  <2>1. PICK b \in 0..Len(rs) : /\ Shown(rs, n, b, Len(Expected))
                               /\ \A c \in DOMAIN Expected : Right(c, rs[b + c])
    BY <1>1 DEF Earned
  <2>2. /\ b \in 0..Len(qs) /\ Shown(qs, n, b, Len(Expected))
        /\ Same(qs, rs, b, Len(Expected))
    BY <2>1, OldRuns, ExpectedFacts
  <2> QED BY <2>1, <2>2, ExpectedFacts DEF Earned, Same
<1>2. ASSUME Own(rs, n) PROVE Own(qs, n)
  <2>1. PICK b \in 0..Len(rs), k \in DOMAIN Expected :
          /\ Shown(rs, n, b, k)
          /\ \A c \in 1..(k - 1) : Right(c, rs[b + c])
          /\ Wrong(k, rs[b + k].child)
    BY <1>2 DEF Own
  <2>2. k \in Nat /\ k \in 1..k /\ \A c \in 1..(k - 1) : c \in 1..k
    BY ExpectedFacts
  <2>3. /\ b \in 0..Len(qs) /\ Shown(qs, n, b, k)
        /\ Same(qs, rs, b, k)
    BY <2>1, <2>2, OldRuns
  <2> QED BY <2>1, <2>2, <2>3 DEF Own, Same
<1> QED BY <1>1, <1>2

LEMMA NewRun ==
  ASSUME NEW rs, NEW r, NEW qs, Longer(rs, r, qs),
         NEW b, NEW k, b \in Nat, k \in Nat, b + k = Len(rs), Shown(rs, r.item, b, k)
  PROVE  /\ Shown(qs, r.item, b, k + 1) /\ b \in 0..Len(qs) /\ qs[b + (k + 1)] = r
         /\ Same(qs, rs, b, k)
<1>1. {i \in DOMAIN qs : qs[i].item = r.item} =
        {i \in DOMAIN rs : rs[i].item = r.item} \cup {Len(rs) + 1}
  BY DEF Longer
<1>2. (b + 1)..(b + k) \cup {Len(rs) + 1} = (b + 1)..(b + (k + 1))
  OBVIOUS
<1>3. \A c \in 1..k : b + c \in DOMAIN rs
  BY DEF Longer
<1>4. b + (k + 1) = Len(rs) + 1 /\ b \in 0..Len(qs)
  BY DEF Longer
<1> QED BY <1>1, <1>2, <1>3, <1>4 DEF Shown, Longer, Same

\* One more case was right.
LEMMA CaseRight ==
  ASSUME NEW rs, NEW r, NEW qs, Longer(rs, r, qs),
         NEW k \in Nat, Tried(rs, r.item, k), Right(k + 1, r)
  PROVE  Tried(qs, r.item, k + 1)
<1>1. PICK b \in 0..Len(rs) : /\ b + k = Len(rs) /\ Shown(rs, r.item, b, k)
                             /\ \A c \in 1..k : Right(c, rs[b + c])
  BY DEF Tried
<1>2. b \in Nat
  BY DEF Longer
<1>3. /\ Shown(qs, r.item, b, k + 1) /\ b \in 0..Len(qs) /\ qs[b + (k + 1)] = r
      /\ Same(qs, rs, b, k)
  BY <1>1, <1>2, NewRun
<1>4. b + (k + 1) = Len(qs)
  <2>1. Len(rs) \in Nat /\ Len(qs) = Len(rs) + 1
    BY DEF Longer
  <2>2. b + k = Len(rs)
    BY <1>1
  <2> QED BY <1>2, <2>1, <2>2
<1>5. \A c \in 1..(k + 1) : c \in 1..k \/ c = k + 1
  OBVIOUS
<1> QED BY <1>1, <1>3, <1>4, <1>5 DEF Tried, Same

\* All were right: the pass is earned.
LEMMA AllRight ==
  ASSUME NEW rs, NEW n, Tried(rs, n, Len(Expected))
  PROVE  Earned(rs, n)
BY ExpectedFacts DEF Tried, Earned

\* The first that was not right decides the item.
LEMMA CaseWrong ==
  ASSUME NEW rs, NEW r, NEW qs, Longer(rs, r, qs),
         NEW c \in DOMAIN Expected, Tried(rs, r.item, c - 1), Wrong(c, r.child)
  PROVE  Own(qs, r.item)
<1>1. PICK k : k = c - 1
  OBVIOUS
<1>2. k \in Nat /\ k + 1 = c
  BY <1>1, ExpectedFacts
<1>3. PICK b \in 0..Len(rs) : /\ b + k = Len(rs) /\ Shown(rs, r.item, b, k)
                             /\ \A d \in 1..k : Right(d, rs[b + d])
  BY <1>1 DEF Tried
<1>4. b \in Nat
  BY DEF Longer
<1>5. /\ Shown(qs, r.item, b, k + 1) /\ b \in 0..Len(qs) /\ qs[b + (k + 1)] = r
      /\ Same(qs, rs, b, k)
  BY <1>2, <1>3, <1>4, NewRun
<1>6. /\ Shown(qs, r.item, b, c) /\ b \in 0..Len(qs) /\ qs[b + c] = r
      /\ \A d \in 1..(c - 1) : Right(d, qs[b + d])
  BY <1>1, <1>2, <1>3, <1>5 DEF Same
<1> QED BY <1>6 DEF Own
-----------------------------------------------------------------------------
(* The parent *)

LEMMA ItemFacts ==
  ASSUME VerifierTypes
  PROVE  item \in Nat
BY DEF VerifierTypes, item

\* The evidence of an item is about that item's runs, of which `rs` has the last.
LEMMA ObservesStep ==
  ASSUME VerifierInv, NEW status \in {"PASSED", "FAILED"},
         NEW m, m = item, NEW rs, rs = runs',
         evidence' = Append(evidence, [id |-> plan[m].id, status |-> status]),
         plan' = plan, stage' = "next",
         child' \in Process, Truthful(child'), case' \in DOMAIN Expected \cup {0},
         \/ rs = runs /\ plan[m].kind # "TEST_EXECUTION"
         \/ \E r \in Run : rs = Append(runs, r) /\ r.item = m,
         status = "PASSED" /\ plan[m].kind = "TEST_EXECUTION" => Earned(rs, m),
         status = "FAILED" /\ plan[m].kind = "TEST_EXECUTION" => Own(rs, m)
  PROVE  VerifierInv'
<1>1. PICK o : o = [id |-> plan[m].id, status |-> status]
  OBVIOUS
<1>2. PICK es : es = evidence
  OBVIOUS
<1>3. m \in Nat /\ m = Len(es) + 1 /\ es \in Seq(Observation) /\ runs \in Seq(Run)
  BY <1>2, ItemFacts DEF item, VerifierInv, VerifierTypes
<1>4. o \in Observation /\ o.status = status
  BY <1>1, <1>3 DEF Observation
<1>5. PICK fs : fs = Append(es, o)
  OBVIOUS
<1>6. /\ fs \in Seq(Observation) /\ Len(fs) = m /\ fs[m] = o
      /\ \A n \in DOMAIN fs : n = m \/ (n \in DOMAIN es /\ fs[n] = es[n] /\ n # m)
  BY <1>3, <1>4, <1>5
<1>7. evidence' = fs /\ item' = m + 1
  BY <1>1, <1>2, <1>5, <1>6 DEF item
<1>8. \A i \in DOMAIN runs : runs[i] \in Run /\ runs[i].item <= m
  BY <1>3 DEF VerifierInv, CasesKnown
<1>9. rs \in Seq(Run) /\ \A i \in DOMAIN rs : rs[i] \in Run /\ rs[i].item <= m
  <2>1. CASE rs = runs
    BY <1>3, <1>8, <2>1
  <2>2. ASSUME NEW r \in Run, rs = Append(runs, r), r.item = m
        PROVE  rs \in Seq(Run) /\ \A i \in DOMAIN rs : rs[i] \in Run /\ rs[i].item <= m
    <3>1. Longer(runs, r, rs) /\ rs \in Seq(Run)
      BY <1>3, <2>2, RunAdded
    <3>2. m <= m /\ rs[Len(runs) + 1] = r
      BY <1>3, <3>1 DEF Longer
    <3>3. \A i \in DOMAIN rs : (i \in DOMAIN runs /\ rs[i] = runs[i]) \/ rs[i] = r
      BY <3>1, <3>2 DEF Longer
    <3> QED BY <1>8, <2>2, <3>1, <3>2, <3>3
  <2> QED BY <2>1, <2>2
<1>10. ASSUME NEW n \in DOMAIN es, n # m
       PROVE  (Earned(runs, n) => Earned(rs, n)) /\ (Own(runs, n) => Own(rs, n))
  <2>1. CASE rs = runs
    BY <2>1
  <2>2. ASSUME NEW r \in Run, rs = Append(runs, r), r.item = m
        PROVE  (Earned(runs, n) => Earned(rs, n)) /\ (Own(runs, n) => Own(rs, n))
    <3>1. Longer(runs, r, rs)
      BY <1>3, <2>2, RunAdded
    <3> QED BY <1>10, <2>2, <3>1, OldItems
  <2> QED BY <2>1, <2>2
<1>11. VerifierTypes'
  BY <1>6, <1>7, <1>9 DEF VerifierTypes, Observation
<1>12. CasesKnown'
  <2>1. \A i \in DOMAIN rs : rs[i].item \in Nat
    BY <1>9 DEF Run
  <2>2. \A i \in DOMAIN rs : rs[i].item <= m + 1 /\ rs[i].item < m + 1
    BY <1>3, <1>9, <2>1
  <2> QED BY <1>7, <2>2 DEF CasesKnown
<1>13. /\ \A n \in DOMAIN fs :
            fs[n].status = "PASSED" /\ plan[n].kind = "TEST_EXECUTION" => Earned(rs, n)
       /\ \A n \in DOMAIN fs :
            fs[n].status = "FAILED" /\ plan[n].kind = "TEST_EXECUTION" => Own(rs, n)
  BY <1>2, <1>4, <1>6, <1>10 DEF VerifierInv
<1> QED BY <1>7, <1>11, <1>12, <1>13 DEF VerifierInv

\* What the run under way is, once its child is c.
LEMMA RunUnderWay ==
  ASSUME VerifierInv, stage \in {"case", "wait", "judge"},
         NEW c \in Process, NEW r, r = [item |-> item, case |-> case, child |-> c]
  PROVE  /\ r \in Run /\ r.item = item /\ r.case = case /\ r.child = c
         /\ case \in DOMAIN Expected /\ case \in 1..Len(Expected)
         /\ Tried(runs, r.item, case - 1) /\ runs \in Seq(Run)
BY ItemFacts, ExpectedFacts DEF VerifierInv, VerifierTypes, CasesKnown, Run

\* A child that is not right fails the item under test.
LEMMA CaseFailsStep ==
  ASSUME VerifierInv, stage \in {"case", "wait", "judge"},
         NEW c \in Process, NEW r, r = [item |-> item, case |-> case, child |-> c],
         Wrong(case, c), runs' = Append(runs, r), Observe("FAILED"),
         plan' = plan, case' = case, child' \in Process, Truthful(child')
  PROVE  VerifierInv'
<1>1. PICK rs : rs = Append(runs, r)
  OBVIOUS
<1>2. /\ r \in Run /\ r.item = item /\ case \in DOMAIN Expected
      /\ Tried(runs, r.item, case - 1) /\ runs \in Seq(Run)
  BY RunUnderWay
<1>3. Longer(runs, r, rs)
  BY <1>1, <1>2, RunAdded
<1>4. Own(rs, item)
  BY <1>2, <1>3, CaseWrong, RunUnderWay
<1>5. PICK m : m = item
  OBVIOUS
<1>6. /\ evidence' = Append(evidence, [id |-> plan[m].id, status |-> "FAILED"])
      /\ stage' = "next" /\ rs = runs'
  BY <1>1, <1>5, ItemFacts DEF Observe, VerifierInv
<1>7. /\ \E s \in Run : rs = Append(runs, s) /\ s.item = m
      /\ case' \in DOMAIN Expected \cup {0} /\ Own(rs, m)
  BY <1>1, <1>2, <1>4, <1>5
<1> QED BY <1>5, <1>6, <1>7, ObservesStep

LEMMA StaticStep ==
  ASSUME VerifierInv, VerifyStatic
  PROVE  VerifierInv'
<1>1. PICK m, rs : m = item /\ rs = runs
  OBVIOUS
<1>2. item = m
  BY <1>1, ItemFacts DEF VerifierInv
<1>3. PICK status \in {"PASSED", "FAILED"} :
        evidence' = Append(evidence, [id |-> plan[m].id, status |-> status])
  BY <1>2 DEF VerifyStatic, Observe
<1>4. /\ stage' = "next" /\ plan' = plan /\ rs = runs'
      /\ plan[m].kind # "TEST_EXECUTION"
  BY <1>1, <1>2 DEF VerifyStatic, Observe
<1>5. child' \in Process /\ Truthful(child') /\ case' \in DOMAIN Expected \cup {0}
  BY DEF VerifyStatic, VerifierInv, VerifierTypes
<1> QED BY <1>1, <1>3, <1>4, <1>5, ObservesStep

\* The steps that neither observe nor end a run.
LEMMA VerifierKeeps ==
  ASSUME VerifierInv, UNCHANGED <<plan, evidence, runs>>, VerifierTypes', CasesKnown'
  PROVE  VerifierInv'
BY DEF VerifierInv

LEMMA TestsStep ==
  ASSUME VerifierInv, VerifyTests
  PROVE  VerifierInv'
<1>1. VerifierTypes'
  BY ExpectedFacts DEF VerifyTests, VerifierInv, VerifierTypes, Observation
<1>2. PICK rs, m, k : rs = runs /\ m = item /\ k = 0
  OBVIOUS
<1>3. /\ \A i \in DOMAIN rs : rs[i] \in Run /\ rs[i].item < m
      /\ Len(rs) \in Nat /\ m \in Nat
  BY <1>2, ItemFacts DEF VerifyTests, VerifierInv, VerifierTypes, CasesKnown
<1>4. \A i \in DOMAIN rs : rs[i].item \in Nat /\ rs[i].item # m /\ rs[i].item <= m
  BY <1>3 DEF Run
<1>5. Tried(rs, m, k)
  <2>1. Shown(rs, m, Len(rs), k)
    BY <1>2, <1>3, <1>4 DEF Shown
  <2>2. Len(rs) + k = Len(rs) /\ 1..k = {} /\ Len(rs) \in 0..Len(rs)
    BY <1>2, <1>3
  <2> QED BY <2>1, <2>2 DEF Tried
<1>6. /\ runs' = rs /\ item' = m /\ stage' = "case" /\ case' = 1 /\ case' - 1 = k
      /\ 1 \in DOMAIN Expected
  BY <1>2, ExpectedFacts DEF VerifyTests, item
<1>7. CasesKnown'
  BY <1>4, <1>5, <1>6 DEF CasesKnown
<1> QED BY <1>1, <1>7, VerifierKeeps DEF VerifyTests

LEMMA JudgeStep ==
  ASSUME VerifierInv, Judge
  PROVE  VerifierInv'
<1>1. PICK c, m, r, rs : /\ c = case /\ m = item
                         /\ r = [item |-> item, case |-> case, child |-> child]
                         /\ rs = Append(runs, r)
  OBVIOUS
<1>2. /\ child \in Process /\ Truthful(child) /\ m \in Nat
      /\ evidence \in Seq(Observation)
  BY <1>1, ItemFacts DEF VerifierInv, VerifierTypes
<1>3. stage = "judge" /\ runs' = rs /\ UNCHANGED <<plan, code, child>>
  BY <1>1, <1>2 DEF Judge
<1>4. /\ r \in Run /\ r.item = m /\ r.case = c /\ r.child = child
      /\ c \in DOMAIN Expected /\ c \in 1..Len(Expected)
      /\ Tried(runs, r.item, c - 1) /\ runs \in Seq(Run)
  BY <1>1, <1>2, <1>3, RunUnderWay
<1>5. Longer(runs, r, rs) /\ rs \in Seq(Run)
  BY <1>1, <1>4, RunAdded
<1>6. /\ DOMAIN child.out = 1..Len(child.out) /\ child.out \in Seq(Words)
      /\ Len(child.out) \in Nat
  BY <1>2 DEF Process
<1>7. Expected[c] # "nothing"
  BY <1>4, ExpectedFacts
<1> DEFINE right == Says(child, Expected[c])
<1>8. CASE ~right
  <2>1. Wrong(c, child)
    <3>1. SUFFICES ASSUME child.at = "exited", child.code = 0, Expected[c] # Huge,
                          NEW n \in Spoken(child), Spoken(child) = {n},
                          Forged(child) \/ child.computed = Expected[c],
                          Forged(child) => child.out[n] = Word("candidate", "answer", Expected[c])
                   PROVE  right
      BY <1>8 DEF Wrong
    <3>2. child.out[n].says = "answer" /\ child.out[n].output = Expected[c]
      <4>1. CASE Forged(child)
        BY <3>1, <4>1 DEF Word
      <4>2. CASE ~Forged(child)
        <5>1. PICK w \in DOMAIN child.out : Reported(child.out[w])
          BY <1>2, <1>7, <3>1, <4>2 DEF Truthful
        <5>2. w = n
          BY <3>1, <5>1 DEF Spoken, Reported
        <5> QED BY <1>2, <3>1, <4>2, <5>1, <5>2 DEF Truthful, Reported
      <4> QED BY <4>1, <4>2
    <3> QED BY <3>1, <3>2 DEF Says
  <2>2. Observe("FAILED") /\ case' = case
    BY <1>1, <1>8 DEF Judge
  <2> QED BY <1>1, <1>2, <1>3, <2>1, <2>2, CaseFailsStep
<1>9. CASE right
  <2>1. PICK k : k = c - 1
    OBVIOUS
  <2>2. k \in Nat /\ k + 1 = c
    BY <1>4, <2>1, ExpectedFacts
  <2>3. Right(c, r)
    <3>1. PICK n \in Spoken(child) :
            Spoken(child) = {n} /\ child.out[n].says = "answer" /\ child.out[n].output = Expected[c]
      BY <1>9 DEF Says
    <3>2. child.computed = Expected[c] \/ Forged(child)
      <4>1. n \in DOMAIN child.out /\ child.out[n] \in Words
        BY <1>6, <3>1 DEF Spoken
      <4>2. child.out[n].by \in {"runner", "candidate"}
        BY <4>1 DEF Words
      <4> QED BY <1>2, <3>1, <4>1, <4>2 DEF Forged, Truthful, Reported
    <3> QED BY <1>4, <1>9, <3>2 DEF Right
  <2>4. Tried(rs, m, c)
    BY <1>4, <1>5, <2>1, <2>2, <2>3, CaseRight
  <2>5. CASE c < Len(Expected)
    <3>1. /\ stage' = "case" /\ case' = c + 1 /\ evidence' = evidence /\ item' = m
          /\ case' - 1 = c /\ c + 1 \in DOMAIN Expected
      BY <1>1, <1>4, <1>9, <2>5, ExpectedFacts DEF Judge, item
    <3>2. VerifierTypes'
      BY <1>2, <1>3, <1>5, <3>1 DEF VerifierTypes, Observation
    <3>3. \A i \in DOMAIN rs : rs[i].item <= m
      <4>1. \A i \in DOMAIN runs : runs[i].item <= m
        BY <1>1 DEF VerifierInv, CasesKnown
      <4>2. m <= m
        BY <1>2
      <4>3. \A i \in DOMAIN rs : (i \in DOMAIN runs /\ rs[i] = runs[i]) \/ rs[i] = r
        BY <1>5 DEF Longer
      <4> QED BY <1>4, <4>1, <4>2, <4>3
    <3>4. CasesKnown'
      BY <1>3, <2>4, <3>1, <3>3 DEF CasesKnown
    <3>5. \A n \in DOMAIN evidence : n # m
      BY <1>1, <1>2 DEF item
    <3>6. \A n \in DOMAIN evidence :
            (Earned(runs, n) => Earned(rs, n)) /\ (Own(runs, n) => Own(rs, n))
      BY <1>4, <1>5, <3>5, OldItems
    <3> QED BY <1>3, <3>1, <3>2, <3>4, <3>6 DEF VerifierInv
  <2>6. CASE ~(c < Len(Expected))
    <3>1. c = Len(Expected)
      BY <1>4, <2>6, ExpectedFacts
    <3>2. Earned(rs, m)
      BY <2>4, <3>1, AllRight
    <3>3. /\ evidence' = Append(evidence, [id |-> plan[m].id, status |-> "PASSED"])
          /\ stage' = "next" /\ case' = case
      BY <1>1, <1>2, <1>9, <2>6 DEF Judge, Observe
    <3>4. /\ \E s \in Run : rs = Append(runs, s) /\ s.item = m
          /\ case' \in DOMAIN Expected \cup {0} /\ rs = runs'
      BY <1>1, <1>3, <1>4, <3>3
    <3> QED BY <1>1, <1>2, <1>3, <3>2, <3>3, <3>4, ObservesStep
  <2> QED BY <2>5, <2>6
<1> QED BY <1>8, <1>9

LEMMA ParentMoves ==
  ASSUME VerifierInv, Parent
  PROVE  VerifierInv'
<1>1. CASE \/ Validate \/ Spawn \/ Escapes
           \/ Completes \/ Sign
  <2>1. UNCHANGED <<plan, case, evidence, runs>>
    BY <1>1 DEF Validate, Spawn, Escapes, Raises,
       Completes, Sign
  <2>2. child' \in Process /\ Truthful(child')
    BY <1>1, FreshProcess DEF VerifierInv, VerifierTypes, Validate, Spawn,
       Escapes, Raises, Completes, Sign
  <2>3. \/ stage = "called" /\ stage' = "next"
        \/ stage \in {"case", "wait"} /\ stage' \in {"wait", "judge"}
        \/ stage' \in {"raised", "returned"}
    BY <1>1 DEF Validate, Spawn, Escapes, Raises,
       Completes, Sign
  <2>4. VerifierTypes'
    BY <2>1, <2>2, <2>3 DEF VerifierInv, VerifierTypes, Observation
  <2>5. CasesKnown'
    BY <2>1, <2>3 DEF VerifierInv, CasesKnown, item
  <2> QED BY <2>1, <2>4, <2>5, VerifierKeeps
<1>2. CASE SpawnFails
  <2>1. PICK r : r = [item |-> item, case |-> case, child |-> NoChild]
    OBVIOUS
  <2>2. stage = "case"
    BY <1>2, ItemFacts DEF VerifierInv, SpawnFails
  <2>3. /\ runs' = Append(runs, r) /\ Observe("FAILED")
        /\ plan' = plan /\ case' = case /\ child' = child
    BY <1>2, <2>1, <2>2 DEF SpawnFails
  <2>4. Wrong(case, NoChild)
    BY FreshProcess DEF Wrong
  <2>5. child' \in Process /\ Truthful(child')
    BY <2>3 DEF VerifierInv, VerifierTypes
  <2> QED BY <2>1, <2>2, <2>3, <2>4, <2>5, FreshProcess, CaseFailsStep
<1>3. CASE TimesOut
  <2>1. PICK k : k = [NoChild EXCEPT !.at = "killed"]
    OBVIOUS
  <2>2. stage = "wait"
    BY <1>3, ItemFacts DEF VerifierInv, TimesOut
  <2>3. k \in Process /\ Truthful(k) /\ k.at = "killed"
    BY <2>1, FreshProcess DEF Process, Truthful, NoChild, Fresh
  <2>4. PICK r : r = [item |-> item, case |-> case, child |-> k]
    OBVIOUS
  <2>5. /\ runs' = Append(runs, r) /\ Observe("FAILED")
        /\ plan' = plan /\ case' = case /\ child' = k
    BY <1>3, <2>1, <2>2, <2>4 DEF TimesOut
  <2>6. Wrong(case, k)
    BY <2>3 DEF Wrong
  <2> QED BY <2>2, <2>3, <2>4, <2>5, <2>6, CaseFailsStep
<1> QED BY <1>1, <1>2, <1>3, StaticStep, TestsStep, JudgeStep DEF Parent

LEMMA VerifierMoves ==
  ASSUME VerifierInv, [VerifierNext]_verifierVars
  PROVE  VerifierInv'
<1>1. CASE UNCHANGED verifierVars
  BY <1>1 DEF verifierVars, VerifierInv, VerifierTypes, CasesKnown, item, Observation
<1> QED BY <1>1, ParentMoves, ChildMoves DEF VerifierNext

-----------------------------------------------------------------------------
(* Theorems about the verifier *)

LEMMA VerifierHolds == VerifierSpec => []VerifierInv
BY VerifierStarts, VerifierMoves, PTL DEF VerifierSpec

\* A TEST_EXECUTION obligation passes only on the right answer of a child of its
\* own for every test case, in order (VerifierAgent._verify_test_execution).
THEOREM PassIsEarnedHolds == VerifierSpec => []PassIsEarned
BY VerifierHolds, VerifierPromises, PTL

\* It fails only because of the last child it ran, which was not right
\* (VerifierAgent._verify_test_execution and _execute_case).
THEOREM FailureIsOwnHolds == VerifierSpec => []FailureIsOwn
BY VerifierHolds, VerifierPromises, PTL
=============================================================================
