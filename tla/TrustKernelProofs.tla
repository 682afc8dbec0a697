-------------------------- MODULE TrustKernelProofs --------------------------
(* What an artifact stands for, and that a receipt yields at most one, for   *)
(* every set of threads, runs, specs, claims and evidence, and any number of *)
(* calls, store failures and restarts.                                       *)
EXTENDS TrustKernel, SequenceTheorems, FiniteSetTheorems, TLAPS

\* The verdict of the policy is a verdict, and VERIFIED means all PASSED.
LEMMA PolicyVerdictFacts ==
  ASSUME NEW b
  PROVE  /\ PolicyVerdict(b) \in Verdicts
         /\ PolicyVerdict(b) = "VERIFIED" => \A o \in PlanOf(b) : b.status[o] = "PASSED"
BY DEF PolicyVerdict, Conclusion, VerdictOf, Verdicts

-----------------------------------------------------------------------------
(* The inductive invariant *)

\* The thread carries an artifact it has not returned yet.
Carries(t) == pc[t] \in {"announce", "return"} /\ Minted(call[t])

\* Receipts the authority signed are the only ones that verify: each has its
\* own id.
IssuedUnique == \A r, q \in issued : r.id = q.id => r = q

\* What a thread knows of its call, by where it is.
CallKnows(t) ==
  /\ pc[t] # "idle" => call[t] \in Call
  /\ pc[t] \in {"quarantine", "decide"} =>
       EvaluateAccepts(call[t].context, call[t].spec, call[t].claim, call[t].evidence)
  /\ pc[t] \in {"record", "withhold", "announce"} => CallValid(call[t])
  /\ pc[t] = "withhold" => call[t].receipt.verdict # "VERIFIED"
  /\ pc[t] \notin {"idle", "quarantine", "decide"} => call[t].receipt \in Receipt
  /\ pc[t] = "return" /\ call[t].evaluating => call[t].receipt \in issued
  /\ Carries(t) => /\ CallValid(call[t])
                   /\ used[call[t].receipt.id] = call[t].receipt
  /\ pc[t] = "gate" => call[t].propagate
  /\ pc[t] = "announce" => Minted(call[t])

\* An artifact still carried is for a receipt no other thread carries and no
\* released artifact has.
CarriedOnce ==
  \A t \in Threads : Carries(t) =>
    /\ \A u \in Threads : Carries(u) /\ call[u].receipt.id = call[t].receipt.id => u = t
    /\ \A i \in 1..Len(released) : released[i].receipt.id # call[t].receipt.id

\* A released artifact passed the gate, and its receipt is on record as used.
ReleasedSound ==
  \A i \in 1..Len(released) :
    LET a == released[i] IN
    /\ ReceiptValid(a.context, a.spec, a.claim, a.receipt.evidence, a.receipt)
    /\ a.receipt.verdict = "VERIFIED"
    /\ used[a.receipt.id] = a.receipt

IInv ==
  /\ TypeOK
  /\ IssuedUnique
  /\ \A t \in Threads : CallKnows(t)
  /\ CarriedOnce
  /\ ReleasedSound
  /\ OneArtifactPerReceipt

LEMMA IInvInit == Init => IInv
BY KernelConstants DEF Init, IInv, TypeOK, IssuedUnique, CallKnows, CarriedOnce, Carries,
   ReleasedSound, OneArtifactPerReceipt

-----------------------------------------------------------------------------
(* Steps that touch no call and no artifact *)

\* Signatures and receipts only accumulate, so what was valid stays valid.
Monotone ==
  /\ authorized \subseteq authorized'
  /\ signed \subseteq signed'
  /\ issued \subseteq issued'

LEMMA ValidStays ==
  ASSUME Monotone, NEW c, NEW s, NEW m, NEW b, NEW r
  PROVE  /\ EvaluateAccepts(c, s, m, b) => EvaluateAccepts(c, s, m, b)'
         /\ ReceiptValid(c, s, m, b, r) => ReceiptValid(c, s, m, b, r)'
BY DEF Monotone, EvaluateAccepts, ReceiptValid

\* A step that leaves calls, receipts and artifacts alone keeps the invariant.
LEMMA QuietStep ==
  ASSUME IInv, Monotone, TypeOK', UNCHANGED <<issued, used, released, pc, call>>
  PROVE  IInv'
<1>1. \A t \in Threads : CallKnows(t)'
  BY ValidStays DEF IInv, CallKnows, Carries, CallValid, Minted
<1>2. ReleasedSound'
  BY ValidStays DEF IInv, ReleasedSound
<1> QED
  BY <1>1, <1>2 DEF IInv, IssuedUnique, CarriedOnce, Carries, Minted, OneArtifactPerReceipt

LEMMA AuthoritiesKeep ==
  ASSUME IInv,
         \/ \E c \in Contexts : OpenRun(c)
         \/ \E s \in Proposals : Authorize(s)
         \/ \E b \in Candidates : IssueEvidence(b)
  PROVE  IInv'
<1>1. ASSUME NEW c \in Contexts, OpenRun(c) PROVE IInv'
  <2>1. TypeOK' BY <1>1 DEF IInv, TypeOK, OpenRun, authorities, counters
  <2> QED BY <1>1, <2>1, QuietStep DEF OpenRun, Monotone, authorities, counters
<1>2. ASSUME NEW s \in Proposals, Authorize(s) PROVE IInv'
  <2>1. TypeOK' BY <1>2 DEF IInv, TypeOK, Authorize, authorities, counters
  <2> QED BY <1>2, <2>1, QuietStep DEF Authorize, Monotone, authorities, counters
<1>3. ASSUME NEW b \in Candidates, IssueEvidence(b) PROVE IInv'
  <2>1. TypeOK' BY <1>3 DEF IInv, TypeOK, IssueEvidence, authorities, counters
  <2> QED BY <1>3, <2>1, QuietStep DEF IssueEvidence, Monotone, authorities, counters
<1> QED
  BY <1>1, <1>2, <1>3

-----------------------------------------------------------------------------
(* Steps of one thread that consume nothing and release nothing *)

LEMMA OneThreadMoves ==
  ASSUME IInv, Monotone, TypeOK', IssuedUnique', NEW t \in Threads,
         \A u \in Threads \ {t} : pc'[u] = pc[u] /\ call'[u] = call[u],
         UNCHANGED <<used, released>>,
         CallKnows(t)',
         Carries(t)' => Carries(t) /\ call'[t] = call[t]
  PROVE  IInv'
<1>1. ASSUME NEW u \in Threads, u # t PROVE CallKnows(u)'
  <2>1. CallKnows(u) /\ pc'[u] = pc[u] /\ call'[u] = call[u] /\ used' = used
    BY <1>1 DEF IInv
  <2>2. /\ EvaluateAccepts(call[u].context, call[u].spec, call[u].claim, call[u].evidence) =>
             EvaluateAccepts(call[u].context, call[u].spec, call[u].claim, call[u].evidence)'
        /\ CallValid(call[u]) => CallValid(call[u])'
    BY <2>1, ValidStays DEF CallValid, EvaluateAccepts, ReceiptValid, Monotone
  <2> QED BY <2>1, <2>2 DEF CallKnows, Carries, Minted, Monotone
<1>2. ReleasedSound'
  BY ValidStays DEF IInv, ReleasedSound
<1>3. \A u \in Threads : Carries(u)' => Carries(u) /\ call'[u] = call[u]
  BY DEF Carries, Minted
<1>4. CarriedOnce'
  BY <1>3 DEF IInv, CarriedOnce
<1> QED
  BY <1>1, <1>2, <1>4 DEF IInv, OneArtifactPerReceipt

LEMMA StartKeeps ==
  ASSUME IInv, NEW t \in Threads, NEW k \in Call, NEW to \in {"quarantine", "gate"},
         Start(t, k, to),
         to = "quarantine" => EvaluateAccepts(k.context, k.spec, k.claim, k.evidence),
         to = "gate" => k.receipt \in Receipt /\ k.propagate
  PROVE  IInv'
<1>1. TypeOK'
  BY KernelConstants DEF IInv, TypeOK, Start, GoTo, authorities, counters
<1>2. pc'[t] = to /\ call'[t] = k /\ UNCHANGED <<authorized, signed, issued, used, released>>
  BY DEF Start, GoTo, IInv, TypeOK, authorities
<1>3. CallKnows(t)'
  BY <1>2 DEF CallKnows, Carries, EvaluateAccepts
<1> QED
  BY <1>1, <1>2, <1>3, OneThreadMoves
     DEF Start, GoTo, Monotone, IInv, TypeOK, IssuedUnique, Carries, authorities

LEMMA CallsKeep ==
  ASSUME IInv, NEW t \in Threads, NEW a \in Arguments,
         \/ \E propagate \in BOOLEAN : Evaluate(t, a, propagate)
         \/ \E r \in Heldable : Propagate(t, a, r)
  PROVE  IInv'
<1>0. a \in [context : Contexts, spec : Proposals, claim : Claims, evidence : Candidates]
  BY KernelConstants
<1>1. ASSUME NEW propagate \in BOOLEAN, Evaluate(t, a, propagate) PROVE IInv'
  <2> DEFINE k == [context |-> a.context, spec |-> a.spec, claim |-> a.claim,
                   evidence |-> a.evidence, receipt |-> NoReceipt,
                   evaluating |-> TRUE, propagate |-> propagate]
  <2>1. k \in Call
    BY <1>0 DEF Call
  <2>2. Start(t, k, "quarantine") /\ EvaluateAccepts(k.context, k.spec, k.claim, k.evidence)
    BY <1>1 DEF Evaluate
  <2> HIDE DEF k
  <2> QED BY <2>1, <2>2, StartKeeps
<1>2. ASSUME NEW r \in Heldable, Propagate(t, a, r) PROVE IInv'
  <2> DEFINE k == [context |-> a.context, spec |-> a.spec, claim |-> a.claim,
                   evidence |-> a.evidence, receipt |-> r,
                   evaluating |-> FALSE, propagate |-> TRUE]
  <2>1. r \in Receipt
    BY <1>2 DEF Heldable, IInv, TypeOK, Receipt, Verdicts
  <2>2. k \in Call /\ k.receipt \in Receipt /\ k.propagate
    BY <1>0, <2>1 DEF Call
  <2>3. Start(t, k, "gate")
    BY <1>2 DEF Propagate
  <2> HIDE DEF k
  <2> QED BY <2>2, <2>3, StartKeeps
<1> QED
  BY <1>1, <1>2

\* The steps that only append to the audit sink and move on, or raise.
LEMMA MovesKeep ==
  ASSUME IInv, NEW t \in Threads,
         \/ Quarantine(t) \/ RecordDecision(t) \/ Withhold(t) \/ GateRaises(t)
         \/ ConsumeFails(t) /\ UNCHANGED used
         \/ Interrupted(t) \/ AuditBlocked(t) \/ Announce(t)
  PROVE  IInv'
<1> USE DEF GoTo, Abandon, authorities, counters
<1>1. TypeOK'
  BY KernelConstants
     DEF IInv, TypeOK, Quarantine, RecordDecision, AfterDecision, Withhold, GateRaises,
         ConsumeFails, Interrupted, AuditBlocked, Announce
<1>2. /\ UNCHANGED <<authorized, signed, issued, used, released>>
      /\ \A u \in Threads \ {t} : pc'[u] = pc[u] /\ call'[u] = call[u]
  BY DEF IInv, TypeOK, Quarantine, RecordDecision, Withhold, GateRaises, ConsumeFails,
         Interrupted, AuditBlocked, Announce
<1>3. CallKnows(t)' /\ (Carries(t)' => Carries(t) /\ call'[t] = call[t])
  <2>0. CallKnows(t) /\ DOMAIN pc = Threads /\ DOMAIN call = Threads
    BY DEF IInv, TypeOK
  <2> USE DEF CallKnows, Carries, Minted
  <2>1. CASE Quarantine(t)
    BY <2>0, <2>1 DEF Quarantine, EvaluateAccepts
  <2>2. CASE RecordDecision(t)
    BY <2>0, <2>2, ValidStays, <1>2
       DEF RecordDecision, AfterDecision, CallValid, ReceiptValid, EvaluateAccepts
  <2>3. CASE Withhold(t)
    BY <2>0, <2>3 DEF Withhold, CallValid, ReceiptValid, EvaluateAccepts
  <2>4. CASE GateRaises(t)
    BY <2>0, <2>4 DEF GateRaises
  <2>5. CASE ConsumeFails(t)
    BY <2>0, <2>5 DEF ConsumeFails
  <2>6. CASE AuditBlocked(t)
    BY <2>0, <2>6 DEF AuditBlocked
  <2>7. CASE Announce(t)
    BY <2>0, <2>7 DEF Announce, CallValid, ReceiptValid, EvaluateAccepts
  <2>8. CASE Interrupted(t)
    BY <2>0, <2>8 DEF Interrupted
  <2> QED
    BY <2>1, <2>2, <2>3, <2>4, <2>5, <2>6, <2>7, <2>8
<1> QED
  BY <1>1, <1>2, <1>3, OneThreadMoves DEF Monotone, IInv, IssuedUnique

\* A new receipt has an id of its own and passes the gate's validation; the
\* thread keeps its other arguments.
LEMMA DecideKeeps ==
  ASSUME IInv, NEW t \in Threads, Decide(t)
  PROVE  IInv'
<1>0. CallKnows(t) /\ DOMAIN pc = Threads /\ DOMAIN call = Threads
  BY DEF IInv, TypeOK
<1> DEFINE k == call[t]
<1>1. ASSUME NEW id \in FreshIds, NEW r,
             r = [id |-> id, context |-> k.context, spec |-> k.spec, claim |-> k.claim,
                  evidence |-> k.evidence, verdict |-> PolicyVerdict(k.evidence)],
             GoTo(t, "decide", "record"), PolicyDecides(k.spec, k.evidence),
             issued' = issued \cup {r}, call' = [call EXCEPT ![t].receipt = r],
             UNCHANGED <<authorities, known, used, audit, released, counters>>
      PROVE  IInv'
  <2>1. pc[t] = "decide" /\ k \in Call
    BY <1>0, <1>1 DEF GoTo, CallKnows
  <2>2. r \in Receipt /\ id \in ReceiptIds
    BY <1>1, <2>1, PolicyVerdictFacts DEF Receipt, Call, FreshIds
  <2>3. k.receipt \in Receipt \cup {NoReceipt} /\ DOMAIN k = {"context", "spec", "claim", "evidence", "receipt", "evaluating", "propagate"}
    BY <2>1 DEF Call
  <2>4. /\ call'[t] = [k EXCEPT !.receipt = r]
        /\ \A u \in Threads \ {t} : call'[u] = call[u] /\ pc'[u] = pc[u]
        /\ pc'[t] = "record"
    BY <1>0, <1>1 DEF GoTo
  <2>5. /\ call'[t] \in Call /\ call'[t].receipt = r
        /\ call'[t].context = k.context /\ call'[t].spec = k.spec
        /\ call'[t].claim = k.claim /\ call'[t].evidence = k.evidence
    <3> HIDE DEF k
    <3> QED BY <2>1, <2>2, <2>4 DEF Call
  <2>6. TypeOK'
    <3>1. call' \in [Threads -> Call \cup {NoCall}]
      BY <1>0, <1>1, <2>5, <2>4 DEF IInv, TypeOK
    <3>2. pc' = [pc EXCEPT ![t] = "record"]
      BY <1>1 DEF GoTo
    <3> QED BY <3>1, <3>2, <1>1, <2>2 DEF IInv, TypeOK, authorities, counters
  <2>7. IssuedUnique'
    BY <1>1 DEF IInv, IssuedUnique, FreshIds
  <2>8. EvaluateAccepts(k.context, k.spec, k.claim, k.evidence)
    BY <1>0, <2>1 DEF CallKnows
  <2>9. Monotone
    BY <1>1 DEF Monotone, authorities
  <2>10. CallValid(call[t])'
    <3>1. EvaluateAccepts(k.context, k.spec, k.claim, k.evidence)'
      BY <2>8, <1>1, <2>4 , <2>5 DEF EvaluateAccepts, authorities
    <3> QED BY <3>1, <1>1, <2>5 DEF CallValid, ReceiptValid, EvaluateAccepts
  <2>11. CallKnows(t)' /\ ~Carries(t)'
    BY <2>2, <2>4, <2>5, <2>10 DEF CallKnows, Carries
  <2> QED
    BY <1>1, <2>4, <2>6, <2>7, <2>9, <2>11, OneThreadMoves
<1>2. ASSUME Abandon(t, "decide"), UNCHANGED <<authorities, issued, known, used, audit, released, counters>>
      PROVE  IInv'
  <2>1. TypeOK'
    BY <1>2 DEF IInv, TypeOK, Abandon, GoTo, authorities, counters
  <2>2. /\ pc'[t] = "idle"
        /\ \A u \in Threads \ {t} : call'[u] = call[u] /\ pc'[u] = pc[u]
    BY <1>0, <1>2 DEF Abandon, GoTo
  <2>3. CallKnows(t)' /\ ~Carries(t)'
    BY <2>2 DEF CallKnows, Carries
  <2> QED
    BY <1>2, <2>1, <2>2, <2>3, OneThreadMoves DEF Monotone, authorities, IInv, IssuedUnique
<1> QED
  BY <1>1, <1>2 DEF Decide

-----------------------------------------------------------------------------
(* The steps that consume a receipt and release an artifact *)

\* The receipt was unused, so nobody carries it and no artifact has it yet.
LEMMA ConsumeKeeps ==
  ASSUME IInv, NEW t \in Threads, Consume(t) \/ (ConsumeFails(t) /\ used' # used)
  PROVE  IInv'
<1> DEFINE r == call[t].receipt
<1>0. DOMAIN pc = Threads /\ \A u \in Threads : CallKnows(u)
  BY DEF IInv, TypeOK
<1>1. /\ pc[t] = "gate" /\ pc'[t] \in {"announce", "blocked"}
      /\ \A u \in Threads \ {t} : pc'[u] = pc[u]
      /\ UNCHANGED <<authorized, signed, issued, released, call>>
      /\ CallValid(call[t]) /\ r.verdict = "VERIFIED" /\ used[r.id] = Unused
      /\ used' = [used EXCEPT ![r.id] = r]
  BY <1>0 DEF Consume, ConsumeFails, GoTo, authorities
<1>2. r \in Receipt /\ r.id \in ReceiptIds /\ call[t] \in Call
  BY <1>0, <1>1 DEF CallKnows, Receipt
<1>3. TypeOK'
  BY <1>2, KernelConstants DEF IInv, TypeOK, Consume, ConsumeFails, GoTo, authorities, counters
<1>4. used'[r.id] = r /\ \A id \in ReceiptIds \ {r.id} : used'[id] = used[id]
  BY <1>1, <1>2 DEF IInv, TypeOK
<1>5. \A u \in Threads : Carries(u) =>
        u # t /\ call[u].receipt \in Receipt /\ call[u].receipt.id # r.id
  BY <1>0, <1>1, <1>2, KernelConstants DEF CallKnows, Carries
<1>6. \A i \in 1..Len(released) :
        released[i].receipt.id \in ReceiptIds /\ released[i].receipt.id # r.id
  <2> TAKE i \in 1..Len(released)
  <2>1. released[i] \in Artifact
    BY DEF IInv, TypeOK
  <2>2. released[i].receipt \in Receipt /\ released[i].receipt.id \in ReceiptIds
    BY <2>1 DEF Artifact, Receipt
  <2> QED BY <2>2, <1>1, KernelConstants DEF IInv, ReleasedSound
<1>7. ASSUME NEW u \in Threads PROVE CallKnows(u)'
  <2>0. /\ EvaluateAccepts(call[u].context, call[u].spec, call[u].claim, call[u].evidence)' <=>
              EvaluateAccepts(call[u].context, call[u].spec, call[u].claim, call[u].evidence)
        /\ CallValid(call[u])' <=> CallValid(call[u])
    BY <1>1 DEF EvaluateAccepts, CallValid, ReceiptValid
  <2>1. CASE u = t
    <3>1. r # NoReceipt /\ call[t].propagate
      BY <1>0, <1>1, <1>2, KernelConstants DEF CallKnows
    <3> QED BY <3>1, <1>1, <1>2, <1>4, <2>0, <2>1 DEF CallKnows, Carries, Minted
  <2>2. CASE u # t
    <3>1. CallKnows(u) /\ pc'[u] = pc[u] /\ call'[u] = call[u] /\ issued' = issued
      BY <1>0, <1>1, <2>2
    <3>2. Carries(u)' => Carries(u) /\ used'[call[u].receipt.id] = used[call[u].receipt.id]
      BY <3>1, <1>1, <1>4, <1>5 DEF Carries, Minted, Receipt
    <3> QED BY <3>1, <3>2, <2>0 DEF CallKnows, Carries, Minted
  <2> QED BY <2>1, <2>2
<1>8. CarriedOnce'
  BY <1>1, <1>5, <1>6 DEF IInv, CarriedOnce, Carries, Minted
<1>9. ReleasedSound'
  BY <1>1, <1>4, <1>6 DEF IInv, ReleasedSound, ReceiptValid, EvaluateAccepts
<1> QED
  BY <1>1, <1>3, <1>7, <1>8, <1>9 DEF IInv, IssuedUnique, OneArtifactPerReceipt

\* The artifact a thread carried is appended; nobody else can have its receipt.
LEMMA ReturnKeeps ==
  ASSUME IInv, NEW t \in Threads, Return(t)
  PROVE  IInv'
<1> DEFINE k == call[t]
           a == [context |-> k.context, claim |-> k.claim, spec |-> k.spec, receipt |-> k.receipt]
<1>0. DOMAIN pc = Threads /\ DOMAIN call = Threads /\ \A u \in Threads : CallKnows(u)
  BY DEF IInv, TypeOK
<1>1. /\ pc[t] = "return" /\ pc'[t] = "idle"
      /\ \A u \in Threads \ {t} : pc'[u] = pc[u] /\ call'[u] = call[u]
      /\ UNCHANGED <<authorized, signed, issued, used>>
  BY <1>0 DEF Return, Abandon, GoTo, authorities
<1>2. k \in Call /\ k.receipt \in Receipt /\ (k.evaluating => k.receipt \in issued)
  BY <1>0, <1>1 DEF CallKnows
<1>3. a \in Artifact
  BY <1>2 DEF Call, Artifact
<1>4. released' = (IF Minted(k) THEN Append(released, a) ELSE released)
  BY DEF Return
<1>5. TypeOK'
  <2> HIDE DEF a
  <2>1. released' \in Seq(Artifact)
    BY <1>3, <1>4 DEF IInv, TypeOK
  <2>2. known' \subseteq issued'
    BY <1>1, <1>2 DEF IInv, TypeOK, Return
  <2> QED BY <2>1, <2>2 DEF IInv, TypeOK, Return, Abandon, GoTo, authorities, counters
<1>6. CallKnows(t)' /\ ~Carries(t)'
  BY <1>1 DEF CallKnows, Carries
<1>7. CASE ~Minted(k)
  <2>1. UNCHANGED released
    BY <1>4, <1>7
  <2> QED BY <2>1, <1>1, <1>5, <1>6, OneThreadMoves DEF IInv, IssuedUnique, Monotone
<1>8. CASE Minted(k)
  <2>1. /\ Carries(t) /\ CallValid(k) /\ k.receipt.verdict = "VERIFIED"
        /\ used[k.receipt.id] = k.receipt
    BY <1>0, <1>1, <1>8 DEF CallKnows, Carries, Minted
  <2>2. /\ Len(released') = Len(released) + 1 /\ Len(released) \in Nat
        /\ \A i \in 1..Len(released) : released'[i] = released[i]
        /\ released'[Len(released) + 1] = a
    <3> HIDE DEF a
    <3> QED BY <1>3, <1>4, <1>8 DEF IInv, TypeOK
  <2>3. ReceiptValid(a.context, a.spec, a.claim, a.receipt.evidence, a.receipt)
        /\ a.receipt = k.receipt
    BY <2>1 DEF CallValid, ReceiptValid
  <2>4. \A i \in 1..Len(released) : released[i].receipt.id # a.receipt.id
    BY <2>1, <2>3 DEF IInv, CarriedOnce
  <2>5. ReleasedSound'
    <3> SUFFICES ASSUME NEW i \in 1..Len(released')
                 PROVE  LET d == released'[i] IN
                        /\ ReceiptValid(d.context, d.spec, d.claim, d.receipt.evidence, d.receipt)
                        /\ d.receipt.verdict = "VERIFIED"
                        /\ used[d.receipt.id] = d.receipt
      BY <1>1 DEF ReleasedSound, ReceiptValid, EvaluateAccepts
    <3>1. CASE i \in 1..Len(released)
      BY <3>1, <2>2 DEF IInv, ReleasedSound
    <3>2. CASE i = Len(released) + 1
      <4> HIDE DEF a
      <4> QED BY <3>2, <2>1, <2>2, <2>3
    <3> QED BY <3>1, <3>2, <2>2
  <2>6. OneArtifactPerReceipt'
    <3> HIDE DEF a
    <3> QED BY <2>2, <2>4 DEF IInv, OneArtifactPerReceipt
  <2>7. \A u \in Threads : CallKnows(u)'
    BY <1>0, <1>1, <1>6 DEF CallKnows, Carries, Minted, EvaluateAccepts, CallValid, ReceiptValid
  <2>8. CarriedOnce'
    <3> SUFFICES ASSUME NEW u \in Threads, Carries(u)'
                 PROVE  /\ \A v \in Threads : Carries(v)' /\ call'[v].receipt.id = call'[u].receipt.id => v = u
                        /\ \A i \in 1..Len(released') : released'[i].receipt.id # call'[u].receipt.id
      BY DEF CarriedOnce
    <3>1. u # t /\ Carries(u) /\ call'[u] = call[u]
      BY <1>1, <1>6 DEF Carries, Minted
    <3>2. \A v \in Threads : Carries(v)' => v # t /\ Carries(v) /\ call'[v] = call[v]
      BY <1>1, <1>6 DEF Carries, Minted
    <3>3. a.receipt.id # call[u].receipt.id
      BY <2>1, <2>3, <3>1 DEF IInv, CarriedOnce
    <3> HIDE DEF a
    <3> QED BY <2>2, <3>1, <3>2, <3>3 DEF IInv, CarriedOnce
  <2> QED BY <1>1, <1>5, <2>5, <2>6, <2>7, <2>8 DEF IInv, IssuedUnique
<1> QED
  BY <1>7, <1>8

LEMMA RestartKeeps ==
  ASSUME IInv, Restart
  PROVE  IInv'
<1>1. TypeOK'
  BY KernelConstants DEF IInv, TypeOK, Restart, authorities
<1>2. ReleasedSound'
  BY DEF IInv, Restart, ReleasedSound, ReceiptValid, EvaluateAccepts, authorities
<1> QED
  BY <1>1, <1>2 DEF IInv, Restart, IssuedUnique, CallKnows, CarriedOnce, Carries,
     OneArtifactPerReceipt, authorities

LEMMA IdleKeeps ==
  ASSUME IInv, UNCHANGED vars
  PROVE  IInv'
<1>1. TypeOK'
  BY DEF IInv, TypeOK, vars
<1> QED
  BY <1>1, QuietStep DEF vars, Monotone

-----------------------------------------------------------------------------
(* The theorems *)

\* Type correctness and the whole inductive invariant hold in every behaviour.
THEOREM Invariance == Spec => []IInv
<1>1. ASSUME IInv, [Next]_vars PROVE IInv'
  <2>1. ASSUME NEW t \in Threads, Step(t) PROVE IInv'
    BY <1>1, <2>1, MovesKeep, DecideKeeps, ConsumeKeeps, ReturnKeeps DEF Step
  <2>2. ASSUME NEW t \in Threads, ConsumeFails(t) PROVE IInv'
    BY <1>1, <2>2, MovesKeep, ConsumeKeeps
  <2>3. ASSUME NEW t \in Threads, Interrupted(t) PROVE IInv'
    BY <1>1, <2>3, MovesKeep
  <2> QED
    BY <1>1, <2>1, <2>2, <2>3, AuthoritiesKeep, CallsKeep, RestartKeeps, IdleKeeps DEF Next
<1> QED
  BY <1>1, IInvInit, PTL DEF Spec

\* Every value stays in its domain: kernel, gate and authorities.
THEOREM TypeCorrect == Spec => []TypeOK
<1>1. IInv => TypeOK BY DEF IInv
<1> QED BY <1>1, Invariance, PTL

\* No artifact ever holds a spec, a claim or evidence other than the approved,
\* matching and passed ones (TrustGate.propagate).
THEOREM ArtifactEarnedHolds == Spec => []ArtifactEarned
<1>1. ASSUME IInv PROVE ArtifactEarned
  <2> SUFFICES ASSUME NEW i \in 1..Len(released)
               PROVE  LET a == released[i]
                          b == a.receipt.evidence
                      IN  /\ a.spec \in Approved
                          /\ a.spec.task = a.context.task
                          /\ a.claim.run = a.context.run
                          /\ b \in signed
                          /\ b.context = a.context /\ b.spec = a.spec /\ b.claim = a.claim
                          /\ CriteriaOf(PlanOf(b)) = a.spec.criteria
                          /\ \A o \in PlanOf(b) : b.status[o] = "PASSED"
    BY DEF ArtifactEarned
  <2> DEFINE a == released[i]
             b == a.receipt.evidence
  <2>1. ReceiptValid(a.context, a.spec, a.claim, b, a.receipt) /\ a.receipt.verdict = "VERIFIED"
    BY <1>1 DEF IInv, ReleasedSound
  <2>2. EvaluateAccepts(a.context, a.spec, a.claim, b)
    BY <2>1 DEF ReceiptValid
  <2>3. PolicyVerdict(b) = "VERIFIED" /\ PolicyDecides(a.spec, b)
    BY <2>1 DEF ReceiptValid
  <2>4. CriteriaOf(PlanOf(b)) = a.spec.criteria
    BY <2>3 DEF PolicyDecides, Decidable
  <2>5. a.spec \in Approved
    BY <1>1, <2>2 DEF IInv, TypeOK, EvaluateAccepts
  <2> QED
    BY <2>2, <2>3, <2>4, <2>5, PolicyVerdictFacts DEF EvaluateAccepts
<1> QED BY <1>1, Invariance, PTL

\* A receipt yields one artifact, whichever threads race and however often the
\* controller restarts (TrustGate.propagate, SQLiteReceiptUseStore.consume).
THEOREM OneArtifactPerReceiptHolds == Spec => []OneArtifactPerReceipt
<1>1. IInv => OneArtifactPerReceipt BY DEF IInv
<1> QED BY <1>1, Invariance, PTL

-----------------------------------------------------------------------------
(* Receipts are lost to failures alone *)

\* What the use store holds is the VERIFIED receipt of that id.
UsedVerified ==
  \A id \in ReceiptIds : used[id] # Unused => used[id].verdict = "VERIFIED" /\ used[id].id = id

LossInv == UsedVerified /\ IsFiniteSet(Lost) /\ LossIsAccounted

\* The receipts the calls of some threads carry.
ReceiptsOf(S) == {call[t].receipt.id : t \in S}

LEMMA FewReceipts ==
  ASSUME NEW S, IsFiniteSet(S)
  PROVE  IsFiniteSet(ReceiptsOf(S)) /\ Cardinality(ReceiptsOf(S)) <= Cardinality(S)
<1> DEFINE f == [t \in S |-> call[t].receipt.id]
<1>1. f \in Surjection(S, ReceiptsOf(S))
  BY DEF Surjection, ReceiptsOf
<1> QED BY <1>1, FS_Surjection

\* A call keeps the artifact it is about to return.
KeepsOn(t) ==
  pc[t] \in {"announce", "return"} /\ call[t].propagate =>
    pc'[t] \in {"announce", "return"} /\ call'[t] = call[t]

\* A step that ends the calls of some threads loses at most what they carry.
LEMMA OnlyTheirs ==
  ASSUME UsedVerified, UNCHANGED <<used, released>>,
         NEW S \in SUBSET Threads, \A t \in Threads \ S : KeepsOn(t)
  PROVE  Lost' \subseteq Lost \cup ReceiptsOf(S)
<1> SUFFICES ASSUME NEW id \in Lost', id \notin Lost PROVE id \in ReceiptsOf(S)
  OBVIOUS
<1>1. /\ id \in ReceiptIds /\ used[id] # Unused /\ used[id].id = id /\ ~Delivered(id)
      /\ \A t \in Threads : ~OnItsWay(t, id)'
  BY DEF Lost, UsedVerified, Delivered, OnItsWay
<1>2. PICK t \in Threads : OnItsWay(t, id)
  BY <1>1 DEF Lost
<1>3. t \in S
  BY <1>1, <1>2 DEF OnItsWay, KeepsOn
<1> QED BY <1>1, <1>2, <1>3 DEF OnItsWay, ReceiptsOf

\* More losses than before need as many failures, or a restart.
LEMMA Accounted ==
  ASSUME IInv, LossInv, NEW S, IsFiniteSet(S), Lost' \subseteq Lost \cup S,
         faults' \in Nat, restarts' \in Nat,
         \/ /\ restarts' = restarts
            /\ faults' >= faults + Cardinality(S)
         \/ /\ restarts' = restarts + 1 /\ faults' = faults
            /\ Cardinality(S) <= Cardinality(Threads)
  PROVE  IsFiniteSet(Lost)' /\ LossIsAccounted'
<1>1. /\ IsFiniteSet(Lost \cup S)
      /\ Cardinality(Lost \cup S) <= Cardinality(Lost) + Cardinality(S)
  <2>1. IsFiniteSet(Lost \cap S) /\ IsFiniteSet(Lost)
    BY FS_Intersection DEF LossInv
  <2>2. Cardinality(Lost) \in Nat /\ Cardinality(S) \in Nat /\ Cardinality(Lost \cap S) \in Nat
    BY <2>1, FS_CardinalityType
  <2>3. /\ IsFiniteSet(Lost \cup S)
        /\ Cardinality(Lost \cup S) = Cardinality(Lost) + Cardinality(S) - Cardinality(Lost \cap S)
    BY <2>1, FS_Union
  <2> QED BY <2>2, <2>3
<1>2. IsFiniteSet(Lost') /\ Cardinality(Lost') <= Cardinality(Lost \cup S)
  BY <1>1, FS_Subset
<1>3. /\ Cardinality(Lost) \in Nat /\ Cardinality(S) \in Nat /\ Cardinality(Threads) \in Nat
      /\ Cardinality(Lost') \in Nat /\ Cardinality(Lost \cup S) \in Nat
      /\ faults \in Nat /\ restarts \in Nat
  BY <1>1, <1>2, FS_CardinalityType, KernelConstants DEF LossInv, IInv, TypeOK
<1>4. (restarts + 1) * Cardinality(Threads) = restarts * Cardinality(Threads) + Cardinality(Threads)
      /\ restarts * Cardinality(Threads) \in Nat
  <2>1. \A a, b \in Nat : (a + 1) * b = a * b + b /\ a * b \in Nat
    OBVIOUS
  <2> QED BY <1>3, <2>1
<1>5. Cardinality(Lost) <= faults + restarts * Cardinality(Threads)
  BY DEF LossInv, LossIsAccounted
<1>6. Cardinality(Lost') <= faults' + restarts' * Cardinality(Threads)
  <2> DEFINE n == Cardinality(Threads)
             p == restarts * n
  <2>1. CASE restarts' = restarts /\ faults' >= faults + Cardinality(S)
    <3>1. restarts' * n = p
      BY <2>1
    <3> HIDE DEF p
    <3> QED BY <1>1, <1>2, <1>3, <1>4, <1>5, <2>1, <3>1 DEF p
  <2>2. CASE restarts' = restarts + 1 /\ faults' = faults /\ Cardinality(S) <= n
    <3>1. restarts' * n = p + n
      BY <1>4, <2>2
    <3> HIDE DEF p
    <3> QED BY <1>1, <1>2, <1>3, <1>4, <1>5, <2>2, <3>1 DEF p
  <2> QED BY <2>1, <2>2
<1> QED BY <1>2, <1>6 DEF LossIsAccounted

\* A step in which nobody loses anything.
LEMMA NothingLost ==
  ASSUME IInv, LossInv, UNCHANGED <<used, released, restarts>>,
         faults' \in Nat, faults' >= faults, \A t \in Threads : KeepsOn(t)
  PROVE  LossInv'
<1>1. Lost' \subseteq Lost \cup ReceiptsOf({})
  BY OnlyTheirs DEF LossInv
<1>5. ReceiptsOf({}) = {}
  BY DEF ReceiptsOf
<1>2. IsFiniteSet({}) /\ Cardinality({}) = 0
  BY FS_EmptySet
<1>3. restarts' \in Nat /\ faults \in Nat
  BY KernelConstants DEF IInv, TypeOK
<1>4. IsFiniteSet(Lost)' /\ LossIsAccounted'
  BY <1>1, <1>2, <1>3, <1>5, Accounted
<1> QED BY <1>4 DEF LossInv, UsedVerified

\* The receipt's entry in the use store is written.
Spends(t) ==
  LET r == call[t].receipt IN
  /\ pc[t] = "gate" /\ call' = call /\ \A u \in Threads \ {t} : pc'[u] = pc[u]
  /\ CallValid(call[t]) /\ r.verdict = "VERIFIED"
  /\ used[r.id] = Unused /\ used' = [used EXCEPT ![r.id] = r]
  /\ UNCHANGED <<released, restarts>>

\* Then it is on its way, or the store failed and it is lost.
LEMMA SpendStep ==
  ASSUME IInv, LossInv, NEW t \in Threads, Spends(t),
         \/ pc'[t] = "announce" /\ faults' = faults
         \/ faults' = faults + 1
  PROVE  LossInv'
<1> DEFINE r == call[t].receipt
<1>1. /\ call[t] \in Call /\ call[t].propagate /\ r \in Receipt /\ r.id \in ReceiptIds
      /\ faults \in Nat /\ restarts \in Nat /\ faults' \in Nat /\ restarts' \in Nat
  BY KernelConstants DEF IInv, TypeOK, CallKnows, Spends, Receipt
<1>2. used'[r.id] = r /\ \A id \in ReceiptIds \ {r.id} : used'[id] = used[id]
  BY <1>1 DEF IInv, TypeOK, Spends
<1>3. UsedVerified'
  BY <1>1, <1>2 DEF LossInv, UsedVerified, Spends
<1>4. \A u \in Threads, id \in ReceiptIds \ {r.id} : OnItsWay(u, id) => OnItsWay(u, id)'
  BY <1>1, <1>2 DEF OnItsWay, Spends
<1>5. \A id \in ReceiptIds \ {r.id} : Delivered(id) => Delivered(id)'
  BY <1>2 DEF Delivered, Spends
<1>6. Lost' \subseteq Lost \cup {r.id}
  BY <1>2, <1>4, <1>5 DEF Lost
<1>7. CASE pc'[t] = "announce" /\ faults' = faults
  <2>0. PICK i : i = r.id
    OBVIOUS
  <2>1. OnItsWay(t, i)'
    BY <1>1, <1>2, <1>7, <2>0 DEF OnItsWay, Spends
  <2>2. Lost' \subseteq Lost \cup {}
    <3>1. i \notin Lost'
      BY <2>1 DEF Lost
    <3> QED BY <1>6, <2>0, <3>1
  <2>3. IsFiniteSet({}) /\ Cardinality({}) = 0
    BY FS_EmptySet
  <2> QED BY <1>1, <1>3, <1>7, <2>2, <2>3, Accounted DEF LossInv, Spends
<1>8. CASE faults' = faults + 1
  <2>1. IsFiniteSet({r.id}) /\ Cardinality({r.id}) = 1
    BY FS_Singleton
  <2> QED BY <1>1, <1>3, <1>6, <1>8, <2>1, Accounted DEF LossInv, Spends
<1> QED BY <1>7, <1>8

\* A returned artifact is delivered.
LEMMA ReturnDelivers ==
  ASSUME IInv, LossInv, NEW t \in Threads, Return(t)
  PROVE  LossInv'
<1> DEFINE k == call[t]
           a == [context |-> k.context, claim |-> k.claim, spec |-> k.spec, receipt |-> k.receipt]
<1>0. /\ DOMAIN pc = Threads /\ DOMAIN call = Threads /\ CallKnows(t)
      /\ faults \in Nat /\ restarts \in Nat
  BY KernelConstants DEF IInv, TypeOK
<1>1. /\ \A u \in Threads \ {t} : pc'[u] = pc[u] /\ call'[u] = call[u]
      /\ UNCHANGED <<used, faults, restarts>> /\ k \in Call /\ k.receipt \in Receipt
      /\ released' = (IF Minted(k) THEN Append(released, a) ELSE released)
  BY <1>0 DEF Return, Abandon, GoTo, CallKnows, counters
<1>2. a \in Artifact
  BY <1>1 DEF Call, Artifact
<1>3. ASSUME NEW i \in 1..Len(released)
      PROVE  i \in 1..Len(released') /\ released'[i] = released[i]
  <2> HIDE DEF a
  <2> QED BY <1>1, <1>2 DEF IInv, TypeOK
<1>4. ASSUME Minted(k)
      PROVE  \E i \in 1..Len(released') : released'[i].receipt = k.receipt
  <2>1. a.receipt = k.receipt
    OBVIOUS
  <2> HIDE DEF a
  <2>2. Len(released) + 1 \in 1..Len(released') /\ released'[Len(released) + 1] = a
    BY <1>1, <1>2, <1>4 DEF IInv, TypeOK
  <2> QED BY <2>1, <2>2
<1>5. \A id : Delivered(id) => Delivered(id)'
  BY <1>1, <1>3 DEF Delivered
<1>6. ASSUME NEW id \in ReceiptIds, used[id] # Unused, NEW u \in Threads, OnItsWay(u, id)
      PROVE  Delivered(id)' \/ OnItsWay(u, id)'
  <2>1. CASE u = t
    <3>1. Minted(k)
      BY <1>6, <2>1 DEF Minted, LossInv, UsedVerified, OnItsWay
    <3> QED BY <1>1, <1>4, <1>6, <2>1, <3>1 DEF OnItsWay, Delivered
  <2>2. CASE u # t
    BY <1>1, <1>6, <2>2 DEF OnItsWay
  <2> QED BY <2>1, <2>2
<1>7. Lost' \subseteq Lost \cup {}
  BY <1>1, <1>5, <1>6 DEF Lost
<1>8. IsFiniteSet({}) /\ Cardinality({}) = 0
  BY FS_EmptySet
<1>9. UsedVerified'
  BY <1>1 DEF LossInv, UsedVerified
<1> QED BY <1>0, <1>1, <1>7, <1>8, <1>9, Accounted DEF LossInv

LEMMA LossStep == IInv /\ LossInv /\ [Next]_vars => LossInv'
<1> SUFFICES ASSUME IInv, LossInv, [Next]_vars PROVE LossInv'
  OBVIOUS
<1> USE DEF GoTo, Abandon, counters
<1>0. /\ DOMAIN pc = Threads /\ DOMAIN call = Threads
      /\ faults \in Nat /\ restarts \in Nat
      /\ \A t \in Threads : CallKnows(t)
  BY KernelConstants DEF IInv, TypeOK
<1>1. CASE UNCHANGED vars \/ \E c \in Contexts : OpenRun(c)
  BY <1>0, <1>1, NothingLost DEF vars, OpenRun, KeepsOn
<1>2. CASE (\E s \in Proposals : Authorize(s)) \/ (\E b \in Candidates : IssueEvidence(b))
  BY <1>0, <1>2, NothingLost DEF Authorize, IssueEvidence, KeepsOn
<1>3. ASSUME NEW t \in Threads, NEW a \in Arguments,
             \/ \E propagate \in BOOLEAN : Evaluate(t, a, propagate)
             \/ \E r \in Heldable : Propagate(t, a, r)
      PROVE  LossInv'
  <2>1. PICK k, to : Start(t, k, to)
    BY <1>3 DEF Evaluate, Propagate
  <2> QED BY <1>0, <2>1, NothingLost DEF Start, KeepsOn
<1>4. ASSUME NEW t \in Threads,
             \/ Quarantine(t) \/ RecordDecision(t) \/ Withhold(t) \/ GateRaises(t)
             \/ AuditBlocked(t) \/ Announce(t)
      PROVE  LossInv'
  BY <1>0, <1>4, NothingLost
     DEF Quarantine, RecordDecision, Withhold, GateRaises, AuditBlocked, Announce, KeepsOn
<1>5. ASSUME NEW t \in Threads, Decide(t) PROVE LossInv'
  <2>1. /\ pc[t] = "decide" /\ UNCHANGED <<used, released, faults, restarts>>
        /\ \A u \in Threads \ {t} : pc'[u] = pc[u] /\ call'[u] = call[u]
    BY <1>0, <1>5 DEF Decide
  <2> QED BY <1>0, <2>1, NothingLost DEF KeepsOn
<1>6. ASSUME NEW t \in Threads, Consume(t) PROVE LossInv'
  <2>1. Spends(t) /\ pc'[t] = "announce" /\ faults' = faults
    BY <1>0, <1>6 DEF Consume, Spends
  <2> QED BY <2>1, SpendStep
<1>7. ASSUME NEW t \in Threads, ConsumeFails(t) PROVE LossInv'
  <2>1. CASE used' = used
    BY <1>0, <1>7, <2>1, NothingLost DEF ConsumeFails, KeepsOn
  <2>2. CASE used' # used
    <3>1. Spends(t) /\ faults' = faults + 1
      BY <1>0, <1>7, <2>2 DEF ConsumeFails, Spends
    <3> QED BY <3>1, SpendStep
  <2> QED BY <2>1, <2>2
<1>8. ASSUME NEW t \in Threads, Interrupted(t) PROVE LossInv'
  <2>1. /\ UNCHANGED <<used, released, restarts>> /\ faults' = faults + 1
        /\ \A u \in Threads \ {t} : KeepsOn(u)
    BY <1>0, <1>8 DEF Interrupted, KeepsOn
  <2>2. Lost' \subseteq Lost \cup ReceiptsOf({t})
    BY <2>1, OnlyTheirs DEF LossInv
  <2>3. ReceiptsOf({t}) = {call[t].receipt.id}
    BY DEF ReceiptsOf
  <2>4. IsFiniteSet({call[t].receipt.id}) /\ Cardinality({call[t].receipt.id}) = 1
    BY FS_Singleton
  <2>5. IsFiniteSet(Lost)' /\ LossIsAccounted'
    BY <1>0, <2>1, <2>2, <2>3, <2>4, Accounted
  <2> QED BY <2>1, <2>5 DEF LossInv, UsedVerified
<1>9. ASSUME NEW t \in Threads, Return(t) PROVE LossInv'
  BY <1>9, ReturnDelivers
<1>10. CASE Restart
  <2>1. UNCHANGED <<used, released, faults>> /\ restarts' = restarts + 1
    BY <1>10 DEF Restart
  <2>2. Lost' \subseteq Lost \cup ReceiptsOf(Threads)
    BY <2>1, OnlyTheirs DEF LossInv
  <2>3. IsFiniteSet(ReceiptsOf(Threads)) /\ Cardinality(ReceiptsOf(Threads)) <= Cardinality(Threads)
    BY FewReceipts, KernelConstants
  <2>4. IsFiniteSet(Lost)' /\ LossIsAccounted'
    BY <1>0, <2>1, <2>2, <2>3, Accounted
  <2> QED BY <2>1, <2>4 DEF LossInv, UsedVerified
<1> QED
  BY <1>1, <1>2, <1>3, <1>4, <1>5, <1>6, <1>7, <1>8, <1>9, <1>10 DEF Next, Step

\* Receipts are lost to failures and restarts alone, one to each failure and one
\* to each thread of a restart: rejected, mismatched or replayed calls burn none
\* (TrustGate.propagate validates and asks for the verdict before it consumes).
THEOREM LossIsAccountedHolds == Spec => []LossIsAccounted
<1>1. Init => LossInv
  <2> SUFFICES ASSUME Init PROVE LossInv
    OBVIOUS
  <2>1. Lost = {} /\ UsedVerified
    BY DEF Init, Lost, UsedVerified
  <2>2. IsFiniteSet({}) /\ Cardinality({}) = 0 /\ Cardinality(Threads) \in Nat
    BY FS_EmptySet, FS_CardinalityType, KernelConstants
  <2>3. faults = 0 /\ restarts = 0
    BY DEF Init
  <2> QED BY <2>1, <2>2, <2>3 DEF LossInv, LossIsAccounted
<1>2. LossInv => LossIsAccounted
  BY DEF LossInv
<1> QED
  BY <1>1, <1>2, LossStep, Invariance, PTL DEF Spec

-----------------------------------------------------------------------------
(* The audit trail *)

Event == [run : {c.run : c \in Contexts},
          kind : {"RUN_OPENED", "CLAIM_QUARANTINED", "DECISION_ISSUED",
                  "PROPAGATION_BLOCKED", "ARTIFACT_PROPAGATED"},
          subject : Contexts \cup Claims \cup Receipt]

OnRecord(kind, subject, run) ==
  \E n \in 1..Len(audit) :
    audit[n].kind = kind /\ audit[n].subject = subject /\ audit[n].run = run

Quarantined(k) == OnRecord("CLAIM_QUARANTINED", k.claim, k.context.run)
Decided(r) == OnRecord("DECISION_ISSUED", r, r.context.run)
Announced(r, c) == OnRecord("ARTIFACT_PROPAGATED", r, c.run)

\* A claim under decision is on record as quarantined.
ClaimOnRecord == \A t \in Threads : pc[t] \in {"decide", "record"} => Quarantined(call[t])

\* Until a restart, every receipt somebody outside may hold has its decision on
\* record, and so has every receipt past its decision.  A receipt presented to
\* the gate may have been altered: then the signed one of its id has.
DecisionOnRecord == restarts = 0 =>
  /\ \A r \in known : Decided(r)
  /\ \A t \in Threads :
       /\ pc[t] \in {"withhold", "announce", "return"} => Decided(call[t].receipt)
       /\ pc[t] = "gate" => \E q \in issued : q.id = call[t].receipt.id /\ Decided(q)

\* Until a restart, an announced receipt is consumed and will not be announced
\* again, and every artifact returned or about to be is announced.
AnnouncedOnce == restarts = 0 =>
  /\ \A n \in 1..Len(audit) : audit[n].kind = "ARTIFACT_PROPAGATED" =>
       /\ audit[n].subject \in Receipt /\ used[audit[n].subject.id] = audit[n].subject
       /\ \A t \in Threads : pc[t] = "announce" => call[t].receipt # audit[n].subject
       /\ \A m \in 1..Len(audit) :
            audit[m].kind = "ARTIFACT_PROPAGATED" /\ audit[m].subject = audit[n].subject => m = n
  /\ \A t \in Threads : pc[t] = "return" /\ Minted(call[t]) =>
       Announced(call[t].receipt, call[t].context)
  /\ \A i \in 1..Len(released) : Announced(released[i].receipt, released[i].context)

TrailInv ==
  /\ audit \in Seq(Event)
  /\ ClaimOnRecord /\ DecisionOnRecord /\ AnnouncedOnce /\ AuditInOrder

\* The sink is only appended to, so what is on record stays there.
LEMMA RecordGrows ==
  ASSUME audit \in Seq(Event), NEW e \in Event, audit' = Append(audit, e)
  PROVE  /\ audit' \in Seq(Event)
         /\ Len(audit) \in Nat /\ Len(audit') = Len(audit) + 1
         /\ audit'[Len(audit) + 1] = e
         /\ \A n \in 1..Len(audit) : audit'[n] = audit[n]
         /\ OnRecord(e.kind, e.subject, e.run)'
         /\ \A kind, subject, run : OnRecord(kind, subject, run) => OnRecord(kind, subject, run)'
<1>1. /\ audit' \in Seq(Event)
      /\ Len(audit) \in Nat /\ Len(audit') = Len(audit) + 1
      /\ audit'[Len(audit) + 1] = e
      /\ \A n \in 1..Len(audit) : audit'[n] = audit[n]
  OBVIOUS
<1>2. OnRecord(e.kind, e.subject, e.run)'
  <2>1. Len(audit) + 1 \in 1..Len(audit')
    BY <1>1
  <2> QED BY <1>1, <2>1 DEF OnRecord
<1>3. ASSUME NEW kind, NEW subject, NEW run, OnRecord(kind, subject, run)
      PROVE  OnRecord(kind, subject, run)'
  BY <1>1, <1>3 DEF OnRecord
<1> QED BY <1>1, <1>2, <1>3

\* A step other than a restart leaves the sink alone or appends one event.
LEMMA AppendOrNot ==
  ASSUME IInv, audit \in Seq(Event), [Next]_vars
  PROVE  \/ Restart
         \/ restarts' = restarts /\ (UNCHANGED audit \/ \E e \in Event : audit' = Append(audit, e))
<1> USE DEF Append2Audit, counters, Abandon, GoTo
<1>1. CASE UNCHANGED vars
  BY <1>1 DEF vars
<1>2. ASSUME NEW c \in Contexts, OpenRun(c) PROVE restarts' = restarts /\ \E e \in Event : audit' = Append(audit, e)
  BY <1>2 DEF OpenRun, Event
<1>3. ASSUME NEW s \in Proposals, Authorize(s) PROVE UNCHANGED <<restarts, audit>>
  BY <1>3 DEF Authorize
<1>4. ASSUME NEW b \in Candidates, IssueEvidence(b) PROVE UNCHANGED <<restarts, audit>>
  BY <1>4 DEF IssueEvidence
<1>5. ASSUME NEW t \in Threads, NEW a \in Arguments,
             \/ \E propagate \in BOOLEAN : Evaluate(t, a, propagate)
             \/ \E r \in Heldable : Propagate(t, a, r)
      PROVE  UNCHANGED <<restarts, audit>>
  BY <1>5 DEF Evaluate, Propagate, Start
<1>6. ASSUME NEW t \in Threads,
             \/ Quarantine(t) \/ RecordDecision(t) \/ Withhold(t) \/ AuditBlocked(t) \/ Announce(t)
      PROVE  restarts' = restarts /\ \E e \in Event : audit' = Append(audit, e)
  <2>1. CallKnows(t) /\ call[t] \in Call
    BY <1>6 DEF IInv, CallKnows, Quarantine, RecordDecision, Withhold, AuditBlocked, Announce
  <2>2. call[t].context \in Contexts /\ call[t].claim \in Claims
    BY <2>1 DEF Call
  <2>3. Quarantine(t) \/ call[t].receipt \in Receipt
    BY <1>6, <2>1 DEF CallKnows, RecordDecision, Withhold, AuditBlocked, Announce
  <2>4. restarts' = restarts
    BY <1>6 DEF Quarantine, RecordDecision, Withhold, AuditBlocked, Announce
  <2>5. \E kind \in {"CLAIM_QUARANTINED", "DECISION_ISSUED", "PROPAGATION_BLOCKED", "ARTIFACT_PROPAGATED"},
           subject \in Claims \cup Receipt :
          audit' = Append(audit, [run |-> call[t].context.run, kind |-> kind, subject |-> subject])
    BY <1>6, <2>2, <2>3 DEF Quarantine, RecordDecision, Withhold, AuditBlocked, Announce
  <2> QED BY <2>2, <2>4, <2>5 DEF Event
<1>7. ASSUME NEW t \in Threads,
             \/ Decide(t) \/ Consume(t) \/ GateRaises(t) \/ ConsumeFails(t) \/ Interrupted(t)
             \/ Return(t)
      PROVE  UNCHANGED <<restarts, audit>>
  BY <1>7 DEF Decide, Consume, GateRaises, ConsumeFails, Interrupted, Return
<1> QED
  BY <1>1, <1>2, <1>3, <1>4, <1>5, <1>6, <1>7 DEF Next, Step

\* The steps one thread makes in its call.
Moves(t) ==
  \/ \E a \in Arguments : \/ \E propagate \in BOOLEAN : Evaluate(t, a, propagate)
                          \/ \E r \in Heldable : Propagate(t, a, r)
  \/ Step(t) \/ ConsumeFails(t) \/ Interrupted(t)

\* A step is one thread's, a restart, or nobody's.
LEMMA OneMoves ==
  ASSUME IInv, [Next]_vars
  PROVE  \/ Restart
         \/ UNCHANGED <<pc, call, issued, known, used, released, restarts>>
         \/ \E t \in Threads :
              Moves(t) /\ \A u \in Threads \ {t} : pc'[u] = pc[u] /\ call'[u] = call[u]
<1>0. \/ Restart \/ UNCHANGED vars \/ \E t \in Threads : Moves(t)
      \/ (\E c \in Contexts : OpenRun(c)) \/ (\E s \in Proposals : Authorize(s))
      \/ (\E b \in Candidates : IssueEvidence(b))
  BY DEF Next, Moves
<1>1. CASE \/ UNCHANGED vars \/ (\E c \in Contexts : OpenRun(c))
           \/ (\E s \in Proposals : Authorize(s)) \/ (\E b \in Candidates : IssueEvidence(b))
  BY <1>1 DEF vars, OpenRun, Authorize, IssueEvidence, counters
<1>2. ASSUME NEW t \in Threads, Moves(t)
      PROVE  \A u \in Threads \ {t} : pc'[u] = pc[u] /\ call'[u] = call[u]
  BY <1>2
     DEF Moves, Step, Evaluate, Propagate, Start, Quarantine, Decide, RecordDecision, Withhold,
         Consume, GateRaises, ConsumeFails, Interrupted, AuditBlocked, Announce, Return,
         GoTo, Abandon, IInv, TypeOK
<1> HIDE DEF Moves
<1> QED BY <1>0, <1>1, <1>2

\* What a step other than a restart leaves alone.
LEMMA TrailStays ==
  ASSUME IInv, audit \in Seq(Event), [Next]_vars, ~Restart
  PROVE  /\ restarts' = restarts /\ audit' \in Seq(Event)
         /\ \A kind, subject, run : OnRecord(kind, subject, run) => OnRecord(kind, subject, run)'
         /\ issued \subseteq issued'
         /\ \A id \in ReceiptIds : used[id] # Unused => used'[id] = used[id]
<1>1. restarts' = restarts /\ (UNCHANGED audit \/ \E e \in Event : audit' = Append(audit, e))
  BY AppendOrNot
<1>2. /\ audit' \in Seq(Event)
      /\ \A kind, subject, run : OnRecord(kind, subject, run) => OnRecord(kind, subject, run)'
  BY <1>1, RecordGrows DEF OnRecord
<1>3. ASSUME NEW t \in Threads, Moves(t)
      PROVE  /\ issued \subseteq issued'
             /\ \A id \in ReceiptIds : used[id] # Unused => used'[id] = used[id]
  BY <1>3
     DEF Moves, Step, Evaluate, Propagate, Start, Quarantine, Decide, RecordDecision, Withhold,
         Consume, GateRaises, ConsumeFails, Interrupted, AuditBlocked, Announce, Return, authorities,
         counters, IInv, TypeOK
<1> QED BY <1>1, <1>2, <1>3, OneMoves

\* The event a step appends is the last one afterwards.
LEMMA AppendsLast ==
  ASSUME IInv, audit \in Seq(Event), NEW run, NEW kind, NEW subject,
         Append2Audit(run, kind, subject),
         [Next]_vars, ~Restart
  PROVE  /\ OnRecord(kind, subject, run)'
         /\ Len(audit) \in Nat /\ Len(audit') = Len(audit) + 1
         /\ \A n \in 1..Len(audit) : audit'[n] = audit[n]
         /\ audit'[Len(audit) + 1].kind = kind
         /\ audit'[Len(audit) + 1].subject = subject
         /\ audit'[Len(audit) + 1].run = run
<1> DEFINE e == [run |-> run, kind |-> kind, subject |-> subject]
<1>1. audit' = Append(audit, e)
  BY DEF Append2Audit
<1>2. e \in Event
  <2>1. Len(audit') = Len(audit) + 1 /\ Len(audit) \in Nat /\ audit'[Len(audit) + 1] = e
    BY <1>1
  <2>2. audit' \in Seq(Event)
    BY TrailStays
  <2> HIDE DEF e
  <2> QED BY <2>1, <2>2
<1>3. e.run = run /\ e.kind = kind /\ e.subject = subject
  OBVIOUS
<1> HIDE DEF e
<1> QED BY <1>1, <1>2, <1>3, RecordGrows

\* A claim reaches its decision through Quarantine.
LEMMA ClaimStep ==
  ASSUME IInv, IInv', audit \in Seq(Event), ClaimOnRecord, [Next]_vars
  PROVE  ClaimOnRecord'
<1>1. CASE Restart
  BY <1>1 DEF Restart, ClaimOnRecord
<1>2. CASE ~Restart /\ UNCHANGED <<pc, call>>
  BY <1>2, TrailStays DEF ClaimOnRecord, Quarantined
<1>3. ASSUME ~Restart, NEW t \in Threads, Moves(t), pc'[t] \in {"decide", "record"}
      PROVE  Quarantined(call[t])'
  <2>0. DOMAIN pc = Threads /\ DOMAIN call = Threads
    BY DEF IInv, TypeOK
  <2>1. CASE Quarantine(t)
    BY <1>3, <2>1, AppendsLast DEF Quarantine, ClaimOnRecord, Quarantined
  <2>2. CASE Decide(t)
    <3>1. pc[t] = "decide" /\ Quarantined(call[t]) /\ call[t] \in Call
      BY <2>2 DEF Decide, GoTo, Abandon, ClaimOnRecord, IInv, CallKnows
    <3>2. call'[t].claim = call[t].claim /\ call'[t].context = call[t].context
      BY <1>3, <2>0, <2>2, <3>1 DEF Decide, Abandon, GoTo, Call
    <3> QED BY <1>3, <3>1, <3>2, TrailStays DEF Quarantined
  <2>3. CASE ~Quarantine(t) /\ ~Decide(t)
    BY <1>3, <2>0, <2>3
       DEF Moves, Step, Evaluate, Propagate, Start, RecordDecision, AfterDecision, Withhold,
           Consume, GateRaises, ConsumeFails, Interrupted, AuditBlocked, Announce, Return, GoTo, Abandon
  <2> QED BY <2>1, <2>2, <2>3
<1>4. ASSUME ~Restart, NEW t \in Threads, Moves(t),
             \A u \in Threads \ {t} : pc'[u] = pc[u] /\ call'[u] = call[u]
      PROVE  ClaimOnRecord'
  BY <1>3, <1>4, TrailStays DEF ClaimOnRecord, Quarantined
<1> QED BY <1>1, <1>2, <1>4, OneMoves

\* A receipt reaches a caller, or the gate, through RecordDecision.
LEMMA DecisionStep ==
  ASSUME IInv, IInv', audit \in Seq(Event), DecisionOnRecord, [Next]_vars
  PROVE  DecisionOnRecord'
<1>0. /\ DOMAIN pc = Threads /\ DOMAIN call = Threads /\ known \subseteq issued
      /\ issued \subseteq Receipt /\ restarts \in Nat /\ \A t \in Threads : CallKnows(t)
  BY KernelConstants DEF IInv, TypeOK
<1> DEFINE Told(t) ==
       /\ pc[t] \in {"withhold", "announce", "return"} => Decided(call[t].receipt)
       /\ pc[t] = "gate" => \E q \in issued : q.id = call[t].receipt.id /\ Decided(q)
<1>1. CASE Restart
  BY <1>0, <1>1 DEF Restart, DecisionOnRecord
<1> SUFFICES ASSUME ~Restart, restarts = 0
             PROVE  (\A r \in known' : Decided(r)') /\ \A t \in Threads : Told(t)'
  <2>1. CASE ~Restart /\ restarts = 0
    BY <2>1 DEF DecisionOnRecord
  <2>2. CASE ~Restart /\ restarts # 0
    BY <2>2, TrailStays DEF DecisionOnRecord
  <2> QED BY <1>1, <2>1, <2>2
<1>2. (\A r \in known : Decided(r)) /\ \A t \in Threads : Told(t)
  BY DEF DecisionOnRecord
<1>3. /\ \A r : Decided(r) => Decided(r)'
      /\ issued \subseteq issued'
  BY TrailStays DEF Decided
<1>4. ASSUME UNCHANGED <<known>>
      PROVE  \A r \in known' : Decided(r)'
  BY <1>2, <1>3, <1>4
<1>5. ASSUME NEW t \in Threads, pc'[t] = pc[t], call'[t] = call[t] PROVE Told(t)'
  BY <1>2, <1>3, <1>5
<1>6. CASE UNCHANGED <<pc, call, issued, known, used, released, restarts>>
  BY <1>4, <1>5, <1>6
<1>7. ASSUME NEW t \in Threads, Moves(t) PROVE (\A r \in known' : Decided(r)') /\ Told(t)'
  <2>1. CASE RecordDecision(t)
    <3>1. /\ call' = call /\ known' = known /\ issued' = issued /\ pc[t] = "record"
          /\ pc'[t] = AfterDecision(call[t]) /\ CallValid(call[t])
      BY <1>0, <2>1 DEF RecordDecision, GoTo, CallKnows
    <3>2. OnRecord("DECISION_ISSUED", call[t].receipt, call[t].context.run)'
      BY <2>1, AppendsLast DEF RecordDecision
    <3>3. call[t].receipt.context = call[t].context /\ call[t].receipt \in issued
      BY <3>1 DEF CallValid, ReceiptValid
    <3>4. OnRecord("DECISION_ISSUED", call[t].receipt, call[t].receipt.context.run)'
      BY <3>1, <3>2, <3>3
    <3> QED BY <1>4, <3>1, <3>3, <3>4 DEF Decided
  <2>2. CASE Consume(t)
    <3>1. /\ call' = call /\ known' = known /\ issued' = issued /\ pc[t] = "gate"
          /\ pc'[t] = "announce" /\ CallValid(call[t])
      BY <1>0, <2>2 DEF Consume, GoTo
    <3>2. PICK q \in issued : q.id = call[t].receipt.id /\ Decided(q)
      BY <1>2, <3>1
    <3>3. q = call[t].receipt
      BY <3>1, <3>2 DEF CallValid, ReceiptValid, IInv, IssuedUnique
    <3> QED BY <1>3, <1>4, <3>1, <3>2, <3>3
  <2>3. CASE Withhold(t) \/ Announce(t)
    <3>1. /\ call' = call /\ known' = known /\ pc'[t] = "return"
          /\ pc[t] \in {"withhold", "announce"}
      BY <1>0, <2>3 DEF Withhold, Announce, GoTo
    <3> QED BY <1>2, <1>3, <1>4, <3>1
  <2>4. CASE Return(t)
    <3>1. /\ pc[t] = "return" /\ pc'[t] = "idle"
          /\ known' \subseteq known \cup {call[t].receipt}
      BY <1>0, <2>4 DEF Return, Abandon, GoTo
    <3> QED BY <1>2, <1>3, <3>1
  <2>5. ASSUME NEW a \in Arguments, NEW r \in Heldable, Propagate(t, a, r)
        PROVE  (\A q \in known' : Decided(q)') /\ Told(t)'
    <3>1. /\ known' = known /\ pc'[t] = "gate" /\ call'[t].receipt = r
      BY <1>0, <2>5 DEF Propagate, Start
    <3>2. PICK q \in known : r.id = q.id
      BY <1>0 DEF Heldable, Receipt
    <3> QED BY <1>0, <1>2, <1>3, <1>4, <3>1, <3>2
  <2>6. ASSUME \/ \E a \in Arguments, propagate \in BOOLEAN : Evaluate(t, a, propagate)
               \/ Quarantine(t) \/ Decide(t) \/ GateRaises(t) \/ ConsumeFails(t) \/ Interrupted(t) \/ AuditBlocked(t)
        PROVE  (\A q \in known' : Decided(q)') /\ Told(t)'
    <3>1. known' = known /\ pc'[t] \notin {"withhold", "announce", "return", "gate"}
      BY <1>0, <2>6
         DEF Evaluate, Start, Quarantine, Decide, GateRaises, ConsumeFails, Interrupted, AuditBlocked,
             GoTo, Abandon, counters
    <3> QED BY <1>4, <3>1
  <2> QED BY <1>7, <2>1, <2>2, <2>3, <2>4, <2>5, <2>6 DEF Moves, Step
<1> HIDE DEF Told
<1> QED BY <1>5, <1>6, <1>7, OneMoves

\* The trail is written in order.
LEMMA OrderStep ==
  ASSUME IInv, IInv', audit \in Seq(Event), ClaimOnRecord, DecisionOnRecord, AuditInOrder, [Next]_vars
  PROVE  AuditInOrder'
<1> DEFINE Ordered(n) ==
       /\ audit[n].kind = "DECISION_ISSUED" =>
            Before(n, "CLAIM_QUARANTINED", audit[n].subject.claim)
       /\ audit[n].kind = "ARTIFACT_PROPAGATED" /\ restarts = 0 =>
            Before(n, "DECISION_ISSUED", audit[n].subject)
<1>0. CASE Restart
  BY <1>0 DEF Restart, AuditInOrder
<1>1. CASE ~Restart /\ UNCHANGED audit
  BY <1>1, TrailStays DEF AuditInOrder, Before
<1>2. ASSUME ~Restart, NEW e \in Event, audit' = Append(audit, e),
             NEW z, z = Len(audit) + 1, Ordered(z)'
      PROVE  AuditInOrder'
  <2>1. /\ Len(audit) \in Nat /\ Len(audit') = Len(audit) + 1
        /\ \A n \in 1..Len(audit) : audit'[n] = audit[n]
    BY <1>2, RecordGrows
  <2>2. ASSUME NEW n \in 1..Len(audit) PROVE Ordered(n)'
    <3>1. Ordered(n) /\ audit'[n] = audit[n] /\ restarts' = restarts
      BY <1>2, <2>1, TrailStays DEF AuditInOrder
    <3>2. \A m \in 1..(n - 1) : audit'[m] = audit[m]
      BY <2>1
    <3> QED BY <3>1, <3>2 DEF Before
  <2>3. \A n \in 1..Len(audit') : n \in 1..Len(audit) \/ n = z
    BY <1>2, <2>1
  <2>4. \A n \in 1..Len(audit') : Ordered(n)'
    BY <1>2, <2>1, <2>2, <2>3
  <2> QED BY <2>4 DEF AuditInOrder
<1>3. ASSUME ~Restart, NEW run, NEW kind, NEW subject, Append2Audit(run, kind, subject),
             \/ kind \notin {"DECISION_ISSUED", "ARTIFACT_PROPAGATED"}
             \/ kind = "DECISION_ISSUED" /\ OnRecord("CLAIM_QUARANTINED", subject.claim, run)
             \/ kind = "ARTIFACT_PROPAGATED" /\ (restarts = 0 => OnRecord("DECISION_ISSUED", subject, run))
      PROVE  AuditInOrder'
  <2>1. PICK z : z = Len(audit) + 1
    OBVIOUS
  <2>2. /\ Len(audit) \in Nat /\ Len(audit') = Len(audit) + 1
        /\ \A n \in 1..Len(audit) : audit'[n] = audit[n]
        /\ audit'[z].kind = kind /\ audit'[z].subject = subject /\ audit'[z].run = run
    BY <1>3, <2>1, AppendsLast
  <2>3. restarts' = restarts /\ z - 1 = Len(audit)
    BY <1>3, <2>1, <2>2, TrailStays
  <2>4. ASSUME NEW k, NEW s, OnRecord(k, s, run) PROVE Before(z, k, s)'
    BY <2>2, <2>3, <2>4 DEF OnRecord, Before
  <2>5. Ordered(z)'
    BY <1>3, <2>2, <2>3, <2>4
  <2>6. \E d \in Event : audit' = Append(audit, d)
    <3>1. UNCHANGED audit \/ \E d \in Event : audit' = Append(audit, d)
      BY <1>3, AppendOrNot
    <3> QED BY <2>2, <3>1
  <2> HIDE DEF Ordered
  <2> QED BY <1>2, <1>3, <2>1, <2>5, <2>6
<1>4. ASSUME NEW c \in Contexts, OpenRun(c), ~Restart PROVE AuditInOrder'
  BY <1>3, <1>4 DEF OpenRun
<1>5. ASSUME NEW t \in Threads, Moves(t), ~Restart PROVE AuditInOrder'
  <2>0. CallKnows(t)
    BY DEF IInv
  <2>1. CASE Quarantine(t) \/ Withhold(t) \/ AuditBlocked(t)
    BY <1>3, <1>5, <2>1 DEF Quarantine, Withhold, AuditBlocked
  <2>2. CASE RecordDecision(t)
    <3>1. pc[t] = "record" /\ CallValid(call[t]) /\ Quarantined(call[t])
      BY <2>0, <2>2 DEF RecordDecision, GoTo, CallKnows, ClaimOnRecord
    <3>2. OnRecord("CLAIM_QUARANTINED", call[t].receipt.claim, call[t].context.run)
      BY <3>1 DEF CallValid, ReceiptValid, Quarantined
    <3> QED BY <1>3, <1>5, <2>2, <3>2 DEF RecordDecision
  <2>3. CASE Announce(t)
    <3>1. pc[t] = "announce" /\ CallValid(call[t]) /\ (restarts = 0 => Decided(call[t].receipt))
      BY <2>0, <2>3 DEF Announce, GoTo, CallKnows, DecisionOnRecord
    <3>2. restarts = 0 => OnRecord("DECISION_ISSUED", call[t].receipt, call[t].context.run)
      BY <3>1 DEF CallValid, ReceiptValid, Decided
    <3> QED BY <1>3, <1>5, <2>3, <3>2 DEF Announce
  <2>4. CASE \/ \E a \in Arguments, propagate \in BOOLEAN : Evaluate(t, a, propagate)
             \/ \E a \in Arguments, r \in Heldable : Propagate(t, a, r)
             \/ Decide(t) \/ Consume(t) \/ GateRaises(t) \/ ConsumeFails(t) \/ Interrupted(t) \/ Return(t)
    <3>1. UNCHANGED audit
      BY <2>4 DEF Evaluate, Propagate, Start, Decide, Consume, GateRaises, ConsumeFails, Interrupted, Return
    <3> QED BY <1>1, <1>5, <3>1
  <2> QED BY <1>5, <2>1, <2>2, <2>3, <2>4 DEF Moves, Step
<1>6. ASSUME \/ UNCHANGED vars \/ (\E s \in Proposals : Authorize(s))
             \/ (\E b \in Candidates : IssueEvidence(b))
      PROVE  UNCHANGED audit
  BY <1>6 DEF vars, Authorize, IssueEvidence
<1> HIDE DEF Ordered
<1> QED BY <1>0, <1>1, <1>4, <1>5, <1>6 DEF Next, Moves

\* A receipt is announced once: its entry in the use store was new when the
\* announcing thread wrote it.
LEMMA AnnouncedStep ==
  ASSUME IInv, IInv', audit \in Seq(Event), AnnouncedOnce, [Next]_vars
  PROVE  AnnouncedOnce'
<1> DEFINE IsAnnounced(n) == audit[n].kind = "ARTIFACT_PROPAGATED"
           Spent(n) == /\ audit[n].subject \in Receipt
                       /\ used[audit[n].subject.id] = audit[n].subject
           Kept(n, t) == pc[t] = "announce" => call[t].receipt # audit[n].subject
           Told(t) == pc[t] = "return" /\ Minted(call[t]) =>
                        Announced(call[t].receipt, call[t].context)
           Held(i) == Announced(released[i].receipt, released[i].context)
<1>0. /\ DOMAIN pc = Threads /\ DOMAIN call = Threads /\ restarts \in Nat
      /\ \A t \in Threads : CallKnows(t)
  BY KernelConstants DEF IInv, TypeOK
<1>1. CASE Restart
  BY <1>0, <1>1 DEF Restart, AnnouncedOnce
<1>2. CASE ~Restart /\ restarts # 0
  BY <1>2, TrailStays DEF AnnouncedOnce
<1>3. CASE ~Restart /\ restarts = 0
  <2>0. /\ \A n \in 1..Len(audit) : IsAnnounced(n) =>
             /\ Spent(n) /\ \A t \in Threads : Kept(n, t)
             /\ \A m \in 1..Len(audit) :
                  IsAnnounced(m) /\ audit[m].subject = audit[n].subject => m = n
        /\ \A t \in Threads : Told(t)
        /\ \A i \in 1..Len(released) : Held(i)
    BY <1>3 DEF AnnouncedOnce
  <2>1. /\ \A id \in ReceiptIds : used[id] # Unused => used'[id] = used[id]
        /\ \A r, c : Announced(r, c) => Announced(r, c)'
    BY <1>3, TrailStays DEF Announced
  <2>2. ASSUME NEW n \in 1..Len(audit), IsAnnounced(n), audit'[n] = audit[n]
        PROVE  Spent(n)'
    <3>1. audit[n].subject \in Receipt /\ audit[n].subject.id \in ReceiptIds
      BY <2>0, <2>2 DEF Receipt
    <3> QED BY <2>0, <2>1, <2>2, <3>1, KernelConstants
  <2>3. ASSUME NEW n \in 1..Len(audit), IsAnnounced(n), audit'[n] = audit[n],
               NEW t \in Threads,
               Consume(t) \/ pc'[t] # "announce" \/ (pc'[t] = pc[t] /\ call'[t] = call[t])
        PROVE  Kept(n, t)'
    <3>1. CASE Consume(t)
      <4>1. used[call[t].receipt.id] = Unused /\ call'[t] = call[t]
        BY <3>1 DEF Consume
      <4>2. audit[n].subject \in Receipt /\ used[audit[n].subject.id] = audit[n].subject
        BY <2>0, <2>3
      <4> QED BY <4>1, <4>2, <2>3, KernelConstants
    <3> QED BY <2>0, <2>3, <3>1
  <2>4. ASSUME NEW t \in Threads, pc'[t] = pc[t], call'[t] = call[t] PROVE Told(t)'
    BY <2>0, <2>1, <2>4 DEF Minted
  <2>5. ASSUME released' = released PROVE \A i \in 1..Len(released') : Held(i)'
    BY <2>0, <2>1, <2>5
  <2>6. ASSUME NEW t \in Threads, Moves(t), ~Announce(t)
        PROVE  /\ Consume(t) \/ pc'[t] # "announce"
               /\ Told(t)' /\ \A i \in 1..Len(released') : Held(i)'
    <3>1. CASE Return(t)
      <4> DEFINE k == call[t]
                 a == [context |-> k.context, claim |-> k.claim, spec |-> k.spec, receipt |-> k.receipt]
      <4>1. /\ pc[t] = "return" /\ pc'[t] = "idle" /\ k \in Call /\ k.receipt \in Receipt
            /\ released' = (IF Minted(k) THEN Append(released, a) ELSE released)
        BY <1>0, <3>1 DEF Return, Abandon, GoTo, CallKnows
      <4>2. CASE ~Minted(k)
        BY <2>5, <4>1, <4>2
      <4>3. CASE Minted(k)
        <5>1. PICK d : d = a
          OBVIOUS
        <5>2. Announced(d.receipt, d.context)
          BY <2>0, <4>1, <4>3, <5>1
        <5>3. Announced(d.receipt, d.context)'
          BY <2>1, <5>2
        <5>4. d \in Artifact /\ released \in Seq(Artifact) /\ released' = Append(released, d)
          BY <4>1, <4>3, <5>1 DEF Call, Artifact, IInv, TypeOK
        <5>5. \A i \in 1..Len(released') :
                \/ released'[i] = d
                \/ i \in 1..Len(released) /\ released'[i] = released[i]
          BY <5>4
        <5>6. ASSUME NEW i \in 1..Len(released') PROVE Held(i)'
          <6>1. CASE released'[i] = d
            BY <5>3, <6>1
          <6>2. CASE i \in 1..Len(released) /\ released'[i] = released[i]
            BY <2>0, <2>1, <6>2
          <6> QED BY <5>5, <6>1, <6>2
        <5> QED BY <4>1, <5>6
      <4> QED BY <4>2, <4>3
    <3>2. CASE ~Return(t)
      <4>1. released' = released
        BY <2>6, <3>2
           DEF Moves, Step, Evaluate, Propagate, Start, Quarantine, Decide, RecordDecision,
               Withhold, Consume, GateRaises, ConsumeFails, Interrupted, AuditBlocked
      <4>2. Consume(t) \/ pc'[t] # "announce"
        BY <1>0, <2>6, <3>2
           DEF Moves, Step, Evaluate, Propagate, Start, Quarantine, Decide, RecordDecision,
               AfterDecision, Withhold, GateRaises, ConsumeFails, Interrupted, AuditBlocked, GoTo, Abandon
      <4>3. Told(t)'
        <5>1. pc'[t] = "return" => RecordDecision(t) \/ Withhold(t)
          BY <1>0, <2>6, <3>2
             DEF Moves, Step, Evaluate, Propagate, Start, Quarantine, Decide, Consume,
                 GateRaises, ConsumeFails, Interrupted, AuditBlocked, GoTo, Abandon
        <5>2. pc'[t] = "return" => ~Minted(call[t])'
          BY <1>0, <5>1
             DEF RecordDecision, AfterDecision, Withhold, GoTo, CallKnows, Minted
        <5> QED BY <5>2
      <4> QED BY <2>5, <4>1, <4>2, <4>3
    <3> QED BY <3>1, <3>2
  <2>7. ASSUME \A t \in Threads : ~Announce(t), NEW n \in 1..Len(audit'), IsAnnounced(n)'
        PROVE  n \in 1..Len(audit) /\ audit'[n] = audit[n]
    <3>1. CASE UNCHANGED audit
      BY <2>7, <3>1
    <3>2. ASSUME NEW run, NEW kind, NEW subject, Append2Audit(run, kind, subject),
                 kind # "ARTIFACT_PROPAGATED"
          PROVE  n \in 1..Len(audit) /\ audit'[n] = audit[n]
      BY <1>3, <2>7, <3>2, AppendsLast
    <3>3. CASE \/ UNCHANGED vars \/ (\E c \in Contexts : OpenRun(c))
               \/ (\E s \in Proposals : Authorize(s)) \/ (\E b \in Candidates : IssueEvidence(b))
      <4>1. UNCHANGED audit \/ \E run, subject : Append2Audit(run, "RUN_OPENED", subject)
        BY <3>3 DEF vars, OpenRun, Authorize, IssueEvidence
      <4> QED BY <3>1, <3>2, <4>1
    <3>4. ASSUME NEW t \in Threads, Moves(t) PROVE n \in 1..Len(audit) /\ audit'[n] = audit[n]
      <4>1. UNCHANGED audit
            \/ \E kind \in {"CLAIM_QUARANTINED", "DECISION_ISSUED", "PROPAGATION_BLOCKED"} :
                 \E run, subject : Append2Audit(run, kind, subject)
        BY <2>7, <3>4
           DEF Moves, Step, Evaluate, Propagate, Start, Quarantine, Decide, RecordDecision,
               Withhold, Consume, GateRaises, ConsumeFails, Interrupted, AuditBlocked, Return
      <4> QED BY <3>1, <3>2, <4>1
    <3> QED BY <1>3, <3>3, <3>4 DEF Next, Moves
  <2>8. CASE \A t \in Threads : ~Announce(t)
    <3>1. \A t \in Threads : /\ Consume(t) \/ pc'[t] # "announce" \/ (pc'[t] = pc[t] /\ call'[t] = call[t])
                            /\ Told(t)'
      BY <1>3, <2>4, <2>6, <2>8, OneMoves
    <3>2. \A i \in 1..Len(released') : Held(i)'
      BY <1>3, <2>5, <2>6, <2>8, OneMoves
    <3>3. ASSUME NEW n \in 1..Len(audit'), IsAnnounced(n)'
          PROVE  /\ Spent(n)' /\ \A t \in Threads : Kept(n, t)'
                 /\ \A m \in 1..Len(audit') :
                      IsAnnounced(m)' /\ audit'[m].subject = audit'[n].subject => m = n
      <4>1. \A m \in 1..Len(audit') : IsAnnounced(m)' =>
              m \in 1..Len(audit) /\ audit'[m] = audit[m] /\ IsAnnounced(m)
        BY <2>7, <2>8
      <4>2. n \in 1..Len(audit) /\ audit'[n] = audit[n] /\ IsAnnounced(n)
        BY <3>3, <4>1
      <4>3. \A m \in 1..Len(audit') :
              IsAnnounced(m)' /\ audit'[m].subject = audit'[n].subject => m = n
        BY <2>0, <4>1, <4>2
      <4> HIDE DEF IsAnnounced, Spent, Kept
      <4> QED BY <2>2, <2>3, <3>1, <4>2, <4>3
    <3> HIDE DEF Told, Held
    <3>4. \A t \in Threads : Told(t)'
      BY <3>1
    <3> USE DEF Told, Held
    <3> QED BY <3>2, <3>3, <3>4 DEF AnnouncedOnce
  <2>9. ASSUME NEW t \in Threads, Announce(t) PROVE AnnouncedOnce'
    <3> DEFINE r == call[t].receipt
    <3>1. /\ pc[t] = "announce" /\ pc' = [pc EXCEPT ![t] = "return"]
          /\ UNCHANGED <<call, used, released>>
          /\ CallValid(call[t]) /\ r \in Receipt /\ Carries(t) /\ used[r.id] = r
      BY <1>0, <2>9 DEF Announce, GoTo, CallKnows, Carries
    <3>2. PICK z : z = Len(audit) + 1
      OBVIOUS
    <3>3. /\ OnRecord("ARTIFACT_PROPAGATED", r, call[t].context.run)'
          /\ Len(audit) \in Nat /\ Len(audit') = z
          /\ \A n \in 1..Len(audit) : audit'[n] = audit[n]
          /\ audit'[z].kind = "ARTIFACT_PROPAGATED" /\ audit'[z].subject = r
      BY <1>3, <2>9, <3>2, AppendsLast DEF Announce
    <3>4. \A u \in Threads \ {t} : pc'[u] = pc[u] /\ (pc[u] = "announce" => call[u].receipt # r)
      BY <1>0, <3>1 DEF IInv, CarriedOnce, CallKnows, Carries
    <3>5. \A u \in Threads : Told(u)'
      <4>1. Told(t)'
        BY <3>1, <3>3 DEF Announced
      <4> HIDE DEF Told
      <4> QED BY <2>4, <3>1, <3>4, <4>1
    <3>6. \A n \in 1..Len(audit) : IsAnnounced(n) =>
            Spent(n)' /\ audit[n].subject # r /\ \A u \in Threads : Kept(n, u)'
      BY <2>0, <3>1, <3>3, <3>4
    <3>7. Spent(z)' /\ \A u \in Threads : Kept(z, u)'
      BY <1>0, <3>1, <3>3, <3>4
    <3>8. ASSUME NEW n \in 1..Len(audit'), IsAnnounced(n)'
          PROVE  /\ Spent(n)' /\ \A u \in Threads : Kept(n, u)'
                 /\ \A m \in 1..Len(audit') :
                      IsAnnounced(m)' /\ audit'[m].subject = audit'[n].subject => m = n
      <4>1. \A m \in 1..Len(audit') : m = z \/ (m \in 1..Len(audit) /\ audit'[m] = audit[m])
        BY <3>2, <3>3
      <4>2. \A m \in 1..Len(audit') :
              IsAnnounced(m)' /\ audit'[m].subject = audit'[n].subject => m = n
        BY <2>0, <3>3, <3>6, <3>8, <4>1
      <4>3. n = z \/ (n \in 1..Len(audit) /\ IsAnnounced(n))
        BY <3>8, <4>1
      <4> HIDE DEF Spent, Kept
      <4> QED BY <3>6, <3>7, <4>2, <4>3
    <3>9. \A i \in 1..Len(released') : Held(i)'
      BY <2>5, <3>1
    <3> QED BY <3>5, <3>8, <3>9 DEF AnnouncedOnce
  <2> QED BY <2>8, <2>9
<1> QED BY <1>1, <1>2, <1>3

LEMMA TrailStep == IInv /\ IInv' /\ TrailInv /\ [Next]_vars => TrailInv'
<1> SUFFICES ASSUME IInv, IInv', TrailInv, [Next]_vars PROVE TrailInv'
  OBVIOUS
<1>1. audit' \in Seq(Event)
  <2>1. CASE Restart BY <2>1 DEF Restart
  <2>2. CASE ~Restart BY <2>2, TrailStays DEF TrailInv
  <2> QED BY <2>1, <2>2
<1> QED BY <1>1, ClaimStep, DecisionStep, AnnouncedStep, OrderStep DEF TrailInv

LEMMA TrailInvariance == Spec => []TrailInv
<1>1. Init => TrailInv
  BY DEF Init, TrailInv, ClaimOnRecord, DecisionOnRecord, AnnouncedOnce, AuditInOrder
<1> QED BY <1>1, TrailStep, Invariance, PTL DEF Spec

\* Claim, decision and propagation are on record in this order, whichever
\* threads interleave (VerificationKernel.evaluate, TrustGate.propagate).
THEOREM AuditInOrderHolds == Spec => []AuditInOrder
<1>1. TrailInv => AuditInOrder BY DEF TrailInv
<1> QED BY <1>1, TrailInvariance, PTL

\* An artifact somebody holds has exactly one event that announces it: announced
\* receipts are consumed ones, and a receipt is consumed once.
THEOREM ReleaseIsAuditedHolds == Spec => []ReleaseIsAudited
<1>1. TrailInv => ReleaseIsAudited
  BY DEF TrailInv, AnnouncedOnce, Announced, OnRecord, ReleaseIsAudited
<1> QED BY <1>1, TrailInvariance, PTL
=============================================================================
