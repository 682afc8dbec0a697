------------------------------ MODULE Runtime ------------------------------
(***************************************************************************)
(* VerificationRuntime.run (runtime.py) with the ChallengeScheduler        *)
(* (challenges.py), the ActionGate (actions.py) and the VerifierRegistry   *)
(* (verifiers.py): several runs that share one database file, with         *)
(* failing providers, denied actions, failing store operations and crashes *)
(* of the controller.                                                      *)
(*                                                                         *)
(* Each call that another component or the disk can see is a step.  A      *)
(* value is known by where it comes from: the claim of attempt n of run r, *)
(* its evidence and its receipt are named by <<r, n>>, since the code      *)
(* gives each a fresh uuid.  The kernel's own checks are in TrustKernel:   *)
(* here evaluate decides, consumes the receipt of a VERIFIED verdict, and  *)
(* returns.  An exception that leaves run() is the stage "raised".         *)
(***************************************************************************)
EXTENDS Decision, Naturals, Sequences

CONSTANTS
  Runs,        \* calls of run(); each opens a run with a fresh id
  Configs,     \* the arguments a caller may pass
  Obligations, \* every obligation, [id, criteria, kind]
  MaxFaults,   \* bound: store operations that fail
  MaxCrashes   \* bound: crashes of the controller

ActionKinds == {"agent.invoke", "agent.challenge", "verifier.invoke"}

Config ==
  [criteria : SUBSET UNION {o.criteria : o \in Obligations},
   approved : BOOLEAN,                  \* the spec authority accepts the proposal
   baseline : SUBSET Obligations,
   critic : BOOLEAN,                    \* a critic provider is given
   catalog : SUBSET Obligations,        \* challenge_obligations
   sameProvider : BOOLEAN,              \* worker and critic have one provider id
   requireDistinct : BOOLEAN,           \* of the challenge policy
   maxSelected : Nat,                   \* of the challenge policy
   maxRepairs : Nat,
   allowed : SUBSET ActionKinds,        \* of the action policy
   approval : SUBSET ActionKinds,       \* of the action policy
   resolver : BOOLEAN,                  \* an approval resolver is configured
   plugins : SUBSET {o.kind : o \in Obligations}]  \* kinds a plugin handles

\* Callers choose among finitely many configurations: one has the most repairs.
ASSUME RuntimeConstants ==
  /\ Configs \subseteq Config
  /\ \E most \in Configs : \A cfg \in Configs : cfg.maxRepairs <= most.maxRepairs
  /\ MaxFaults \in Nat /\ MaxCrashes \in Nat

VARIABLES
  contexts,  \* runs whose context is in the table runs
  records,   \* the table run_records, in sequence order
  used,      \* receipts in the receipt-use store
  run,       \* the local state of each call
  faults, crashes

vars == <<contexts, records, used, run, faults, crashes>>
bounds == <<faults, crashes>>

Ids(plan) == {o.id : o \in plan}

UniqueIds(plan) == \A o, p \in plan : o.id = p.id => o = p

Idle == [stage |-> "idle"]

Init ==
  /\ contexts = {}
  /\ records = <<>>
  /\ used = {}
  /\ run = [r \in Runs |-> Idle]
  /\ faults = 0 /\ crashes = 0

-----------------------------------------------------------------------------
(* Policies *)

\* ActionGate.execute with the allow-list policy: an operation of this kind
\* may be invoked if it is allowed, or if a resolver can approve it.  Whether
\* the resolver does is part of what the operation's outcome leaves open.
MayInvoke(cfg, kind) ==
  \/ kind \in cfg.allowed
  \/ kind \in cfg.approval /\ cfg.resolver

\* RuntimeChallengePolicy.authorize accepts a selection of obligation ids.
SelectionAuthorized(cfg, selection) ==
  /\ ~(cfg.requireDistinct /\ cfg.sameProvider)
  /\ cfg.baseline # {}
  /\ Cardinality(selection) <= cfg.maxSelected
  /\ UniqueIds(cfg.baseline)
  /\ UniqueIds(cfg.catalog)
  /\ Ids(cfg.baseline) \cap Ids(cfg.catalog) = {}
  /\ selection \subseteq Ids(cfg.catalog)

\* Mutant: a selection takes the place of the baseline.
PlanForSelected(cfg, selection) ==
  IF selection = {} THEN cfg.baseline ELSE {o \in cfg.catalog : o.id \in selection}

PlanFor(cfg, selection) == cfg.baseline \cup {o \in cfg.catalog : o.id \in selection}

\* What run() demands before it opens a run.
Preflight(cfg) ==
  /\ cfg.baseline # {}
  /\ cfg.allowed \cap cfg.approval = {}
  /\ IF cfg.critic THEN cfg.catalog # {} /\ SelectionAuthorized(cfg, {})
                   ELSE cfg.catalog = {}

-----------------------------------------------------------------------------
(* Steps of one call *)

At(r, stage) == run[r].stage = stage

Go(r, stage) == run' = [run EXCEPT ![r].stage = stage]

Start(r, cfg) ==
  /\ At(r, "idle")
  /\ Preflight(cfg)
  /\ run' = [run EXCEPT ![r] =
       [stage |-> "save_context", cfg |-> cfg, attempt |-> 1, parent |-> 0,
        plan |-> {}, status |-> <<>>, verdict |-> "none"]]
  /\ UNCHANGED <<contexts, records, used, bounds>>

\* The kernel opened the run; its context is the first thing stored.
SaveContext(r) ==
  /\ At(r, "save_context")
  /\ contexts' = contexts \cup {r}
  /\ Go(r, "authorize")
  /\ UNCHANGED <<records, used, bounds>>

Authorize(r) ==
  /\ At(r, "authorize")
  /\ Go(r, IF run[r].cfg.approved THEN "save_spec" ELSE "raised")
  /\ UNCHANGED <<contexts, records, used, bounds>>

\* SQLiteRunStore._append commits one row; its run must be in the table runs.
Record(r, row, next) ==
  /\ r \in contexts
  /\ records' = Append(records, row)
  /\ Go(r, next)
  /\ UNCHANGED <<contexts, used, bounds>>

SaveSpec(r) ==
  /\ At(r, "save_spec")
  /\ Record(r, [run |-> r, kind |-> "AUTHORIZED_SPEC"], "invoke")

\* Mutant: an action that needs an approval nobody can give waits for it.
InvokeAgentWaits(r, kind, next) ==
  /\ MayInvoke(run[r].cfg, kind)
  /\ Go(r, next) \/ Go(r, "raised")
  /\ UNCHANGED <<contexts, records, used, bounds>>

\* An agent is invoked behind the action gate.  It may raise or return no
\* AgentOutput, and a gate that does not permit the action raises too.
InvokeAgent(r, kind, next) ==
  /\ \/ MayInvoke(run[r].cfg, kind) /\ Go(r, next)
     \/ Go(r, "raised")
  /\ UNCHANGED <<contexts, records, used, bounds>>

Invoke(r) ==
  /\ At(r, "invoke")
  /\ InvokeAgent(r, "agent.invoke", "quarantine")

\* The output becomes a claim, stored as QUARANTINED before anything looks at it.
QuarantineClaim(r) ==
  LET k == run[r] IN
  /\ At(r, "quarantine")
  /\ Record(r, [run |-> r, kind |-> "CLAIM", producer |-> "agent",
                attempt |-> k.attempt, parent |-> k.parent],
            IF k.cfg.critic THEN "challenge" ELSE "collect")

Challenge(r) ==
  /\ At(r, "challenge")
  /\ InvokeAgent(r, "agent.challenge", "quarantine_critic")

\* The critic's output is a quarantined claim before the policy reads it.
QuarantineCritic(r) ==
  LET k == run[r] IN
  /\ At(r, "quarantine_critic")
  /\ Record(r, [run |-> r, kind |-> "CLAIM", producer |-> "critic",
                attempt |-> k.attempt, parent |-> k.attempt], "select")

\* The selection is authorized, or malformed or refused: then run() raises.
Select(r) ==
  /\ At(r, "select")
  /\ \/ \E selection \in SUBSET Ids(Obligations) :
          /\ SelectionAuthorized(run[r].cfg, selection)
          /\ run' = [run EXCEPT ![r].stage = "collect",
                                ![r].plan = PlanFor(run[r].cfg, selection)]
     \/ Go(r, "raised")
  /\ UNCHANGED <<contexts, records, used, bounds>>

\* The plan the registry is given: the critic's, or the baseline alone.
PlanOf(k) == IF k.cfg.critic THEN k.plan ELSE k.cfg.baseline

\* VerifierRegistry.collect: one observation per obligation.  An obligation
\* nobody handles, a denied action and a plugin that raises or answers for
\* another obligation are ERROR; otherwise the plugin's status stands.
Observable(cfg, o) == o.kind \in cfg.plugins /\ MayInvoke(cfg, "verifier.invoke")

\* Mutant: a check that could not run counts as one that failed.
CollectFailed(r) ==
  LET k == run[r] IN
  /\ At(r, "collect")
  /\ \E status \in [PlanOf(k) -> Statuses] :
       /\ \A o \in PlanOf(k) : ~Observable(k.cfg, o) => status[o] = "FAILED"
       /\ run' = [run EXCEPT ![r].stage = "issue", ![r].status = status]
  /\ UNCHANGED <<contexts, records, used, bounds>>

Collect(r) ==
  LET k == run[r] IN
  /\ At(r, "collect")
  /\ \E status \in [PlanOf(k) -> Statuses] :
       /\ \A o \in PlanOf(k) : ~Observable(k.cfg, o) => status[o] = "ERROR"
       /\ run' = [run EXCEPT ![r].stage = "issue", ![r].status = status]
  /\ UNCHANGED <<contexts, records, used, bounds>>

\* The evidence authority signs plan and observations; a bundle refuses
\* repeated ids, and _validate_evidence_plan an altered or unsigned bundle.
IssueEvidence(r) ==
  /\ At(r, "issue")
  /\ \/ UniqueIds(PlanOf(run[r])) /\ Go(r, "save_evidence")
     \/ Go(r, "raised")
  /\ UNCHANGED <<contexts, records, used, bounds>>

SaveEvidence(r) ==
  LET k == run[r] IN
  /\ At(r, "save_evidence")
  /\ Record(r, [run |-> r, kind |-> "EVIDENCE", attempt |-> k.attempt,
                status |-> k.status], "evaluate")

\* Mutant: evaluate issues the receipt and leaves it unconsumed.
EvaluateOnly(r) ==
  LET k == run[r] IN
  /\ At(r, "evaluate")
  /\ Decidable(k.cfg.criteria, PlanOf(k))
  /\ run' = [run EXCEPT ![r].verdict = Conclusion(PlanOf(k), k.status),
                        ![r].stage = "save_receipt"]
  /\ UNCHANGED <<contexts, records, used, bounds>>

\* kernel.evaluate: a plan that does not cover the criteria raises.
Evaluate(r) ==
  LET k == run[r]
      verdict == Conclusion(PlanOf(k), k.status)
  IN
  /\ At(r, "evaluate")
  /\ IF Decidable(k.cfg.criteria, PlanOf(k))
     THEN run' = [run EXCEPT
            ![r].verdict = verdict,
            ![r].stage = IF verdict = "VERIFIED" THEN "consume" ELSE "save_receipt"]
     ELSE Go(r, "raised")
  /\ UNCHANGED <<contexts, records, used, bounds>>

\* Still inside evaluate: the gate consumes the receipt and mints the artifact.
Consume(r) ==
  /\ At(r, "consume")
  /\ used' = used \cup {<<r, run[r].attempt>>}
  /\ Go(r, "save_receipt")
  /\ UNCHANGED <<contexts, records, bounds>>

\* Mutant: the artifact is returned without being stored.
SaveReceiptOnly(r) ==
  LET k == run[r] IN
  /\ At(r, "save_receipt")
  /\ Record(r, [run |-> r, kind |-> "RECEIPT", attempt |-> k.attempt,
                verdict |-> k.verdict], "finish")

SaveReceipt(r) ==
  LET k == run[r] IN
  /\ At(r, "save_receipt")
  /\ Record(r, [run |-> r, kind |-> "RECEIPT", attempt |-> k.attempt,
                verdict |-> k.verdict],
            IF k.verdict = "VERIFIED" THEN "save_artifact" ELSE "finish")

SaveArtifact(r) ==
  /\ At(r, "save_artifact")
  /\ Record(r, [run |-> r, kind |-> "ARTIFACT", attempt |-> run[r].attempt], "finish")

\* Mutant: an inconclusive check is repaired like a failed one.
FinishRetries(r) ==
  LET k == run[r] IN
  /\ At(r, "finish")
  /\ IF k.verdict \in {"REJECTED", "INCONCLUSIVE"} /\ k.attempt <= k.cfg.maxRepairs
     THEN run' = [run EXCEPT ![r].stage = "invoke",
                             ![r].parent = k.attempt,
                             ![r].attempt = k.attempt + 1]
     ELSE Go(r, "returned")
  /\ UNCHANGED <<contexts, records, used, bounds>>

\* Only a REJECTED verdict is repaired, max_repairs times at most; the next
\* attempt names this claim as its parent.
Finish(r) ==
  LET k == run[r] IN
  /\ At(r, "finish")
  /\ IF k.verdict = "REJECTED" /\ k.attempt <= k.cfg.maxRepairs
     THEN run' = [run EXCEPT ![r].stage = "invoke",
                             ![r].parent = k.attempt,
                             ![r].attempt = k.attempt + 1]
     ELSE Go(r, "returned")
  /\ UNCHANGED <<contexts, records, used, bounds>>

-----------------------------------------------------------------------------
(* Failures *)

Stored == {"save_context", "save_spec", "quarantine", "quarantine_critic",
           "save_evidence", "consume", "save_receipt", "save_artifact"}

\* Mutant: a failed store operation is swallowed and the attempt done again.
StoreFailsRetried(r) ==
  /\ run[r].stage \in Stored
  /\ faults < MaxFaults
  /\ faults' = faults + 1
  /\ Go(r, IF run[r].stage \in {"save_context", "save_spec"} THEN "raised" ELSE "invoke")
  /\ UNCHANGED <<contexts, records, used, crashes>>

\* The database is locked, full or gone: the operation commits nothing, raises,
\* and run() lets the exception out.
StoreFails(r) ==
  /\ run[r].stage \in Stored
  /\ faults < MaxFaults
  /\ faults' = faults + 1
  /\ Go(r, "raised")
  /\ UNCHANGED <<contexts, records, used, crashes>>

Ended == {"returned", "raised", "dead"}

\* The controller dies between two steps: its calls are gone, the file is not.
\* Calls that have not begun belong to the restarted controller.
Crash ==
  /\ crashes < MaxCrashes
  /\ crashes' = crashes + 1
  /\ run' = [r \in Runs |-> IF run[r].stage \in Ended \cup {"idle"} THEN run[r]
                            ELSE [run[r] EXCEPT !.stage = "dead"]]
  /\ UNCHANGED <<contexts, records, used, faults>>

Step(r) ==
  \/ SaveContext(r) \/ Authorize(r) \/ SaveSpec(r) \/ Invoke(r)
  \/ QuarantineClaim(r) \/ Challenge(r) \/ QuarantineCritic(r) \/ Select(r)
  \/ Collect(r) \/ IssueEvidence(r) \/ SaveEvidence(r) \/ Evaluate(r)
  \/ Consume(r) \/ SaveReceipt(r) \/ SaveArtifact(r) \/ Finish(r)

Next ==
  \/ \E r \in Runs : (\E cfg \in Configs : Start(r, cfg)) \/ Step(r) \/ StoreFails(r)
  \/ Crash

\* The run is inside a call of a component: the approval policy, an agent, a critic
\* or a verifier the action gate permits.  A callback (CallableAgentProvider), and a
\* Codex turn, have no timeout: such a call need not come back.
Waiting(r) ==
  \/ At(r, "authorize")
  \/ At(r, "invoke") /\ MayInvoke(run[r].cfg, "agent.invoke")
  \/ At(r, "challenge") /\ MayInvoke(run[r].cfg, "agent.challenge")
  \/ At(r, "collect") /\ \E o \in PlanOf(run[r]) : Observable(run[r].cfg, o)

\* The steps run() makes itself are made; a component owes no answer, no caller has
\* to start and no store to fail.
Fairness == \A r \in Runs : WF_vars(Step(r) /\ ~Waiting(r))

Spec == Init /\ [][Next]_vars /\ Fairness

-----------------------------------------------------------------------------
(* Properties *)

Stages == Stored \cup Ended \cup
  {"authorize", "invoke", "challenge", "select", "collect", "issue", "evaluate", "finish"}

TypeOK ==
  /\ contexts \subseteq Runs
  /\ used \subseteq Runs \X Nat
  /\ \A r \in Runs : At(r, "idle") \/
       /\ run[r].stage \in Stages
       /\ run[r].cfg \in Configs
       /\ run[r].attempt \in 1..(run[r].cfg.maxRepairs + 1)
       /\ run[r].parent \in 0..run[r].cfg.maxRepairs
       /\ run[r].plan \subseteq Obligations
       /\ run[r].verdict \in Verdicts \cup {"none"}
  /\ faults \in 0..MaxFaults /\ crashes \in 0..MaxCrashes

\* The ledger the runs write: every plan a run may verify, and the largest
\* attempt number any configuration allows.
RunPlans == {PlanFor(cfg, s) : cfg \in Configs, s \in SUBSET Ids(Obligations)}

LargestAttempt ==
  1 + (CHOOSE n \in {cfg.maxRepairs : cfg \in Configs} :
         \A cfg \in Configs : cfg.maxRepairs <= n)

Ledger == INSTANCE RunLedger WITH Plans <- RunPlans, MaxAttempts <- LargestAttempt

\* Whatever fails and wherever the controller dies, the table run_records of
\* every run is a chain in which each row is justified by the one before it
\* ("Persistence never upgrades a label", docs/architecture.md; "Only signed
\* REJECTED decisions enter the bounded loop", docs/invariants.md).
ImplementsLedger == Ledger!Spec

\* An artifact of a run stands for the whole controller-owned baseline and for
\* every authorized criterion: no critic and no repair dropped or replaced a
\* check, and a challenged run was challenged in this very attempt.
BaselineAlwaysChecked ==
  \A i \in 1..Len(records) : records[i].kind = "ARTIFACT" =>
    LET r == records[i].run
        cfg == run[r].cfg
    IN  \E j \in 1..i :
          /\ records[j].run = r
          /\ records[j].kind = "EVIDENCE"
          /\ records[j].attempt = records[i].attempt
          /\ cfg.baseline \subseteq DOMAIN records[j].status
          /\ CriteriaOf(DOMAIN records[j].status) = cfg.criteria
          /\ \A o \in DOMAIN records[j].status : records[j].status[o] = "PASSED"
          /\ cfg.critic => \E m \in 1..(j - 1) :
               /\ records[m].run = r /\ records[m].kind = "CLAIM"
               /\ records[m].producer = "critic"
               /\ records[m].attempt = records[j].attempt

\* A VERIFIED receipt on disk is already consumed: reading it back after a
\* crash and propagating it again can only be a replay.
RecordedIsSpent ==
  \A i \in 1..Len(records) :
    records[i].kind = "RECEIPT" /\ records[i].verdict = "VERIFIED" =>
      <<records[i].run, records[i].attempt>> \in used

\* A consumed receipt without its artifact on disk is the work of a store
\* failure or a crash, and its run is over: no later attempt of the run
\* spends a second receipt or delivers another artifact in its place.
LossIsConfined ==
  \A r \in Runs :
    /\ Cardinality({p \in used : p[1] = r}) <= 1
    /\ \A p \in used : p[1] = r =>
         \/ run[r].stage \in {"save_receipt", "save_artifact"} /\ run[r].attempt = p[2]
         \/ run[r].stage \in {"raised", "dead"}
         \/ \E i \in 1..Len(records) :
              records[i] = [run |-> r, kind |-> "ARTIFACT", attempt |-> p[2]]

\* The caller and the disk tell one story: a run that returned has its verdict
\* as its last receipt, followed by the artifact exactly when it is VERIFIED;
\* a REJECTED run used up its repairs.
ResultIsDurable ==
  \A r \in Runs : At(r, "returned") =>
    LET k == run[r]
        receipt == Ledger!ReceiptRow(r, k.attempt, k.verdict)
    IN  /\ \E i \in 1..Len(records) :
             /\ Ledger!Latest(i, r, Len(records))
             /\ IF k.verdict = "VERIFIED"
                THEN /\ records[i] = Ledger!ArtifactRow(r, k.attempt)
                     /\ \E j \in 1..(i - 1) :
                          Ledger!Latest(j, r, i - 1) /\ records[j] = receipt
                ELSE records[i] = receipt
        /\ k.verdict = "REJECTED" => k.attempt = k.cfg.maxRepairs + 1

\* Denied, unroutable or failing verification stops the run with ERROR: it is
\* neither approved nor "repaired" at the agent's expense.
DeniedVerifierStops ==
  \A i \in 1..Len(records) : records[i].kind = "RECEIPT" =>
    LET cfg == run[records[i].run].cfg IN
    (\E o \in cfg.baseline : ~Observable(cfg, o)) =>
       records[i].verdict = "ERROR" /\ records[i].attempt = 1

\* Only a component can keep a run from ending.  A run that began returns, raises or
\* dies with the controller, whatever its components answer, deny or raise and
\* however many attempts it takes, or it waits for ever inside one call of one.
RunEnds ==
  \A r \in Runs : ~At(r, "idle") ~> (run[r].stage \in Ended \/ []Waiting(r))
=============================================================================
