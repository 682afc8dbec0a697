# Verification of verification-harness

TLA+ models of the trust-bearing parts of `src/verification_harness`, model-checked
with TLC on small instances and, for the properties that matter most, proved with
TLAPS for every instance. Paths below are relative to that package unless they start
with `docs/`.

## 1. The system

The harness lets untrusted agents produce *claims* and decides, from independently
collected *evidence*, whether a claim may leave the controller as an *artifact*.

| part | state it keeps | operations | talks to |
| --- | --- | --- | --- |
| protocol values (`protocol.py`, `schema.py`) | none: frozen values with digests | constructors, digests | everything |
| decision policy (`decision.py`) | none | `decide` | kernel, gate |
| authorities (`authority.py`) | HMAC keys | `authorize`, `issue`, `verify` | kernel, gate, runtime |
| kernel (`kernel.py`) | none of its own | `open_run`, `authorize`, `evaluate` | authorities, policy, gate, audit sink |
| trust gate (`gate.py`) | none of its own | `propagate`, `validate_decision_receipt` | authorities, policy, use store, audit sink |
| receipt-use stores (`gate.py`, `persistence.py`) | a dictionary behind a lock; the table `receipt_uses` | `consume` | gate, SQLite |
| audit sink (`audit.py`) | a hash-chained list behind a lock | `append`, `snapshot`, `verify_chain` | kernel, gate, engine |
| run store (`persistence.py`) | tables `runs` and `run_records` | `save_*`, `quarantine_claim`, `records` | runtime, scheduler |
| runtime (`runtime.py`) | local variables of one `run` | `run` | all of the above |
| challenge scheduler and policy (`challenges.py`) | none | `schedule`, `authorize` | action gate, run store |
| action gate (`actions.py`) | none | `execute` | policy, approval resolver |
| verifier registry (`verifiers.py`) | routes, fixed at construction | `collect` | action gate, plugins |
| providers (`providers.py`, `codex_provider.py`, `opencode_provider.py`) | child processes, SDK clients | `invoke` | external agents |
| legacy engine (`engine.py`, `python_adapter.py`, `boundary.py`, `policy.py`) | `state`, `audit_trail`, task snapshots | `run` | legacy agents, kernel |
| Python verifier (`agents/verifier.py`) | a child process per test | `verify` | operating system |

How they interact: `VerificationRuntime.run` opens a run, stores its context and the
authorized spec, and then per attempt invokes the worker behind the action gate,
stores the output as a quarantined claim, lets the critic choose extra checks, has the
registry observe every obligation, has the evidence authority sign, stores the bundle,
and calls `kernel.evaluate`. That audits the claim, asks the policy, signs a receipt
and, for VERIFIED, calls `TrustGate.propagate`, which validates everything again,
consumes the receipt in the use store, and mints the artifact. The runtime then stores
receipt and artifact. Only REJECTED leads to another attempt.

What is hard here:

* several threads, and several processes on one SQLite file, consume receipts;
* the controller may die or a store operation fail between any two of the steps above,
  and the steps are not one transaction (the receipt is consumed before it is stored);
* the gate changes two shared objects behind two locks, and an interrupt may strike
  between any two statements of either;
* records are looked up in autocommit mode and inserted afterwards, by writers that share
  the file's one write lock with the consumers of receipts;
* child processes (candidates, command verifiers, agent commands) answer late, partly, too
  much, for somebody else, or never, while a timeout runs;
* agents, plugins, resolvers and stores raise or answer nonsense at any call;
* callers may combine authentic values of different runs, specs, claims and receipts;
* the loops (repair, mapping of criteria) have boundaries at zero, one and the maximum.

What makes each part correct:

* *policy*: VERIFIED only if each criterion is traced to a passed obligation; the trace
  is exact; anything malformed is refused.
* *use stores*: an atomic single-use registry; a recorded use is permanent and every
  call, replay and error included, gives lock or transaction back.
* *kernel and gate*: an artifact is earned, there is at most one per receipt, a receipt is
  lost to failures only and never to a call the gate refuses, and the audit trail has every
  release after its decision.
* *audit sink*: whoever reads it finds an intact chain that grows at its end, and an
  alteration shows.
* *run store*: what was reported saved is on disk once and stays; a read is a beginning of
  the run's history, with the payloads that were saved.
* *registry, action gate, Python verifier*: PASSED and FAILED are earned by a granted run of
  this very obligation; everything else is ERROR (in the 0.1.x verifier: FAILED); no child
  outlives its check. A candidate can forge the 0.1.x verifier's answers, but only its own and
  only for the test case it is run on.
* *providers*: an answer is the whole of what the agent said in a run that ended well.
* *runtime and run store*: the records of a run are a chain in which each row is
  justified by the one before; what a caller gets is what is on disk; a loss is confined
  to the run that failed; the run ends unless a component keeps it.
* *legacy engine*: approvals are verified, repairs are informed by authentic receipts,
  a run has one ending on record, and no component failure escapes.

## 2. Modules

| module | models | kind |
| --- | --- | --- |
| `Decision` | statuses, verdicts, precedence, coverage (`decision.py`) | operators |
| `DecisionPolicy` | the loop of `DecisionPolicy.decide` | machine, checked against `Decision` |
| `ReceiptUse` | what `ReceiptUseStore.consume` promises | abstract specification |
| `MemoryUseStore` | `InMemoryReceiptUseStore` statement by statement | implements `ReceiptUse` |
| `SQLiteUseStore` | `SQLiteReceiptUseStore` statement by statement | implements `ReceiptUse` |
| `AuditChain` | `InMemoryAuditSink` statement by statement | actions, driven by `GateEffects` |
| `GateEffects` | `TrustGate.propagate` over `MemoryUseStore` and `AuditChain` | composition, implements `ReceiptUse` |
| `RunStore` | `SQLiteRunStore`: `save_*`, `records`, `load_context` | actions, driven by `DatabaseFile` |
| `DatabaseFile` | `SQLiteUseStore` and `RunStore` on one file | composition, implements `ReceiptUse` |
| `TrustKernel` | kernel, gate, authorities, audit order, restarts | composition over a registry |
| `RunLedger` | what the rows of `run_records` promise | abstract specification |
| `Runtime` | `VerificationRuntime.run`, scheduler, registry, action gate, run store | implements `RunLedger` |
| `ChildProcess` | what the harness relies on of `subprocess.run` | external, extended by the next two |
| `VerifierRegistry` | `VerifierRegistry.collect`, `ActionGate.execute`, `CommandVerifierPlugin` | machine with foreign policies, plugins and a child |
| `AgentProviders` | the four providers and their runners | machine with a child or an SDK turn |
| `PythonVerifier` | `VerifierAgent.verify` and the runner in its child | machine with a child |
| `PythonEngine` | `TrustGateEngine.run`, boundary, challenge policy, bridge | machine, on top of `Decision` |
| `MC*` | values for TLC | instances |
| `*Proofs` | theorems | TLAPS |

Correspondence of state and actions.

*Decision, DecisionPolicy.* `criteria`, `obligations` and `observations` are the
arguments, `mapped` is the dictionary of that name, `next` the loop index. `CheckIds`,
`MapObligation`, `CheckCoverage` and `Conclude` are the four stretches of `decide`; each
`ValueError` is the outcome "refused". Type checks that raise `TypeError` are left out:
the inputs are well typed. An obligation is its id and its criteria.

*ReceiptUse.* A call is pending until it takes effect at one point, or fails, and then
returns. `used` maps an id to the digest it was consumed with.

*MemoryUseStore.* `consumed` is `_consumed`, `lock` is `_lock`. One action per statement
of `consume`; `Release` is the exit of the `with` block on every path, `Interrupt` a
`KeyboardInterrupt` between two statements. The refinement maps the dictionary write (or the
read that found an entry) to the point of effect, and an interrupt to a call that never
returns.

*AuditChain, GateEffects.* `events` is `_events`, `sinkLock` is the sink's `_lock`, `draft`
the event a thread is building, `view` its last snapshot. A digest is the value it digests,
so an event carries its predecessors. `stage` says where a thread is in `propagate`: in
`consume`, in the one `append` of the call, or reading the chain. `Refuse` is a validation
or verdict check that raises; `BuildFails` an event the constructor refuses; `Strike` an
interrupt, which skips the audit as the code does. Snapshots of a single context are left
out: `verify_chain` reads the whole list.

*SQLiteUseStore.* `receiptUses` is the committed table (its `PRIMARY KEY`, a second guard
behind the transaction, is left out: the properties hold without it), `staged` the table as
the open transaction sees it, `writer` the holder of SQLite's write lock. SQLite is external:
it grants `BEGIN IMMEDIATE` to one writer or times out, commits atomically, and rolls back for
a dead process. `StatementFails` is any statement raising; `Crash` a process dying.

*RunStore, DatabaseFile.* `rows` holds both tables in the order of insertion. `Look` is the
SELECT of `_append` or the INSERT of `save_context`, `InsertRow` the INSERT under the write
lock with its UNIQUE and FOREIGN KEY constraints, `CommitRow` the end of `with connection`,
`RollbackRow` the same after an exception. `Read` is `records` and `load_context`: a row whose
payload does not match its digest makes it raise (`Intact`). `EditPayload` changes the payload
of a row on disk and leaves its digest, `EditLabel` its trust label. The digest is the
payload's alone, so an edited label is handed out as it stands, and `ReadsAgree` speaks of
run, subject and payload only; `Look` does compare labels. Edits of keys, of the digest
column, and those that recompute the digest are not modelled. Two racing saves of identical
contents may end with one of them raising `IntegrityError` although nothing is lost: the
second SELECT saw no row. The models allow it, and `SavedIsDurable` speaks of saves that
returned.

*TrustKernel.* A digest is the value it digests and a signature is membership in the set
of signed values (`authorized`, `signed`, `issued`). `evaluate` is split at its effects:
`Evaluate` (all guards), `Quarantine` (first audit event), `Decide` (policy, receipt,
validation), `RecordDecision`, then `Withhold` or the gate: `Consume`/`GateRaises`/
`ConsumeFails`, `AuditBlocked` or `Announce`, and `Return`. `Interrupted` ends a call at any
of these, with what it has done: an interrupt, an audit sink that refuses the event, a blank
message. After `Consume`, or a `ConsumeFails` whose write went through, that leaves a receipt
spent and no artifact, as `gate.py:147-186` does. `Propagate` is a direct call
of the gate with any receipt a caller can hold, including one whose verdict was altered
after signing. `used` is the registry that `ReceiptUse` describes, taken as atomic because
both stores implement it. `Restart` ends all calls and empties the process-local audit
sink; the use store survives (with the in-memory store `docs/architecture.md` promises
single use within one process only, which is `MaxRestarts = 0`). A call that raises before
its first effect changes nothing and is no step.

*RunLedger.* `MayFollow` is a grammar: which row may come next in a run whose latest row
is known. The trust label is a function of the row's kind, so a row that appears without
its justification is exactly an upgraded label.

*Runtime.* `run[r]` holds the local variables of one call and the stage it is at. Each
store operation is its own step, since a crash between two of them is observable; local
computation between two store operations is one step. Uuids are fresh, so the claim,
evidence and receipt of attempt *n* of run *r* are named by the pair. `Preflight` is
everything `run` demands before `open_run`. `InvokeAgent` lets an agent answer only if
the action gate can permit the operation, and lets it raise always. `Waiting` says that a
run is inside a call of a component, which need not come back. `Collect` picks any
status per obligation and forces ERROR where no plugin can run. `StoreFails` and `Crash`
may strike at any store operation and at any step. The kernel appears as `Evaluate` and
`Consume`: its own checks are the subject of `TrustKernel`.

*ChildProcess.* A child prints words on two pipes, exits with a code, may leave the pipes
open to a descendant (`held`), and can be killed. `subprocess.run` returns when the child
has exited and the pipes are closed, and kills the child on a timeout or when an exception
passes through. One word beyond the limit stands for any excess.

*VerifierRegistry.* `observations` is the tuple `collect` builds, `asked` what policy and
resolver said, `runs` the plugin calls; the last two are history. `Ask` and `Resolve` are
`ActionGate.execute` with every answer, exception and nonsense; `Observe` is a foreign
plugin, which may speak of another obligation; `StartCommand`, `Judge`, `TimesOut` and
`CannotRun` are `CommandVerifierPlugin`. A plugin answers PASSED, FAILED, ERROR or
INCONCLUSIVE. A plan has obligations of several kinds with valid
and malformed payloads, in any order and with repeated ids. `plugin_id`s may repeat, as the
code permits.

*AgentProviders.* `provider` says which of the four is invoked. `Run`, `InvokeTimesOut`,
`CannotInvoke` and `Returns` are the two that run a command. `ReadLine` is one round of the
loop in `_final_text` over the OpenCode events, with `read` its local variables, and
`ReturnText` what follows the loop; nothing else happens meanwhile, since the process has
ended. `StartTurn`, `TurnRaises`, `TurnEnds` and `JudgeTurn` are the
Codex runner and provider around an SDK session. A text is a tuple of pieces, and one
text parses as an `AgentOutput`. `str.splitlines` also splits at U+0085, U+2028 and U+2029,
so an event that mentions one of them is a broken line and the run is refused although the
stream is valid newline-delimited JSON; the model has such lines as "broken".

*PythonVerifier.* `evidence` is what `verify` has collected, `case` the test case under
execution, `child` its process, `runs` all children (history). The child decodes and runs
the candidate, which may return, raise, exit or hang, and which writes what it likes
(`OwnWords`) to the pipe the runner answers on: noise, white space, and well-formed answers
with any output. A word in the pipe has an author, the runner or the candidate, which the
parent cannot see and the properties can; `Says` is what the parent concludes from exit code,
size and `json.loads`, which ignores white space. `Judge` compares it as
`_verify_test_execution` does. Forbidden text and the
required entry point are decided by flags of the candidate. `TemporaryDirectory` clean-up
and temporary files that cannot be written are exceptions that leave `verify` (`Escapes`), and
so are bytes that are no text and documents that `json.loads` gives up on without a
`JSONDecodeError`.

*PythonEngine.* One action per stage of `TrustGateEngine.run` between two calls of a component
or of the kernel. A component may answer anything or raise: `Fails` is a raise under the
component boundary alone, a plain `Reject` one that a second handler surrounds, `Escape` an
exception that leaves `run`. `ErrorKinds` tells an error whose message can be normalized from
a blank one. A rejection takes three steps, since each can be the last: `GiveUp` sets the
state, `Record` appends `RUN_REJECTED`, `Report` prints and returns. `PrintFails` is
`log_state`'s print raising outside every handler, as it does for a component's message the
terminal cannot encode (`engine.py:257`): `run` then raises with the rejection on record. The
one print inside a handler (`engine.py:486`) is the alternative of `Propagate` that rejects
without an event. `Unwrappable` are the claims that pass `_validate_claim` and are refused by
`ClaimEnvelope`. A legacy receipt is what it is about, what passed, and two flags (complete,
final and of this spec and protocol; signed). The signature check asks the verifier again and
may fail the second time. `claim_id`, digests and the text of log lines are left out, and the audit sink
takes every event. The model covers one run: two threads sharing one engine object would also
share `state` and `audit_trail`, and nothing in the repository calls it so.

## 3. Runs

| run | question | bounds |
| --- | --- | --- |
| `decision_policy` | does the loop compute the declarative verdict, is VERIFIED earned, are traces exact? | 2 criteria, 2 obligation ids, tuples of length <= 2: repeated ids, shifted observations, uncovered and unknown criteria, doubly covered criteria all occur |
| `gate_effects` | do the registry and the chain keep their promises inside the gate, also under interrupts, and does every call end? | 2 threads, 1 id, 2 contents, 3 calls, 1 interrupt, 1 reader: two racers and a replay, with a reader and an interrupt anywhere |
| `database_file` | are consumption and records right on one file, across processes, failures, crashes and an edited payload or label, and does the write lock come back? | 2 processes of 1 thread, 1 receipt, 2 consumptions, 3 saves (a context and a record with 2 payloads), 1 read, 1 fault: a failing statement, a crash or an edit of a payload or label |
| `trust_kernel_binding` | can mixed-up authentic values release anything? | 2 runs, 2 specs (one unapproved), 2 claims, 5 bundles in all combinations, 2 calls: evaluate then propagate |
| `trust_kernel_race` | one artifact per receipt, losses accounted for, audit complete and ordered, also across a restart? | 2 threads, 2 runs, 3 bundles, 2 receipt ids, 3 calls, 1 failure or interrupt, 1 restart |
| `runtime` | does a run under every kind of configuration implement the ledger, stay consistent with its caller, its receipts and another run, and end unless a component keeps it? | 17 configurations with up to 2 repairs, 1 store failure, 1 crash; 2 runs on one file at once or in turn |
| `verifier_registry` | is evidence earned, and by granted runs only? | plans of <= 2 obligations over 2 ids and 3 kinds, 5 plugin tuples (empty, empty kinds, overlapping kinds, partial), limit of 1 word |
| `agent_providers` | is an answer the whole answer, does an invocation end? | outputs of up to 5 lines (limit 4), 3 events at most, a text in 2 pieces |
| `python_verifier` | are passes and failures those of the right child, does `verify` end? | plans of <= 2 obligations over 2 ids and 4 kinds, 2 test cases with different answers, 1 word of the candidate's own in an empty pipe, forged answers with every value |
| `python_engine` | are approvals, repairs, rejections and endings of the 0.1.x engine sound? | 2 repairs, 3 specs, 2 codes, 3 obligations, all kinds of error and claim |
| `python_engine_blank`, `python_engine_claim` | does a component failure escape with blank messages, or with claims that cannot be wrapped? (expected violations, below) | 1 repair |

Why the bounds are enough. The stores and the sink treat ids and threads alike, so two
racers and one latecomer on one id show every order of their statements; a second id adds
none. `database_file` has one content per receipt, so there the answer `conflict` does not
occur: it does in `gate_effects`, and the refinement proof covers it for SQLite. Two test
cases and two obligations show an outcome carried over from one to the next; a candidate that
writes several words, or one behind the runner's answer, is covered by the proofs. An OpenCode
limit of 3 events with 4 lines reaches and exceeds it, with blank lines or without. Two
repairs suffice because an iteration differs from the next one only in having a parent:
attempts 1, 2 and 3 are a claim without parent, one whose parent has none, and the last.

`trust_kernel_race` starts from `Prepared`, a state `Spec` reaches (both runs open, the
approved spec and all evidence signed); `trust_kernel_binding` starts from `Init` and covers
the authorities. `MCRuntime.SharedOrAlone` lets a second run share the file only if neither
run has a repair, or if nothing fails and one of them has; every other configuration has the
file to itself. The runs differ in name only, so one of them is fixed as the first to begin.

Deadlock checking is off where calls are bounded or runs are over for good.

Fairness. `GateSpec` and `FileSpec` assume that a thread inside a call keeps running (`WF`
per thread and step); nothing makes callers call, statements fail, interrupts strike or
processes die. The write lock comes back under this
because every wait for it has the busy timeout. `Runtime` assumes it only of the steps `run`
makes itself: a run that is `Waiting` inside a call of a component is owed no answer, because a
callback (`providers.py:127-142`) and a Codex turn (`codex_provider.py:139`) have no timeout. So
`RunEnds` says that a run ends or waits for ever inside one such call: no repair loop, denied
action or failing store keeps it. For commands more is true: `InvokeEnds` and `VerifyEnds` show
that they come back whatever the child does. There only the parent's steps are fair, with the
timeout among them, and a child owes nothing; of a Codex turn `InvokeEnds` claims no end.
No model assumes strong fairness.

Divergences. `CHANGELOG.md` (0.1.1) says that component failures "produce a controlled
`REJECTED` result instead of escaping the engine". Two escape: an exception of planner,
worker or spec authority whose message is only white space, because `ComponentFailure`
refuses to be built inside the handler (`boundary.py:48`, `schema.py:83`; run
`python_engine_blank`), and a claim whose attempt equals the expected one without being an
`int`, such as `1.0`, because `claim_to_envelope` runs outside every handler
(`engine.py:347`; run `python_engine_claim`). Neither releases an artifact;
`run` raises and the audit trail has no `RUN_REJECTED`. `ContainedHolds` proves that
there is no third way, apart from interrupts and from prints of `log_state` that fail.

## 4. Proofs

* `DecisionPolicyProofs`: `VerifiedIsEarnedHolds` for plans of any length, by the
  invariant that `mapped` lists only obligations already read and that each listed id is
  the id of an obligation naming that criterion; `TracesExactHolds`, by the stronger
  `TracedSoFar`: the trace of a criterion holds exactly the obligations read so far that name
  it, in their order. `DecidesAsExpectedHolds` follows from it: the coverage check of the loop
  then is `Decidable`, and its statuses are those of the whole plan.
  `AddedChecksNeverUpgrade` is a fact about `Conclusion` alone.
* `ReceiptUseProofs`: `SingleUseHolds`, `AcceptedIsRecordedHolds`, `UseIsPermanentHolds`.
  The strengthening says that what any call holds or returned is recorded, and that two
  holders of one id are one thread.
* `GateEffectsProofs`: `Refinement`, that the in-memory registry implements `ReceiptUse`
  inside the gate, by the invariant that a thread between its read and its write holds the
  lock and its entry is still missing; and `PropagatedIsConsumedHolds`, by the invariant that
  every event on the chain or on its way there is settled, which stays so because no step
  erases an entry. `ChainVerifiesHolds` needs that a thread inside the sink holds its lock, so
  that the event it drafted still fits the end of the chain (`ChainSound`);
  `AlterationShowsHolds` follows because an event carries its predecessor's digest. For
  `ReleaseIsOnRecordHolds` the invariant is that a thread is in the registry or in the sink
  and never in both (`OneTask`), that of all threads and events at most one has the claim to a
  receipt id's propagation (`OneClaim`: the registry refuses the second), and that who
  delivers has its event in the list (`OnRecord`).
* `DatabaseFileProofs`: `Refinement`, that the transaction of `SQLiteReceiptUseStore`
  implements `ReceiptUse`. The invariant needed: a thread past `BEGIN` is the writer, the
  staged table equals the committed one until its `INSERT`, and a thread that found no row
  still has none, since nobody else writes meanwhile. `FileRefinement` proves the same when
  savers compete for the write lock: their steps leave registry and transaction alone.
  `SingleUseHolds` and `FileSingleUseHolds` follow from the abstract specification's.
  `SavedIsDurableHolds` rests on `RowsSound` (keys are unique, every record has its run's
  context) and `SaversSound` (what a saver looked up or inserted is still so, because rows
  are only added, and it alone holds the lock while it inserts). `ReadsAgreeHolds` needs that
  a row once selected keeps its position, and that an edit changes neither key nor digest, so
  that whoever reads an intact row reads the payload it was saved with.
* `RuntimeProofs`: `ArtifactRestsHolds`, `ArtifactIsFinalHolds`, `OneChainPerAttemptHolds` of
  any ledger: the rows of a run come in the order of their attempts and stages (`Ordered`),
  every row has the rows it rests on before it (`Chained`). `Refinement` proves that every
  step of `Runtime` appends what the ledger allows or leaves it alone, so the three
  promises hold of the runtime's rows (`LedgerPromisesHold`). Its invariant `RunInv` is also
  that of `TypeCorrect`, `RecordedIsSpentHolds`, `DeniedVerifierStopsHolds`,
  `BaselineAlwaysCheckedHolds`, `LossIsConfinedHolds` and `ResultIsDurableHolds`: what a call
  knows at each stage (`Known`), which rows of it are in the file and which is the latest
  (`OnRecord`), which receipt it consumed (`Spent`), what evidence, receipts and artifacts in
  the file say about their configuration (`RowKnown`), and at most one use per run
  (`OneUse`).
* `ChildProcessProofs`, the registry: `EvidenceIsEarnedHolds`, `NothingRunsUngrantedHolds`.
  The invariant says what is known at each stage of `collect` (`AtStage`) and that the calls
  come in the order of the obligations (`CallsInOrder`); tuples of arbitrary elements need
  lemmas of their own.
* `ChildProcessProofs`, the providers: `AnswerIsWholeHolds`, for a stream of any length. The
  invariant `ReadSoFar` says of the lines before the next one that they are counted, that none
  is a failure and that their texts make the chunks. That a document which is *not* returned
  was not what the agent said needs more: one set of lines makes one text only. This is
  `SameNumbers`, that a set of natural numbers is numbered in increasing order in one way, and
  it is an induction; `Least`, from the library's well-founded relation on the natural
  numbers, serves in its place: the first place where two numberings differ does not exist.
* `TrustKernelProofs`: `ArtifactEarnedHolds`, `OneArtifactPerReceiptHolds`, `TypeCorrect`.
  An artifact is released several steps after its receipt was checked and consumed, so
  neither property is inductive. The invariant says what each thread knows of its call by
  where it is (`CallKnows`), that a carried artifact's receipt is recorded as used, carried
  by no other thread and in no released artifact (`CarriedOnce`), that receipts in `issued`
  have distinct ids, and that a released artifact is still valid (`ReleasedSound`): the
  signed sets only grow. For `LossIsAccountedHolds` every step is asked which
  ids it adds to `Lost`: a failure or interrupt at most the one its call was about to deliver,
  a restart at most one of each thread that was past the gate (a finite set no larger than that
  of the threads), every other step none. What is used is VERIFIED (`UsedVerified`), so that no
  consumed receipt takes the branch that withholds.
  `AuditInOrderHolds` and `ReleaseIsAuditedHolds` share `TrailInv`: a thread that will decide
  has its quarantine on record, one that will propagate has its decision there, and a
  receipt is announced exactly once its carrier is past `announce`.
* `PythonEngineProofs`, the engine: `TypeCorrect`, `ApprovedIsVerifiedHolds`,
  `OneEndingHolds`, `RepairIsInformedHolds`, `EndUnreachable`, `ContainedHolds`. What is
  returned was established stages earlier, so the invariant says what is known at each stage:
  the contract (`SpecKnown`), the receipt and the verdict (`ReceiptKnown`), the last event
  (`TrailKnown`), and that the loop counter and the attempt agree (`RoundIsAttempt`), which
  bounds the attempts and makes the end of `run` unreachable. Two lemmas, on rejecting and
  on escaping, serve every stage. `ContainedHolds` assumes that messages are not blank and
  that claims which pass validation can be wrapped. `OneEndingHolds` needs what is known between
  the state, the event and the return of a rejection. `AttemptsInOrderHolds` and
  `RejectionIsEarnedHolds` need `LineKnown`: from which stage on the claim is the last one
  quarantined, that the worker's parent is the one before, and that every earlier attempt
  was quarantined and blocked.
* `PythonEngineProofs`, the verifier the engine calls: `PassIsEarnedHolds` and
  `FailureIsOwnHolds`. `CasesKnown` says that while an obligation is tested its children are
  the last ones there were, one for each case so far and all right; `Truthful`, that the
  runner's answer in a child's pipe is what the candidate computed, and that there is one as
  soon as it has computed something, whatever else is written. A single answer is then the
  runner's, and computed, or the candidate's own, and forged; and a child that is neither right
  nor wrong does not exist.

Assumptions are the named ASSUMEs on constants, evaluated by TLC in the runs; `ReceiptUse`
and `RunLedger` state theirs in the theorems (`Unused` is no digest, the number of attempts
is a natural number). `VerifierConstants` says that a spec has a test case (`schema.py:117`)
and that "nothing", which stands for no value, is neither computed nor expected;
`ProviderConstants` that a text without pieces is no document and that `max_events` is
positive; `SavedItems` that what is saved is well formed; `RuntimeConstants` among others that some
configuration has the most repairs.

Properties are stated so that they can be proved: rows by their position (`ReadsAgree`),
quarantined claims and children by their index (`AttemptsInOrder`, `RejectionIsEarned`,
`PassIsEarned`, `FailureIsOwn`), lines by a function that numbers them (`AnswerIsWhole`), since the provers
cannot look into `SelectSeq`.

Only model-checked: all liveness (`EveryCallEnds`, `LockReleases`, `RunEnds`, `InvokeEnds`,
`VerifyEnds`), which is beyond TLAPS. `ComponentFailureContained` is false, as its two runs show.

## 5. Plan

Done: every component of section 1 has its module, and every safety property its proof. What
is left:

1. The detached copies and JSON forms of `AgentRequest` and of the protocol values, as far as
   they can be told apart from the identity.

## 6. Not modelled

Argument parsing and printing (`runtime_cli.py`, `main.py`, `demo_task.py`), the
deterministic demonstration agents, canonical JSON and detachment, MAC computation and key
handling, the texts of prompts, permission profiles and Codex configuration, and the
third-party agent CLIs, whose behaviour is unconstrained. The last event of an audit chain
has no successor to testify for it, so `AlterationShows` speaks of the events before it; the
code claims no more. Memory use is not modelled: output limits are compared after the child's
output has been buffered, so they bound what is parsed and not what is held.
