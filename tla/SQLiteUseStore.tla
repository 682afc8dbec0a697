--------------------------- MODULE SQLiteUseStore ---------------------------
(***************************************************************************)
(* SQLiteReceiptUseStore (persistence.py): the table receipt_uses of one   *)
(* database file, used by the threads of several controller processes.     *)
(* Each SQL statement of consume is a step.  SQLite itself (a library) is  *)
(* modelled by what consume relies on: BEGIN IMMEDIATE grants one writer   *)
(* at a time or gives up after the busy timeout, a statement may fail, a   *)
(* commit is atomic, and a dead process's transaction is rolled back.      *)
(***************************************************************************)
EXTENDS Naturals

CONSTANTS Threads, ReceiptIds, Digests, Unused,
  Processes,     \* controller processes that opened the same file
  ProcessOf,     \* thread -> its process
  NoThread,      \* the writer when no transaction is open
  MaxCalls,      \* bound: calls of consume in one behaviour
  MaxFaults      \* bound: failed statements plus crashes in one behaviour

ASSUME SQLiteConstants ==
  /\ Unused \notin Digests
  /\ NoThread \notin Threads
  /\ ProcessOf \in [Threads -> Processes]
  /\ MaxCalls \in Nat
  /\ MaxFaults \in Nat

VARIABLES
  receiptUses,  \* committed rows of receipt_uses: id -> digest, or Unused
  staged,       \* rows as the open transaction sees them
  writer,       \* thread whose transaction holds the write lock
  pc,           \* thread -> statement of consume it executes next
  request,      \* thread -> its receipt argument
  answer,       \* thread -> how its call ends, once known
  acceptedIds,  \* ids whose consume returned normally (what callers saw)
  calls, faults \* bounded by MaxCalls and MaxFaults

vars == <<receiptUses, staged, writer, pc, request, answer, acceptedIds, calls, faults>>

Receipt == [id : ReceiptIds, digest : Digests]

Init ==
  /\ receiptUses = [r \in ReceiptIds |-> Unused]
  /\ staged = receiptUses
  /\ writer = NoThread
  /\ pc = [t \in Threads |-> "idle"]
  /\ \E r \in Receipt : request = [t \in Threads |-> r]
  /\ answer = [t \in Threads |-> "error"]
  /\ acceptedIds = {}
  /\ calls = 0
  /\ faults = 0

GoTo(t, from, to) ==
  /\ pc[t] = from
  /\ pc' = [pc EXCEPT ![t] = to]

Call(t, r) ==
  /\ calls < MaxCalls
  /\ calls' = calls + 1
  /\ GoTo(t, "idle", "begin")
  /\ request' = [request EXCEPT ![t] = r]
  /\ UNCHANGED <<receiptUses, staged, writer, answer, acceptedIds, faults>>

\* Mutant: BEGIN instead of BEGIN IMMEDIATE takes no write lock.
BeginDeferred(t) ==
  /\ GoTo(t, "begin", "select")
  /\ writer' = t
  /\ staged' = receiptUses
  /\ UNCHANGED <<receiptUses, request, answer, acceptedIds, calls, faults>>

\* BEGIN IMMEDIATE: the write lock is free, the transaction sees what is committed.
BeginImmediate(t) ==
  /\ GoTo(t, "begin", "select")
  /\ writer = NoThread
  /\ writer' = t
  /\ staged' = receiptUses
  /\ UNCHANGED <<receiptUses, request, answer, acceptedIds, calls, faults>>

\* The write lock stayed taken for the whole busy timeout: OperationalError.
BusyTimeout(t) ==
  /\ GoTo(t, "begin", "rollback")
  /\ writer # NoThread
  /\ answer' = [answer EXCEPT ![t] = "error"]
  /\ UNCHANGED <<receiptUses, staged, writer, request, acceptedIds, calls, faults>>

\* SELECT receipt_digest: no row, or a row that raises one of two ReplayErrors.
Select(t) ==
  LET existing == staged[request[t].id] IN
  /\ \/ /\ existing = Unused
        /\ GoTo(t, "select", "insert")
        /\ UNCHANGED answer
     \/ /\ existing # Unused
        /\ GoTo(t, "select", "rollback")
        /\ answer' = [answer EXCEPT ![t] =
             IF existing = request[t].digest THEN "replay" ELSE "conflict"]
  /\ UNCHANGED <<receiptUses, staged, writer, request, acceptedIds, calls, faults>>

\* INSERT INTO receipt_uses, inside the transaction.
Insert(t) ==
  /\ GoTo(t, "insert", "commit")
  /\ staged' = [staged EXCEPT ![request[t].id] = request[t].digest]
  /\ UNCHANGED <<receiptUses, writer, request, answer, acceptedIds, calls, faults>>

Commit(t) ==
  /\ GoTo(t, "commit", "return")
  /\ receiptUses' = staged
  /\ writer' = NoThread
  /\ answer' = [answer EXCEPT ![t] = "accepted"]
  /\ UNCHANGED <<staged, request, acceptedIds, calls, faults>>

\* Any statement raises (disk full, I/O error, file gone): nothing is committed.
StatementFails(t) ==
  /\ faults < MaxFaults
  /\ faults' = faults + 1
  /\ pc[t] \in {"begin", "select", "insert", "commit"}
  /\ pc' = [pc EXCEPT ![t] = "rollback"]
  /\ answer' = [answer EXCEPT ![t] = "error"]
  /\ UNCHANGED <<receiptUses, staged, writer, request, acceptedIds, calls>>

\* except BaseException: connection.rollback(), a no-op without a transaction.
Rollback(t) ==
  /\ GoTo(t, "rollback", "return")
  /\ staged' = IF writer = t THEN receiptUses ELSE staged
  /\ writer' = IF writer = t THEN NoThread ELSE writer
  /\ UNCHANGED <<receiptUses, request, answer, acceptedIds, calls, faults>>

\* The connection is closed and the call returns or re-raises.
Return(t) ==
  /\ GoTo(t, "return", "idle")
  /\ acceptedIds' = acceptedIds \cup
       (IF answer[t] = "accepted" THEN {request[t].id} ELSE {})
  /\ UNCHANGED <<receiptUses, staged, writer, request, answer, calls, faults>>

\* A controller process dies between two statements; SQLite rolls back the
\* transaction it had open.  What it committed stays.
Crash(p) ==
  LET dead == {t \in Threads : ProcessOf[t] = p} IN
  /\ faults < MaxFaults
  /\ faults' = faults + 1
  /\ pc' = [t \in Threads |-> IF t \in dead THEN "idle" ELSE pc[t]]
  /\ staged' = IF writer \in dead THEN receiptUses ELSE staged
  /\ writer' = IF writer \in dead THEN NoThread ELSE writer
  /\ UNCHANGED <<receiptUses, request, answer, acceptedIds, calls>>

Step(t) ==
  \/ BeginImmediate(t) \/ BusyTimeout(t) \/ Select(t) \/ Insert(t)
  \/ Commit(t) \/ Rollback(t) \/ Return(t)

Next ==
  \/ \E t \in Threads, r \in Receipt : Call(t, r)
  \/ \E t \in Threads : Step(t) \/ StatementFails(t)
  \/ \E p \in Processes : Crash(p)

\* A thread inside consume keeps running; nothing makes a caller call, a
\* statement fail or a process die.
Fairness == \A t \in Threads : WF_vars(Step(t))

Spec == Init /\ [][Next]_vars /\ Fairness

-----------------------------------------------------------------------------
(* Properties *)

TypeOK ==
  /\ receiptUses \in [ReceiptIds -> Digests \cup {Unused}]
  /\ staged \in [ReceiptIds -> Digests \cup {Unused}]
  /\ writer \in Threads \cup {NoThread}
  /\ pc \in [Threads ->
       {"idle", "begin", "select", "insert", "commit", "rollback", "return"}]
  /\ request \in [Threads -> Receipt]
  /\ answer \in [Threads -> {"accepted", "replay", "conflict", "error"}]
  /\ acceptedIds \subseteq ReceiptIds
  /\ calls \in 0..MaxCalls
  /\ faults \in 0..MaxFaults

\* A call takes effect when its transaction commits, or at the SELECT that
\* found a row; until then the store's callers see it pending.
PhaseOf(p) ==
  IF p = "idle" THEN "idle"
  ELSE IF p \in {"rollback", "return"} THEN "answered" ELSE "pending"

Abstract == INSTANCE ReceiptUse WITH
  used  <- receiptUses,
  phase <- [t \in Threads |-> PhaseOf(pc[t])]

\* The transactional table is an atomic single-use registry, shared by several
\* processes and across their crashes ("Persist single-use receipt consumption
\* across controller restarts").
ImplementsReceiptUse == Abstract!Spec

\* No receipt id is accepted for two calls, of any process, before or after a crash.
SingleUse == Abstract!SingleUse
=============================================================================
