--------------------------- MODULE MemoryUseStore ---------------------------
(***************************************************************************)
(* InMemoryReceiptUseStore (gate.py): a dictionary of consumed receipts    *)
(* behind one threading.Lock, called by the threads of one controller.     *)
(* Each statement of consume is a step; the `with` block releases the lock *)
(* on every way out, an interrupt included.  The dictionary is lost with   *)
(* the process, so this module has no crash.                               *)
(***************************************************************************)
EXTENDS Naturals

CONSTANTS Threads, ReceiptIds, Digests, Unused,
  NoThread,     \* the holder of a free lock
  MaxCalls,     \* bound: calls of consume in one behaviour
  MaxInterrupts \* bound: interrupts in one behaviour

ASSUME StoreConstants ==
  /\ Unused \notin Digests
  /\ NoThread \notin Threads
  /\ MaxCalls \in Nat
  /\ MaxInterrupts \in Nat

VARIABLES
  consumed,     \* _consumed
  lock,         \* holder of _lock
  pc,           \* thread -> statement of consume it executes next
  request,      \* thread -> its receipt argument
  answer,       \* thread -> how its call ends, once known
  acceptedIds,  \* ids whose consume returned normally (what callers saw)
  calls,        \* calls started (bounded by MaxCalls)
  interrupts    \* interrupts raised (bounded by MaxInterrupts)

vars == <<consumed, lock, pc, request, answer, acceptedIds, calls, interrupts>>

Receipt == [id : ReceiptIds, digest : Digests]

Init ==
  /\ consumed = [r \in ReceiptIds |-> Unused]
  /\ lock = NoThread
  /\ pc = [t \in Threads |-> "idle"]
  /\ \E r \in Receipt : request = [t \in Threads |-> r]
  /\ answer = [t \in Threads |-> "error"]
  /\ acceptedIds = {}
  /\ calls = 0
  /\ interrupts = 0

GoTo(t, from, to) ==
  /\ pc[t] = from
  /\ pc' = [pc EXCEPT ![t] = to]

Call(t, r) ==
  /\ calls < MaxCalls
  /\ calls' = calls + 1
  /\ GoTo(t, "idle", "acquire")
  /\ request' = [request EXCEPT ![t] = r]
  /\ UNCHANGED <<consumed, lock, answer, acceptedIds, interrupts>>

\* Mutant: consume without the lock.
AcquireFree(t) ==
  /\ GoTo(t, "acquire", "get")
  /\ lock' = t
  /\ UNCHANGED <<consumed, request, answer, acceptedIds, calls, interrupts>>

\* with self._lock:
Acquire(t) ==
  /\ GoTo(t, "acquire", "get")
  /\ lock = NoThread
  /\ lock' = t
  /\ UNCHANGED <<consumed, request, answer, acceptedIds, calls, interrupts>>

\* existing = self._consumed.get(...); an entry raises one of two ReplayErrors.
GetExisting(t) ==
  LET existing == consumed[request[t].id] IN
  /\ \/ /\ existing = Unused
        /\ GoTo(t, "get", "store")
        /\ UNCHANGED answer
     \/ /\ existing # Unused
        /\ GoTo(t, "get", "release")
        /\ answer' = [answer EXCEPT ![t] =
             IF existing = request[t].digest THEN "replay" ELSE "conflict"]
  /\ UNCHANGED <<consumed, lock, request, acceptedIds, calls, interrupts>>

\* self._consumed[receipt.receipt_id] = receipt.digest
Store(t) ==
  /\ GoTo(t, "store", "release")
  /\ consumed' = [consumed EXCEPT ![request[t].id] = request[t].digest]
  /\ answer' = [answer EXCEPT ![t] = "accepted"]
  /\ UNCHANGED <<lock, request, acceptedIds, calls, interrupts>>

\* Leaving the with block, by return or by raise.
Release(t) ==
  /\ GoTo(t, "release", "return")
  /\ lock' = NoThread
  /\ UNCHANGED <<consumed, request, answer, acceptedIds, calls, interrupts>>

Return(t) ==
  /\ GoTo(t, "return", "idle")
  /\ acceptedIds' = acceptedIds \cup
       (IF answer[t] = "accepted" THEN {request[t].id} ELSE {})
  /\ UNCHANGED <<consumed, lock, request, answer, calls, interrupts>>

InterruptBudget ==
  /\ interrupts < MaxInterrupts
  /\ interrupts' = interrupts + 1

\* KeyboardInterrupt between two statements: the with block gives the lock back
\* and consume raises, whether or not the entry has been written.
Interrupt(t) ==
  /\ InterruptBudget
  /\ pc[t] # "idle"
  /\ pc' = [pc EXCEPT ![t] = "idle"]
  /\ lock' = IF lock = t THEN NoThread ELSE lock
  /\ UNCHANGED <<consumed, request, answer, acceptedIds, calls>>

Step(t) ==
  Acquire(t) \/ GetExisting(t) \/ Store(t) \/ Release(t) \/ Return(t)

Next == \E t \in Threads : (\E r \in Receipt : Call(t, r)) \/ Step(t) \/ Interrupt(t)

\* A thread inside consume keeps running; nothing makes a caller call or an
\* interrupt strike.
Fairness == \A t \in Threads : WF_vars(Step(t))

Spec == Init /\ [][Next]_vars /\ Fairness

-----------------------------------------------------------------------------
(* Properties *)

TypeOK ==
  /\ consumed \in [ReceiptIds -> Digests \cup {Unused}]
  /\ lock \in Threads \cup {NoThread}
  /\ pc \in [Threads -> {"idle", "acquire", "get", "store", "release", "return"}]
  /\ request \in [Threads -> Receipt]
  /\ answer \in [Threads -> {"accepted", "replay", "conflict", "error"}]
  /\ acceptedIds \subseteq ReceiptIds
  /\ calls \in 0..MaxCalls
  /\ interrupts \in 0..MaxInterrupts

\* A call takes effect at its dictionary write, or at the read that found an
\* entry; until then the store's callers see it pending.
PhaseOf(p) ==
  IF p = "idle" THEN "idle"
  ELSE IF p \in {"release", "return"} THEN "answered" ELSE "pending"

Abstract == INSTANCE ReceiptUse WITH
  used  <- consumed,
  phase <- [t \in Threads |-> PhaseOf(pc[t])]

\* The dictionary and its lock behave like the atomic single-use registry that
\* InMemoryReceiptUseStore's docstring promises.
ImplementsReceiptUse == Abstract!Spec
=============================================================================
