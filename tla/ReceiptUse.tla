----------------------------- MODULE ReceiptUse -----------------------------
(***************************************************************************)
(* What a receipt-use store promises its callers (ReceiptUseStore in       *)
(* gate.py): consume(receipt) either records the receipt as used and       *)
(* returns, or raises; and no receipt id is ever used twice.  A call takes *)
(* effect at one point between its start and its end, whatever the store   *)
(* does inside.  MemoryUseStore and SQLiteUseStore implement this.         *)
(***************************************************************************)
EXTENDS Naturals

CONSTANTS
  Threads,      \* threads that may call consume, of any controller process
  ReceiptIds,   \* receipt ids
  Digests,      \* contents a receipt id can carry
  Unused        \* the entry of a receipt id nothing has consumed, no digest

VARIABLES
  used,       \* receipt id -> digest it was consumed with, or Unused
  phase,      \* thread -> "idle", "pending" or "answered"
  request,    \* thread -> the receipt of its last or current call
  answer,     \* thread -> how the current call ends
  acceptedIds \* ids for which some call returned to its caller

vars == <<used, phase, request, answer, acceptedIds>>

Receipt == [id : ReceiptIds, digest : Digests]

Answers == {"accepted", "replay", "conflict", "error"}

TypeOK ==
  /\ used \in [ReceiptIds -> Digests \cup {Unused}]
  /\ phase \in [Threads -> {"idle", "pending", "answered"}]
  /\ request \in [Threads -> Receipt]
  /\ answer \in [Threads -> Answers]
  /\ acceptedIds \subseteq ReceiptIds

Init ==
  /\ used = [r \in ReceiptIds |-> Unused]
  /\ phase = [t \in Threads |-> "idle"]
  /\ request \in [Threads -> Receipt]
  /\ answer = [t \in Threads |-> "error"]
  /\ acceptedIds = {}

\* A caller enters consume with a receipt.
Request(t, r) ==
  /\ phase[t] = "idle"
  /\ phase' = [phase EXCEPT ![t] = "pending"]
  /\ request' = [request EXCEPT ![t] = r]
  /\ UNCHANGED <<used, answer, acceptedIds>>

\* What consume answers for a receipt, given the entry its id has.
AnswerFor(entry, r) ==
  IF entry = Unused THEN "accepted"
  ELSE IF entry = r.digest THEN "replay" ELSE "conflict"

\* The call takes effect: the first use of an id is recorded and accepted,
\* any later one is a replay, or a conflict when the contents differ.
TakeEffect(t) ==
  LET r == request[t] IN
  /\ phase[t] = "pending"
  /\ phase' = [phase EXCEPT ![t] = "answered"]
  /\ answer' = [answer EXCEPT ![t] = AnswerFor(used[r.id], r)]
  /\ used' = [used EXCEPT ![r.id] = IF @ = Unused THEN r.digest ELSE @]
  /\ UNCHANGED <<request, acceptedIds>>

\* The store cannot answer: the call raises and records nothing.
Fail(t) ==
  /\ phase[t] = "pending"
  /\ phase' = [phase EXCEPT ![t] = "answered"]
  /\ answer' = [answer EXCEPT ![t] = "error"]
  /\ UNCHANGED <<used, request, acceptedIds>>

\* The call returns to its caller.
Return(t) ==
  /\ phase[t] = "answered"
  /\ phase' = [phase EXCEPT ![t] = "idle"]
  /\ acceptedIds' = IF answer[t] = "accepted"
                    THEN acceptedIds \cup {request[t].id}
                    ELSE acceptedIds
  /\ UNCHANGED <<used, request, answer>>

\* A controller process dies: its calls never return.  What was used stays so.
Crash(T) ==
  /\ phase' = [t \in Threads |-> IF t \in T THEN "idle" ELSE phase[t]]
  /\ UNCHANGED <<used, request, answer, acceptedIds>>

Next ==
  \/ \E t \in Threads, r \in Receipt : Request(t, r)
  \/ \E t \in Threads : TakeEffect(t) \/ Fail(t) \/ Return(t)
  \/ \E T \in SUBSET Threads : Crash(T)

Spec == Init /\ [][Next]_vars

-----------------------------------------------------------------------------
(* Properties *)

\* Thread t is about to tell its caller that this use is the first one.
Holds(t) == phase[t] = "answered" /\ answer[t] = "accepted"

\* A receipt authorizes at most one use (docs/threat-model.md): while a call
\* holds an acceptance, no other call holds or ever returned one for that id.
SingleUse ==
  \A t \in Threads : Holds(t) =>
    /\ request[t].id \notin acceptedIds
    /\ \A u \in Threads : Holds(u) /\ request[u].id = request[t].id => u = t

\* An acceptance the caller has seen or will see is on record, with its digest.
AcceptedIsRecorded ==
  /\ \A id \in acceptedIds : used[id] # Unused
  /\ \A t \in Threads : Holds(t) => used[request[t].id] = request[t].digest

\* A recorded use is never erased or rewritten, by any call or any crash.
UseIsPermanent ==
  [][\A id \in ReceiptIds : used[id] # Unused => used'[id] = used[id]]_vars
=============================================================================
