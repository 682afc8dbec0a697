-------------------------- MODULE ReceiptUseProofs --------------------------
(* ReceiptUse keeps its promise for every set of threads, receipt ids and   *)
(* contents.                                                                *)
EXTENDS ReceiptUse, TLAPS

\* Every step preserves the types.
LEMMA TypeStep == TypeOK /\ [Next]_vars => TypeOK'
<1> SUFFICES ASSUME TypeOK, [Next]_vars PROVE TypeOK'
  OBVIOUS
<1> USE DEF TypeOK, Answers, Receipt
<1>1. ASSUME NEW t \in Threads, NEW r \in Receipt, Request(t, r) PROVE TypeOK'
  BY <1>1 DEF Request
<1>2. ASSUME NEW t \in Threads, TakeEffect(t) PROVE TypeOK'
  BY <1>2 DEF TakeEffect, AnswerFor
<1>3. ASSUME NEW t \in Threads, Fail(t) PROVE TypeOK'
  BY <1>3 DEF Fail
<1>4. ASSUME NEW t \in Threads, Return(t) PROVE TypeOK'
  BY <1>4 DEF Return
<1>5. ASSUME NEW T \in SUBSET Threads, Crash(T) PROVE TypeOK'
  BY <1>5 DEF Crash
<1>6. CASE UNCHANGED vars
  BY <1>6 DEF vars
<1> QED
  BY <1>1, <1>2, <1>3, <1>4, <1>5, <1>6 DEF Next

\* What makes single use inductive: an id without an entry was accepted by
\* nobody, so the call that finds no entry is the first.
IInv == TypeOK /\ SingleUse /\ AcceptedIsRecorded

LEMMA IInvInit == Init => IInv
BY DEF Init, IInv, TypeOK, Answers, SingleUse, AcceptedIsRecorded, Holds

\* Every step preserves the inductive invariant.
LEMMA IInvStep ==
  ASSUME Unused \notin Digests
  PROVE  IInv /\ [Next]_vars => IInv'
<1> SUFFICES ASSUME IInv, [Next]_vars PROVE IInv'
  OBVIOUS
<1> USE DEF IInv, SingleUse, AcceptedIsRecorded, Holds
<1>0. TypeOK'
  BY TypeStep
<1>1. ASSUME NEW t \in Threads, NEW r \in Receipt, Request(t, r) PROVE IInv'
  BY <1>0, <1>1 DEF Request, TypeOK
<1>2. ASSUME NEW t \in Threads, TakeEffect(t) PROVE IInv'
  <2>1. SingleUse'
    BY <1>2 DEF TakeEffect, AnswerFor, TypeOK, Receipt
  <2>2. AcceptedIsRecorded'
    BY <1>2 DEF TakeEffect, AnswerFor, TypeOK, Receipt
  <2> QED BY <1>0, <2>1, <2>2
<1>3. ASSUME NEW t \in Threads, Fail(t) PROVE IInv'
  BY <1>0, <1>3 DEF Fail, TypeOK
<1>4. ASSUME NEW t \in Threads, Return(t) PROVE IInv'
  BY <1>0, <1>4 DEF Return, TypeOK, Receipt
<1>5. ASSUME NEW T \in SUBSET Threads, Crash(T) PROVE IInv'
  BY <1>0, <1>5 DEF Crash, TypeOK
<1>6. CASE UNCHANGED vars
  BY <1>0, <1>6 DEF vars
<1> QED
  BY <1>1, <1>2, <1>3, <1>4, <1>5, <1>6 DEF Next

\* Every reachable state satisfies the inductive invariant.
THEOREM Invariance ==
  ASSUME Unused \notin Digests
  PROVE  Spec => []IInv
BY IInvInit, IInvStep, PTL DEF Spec

\* A receipt id is accepted for at most one call, whatever the interleaving of
\* the callers, the failures and the crashes.
THEOREM SingleUseHolds ==
  ASSUME Unused \notin Digests
  PROVE  Spec => []SingleUse
<1>1. IInv => SingleUse
  BY DEF IInv
<1> QED
  BY <1>1, Invariance, PTL

\* An acceptance is always on record with the digest it was accepted for.
THEOREM AcceptedIsRecordedHolds ==
  ASSUME Unused \notin Digests
  PROVE  Spec => []AcceptedIsRecorded
<1>1. IInv => AcceptedIsRecorded
  BY DEF IInv
<1> QED
  BY <1>1, Invariance, PTL

\* No call, failure or crash erases or rewrites a recorded use.
THEOREM UseIsPermanentHolds ==
  ASSUME Unused \notin Digests
  PROVE  Spec => UseIsPermanent
<1>1. IInv /\ [Next]_vars =>
        [\A id \in ReceiptIds : used[id] # Unused => used'[id] = used[id]]_vars
  BY DEF Next, Request, TakeEffect, Fail, Return, Crash, vars, IInv, TypeOK, Receipt
<1> QED
  BY <1>1, Invariance, PTL DEF Spec, UseIsPermanent
=============================================================================
