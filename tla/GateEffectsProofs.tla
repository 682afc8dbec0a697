------------------------- MODULE GateEffectsProofs -------------------------
(* TrustGate.propagate, the in-memory registry and the audit sink, for any  *)
(* set of threads and receipts and any number of calls and interrupts:      *)
(* the registry implements ReceiptUse inside the gate, and what the audit   *)
(* chain calls propagated is consumed.                                      *)
EXTENDS GateEffects, TLAPS

-----------------------------------------------------------------------------
(* The registry *)

\* The lock protects the read and the write of consume: the entry a thread
\* found missing is still missing when it writes, and a first use is on record
\* from the write on.
LockProtects ==
  \A t \in Threads :
    /\ pc[t] \in {"get", "store", "release"} => lock = t
    /\ pc[t] = "store" => consumed[request[t].id] = Unused
    /\ pc[t] \in {"release", "return"} /\ answer[t] = "accepted" =>
         consumed[request[t].id] = request[t].digest

RegistryInv == TypeOK /\ LockProtects

LEMMA RegistryInit == Init => RegistryInv
BY StoreConstants DEF Init, RegistryInv, TypeOK, LockProtects

RegistryStep(t) ==
  Acquire(t) \/ GetExisting(t) \/ Store(t) \/ Release(t) \/ Return(t) \/ Interrupt(t)

\* Every step of consume preserves the protection.
LEMMA RegistryStepInv ==
  ASSUME NEW t \in Threads, RegistryInv,
         RegistryStep(t) \/ \E r \in Receipt : Call(t, r)
  PROVE  RegistryInv'
<1> USE StoreConstants DEF RegistryInv, TypeOK, LockProtects, Receipt, GoTo
<1>1. ASSUME NEW r \in Receipt, Call(t, r) PROVE RegistryInv'
  BY <1>1 DEF Call
<1>2. CASE Acquire(t) BY <1>2 DEF Acquire
<1>3. CASE GetExisting(t) BY <1>3 DEF GetExisting
<1>4. CASE Store(t) BY <1>4 DEF Store
<1>5. CASE Release(t) BY <1>5 DEF Release
<1>6. CASE Return(t) BY <1>6 DEF Return
<1>7. CASE Interrupt(t) BY <1>7 DEF Interrupt, InterruptBudget
<1> QED BY <1>1, <1>2, <1>3, <1>4, <1>5, <1>6, <1>7 DEF RegistryStep

\* No step of consume erases or rewrites an entry.
LEMMA EntriesStay ==
  ASSUME NEW t \in Threads, RegistryInv,
         RegistryStep(t) \/ \E r \in Receipt : Call(t, r)
  PROVE  \A id \in ReceiptIds : consumed[id] # Unused => consumed'[id] = consumed[id]
<1> USE DEF RegistryInv, TypeOK, LockProtects, Receipt, GoTo
<1>1. ASSUME NEW r \in Receipt, Call(t, r) PROVE consumed' = consumed
  BY <1>1 DEF Call
<1>2. CASE Store(t)
  BY <1>2 DEF Store
<1>3. CASE Acquire(t) \/ GetExisting(t) \/ Release(t) \/ Return(t) \/ Interrupt(t)
  BY <1>3 DEF Acquire, GetExisting, Release, Return, Interrupt
<1> QED BY <1>1, <1>2, <1>3 DEF RegistryStep

\* Every step of consume is a step of the abstract registry or invisible.
LEMMA RegistrySimulation ==
  ASSUME NEW t \in Threads, RegistryInv,
         RegistryStep(t) \/ \E r \in Receipt : Call(t, r)
  PROVE  [Abstract!Next]_(Abstract!vars)
<1> USE StoreConstants DEF RegistryInv, TypeOK, GoTo, PhaseOf, Abstract!vars, Receipt, Abstract!Receipt
<1>1. ASSUME NEW r \in Receipt, Call(t, r) PROVE Abstract!Request(t, r)
  BY <1>1 DEF Call, Abstract!Request
<1>2. CASE Acquire(t)
  <2>1. UNCHANGED Abstract!vars
    BY <1>2 DEF Acquire
  <2> QED BY <2>1
<1>3. CASE GetExisting(t) /\ consumed[request[t].id] = Unused
  <2>1. UNCHANGED Abstract!vars
    BY <1>3 DEF GetExisting
  <2> QED BY <2>1
<1>4. CASE GetExisting(t) /\ consumed[request[t].id] # Unused
  <2>1. Abstract!TakeEffect(t)
    BY <1>4 DEF GetExisting, Abstract!TakeEffect, Abstract!AnswerFor
  <2> QED BY <2>1 DEF Abstract!Next
<1>5. CASE Store(t)
  <2>1. Abstract!TakeEffect(t)
    BY <1>5 DEF Store, LockProtects, Abstract!TakeEffect, Abstract!AnswerFor
  <2> QED BY <2>1 DEF Abstract!Next
<1>6. CASE Release(t)
  <2>1. UNCHANGED Abstract!vars
    BY <1>6 DEF Release
  <2> QED BY <2>1
<1>7. CASE Return(t)
  <2>1. Abstract!Return(t)
    BY <1>7 DEF Return, Abstract!Return
  <2> QED BY <2>1 DEF Abstract!Next
<1>8. CASE Interrupt(t)
  <2>1. Abstract!Crash({t})
    BY <1>8 DEF Interrupt, Abstract!Crash
  <2> QED BY <2>1 DEF Abstract!Next
<1> QED
  BY <1>1, <1>2, <1>3, <1>4, <1>5, <1>6, <1>7, <1>8 DEF RegistryStep, Abstract!Next

\* A step of the gate is a step of one thread in consume, or leaves the registry
\* and its callers alone.
LEMMA GateStepOfRegistry ==
  ASSUME [GateNext]_allVars
  PROVE  \/ \E t \in Threads : RegistryStep(t) \/ \E r \in Receipt : Call(t, r)
         \/ /\ UNCHANGED <<consumed, lock, pc, request, answer, acceptedIds, interrupts>>
            /\ calls' = calls \/ (calls < MaxCalls /\ calls' = calls + 1)
         \/ /\ UNCHANGED <<consumed, lock, pc, request, answer, acceptedIds, calls>>
            /\ interrupts < MaxInterrupts /\ interrupts' = interrupts + 1
<1>1. CASE UNCHANGED allVars
  BY <1>1 DEF allVars, vars
<1>2. ASSUME NEW t \in Threads, NEW r \in Receipt, Propagate(t, r) \/ Refuse(t, r)
      PROVE  \/ Call(t, r)
             \/ /\ UNCHANGED <<consumed, lock, pc, request, answer, acceptedIds, interrupts>>
                /\ calls < MaxCalls /\ calls' = calls + 1
  BY <1>2 DEF Propagate, Refuse
<1>3. ASSUME NEW t \in Threads, GateStep(t) \/ Watch(t)
      PROVE  RegistryStep(t) \/ UNCHANGED vars
  BY <1>3 DEF GateStep, Watch, Consuming, Consumed, SinkRuns, Finish, Watched, RegistryStep
<1>4. ASSUME NEW t \in Threads, Strike(t)
      PROVE  \/ RegistryStep(t)
             \/ /\ UNCHANGED <<consumed, lock, pc, request, answer, acceptedIds, calls>>
                /\ interrupts < MaxInterrupts /\ interrupts' = interrupts + 1
  BY <1>4 DEF Strike, RegistryStep, InterruptBudget
<1> QED BY <1>1, <1>2, <1>3, <1>4 DEF GateNext, vars

LEMMA RegistryInvStep == RegistryInv /\ [GateNext]_allVars => RegistryInv'
<1> SUFFICES ASSUME RegistryInv, [GateNext]_allVars PROVE RegistryInv'
  OBVIOUS
<1>1. ASSUME NEW t \in Threads, RegistryStep(t) \/ \E r \in Receipt : Call(t, r)
      PROVE  RegistryInv'
  BY <1>1, RegistryStepInv
<1>2. ASSUME UNCHANGED <<consumed, lock, pc, request, answer, acceptedIds>>,
             calls' \in 0..MaxCalls, interrupts' \in 0..MaxInterrupts
      PROVE  RegistryInv'
  BY <1>2 DEF RegistryInv, TypeOK, LockProtects
<1>3. calls \in 0..MaxCalls /\ interrupts \in 0..MaxInterrupts
  BY DEF RegistryInv, TypeOK
<1> QED BY <1>1, <1>2, <1>3, GateStepOfRegistry, StoreConstants

LEMMA GateSimulation == RegistryInv /\ [GateNext]_allVars => [Abstract!Next]_(Abstract!vars)
<1> SUFFICES ASSUME RegistryInv, [GateNext]_allVars PROVE [Abstract!Next]_(Abstract!vars)
  OBVIOUS
<1>1. ASSUME NEW t \in Threads, RegistryStep(t) \/ \E r \in Receipt : Call(t, r)
      PROVE  [Abstract!Next]_(Abstract!vars)
  BY <1>1, RegistrySimulation
<1>2. ASSUME UNCHANGED <<consumed, pc, request, answer, acceptedIds>>
      PROVE  UNCHANGED Abstract!vars
  BY <1>2 DEF Abstract!vars
<1> QED BY <1>1, <1>2, GateStepOfRegistry

\* Inside the gate, whatever the threads propagate, audit, read or interrupt,
\* the dictionary and its lock behave like the atomic single-use registry.
THEOREM Refinement == GateSpec => ImplementsReceiptUse
<1>1. GateInit => RegistryInv /\ Abstract!Init
  BY RegistryInit DEF GateInit, Init, Abstract!Init, PhaseOf, Receipt, Abstract!Receipt
<1> QED
  BY <1>1, RegistryInvStep, GateSimulation, PTL
     DEF GateSpec, ImplementsReceiptUse, Abstract!Spec

-----------------------------------------------------------------------------
(* The registry and the chain *)

\* A tuple, whatever its elements.
IsTuple(s) == s \in Seq({s[n] : n \in DOMAIN s})

LEMMA SeqIsTuple ==
  ASSUME NEW S, NEW s \in Seq(S)
  PROVE  IsTuple(s) /\ Len(s) \in Nat /\ DOMAIN s = 1..Len(s)
<1>1. DOMAIN s = 1..Len(s) /\ Len(s) \in Nat /\ s \in [1..Len(s) -> S]
  OBVIOUS
<1>2. s \in [1..Len(s) -> {s[n] : n \in DOMAIN s}]
  BY <1>1
<1> QED BY <1>1, <1>2 DEF IsTuple

\* Append keeps what is there and adds one element.
LEMMA AppendTuple ==
  ASSUME NEW s, IsTuple(s), NEW e
  PROVE  /\ IsTuple(Append(s, e))
         /\ Len(s) \in Nat /\ DOMAIN s = 1..Len(s) /\ DOMAIN Append(s, e) = 1..(Len(s) + 1)
         /\ Append(s, e)[Len(s) + 1] = e
         /\ \A n \in DOMAIN s : Append(s, e)[n] = s[n]
<1> DEFINE S == {s[n] : n \in DOMAIN s} \cup {e}
<1>1. s \in Seq(S)
  BY DEF IsTuple
<1>2. Append(s, e) \in Seq(S) /\ Len(Append(s, e)) = Len(s) + 1
  BY <1>1
<1>3. IsTuple(Append(s, e)) /\ DOMAIN Append(s, e) = 1..Len(Append(s, e))
  BY <1>2, SeqIsTuple
<1> QED BY <1>1, <1>2, <1>3

\* What an entry says is so: it is no propagation, or its receipt is used.
Settled(entry, used) ==
  /\ entry \in Entries
  /\ entry.kind = "ARTIFACT_PROPAGATED" => used[entry.receipt.id] = entry.receipt.digest

IsDraft(d) == d = [sequence |-> d.sequence, entry |-> d.entry, previous |-> d.previous]

Appending == {"acquire", "build", "append", "appended", "raised", "recorded", "refused"}

\* Every event, on record or on its way, is settled: a propagation is announced
\* only after its consumption, which nothing undoes.
ChainSettled ==
  /\ IsTuple(events)
  /\ \A i \in DOMAIN events : Settled(events[i].entry, consumed)
  /\ at = [t \in Threads |-> at[t]]
  /\ draft = [t \in Threads |-> draft[t]]
  /\ \A t \in Threads : at[t] \in Appending =>
       IsDraft(draft[t]) /\ Settled(draft[t].entry, consumed)

\* What is settled stays settled.
LEMMA SettledStays ==
  ASSUME RegistryInv, [GateNext]_allVars, NEW entry, Settled(entry, consumed)
  PROVE  Settled(entry, consumed')
<1>1. \A id \in ReceiptIds : consumed[id] # Unused => consumed'[id] = consumed[id]
  BY EntriesStay, GateStepOfRegistry
<1>2. ASSUME entry.kind = "ARTIFACT_PROPAGATED"
      PROVE  consumed'[entry.receipt.id] = entry.receipt.digest
  <2>1. entry.receipt.id \in ReceiptIds /\ entry.receipt.digest \in Digests
    BY DEF Settled, Entries, Receipt
  <2>2. consumed[entry.receipt.id] = entry.receipt.digest
    BY <1>2 DEF Settled
  <2> QED BY <1>1, <2>1, <2>2, StoreConstants
<1>3. entry \in Entries
  BY DEF Settled
<1> QED BY <1>2, <1>3 DEF Settled

\* A thread that moves one event along, and leaves the others' alone, keeps the
\* chain settled.
LEMMA MovedIsSettled ==
  ASSUME RegistryInv, ChainSettled, [GateNext]_allVars, NEW c \in Threads,
         at' = [at EXCEPT ![c] = at'[c]],
         draft' = [draft EXCEPT ![c] = draft'[c]],
         at'[c] \in Appending => IsDraft(draft'[c]) /\ Settled(draft'[c].entry, consumed'),
         events' = events \/ (at[c] \in Appending /\ events' = Append(events, draft[c]))
  PROVE  ChainSettled'
<1>1. at' = [t \in Threads |-> at'[t]] /\ draft' = [t \in Threads |-> draft'[t]]
  BY DEF ChainSettled
<1>2. ASSUME NEW t \in Threads, at'[t] \in Appending
      PROVE  IsDraft(draft'[t]) /\ Settled(draft'[t].entry, consumed')
  <2>1. CASE t # c
    <3>1. at[t] \in Appending /\ draft'[t] = draft[t]
      BY <1>2, <2>1 DEF ChainSettled
    <3>2. IsDraft(draft[t]) /\ Settled(draft[t].entry, consumed)
      BY <3>1 DEF ChainSettled
    <3> QED BY <3>1, <3>2, SettledStays
  <2> QED BY <1>2, <2>1
<1>3. IsTuple(events') /\ \A i \in DOMAIN events' : Settled(events'[i].entry, consumed')
  <2>1. \A i \in DOMAIN events : Settled(events[i].entry, consumed')
    BY SettledStays DEF ChainSettled
  <2>2. CASE events' = events
    BY <2>1, <2>2 DEF ChainSettled
  <2>3. CASE at[c] \in Appending /\ events' = Append(events, draft[c])
    <3>1. Settled(draft[c].entry, consumed')
      BY <2>3, SettledStays DEF ChainSettled
    <3>2. IsTuple(events)
      BY DEF ChainSettled
    <3>3. /\ IsTuple(events') /\ Len(events) \in Nat
          /\ DOMAIN events = 1..Len(events) /\ DOMAIN events' = 1..(Len(events) + 1)
          /\ events'[Len(events) + 1] = draft[c]
          /\ \A n \in DOMAIN events : events'[n] = events[n]
      BY <2>3, <3>2, AppendTuple
    <3>4. ASSUME NEW i \in DOMAIN events' PROVE i \in DOMAIN events \/ i = Len(events) + 1
      BY <3>3
    <3> QED BY <2>1, <3>1, <3>3, <3>4
  <2> QED BY <2>2, <2>3
<1> QED BY <1>1, <1>2, <1>3 DEF ChainSettled

\* A step that leaves the sink and its callers alone keeps the chain settled.
LEMMA StillIsSettled ==
  ASSUME RegistryInv, ChainSettled, [GateNext]_allVars, UNCHANGED <<events, at, draft>>
  PROVE  ChainSettled'
BY SettledStays DEF ChainSettled

LEMMA ChainSettledInit == GateInit => ChainSettled
<1> SUFFICES ASSUME GateInit PROVE ChainSettled
  OBVIOUS
<1>1. /\ events = <<>> /\ at = [t \in Threads |-> "out"]
      /\ draft = [t \in Threads |-> Sink!NoEvent]
  BY DEF GateInit, Sink!SinkInit
<1>2. events \in Seq({}) /\ DOMAIN events = {}
  BY <1>1
<1> QED BY <1>1, <1>2, SeqIsTuple DEF ChainSettled, Appending

\* Every step of the gate keeps the chain settled.
LEMMA ChainSettledStep == RegistryInv /\ ChainSettled /\ [GateNext]_allVars => ChainSettled'
<1> SUFFICES ASSUME RegistryInv, ChainSettled, [GateNext]_allVars PROVE ChainSettled'
  OBVIOUS
<1>1. CASE UNCHANGED allVars
  BY <1>1, StillIsSettled DEF allVars, sinkVars
<1>2. ASSUME NEW t \in Threads, NEW r \in Receipt, Propagate(t, r) PROVE ChainSettled'
  BY <1>2, StillIsSettled DEF Propagate, sinkVars
<1>3. ASSUME NEW t \in Threads, NEW r \in Receipt, Refuse(t, r) PROVE ChainSettled'
  <2> DEFINE e == Entry("PROPAGATION_BLOCKED", r)
  <2>1. Sink!CallAppend(t, e) /\ Settled(e, consumed')
    BY <1>3 DEF Refuse, Settled, Entry, Entries
  <2> QED
    BY <2>1, MovedIsSettled DEF Sink!CallAppend, Sink!Move, Sink!NoEvent, IsDraft, ChainSettled
<1>4. ASSUME NEW t \in Threads, Consuming(t) \/ Watched(t) PROVE ChainSettled'
  BY <1>4, StillIsSettled DEF Consuming, Watched, sinkVars
<1>5. ASSUME NEW t \in Threads, Consumed(t) PROVE ChainSettled'
  <2> DEFINE e == Entry(IF answer[t] = "accepted" THEN "ARTIFACT_PROPAGATED"
                                                  ELSE "PROPAGATION_BLOCKED", request[t])
  <2>1. Sink!CallAppend(t, e)
    BY <1>5 DEF Consumed
  <2>2. request[t] \in Receipt /\ consumed' = consumed /\ pc[t] = "return"
    BY <1>5 DEF Consumed, Return, GoTo, RegistryInv, TypeOK
  <2>3. Settled(e, consumed')
    BY <2>2 DEF Settled, Entry, Entries, RegistryInv, LockProtects
  <2> QED
    BY <2>1, <2>3, MovedIsSettled DEF Sink!CallAppend, Sink!Move, Sink!NoEvent, IsDraft, ChainSettled
<1>6. ASSUME NEW t \in Threads, SinkRuns(t) PROVE ChainSettled'
  <2>0. Sink!SinkStep(t) /\ consumed' = consumed
    BY <1>6 DEF SinkRuns, vars
  <2>1. CASE Sink!AcquireSink(t) \/ Sink!Build(t) \/ Sink!BuildFails(t) \/ Sink!AppendEvent(t)
    <3>1. /\ at' = [at EXCEPT ![t] = at'[t]]
          /\ events' = events \/ (at[t] \in Appending /\ events' = Append(events, draft[t]))
      BY <2>1 DEF ChainSettled, Appending, Sink!Move, Sink!AcquireSink, Sink!Build,
                  Sink!BuildFails, Sink!AppendEvent
    <3>2. at'[t] \in Appending => at[t] \in Appending
      BY <2>1 DEF ChainSettled, Appending, Sink!Move, Sink!AcquireSink, Sink!Build,
                  Sink!BuildFails, Sink!AppendEvent
    <3>3. draft' = [draft EXCEPT ![t] = draft'[t]]
      BY <2>1 DEF ChainSettled, Sink!AcquireSink, Sink!Build, Sink!BuildFails, Sink!AppendEvent
    <3>4. ASSUME at[t] \in Appending PROVE IsDraft(draft'[t]) /\ draft'[t].entry = draft[t].entry
      BY <2>1, <3>4 DEF ChainSettled, IsDraft, Sink!AcquireSink, Sink!Build, Sink!BuildFails,
                        Sink!AppendEvent
    <3> QED BY <2>0, <3>1, <3>2, <3>3, <3>4, MovedIsSettled DEF ChainSettled
  <2>2. CASE Sink!Copy(t) \/ Sink!ReleaseSink(t)
    <3>1. /\ at' = [at EXCEPT ![t] = at'[t]] /\ events' = events /\ draft' = draft
          /\ at'[t] \in Appending => at[t] \in Appending
      BY <2>2 DEF ChainSettled, Appending, Sink!Move, Sink!Copy, Sink!ReleaseSink
    <3>2. draft' = [draft EXCEPT ![t] = draft'[t]]
      BY <3>1 DEF ChainSettled
    <3> QED BY <2>0, <3>1, <3>2, MovedIsSettled DEF ChainSettled
  <2> QED BY <2>0, <2>1, <2>2 DEF Sink!SinkStep
<1>7. ASSUME NEW t \in Threads, Finish(t) PROVE ChainSettled'
  BY <1>7, MovedIsSettled DEF Finish, Sink!Leave, ChainSettled, Appending
<1>8. ASSUME NEW t \in Threads, Watch(t) PROVE ChainSettled'
  <2>1. Sink!CallSnapshot(t)
    BY <1>8 DEF Watch
  <2>2. /\ at' = [at EXCEPT ![t] = "acquire_view"] /\ UNCHANGED <<events, draft>>
        /\ draft' = [draft EXCEPT ![t] = draft'[t]]
    BY <2>1 DEF Sink!CallSnapshot, Sink!Move, ChainSettled
  <2> QED BY <2>2, MovedIsSettled DEF ChainSettled, Appending
<1>9. ASSUME NEW t \in Threads, Strike(t) PROVE ChainSettled'
  <2>1. CASE UNCHANGED sinkVars
    BY <2>1, StillIsSettled DEF sinkVars
  <2>2. CASE Sink!InterruptSink(t)
    BY <2>2, MovedIsSettled DEF Sink!InterruptSink, ChainSettled, Appending
  <2> QED BY <1>9, <2>1, <2>2 DEF Strike
<1> QED
  BY <1>1, <1>2, <1>3, <1>4, <1>5, <1>6, <1>7, <1>8, <1>9 DEF GateNext, GateStep

\* A receipt whose propagation is on record is consumed, with that digest, for
\* any threads, replays and interrupts: the audit trail announces no use that
\* the registry does not know.
THEOREM PropagatedIsConsumedHolds == GateSpec => []PropagatedIsConsumed
<1>1. GateInit => RegistryInv
  BY RegistryInit DEF GateInit
<1>2. ChainSettled => PropagatedIsConsumed
  BY DEF ChainSettled, Settled, PropagatedIsConsumed
<1> QED
  BY <1>1, <1>2, ChainSettledInit, RegistryInvStep, ChainSettledStep, PTL DEF GateSpec

-----------------------------------------------------------------------------
(* The chain *)

InSink == {"build", "append", "appended", "raised", "copy", "copied"}

PreviousOf(chain) == IF chain = <<>> THEN Sink!NoDigest ELSE Sink!DigestOf(Last(chain))

\* The lock protects the chain: an event fits the chain it was built for, which
\* is still the chain when the event is appended; snapshots are taken of whole
\* chains.
ChainSound ==
  /\ IsTuple(events) /\ Sink!Verifies(events)
  /\ at = [t \in Threads |-> at[t]] /\ draft = [t \in Threads |-> draft[t]]
  /\ view = [t \in Threads |-> view[t]]
  /\ \A t \in Threads :
       /\ at[t] \in InSink => sinkLock = t
       /\ at[t] = "append" => /\ draft[t].sequence = Len(events) + 1
                              /\ draft[t].previous = PreviousOf(events)
       /\ at[t] \in {"acquire", "build", "append"} => IsDraft(draft[t])
       /\ IsTuple(view[t]) /\ Sink!Verifies(view[t]) /\ IsPrefix(view[t], events)

SinkMoves(t) ==
  \/ \E e : Sink!CallAppend(t, e)
  \/ Sink!CallSnapshot(t) \/ Sink!SinkStep(t) \/ Sink!Leave(t) \/ Sink!InterruptSink(t)

\* A step of the gate is a step of one thread in the sink, or leaves it alone.
LEMMA GateStepOfSink ==
  ASSUME [GateNext]_allVars
  PROVE  UNCHANGED sinkVars \/ \E t \in Threads : SinkMoves(t)
BY DEF GateNext, GateStep, Propagate, Refuse, Consuming, Consumed, SinkRuns, Finish, Watch,
       Watched, Strike, allVars, SinkMoves

LEMMA PrefixGrows ==
  ASSUME NEW s, NEW v, IsTuple(s), IsTuple(v), NEW e
  PROVE  IsPrefix(s, s) /\ (IsPrefix(v, s) => IsPrefix(v, Append(s, e)))
<1> DEFINE S == {s[n] : n \in DOMAIN s} \cup {v[n] : n \in DOMAIN v} \cup {e}
<1>1. s \in Seq(S) /\ v \in Seq(S) /\ e \in S
  BY DEF IsTuple
<1> HIDE DEF S
<1>2. ASSUME Len(v) <= Len(s)
      PROVE  SubSeq(Append(s, e), 1, Len(v)) = SubSeq(s, 1, Len(v)) /\ Len(v) <= Len(Append(s, e))
  BY <1>1, <1>2
<1> QED BY <1>1, <1>2 DEF IsPrefix

LEMMA PrefixAgrees ==
  ASSUME NEW v, NEW s, IsTuple(v), IsTuple(s), IsPrefix(v, s)
  PROVE  DOMAIN v \subseteq DOMAIN s /\ \A n \in DOMAIN v : v[n] = s[n]
<1> DEFINE S == {s[n] : n \in DOMAIN s} \cup {v[n] : n \in DOMAIN v}
<1>1. s \in Seq(S) /\ v \in Seq(S)
  BY DEF IsTuple
<1> HIDE DEF S
<1>2. Len(v) <= Len(s) /\ SubSeq(v, 1, Len(v)) = SubSeq(s, 1, Len(v))
  BY DEF IsPrefix
<1>3. \A n \in 1..Len(v) : SubSeq(v, 1, Len(v))[n] = v[n] /\ SubSeq(s, 1, Len(v))[n] = s[n]
  BY <1>1, <1>2
<1> QED BY <1>1, <1>2, <1>3

\* An event built for the chain keeps it intact.
LEMMA VerifiesGrows ==
  ASSUME NEW s, IsTuple(s), Sink!Verifies(s), NEW e,
         e.sequence = Len(s) + 1, e.previous = PreviousOf(s)
  PROVE  Sink!Verifies(Append(s, e))
<1>1. PICK c, n : c = Append(s, e) /\ n = Len(s)
  OBVIOUS
<1>2. /\ n \in Nat /\ DOMAIN s = 1..n /\ DOMAIN c = 1..(n + 1)
      /\ c[n + 1] = e /\ \A k \in 1..n : c[k] = s[k]
  BY <1>1, AppendTuple
<1>3. s = <<>> <=> n = 0
  BY <1>1 DEF IsTuple
<1>4. ASSUME NEW i \in 1..n
      PROVE  /\ c[i].sequence = i
             /\ c[i].previous = IF i = 1 THEN Sink!NoDigest ELSE Sink!DigestOf(c[i - 1])
  <2>1. s[i].sequence = i /\ s[i].previous = IF i = 1 THEN Sink!NoDigest ELSE Sink!DigestOf(s[i - 1])
    BY <1>2 DEF Sink!Verifies
  <2>2. i # 1 => c[i - 1] = s[i - 1]
    BY <1>2
  <2> QED BY <1>2, <2>1, <2>2
<1>5. /\ e.sequence = n + 1
      /\ e.previous = IF n + 1 = 1 THEN Sink!NoDigest ELSE Sink!DigestOf(c[(n + 1) - 1])
  <2>1. CASE n = 0
    BY <1>1, <1>3, <2>1 DEF PreviousOf
  <2>2. CASE n # 0
    <3>1. c[(n + 1) - 1] = s[n] /\ n + 1 # 1
      BY <1>2, <2>2
    <3> QED BY <1>1, <1>3, <2>2, <3>1 DEF PreviousOf, Last
  <2> QED BY <2>1, <2>2
<1>6. ASSUME NEW i \in DOMAIN c
      PROVE  /\ c[i].sequence = i
             /\ c[i].previous = IF i = 1 THEN Sink!NoDigest ELSE Sink!DigestOf(c[i - 1])
  <2>1. i \in 1..n \/ i = n + 1
    BY <1>2
  <2> QED BY <1>2, <1>4, <1>5, <2>1
<1> QED BY <1>1, <1>6 DEF Sink!Verifies

LEMMA DraftRenewed ==
  ASSUME NEW d, IsDraft(d), NEW n, NEW p
  PROVE  [[d EXCEPT !.sequence = n] EXCEPT !.previous = p]
           = [sequence |-> n, entry |-> d.entry, previous |-> p]
<1>1. PICK a, b, c : d = [sequence |-> a, entry |-> b, previous |-> c]
  BY DEF IsDraft
<1>2. [d EXCEPT !.sequence = n] = [sequence |-> n, entry |-> b, previous |-> c]
  BY <1>1
<1>3. [[sequence |-> n, entry |-> b, previous |-> c] EXCEPT !.previous = p]
        = [sequence |-> n, entry |-> b, previous |-> p]
  OBVIOUS
<1> QED BY <1>1, <1>2, <1>3

\* A step of the sink that appends nothing.
LEMMA SinkWaits ==
  ASSUME ChainSound, NEW c \in Threads, events' = events, view' = view,
         at' = [at EXCEPT ![c] = at'[c]], draft' = [draft EXCEPT ![c] = draft'[c]],
         \A t \in Threads \ {c} : sinkLock = t => sinkLock' = t,
         at'[c] \in InSink => sinkLock' = c,
         at'[c] = "append" => /\ draft'[c].sequence = Len(events) + 1
                              /\ draft'[c].previous = PreviousOf(events),
         at'[c] \in {"acquire", "build", "append"} => IsDraft(draft'[c])
  PROVE  ChainSound'
<1>1. \A t \in Threads \ {c} : at'[t] = at[t] /\ draft'[t] = draft[t]
  BY DEF ChainSound
<1>2. /\ at' = [t \in Threads |-> at'[t]] /\ draft' = [t \in Threads |-> draft'[t]]
      /\ view' = [t \in Threads |-> view'[t]]
  BY DEF ChainSound
<1>3. PreviousOf(events)' = PreviousOf(events) /\ Sink!Verifies(events)' = Sink!Verifies(events)
  BY DEF PreviousOf, Last, Sink!Verifies
<1>4. ASSUME NEW t \in Threads
      PROVE  /\ at'[t] \in InSink => sinkLock' = t
             /\ at'[t] = "append" => /\ draft'[t].sequence = Len(events) + 1
                                     /\ draft'[t].previous = PreviousOf(events)
             /\ at'[t] \in {"acquire", "build", "append"} => IsDraft(draft'[t])
             /\ IsTuple(view[t]) /\ Sink!Verifies(view[t]) /\ IsPrefix(view[t], events)
  <2>1. CASE t = c
    BY <2>1 DEF ChainSound
  <2>2. CASE t # c
    BY <1>1, <2>2 DEF ChainSound
  <2> QED BY <2>1, <2>2
<1>5. \A t \in Threads : Sink!Verifies(view[t])' = Sink!Verifies(view[t])
  BY DEF Sink!Verifies
<1> QED BY <1>2, <1>3, <1>4, <1>5 DEF ChainSound

\* The one event the lock's holder appends was built for this very chain.
LEMMA AppendSound ==
  ASSUME ChainSound, NEW c \in Threads, Sink!AppendEvent(c)
  PROVE  ChainSound'
<1>1. /\ at[c] = "append" /\ sinkLock = c /\ IsTuple(events) /\ Sink!Verifies(events)
      /\ draft[c].sequence = Len(events) + 1 /\ draft[c].previous = PreviousOf(events)
      /\ events' = Append(events, draft[c]) /\ UNCHANGED <<sinkLock, draft, view>>
      /\ at' = [at EXCEPT ![c] = "appended"]
  BY DEF ChainSound, InSink, Sink!AppendEvent, Sink!Move
<1>2. IsTuple(events') /\ Sink!Verifies(events')
  <2>1. PICK s, e : s = events /\ e = draft[c]
    OBVIOUS
  <2>2. IsTuple(Append(s, e)) /\ Sink!Verifies(Append(s, e))
    BY <1>1, <2>1, AppendTuple, VerifiesGrows
  <2> QED BY <1>1, <2>1, <2>2 DEF Sink!Verifies
<1>3. /\ at' = [t \in Threads |-> at'[t]] /\ draft' = [t \in Threads |-> draft'[t]]
      /\ view' = [t \in Threads |-> view'[t]] /\ at'[c] = "appended"
      /\ \A t \in Threads \ {c} : at'[t] = at[t]
  BY <1>1 DEF ChainSound
<1>4. ASSUME NEW t \in Threads
      PROVE  IsTuple(view'[t]) /\ Sink!Verifies(view[t])' /\ IsPrefix(view'[t], events')
  <2>1. IsTuple(view[t]) /\ Sink!Verifies(view[t]) /\ IsPrefix(view[t], events)
    BY DEF ChainSound
  <2>2. IsPrefix(view[t], events')
    BY <1>1, <2>1, PrefixGrows
  <2> QED BY <1>1, <2>1, <2>2 DEF Sink!Verifies
<1>5. ASSUME NEW t \in Threads
      PROVE  at'[t] \in InSink => sinkLock' = t /\ at'[t] # "append"
  <2>1. CASE t = c
    BY <1>1, <1>3, <2>1
  <2>2. CASE t # c
    BY <1>1, <1>3, <2>2 DEF ChainSound, InSink
  <2> QED BY <2>1, <2>2
<1>6. ASSUME NEW t \in Threads
      PROVE  at'[t] \in {"acquire", "build", "append"} => IsDraft(draft'[t])
  <2>1. CASE t = c
    BY <1>3, <2>1
  <2>2. CASE t # c
    BY <1>1, <1>3, <2>2 DEF ChainSound
  <2> QED BY <2>1, <2>2
<1> QED BY <1>2, <1>3, <1>4, <1>5, <1>6 DEF ChainSound, InSink

\* A snapshot is the chain as it stands.
LEMMA CopySound ==
  ASSUME ChainSound, NEW c \in Threads, Sink!Copy(c)
  PROVE  ChainSound'
<1>1. /\ sinkLock = c /\ IsTuple(events) /\ Sink!Verifies(events)
      /\ view' = [view EXCEPT ![c] = events] /\ UNCHANGED <<sinkLock, draft, events>>
      /\ at' = [at EXCEPT ![c] = "copied"]
  BY DEF ChainSound, InSink, Sink!Copy, Sink!Move
<1>2. /\ at' = [t \in Threads |-> at'[t]] /\ draft' = [t \in Threads |-> draft'[t]]
      /\ view' = [t \in Threads |-> view'[t]] /\ at'[c] = "copied" /\ view'[c] = events
      /\ \A t \in Threads \ {c} : at'[t] = at[t] /\ view'[t] = view[t]
  BY <1>1 DEF ChainSound
<1>3. PreviousOf(events)' = PreviousOf(events) /\ Sink!Verifies(events)' = Sink!Verifies(events)
  BY <1>1 DEF PreviousOf, Last, Sink!Verifies
<1>4. IsPrefix(events, events)
  BY <1>1, PrefixGrows
<1>5. ASSUME NEW t \in Threads
      PROVE  IsTuple(view'[t]) /\ Sink!Verifies(view[t])' /\ IsPrefix(view'[t], events)
  <2>1. CASE t = c
    BY <1>1, <1>2, <1>4, <2>1 DEF Sink!Verifies
  <2>2. CASE t # c
    BY <1>2, <2>2 DEF ChainSound, Sink!Verifies
  <2> QED BY <2>1, <2>2
<1>6. ASSUME NEW t \in Threads
      PROVE  /\ at'[t] \in InSink => sinkLock' = t
             /\ at'[t] = "append" => /\ draft[t].sequence = Len(events) + 1
                                     /\ draft[t].previous = PreviousOf(events)
             /\ at'[t] \in {"acquire", "build", "append"} => IsDraft(draft[t])
  <2>1. CASE t = c
    BY <1>1, <1>2, <2>1
  <2>2. CASE t # c
    BY <1>1, <1>2, <2>2 DEF ChainSound
  <2> QED BY <2>1, <2>2
<1> QED BY <1>1, <1>2, <1>3, <1>5, <1>6 DEF ChainSound

LEMMA ChainSoundStep == ChainSound /\ [GateNext]_allVars => ChainSound'
<1> SUFFICES ASSUME ChainSound, [GateNext]_allVars PROVE ChainSound'
  OBVIOUS
<1>0. /\ DOMAIN at = Threads /\ DOMAIN draft = Threads /\ NoThread \notin Threads
      /\ at = [t \in Threads |-> at[t]] /\ draft = [t \in Threads |-> draft[t]]
      /\ draft = [t \in Threads |-> draft[t]]
  BY StoreConstants DEF ChainSound
<1>1. CASE UNCHANGED sinkVars
  BY <1>1 DEF sinkVars, ChainSound, PreviousOf, Last, Sink!Verifies
<1>2. ASSUME NEW c \in Threads, NEW e, Sink!CallAppend(c, e) PROVE ChainSound'
  BY <1>0, <1>2, SinkWaits DEF Sink!CallAppend, Sink!Move, Sink!NoEvent, IsDraft, InSink
<1>3. ASSUME NEW c \in Threads, Sink!CallSnapshot(c) PROVE ChainSound'
  <2>1. /\ at' = [at EXCEPT ![c] = "acquire_view"] /\ UNCHANGED <<events, sinkLock, draft, view>>
        /\ draft' = [draft EXCEPT ![c] = draft'[c]]
    BY <1>0, <1>3 DEF Sink!CallSnapshot, Sink!Move
  <2> QED BY <1>0, <2>1, SinkWaits DEF InSink
<1>4. ASSUME NEW c \in Threads, Sink!AcquireSink(c) PROVE ChainSound'
  <2>1. /\ at' = [at EXCEPT ![c] = at'[c]] /\ UNCHANGED <<events, draft, view>>
        /\ draft' = [draft EXCEPT ![c] = draft'[c]] /\ sinkLock = NoThread /\ sinkLock' = c
        /\ at'[c] = "copy" \/ (at'[c] = "build" /\ at[c] = "acquire")
    BY <1>0, <1>4 DEF Sink!AcquireSink, Sink!Move
  <2>2. at'[c] = "build" => IsDraft(draft'[c])
    BY <2>1 DEF ChainSound
  <2> QED BY <1>0, <2>1, <2>2, SinkWaits
<1>5. ASSUME NEW c \in Threads, Sink!Build(c) PROVE ChainSound'
  <2>1. /\ at' = [at EXCEPT ![c] = "append"] /\ UNCHANGED <<events, sinkLock, view>>
        /\ at[c] = "build" /\ sinkLock = c /\ IsDraft(draft[c])
    BY <1>5 DEF Sink!Build, Sink!Move, ChainSound, InSink
  <2>2. /\ draft' = [draft EXCEPT ![c] = draft'[c]] /\ IsDraft(draft'[c])
        /\ draft'[c].sequence = Len(events) + 1 /\ draft'[c].previous = PreviousOf(events)
    <3> DEFINE new == [sequence |-> Len(events) + 1, entry |-> draft[c].entry,
                       previous |-> PreviousOf(events)]
    <3>1. draft'[c] = [[draft[c] EXCEPT !.sequence = Len(events) + 1]
                         EXCEPT !.previous = PreviousOf(events)]
      <4>1. PICK p : p = PreviousOf(events)
        OBVIOUS
      <4> QED BY <1>0, <1>5, <4>1 DEF Sink!Build, PreviousOf, Last, Sink!Last
    <3>2. draft' = [draft EXCEPT ![c] = draft'[c]]
      BY <1>0, <1>5 DEF Sink!Build
    <3>3. draft'[c] = new
      <4>1. PICK p, n, d : p = PreviousOf(events) /\ n = Len(events) + 1 /\ d = draft[c]
        OBVIOUS
      <4>2. [[d EXCEPT !.sequence = n] EXCEPT !.previous = p]
              = [sequence |-> n, entry |-> d.entry, previous |-> p]
        <5>1. IsDraft(d)
          BY <2>1, <4>1
        <5> QED BY <5>1, DraftRenewed, Zenon
      <4> QED BY <3>1, <4>1, <4>2
    <3> QED BY <3>2, <3>3 DEF IsDraft
  <2> QED BY <1>0, <2>1, <2>2, SinkWaits
<1>6. ASSUME NEW c \in Threads, Sink!BuildFails(c) PROVE ChainSound'
  <2>1. /\ at' = [at EXCEPT ![c] = "raised"] /\ UNCHANGED <<events, sinkLock, draft, view>>
        /\ draft' = [draft EXCEPT ![c] = draft'[c]] /\ sinkLock = c
    BY <1>0, <1>6 DEF Sink!BuildFails, Sink!Move, ChainSound, InSink
  <2> QED BY <1>0, <2>1, SinkWaits
<1>7. ASSUME NEW c \in Threads, Sink!ReleaseSink(c) PROVE ChainSound'
  <2>1. /\ at' = [at EXCEPT ![c] = at'[c]] /\ UNCHANGED <<events, draft, view>>
        /\ draft' = [draft EXCEPT ![c] = draft'[c]] /\ sinkLock = c
        /\ at'[c] \in {"recorded", "refused", "out"}
    BY <1>0, <1>7 DEF Sink!ReleaseSink, Sink!Move, ChainSound, InSink
  <2> QED BY <1>0, <2>1, SinkWaits DEF InSink
<1>8. ASSUME NEW c \in Threads, Sink!Leave(c) \/ Sink!InterruptSink(c) PROVE ChainSound'
  <2>1. /\ at' = [at EXCEPT ![c] = "out"] /\ UNCHANGED <<events, view>>
        /\ draft' = [draft EXCEPT ![c] = draft'[c]]
        /\ \A t \in Threads \ {c} : sinkLock = t => sinkLock' = t
    BY <1>0, <1>8 DEF Sink!Leave, Sink!InterruptSink
  <2> QED BY <1>0, <2>1, SinkWaits DEF InSink
<1> QED
  BY <1>1, <1>2, <1>3, <1>4, <1>5, <1>6, <1>7, <1>8, AppendSound, CopySound, GateStepOfSink
     DEF SinkMoves, Sink!SinkStep

LEMMA ChainInvariance == GateSpec => []ChainSound
<1>1. GateInit => ChainSound
  <2> SUFFICES ASSUME GateInit PROVE ChainSound
    OBVIOUS
  <2>1. /\ events = <<>> /\ at = [t \in Threads |-> "out"]
        /\ draft = [t \in Threads |-> Sink!NoEvent] /\ view = [t \in Threads |-> <<>>]
    BY DEF GateInit, Sink!SinkInit
  <2>2. <<>> \in Seq({}) /\ DOMAIN <<>> = {}
    OBVIOUS
  <2>3. IsTuple(<<>>) /\ IsPrefix(<<>>, <<>>)
    BY <2>2, SeqIsTuple, PrefixGrows
  <2> QED BY <2>1, <2>2, <2>3 DEF ChainSound, InSink, Sink!Verifies
<1> QED BY <1>1, ChainSoundStep, PTL DEF GateSpec

\* Whoever takes a snapshot, whenever, reads an intact chain, and a beginning of
\* every chain read later: events are built and appended under one lock
\* (InMemoryAuditSink.append).
THEOREM ChainVerifiesHolds == GateSpec => []ChainVerifies
<1>1. ChainSound => ChainVerifies
  BY DEF ChainSound, ChainVerifies
<1> QED BY <1>1, ChainInvariance, PTL

\* Every event on record is a record of the three parts.
EventsFormed == \A i \in DOMAIN events : IsDraft(events[i])

LEMMA EventsFormedStep == ChainSound /\ EventsFormed /\ [GateNext]_allVars => EventsFormed'
<1> SUFFICES ASSUME ChainSound, EventsFormed, [GateNext]_allVars PROVE EventsFormed'
  OBVIOUS
<1>1. CASE events' = events
  BY <1>1 DEF EventsFormed
<1>2. ASSUME NEW c \in Threads, Sink!AppendEvent(c) PROVE EventsFormed'
  <2>1. PICK s, e : s = events /\ e = draft[c]
    OBVIOUS
  <2>2. events' = Append(s, e) /\ IsTuple(s) /\ IsDraft(e) /\ \A i \in DOMAIN s : IsDraft(s[i])
    BY <1>2, <2>1 DEF Sink!AppendEvent, Sink!Move, ChainSound, EventsFormed
  <2>3. PICK u, n : u = Append(s, e) /\ n = Len(s)
    OBVIOUS
  <2>4. /\ n \in Nat /\ DOMAIN s = 1..n /\ DOMAIN u = 1..(n + 1)
        /\ u[n + 1] = e /\ \A k \in DOMAIN s : u[k] = s[k]
    BY <2>2, <2>3, AppendTuple
  <2>5. \A i \in DOMAIN u : i \in DOMAIN s \/ i = n + 1
    BY <2>4
  <2> QED BY <2>2, <2>3, <2>4, <2>5 DEF EventsFormed
<1>3. UNCHANGED events \/ \E c \in Threads : Sink!AppendEvent(c)
  BY GateStepOfSink DEF SinkMoves, Sink!CallAppend, Sink!CallSnapshot, Sink!SinkStep, Sink!Leave,
     Sink!InterruptSink, Sink!AcquireSink, Sink!Build, Sink!BuildFails, Sink!Copy,
     Sink!ReleaseSink, sinkVars
<1> QED BY <1>1, <1>2, <1>3

\* In an intact chain each event but the last is testified to by the next one:
\* its contents cannot change, it cannot go, and the two cannot change places.
LEMMA AlterationsFail ==
  ASSUME NEW s, IsTuple(s), Sink!Verifies(s), \A n \in DOMAIN s : IsDraft(s[n]),
         NEW i \in 1..(Len(s) - 1)
  PROVE  /\ \A entry : entry # s[i].entry => ~Sink!Verifies([s EXCEPT ![i].entry = entry])
         /\ ~Sink!Verifies(RemoveAt(s, i))
         /\ ~Sink!Verifies([s EXCEPT ![i] = s[i + 1], ![i + 1] = s[i]])
<1>1. PICK S : s \in Seq(S)
  BY DEF IsTuple
<1>2. /\ Len(s) \in Nat /\ DOMAIN s = 1..Len(s) /\ i \in DOMAIN s /\ i + 1 \in DOMAIN s
      /\ i \in Nat /\ i + 1 # i /\ i + 1 # 1 /\ (i + 1) - 1 = i
  BY <1>1
<1>3. s[i + 1].sequence = i + 1 /\ s[i + 1].previous = Sink!DigestOf(s[i])
  BY <1>2 DEF Sink!Verifies
<1>4. ASSUME NEW entry, entry # s[i].entry
      PROVE  ~Sink!Verifies([s EXCEPT ![i].entry = entry])
  <2>1. PICK d : d = s[i] /\ IsDraft(d)
    BY <1>2
  <2>2. PICK e : e = [d EXCEPT !.entry = entry]
    OBVIOUS
  <2>3. e.entry = entry
    <3>1. PICK a, b, c : d = [sequence |-> a, entry |-> b, previous |-> c]
      BY <2>1 DEF IsDraft
    <3> QED BY <2>2, <3>1
  <2>4. PICK u : u = [s EXCEPT ![i] = e]
    OBVIOUS
  <2>5. u = [s EXCEPT ![i].entry = entry]
    BY <2>1, <2>2, <2>4
  <2>6. DOMAIN u = DOMAIN s /\ u[i] = e /\ u[i + 1] = s[i + 1]
    BY <1>2, <2>4
  <2>7. Sink!DigestOf(e) # Sink!DigestOf(d)
    BY <1>4, <2>1, <2>3 DEF Sink!DigestOf
  <2>8. ~Sink!Verifies(u)
    <3> SUFFICES ASSUME Sink!Verifies(u) PROVE FALSE
      OBVIOUS
    <3>1. u[i + 1].previous = Sink!DigestOf(u[i])
      BY <1>2, <2>6 DEF Sink!Verifies
    <3> QED BY <1>3, <2>1, <2>6, <2>7, <3>1
  <2> QED BY <2>5, <2>8
<1>5. ~Sink!Verifies(RemoveAt(s, i))
  <2>1. PICK u : u = RemoveAt(s, i)
    OBVIOUS
  <2>2. /\ SubSeq(s, 1, i - 1) \in Seq(S) /\ Len(SubSeq(s, 1, i - 1)) = i - 1
        /\ SubSeq(s, i + 1, Len(s)) \in Seq(S) /\ Len(SubSeq(s, i + 1, Len(s))) = Len(s) - i
        /\ SubSeq(s, i + 1, Len(s))[1] = s[i + 1]
    BY <1>1, <1>2
  <2>3. PICK left, right : left = SubSeq(s, 1, i - 1) /\ right = SubSeq(s, i + 1, Len(s))
    OBVIOUS
  <2>4. u = left \o right
    BY <2>1, <2>3 DEF RemoveAt
  <2>5. DOMAIN u = 1..(Len(s) - 1) /\ u[i] = s[i + 1]
    <3>1. PICK m : m = Len(s)
      OBVIOUS
    <3>2. /\ left \in Seq(S) /\ right \in Seq(S) /\ Len(left) = i - 1 /\ Len(right) = m - i
          /\ right[1] = s[i + 1] /\ m \in Nat /\ i \in 1..(m - 1)
      BY <1>2, <2>2, <2>3, <3>1
    <3>3. /\ left \o right \in Seq(S) /\ Len(left \o right) = Len(left) + Len(right)
          /\ \A k \in 1..Len(right) : (left \o right)[Len(left) + k] = right[k]
      BY <3>2
    <3>4. 1 \in 1..Len(right) /\ Len(left) + 1 = i /\ Len(left) + Len(right) = m - 1
      BY <3>2
    <3>5. u[i] = right[1] /\ Len(u) = m - 1 /\ u \in Seq(S)
      BY <2>4, <3>3, <3>4
    <3> QED BY <3>1, <3>2, <3>5
  <2> QED BY <1>2, <1>3, <2>1, <2>5 DEF Sink!Verifies
<1>6. ~Sink!Verifies([s EXCEPT ![i] = s[i + 1], ![i + 1] = s[i]])
  <2>1. PICK u, d, e : u = [s EXCEPT ![i] = e, ![i + 1] = d] /\ d = s[i] /\ e = s[i + 1]
    OBVIOUS
  <2>2. DOMAIN u = DOMAIN s /\ u[i] = e
    BY <1>2, <2>1
  <2> QED BY <1>2, <1>3, <2>1, <2>2 DEF Sink!Verifies
<1> QED BY <1>4, <1>5, <1>6

\* verify_chain notices every change inside a chain any reader holds: the
\* digest an event carries is of the whole event before it
\* (InMemoryAuditSink.append and verify_chain).
THEOREM AlterationShowsHolds == GateSpec => []AlterationShows
<1>1. GateInit => EventsFormed
  BY DEF GateInit, Sink!SinkInit, EventsFormed
<1>2. ASSUME ChainSound, EventsFormed PROVE AlterationShows
  <2>1. ASSUME NEW t \in Threads, NEW n \in DOMAIN view[t] PROVE IsDraft(view[t][n])
    <3>1. PICK v, s : v = view[t] /\ s = events
      OBVIOUS
    <3>2. IsTuple(v) /\ IsTuple(s) /\ IsPrefix(v, s)
      BY <1>2, <3>1 DEF ChainSound
    <3>3. DOMAIN v \subseteq DOMAIN s /\ v[n] = s[n]
      BY <2>1, <3>1, <3>2, PrefixAgrees
    <3> QED BY <1>2, <2>1, <3>1, <3>3 DEF EventsFormed
  <2>2. ASSUME NEW t \in Threads, NEW i \in 1..(Len(view[t]) - 1)
        PROVE  /\ \A entry \in Entries : entry # view[t][i].entry =>
                    ~Sink!Verifies([view[t] EXCEPT ![i].entry = entry])
               /\ ~Sink!Verifies(RemoveAt(view[t], i))
               /\ ~Sink!Verifies([view[t] EXCEPT ![i] = view[t][i + 1], ![i + 1] = view[t][i]])
    <3>1. IsTuple(view[t]) /\ Sink!Verifies(view[t])
      BY <1>2 DEF ChainSound
    <3> QED BY <2>1, <3>1, AlterationsFail, Zenon
  <2> QED BY <2>2, Zenon DEF AlterationShows
<1> QED BY <1>1, <1>2, EventsFormedStep, ChainSoundStep, ChainInvariance, PTL DEF GateSpec

-----------------------------------------------------------------------------
(* Released artifacts *)

\* A thread is in the registry or in the sink, as its stage says, never in both.
OneTask ==
  /\ stage = [t \in Threads |-> stage[t]]
  /\ \A t \in Threads :
       /\ pc[t] # "idle" => stage[t] = "consume"
       /\ at[t] # "out" => stage[t] \in {"audit", "watch"}

Propagates(entry, id) == entry.kind = "ARTIFACT_PROPAGATED" /\ entry.receipt.id = id

\* The thread consumed the id and is on its way to announce it.
Claims(t, id) ==
  \/ pc[t] \in {"release", "return"} /\ answer[t] = "accepted" /\ request[t].id = id
  \/ at[t] \in {"acquire", "build", "append"} /\ Propagates(draft[t].entry, id)

\* An id is claimed by one thread at most, before it is announced, and is
\* announced once.
OneClaim ==
  /\ \A id \in ReceiptIds : \A t \in Threads : Claims(t, id) =>
       /\ \A u \in Threads : Claims(u, id) => u = t
       /\ \A i \in DOMAIN events : ~Propagates(events[i].entry, id)
  /\ \A id \in ReceiptIds : \A i, j \in DOMAIN events :
       Propagates(events[i].entry, id) /\ Propagates(events[j].entry, id) => i = j

Recorded(entry) == \E i \in DOMAIN events : events[i].entry = entry

\* append returns after the event is in the list, and propagate releases after
\* append returned.
OnRecord ==
  /\ \A t \in Threads : at[t] \in {"appended", "recorded"} => Recorded(draft[t].entry)
  /\ \A r \in delivered : Recorded(Entry("ARTIFACT_PROPAGATED", r))

GateInv == RegistryInv /\ ChainSettled /\ ChainSound /\ OneTask

\* Who claims or has announced an id has consumed it.
LEMMA ClaimedIsConsumed ==
  ASSUME RegistryInv, ChainSettled, NEW id \in ReceiptIds
  PROVE  /\ \A t \in Threads : Claims(t, id) => consumed[id] # Unused
         /\ \A i \in DOMAIN events : Propagates(events[i].entry, id) => consumed[id] # Unused
<1>1. ASSUME NEW entry, Settled(entry, consumed), Propagates(entry, id)
      PROVE  consumed[id] # Unused
  BY <1>1, StoreConstants DEF Settled, Propagates, Entries, Receipt
<1>2. ASSUME NEW t \in Threads, pc[t] \in {"release", "return"}, answer[t] = "accepted",
             request[t].id = id
      PROVE  consumed[id] # Unused
  BY <1>2, StoreConstants DEF RegistryInv, LockProtects, TypeOK, Receipt
<1>3. \A t \in Threads : at[t] \in {"acquire", "build", "append"} => Settled(draft[t].entry, consumed)
  BY DEF ChainSettled, Appending
<1> QED BY <1>1, <1>2, <1>3 DEF Claims, ChainSettled

\* A step of one thread that neither claims an id nor appends.
LEMMA NoNewClaim ==
  ASSUME OneClaim, NEW c \in Threads, events' = events,
         \A t \in Threads \ {c} : /\ pc'[t] = pc[t] /\ answer'[t] = answer[t]
                                  /\ request'[t] = request[t]
                                  /\ at'[t] = at[t] /\ draft'[t] = draft[t],
         \A id \in ReceiptIds : Claims(c, id)' => Claims(c, id)
  PROVE  OneClaim'
<1>1. ASSUME NEW id \in ReceiptIds, NEW t \in Threads, Claims(t, id)' PROVE Claims(t, id)
  <2>1. CASE t = c
    BY <1>1, <2>1
  <2>2. CASE t # c
    BY <1>1, <2>2 DEF Claims
  <2> QED BY <2>1, <2>2
<1> QED BY <1>1 DEF OneClaim

\* The thread whose write finds the id unused is its only claimant.
LEMMA StoreClaims ==
  ASSUME GateInv, OneClaim, NEW c \in Threads, Store(c), UNCHANGED sinkVars
  PROVE  OneClaim'
<1>1. /\ consumed[request[c].id] = Unused /\ pc[c] = "store"
      /\ pc' = [pc EXCEPT ![c] = "release"] /\ answer' = [answer EXCEPT ![c] = "accepted"]
      /\ request' = request /\ at' = at /\ draft' = draft /\ events' = events
  BY DEF GateInv, RegistryInv, LockProtects, Store, GoTo, sinkVars
<1>2. at[c] = "out"
  BY <1>1 DEF GateInv, OneTask
<1>3. ASSUME NEW id \in ReceiptIds, NEW t \in Threads, Claims(t, id)'
      PROVE  Claims(t, id) \/ (t = c /\ id = request[c].id)
  <2>1. CASE t = c
    BY <1>1, <1>2, <1>3, <2>1 DEF Claims
  <2>2. CASE t # c
    BY <1>1, <1>3, <2>2 DEF Claims, GateInv, RegistryInv, TypeOK
  <2> QED BY <2>1, <2>2
<1>4. ASSUME NEW id \in ReceiptIds, id = request[c].id
      PROVE  /\ \A t \in Threads : ~Claims(t, id)
             /\ \A i \in DOMAIN events : ~Propagates(events[i].entry, id)
  BY <1>1, <1>4, ClaimedIsConsumed DEF GateInv
<1> QED BY <1>1, <1>3, <1>4 DEF OneClaim

\* The claimant appends, and claims no more.
LEMMA AppendClaims ==
  ASSUME GateInv, OneClaim, NEW c \in Threads, Sink!AppendEvent(c), UNCHANGED vars
  PROVE  OneClaim'
<1>1. PICK s, u, e, n : s = events /\ u = events' /\ e = draft[c] /\ n = Len(s)
  OBVIOUS
<1>2. /\ u = Append(s, e) /\ IsTuple(s) /\ draft' = draft /\ at[c] = "append"
      /\ at' = [at EXCEPT ![c] = "appended"] /\ at = [t \in Threads |-> at[t]]
      /\ pc' = pc /\ answer' = answer /\ request' = request
  BY <1>1 DEF Sink!AppendEvent, Sink!Move, GateInv, ChainSound, vars
<1>3. /\ n \in Nat /\ DOMAIN s = 1..n /\ DOMAIN u = 1..(n + 1)
      /\ u[n + 1] = e /\ \A k \in DOMAIN s : u[k] = s[k]
  BY <1>1, <1>2, AppendTuple
<1>4. pc[c] = "idle"
  BY <1>2 DEF GateInv, OneTask
<1>5. ASSUME NEW id \in ReceiptIds, NEW t \in Threads, Claims(t, id)'
      PROVE  Claims(t, id) /\ t # c
  BY <1>2, <1>4, <1>5 DEF Claims
<1>6. ASSUME NEW i \in DOMAIN u PROVE (i \in DOMAIN s /\ u[i] = s[i]) \/ (i = n + 1 /\ u[i] = e)
  BY <1>3
<1>7. ASSUME NEW id \in ReceiptIds, Propagates(e.entry, id)
      PROVE  Claims(c, id) /\ \A i \in DOMAIN s : ~Propagates(s[i].entry, id)
  BY <1>1, <1>2, <1>7 DEF Claims, OneClaim
<1>8. ASSUME NEW id \in ReceiptIds, NEW t \in Threads, Claims(t, id)'
      PROVE  /\ \A v \in Threads : Claims(v, id)' => v = t
             /\ \A i \in DOMAIN u : ~Propagates(u[i].entry, id)
  <2>1. Claims(t, id) /\ t # c /\ ~Claims(c, id)
    BY <1>5, <1>8, <1>2 DEF OneClaim
  <2>2. \A i \in DOMAIN s : ~Propagates(s[i].entry, id)
    BY <1>1, <2>1 DEF OneClaim
  <2>3. \A v \in Threads : Claims(v, id)' => v = t
    BY <1>5, <2>1 DEF OneClaim
  <2> QED BY <1>6, <1>7, <2>1, <2>2, <2>3
<1>9. ASSUME NEW id \in ReceiptIds, NEW i \in DOMAIN u, NEW j \in DOMAIN u,
             Propagates(u[i].entry, id), Propagates(u[j].entry, id)
      PROVE  i = j
  <2>1. CASE i \in DOMAIN s /\ j \in DOMAIN s
    BY <1>1, <1>3, <1>9, <2>1 DEF OneClaim
  <2> QED BY <1>6, <1>7, <1>9, <2>1
<1> QED BY <1>1, <1>8, <1>9 DEF OneClaim

LEMMA OneTaskStep == RegistryInv /\ ChainSound /\ OneTask /\ [GateNext]_allVars => OneTask'
<1> SUFFICES ASSUME RegistryInv, ChainSound, OneTask, [GateNext]_allVars PROVE OneTask'
  OBVIOUS
<1>0. /\ DOMAIN pc = Threads /\ DOMAIN at = Threads /\ DOMAIN stage = Threads
      /\ stage = [t \in Threads |-> stage[t]] /\ at = [t \in Threads |-> at[t]]
  BY DEF RegistryInv, TypeOK, ChainSound, OneTask
<1>1. CASE UNCHANGED allVars
  BY <1>1 DEF allVars, vars, sinkVars, gateVars, OneTask
<1> USE <1>0 DEF OneTask, GoTo, Enter, Sink!Move
<1>2. ASSUME NEW c \in Threads, NEW r \in Receipt, Propagate(c, r) PROVE OneTask'
  BY <1>2 DEF Propagate, Call, sinkVars
<1>3. ASSUME NEW c \in Threads, NEW r \in Receipt, Refuse(c, r) PROVE OneTask'
  BY <1>3 DEF Refuse, Sink!CallAppend
<1>4. ASSUME NEW c \in Threads, Consuming(c) PROVE OneTask'
  <2>1. UNCHANGED <<at, stage>> /\ stage[c] = "consume"
        /\ \A t \in Threads \ {c} : pc'[t] = pc[t]
    BY <1>4 DEF Consuming, Acquire, GetExisting, Store, Release, sinkVars, gateVars
  <2> QED BY <2>1
<1>5. ASSUME NEW c \in Threads, Consumed(c) PROVE OneTask'
  BY <1>5 DEF Consumed, Return, Sink!CallAppend
<1>6. ASSUME NEW c \in Threads, SinkRuns(c) PROVE OneTask'
  <2>1. UNCHANGED <<pc, stage>> /\ stage[c] \in {"audit", "watch"}
        /\ \A t \in Threads \ {c} : at'[t] = at[t]
    BY <1>6 DEF SinkRuns, Sink!SinkStep, Sink!AcquireSink, Sink!Build, Sink!BuildFails,
       Sink!AppendEvent, Sink!Copy, Sink!ReleaseSink, vars, gateVars
  <2> QED BY <2>1
<1>7. ASSUME NEW c \in Threads, Finish(c) PROVE OneTask'
  BY <1>7 DEF Finish, Sink!Leave, vars
<1>8. ASSUME NEW c \in Threads, Watch(c) PROVE OneTask'
  BY <1>8 DEF Watch, Sink!CallSnapshot, vars
<1>9. ASSUME NEW c \in Threads, Watched(c) PROVE OneTask'
  BY <1>9 DEF Watched, vars, sinkVars
<1>10. ASSUME NEW c \in Threads, Strike(c) PROVE OneTask'
  BY <1>10 DEF Strike, Interrupt, Sink!InterruptSink, sinkVars
<1> QED
  BY <1>1, <1>2, <1>3, <1>4, <1>5, <1>6, <1>7, <1>8, <1>9, <1>10 DEF GateNext, GateStep

LEMMA OneClaimStep == GateInv /\ OneClaim /\ [GateNext]_allVars => OneClaim'
<1> SUFFICES ASSUME GateInv, OneClaim, [GateNext]_allVars PROVE OneClaim'
  OBVIOUS
<1>0. /\ DOMAIN pc = Threads /\ DOMAIN at = Threads /\ DOMAIN draft = Threads
      /\ DOMAIN request = Threads /\ DOMAIN answer = Threads
      /\ \A t \in Threads : /\ pc[t] # "idle" => stage[t] = "consume"
                            /\ at[t] # "out" => stage[t] \in {"audit", "watch"}
  BY DEF GateInv, RegistryInv, TypeOK, ChainSound, OneTask
<1>1. CASE UNCHANGED allVars
  BY <1>1 DEF allVars, vars, sinkVars, OneClaim, Claims
<1> USE <1>0 DEF GoTo, Enter, Sink!Move
<1>2. ASSUME NEW c \in Threads, NEW r \in Receipt, Propagate(c, r) PROVE OneClaim'
  <2>1. pc'[c] = "acquire" /\ at'[c] = "out"
    BY <1>2 DEF Propagate, Call, sinkVars
  <2> QED BY <1>2, <2>1, NoNewClaim DEF Propagate, Call, sinkVars, Claims
<1>3. ASSUME NEW c \in Threads, NEW r \in Receipt, Refuse(c, r) PROVE OneClaim'
  <2>1. pc'[c] = "idle" /\ draft'[c].entry.kind = "PROPAGATION_BLOCKED"
    BY <1>3 DEF Refuse, Sink!CallAppend, Sink!NoEvent, Entry
  <2> QED BY <1>3, <2>1, NoNewClaim DEF Refuse, Sink!CallAppend, Claims, Propagates
<1>4. ASSUME NEW c \in Threads, Consuming(c) PROVE OneClaim'
  <2>1. CASE Store(c)
    BY <1>4, <2>1, StoreClaims DEF Consuming
  <2>2. CASE Acquire(c) \/ GetExisting(c) \/ Release(c)
    BY <1>4, <2>2, NoNewClaim DEF Consuming, Acquire, GetExisting, Release, Claims, sinkVars
  <2> QED BY <1>4, <2>1, <2>2 DEF Consuming
<1>5. ASSUME NEW c \in Threads, Consumed(c) PROVE OneClaim'
  <2>1. /\ pc[c] = "return" /\ pc'[c] = "idle" /\ UNCHANGED <<request, answer, events>>
        /\ \A t \in Threads \ {c} : pc'[t] = pc[t] /\ at'[t] = at[t] /\ draft'[t] = draft[t]
        /\ draft'[c].entry = Entry(IF answer[c] = "accepted" THEN "ARTIFACT_PROPAGATED"
                                   ELSE "PROPAGATION_BLOCKED", request[c])
    BY <1>5 DEF Consumed, Return, Sink!CallAppend, Sink!NoEvent
  <2> QED BY <2>1, NoNewClaim DEF Claims, Propagates, Entry
<1>6. ASSUME NEW c \in Threads, SinkRuns(c) PROVE OneClaim'
  <2>1. CASE Sink!AppendEvent(c)
    BY <1>6, <2>1, AppendClaims DEF SinkRuns
  <2>2. CASE Sink!Build(c)
    <3>1. /\ UNCHANGED <<events, pc, request, answer>> /\ at[c] = "build"
          /\ \A t \in Threads \ {c} : at'[t] = at[t] /\ draft'[t] = draft[t]
      BY <1>6, <2>2 DEF SinkRuns, Sink!Build, vars
    <3>2. draft'[c].entry = draft[c].entry
      BY <2>2, <3>1 DEF Sink!Build, GateInv, ChainSound, IsDraft
    <3> QED BY <3>1, <3>2, NoNewClaim DEF Claims
  <2>3. UNCHANGED <<pc, request, answer>>
    BY <1>6 DEF SinkRuns, vars
  <2>4. CASE Sink!AcquireSink(c)
    BY <2>3, <2>4, NoNewClaim DEF Sink!AcquireSink, Claims
  <2>5. CASE Sink!BuildFails(c)
    BY <2>3, <2>5, NoNewClaim DEF Sink!BuildFails, Claims
  <2>6. CASE Sink!Copy(c)
    BY <2>3, <2>6, NoNewClaim DEF Sink!Copy, Claims
  <2>7. CASE Sink!ReleaseSink(c)
    BY <2>3, <2>7, NoNewClaim DEF Sink!ReleaseSink, Claims
  <2> QED BY <1>6, <2>1, <2>2, <2>4, <2>5, <2>6, <2>7 DEF SinkRuns, Sink!SinkStep
<1>7. ASSUME NEW c \in Threads, Finish(c) PROVE OneClaim'
  BY <1>7, NoNewClaim DEF Finish, Sink!Leave, vars, Claims
<1>8. ASSUME NEW c \in Threads, Watch(c) PROVE OneClaim'
  BY <1>8, NoNewClaim DEF Watch, Sink!CallSnapshot, vars, Claims
<1>9. ASSUME NEW c \in Threads, Watched(c) PROVE OneClaim'
  BY <1>9, NoNewClaim DEF Watched, vars, sinkVars, Claims
<1>10. ASSUME NEW c \in Threads, Strike(c) PROVE OneClaim'
  <2>1. CASE Interrupt(c) /\ UNCHANGED sinkVars
    BY <2>1, NoNewClaim DEF Interrupt, sinkVars, Claims
  <2>2. CASE Sink!InterruptSink(c) /\ UNCHANGED <<pc, request, answer>>
    BY <2>2, NoNewClaim DEF Sink!InterruptSink, Claims
  <2> QED BY <1>10, <2>1, <2>2 DEF Strike
<1> QED
  BY <1>1, <1>2, <1>3, <1>4, <1>5, <1>6, <1>7, <1>8, <1>9, <1>10 DEF GateNext, GateStep

\* What is on record stays on record.
LEMMA RecordedStays ==
  ASSUME GateInv, [GateNext]_allVars
  PROVE  /\ \A entry : Recorded(entry) => Recorded(entry)'
         /\ \A c \in Threads : Sink!AppendEvent(c) => Recorded(draft[c].entry)'
<1>1. CASE events' = events
  <2>1. \A c \in Threads : ~Sink!AppendEvent(c)
    <3> SUFFICES ASSUME NEW c \in Threads, Sink!AppendEvent(c) PROVE FALSE
      OBVIOUS
    <3>1. PICK s, e : s = events /\ e = draft[c] /\ s = Append(s, e) /\ IsTuple(s)
      BY <1>1 DEF Sink!AppendEvent, GateInv, ChainSound
    <3>2. Len(s) \in Nat /\ 1..Len(s) = 1..(Len(s) + 1)
      BY <3>1, AppendTuple
    <3> QED BY <3>2
  <2> QED BY <1>1, <2>1 DEF Recorded
<1>2. ASSUME NEW c \in Threads, Sink!AppendEvent(c)
      PROVE  (\A entry : Recorded(entry) => Recorded(entry)') /\ Recorded(draft[c].entry)'
  <2>1. PICK s, u, e, n : s = events /\ u = events' /\ e = draft[c] /\ n = Len(s)
    OBVIOUS
  <2>2. u = Append(s, e) /\ IsTuple(s) /\ draft' = draft
    BY <1>2, <2>1 DEF Sink!AppendEvent, GateInv, ChainSound
  <2>3. /\ n \in Nat /\ DOMAIN s = 1..n /\ DOMAIN u = 1..(n + 1)
        /\ u[n + 1] = e /\ \A k \in DOMAIN s : u[k] = s[k]
    BY <2>1, <2>2, AppendTuple
  <2>4. DOMAIN s \subseteq DOMAIN u /\ n + 1 \in DOMAIN u
    BY <2>3
  <2> QED BY <2>1, <2>2, <2>3, <2>4 DEF Recorded
<1>3. events' = events \/ \E c \in Threads : Sink!AppendEvent(c)
  BY GateStepOfSink DEF SinkMoves, Sink!CallAppend, Sink!CallSnapshot, Sink!SinkStep, Sink!Leave,
     Sink!InterruptSink, Sink!AcquireSink, Sink!Build, Sink!BuildFails, Sink!Copy,
     Sink!ReleaseSink, sinkVars
<1>4. ASSUME NEW c \in Threads, Sink!AppendEvent(c), NEW d \in Threads, Sink!AppendEvent(d)
      PROVE  Recorded(draft[d].entry)'
  BY <1>2, <1>4
<1> QED BY <1>1, <1>2, <1>3, <1>4

LEMMA OnRecordStep == GateInv /\ OnRecord /\ [GateNext]_allVars => OnRecord'
<1> SUFFICES ASSUME GateInv, OnRecord, [GateNext]_allVars PROVE OnRecord'
  OBVIOUS
<1>0. at = [t \in Threads |-> at[t]] /\ draft = [t \in Threads |-> draft[t]]
  BY DEF GateInv, ChainSound
<1>1. \A entry : Recorded(entry) => Recorded(entry)'
  BY RecordedStays
\* Who is past append had its event in the list before, or has just appended it.
<1>2. ASSUME NEW t \in Threads, at'[t] \in {"appended", "recorded"}
      PROVE  /\ draft'[t].entry = draft[t].entry
             /\ at[t] \in {"appended", "recorded"} \/ Sink!AppendEvent(t)
  <2>1. CASE UNCHANGED sinkVars
    BY <1>2, <2>1 DEF sinkVars
  <2>2. ASSUME NEW c \in Threads, SinkMoves(c), c # t
        PROVE  at'[t] = at[t] /\ draft'[t] = draft[t]
    BY <1>0, <2>2 DEF SinkMoves, Sink!CallAppend, Sink!CallSnapshot, Sink!SinkStep, Sink!Leave,
       Sink!InterruptSink, Sink!AcquireSink, Sink!Build, Sink!BuildFails, Sink!AppendEvent,
       Sink!Copy, Sink!ReleaseSink, Sink!Move
  <2>3. CASE SinkMoves(t)
    <3>1. CASE Sink!AppendEvent(t)
      BY <3>1 DEF Sink!AppendEvent
    <3>2. CASE Sink!ReleaseSink(t)
      BY <1>0, <1>2, <3>2 DEF Sink!ReleaseSink, Sink!Move
    <3>3. CASE \/ (\E e : Sink!CallAppend(t, e)) \/ Sink!CallSnapshot(t) \/ Sink!AcquireSink(t)
               \/ Sink!Build(t) \/ Sink!BuildFails(t) \/ Sink!Copy(t)
      <4>1. at' = [at EXCEPT ![t] = at'[t]] /\ at'[t] \notin {"appended", "recorded"}
        BY <1>0, <3>3 DEF Sink!CallAppend, Sink!CallSnapshot, Sink!AcquireSink, Sink!Build,
           Sink!BuildFails, Sink!Copy, Sink!Move
      <4> QED BY <1>2, <4>1
    <3>4. CASE Sink!Leave(t) \/ Sink!InterruptSink(t)
      BY <1>0, <1>2, <3>4 DEF Sink!Leave, Sink!InterruptSink
    <3> QED BY <2>3, <3>1, <3>2, <3>3, <3>4 DEF SinkMoves, Sink!SinkStep
  <2> QED BY <1>2, <2>1, <2>2, <2>3, GateStepOfSink
<1>3. ASSUME NEW t \in Threads, at'[t] \in {"appended", "recorded"}
      PROVE  Recorded(draft[t].entry)'
  <2>1. CASE at[t] \in {"appended", "recorded"}
    <3>1. PICK entry : entry = draft[t].entry
      OBVIOUS
    <3>2. Recorded(entry)
      BY <2>1, <3>1 DEF OnRecord
    <3>3. Recorded(entry)' /\ draft'[t].entry = entry
      BY <1>1, <1>2, <1>3, <3>1, <3>2
    <3> QED BY <3>3 DEF Recorded
  <2> QED BY <1>2, <1>3, <2>1, RecordedStays
<1>4. ASSUME NEW r \in delivered' PROVE Recorded(Entry("ARTIFACT_PROPAGATED", r))'
  <2>1. CASE r \in delivered
    BY <1>1, <2>1 DEF OnRecord
  <2>2. CASE r \notin delivered
    <3>1. PICK c \in Threads : Finish(c)
      BY <1>4, <2>2 DEF GateNext, GateStep, Propagate, Refuse, Consuming, Consumed, SinkRuns,
         Watch, Watched, Strike, allVars, gateVars
    <3>2. /\ at[c] = "recorded" /\ r \in Released(draft[c].entry)
      BY <1>4, <2>2, <3>1 DEF Finish
    <3>3. draft[c].entry.kind = "ARTIFACT_PROPAGATED" /\ r = draft[c].entry.receipt
      BY <3>2 DEF Released
    <3>4. draft[c].entry \in Entries
      BY <3>2 DEF GateInv, ChainSettled, Appending, Settled
    <3>5. PICK entry : entry = draft[c].entry
      OBVIOUS
    <3>6. entry = Entry("ARTIFACT_PROPAGATED", r)
      BY <3>3, <3>4, <3>5 DEF Entries, Entry
    <3>7. Recorded(entry)
      BY <3>2, <3>5 DEF OnRecord
    <3> QED BY <1>1, <3>6, <3>7
  <2> QED BY <2>1, <2>2
<1> QED BY <1>3, <1>4 DEF OnRecord

\* The artifact of a receipt id is released once at most, and no caller holds
\* one that the chain does not announce, whatever threads race, replay or are
\* interrupted: consume and append are two locked changes, made in this order
\* (TrustGate.propagate).
THEOREM ReleaseIsOnRecordHolds == GateSpec => []ReleaseIsOnRecord
<1>1. GateInit => OneTask /\ OneClaim /\ OnRecord
  BY DEF GateInit, Init, Sink!SinkInit, OneTask, OneClaim, OnRecord, Claims
<1>2. ASSUME ChainSettled, OneClaim, OnRecord PROVE ReleaseIsOnRecord
  <2>1. ASSUME NEW i \in DOMAIN events, events[i].entry.kind = "ARTIFACT_PROPAGATED"
        PROVE  events[i].entry.receipt.id \in ReceiptIds
    BY <1>2, <2>1 DEF ChainSettled, Settled, Entries, Receipt
  <2> QED BY <1>2, <2>1 DEF ReleaseIsOnRecord, OneClaim, OnRecord, Recorded, Propagates
<1>3. GateInit => RegistryInv
  BY RegistryInit DEF GateInit
<1>4. GateInv <=> RegistryInv /\ ChainSettled /\ ChainSound /\ OneTask
  BY DEF GateInv
<1> QED
  BY <1>1, <1>2, <1>3, <1>4, ChainSettledInit, ChainInvariance, RegistryInvStep,
     ChainSettledStep, OneTaskStep, OneClaimStep, OnRecordStep, PTL DEF GateSpec
=============================================================================
