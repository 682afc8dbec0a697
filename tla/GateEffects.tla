---------------------------- MODULE GateEffects ----------------------------
(***************************************************************************)
(* TrustGate.propagate (gate.py) over the two shared objects it changes,   *)
(* each behind a lock of its own: the receipt-use registry, then the audit *)
(* sink.  Nothing makes the two changes one: other threads propagate, read *)
(* the chain and are interrupted between any two statements of either.     *)
(***************************************************************************)
EXTENDS MemoryUseStore, Sequences, SequencesExt, FiniteSets

CONSTANTS MaxViews   \* bound: snapshots taken in one behaviour

VARIABLES
  events, sinkLock, at, draft, view,  \* of the sink
  stage,      \* thread -> "out", "consume", "audit" or "watch"
  delivered,  \* receipts for which propagate returned an artifact
  views       \* snapshots taken (bounded by MaxViews)

Sink == INSTANCE AuditChain WITH Callers <- Threads, Nobody <- NoThread

sinkVars == <<events, sinkLock, at, draft, view>>
gateVars == <<stage, delivered, views>>
allVars == <<vars, sinkVars, gateVars>>

Entry(kind, r) == [kind |-> kind, receipt |-> r]
Entries == [kind : {"ARTIFACT_PROPAGATED", "PROPAGATION_BLOCKED"}, receipt : Receipt]

GateInit ==
  /\ Init
  /\ Sink!SinkInit
  /\ stage = [t \in Threads |-> "out"]
  /\ delivered = {}
  /\ views = 0

Enter(t, from, to) ==
  /\ stage[t] = from
  /\ stage' = [stage EXCEPT ![t] = to]

\* The receipt passes validation and is VERIFIED: propagate calls consume.
Propagate(t, r) ==
  /\ Enter(t, "out", "consume")
  /\ Call(t, r)
  /\ UNCHANGED <<sinkVars, delivered, views>>

\* Validation or the verdict check raises: the registry is left alone.
Refuse(t, r) ==
  /\ calls < MaxCalls
  /\ calls' = calls + 1
  /\ Enter(t, "out", "audit")
  /\ Sink!CallAppend(t, Entry("PROPAGATION_BLOCKED", r))
  /\ UNCHANGED <<consumed, lock, pc, request, answer, acceptedIds, interrupts, delivered, views>>

Consuming(t) ==
  /\ stage[t] = "consume"
  /\ Acquire(t) \/ GetExisting(t) \/ Store(t) \/ Release(t)
  /\ UNCHANGED <<sinkVars, gateVars>>

\* Mutant: every attempt is audited as a propagation before it is known to be one.
ConsumedAsPropagated(t) ==
  /\ Enter(t, "consume", "audit")
  /\ Return(t)
  /\ Sink!CallAppend(t, Entry("ARTIFACT_PROPAGATED", request[t]))
  /\ UNCHANGED <<delivered, views>>

\* consume returns or raises: the one event of this call is appended.
Consumed(t) ==
  /\ Enter(t, "consume", "audit")
  /\ Return(t)
  /\ Sink!CallAppend(t, Entry(IF answer[t] = "accepted" THEN "ARTIFACT_PROPAGATED"
                                                        ELSE "PROPAGATION_BLOCKED",
                              request[t]))
  /\ UNCHANGED <<delivered, views>>

SinkRuns(t) ==
  /\ stage[t] \in {"audit", "watch"}
  /\ Sink!SinkStep(t)
  /\ UNCHANGED <<vars, gateVars>>

Released(entry) ==
  IF entry.kind = "ARTIFACT_PROPAGATED" THEN {entry.receipt} ELSE {}

\* Mutant: a sink that refuses the event does not keep the artifact back.
FinishAnyway(t) ==
  /\ Enter(t, "audit", "out")
  /\ Sink!Leave(t)
  /\ delivered' = delivered \cup Released(draft[t].entry)
  /\ UNCHANGED <<vars, views>>

\* append returned or raised: propagate returns the artifact, or raises.
Finish(t) ==
  /\ Enter(t, "audit", "out")
  /\ Sink!Leave(t)
  /\ delivered' = delivered \cup
       (IF at[t] = "recorded" THEN Released(draft[t].entry) ELSE {})
  /\ UNCHANGED <<vars, views>>

\* A thread reads the whole chain, as verify_chain does.
Watch(t) ==
  /\ views < MaxViews
  /\ views' = views + 1
  /\ Enter(t, "out", "watch")
  /\ Sink!CallSnapshot(t)
  /\ UNCHANGED <<vars, delivered>>

Watched(t) ==
  /\ Enter(t, "watch", "out")
  /\ at[t] = "out"
  /\ UNCHANGED <<vars, sinkVars, delivered, views>>

\* KeyboardInterrupt or GeneratorExit inside propagate: it leaves the locks by
\* the with blocks, skips the audit and raises.
Strike(t) ==
  /\ \/ stage[t] = "consume" /\ Interrupt(t) /\ UNCHANGED sinkVars
     \/ stage[t] = "audit" /\ InterruptBudget /\ Sink!InterruptSink(t)
        /\ UNCHANGED <<consumed, lock, pc, request, answer, acceptedIds, calls>>
  /\ stage' = [stage EXCEPT ![t] = "out"]
  /\ UNCHANGED <<delivered, views>>

GateStep(t) ==
  Consuming(t) \/ Consumed(t) \/ SinkRuns(t) \/ Finish(t) \/ Watched(t)

GateNext ==
  \E t \in Threads :
    \/ \E r \in Receipt : Propagate(t, r) \/ Refuse(t, r)
    \/ GateStep(t) \/ Watch(t) \/ Strike(t)

\* A thread inside propagate keeps running; nothing makes a caller call or an
\* interrupt strike.
GateSpec ==
  /\ GateInit /\ [][GateNext]_allVars
  /\ \A t \in Threads : WF_allVars(GateStep(t))

-----------------------------------------------------------------------------
(* Properties *)

\* Whoever reads the chain, at whatever moment, finds it intact: numbers and
\* digests fit, and what was read before is a prefix of what is read later.
ChainVerifies ==
  \A t \in Threads :
    /\ Sink!Verifies(view[t])
    /\ IsPrefix(view[t], events)

\* verify_chain notices every alteration inside the chain: an event with other
\* contents, one taken out, or two exchanged.  Only the last event has nobody
\* to testify for it.
AlterationShows ==
  \A t \in Threads : LET chain == view[t] IN \A i \in 1..(Len(chain) - 1) :
    /\ \A entry \in Entries :
         entry # chain[i].entry => ~Sink!Verifies([chain EXCEPT ![i].entry = entry])
    /\ ~Sink!Verifies(RemoveAt(chain, i))
    /\ ~Sink!Verifies([chain EXCEPT ![i] = chain[i + 1], ![i + 1] = chain[i]])

\* An artifact a caller holds has its event in the chain, and a receipt id has
\* at most one such event, whatever threads race, replay or are interrupted.
ReleaseIsOnRecord ==
  /\ \A r \in delivered : \E i \in DOMAIN events :
       events[i].entry = Entry("ARTIFACT_PROPAGATED", r)
  /\ \A i, j \in DOMAIN events :
       /\ events[i].entry.kind = "ARTIFACT_PROPAGATED"
       /\ events[j].entry.kind = "ARTIFACT_PROPAGATED"
       /\ events[i].entry.receipt.id = events[j].entry.receipt.id
       => i = j

\* A receipt on record as propagated stays consumed, with that very digest.
PropagatedIsConsumed ==
  \A i \in DOMAIN events : events[i].entry.kind = "ARTIFACT_PROPAGATED" =>
    consumed[events[i].entry.receipt.id] = events[i].entry.receipt.digest

\* Two locks, taken one after the other, refusals, replays and interrupts: every
\* call of propagate and every reader comes back.
EveryCallEnds == \A t \in Threads : stage[t] # "out" ~> stage[t] = "out"
=============================================================================
