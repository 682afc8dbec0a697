----------------------------- MODULE AuditChain -----------------------------
(***************************************************************************)
(* InMemoryAuditSink (audit.py): a list of events behind one lock, each    *)
(* event carrying the digest of the one before it.  Each statement of      *)
(* append and snapshot is a step.  A digest is the value it digests, so an *)
(* event carries its whole history.  The module has no specification of    *)
(* its own: GateEffects drives it.                                         *)
(***************************************************************************)
EXTENDS Naturals, Sequences, SequencesExt

CONSTANTS
  Callers,   \* threads that use the sink
  Nobody     \* the holder of a free lock

VARIABLES
  events,      \* _events
  sinkLock,    \* holder of _lock
  at,          \* caller -> statement it executes next
  draft,       \* caller -> the event it is building
  view         \* caller -> the last snapshot it took

sinkVars == <<events, sinkLock, at, draft, view>>

NoDigest == <<>>
DigestOf(event) == <<event>>

NoEvent == [sequence |-> 0, entry |-> "none", previous |-> NoDigest]

SinkInit ==
  /\ events = <<>>
  /\ sinkLock = Nobody
  /\ at = [c \in Callers |-> "out"]
  /\ draft = [c \in Callers |-> NoEvent]
  /\ view = [c \in Callers |-> <<>>]

Move(c, from, to) ==
  /\ at[c] = from
  /\ at' = [at EXCEPT ![c] = to]

\* append(context_id, kind, subject_digest, details): the four are one entry.
CallAppend(c, entry) ==
  /\ Move(c, "out", "acquire")
  /\ draft' = [draft EXCEPT ![c] = [NoEvent EXCEPT !.entry = entry]]
  /\ UNCHANGED <<events, sinkLock, view>>

CallSnapshot(c) ==
  /\ Move(c, "out", "acquire_view")
  /\ UNCHANGED <<events, sinkLock, draft, view>>

\* Mutant: append without the lock.
AcquireFree(c) ==
  /\ \/ Move(c, "acquire", "build")
     \/ Move(c, "acquire_view", "copy")
  /\ sinkLock' = c
  /\ UNCHANGED <<events, draft, view>>

\* with self._lock:
AcquireSink(c) ==
  /\ \/ Move(c, "acquire", "build")
     \/ Move(c, "acquire_view", "copy")
  /\ sinkLock = Nobody
  /\ sinkLock' = c
  /\ UNCHANGED <<events, draft, view>>

\* previous_digest = ...; event = AuditEvent(sequence=len(self._events) + 1, ...)
Build(c) ==
  /\ Move(c, "build", "append")
  /\ draft' = [draft EXCEPT
       ![c].sequence = Len(events) + 1,
       ![c].previous = IF events = <<>> THEN NoDigest ELSE DigestOf(Last(events))]
  /\ UNCHANGED <<events, sinkLock, view>>

\* The constructor refuses the entry: append raises, nothing is recorded.
BuildFails(c) ==
  /\ Move(c, "build", "raised")
  /\ UNCHANGED <<events, sinkLock, draft, view>>

\* self._events.append(event)
AppendEvent(c) ==
  /\ Move(c, "append", "appended")
  /\ events' = Append(events, draft[c])
  /\ UNCHANGED <<sinkLock, draft, view>>

\* return tuple(self._events)
Copy(c) ==
  /\ Move(c, "copy", "copied")
  /\ view' = [view EXCEPT ![c] = events]
  /\ UNCHANGED <<events, sinkLock, draft>>

\* Mutant: an append that raises keeps the lock.
ReleaseOnReturn(c) ==
  /\ \/ Move(c, "appended", "recorded")
     \/ Move(c, "raised", "refused")
     \/ Move(c, "copied", "out")
  /\ sinkLock' = IF at[c] = "raised" THEN sinkLock ELSE Nobody
  /\ UNCHANGED <<events, draft, view>>

\* Leaving the with block, by return or by raise.  An append ends "recorded"
\* or "refused" until its caller takes note (Leave).
ReleaseSink(c) ==
  /\ \/ Move(c, "appended", "recorded")
     \/ Move(c, "raised", "refused")
     \/ Move(c, "copied", "out")
  /\ sinkLock' = Nobody
  /\ UNCHANGED <<events, draft, view>>

\* The caller has the event, or the exception.
Leave(c) ==
  /\ at[c] \in {"recorded", "refused"}
  /\ at' = [at EXCEPT ![c] = "out"]
  /\ draft' = [draft EXCEPT ![c] = NoEvent]
  /\ UNCHANGED <<events, sinkLock, view>>

SinkStep(c) ==
  \/ AcquireSink(c) \/ Build(c) \/ BuildFails(c)
  \/ AppendEvent(c) \/ Copy(c) \/ ReleaseSink(c)

\* An interrupt strikes between two statements: the with block gives the lock
\* back, and the caller learns nothing of what append did.
InterruptSink(c) ==
  /\ at[c] # "out"
  /\ at' = [at EXCEPT ![c] = "out"]
  /\ sinkLock' = IF sinkLock = c THEN Nobody ELSE sinkLock
  /\ draft' = [draft EXCEPT ![c] = NoEvent]
  /\ UNCHANGED <<events, view>>

\* Mutant: the loop numbers the events and forgets to compare the digests.
VerifiesNumbers(chain) ==
  \A i \in DOMAIN chain : chain[i].sequence = i

\* verify_chain, for a snapshot of the whole list.
Verifies(chain) ==
  \A i \in DOMAIN chain :
    /\ chain[i].sequence = i
    /\ chain[i].previous = IF i = 1 THEN NoDigest ELSE DigestOf(chain[i - 1])
=============================================================================
