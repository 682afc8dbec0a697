------------------------- MODULE ChildProcessProofs -------------------------
(* The two components that run children they do not trust: what the verifier *)
(* registry promises of its evidence, for every registry, plan and output    *)
(* limit; and in the second half what an agent provider promises of its      *)
(* answer, for every document and every limit.                               *)
EXTENDS VerifierRegistry, AgentProviders, FiniteSetTheorems, WellFoundedInduction, TLAPS

-----------------------------------------------------------------------------
(* Tuples, whatever their elements *)

IsTuple(s) == s \in Seq({s[n] : n \in DOMAIN s})

LEMMA TupleFacts ==
  ASSUME NEW s, IsTuple(s)
  PROVE  Len(s) \in Nat /\ DOMAIN s = 1..Len(s)
BY DEF IsTuple

LEMMA LastInDomain ==
  ASSUME NEW s, IsTuple(s), s # <<>>
  PROVE  Len(s) \in DOMAIN s
<1>1. s \in Seq({s[n] : n \in DOMAIN s}) /\ Len(s) \in Nat /\ DOMAIN s = 1..Len(s)
  BY TupleFacts DEF IsTuple
<1>2. Len(s) # 0
  BY <1>1
<1> QED BY <1>1, <1>2

LEMMA SeqIsTuple ==
  ASSUME NEW S, NEW s \in Seq(S)
  PROVE  IsTuple(s)
<1>1. DOMAIN s = 1..Len(s) /\ Len(s) \in Nat /\ s \in [1..Len(s) -> S]
  OBVIOUS
<1>2. s \in [1..Len(s) -> {s[n] : n \in DOMAIN s}]
  BY <1>1
<1> QED BY <1>1, <1>2 DEF IsTuple

\* Append keeps what is there and adds one element.
LEMMA AppendTuple ==
  ASSUME NEW s, IsTuple(s), NEW e
  PROVE  /\ IsTuple(Append(s, e)) /\ Len(Append(s, e)) = Len(s) + 1
         /\ Append(s, e)[Len(s) + 1] = e
         /\ \A n \in DOMAIN s : Append(s, e)[n] = s[n]
<1> DEFINE S == {s[n] : n \in DOMAIN s} \cup {e}
<1>1. s \in Seq(S)
  BY DEF IsTuple
<1>2. Append(s, e) \in Seq(S)
  BY <1>1
<1>3. IsTuple(Append(s, e))
  BY <1>2, SeqIsTuple
<1> QED BY <1>1, <1>3

\* An update keeps the length and every other element.
LEMMA UpdateTuple ==
  ASSUME NEW s, IsTuple(s), NEW n \in DOMAIN s, NEW e
  PROVE  LET t == [s EXCEPT ![n] = e] IN
         /\ IsTuple(t) /\ Len(t) = Len(s) /\ t[n] = e
         /\ \A m \in DOMAIN s : m # n => t[m] = s[m]
<1> DEFINE S == {s[m] : m \in DOMAIN s} \cup {e}
           t == [s EXCEPT ![n] = e]
<1>1. s \in Seq(S)
  BY DEF IsTuple
<1>2. t \in Seq(S) /\ Len(t) = Len(s)
  BY <1>1
<1>3. IsTuple(t)
  BY <1>2, SeqIsTuple
<1> QED BY <1>1, <1>2, <1>3

-----------------------------------------------------------------------------
(* The inductive invariant *)

Granted(a, k) ==
  /\ a.item = k
  /\ a.verdict = "ALLOW" \/ (a.verdict = "REQUIRE_APPROVAL" /\ a.approval = "true")

\* The current obligation: what has been asked and called for it so far.
AtStage ==
  /\ stage \in {"resolver", "granted", "wait"} => Routed
  /\ stage = "resolver" =>
       /\ asked # <<>>
       /\ asked[Len(asked)] = [item |-> item, verdict |-> "REQUIRE_APPROVAL", approval |-> "none"]
  /\ stage \in {"granted", "wait"} => \E g \in DOMAIN asked : Granted(asked[g], item)
  /\ stage = "wait" =>
       /\ runs # <<>> /\ runs[Len(runs)] = Called(Nothing, NoChild)
       /\ current.kind = Command

\* Calls were made for obligations whose turn has come, one for each.
CallsInOrder ==
  \A n \in DOMAIN runs :
    /\ runs[n].item \in 1..item
    /\ runs[n].item = item /\ stage \notin {"raised"} => stage = "wait" /\ n = Len(runs)

IInv ==
  /\ IsTuple(observations) /\ IsTuple(asked) /\ IsTuple(runs)
  /\ AtStage /\ CallsInOrder
  /\ EvidenceIsEarned /\ NothingRunsUngranted

LEMMA IInvInit == Init => IInv
<1> SUFFICES ASSUME Init PROVE IInv
  OBVIOUS
<1>1. IsTuple(<<>>)
  BY DEF IsTuple
<1> QED
  BY <1>1 DEF Init, IInv, AtStage, CallsInOrder, EvidenceIsEarned, NothingRunsUngranted

\* An observation that is an error or earned by the run of its obligation
\* extends the evidence and makes the next obligation current.
LEMMA Recording ==
  ASSUME IInv, NEW status, Record(status),
         UNCHANGED <<plan, plugins>>, IsTuple(runs'),
         \A n \in DOMAIN runs' : runs'[n].item \in 1..item,
         \A n \in DOMAIN runs : runs[n].item # item => n \in DOMAIN runs' /\ runs'[n] = runs[n],
         status # "ERROR" =>
           \E n \in DOMAIN runs' : Earned(runs'[n], item, Observation(current.id, status))
  PROVE  IsTuple(observations') /\ AtStage' /\ CallsInOrder' /\ EvidenceIsEarned'
<1> DEFINE o == Observation(current.id, status)
<1>1. IsTuple(observations) /\ observations' = Append(observations, o)
  BY DEF IInv, Record
<1>2. /\ IsTuple(observations') /\ Len(observations') = Len(observations) + 1
      /\ observations'[item] = o
      /\ \A k \in DOMAIN observations : observations'[k] = observations[k]
  BY <1>1, AppendTuple DEF item
<1>3. item' = item + 1 /\ item \in Nat
  BY <1>1, <1>2, TupleFacts DEF item
<1>4. AtStage' /\ CallsInOrder'
  BY <1>3 DEF Record, AtStage, CallsInOrder
<1>5. ASSUME NEW k \in DOMAIN observations'
      PROVE  /\ observations'[k].id = plan'[k].id
             /\ observations'[k].status # "ERROR" =>
                  \E n \in DOMAIN runs' : Earned(runs'[n], k, observations'[k])
  <2>1. CASE k = item
    BY <1>2, <2>1 DEF Observation, current, Earned
  <2>2. CASE k # item
    <3>1. k \in DOMAIN observations /\ k # item
      BY <1>1, <1>2, <2>2, TupleFacts DEF item
    <3>2. CASE observations[k].status = "ERROR"
      BY <1>2, <3>1, <3>2 DEF IInv, EvidenceIsEarned
    <3>3. CASE observations[k].status # "ERROR"
      <4>1. PICK n \in DOMAIN runs : Earned(runs[n], k, observations[k])
        BY <3>1, <3>3 DEF IInv, EvidenceIsEarned
      <4>2. n \in DOMAIN runs' /\ runs'[n] = runs[n]
        BY <3>1, <4>1 DEF Earned
      <4> QED
        BY <1>2, <3>1, <4>1, <4>2 DEF IInv, EvidenceIsEarned, Earned
    <3> QED BY <3>2, <3>3
  <2> QED BY <2>1, <2>2
<1> QED
  BY <1>2, <1>4, <1>5 DEF EvidenceIsEarned, Earned

\* A grant is asked for, or recorded, without touching those before.
LEMMA GrantsPersist ==
  ASSUME IInv, NEW k, \E g \in DOMAIN asked : Granted(asked[g], k),
         \/ \E a : asked' = Append(asked, a)
         \/ \E approval : Resolve(approval)
         \/ UNCHANGED asked
  PROVE  \E g \in DOMAIN asked' : Granted(asked'[g], k)
<1>0. IsTuple(asked)
  BY DEF IInv
<1>1. CASE \E a : asked' = Append(asked, a)
  <2>1. PICK a : asked' = Append(asked, a)
    BY <1>1
  <2> QED
    BY <1>0, <2>1, AppendTuple, TupleFacts
<1>2. CASE \E approval : Resolve(approval)
  <2>1. PICK approval : Resolve(approval)
    BY <1>2
  <2>2. PICK g \in DOMAIN asked : Granted(asked[g], k)
    OBVIOUS
  <2>3. Len(asked) \in DOMAIN asked /\ g # Len(asked)
    BY <1>0, <2>1, <2>2, TupleFacts DEF Resolve, IInv, AtStage, Granted
  <2>4. asked' = [asked EXCEPT ![Len(asked)] = [asked[Len(asked)] EXCEPT !.approval = approval]]
    BY <2>1 DEF Resolve
  <2>5. asked'[g] = asked[g] /\ g \in DOMAIN asked'
    BY <1>0, <2>2, <2>3, <2>4
  <2> QED
    BY <2>2, <2>5
<1>3. CASE UNCHANGED asked
  BY <1>3
<1> QED
  BY <1>1, <1>2, <1>3

\* Steps at which the obligation is handed on, or left, without a call.
LEMMA NoCallStep ==
  ASSUME IInv, UNCHANGED <<plugins, plan, observations, asked, runs>>,
         \/ stage \in {"construct", "next"} /\ stage' \in {"next", "raised", "returned"}
         \/ stage' = "raised"
         \/ stage' = stage
  PROVE  IInv'
BY DEF IInv, AtStage, CallsInOrder, EvidenceIsEarned, Earned, NothingRunsUngranted,
       Routed, Route, current, item, Granted, Called

LEMMA AskStep ==
  ASSUME IInv, NEW verdict, Ask(verdict)
  PROVE  IInv'
<1> DEFINE a == [item |-> item, verdict |-> verdict, approval |-> "none"]
<1>1. IsTuple(asked) /\ asked' = Append(asked, a) /\ Pending /\ Routed
  BY DEF IInv, Ask
<1>2. /\ IsTuple(asked') /\ Len(asked') = Len(asked) + 1 /\ asked'[Len(asked) + 1] = a
      /\ Len(asked) \in Nat /\ DOMAIN asked' = 1..(Len(asked) + 1)
  BY <1>1, AppendTuple, TupleFacts
<1>3. UNCHANGED <<plugins, plan, runs>>
  BY DEF Ask
<1>4. NothingRunsUngranted'
  <2>1. ASSUME NEW n \in DOMAIN runs
        PROVE  \E g \in DOMAIN asked' : Granted(asked'[g], runs[n].item)
    <3>1. \E g \in DOMAIN asked : Granted(asked[g], runs[n].item)
      BY DEF IInv, NothingRunsUngranted, Granted
    <3> QED BY <1>1, <3>1, GrantsPersist
  <2> QED BY <1>3, <2>1 DEF IInv, NothingRunsUngranted, Granted
<1>5. CASE verdict \in {"ALLOW", "REQUIRE_APPROVAL"}
  <2>1. UNCHANGED observations /\ stage' \in {"granted", "resolver"}
    BY <1>5 DEF Ask
  <2>2. AtStage'
    <3>1. CASE verdict = "ALLOW"
      <4>1. stage' = "granted" /\ Granted(asked'[Len(asked) + 1], item)
        BY <1>2, <3>1 DEF Ask, Granted
      <4>2. Routed' /\ item' = item
        BY <1>1, <1>3, <2>1 DEF Routed, current, item
      <4> QED
        BY <1>2, <4>1, <4>2 DEF AtStage
    <3>2. CASE verdict = "REQUIRE_APPROVAL"
      <4>1. stage' = "resolver"
        BY <3>2 DEF Ask
      <4>2. Routed' /\ item' = item
        BY <1>1, <1>3, <2>1 DEF Routed, current, item
      <4> QED
        BY <1>2, <3>2, <4>1, <4>2 DEF AtStage
    <3> QED BY <1>5, <3>1, <3>2
  <2>3. CallsInOrder'
    BY <1>1, <1>3, <2>1 DEF IInv, CallsInOrder, item, Pending
  <2>4. EvidenceIsEarned'
    BY <1>3, <2>1 DEF IInv, EvidenceIsEarned, Earned
  <2> QED
    BY <1>2, <1>3, <1>4, <2>1, <2>2, <2>3, <2>4 DEF IInv
<1>6. CASE verdict \notin {"ALLOW", "REQUIRE_APPROVAL"}
  <2>1. Record("ERROR")
    BY <1>6 DEF Ask, Contain
  <2>2. \A n \in DOMAIN runs' : runs'[n].item \in 1..item
    BY <1>3 DEF IInv, CallsInOrder
  <2>3. IsTuple(observations') /\ AtStage' /\ CallsInOrder' /\ EvidenceIsEarned'
    BY <1>3, <2>1, <2>2, Recording DEF IInv
  <2> QED
    BY <1>2, <1>3, <1>4, <2>3 DEF IInv
<1> QED
  BY <1>5, <1>6

LEMMA ResolveStep ==
  ASSUME IInv, NEW approval, Resolve(approval)
  PROVE  IInv'
<1> DEFINE L == Len(asked)
           a == [item |-> item, verdict |-> "REQUIRE_APPROVAL", approval |-> approval]
<1>1. /\ IsTuple(asked) /\ asked' = [asked EXCEPT ![L] = a] /\ stage = "resolver"
      /\ L \in DOMAIN asked
  <2>1. /\ stage = "resolver" /\ IsTuple(asked) /\ asked # <<>>
        /\ asked[L] = [item |-> item, verdict |-> "REQUIRE_APPROVAL", approval |-> "none"]
    BY DEF IInv, Resolve, AtStage
  <2>2. asked' = [asked EXCEPT ![L].approval = approval]
    BY DEF Resolve
  <2>3. asked' = [asked EXCEPT ![L] = [asked[L] EXCEPT !.approval = approval]]
    BY <2>2
  <2>4. [asked[L] EXCEPT !.approval = approval] = a
    BY <2>1
  <2>5. asked' = [asked EXCEPT ![L] = a]
    BY <2>3, <2>4
  <2> HIDE DEF a
  <2> QED BY <2>1, <2>5, LastInDomain
<1>2. IsTuple(asked') /\ Len(asked') = L /\ asked'[L] = a /\ DOMAIN asked' = DOMAIN asked
  <2> HIDE DEF a
  <2> QED BY <1>1, UpdateTuple
<1>3. UNCHANGED <<plugins, plan, runs>>
  BY DEF Resolve
<1>4. NothingRunsUngranted'
  <2>1. ASSUME NEW n \in DOMAIN runs
        PROVE  \E g \in DOMAIN asked' : Granted(asked'[g], runs[n].item)
    <3>1. \E g \in DOMAIN asked : Granted(asked[g], runs[n].item)
      BY DEF IInv, NothingRunsUngranted, Granted
    <3> QED BY <3>1, GrantsPersist
  <2> QED BY <1>3, <2>1 DEF IInv, NothingRunsUngranted, Granted
<1>5. CASE approval = "true"
  <2>1. UNCHANGED observations /\ stage' = "granted"
    BY <1>5 DEF Resolve
  <2>2. Granted(asked'[L], item)
    BY <1>1, <1>2, <1>5 DEF Granted, IInv, AtStage
  <2>3. AtStage'
    BY <1>1, <1>2, <1>3, <2>1, <2>2 DEF AtStage, IInv, Routed, current, item
  <2>4. CallsInOrder'
    BY <1>1, <1>3, <2>1 DEF IInv, CallsInOrder, item
  <2>5. EvidenceIsEarned'
    BY <1>3, <2>1 DEF IInv, EvidenceIsEarned, Earned
  <2> QED
    BY <1>2, <1>3, <1>4, <2>1, <2>3, <2>4, <2>5 DEF IInv
<1>6. CASE approval # "true"
  <2>1. Record("ERROR")
    BY <1>6 DEF Resolve, Contain
  <2>2. \A n \in DOMAIN runs' : runs'[n].item \in 1..item
    BY <1>3 DEF IInv, CallsInOrder
  <2>3. IsTuple(observations') /\ AtStage' /\ CallsInOrder' /\ EvidenceIsEarned'
    BY <1>3, <2>1, <2>2, Recording DEF IInv
  <2> QED
    BY <1>2, <1>3, <1>4, <2>3 DEF IInv
<1> QED
  BY <1>5, <1>6

\* A plugin is called for the current obligation, which is granted and had no
\* call before.
LEMMA Calling ==
  ASSUME IInv, stage = "granted", NEW said, NEW c,
         runs' = Append(runs, Called(said, c)),
         UNCHANGED <<plugins, plan, asked>>
  PROVE  /\ IsTuple(runs') /\ runs'[Len(runs')] = Called(said, c) /\ runs' # <<>>
         /\ Len(runs') \in DOMAIN runs'
         /\ \A n \in DOMAIN runs' : runs'[n].item \in 1..item
         /\ \A n \in DOMAIN runs : runs[n].item # item /\ n \in DOMAIN runs' /\ runs'[n] = runs[n]
         /\ \A n \in DOMAIN runs' : runs'[n].item = item => n = Len(runs')
         /\ plan[item].kind \in plugins[Route]
         /\ NothingRunsUngranted'
<1>1. /\ IsTuple(runs') /\ Len(runs') = Len(runs) + 1 /\ runs'[Len(runs')] = Called(said, c)
      /\ \A n \in DOMAIN runs : runs'[n] = runs[n]
      /\ Len(runs) \in Nat /\ DOMAIN runs = 1..Len(runs) /\ DOMAIN runs' = 1..(Len(runs) + 1)
  BY AppendTuple, TupleFacts DEF IInv
<1>2. Len(observations) \in Nat /\ item \in 1..item
  BY TupleFacts DEF IInv, item
<1>3. Called(said, c).item = item
  BY DEF Called
<1>4. \A n \in DOMAIN runs : runs[n].item # item /\ runs[n].item \in 1..item
  BY DEF IInv, CallsInOrder
<1>5. plan[item].kind \in plugins[Route]
  BY DEF IInv, AtStage, Routed, Route, current
<1>6. NothingRunsUngranted'
  <2>1. ASSUME NEW n \in DOMAIN runs'
        PROVE  \E g \in DOMAIN asked : Granted(asked[g], runs'[n].item)
    <3>1. CASE n \in DOMAIN runs
      BY <1>1, <3>1 DEF IInv, NothingRunsUngranted, Granted
    <3>2. CASE n = Len(runs')
      BY <1>1, <1>3, <3>2 DEF IInv, AtStage
    <3> QED BY <1>1, <3>1, <3>2
  <2>2. ASSUME NEW m \in DOMAIN runs', NEW n \in DOMAIN runs', runs'[m].item = runs'[n].item
        PROVE  m = n
    <3>1. CASE m \in DOMAIN runs /\ n \in DOMAIN runs
      BY <1>1, <2>2, <3>1 DEF IInv, NothingRunsUngranted
    <3>2. CASE m = Len(runs') \/ n = Len(runs')
      BY <1>1, <1>3, <1>4, <2>2, <3>2
    <3> QED BY <1>1, <3>1, <3>2
  <2> QED BY <2>1, <2>2 DEF NothingRunsUngranted, Granted
<1>7. runs' # <<>>
  BY <1>1
<1> QED
  BY <1>1, <1>2, <1>3, <1>4, <1>5, <1>6, <1>7

LEMMA ObserveStep ==
  ASSUME IInv, NEW id, NEW status, Observe(Observation(id, status))
  PROVE  IInv'
<1> DEFINE said == Observation(id, status)
<1>1. /\ stage = "granted" /\ current.kind # Command
      /\ runs' = Append(runs, Called(said, NoChild))
      /\ UNCHANGED <<plugins, plan, asked>>
  BY DEF Observe
<1>2. /\ IsTuple(runs') /\ runs'[Len(runs')] = Called(said, NoChild)
      /\ Len(runs') \in DOMAIN runs'
      /\ \A n \in DOMAIN runs' : runs'[n].item \in 1..item
      /\ \A n \in DOMAIN runs : runs[n].item # item /\ n \in DOMAIN runs' /\ runs'[n] = runs[n]
      /\ plan[item].kind \in plugins[Route] /\ NothingRunsUngranted'
  <2> HIDE DEF said
  <2> QED BY <1>1, Calling
<1>3. CASE id = current.id
  <2>1. Record(status)
    BY <1>3 DEF Observe, Observation
  <2>2. Earned(runs'[Len(runs')], item, said)
    BY <1>1, <1>2 DEF Earned, Called, current
  <2>3. Earned(runs'[Len(runs')], item, Observation(current.id, status))
    BY <1>3, <2>2
  <2> QED
    BY <1>1, <1>2, <2>1, <2>3, Recording DEF IInv
<1>4. CASE id # current.id
  <2>1. Record("ERROR")
    BY <1>4 DEF Observe, Observation, Contain
  <2> QED
    BY <1>1, <1>2, <2>1, Recording DEF IInv
<1> QED
  BY <1>3, <1>4

LEMMA CannotRunStep ==
  ASSUME IInv, CannotRun
  PROVE  IInv'
<1>1. /\ stage = "granted" /\ Record("ERROR")
      /\ runs' = Append(runs, Called(Nothing, NoChild))
      /\ UNCHANGED <<plugins, plan, asked>>
  BY DEF CannotRun, Contain
<1> QED
  BY <1>1, Calling, Recording DEF IInv

LEMMA StartCommandStep ==
  ASSUME IInv, StartCommand
  PROVE  IInv'
<1>1. /\ stage = "granted" /\ stage' = "wait" /\ current.kind = Command
      /\ runs' = Append(runs, Called(Nothing, NoChild))
      /\ UNCHANGED <<plugins, plan, observations, asked>>
  BY DEF StartCommand
<1>2. /\ IsTuple(runs') /\ runs'[Len(runs')] = Called(Nothing, NoChild) /\ runs' # <<>>
      /\ \A n \in DOMAIN runs' : runs'[n].item \in 1..item
      /\ \A n \in DOMAIN runs : n \in DOMAIN runs' /\ runs'[n] = runs[n]
      /\ \A n \in DOMAIN runs' : runs'[n].item = item => n = Len(runs')
      /\ NothingRunsUngranted'
  BY <1>1, Calling
<1>3. Called(Nothing, NoChild)' = Called(Nothing, NoChild) /\ item' = item /\ current' = current
  BY <1>1 DEF Called, Nothing, Observation, NoChild, Route, current, item
<1>4. AtStage'
  BY <1>1, <1>2, <1>3 DEF IInv, AtStage, Routed
<1>5. CallsInOrder'
  BY <1>1, <1>2, <1>3 DEF CallsInOrder
<1>6. EvidenceIsEarned'
  BY <1>1, <1>2 DEF IInv, EvidenceIsEarned, Earned
<1> QED
  BY <1>1, <1>2, <1>4, <1>5, <1>6 DEF IInv

\* The command's child has ended, or was killed: the last run is closed.
LEMMA Stopping ==
  ASSUME IInv, stage = "wait", NEW c, Stopped(c),
         UNCHANGED <<plugins, plan, asked>>
  PROVE  /\ IsTuple(runs') /\ Len(runs) \in DOMAIN runs'
         /\ runs'[Len(runs)] = Called(Nothing, c)
         /\ \A n \in DOMAIN runs' : runs'[n].item \in 1..item
         /\ \A n \in DOMAIN runs : runs[n].item # item => n \in DOMAIN runs' /\ runs'[n] = runs[n]
         /\ plan[item].kind \in plugins[Route] /\ current.kind = Command
         /\ NothingRunsUngranted'
<1> DEFINE L == Len(runs)
<1>1. /\ IsTuple(runs) /\ runs # <<>> /\ runs[L] = Called(Nothing, NoChild)
      /\ current.kind = Command
  BY DEF IInv, AtStage
<1>2. L \in DOMAIN runs
  BY <1>1, LastInDomain
<1>3. runs' = [runs EXCEPT ![L] = [runs[L] EXCEPT !.child = c]]
  BY DEF Stopped
<1>4. [runs[L] EXCEPT !.child = c] = Called(Nothing, c)
  BY <1>1 DEF Called
<1>5. /\ IsTuple(runs') /\ Len(runs') = L /\ runs'[L] = Called(Nothing, c)
      /\ \A n \in DOMAIN runs : n # L => runs'[n] = runs[n]
  <2>1. runs' = [runs EXCEPT ![L] = Called(Nothing, c)]
    BY <1>3, <1>4
  <2> DEFINE e == Called(Nothing, c)
  <2>2. runs' = [runs EXCEPT ![L] = e]
    BY <2>1
  <2> HIDE DEF e
  <2>3. /\ IsTuple(runs') /\ Len(runs') = L /\ runs'[L] = e
        /\ \A n \in DOMAIN runs : n # L => runs'[n] = runs[n]
    BY <1>1, <1>2, <2>2, UpdateTuple
  <2> QED BY <2>3 DEF e
<1>6. DOMAIN runs' = DOMAIN runs
  BY <1>1, <1>5, TupleFacts
<1>7. runs'[L].item = item /\ runs[L].item = item
  BY <1>1, <1>5 DEF Called
<1>8. \A n \in DOMAIN runs : runs'[n].item = runs[n].item
  BY <1>5, <1>7
<1>9. NothingRunsUngranted'
  BY <1>6, <1>8 DEF IInv, NothingRunsUngranted
<1>10. plan[item].kind \in plugins[Route]
  BY DEF IInv, AtStage, Routed, Route, current
<1> QED
  BY <1>1, <1>2, <1>5, <1>6, <1>7, <1>8, <1>9, <1>10 DEF IInv, CallsInOrder

LEMMA JudgeStep ==
  ASSUME IInv, Judge
  PROVE  IInv'
<1> DEFINE status == IF ~WithinLimit(child) THEN "ERROR"
                     ELSE IF child.code = current.payload THEN "PASSED" ELSE "FAILED"
           n == Len(runs)
<1>1. /\ stage = "wait" /\ Ended /\ Stopped(child) /\ Record(status)
      /\ UNCHANGED <<plugins, plan, asked>>
  BY DEF Judge
<1>2. /\ IsTuple(runs') /\ n \in DOMAIN runs' /\ runs'[n] = Called(Nothing, child)
      /\ \A m \in DOMAIN runs' : runs'[m].item \in 1..item
      /\ \A m \in DOMAIN runs : runs[m].item # item => m \in DOMAIN runs' /\ runs'[m] = runs[m]
      /\ plan[item].kind \in plugins[Route] /\ current.kind = Command
      /\ NothingRunsUngranted'
  BY <1>1, Stopping
<1>3. status # "ERROR" =>
        WithinLimit(child) /\ (status = "PASSED" <=> child.code = current.payload)
  OBVIOUS
<1>4. status # "ERROR" => Earned(runs'[n], item, Observation(current.id, status))
  <2> HIDE DEF status
  <2> QED BY <1>1, <1>2, <1>3 DEF Earned, Called, Observation, current, Ended
<1> HIDE DEF status
<1> QED
  BY <1>1, <1>2, <1>4, Recording DEF IInv

LEMMA TimesOutStep ==
  ASSUME IInv, TimesOut
  PROVE  IInv'
<1>1. /\ stage = "wait" /\ Stopped([child EXCEPT !.at = "killed"]) /\ Record("ERROR")
      /\ UNCHANGED <<plugins, plan, asked>>
  BY DEF TimesOut, Contain
<1> QED
  BY <1>1, Stopping, Recording DEF IInv

LEMMA UnsupportedStep ==
  ASSUME IInv, Unsupported
  PROVE  IInv'
<1>1. /\ Record("ERROR") /\ stage = "next"
      /\ UNCHANGED <<plugins, plan, asked, runs>>
  BY DEF Unsupported, Contain, Pending
<1>2. \A n \in DOMAIN runs' : runs'[n].item \in 1..item
  BY <1>1 DEF IInv, CallsInOrder
<1>3. NothingRunsUngranted'
  BY <1>1 DEF IInv, NothingRunsUngranted
<1> QED
  BY <1>1, <1>2, <1>3, Recording DEF IInv

LEMMA IInvStep == IInv /\ [Next]_vars => IInv'
<1> SUFFICES ASSUME IInv, [Next]_vars PROVE IInv'
  OBVIOUS
<1>1. CASE Construct \/ Return \/ Interrupt \/ ChildStep \/ UNCHANGED vars
  <2>1. /\ UNCHANGED <<plugins, plan, observations, asked, runs>>
        /\ \/ stage \in {"construct", "next"} /\ stage' \in {"next", "raised", "returned"}
           \/ stage' = "raised"
           \/ stage' = stage
    BY <1>1 DEF Construct, Return, Interrupt, ChildStep, vars
  <2> QED BY <2>1, NoCallStep
<1>2. ASSUME NEW verdict \in Verdicts, Ask(verdict) PROVE IInv'
  BY <1>2, AskStep
<1>3. ASSUME NEW approval \in Approvals, Resolve(approval) PROVE IInv'
  BY <1>3, ResolveStep
<1>4. ASSUME NEW id, NEW status, Observe(Observation(id, status)) PROVE IInv'
  BY <1>4, ObserveStep
<1>5. CASE Observe(Nothing)
  BY <1>5, <1>4 DEF Nothing
<1> QED
  BY <1>1, <1>2, <1>3, <1>4, <1>5, UnsupportedStep, CannotRunStep, StartCommandStep,
     JudgeStep, TimesOutStep DEF Next, Collect

\* Every reachable state satisfies the inductive invariant.
THEOREM Invariance == Spec => []IInv
BY IInvInit, IInvStep, PTL DEF Spec

\* PASSED and FAILED are always earned by the one granted run of that
\* obligation, and the observations follow the plan (verifiers.py).
THEOREM EvidenceIsEarnedHolds == Spec => []EvidenceIsEarned
<1>1. IInv => EvidenceIsEarned
  BY DEF IInv
<1> QED
  BY <1>1, Invariance, PTL

\* No plugin runs without the policy's or the resolver's word for this very
\* obligation, and none twice (actions.py).
THEOREM NothingRunsUngrantedHolds == Spec => []NothingRunsUngranted
<1>1. IInv => NothingRunsUngranted
  BY DEF IInv
<1> QED
  BY <1>1, Invariance, PTL

-----------------------------------------------------------------------------
(* Least numbers, and the one way to number the elements of a set *)

LEMMA Below ==
  \E R : IsWellFoundedOn(R, Nat) /\ \A x, y \in Nat : <<y, x>> \in R <=> y < x
<1> DEFINE R == OpToRel(<, Nat)
<1>1. \A x, y \in Nat : <<y, x>> \in R <=> y < x
  BY DEF OpToRel
<1>2. IsWellFoundedOn(R, Nat)
  BY NatLessThanWellFounded
<1> HIDE DEF R
<1> QED BY <1>1, <1>2

\* Every set of natural numbers that is not empty has a least one.
LEMMA Least ==
  ASSUME NEW T, T \subseteq Nat, T # {}
  PROVE  \E x \in T : \A y \in T : x <= y
<1>1. PICK R : IsWellFoundedOn(R, Nat) /\ \A x, y \in Nat : <<y, x>> \in R <=> y < x
  BY Below
<1>2. PICK x \in T : \A y \in T : ~(<<y, x>> \in R)
  BY <1>1, WFMin
<1>3. ASSUME NEW y \in T PROVE x <= y
  <2>1. x \in Nat /\ y \in Nat
    OBVIOUS
  <2>2. ~(y < x)
    BY ONLY <1>1, <1>2, <2>1, y \in T
  <2> QED BY ONLY <2>1, <2>2
<1> QED BY <1>3

\* at[1] < at[2] < ... < at[a] are the elements of S.
Numbers(at, a, S) ==
  /\ \A k, m \in 1..a : k < m => at[k] < at[m]
  /\ {at[k] : k \in 1..a} = S

Agree(f, g, a, b, k) == \A m \in Nat : m \in 1..a /\ m \in 1..b /\ m < k => f[m] = g[m]

\* Two numberings that agree below k do not differ at k in this direction.
LEMMA NotBefore ==
  ASSUME NEW S, S \subseteq Nat, NEW f, NEW g, NEW a \in Nat, NEW b \in Nat,
         Numbers(f, a, S), Numbers(g, b, S),
         NEW k \in Nat, k \in 1..a, k \in 1..b, Agree(f, g, a, b, k)
  PROVE  ~(f[k] < g[k])
<1> SUFFICES ASSUME f[k] < g[k] PROVE FALSE
  OBVIOUS
<1>1. f[k] \in S /\ g[k] \in S
  BY DEF Numbers
<1>2. PICK m \in 1..b : g[m] = f[k]
  BY <1>1 DEF Numbers
<1>3. m \in Nat /\ f[k] \in Nat /\ g[k] \in Nat
  <2>1. f[k] \in Nat /\ g[k] \in Nat
    BY ONLY S \subseteq Nat, <1>1
  <2> QED BY <2>1
<1>4. ~(k < m)
  <2>1. k < m => g[k] < g[m]
    BY <1>2 DEF Numbers
  <2> QED BY <1>2, <1>3, <2>1
<1>5. m < k
  BY <1>2, <1>3, <1>4
<1>6. m \in 1..a /\ f[m] = g[m]
  BY <1>3, <1>5 DEF Agree
<1>7. f[m] < f[k]
  BY <1>5, <1>6 DEF Numbers
<1> QED
  BY <1>2, <1>3, <1>6, <1>7

LEMMA NotLonger ==
  ASSUME NEW S, S \subseteq Nat, NEW f, NEW g, NEW a \in Nat, NEW b \in Nat,
         Numbers(f, a, S), Numbers(g, b, S),
         \A m \in Nat : m \in 1..a /\ m \in 1..b => f[m] = g[m]
  PROVE  ~(a < b)
<1> SUFFICES ASSUME a < b PROVE FALSE
  OBVIOUS
<1>1. a + 1 \in 1..b /\ g[a + 1] \in S
  BY DEF Numbers
<1>2. PICK m \in 1..a : f[m] = g[a + 1]
  BY <1>1 DEF Numbers
<1>3. m \in Nat /\ m \in 1..b /\ m < a + 1 /\ g[a + 1] \in Nat
  <2>1. g[a + 1] \in Nat
    BY ONLY S \subseteq Nat, <1>1
  <2>2. m \in Nat /\ m \in 1..b /\ m < a + 1
    BY ONLY m \in 1..a, a \in Nat, b \in Nat, a < b
  <2> QED BY <2>1, <2>2
<1>4. g[m] < g[a + 1]
  <2>1. \A i, j \in 1..b : i < j => g[i] < g[j]
    BY DEF Numbers
  <2> QED BY ONLY <1>1, <1>3, <2>1
<1> QED
  BY <1>2, <1>3, <1>4

\* A set of natural numbers is numbered in one way only.
LEMMA SameNumbers ==
  ASSUME NEW S, S \subseteq Nat, NEW f, NEW g, NEW a \in Nat, NEW b \in Nat,
         Numbers(f, a, S), Numbers(g, b, S)
  PROVE  a = b /\ \A k \in 1..a : f[k] = g[k]
<1> DEFINE T == {k \in Nat : k \in 1..a /\ k \in 1..b /\ f[k] # g[k]}
<1>1. T = {}
  <2> SUFFICES ASSUME T # {} PROVE FALSE
    OBVIOUS
  <2>1. PICK k \in T : \A m \in T : k <= m
    BY Least
  <2>2. k \in Nat /\ k \in 1..a /\ k \in 1..b /\ f[k] # g[k]
    OBVIOUS
  <2>3. Agree(f, g, a, b, k)
    <3> SUFFICES ASSUME NEW m \in Nat, m \in 1..a, m \in 1..b, m < k, f[m] # g[m] PROVE FALSE
      BY DEF Agree
    <3>1. m \in T
      OBVIOUS
    <3> QED BY <2>1, <2>2, <3>1
  <2>4. ~(f[k] < g[k]) /\ ~(g[k] < f[k])
    <3>1. ~(f[k] < g[k])
      BY ONLY S \subseteq Nat, a \in Nat, b \in Nat, Numbers(f, a, S), Numbers(g, b, S),
         <2>2, <2>3, NotBefore
    <3>2. Agree(g, f, b, a, k)
      BY <2>3 DEF Agree
    <3>3. ~(g[k] < f[k])
      BY ONLY S \subseteq Nat, a \in Nat, b \in Nat, Numbers(f, a, S), Numbers(g, b, S),
         <2>2, <3>2, NotBefore
    <3> QED BY <3>1, <3>3
  <2>5. f[k] \in Nat /\ g[k] \in Nat
    BY <2>2 DEF Numbers
  <2> QED
    BY <2>2, <2>4, <2>5
<1>2. \A m \in Nat : m \in 1..a /\ m \in 1..b => f[m] = g[m]
  BY <1>1
<1> HIDE DEF T
<1>3. ~(a < b)
  BY <1>2, NotLonger
<1>4. ~(b < a)
  BY <1>2, NotLonger
<1>5. a = b
  BY <1>3, <1>4
<1> QED
  BY <1>2, <1>5

Beyond(n, S) == \A s \in S : s < n

Continues(more, at, a, n, S) ==
  /\ Numbers(more, a + 1, S \cup {n}) /\ more[a + 1] = n
  /\ \A k \in 1..a : more[k] = at[k]

\* A number beyond all others comes last.
LEMMA OneMore ==
  ASSUME NEW S, NEW at, NEW a \in Nat, Numbers(at, a, S),
         NEW n, Beyond(n, S)
  PROVE  \E more : Continues(more, at, a, n, S)
<1> DEFINE more == [k \in 1..(a + 1) |-> IF k = a + 1 THEN n ELSE at[k]]
<1>1. 1..(a + 1) = 1..a \cup {a + 1} /\ a + 1 \notin 1..a /\ \A k \in 1..a : k < a + 1
  OBVIOUS
<1>2. more[a + 1] = n /\ \A k \in 1..a : more[k] = at[k]
  BY <1>1
<1> HIDE DEF more
<1>3. {more[k] : k \in 1..(a + 1)} = S \cup {n}
  BY <1>1, <1>2 DEF Numbers
<1>4. ASSUME NEW k \in 1..(a + 1), NEW m \in 1..(a + 1), k < m PROVE more[k] < more[m]
  <2>1. k \in 1..a
    BY <1>4
  <2>2. CASE m = a + 1
    BY <1>2, <2>1, <2>2 DEF Numbers, Beyond
  <2>3. CASE m \in 1..a
    BY <1>2, <1>4, <2>1, <2>3 DEF Numbers
  <2> QED BY <1>1, <2>2, <2>3
<1>5. Numbers(more, a + 1, S \cup {n})
  BY <1>3, <1>4 DEF Numbers
<1> QED
  BY <1>2, <1>5 DEF Continues

-----------------------------------------------------------------------------
(* The lines before n, as sets of their numbers and as a text *)

SaidIn(out, n) == {i \in DOMAIN out : i < n /\ out[i].type = "text"}
EventsIn(out, n) == {i \in DOMAIN out : i < n /\ out[i].type # "blank"}

\* `text` is what the text lines before n say, in their order.
TextOf(text, out, n) ==
  \E at : /\ Numbers(at, Len(text), SaidIn(out, n))
          /\ \A k \in 1..Len(text) : text[k] = out[at[k]].text

LEMMA OneText ==
  ASSUME NEW P, NEW W, NEW t \in Seq(P), NEW u \in Seq(P), NEW out \in Seq(W), NEW n,
         TextOf(t, out, n), TextOf(u, out, n)
  PROVE  t = u
<1>1. SaidIn(out, n) \subseteq Nat
  BY DEF SaidIn
<1>2. PICK f : /\ Numbers(f, Len(t), SaidIn(out, n))
               /\ \A k \in 1..Len(t) : t[k] = out[f[k]].text
  BY DEF TextOf
<1>3. PICK g : /\ Numbers(g, Len(u), SaidIn(out, n))
               /\ \A k \in 1..Len(u) : u[k] = out[g[k]].text
  BY DEF TextOf
<1>4. Len(t) \in Nat /\ Len(u) \in Nat
  OBVIOUS
<1>5. Len(t) = Len(u) /\ \A k \in 1..Len(t) : f[k] = g[k]
  BY <1>1, <1>2, <1>3, <1>4, SameNumbers
<1>6. \A k \in 1..Len(t) : t[k] = u[k]
  BY <1>2, <1>3, <1>5
<1> QED
  BY <1>5, <1>6

LEMMA NothingYet ==
  ASSUME NEW W, NEW out \in Seq(W)
  PROVE  TextOf(<<>>, out, 1) /\ EventsIn(out, 1) = {}
<1>1. SaidIn(out, 1) = {} /\ EventsIn(out, 1) = {}
  BY DEF SaidIn, EventsIn
<1>2. Numbers(<<>>, Len(<<>>), {})
  BY DEF Numbers
<1> QED
  BY <1>1, <1>2 DEF TextOf

\* One more line: a text line extends the text, any other leaves it.
LEMMA TextStep ==
  ASSUME NEW P, NEW W, NEW t \in Seq(P), NEW out \in Seq(W), NEW n \in Nat,
         n \in DOMAIN out, TextOf(t, out, n)
  PROVE  /\ out[n].type = "text" => TextOf(Append(t, out[n].text), out, n + 1)
         /\ out[n].type # "text" => TextOf(t, out, n + 1)
<1>1. PICK at : /\ Numbers(at, Len(t), SaidIn(out, n))
                /\ \A k \in 1..Len(t) : t[k] = out[at[k]].text
  BY DEF TextOf
<1>2. Len(t) \in Nat
  OBVIOUS
<1>3. \A i \in DOMAIN out : i < n + 1 <=> i < n \/ i = n
  OBVIOUS
<1>4. CASE out[n].type = "text"
  <2>1. SaidIn(out, n + 1) = SaidIn(out, n) \cup {n}
    BY <1>3, <1>4 DEF SaidIn
  <2>2. \A i \in SaidIn(out, n) : i < n
    BY DEF SaidIn
  <2>3. PICK more : /\ Numbers(more, Len(t) + 1, SaidIn(out, n) \cup {n})
                    /\ more[Len(t) + 1] = n
                    /\ \A k \in 1..Len(t) : more[k] = at[k]
    <3> DEFINE S == SaidIn(out, n)
               a == Len(t)
    <3>1. Numbers(at, a, S)
      BY <1>1
    <3>2. a \in Nat
      BY <1>2
    <3>3. Beyond(n, S)
      BY <2>2 DEF Beyond
    <3> HIDE DEF S, a
    <3>4. \E more : Continues(more, at, a, n, S)
      BY ONLY <3>1, <3>2, <3>3, OneMore
    <3> QED BY <3>4 DEF S, a, Continues
  <2> DEFINE u == Append(t, out[n].text)
  <2>4. /\ Len(u) = Len(t) + 1 /\ u[Len(t) + 1] = out[n].text
        /\ \A k \in 1..Len(t) : u[k] = t[k]
        /\ 1..Len(u) = 1..Len(t) \cup {Len(t) + 1}
    OBVIOUS
  <2> HIDE DEF u
  <2>5. \A k \in 1..Len(u) : u[k] = out[more[k]].text
    BY <1>1, <2>3, <2>4
  <2>6. TextOf(u, out, n + 1)
    BY <2>1, <2>3, <2>4, <2>5 DEF TextOf
  <2> QED
    BY <1>4, <2>6 DEF u
<1>5. CASE out[n].type # "text"
  <2>1. SaidIn(out, n + 1) = SaidIn(out, n)
    BY <1>3, <1>5 DEF SaidIn
  <2> QED
    BY <1>5, <2>1 DEF TextOf
<1> QED
  BY <1>4, <1>5

LEMMA EventStep ==
  ASSUME NEW W, NEW out \in Seq(W), NEW n \in Nat, n \in DOMAIN out
  PROVE  /\ out[n].type # "blank" =>
              Cardinality(EventsIn(out, n + 1)) = Cardinality(EventsIn(out, n)) + 1
         /\ out[n].type = "blank" => EventsIn(out, n + 1) = EventsIn(out, n)
<1>1. \A i \in DOMAIN out : i < n + 1 <=> i < n \/ i = n
  OBVIOUS
<1>2. IsFiniteSet(EventsIn(out, n)) /\ n \notin EventsIn(out, n)
  <2>1. EventsIn(out, n) \subseteq 1..Len(out) /\ IsFiniteSet(1..Len(out))
    <3>1. EventsIn(out, n) \subseteq 1..Len(out) /\ Len(out) \in Nat
      BY DEF EventsIn
    <3> QED BY <3>1, FS_Interval
  <2>2. IsFiniteSet(EventsIn(out, n))
    BY <2>1, FS_Subset
  <2> QED BY <2>2 DEF EventsIn
<1>3. CASE out[n].type # "blank"
  <2>1. EventsIn(out, n + 1) = EventsIn(out, n) \cup {n}
    BY <1>1, <1>3 DEF EventsIn
  <2> QED
    BY <1>2, <1>3, <2>1, FS_AddElement
<1>4. CASE out[n].type = "blank"
  BY <1>1, <1>4 DEF EventsIn
<1> QED
  BY <1>3, <1>4

LEMMA EventsGrow ==
  ASSUME NEW W, NEW out \in Seq(W), NEW n \in Nat, n <= Len(out) + 1
  PROVE  /\ Cardinality(EventsIn(out, n)) \in Nat
         /\ Cardinality(EventsIn(out, n)) <= Cardinality(EventsIn(out, Len(out) + 1))
<1>1. EventsIn(out, Len(out) + 1) \subseteq 1..Len(out) /\ IsFiniteSet(1..Len(out))
  <2>1. EventsIn(out, Len(out) + 1) \subseteq 1..Len(out) /\ Len(out) \in Nat
    BY DEF EventsIn
  <2> QED BY <2>1, FS_Interval
<1>2. EventsIn(out, n) \subseteq EventsIn(out, Len(out) + 1)
  BY DEF EventsIn
<1>3. IsFiniteSet(EventsIn(out, Len(out) + 1))
  BY <1>1, FS_Subset
<1> QED
  BY <1>2, <1>3, FS_Subset, FS_CardinalityType

-----------------------------------------------------------------------------
(* An invocation's inductive invariant *)

NoFailure(out, n) == \A i \in DOMAIN out : i < n => out[i].type \notin {"error", "broken"}

Printed == TextOf(Document, child.out, Len(child.out) + 1)
Unfailed == NoFailure(child.out, Len(child.out) + 1)
FewEvents == Cardinality(EventsIn(child.out, Len(child.out) + 1)) <= MaxEvents
EndedWell == child.at = "exited" /\ child.code = 0 /\ WithinLimit(child)

ChildTypes ==
  /\ provider \in Timed \cup {"codex", "callable"}
  /\ child \in [at : {"none", "running", "exited", "killed"}, out : Seq(Words), err : Nat,
                code : {0, 1}, held : BOOLEAN]

\* Whose step it is, and that the child is done when its output is looked at.
ChildAtStep ==
  /\ step \in {"construct", "ready", "wait", "read", "turn", "result", "answered", "raised"}
  /\ step \in {"construct", "ready", "turn", "result"} => child.at = "none"
  /\ step \in {"turn", "result"} => provider = "codex"
  /\ step = "wait" => provider \in Timed
  /\ step = "read" => provider = "opencode" /\ Ended /\ EndedWell
  /\ step \in Final => child.at \in {"none", "killed"} \/ Ended

\* The lines before read.next are counted, free of failures, and said in chunks.
ReadSoFar ==
  /\ step \in {"construct", "ready", "wait"} => read = NothingRead
  /\ step = "read" =>
       /\ read \in [next : Nat, count : Nat, chunks : Seq(Pieces)]
       /\ read.next \in 1..(Len(child.out) + 1)
       /\ read.count = Cardinality(EventsIn(child.out, read.next)) /\ read.count <= MaxEvents
       /\ NoFailure(child.out, read.next)
       /\ TextOf(read.chunks, child.out, read.next)

\* AnswerIsWhole, said of the lines before the one after the last.
Decided ==
  /\ step = "answered" /\ provider \in Timed =>
       EndedWell /\ answer = Document /\ Printed /\ Unfailed /\ (provider = "opencode" => FewEvents)
  /\ step = "answered" /\ provider = "codex" =>
       ~turn.error /\ answer = turn.response /\ answer = Document
  /\ step = "raised" /\ EndedWell =>
       ~Printed \/ ~Unfailed \/ (provider = "opencode" /\ ~FewEvents)

InvokeInv == ChildTypes /\ ChildAtStep /\ ReadSoFar /\ Decided

LEMMA InvokeInvInit == InvokeInit => InvokeInv
<1> SUFFICES ASSUME InvokeInit PROVE InvokeInv
  OBVIOUS
<1>1. child = [at |-> "none", out |-> <<>>, err |-> 0, code |-> 0, held |-> FALSE]
  BY DEF InvokeInit, NoChild
<1>2. <<>> \in Seq(Words)
  OBVIOUS
<1>3. ChildTypes
  BY <1>1, <1>2 DEF InvokeInit, ChildTypes
<1>4. ChildAtStep
  BY <1>1 DEF InvokeInit, ChildAtStep, Final
<1> QED
  BY <1>3, <1>4 DEF InvokeInit, InvokeInv, ReadSoFar, Decided

\* Every line was printed: its type is one of those, and a text line has a piece.
LEMMA LineFacts ==
  ASSUME ChildTypes, NEW i \in DOMAIN child.out
  PROVE  /\ child.out[i].type \in {"text", "step", "error", "broken", "blank"}
         /\ child.out[i].type = "text" => child.out[i].text \in Pieces
         /\ provider = "command" => child.out[i].type = "text"
<1>1. child.out \in Seq(Words)
  BY DEF ChildTypes
<1>2. child.out[i] \in Words
  BY <1>1
<1> QED
  BY <1>2 DEF Words, Texts, Others

\* Steps that touch neither the child nor what was read of it.
LEMMA OtherSteps ==
  ASSUME InvokeInv, UNCHANGED <<provider, child, read>>,
         \/ /\ step \in {"construct", "ready"} /\ step' \in {"ready", "turn"}
            /\ step' = "turn" => provider = "codex"
         \/ step \in {"construct", "ready", "turn", "result"} /\ step' = "raised"
         \/ step = "turn" /\ step' = "result"
         \/ step = "ready" /\ provider = "callable" /\ step' = "answered"
         \/ step = "result" /\ step' = "answered" /\ UNCHANGED turn
            /\ ~turn.error /\ answer' = turn.response /\ answer' = Document
         \/ UNCHANGED <<step, turn, answer>>
  PROVE  InvokeInv'
<1>1. ChildTypes'
  BY DEF InvokeInv, ChildTypes, Words
<1>2. ChildAtStep'
  BY DEF InvokeInv, ChildAtStep, Final, Ended, EndedWell, WithinLimit
<1>3. ReadSoFar'
  BY DEF InvokeInv, ReadSoFar, NothingRead, NoText
<1>4. Decided'
  BY DEF InvokeInv, ChildAtStep, Decided, EndedWell, WithinLimit, Printed, Unfailed, FewEvents, Timed
<1> QED
  BY <1>1, <1>2, <1>3, <1>4 DEF InvokeInv

LEMMA RunStep ==
  ASSUME InvokeInv, Run
  PROVE  InvokeInv'
<1>1. child' = [at |-> "running", out |-> <<>>, err |-> 0, code |-> 0, held |-> FALSE]
  BY DEF Run, Launch, NoChild
<1>2. <<>> \in Seq(Words')
  OBVIOUS
<1>3. ChildTypes'
  BY <1>1, <1>2 DEF Run, InvokeInv, ChildTypes
<1>4. ChildAtStep' /\ ReadSoFar' /\ Decided'
  BY <1>1 DEF Run, InvokeInv, ChildAtStep, ReadSoFar, Decided, Final, NothingRead, NoText
<1> QED
  BY <1>3, <1>4 DEF InvokeInv

\* A timeout's kill, before the child's output is looked at.
LEMMA KillStep ==
  ASSUME InvokeInv, InvokeTimesOut
  PROVE  InvokeInv'
<1>1. child' = [child EXCEPT !.at = "killed"] /\ step' = "raised" /\ UNCHANGED <<provider, read>>
  BY DEF InvokeTimesOut, Kill, Raises
<1>2. Words' = Words
  BY <1>1 DEF Words
<1>3. ChildTypes' /\ child'.at = "killed"
  BY <1>1, <1>2 DEF InvokeInv, ChildTypes
<1>4. ChildAtStep' /\ ReadSoFar' /\ Decided'
  BY <1>1, <1>3 DEF ChildAtStep, ReadSoFar, Decided, Final, EndedWell
<1> QED
  BY <1>3, <1>4 DEF InvokeInv

\* The child moves only while its invocation waits for it.
LEMMA ChildMoves ==
  ASSUME InvokeInv, AgentStep
  PROVE  InvokeInv'
<1>1. UNCHANGED <<provider, step, read, turn, answer>>
  BY DEF AgentStep
<1>2. Words' = Words
  BY <1>1 DEF Words
<1>3. child \in [at : {"none", "running", "exited", "killed"}, out : Seq(Words), err : Nat,
                 code : {0, 1}, held : BOOLEAN]
  BY DEF InvokeInv, ChildTypes
<1>4. Writable \/ child.at = "running" \/ (child.at = "exited" /\ child.held)
  BY DEF AgentStep, Prints, Complains, PipesClose, Exits
<1>5. step = "wait"
  BY <1>4 DEF InvokeInv, ChildAtStep, Writable, Ended, Final
<1>6. ChildTypes'
  <2>1. ASSUME NEW word \in Words, Prints(word) PROVE ChildTypes'
    <3>1. Append(child.out, word) \in Seq(Words)
      BY <1>3
    <3> QED
      BY <1>1, <1>2, <1>3, <2>1, <3>1 DEF Prints, InvokeInv, ChildTypes
  <2>2. CASE Complains
    BY <1>1, <1>2, <1>3, <2>2 DEF Complains, InvokeInv, ChildTypes
  <2>3. CASE PipesClose
    BY <1>1, <1>2, <1>3, <2>3 DEF PipesClose, InvokeInv, ChildTypes
  <2>4. ASSUME NEW code \in {0, 1}, NEW held \in BOOLEAN, Exits(code, held) PROVE ChildTypes'
    BY <1>1, <1>2, <1>3, <2>4 DEF Exits, InvokeInv, ChildTypes
  <2> QED
    BY <2>1, <2>2, <2>3, <2>4 DEF AgentStep
<1>7. ChildAtStep' /\ ReadSoFar' /\ Decided'
  BY <1>1, <1>5 DEF InvokeInv, ChildAtStep, ReadSoFar, Decided, Final, NothingRead, NoText
<1> QED
  BY <1>6, <1>7 DEF InvokeInv

\* Everything a command prints is text.
LEMMA CommandSays ==
  ASSUME InvokeInv, provider = "command"
  PROVE  /\ TextOf([n \in DOMAIN child.out |-> child.out[n].text], child.out, Len(child.out) + 1)
         /\ [n \in DOMAIN child.out |-> child.out[n].text] \in Seq(Pieces)
         /\ Unfailed
<1> DEFINE out == child.out
           text == [n \in DOMAIN out |-> out[n].text]
           at == [n \in DOMAIN out |-> n]
<1>1. out \in Seq(Words) /\ Len(out) \in Nat /\ DOMAIN out = 1..Len(out)
  BY DEF InvokeInv, ChildTypes
<1>2. \A i \in DOMAIN out : out[i].type = "text" /\ out[i].text \in Pieces
  BY LineFacts DEF InvokeInv
<1>3. text \in Seq(Pieces) /\ Len(text) = Len(out) /\ \A k \in 1..Len(out) : text[k] = out[k].text
  BY <1>1, <1>2
<1>4. SaidIn(out, Len(out) + 1) = 1..Len(out)
  BY <1>1, <1>2 DEF SaidIn
<1>5. Numbers(at, Len(out), 1..Len(out))
  BY <1>1 DEF Numbers
<1>6. \A k \in 1..Len(out) : at[k] = k
  BY <1>1
<1> HIDE DEF text, at
<1>7. TextOf(text, out, Len(out) + 1)
  BY <1>3, <1>4, <1>5, <1>6 DEF TextOf
<1>8. Unfailed
  BY <1>2 DEF Unfailed, NoFailure
<1> QED
  BY <1>3, <1>7, <1>8 DEF text

\* A text that all lines make is the document, or the document is not what
\* they make.
LEMMA ConcludedText ==
  ASSUME InvokeInv, NEW text \in Seq(Pieces), TextOf(text, child.out, Len(child.out) + 1)
  PROVE  Parses(text) <=> Printed
<1>1. Document \in Seq(Pieces) /\ child.out \in Seq(Words)
  BY ProviderConstants DEF InvokeInv, ChildTypes
<1>2. ASSUME Printed PROVE text = Document
  BY <1>1, <1>2, OneText DEF Printed
<1> QED
  BY <1>2 DEF Parses, Printed

LEMMA ReturnsStep ==
  ASSUME InvokeInv, Returns
  PROVE  InvokeInv'
<1>1. step = "wait" /\ Ended /\ UNCHANGED <<provider, child, read, turn>> /\ provider \in Timed
  BY DEF Returns, InvokeInv, ChildAtStep
<1>2. ChildTypes'
  BY <1>1 DEF InvokeInv, ChildTypes, Words
<1>3. read = NothingRead
  BY <1>1 DEF InvokeInv, ReadSoFar
<1>4. CASE WithinLimit(child) /\ child.code = 0 /\ provider = "opencode" /\ step' = "read"
  <2>1. ChildAtStep'
    BY <1>1, <1>4 DEF ChildAtStep, Final, Ended, EndedWell, WithinLimit
  <2>2. ReadSoFar'
    <3>1. child.out \in Seq(Words) /\ Len(child.out) \in Nat
      BY DEF InvokeInv, ChildTypes
    <3>2. TextOf(<<>>, child.out, 1) /\ EventsIn(child.out, 1) = {}
      BY <3>1, NothingYet
    <3>3. Cardinality({}) = 0 /\ 0 <= MaxEvents
      BY FS_EmptySet, ProviderConstants
    <3>4. NoFailure(child.out, 1)
      BY <3>1 DEF NoFailure
    <3>5. /\ read.next = 1 /\ read.count = 0 /\ read.chunks = <<>>
          /\ read \in [next : Nat, count : Nat, chunks : Seq(Pieces)]
      BY <1>3 DEF NothingRead, NoText
    <3>6. /\ read.next \in 1..(Len(child.out) + 1)
          /\ read.count = Cardinality(EventsIn(child.out, read.next)) /\ read.count <= MaxEvents
          /\ NoFailure(child.out, read.next) /\ TextOf(read.chunks, child.out, read.next)
      <4>1. 1 \in 1..(Len(child.out) + 1)
        BY <3>1
      <4>2. Cardinality(EventsIn(child.out, 1)) = 0
        BY <3>2, <3>3
      <4> QED BY ONLY <3>2, <3>3, <3>4, <3>5, <4>1, <4>2, Zenon
    <3> QED
      BY <1>1, <1>4, <3>5, <3>6 DEF ReadSoFar
  <2>3. Decided'
    BY <1>4 DEF Decided
  <2> QED
    BY <1>2, <2>1, <2>2, <2>3 DEF InvokeInv
<1>5. ASSUME WithinLimit(child), child.code = 0, provider = "command",
             Conclude([n \in DOMAIN child.out |-> child.out[n].text])
      PROVE  InvokeInv'
  <2> DEFINE text == [n \in DOMAIN child.out |-> child.out[n].text]
  <2>1. Unfailed /\ (Parses(text) <=> Printed)
    <3>1. Unfailed /\ text \in Seq(Pieces) /\ TextOf(text, child.out, Len(child.out) + 1)
      BY <1>5, CommandSays
    <3> HIDE DEF text
    <3> QED BY <3>1, ConcludedText
  <2>2. \/ step' = "answered" /\ answer' = Document /\ Printed
        \/ step' = "raised" /\ ~Printed
    <3>1. Conclude(text)
      BY <1>5
    <3> HIDE DEF text
    <3> QED BY <2>1, <3>1 DEF Conclude, Answers, Raises, Parses
  <2>3. EndedWell
    BY <1>1, <1>5 DEF EndedWell, Ended
  <2>4. ChildAtStep' /\ ReadSoFar'
    BY <1>1, <2>2 DEF ChildAtStep, ReadSoFar, Final, Ended
  <2>5. Decided'
    BY <1>1, <1>5, <2>1, <2>2, <2>3 DEF Decided, EndedWell, WithinLimit, Printed, Unfailed
  <2> QED
    BY <1>2, <2>4, <2>5 DEF InvokeInv
<1>6. CASE ~(WithinLimit(child) /\ child.code = 0) /\ step' = "raised"
  <2>1. ChildAtStep' /\ ReadSoFar'
    BY <1>1, <1>6 DEF ChildAtStep, ReadSoFar, Final, Ended
  <2>2. Decided'
    BY <1>1, <1>6 DEF Decided, EndedWell, WithinLimit
  <2> QED
    BY <1>2, <2>1, <2>2 DEF InvokeInv
<1> QED
  BY <1>4, <1>5, <1>6 DEF Returns, Raises

\* One more line is read, and stays within what the whole output is.
LEMMA ReadLineStep ==
  ASSUME InvokeInv, ReadLine
  PROVE  InvokeInv'
<1> DEFINE out == child.out
           n == read.next
           line == out[n]
<1>1. /\ step = "read" /\ n <= Len(out) /\ UNCHANGED <<provider, child>>
      /\ provider = "opencode" /\ Ended /\ EndedWell
  BY DEF ReadLine, InvokeInv, ChildAtStep
<1>2. /\ out \in Seq(Words) /\ Len(out) \in Nat /\ n \in Nat /\ n \in DOMAIN out
      /\ read \in [next : Nat, count : Nat, chunks : Seq(Pieces)]
      /\ read.count = Cardinality(EventsIn(out, n)) /\ read.count <= MaxEvents
      /\ NoFailure(out, n) /\ TextOf(read.chunks, out, n)
  <2>1. out \in Seq(Words) /\ Len(out) \in Nat
    BY DEF InvokeInv, ChildTypes
  <2>2. /\ read \in [next : Nat, count : Nat, chunks : Seq(Pieces)] /\ n \in 1..(Len(out) + 1)
        /\ read.count = Cardinality(EventsIn(out, n)) /\ read.count <= MaxEvents
        /\ NoFailure(out, n) /\ TextOf(read.chunks, out, n)
    BY <1>1 DEF InvokeInv, ReadSoFar
  <2>3. n \in DOMAIN out
    BY <1>1, <2>1, <2>2
  <2> QED BY <2>1, <2>2, <2>3
<1>3. ChildTypes'
  BY <1>1 DEF InvokeInv, ChildTypes, Words
<1>4. MaxEvents \in Nat
  BY ProviderConstants
<1>5. CASE step' = "raised" /\ line.type # "blank" /\ (read.count = MaxEvents \/ Refuses(line))
  <2>1. ~Unfailed \/ ~FewEvents
    <3>1. CASE Refuses(line)
      BY <1>2, <3>1 DEF Refuses, Unfailed, NoFailure
    <3>2. CASE read.count = MaxEvents
      <4>1. Cardinality(EventsIn(out, n + 1)) = MaxEvents + 1
        BY <1>2, <1>5, <3>2, EventStep
      <4>2. n + 1 \in Nat /\ n + 1 <= Len(out) + 1
        BY <1>1, <1>2
      <4>3. Cardinality(EventsIn(out, n + 1)) <= Cardinality(EventsIn(out, Len(out) + 1))
        BY <1>2, <4>2, EventsGrow
      <4>4. Cardinality(EventsIn(out, Len(out) + 1)) \in Nat
        BY <1>2, EventsGrow
      <4> QED BY <1>4, <4>1, <4>3, <4>4 DEF FewEvents
    <3> QED BY <1>5, <3>1, <3>2
  <2>2. ChildAtStep' /\ ReadSoFar'
    BY <1>1, <1>5 DEF ChildAtStep, ReadSoFar, Final, Ended
  <2>3. Decided'
    BY <1>1, <1>5, <2>1 DEF Decided, EndedWell, WithinLimit, Unfailed, FewEvents
  <2> QED
    BY <1>3, <2>2, <2>3 DEF InvokeInv
<1>6. ASSUME step' = step, line.type \notin {"error", "broken"},
             read'.next = n + 1, read' \in [next : Nat, count : Nat, chunks : Seq(Pieces)],
             read'.count = Cardinality(EventsIn(out, n + 1)), read'.count <= MaxEvents,
             TextOf(read'.chunks, out, n + 1)
      PROVE  InvokeInv'
  <2>1. ChildAtStep' /\ Decided'
    BY <1>1, <1>6 DEF ChildAtStep, Decided, Final, Ended, EndedWell, WithinLimit
  <2>2. NoFailure(out, n + 1)
    BY <1>2, <1>6 DEF NoFailure
  <2>3. n + 1 \in 1..(Len(out) + 1)
    BY <1>1, <1>2
  <2>4. ReadSoFar'
    BY <1>1, <1>6, <2>2, <2>3 DEF ReadSoFar
  <2> QED
    BY <1>3, <2>1, <2>4 DEF InvokeInv
<1>7. CASE line.type = "blank" /\ read' = [read EXCEPT !.next = @ + 1] /\ step' = step
  <2>1. /\ read'.next = n + 1 /\ read'.count = read.count /\ read'.chunks = read.chunks
        /\ read' \in [next : Nat, count : Nat, chunks : Seq(Pieces)]
    BY <1>2, <1>7
  <2>2. EventsIn(out, n + 1) = EventsIn(out, n)
    BY <1>2, <1>7, EventStep
  <2>3. TextOf(read.chunks, out, n + 1)
    BY <1>2, <1>7, TextStep
  <2> QED
    BY <1>2, <1>6, <1>7, <2>1, <2>2, <2>3
<1>8. CASE /\ line.type # "blank" /\ read.count # MaxEvents /\ ~Refuses(line) /\ step' = step
           /\ read' = [next |-> n + 1, count |-> read.count + 1,
                       chunks |-> IF line.type = "text" THEN Append(read.chunks, line.text)
                                  ELSE read.chunks]
  <2>1. read.count + 1 \in Nat /\ read.count + 1 <= MaxEvents
    BY <1>2, <1>4, <1>8
  <2>2. read.count + 1 = Cardinality(EventsIn(out, n + 1))
    BY <1>2, <1>8, EventStep
  <2>3. /\ line.type = "text" => Append(read.chunks, line.text) \in Seq(Pieces)
        /\ read.chunks \in Seq(Pieces)
    <3>1. line.type = "text" => line.text \in Pieces
      BY <1>2, LineFacts DEF InvokeInv
    <3> QED BY <1>2, <3>1
  <2>4. TextOf(read'.chunks, out, n + 1)
    BY <1>2, <1>8, TextStep
  <2>5. /\ read'.next = n + 1 /\ read'.count = read.count + 1
        /\ read' \in [next : Nat, count : Nat, chunks : Seq(Pieces)]
    BY <1>2, <1>8, <2>1, <2>3
  <2>6. line.type \notin {"error", "broken"}
    BY <1>8 DEF Refuses
  <2> QED
    BY <1>6, <1>8, <2>1, <2>2, <2>4, <2>5, <2>6
<1> QED
  BY <1>5, <1>7, <1>8 DEF ReadLine, Raises

LEMMA ReturnTextStep ==
  ASSUME InvokeInv, ReturnText
  PROVE  InvokeInv'
<1>1. /\ step = "read" /\ UNCHANGED <<provider, child, read>> /\ Conclude(read.chunks)
      /\ provider = "opencode" /\ Ended /\ EndedWell /\ read.next > Len(child.out)
  BY DEF ReturnText, InvokeInv, ChildAtStep
<1>2. ChildTypes'
  BY <1>1 DEF InvokeInv, ChildTypes, Words
<1>3. read.next = Len(child.out) + 1
  <2>1. Len(child.out) \in Nat /\ read.next \in 1..(Len(child.out) + 1)
    BY <1>1 DEF InvokeInv, ChildTypes, ReadSoFar
  <2> QED BY <1>1, <2>1
<1>4. /\ Unfailed /\ FewEvents /\ read.chunks \in Seq(Pieces)
      /\ TextOf(read.chunks, child.out, Len(child.out) + 1)
  BY <1>1, <1>3 DEF InvokeInv, ReadSoFar, Unfailed, FewEvents
<1>5. Parses(read.chunks) <=> Printed
  BY <1>4, ConcludedText
<1>6. \/ step' = "answered" /\ answer' = Document /\ Printed
      \/ step' = "raised" /\ ~Printed
  BY <1>1, <1>5 DEF Conclude, Answers, Raises, Parses
<1>7. ChildAtStep' /\ ReadSoFar'
  BY <1>1, <1>6 DEF ChildAtStep, ReadSoFar, Final, Ended
<1>8. Decided'
  BY <1>1, <1>4, <1>6 DEF Decided, EndedWell, WithinLimit, Printed, Unfailed, FewEvents
<1> QED
  BY <1>2, <1>7, <1>8 DEF InvokeInv

LEMMA InvokeInvStep == InvokeInv /\ [InvokeNext]_invokeVars => InvokeInv'
<1> SUFFICES ASSUME InvokeInv, [InvokeNext]_invokeVars PROVE InvokeInv'
  OBVIOUS
<1>1. CASE UNCHANGED invokeVars
  BY <1>1, OtherSteps DEF invokeVars
<1>2. CASE ConstructProvider
  <2>1. UNCHANGED <<provider, child, read>> /\ step = "construct" /\ step' \in {"ready", "raised"}
    BY <1>2 DEF ConstructProvider, Raises
  <2> QED BY <2>1, OtherSteps
<1>3. CASE CannotInvoke \/ SdkUnusable \/ StartTurn \/ TurnRaises
  <2>1. /\ UNCHANGED <<provider, child, read>>
        /\ \/ step = "ready" /\ step' = "turn" /\ provider = "codex"
           \/ step \in {"ready", "turn"} /\ step' = "raised"
    BY <1>3 DEF CannotInvoke, SdkUnusable, StartTurn, TurnRaises, Raises
  <2> QED BY <2>1, OtherSteps
<1>4. ASSUME NEW error, NEW response, TurnEnds(error, response) PROVE InvokeInv'
  <2>1. UNCHANGED <<provider, child, read>> /\ step = "turn" /\ step' = "result"
    BY <1>4 DEF TurnEnds
  <2> QED BY <2>1, OtherSteps
<1>5. CASE JudgeTurn
  <2>1. /\ UNCHANGED <<provider, child, read, turn>> /\ step = "result"
        /\ \/ step' = "raised"
           \/ step' = "answered" /\ ~turn.error /\ answer' = turn.response /\ answer' = Document
    BY <1>5 DEF JudgeTurn, Conclude, Answers, Raises, Parses
  <2> QED BY <2>1, OtherSteps
<1>6. CASE CallBack
  <2>1. /\ UNCHANGED <<provider, child, read>> /\ step = "ready" /\ provider = "callable"
        /\ step' \in {"raised", "answered"}
    BY <1>6 DEF CallBack, Raises, Answers
  <2> QED BY <2>1, OtherSteps
<1> QED
  BY <1>1, <1>2, <1>3, <1>4, <1>5, <1>6, RunStep, KillStep, ReturnsStep, ReadLineStep,
     ReturnTextStep, ChildMoves DEF InvokeNext, Provider, Sdk

\* Every reachable state of an invocation satisfies its inductive invariant.
THEOREM InvokeInvariance == InvokeSpec => []InvokeInv
BY InvokeInvInit, InvokeInvStep, PTL DEF InvokeSpec

\* The lines before the one after the last are all the lines.
LEMMA WholeText ==
  ASSUME ChildTypes, NEW text \in Seq(Pieces)
  PROVE  TextOf(text, child.out, Len(child.out) + 1) <=> Whole(text)
<1> DEFINE out == child.out
           n == Len(out) + 1
<1>1. out \in Seq(Words) /\ DOMAIN text = 1..Len(text) /\ Len(text) \in Nat
  BY DEF ChildTypes
<1>2. SaidIn(out, n) = Said
  BY <1>1 DEF SaidIn, Said
<1>3. ASSUME TextOf(text, out, n) PROVE Whole(text)
  <2>1. PICK f : /\ Numbers(f, Len(text), Said)
                 /\ \A k \in 1..Len(text) : text[k] = out[f[k]].text
    BY <1>2, <1>3 DEF TextOf
  <2> DEFINE at == [k \in DOMAIN text |-> f[k]]
  <2>2. \A k \in DOMAIN text : at[k] = f[k]
    OBVIOUS
  <2>3. \A k \in DOMAIN text : f[k] \in DOMAIN out
    BY <1>1, <2>1 DEF Numbers, Said
  <2>4. at \in [DOMAIN text -> DOMAIN out]
    BY <2>3
  <2> HIDE DEF at
  <2>5. Spells(at, text, Said)
    BY <1>1, <2>1, <2>2 DEF Spells, Numbers
  <2> QED
    BY <2>4, <2>5 DEF Whole
<1>4. ASSUME Whole(text) PROVE TextOf(text, out, n)
  <2>1. PICK at : Spells(at, text, Said)
    BY <1>4 DEF Whole
  <2>2. Numbers(at, Len(text), Said) /\ \A k \in 1..Len(text) : text[k] = out[at[k]].text
    BY <1>1, <2>1 DEF Spells, Numbers
  <2> QED
    BY <1>2, <2>2 DEF TextOf
<1> QED
  BY <1>3, <1>4

\* An answer is everything the agent said, in its order, by a run that ended
\* well within the limits, and such a run is answered (opencode_provider.py,
\* providers.py, codex_provider.py).
THEOREM AnswerIsWholeHolds == InvokeSpec => []AnswerIsWhole
<1>1. InvokeInv => AnswerIsWhole
  <2> SUFFICES ASSUME InvokeInv PROVE AnswerIsWhole
    OBVIOUS
  <2>1. Document \in Seq(Pieces) /\ child.out \in Seq(Words) /\ ChildTypes
    BY ProviderConstants DEF InvokeInv, ChildTypes
  <2>2. Printed <=> Whole(Document)
    BY <2>1, WholeText DEF Printed
  <2>3. \A i \in DOMAIN child.out : i < Len(child.out) + 1
    BY <2>1
  <2>4. Unfailed <=> Failures = {}
    BY <2>3 DEF Unfailed, NoFailure, Failures
  <2>5. FewEvents <=> Cardinality(Events) <= MaxEvents
    <3>1. EventsIn(child.out, Len(child.out) + 1) = Events
      BY <2>3 DEF EventsIn, Events
    <3> QED BY <3>1 DEF FewEvents
  <2>6. /\ Cardinality(Events) \in Nat /\ MaxEvents \in Nat
    <3>1. Len(child.out) + 1 \in Nat /\ Len(child.out) + 1 <= Len(child.out) + 1
      BY <2>1
    <3>2. Cardinality(EventsIn(child.out, Len(child.out) + 1)) \in Nat
      BY <2>1, <3>1, EventsGrow
    <3>3. EventsIn(child.out, Len(child.out) + 1) = Events
      BY <2>3 DEF EventsIn, Events
    <3> QED BY <3>2, <3>3, ProviderConstants
  <2>7. Decided
    BY DEF InvokeInv
  <2>8. step = "answered" /\ provider \in Timed =>
          /\ child.at = "exited" /\ child.code = 0 /\ WithinLimit(child)
          /\ Parses(answer) /\ Whole(answer) /\ Failures = {}
          /\ provider = "opencode" => Cardinality(Events) <= MaxEvents
    <3> SUFFICES ASSUME step = "answered", provider \in Timed
                 PROVE  /\ EndedWell /\ Parses(answer) /\ Whole(answer) /\ Failures = {}
                        /\ provider = "opencode" => Cardinality(Events) <= MaxEvents
      BY DEF EndedWell
    <3>1. answer = Document /\ EndedWell /\ Printed /\ Unfailed /\ (provider = "opencode" => FewEvents)
      BY <2>7 DEF Decided
    <3>2. Whole(answer) /\ Parses(answer)
      BY <2>2, <3>1 DEF Parses
    <3> QED BY <2>4, <2>5, <3>1, <3>2
  <2>9. step = "answered" /\ provider = "codex" =>
          ~turn.error /\ answer = turn.response /\ Parses(turn.response)
    BY <2>7 DEF Decided, Parses
  <2>10. step = "raised" /\ child.at = "exited" /\ child.code = 0 /\ WithinLimit(child) =>
           \/ ~Whole(Document) \/ Failures # {}
           \/ provider = "opencode" /\ Cardinality(Events) > MaxEvents
    BY <2>2, <2>4, <2>5, <2>6, <2>7 DEF Decided, EndedWell
  <2> QED
    BY <2>8, <2>9, <2>10 DEF AnswerIsWhole
<1> QED
  BY <1>1, InvokeInvariance, PTL
=============================================================================
