---------------------------- MODULE RuntimeProofs ----------------------------
(* The runs keep the ledger of run records, for any configurations, number  *)
(* of runs, repairs, failures and crashes; and what the ledger promises.    *)
EXTENDS Runtime, FiniteSetTheorems, TLAPS

\* The attempts of every configuration are numbered within the ledger's bound.
LEMMA LargestIsBound ==
  /\ LargestAttempt \in Nat
  /\ \A cfg \in Configs : cfg.maxRepairs + 1 <= LargestAttempt
<1> DEFINE R == {cfg.maxRepairs : cfg \in Configs}
           most == CHOOSE n \in R : \A cfg \in Configs : cfg.maxRepairs <= n
<1>1. \A cfg \in Configs : cfg.maxRepairs \in Nat
  BY RuntimeConstants DEF Config
<1>2. \E n \in R : \A cfg \in Configs : cfg.maxRepairs <= n
  BY RuntimeConstants
<1>3. most \in R /\ \A cfg \in Configs : cfg.maxRepairs <= most
  BY <1>2
<1>4. LargestAttempt = 1 + most
  BY DEF LargestAttempt
<1> HIDE DEF most
<1> QED BY <1>1, <1>3, <1>4

\* The ledger speaks of statuses, verdicts and conclusions as the runs do.
LEMMA SameDecision ==
  /\ Ledger!Statuses = Statuses /\ Ledger!Verdicts = Verdicts
  /\ \A plan, status : Ledger!Conclusion(plan, status) = Conclusion(plan, status)
BY DEF Ledger!Statuses, Statuses, Ledger!Verdicts, Verdicts,
       Ledger!Conclusion, Conclusion, Ledger!VerdictOf, VerdictOf

-----------------------------------------------------------------------------
(* The ledger *)

\* The rows of a run come in the order of their attempts and, within one, of
\* the stages that produce them.
AttemptOf(row) == IF row.kind = "AUTHORIZED_SPEC" THEN 0 ELSE row.attempt

Stage(row) ==
  IF row.kind = "AUTHORIZED_SPEC" THEN 0
  ELSE IF row.kind = "CLAIM" THEN IF row.producer = "agent" THEN 1 ELSE 2
  ELSE IF row.kind = "EVIDENCE" THEN 3
  ELSE IF row.kind = "RECEIPT" THEN 4 ELSE 5

Before(a, b) ==
  \/ AttemptOf(a) < AttemptOf(b)
  \/ AttemptOf(a) = AttemptOf(b) /\ Stage(a) < Stage(b)

Index == 1..Len(records)

Ordered ==
  \A i, j \in Index :
    i < j /\ records[i].run = records[j].run => Before(records[i], records[j])

\* Row i has, at j, a row of its run and attempt to rest on.
RestsOn(i, j, kind) ==
  /\ j \in 1..i
  /\ records[j].run = records[i].run
  /\ records[j].kind = kind
  /\ kind # "AUTHORIZED_SPEC" => records[j].attempt = records[i].attempt

\* Row i rests on the rows its kind calls for.
Grounded(i) ==
  /\ \E j \in Index : RestsOn(i, j, "AUTHORIZED_SPEC")
  /\ records[i].kind # "AUTHORIZED_SPEC" =>
       \E j \in Index : RestsOn(i, j, "CLAIM") /\ records[j].producer = "agent"
  /\ records[i].kind = "RECEIPT" =>
       \E j \in Index :
         /\ RestsOn(i, j, "EVIDENCE")
         /\ records[i].verdict = Conclusion(DOMAIN records[j].status, records[j].status)
  /\ records[i].kind = "ARTIFACT" =>
       /\ \E j \in Index : RestsOn(i, j, "RECEIPT") /\ records[j].verdict = "VERIFIED"
       /\ \E j \in Index :
            /\ RestsOn(i, j, "EVIDENCE")
            /\ \A o \in DOMAIN records[j].status : records[j].status[o] = "PASSED"

Chained == \A i \in Index : Grounded(i)

LedgerInv == Ledger!TypeOK /\ Ordered /\ Chained /\ Ledger!ArtifactIsFinal

-----------------------------------------------------------------------------
(* Rows *)

Kinds == {"AUTHORIZED_SPEC", "CLAIM", "EVIDENCE", "RECEIPT", "ARTIFACT"}

LEMMA RowFacts ==
  ASSUME NEW row \in Ledger!Row
  PROVE  /\ row.run \in Runs
         /\ row.kind \in Kinds
         /\ row.kind # "AUTHORIZED_SPEC" => row.attempt \in Ledger!Attempts
         /\ row.kind = "CLAIM" => row.producer \in {"agent", "critic"}
BY DEF Ledger!Row, Kinds, Ledger!SpecRow, Ledger!ClaimRow, Ledger!EvidenceRow, Ledger!ReceiptRow, Ledger!ArtifactRow

LEMMA RankFacts ==
  ASSUME LargestAttempt \in Nat, NEW row \in Ledger!Row
  PROVE  AttemptOf(row) \in Nat /\ Stage(row) \in Nat
BY RowFacts DEF AttemptOf, Stage, Ledger!Attempts

\* The order of rows is an order.
LEMMA BeforeFacts ==
  ASSUME LargestAttempt \in Nat, NEW a \in Ledger!Row, NEW b \in Ledger!Row, NEW c \in Ledger!Row
  PROVE  /\ ~Before(a, a)
         /\ Before(a, b) /\ Before(b, c) => Before(a, c)
<1>1. \A row \in Ledger!Row : AttemptOf(row) \in Nat /\ Stage(row) \in Nat
  BY RankFacts
<1> QED BY <1>1 DEF Before

\* What may follow a row comes after it, and nothing may follow an artifact.
LEMMA FollowsIsBefore ==
  ASSUME LargestAttempt \in Nat, NEW last \in Ledger!Row, NEW row \in Ledger!Row, Ledger!MayFollow(last, row)
  PROVE  Before(last, row) /\ last.kind # "ARTIFACT" /\ row.kind # "AUTHORIZED_SPEC"
<1>1. last.kind # "AUTHORIZED_SPEC" => last.attempt \in Nat
  BY RowFacts DEF Ledger!Attempts
<1> QED
  BY <1>1, RowFacts DEF Ledger!MayFollow, Ledger!RepairFollows, Ledger!ArtifactFollows, Before, AttemptOf, Stage, Kinds

\* VERIFIED is concluded only when every obligation passed.
LEMMA VerifiedMeansPassed ==
  ASSUME NEW status, Conclusion(DOMAIN status, status) = "VERIFIED"
  PROVE  \A o \in DOMAIN status : status[o] = "PASSED"
BY DEF Conclusion, VerdictOf

-----------------------------------------------------------------------------
(* One more row *)

LEMMA LedgerInvInit == Ledger!Init => LedgerInv
BY DEF Ledger!Init, LedgerInv, Ledger!TypeOK, Ordered, Chained, Ledger!ArtifactIsFinal, Index

\* A step appends one justified row.
LEMMA NextAppends ==
  ASSUME LargestAttempt \in Nat, Ledger!Next
  PROVE  \E row \in Ledger!Row : Ledger!Write(row)
BY DEF Ledger!Next, Ledger!Row

LEMMA LedgerInvStutter == LedgerInv /\ UNCHANGED records => LedgerInv'
<1> SUFFICES ASSUME LedgerInv, UNCHANGED records PROVE LedgerInv'
  OBVIOUS
<1>1. Ledger!TypeOK' /\ Ledger!ArtifactIsFinal'
  BY DEF LedgerInv, Ledger!TypeOK, Ledger!ArtifactIsFinal
<1>2. Ordered'
  BY DEF LedgerInv, Ordered, Index, Before, AttemptOf, Stage
<1>3. Chained'
  <2>1. ASSUME NEW i \in Index PROVE Grounded(i)'
    <3>1. Grounded(i)
      BY DEF LedgerInv, Chained
    <3> QED BY <3>1 DEF Grounded, RestsOn, Index
  <2> QED BY <2>1 DEF Chained, Index
<1> QED BY <1>1, <1>2, <1>3 DEF LedgerInv

\* Every step preserves the inductive invariant.
LEMMA LedgerInvStep ==
  ASSUME LargestAttempt \in Nat
  PROVE  LedgerInv /\ [Ledger!Next]_records => LedgerInv'
<1> SUFFICES ASSUME LedgerInv, Ledger!Next PROVE LedgerInv'
  BY LedgerInvStutter
<1> PICK row \in Ledger!Row : Ledger!Write(row)
  BY NextAppends
<1>0. PICK n \in Nat : n = Len(records)
  BY DEF LedgerInv, Ledger!TypeOK
<1>1. /\ n = Len(records) /\ Len(records') = n + 1 /\ records' \in Seq(Ledger!Row)
      /\ records'[n + 1] = row
      /\ \A i \in Index : records'[i] = records[i] /\ records[i] \in Ledger!Row
      /\ Index' = Index \cup {n + 1} /\ n + 1 \notin Index
  BY <1>0 DEF Ledger!Write, LedgerInv, Ledger!TypeOK, Index
<1>2. \/ /\ row.kind = "AUTHORIZED_SPEC"
         /\ \A i \in Index : records[i].run # row.run
      \/ \E l \in Index : Ledger!Latest(l, row.run, n) /\ Ledger!MayFollow(records[l], row)
  BY <1>0 DEF Ledger!Write, Ledger!Justified, Index
<1>3. ASSUME NEW i \in Index, records[i].run = row.run
      PROVE  Before(records[i], row) /\ records[i].kind # "ARTIFACT"
  <2>1. PICK l \in Index : Ledger!Latest(l, row.run, n) /\ Ledger!MayFollow(records[l], row)
    BY <1>2, <1>3
  <2>2. i = l \/ i < l
    BY <1>1, <1>3, <2>1 DEF Ledger!Latest, Index
  <2>3. i = l \/ Before(records[i], records[l])
    BY <1>3, <2>1, <2>2 DEF LedgerInv, Ordered, Ledger!Latest
  <2>4. Before(records[l], row) /\ records[l].kind # "ARTIFACT"
    BY <1>1, <2>1, FollowsIsBefore
  <2>5. Before(records[i], row)
    BY <1>1, <2>3, <2>4, BeforeFacts
  <2>6. records[i].kind # "ARTIFACT"
    <3>1. records[i].kind = "ARTIFACT" => l <= i
      BY <1>3, <2>1 DEF LedgerInv, Ledger!ArtifactIsFinal, Ledger!Latest, Index
    <3> QED BY <3>1, <2>2, <2>4, <1>1, <2>1 DEF Index
  <2> QED BY <2>5, <2>6
<1>4. Ordered'
  <2> SUFFICES ASSUME NEW i \in Index', NEW j \in Index', i < j,
                      records'[i].run = records'[j].run
               PROVE  Before(records'[i], records'[j])
    BY DEF Ordered, Before, AttemptOf, Stage
  <2>1. i \in Index
    BY <1>1 DEF Index
  <2>2. CASE j \in Index
    BY <1>1, <2>1, <2>2 DEF LedgerInv, Ordered
  <2>3. CASE j = n + 1
    BY <1>1, <1>3, <2>1, <2>3
  <2> QED BY <1>1, <2>2, <2>3
<1>5. Ledger!ArtifactIsFinal'
  <2> SUFFICES ASSUME NEW i \in Index', NEW j \in Index',
                      records'[i].kind = "ARTIFACT", records'[j].run = records'[i].run
               PROVE  j <= i
    BY DEF Ledger!ArtifactIsFinal, Index
  <2>1. CASE i = n + 1
    BY <1>1, <2>1 DEF Index
  <2>2. CASE i \in Index /\ j \in Index
    BY <1>1, <2>2 DEF LedgerInv, Ledger!ArtifactIsFinal, Index
  <2>3. CASE i \in Index /\ j = n + 1
    BY <1>1, <1>3, <2>3
  <2> QED BY <1>1, <2>1, <2>2, <2>3
<1>6. ASSUME NEW i \in Index, NEW j \in Index, NEW kind, RestsOn(i, j, kind)
      PROVE  RestsOn(i, j, kind)'
  BY <1>1, <1>6 DEF RestsOn
<1>7. ASSUME NEW i \in Index PROVE Grounded(i)'
  <2>1. Grounded(i)
    BY DEF LedgerInv, Chained
  <2> QED BY <1>1, <1>6, <2>1 DEF Grounded
<1>8. Grounded(n + 1)'
  <2>1. CASE row.kind = "AUTHORIZED_SPEC"
    <3>1. RestsOn(n + 1, n + 1, "AUTHORIZED_SPEC")'
      BY <1>1, <2>1 DEF RestsOn
    <3> QED BY <1>1, <2>1, <3>1 DEF Grounded
  <2>2. CASE row.kind # "AUTHORIZED_SPEC"
    <3>1. PICK l \in Index : Ledger!Latest(l, row.run, n) /\ Ledger!MayFollow(records[l], row)
      BY <1>2, <2>2 DEF Ledger!MayFollow
    <3>2. /\ Grounded(l) /\ records'[l] = records[l] /\ records[l].run = row.run
          /\ l \in 1..(n + 1) /\ n + 1 \in Index'
      BY <1>1, <3>1 DEF LedgerInv, Chained, Ledger!Latest, Index
    <3>3. ASSUME NEW j \in Index, NEW kind, RestsOn(l, j, kind),
                 kind # "AUTHORIZED_SPEC" => row.attempt = records[l].attempt
          PROVE  RestsOn(n + 1, j, kind)'
      BY <1>1, <3>2, <3>3 DEF RestsOn, Index
    <3>4. \E j \in Index' : RestsOn(n + 1, j, "AUTHORIZED_SPEC")'
      BY <1>1, <3>2, <3>3 DEF Grounded
    <3>5. \E j \in Index' : RestsOn(n + 1, j, "CLAIM")' /\ records'[j].producer = "agent"
      <4>1. CASE row.kind = "CLAIM" /\ row.producer = "agent"
        <5>1. RestsOn(n + 1, n + 1, "CLAIM")'
          BY <1>1, <4>1 DEF RestsOn
        <5> QED BY <1>1, <3>2, <4>1, <5>1
      <4>2. CASE ~(row.kind = "CLAIM" /\ row.producer = "agent")
        <5>1. row.attempt = records[l].attempt /\ records[l].kind # "AUTHORIZED_SPEC"
          BY <3>1, <4>2 DEF Ledger!MayFollow, Ledger!ArtifactFollows
        <5> QED BY <1>1, <3>2, <3>3, <5>1 DEF Grounded
      <4> QED BY <4>1, <4>2
    <3>6. ASSUME row.kind = "RECEIPT"
          PROVE  \E j \in Index' :
                   /\ RestsOn(n + 1, j, "EVIDENCE")'
                   /\ row.verdict = Conclusion(DOMAIN records'[j].status, records'[j].status)
      <4>1. /\ records[l].kind = "EVIDENCE" /\ row.attempt = records[l].attempt
            /\ row.verdict = Conclusion(DOMAIN records[l].status, records[l].status)
        BY <3>1, <3>6, SameDecision DEF Ledger!MayFollow
      <4>2. RestsOn(n + 1, l, "EVIDENCE")'
        BY <1>1, <3>2, <4>1 DEF RestsOn
      <4> QED BY <1>1, <3>2, <4>1, <4>2
    <3>7. ASSUME row.kind = "ARTIFACT"
          PROVE  /\ \E j \in Index' : RestsOn(n + 1, j, "RECEIPT")' /\ records'[j].verdict = "VERIFIED"
                 /\ \E j \in Index' :
                      /\ RestsOn(n + 1, j, "EVIDENCE")'
                      /\ \A o \in DOMAIN records'[j].status : records'[j].status[o] = "PASSED"
      <4>1. /\ records[l].kind = "RECEIPT" /\ row.attempt = records[l].attempt
            /\ records[l].verdict = "VERIFIED"
        BY <3>1, <3>7 DEF Ledger!MayFollow, Ledger!ArtifactFollows
      <4>2. RestsOn(n + 1, l, "RECEIPT")'
        BY <1>1, <3>2, <4>1 DEF RestsOn
      <4>3. PICK e \in Index :
              /\ RestsOn(l, e, "EVIDENCE")
              /\ records[l].verdict = Conclusion(DOMAIN records[e].status, records[e].status)
        BY <3>2, <4>1 DEF Grounded
      <4>4. \A o \in DOMAIN records[e].status : records[e].status[o] = "PASSED"
        BY <4>1, <4>3, VerifiedMeansPassed
      <4>5. RestsOn(n + 1, e, "EVIDENCE")'
        BY <3>3, <4>1, <4>3
      <4> QED BY <1>1, <3>2, <4>1, <4>2, <4>4, <4>5
    <3> QED BY <1>1, <3>4, <3>5, <3>6, <3>7 DEF Grounded
  <2> QED BY <2>1, <2>2
<1> QED BY <1>1, <1>4, <1>5, <1>7, <1>8 DEF LedgerInv, Ledger!TypeOK, Chained

-----------------------------------------------------------------------------
(* The promises of the ledger *)

THEOREM LedgerInvariance == Ledger!Spec => []LedgerInv
BY LargestIsBound, LedgerInvInit, LedgerInvStep, PTL DEF Ledger!Spec

\* An artifact on record rests on its spec, its claim, evidence in which every
\* check passed and a VERIFIED receipt, each of its own run and attempt.
THEOREM ArtifactRestsHolds == Ledger!Spec => []Ledger!ArtifactRests
<1>1. LedgerInv => Ledger!ArtifactRests
  <2> SUFFICES ASSUME LedgerInv, NEW i \in Index, records[i].kind = "ARTIFACT"
               PROVE  /\ Ledger!Earlier(i, "AUTHORIZED_SPEC") # {}
                      /\ \E j \in Ledger!Earlier(i, "CLAIM") : records[j].producer = "agent"
                      /\ \E j \in Ledger!Earlier(i, "EVIDENCE") : \A o \in DOMAIN records[j].status :
                           records[j].status[o] = "PASSED"
                      /\ \E j \in Ledger!Earlier(i, "RECEIPT") : records[j].verdict = "VERIFIED"
    BY DEF Ledger!ArtifactRests, Index
  <2>1. ASSUME NEW j \in Index, NEW kind, RestsOn(i, j, kind), kind # "ARTIFACT"
        PROVE  j \in Ledger!Earlier(i, kind)
    BY <2>1 DEF RestsOn, Ledger!Earlier, Index, LedgerInv, Ledger!TypeOK
  <2>2. Grounded(i)
    BY DEF LedgerInv, Chained
  <2>3. /\ Ledger!Earlier(i, "AUTHORIZED_SPEC") # {}
        /\ \E j \in Ledger!Earlier(i, "CLAIM") : records[j].producer = "agent"
    BY <2>1, <2>2 DEF Grounded
  <2>4. \E j \in Ledger!Earlier(i, "EVIDENCE") : \A o \in DOMAIN records[j].status :
          records[j].status[o] = "PASSED"
    BY <2>1, <2>2 DEF Grounded
  <2>5. \E j \in Ledger!Earlier(i, "RECEIPT") : records[j].verdict = "VERIFIED"
    BY <2>1, <2>2 DEF Grounded
  <2> QED BY <2>3, <2>4, <2>5
<1> QED BY <1>1, LedgerInvariance, PTL

\* Nothing of a run is recorded behind its artifact.
THEOREM ArtifactIsFinalHolds == Ledger!Spec => []Ledger!ArtifactIsFinal
<1>1. LedgerInv => Ledger!ArtifactIsFinal
  BY DEF LedgerInv
<1> QED BY <1>1, LedgerInvariance, PTL

\* One claim by the agent, one critic proposal, one bundle, one receipt and one
\* artifact for each attempt of a run: a repair never overwrites history.
THEOREM OneChainPerAttemptHolds == Ledger!Spec => []Ledger!OneChainPerAttempt
<1>1. LedgerInv => Ledger!OneChainPerAttempt
  <2> SUFFICES ASSUME LedgerInv, NEW i \in Index, NEW j \in Index,
                      records[i].run = records[j].run,
                      records[i].kind = records[j].kind,
                      records[i].kind # "AUTHORIZED_SPEC" => records[i].attempt = records[j].attempt,
                      records[i].kind = "CLAIM" => records[i].producer = records[j].producer
               PROVE  i = j
    BY DEF Ledger!OneChainPerAttempt, Index
  <2>1. AttemptOf(records[i]) = AttemptOf(records[j]) /\ Stage(records[i]) = Stage(records[j])
    BY DEF AttemptOf, Stage
  <2>2. records[i] \in Ledger!Row /\ records[j] \in Ledger!Row
    BY DEF LedgerInv, Ledger!TypeOK, Index
  <2>3. ~Before(records[i], records[j]) /\ ~Before(records[j], records[i])
    BY <2>1, <2>2, RankFacts, LargestIsBound DEF Before
  <2>4. ~(i < j) /\ ~(j < i)
    BY <2>3 DEF LedgerInv, Ordered
  <2> QED BY <2>4 DEF Index
<1> QED BY <1>1, LedgerInvariance, PTL
-----------------------------------------------------------------------------
(* The inductive invariant of the runs *)

AnyStatus == {<<>>} \cup UNION {[plan -> Statuses] : plan \in SUBSET Obligations}

\* The local state of a call that has begun.
Call ==
  [stage : Stages, cfg : Configs, attempt : Nat, parent : Nat,
   plan : SUBSET Obligations, status : AnyStatus, verdict : Verdicts \cup {"none"}]

\* Some baseline check cannot run: nobody handles it, or no grant can be had.
Unobservable(cfg) == \E o \in cfg.baseline : ~Observable(cfg, o)

Spending == {"save_receipt", "save_artifact", "finish", "returned"}
Decided  == Spending \cup {"consume"}
Observed == Decided \cup {"issue", "save_evidence", "evaluate"}
Planned  == Observed \cup {"collect"}

\* What a call knows by the stage it has reached.
PlanKnown(k) ==
  /\ k.stage \in {"challenge", "quarantine_critic", "select"} => k.cfg.critic
  /\ k.stage \in Planned => \E s \in SUBSET Ids(Obligations) : PlanOf(k) = PlanFor(k.cfg, s)

StatusKnown(k) ==
  k.stage \in Observed =>
    /\ k.status \in [PlanOf(k) -> Statuses]
    /\ \A o \in PlanOf(k) : ~Observable(k.cfg, o) => k.status[o] = "ERROR"

VerdictKnown(k) ==
  /\ k.stage \in Decided =>
       /\ Decidable(k.cfg.criteria, PlanOf(k))
       /\ k.verdict = Conclusion(PlanOf(k), k.status)
  /\ k.stage \in {"consume", "save_artifact"} => k.verdict = "VERIFIED"
  /\ k.stage = "returned" /\ k.verdict = "REJECTED" => k.attempt = k.cfg.maxRepairs + 1

AttemptKnown(k) ==
  /\ k.attempt \in 1..(k.cfg.maxRepairs + 1)
  /\ k.parent \in 0..k.cfg.maxRepairs
  /\ k.stage \in {"save_context", "authorize", "save_spec"} => k.attempt = 1 /\ k.parent = 0
  /\ Unobservable(k.cfg) => k.attempt = 1

Known(k) ==
  \/ k = Idle
  \/ k \in Call /\ AttemptKnown(k) /\ PlanKnown(k) /\ StatusKnown(k) /\ VerdictKnown(k)

\* The latest row of run r is one of `rows`.
LastIn(r, rows) ==
  \E i \in 1..Len(records) : Ledger!Latest(i, r, Len(records)) /\ records[i] \in rows

\* The rows that justify what the call records next.
Opening(r, k) ==
  {row \in {Ledger!SpecRow(r)} : k.attempt = 1 /\ k.parent = 0}
  \cup {row \in {Ledger!ReceiptRow(r, n, "REJECTED") : n \in Nat} :
          k.attempt = row.attempt + 1 /\ k.parent = row.attempt}

Claims(r, k, by) == {Ledger!ClaimRow(r, by, k.attempt, p) : p \in Nat}

\* The last two rows of run r are its VERIFIED receipt and its artifact.
Delivered(r, n) ==
  \E i \in 1..Len(records) :
    /\ Ledger!Latest(i, r, Len(records))
    /\ records[i] = Ledger!ArtifactRow(r, n)
    /\ \E j \in 1..(i - 1) :
         Ledger!Latest(j, r, i - 1) /\ records[j] = Ledger!ReceiptRow(r, n, "VERIFIED")

\* What the table holds of run r when its call is k.
OnRecord(r, k) ==
  /\ k.stage \in {"idle", "save_context", "authorize", "save_spec"} =>
       \A i \in 1..Len(records) : records[i].run # r
  /\ k.stage \in {"invoke", "quarantine"} => LastIn(r, Opening(r, k))
  /\ k.stage \in {"challenge", "quarantine_critic"} => LastIn(r, Claims(r, k, "agent"))
  /\ k.stage = "select" => LastIn(r, Claims(r, k, "critic"))
  /\ k.stage \in {"collect", "issue", "save_evidence"} =>
       LastIn(r, Claims(r, k, IF k.cfg.critic THEN "critic" ELSE "agent"))
  /\ k.stage \in {"evaluate", "consume", "save_receipt"} =>
       LastIn(r, {Ledger!EvidenceRow(r, k.attempt, k.status)})
  /\ k.stage = "save_artifact" =>
       /\ LastIn(r, {Ledger!ReceiptRow(r, k.attempt, "VERIFIED")})
       /\ \E i \in 1..Len(records) : records[i] = Ledger!EvidenceRow(r, k.attempt, k.status)
  /\ k.stage \in {"finish", "returned"} =>
       IF k.verdict = "VERIFIED" THEN Delivered(r, k.attempt)
       ELSE LastIn(r, {Ledger!ReceiptRow(r, k.attempt, k.verdict)})

\* What the use store holds of run r when its call is k.
Spent(r, k) ==
  /\ \A p \in used : p[1] = r =>
       \/ k.stage \in Spending /\ k.verdict = "VERIFIED" /\ p[2] = k.attempt
       \/ k.stage \in {"raised", "dead"}
  /\ k.stage \in Spending /\ k.verdict = "VERIFIED" => <<r, k.attempt>> \in used

\* What is known of row i, whose run has the configuration cfg.
EvidenceKnown(i, cfg) ==
  records[i].kind = "EVIDENCE" =>
    /\ cfg.baseline \subseteq DOMAIN records[i].status
    /\ cfg.critic => \E m \in 1..(i - 1) :
         /\ records[m].run = records[i].run /\ records[m].kind = "CLAIM"
         /\ records[m].producer = "critic"
         /\ records[m].attempt = records[i].attempt

ReceiptKnown(i, cfg) ==
  records[i].kind = "RECEIPT" =>
    /\ records[i].verdict = "VERIFIED" => <<records[i].run, records[i].attempt>> \in used
    /\ Unobservable(cfg) => records[i].verdict = "ERROR" /\ records[i].attempt = 1

ArtifactKnown(i, cfg) ==
  records[i].kind = "ARTIFACT" => \E j \in 1..i :
    /\ records[j].run = records[i].run
    /\ records[j].kind = "EVIDENCE"
    /\ records[j].attempt = records[i].attempt
    /\ CriteriaOf(DOMAIN records[j].status) = cfg.criteria
    /\ \A o \in DOMAIN records[j].status : records[j].status[o] = "PASSED"

RowKnown(i, cfg) == EvidenceKnown(i, cfg) /\ ReceiptKnown(i, cfg) /\ ArtifactKnown(i, cfg)

Shaped ==
  /\ contexts \subseteq Runs
  /\ used \subseteq Runs \X Nat
  /\ records \in Seq(Ledger!Row)
  /\ run \in [Runs -> Call \cup {Idle}]
  /\ faults \in 0..MaxFaults /\ crashes \in 0..MaxCrashes

OneUse == \A p, q \in used : p[1] = q[1] => p = q

Calls == \A r \in Runs : Known(run[r]) /\ OnRecord(r, run[r]) /\ Spent(r, run[r])

Rows == \A i \in 1..Len(records) : RowKnown(i, run[records[i].run].cfg)

RunInv == Shaped /\ OneUse /\ Calls /\ Rows

-----------------------------------------------------------------------------
(* One step of a call *)

LEMMA StagesDistinct ==
  /\ Idle.stage = "idle" /\ "idle" \notin Stages /\ Idle \notin Call
  /\ \A k \in Call : k.stage \in Stages
BY DEF Idle, Stages, Stored, Ended, Call

\* A call past "idle" has begun.
LEMMA Begun ==
  ASSUME RunInv, NEW r \in Runs, run[r].stage # "idle"
  PROVE  run[r] \in Call
BY StagesDistinct DEF RunInv, Shaped

\* Moving on changes the stage and nothing else.
LEMMA Moved ==
  ASSUME NEW k \in Call, NEW s \in Stages
  PROVE  LET m == [k EXCEPT !.stage = s] IN
         /\ m \in Call /\ m.stage = s
         /\ m.cfg = k.cfg /\ m.attempt = k.attempt /\ m.parent = k.parent
         /\ m.plan = k.plan /\ m.status = k.status /\ m.verdict = k.verdict
BY DEF Call

\* What is known of a call and of a row depends on the tables alone.
LEMMA KnowledgeKept ==
  ASSUME UNCHANGED <<records, used>>, NEW r, NEW k
  PROVE  /\ OnRecord(r, k) => OnRecord(r, k)'
         /\ Spent(r, k) => Spent(r, k)'
<1>1. ASSUME NEW rows, LastIn(r, rows) PROVE LastIn(r, rows)'
  BY <1>1 DEF LastIn, Ledger!Latest
<1>2. ASSUME NEW n, Delivered(r, n) PROVE Delivered(r, n)'
  BY <1>2 DEF Delivered, Ledger!Latest
<1>3. OnRecord(r, k) => OnRecord(r, k)'
  BY <1>1, <1>2 DEF OnRecord
<1>4. Spent(r, k) => Spent(r, k)'
  BY DEF Spent
<1> QED BY <1>3, <1>4

\* A run in the table has begun, so its configuration stands.
LEMMA RecordedBegan ==
  ASSUME RunInv, NEW i \in 1..Len(records)
  PROVE  records[i].run \in Runs /\ run[records[i].run].stage # "idle"
<1>1. records[i] \in Ledger!Row
  BY DEF RunInv, Shaped
<1>2. records[i].run \in Runs
  BY <1>1, RowFacts
<1> QED BY <1>2 DEF RunInv, Calls, OnRecord

\* A step of one call that leaves the tables alone.
LEMMA Silent ==
  ASSUME RunInv, NEW r \in Runs, NEW k \in Call,
         run' = [run EXCEPT ![r] = k], UNCHANGED <<records, used>>,
         contexts' \subseteq Runs, faults' \in 0..MaxFaults, crashes' \in 0..MaxCrashes,
         run[r].stage # "idle" => run[r].cfg = k.cfg,
         Known(k), OnRecord(r, k), Spent(r, k)
  PROVE  RunInv'
<1>1. Shaped'
  BY DEF RunInv, Shaped
<1>2. OneUse'
  BY DEF RunInv, OneUse
<1>3. \A q \in Runs : run'[q] = IF q = r THEN k ELSE run[q]
  BY DEF RunInv, Shaped
<1>4. ASSUME NEW q \in Runs
      PROVE  (Known(run[q]) /\ OnRecord(q, run[q]) /\ Spent(q, run[q]))'
  <2> PICK m : m = run'[q]
    OBVIOUS
  <2>1. Known(m) /\ OnRecord(q, m) /\ Spent(q, m)
    BY <1>3 DEF RunInv, Calls
  <2>2. OnRecord(q, m)' /\ Spent(q, m)'
    BY <2>1, KnowledgeKept
  <2> QED BY <2>1, <2>2
<1>5. Calls'
  BY <1>4 DEF Calls
<1>6. ASSUME NEW i \in 1..Len(records) PROVE RowKnown(i, run[records[i].run].cfg)'
  <2> PICK c : c = run[records[i].run].cfg
    OBVIOUS
  <2>1. run'[records'[i].run].cfg = c
    BY <1>3, RecordedBegan
  <2>2. RowKnown(i, c)
    BY DEF RunInv, Rows
  <2>3. RowKnown(i, c)'
    BY <2>2 DEF RowKnown, EvidenceKnown, ReceiptKnown, ArtifactKnown
  <2> QED BY <2>1, <2>3
<1>7. Rows'
  BY <1>6 DEF Rows
<1> QED BY <1>1, <1>2, <1>5, <1>7 DEF RunInv

\* What one more row changes, and what it leaves.
LEMMA Appended ==
  ASSUME records \in Seq(Ledger!Row), NEW row \in Ledger!Row,
         records' = Append(records, row), NEW n \in Nat, n = Len(records)
  PROVE  /\ records' \in Seq(Ledger!Row)
         /\ Len(records') = n + 1
         /\ records'[n + 1] = row
         /\ \A i \in 1..n : records'[i] = records[i]
         /\ Ledger!Latest(n + 1, row.run, n + 1)'
BY DEF Ledger!Latest

\* One more row of a run is one of its latest rows.
LEMMA AppendedIsLast ==
  ASSUME records \in Seq(Ledger!Row), NEW row \in Ledger!Row,
         records' = Append(records, row), NEW r, row.run = r, NEW rows, row \in rows
  PROVE  LastIn(r, rows)'
<1> PICK n \in Nat : n = Len(records)
  OBVIOUS
<1> QED BY Appended DEF LastIn

\* A row of one run changes nothing on record of another.
LEMMA OthersKeep ==
  ASSUME records \in Seq(Ledger!Row), NEW row \in Ledger!Row,
         records' = Append(records, row), NEW q, q # row.run, NEW k, OnRecord(q, k)
  PROVE  OnRecord(q, k)'
<1> PICK n \in Nat : n = Len(records)
  OBVIOUS
<1>1. /\ Len(records') = n + 1 /\ records'[n + 1] = row
      /\ \A i \in 1..n : records'[i] = records[i]
  BY Appended
<1>2. ASSUME NEW i \in 1..n, Ledger!Latest(i, q, n) PROVE Ledger!Latest(i, q, n + 1)'
  BY <1>1, <1>2 DEF Ledger!Latest
<1>3. ASSUME NEW rows, LastIn(q, rows) PROVE LastIn(q, rows)'
  BY <1>1, <1>2, <1>3 DEF LastIn
<1>4. ASSUME NEW a, Delivered(q, a) PROVE Delivered(q, a)'
  <2>1. PICK i \in 1..n :
          /\ Ledger!Latest(i, q, n) /\ records[i] = Ledger!ArtifactRow(q, a)
          /\ \E j \in 1..(i - 1) :
               Ledger!Latest(j, q, i - 1) /\ records[j] = Ledger!ReceiptRow(q, a, "VERIFIED")
    BY <1>4 DEF Delivered
  <2>2. PICK j \in 1..(i - 1) :
          Ledger!Latest(j, q, i - 1) /\ records[j] = Ledger!ReceiptRow(q, a, "VERIFIED")
    BY <2>1
  <2>3. Ledger!Latest(j, q, i - 1)'
    BY <1>1, <2>2 DEF Ledger!Latest
  <2>4. i \in 1..(n + 1) /\ j \in 1..n
    OBVIOUS
  <2> QED BY <1>1, <1>2, <2>1, <2>2, <2>3, <2>4 DEF Delivered
<1>5. ASSUME \A i \in 1..n : records[i].run # q
      PROVE  \A i \in 1..Len(records') : records'[i].run # q
  BY <1>1, <1>5
<1>6. ASSUME NEW e, \E i \in 1..n : records[i] = e
      PROVE  \E i \in 1..Len(records') : records'[i] = e
  BY <1>1, <1>6
<1> QED BY <1>3, <1>4, <1>5, <1>6 DEF OnRecord

\* A step of one call that appends a row to the ledger.
LEMMA Recorded ==
  ASSUME RunInv, NEW r \in Runs, NEW k \in Call, NEW row \in Ledger!Row, row.run = r,
         run' = [run EXCEPT ![r] = k], records' = Append(records, row),
         UNCHANGED <<contexts, used, faults, crashes>>,
         run[r].stage # "idle", run[r].cfg = k.cfg,
         Known(k), Spent(r, k), OnRecord(r, k)',
         NEW n \in Nat, n = Len(records), RowKnown(n + 1, k.cfg)'
  PROVE  RunInv'
<1>0. /\ records' \in Seq(Ledger!Row)
      /\ Len(records') = n + 1 /\ records'[n + 1] = row
      /\ \A i \in 1..n : records'[i] = records[i]
  BY Appended DEF RunInv, Shaped
<1>1. Shaped'
  BY <1>0 DEF RunInv, Shaped
<1>2. OneUse'
  BY DEF RunInv, OneUse
<1>3. \A q \in Runs : run'[q] = IF q = r THEN k ELSE run[q]
  BY DEF RunInv, Shaped
<1>4. ASSUME NEW q \in Runs
      PROVE  (Known(run[q]) /\ OnRecord(q, run[q]) /\ Spent(q, run[q]))'
  <2> PICK m : m = run'[q]
    OBVIOUS
  <2>1. Known(m) /\ Spent(q, m)
    BY <1>3 DEF RunInv, Calls
  <2>2. Spent(q, m)'
    BY <2>1 DEF Spent
  <2>3. OnRecord(q, m)'
    <3>1. CASE q = r
      BY <1>3, <3>1
    <3>2. CASE q # r
      <4>1. OnRecord(q, m)
        BY <1>3, <3>2 DEF RunInv, Calls
      <4> QED BY <3>2, <4>1, OthersKeep DEF RunInv, Shaped
    <3> QED BY <3>1, <3>2
  <2> QED BY <2>1, <2>2, <2>3
<1>5. Calls'
  BY <1>4 DEF Calls
<1>6. ASSUME NEW i \in 1..n PROVE RowKnown(i, run[records[i].run].cfg)'
  <2> PICK c : c = run[records[i].run].cfg
    OBVIOUS
  <2>1. run'[records'[i].run].cfg = c
    BY <1>0, <1>3, RecordedBegan
  <2>2. RowKnown(i, c)
    BY DEF RunInv, Rows
  <2>3. records'[i] = records[i] /\ \A j \in 1..i : records'[j] = records[j]
    BY <1>0
  <2>4. EvidenceKnown(i, c)'
    BY <2>2, <2>3 DEF RowKnown, EvidenceKnown
  <2>5. ReceiptKnown(i, c)'
    BY <2>2, <2>3 DEF RowKnown, ReceiptKnown
  <2>6. ArtifactKnown(i, c)'
    BY <2>2, <2>3 DEF RowKnown, ArtifactKnown
  <2> QED BY <2>1, <2>4, <2>5, <2>6 DEF RowKnown
<1>7. RowKnown(n + 1, run[records[n + 1].run].cfg)'
  BY <1>0, <1>3
<1>8. Rows'
  <2>1. \A i \in 1..(n + 1) : i \in 1..n \/ i = n + 1
    OBVIOUS
  <2> QED BY <1>0, <1>6, <1>7, <2>1 DEF Rows
<1> QED BY <1>1, <1>2, <1>5, <1>8 DEF RunInv

-----------------------------------------------------------------------------
(* Steps that only move on *)

Same(k, m) ==
  /\ k.cfg = m.cfg /\ k.attempt = m.attempt /\ k.parent = m.parent
  /\ k.plan = m.plan /\ k.status = m.status /\ k.verdict = m.verdict

\* A call that moves on without touching the tables.
LEMMA MovesOn ==
  ASSUME RunInv, NEW r \in Runs, NEW m \in Call, m = run[r],
         NEW s \in Stages, Go(r, s), UNCHANGED <<records, used>>,
         s \in {"save_context", "authorize", "save_spec"} =>
           m.stage \in {"save_context", "authorize", "save_spec"},
         contexts' \subseteq Runs, faults' \in 0..MaxFaults, crashes' \in 0..MaxCrashes,
         \A k \in Call : k.stage = s /\ Same(k, m) =>
           /\ PlanKnown(k) /\ StatusKnown(k) /\ VerdictKnown(k)
           /\ OnRecord(r, k) /\ Spent(r, k)
  PROVE  RunInv'
<1> DEFINE k == [m EXCEPT !.stage = s]
<1>1. k \in Call /\ k.stage = s /\ Same(k, m)
  BY Moved DEF Same
<1>2. run' = [run EXCEPT ![r] = k]
  BY DEF Go
<1> HIDE DEF k
<1>3. AttemptKnown(m)
  BY StagesDistinct DEF RunInv, Calls, Known
<1>4. AttemptKnown(k)
  BY <1>1, <1>3 DEF AttemptKnown, Same
<1>5. Known(k) /\ OnRecord(r, k) /\ Spent(r, k)
  BY <1>1, <1>4 DEF Known
<1>6. run[r].cfg = k.cfg
  BY <1>1 DEF Same
<1> QED BY <1>1, <1>2, <1>5, <1>6, Silent

\* Nothing is asked of a call that has raised.
LEMMA Raises ==
  ASSUME RunInv, NEW r \in Runs, run[r].stage # "idle", Go(r, "raised"),
         UNCHANGED <<records, used>>,
         contexts' \subseteq Runs, faults' \in 0..MaxFaults, crashes' \in 0..MaxCrashes
  PROVE  RunInv'
<1> PICK m \in Call : m = run[r]
  BY Begun
<1>1. "raised" \in Stages
  BY DEF Stages, Ended
<1>2. ASSUME NEW k \in Call, k.stage = "raised"
      PROVE  PlanKnown(k) /\ StatusKnown(k) /\ VerdictKnown(k)
  BY <1>2 DEF PlanKnown, StatusKnown, VerdictKnown, Planned, Observed, Decided, Spending
<1>3. ASSUME NEW k \in Call, k.stage = "raised"
      PROVE  OnRecord(r, k) /\ Spent(r, k)
  BY <1>3 DEF OnRecord, Spent, Spending
<1> QED BY <1>1, <1>2, <1>3, MovesOn

\* What is left alone stays within its bounds.
LEMMA BoundsKept ==
  ASSUME RunInv, UNCHANGED <<contexts, faults, crashes>>
  PROVE  contexts' \subseteq Runs /\ faults' \in 0..MaxFaults /\ crashes' \in 0..MaxCrashes
BY DEF RunInv, Shaped

\* A call that records a row and moves on.
LEMMA RecordsAndMoves ==
  ASSUME RunInv, NEW r \in Runs, NEW m \in Call, m = run[r],
         NEW s \in Stages, NEW row \in Ledger!Row, row.run = r, Record(r, row, s),
         s \notin {"save_context", "authorize", "save_spec"},
         NEW n \in Nat, n = Len(records), RowKnown(n + 1, m.cfg)',
         \A k \in Call : k.stage = s /\ Same(k, m) =>
           /\ PlanKnown(k) /\ StatusKnown(k) /\ VerdictKnown(k)
           /\ OnRecord(r, k)' /\ Spent(r, k)
  PROVE  RunInv'
<1> DEFINE k == [m EXCEPT !.stage = s]
<1>1. k \in Call /\ k.stage = s /\ Same(k, m)
  BY Moved DEF Same
<1>2. run' = [run EXCEPT ![r] = k]
  BY DEF Record, Go
<1> HIDE DEF k
<1>3. AttemptKnown(m)
  BY StagesDistinct DEF RunInv, Calls, Known
<1>4. AttemptKnown(k)
  BY <1>1, <1>3 DEF AttemptKnown, Same
<1>5. Known(k) /\ Spent(r, k)
  BY <1>1, <1>4 DEF Known
<1>6. OnRecord(r, k)'
  BY <1>1
<1>7. run[r].cfg = k.cfg /\ RowKnown(n + 1, k.cfg)'
  BY <1>1 DEF Same
<1>8. run[r].stage # "idle"
  BY StagesDistinct
<1>9. records' = Append(records, row) /\ UNCHANGED <<contexts, used, faults, crashes>>
  BY DEF Record, bounds
<1> QED BY <1>1, <1>2, <1>5, <1>6, <1>7, <1>8, <1>9, Recorded

-----------------------------------------------------------------------------
(* The actions *)

LEMMA CallFacts ==
  ASSUME RunInv, NEW r \in Runs, NEW m \in Call, m = run[r]
  PROVE  /\ AttemptKnown(m) /\ PlanKnown(m) /\ StatusKnown(m) /\ VerdictKnown(m)
         /\ OnRecord(r, m) /\ Spent(r, m)
         /\ m.cfg \in Configs /\ m.attempt \in Nat /\ m.parent \in Nat
BY StagesDistinct DEF RunInv, Calls, Known, Call

\* The rows that justify the next one depend on what moving on leaves.
LEMMA SameRows ==
  ASSUME NEW k, NEW m, Same(k, m), NEW r
  PROVE  /\ Opening(r, k) = Opening(r, m)
         /\ \A by : Claims(r, k, by) = Claims(r, m, by)
         /\ PlanOf(k) = PlanOf(m)
BY DEF Same, Opening, Claims, PlanOf

\* Before the receipt is consumed nothing of the run is.
LEMMA Unspent ==
  ASSUME NEW r, NEW m, NEW k, Spent(r, m),
         m.stage \notin Spending \cup {"raised", "dead"}, k.stage \notin Spending
  PROVE  Spent(r, k)
BY DEF Spent

LEMMA SaveContextKeeps ==
  ASSUME RunInv, NEW r \in Runs, SaveContext(r) PROVE RunInv'
<1> PICK m \in Call : m = run[r]
  BY Begun DEF SaveContext, At
<1>0. /\ PlanKnown(m) /\ StatusKnown(m) /\ VerdictKnown(m) /\ AttemptKnown(m)
      /\ OnRecord(r, m) /\ Spent(r, m)
  BY CallFacts
<1>1. /\ m.stage = "save_context" /\ Go(r, "authorize") /\ "authorize" \in Stages
      /\ UNCHANGED <<records, used, faults, crashes>> /\ contexts' \subseteq Runs
  BY DEF SaveContext, At, bounds, Stages, RunInv, Shaped
<1>2. ASSUME NEW k \in Call, k.stage = "authorize", Same(k, m)
      PROVE  /\ PlanKnown(k) /\ StatusKnown(k) /\ VerdictKnown(k)
             /\ OnRecord(r, k) /\ Spent(r, k)
  <2>1. PlanKnown(k) /\ StatusKnown(k) /\ VerdictKnown(k)
    BY <1>2 DEF PlanKnown, StatusKnown, VerdictKnown, Planned, Observed, Decided, Spending
  <2>2. OnRecord(r, k)
    BY <1>0, <1>1, <1>2, SameRows DEF OnRecord
  <2>3. Spent(r, k)
    BY <1>0, <1>1, <1>2, Unspent DEF Spending
  <2> QED BY <2>1, <2>2, <2>3
<1>3. faults' \in 0..MaxFaults /\ crashes' \in 0..MaxCrashes
  BY <1>1 DEF RunInv, Shaped
<1> QED BY <1>1, <1>2, <1>3, MovesOn

LEMMA AuthorizeKeeps ==
  ASSUME RunInv, NEW r \in Runs, Authorize(r) PROVE RunInv'
<1> PICK m \in Call : m = run[r]
  BY Begun DEF Authorize, At
<1>0. /\ PlanKnown(m) /\ StatusKnown(m) /\ VerdictKnown(m) /\ AttemptKnown(m)
      /\ OnRecord(r, m) /\ Spent(r, m)
  BY CallFacts
<1>1. /\ m.stage = "authorize" /\ (Go(r, "save_spec") \/ Go(r, "raised"))
      /\ UNCHANGED <<contexts, records, used, faults, crashes>>
  BY DEF Authorize, At, bounds
<1>2. ASSUME NEW k \in Call, k.stage = "save_spec", Same(k, m)
      PROVE  /\ PlanKnown(k) /\ StatusKnown(k) /\ VerdictKnown(k)
             /\ OnRecord(r, k) /\ Spent(r, k)
  <2>1. PlanKnown(k) /\ StatusKnown(k) /\ VerdictKnown(k)
    BY <1>2 DEF PlanKnown, StatusKnown, VerdictKnown, Planned, Observed, Decided, Spending
  <2>2. OnRecord(r, k)
    BY <1>0, <1>1, <1>2, SameRows DEF OnRecord
  <2>3. Spent(r, k)
    BY <1>0, <1>1, <1>2, Unspent DEF Spending
  <2> QED BY <2>1, <2>2, <2>3
<1>3. CASE Go(r, "save_spec")
  <2>1. "save_spec" \in Stages
    BY DEF Stages, Stored
  <2> QED BY <1>1, <1>2, <1>3, <2>1, BoundsKept, MovesOn
<1>4. CASE Go(r, "raised")
  BY <1>1, <1>4, BoundsKept, StagesDistinct, Raises
<1> QED BY <1>1, <1>3, <1>4

\* Invoking an agent moves on or raises.
LEMMA InvokeAgentKeeps ==
  ASSUME RunInv, NEW r \in Runs, NEW m \in Call, m = run[r], NEW kind,
         NEW s \in Stages \ {"save_context", "authorize", "save_spec"}, InvokeAgent(r, kind, s),
         \A k \in Call : k.stage = s /\ Same(k, m) =>
           /\ PlanKnown(k) /\ StatusKnown(k) /\ VerdictKnown(k)
           /\ OnRecord(r, k) /\ Spent(r, k)
  PROVE  RunInv'
<1>1. (Go(r, s) \/ Go(r, "raised")) /\ UNCHANGED <<contexts, records, used, faults, crashes>>
  BY DEF InvokeAgent, bounds
<1>2. CASE Go(r, s)
  BY <1>1, <1>2, BoundsKept, MovesOn
<1>3. CASE Go(r, "raised")
  BY <1>1, <1>3, BoundsKept, StagesDistinct, Raises
<1> QED BY <1>1, <1>2, <1>3

LEMMA InvokeKeeps ==
  ASSUME RunInv, NEW r \in Runs, Invoke(r) PROVE RunInv'
<1> PICK m \in Call : m = run[r]
  BY Begun DEF Invoke, At
<1>0. /\ PlanKnown(m) /\ StatusKnown(m) /\ VerdictKnown(m) /\ AttemptKnown(m)
      /\ OnRecord(r, m) /\ Spent(r, m)
  BY CallFacts
<1>1. m.stage = "invoke" /\ InvokeAgent(r, "agent.invoke", "quarantine")
  BY DEF Invoke, At
<1>2. ASSUME NEW k \in Call, k.stage = "quarantine", Same(k, m)
      PROVE  /\ PlanKnown(k) /\ StatusKnown(k) /\ VerdictKnown(k)
             /\ OnRecord(r, k) /\ Spent(r, k)
  <2>1. PlanKnown(k) /\ StatusKnown(k) /\ VerdictKnown(k)
    BY <1>2 DEF PlanKnown, StatusKnown, VerdictKnown, Planned, Observed, Decided, Spending
  <2>2. OnRecord(r, k)
    BY <1>0, <1>1, <1>2, SameRows DEF OnRecord
  <2>3. Spent(r, k)
    BY <1>0, <1>1, <1>2, Unspent DEF Spending
  <2> QED BY <2>1, <2>2, <2>3
<1>3. "quarantine" \in Stages \ {"save_context", "authorize", "save_spec"}
  BY DEF Stages, Stored
<1> QED BY <1>1, <1>2, <1>3, InvokeAgentKeeps

LEMMA ChallengeKeeps ==
  ASSUME RunInv, NEW r \in Runs, Challenge(r) PROVE RunInv'
<1> PICK m \in Call : m = run[r]
  BY Begun DEF Challenge, At
<1>0. /\ PlanKnown(m) /\ StatusKnown(m) /\ VerdictKnown(m) /\ AttemptKnown(m)
      /\ OnRecord(r, m) /\ Spent(r, m)
  BY CallFacts
<1>1. m.stage = "challenge" /\ InvokeAgent(r, "agent.challenge", "quarantine_critic")
  BY DEF Challenge, At
<1>2. ASSUME NEW k \in Call, k.stage = "quarantine_critic", Same(k, m)
      PROVE  /\ PlanKnown(k) /\ StatusKnown(k) /\ VerdictKnown(k)
             /\ OnRecord(r, k) /\ Spent(r, k)
  <2>1. PlanKnown(k) /\ StatusKnown(k) /\ VerdictKnown(k)
    BY <1>0, <1>1, <1>2 DEF Same, PlanKnown, StatusKnown, VerdictKnown, Planned, Observed, Decided, Spending
  <2>2. OnRecord(r, k)
    BY <1>0, <1>1, <1>2, SameRows DEF OnRecord
  <2>3. Spent(r, k)
    BY <1>0, <1>1, <1>2, Unspent DEF Spending
  <2> QED BY <2>1, <2>2, <2>3
<1>3. "quarantine_critic" \in Stages \ {"save_context", "authorize", "save_spec"}
  BY DEF Stages, Stored
<1> QED BY <1>1, <1>2, <1>3, InvokeAgentKeeps

LEMMA IssueEvidenceKeeps ==
  ASSUME RunInv, NEW r \in Runs, IssueEvidence(r) PROVE RunInv'
<1> PICK m \in Call : m = run[r]
  BY Begun DEF IssueEvidence, At
<1>0. /\ PlanKnown(m) /\ StatusKnown(m) /\ VerdictKnown(m) /\ AttemptKnown(m)
      /\ OnRecord(r, m) /\ Spent(r, m)
  BY CallFacts
<1>1. /\ m.stage = "issue" /\ (Go(r, "save_evidence") \/ Go(r, "raised"))
      /\ UNCHANGED <<contexts, records, used, faults, crashes>>
  BY DEF IssueEvidence, At, bounds
<1>2. ASSUME NEW k \in Call, k.stage = "save_evidence", Same(k, m)
      PROVE  /\ PlanKnown(k) /\ StatusKnown(k) /\ VerdictKnown(k)
             /\ OnRecord(r, k) /\ Spent(r, k)
  <2>1. PlanKnown(k) /\ StatusKnown(k) /\ VerdictKnown(k)
    BY <1>0, <1>1, <1>2, SameRows
       DEF PlanKnown, StatusKnown, VerdictKnown, Planned, Observed, Decided, Spending, Same
  <2>2. OnRecord(r, k)
    <3>1. k.cfg = m.cfg
      BY <1>2 DEF Same
    <3> QED BY <1>0, <1>1, <1>2, <3>1, SameRows DEF OnRecord
  <2>3. Spent(r, k)
    BY <1>0, <1>1, <1>2, Unspent DEF Spending
  <2> QED BY <2>1, <2>2, <2>3
<1>3. CASE Go(r, "save_evidence")
  <2>1. "save_evidence" \in Stages
    BY DEF Stages, Stored
  <2> QED BY <1>1, <1>2, <1>3, <2>1, BoundsKept, MovesOn
<1>4. CASE Go(r, "raised")
  BY <1>1, <1>4, BoundsKept, StagesDistinct, Raises
<1> QED BY <1>1, <1>3, <1>4

\* A row that may follow the latest one of its run is justified.
LEMMA FollowsLast ==
  ASSUME NEW rows, NEW row, LastIn(row.run, rows),
         \A last \in rows : Ledger!MayFollow(last, row)
  PROVE  Ledger!Justified(row)
BY DEF LastIn, Ledger!Justified

\* The attempts of a call are attempts of the ledger.
LEMMA AttemptFits ==
  ASSUME NEW m \in Call, AttemptKnown(m)
  PROVE  m.attempt \in Ledger!Attempts /\ m.parent \in 0..LargestAttempt
<1>1. m.cfg \in Configs /\ m.cfg.maxRepairs \in Nat
  BY RuntimeConstants DEF Call, Config
<1> QED BY <1>1, LargestIsBound DEF AttemptKnown, Ledger!Attempts

Writes == \E row \in Ledger!Row : Ledger!Write(row)

LEMMA SaveSpecKeeps ==
  ASSUME RunInv, NEW r \in Runs, SaveSpec(r) PROVE RunInv' /\ Writes
<1> PICK m \in Call : m = run[r]
  BY Begun DEF SaveSpec, At
<1>0. /\ PlanKnown(m) /\ StatusKnown(m) /\ VerdictKnown(m) /\ AttemptKnown(m)
      /\ OnRecord(r, m) /\ Spent(r, m)
  BY CallFacts
<1> PICK row : row = Ledger!SpecRow(r)
  OBVIOUS
<1> PICK n \in Nat : n = Len(records)
  BY DEF RunInv, Shaped
<1>1. m.stage = "save_spec" /\ Record(r, row, "invoke")
  BY DEF SaveSpec, At, Ledger!SpecRow
<1>2. row \in Ledger!Row /\ row.run = r /\ row.kind = "AUTHORIZED_SPEC"
  BY DEF Ledger!Row, Ledger!SpecRow
<1>3. records' = Append(records, row)
  BY <1>1 DEF Record
<1>4. RowKnown(n + 1, m.cfg)'
  <2>1. records'[n + 1] = row
    BY <1>2, <1>3, Appended DEF RunInv, Shaped
  <2> QED BY <1>2, <2>1 DEF RowKnown, EvidenceKnown, ReceiptKnown, ArtifactKnown
<1>5. ASSUME NEW k \in Call, k.stage = "invoke", Same(k, m)
      PROVE  /\ PlanKnown(k) /\ StatusKnown(k) /\ VerdictKnown(k)
             /\ OnRecord(r, k)' /\ Spent(r, k)
  <2>1. PlanKnown(k) /\ StatusKnown(k) /\ VerdictKnown(k)
    BY <1>5 DEF PlanKnown, StatusKnown, VerdictKnown, Planned, Observed, Decided, Spending
  <2>2. row \in Opening(r, k)
    BY <1>0, <1>1, <1>5 DEF Opening, AttemptKnown, Same
  <2>3. LastIn(r, Opening(r, k))'
    <3> PICK rows : rows = Opening(r, k)
      OBVIOUS
    <3> QED BY <1>2, <1>3, <2>2, AppendedIsLast DEF RunInv, Shaped
  <2>4. OnRecord(r, k)'
    BY <1>5, <2>3 DEF OnRecord
  <2>5. Spent(r, k)
    BY <1>0, <1>1, <1>5, Unspent DEF Spending
  <2> QED BY <2>1, <2>4, <2>5
<1>6. RunInv'
  <2>1. "invoke" \in Stages
    BY DEF Stages
  <2> QED BY <1>1, <1>2, <1>4, <1>5, <2>1, RecordsAndMoves
<1>7. Ledger!Write(row)
  BY <1>0, <1>1, <1>2, <1>3 DEF Ledger!Write, Ledger!Justified, OnRecord
<1> QED BY <1>2, <1>6, <1>7 DEF Writes

LEMMA QuarantineClaimKeeps ==
  ASSUME RunInv, NEW r \in Runs, QuarantineClaim(r) PROVE RunInv' /\ Writes
<1> PICK m \in Call : m = run[r]
  BY Begun DEF QuarantineClaim, At
<1>0. /\ PlanKnown(m) /\ StatusKnown(m) /\ VerdictKnown(m) /\ AttemptKnown(m)
      /\ OnRecord(r, m) /\ Spent(r, m) /\ m.attempt \in Nat /\ m.parent \in Nat
  BY CallFacts
<1> PICK row : row = Ledger!ClaimRow(r, "agent", m.attempt, m.parent)
  OBVIOUS
<1> PICK n \in Nat : n = Len(records)
  BY DEF RunInv, Shaped
<1> PICK s : s = IF m.cfg.critic THEN "challenge" ELSE "collect"
  OBVIOUS
<1>1. m.stage = "quarantine" /\ Record(r, row, s)
  BY DEF QuarantineClaim, At, Ledger!ClaimRow
<1>2. /\ row.run = r /\ row.kind = "CLAIM" /\ row.producer = "agent"
      /\ row.attempt = m.attempt /\ row.parent = m.parent
  BY DEF Ledger!ClaimRow
<1>3. row \in Ledger!Row
  BY <1>0, AttemptFits DEF Ledger!Row
<1>4. records' = Append(records, row)
  BY <1>1 DEF Record
<1>5. RowKnown(n + 1, m.cfg)'
  <2>1. records'[n + 1] = row
    BY <1>3, <1>4, Appended DEF RunInv, Shaped
  <2> QED BY <1>2, <2>1 DEF RowKnown, EvidenceKnown, ReceiptKnown, ArtifactKnown
<1>6. ASSUME NEW k \in Call, k.stage = s, Same(k, m)
      PROVE  /\ PlanKnown(k) /\ StatusKnown(k) /\ VerdictKnown(k)
             /\ OnRecord(r, k)' /\ Spent(r, k)
  <2>1. StatusKnown(k) /\ VerdictKnown(k)
    BY <1>6 DEF StatusKnown, VerdictKnown, Observed, Decided, Spending
  <2>2. PlanKnown(k)
    <3>1. k.cfg.critic = m.cfg.critic
      BY <1>6 DEF Same
    <3>2. ~k.cfg.critic => PlanOf(k) = PlanFor(k.cfg, {})
      BY DEF PlanOf, PlanFor
    <3> QED BY <1>6, <3>1, <3>2 DEF PlanKnown, Planned, Observed, Decided, Spending
  <2>3. row \in Claims(r, k, "agent")
    BY <1>0, <1>6 DEF Claims, Same
  <2>4. LastIn(r, Claims(r, k, "agent"))'
    <3> PICK rows : rows = Claims(r, k, "agent")
      OBVIOUS
    <3> QED BY <1>2, <1>3, <1>4, <2>3, AppendedIsLast DEF RunInv, Shaped
  <2>5. OnRecord(r, k)'
    <3>1. k.cfg.critic = m.cfg.critic
      BY <1>6 DEF Same
    <3> QED BY <1>6, <2>4, <3>1 DEF OnRecord
  <2>6. Spent(r, k)
    BY <1>0, <1>1, <1>6, Unspent DEF Spending
  <2> QED BY <2>1, <2>2, <2>5, <2>6
<1>7. RunInv'
  <2>1. s \in Stages \ {"save_context", "authorize", "save_spec"}
    BY DEF Stages
  <2> QED BY <1>1, <1>2, <1>3, <1>5, <1>6, <2>1, RecordsAndMoves
<1>8. Ledger!Write(row)
  <2>1. LastIn(row.run, Opening(r, m))
    BY <1>0, <1>1, <1>2 DEF OnRecord
  <2>2. ASSUME NEW last \in Opening(r, m) PROVE Ledger!MayFollow(last, row)
    BY <1>2, <2>2 DEF Opening, Ledger!MayFollow, Ledger!RepairFollows, Ledger!SpecRow, Ledger!ReceiptRow
  <2> QED BY <1>4, <2>1, <2>2, FollowsLast DEF Ledger!Write
<1> QED BY <1>3, <1>7, <1>8 DEF Writes

LEMMA QuarantineCriticKeeps ==
  ASSUME RunInv, NEW r \in Runs, QuarantineCritic(r) PROVE RunInv' /\ Writes
<1> PICK m \in Call : m = run[r]
  BY Begun DEF QuarantineCritic, At
<1>0. /\ PlanKnown(m) /\ StatusKnown(m) /\ VerdictKnown(m) /\ AttemptKnown(m)
      /\ OnRecord(r, m) /\ Spent(r, m) /\ m.attempt \in Nat
  BY CallFacts
<1> PICK row : row = Ledger!ClaimRow(r, "critic", m.attempt, m.attempt)
  OBVIOUS
<1> PICK n \in Nat : n = Len(records)
  BY DEF RunInv, Shaped
<1>1. m.stage = "quarantine_critic" /\ Record(r, row, "select")
  BY DEF QuarantineCritic, At, Ledger!ClaimRow
<1>2. /\ row.run = r /\ row.kind = "CLAIM" /\ row.producer = "critic"
      /\ row.attempt = m.attempt /\ row.parent = m.attempt
  BY DEF Ledger!ClaimRow
<1>3. row \in Ledger!Row
  <2>1. m.attempt \in Ledger!Attempts /\ m.attempt \in 0..LargestAttempt
    BY <1>0, AttemptFits DEF Ledger!Attempts
  <2> QED BY <2>1 DEF Ledger!Row
<1>4. records' = Append(records, row)
  BY <1>1 DEF Record
<1>5. RowKnown(n + 1, m.cfg)'
  <2>1. records'[n + 1] = row
    BY <1>3, <1>4, Appended DEF RunInv, Shaped
  <2> QED BY <1>2, <2>1 DEF RowKnown, EvidenceKnown, ReceiptKnown, ArtifactKnown
<1>6. ASSUME NEW k \in Call, k.stage = "select", Same(k, m)
      PROVE  /\ PlanKnown(k) /\ StatusKnown(k) /\ VerdictKnown(k)
             /\ OnRecord(r, k)' /\ Spent(r, k)
  <2>1. PlanKnown(k) /\ StatusKnown(k) /\ VerdictKnown(k)
    BY <1>0, <1>1, <1>6 DEF Same, PlanKnown, StatusKnown, VerdictKnown, Planned, Observed, Decided, Spending
  <2>2. row \in Claims(r, k, "critic")
    BY <1>0, <1>6 DEF Claims, Same
  <2>3. LastIn(r, Claims(r, k, "critic"))'
    <3> PICK rows : rows = Claims(r, k, "critic")
      OBVIOUS
    <3> QED BY <1>2, <1>3, <1>4, <2>2, AppendedIsLast DEF RunInv, Shaped
  <2>4. OnRecord(r, k)'
    BY <1>6, <2>3 DEF OnRecord
  <2>5. Spent(r, k)
    BY <1>0, <1>1, <1>6, Unspent DEF Spending
  <2> QED BY <2>1, <2>4, <2>5
<1>7. RunInv'
  <2>1. "select" \in Stages
    BY DEF Stages
  <2> QED BY <1>1, <1>2, <1>3, <1>5, <1>6, <2>1, RecordsAndMoves
<1>8. Ledger!Write(row)
  <2>1. LastIn(row.run, Claims(r, m, "agent"))
    BY <1>0, <1>1, <1>2 DEF OnRecord
  <2>2. ASSUME NEW last \in Claims(r, m, "agent") PROVE Ledger!MayFollow(last, row)
    BY <1>2, <2>2 DEF Claims, Ledger!MayFollow, Ledger!ClaimRow
  <2> QED BY <1>4, <2>1, <2>2, FollowsLast DEF Ledger!Write
<1> QED BY <1>3, <1>7, <1>8 DEF Writes

\* The plan of a call is made of obligations and holds the whole baseline.
LEMMA PlanFacts ==
  ASSUME NEW m \in Call
  PROVE  /\ PlanOf(m) \subseteq Obligations
         /\ PlanKnown(m) /\ m.stage \in Planned =>
              PlanOf(m) \in RunPlans /\ m.cfg.baseline \subseteq PlanOf(m)
<1>1. m.cfg \in Configs /\ m.cfg \in Config /\ m.plan \subseteq Obligations
  BY RuntimeConstants DEF Call
<1>2. PlanOf(m) \subseteq Obligations
  BY <1>1 DEF PlanOf, Config
<1>3. ASSUME NEW s \in SUBSET Ids(Obligations), PlanOf(m) = PlanFor(m.cfg, s)
      PROVE  PlanOf(m) \in RunPlans /\ m.cfg.baseline \subseteq PlanOf(m)
  <2>1. PlanFor(m.cfg, s) \in RunPlans
    BY <1>1 DEF RunPlans
  <2>2. m.cfg.baseline \subseteq PlanFor(m.cfg, s)
    BY DEF PlanFor
  <2> QED BY <1>3, <2>1, <2>2
<1> QED BY <1>2, <1>3 DEF PlanKnown

\* A baseline check that cannot run makes the verdict ERROR.
LEMMA DeniedIsError ==
  ASSUME NEW m \in Call, PlanKnown(m), StatusKnown(m), VerdictKnown(m), m.stage \in Decided,
         Unobservable(m.cfg)
  PROVE  m.verdict = "ERROR"
<1>1. m.stage \in Planned /\ m.stage \in Observed
  BY DEF Planned, Observed
<1>2. PICK o \in PlanOf(m) : m.status[o] = "ERROR"
  BY <1>1, PlanFacts DEF Unobservable, StatusKnown
<1> QED BY <1>2 DEF VerdictKnown, Conclusion, VerdictOf

LEMMA VerdictIsOne ==
  ASSUME NEW plan, NEW status PROVE Conclusion(plan, status) \in Verdicts
BY DEF Conclusion, VerdictOf, Verdicts

LEMMA StartKeeps ==
  ASSUME RunInv, NEW r \in Runs, NEW cfg \in Configs, Start(r, cfg) PROVE RunInv'
<1> DEFINE k == [stage |-> "save_context", cfg |-> cfg, attempt |-> 1, parent |-> 0,
                 plan |-> {}, status |-> <<>>, verdict |-> "none"]
<1>1. /\ run[r].stage = "idle" /\ run' = [run EXCEPT ![r] = k]
      /\ UNCHANGED <<contexts, records, used, faults, crashes>>
  BY DEF Start, At, bounds
<1>2. /\ k \in Call /\ k.stage = "save_context" /\ k.cfg = cfg
      /\ k.attempt = 1 /\ k.parent = 0
  BY DEF Call, Stages, Stored, AnyStatus
<1> HIDE DEF k
<1>3. cfg.maxRepairs \in Nat
  BY RuntimeConstants DEF Config
<1>4. AttemptKnown(k)
  BY <1>2, <1>3 DEF AttemptKnown
<1>5. PlanKnown(k) /\ StatusKnown(k) /\ VerdictKnown(k)
  BY <1>2 DEF PlanKnown, StatusKnown, VerdictKnown, Planned, Observed, Decided, Spending
<1>6. OnRecord(r, run[r]) /\ Spent(r, run[r])
  BY DEF RunInv, Calls
<1>7. OnRecord(r, k)
  BY <1>1, <1>2, <1>6 DEF OnRecord
<1>8. Spent(r, k)
  BY <1>1, <1>2, <1>6, Unspent DEF Spending
<1> QED BY <1>1, <1>2, <1>4, <1>5, <1>7, <1>8, BoundsKept, Silent DEF Known

LEMMA SelectKeeps ==
  ASSUME RunInv, NEW r \in Runs, Select(r) PROVE RunInv'
<1> PICK m \in Call : m = run[r]
  BY Begun DEF Select, At
<1>0. /\ PlanKnown(m) /\ StatusKnown(m) /\ VerdictKnown(m) /\ AttemptKnown(m)
      /\ OnRecord(r, m) /\ Spent(r, m)
  BY CallFacts
<1>1. m.stage = "select" /\ UNCHANGED <<contexts, records, used, faults, crashes>>
  BY DEF Select, At, bounds
<1>2. CASE Go(r, "raised")
  BY <1>1, <1>2, BoundsKept, StagesDistinct, Raises
<1>3. ASSUME NEW selection \in SUBSET Ids(Obligations),
             run' = [run EXCEPT ![r].stage = "collect", ![r].plan = PlanFor(m.cfg, selection)]
      PROVE  RunInv'
  <2> PICK plan : plan = PlanFor(m.cfg, selection)
    OBVIOUS
  <2> DEFINE k == [m EXCEPT !.stage = "collect", !.plan = plan]
  <2>1. run' = [run EXCEPT ![r] = k]
    BY <1>3
  <2>2. plan \subseteq Obligations
    <3>1. m.cfg \in Config
      BY RuntimeConstants DEF Call
    <3> QED BY <3>1 DEF PlanFor, Config
  <2>3. /\ k \in Call /\ k.stage = "collect" /\ k.plan = plan
        /\ k.cfg = m.cfg /\ k.attempt = m.attempt /\ k.parent = m.parent
    BY <2>2 DEF Call, Stages
  <2> HIDE DEF k
  <2>4. AttemptKnown(k)
    BY <1>0, <2>3 DEF AttemptKnown
  <2>5. k.cfg.critic
    BY <1>0, <1>1, <2>3 DEF PlanKnown
  <2>6. PlanKnown(k)
    BY <2>3, <2>5 DEF PlanKnown, PlanOf
  <2>7. StatusKnown(k) /\ VerdictKnown(k)
    BY <2>3 DEF StatusKnown, VerdictKnown, Observed, Decided, Spending
  <2>8. OnRecord(r, k)
    <3>1. Claims(r, k, "critic") = Claims(r, m, "critic")
      BY <2>3 DEF Claims
    <3> QED BY <1>0, <1>1, <2>3, <2>5, <3>1 DEF OnRecord
  <2>9. Spent(r, k)
    BY <1>0, <1>1, <2>3, Unspent DEF Spending
  <2> QED BY <1>1, <2>1, <2>3, <2>4, <2>6, <2>7, <2>8, <2>9, BoundsKept, Silent DEF Known
<1> QED BY <1>2, <1>3 DEF Select

LEMMA CollectKeeps ==
  ASSUME RunInv, NEW r \in Runs, Collect(r) PROVE RunInv'
<1> PICK m \in Call : m = run[r]
  BY Begun DEF Collect, At
<1>0. /\ PlanKnown(m) /\ StatusKnown(m) /\ VerdictKnown(m) /\ AttemptKnown(m)
      /\ OnRecord(r, m) /\ Spent(r, m)
  BY CallFacts
<1>1. m.stage = "collect" /\ UNCHANGED <<contexts, records, used, faults, crashes>>
  BY DEF Collect, At, bounds
<1>2. PICK status \in [PlanOf(m) -> Statuses] :
        /\ \A o \in PlanOf(m) : ~Observable(m.cfg, o) => status[o] = "ERROR"
        /\ run' = [run EXCEPT ![r].stage = "issue", ![r].status = status]
  BY DEF Collect
<1> DEFINE k == [m EXCEPT !.stage = "issue", !.status = status]
<1>3. run' = [run EXCEPT ![r] = k]
  BY <1>2
<1>4. status \in AnyStatus
  BY PlanFacts DEF AnyStatus
<1>5. /\ k \in Call /\ k.stage = "issue" /\ k.status = status /\ k.plan = m.plan
      /\ k.cfg = m.cfg /\ k.attempt = m.attempt /\ k.parent = m.parent
  BY <1>4 DEF Call, Stages
<1> HIDE DEF k
<1>6. AttemptKnown(k)
  BY <1>0, <1>1, <1>5 DEF AttemptKnown
<1>7. PlanOf(k) = PlanOf(m)
  BY <1>5 DEF PlanOf
<1>8. PlanKnown(k)
  BY <1>0, <1>1, <1>5, <1>7 DEF PlanKnown, Planned, Observed
<1>9. StatusKnown(k) /\ VerdictKnown(k)
  BY <1>2, <1>5, <1>7 DEF StatusKnown, VerdictKnown, Observed, Decided, Spending
<1>10. OnRecord(r, k)
  <2>1. \A by : Claims(r, k, by) = Claims(r, m, by)
    BY <1>5 DEF Claims
  <2> QED BY <1>0, <1>1, <1>5, <2>1 DEF OnRecord
<1>11. Spent(r, k)
  BY <1>0, <1>1, <1>5, Unspent DEF Spending
<1> QED BY <1>1, <1>3, <1>5, <1>6, <1>8, <1>9, <1>10, <1>11, BoundsKept, Silent DEF Known

LEMMA EvaluateKeeps ==
  ASSUME RunInv, NEW r \in Runs, Evaluate(r) PROVE RunInv'
<1> PICK m \in Call : m = run[r]
  BY Begun DEF Evaluate, At
<1>0. /\ PlanKnown(m) /\ StatusKnown(m) /\ VerdictKnown(m) /\ AttemptKnown(m)
      /\ OnRecord(r, m) /\ Spent(r, m)
  BY CallFacts
<1>1. m.stage = "evaluate" /\ UNCHANGED <<contexts, records, used, faults, crashes>>
  BY DEF Evaluate, At, bounds
<1>2. CASE ~Decidable(m.cfg.criteria, PlanOf(m))
  <2>1. Go(r, "raised")
    BY <1>2 DEF Evaluate
  <2> QED BY <1>1, <2>1, BoundsKept, StagesDistinct, Raises
<1>3. CASE Decidable(m.cfg.criteria, PlanOf(m))
  <2> PICK v : v = Conclusion(PlanOf(m), m.status)
    OBVIOUS
  <2> PICK s : s = IF v = "VERIFIED" THEN "consume" ELSE "save_receipt"
    OBVIOUS
  <2> DEFINE k == [m EXCEPT !.verdict = v, !.stage = s]
  <2>1. run' = [run EXCEPT ![r] = k]
    BY <1>3 DEF Evaluate
  <2>2. v \in Verdicts /\ s \in Stages
    BY VerdictIsOne DEF Stages, Stored
  <2>3. /\ k \in Call /\ k.stage = s /\ k.verdict = v /\ k.plan = m.plan /\ k.status = m.status
        /\ k.cfg = m.cfg /\ k.attempt = m.attempt /\ k.parent = m.parent
    BY <2>2 DEF Call
  <2> HIDE DEF k
  <2>4. AttemptKnown(k)
    BY <1>0, <1>1, <2>3 DEF AttemptKnown
  <2>5. PlanOf(k) = PlanOf(m)
    BY <2>3 DEF PlanOf
  <2>6. PlanKnown(k)
    BY <1>0, <1>1, <2>3, <2>5 DEF PlanKnown, Planned, Observed
  <2>7. StatusKnown(k)
    BY <1>0, <1>1, <2>3, <2>5 DEF StatusKnown, Observed
  <2>8. VerdictKnown(k)
    BY <1>3, <2>3, <2>5 DEF VerdictKnown
  <2>9. OnRecord(r, k)
    BY <1>0, <1>1, <2>3 DEF OnRecord
  <2>10. Spent(r, k)
    BY <1>0, <1>1, <2>3 DEF Spent, Spending
  <2> QED BY <1>1, <2>1, <2>3, <2>4, <2>6, <2>7, <2>8, <2>9, <2>10, BoundsKept, Silent DEF Known
<1> QED BY <1>2, <1>3

LEMMA FinishKeeps ==
  ASSUME RunInv, NEW r \in Runs, Finish(r) PROVE RunInv'
<1> PICK m \in Call : m = run[r]
  BY Begun DEF Finish, At
<1>0. /\ PlanKnown(m) /\ StatusKnown(m) /\ VerdictKnown(m) /\ AttemptKnown(m)
      /\ OnRecord(r, m) /\ Spent(r, m)
  BY CallFacts
<1>1. m.stage = "finish" /\ UNCHANGED <<contexts, records, used, faults, crashes>>
  BY DEF Finish, At, bounds
<1>2. m.attempt \in Nat /\ m.cfg.maxRepairs \in Nat
  BY RuntimeConstants DEF Call, Config
<1>3. CASE ~(m.verdict = "REJECTED" /\ m.attempt <= m.cfg.maxRepairs)
  <2>1. Go(r, "returned") /\ "returned" \in Stages
    BY <1>3 DEF Finish, Stages, Ended
  <2>2. ASSUME NEW k \in Call, k.stage = "returned", Same(k, m)
        PROVE  /\ PlanKnown(k) /\ StatusKnown(k) /\ VerdictKnown(k)
               /\ OnRecord(r, k) /\ Spent(r, k)
    <3>1. PlanKnown(k) /\ StatusKnown(k)
      BY <1>0, <1>1, <2>2, SameRows
         DEF PlanKnown, StatusKnown, Planned, Observed, Decided, Spending, Same
    <3>2. VerdictKnown(k)
      BY <1>0, <1>1, <1>2, <1>3, <2>2, SameRows
         DEF VerdictKnown, AttemptKnown, Decided, Spending, Same
    <3>3. OnRecord(r, k)
      BY <1>0, <1>1, <2>2 DEF OnRecord, Same
    <3>4. Spent(r, k)
      BY <1>0, <1>1, <2>2 DEF Spent, Spending, Same
    <3> QED BY <3>1, <3>2, <3>3, <3>4
  <2> QED BY <1>1, <2>1, <2>2, BoundsKept, MovesOn
<1>4. CASE m.verdict = "REJECTED" /\ m.attempt <= m.cfg.maxRepairs
  <2> DEFINE k == [m EXCEPT !.stage = "invoke", !.parent = m.attempt, !.attempt = m.attempt + 1]
  <2>1. run' = [run EXCEPT ![r] = k]
    BY <1>4 DEF Finish
  <2>2. /\ k \in Call /\ k.stage = "invoke" /\ k.cfg = m.cfg
        /\ k.parent = m.attempt /\ k.attempt = m.attempt + 1
    <3>1. "invoke" \in Stages /\ m.attempt + 1 \in Nat
      BY <1>2 DEF Stages
    <3>2. [m EXCEPT !.stage = "invoke"] \in Call
      BY <3>1 DEF Call
    <3>3. [[m EXCEPT !.stage = "invoke"] EXCEPT !.parent = m.attempt] \in Call
      BY <1>2, <3>2 DEF Call
    <3> QED BY <3>1, <3>3 DEF Call
  <2> HIDE DEF k
  <2>3. ~Unobservable(m.cfg)
    BY <1>0, <1>1, <1>4, DeniedIsError DEF Decided, Spending
  <2>4. AttemptKnown(k)
    BY <1>0, <1>2, <1>4, <2>2, <2>3 DEF AttemptKnown
  <2>5. PlanKnown(k) /\ StatusKnown(k) /\ VerdictKnown(k)
    BY <2>2 DEF PlanKnown, StatusKnown, VerdictKnown, Planned, Observed, Decided, Spending
  <2>6. LastIn(r, {Ledger!ReceiptRow(r, m.attempt, "REJECTED")})
    BY <1>0, <1>1, <1>4 DEF OnRecord
  <2>7. Ledger!ReceiptRow(r, m.attempt, "REJECTED") \in Opening(r, k)
    BY <1>2, <2>2 DEF Opening, Ledger!ReceiptRow
  <2>8. LastIn(r, Opening(r, k))
    BY <2>6, <2>7 DEF LastIn
  <2>9. OnRecord(r, k)
    BY <2>2, <2>8 DEF OnRecord
  <2>10. Spent(r, k)
    BY <1>0, <1>1, <1>4, <2>2 DEF Spent, Spending
  <2> QED BY <1>1, <2>1, <2>2, <2>4, <2>5, <2>9, <2>10, BoundsKept, Silent DEF Known
<1> QED BY <1>3, <1>4

LEMMA SaveEvidenceKeeps ==
  ASSUME RunInv, NEW r \in Runs, SaveEvidence(r) PROVE RunInv' /\ Writes
<1> PICK m \in Call : m = run[r]
  BY Begun DEF SaveEvidence, At
<1>0. /\ PlanKnown(m) /\ StatusKnown(m) /\ VerdictKnown(m) /\ AttemptKnown(m)
      /\ OnRecord(r, m) /\ Spent(r, m) /\ m.attempt \in Nat
  BY CallFacts
<1> PICK row : row = Ledger!EvidenceRow(r, m.attempt, m.status)
  OBVIOUS
<1> PICK n \in Nat : n = Len(records)
  BY DEF RunInv, Shaped
<1> PICK by : by = IF m.cfg.critic THEN "critic" ELSE "agent"
  OBVIOUS
<1>1. m.stage = "save_evidence" /\ Record(r, row, "evaluate")
  BY DEF SaveEvidence, At, Ledger!EvidenceRow
<1>2. /\ row.run = r /\ row.kind = "EVIDENCE"
      /\ row.attempt = m.attempt /\ row.status = m.status
  BY DEF Ledger!EvidenceRow
<1>3. /\ PlanOf(m) \in RunPlans /\ m.cfg.baseline \subseteq PlanOf(m)
      /\ m.status \in [PlanOf(m) -> Statuses]
  BY <1>0, <1>1, PlanFacts DEF Planned, Observed, StatusKnown
<1>4. row \in Ledger!Row
  <2>1. m.attempt \in Ledger!Attempts
    BY <1>0, AttemptFits
  <2>2. m.status \in UNION {[p -> Ledger!Statuses] : p \in RunPlans}
    BY <1>3, SameDecision
  <2> QED BY <2>1, <2>2 DEF Ledger!Row
<1>5. records' = Append(records, row)
  BY <1>1 DEF Record
<1>6. PICK i \in 1..n : Ledger!Latest(i, r, n) /\ records[i] \in Claims(r, m, by)
  BY <1>0, <1>1 DEF OnRecord, LastIn
<1>7. /\ records[i].run = r /\ records[i].kind = "CLAIM"
      /\ records[i].producer = by /\ records[i].attempt = m.attempt
  BY <1>6 DEF Claims, Ledger!ClaimRow
<1>8. RowKnown(n + 1, m.cfg)'
  <2>1. records'[n + 1] = row /\ records'[i] = records[i] /\ i \in 1..((n + 1) - 1)
    BY <1>4, <1>5, Appended DEF RunInv, Shaped
  <2>2. EvidenceKnown(n + 1, m.cfg)'
    BY <1>2, <1>3, <1>7, <2>1 DEF EvidenceKnown
  <2>3. ReceiptKnown(n + 1, m.cfg)' /\ ArtifactKnown(n + 1, m.cfg)'
    BY <1>2, <2>1 DEF ReceiptKnown, ArtifactKnown
  <2> QED BY <2>2, <2>3 DEF RowKnown
<1>9. ASSUME NEW k \in Call, k.stage = "evaluate", Same(k, m)
      PROVE  /\ PlanKnown(k) /\ StatusKnown(k) /\ VerdictKnown(k)
             /\ OnRecord(r, k)' /\ Spent(r, k)
  <2>1. PlanKnown(k) /\ StatusKnown(k) /\ VerdictKnown(k)
    BY <1>0, <1>1, <1>9, SameRows
       DEF PlanKnown, StatusKnown, VerdictKnown, Planned, Observed, Decided, Spending, Same
  <2>2. row \in {Ledger!EvidenceRow(r, k.attempt, k.status)}
    BY <1>9 DEF Same
  <2>3. LastIn(r, {Ledger!EvidenceRow(r, k.attempt, k.status)})'
    BY <1>2, <1>4, <1>5, <2>2, AppendedIsLast DEF RunInv, Shaped
  <2>4. OnRecord(r, k)'
    BY <1>9, <2>3 DEF OnRecord
  <2>5. Spent(r, k)
    BY <1>0, <1>1, <1>9, Unspent DEF Spending
  <2> QED BY <2>1, <2>4, <2>5
<1>10. RunInv'
  <2>1. "evaluate" \in Stages
    BY DEF Stages
  <2> QED BY <1>1, <1>2, <1>4, <1>8, <1>9, <2>1, RecordsAndMoves
<1>11. Ledger!Write(row)
  BY <1>2, <1>5, <1>6, <1>7 DEF Ledger!Write, Ledger!Justified, Ledger!MayFollow
<1> QED BY <1>4, <1>10, <1>11 DEF Writes

LEMMA SaveReceiptKeeps ==
  ASSUME RunInv, NEW r \in Runs, SaveReceipt(r) PROVE RunInv' /\ Writes
<1> PICK m \in Call : m = run[r]
  BY Begun DEF SaveReceipt, At
<1>0. /\ PlanKnown(m) /\ StatusKnown(m) /\ VerdictKnown(m) /\ AttemptKnown(m)
      /\ OnRecord(r, m) /\ Spent(r, m) /\ m.attempt \in Nat
  BY CallFacts
<1> PICK row : row = Ledger!ReceiptRow(r, m.attempt, m.verdict)
  OBVIOUS
<1> PICK n \in Nat : n = Len(records)
  BY DEF RunInv, Shaped
<1> PICK s : s = IF m.verdict = "VERIFIED" THEN "save_artifact" ELSE "finish"
  OBVIOUS
<1>1. m.stage = "save_receipt" /\ Record(r, row, s)
  BY DEF SaveReceipt, At, Ledger!ReceiptRow
<1>2. /\ row.run = r /\ row.kind = "RECEIPT"
      /\ row.attempt = m.attempt /\ row.verdict = m.verdict
  BY DEF Ledger!ReceiptRow
<1>3. /\ m.verdict = Conclusion(PlanOf(m), m.status) /\ m.verdict \in Verdicts
      /\ m.status \in [PlanOf(m) -> Statuses]
  BY <1>0, <1>1, VerdictIsOne DEF VerdictKnown, StatusKnown, Observed, Decided, Spending
<1>4. row \in Ledger!Row
  <2>1. m.attempt \in Ledger!Attempts /\ m.verdict \in Ledger!Verdicts
    BY <1>0, <1>3, AttemptFits, SameDecision
  <2> QED BY <2>1 DEF Ledger!Row
<1>5. records' = Append(records, row) /\ UNCHANGED used
  BY <1>1 DEF Record
<1>6. PICK i \in 1..n :
        Ledger!Latest(i, r, n) /\ records[i] = Ledger!EvidenceRow(r, m.attempt, m.status)
  BY <1>0, <1>1 DEF OnRecord, LastIn
<1>7. /\ records'[n + 1] = row /\ records'[i] = records[i] /\ Len(records') = n + 1
  BY <1>4, <1>5, Appended DEF RunInv, Shaped
<1>8. RowKnown(n + 1, m.cfg)'
  <2>1. EvidenceKnown(n + 1, m.cfg)' /\ ArtifactKnown(n + 1, m.cfg)'
    BY <1>2, <1>7 DEF EvidenceKnown, ArtifactKnown
  <2>2. m.verdict = "VERIFIED" => <<r, m.attempt>> \in used'
    BY <1>0, <1>1, <1>5 DEF Spent, Spending
  <2>3. Unobservable(m.cfg) => m.verdict = "ERROR" /\ m.attempt = 1
    BY <1>0, <1>1, DeniedIsError DEF Decided, Spending, AttemptKnown
  <2>4. ReceiptKnown(n + 1, m.cfg)'
    BY <1>2, <1>7, <2>2, <2>3 DEF ReceiptKnown
  <2> QED BY <2>1, <2>4 DEF RowKnown
<1>9. ASSUME NEW k \in Call, k.stage = s, Same(k, m)
      PROVE  /\ PlanKnown(k) /\ StatusKnown(k) /\ VerdictKnown(k)
             /\ OnRecord(r, k)' /\ Spent(r, k)
  <2>1. PlanKnown(k) /\ StatusKnown(k) /\ VerdictKnown(k)
    <3>1. PlanOf(k) = PlanOf(m)
      BY <1>9, SameRows
    <3>2. PlanKnown(k)
      BY <1>0, <1>1, <1>9, <3>1 DEF PlanKnown, Planned, Observed, Decided, Spending, Same
    <3>3. StatusKnown(k)
      BY <1>0, <1>1, <1>9, <3>1 DEF StatusKnown, Observed, Decided, Spending, Same
    <3>4. VerdictKnown(k)
      BY <1>0, <1>1, <1>9, <3>1 DEF VerdictKnown, Decided, Spending, Same
    <3> QED BY <3>2, <3>3, <3>4
  <2>2. k.verdict = m.verdict /\ k.attempt = m.attempt /\ k.status = m.status
    BY <1>9 DEF Same
  <2>3. LastIn(r, {Ledger!ReceiptRow(r, k.attempt, k.verdict)})'
    <3>1. row \in {Ledger!ReceiptRow(r, k.attempt, k.verdict)}
      BY <2>2
    <3> QED BY <1>2, <1>4, <1>5, <3>1, AppendedIsLast DEF RunInv, Shaped
  <2>4. OnRecord(r, k)'
    <3>1. CASE k.verdict = "VERIFIED"
      <4>1. \E j \in 1..Len(records') : records'[j] = Ledger!EvidenceRow(r, k.attempt, k.status)
        BY <1>6, <1>7, <2>2
      <4> QED BY <1>9, <2>2, <2>3, <3>1, <4>1 DEF OnRecord
    <3>2. CASE k.verdict # "VERIFIED"
      BY <1>9, <2>2, <2>3, <3>2 DEF OnRecord
    <3> QED BY <3>1, <3>2
  <2>5. Spent(r, k)
    BY <1>0, <1>1, <1>9, <2>2 DEF Spent, Spending
  <2> QED BY <2>1, <2>4, <2>5
<1>10. RunInv'
  <2>1. s \in Stages \ {"save_context", "authorize", "save_spec"}
    BY DEF Stages, Stored
  <2> QED BY <1>1, <1>2, <1>4, <1>8, <1>9, <2>1, RecordsAndMoves
<1>11. Ledger!Write(row)
  <2>1. /\ records[i].run = r /\ records[i].kind = "EVIDENCE"
        /\ records[i].attempt = m.attempt /\ records[i].status = m.status
    BY <1>6 DEF Ledger!EvidenceRow
  <2>2. Ledger!MayFollow(records[i], row)
    BY <1>2, <1>3, <2>1, SameDecision DEF Ledger!MayFollow
  <2> QED BY <1>2, <1>5, <1>6, <2>2 DEF Ledger!Write, Ledger!Justified
<1> QED BY <1>4, <1>10, <1>11 DEF Writes

LEMMA SaveArtifactKeeps ==
  ASSUME RunInv, NEW r \in Runs, SaveArtifact(r) PROVE RunInv' /\ Writes
<1> PICK m \in Call : m = run[r]
  BY Begun DEF SaveArtifact, At
<1>0. /\ PlanKnown(m) /\ StatusKnown(m) /\ VerdictKnown(m) /\ AttemptKnown(m)
      /\ OnRecord(r, m) /\ Spent(r, m) /\ m.attempt \in Nat
  BY CallFacts
<1> PICK row : row = Ledger!ArtifactRow(r, m.attempt)
  OBVIOUS
<1> PICK n \in Nat : n = Len(records)
  BY DEF RunInv, Shaped
<1>1. m.stage = "save_artifact" /\ Record(r, row, "finish")
  BY DEF SaveArtifact, At, Ledger!ArtifactRow
<1>2. row.run = r /\ row.kind = "ARTIFACT" /\ row.attempt = m.attempt
  BY DEF Ledger!ArtifactRow
<1>3. /\ m.verdict = "VERIFIED" /\ m.verdict = Conclusion(PlanOf(m), m.status)
      /\ m.status \in [PlanOf(m) -> Statuses]
      /\ CriteriaOf(PlanOf(m)) = m.cfg.criteria
  BY <1>0, <1>1 DEF VerdictKnown, StatusKnown, Observed, Decided, Spending, Decidable
<1>4. row \in Ledger!Row
  BY <1>0, AttemptFits DEF Ledger!Row
<1>5. records' = Append(records, row)
  BY <1>1 DEF Record
<1>6. PICK i \in 1..n :
        Ledger!Latest(i, r, n) /\ records[i] = Ledger!ReceiptRow(r, m.attempt, "VERIFIED")
  BY <1>0, <1>1 DEF OnRecord, LastIn
<1>7. PICK e \in 1..n : records[e] = Ledger!EvidenceRow(r, m.attempt, m.status)
  BY <1>0, <1>1 DEF OnRecord
<1>8. /\ records'[n + 1] = row /\ Len(records') = n + 1
      /\ \A j \in 1..n : records'[j] = records[j]
      /\ Ledger!Latest(n + 1, r, n + 1)'
  BY <1>2, <1>4, <1>5, Appended DEF RunInv, Shaped
<1>9. RowKnown(n + 1, m.cfg)'
  <2>1. EvidenceKnown(n + 1, m.cfg)' /\ ReceiptKnown(n + 1, m.cfg)'
    BY <1>2, <1>8 DEF EvidenceKnown, ReceiptKnown
  <2>2. /\ records'[e].run = r /\ records'[e].kind = "EVIDENCE"
        /\ records'[e].attempt = m.attempt /\ records'[e].status = m.status
    BY <1>7, <1>8 DEF Ledger!EvidenceRow
  <2>3. DOMAIN m.status = PlanOf(m)
    BY <1>3
  <2>4. \A o \in DOMAIN m.status : m.status[o] = "PASSED"
    BY <1>3, <2>3, VerifiedMeansPassed
  <2>5. e \in 1..(n + 1)
    OBVIOUS
  <2>6. ArtifactKnown(n + 1, m.cfg)'
    BY <1>2, <1>3, <1>8, <2>2, <2>3, <2>4, <2>5 DEF ArtifactKnown
  <2> QED BY <2>1, <2>6 DEF RowKnown
<1>10. ASSUME NEW k \in Call, k.stage = "finish", Same(k, m)
       PROVE  /\ PlanKnown(k) /\ StatusKnown(k) /\ VerdictKnown(k)
              /\ OnRecord(r, k)' /\ Spent(r, k)
  <2>1. PlanKnown(k) /\ StatusKnown(k) /\ VerdictKnown(k)
    <3>1. PlanOf(k) = PlanOf(m)
      BY <1>10, SameRows
    <3>2. PlanKnown(k)
      BY <1>0, <1>1, <1>10, <3>1 DEF PlanKnown, Planned, Observed, Decided, Spending, Same
    <3>3. StatusKnown(k)
      BY <1>0, <1>1, <1>10, <3>1 DEF StatusKnown, Observed, Decided, Spending, Same
    <3>4. VerdictKnown(k)
      BY <1>0, <1>1, <1>10, <3>1 DEF VerdictKnown, Decided, Spending, Same
    <3> QED BY <3>2, <3>3, <3>4
  <2>2. k.verdict = "VERIFIED" /\ k.attempt = m.attempt
    BY <1>3, <1>10 DEF Same
  <2>3. Ledger!Latest(i, r, n)'
    BY <1>6, <1>8 DEF Ledger!Latest
  <2>4. (n + 1) - 1 = n /\ n + 1 \in 1..(n + 1)
    OBVIOUS
  <2>5. Delivered(r, m.attempt)'
    BY <1>6, <1>8, <2>3, <2>4 DEF Delivered
  <2>6. OnRecord(r, k)'
    BY <1>10, <2>2, <2>5 DEF OnRecord
  <2>7. Spent(r, k)
    BY <1>0, <1>1, <1>3, <1>10, <2>2 DEF Spent, Spending
  <2> QED BY <2>1, <2>6, <2>7
<1>11. RunInv'
  <2>1. "finish" \in Stages
    BY DEF Stages
  <2> QED BY <1>1, <1>2, <1>4, <1>9, <1>10, <2>1, RecordsAndMoves
<1>12. Ledger!Write(row)
  <2>1. records[i].kind = "RECEIPT" /\ records[i].verdict = "VERIFIED"
        /\ records[i].attempt = m.attempt
    BY <1>6 DEF Ledger!ReceiptRow
  <2> QED BY <1>2, <1>5, <1>6, <2>1
          DEF Ledger!Write, Ledger!Justified, Ledger!MayFollow, Ledger!ArtifactFollows
<1> QED BY <1>4, <1>11, <1>12 DEF Writes

\* Consuming the receipt: the one step that changes the use store.
LEMMA ConsumeKeeps ==
  ASSUME RunInv, NEW r \in Runs, Consume(r) PROVE RunInv'
<1> PICK m \in Call : m = run[r]
  BY Begun DEF Consume, At
<1>0. /\ PlanKnown(m) /\ StatusKnown(m) /\ VerdictKnown(m) /\ AttemptKnown(m)
      /\ OnRecord(r, m) /\ Spent(r, m) /\ m.attempt \in Nat
  BY CallFacts
<1>1. /\ m.stage = "consume" /\ used' = used \cup {<<r, m.attempt>>} /\ Go(r, "save_receipt")
      /\ UNCHANGED <<contexts, records, faults, crashes>>
  BY DEF Consume, At, bounds
<1> DEFINE k == [m EXCEPT !.stage = "save_receipt"]
<1>2. k \in Call /\ k.stage = "save_receipt" /\ Same(k, m)
  <2>1. "save_receipt" \in Stages
    BY DEF Stages, Stored
  <2> QED BY <2>1, Moved DEF Same
<1>3. run' = [run EXCEPT ![r] = k]
  BY <1>1 DEF Go
<1> HIDE DEF k
<1>4. \A q \in Runs : run'[q] = IF q = r THEN k ELSE run[q]
  BY <1>3 DEF RunInv, Shaped
<1>5. \A p \in used : p[1] # r
  BY <1>0, <1>1 DEF Spent, Spending
<1>6. Shaped'
  BY <1>0, <1>1, <1>2, <1>3 DEF RunInv, Shaped
<1>7. OneUse'
  BY <1>1, <1>5 DEF RunInv, OneUse
<1>8. Known(k)
  <2>1. AttemptKnown(k)
    BY <1>0, <1>2 DEF AttemptKnown, Same
  <2>2. PlanOf(k) = PlanOf(m)
    BY <1>2, SameRows
  <2>3. PlanKnown(k)
    BY <1>0, <1>1, <1>2, <2>2 DEF PlanKnown, Planned, Observed, Decided, Spending, Same
  <2>4. StatusKnown(k)
    BY <1>0, <1>1, <1>2, <2>2 DEF StatusKnown, Observed, Decided, Spending, Same
  <2>5. VerdictKnown(k)
    BY <1>0, <1>1, <1>2, <2>2 DEF VerdictKnown, Decided, Spending, Same
  <2> QED BY <1>2, <2>1, <2>3, <2>4, <2>5 DEF Known
<1>9. OnRecord(r, k)
  BY <1>0, <1>1, <1>2 DEF OnRecord, Same
<1>10. Spent(r, k)'
  <2>1. k.verdict = "VERIFIED" /\ k.attempt = m.attempt
    BY <1>0, <1>1, <1>2 DEF VerdictKnown, Same
  <2> QED BY <1>1, <1>2, <1>5, <2>1 DEF Spent, Spending
<1>11. ASSUME NEW q, NEW c, OnRecord(q, c) PROVE OnRecord(q, c)'
  <2>1. ASSUME NEW rows, LastIn(q, rows) PROVE LastIn(q, rows)'
    BY <1>1, <2>1 DEF LastIn, Ledger!Latest
  <2>2. ASSUME NEW a, Delivered(q, a) PROVE Delivered(q, a)'
    BY <1>1, <2>2 DEF Delivered, Ledger!Latest
  <2> QED BY <1>1, <1>11, <2>1, <2>2 DEF OnRecord
<1>12. ASSUME NEW q \in Runs
       PROVE  (Known(run[q]) /\ OnRecord(q, run[q]) /\ Spent(q, run[q]))'
  <2> PICK c : c = run'[q]
    OBVIOUS
  <2>1. Known(c) /\ OnRecord(q, c)
    BY <1>4, <1>8, <1>9 DEF RunInv, Calls
  <2>2. OnRecord(q, c)'
    BY <1>11, <2>1
  <2>3. Spent(q, c)'
    <3>1. CASE q = r
      BY <1>4, <1>10, <3>1
    <3>2. CASE q # r
      <4>1. Spent(q, c)
        BY <1>4, <3>2 DEF RunInv, Calls
      <4> QED BY <1>1, <3>2, <4>1 DEF Spent
    <3> QED BY <3>1, <3>2
  <2> QED BY <2>1, <2>2, <2>3
<1>13. Calls'
  BY <1>12 DEF Calls
<1>14. ASSUME NEW i \in 1..Len(records) PROVE RowKnown(i, run[records[i].run].cfg)'
  <2> PICK c : c = run[records[i].run].cfg
    OBVIOUS
  <2>1. run'[records'[i].run].cfg = c
    BY <1>1, <1>2, <1>4, RecordedBegan DEF Same
  <2>2. RowKnown(i, c)
    BY DEF RunInv, Rows
  <2>3. EvidenceKnown(i, c)' /\ ArtifactKnown(i, c)'
    BY <1>1, <2>2 DEF RowKnown, EvidenceKnown, ArtifactKnown
  <2>4. ReceiptKnown(i, c)'
    BY <1>1, <2>2 DEF RowKnown, ReceiptKnown
  <2> QED BY <2>1, <2>3, <2>4 DEF RowKnown
<1>15. Rows'
  BY <1>1, <1>14 DEF Rows
<1> QED BY <1>6, <1>7, <1>13, <1>15 DEF RunInv

LEMMA StoreFailsKeeps ==
  ASSUME RunInv, NEW r \in Runs, StoreFails(r) PROVE RunInv'
<1>1. /\ run[r].stage # "idle" /\ Go(r, "raised")
      /\ UNCHANGED <<contexts, records, used, crashes>>
  BY DEF StoreFails, Stored
<1>2. contexts' \subseteq Runs /\ faults' \in 0..MaxFaults /\ crashes' \in 0..MaxCrashes
  BY RuntimeConstants DEF StoreFails, RunInv, Shaped
<1> QED BY <1>1, <1>2, Raises

\* A crash ends every call under way and leaves the file as it is.
LEMMA CrashKeeps ==
  ASSUME RunInv, Crash PROVE RunInv'
<1>1. /\ UNCHANGED <<contexts, records, used, faults>>
      /\ crashes' \in 0..MaxCrashes
  BY RuntimeConstants DEF Crash, RunInv, Shaped
<1>2. ASSUME NEW q \in Runs, NEW c, c = run'[q]
      PROVE  /\ c = run[q] \/ (c \in Call /\ run[q].stage # "idle" /\ Same(c, run[q]))
             /\ Known(c) /\ OnRecord(q, c) /\ Spent(q, c)
  <2> PICK m : m = run[q]
    OBVIOUS
  <2>1. Known(m) /\ OnRecord(q, m) /\ Spent(q, m)
    BY DEF RunInv, Calls
  <2>2. CASE m.stage \in Ended \cup {"idle"}
    BY <1>2, <2>1, <2>2 DEF Crash
  <2>3. CASE m.stage \notin Ended \cup {"idle"}
    <3>1. m \in Call
      BY <2>3, Begun
    <3>2. c = [m EXCEPT !.stage = "dead"]
      BY <1>2, <2>3 DEF Crash
    <3>3. "dead" \in Stages
      BY DEF Stages, Ended
    <3>4. c \in Call /\ c.stage = "dead" /\ Same(c, m)
      BY <3>1, <3>2, <3>3, Moved DEF Same
    <3>5. AttemptKnown(c)
      BY <2>1, <3>1, <3>4, StagesDistinct DEF Known, AttemptKnown, Same
    <3>6. PlanKnown(c) /\ StatusKnown(c) /\ VerdictKnown(c)
      BY <3>4 DEF PlanKnown, StatusKnown, VerdictKnown, Planned, Observed, Decided, Spending
    <3>7. OnRecord(q, c)
      BY <3>4 DEF OnRecord
    <3>8. Spent(q, c)
      BY <3>4 DEF Spent, Spending
    <3> QED BY <2>3, <3>1, <3>4, <3>5, <3>6, <3>7, <3>8 DEF Known
  <2> QED BY <2>2, <2>3
<1>3. Shaped'
  <2>1. run' = [q \in Runs |-> run'[q]]
    BY DEF Crash
  <2>2. \A q \in Runs : run'[q] \in Call \cup {Idle}
    BY <1>2 DEF Known
  <2>3. run' \in [Runs -> Call \cup {Idle}]
    BY <2>1, <2>2
  <2> QED BY <1>1, <2>3 DEF RunInv, Shaped
<1>4. OneUse'
  BY <1>1 DEF RunInv, OneUse
<1>5. ASSUME NEW q \in Runs
      PROVE  (Known(run[q]) /\ OnRecord(q, run[q]) /\ Spent(q, run[q]))'
  <2> PICK c : c = run'[q]
    OBVIOUS
  <2>1. Known(c) /\ OnRecord(q, c) /\ Spent(q, c)
    BY <1>2
  <2>2. OnRecord(q, c)' /\ Spent(q, c)'
    BY <1>1, <2>1, KnowledgeKept
  <2> QED BY <2>1, <2>2
<1>6. Calls'
  BY <1>5 DEF Calls
<1>7. ASSUME NEW i \in 1..Len(records) PROVE RowKnown(i, run[records[i].run].cfg)'
  <2> PICK c : c = run[records[i].run].cfg
    OBVIOUS
  <2>1. run'[records'[i].run].cfg = c
    <3>1. records[i].run \in Runs
      BY RecordedBegan
    <3> QED BY <1>1, <1>2, <3>1 DEF Same
  <2>2. RowKnown(i, c)
    BY DEF RunInv, Rows
  <2>3. RowKnown(i, c)'
    BY <1>1, <2>2 DEF RowKnown, EvidenceKnown, ReceiptKnown, ArtifactKnown
  <2> QED BY <2>1, <2>3
<1>8. Rows'
  BY <1>1, <1>7 DEF Rows
<1> QED BY <1>3, <1>4, <1>6, <1>8 DEF RunInv

-----------------------------------------------------------------------------
(* The runs *)

LEMMA RunInvInit == Init => RunInv
<1> SUFFICES ASSUME Init PROVE RunInv
  OBVIOUS
<1>1. /\ contexts = {} /\ records = <<>> /\ used = {} /\ faults = 0 /\ crashes = 0
      /\ run = [r \in Runs |-> Idle]
  BY DEF Init
<1>2. Shaped /\ OneUse /\ Rows
  BY <1>1, RuntimeConstants DEF Shaped, OneUse, Rows
<1>3. ASSUME NEW r \in Runs PROVE Known(run[r]) /\ OnRecord(r, run[r]) /\ Spent(r, run[r])
  <2>1. run[r] = Idle /\ run[r].stage = "idle" /\ Len(records) = 0
    BY <1>1, StagesDistinct
  <2>2. OnRecord(r, run[r])
    BY <2>1 DEF OnRecord
  <2>3. Spent(r, run[r])
    BY <1>1, <2>1 DEF Spent, Spending
  <2> QED BY <2>1, <2>2, <2>3 DEF Known
<1> QED BY <1>2, <1>3 DEF RunInv, Calls

\* Every step preserves the invariant, and writes a justified row or none.
LEMMA StepKeeps ==
  ASSUME RunInv, [Next]_vars
  PROVE  RunInv' /\ (Writes \/ UNCHANGED records)
<1>1. ASSUME NEW r \in Runs, NEW cfg \in Configs, Start(r, cfg)
      PROVE  RunInv' /\ UNCHANGED records
  BY <1>1, StartKeeps DEF Start
<1>2. ASSUME NEW r \in Runs,
             SaveContext(r) \/ Authorize(r) \/ Invoke(r) \/ Challenge(r) \/ Select(r)
               \/ Collect(r) \/ IssueEvidence(r) \/ Evaluate(r) \/ Consume(r) \/ Finish(r)
      PROVE  RunInv' /\ UNCHANGED records
  <2>1. RunInv'
    BY <1>2, SaveContextKeeps, AuthorizeKeeps, InvokeKeeps, ChallengeKeeps, SelectKeeps,
       CollectKeeps, IssueEvidenceKeeps, EvaluateKeeps, ConsumeKeeps, FinishKeeps
  <2>2. UNCHANGED records
    BY <1>2 DEF SaveContext, Authorize, Invoke, Challenge, InvokeAgent, Select, Collect,
       IssueEvidence, Evaluate, Consume, Finish
  <2> QED BY <2>1, <2>2
<1>3. ASSUME NEW r \in Runs,
             SaveSpec(r) \/ QuarantineClaim(r) \/ QuarantineCritic(r)
               \/ SaveEvidence(r) \/ SaveReceipt(r) \/ SaveArtifact(r)
      PROVE  RunInv' /\ Writes
  BY <1>3, SaveSpecKeeps, QuarantineClaimKeeps, QuarantineCriticKeeps, SaveEvidenceKeeps,
     SaveReceiptKeeps, SaveArtifactKeeps
<1>4. ASSUME NEW r \in Runs, StoreFails(r) PROVE RunInv' /\ UNCHANGED records
  BY <1>4, StoreFailsKeeps DEF StoreFails
<1>5. CASE Crash
  BY <1>5, CrashKeeps DEF Crash
<1>6. CASE UNCHANGED vars
  <2>1. UNCHANGED <<contexts, records, used, run, faults, crashes>>
    BY <1>6 DEF vars, bounds
  <2>2. Shaped' /\ OneUse'
    BY <2>1 DEF RunInv, Shaped, OneUse
  <2>3. ASSUME NEW q \in Runs
        PROVE  (Known(run[q]) /\ OnRecord(q, run[q]) /\ Spent(q, run[q]))'
    <3> PICK c : c = run[q]
      OBVIOUS
    <3>1. c = run'[q] /\ Known(c) /\ OnRecord(q, c) /\ Spent(q, c)
      BY <2>1 DEF RunInv, Calls
    <3>2. OnRecord(q, c)' /\ Spent(q, c)'
      BY <2>1, <3>1, KnowledgeKept
    <3> QED BY <3>1, <3>2
  <2>4. ASSUME NEW i \in 1..Len(records) PROVE RowKnown(i, run[records[i].run].cfg)'
    <3> PICK c : c = run[records[i].run].cfg
      OBVIOUS
    <3>1. run'[records'[i].run].cfg = c
      BY <2>1
    <3>2. RowKnown(i, c)
      BY DEF RunInv, Rows
    <3>3. EvidenceKnown(i, c)' /\ ArtifactKnown(i, c)'
      BY <2>1, <3>2 DEF RowKnown, EvidenceKnown, ArtifactKnown
    <3>4. ReceiptKnown(i, c)'
      BY <2>1, <3>2 DEF RowKnown, ReceiptKnown
    <3> QED BY <3>1, <3>3, <3>4 DEF RowKnown
  <2>5. Rows'
    BY <2>1, <2>4 DEF Rows
  <2>6. Calls'
    BY <2>3 DEF Calls
  <2> QED BY <2>1, <2>2, <2>5, <2>6 DEF RunInv
<1> QED BY <1>1, <1>2, <1>3, <1>4, <1>5, <1>6 DEF Next, Step

\* Every reachable state satisfies the inductive invariant of the runs.
THEOREM Invariance == Spec => []RunInv
<1>1. RunInv /\ [Next]_vars => RunInv'
  BY StepKeeps
<1> QED BY <1>1, RunInvInit, PTL DEF Spec

\* Type correctness of the runs: in particular no attempt lies beyond the last
\* repair, and every parent is an earlier attempt.
THEOREM TypeCorrect == Spec => []TypeOK
<1>1. RunInv => TypeOK
  <2> SUFFICES ASSUME RunInv PROVE TypeOK
    OBVIOUS
  <2>1. ASSUME NEW r \in Runs, ~At(r, "idle")
        PROVE  /\ run[r].stage \in Stages
               /\ run[r].cfg \in Configs
               /\ run[r].attempt \in 1..(run[r].cfg.maxRepairs + 1)
               /\ run[r].parent \in 0..run[r].cfg.maxRepairs
               /\ run[r].plan \subseteq Obligations
               /\ run[r].verdict \in Verdicts \cup {"none"}
    <3>1. PICK m \in Call : m = run[r]
      BY <2>1, Begun DEF At
    <3>2. AttemptKnown(m)
      BY <3>1, CallFacts
    <3> QED BY <3>1, <3>2 DEF Call, AttemptKnown
  <2> QED BY <2>1 DEF TypeOK, RunInv, Shaped
<1> QED BY <1>1, Invariance, PTL

\* A justified row is a step of the ledger.
LEMMA WritesIsLedgerStep == Writes => Ledger!Next
BY DEF Writes, Ledger!Next, Ledger!Row

\* Whatever fails and wherever the controller dies, the rows of the runs are
\* the ledger RunLedger specifies: each row is justified by the one before it.
THEOREM Refinement == Spec => ImplementsLedger
<1>1. Init => Ledger!Init
  BY DEF Init, Ledger!Init
<1>2. RunInv /\ [Next]_vars => [Ledger!Next]_records
  BY StepKeeps, WritesIsLedgerStep
<1> QED BY <1>1, <1>2, Invariance, PTL DEF Spec, ImplementsLedger, Ledger!Spec

\* What the ledger promises holds of the rows of the runs: an artifact rests on
\* a complete chain, nothing follows it, and no attempt is recorded twice.
THEOREM LedgerPromisesHold ==
  Spec => [](Ledger!ArtifactRests /\ Ledger!ArtifactIsFinal /\ Ledger!OneChainPerAttempt)
BY Refinement, ArtifactRestsHolds, ArtifactIsFinalHolds, OneChainPerAttemptHolds, PTL
   DEF ImplementsLedger

\* A VERIFIED receipt on record is consumed: what is read back after a crash
\* cannot be propagated as new.
THEOREM RecordedIsSpentHolds == Spec => []RecordedIsSpent
<1>1. RunInv => RecordedIsSpent
  BY DEF RunInv, Rows, RowKnown, ReceiptKnown, RecordedIsSpent
<1> QED BY <1>1, Invariance, PTL

\* A check that cannot run ends the run with ERROR at the first attempt.
THEOREM DeniedVerifierStopsHolds == Spec => []DeniedVerifierStops
<1>1. RunInv => DeniedVerifierStops
  BY DEF RunInv, Rows, RowKnown, ReceiptKnown, DeniedVerifierStops, Unobservable
<1> QED BY <1>1, Invariance, PTL

\* An artifact on record stands for the whole baseline and for every criterion,
\* and with a critic for a challenge made in its own attempt.
THEOREM BaselineAlwaysCheckedHolds == Spec => []BaselineAlwaysChecked
<1>1. RunInv => BaselineAlwaysChecked
  <2> SUFFICES ASSUME RunInv, NEW i \in 1..Len(records), records[i].kind = "ARTIFACT"
               PROVE  LET r == records[i].run
                          cfg == run[r].cfg
                      IN  \E j \in 1..i :
                            /\ records[j].run = r
                            /\ records[j].kind = "EVIDENCE"
                            /\ records[j].attempt = records[i].attempt
                            /\ cfg.baseline \subseteq DOMAIN records[j].status
                            /\ CriteriaOf(DOMAIN records[j].status) = cfg.criteria
                            /\ \A o \in DOMAIN records[j].status : records[j].status[o] = "PASSED"
                            /\ cfg.critic => \E m \in 1..(j - 1) :
                                 /\ records[m].run = r /\ records[m].kind = "CLAIM"
                                 /\ records[m].producer = "critic"
                                 /\ records[m].attempt = records[j].attempt
    BY DEF BaselineAlwaysChecked
  <2> PICK cfg : cfg = run[records[i].run].cfg
    OBVIOUS
  <2>1. ArtifactKnown(i, cfg)
    BY DEF RunInv, Rows, RowKnown
  <2>2. PICK j \in 1..i :
          /\ records[j].run = records[i].run
          /\ records[j].kind = "EVIDENCE"
          /\ records[j].attempt = records[i].attempt
          /\ CriteriaOf(DOMAIN records[j].status) = cfg.criteria
          /\ \A o \in DOMAIN records[j].status : records[j].status[o] = "PASSED"
    BY <2>1 DEF ArtifactKnown
  <2>3. j \in 1..Len(records)
    BY DEF RunInv, Shaped
  <2>4. EvidenceKnown(j, cfg)
    BY <2>2, <2>3 DEF RunInv, Rows, RowKnown
  <2> QED BY <2>2, <2>4 DEF EvidenceKnown
<1> QED BY <1>1, Invariance, PTL

\* A run spends one receipt at most, and one whose artifact is not on record
\* belongs to a call still saving it, or to a run that is over.
THEOREM LossIsConfinedHolds == Spec => []LossIsConfined
<1>1. RunInv => LossIsConfined
  <2> SUFFICES ASSUME RunInv, NEW r \in Runs
               PROVE  /\ Cardinality({p \in used : p[1] = r}) <= 1
                      /\ \A p \in used : p[1] = r =>
                           \/ run[r].stage \in {"save_receipt", "save_artifact"}
                              /\ run[r].attempt = p[2]
                           \/ run[r].stage \in {"raised", "dead"}
                           \/ \E i \in 1..Len(records) :
                                records[i] = [run |-> r, kind |-> "ARTIFACT", attempt |-> p[2]]
    BY DEF LossIsConfined
  <2>1. Cardinality({p \in used : p[1] = r}) <= 1
    <3> DEFINE mine == {p \in used : p[1] = r}
    <3>1. CASE mine = {}
      BY <3>1, FS_EmptySet
    <3>2. CASE mine # {}
      <4>1. PICK p : p \in mine
        BY <3>2
      <4>2. mine = {p}
        BY <4>1 DEF RunInv, OneUse
      <4> QED BY <4>2, FS_Singleton
    <3> QED BY <3>1, <3>2
  <2>2. ASSUME NEW p \in used, p[1] = r
        PROVE  \/ run[r].stage \in {"save_receipt", "save_artifact"} /\ run[r].attempt = p[2]
               \/ run[r].stage \in {"raised", "dead"}
               \/ \E i \in 1..Len(records) :
                    records[i] = [run |-> r, kind |-> "ARTIFACT", attempt |-> p[2]]
    <3> PICK m : m = run[r]
      OBVIOUS
    <3>1. Spent(r, m) /\ OnRecord(r, m)
      BY DEF RunInv, Calls
    <3>2. CASE m.stage \in {"finish", "returned"}
      <4>1. m.verdict = "VERIFIED" /\ p[2] = m.attempt
        BY <2>2, <3>1, <3>2 DEF Spent
      <4>2. Delivered(r, m.attempt)
        BY <3>1, <3>2, <4>1 DEF OnRecord
      <4> QED BY <4>1, <4>2 DEF Delivered, Ledger!ArtifactRow
    <3>3. CASE m.stage \notin {"finish", "returned"}
      BY <2>2, <3>1, <3>3 DEF Spent, Spending
    <3> QED BY <3>2, <3>3
  <2> QED BY <2>1, <2>2
<1> QED BY <1>1, Invariance, PTL

\* What a returned run answers is what its last rows say; REJECTED only after
\* the last repair.
THEOREM ResultIsDurableHolds == Spec => []ResultIsDurable
<1>1. RunInv => ResultIsDurable
  <2> SUFFICES ASSUME RunInv, NEW r \in Runs, NEW m, m = run[r], m.stage = "returned"
               PROVE  /\ \E i \in 1..Len(records) :
                           /\ Ledger!Latest(i, r, Len(records))
                           /\ IF m.verdict = "VERIFIED"
                              THEN /\ records[i] = Ledger!ArtifactRow(r, m.attempt)
                                   /\ \E j \in 1..(i - 1) :
                                        /\ Ledger!Latest(j, r, i - 1)
                                        /\ records[j] = Ledger!ReceiptRow(r, m.attempt, m.verdict)
                              ELSE records[i] = Ledger!ReceiptRow(r, m.attempt, m.verdict)
                      /\ m.verdict = "REJECTED" => m.attempt = m.cfg.maxRepairs + 1
    BY DEF ResultIsDurable, At
  <2>1. m \in Call
    BY Begun
  <2>2. OnRecord(r, m) /\ VerdictKnown(m)
    BY <2>1, CallFacts
  <2>3. CASE m.verdict = "VERIFIED"
    <3>1. Delivered(r, m.attempt)
      BY <2>2, <2>3 DEF OnRecord
    <3> QED BY <2>3, <3>1 DEF Delivered
  <2>4. CASE m.verdict # "VERIFIED"
    <3>1. LastIn(r, {Ledger!ReceiptRow(r, m.attempt, m.verdict)})
      BY <2>2, <2>4 DEF OnRecord
    <3>2. m.verdict = "REJECTED" => m.attempt = m.cfg.maxRepairs + 1
      BY <2>2 DEF VerdictKnown
    <3> QED BY <2>4, <3>1, <3>2 DEF LastIn
  <2> QED BY <2>3, <2>4
<1> QED BY <1>1, Invariance, PTL
=============================================================================
