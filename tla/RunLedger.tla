----------------------------- MODULE RunLedger -----------------------------
(***************************************************************************)
(* What the durable records of verification runs promise (run_records of   *)
(* SQLiteRunStore, as VerificationRuntime fills it): an append-only ledger *)
(* in which, for each run, every row may only follow the row that          *)
(* justifies it.  Whatever is cut short by an exception or a crash leaves  *)
(* a prefix of such a chain.  Runtime implements this.                     *)
(*                                                                         *)
(* A row keeps what the justification needs: the run, the kind (its trust  *)
(* label is a function of the kind), the attempt, and for a claim its      *)
(* producer and parent attempt, for evidence the status of each            *)
(* obligation, for a receipt the verdict.                                  *)
(***************************************************************************)
EXTENDS Decision, Naturals, Sequences

CONSTANTS
  Runs,         \* run ids
  Plans,        \* sets of obligations a run may verify
  MaxAttempts   \* largest attempt number

VARIABLE records

Attempts == 1..MaxAttempts

SpecRow(r)        == [run |-> r, kind |-> "AUTHORIZED_SPEC"]
ClaimRow(r, by, n, parent) ==
  [run |-> r, kind |-> "CLAIM", producer |-> by, attempt |-> n, parent |-> parent]
EvidenceRow(r, n, status) ==
  [run |-> r, kind |-> "EVIDENCE", attempt |-> n, status |-> status]
ReceiptRow(r, n, verdict) ==
  [run |-> r, kind |-> "RECEIPT", attempt |-> n, verdict |-> verdict]
ArtifactRow(r, n) == [run |-> r, kind |-> "ARTIFACT", attempt |-> n]

Row ==
       {SpecRow(r) : r \in Runs}
  \cup {ClaimRow(r, by, n, p) :
          r \in Runs, by \in {"agent", "critic"}, n \in Attempts, p \in 0..MaxAttempts}
  \cup {EvidenceRow(r, n, s) :
          r \in Runs, n \in Attempts, s \in UNION {[p -> Statuses] : p \in Plans}}
  \cup {ReceiptRow(r, n, v) : r \in Runs, n \in Attempts, v \in Verdicts}
  \cup {ArtifactRow(r, n) : r \in Runs, n \in Attempts}

\* A repair answers a REJECTED receipt and names the rejected claim as parent.
RepairFollows(last, row) ==
  /\ last.kind = "RECEIPT" /\ last.verdict = "REJECTED"
  /\ row.attempt = last.attempt + 1
  /\ row.parent = last.attempt

ArtifactFollows(last, row) ==
  /\ last.kind = "RECEIPT" /\ last.verdict = "VERIFIED"
  /\ row.attempt = last.attempt

\* Row `row` may come next in a run whose latest row is `last`.
MayFollow(last, row) ==
  \/ /\ row.kind = "CLAIM" /\ row.producer = "agent"
     /\ \/ last.kind = "AUTHORIZED_SPEC" /\ row.attempt = 1 /\ row.parent = 0
        \/ RepairFollows(last, row)
  \/ /\ row.kind = "CLAIM" /\ row.producer = "critic"
     /\ last.kind = "CLAIM" /\ last.producer = "agent"
     /\ row.attempt = last.attempt /\ row.parent = last.attempt
  \/ /\ row.kind = "EVIDENCE"
     /\ last.kind = "CLAIM" /\ row.attempt = last.attempt
  \/ /\ row.kind = "RECEIPT"
     /\ last.kind = "EVIDENCE" /\ row.attempt = last.attempt
     /\ row.verdict = Conclusion(DOMAIN last.status, last.status)
  \/ row.kind = "ARTIFACT" /\ ArtifactFollows(last, row)

\* Row i is the latest one of its run among the first n rows.
Latest(i, r, n) ==
  /\ i \in 1..n
  /\ records[i].run = r
  /\ \A j \in (i + 1)..n : records[j].run # r

Justified(row) ==
  \/ /\ row.kind = "AUTHORIZED_SPEC"
     /\ \A i \in 1..Len(records) : records[i].run # row.run
  \/ \E i \in 1..Len(records) :
       Latest(i, row.run, Len(records)) /\ MayFollow(records[i], row)

Init == records = <<>>

Write(row) == records' = Append(records, row) /\ Justified(row)

Next ==
  \E r \in Runs :
    \/ Write(SpecRow(r))
    \/ \E n \in Attempts :
         \/ \E by \in {"agent", "critic"}, p \in 0..MaxAttempts : Write(ClaimRow(r, by, n, p))
         \/ \E plan \in Plans : \E s \in [plan -> Statuses] : Write(EvidenceRow(r, n, s))
         \/ \E v \in Verdicts : Write(ReceiptRow(r, n, v))
         \/ Write(ArtifactRow(r, n))

Spec == Init /\ [][Next]_records

-----------------------------------------------------------------------------
(* Properties *)

TypeOK == records \in Seq(Row)

\* An earlier row of the run and attempt.
Earlier(i, kind) ==
  {j \in 1..(i - 1) : /\ records[j].run = records[i].run
                      /\ records[j].kind = kind
                      /\ kind # "AUTHORIZED_SPEC" => records[j].attempt = records[i].attempt}

\* An artifact on record rests on a complete chain of its own run and attempt:
\* the authorized spec, the claim, evidence in which every check passed, and a
\* VERIFIED receipt.  "Persistence must not upgrade a quarantined value".
ArtifactRests ==
  \A i \in 1..Len(records) : records[i].kind = "ARTIFACT" =>
    /\ Earlier(i, "AUTHORIZED_SPEC") # {}
    /\ \E j \in Earlier(i, "CLAIM") : records[j].producer = "agent"
    /\ \E j \in Earlier(i, "EVIDENCE") : \A o \in DOMAIN records[j].status :
         records[j].status[o] = "PASSED"
    /\ \E j \in Earlier(i, "RECEIPT") : records[j].verdict = "VERIFIED"

\* A run yields at most one artifact and nothing follows it: no repair, no
\* second claim and no other verdict is recorded behind an approval.
ArtifactIsFinal ==
  \A i, j \in 1..Len(records) :
    records[i].kind = "ARTIFACT" /\ records[j].run = records[i].run => j <= i

\* Each attempt has one claim by the agent, one bundle and one receipt, and the
\* attempts are numbered without a gap: a repair never overwrites history.
OneChainPerAttempt ==
  \A i, j \in 1..Len(records) :
    /\ records[i].run = records[j].run
    /\ records[i].kind = records[j].kind
    /\ records[i].kind # "AUTHORIZED_SPEC" => records[i].attempt = records[j].attempt
    /\ records[i].kind = "CLAIM" => records[i].producer = records[j].producer
    => i = j
=============================================================================
