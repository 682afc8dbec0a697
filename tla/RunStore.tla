------------------------------ MODULE RunStore ------------------------------
(***************************************************************************)
(* SQLiteRunStore (persistence.py): the tables runs and run_records of one *)
(* database file.  save_context and _append look a subject up in autocommit*)
(* mode and insert it afterwards, in the transaction the sqlite3 library   *)
(* opens before the INSERT: between the two statements other threads and   *)
(* processes insert.  Only the table's keys stop the second row.           *)
(*                                                                         *)
(* Both tables are one sequence of rows here: the row of table runs is the *)
(* one whose subject is "context", and has no trust label.  A row's digest *)
(* is the payload it was written with, so a row whose payload somebody     *)
(* edited on disk has a payload that is not its digest.  No digest covers  *)
(* the trust label.  The write lock belongs to the file and is shared with *)
(* SQLiteUseStore, see DatabaseFile, which states the specification.       *)
(***************************************************************************)
EXTENDS Naturals, Sequences, SequencesExt

CONSTANTS Threads, NoThread,
  Runs, Subjects,  \* run ids; kind and subject id of a record
  Labels,          \* trust labels of records
  Payloads,        \* what can be saved under a subject
  Items,           \* what callers save
  MaxSaves,        \* bound: saves in one behaviour
  MaxReads         \* bound: reads in one behaviour

VARIABLES
  rows,    \* committed rows, by sequence
  writer,  \* thread whose transaction holds the write lock
  saving,  \* thread -> statement of its save it executes next
  item,    \* thread -> what it saves: [run, subject, label, payload]
  outcome, \* thread -> how its save ends, once known
  saved,   \* items whose save returned normally (what callers were told)
  reads,   \* what the readers were given, in the order of their reads
  saves    \* bounded by MaxSaves

storeVars == <<rows, saving, item, outcome, saved, reads, saves>>

\* What can be saved under which key of which run; Items are some of these.
Item == [run : Runs, subject : Subjects \cup {"context"},
         label : Labels \cup {"none"}, payload : Payloads]

NoItem == [run |-> "none", subject |-> "none", label |-> "none", payload |-> "none"]

StoreInit ==
  /\ rows = <<>>
  /\ saving = [t \in Threads |-> "idle"]
  /\ item = [t \in Threads |-> NoItem]
  /\ outcome = [t \in Threads |-> "error"]
  /\ saved = {}
  /\ reads = <<>>
  /\ saves = 0

Proceed(t, from, to) ==
  /\ saving[t] = from
  /\ saving' = [saving EXCEPT ![t] = to]

\* The digest is the payload's alone.
RowOf(i) == [run |-> i.run, subject |-> i.subject, label |-> i.label,
             payload |-> i.payload, digest |-> i.payload]

\* The rows that have the item's key (PRIMARY KEY of runs, UNIQUE of run_records).
Existing(i) ==
  {row \in Range(rows) : row.run = i.run /\ row.subject = i.subject}

\* FOREIGN KEY (run_id) REFERENCES runs(run_id)
RunKnown(i) ==
  i.subject = "context" \/ Existing([i EXCEPT !.subject = "context"]) # {}

CallSave(t, i) ==
  /\ saves < MaxSaves
  /\ saves' = saves + 1
  /\ Proceed(t, "idle", "look")
  /\ item' = [item EXCEPT ![t] = i]
  /\ UNCHANGED <<rows, writer, outcome, saved, reads>>

\* Mutant: whatever is stored under the subject counts as this save.
LookByKey(t) ==
  /\ \/ /\ Existing(item[t]) = {}
        /\ Proceed(t, "look", "insert")
        /\ UNCHANGED outcome
     \/ /\ Existing(item[t]) # {}
        /\ Proceed(t, "look", "close")
        /\ outcome' = [outcome EXCEPT ![t] = "saved"]
  /\ UNCHANGED <<rows, writer, item, saved, reads, saves>>

\* SELECT: a row with the same label, payload and digest is this save done
\* before; any other raises ValueError.
Look(t) ==
  /\ \/ /\ Existing(item[t]) = {}
        /\ Proceed(t, "look", "insert")
        /\ UNCHANGED outcome
     \/ /\ Existing(item[t]) # {}
        /\ Proceed(t, "look", "close")
        /\ outcome' = [outcome EXCEPT ![t] =
             IF RowOf(item[t]) \in Existing(item[t]) THEN "saved" ELSE "conflict"]
  /\ UNCHANGED <<rows, writer, item, saved, reads, saves>>

\* Mutant: INSERT OR REPLACE.
InsertReplaces(t) ==
  /\ writer = NoThread
  /\ writer' = t
  /\ Proceed(t, "insert", "commit")
  /\ rows' = SelectSeq(rows, LAMBDA row : row \notin Existing(item[t]))
  /\ UNCHANGED <<item, outcome, saved, reads, saves>>

\* BEGIN and INSERT: the write lock is free, and the keys decide.
InsertRow(t) ==
  /\ writer = NoThread
  /\ writer' = t
  /\ \/ /\ Existing(item[t]) = {} /\ RunKnown(item[t])
        /\ Proceed(t, "insert", "commit")
        /\ UNCHANGED outcome
     \/ /\ ~(Existing(item[t]) = {} /\ RunKnown(item[t]))
        /\ Proceed(t, "insert", "rollback")
        /\ outcome' = [outcome EXCEPT ![t] = "integrity"]
  /\ UNCHANGED <<rows, item, saved, reads, saves>>

\* The write lock stayed taken for the five seconds of the busy timeout.
InsertTimeout(t) ==
  /\ writer # NoThread
  /\ Proceed(t, "insert", "rollback")
  /\ outcome' = [outcome EXCEPT ![t] = "error"]
  /\ UNCHANGED <<rows, writer, item, saved, reads, saves>>

\* with connection: the transaction is committed.
CommitRow(t) ==
  /\ Proceed(t, "commit", "close")
  /\ rows' = Append(rows, RowOf(item[t]))
  /\ writer' = NoThread
  /\ outcome' = [outcome EXCEPT ![t] = "saved"]
  /\ UNCHANGED <<item, saved, reads, saves>>

\* A statement raises (disk full, I/O error, file gone); DatabaseFile bounds how often.
SaveFails(t) ==
  /\ saving[t] \in {"look", "insert", "commit"}
  /\ saving' = [saving EXCEPT ![t] = "rollback"]
  /\ outcome' = [outcome EXCEPT ![t] = "error"]
  /\ UNCHANGED <<rows, writer, item, saved, reads, saves>>

\* Mutant: the session neither rolls back nor closes.
RollbackRowForgotten(t) ==
  /\ Proceed(t, "rollback", "close")
  /\ UNCHANGED <<rows, writer, item, outcome, saved, reads, saves>>

\* with connection: an exception rolls back.
RollbackRow(t) ==
  /\ Proceed(t, "rollback", "close")
  /\ writer' = IF writer = t THEN NoThread ELSE writer
  /\ UNCHANGED <<rows, item, outcome, saved, reads, saves>>

\* The connection is closed; the save returns or raises.
CloseSave(t) ==
  /\ Proceed(t, "close", "idle")
  /\ saved' = saved \cup (IF outcome[t] = "saved" THEN {item[t]} ELSE {})
  /\ item' = [item EXCEPT ![t] = NoItem]
  /\ outcome' = [outcome EXCEPT ![t] = "error"]
  /\ UNCHANGED <<rows, writer, reads, saves>>

SaveStep(t) ==
  \/ Look(t) \/ InsertRow(t) \/ InsertTimeout(t) \/ CommitRow(t)
  \/ RollbackRow(t) \/ CloseSave(t)

\* What a SELECT finds: the rows by their sequence.
Selected(r, part) ==
  [n \in {k \in DOMAIN rows :
            rows[k].run = r /\ (rows[k].subject = "context" <=> part = "context")}
     |-> rows[n]]

\* StoredRunRecord's only comparison.
Intact(row) == row.payload = row.digest

\* records(run_id) and load_context(run_id): one SELECT, and the payload of every
\* row read is compared with its digest; a mismatch raises.  Nothing is compared
\* with the trust label: it is handed out as it stands.
Read(r, part) ==
  /\ Len(reads) < MaxReads
  /\ \A row \in Range(Selected(r, part)) : Intact(row)
  /\ reads' = Append(reads, [run |-> r, part |-> part, rows |-> Selected(r, part)])
  /\ UNCHANGED <<rows, writer, saving, item, outcome, saved, saves>>

\* Somebody edits the payload of a row in the file, and not its digest.
EditPayload(n, p) ==
  /\ n \in DOMAIN rows
  /\ rows' = [rows EXCEPT ![n].payload = p]
  /\ UNCHANGED <<writer, saving, item, outcome, saved, reads, saves>>

\* Somebody edits the trust label of a record.
EditLabel(n, l) ==
  /\ n \in DOMAIN rows
  /\ rows[n].subject # "context"
  /\ rows' = [rows EXCEPT ![n].label = l]
  /\ UNCHANGED <<writer, saving, item, outcome, saved, reads, saves>>
=============================================================================
