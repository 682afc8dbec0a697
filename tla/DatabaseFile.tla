---------------------------- MODULE DatabaseFile ----------------------------
(***************************************************************************)
(* One database file (persistence.py) under several controller processes:  *)
(* their threads consume receipts (SQLiteReceiptUseStore) and save records *)
(* (SQLiteRunStore), two different transactions that compete for the one   *)
(* write lock of the file.                                                 *)
(***************************************************************************)
EXTENDS SQLiteUseStore, Sequences, SequencesExt, FiniteSets

CONSTANTS Runs, Subjects, Labels, Payloads, Items, MaxSaves, MaxReads

VARIABLES rows, saving, item, outcome, saved, reads, saves

Store == INSTANCE RunStore

ASSUME SavedItems == Items \subseteq Store!Item

storeVars == <<rows, saving, item, outcome, saved, reads, saves>>
useVars == <<receiptUses, staged, pc, request, answer, acceptedIds, calls>>
fileVars == <<vars, storeVars>>

FileInit == Init /\ Store!StoreInit

\* A thread is in one call at a time.
Consume(t, r) ==
  /\ saving[t] = "idle"
  /\ Call(t, r)
  /\ UNCHANGED storeVars

Save(t, i) ==
  /\ pc[t] = "idle"
  /\ Store!CallSave(t, i)
  /\ UNCHANGED <<useVars, faults>>

FileStep(t) ==
  \/ Step(t) /\ UNCHANGED storeVars
  \/ Store!SaveStep(t) /\ UNCHANGED <<useVars, faults>>

Fault ==
  /\ faults < MaxFaults
  /\ faults' = faults + 1
  /\ UNCHANGED useVars

FileFails(t) ==
  \/ StatementFails(t) /\ UNCHANGED storeVars
  \/ Store!SaveFails(t) /\ Fault

\* A controller process dies: all its calls do, the open transaction too.
FileCrash(p) ==
  /\ Crash(p)
  /\ saving' = [t \in Threads |-> IF ProcessOf[t] = p THEN "idle" ELSE saving[t]]
  /\ item' = [t \in Threads |-> IF ProcessOf[t] = p THEN Store!NoItem ELSE item[t]]
  /\ outcome' = [t \in Threads |-> IF ProcessOf[t] = p THEN "error" ELSE outcome[t]]
  /\ UNCHANGED <<rows, saved, reads, saves>>

FileNext ==
  \/ \E t \in Threads :
       \/ \E r \in Receipt : Consume(t, r)
       \/ \E i \in Items : Save(t, i)
       \/ FileStep(t) \/ FileFails(t)
  \/ \E r \in Runs, part \in {"context", "records"} :
       Store!Read(r, part) /\ UNCHANGED <<useVars, faults>>
  \/ \E n \in 1..MaxSaves :
       \/ \E p \in Payloads : Store!EditPayload(n, p) /\ Fault
       \/ \E l \in Labels : Store!EditLabel(n, l) /\ Fault
  \/ \E p \in Processes : FileCrash(p)

\* As in SQLiteUseStore: a thread inside a call keeps running.
FileSpec == FileInit /\ [][FileNext]_fileVars /\ \A t \in Threads : WF_fileVars(FileStep(t))

-----------------------------------------------------------------------------
(* Properties *)

\* What a caller was told is saved is on disk, once, and stays: under its own
\* subject and with its own digest, whoever else saved the same subject at the
\* same time, failed or died; and its run's context is there too.
SavedIsDurable ==
  \A i \in saved :
    /\ {row.digest : row \in Store!Existing(i)} = {i.payload}
    /\ Cardinality({n \in DOMAIN rows : rows[n].run = i.run /\ rows[n].subject = i.subject}) = 1
    /\ Store!RunKnown(i)

\* What was read of a run stays its history: every read is a beginning of what
\* was saved, in the order of saving, and its payloads are those that were saved,
\* whatever payload somebody edited in the file.  The trust label is left out:
\* StoredRunRecord compares the payload with its digest and nothing with the label.
ReadsAgree ==
  \A n \in DOMAIN reads :
    LET was == reads[n].rows
        now == Store!Selected(reads[n].run, reads[n].part)
    IN  /\ DOMAIN was \subseteq DOMAIN now
        /\ \A k \in DOMAIN was :
             was[k] = [now[k] EXCEPT !.payload = now[k].digest, !.label = was[k].label]
        /\ \A k \in DOMAIN now \ DOMAIN was, j \in DOMAIN was : j < k

\* Consumers and savers alike give the file's write lock back.
LockReleases == (writer # NoThread) ~> (writer = NoThread)
=============================================================================
