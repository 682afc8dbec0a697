------------------------- MODULE DatabaseFileProofs -------------------------
(* The database file, for every set of threads, processes, receipts and     *)
(* records and any number of calls, failures and crashes (the bounds are    *)
(* arbitrary naturals): its receipt table implements ReceiptUse, alone and  *)
(* beside the savers of records, and what was saved is durable.             *)
EXTENDS DatabaseFile, FiniteSetTheorems, TLAPS

-----------------------------------------------------------------------------
(* The table receipt_uses alone *)

\* Every step preserves the types.
LEMMA TypeStep == TypeOK /\ [Next]_vars => TypeOK'
<1> SUFFICES ASSUME TypeOK, [Next]_vars PROVE TypeOK'
  OBVIOUS
<1> USE SQLiteConstants DEF TypeOK, Receipt, GoTo
<1>1. ASSUME NEW t \in Threads, NEW r \in Receipt, Call(t, r) PROVE TypeOK'
  BY <1>1 DEF Call
<1>2. ASSUME NEW t \in Threads, Step(t) PROVE TypeOK'
  <2>1. CASE BeginImmediate(t) BY <2>1 DEF BeginImmediate
  <2>2. CASE BusyTimeout(t) BY <2>2 DEF BusyTimeout
  <2>3. CASE Select(t) BY <2>3 DEF Select
  <2>4. CASE Insert(t) BY <2>4 DEF Insert
  <2>5. CASE Commit(t) BY <2>5 DEF Commit
  <2>6. CASE Rollback(t) BY <2>6 DEF Rollback
  <2>7. CASE Return(t) BY <2>7 DEF Return
  <2> QED BY <1>2, <2>1, <2>2, <2>3, <2>4, <2>5, <2>6, <2>7 DEF Step
<1>3. ASSUME NEW t \in Threads, StatementFails(t) PROVE TypeOK'
  BY <1>3 DEF StatementFails
<1>4. ASSUME NEW p \in Processes, Crash(p) PROVE TypeOK'
  BY <1>4 DEF Crash
<1>5. CASE UNCHANGED vars
  BY <1>5 DEF vars
<1> QED
  BY <1>1, <1>2, <1>3, <1>4, <1>5 DEF Next

InTransaction == {"select", "insert", "commit"}

\* A thread between BEGIN and COMMIT is the writer, and what it sees is what
\* is committed, up to the row it inserted itself: nobody else can have
\* committed a row for its receipt since its SELECT.
TransactionIsolated ==
  \A t \in Threads :
    /\ pc[t] \in InTransaction => writer = t
    /\ pc[t] \in {"select", "insert"} => staged = receiptUses
    /\ pc[t] \in {"insert", "commit"} => receiptUses[request[t].id] = Unused
    /\ pc[t] = "commit" =>
         staged = [receiptUses EXCEPT ![request[t].id] = request[t].digest]

IInv == TypeOK /\ TransactionIsolated

LEMMA IInvInit == Init => IInv
BY SQLiteConstants DEF Init, IInv, TypeOK, TransactionIsolated, InTransaction

\* Every step preserves the isolation of transactions.
LEMMA IInvStep == IInv /\ [Next]_vars => IInv'
<1> SUFFICES ASSUME IInv, [Next]_vars PROVE TransactionIsolated'
  BY TypeStep DEF IInv
<1> USE SQLiteConstants DEF IInv, TransactionIsolated, InTransaction, TypeOK, Receipt, GoTo
<1>1. ASSUME NEW t \in Threads, NEW r \in Receipt, Call(t, r) PROVE TransactionIsolated'
  BY <1>1 DEF Call
<1>2. ASSUME NEW t \in Threads, Step(t) PROVE TransactionIsolated'
  <2>1. CASE BeginImmediate(t) BY <2>1 DEF BeginImmediate
  <2>2. CASE BusyTimeout(t) BY <2>2 DEF BusyTimeout
  <2>3. CASE Select(t) BY <2>3 DEF Select
  <2>4. CASE Insert(t) BY <2>4 DEF Insert
  <2>5. CASE Commit(t) BY <2>5 DEF Commit
  <2>6. CASE Rollback(t) BY <2>6 DEF Rollback
  <2>7. CASE Return(t) BY <2>7 DEF Return
  <2> QED BY <1>2, <2>1, <2>2, <2>3, <2>4, <2>5, <2>6, <2>7 DEF Step
<1>3. ASSUME NEW t \in Threads, StatementFails(t) PROVE TransactionIsolated'
  BY <1>3 DEF StatementFails
<1>4. ASSUME NEW p \in Processes, Crash(p) PROVE TransactionIsolated'
  BY <1>4 DEF Crash
<1>5. CASE UNCHANGED vars
  BY <1>5 DEF vars
<1> QED
  BY <1>1, <1>2, <1>3, <1>4, <1>5 DEF Next

\* Every step of consume is a step of the abstract registry or changes
\* nothing its callers can see.
LEMMA StepSimulation == IInv /\ [Next]_vars => [Abstract!Next]_(Abstract!vars)
<1> SUFFICES ASSUME IInv, [Next]_vars PROVE [Abstract!Next]_(Abstract!vars)
  OBVIOUS
<1> USE SQLiteConstants DEF IInv, TypeOK, GoTo, PhaseOf, Abstract!vars, Abstract!Receipt, Receipt
<1>1. ASSUME NEW t \in Threads, NEW r \in Receipt, Call(t, r)
      PROVE  Abstract!Request(t, r)
  BY <1>1 DEF Call, Abstract!Request
<1>2. ASSUME NEW t \in Threads, Step(t)
      PROVE  \/ Abstract!TakeEffect(t) \/ Abstract!Fail(t) \/ Abstract!Return(t)
             \/ UNCHANGED Abstract!vars
  <2>1. CASE BeginImmediate(t)
    BY <2>1 DEF BeginImmediate
  <2>2. CASE BusyTimeout(t)
    BY <2>2 DEF BusyTimeout, Abstract!Fail
  <2>3. CASE Select(t) /\ pc'[t] = "insert"
    BY <2>3 DEF Select
  <2>4. CASE Select(t) /\ pc'[t] = "rollback"
    BY <2>4 DEF Select, TransactionIsolated, InTransaction, Abstract!TakeEffect, Abstract!AnswerFor
  <2>5. CASE Insert(t)
    BY <2>5 DEF Insert
  <2>6. CASE Commit(t)
    BY <2>6 DEF Commit, TransactionIsolated, Abstract!TakeEffect, Abstract!AnswerFor
  <2>7. CASE Rollback(t)
    BY <2>7 DEF Rollback
  <2>8. CASE Return(t)
    BY <2>8 DEF Return, Abstract!Return
  <2>9. Select(t) => pc'[t] \in {"insert", "rollback"}
    BY DEF Select
  <2> QED BY <1>2, <2>1, <2>2, <2>3, <2>4, <2>5, <2>6, <2>7, <2>8, <2>9 DEF Step
<1>3. ASSUME NEW t \in Threads, StatementFails(t) PROVE Abstract!Fail(t)
  BY <1>3 DEF StatementFails, Abstract!Fail
<1>4. ASSUME NEW p \in Processes, Crash(p)
      PROVE  Abstract!Crash({t \in Threads : ProcessOf[t] = p})
  BY <1>4 DEF Crash, Abstract!Crash
<1>5. CASE UNCHANGED vars
  BY <1>5 DEF vars
<1> QED
  BY <1>1, <1>2, <1>3, <1>4, <1>5 DEF Next, Abstract!Next

\* The transactional table is an atomic single-use registry.
THEOREM Refinement == Spec => ImplementsReceiptUse
<1>1. Init => Abstract!Init
  BY DEF Init, Abstract!Init, PhaseOf, Receipt, Abstract!Receipt
<1> QED
  BY <1>1, IInvInit, IInvStep, StepSimulation, PTL
     DEF Spec, ImplementsReceiptUse, Abstract!Spec

Registry == INSTANCE ReceiptUseProofs WITH
  used  <- receiptUses,
  phase <- [t \in Threads |-> PhaseOf(pc[t])]

LEMMA RegistryInit == Init => Registry!IInv
<1>1. Init => Registry!Init
  BY DEF Init, Registry!Init, PhaseOf, Receipt, Registry!Receipt
<1> QED BY <1>1, Registry!IInvInit, SQLiteConstants

LEMMA RegistryStep == Registry!IInv /\ [Abstract!Next]_(Abstract!vars) => Registry!IInv'
<1>1. [Abstract!Next]_(Abstract!vars) => [Registry!Next]_(Registry!vars)
  BY DEF Abstract!Next, Registry!Next, Abstract!vars, Registry!vars,
         Abstract!Receipt, Registry!Receipt,
         Abstract!Request, Registry!Request, Abstract!Fail, Registry!Fail,
         Abstract!TakeEffect, Registry!TakeEffect,
         Abstract!AnswerFor, Registry!AnswerFor,
         Abstract!Return, Registry!Return, Abstract!Crash, Registry!Crash
<1> QED BY <1>1, Registry!IInvStep, SQLiteConstants

LEMMA RegistrySingleUse == Registry!IInv => SingleUse
BY DEF Registry!IInv, Registry!SingleUse, Registry!Holds,
       SingleUse, Abstract!SingleUse, Abstract!Holds

\* Across processes, failures and crashes, one receipt id is accepted for at
\* most one call: inherited from ReceiptUse through the refinement.
THEOREM SingleUseHolds == Spec => []SingleUse
BY RegistryInit, RegistryStep, RegistrySingleUse, IInvInit, IInvStep, StepSimulation, PTL
   DEF Spec

-----------------------------------------------------------------------------
(* Consumers and savers on one file *)

\* A thread is in one call at a time, and a saver between INSERT and COMMIT is
\* the file's writer.
OneCall ==
  /\ saving \in [Threads -> {"idle", "look", "insert", "commit", "rollback", "close"}]
  /\ \A t \in Threads :
       /\ saving[t] # "idle" => pc[t] = "idle"
       /\ saving[t] = "commit" => writer = t

\* What a step of a saver can do to the table receipt_uses: nothing, except
\* taking the write lock when it is free and giving back its own.
SaverStep(t) ==
  /\ Store!SaveStep(t) \/ Store!SaveFails(t) \/ \E i \in Items : Save(t, i)
  /\ UNCHANGED useVars
  /\ faults' \in {faults, faults + 1} /\ (faults' # faults => faults < MaxFaults)

UseMoves ==
  \/ \E t \in Threads, r \in Receipt : Call(t, r) /\ saving[t] = "idle" /\ UNCHANGED storeVars
  \/ \E t \in Threads : (Step(t) \/ StatementFails(t)) /\ UNCHANGED storeVars
  \/ \E p \in Processes : FileCrash(p)

FileStays ==
  /\ UNCHANGED <<useVars, writer, saving, item, outcome, saved>>
  /\ faults' \in {faults, faults + 1} /\ (faults' # faults => faults < MaxFaults)
  /\ \/ rows' = rows
     \/ \E n \in DOMAIN rows, p \in Payloads : rows' = [rows EXCEPT ![n].payload = p]
     \/ \E n \in DOMAIN rows, l \in Labels : rows' = [rows EXCEPT ![n].label = l]

\* A step of the file is a step of the table's own, of a saver, or of a reader
\* or somebody who edits the file.
LEMMA FileSteps ==
  ASSUME [FileNext]_fileVars
  PROVE  UseMoves \/ (\E t \in Threads : SaverStep(t)) \/ FileStays
<1>1. CASE UNCHANGED fileVars
  BY <1>1 DEF fileVars, vars, storeVars, useVars, FileStays
<1>2. ASSUME NEW t \in Threads, NEW r \in Receipt, Consume(t, r) PROVE UseMoves
  BY <1>2 DEF Consume, UseMoves
<1>3. ASSUME NEW t \in Threads, NEW i \in Items, Save(t, i) PROVE SaverStep(t)
  BY <1>3 DEF Save, SaverStep
<1>4. ASSUME NEW t \in Threads, FileStep(t) PROVE UseMoves \/ SaverStep(t)
  BY <1>4 DEF FileStep, UseMoves, SaverStep
<1>5. ASSUME NEW t \in Threads, FileFails(t) PROVE UseMoves \/ SaverStep(t)
  BY <1>5 DEF FileFails, Fault, UseMoves, SaverStep
<1>6. ASSUME NEW r \in Runs, NEW part, Store!Read(r, part), UNCHANGED <<useVars, faults>>
      PROVE  FileStays
  BY <1>6 DEF Store!Read, FileStays
<1>7. ASSUME NEW n, NEW p \in Payloads, Store!EditPayload(n, p), Fault PROVE FileStays
  BY <1>7 DEF Store!EditPayload, Fault, FileStays
<1>9. ASSUME NEW n, NEW l \in Labels, Store!EditLabel(n, l), Fault PROVE FileStays
  BY <1>9 DEF Store!EditLabel, Fault, FileStays
<1>8. ASSUME NEW p \in Processes, FileCrash(p) PROVE UseMoves
  BY <1>8 DEF UseMoves
<1> QED BY <1>1, <1>2, <1>3, <1>4, <1>5, <1>6, <1>7, <1>8, <1>9 DEF FileNext

LEMMA UseMovesNext == UseMoves => Next
BY DEF UseMoves, FileCrash, Next

\* A saver's step, as the consumers see it.
LEMMA SaverSeen ==
  ASSUME OneCall, NEW t \in Threads, SaverStep(t)
  PROVE  /\ pc[t] = "idle"
         /\ \/ writer' = writer
            \/ writer = NoThread /\ writer' = t
            \/ writer = t /\ writer' = NoThread
BY DEF OneCall, SaverStep, Save, Store!SaveStep, Store!SaveFails, Store!CallSave, Store!Look,
       Store!InsertRow, Store!InsertTimeout, Store!CommitRow, Store!RollbackRow,
       Store!CloseSave, Store!Proceed

\* The transactions of consume stay isolated beside the savers.
LEMMA FileIsolates == IInv /\ OneCall /\ [FileNext]_fileVars => IInv'
<1> SUFFICES ASSUME IInv, OneCall, [FileNext]_fileVars PROVE IInv'
  OBVIOUS
<1>1. CASE UseMoves
  BY <1>1, UseMovesNext, IInvStep
<1>2. ASSUME UNCHANGED useVars, faults' \in {faults, faults + 1},
             faults' # faults => faults < MaxFaults, writer' \in Threads \cup {NoThread},
             \A t \in Threads : pc[t] \in InTransaction => writer' = t
      PROVE  IInv'
  BY <1>2, SQLiteConstants DEF useVars, IInv, TypeOK, TransactionIsolated
<1>3. ASSUME NEW t \in Threads, SaverStep(t) PROVE IInv'
  <2>1. \A u \in Threads : pc[u] \in InTransaction => writer = u /\ u # t
    BY <1>3, SaverSeen DEF IInv, TransactionIsolated, InTransaction
  <2>2. writer \in Threads \cup {NoThread} /\ NoThread \notin Threads
    BY SQLiteConstants DEF IInv, TypeOK
  <2> QED BY <1>2, <1>3, <2>1, <2>2, SaverSeen DEF SaverStep
<1>4. CASE FileStays
  BY <1>2, <1>4 DEF FileStays, IInv, TypeOK, TransactionIsolated
<1> QED BY <1>1, <1>3, <1>4, FileSteps

LEMMA OneCallStep == IInv /\ OneCall /\ [FileNext]_fileVars => OneCall'
<1> SUFFICES ASSUME IInv, OneCall, [FileNext]_fileVars PROVE OneCall'
  OBVIOUS
<1> USE SQLiteConstants DEF OneCall, GoTo, Store!Proceed
<1>1. ASSUME NEW t \in Threads, NEW r \in Receipt, Call(t, r), saving[t] = "idle",
             UNCHANGED storeVars
      PROVE  OneCall'
  BY <1>1 DEF Call, storeVars, IInv, TypeOK
<1>2. ASSUME NEW t \in Threads, Step(t) \/ StatementFails(t), UNCHANGED storeVars PROVE OneCall'
  <2>1. /\ pc[t] # "idle" /\ \A u \in Threads \ {t} : pc'[u] = pc[u]
        /\ writer' = writer \/ writer = NoThread \/ writer = t
    BY <1>2 DEF Step, StatementFails, BeginImmediate, BusyTimeout, Select, Insert, Commit,
       Rollback, Return, IInv, TypeOK, TransactionIsolated, InTransaction
  <2> QED BY <1>2, <2>1 DEF storeVars
<1>3. ASSUME NEW p \in Processes, FileCrash(p) PROVE OneCall'
  BY <1>3 DEF FileCrash, Crash, IInv, TypeOK
<1>4. ASSUME NEW t \in Threads, SaverStep(t) PROVE OneCall'
  <2>0. UNCHANGED pc
    BY <1>4 DEF SaverStep, useVars
  <2>1. CASE \E i \in Items : Save(t, i)
    BY <2>0, <2>1 DEF Save, Store!CallSave
  <2>2. CASE Store!Look(t) BY <2>0, <2>2 DEF Store!Look
  <2>3. CASE Store!InsertRow(t) BY <2>0, <2>3 DEF Store!InsertRow
  <2>4. CASE Store!InsertTimeout(t) BY <2>0, <2>4 DEF Store!InsertTimeout
  <2>5. CASE Store!CommitRow(t) BY <2>0, <2>5 DEF Store!CommitRow
  <2>6. CASE Store!RollbackRow(t) BY <2>0, <2>6 DEF Store!RollbackRow
  <2>7. CASE Store!CloseSave(t) BY <2>0, <2>7 DEF Store!CloseSave
  <2>8. CASE Store!SaveFails(t) BY <2>0, <2>8 DEF Store!SaveFails
  <2> QED BY <1>4, <2>1, <2>2, <2>3, <2>4, <2>5, <2>6, <2>7, <2>8 DEF SaverStep, Store!SaveStep
<1>5. CASE FileStays
  BY <1>5 DEF FileStays, useVars
<1> QED BY <1>1, <1>2, <1>3, <1>4, <1>5, FileSteps DEF UseMoves

LEMMA FileSimulation == IInv /\ [FileNext]_fileVars => [Abstract!Next]_(Abstract!vars)
<1> SUFFICES ASSUME IInv, [FileNext]_fileVars PROVE [Abstract!Next]_(Abstract!vars)
  OBVIOUS
<1>1. ASSUME UNCHANGED useVars PROVE UNCHANGED Abstract!vars
  BY <1>1 DEF useVars, Abstract!vars
<1> QED BY <1>1, FileSteps, UseMovesNext, StepSimulation DEF SaverStep, FileStays

\* Beside the savers, who compete for the same write lock, the table is still
\* an atomic single-use registry.
THEOREM FileRefinement == FileSpec => ImplementsReceiptUse
<1>1. FileInit => Abstract!Init /\ IInv /\ OneCall
  BY IInvInit DEF FileInit, Init, Abstract!Init, PhaseOf, Receipt, Abstract!Receipt, OneCall,
     Store!StoreInit
<1> QED
  BY <1>1, FileIsolates, OneCallStep, FileSimulation, PTL
     DEF FileSpec, ImplementsReceiptUse, Abstract!Spec

\* Beside the savers too, one receipt id is accepted for at most one call.
THEOREM FileSingleUseHolds == FileSpec => []SingleUse
<1>1. FileInit => Registry!IInv /\ IInv /\ OneCall
  BY RegistryInit, IInvInit DEF FileInit, OneCall, Store!StoreInit
<1> QED
  BY <1>1, RegistryStep, RegistrySingleUse, FileIsolates, OneCallStep, FileSimulation, PTL
     DEF FileSpec

-----------------------------------------------------------------------------
(* Saved records *)

Row == [run : Runs, subject : Subjects \cup {"context"}, label : Labels \cup {"none"},
        payload : Payloads, digest : Payloads]

Keyed(row, i) == row.run = i.run /\ row.subject = i.subject

OnFile(i) == \E n \in DOMAIN rows : Keyed(rows[n], i) /\ rows[n].digest = i.payload

HasContext(i) == \E n \in DOMAIN rows : rows[n].run = i.run /\ rows[n].subject = "context"

\* The tables' keys: one row for a subject of a run, none without its run.
RowsSound ==
  /\ rows \in Seq(Row)
  /\ \A m, n \in DOMAIN rows : Keyed(rows[m], rows[n]) => m = n
  /\ \A n \in DOMAIN rows : HasContext(rows[n])

\* What the INSERT checked still holds when its transaction commits, and a save
\* that will return, or did, has its row.
SaverSound(t) ==
  /\ saving[t] # "idle" => item[t] \in Store!Item
  /\ saving[t] = "commit" =>
       /\ \A n \in DOMAIN rows : ~Keyed(rows[n], item[t])
       /\ item[t].subject = "context" \/ HasContext(item[t])
  /\ outcome[t] = "saved" => saving[t] = "close" /\ OnFile(item[t])

SaversSound ==
  /\ item \in [Threads -> Store!Item \cup {Store!NoItem}]
  /\ outcome \in [Threads -> {"error", "saved", "conflict", "integrity"}]
  /\ \A t \in Threads : SaverSound(t)
  /\ \A i \in saved : i \in Store!Item /\ OnFile(i)

LEMMA KeyIsTaken ==
  ASSUME NEW i \in Store!Item
  PROVE  /\ Store!Existing(i) = {} => \A n \in DOMAIN rows : ~Keyed(rows[n], i)
         /\ Store!RunKnown(i) => i.subject = "context" \/ HasContext(i)
         /\ Store!RowOf(i) \in Store!Existing(i) => OnFile(i)
<1>1. Store!Existing(i) = {} => \A n \in DOMAIN rows : ~Keyed(rows[n], i)
  BY DEF Store!Existing, Store!Range, Keyed
<1>2. Store!RunKnown(i) => i.subject = "context" \/ HasContext(i)
  <2>1. [i EXCEPT !.subject = "context"].run = i.run /\ [i EXCEPT !.subject = "context"].subject = "context"
    BY DEF Store!Item
  <2> QED BY <2>1 DEF Store!RunKnown, Store!Existing, Store!Range, HasContext
<1>3. Store!RowOf(i) \in Store!Existing(i) => OnFile(i)
  BY DEF Store!RowOf, Store!Existing, Store!Range, OnFile, Keyed
<1> QED BY <1>1, <1>2, <1>3

\* The rows there were keep their place, their key and their digest.
RowsStay ==
  \A n \in DOMAIN rows :
    /\ n \in DOMAIN rows'
    /\ rows'[n].run = rows[n].run /\ rows'[n].subject = rows[n].subject
    /\ rows'[n].digest = rows[n].digest

LEMMA CommitAddsRow ==
  ASSUME RowsSound, SaversSound, NEW t \in Threads, Store!CommitRow(t)
  PROVE  /\ RowsSound' /\ RowsStay
         /\ \A n \in DOMAIN rows' : n \in DOMAIN rows \/ rows'[n] = Store!RowOf(item[t])
         /\ \E n \in DOMAIN rows' : rows'[n] = Store!RowOf(item[t])
<1> DEFINE row == Store!RowOf(item[t])
<1>1. /\ item[t] \in Store!Item /\ \A n \in DOMAIN rows : ~Keyed(rows[n], item[t])
      /\ item[t].subject = "context" \/ HasContext(item[t])
      /\ rows' = Append(rows, row)
  BY DEF SaversSound, SaverSound, Store!CommitRow, Store!Proceed
<1>2. row \in Row /\ Keyed(row, item[t]) /\ row.digest = item[t].payload
  BY <1>1 DEF Store!RowOf, Row, Store!Item, Keyed
<1> HIDE DEF row
<1>3. /\ rows' \in Seq(Row) /\ Len(rows) \in Nat /\ DOMAIN rows = 1..Len(rows)
      /\ DOMAIN rows' = 1..(Len(rows) + 1) /\ rows'[Len(rows) + 1] = row
      /\ \A n \in 1..Len(rows) : rows'[n] = rows[n]
  BY <1>1, <1>2 DEF RowsSound
<1>4. \A n \in DOMAIN rows' : n \in DOMAIN rows \/ n = Len(rows) + 1
  BY <1>3
<1>5. RowsStay
  BY <1>3 DEF RowsStay
<1>6. ASSUME NEW m \in DOMAIN rows', NEW n \in DOMAIN rows', Keyed(rows'[m], rows'[n])
      PROVE  m = n
  BY <1>1, <1>2, <1>3, <1>4, <1>6 DEF RowsSound, Keyed
<1>7. ASSUME NEW n \in DOMAIN rows'
      PROVE  \E m \in DOMAIN rows' : rows'[m].run = rows'[n].run /\ rows'[m].subject = "context"
  <2>1. CASE n \in DOMAIN rows
    BY <1>3, <2>1 DEF RowsSound, HasContext
  <2>2. CASE n = Len(rows) + 1 /\ item[t].subject = "context"
    BY <1>2, <1>3, <2>2 DEF Keyed
  <2>3. CASE n = Len(rows) + 1 /\ HasContext(item[t])
    BY <1>2, <1>3, <2>3 DEF Keyed, HasContext
  <2> QED BY <1>1, <1>4, <1>7, <2>1, <2>2, <2>3
<1>8. RowsSound'
  BY <1>3, <1>6, <1>7 DEF RowsSound, HasContext, Keyed
<1> QED BY <1>3, <1>4, <1>5, <1>8 DEF row

LEMMA EditKeepsRows ==
  ASSUME RowsSound, NEW k \in DOMAIN rows,
         \/ \E p \in Payloads : rows' = [rows EXCEPT ![k].payload = p]
         \/ \E l \in Labels : rows' = [rows EXCEPT ![k].label = l]
  PROVE  RowsSound' /\ RowsStay /\ DOMAIN rows' = DOMAIN rows
<1>1. PICK r : /\ rows' = [rows EXCEPT ![k] = r]
               /\ \/ \E p \in Payloads : r = [rows[k] EXCEPT !.payload = p]
                  \/ \E l \in Labels : r = [rows[k] EXCEPT !.label = l]
  <2>1. ASSUME NEW p \in Payloads, rows' = [rows EXCEPT ![k].payload = p]
        PROVE  \E r : rows' = [rows EXCEPT ![k] = r] /\ r = [rows[k] EXCEPT !.payload = p]
    BY <2>1
  <2>2. ASSUME NEW l \in Labels, rows' = [rows EXCEPT ![k].label = l]
        PROVE  \E r : rows' = [rows EXCEPT ![k] = r] /\ r = [rows[k] EXCEPT !.label = l]
    BY <2>2
  <2> QED BY <2>1, <2>2
<1>2. rows[k] \in Row /\ rows \in Seq(Row)
  BY DEF RowsSound
<1>3. r \in Row /\ r.run = rows[k].run /\ r.subject = rows[k].subject /\ r.digest = rows[k].digest
  BY <1>1, <1>2 DEF Row
<1>4. rows' = [rows EXCEPT ![k] = r]
  BY <1>1
<1>5. rows' \in Seq(Row) /\ DOMAIN rows' = DOMAIN rows
  BY <1>2, <1>3, <1>4
<1>6. RowsStay
  BY <1>2, <1>3, <1>4 DEF RowsStay
<1>7. \A m, n \in DOMAIN rows' : Keyed(rows'[m], rows'[n]) => m = n
  BY <1>5, <1>6 DEF RowsSound, RowsStay, Keyed
<1>8. \A n \in DOMAIN rows' : \E m \in DOMAIN rows' :
        rows'[m].run = rows'[n].run /\ rows'[m].subject = "context"
  BY <1>5, <1>6 DEF RowsSound, RowsStay, HasContext
<1> QED BY <1>5, <1>6, <1>7, <1>8 DEF RowsSound, HasContext, Keyed

LEMMA StaysOnFile ==
  ASSUME RowsStay
  PROVE  \A i : (OnFile(i) => OnFile(i)') /\ (HasContext(i) => HasContext(i)')
BY DEF RowsStay, OnFile, HasContext, Keyed

\* A step that adds no row leaves every other saver as sound as it was.
LEMMA OthersSound ==
  ASSUME RowsStay, DOMAIN rows' = DOMAIN rows, NEW t \in Threads, SaverSound(t),
         saving'[t] = saving[t], item'[t] = item[t], outcome'[t] = outcome[t]
  PROVE  SaverSound(t)'
<1>1. /\ OnFile(item[t]) => OnFile(item[t])'
      /\ HasContext(item[t]) => HasContext(item[t])'
  <2>1. PICK i : i = item[t]
    OBVIOUS
  <2> QED BY <2>1, StaysOnFile DEF OnFile, HasContext, Keyed
<1>2. \A n \in DOMAIN rows : ~Keyed(rows[n], item[t]) => ~Keyed(rows[n], item[t])'
  BY DEF RowsStay, Keyed
<1> QED BY <1>1, <1>2 DEF SaverSound

\* What a saver's step that adds no row changes.
LEMMA SaverProceeds ==
  ASSUME SaversSound, NEW c \in Threads, rows' = rows,
         \A t \in Threads \ {c} : saving'[t] = saving[t],
         item' = [item EXCEPT ![c] = item'[c]], outcome' = [outcome EXCEPT ![c] = outcome'[c]],
         item'[c] \in Store!Item \cup {Store!NoItem},
         outcome'[c] \in {"error", "saved", "conflict", "integrity"},
         SaverSound(c)', \A i \in saved' : i \in Store!Item /\ OnFile(i)
  PROVE  SaversSound'
<1>1. RowsStay /\ DOMAIN rows' = DOMAIN rows /\ \A i : OnFile(i)' <=> OnFile(i)
  BY DEF RowsStay, OnFile, Keyed
<1>2. ASSUME NEW t \in Threads PROVE SaverSound(t)'
  <2>1. CASE t # c
    <3>1. item'[t] = item[t] /\ outcome'[t] = outcome[t] /\ saving'[t] = saving[t]
      BY <2>1 DEF SaversSound
    <3> QED BY <1>1, <3>1, OthersSound DEF SaversSound
  <2> QED BY <2>1
<1> QED BY <1>1, <1>2 DEF SaversSound

LEMMA SaverSoundStep ==
  ASSUME OneCall, RowsSound, SaversSound, NEW c \in Threads, SaverStep(c)
  PROVE  RowsSound' /\ SaversSound'
<1>0. /\ DOMAIN saving = Threads /\ SaverSound(c)
      /\ item = [t \in Threads |-> item[t]] /\ outcome = [t \in Threads |-> outcome[t]]
      /\ item[c] \in Store!Item \cup {Store!NoItem}
      /\ outcome[c] \in {"error", "saved", "conflict", "integrity"}
      /\ \A i \in saved : i \in Store!Item /\ OnFile(i)
  BY DEF OneCall, SaversSound
<1>1. ASSUME rows' = rows PROVE RowsSound' /\ \A i : (OnFile(i)' <=> OnFile(i)) /\ (HasContext(i)' <=> HasContext(i))
  BY <1>1 DEF RowsSound, HasContext, OnFile, Keyed
<1> USE <1>0 DEF Store!Proceed
<1>2. ASSUME NEW i \in Items, Save(c, i) PROVE RowsSound' /\ SaversSound'
  <2>1. rows' = rows /\ saved' = saved /\ item'[c] = i /\ outcome'[c] = outcome[c] /\ saving'[c] = "look"
        /\ saving[c] = "idle" /\ i \in Store!Item
    BY <1>2, SavedItems DEF Save, Store!CallSave
  <2>2. SaverSound(c)'
    BY <2>1 DEF SaverSound
  <2> QED BY <1>1, <1>2, <2>1, <2>2, SaverProceeds DEF Save, Store!CallSave
<1>3. CASE Store!Look(c)
  <2>1. /\ rows' = rows /\ saved' = saved /\ item' = item /\ saving[c] = "look"
        /\ item[c] \in Store!Item /\ outcome[c] # "saved"
        /\ \/ saving'[c] = "insert" /\ outcome' = outcome
           \/ /\ saving'[c] = "close" /\ outcome'[c] \in {"saved", "conflict"}
              /\ outcome'[c] = "saved" => Store!RowOf(item[c]) \in Store!Existing(item[c])
    BY <1>3 DEF Store!Look, SaverSound
  <2>2. outcome'[c] = "saved" => saving'[c] = "close" /\ OnFile(item[c])
    BY <2>1, KeyIsTaken
  <2>3. SaverSound(c)'
    BY <2>1, <2>2 DEF SaverSound, OnFile, Keyed
  <2> QED BY <1>1, <1>3, <2>1, <2>3, SaverProceeds DEF Store!Look
<1>4. CASE Store!InsertRow(c)
  <2>1. /\ rows' = rows /\ saved' = saved /\ item' = item /\ saving[c] = "insert"
        /\ item[c] \in Store!Item /\ outcome[c] # "saved"
        /\ \/ /\ saving'[c] = "commit" /\ outcome' = outcome
              /\ Store!Existing(item[c]) = {} /\ Store!RunKnown(item[c])
           \/ saving'[c] = "rollback" /\ outcome'[c] = "integrity"
    BY <1>4 DEF Store!InsertRow, SaverSound
  <2>2. SaverSound(c)'
    BY <2>1, KeyIsTaken DEF SaverSound, Keyed, HasContext
  <2> QED BY <1>1, <1>4, <2>1, <2>2, SaverProceeds DEF Store!InsertRow
<1>5. CASE Store!InsertTimeout(c) \/ Store!RollbackRow(c) \/ Store!SaveFails(c)
  <2>1. /\ rows' = rows /\ saved' = saved /\ item' = item /\ saving[c] # "idle"
        /\ item[c] \in Store!Item /\ outcome'[c] # "saved" /\ saving'[c] \in {"rollback", "close"}
        /\ outcome' = [outcome EXCEPT ![c] = outcome'[c]]
        /\ outcome'[c] \in {"error", "saved", "conflict", "integrity"}
        /\ \A t \in Threads \ {c} : saving'[t] = saving[t]
    BY <1>5 DEF Store!InsertTimeout, Store!RollbackRow, Store!SaveFails, SaverSound
  <2>2. SaverSound(c)'
    BY <2>1 DEF SaverSound
  <2> QED BY <1>1, <2>1, <2>2, SaverProceeds
<1>6. CASE Store!CloseSave(c)
  <2>1. /\ rows' = rows /\ saving[c] = "close" /\ saving'[c] = "idle" /\ outcome'[c] = "error"
        /\ item'[c] = Store!NoItem
        /\ saved' = saved \cup (IF outcome[c] = "saved" THEN {item[c]} ELSE {})
    BY <1>6 DEF Store!CloseSave
  <2>2. SaverSound(c)'
    BY <2>1 DEF SaverSound
  <2>3. \A i \in saved' : i \in Store!Item /\ OnFile(i)
    BY <2>1 DEF SaverSound
  <2> QED BY <1>1, <1>6, <2>1, <2>2, <2>3, SaverProceeds DEF Store!CloseSave
<1>7. CASE Store!CommitRow(c)
  <2>1. /\ saved' = saved /\ item' = item /\ saving[c] = "commit" /\ saving'[c] = "close"
        /\ outcome' = [outcome EXCEPT ![c] = "saved"] /\ item[c] \in Store!Item
        /\ \A t \in Threads \ {c} : saving'[t] = saving[t] /\ saving[t] # "commit"
    BY <1>7 DEF Store!CommitRow, SaverSound, OneCall
  <2>2. RowsSound' /\ RowsStay /\ \E n \in DOMAIN rows' : rows'[n] = Store!RowOf(item[c])
    BY <1>7, CommitAddsRow
  <2>3. \A i : OnFile(i) => OnFile(i)'
    BY <2>2, StaysOnFile
  <2>4. OnFile(item[c])'
    BY <2>1, <2>2 DEF OnFile, Keyed, Store!RowOf
  <2>5. ASSUME NEW t \in Threads PROVE SaverSound(t)'
    <3>1. CASE t = c
      BY <2>1, <2>4, <3>1 DEF SaverSound
    <3>2. CASE t # c
      <4>1. PICK i : i = item[t]
        OBVIOUS
      <4>2. outcome'[t] = outcome[t] /\ saving'[t] = saving[t] /\ saving[t] # "commit" /\ SaverSound(t)
        BY <2>1, <3>2 DEF SaversSound
      <4>3. OnFile(item[t]) => OnFile(item[t])'
        BY <2>1, <2>3, <4>1 DEF OnFile, Keyed
      <4> QED BY <2>1, <4>2, <4>3 DEF SaverSound
    <3> QED BY <3>1, <3>2
  <2> QED BY <2>1, <2>2, <2>3, <2>5 DEF SaversSound
<1> QED BY <1>2, <1>3, <1>4, <1>5, <1>6, <1>7 DEF SaverStep, Store!SaveStep

LEMMA FileSoundStep ==
  OneCall /\ RowsSound /\ SaversSound /\ [FileNext]_fileVars => RowsSound' /\ SaversSound'
<1> SUFFICES ASSUME OneCall, RowsSound, SaversSound, [FileNext]_fileVars
             PROVE  RowsSound' /\ SaversSound'
  OBVIOUS
<1>1. ASSUME RowsStay, DOMAIN rows' = DOMAIN rows, UNCHANGED <<saving, item, outcome, saved>>
      PROVE  SaversSound'
  BY <1>1, OthersSound, StaysOnFile DEF SaversSound
<1>2. ASSUME rows' = rows
      PROVE  RowsSound' /\ RowsStay /\ \A i : OnFile(i) => OnFile(i)'
  BY <1>2 DEF RowsSound, RowsStay, HasContext, OnFile, Keyed
<1>3. CASE UNCHANGED storeVars
  BY <1>1, <1>2, <1>3 DEF storeVars
<1>4. ASSUME NEW p \in Processes, FileCrash(p) PROVE RowsSound' /\ SaversSound'
  <2>1. rows' = rows /\ saved' = saved
    BY <1>4 DEF FileCrash
  <2>2. ASSUME NEW t \in Threads PROVE SaverSound(t)'
    <3>1. CASE ProcessOf[t] = p
      BY <1>4, <3>1 DEF FileCrash, SaverSound
    <3>2. CASE ProcessOf[t] # p
      BY <1>2, <1>4, <2>1, <3>2, OthersSound DEF FileCrash, SaversSound
    <3> QED BY <3>1, <3>2
  <2>3. /\ item' \in [Threads -> Store!Item \cup {Store!NoItem}]
        /\ outcome' \in [Threads -> {"error", "saved", "conflict", "integrity"}]
    BY <1>4 DEF FileCrash, SaversSound
  <2> QED BY <1>2, <2>1, <2>2, <2>3 DEF SaversSound
<1>5. CASE FileStays
  <2>1. RowsSound' /\ RowsStay /\ DOMAIN rows' = DOMAIN rows
    BY <1>2, <1>5, EditKeepsRows DEF FileStays
  <2> QED BY <1>1, <1>5, <2>1 DEF FileStays
<1> QED BY <1>3, <1>4, <1>5, FileSteps, SaverSoundStep DEF UseMoves

\* What a caller was told is saved stays on file, once, under its own subject
\* and with its own digest, whoever saves the same subject at the same time,
\* fails or dies: only the tables' keys decide (SQLiteRunStore.save_context and
\* _append), and the transaction that checked them commits before another
\* writes.
THEOREM SavedIsDurableHolds == FileSpec => []SavedIsDurable
<1>1. FileInit => IInv /\ OneCall /\ RowsSound /\ SaversSound
  BY IInvInit DEF FileInit, OneCall, Store!StoreInit, RowsSound, SaversSound, SaverSound
<1>2. ASSUME RowsSound, SaversSound PROVE SavedIsDurable
  <2> SUFFICES ASSUME NEW i \in saved
               PROVE  /\ {row.digest : row \in Store!Existing(i)} = {i.payload}
                      /\ Cardinality({n \in DOMAIN rows : rows[n].run = i.run
                                                          /\ rows[n].subject = i.subject}) = 1
                      /\ Store!RunKnown(i)
    BY DEF SavedIsDurable
  <2>1. i \in Store!Item
    BY <1>2 DEF SaversSound
  <2>2. PICK n \in DOMAIN rows : Keyed(rows[n], i) /\ rows[n].digest = i.payload
    BY <1>2 DEF SaversSound, OnFile
  <2>3. \A m \in DOMAIN rows : Keyed(rows[m], i) => m = n
    BY <1>2, <2>2 DEF RowsSound, Keyed
  <2>4. Store!Existing(i) = {rows[n]}
    BY <2>2, <2>3 DEF Store!Existing, Store!Range, Keyed
  <2>5. {m \in DOMAIN rows : rows[m].run = i.run /\ rows[m].subject = i.subject} = {n}
    BY <2>2, <2>3 DEF Keyed
  <2>6. Cardinality({n}) = 1
    BY FS_Singleton
  <2>7. Store!RunKnown(i)
    <3>1. PICK m \in DOMAIN rows : rows[m].run = rows[n].run /\ rows[m].subject = "context"
      BY <1>2 DEF RowsSound, HasContext
    <3>2. /\ [i EXCEPT !.subject = "context"].run = i.run
          /\ [i EXCEPT !.subject = "context"].subject = "context"
      BY <2>1 DEF Store!Item
    <3>3. rows[m] \in Store!Existing([i EXCEPT !.subject = "context"])
      BY <2>2, <3>1, <3>2 DEF Store!Existing, Store!Range, Keyed
    <3> QED BY <3>3 DEF Store!RunKnown
  <2> QED BY <2>2, <2>4, <2>5, <2>6, <2>7
<1> QED
  BY <1>1, <1>2, FileIsolates, OneCallStep, FileSoundStep, PTL DEF FileSpec

-----------------------------------------------------------------------------
(* What was read *)

\* The answer of a read: some of the rows, each under its sequence.
Answer == [run : Runs, part : {"context", "records"},
           rows : UNION {[D -> Row] : D \in SUBSET Nat}]

\* The row as it was written, but for its label.
Written(old, row) == old = [row EXCEPT !.payload = row.digest, !.label = old.label]

\* The answer is a beginning of what a read would find now, as it was written.
StillHolds(read) ==
  LET was == read.rows
      now == Store!Selected(read.run, read.part)
  IN  /\ DOMAIN was \subseteq DOMAIN now
      /\ \A k \in DOMAIN was : Written(was[k], now[k])
      /\ \A k \in DOMAIN now \ DOMAIN was, j \in DOMAIN was : j < k

ReadsSound ==
  /\ reads \in Seq(Answer)
  /\ \A n \in DOMAIN reads : StillHolds(reads[n])

\* New rows come behind the old ones.
RowsGrow ==
  /\ RowsStay
  /\ \A k \in DOMAIN rows' \ DOMAIN rows, j \in DOMAIN rows : j < k

\* But for its label, a row as it was written is determined by its key and digest.
LEMMA Restored ==
  ASSUME NEW a \in Row, NEW b \in Row, NEW old, Written(old, a),
         a.run = b.run, a.subject = b.subject, a.digest = b.digest
  PROVE  Written(old, b)
<1>1. \A l : [a EXCEPT !.payload = a.digest, !.label = l] = [b EXCEPT !.payload = b.digest, !.label = l]
  BY DEF Row
<1> QED BY <1>1 DEF Written

LEMMA AnswerStays ==
  ASSUME RowsSound, RowsSound', RowsGrow, NEW read, StillHolds(read)
  PROVE  StillHolds(read)'
<1> DEFINE was == read.rows
           now == Store!Selected(read.run, read.part)
<1>1. /\ DOMAIN now \subseteq DOMAIN rows /\ DOMAIN now' \subseteq DOMAIN rows'
      /\ \A k \in DOMAIN now : now[k] = rows[k]
      /\ \A k \in DOMAIN now' : now'[k] = rows'[k]
      /\ \A k \in DOMAIN rows : k \in DOMAIN now <=> k \in DOMAIN now'
  BY DEF Store!Selected, RowsGrow, RowsStay
<1>2. DOMAIN now \subseteq DOMAIN now'
  BY <1>1
<1>3. ASSUME NEW k \in DOMAIN was
      PROVE  Written(was[k], now'[k])
  <2>1. k \in DOMAIN rows /\ k \in DOMAIN now /\ k \in DOMAIN now' /\ now[k] = rows[k]
        /\ now'[k] = rows'[k]
        /\ Written(was[k], now[k])
    BY <1>1, <1>2, <1>3 DEF StillHolds
  <2>2. /\ rows[k] \in Row /\ rows'[k] \in Row
        /\ rows'[k].run = rows[k].run /\ rows'[k].subject = rows[k].subject
        /\ rows'[k].digest = rows[k].digest
    BY <2>1 DEF RowsSound, RowsGrow, RowsStay
  <2> QED BY <2>1, <2>2, Restored
<1>4. ASSUME NEW k \in DOMAIN now' \ DOMAIN was, NEW j \in DOMAIN was PROVE j < k
  <2>1. j \in DOMAIN rows
    BY <1>1 DEF StillHolds
  <2>2. CASE k \in DOMAIN rows
    BY <1>1, <1>4, <2>2 DEF StillHolds
  <2>3. CASE k \notin DOMAIN rows
    BY <1>1, <1>4, <2>1, <2>3 DEF RowsGrow
  <2> QED BY <2>2, <2>3
<1> QED BY <1>2, <1>3, <1>4 DEF StillHolds

LEMMA RowsGrowStep ==
  ASSUME OneCall, RowsSound, SaversSound, [FileNext]_fileVars
  PROVE  RowsGrow
<1>1. ASSUME rows' = rows PROVE RowsGrow
  BY <1>1 DEF RowsGrow, RowsStay
<1>2. CASE UseMoves
  BY <1>1, <1>2 DEF UseMoves, storeVars, FileCrash
<1>3. ASSUME NEW t \in Threads, SaverStep(t) PROVE RowsGrow
  <2>1. CASE Store!CommitRow(t)
    <3>1. RowsStay /\ rows' = Append(rows, Store!RowOf(item[t])) /\ rows \in Seq(Row)
      BY <2>1, CommitAddsRow DEF Store!CommitRow, RowsSound
    <3>2. \A k \in DOMAIN rows' : k \in DOMAIN rows \/ k = Len(rows) + 1
      BY <3>1
    <3> QED BY <3>1, <3>2 DEF RowsGrow
  <2>2. CASE ~Store!CommitRow(t)
    BY <1>1, <1>3, <2>2 DEF SaverStep, Save, Store!CallSave, Store!SaveFails, Store!SaveStep,
       Store!Look, Store!InsertRow, Store!InsertTimeout, Store!RollbackRow, Store!CloseSave
  <2> QED BY <2>1, <2>2
<1>4. CASE FileStays
  BY <1>1, <1>4, EditKeepsRows DEF FileStays, RowsGrow
<1> QED BY <1>2, <1>3, <1>4, FileSteps

\* A read finds intact rows: its answer holds at that moment.
LEMMA ReadStep ==
  ASSUME RowsSound, ReadsSound, NEW r \in Runs, NEW part \in {"context", "records"},
         Store!Read(r, part)
  PROVE  ReadsSound'
<1> DEFINE now == Store!Selected(r, part)
<1>1. PICK a : a = [run |-> r, part |-> part, rows |-> now]
  OBVIOUS
<1>2. /\ DOMAIN now \subseteq DOMAIN rows /\ DOMAIN now \subseteq Nat
      /\ \A k \in DOMAIN now : now[k] = rows[k] /\ now[k] \in Row
      /\ now = [k \in DOMAIN now |-> now[k]]
  BY DEF Store!Selected, RowsSound
<1>3. now \in [DOMAIN now -> Row] /\ DOMAIN now \in SUBSET Nat
  <2> HIDE DEF now
  <2> QED BY <1>2
<1>4. \A k \in DOMAIN now : now[k].payload = now[k].digest
  BY <1>2 DEF Store!Read, Store!Range, Store!Intact
<1> HIDE DEF now
<1>5. a \in Answer
  BY <1>1, <1>3 DEF Answer
<1>6. reads' = Append(reads, a) /\ rows' = rows
  BY <1>1 DEF Store!Read, now
<1>7. StillHolds(a)
  <2>1. a.rows = now /\ now = Store!Selected(a.run, a.part)
    BY <1>1 DEF now
  <2>2. \A k \in DOMAIN now : Written(now[k], now[k])
    BY <1>2, <1>4 DEF Row, Written
  <2> QED BY <2>1, <2>2 DEF StillHolds
<1>8. \A b : StillHolds(b) => StillHolds(b)'
  BY <1>6 DEF StillHolds, Store!Selected
<1>9. /\ reads' \in Seq(Answer)
      /\ \A n \in DOMAIN reads' : (n \in DOMAIN reads /\ reads'[n] = reads[n]) \/ reads'[n] = a
  BY <1>5, <1>6 DEF ReadsSound
<1>10. ASSUME NEW n \in DOMAIN reads' PROVE StillHolds(reads[n])'
  <2>1. PICK b : b = reads'[n]
    OBVIOUS
  <2>2. StillHolds(b)
    BY <1>7, <1>9, <2>1 DEF ReadsSound
  <2> QED BY <1>8, <2>1, <2>2 DEF StillHolds
<1> QED BY <1>9, <1>10 DEF ReadsSound

LEMMA ReadsSoundStep ==
  ASSUME OneCall, RowsSound, SaversSound, ReadsSound, [FileNext]_fileVars
  PROVE  ReadsSound'
<1>1. CASE \E r \in Runs, part \in {"context", "records"} : Store!Read(r, part)
  BY <1>1, ReadStep
<1>2. CASE ~ \E r \in Runs, part \in {"context", "records"} : Store!Read(r, part)
  <2>1. reads' = reads
    BY <1>2 DEF FileNext, fileVars, storeVars, Consume, Save, FileStep, FileFails, FileCrash,
       Store!CallSave, Store!SaveFails, Store!SaveStep, Store!EditPayload, Store!EditLabel, Store!Look, Store!InsertRow,
       Store!InsertTimeout, Store!CommitRow, Store!RollbackRow, Store!CloseSave
  <2>2. ASSUME NEW n \in DOMAIN reads PROVE StillHolds(reads[n])'
    <3>1. PICK b : b = reads[n]
      OBVIOUS
    <3>2. StillHolds(b)'
      BY <3>1, AnswerStays, RowsGrowStep, FileSoundStep DEF ReadsSound
    <3> QED BY <2>1, <3>1, <3>2 DEF StillHolds
  <2> QED BY <2>1, <2>2 DEF ReadsSound
<1> QED BY <1>1, <1>2

\* Whatever was read of a run stays a beginning of its history, and no payload in
\* it was edited (SQLiteRunStore.records and load_context).
THEOREM ReadsAgreeHolds == FileSpec => []ReadsAgree
<1>1. FileInit => IInv /\ OneCall /\ RowsSound /\ SaversSound /\ ReadsSound
  BY IInvInit DEF FileInit, OneCall, Store!StoreInit, RowsSound, SaversSound, SaverSound, ReadsSound
<1>2. ReadsSound => ReadsAgree
  BY DEF ReadsSound, ReadsAgree, StillHolds, Written
<1>3. OneCall /\ RowsSound /\ SaversSound /\ ReadsSound /\ [FileNext]_fileVars => ReadsSound'
  BY ReadsSoundStep
<1> QED
  BY <1>1, <1>2, <1>3, FileIsolates, OneCallStep, FileSoundStep, PTL DEF FileSpec
=============================================================================
