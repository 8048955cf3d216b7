---------------------------- MODULE CatalogProofs ----------------------------
(***************************************************************************)
(* TLAPS proofs about CatalogStore: IInv is inductive, so the safety       *)
(* properties hold for any number of connections, rows, plans, programs    *)
(* and operation ids, and every step is a step of AtomicCommit.            *)
(***************************************************************************)
EXTENDS CatalogInvariants, TLAPS, FiniteSetTheorems

(* The effect of a valid plan on well-formed rows is well formed.          *)
LEMMA EffectType ==
    ASSUME NEW rows \in Rows, NEW plan \in Plans
    PROVE  Effect(rows, plan) \in Rows
<1> SUFFICES ASSUME NEW r \in RowIds
             PROVE  (IF \E p \in plan : p.id = r
                     THEN [title |-> rows[r].title, unit |-> PriceFor(plan, r)]
                     ELSE rows[r]) \in Row
    BY DEF Effect, Rows
<1>1. rows[r] \in Row
    BY DEF Rows
<1>2. (\E p \in plan : p.id = r) => PriceFor(plan, r) \in Price
    BY PlansAssumption DEF ValidPlan, PriceFor
<1> QED
    BY <1>1, <1>2 DEF Row

(* Commit identities, intents and receipts built from a request are well   *)
(* formed.                                                                 *)
LEMMA ReceiptType ==
    ASSUME NEW r \in Request, NEW status \in Status, NEW revision \in Nat
    PROVE  [commit_id |-> CommitId(r), intent |-> IntentOf(r),
            status |-> status, revision |-> revision] \in Receipt
BY DEF Request, Receipt, CommitId, Identity, CommitIds, IntentOf, Intent

LEMMA AnswerType ==
    ASSUME NEW receipt \in Receipt, NEW replay \in BOOLEAN
    PROVE  AnswerFrom(receipt, replay) \in Answer
BY DEF Receipt, AnswerFrom, Answer

LEMMA RollbackType ==
    ASSUME TypeOK, NEW c \in Connections, Rollback(c)
    PROVE  TypeOK'
<1>1. Seeded \in Database /\ SeedRows \in Rows
    BY RowsAssumption DEF Seeded, Database
<1> QED
    BY <1>1 DEF TypeOK, Rollback, Release, Goto, Forget, Stages

(* Every action keeps the types; only the ones that build rows, receipts   *)
(* or answers need more than their own assignments.                        *)
LEMMA TypePreserved ==
    ASSUME IInv, [Next]_vars
    PROVE  TypeOK'
<1> USE DEF IInv
<1>1. ASSUME NEW c \in Connections, ReadRevision(c)
      PROVE  TypeOK'
    BY <1>1 DEF TypeOK, ReadRevision, Goto, Stages, Database
<1>2. ASSUME NEW c \in Connections, ReadRows(c)
      PROVE  TypeOK'
    BY <1>2 DEF TypeOK, ReadRows, Goto, Stages, Database, Snapshot
<1>3. ASSUME NEW c \in Connections, Call(c)
      PROVE  TypeOK'
    BY <1>3 DEF TypeOK, Call, Goto, Stages, Calling, Request
<1>4. ASSUME NEW c \in Connections, BeginImmediate(c)
      PROVE  TypeOK'
    BY <1>4 DEF TypeOK, BeginImmediate, Goto, Stages, Calling, InTransaction
<1>5. ASSUME NEW c \in Connections, ReplayReceipt(c)
      PROVE  TypeOK'
  <2>1. PICK receipt \in Existing(c) : answer' = [answer EXCEPT ![c] = AnswerFrom(receipt, TRUE)]
    BY <1>5 DEF ReplayReceipt, Again
  <2>2. AnswerFrom(receipt, TRUE) \in Answer
    BY <2>1, AnswerType DEF TypeOK, Existing, Database
  <2> QED
    BY <1>5, <2>1, <2>2 DEF TypeOK, ReplayReceipt, Goto, Stages, Calling, InTransaction
<1>6. ASSUME NEW c \in Connections, RecordStale(c) \/ RecordApplied(c)
      PROVE  TypeOK'
  <2> DEFINE Rcpt(status, revision) ==
                [commit_id |-> CommitId(request[c]), intent |-> IntentOf(request[c]),
                 status |-> status, revision |-> revision]
  <2>1. request[c] \in Request
    BY <1>6 DEF RecordStale, RecordApplied, RequestInv, Calling, InTransaction
  <2>2. work[c] \in Database
    BY DEF TypeOK
  <2>3. ASSUME NEW status \in Status, NEW revision \in Nat, Record(c, status, revision, work[c].rows)
        PROVE  /\ work' \in [Connections -> Database]
               /\ answer' \in [Connections -> Answer \cup {None}]
               /\ pc' \in [Connections -> Stages]
    <3>1. Rcpt(status, revision) \in Receipt
      BY <2>1, ReceiptType
    <3>2. AnswerFrom(Rcpt(status, revision), FALSE) \in Answer
      BY <3>1, AnswerType
    <3>3. [revision |-> revision, rows |-> work[c].rows,
           receipts |-> work[c].receipts \cup {Rcpt(status, revision)}] \in Database
      BY <2>2, <3>1 DEF Database
    <3> HIDE DEF Rcpt
    <3>4. /\ work' = [work EXCEPT ![c] =
                         [revision |-> revision, rows |-> work[c].rows,
                          receipts |-> work[c].receipts \cup {Rcpt(status, revision)}]]
          /\ answer' = [answer EXCEPT ![c] = AnswerFrom(Rcpt(status, revision), FALSE)]
          /\ pc' = [pc EXCEPT ![c] = "finishing"]
      BY <2>3 DEF Record, Inserted, Goto, Rcpt
    <3> QED
      BY <3>2, <3>3, <3>4 DEF TypeOK, Stages, Calling, InTransaction
  <2>4. work[c].revision \in Nat /\ work[c].revision + 1 \in Nat
    BY <2>2 DEF Database
  <2>5. /\ work' \in [Connections -> Database]
        /\ answer' \in [Connections -> Answer \cup {None}]
        /\ pc' \in [Connections -> Stages]
    BY <1>6, <2>3, <2>4 DEF RecordStale, RecordApplied, Status
  <2> QED
    BY <1>6, <2>5 DEF TypeOK, RecordStale, RecordApplied
<1>7. ASSUME NEW c \in Connections, StartPatching(c)
      PROVE  TypeOK'
  <2>1. request[c] \in Request
    BY <1>7 DEF StartPatching, RequestInv, Calling, InTransaction
  <2>2. Effect(work[c].rows, request[c].plan) \in Rows
    BY <2>1, EffectType DEF TypeOK, Request, Database
  <2>3. request[c].plan \subseteq [id : RowIds, unit_price_cents : Price]
    BY <1>7, <2>1, PlansAssumption
       DEF StartPatching, Admissible, KnownRows, ValidPlan, Request
  <2> QED
    BY <1>7, <2>2, <2>3 DEF TypeOK, StartPatching, Goto, Stages, Calling, InTransaction
<1>8. ASSUME NEW c \in Connections, UpdateRow(c)
      PROVE  TypeOK'
  <2>1. PICK p \in todo[c] :
            /\ work' = [work EXCEPT ![c] = WithRows(@, Written(@.rows, p))]
            /\ todo' = [todo EXCEPT ![c] = @ \ {p}]
    BY <1>8 DEF UpdateRow
  <2>2. p \in [id : RowIds, unit_price_cents : Price] /\ work[c] \in Database
    BY DEF TypeOK
  <2>3. Written(work[c].rows, p) \in Rows
    BY <2>2, StoreAssumption DEF Written, Database, Rows, Row
  <2> QED
    BY <1>8, <2>1, <2>2, <2>3 DEF TypeOK, UpdateRow, WithRows, Database
<1>9. ASSUME NEW c \in Connections, Commit(c)
      PROVE  TypeOK'
    BY <1>9 DEF TypeOK, Commit, Goto, Stages, Calling
<1>10. ASSUME NEW c \in Connections, Return(c)
       PROVE  TypeOK'
  <2>1. Seeded \in Database /\ SeedRows \in Rows
    BY RowsAssumption DEF Seeded, Database
  <2> QED
    BY <1>10, <2>1 DEF TypeOK, Return, Forget, Goto, Stages
<1>11. ASSUME NEW c \in Connections, Rollback(c)
       PROVE  TypeOK'
    BY <1>11, RollbackType
<1>12. ASSUME OutsideWrite
       PROVE  TypeOK'
  <2>1. db' \in Database
    BY <1>12, RowsAssumption DEF TypeOK, OutsideWrite, Database, Rows, Row
  <2> QED
    BY <1>12, <2>1 DEF TypeOK, OutsideWrite, local
<1>13. ASSUME UNCHANGED vars
       PROVE  TypeOK'
    BY <1>13 DEF TypeOK, vars, local
<1> QED
    BY <1>1, <1>2, <1>3, <1>4, <1>5, <1>6, <1>7, <1>8, <1>9, <1>10, <1>11, <1>12, <1>13
       DEF Next, Step, Decide, LockTimeout, RejectConflict, RejectEffect,
           RejectPostcondition, CommitTimeout, Interrupt

(* The lock is taken and released exactly when a transaction opens and     *)
(* ends.                                                                   *)
LEMMA LockPreserved ==
    ASSUME IInv, [Next]_vars
    PROVE  LockInv'
<1> USE StoreAssumption DEF IInv, TypeOK, LockInv, InTransaction
<1>1. ASSUME NEW c \in Connections,
             ReadRevision(c) \/ ReadRows(c) \/ Call(c) \/ Return(c)
      PROVE  LockInv'
    BY <1>1 DEF ReadRevision, ReadRows, Call, Return, Goto
<1>2. ASSUME NEW c \in Connections, BeginImmediate(c)
      PROVE  LockInv'
    BY <1>2 DEF BeginImmediate, LockFree, Goto
<1>3. ASSUME NEW c \in Connections,
             ReplayReceipt(c) \/ RecordStale(c) \/ StartPatching(c)
                \/ UpdateRow(c) \/ RecordApplied(c)
      PROVE  LockInv'
  <2>1. writer' = writer
    BY <1>3 DEF ReplayReceipt, RecordStale, StartPatching, UpdateRow, RecordApplied
  <2>2. pc[c] \in InTransaction
    BY <1>3 DEF ReplayReceipt, RecordStale, StartPatching, UpdateRow, RecordApplied
  <2>3. /\ pc'[c] \in InTransaction
        /\ \A d \in Connections \ {c} : pc'[d] = pc[d]
    BY <1>3 DEF ReplayReceipt, RecordStale, StartPatching, UpdateRow, RecordApplied,
                Record, Goto
  <2> QED
    BY <2>1, <2>2, <2>3
<1>4. ASSUME NEW c \in Connections, Commit(c)
      PROVE  LockInv'
    BY <1>4 DEF Commit, Goto
<1>5. ASSUME NEW c \in Connections, Rollback(c)
      PROVE  LockInv'
    BY <1>5 DEF Rollback, Release, Goto
<1>6. ASSUME OutsideWrite \/ UNCHANGED vars
      PROVE  LockInv'
    BY <1>6 DEF OutsideWrite, vars, local
<1> QED
    BY <1>1, <1>2, <1>3, <1>4, <1>5, <1>6
       DEF Next, Step, Decide, LockTimeout, RejectConflict, RejectEffect,
           RejectPostcondition, CommitTimeout, Interrupt

(* Snapshots stay consistent because a change of the committed rows always *)
(* takes a new revision and never happens while a snapshot is being read.  *)
LEMMA KnownPreserved ==
    ASSUME IInv, [Next]_vars
    PROVE  KnownInv'
<1> USE DEF IInv, TypeOK, KnownInv, SnapshotsConsistent, SnapshotOf, Database, Snapshot
<1>1. ASSUME NEW c \in Connections, ReadRevision(c)
      PROVE  KnownInv'
    BY <1>1 DEF ReadRevision, Goto
<1>2. ASSUME NEW c \in Connections, ReadRows(c)
      PROVE  KnownInv'
  <2>1. known' = known \cup {SnapshotOf(db)} /\ db' = db
    BY <1>2 DEF ReadRows
  <2> QED
    BY <1>2, <2>1 DEF ReadRows, Goto
<1>3. ASSUME db' = db, known' = known,
             \A c \in Connections : pc'[c] = "reading" => pc[c] = "reading" /\ seen'[c] = seen[c]
      PROVE  KnownInv'
    BY <1>3
<1>4. ASSUME NEW c \in Connections, Commit(c)
      PROVE  KnownInv'
  <2>1. /\ known' = known /\ seen' = seen /\ db' = work[c]
        /\ work[c] = db \/ Readers = {}
        /\ \A d \in Connections : pc'[d] = "reading" => pc[d] = "reading"
    BY <1>4 DEF Commit, Goto
  <2>2. \/ work[c].revision = db.revision /\ work[c].rows = db.rows
        \/ work[c].revision = db.revision + 1
    <3>1. FinishingInv(c)
      BY <1>4 DEF Commit, TransactionInv, TransactionOf
    <3>2. PICK r \in work[c].receipts : Repeats(c, r) \/ Refuses(c, r) \/ Applies(c, r)
      BY <3>1 DEF FinishingInv
    <3>3. CASE Repeats(c, r)
      BY <3>3 DEF Repeats
    <3>4. CASE Refuses(c, r)
      BY <3>4 DEF Refuses
    <3>5. CASE Applies(c, r)
      BY <3>5 DEF Applies
    <3> QED
      BY <3>2, <3>3, <3>4, <3>5
  <2>3. work[c].revision = db.revision + 1 =>
            \A d \in Connections : pc[d] # "reading"
    BY <2>1 DEF Readers
  <2> QED
    BY <2>1, <2>2, <2>3
<1>5. ASSUME OutsideWrite
      PROVE  KnownInv'
  <2>1. /\ known' = known /\ db'.revision = db.revision + 1
        /\ \A c \in Connections : pc'[c] # "reading"
    BY <1>5 DEF OutsideWrite, Readers, local
  <2> QED
    BY <2>1
<1>6. ASSUME NEW c \in Connections,
             \/ Call(c) \/ BeginImmediate(c) \/ ReplayReceipt(c) \/ RecordStale(c)
             \/ StartPatching(c) \/ UpdateRow(c) \/ RecordApplied(c)
      PROVE  KnownInv'
    BY <1>3, <1>6 DEF Call, BeginImmediate, ReplayReceipt, RecordStale, StartPatching,
                UpdateRow, RecordApplied, Record, Goto
<1>7. ASSUME NEW c \in Connections, Return(c) \/ Rollback(c)
      PROVE  KnownInv'
    BY <1>3, <1>7 DEF Return, Rollback, Forget, Goto
<1>8. ASSUME UNCHANGED vars
      PROVE  KnownInv'
    BY <1>3, <1>8 DEF vars, local
<1> QED
    BY <1>1, <1>2, <1>4, <1>5, <1>6, <1>7, <1>8
       DEF Next, Step, Decide, LockTimeout, RejectConflict, RejectEffect,
           RejectPostcondition, CommitTimeout, Interrupt

(* Arguments are set once per call and keep pointing at a known snapshot.  *)
LEMMA RequestPreserved ==
    ASSUME IInv, [Next]_vars
    PROVE  RequestInv'
<1> USE DEF IInv, TypeOK, RequestInv, Calling, InTransaction, Delivered
<1>1. ASSUME NEW c \in Connections, Call(c)
      PROVE  RequestInv'
    BY <1>1 DEF Call, Goto, Request
<1>2. ASSUME NEW c \in Connections,
             \/ ReadRevision(c) \/ ReadRows(c) \/ BeginImmediate(c) \/ ReplayReceipt(c)
             \/ RecordStale(c) \/ StartPatching(c) \/ UpdateRow(c) \/ RecordApplied(c)
             \/ Commit(c) \/ Return(c)
      PROVE  RequestInv'
    BY <1>2 DEF ReadRevision, ReadRows, BeginImmediate, ReplayReceipt, RecordStale,
                StartPatching, UpdateRow, RecordApplied, Record, Commit, Return, Goto
<1>3. ASSUME NEW c \in Connections, Rollback(c)
      PROVE  RequestInv'
    BY <1>3 DEF Rollback, Goto
<1>4. ASSUME OutsideWrite \/ UNCHANGED vars
      PROVE  RequestInv'
    BY <1>4 DEF OutsideWrite, vars, local
<1> QED
    BY <1>1, <1>2, <1>3, <1>4
       DEF Next, Step, Decide, LockTimeout, RejectConflict, RejectEffect,
           RejectPostcondition, CommitTimeout, Interrupt

(* Only COMMIT and the outside writer change the committed database.       *)
LEMMA StepKeepsDatabase ==
    ASSUME [Next]_vars
    PROVE  (\E c \in Connections : Commit(c)) \/ OutsideWrite \/ db' = db
BY DEF Next, Step, Decide, vars, LockTimeout, RejectConflict, RejectEffect,
       RejectPostcondition, CommitTimeout, Interrupt, Rollback, ReadRevision, ReadRows,
       Call, BeginImmediate, ReplayReceipt, RecordStale, StartPatching, UpdateRow,
       RecordApplied, Return

(* What a COMMIT makes public is one of the three decisions.               *)
LEMMA CommitDecides ==
    ASSUME IInv, NEW c \in Connections, Commit(c)
    PROVE  /\ db' = work[c] /\ work[c] \in Database
           /\ request[c] \in Request /\ request[c].base \in known
           /\ \E r \in work[c].receipts :
                 /\ Decides(r, c)
                 /\ Repeats(c, r) \/ Refuses(c, r) \/ Applies(c, r)
<1>1. FinishingInv(c) /\ db' = work[c]
    BY DEF IInv, Commit, TransactionInv, TransactionOf
<1>2. request[c] \in Request /\ request[c].base \in known
    BY DEF IInv, Commit, RequestInv, Calling, InTransaction
<1> QED
    BY <1>1, <1>2 DEF IInv, TypeOK, FinishingInv

(* A selection that is not current was overtaken: its base is older.       *)
LEMMA OvertakenBase ==
    ASSUME IInv, NEW s \in known, s # SnapshotOf(db)
    PROVE  s.revision < db.revision
<1>1. s \in Snapshot /\ db.revision \in Nat
    BY DEF IInv, TypeOK, Database
<1>2. s.revision <= db.revision
    BY DEF IInv, KnownInv, SnapshotsConsistent
<1>3. s.revision = db.revision => s.rows = db.rows
  <2>1. SnapshotOf(db).revision = db.revision /\ SnapshotOf(db).rows = db.rows
    BY DEF SnapshotOf
  <2>2. s.revision = SnapshotOf(db).revision => s.rows = SnapshotOf(db).rows
    BY DEF IInv, KnownInv, SnapshotsConsistent
  <2> QED
    BY <2>1, <2>2
<1>4. s.revision \in Nat /\ s = [revision |-> s.revision, rows |-> s.rows]
    BY <1>1 DEF Snapshot
<1>5. s.revision # db.revision
    BY <1>3, <1>4 DEF SnapshotOf
<1> QED
    BY <1>1, <1>2, <1>4, <1>5

LEMMA ReceiptsPreserved ==
    ASSUME IInv, [Next]_vars
    PROVE  ReceiptInv'
<1> USE DEF ReceiptInv, OneReceiptPerIdentity, NoLostUpdate, StaleMeansMovedOn, Applied
<1>1. db.revision \in Nat /\ \A r \in db.receipts : r \in Receipt
    BY DEF IInv, TypeOK, Database
<1>2. ASSUME db'.receipts = db.receipts, db'.revision \in Nat, db'.revision >= db.revision
      PROVE  ReceiptInv'
    BY <1>1, <1>2 DEF IInv, Receipt
<1>3. ASSUME NEW c \in Connections, Commit(c)
      PROVE  ReceiptInv'
  <2>1. PICK r \in work[c].receipts :
            /\ Decides(r, c)
            /\ Repeats(c, r) \/ Refuses(c, r) \/ Applies(c, r)
    BY <1>3, CommitDecides
  <2>2. /\ db' = work[c] /\ r \in Receipt
        /\ r.intent.base = request[c].base /\ request[c].base \in known
    BY <1>3, <2>1, CommitDecides DEF Database, Decides, IntentOf
  <2>3. CASE Repeats(c, r)
    BY <1>1, <1>2, <2>2, <2>3 DEF Repeats
  <2>4. CASE Refuses(c, r)
    <3>1. /\ db'.receipts = db.receipts \cup {r} /\ db'.revision = db.revision
          /\ Undecided(db, r.commit_id) /\ r.status = "stale" /\ r.revision = db.revision
      BY <2>2, <2>4 DEF Refuses
    <3>2. r.intent.base.revision < r.revision
      BY <2>2, <2>4, <3>1, OvertakenBase DEF Refuses
    <3> QED
      BY <1>1, <2>2, <3>1, <3>2 DEF IInv, Receipt, Undecided
  <2>5. CASE Applies(c, r)
    <3>1. /\ db'.receipts = db.receipts \cup {r} /\ db'.revision = db.revision + 1
          /\ Undecided(db, r.commit_id) /\ r.status = "applied"
          /\ r.revision = db.revision + 1
      BY <2>2, <2>5 DEF Applies
    <3>2. r.intent.base.revision = db.revision
      BY <2>2, <2>5 DEF Applies, SnapshotOf
    <3> QED
      BY <1>1, <2>2, <3>1, <3>2 DEF IInv, Receipt, Undecided
  <2> QED
    BY <2>1, <2>3, <2>4, <2>5
<1>4. ASSUME OutsideWrite
      PROVE  ReceiptInv'
    BY <1>1, <1>2, <1>4 DEF OutsideWrite
<1>5. ASSUME db' = db
      PROVE  ReceiptInv'
    BY <1>1, <1>2, <1>5
<1> QED
    BY <1>3, <1>4, <1>5, StepKeepsDatabase

(* The committed rows are only ever replaced by rows judged valid.         *)
LEMMA ArithmeticPreserved ==
    ASSUME IInv, [Next]_vars
    PROVE  UnitArithmetic'
<1> USE DEF UnitArithmetic
<1>1. ASSUME NEW c \in Connections, Commit(c)
      PROVE  UnitArithmetic'
  <2>1. PICK r \in work[c].receipts : Repeats(c, r) \/ Refuses(c, r) \/ Applies(c, r)
    BY <1>1, CommitDecides
  <2>2. db' = work[c] /\ ValidArithmetic(db.rows)
    BY <1>1, CommitDecides DEF IInv
  <2>3. CASE Repeats(c, r)
    BY <2>2, <2>3 DEF Repeats
  <2>4. CASE Refuses(c, r)
    BY <2>2, <2>4 DEF Refuses
  <2>5. CASE Applies(c, r)
    BY <2>2, <2>5 DEF Applies
  <2> QED
    BY <2>1, <2>3, <2>4, <2>5
<1>2. ASSUME OutsideWrite
      PROVE  UnitArithmetic'
  <2>1. \A r \in RowIds : db'.rows[r].unit = db.rows[r].unit
    BY <1>2 DEF OutsideWrite, IInv, TypeOK, Database, Rows, Row
  <2> QED
    BY <2>1 DEF IInv, ValidArithmetic
<1>3. ASSUME db' = db
      PROVE  UnitArithmetic'
    BY <1>3 DEF IInv
<1> QED
    BY <1>1, <1>2, <1>3, StepKeepsDatabase

(* A transaction is not disturbed by a step of another connection that     *)
(* leaves the committed database alone.                                    *)
LEMMA Undisturbed ==
    ASSUME NEW d \in Connections, TransactionOf(d),
           db' = db, pc'[d] = pc[d], request'[d] = request[d], work'[d] = work[d],
           expected'[d] = expected[d], answer'[d] = answer[d]
    PROVE  TransactionOf(d)'
BY DEF TransactionOf, BegunInv, PatchingInv, FinishingInv, Decides, Repeats, Refuses, Applies,
       CommitId, IntentOf, SnapshotOf, Undecided, AnswerFrom

(* Outside a transaction there is nothing to say.                          *)
LEMMA NoTransaction ==
    ASSUME NEW d \in Connections, pc'[d] \notin InTransaction
    PROVE  TransactionOf(d)'
BY DEF TransactionOf, InTransaction

(* What is recorded is what finishing commits.                             *)
LEMMA RecordFinishes ==
    ASSUME IInv, NEW c \in Connections, NEW status \in Status, NEW revision \in Nat,
           NEW rows, Record(c, status, revision, rows),
           UNCHANGED <<db, request>>,
           Undecided(db, CommitId(request[c])),
           work[c].receipts = db.receipts,
           \/ /\ status = "stale" /\ revision = db.revision /\ rows = db.rows
              /\ request[c].base # SnapshotOf(db)
           \/ /\ status = "applied" /\ revision = db.revision + 1
              /\ request[c].base = SnapshotOf(db)
              /\ KnownRows(request[c].plan)
              /\ ValidArithmetic(Effect(db.rows, request[c].plan))
              /\ rows = Effect(db.rows, request[c].plan)
    PROVE  TransactionOf(c)'
<1>1. PICK r : /\ r = [commit_id |-> CommitId(request[c]), intent |-> IntentOf(request[c]),
                       status |-> status, revision |-> revision]
               /\ work'[c] = [revision |-> revision, rows |-> rows,
                              receipts |-> db.receipts \cup {r}]
               /\ answer'[c] = AnswerFrom(r, FALSE)
               /\ pc'[c] = "finishing"
    BY DEF IInv, TypeOK, Record, Inserted, Goto
<1>2. /\ r.commit_id = CommitId(request[c]) /\ r.intent = IntentOf(request[c])
      /\ r.status = status /\ r.revision = revision
    BY <1>1
<1>3. r \in work'[c].receipts
    BY <1>1
<1>4. Decides(r, c)'
    BY <1>2 DEF Decides, CommitId, IntentOf
<1>5. Refuses(c, r)' \/ Applies(c, r)'
    BY <1>1, <1>2 DEF Refuses, Applies, Undecided, SnapshotOf
<1>6. FinishingInv(c)'
    BY <1>3, <1>4, <1>5 DEF FinishingInv
<1> QED
    BY <1>1, <1>6 DEF TransactionOf

(* Each transaction goes through begun, patching and finishing against a   *)
(* database that stands still, because it holds the lock.                  *)
LEMMA TransactionPreserved ==
    ASSUME IInv, [Next]_vars
    PROVE  TransactionInv'
<1> USE DEF IInv, TypeOK
<1>1. ASSUME NEW c \in Connections, db' = db, TransactionOf(c)',
             \A d \in Connections \ {c} :
                /\ pc'[d] = pc[d] /\ request'[d] = request[d] /\ work'[d] = work[d]
                /\ expected'[d] = expected[d] /\ answer'[d] = answer[d]
      PROVE  TransactionInv'
  <2>1. ASSUME NEW d \in Connections, d # c
        PROVE  TransactionOf(d)'
    BY <1>1, <2>1, Undisturbed DEF TransactionInv
  <2> QED
    BY <1>1, <2>1 DEF TransactionInv
<1>2. ASSUME NEW c \in Connections, ReadRevision(c) \/ ReadRows(c) \/ Call(c) \/ Return(c)
      PROVE  TransactionInv'
  <2>1. pc'[c] \notin InTransaction
    BY <1>2 DEF ReadRevision, ReadRows, Call, Return, Goto, InTransaction
  <2>2. TransactionOf(c)'
    BY <2>1, NoTransaction
  <2> QED
    BY <1>1, <1>2, <2>2 DEF ReadRevision, ReadRows, Call, Return, Forget, Goto
<1>3. ASSUME NEW c \in Connections, Rollback(c)
      PROVE  TransactionInv'
  <2>1. pc'[c] \notin InTransaction
    BY <1>3 DEF Rollback, Goto, InTransaction
  <2>2. TransactionOf(c)'
    BY <2>1, NoTransaction
  <2> QED
    BY <1>1, <1>3, <2>2 DEF Rollback, Forget, Goto
<1>4. ASSUME NEW c \in Connections, BeginImmediate(c)
      PROVE  TransactionInv'
  <2>1. TransactionOf(c)'
    BY <1>4 DEF BeginImmediate, Goto, TransactionOf, BegunInv
  <2> QED
    BY <1>1, <1>4, <2>1 DEF BeginImmediate, Goto
<1>5. ASSUME NEW c \in Connections, ReplayReceipt(c)
      PROVE  TransactionInv'
  <2>1. PICK r \in Existing(c) :
            /\ r.intent = IntentOf(request[c])
            /\ answer' = [answer EXCEPT ![c] = AnswerFrom(r, TRUE)]
    BY <1>5 DEF ReplayReceipt, SameIntent, Again
  <2>2. work[c] = db
    BY <1>5 DEF ReplayReceipt, TransactionInv, TransactionOf, BegunInv
  <2>3. /\ db' = db /\ work' = work /\ request' = request
        /\ pc' = [pc EXCEPT ![c] = "finishing"]
    BY <1>5 DEF ReplayReceipt, Goto
  <2>4. Decides(r, c)'
    BY <2>1, <2>3 DEF Existing, Decides, CommitId, IntentOf
  <2>5. Repeats(c, r)' /\ r \in work'[c].receipts
    BY <2>1, <2>2, <2>3 DEF Existing, Repeats, AnswerFrom
  <2>6. FinishingInv(c)'
    BY <2>4, <2>5 DEF FinishingInv
  <2>7. TransactionOf(c)'
    BY <2>3, <2>6 DEF TransactionOf
  <2> QED
    BY <1>1, <1>5, <2>1, <2>3, <2>7 DEF ReplayReceipt
<1>6. ASSUME NEW c \in Connections, RecordStale(c)
      PROVE  TransactionInv'
  <2>1. work[c] = db
    BY <1>6 DEF RecordStale, TransactionInv, TransactionOf, BegunInv
  <2>2. /\ Undecided(db, CommitId(request[c])) /\ request[c].base # SnapshotOf(db)
        /\ UNCHANGED <<db, request, expected>>
        /\ Record(c, "stale", db.revision, db.rows)
    BY <1>6, <2>1 DEF RecordStale, Existing, Undecided, IsCurrent
  <2>3. TransactionOf(c)'
    <3>1. "stale" \in Status /\ db.revision \in Nat
      BY DEF Status, Database
    <3> QED
      BY <2>1, <2>2, <3>1, RecordFinishes
  <2> QED
    BY <1>1, <2>2, <2>3 DEF Record, Goto
<1>7. ASSUME NEW c \in Connections, StartPatching(c)
      PROVE  TransactionInv'
  <2>1. work[c] = db
    BY <1>7 DEF StartPatching, TransactionInv, TransactionOf, BegunInv
  <2>2. /\ Undecided(db, CommitId(request[c])) /\ request[c].base = SnapshotOf(db)
        /\ UNCHANGED <<db, request, work, answer>>
        /\ KnownRows(request[c].plan)
        /\ ValidArithmetic(Effect(db.rows, request[c].plan))
        /\ expected' = [expected EXCEPT ![c] = Effect(db.rows, request[c].plan)]
        /\ pc' = [pc EXCEPT ![c] = "patching"]
    BY <1>7, <2>1 DEF StartPatching, Existing, Undecided, IsCurrent, Admissible, Goto
  <2>3. PatchingInv(c)'
    BY <2>1, <2>2 DEF PatchingInv, Undecided, SnapshotOf
  <2>4. TransactionOf(c)'
    BY <2>2, <2>3 DEF TransactionOf
  <2> QED
    BY <1>1, <2>2, <2>4
<1>8. ASSUME NEW c \in Connections, UpdateRow(c)
      PROVE  TransactionInv'
  <2>1. PICK p \in todo[c] : work' = [work EXCEPT ![c] = WithRows(@, Written(@.rows, p))]
    BY <1>8 DEF UpdateRow
  <2>2. /\ pc[c] = "patching" /\ UNCHANGED <<db, pc, request, expected, answer>>
    BY <1>8 DEF UpdateRow
  <2>3. PatchingInv(c)
    BY <2>2 DEF TransactionInv, TransactionOf
  <2>4. work'[c].revision = work[c].revision /\ work'[c].receipts = work[c].receipts
    BY <2>1 DEF WithRows
  <2>5. PatchingInv(c)'
    BY <2>2, <2>3, <2>4 DEF PatchingInv, Undecided, SnapshotOf
  <2>6. TransactionOf(c)'
    BY <2>2, <2>5 DEF TransactionOf
  <2> QED
    BY <1>1, <2>1, <2>2, <2>6
<1>9. ASSUME NEW c \in Connections, RecordApplied(c)
      PROVE  TransactionInv'
  <2>1. PatchingInv(c)
    BY <1>9 DEF RecordApplied, TransactionInv, TransactionOf
  <2>2. /\ UNCHANGED <<db, request, expected>>
        /\ Record(c, "applied", db.revision + 1, Effect(db.rows, request[c].plan))
    BY <1>9, <2>1 DEF RecordApplied, Postcondition, PatchingInv
  <2>3. TransactionOf(c)'
    <3>1. "applied" \in Status /\ db.revision + 1 \in Nat
      BY DEF Status, Database
    <3> QED
      BY <2>1, <2>2, <3>1, RecordFinishes DEF PatchingInv
  <2> QED
    BY <1>1, <2>2, <2>3 DEF Record, Goto
<1>10. ASSUME NEW c \in Connections, Commit(c)
       PROVE  TransactionInv'
  <2>1. ASSUME NEW d \in Connections
        PROVE  pc'[d] \notin InTransaction
    BY <1>10, StoreAssumption DEF Commit, Goto, LockInv, InTransaction
  <2> QED
    BY <2>1, NoTransaction DEF TransactionInv
<1>11. ASSUME OutsideWrite
       PROVE  TransactionInv'
  <2>1. ASSUME NEW d \in Connections
        PROVE  pc'[d] \notin InTransaction
    BY <1>11, StoreAssumption DEF OutsideWrite, local, LockInv
  <2> QED
    BY <2>1, NoTransaction DEF TransactionInv
<1>12. ASSUME UNCHANGED vars
       PROVE  TransactionInv'
    BY <1>12, Undisturbed DEF TransactionInv, vars, local
<1> QED
    BY <1>2, <1>3, <1>4, <1>5, <1>6, <1>7, <1>8, <1>9, <1>10, <1>11, <1>12
       DEF Next, Step, Decide, LockTimeout, RejectConflict, RejectEffect,
           RejectPostcondition, CommitTimeout, Interrupt

(* The ledger only grows, so an answer that agreed with it still does; a   *)
(* first answer is settled by a COMMIT that found its identity undecided.  *)
LEMMA AnswerPreserved ==
    ASSUME IInv, [Next]_vars
    PROVE  AnswerInv'
<1> USE DEF IInv, TypeOK
<1>1. ASSUME db.receipts \subseteq db'.receipts,
             \A d \in Connections : Settled(d)' =>
                Settled(d) /\ answer'[d] = answer[d] /\ request'[d] = request[d]
      PROVE  AnswerInv'
  <2>1. ASSUME NEW d \in Connections, Settled(d)'
        PROVE  /\ answer'[d] # None
               /\ \E q \in db'.receipts :
                     Decides(q, d)' /\ answer'[d] = AnswerFrom(q, answer'[d].replay)
    BY <1>1, <2>1 DEF AnswerInv, Decides, CommitId, IntentOf
  <2>2. ASSUME NEW d \in Connections, NEW e \in Connections,
               Settled(d)', ~answer'[d].replay, Settled(e)', ~answer'[e].replay,
               answer'[d].commit_id = answer'[e].commit_id
        PROVE  d = e
    BY <1>1, <2>2 DEF AnswerInv
  <2> QED
    BY <2>1, <2>2 DEF AnswerInv, AnswerFrom
<1>2. ASSUME NEW c \in Connections, ReadRevision(c) \/ ReadRows(c) \/ Call(c) \/ Return(c)
      PROVE  AnswerInv'
  <2>1. db' = db
    BY <1>2 DEF ReadRevision, ReadRows, Call, Return
  <2>2. \A d \in Connections : Settled(d)' =>
            Settled(d) /\ answer'[d] = answer[d] /\ request'[d] = request[d]
    BY <1>2 DEF ReadRevision, ReadRows, Call, Return, Goto, Settled, Delivered
  <2> QED
    BY <1>1, <2>1, <2>2
<1>3. ASSUME NEW c \in Connections, Rollback(c)
      PROVE  AnswerInv'
  <2>1. db' = db
    BY <1>3 DEF Rollback
  <2>2. \A d \in Connections : Settled(d)' =>
            Settled(d) /\ answer'[d] = answer[d] /\ request'[d] = request[d]
    BY <1>3 DEF Rollback, Goto, Settled, Delivered
  <2> QED
    BY <1>1, <2>1, <2>2
<1>4. ASSUME NEW c \in Connections,
             \/ BeginImmediate(c) \/ ReplayReceipt(c) \/ RecordStale(c)
             \/ StartPatching(c) \/ UpdateRow(c) \/ RecordApplied(c)
      PROVE  AnswerInv'
  <2>1. db' = db
    BY <1>4 DEF BeginImmediate, ReplayReceipt, RecordStale, StartPatching, UpdateRow,
                RecordApplied
  <2>2. \A d \in Connections : Settled(d)' =>
            Settled(d) /\ answer'[d] = answer[d] /\ request'[d] = request[d]
    BY <1>4 DEF BeginImmediate, ReplayReceipt, RecordStale, StartPatching, UpdateRow,
                RecordApplied, Record, Goto, Settled, Delivered
  <2> QED
    BY <1>1, <2>1, <2>2
<1>5. ASSUME NEW c \in Connections, Commit(c)
      PROVE  AnswerInv'
  <2>1. PICK r \in work[c].receipts :
            /\ Decides(r, c)
            /\ Repeats(c, r) \/ Refuses(c, r) \/ Applies(c, r)
    BY <1>5, CommitDecides
  <2>2. /\ db' = work[c] /\ work[c] \in Database
        /\ UNCHANGED <<request, answer>> /\ pc' = [pc EXCEPT ![c] = "committed"]
    BY <1>5, CommitDecides DEF Commit, Goto
  <2>3. db.receipts \subseteq db'.receipts
    <3>1. Repeats(c, r) => db.receipts \subseteq work[c].receipts
      BY DEF Repeats
    <3>2. Refuses(c, r) => db.receipts \subseteq work[c].receipts
      BY DEF Refuses
    <3>3. Applies(c, r) => db.receipts \subseteq work[c].receipts
      BY DEF Applies
    <3> QED
      BY <2>1, <2>2, <3>1, <3>2, <3>3
  <2>4. \A d \in Connections : Settled(d)' => d = c \/ Settled(d)
    BY <2>2 DEF Settled, Delivered
  <2>5. answer[c] = AnswerFrom(r, answer[c].replay) /\ answer[c] # None
        /\ answer[c].commit_id = r.commit_id
    <3>1. r \in Receipt
      BY <2>1, <2>2 DEF Database
    <3>2. answer[c] = AnswerFrom(r, TRUE) \/ answer[c] = AnswerFrom(r, FALSE)
      BY <2>1 DEF Repeats, Refuses, Applies
    <3>3. answer[c] \in Answer
      BY <3>1, <3>2, AnswerType
    <3> QED
      BY <3>2, <3>3, NoneAssumption DEF AnswerFrom
  <2>6. ~answer[c].replay => Undecided(db, r.commit_id)
    BY <2>1 DEF Repeats, Refuses, Applies, AnswerFrom
  <2>7. ASSUME NEW d \in Connections, Settled(d)'
        PROVE  /\ answer'[d] # None
               /\ \E q \in db'.receipts :
                     Decides(q, d)' /\ answer'[d] = AnswerFrom(q, answer'[d].replay)
    <3>1. CASE d = c
      BY <2>1, <2>2, <2>5, <3>1 DEF Decides, CommitId, IntentOf
    <3>2. CASE d # c
      BY <2>2, <2>3, <2>4, <2>7, <3>2 DEF AnswerInv, Decides, CommitId, IntentOf
    <3> QED
      BY <3>1, <3>2
  <2>8. ASSUME NEW d \in Connections, Settled(d), ~answer[c].replay
        PROVE  answer[d].commit_id # answer[c].commit_id
    <3>1. PICK q \in db.receipts : answer[d] = AnswerFrom(q, answer[d].replay)
      BY <2>8 DEF AnswerInv
    <3>2. answer[d].commit_id = q.commit_id
      BY <3>1 DEF AnswerFrom
    <3> QED
      BY <2>5, <2>6, <2>8, <3>2 DEF Undecided
  <2>9. ASSUME NEW d \in Connections, NEW e \in Connections,
               Settled(d)', ~answer'[d].replay, Settled(e)', ~answer'[e].replay,
               answer'[d].commit_id = answer'[e].commit_id
        PROVE  d = e
    BY <2>2, <2>4, <2>8, <2>9 DEF AnswerInv
  <2> QED
    BY <2>7, <2>9 DEF AnswerInv, AnswerFrom
<1>6. ASSUME OutsideWrite \/ UNCHANGED vars
      PROVE  AnswerInv'
    BY <1>1, <1>6 DEF OutsideWrite, vars, local, Settled, Delivered
<1> QED
    BY <1>2, <1>3, <1>4, <1>5, <1>6
       DEF Next, Step, Decide, LockTimeout, RejectConflict, RejectEffect,
           RejectPostcondition, CommitTimeout, Interrupt

-----------------------------------------------------------------------------
LEMMA Initially == Init => IInv
<1> SUFFICES ASSUME Init PROVE IInv
    OBVIOUS
<1> USE StoreAssumption, RowsAssumption, SeedAssumption DEF Init, Seeded
<1>1. TypeOK
    BY DEF TypeOK, Database, Stages
<1>2. LockInv /\ RequestInv /\ TransactionInv /\ UnitArithmetic
    BY DEF LockInv, InTransaction, RequestInv, Calling, Delivered, TransactionInv,
           TransactionOf, UnitArithmetic
<1>3. KnownInv
    BY DEF KnownInv, SnapshotsConsistent
<1>4. ReceiptInv
    BY DEF ReceiptInv, OneReceiptPerIdentity, NoLostUpdate, StaleMeansMovedOn, Applied
<1>5. AnswerInv
    BY DEF AnswerInv, Settled, Delivered
<1> QED
    BY <1>1, <1>2, <1>3, <1>4, <1>5 DEF IInv

LEMMA Inductive == IInv /\ [Next]_vars => IInv'
BY TypePreserved, LockPreserved, KnownPreserved, RequestPreserved, ReceiptsPreserved,
   TransactionPreserved, AnswerPreserved, ArithmeticPreserved DEF IInv

(* IInv holds in every reachable state, for every value of the constants.  *)
THEOREM Invariance == Spec => []IInv
BY Initially, Inductive, PTL DEF Spec

(* Type correctness of the catalog adapter's state.                        *)
THEOREM TypeCorrect == Spec => []TypeOK
<1>1. IInv => TypeOK
    BY DEF IInv
<1> QED
    BY <1>1, Invariance, PTL

(* The commit identity is a key: at most one decision per operation id, or *)
(* per program and snapshot when the caller names no operation.            *)
THEOREM ReceiptsAreUnique == Spec => []OneReceiptPerIdentity
<1>1. IInv => OneReceiptPerIdentity
    BY DEF IInv, ReceiptInv
<1> QED
    BY <1>1, Invariance, PTL

(* Two selections made from one snapshot are never both applied.           *)
THEOREM UpdatesAreNotLost == Spec => []NoLostUpdate
<1>1. IInv => NoLostUpdate
    BY DEF IInv, ReceiptInv
<1> QED
    BY <1>1, Invariance, PTL

(* A stale receipt is written only for a base the catalog has left.        *)
THEOREM RefusalsAreJustified == Spec => []StaleMeansMovedOn
<1>1. IInv => StaleMeansMovedOn
    BY DEF IInv, ReceiptInv
<1> QED
    BY <1>1, Invariance, PTL

(* Snapshots never mix two committed states.                               *)
THEOREM SnapshotsAreConsistent == Spec => []SnapshotsConsistent
<1>1. IInv => SnapshotsConsistent
    BY DEF IInv, KnownInv
<1> QED
    BY <1>1, Invariance, PTL

(* Unit prices stay consistent with pack prices.                           *)
THEOREM ArithmeticHolds == Spec => []UnitArithmetic
<1>1. IInv => UnitArithmetic
    BY DEF IInv
<1> QED
    BY <1>1, Invariance, PTL

(* Every answer, first or replayed, is the ledger's.                       *)
THEOREM AnswersAgreeWithLedger == Spec => []AnswersMatchLedger
<1>1. IInv => AnswersMatchLedger
    BY DEF IInv, AnswerInv, AnswersMatchLedger, Settled, Decides
<1> QED
    BY <1>1, Invariance, PTL

(* No identity is answered twice as a first answer.                        *)
THEOREM FreshAnswersAreUnique == Spec => []OneFreshAnswer
<1>1. IInv => OneFreshAnswer
    BY DEF IInv, AnswerInv, OneFreshAnswer, Settled
<1> QED
    BY <1>1, Invariance, PTL

-----------------------------------------------------------------------------
(* Counting: a COMMIT adds one applied receipt and one revision, or a      *)
(* stale receipt, or nothing; an outside write adds one revision.          *)
LEMMA LedgerPreserved ==
    ASSUME IInv, LedgerInv, [Next]_vars
    PROVE  LedgerInv'
<1>1. /\ IsFiniteSet(Applied) /\ Cardinality(Applied) \in Nat
      /\ outsideWrites \in Nat /\ db.revision = Cardinality(Applied) + outsideWrites
    BY FS_Subset, FS_CardinalityType DEF LedgerInv, LedgerAccountsForRevision, Applied, IInv, TypeOK
<1>2. ASSUME NEW c \in Connections, Commit(c)
      PROVE  LedgerInv'
  <2>1. PICK r \in work[c].receipts : Repeats(c, r) \/ Refuses(c, r) \/ Applies(c, r)
    BY <1>2, CommitDecides
  <2>2. db' = work[c] /\ outsideWrites' = outsideWrites
    BY <1>2, CommitDecides DEF Commit
  <2>3. CASE Repeats(c, r)
    BY <2>2, <2>3 DEF Repeats, LedgerInv, LedgerAccountsForRevision, Applied
  <2>4. CASE Refuses(c, r)
    <3>1. /\ db'.receipts = db.receipts \cup {r} /\ db'.revision = db.revision
          /\ r.status = "stale"
      BY <2>2, <2>4 DEF Refuses
    <3>2. IsFiniteSet(db'.receipts)
      BY <3>1, FS_AddElement DEF LedgerInv
    <3>3. Applied' = Applied
      BY <3>1 DEF Applied
    <3> QED
      BY <1>1, <2>2, <3>1, <3>2, <3>3 DEF LedgerInv, LedgerAccountsForRevision
  <2>5. CASE Applies(c, r)
    <3>1. /\ db'.receipts = db.receipts \cup {r} /\ db'.revision = db.revision + 1
          /\ r.status = "applied" /\ r \notin db.receipts
      BY <2>2, <2>5 DEF Applies, Undecided
    <3>2. IsFiniteSet(db'.receipts)
      BY <3>1, FS_AddElement DEF LedgerInv
    <3>3. Applied' = Applied \cup {r} /\ r \notin Applied
      BY <3>1 DEF Applied
    <3>4. Cardinality(Applied') = Cardinality(Applied) + 1
      BY <1>1, <3>3, FS_AddElement
    <3> QED
      BY <1>1, <2>2, <3>1, <3>2, <3>4 DEF LedgerInv, LedgerAccountsForRevision
  <2> QED
    BY <2>1, <2>3, <2>4, <2>5
<1>3. ASSUME OutsideWrite
      PROVE  LedgerInv'
  <2>1. /\ db'.receipts = db.receipts /\ db'.revision = db.revision + 1
        /\ outsideWrites' = outsideWrites + 1
    BY <1>3 DEF OutsideWrite
  <2>2. Applied' = Applied
    BY <2>1 DEF Applied
  <2> QED
    BY <1>1, <2>1, <2>2 DEF LedgerInv, LedgerAccountsForRevision
<1>4. ASSUME db' = db, outsideWrites' = outsideWrites
      PROVE  LedgerInv'
    BY <1>4 DEF LedgerInv, LedgerAccountsForRevision, Applied
<1> QED
    BY <1>2, <1>3, <1>4
    DEF Next, Step, Decide, vars, LockTimeout, RejectConflict, RejectEffect,
       RejectPostcondition, CommitTimeout, Interrupt, Rollback, ReadRevision, ReadRows,
       Call, BeginImmediate, ReplayReceipt, RecordStale, StartPatching, UpdateRow,
       RecordApplied, Return

(* The revision counts applied receipts and outside writes: no commit is   *)
(* applied twice or without its receipt, however its calls are retried.    *)
THEOREM LedgerIsExact == Spec => []LedgerAccountsForRevision
<1>1. Init => LedgerInv
  <2> SUFFICES ASSUME Init PROVE LedgerInv
    OBVIOUS
  <2>1. db.receipts = {} /\ db.revision = 0 /\ outsideWrites = 0 /\ Applied = {}
    BY DEF Init, Seeded, Applied
  <2> QED
    BY <2>1, FS_EmptySet DEF LedgerInv, LedgerAccountsForRevision
<1>2. IInv /\ LedgerInv /\ [Next]_vars => LedgerInv'
    BY LedgerPreserved
<1>3. LedgerInv => LedgerAccountsForRevision
    BY DEF LedgerInv
<1> QED
    BY <1>1, <1>2, <1>3, Invariance, PTL DEF Spec

-----------------------------------------------------------------------------
(* The COMMIT of a fresh decision is AtomicCommit's decision of it.        *)
LEMMA CommitRefines ==
    ASSUME IInv, NEW c \in Connections, Commit(c)
    PROVE  Promise!Decide \/ db' = db
<1>1. PICK r \in work[c].receipts :
          /\ Decides(r, c)
          /\ Repeats(c, r) \/ Refuses(c, r) \/ Applies(c, r)
    BY CommitDecides
<1>2. db' = work[c] /\ request[c] \in Request
    BY CommitDecides
<1>3. /\ r.intent.base = request[c].base /\ r.intent.plan = request[c].plan
      /\ \E op \in Operations \cup {None} : r.commit_id = Promise!Identity(op, r.intent)
    BY <1>1, <1>2 DEF Decides, IntentOf, CommitId, Identity, Request, Promise!Identity
<1>4. CASE Repeats(c, r)
    BY <1>2, <1>4 DEF Repeats
<1>5. CASE Refuses(c, r)
  <2>1. Promise!Undecided(db, r.commit_id) /\ r \in db'.receipts \ db.receipts
    BY <1>2, <1>5 DEF Refuses, Undecided, Promise!Undecided
  <2>2. Promise!Refuse(r)
    BY <1>2, <1>3, <1>5 DEF Refuses, SnapshotOf, Promise!Refuse, Promise!SnapshotOf
  <2> QED
    BY <1>3, <2>1, <2>2 DEF Promise!Decide
<1>6. CASE Applies(c, r)
  <2>1. Promise!Undecided(db, r.commit_id) /\ r \in db'.receipts \ db.receipts
    BY <1>2, <1>6 DEF Applies, Undecided, Promise!Undecided
  <2>2. Promise!Apply(r)
    BY <1>2, <1>3, <1>6
       DEF Applies, SnapshotOf, KnownRows, ValidArithmetic, Effect, PriceFor,
           Promise!Apply, Promise!SnapshotOf, Promise!KnownRows,
           Promise!ValidArithmetic, Promise!Effect, Promise!PriceFor
  <2> QED
    BY <1>3, <2>1, <2>2 DEF Promise!Decide
<1> QED
    BY <1>1, <1>4, <1>5, <1>6

(* The catalog adapter implements AtomicCommit: every step is an atomic    *)
(* decision, an outside write, or invisible.                               *)
THEOREM Refinement == Spec => ImplementsAtomicCommit
<1>1. Init => Promise!Init
    BY DEF Init, Promise!Init, Seeded, Promise!Seeded
<1>2. IInv /\ [Next]_vars => [Promise!Next]_db
  <2> SUFFICES ASSUME IInv, [Next]_vars
               PROVE  Promise!Decide \/ Promise!OutsideWrite \/ db' = db
    BY DEF Promise!Next
  <2>1. ASSUME OutsideWrite
        PROVE  Promise!OutsideWrite
    <3>1. db'.rows[OutsideRow].title = db.rows[OutsideRow].title + 1
      BY <2>1, RowsAssumption DEF OutsideWrite, IInv, TypeOK, Database, Rows
    <3> QED
      BY <2>1, <3>1 DEF OutsideWrite, Promise!OutsideWrite
  <2> QED
    BY <2>1, CommitRefines, StepKeepsDatabase
<1> QED
    BY <1>1, <1>2, Invariance, PTL DEF Spec, ImplementsAtomicCommit, Promise!Spec
=============================================================================
