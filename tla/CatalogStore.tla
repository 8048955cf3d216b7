---------------------------- MODULE CatalogStore ----------------------------
(***************************************************************************)
(* The Foresee catalog adapter (foresee/catalog.py): any number of SQLite  *)
(* connections to one target database, each taking snapshots and calling   *)
(* Catalog.commit.  One action per statement that reads or writes the      *)
(* database, so that the calls of different connections interleave, fail   *)
(* and die anywhere.                                                       *)
(*                                                                         *)
(* Of SQLite (rollback journal, the default) the model keeps: one          *)
(* connection holds the write lock; its changes are private until COMMIT;  *)
(* COMMIT of changes needs every reader gone; a dead connection's          *)
(* transaction is rolled back.                                             *)
(***************************************************************************)
EXTENDS CatalogData

CONSTANTS
    Connections,       \* the connections to the target database
    TriggeredRows,     \* rows whose title a trigger rewrites when updated
    MaxRevision        \* bound: no snapshot or outside write beyond it

ASSUME StoreAssumption ==
    /\ None \notin Connections
    /\ TriggeredRows \subseteq RowIds
    /\ MaxRevision \in Nat

VARIABLES
    db,            \* the committed database
    writer,        \* the connection inside BEGIN IMMEDIATE, or None
    pc,            \* where each connection is
    request,       \* the arguments of its commit, until that fails
    work,          \* its uncommitted view of the database
    todo,          \* patches of the plan not yet written
    expected,      \* rows the postcondition compares with
    answer,        \* what its commit returns; delivered once idle again
    seen,          \* the revision its open snapshot has read
    known,         \* snapshots handed out so far
    outsideWrites  \* history: revisions made by other writers

local == <<pc, request, work, todo, expected, answer, seen>>
vars == <<db, writer, local, known, outsideWrites>>

InTransaction == {"begun", "patching", "finishing"}
Calling == {"called", "committed"} \cup InTransaction
Stages == {"idle", "reading"} \cup Calling

(* Connections with an open snapshot hold the read lock.  (Mutant: the two *)
(* SELECTs run without BEGIN.)                                             *)
NoReadLock == {}
Readers == {c \in Connections : pc[c] = "reading"}
Delivered(c) == pc[c] \in {"idle", "reading"} /\ answer[c] # None

Init ==
    /\ db = Seeded
    /\ writer = None
    /\ pc = [c \in Connections |-> "idle"]
    /\ request = [c \in Connections |-> None]
    /\ work = [c \in Connections |-> Seeded]
    /\ todo = [c \in Connections |-> {}]
    /\ expected = [c \in Connections |-> SeedRows]
    /\ answer = [c \in Connections |-> None]
    /\ seen = [c \in Connections |-> 0]
    /\ known = {}
    /\ outsideWrites = 0

Goto(c, stage) == pc' = [pc EXCEPT ![c] = stage]
(* connection.rollback().                                                  *)
Release(c) == writer' = IF writer = c THEN None ELSE writer

(* The locals of a call that is over, and of a transaction rolled back.    *)
Forget(c) ==
    /\ work' = [work EXCEPT ![c] = Seeded]
    /\ todo' = [todo EXCEPT ![c] = {}]
    /\ expected' = [expected EXCEPT ![c] = SeedRows]
    /\ seen' = [seen EXCEPT ![c] = 0]

(* The `except` clause: roll back, re-raise.  The caller gets no answer.   *)
Rollback(c) ==
    /\ Release(c)
    /\ Goto(c, "idle")
    /\ Forget(c)
    /\ request' = [request EXCEPT ![c] = None]
    /\ answer' = [answer EXCEPT ![c] = None]
    /\ UNCHANGED <<db, known, outsideWrites>>

-----------------------------------------------------------------------------
(* Catalog.snapshot: BEGIN, SELECT revision, SELECT rows, COMMIT.  The     *)
(* read lock is held from the first SELECT to the end.                     *)
ReadRevision(c) ==
    /\ pc[c] = "idle"
    /\ db.revision <= MaxRevision
    /\ seen' = [seen EXCEPT ![c] = db.revision]
    /\ Goto(c, "reading")
    /\ UNCHANGED <<db, writer, request, work, todo, expected, answer, known, outsideWrites>>

ReadRows(c) ==
    /\ pc[c] = "reading"
    /\ known' = known \cup {[revision |-> seen[c], rows |-> db.rows]}
    /\ seen' = [seen EXCEPT ![c] = 0]
    /\ Goto(c, "idle")
    /\ UNCHANGED <<db, writer, request, work, todo, expected, answer, outsideWrites>>

-----------------------------------------------------------------------------
(* Catalog.commit, called with a plan selected against some snapshot that  *)
(* was handed out: a first attempt or a retry, by any connection.          *)
Call(c) ==
    /\ pc[c] = "idle"
    /\ \E program \in Programs, operation \in Operations \cup {None},
          base \in known, plan \in Plans :
          request' = [request EXCEPT ![c] = [program |-> program, operation |-> operation,
                                             base |-> base, plan |-> plan]]
    /\ answer' = [answer EXCEPT ![c] = None]
    /\ Goto(c, "called")
    /\ UNCHANGED <<db, writer, work, todo, expected, seen, known, outsideWrites>>

(* BEGIN IMMEDIATE, or as a mutant BEGIN, which takes no lock.             *)
NoLock == TRUE
LockFree == writer = None

BeginImmediate(c) ==
    /\ pc[c] = "called"
    /\ LockFree
    /\ writer' = c
    /\ work' = [work EXCEPT ![c] = db]
    /\ Goto(c, "begun")
    /\ UNCHANGED <<db, request, todo, expected, answer, seen, known, outsideWrites>>

(* The busy timeout runs out while another connection holds the lock.      *)
(* (Mutant: wait forever.)                                                 *)
NoTimeout(c) == FALSE
LockTimeout(c) ==
    /\ pc[c] = "called"
    /\ ~LockFree
    /\ Rollback(c)

(* The receipt lookup, inside the transaction.                             *)
Existing(c) ==
    {receipt \in work[c].receipts : receipt.commit_id = CommitId(request[c])}

AnswerFrom(receipt, replay) ==
    [commit_id |-> receipt.commit_id, status |-> receipt.status,
     revision |-> receipt.revision, replay |-> replay]

(* `idempotent_replay', and a mutant that forgets to set it.               *)
Afresh(receipt) == AnswerFrom(receipt, FALSE)
Again(receipt) == AnswerFrom(receipt, TRUE)

(* The intent comparison; as a mutant, left out.                           *)
AnyIntent(c, receipt) == TRUE
SameIntent(c, receipt) == receipt.intent = IntentOf(request[c])

(* A receipt with this identity and intent exists: its result is returned. *)
ReplayReceipt(c) ==
    /\ pc[c] = "begun"
    /\ \E receipt \in Existing(c) :
          /\ SameIntent(c, receipt)
          /\ answer' = [answer EXCEPT ![c] = Again(receipt)]
    /\ Goto(c, "finishing")
    /\ UNCHANGED <<db, writer, request, work, todo, expected, seen, known, outsideWrites>>

(* `operation ID reused with different intent'.                            *)
RejectConflict(c) ==
    /\ pc[c] = "begun"
    /\ \E receipt \in Existing(c) : ~SameIntent(c, receipt)
    /\ Rollback(c)

(* The INSERT into foresee_receipts that closes a fresh decision; as a     *)
(* mutant, forgotten.                                                      *)
NotInserted(receipts, receipt) == receipts
Inserted(receipts, receipt) == receipts \cup {receipt}

Record(c, status, revision, rows) ==
    LET receipt == [commit_id |-> CommitId(request[c]), intent |-> IntentOf(request[c]),
                    status |-> status, revision |-> revision]
    IN  /\ work' = [work EXCEPT ![c] = [revision |-> revision, rows |-> rows,
                                        receipts |-> Inserted(@.receipts, receipt)]]
        /\ answer' = [answer EXCEPT ![c] = AnswerFrom(receipt, FALSE)]
        /\ Goto(c, "finishing")

(* Digest comparison; as a mutant, a digest of the rows alone.             *)
SameRows(c) == work[c].rows = request[c].base.rows
IsCurrent(c) == SnapshotOf(work[c]) = request[c].base

RecordStale(c) ==
    /\ pc[c] = "begun"
    /\ Existing(c) = {}
    /\ ~IsCurrent(c)
    /\ Record(c, "stale", work[c].revision, work[c].rows)
    /\ UNCHANGED <<db, writer, request, todo, expected, seen, known, outsideWrites>>

(* The effect is computed and judged before the first UPDATE.              *)
Admissible(c) ==
    /\ KnownRows(request[c].plan)
    /\ ValidArithmetic(Effect(work[c].rows, request[c].plan))

StartPatching(c) ==
    /\ pc[c] = "begun"
    /\ Existing(c) = {}
    /\ IsCurrent(c)
    /\ Admissible(c)
    /\ expected' = [expected EXCEPT ![c] = Effect(work[c].rows, request[c].plan)]
    /\ todo' = [todo EXCEPT ![c] = request[c].plan]
    /\ Goto(c, "patching")
    /\ UNCHANGED <<db, writer, request, work, answer, seen, known, outsideWrites>>

RejectEffect(c) ==
    /\ pc[c] = "begun"
    /\ Existing(c) = {}
    /\ IsCurrent(c)
    /\ ~Admissible(c)
    /\ Rollback(c)

(* UPDATE of one row; a trigger may rewrite the row's title behind it.     *)
Written(rows, p) ==
    [rows EXCEPT ![p.id] = [title |-> @.title + IF p.id \in TriggeredRows THEN 1 ELSE 0,
                            unit |-> p.unit_price_cents]]
WithRows(d, rows) == [revision |-> d.revision, rows |-> rows, receipts |-> d.receipts]

UpdateRow(c) ==
    /\ pc[c] = "patching"
    /\ \E p \in todo[c] :
          /\ work' = [work EXCEPT ![c] = WithRows(@, Written(@.rows, p))]
          /\ todo' = [todo EXCEPT ![c] = @ \ {p}]
    /\ UNCHANGED <<db, writer, pc, request, expected, answer, seen, known, outsideWrites>>

(* The postcondition; as a mutant, left out.                               *)
TrustUpdates(c) == TRUE
Postcondition(c) == work[c].rows = expected[c]

(* UPDATE of the revision, postcondition, receipt.                         *)
RecordApplied(c) ==
    /\ pc[c] = "patching"
    /\ todo[c] = {}
    /\ Postcondition(c)
    /\ Record(c, "applied", work[c].revision + 1, work[c].rows)
    /\ UNCHANGED <<db, writer, request, todo, expected, seen, known, outsideWrites>>

RejectPostcondition(c) ==
    /\ pc[c] = "patching"
    /\ todo[c] = {}
    /\ ~Postcondition(c)
    /\ Rollback(c)

-----------------------------------------------------------------------------
(* finish(): COMMIT.  A transaction that wrote nothing needs no exclusive  *)
(* lock; one that did waits for the readers, and times out on them.        *)
Commit(c) ==
    /\ pc[c] = "finishing"
    /\ work[c] = db \/ Readers = {}
    /\ db' = work[c]
    /\ writer' = None
    /\ Goto(c, "committed")
    /\ UNCHANGED <<request, work, todo, expected, answer, seen, known, outsideWrites>>

CommitTimeout(c) ==
    /\ pc[c] = "finishing"
    /\ work[c] # db /\ Readers # {}
    /\ Rollback(c)

Return(c) ==
    /\ pc[c] = "committed"
    /\ Forget(c)
    /\ Goto(c, "idle")
    /\ UNCHANGED <<db, writer, request, answer, known, outsideWrites>>

(* A SQLite error or a raising fault hook at any point of a call or of a   *)
(* snapshot, the after_commit hook included; or the process dies there and *)
(* SQLite rolls its transaction back.  Either way the caller has no answer *)
(* and cannot tell whether the commit happened.                            *)
Interrupt(c) ==
    /\ pc[c] # "idle"
    /\ Rollback(c)

(* mutate_for_stale_test, or any writer that keeps rows and revision in    *)
(* one transaction.                                                        *)
OutsideWrite ==
    /\ writer = None /\ Readers = {}
    /\ db.revision < MaxRevision
    /\ db' = [revision |-> db.revision + 1,
              rows |-> [db.rows EXCEPT ![OutsideRow] = [title |-> @.title + 1,
                                                        unit |-> @.unit]],
              receipts |-> db.receipts]
    /\ outsideWrites' = outsideWrites + 1
    /\ UNCHANGED <<writer, local, known>>

-----------------------------------------------------------------------------
Decide(c) ==
    \/ ReplayReceipt(c) \/ RejectConflict(c)
    \/ RecordStale(c)
    \/ StartPatching(c) \/ RejectEffect(c)

(* What the code itself does next, once called.                            *)
Step(c) ==
    \/ ReadRows(c)
    \/ BeginImmediate(c) \/ LockTimeout(c)
    \/ Decide(c)
    \/ UpdateRow(c) \/ RecordApplied(c) \/ RejectPostcondition(c)
    \/ Commit(c) \/ CommitTimeout(c)
    \/ Return(c)

Next ==
    \/ \E c \in Connections : ReadRevision(c) \/ Call(c) \/ Step(c) \/ Interrupt(c)
    \/ OutsideWrite

Spec == Init /\ [][Next]_vars

(* A call runs on one thread: it takes its next step unless its process    *)
(* stops, which Interrupt already models.                                  *)
FairSpec == Spec /\ \A c \in Connections : WF_vars(Step(c))
-----------------------------------------------------------------------------
TypeOK ==
    /\ db \in Database
    /\ writer \in Connections \cup {None}
    /\ pc \in [Connections -> Stages]
    /\ request \in [Connections -> Request \cup {None}]
    /\ work \in [Connections -> Database]
    /\ todo \in [Connections -> SUBSET [id : RowIds, unit_price_cents : Price]]
    /\ expected \in [Connections -> Rows]
    /\ answer \in [Connections -> Answer \cup {None}]
    /\ seen \in [Connections -> Nat]
    /\ known \subseteq Snapshot
    /\ outsideWrites \in Nat

-----------------------------------------------------------------------------
Applied == {receipt \in db.receipts : receipt.status = "applied"}

(* Every revision is one applied receipt or one outside write: no call,    *)
(* retry, race or crash moves the catalog without leaving its receipt, and *)
(* none moves it twice for one receipt.                                    *)
LedgerAccountsForRevision == db.revision = Cardinality(Applied) + outsideWrites

(* Receipts are keyed by commit identity: two connections that retry the   *)
(* same operation at once never record two decisions for it.               *)
OneReceiptPerIdentity ==
    \A r1, r2 \in db.receipts : r1.commit_id = r2.commit_id => r1 = r2

(* No lost update: a plan is applied only to the revision it was computed  *)
(* from, so of all the selections made against one snapshot at most one    *)
(* is applied, whatever operation ids their callers use.                   *)
NoLostUpdate ==
    /\ \A r \in Applied : /\ r.revision = r.intent.base.revision + 1
                         /\ r.revision <= db.revision
    /\ \A r1, r2 \in Applied : r1.revision = r2.revision => r1 = r2

(* A refusal is justified for good: the catalog had left the snapshot of   *)
(* the selection before the stale receipt was written.                     *)
StaleMeansMovedOn ==
    \A r \in db.receipts \ Applied :
        r.intent.base.revision < r.revision /\ r.revision <= db.revision

(* What commit returns, first answer or replay, is what the ledger says of *)
(* that identity, and says it of the caller's own intent.                  *)
AnswersMatchLedger ==
    \A c \in Connections : Delivered(c) =>
        \E r \in db.receipts :
            /\ r.commit_id = CommitId(request[c])
            /\ r.intent = IntentOf(request[c])
            /\ answer[c] = AnswerFrom(r, answer[c].replay)

(* `idempotent_replay: False' is said once per identity: two concurrent    *)
(* callers of one operation are never both told they made the change.      *)
OneFreshAnswer ==
    \A c, d \in Connections :
        /\ Delivered(c) /\ ~answer[c].replay
        /\ Delivered(d) /\ ~answer[d].replay
        /\ answer[c].commit_id = answer[d].commit_id
        => c = d

(* A snapshot is one committed state, never the revision of one and the    *)
(* rows of another: snapshots with the same revision have the same rows,   *)
(* and so do a snapshot and the catalog while the revision lasts.          *)
SnapshotsConsistent ==
    /\ \A s \in known : s.revision <= db.revision
    /\ \A s, t \in known \cup {SnapshotOf(db)} :
          s.revision = t.revision => s.rows = t.rows

(* Every committed unit price multiplies up to its pack price, after any   *)
(* interleaving of commits and of failures in the middle of a plan.        *)
UnitArithmetic == ValidArithmetic(db.rows)

(* The whole protocol of statements, locks, retries and crashes is, to the *)
(* outside, AtomicCommit: each identity decided once, in one step.         *)
Promise == INSTANCE AtomicCommit WITH db <- db
ImplementsAtomicCommit == Promise!Spec

(* A call always comes back: with an answer, or with an error that leaves  *)
(* the connection idle; no cycle of readers and writers waits forever.     *)
CallsReturn == \A c \in Connections : pc[c] \in Calling ~> pc[c] = "idle"
=============================================================================
