---------------------------- MODULE AtomicCommit ----------------------------
(***************************************************************************)
(* What the Foresee catalog promises its callers, with no transactions,    *)
(* locks, connections or crashes in sight: every commit identity is        *)
(* decided at most once, forever and in a single step, as `applied`        *)
(* against exactly the catalog it was computed from, or as `stale`.        *)
(***************************************************************************)
EXTENDS CatalogData

VARIABLE db     \* the catalog database: revision, rows and receipt ledger

Init == db = Seeded

(* The selection was computed from exactly the current catalog: its        *)
(* patches, the next revision and the receipt appear together.             *)
Apply(receipt) ==
    LET plan == receipt.intent.plan IN
    /\ receipt.status = "applied"
    /\ receipt.intent.base = SnapshotOf(db)
    /\ KnownRows(plan)
    /\ ValidArithmetic(Effect(db.rows, plan))
    /\ receipt.revision = db.revision + 1
    /\ db' = [revision |-> db.revision + 1,
              rows |-> Effect(db.rows, plan),
              receipts |-> db.receipts \cup {receipt}]

(* The catalog is not the one the selection saw: only the refusal is kept. *)
Refuse(receipt) ==
    /\ receipt.status = "stale"
    /\ receipt.intent.base # SnapshotOf(db)
    /\ receipt.revision = db.revision
    /\ db' = [revision |-> db.revision, rows |-> db.rows,
              receipts |-> db.receipts \cup {receipt}]

(* The receipt names the request it decides, which had no receipt before.  *)
Decide ==
    \E receipt \in db'.receipts \ db.receipts :
        /\ \E op \in Operations \cup {None} :
              receipt.commit_id = Identity(op, receipt.intent)
        /\ Undecided(db, receipt.commit_id)
        /\ Apply(receipt) \/ Refuse(receipt)

(* Another participating writer: a title and the revision change together. *)
OutsideWrite ==
    db' = [revision |-> db.revision + 1,
           rows |-> [db.rows EXCEPT ![OutsideRow] =
                        [title |-> db'.rows[OutsideRow].title, unit |-> @.unit]],
           receipts |-> db.receipts]

Next == Decide \/ OutsideWrite

Spec == Init /\ [][Next]_db
=============================================================================
