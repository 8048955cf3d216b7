---------------------------- MODULE CatalogData ----------------------------
(***************************************************************************)
(* The vocabulary of the Foresee catalog (foresee/catalog.py): rows,       *)
(* snapshots, plans, requests, commit identities, receipts and the effect  *)
(* of a plan.  A digest covers its whole argument, so it is modelled by    *)
(* its argument: equal digests mean equal snapshots, intents, identities.  *)
(***************************************************************************)
EXTENDS Integers, FiniteSets

CONSTANTS
    RowIds,        \* primary keys of catalog_rows
    Pack,          \* Pack[r]: pack_price_cents of row r, never rewritten
    Units,         \* Units[r]: units_per_pack of row r, never rewritten
    SeedRows,      \* the rows the catalog is seeded with
    OutsideRow,    \* the row another participating writer retitles
    Programs,      \* program digests
    Operations,    \* caller-supplied operation ids
    Plans,         \* plans that can be selected: sets of patches
    MaxInteger,    \* SQLite's largest signed integer
    None           \* absence: no unit price, no operation id, no answer

Price == 0 .. MaxInteger
Row == [title : Nat, unit : Price \cup {None}]
Rows == [RowIds -> Row]
Snapshot == [revision : Nat, rows : Rows]

(* Catalog._validate_plan: patches of a row id and a price in SQLite's     *)
(* range, no row patched twice.  A plan that fails it raises before any    *)
(* transaction.                                                            *)
ValidPlan(plan) ==
    /\ \A p \in plan : p \in [id : {p.id}, unit_price_cents : Price]
    /\ \A p, q \in plan : p.id = q.id => p = q

ASSUME RowsAssumption ==
    /\ MaxInteger \in Nat
    /\ SeedRows \in Rows
    /\ Pack \in [RowIds -> Nat]
    /\ Units \in [RowIds -> Nat \ {0}]
    /\ OutsideRow \in RowIds

ASSUME PlansAssumption ==
    \A plan \in Plans : ValidPlan(plan)

(* What a caller hands to Catalog.commit; `base` stands for its digest.    *)
Request == [program : Programs, operation : Operations \cup {None},
            base : Snapshot, plan : Plans]

Intent == [program : Programs, base : Snapshot, plan : Plans]
IntentOf(r) == [program |-> r.program, base |-> r.base, plan |-> r.plan]

(* commit_identity: an explicit operation id names the operation; without  *)
(* one, program and snapshot do.  The plan is never part of the identity.  *)
CommitIds == [operation : Operations \cup {None},
              default : (Programs \X Snapshot) \cup {None}]
Identity(operation, intent) ==
    [operation |-> operation,
     default |-> IF operation = None THEN <<intent.program, intent.base>> ELSE None]
CommitId(r) == Identity(r.operation, IntentOf(r))

Status == {"applied", "stale"}
Receipt == [commit_id : CommitIds, intent : Intent, status : Status, revision : Nat]

(* What Catalog.commit returns when it returns at all.                     *)
Answer == [commit_id : CommitIds, status : Status, revision : Nat, replay : BOOLEAN]

ASSUME NoneAssumption ==
    None \notin Price \cup Operations \cup Answer

(* Catalog.apply_to_snapshot and Catalog.valid_unit_arithmetic.            *)
KnownRows(plan) == \A p \in plan : p.id \in RowIds
PriceFor(plan, r) == (CHOOSE p \in plan : p.id = r).unit_price_cents
Effect(rows, plan) ==
    [r \in RowIds |-> IF \E p \in plan : p.id = r
                     THEN [title |-> rows[r].title, unit |-> PriceFor(plan, r)]
                     ELSE rows[r]]
ValidArithmetic(rows) ==
    \A r \in {id \in RowIds : rows[id].unit # None} :
        rows[r].unit * Units[r] = Pack[r]

ASSUME SeedAssumption == ValidArithmetic(SeedRows)

(* The tables of the target database.                                      *)
Database == [revision : Nat, rows : Rows, receipts : SUBSET Receipt]
Seeded == [revision |-> 0, rows |-> SeedRows, receipts |-> {}]

SnapshotOf(d) == [revision |-> d.revision, rows |-> d.rows]
Undecided(d, id) == \A receipt \in d.receipts : receipt.commit_id # id
============================================================================
