------------------------------ MODULE Recovery ------------------------------
(***************************************************************************)
(* Crash recovery (foresee/journal.py and the journaled half of            *)
(* foresee/runtime.py).  A run executes a decision: it reads snapshots,    *)
(* prepares every commit in the journal before it calls the target,        *)
(* records what the target answered and finally completes.  It may die     *)
(* between any two of these writes, since journal and target are separate  *)
(* databases.  `reconcile' later reads the target's receipts and settles   *)
(* what the journal says.                                                  *)
(*                                                                         *)
(* Catalog.commit is one step here: CatalogStore is shown to implement     *)
(* AtomicCommit.  A snapshot is its revision; an operation's intent is the *)
(* snapshot it was selected against.  An operation's identity is its run   *)
(* and its number within the run (in the code, a fresh UUID).              *)
(***************************************************************************)
EXTENDS Naturals, FiniteSets

CONSTANTS
    Runs,              \* runs, each executed by a worker of its own
    Databases,         \* catalog databases, each with its own target_id
    Reconcilers,       \* `foresee reconcile' processes
    None,              \* SQL NULL, Python None: no value
    StopFirst,         \* TRUE: workers are stopped before reconciling
    MaxEvidence,       \* max_evidence_bytes
    EventBytes,        \* what observing a snapshot adds to the evidence
    PayloadBytes,      \* what the payload of a commit event adds
    OutcomeBytes,      \* what its operation id and outcome add
    Reserve,           \* bytes reserved for them: reserve=4096
    MaxCommits,        \* bound: commits of one run
    MaxRevision,       \* bound: outside writes
    MaxDisturbances    \* bound: files moved, payloads damaged, reads failed

ASSUME RecoveryAssumption ==
    /\ StopFirst \in BOOLEAN
    /\ {MaxEvidence, EventBytes, PayloadBytes, OutcomeBytes, Reserve} \subseteq Nat
    /\ {MaxCommits, MaxRevision, MaxDisturbances} \subseteq Nat

(* An outcome with its identifiers always fits into the reserved bytes.    *)
ASSUME OutcomeFits == OutcomeBytes <= Reserve

VARIABLES
    path,          \* the database at the target's path, or None
    db,            \* each database: revision and receipts
    runs,          \* journal table `runs': the state of each run, or None
    operations,    \* journal table `operations': one row each, or None
    pc,            \* worker: where it is
    catalog,       \* worker: the database its open connection uses
    base,          \* worker: the last snapshot it read
    count,         \* worker: operations prepared so far
    outcome,       \* worker: what ended the run, or the last commit
    evidence,      \* worker: bytes of evidence
    stage,         \* reconciler: where it is
    selected,      \* reconciler: rows of `runs' still to be settled
    current,       \* reconciler: the row being settled
    left,          \* reconciler: its operations still to be looked up
    found,         \* reconciler: the outcome about to be recorded
    outcomes,      \* reconciler: the outcomes of this run so far
    disturbances   \* how often something outside went wrong

journal == <<runs, operations>>
worker == <<pc, catalog, base, count, outcome, evidence>>
reconciler == <<stage, selected, current, left, found, outcomes>>
vars == <<path, db, journal, worker, reconciler, disturbances>>

Ids == Runs \X (1..MaxCommits)
Terminal == {"applied", "stale"}
Outcomes == Terminal \cup {"unresolved"}
Receipt == [id : Ids, intent : Nat, status : Terminal]
OperationRow ==
    [target : Databases, intent : Nat, intact : BOOLEAN, state : Outcomes \cup {"prepared"}]
WithState(row, state) ==
    [target |-> row.target, intent |-> row.intent, intact |-> row.intact, state |-> state]
Damaged(row) ==
    [target |-> row.target, intent |-> row.intent, intact |-> FALSE, state |-> row.state]
RunState == {"started", "prepared", "completed", "reconciled", "unresolved"}
RunRow == [run : Runs, state : RunState]
Found == [id : Ids, status : Outcomes]

ASSUME NoneAssumption ==
    None \notin Databases \cup Nat \cup RunState \cup RunRow \cup OperationRow \cup Found

(* Outcomes of a decision other than those of a commit.                    *)
Stops == {"returned", "provider_error", "evidence_limit", "commit_unresolved"}

Active == {"running", "prepared", "decided", "recorded", "stopping"}
Stopped(r) == pc[r] \notin Active
This(r) == <<r, count[r]>>
Recorded == {id \in Ids : operations[id] # None}
OperationsOf(r) == {id \in Recorded : id[1] = r}

Init ==
    /\ path \in Databases
    /\ db = [d \in Databases |-> [revision |-> 0, receipts |-> {}]]
    /\ runs = [r \in Runs |-> None]
    /\ operations = [id \in Ids |-> None]
    /\ pc = [r \in Runs |-> "off"]
    /\ catalog = [r \in Runs |-> None]
    /\ base = [r \in Runs |-> None]
    /\ count = [r \in Runs |-> 0]
    /\ outcome = [r \in Runs |-> None]
    /\ evidence = [r \in Runs |-> 0]
    /\ stage = [k \in Reconcilers |-> "idle"]
    /\ selected = [k \in Reconcilers |-> {}]
    /\ current = [k \in Reconcilers |-> None]
    /\ left = [k \in Reconcilers |-> {}]
    /\ found = [k \in Reconcilers |-> None]
    /\ outcomes = [k \in Reconcilers |-> {}]
    /\ disturbances = 0

Goto(r, place) == pc' = [pc EXCEPT ![r] = place]
(* DecisionStop, or the return statement: the program is over.             *)
StopWith(r, status) ==
    /\ outcome' = [outcome EXCEPT ![r] = status]
    /\ Goto(r, "stopping")

(* The runtime's own state is gone with the worker.                        *)
Forget(r) ==
    /\ catalog' = [catalog EXCEPT ![r] = None]
    /\ base' = [base EXCEPT ![r] = None]
    /\ evidence' = [evidence EXCEPT ![r] = 0]

(* reserve_evidence: what a run may still observe, `reserve' kept free.    *)
Fits(r, bytes, reserve) == evidence[r] + bytes + reserve <= MaxEvidence
-----------------------------------------------------------------------------
(* The catalog is opened, Journal.start, and the interpreter begins.       *)
Start(r) ==
    /\ pc[r] = "off"
    /\ path # None
    /\ catalog' = [catalog EXCEPT ![r] = path]
    /\ runs' = [runs EXCEPT ![r] = "started"]
    /\ Goto(r, "running")
    /\ UNCHANGED <<path, db, operations, base, count, outcome, evidence, reconciler, disturbances>>

(* A snapshot is read and observed.                                        *)
Observe(r) ==
    /\ pc[r] = "running"
    /\ Fits(r, EventBytes, 0)
    /\ base' = [base EXCEPT ![r] = db[catalog[r]].revision]
    /\ evidence' = [evidence EXCEPT ![r] = @ + EventBytes]
    /\ UNCHANGED <<path, db, journal, pc, catalog, count, outcome, reconciler, disturbances>>

(* Observing a snapshot, or preparing a commit, would exceed the limit.    *)
(* The commit's whole event is reserved before the target is touched.      *)
CommitReserve == Reserve

EvidenceLimit(r) ==
    /\ pc[r] = "running"
    /\ ~Fits(r, EventBytes, 0) \/ (base[r] # None /\ ~Fits(r, PayloadBytes, CommitReserve))
    /\ StopWith(r, "evidence_limit")
    /\ UNCHANGED <<path, db, journal, catalog, base, count, evidence, reconciler, disturbances>>

(* The program returns, or its plan provider or its snapshot fails.        *)
Finish(r) ==
    /\ pc[r] = "running"
    /\ \E status \in {"returned", "provider_error"} : StopWith(r, status)
    /\ UNCHANGED <<path, db, journal, catalog, base, count, evidence, reconciler, disturbances>>

(* Journal.prepare: the operation's row, with the identity of the target   *)
(* the open connection belongs to, and the run's state, in one journal     *)
(* transaction.  (Mutant: the identity of whatever is at the path by now.) *)
AtPath(r) == path
TargetOf(r) == catalog[r]

Row(r) == [target |-> TargetOf(r), intent |-> base[r], intact |-> TRUE, state |-> "prepared"]

Prepare(r) ==
    /\ pc[r] = "running"
    /\ base[r] # None
    /\ count[r] < MaxCommits
    /\ Fits(r, PayloadBytes, CommitReserve)
    /\ operations' = [operations EXCEPT ![<<r, count[r] + 1>>] = Row(r)]
    /\ runs' = [runs EXCEPT ![r] = "prepared"]
    /\ count' = [count EXCEPT ![r] = @ + 1]
    /\ Goto(r, "prepared")
    /\ UNCHANGED <<path, db, catalog, base, outcome, evidence, reconciler, disturbances>>

(* Catalog.commit: applied to exactly the snapshot, or refused as stale;   *)
(* the receipt in the same transaction.                                    *)
Decide(r) ==
    /\ pc[r] = "prepared"
    /\ LET target == db[catalog[r]]
           applies == base[r] = target.revision
           status == IF applies THEN "applied" ELSE "stale"
           receipt == [id |-> This(r), intent |-> base[r], status |-> status]
       IN  /\ db' = [db EXCEPT ![catalog[r]] =
                        [revision |-> IF applies THEN target.revision + 1 ELSE target.revision,
                         receipts |-> target.receipts \cup {receipt}]]
           /\ outcome' = [outcome EXCEPT ![r] = status]
    /\ Goto(r, "decided")
    /\ UNCHANGED <<path, journal, catalog, base, count, evidence, reconciler, disturbances>>

(* The adapter raises, before its transaction committed or after: the      *)
(* worker cannot tell which.                                               *)
AdapterError(r) ==
    /\ pc[r] \in {"prepared", "decided"}
    /\ StopWith(r, "commit_unresolved")
    /\ UNCHANGED <<path, db, journal, catalog, base, count, evidence, reconciler, disturbances>>

(* Journal.record of the answer.                                           *)
RecordOutcome(r) ==
    /\ pc[r] = "decided"
    /\ operations' = [operations EXCEPT ![This(r)] = WithState(@, outcome[r])]
    /\ Goto(r, "recorded")
    /\ UNCHANGED <<path, db, runs, catalog, base, count, outcome, evidence, reconciler, disturbances>>

(* The commit event joins the evidence.  Its size is checked again by      *)
(* observe; EvidenceWithinLimit says the check cannot fail any more.       *)
ObserveCommit(r) ==
    /\ pc[r] = "recorded"
    /\ evidence' = [evidence EXCEPT ![r] = @ + PayloadBytes + OutcomeBytes]
    /\ Goto(r, "running")
    /\ UNCHANGED <<path, db, journal, catalog, base, count, outcome, reconciler, disturbances>>

(* The end of run(): the run is completed, unless a commit is in doubt.    *)
(* (Mutant: completed in any case.)                                        *)
AlwaysCertain(r) == TRUE
Certain(r) == outcome[r] # "commit_unresolved"

Complete(r) ==
    /\ pc[r] = "stopping"
    /\ runs' = IF Certain(r) THEN [runs EXCEPT ![r] = "completed"] ELSE runs
    /\ Goto(r, "done")
    /\ Forget(r)
    /\ UNCHANGED <<path, db, operations, count, outcome, reconciler, disturbances>>

(* The worker dies, or a journal error escapes from run().                 *)
Crash(r) ==
    /\ pc[r] \in Active
    /\ Goto(r, "dead")
    /\ Forget(r)
    /\ outcome' = [outcome EXCEPT ![r] = None]
    /\ UNCHANGED <<path, db, journal, count, reconciler, disturbances>>
-----------------------------------------------------------------------------
Enter(k, place) == stage' = [stage EXCEPT ![k] = place]

(* SELECT * FROM runs: the one asked for, or all of them.  No matching run *)
(* is an error that changes nothing.                                       *)
Started == {r \in Runs : runs[r] # None}

Begin(k, chosen) ==
    /\ stage[k] = "idle"
    /\ chosen # {}
    /\ StopFirst => \A r \in chosen : Stopped(r)
    /\ selected' = [selected EXCEPT ![k] = {[run |-> r, state |-> runs[r]] : r \in chosen}]
    /\ Enter(k, "runs")
    /\ UNCHANGED <<path, db, journal, worker, current, left, found, outcomes, disturbances>>

(* The next run, and SELECT * FROM operations of that run.                 *)
TakeRun(k) ==
    /\ stage[k] = "runs"
    /\ \E row \in selected[k] :
          /\ current' = [current EXCEPT ![k] = row]
          /\ selected' = [selected EXCEPT ![k] = @ \ {row}]
          /\ left' = [left EXCEPT ![k] =
                {[id |-> id, row |-> operations[id]] : id \in OperationsOf(row.run)}]
    /\ outcomes' = [outcomes EXCEPT ![k] = {}]
    /\ Enter(k, "operations")
    /\ UNCHANGED <<path, db, journal, worker, found, disturbances>>

(* receipt_outcome: the receipt of exactly this operation and intent, in   *)
(* exactly the recorded target, provided the journal's identities can be   *)
(* recomputed from its payload.  (Mutants: they are not recomputed; the    *)
(* receipt is looked up by its intent alone.)                              *)
AnyPayload(row) == path = row.target
Trustworthy(row) == path = row.target /\ row.intact

SameIntent(id, row) == {receipt \in db[row.target].receipts : receipt.intent = row.intent}
Receipts(id, row) ==
    {receipt \in db[row.target].receipts : receipt.id = id /\ receipt.intent = row.intent}
Matching(id, row) == IF Trustworthy(row) THEN Receipts(id, row) ELSE {}

Find(k, operation, status) ==
    /\ found' = [found EXCEPT ![k] = [id |-> operation.id, status |-> status]]
    /\ left' = [left EXCEPT ![k] = @ \ {operation}]
    /\ Enter(k, "recording")
    /\ UNCHANGED <<path, db, journal, worker, selected, current, outcomes>>

ReadReceipt(k) ==
    /\ stage[k] = "operations"
    /\ \E operation \in left[k] :
          \E receipt \in Matching(operation.id, operation.row) :
              Find(k, operation, receipt.status)
    /\ UNCHANGED disturbances

NoReceipt(k) ==
    /\ stage[k] = "operations"
    /\ \E operation \in left[k] :
          /\ Matching(operation.id, operation.row) = {}
          /\ Find(k, operation, "unresolved")
    /\ UNCHANGED disturbances

(* `evidence unavailable': the target is locked or cannot be read.         *)
ReadError(k) ==
    /\ stage[k] = "operations"
    /\ disturbances < MaxDisturbances
    /\ \E operation \in left[k] : Find(k, operation, "unresolved")
    /\ disturbances' = disturbances + 1

(* journal.record of what was found, whatever the row says meanwhile.      *)
RecordFound(k) ==
    /\ stage[k] = "recording"
    /\ operations' = [operations EXCEPT ![found[k].id] = WithState(@, found[k].status)]
    /\ outcomes' = [outcomes EXCEPT ![k] = @ \cup {found[k].status}]
    /\ found' = [found EXCEPT ![k] = None]
    /\ Enter(k, "operations")
    /\ UNCHANGED <<path, db, runs, worker, selected, current, left, disturbances>>

(* `bool(outcomes) and all(...)'.                                          *)
Resolved(k) == outcomes[k] # {} /\ "unresolved" \notin outcomes[k]

(* The state written for the run.  (Mutants: it forgets that the run had   *)
(* been completed; it calls every resolved run completed.)                 *)
Forgetful(k) == IF Resolved(k) THEN "reconciled" ELSE "unresolved"
Promoted(k) == IF Resolved(k) THEN "completed" ELSE "unresolved"
NewState(k) ==
    IF current[k].state = "completed" /\ (Resolved(k) \/ outcomes[k] = {}) THEN "completed"
    ELSE IF Resolved(k) THEN "reconciled" ELSE "unresolved"

UpdateRun(k) ==
    /\ stage[k] = "operations"
    /\ left[k] = {}
    /\ runs' = [runs EXCEPT ![current[k].run] = NewState(k)]
    /\ current' = [current EXCEPT ![k] = None]
    /\ outcomes' = [outcomes EXCEPT ![k] = {}]
    /\ Enter(k, IF selected[k] = {} THEN "idle" ELSE "runs")
    /\ UNCHANGED <<path, db, operations, worker, selected, left, found, disturbances>>

(* The process dies, or the journal raises.                                *)
CrashReconcile(k) ==
    /\ stage[k] # "idle"
    /\ disturbances < MaxDisturbances
    /\ disturbances' = disturbances + 1
    /\ Enter(k, "idle")
    /\ selected' = [selected EXCEPT ![k] = {}]
    /\ current' = [current EXCEPT ![k] = None]
    /\ left' = [left EXCEPT ![k] = {}]
    /\ found' = [found EXCEPT ![k] = None]
    /\ outcomes' = [outcomes EXCEPT ![k] = {}]
    /\ UNCHANGED <<path, db, journal, worker>>
-----------------------------------------------------------------------------
(* The world outside.  Another writer of a database; the file at the       *)
(* target's path removed, replaced or put back; a payload in the journal   *)
(* damaged.                                                                *)
OutsideWrite(d) ==
    /\ db[d].revision < MaxRevision
    /\ db' = [db EXCEPT ![d] = [revision |-> @.revision + 1, receipts |-> @.receipts]]
    /\ UNCHANGED <<path, journal, worker, reconciler, disturbances>>

Disturb ==
    /\ disturbances < MaxDisturbances
    /\ disturbances' = disturbances + 1
    /\ UNCHANGED <<db, runs, worker, reconciler>>

MoveTarget ==
    /\ Disturb
    /\ path' \in (Databases \cup {None}) \ {path}
    /\ UNCHANGED operations

DamagePayload ==
    /\ Disturb
    /\ \E id \in Recorded : operations' = [operations EXCEPT ![id] = Damaged(@)]
    /\ UNCHANGED path
-----------------------------------------------------------------------------
(* What a worker does by itself once started, and what may end it.         *)
Proceed(r) ==
    \/ Observe(r) \/ EvidenceLimit(r) \/ Finish(r)
    \/ Prepare(r) \/ Decide(r) \/ RecordOutcome(r) \/ ObserveCommit(r)
    \/ Complete(r)

Work(r) == Proceed(r) \/ AdapterError(r) \/ Crash(r)

Settle(k) ==
    \/ TakeRun(k)
    \/ ReadReceipt(k) \/ NoReceipt(k) \/ ReadError(k) \/ RecordFound(k)
    \/ UpdateRun(k)

Next ==
    \/ \E r \in Runs : Start(r) \/ Work(r)
    \/ \E k \in Reconcilers :
          \/ \E r \in Started : Begin(k, {r})
          \/ Begin(k, Started)
          \/ Settle(k)
          \/ CrashReconcile(k)
    \/ \E d \in Databases : OutsideWrite(d)
    \/ MoveTarget \/ DamagePayload

Spec == Init /\ [][Next]_vars

(* A worker and a reconciler are single-threaded processes: they take      *)
(* their next step unless something ends them.  And `reconcile' is run on  *)
(* the whole journal again and again.                                      *)
FairSpec ==
    /\ Spec
    /\ \A r \in Runs : WF_vars(Proceed(r))
    /\ \A k \in Reconcilers : WF_vars(Settle(k)) /\ SF_vars(Begin(k, Started))
-----------------------------------------------------------------------------
TypeOK ==
    /\ path \in Databases \cup {None}
    /\ db \in [Databases -> [revision : Nat, receipts : SUBSET Receipt]]
    /\ runs \in [Runs -> RunState \cup {None}]
    /\ operations \in [Ids -> OperationRow \cup {None}]
    /\ pc \in [Runs -> Active \cup {"off", "done", "dead"}]
    /\ catalog \in [Runs -> Databases \cup {None}]
    /\ base \in [Runs -> Nat \cup {None}]
    /\ count \in [Runs -> 0..MaxCommits]
    /\ outcome \in [Runs -> Terminal \cup Stops \cup {None}]
    /\ evidence \in [Runs -> Nat]
    /\ stage \in [Reconcilers -> {"idle", "runs", "operations", "recording"}]
    /\ selected \in [Reconcilers -> SUBSET RunRow]
    /\ current \in [Reconcilers -> RunRow \cup {None}]
    /\ left \in [Reconcilers -> SUBSET [id : Ids, row : OperationRow]]
    /\ found \in [Reconcilers -> Found \cup {None}]
    /\ outcomes \in [Reconcilers -> SUBSET Outcomes]
    /\ disturbances \in Nat

-----------------------------------------------------------------------------
(* The target's own ledger decided this operation, as intended.            *)
DecidedAs(id, status) ==
    [id |-> id, intent |-> operations[id].intent, status |-> status]
        \in db[operations[id].target].receipts
Decided(id) == \E status \in Terminal : DecidedAs(id, status)

(* What the journal says of an operation's effect is what happened in the  *)
(* very database it was prepared for: no crash, replaced file, damaged     *)
(* payload or race between worker and reconcilers makes it claim otherwise.*)
RecordedOutcomeIsTrue ==
    \A id \in Recorded :
        operations[id].state \in Terminal => DecidedAs(id, operations[id].state)

(* Intent first: whatever instant a worker dies at, every receipt in every *)
(* database has its operation in the journal, naming that database and     *)
(* that intent, so that reconciliation can find it.                        *)
IntentBeforeEffect ==
    \A d \in Databases : \A receipt \in db[d].receipts :
        /\ receipt.id \in Recorded
        /\ operations[receipt.id].target = d
        /\ operations[receipt.id].intent = receipt.intent

(* A run reported as completed or reconciled has no operation whose effect *)
(* is still in doubt.  (Where workers are stopped before reconciling.)     *)
SettledRunsAreDecided ==
    \A r \in Runs : runs[r] \in {"completed", "reconciled"} =>
        \A id \in OperationsOf(r) : Decided(id)

(* `A previously completed run stays completed when its evidence remains   *)
(* consistent': completion is only ever revoked with an operation of the   *)
(* run recorded as unresolved.  (With one reconciler at a time.)           *)
CompletionSticks ==
    [][\A r \in Runs : runs[r] = "completed" /\ runs'[r] # "completed" =>
          \E id \in OperationsOf(r) : operations[id].state = "unresolved"]_vars

(* A run whose worker was interrupted is never called completed: what its  *)
(* remaining statements would have done is not known.                      *)
OnlyTheWorkerCompletes ==
    \A r \in Runs : runs[r] = "completed" => pc[r] = "done" /\ Certain(r)

(* The reserve makes the second size check redundant: an effect on the     *)
(* target is never left out of the evidence for lack of room.              *)
EvidenceWithinLimit == \A r \in Runs : evidence[r] <= MaxEvidence

(* The evidence reconciliation needs is there to be read.                  *)
Evident(id) == operations[id].intact /\ path = operations[id].target /\ Decided(id)

SettledRightly(r) ==
    IF OperationsOf(r) = {}
    THEN runs[r] = IF pc[r] = "done" THEN "completed" ELSE "unresolved"
    ELSE /\ runs[r] \in {"completed", "reconciled"} <=> \A id \in OperationsOf(r) : Evident(id)
         /\ \A id \in OperationsOf(r) :
                IF Evident(id) THEN DecidedAs(id, operations[id].state)
                ELSE operations[id].state = "unresolved"

(* Whatever happened before, once nothing more happens outside, repeated   *)
(* reconciliation brings every run and operation to what the evidence      *)
(* shows, and keeps it there.                                              *)
EventuallySettled == <>[](\A r \in Started : SettledRightly(r))
=============================================================================
