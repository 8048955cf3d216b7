--------------------------- MODULE RecoveryProofs ---------------------------
(***************************************************************************)
(* TLAPS proofs about Recovery, for any number of runs, databases,         *)
(* reconcilers, commits and disturbances: what the journal records is      *)
(* true, intent precedes effect, the evidence limit never costs a commit,  *)
(* and, where workers are stopped first, settled runs are decided.         *)
(***************************************************************************)
EXTENDS RecoveryInvariants, TLAPS

LEMMA ThisType ==
    ASSUME NEW r \in Runs, NEW n \in 1..MaxCommits
    PROVE  <<r, n>> \in Ids
BY DEF Ids

(* A reconciler begins with some of the started runs.                      *)
LEMMA BeginCases ==
    ASSUME [Next]_vars
    PROVE  \/ \E r \in Runs : Start(r) \/ Work(r)
           \/ \E k \in Reconcilers :
                 \/ \E chosen \in SUBSET Started : Begin(k, chosen)
                 \/ Settle(k)
                 \/ CrashReconcile(k)
           \/ \E d \in Databases : OutsideWrite(d)
           \/ MoveTarget \/ DamagePayload
           \/ UNCHANGED vars
<1>1. ASSUME NEW k \in Reconcilers, NEW r \in Started, Begin(k, {r})
      PROVE  \E chosen \in SUBSET Started : Begin(k, chosen)
  <2>1. {r} \in SUBSET Started
    OBVIOUS
  <2> QED
    BY <1>1, <2>1
<1>2. Started \in SUBSET Started
    OBVIOUS
<1> QED
    BY <1>1, <1>2 DEF Next

LEMMA TypePreserved ==
    ASSUME JournalInv, [Next]_vars
    PROVE  TypeOK'
<1> USE DEF JournalInv
<1>1. ASSUME NEW r \in Runs, Start(r)
      PROVE  TypeOK'
    BY <1>1 DEF TypeOK, Start, Goto, reconciler, Active, RunState
<1>2. ASSUME NEW r \in Runs, Observe(r)
      PROVE  TypeOK'
  <2>1. catalog[r] \in Databases
    BY <1>2 DEF Observe, WorkerInv, WorkerOf, Active
  <2>2. db[catalog[r]].revision \in Nat /\ evidence[r] + EventBytes \in Nat
    BY <2>1, RecoveryAssumption DEF TypeOK
  <2> QED
    BY <1>2, <2>2 DEF TypeOK, Observe, journal, reconciler
<1>3. ASSUME NEW r \in Runs, EvidenceLimit(r) \/ Finish(r) \/ AdapterError(r)
      PROVE  TypeOK'
    BY <1>3 DEF TypeOK, EvidenceLimit, Finish, AdapterError, StopWith, Goto, Stops, Active,
                journal, reconciler
<1>4. ASSUME NEW r \in Runs, Prepare(r)
      PROVE  TypeOK'
  <2>1. /\ count[r] + 1 \in 1..MaxCommits
        /\ count[r] + 1 \in 0..MaxCommits
    BY <1>4, RecoveryAssumption DEF TypeOK, Prepare
  <2>2. Row(r) \in OperationRow
    BY <1>4 DEF TypeOK, Prepare, WorkerInv, WorkerOf, Active, Row, TargetOf, OperationRow
  <2>3. operations' \in [Ids -> OperationRow \cup {None}]
    BY <1>4, <2>1, <2>2, ThisType DEF TypeOK, Prepare
  <2>4. runs' \in [Runs -> RunState \cup {None}] /\ count' \in [Runs -> 0..MaxCommits]
    BY <1>4, <2>1 DEF TypeOK, Prepare, RunState
  <2> QED
    BY <1>4, <2>3, <2>4 DEF TypeOK, Prepare, Goto, Active, reconciler
<1>5. ASSUME NEW r \in Runs, Decide(r)
      PROVE  TypeOK'
  <2>1. /\ catalog[r] \in Databases
        /\ This(r) \in Ids
        /\ base[r] \in Nat
    BY <1>5 DEF TypeOK, Decide, WorkerInv, WorkerOf, Active, Recorded, OperationRow
  <2>2. PICK status \in Terminal, revision \in Nat :
           /\ db' = [db EXCEPT ![catalog[r]] =
                        [revision |-> revision,
                         receipts |-> db[catalog[r]].receipts \cup
                             {[id |-> This(r), intent |-> base[r], status |-> status]}]]
           /\ outcome' = [outcome EXCEPT ![r] = status]
    <3>1. db[catalog[r]].revision \in Nat /\ db[catalog[r]].revision + 1 \in Nat
      BY <2>1 DEF TypeOK
    <3>2. CASE base[r] = db[catalog[r]].revision
      BY <1>5, <3>1, <3>2 DEF Decide, Terminal
    <3>3. CASE base[r] # db[catalog[r]].revision
      BY <1>5, <3>1, <3>3 DEF Decide, Terminal
    <3> QED
      BY <3>2, <3>3
  <2>3. [id |-> This(r), intent |-> base[r], status |-> status] \in Receipt
    BY <2>1 DEF Receipt
  <2>4. db' \in [Databases -> [revision : Nat, receipts : SUBSET Receipt]]
    BY <2>1, <2>2, <2>3 DEF TypeOK
  <2> QED
    BY <1>5, <2>2, <2>4 DEF TypeOK, Decide, Goto, Active, journal, reconciler
<1>6. ASSUME NEW r \in Runs, RecordOutcome(r)
      PROVE  TypeOK'
  <2>1. This(r) \in Ids /\ operations[This(r)] \in OperationRow
    BY <1>6 DEF TypeOK, RecordOutcome, WorkerInv, WorkerOf, Recorded
  <2>2. outcome[r] \in Terminal
    <3>1. DecidedAs(This(r), outcome[r]) /\ operations[This(r)].target \in Databases
      BY <1>6, <2>1 DEF RecordOutcome, WorkerInv, WorkerOf, OperationRow
    <3>2. [id |-> This(r), intent |-> operations[This(r)].intent, status |-> outcome[r]] \in Receipt
      BY <3>1 DEF TypeOK, DecidedAs
    <3> QED
      BY <3>2 DEF Receipt
  <2>3. WithState(operations[This(r)], outcome[r]) \in OperationRow
    BY <2>1, <2>2 DEF WithState, OperationRow, Outcomes
  <2> QED
    BY <1>6, <2>1, <2>3 DEF TypeOK, RecordOutcome, Goto, Active, reconciler
<1>7. ASSUME NEW r \in Runs, ObserveCommit(r)
      PROVE  TypeOK'
  <2>1. evidence[r] + PayloadBytes + OutcomeBytes \in Nat
    BY RecoveryAssumption DEF TypeOK
  <2> QED
    BY <1>7, <2>1 DEF TypeOK, ObserveCommit, Goto, Active, journal, reconciler
<1>8. ASSUME NEW r \in Runs, Complete(r)
      PROVE  TypeOK'
    BY <1>8 DEF TypeOK, Complete, Forget, Goto, RunState, reconciler
<1>9. ASSUME NEW r \in Runs, Crash(r)
      PROVE  TypeOK'
    BY <1>9 DEF TypeOK, Crash, Forget, Goto, journal, reconciler
<1>10. ASSUME NEW k \in Reconcilers, NEW chosen \in SUBSET Started, Begin(k, chosen)
       PROVE  TypeOK'
  <2>1. {[run |-> r, state |-> runs[r]] : r \in chosen} \in SUBSET RunRow
    BY DEF TypeOK, Started, RunRow
  <2> QED
    BY <1>10, <2>1 DEF TypeOK, Begin, Enter, journal, worker
<1>11. ASSUME NEW k \in Reconcilers, TakeRun(k)
       PROVE  TypeOK'
  <2>1. PICK row \in selected[k] :
           /\ current' = [current EXCEPT ![k] = row]
           /\ selected' = [selected EXCEPT ![k] = @ \ {row}]
           /\ left' = [left EXCEPT ![k] =
                 {[id |-> id, row |-> operations[id]] : id \in OperationsOf(row.run)}]
    BY <1>11 DEF TakeRun
  <2>2. {[id |-> id, row |-> operations[id]] : id \in OperationsOf(row.run)}
            \in SUBSET [id : Ids, row : OperationRow]
    BY DEF TypeOK, OperationsOf, Recorded
  <2> QED
    BY <1>11, <2>1, <2>2 DEF TypeOK, TakeRun, Enter, journal, worker
<1>12. ASSUME NEW k \in Reconcilers, ReadReceipt(k) \/ NoReceipt(k) \/ ReadError(k)
       PROVE  TypeOK'
  <2>1. PICK operation \in left[k], status \in Outcomes : Find(k, operation, status)
    <3>1. CASE ReadReceipt(k)
      <4>1. PICK operation \in left[k] :
               \E receipt \in Matching(operation.id, operation.row) :
                   Find(k, operation, receipt.status)
        BY <3>1 DEF ReadReceipt
      <4>2. operation.row.target \in Databases
        BY DEF TypeOK, OperationRow
      <4>3. Matching(operation.id, operation.row) \subseteq Receipt
        BY <4>2 DEF Matching, Receipts, TypeOK
      <4> QED
        BY <4>1, <4>3 DEF Receipt, Outcomes
    <3> QED
      BY <1>12, <3>1 DEF NoReceipt, ReadError, Outcomes
  <2>2. disturbances' \in Nat
    BY <1>12 DEF TypeOK, ReadReceipt, NoReceipt, ReadError
  <2>3. [id |-> operation.id, status |-> status] \in Found
    BY DEF TypeOK, Found
  <2> QED
    BY <2>1, <2>2, <2>3 DEF TypeOK, Find, Enter, journal, worker
<1>13. ASSUME NEW k \in Reconcilers, RecordFound(k)
       PROVE  TypeOK'
  <2>1. found[k] \in Found /\ operations[found[k].id] \in OperationRow
    BY <1>13 DEF TypeOK, RecordFound, FetchedInv, FetchedOf, Recorded, Found
  <2>2. WithState(operations[found[k].id], found[k].status) \in OperationRow
    BY <2>1 DEF WithState, OperationRow, Found
  <2> QED
    BY <1>13, <2>1, <2>2 DEF TypeOK, RecordFound, Enter, Found, worker
<1>14. ASSUME NEW k \in Reconcilers, UpdateRun(k)
       PROVE  TypeOK'
  <2>1. NewState(k) \in RunState
    BY DEF NewState, RunState
  <2> QED
    BY <1>14, <2>1 DEF TypeOK, UpdateRun, Enter, worker
<1>15. ASSUME NEW k \in Reconcilers, CrashReconcile(k)
       PROVE  TypeOK'
    BY <1>15 DEF TypeOK, CrashReconcile, Enter, journal, worker
<1>16. ASSUME NEW d \in Databases, OutsideWrite(d)
       PROVE  TypeOK'
  <2>1. db[d].revision + 1 \in Nat
    BY DEF TypeOK
  <2> QED
    BY <1>16, <2>1 DEF TypeOK, OutsideWrite, journal, worker, reconciler
<1>17. ASSUME MoveTarget
       PROVE  TypeOK'
    BY <1>17 DEF TypeOK, MoveTarget, Disturb, worker, reconciler
<1>18. ASSUME DamagePayload
       PROVE  TypeOK'
  <2>1. PICK id \in Recorded : operations' = [operations EXCEPT ![id] = Damaged(@)]
    BY <1>18 DEF DamagePayload
  <2>2. id \in Ids /\ Damaged(operations[id]) \in OperationRow
    BY DEF TypeOK, Recorded, Damaged, OperationRow
  <2>3. operations' \in [Ids -> OperationRow \cup {None}]
    BY <2>1, <2>2 DEF TypeOK
  <2>4. UNCHANGED <<path, db, runs, worker, reconciler>> /\ disturbances' \in Nat
    BY <1>18 DEF TypeOK, DamagePayload, Disturb
  <2> QED
    BY <2>3, <2>4 DEF TypeOK, worker, reconciler
<1>19. ASSUME UNCHANGED vars
       PROVE  TypeOK'
    BY <1>19 DEF TypeOK, vars, journal, worker, reconciler
<1> QED
    BY <1>1, <1>2, <1>3, <1>4, <1>5, <1>6, <1>7, <1>8, <1>9, <1>10, <1>11, <1>12, <1>13,
       <1>14, <1>15, <1>16, <1>17, <1>18, <1>19, BeginCases
       DEF Work, Proceed, Settle

-----------------------------------------------------------------------------
(* The ledgers change by a decision or by an outside write, the journal's  *)
(* operations by four actions; every other step leaves both alone.         *)
LEMMA LedgerCases ==
    ASSUME [Next]_vars
    PROVE  \/ \E r \in Runs : Decide(r)
           \/ \E d \in Databases : OutsideWrite(d)
           \/ db' = db
BY BeginCases
   DEF Work, Proceed, Settle, vars, Start, Observe, EvidenceLimit, Finish, Prepare, AdapterError,
       RecordOutcome, ObserveCommit, Complete, Crash, Begin, TakeRun, ReadReceipt, NoReceipt,
       ReadError, Find, RecordFound, UpdateRun, CrashReconcile, MoveTarget, DamagePayload, Disturb

LEMMA OperationCases ==
    ASSUME [Next]_vars
    PROVE  \/ \E r \in Runs : Prepare(r) \/ RecordOutcome(r)
           \/ \E k \in Reconcilers : RecordFound(k)
           \/ DamagePayload
           \/ operations' = operations
BY BeginCases
   DEF Work, Proceed, Settle, vars, journal, Start, Observe, EvidenceLimit, Finish, Decide, AdapterError,
       ObserveCommit, Complete, Crash, Begin, TakeRun, ReadReceipt, NoReceipt,
       ReadError, Find, UpdateRun, CrashReconcile, OutsideWrite, MoveTarget, Disturb

(* Receipts are never removed.                                             *)
LEMMA ReceiptsStay ==
    ASSUME JournalInv, [Next]_vars, NEW d \in Databases
    PROVE  db[d].receipts \subseteq db'[d].receipts
<1>1. ASSUME NEW r \in Runs, Decide(r)
      PROVE  db[d].receipts \subseteq db'[d].receipts
  <2>1. catalog[r] \in Databases
    BY <1>1 DEF JournalInv, WorkerInv, WorkerOf, Decide, Active
  <2> QED
    BY <1>1, <2>1 DEF Decide, JournalInv, TypeOK
<1>2. ASSUME NEW e \in Databases, OutsideWrite(e)
      PROVE  db[d].receipts \subseteq db'[d].receipts
    BY <1>2 DEF OutsideWrite, JournalInv, TypeOK
<1> QED
    BY <1>1, <1>2, LedgerCases

(* The next operation of a run is not in the journal yet; the one under    *)
(* way is.                                                                 *)
LEMMA NextIsNew ==
    ASSUME JournalInv, NEW r \in Runs, Prepare(r)
    PROVE  /\ count[r] + 1 \in 1..MaxCommits
           /\ <<r, count[r] + 1>> \in Ids
           /\ <<r, count[r] + 1>> \notin Recorded
           /\ Row(r) \in OperationRow
<1>1. count[r] + 1 \in 1..MaxCommits
    BY RecoveryAssumption DEF JournalInv, TypeOK, Prepare
<1>2. ~(count[r] + 1 <= count[r])
    BY DEF JournalInv, TypeOK
<1>3. <<r, count[r] + 1>> \notin Recorded
    BY <1>1, <1>2 DEF JournalInv, CountInv
<1>4. Row(r) \in OperationRow
    BY DEF JournalInv, TypeOK, Prepare, WorkerInv, WorkerOf, Active, Row, TargetOf, OperationRow
<1> QED
    BY <1>1, <1>3, <1>4, ThisType

(* A row of the journal keeps its target and its intent for ever.          *)
LEMMA RowsStay ==
    ASSUME JournalInv, [Next]_vars, NEW id \in Recorded
    PROVE  /\ id \in Recorded'
           /\ operations'[id].target = operations[id].target
           /\ operations'[id].intent = operations[id].intent
<1> DEFINE Stays == /\ operations'[id] # None
                   /\ operations'[id].target = operations[id].target
                   /\ operations'[id].intent = operations[id].intent
<1>0. /\ id \in Ids /\ operations[id] # None
      /\ operations \in [Ids -> OperationRow \cup {None}]
    BY DEF Recorded, JournalInv, TypeOK
<1>1. \A state \in Outcomes \cup {"prepared"} : WithState(operations[id], state) # None
    BY <1>0, NoneAssumption DEF WithState, OperationRow
<1>2. ASSUME NEW r \in Runs, Prepare(r)
      PROVE  Stays
  <2>1. id # <<r, count[r] + 1>> /\ <<r, count[r] + 1>> \in Ids
    BY <1>2, NextIsNew
  <2> QED
    BY <1>0, <1>2, <2>1 DEF Prepare
<1>3. ASSUME NEW other \in Ids, NEW state \in Outcomes,
             operations' = [operations EXCEPT ![other] = WithState(@, state)]
      PROVE  Stays
    BY <1>0, <1>1, <1>3 DEF WithState
<1>4. ASSUME NEW r \in Runs, RecordOutcome(r)
      PROVE  Stays
  <2>1. This(r) \in Ids /\ operations[This(r)] \in OperationRow
    BY <1>4 DEF JournalInv, TypeOK, RecordOutcome, WorkerInv, WorkerOf, Recorded
  <2>2. DecidedAs(This(r), outcome[r]) /\ operations[This(r)].target \in Databases
    BY <1>4, <2>1 DEF JournalInv, RecordOutcome, WorkerInv, WorkerOf, OperationRow
  <2>3. [id |-> This(r), intent |-> operations[This(r)].intent, status |-> outcome[r]] \in Receipt
    BY <2>2 DEF JournalInv, TypeOK, DecidedAs
  <2>4. outcome[r] \in Outcomes
    BY <2>3 DEF Receipt, Outcomes
  <2> QED
    BY <1>3, <1>4, <2>1, <2>4 DEF RecordOutcome
<1>5. ASSUME NEW k \in Reconcilers, RecordFound(k)
      PROVE  Stays
  <2>1. found[k].id \in Ids /\ found[k].status \in Outcomes
    BY <1>5 DEF JournalInv, TypeOK, RecordFound, FetchedInv, FetchedOf, Found
  <2> QED
    BY <1>3, <1>5, <2>1 DEF RecordFound
<1>6. ASSUME DamagePayload
      PROVE  Stays
  <2>1. PICK other \in Recorded : operations' = [operations EXCEPT ![other] = Damaged(@)]
    BY <1>6 DEF DamagePayload
  <2>2. Damaged(operations[id]) # None
    <3>1. operations[id] \in OperationRow
      BY <1>0
    <3>2. Damaged(operations[id]) \in OperationRow
      BY <3>1 DEF Damaged, OperationRow
    <3> QED
      BY <3>2, NoneAssumption
  <2> QED
    BY <1>0, <2>1, <2>2 DEF Damaged
<1>7. Stays
    BY <1>0, <1>2, <1>4, <1>5, <1>6, OperationCases
<1> QED
    BY <1>0, <1>7 DEF Recorded

(* So what is decided stays decided.                                       *)
LEMMA DecisionsStay ==
    ASSUME JournalInv, [Next]_vars, NEW id \in Recorded
    PROVE  \A status : DecidedAs(id, status) => DecidedAs(id, status)'
<1>1. operations[id].target \in Databases
    BY DEF Recorded, JournalInv, TypeOK, OperationRow
<1>2. db[operations[id].target].receipts \subseteq db'[operations[id].target].receipts
    BY <1>1, ReceiptsStay
<1> QED
    BY <1>2, RowsStay DEF DecidedAs

(* The journal's operations are added by Prepare only.                     *)
LEMMA OnlyPrepareAdds ==
    ASSUME JournalInv, [Next]_vars, \A r \in Runs : ~Prepare(r)
    PROVE  Recorded' = Recorded
<1>1. Recorded \subseteq Recorded'
    BY RowsStay
<1>2. ASSUME NEW other \in Recorded, NEW row,
             operations' = [operations EXCEPT ![other] = row]
      PROVE  Recorded' \subseteq Recorded
    BY <1>2 DEF Recorded, JournalInv, TypeOK
<1>3. ASSUME NEW r \in Runs, RecordOutcome(r)
      PROVE  Recorded' \subseteq Recorded
  <2>1. This(r) \in Recorded
    BY <1>3 DEF RecordOutcome, JournalInv, WorkerInv, WorkerOf
  <2> QED
    BY <1>2, <1>3, <2>1 DEF RecordOutcome
<1>4. ASSUME NEW k \in Reconcilers, RecordFound(k)
      PROVE  Recorded' \subseteq Recorded
  <2>1. found[k].id \in Recorded
    BY <1>4 DEF RecordFound, JournalInv, FetchedInv, FetchedOf
  <2> QED
    BY <1>2, <1>4, <2>1 DEF RecordFound
<1>5. ASSUME DamagePayload
      PROVE  Recorded' \subseteq Recorded
    BY <1>2, <1>5 DEF DamagePayload
<1> QED
    BY <1>1, <1>3, <1>4, <1>5, OperationCases DEF Recorded

(* A worker's variables are changed by that worker only.                   *)
LEMMA WorkerCases ==
    ASSUME JournalInv, [Next]_vars, NEW r \in Runs
    PROVE  Start(r) \/ Work(r) \/ UNCHANGED Locals(r)
<1>1. ASSUME NEW q \in Runs \ {r}, Start(q) \/ Work(q)
      PROVE  UNCHANGED Locals(r)
    BY <1>1 DEF Work, Proceed, Locals, JournalInv, TypeOK, Goto, StopWith, Forget, Start, Observe,
                EvidenceLimit, Finish, Prepare, Decide, AdapterError, RecordOutcome,
                ObserveCommit, Complete, Crash
<1>2. ASSUME UNCHANGED worker
      PROVE  UNCHANGED Locals(r)
    BY <1>2 DEF worker, Locals
<1>3. \/ \E q \in Runs : Start(q) \/ Work(q)
      \/ UNCHANGED worker
    BY BeginCases
       DEF Settle, vars, Begin, TakeRun, ReadReceipt, NoReceipt, ReadError, Find, RecordFound,
           UpdateRun, CrashReconcile, OutsideWrite, MoveTarget, DamagePayload, Disturb
<1> QED
    BY <1>1, <1>2, <1>3

(* Likewise for reconcilers.                                               *)
LEMMA ReconcilerCases ==
    ASSUME JournalInv, [Next]_vars, NEW k \in Reconcilers
    PROVE  \/ \E chosen \in SUBSET Started : Begin(k, chosen)
           \/ Settle(k)
           \/ CrashReconcile(k)
           \/ UNCHANGED Notes(k)
<1>1. ASSUME NEW j \in Reconcilers \ {k},
             \/ \E chosen \in SUBSET Started : Begin(j, chosen)
             \/ Settle(j)
             \/ CrashReconcile(j)
      PROVE  UNCHANGED Notes(k)
    BY <1>1 DEF Settle, Notes, JournalInv, TypeOK, Enter, Begin, TakeRun, ReadReceipt, NoReceipt,
                ReadError, Find, RecordFound, UpdateRun, CrashReconcile
<1>2. ASSUME UNCHANGED reconciler
      PROVE  UNCHANGED Notes(k)
    BY <1>2 DEF reconciler, Notes
<1>3. \/ \E j \in Reconcilers :
            \/ \E chosen \in SUBSET Started : Begin(j, chosen)
            \/ Settle(j)
            \/ CrashReconcile(j)
      \/ UNCHANGED reconciler
    BY BeginCases
       DEF Work, Proceed, vars, Start, Observe, EvidenceLimit, Finish, Prepare, Decide, AdapterError,
           RecordOutcome, ObserveCommit, Complete, Crash, OutsideWrite, MoveTarget,
           DamagePayload, Disturb
<1> QED
    BY <1>1, <1>2, <1>3

LEMMA CountPreserved ==
    ASSUME JournalInv, [Next]_vars
    PROVE  CountInv'
<1> SUFFICES ASSUME NEW q \in Runs, NEW n \in 1..MaxCommits
             PROVE  <<q, n>> \in Recorded' <=> n <= count'[q]
    BY DEF CountInv
<1>0. <<q, n>> \in Ids /\ (<<q, n>> \in Recorded <=> n <= count[q]) /\ count[q] \in Nat
    BY ThisType DEF JournalInv, CountInv, TypeOK
<1>1. ASSUME NEW r \in Runs, Prepare(r)
      PROVE  <<q, n>> \in Recorded' <=> n <= count'[q]
  <2>1. operations'[<<r, count[r] + 1>>] # None /\ <<r, count[r] + 1>> \in Ids
    <3>1. Row(r) # None /\ <<r, count[r] + 1>> \in Ids
      BY <1>1, NextIsNew, NoneAssumption
    <3>2. operations'[<<r, count[r] + 1>>] = Row(r)
      BY <1>1, <3>1 DEF Prepare, JournalInv, TypeOK
    <3> QED
      BY <3>1, <3>2
  <2>2. count' = [count EXCEPT ![r] = count[r] + 1] /\ count \in [Runs -> 0..MaxCommits]
    BY <1>1 DEF Prepare, JournalInv, TypeOK
  <2>3. CASE q = r /\ n = count[r] + 1
    <3>1. <<q, n>> \in Recorded'
      BY <2>1, <2>3 DEF Recorded
    <3>2. n <= count'[q]
      BY <1>0, <2>2, <2>3
    <3> QED
      BY <3>1, <3>2
  <2>4. CASE ~(q = r /\ n = count[r] + 1)
    <3>1. <<q, n>> # <<r, count[r] + 1>>
      BY <2>4
    <3>2. operations'[<<q, n>>] = operations[<<q, n>>]
      BY <1>0, <1>1, <3>1 DEF Prepare, JournalInv, TypeOK
    <3>3. <<q, n>> \in Recorded' <=> <<q, n>> \in Recorded
      BY <1>0, <3>2 DEF Recorded
    <3>4. n <= count'[q] <=> n <= count[q]
      BY <1>0, <2>2, <2>4
    <3> QED
      BY <1>0, <3>3, <3>4
  <2> QED
    BY <2>3, <2>4
<1>2. ASSUME \A r \in Runs : ~Prepare(r)
      PROVE  <<q, n>> \in Recorded' <=> n <= count'[q]
  <2>1. count'[q] = count[q]
    BY <1>2, WorkerCases
       DEF Locals, Work, Proceed, Start, Observe, EvidenceLimit, Finish, Decide, AdapterError,
           RecordOutcome, ObserveCommit, Complete, Crash
  <2> QED
    BY <1>0, <1>2, <2>1, OnlyPrepareAdds
<1> QED
    BY <1>1, <1>2

(* An operation under way stays described by its row until its worker      *)
(* moves on, and the answer a worker holds is in the ledger.               *)
LEMMA WorkerPreserved ==
    ASSUME JournalInv, [Next]_vars
    PROVE  WorkerInv'
<1> SUFFICES ASSUME NEW r \in Runs
             PROVE  WorkerOf(r)'
    BY DEF WorkerInv
<1> USE DEF JournalInv
<1>0. WorkerOf(r)
    BY DEF WorkerInv
<1>1. ASSUME UNCHANGED <<pc[r], catalog[r], base[r], count[r], outcome[r]>>
      PROVE  WorkerOf(r)'
  <2>1. This(r)' = This(r)
    BY <1>1 DEF This
  <2>2. ASSUME pc[r] \in {"prepared", "decided"}
        PROVE  /\ This(r) \in Recorded'
               /\ operations'[This(r)].target = catalog[r]
               /\ operations'[This(r)].intent = base[r]
    BY <1>0, <2>2, RowsStay DEF WorkerOf
  <2>3. ASSUME pc[r] = "decided"
        PROVE  DecidedAs(This(r), outcome[r])'
    <3>1. This(r) \in Recorded /\ DecidedAs(This(r), outcome[r])
      BY <1>0, <2>3 DEF WorkerOf
    <3> QED
      BY <1>1, <2>1, <3>1, DecisionsStay DEF DecidedAs
  <2> QED
    BY <1>0, <1>1, <2>1, <2>2, <2>3 DEF WorkerOf
<1>2. ASSUME Start(r)
      PROVE  WorkerOf(r)'
    BY <1>2 DEF Start, Goto, TypeOK, WorkerOf, Active
<1>3. ASSUME \/ Observe(r) \/ EvidenceLimit(r) \/ Finish(r) \/ AdapterError(r)
             \/ RecordOutcome(r) \/ ObserveCommit(r) \/ Complete(r) \/ Crash(r)
      PROVE  WorkerOf(r)'
    BY <1>0, <1>3
       DEF TypeOK, Goto, StopWith, Forget, Observe, EvidenceLimit, Finish, AdapterError,
           RecordOutcome, ObserveCommit, Complete, Crash, WorkerOf, Active
<1>4. ASSUME Prepare(r)
      PROVE  WorkerOf(r)'
  <2>1. /\ <<r, count[r] + 1>> \in Ids
        /\ Row(r) # None
    BY <1>4, NextIsNew, NoneAssumption
  <2>2. /\ count'[r] = count[r] + 1
        /\ operations'[<<r, count[r] + 1>>] = Row(r)
        /\ pc'[r] = "prepared" /\ catalog' = catalog /\ base' = base
    BY <1>4, <2>1 DEF Prepare, Goto, TypeOK
  <2>3. catalog[r] \in Databases
    BY <1>0, <1>4 DEF WorkerOf, Prepare, Active
  <2> QED
    BY <2>1, <2>2, <2>3 DEF WorkerOf, This, Recorded, Row, TargetOf
<1>5. ASSUME Decide(r)
      PROVE  WorkerOf(r)'
  <2>1. /\ This(r) \in Recorded /\ catalog[r] \in Databases
        /\ operations[This(r)].target = catalog[r]
        /\ operations[This(r)].intent = base[r]
    BY <1>0, <1>5 DEF WorkerOf, Decide, Active
  <2>2. /\ pc'[r] = "decided" /\ UNCHANGED <<operations, catalog, base, count>>
        /\ This(r)' = This(r)
    BY <1>5 DEF Decide, Goto, TypeOK, journal, This
  <2>3. [id |-> This(r), intent |-> base[r], status |-> outcome'[r]]
            \in db'[catalog[r]].receipts
    BY <1>5, <2>1 DEF Decide, TypeOK
  <2>4. DecidedAs(This(r), outcome[r])'
    BY <2>1, <2>2, <2>3 DEF DecidedAs
  <2> QED
    BY <2>1, <2>2, <2>4 DEF WorkerOf, Recorded
<1> QED
    BY <1>1, <1>2, <1>3, <1>4, <1>5, WorkerCases DEF Work, Proceed, Locals

(* A run is in the journal from the moment its worker runs.                *)
LEMMA RunsPreserved ==
    ASSUME JournalInv, [Next]_vars
    PROVE  RunsInv'
<1> USE DEF JournalInv, RunsInv, TypeOK
<1>1. ASSUME NEW r \in Runs, Start(r) \/ Work(r)
      PROVE  RunsInv'
  <2>1. "started" # None /\ "prepared" # None /\ "completed" # None
    BY NoneAssumption DEF RunState
  <2>2. CASE Start(r)
    BY <2>1, <2>2 DEF Start, Goto
  <2>3. CASE Prepare(r)
    BY <2>1, <2>3 DEF Prepare, Goto
  <2>4. CASE Complete(r)
    BY <2>1, <2>4 DEF Complete, Goto
  <2>5. CASE \/ Observe(r) \/ EvidenceLimit(r) \/ Finish(r) \/ Decide(r) \/ AdapterError(r)
             \/ RecordOutcome(r) \/ ObserveCommit(r) \/ Crash(r)
    BY <2>5 DEF Observe, EvidenceLimit, Finish, Decide, AdapterError, RecordOutcome,
                ObserveCommit, Crash, Goto, StopWith, journal, Active
  <2> QED
    BY <1>1, <2>2, <2>3, <2>4, <2>5 DEF Work, Proceed
<1>2. ASSUME NEW k \in Reconcilers, UpdateRun(k)
      PROVE  RunsInv'
  <2>1. current[k] \in RunRow /\ pc[current[k].run] # "off"
    BY <1>2 DEF UpdateRun, SelectionInv, SelectionOf, RowsOf
  <2>2. NewState(k) # None
    BY NoneAssumption DEF NewState, RunState
  <2> QED
    BY <1>2, <2>1, <2>2 DEF UpdateRun, worker, RunRow
<1>3. ASSUME pc' = pc, runs' = runs
      PROVE  RunsInv'
    BY <1>3
<1>4. \/ \E r \in Runs : Start(r) \/ Work(r)
      \/ \E k \in Reconcilers : UpdateRun(k)
      \/ pc' = pc /\ runs' = runs
    BY BeginCases
       DEF Settle, vars, Begin, TakeRun, ReadReceipt, NoReceipt, ReadError, Find, RecordFound,
           CrashReconcile, OutsideWrite, MoveTarget, DamagePayload, Disturb, worker, journal
<1> QED
    BY <1>1, <1>2, <1>3, <1>4

(* A commit leaves room for what it will have to say.                      *)
LEMMA EvidencePreserved ==
    ASSUME JournalInv, [Next]_vars
    PROVE  EvidenceInv'
<1> SUFFICES ASSUME NEW r \in Runs
             PROVE  /\ evidence'[r] <= MaxEvidence
                    /\ pc'[r] \in {"prepared", "decided", "recorded"} =>
                          evidence'[r] + PayloadBytes + Reserve <= MaxEvidence
    BY DEF EvidenceInv, EvidenceWithinLimit, Fits
<1> USE DEF JournalInv, TypeOK
<1>0. /\ evidence[r] \in Nat /\ evidence[r] <= MaxEvidence
      /\ pc[r] \in {"prepared", "decided", "recorded"} =>
            evidence[r] + PayloadBytes + Reserve <= MaxEvidence
      /\ MaxEvidence \in Nat /\ EventBytes \in Nat /\ PayloadBytes \in Nat
      /\ OutcomeBytes \in Nat /\ Reserve \in Nat
    BY RecoveryAssumption DEF EvidenceInv, EvidenceWithinLimit, Fits
<1>1. CASE UNCHANGED Locals(r)
    BY <1>0, <1>1 DEF Locals
<1>2. CASE Start(r) \/ EvidenceLimit(r) \/ Finish(r) \/ Decide(r) \/ AdapterError(r)
           \/ RecordOutcome(r)
    BY <1>0, <1>2 DEF Start, EvidenceLimit, Finish, Decide, AdapterError, RecordOutcome,
                      Goto, StopWith
<1>3. CASE Observe(r)
    BY <1>0, <1>3 DEF Observe, Fits
<1>4. CASE Prepare(r)
    BY <1>0, <1>4 DEF Prepare, Fits, CommitReserve, Goto
<1>5. CASE ObserveCommit(r)
    BY <1>0, <1>5, OutcomeFits DEF ObserveCommit, Goto
<1>6. CASE Complete(r) \/ Crash(r)
    BY <1>0, <1>6 DEF Complete, Crash, Forget, Goto
<1> QED
    BY <1>1, <1>2, <1>3, <1>4, <1>5, <1>6, WorkerCases DEF Work, Proceed

(* What a reconciler has fetched does not go stale in what it relies on.   *)
LEMMA FetchedPreserved ==
    ASSUME JournalInv, [Next]_vars
    PROVE  FetchedInv'
<1> SUFFICES ASSUME NEW k \in Reconcilers
             PROVE  FetchedOf(k)'
    BY DEF FetchedInv
<1> USE DEF JournalInv
<1> DEFINE RowHolds(operation) ==
              /\ operation.id \in Recorded
              /\ operation.row.target = operations[operation.id].target
              /\ operation.row.intent = operations[operation.id].intent
           OutcomeHolds(f) ==
              /\ f # None
              /\ f.id \in Recorded
              /\ f.status \in Terminal => DecidedAs(f.id, f.status)
<1>0. /\ \A operation \in left[k] : RowHolds(operation)
      /\ stage[k] = "recording" => OutcomeHolds(found[k])
    BY DEF FetchedInv, FetchedOf
<1>1. ASSUME NEW operation, RowHolds(operation)
      PROVE  /\ operation.id \in Recorded'
             /\ operation.row.target = operations'[operation.id].target
             /\ operation.row.intent = operations'[operation.id].intent
    BY <1>1, RowsStay
<1>2. ASSUME OutcomeHolds(found[k]), found'[k] = found[k]
      PROVE  OutcomeHolds(found[k])'
    BY <1>2, RowsStay, DecisionsStay DEF DecidedAs
<1>3. ASSUME left'[k] \subseteq left[k],
             stage'[k] = "recording" => OutcomeHolds(found[k])'
      PROVE  FetchedOf(k)'
    BY <1>0, <1>1, <1>3 DEF FetchedOf
<1>4. CASE UNCHANGED Notes(k)
    BY <1>0, <1>2, <1>3, <1>4 DEF Notes
<1>5. ASSUME NEW chosen \in SUBSET Started, Begin(k, chosen)
      PROVE  FetchedOf(k)'
    BY <1>3, <1>5 DEF Begin, Enter, TypeOK
<1>6. CASE TakeRun(k)
  <2>1. PICK row \in selected[k] :
           left' = [left EXCEPT ![k] =
              {[id |-> id, row |-> operations[id]] : id \in OperationsOf(row.run)}]
    BY <1>6 DEF TakeRun
  <2>2. left'[k] = {[id |-> id, row |-> operations[id]] : id \in OperationsOf(row.run)}
    BY <2>1 DEF TypeOK
  <2>3. operations' = operations /\ stage'[k] # "recording"
    BY <1>6 DEF TakeRun, Enter, journal, TypeOK
  <2> QED
    BY <2>2, <2>3 DEF FetchedOf, OperationsOf, Recorded
<1>7. CASE ReadReceipt(k)
  <2>0. PICK operation \in left[k] :
           \E receipt \in Matching(operation.id, operation.row) :
               Find(k, operation, receipt.status)
    BY <1>7 DEF ReadReceipt
  <2>1. PICK receipt \in Matching(operation.id, operation.row) :
           Find(k, operation, receipt.status)
    BY <2>0
  <2>2. RowHolds(operation) /\ operation.row \in OperationRow
    BY <1>0 DEF TypeOK
  <2>3. /\ receipt \in db[operation.row.target].receipts
        /\ receipt.id = operation.id /\ receipt.intent = operation.row.intent
        /\ receipt \in Receipt
    BY <2>1, <2>2 DEF Matching, Receipts, TypeOK, OperationRow
  <2>4. receipt = [id |-> operation.id, intent |-> operation.row.intent,
                   status |-> receipt.status]
    BY <2>3 DEF Receipt
  <2>5. DecidedAs(operation.id, receipt.status)
    BY <2>2, <2>3, <2>4 DEF DecidedAs
  <2>6. /\ left'[k] \subseteq left[k] /\ UNCHANGED <<operations, db>>
        /\ found'[k] = [id |-> operation.id, status |-> receipt.status]
    BY <2>1 DEF Find, TypeOK, journal
  <2>7. found'[k] # None
    BY NoneAssumption, <2>2, <2>3, <2>6 DEF Found, Receipt, Outcomes, Recorded
  <2> QED
    BY <1>3, <2>2, <2>5, <2>6, <2>7 DEF Recorded, DecidedAs
<1>8. CASE NoReceipt(k) \/ ReadError(k)
  <2>1. PICK operation \in left[k] : Find(k, operation, "unresolved")
    BY <1>8 DEF NoReceipt, ReadError
  <2>2. /\ left'[k] \subseteq left[k] /\ UNCHANGED <<operations, db>>
        /\ found'[k] = [id |-> operation.id, status |-> "unresolved"]
    BY <2>1 DEF Find, TypeOK, journal
  <2>3. found'[k] # None
    BY NoneAssumption, <1>0, <2>2 DEF Found, Outcomes, Recorded
  <2> QED
    BY <1>0, <1>3, <2>2, <2>3 DEF Recorded, Terminal
<1>9. CASE RecordFound(k) \/ UpdateRun(k) \/ CrashReconcile(k)
  <2>1. left'[k] \subseteq left[k] /\ stage'[k] # "recording"
    BY <1>9 DEF RecordFound, UpdateRun, CrashReconcile, Enter, TypeOK
  <2> QED
    BY <1>3, <2>1
<1> QED
    BY <1>4, <1>5, <1>6, <1>7, <1>8, <1>9, ReconcilerCases DEF Settle

(* A run that ended stays ended, the way it did.                           *)
LEMMA EndedStays ==
    ASSUME JournalInv, [Next]_vars, NEW r \in Runs
    PROVE  /\ pc[r] # "off" => pc'[r] # "off"
           /\ Stopped(r) /\ pc[r] # "off" => Stopped(r)'
           /\ pc[r] = "done" => pc'[r] = "done" /\ outcome'[r] = outcome[r]
<1> USE DEF JournalInv, TypeOK
<1>1. CASE UNCHANGED Locals(r)
    BY <1>1 DEF Locals, Stopped
<1>2. CASE Start(r) \/ Work(r)
    BY <1>2 DEF Work, Proceed, Start, Observe, EvidenceLimit, Finish, Prepare, Decide, AdapterError,
                RecordOutcome, ObserveCommit, Complete, Crash, Goto, StopWith, Stopped, Active
<1> QED
    BY <1>1, <1>2, WorkerCases

(* The rows of `runs' a reconciler holds: completed there is completed.    *)
LEMMA SelectionPreserved ==
    ASSUME JournalInv, [Next]_vars
    PROVE  SelectionInv'
<1> SUFFICES ASSUME NEW k \in Reconcilers
             PROVE  SelectionOf(k)'
    BY DEF SelectionInv
<1> USE DEF JournalInv, TypeOK
<1> DEFINE RowHolds(row) ==
              /\ pc[row.run] # "off"
              /\ row.state = "completed" => pc[row.run] = "done" /\ Certain(row.run)
<1>0. /\ stage[k] \in {"operations", "recording"} => current[k] # None
      /\ \A row \in RowsOf(k) : row \in RunRow /\ RowHolds(row)
    BY DEF SelectionInv, SelectionOf, RowsOf
<1>1. ASSUME NEW row \in RunRow, RowHolds(row)
      PROVE  RowHolds(row)'
    BY <1>1, EndedStays DEF RunRow, Certain
<1>2. ASSUME RowsOf(k)' \subseteq RowsOf(k),
             stage'[k] \in {"operations", "recording"} => current'[k] # None
      PROVE  SelectionOf(k)'
    BY <1>0, <1>1, <1>2 DEF SelectionOf
<1>3. CASE UNCHANGED Notes(k)
    BY <1>0, <1>2, <1>3 DEF Notes, RowsOf
<1>4. ASSUME NEW chosen \in SUBSET Started, Begin(k, chosen)
      PROVE  SelectionOf(k)'
  <2>1. /\ selected'[k] = {[run |-> r, state |-> runs[r]] : r \in chosen}
        /\ current'[k] = current[k] /\ stage'[k] = "runs" /\ UNCHANGED <<pc, outcome>>
    BY <1>4 DEF Begin, Enter, worker
  <2>2. ASSUME NEW r \in chosen
        PROVE  /\ pc[r] # "off"
               /\ runs[r] = "completed" => pc[r] = "done" /\ Certain(r)
    BY DEF Started, RunsInv, OnlyTheWorkerCompletes
  <2>3. \A row \in RowsOf(k)' : row \in RowsOf(k) \/ row \in selected'[k]
    BY <2>1 DEF RowsOf
  <2> QED
    BY <1>0, <2>1, <2>2, <2>3 DEF SelectionOf, Certain
<1>5. CASE TakeRun(k)
  <2>1. PICK row \in selected[k] :
           /\ current' = [current EXCEPT ![k] = row]
           /\ selected' = [selected EXCEPT ![k] = @ \ {row}]
    BY <1>5 DEF TakeRun
  <2>2. current'[k] = row /\ selected'[k] \subseteq selected[k]
    BY <2>1
  <2>3. row # None
    BY NoneAssumption
  <2> QED
    BY <1>2, <2>2, <2>3 DEF RowsOf
<1>6. CASE ReadReceipt(k) \/ NoReceipt(k) \/ ReadError(k)
  <2>1. stage[k] = "operations" /\ selected' = selected /\ current' = current
    BY <1>6 DEF ReadReceipt, NoReceipt, ReadError, Find
  <2> QED
    BY <1>0, <1>2, <2>1 DEF RowsOf
<1>7. CASE RecordFound(k)
  <2>1. stage[k] = "recording" /\ selected' = selected /\ current' = current
    BY <1>7 DEF RecordFound
  <2> QED
    BY <1>0, <1>2, <2>1 DEF RowsOf
<1>8. CASE UpdateRun(k) \/ CrashReconcile(k)
  <2>1. /\ selected'[k] \subseteq selected[k] /\ current'[k] = None
        /\ stage'[k] \in {"idle", "runs"}
    BY <1>8 DEF UpdateRun, CrashReconcile, Enter
  <2> QED
    BY <1>2, <2>1 DEF RowsOf
<1> QED
    BY <1>3, <1>4, <1>5, <1>6, <1>7, <1>8, ReconcilerCases DEF Settle

(* A state written into the journal is backed by the ledger.               *)
LEMMA RecordedPreserved ==
    ASSUME JournalInv, [Next]_vars
    PROVE  RecordedOutcomeIsTrue'
<1> SUFFICES ASSUME NEW id \in Recorded', operations'[id].state \in Terminal
             PROVE  DecidedAs(id, operations[id].state)'
    BY DEF RecordedOutcomeIsTrue
<1> USE DEF JournalInv, TypeOK
<1>1. ASSUME id \in Recorded,
             \/ operations'[id].state = operations[id].state
             \/ DecidedAs(id, operations'[id].state)
      PROVE  DecidedAs(id, operations[id].state)'
  <2>1. DecidedAs(id, operations'[id].state)
    BY <1>1 DEF RecordedOutcomeIsTrue
  <2> QED
    BY <1>1, <2>1, DecisionsStay DEF DecidedAs
<1>2. ASSUME NEW other \in Recorded, NEW state, DecidedAs(other, state),
             operations' = [operations EXCEPT ![other] = WithState(@, state)]
      PROVE  DecidedAs(id, operations[id].state)'
  <2>1. other \in Ids
    BY DEF Recorded
  <2>2. CASE id = other
    BY <1>1, <1>2, <2>1, <2>2 DEF WithState
  <2>3. CASE id # other
    BY <1>1, <1>2, <2>3 DEF Recorded
  <2> QED
    BY <2>2, <2>3
<1>3. ASSUME NEW r \in Runs, Prepare(r)
      PROVE  DecidedAs(id, operations[id].state)'
  <2>1. id # <<r, count[r] + 1>>
    <3>1. operations'[<<r, count[r] + 1>>] = Row(r)
      BY <1>3, NextIsNew DEF Prepare
    <3> QED
      BY <3>1 DEF Row, Terminal
  <2> QED
    BY <1>1, <1>3, <2>1 DEF Prepare, Recorded
<1>4. ASSUME NEW r \in Runs, RecordOutcome(r)
      PROVE  DecidedAs(id, operations[id].state)'
  <2>1. This(r) \in Recorded /\ DecidedAs(This(r), outcome[r])
    BY <1>4 DEF RecordOutcome, WorkerInv, WorkerOf
  <2> QED
    BY <1>2, <1>4, <2>1 DEF RecordOutcome
<1>5. ASSUME NEW k \in Reconcilers, RecordFound(k)
      PROVE  DecidedAs(id, operations[id].state)'
  <2>1. /\ found[k].id \in Recorded
        /\ found[k].status \in Terminal => DecidedAs(found[k].id, found[k].status)
        /\ operations' = [operations EXCEPT ![found[k].id] = WithState(@, found[k].status)]
    BY <1>5 DEF RecordFound, FetchedInv, FetchedOf
  <2>2. CASE found[k].status \in Terminal
    BY <1>2, <2>1, <2>2
  <2>3. CASE found[k].status \notin Terminal
    <3>1. id # found[k].id
      BY <2>1, <2>3 DEF WithState, Recorded
    <3> QED
      BY <1>1, <2>1, <3>1 DEF Recorded
  <2> QED
    BY <2>2, <2>3
<1>6. ASSUME DamagePayload
      PROVE  DecidedAs(id, operations[id].state)'
  <2>1. PICK other \in Recorded : operations' = [operations EXCEPT ![other] = Damaged(@)]
    BY <1>6 DEF DamagePayload
  <2>2. id \in Recorded /\ operations'[id].state = operations[id].state
    BY <2>1 DEF Recorded, Damaged
  <2> QED
    BY <1>1, <2>2
<1>7. ASSUME operations' = operations
      PROVE  DecidedAs(id, operations[id].state)'
    BY <1>1, <1>7 DEF Recorded
<1> QED
    BY <1>3, <1>4, <1>5, <1>6, <1>7, OperationCases

(* A receipt appears only for an operation under way, whose row is there.  *)
LEMMA IntentPreserved ==
    ASSUME JournalInv, [Next]_vars
    PROVE  IntentBeforeEffect'
<1> SUFFICES ASSUME NEW d \in Databases, NEW receipt \in db'[d].receipts
             PROVE  /\ receipt.id \in Recorded'
                    /\ operations'[receipt.id].target = d
                    /\ operations'[receipt.id].intent = receipt.intent
    BY DEF IntentBeforeEffect
<1> USE DEF JournalInv, TypeOK
<1>1. ASSUME receipt.id \in Recorded,
             operations[receipt.id].target = d,
             operations[receipt.id].intent = receipt.intent
      PROVE  /\ receipt.id \in Recorded'
             /\ operations'[receipt.id].target = d
             /\ operations'[receipt.id].intent = receipt.intent
    BY <1>1, RowsStay
<1>2. CASE receipt \in db[d].receipts
    BY <1>1, <1>2 DEF IntentBeforeEffect
<1>3. ASSUME NEW r \in Runs, Decide(r), receipt \notin db[d].receipts
      PROVE  /\ receipt.id \in Recorded
             /\ operations[receipt.id].target = d
             /\ operations[receipt.id].intent = receipt.intent
  <2>1. /\ This(r) \in Recorded /\ catalog[r] \in Databases
        /\ operations[This(r)].target = catalog[r]
        /\ operations[This(r)].intent = base[r]
    BY <1>3 DEF Decide, WorkerInv, WorkerOf, Active
  <2>2. d = catalog[r]
    BY <1>3 DEF Decide
  <2>3. receipt.id = This(r) /\ receipt.intent = base[r]
    BY <1>3, <2>1, <2>2 DEF Decide
  <2> QED
    BY <2>1, <2>2, <2>3
<1>4. ASSUME NEW e \in Databases, OutsideWrite(e)
      PROVE  receipt \in db[d].receipts
    BY <1>4 DEF OutsideWrite
<1> QED
    BY <1>1, <1>2, <1>3, <1>4, LedgerCases

(* Only a worker's own end writes `completed' anew.                        *)
LEMMA CompletedPreserved ==
    ASSUME JournalInv, [Next]_vars
    PROVE  OnlyTheWorkerCompletes'
<1> SUFFICES ASSUME NEW r \in Runs, runs'[r] = "completed"
             PROVE  pc'[r] = "done" /\ Certain(r)'
    BY DEF OnlyTheWorkerCompletes
<1> USE DEF JournalInv, TypeOK
<1>1. CASE runs[r] = "completed"
    BY <1>1, EndedStays DEF OnlyTheWorkerCompletes, Certain
<1>2. CASE Complete(r)
    BY <1>1, <1>2 DEF Complete, Goto, Certain
<1>3. ASSUME NEW k \in Reconcilers, UpdateRun(k)
      PROVE  pc'[r] = "done" /\ Certain(r)'
  <2>1. /\ current[k] \in RunRow
        /\ current[k].state = "completed" => pc[current[k].run] = "done" /\ Certain(current[k].run)
    BY <1>3 DEF UpdateRun, SelectionInv, SelectionOf, RowsOf
  <2>2. CASE r = current[k].run
    <3>1. NewState(k) = "completed"
      BY <1>3, <2>2 DEF UpdateRun
    <3>2. current[k].state = "completed"
      BY <3>1 DEF NewState
    <3> QED
      BY <1>3, <2>1, <2>2, <3>2 DEF UpdateRun, worker, Certain
  <2>3. CASE r # current[k].run
    BY <1>1, <1>3, <2>3 DEF UpdateRun
  <2> QED
    BY <2>2, <2>3
<1>4. ASSUME NEW q \in Runs, Start(q) \/ Prepare(q) \/ (q # r /\ Complete(q))
      PROVE  runs[r] = "completed"
    BY <1>4 DEF Start, Prepare, Complete
<1>5. \/ \E q \in Runs : Start(q) \/ Prepare(q) \/ Complete(q)
      \/ \E k \in Reconcilers : UpdateRun(k)
      \/ runs' = runs
    BY BeginCases
       DEF Work, Proceed, Settle, vars, journal, Observe, EvidenceLimit, Finish, Decide, AdapterError,
           RecordOutcome, ObserveCommit, Crash, Begin, TakeRun, ReadReceipt, NoReceipt,
           ReadError, Find, RecordFound, CrashReconcile, OutsideWrite, MoveTarget,
           DamagePayload, Disturb
<1> QED
    BY <1>1, <1>2, <1>3, <1>4, <1>5

LEMMA JournalInit == Init => JournalInv
<1> SUFFICES ASSUME Init
             PROVE  JournalInv
    OBVIOUS
<1>1. TypeOK
    BY RecoveryAssumption DEF Init, TypeOK, Active, Terminal, Stops
<1>2. Recorded = {}
    BY DEF Init, Recorded
<1>3. CountInv
  <2>1. \A r \in Runs, n \in 1..MaxCommits : ~(n <= count[r])
    BY DEF Init
  <2> QED
    BY <1>2, <2>1 DEF CountInv
<1>4. WorkerInv /\ RunsInv /\ OnlyTheWorkerCompletes
    BY NoneAssumption DEF Init, WorkerInv, WorkerOf, RunsInv, OnlyTheWorkerCompletes, Active, RunState
<1>5. EvidenceInv
    BY RecoveryAssumption DEF Init, EvidenceInv, EvidenceWithinLimit
<1>6. FetchedInv /\ SelectionInv
    BY DEF Init, FetchedInv, FetchedOf, SelectionInv, SelectionOf, RowsOf
<1>7. RecordedOutcomeIsTrue /\ IntentBeforeEffect
    BY <1>2 DEF Init, RecordedOutcomeIsTrue, IntentBeforeEffect
<1> QED
    BY <1>1, <1>3, <1>4, <1>5, <1>6, <1>7 DEF JournalInv

(* The journal, the ledgers, the workers and the reconcilers agree in      *)
(* every reachable state, whoever runs at the same time.                   *)
THEOREM JournalInvariance == Spec => []JournalInv
<1>1. JournalInv /\ [Next]_vars => JournalInv'
    BY TypePreserved, CountPreserved, WorkerPreserved, RunsPreserved, EvidencePreserved,
       FetchedPreserved, SelectionPreserved, RecordedPreserved, IntentPreserved,
       CompletedPreserved DEF JournalInv
<1> QED
    BY JournalInit, <1>1, PTL DEF Spec

(* TypeOK: the state keeps its types.                                      *)
THEOREM TypeCorrect == Spec => []TypeOK
<1>1. JournalInv => TypeOK
    BY DEF JournalInv
<1> QED
    BY <1>1, JournalInvariance, PTL

(* RecordedOutcomeIsTrue: an operation the journal calls applied or stale  *)
(* is exactly that in its own target's ledger, with any number of          *)
(* reconcilers, live workers, moved files and damaged payloads.            *)
THEOREM RecordedOutcomesAreTrue == Spec => []RecordedOutcomeIsTrue
<1>1. JournalInv => RecordedOutcomeIsTrue
    BY DEF JournalInv
<1> QED
    BY <1>1, JournalInvariance, PTL

(* IntentBeforeEffect: no receipt without its durable intent.              *)
THEOREM IntentPrecedesEffect == Spec => []IntentBeforeEffect
<1>1. JournalInv => IntentBeforeEffect
    BY DEF JournalInv
<1> QED
    BY <1>1, JournalInvariance, PTL

(* EvidenceWithinLimit: a commit that was let through always fits.         *)
THEOREM EvidenceFits == Spec => []EvidenceWithinLimit
<1>1. JournalInv => EvidenceWithinLimit
    BY DEF JournalInv, EvidenceInv
<1> QED
    BY <1>1, JournalInvariance, PTL

(* OnlyTheWorkerCompletes: reconciliation never calls an interrupted run   *)
(* completed.                                                              *)
THEOREM CompletionIsTheWorkers == Spec => []OnlyTheWorkerCompletes
<1>1. JournalInv => OnlyTheWorkerCompletes
    BY DEF JournalInv
<1> QED
    BY <1>1, JournalInvariance, PTL

-----------------------------------------------------------------------------
(* Where workers are stopped before reconciling.                           *)
LEMMA DecidedStays ==
    ASSUME JournalInv, [Next]_vars, NEW id \in Recorded, Decided(id)
    PROVE  Decided(id)'
BY DecisionsStay DEF Decided

(* A run gets operations from its own worker only.                         *)
LEMMA OperationsStay ==
    ASSUME JournalInv, [Next]_vars, NEW r \in Runs, ~Prepare(r)
    PROVE  OperationsOf(r)' = OperationsOf(r)
<1>1. CASE \A q \in Runs : ~Prepare(q)
    BY <1>1, OnlyPrepareAdds DEF OperationsOf
<1>2. ASSUME NEW q \in Runs, Prepare(q)
      PROVE  OperationsOf(r)' = OperationsOf(r)
  <2>1. q # r
    BY <1>2
  <2>2. ASSUME NEW id \in Ids, id[1] = r
        PROVE  operations'[id] = operations[id]
    <3>1. id # <<q, count[q] + 1>>
      BY <2>1, <2>2
    <3> QED
      BY <1>2, <3>1 DEF Prepare, JournalInv, TypeOK
  <2> QED
    BY <2>2 DEF OperationsOf, Recorded
<1> QED
    BY <1>1, <1>2

LEMMA StoppedPreserved ==
    ASSUME JournalInv, StoppedInv, StopFirst, [Next]_vars
    PROVE  StoppedInv'
<1> SUFFICES ASSUME NEW k \in Reconcilers, NEW row \in RowsOf(k)'
             PROVE  Stopped(row.run)'
    BY DEF StoppedInv
<1> USE DEF JournalInv, TypeOK
<1>1. CASE row \in RowsOf(k)
  <2>1. row \in RunRow /\ pc[row.run] # "off" /\ Stopped(row.run)
    BY <1>1 DEF StoppedInv, SelectionInv, SelectionOf, RowsOf
  <2> QED
    BY <2>1, EndedStays DEF RunRow
<1>2. ASSUME NEW chosen \in SUBSET Started, Begin(k, chosen)
      PROVE  Stopped(row.run)'
  <2>1. /\ selected'[k] = {[run |-> r, state |-> runs[r]] : r \in chosen}
        /\ current'[k] = current[k] /\ UNCHANGED pc
        /\ \A r \in chosen : Stopped(r)
    BY <1>2 DEF Begin, worker
  <2> QED
    BY <1>1, <2>1 DEF RowsOf, Stopped
<1>3. CASE Settle(k) \/ CrashReconcile(k) \/ UNCHANGED Notes(k)
  <2>1. RowsOf(k)' \subseteq RowsOf(k)
    BY <1>3 DEF Settle, TakeRun, ReadReceipt, NoReceipt, ReadError, Find, RecordFound,
                UpdateRun, CrashReconcile, Notes, RowsOf
  <2> QED
    BY <1>1, <2>1
<1> QED
    BY <1>2, <1>3, ReconcilerCases

(* A worker goes on only with commits that have been decided.              *)
LEMMA KnownPreserved ==
    ASSUME JournalInv, KnownSoFar, [Next]_vars
    PROVE  KnownSoFar'
<1> SUFFICES ASSUME NEW r \in Runs, NEW id \in OperationsOf(r)'
             PROVE  \/ Decided(id)'
                    \/ pc'[r] = "prepared" /\ id = This(r)'
                    \/ pc'[r] = "dead"
                    \/ pc'[r] \in {"stopping", "done"} /\ ~Certain(r)'
    BY DEF KnownSoFar
<1> USE DEF JournalInv, TypeOK
<1>1. ASSUME id \in OperationsOf(r)
      PROVE  \/ Decided(id)'
             \/ pc[r] = "prepared" /\ id = This(r)
             \/ pc[r] = "dead"
             \/ pc[r] \in {"stopping", "done"} /\ ~Certain(r)
    BY <1>1, DecidedStays DEF KnownSoFar, OperationsOf
<1>2. CASE Prepare(r)
  <2>1. CASE id \in OperationsOf(r)
    BY <1>1, <1>2, <2>1 DEF Prepare
  <2>2. CASE id \notin OperationsOf(r)
    <3>1. id = <<r, count[r] + 1>>
      BY <1>2, <2>2 DEF Prepare, OperationsOf, Recorded
    <3> QED
      BY <1>2, <3>1 DEF Prepare, Goto, This
  <2> QED
    BY <2>1, <2>2
<1>3. CASE ~Prepare(r)
  <2>0. id \in OperationsOf(r)
    BY <1>3, OperationsStay
  <2>1. CASE UNCHANGED Locals(r)
    BY <1>1, <2>0, <2>1 DEF Locals, This, Certain
  <2>2. CASE Start(r) \/ Observe(r) \/ EvidenceLimit(r) \/ Finish(r) \/ RecordOutcome(r)
             \/ ObserveCommit(r)
    BY <1>1, <2>0, <2>2 DEF Start, Observe, EvidenceLimit, Finish, RecordOutcome, ObserveCommit
  <2>3. CASE Decide(r)
    <3>1. ASSUME id = This(r)
          PROVE  Decided(id)'
      <4>1. DecidedAs(This(r), outcome[r])'
        BY <2>3, WorkerPreserved DEF WorkerInv, WorkerOf, Decide, Goto
      <4>2. This(r)' = This(r)
        BY <2>3 DEF Decide, This
      <4>3. outcome'[r] \in Terminal
        BY <2>3 DEF Decide, Terminal
      <4> QED
        BY <3>1, <4>1, <4>2, <4>3 DEF Decided, DecidedAs
    <3> QED
      BY <1>1, <2>0, <2>3, <3>1 DEF Decide
  <2>4. CASE AdapterError(r)
    BY <2>4 DEF AdapterError, StopWith, Goto, Certain
  <2>5. CASE Complete(r)
    BY <1>1, <2>0, <2>5 DEF Complete, Goto, Certain
  <2>6. CASE Crash(r)
    BY <2>6 DEF Crash, Goto
  <2> QED
    BY <1>3, <2>1, <2>2, <2>3, <2>4, <2>5, <2>6, WorkerCases DEF Work, Proceed
<1> QED
    BY <1>2, <1>3

(* A reconciler overlooks no operation of the run it is settling.          *)
LEMMA PassPreserved ==
    ASSUME JournalInv, SettledInv, StopFirst, [Next]_vars
    PROVE  PassInv'
<1> SUFFICES ASSUME NEW k \in Reconcilers, stage'[k] \in {"operations", "recording"},
                    NEW id \in OperationsOf(current[k].run)'
             PROVE  \/ \E operation \in left'[k] : operation.id = id
                    \/ stage'[k] = "recording" /\ found'[k].id = id
                    \/ outcomes'[k] # {} /\ ("unresolved" \notin outcomes'[k] => Decided(id)')
    BY DEF PassInv
<1> USE DEF JournalInv, SettledInv, TypeOK
<1>1. ASSUME stage[k] \in {"operations", "recording"}, current'[k] = current[k]
      PROVE  /\ id \in OperationsOf(current[k].run)
             /\ \/ \E operation \in left[k] : operation.id = id
                \/ stage[k] = "recording" /\ found[k].id = id
                \/ outcomes[k] # {} /\ ("unresolved" \notin outcomes[k] => Decided(id)')
  <2>1. current[k] \in RunRow /\ current[k] \in RowsOf(k)
    BY <1>1 DEF SelectionInv, SelectionOf, RowsOf
  <2>2. PICK r \in Runs : r = current[k].run /\ Stopped(r)
    BY <2>1 DEF StoppedInv, RunRow
  <2>3. ~Prepare(r)
    BY <2>2 DEF Stopped, Active, Prepare
  <2>4. id \in OperationsOf(current[k].run)
    <3>1. id \in OperationsOf(r)'
      BY <1>1, <2>2 DEF OperationsOf
    <3> QED
      BY <2>2, <2>3, <3>1, OperationsStay
  <2>5. Decided(id) => Decided(id)'
    BY <2>4, DecidedStays DEF OperationsOf
  <2> QED
    BY <1>1, <2>4, <2>5 DEF PassInv
<1>2. CASE UNCHANGED Notes(k)
    BY <1>1, <1>2 DEF Notes
<1>3. CASE TakeRun(k)
  <2>1. PICK row \in selected[k] :
           /\ current' = [current EXCEPT ![k] = row]
           /\ left' = [left EXCEPT ![k] =
                 {[id |-> i, row |-> operations[i]] : i \in OperationsOf(row.run)}]
    BY <1>3 DEF TakeRun
  <2>2. operations' = operations /\ current'[k] = row
    BY <1>3, <2>1 DEF TakeRun, journal
  <2>3. id \in OperationsOf(row.run)
    BY <2>2 DEF OperationsOf, Recorded
  <2>4. [id |-> id, row |-> operations[id]] \in left'[k]
    BY <2>1, <2>3
  <2> QED
    BY <2>4
<1>4. CASE ReadReceipt(k) \/ NoReceipt(k) \/ ReadError(k)
  <2>1. PICK operation \in left[k] : \E status : Find(k, operation, status)
    BY <1>4 DEF ReadReceipt, NoReceipt, ReadError
  <2>2. /\ current' = current /\ outcomes' = outcomes /\ stage'[k] = "recording"
        /\ stage[k] = "operations"
        /\ found'[k].id = operation.id
        /\ left'[k] = left[k] \ {operation}
    BY <1>4, <2>1 DEF Find, Enter, ReadReceipt, NoReceipt, ReadError
  <2> QED
    BY <1>1, <2>2
<1>5. CASE RecordFound(k)
  <2>1. /\ current' = current /\ left' = left /\ stage[k] = "recording"
        /\ outcomes'[k] = outcomes[k] \cup {found[k].status}
        /\ found[k] \in Found
        /\ found[k].status \in Terminal => DecidedAs(found[k].id, found[k].status)
        /\ found[k].id \in Recorded
    BY <1>5 DEF RecordFound, FetchedInv, FetchedOf
  <2>2. ASSUME found[k].id = id, "unresolved" \notin outcomes'[k]
        PROVE  Decided(id)'
    <3>1. found[k].status \in Terminal
      BY <2>1, <2>2 DEF Found, Outcomes
    <3>2. Decided(id)
      BY <2>1, <2>2, <3>1 DEF Decided
    <3> QED
      BY <2>1, <2>2, <3>2, DecidedStays
  <2> QED
    BY <1>1, <2>1, <2>2
<1>6. CASE UpdateRun(k) \/ CrashReconcile(k) \/ \E chosen \in SUBSET Started : Begin(k, chosen)
  <2>1. stage'[k] \in {"idle", "runs"}
    BY <1>6 DEF UpdateRun, CrashReconcile, Begin, Enter
  <2> QED
    BY <2>1
<1> QED
    BY <1>2, <1>3, <1>4, <1>5, <1>6, ReconcilerCases DEF Settle

(* A run's state is written by its worker, or by whoever settles it.       *)
LEMMA RunCases ==
    ASSUME JournalInv, [Next]_vars, NEW r \in Runs
    PROVE  \/ Start(r) \/ Prepare(r) \/ Complete(r)
           \/ \E k \in Reconcilers : UpdateRun(k) /\ current[k].run = r
           \/ runs'[r] = runs[r]
<1>1. \/ \E q \in Runs : Start(q) \/ Prepare(q) \/ Complete(q)
      \/ \E k \in Reconcilers : UpdateRun(k)
      \/ runs' = runs
    BY BeginCases
       DEF Work, Proceed, Settle, vars, journal, Observe, EvidenceLimit, Finish, Decide, AdapterError,
           RecordOutcome, ObserveCommit, Crash, Begin, TakeRun, ReadReceipt, NoReceipt,
           ReadError, Find, RecordFound, CrashReconcile, OutsideWrite, MoveTarget,
           DamagePayload, Disturb
<1> QED
    BY <1>1 DEF Start, Prepare, Complete, UpdateRun, JournalInv, TypeOK

LEMMA SettledPreserved ==
    ASSUME JournalInv, SettledInv, StopFirst, [Next]_vars
    PROVE  SettledRunsAreDecided'
<1> SUFFICES ASSUME NEW r \in Runs, runs'[r] \in {"completed", "reconciled"},
                    NEW id \in OperationsOf(r)'
             PROVE  Decided(id)'
    BY DEF SettledRunsAreDecided
<1> USE DEF JournalInv, SettledInv, TypeOK
<1>1. ~Prepare(r)
    BY DEF Prepare
<1>2. id \in OperationsOf(r) /\ id \in Recorded
    BY <1>1, OperationsStay DEF OperationsOf
<1>3. CASE runs'[r] = runs[r]
  <2>1. Decided(id)
    BY <1>2, <1>3 DEF SettledRunsAreDecided
  <2> QED
    BY <1>2, <2>1, DecidedStays
<1>4. CASE Complete(r) /\ Certain(r)
  <2>1. Decided(id)
    BY <1>2, <1>4 DEF Complete, KnownSoFar
  <2> QED
    BY <1>2, <2>1, DecidedStays
<1>5. ASSUME NEW k \in Reconcilers, UpdateRun(k), current[k].run = r
      PROVE  Decided(id)'
  <2>1. outcomes[k] # {} /\ ("unresolved" \notin outcomes[k] => Decided(id))
    BY <1>2, <1>5 DEF UpdateRun, PassInv
  <2>2. NewState(k) \in {"completed", "reconciled"}
    BY <1>5 DEF UpdateRun
  <2>3. Decided(id)
    BY <2>1, <2>2 DEF NewState, Resolved
  <2> QED
    BY <1>2, <2>3, DecidedStays
<1>6. ~Start(r) /\ (Complete(r) => Certain(r) \/ runs'[r] = runs[r])
    BY DEF Start, Complete
<1> QED
    BY <1>1, <1>3, <1>4, <1>5, <1>6, RunCases

(* The whole invariant.                                                    *)
THEOREM Invariance == Spec => []IInv
<1>1. Init => IInv
  <2>1. Init => SettledInv
    <3> SUFFICES ASSUME Init
                 PROVE  SettledInv
      OBVIOUS
    <3>1. Recorded = {}
      BY DEF Init, Recorded
    <3>2. KnownSoFar /\ SettledRunsAreDecided
      BY <3>1 DEF KnownSoFar, SettledRunsAreDecided, OperationsOf
    <3>3. StoppedInv /\ PassInv
      BY DEF Init, StoppedInv, PassInv, RowsOf
    <3> QED
      BY <3>2, <3>3 DEF SettledInv
  <2> QED
    BY <2>1, JournalInit DEF IInv
<1>2. IInv /\ [Next]_vars => IInv'
  <2> SUFFICES ASSUME IInv, [Next]_vars
               PROVE  IInv'
    OBVIOUS
  <2>1. JournalInv /\ JournalInv'
    BY TypePreserved, CountPreserved, WorkerPreserved, RunsPreserved, EvidencePreserved,
       FetchedPreserved, SelectionPreserved, RecordedPreserved, IntentPreserved,
       CompletedPreserved DEF IInv, JournalInv
  <2>2. StopFirst => SettledInv'
    <3> SUFFICES ASSUME StopFirst
                 PROVE  SettledInv'
      OBVIOUS
    <3>1. SettledInv
      BY DEF IInv
    <3>2. KnownSoFar' /\ StoppedInv'
      BY <2>1, <3>1, KnownPreserved, StoppedPreserved DEF SettledInv
    <3>3. PassInv' /\ SettledRunsAreDecided'
      BY <2>1, <3>1, PassPreserved, SettledPreserved
    <3> QED
      BY <3>2, <3>3 DEF SettledInv
  <2> QED
    BY <2>1, <2>2 DEF IInv
<1> QED
    BY <1>1, <1>2, PTL DEF Spec

(* SettledRunsAreDecided: with workers stopped first, and however many     *)
(* reconcilers at once, a run is called completed or reconciled only when  *)
(* the ledger has decided each of its operations.                          *)
THEOREM SettledMeansDecided ==
    ASSUME StopFirst
    PROVE  Spec => []SettledRunsAreDecided
<1>1. IInv => SettledRunsAreDecided
    BY DEF IInv, SettledInv
<1> QED
    BY <1>1, Invariance, PTL
-----------------------------------------------------------------------------
(* With one reconciler at a time, and workers stopped before it begins.    *)

LEMMA HeldPreserved ==
    ASSUME IInv, StopFirst, \A k, q \in Reconcilers : k = q, AloneInv, [Next]_vars,
           NEW k \in Reconcilers
    PROVE  HeldOf(k)'
<1> USE DEF IInv, JournalInv, TypeOK, HeldOf
<1>0. HeldOf(k) /\ \A row \in RowsOf(k) : row \in RunRow
    BY NoneAssumption DEF AloneInv, RowsOf
<1>1. ASSUME ~UpdateRun(k), NEW row \in RowsOf(k)
      PROVE  runs'[row.run] = row.state
  <2>1. PICK r \in Runs : r = row.run
    BY <1>0 DEF RunRow
  <2>2. pc[r] # "off" /\ Stopped(r)
    BY <2>1 DEF SettledInv, StoppedInv, SelectionInv, SelectionOf
  <2>3. ~(Start(r) \/ Prepare(r) \/ Complete(r))
    BY <2>2 DEF Stopped, Active, Start, Prepare, Complete
  <2>4. runs'[r] = runs[r]
    BY <1>1, <2>3, RunCases
  <2> QED
    BY <1>0, <2>1, <2>4
<1>2. ASSUME ~UpdateRun(k), RowsOf(k)' \subseteq RowsOf(k), current'[k] \notin selected'[k],
             stage'[k] \in {"idle", "runs"} => current'[k] = None
      PROVE  HeldOf(k)'
    BY <1>0, <1>1, <1>2
<1>3. CASE UNCHANGED Notes(k)
  <2>1. ~UpdateRun(k)
    BY <1>3, NoneAssumption DEF Notes, UpdateRun, Enter, SelectionInv, SelectionOf
  <2>2. RowsOf(k)' = RowsOf(k)
    BY <1>3 DEF Notes, RowsOf
  <2> QED
    BY <1>0, <1>2, <1>3, <2>1, <2>2 DEF Notes
<1>4. ASSUME NEW chosen \in SUBSET Started, Begin(k, chosen)
      PROVE  HeldOf(k)'
  <2>1. current[k] = None
    BY <1>0, <1>4 DEF Begin
  <2>2. /\ selected'[k] = {[run |-> r, state |-> runs[r]] : r \in chosen}
        /\ current'[k] = None /\ runs' = runs
    BY <1>4, <2>1 DEF Begin, Enter, journal
  <2>3. RowsOf(k)' = {[run |-> r, state |-> runs[r]] : r \in chosen}
    BY <2>2 DEF RowsOf
  <2>4. current'[k] \notin selected'[k]
    <3>1. \A r \in chosen : [run |-> r, state |-> runs[r]] \in RunRow
      BY DEF Started, RunRow
    <3> QED
      BY <2>2, <3>1, NoneAssumption
  <2> QED
    BY <2>2, <2>3, <2>4
<1>5. CASE TakeRun(k)
  <2>1. PICK row \in selected[k] :
           /\ current' = [current EXCEPT ![k] = row]
           /\ selected' = [selected EXCEPT ![k] = @ \ {row}]
    BY <1>5 DEF TakeRun
  <2>2. current'[k] = row /\ selected'[k] = selected[k] \ {row} /\ stage'[k] = "operations"
    BY <1>5, <2>1 DEF TakeRun, Enter
  <2>3. RowsOf(k)' \subseteq RowsOf(k)
    BY <2>2 DEF RowsOf
  <2>4. ~UpdateRun(k)
    BY <1>5 DEF TakeRun, UpdateRun
  <2> QED
    BY <1>2, <2>2, <2>3, <2>4
<1>6. CASE ReadReceipt(k) \/ NoReceipt(k) \/ ReadError(k) \/ RecordFound(k)
  <2>1. /\ selected' = selected /\ current' = current
        /\ stage'[k] \in {"operations", "recording"} /\ stage'[k] # stage[k]
        /\ stage[k] \in {"operations", "recording"}
    BY <1>6 DEF ReadReceipt, NoReceipt, ReadError, Find, RecordFound, Enter
  <2>2. ~UpdateRun(k)
    BY <2>1, NoneAssumption DEF UpdateRun, SelectionInv, SelectionOf
  <2>3. RowsOf(k)' = RowsOf(k)
    BY <2>1 DEF RowsOf
  <2> QED
    BY <1>0, <1>2, <2>1, <2>2, <2>3
<1>7. CASE CrashReconcile(k)
  <2>1. selected'[k] = {} /\ current'[k] = None
    BY <1>7 DEF CrashReconcile
  <2> QED
    BY <2>1 DEF RowsOf
<1>8. CASE UpdateRun(k)
  <2>1. /\ selected' = selected /\ current'[k] = None
        /\ runs' = [runs EXCEPT ![current[k].run] = NewState(k)]
        /\ current[k] \in RunRow
    BY <1>8 DEF UpdateRun, SelectionInv, SelectionOf
  <2>2. RowsOf(k)' = selected[k] /\ selected[k] \subseteq RowsOf(k) /\ current[k] \in RowsOf(k)
    BY <2>1, NoneAssumption DEF RowsOf
  <2>3. ASSUME NEW row \in selected[k]
        PROVE  runs'[row.run] = row.state
    <3>1. row.run # current[k].run /\ runs[row.run] = row.state
      BY <1>0, <2>2
    <3> QED
      BY <2>1, <3>1
  <2>4. None \notin selected[k]
    BY <1>0, <2>2, NoneAssumption
  <2> QED
    BY <1>0, <2>1, <2>2, <2>3, <2>4
<1> QED
    BY <1>3, <1>4, <1>5, <1>6, <1>7, <1>8, ReconcilerCases DEF Settle

LEMMA LookupsPreserved ==
    ASSUME IInv, AloneInv, [Next]_vars, NEW k \in Reconcilers,
           stage'[k] \in {"operations", "recording"}
    PROVE  LookupsOf(k)'
<1> USE DEF IInv, JournalInv, TypeOK, LookupsOf
<1>0. stage[k] \in {"operations", "recording"} => LookupsOf(k)
    BY DEF AloneInv
<1>1. CASE UNCHANGED Notes(k)
    BY <1>0, <1>1 DEF Notes
<1>2. CASE TakeRun(k)
  <2>1. PICK row \in selected[k] :
           /\ current' = [current EXCEPT ![k] = row]
           /\ left' = [left EXCEPT ![k] =
                 {[id |-> id, row |-> operations[id]] : id \in OperationsOf(row.run)}]
    BY <1>2 DEF TakeRun
  <2>2. current'[k] = row /\ stage'[k] = "operations"
    BY <1>2, <2>1 DEF TakeRun, Enter
  <2> QED
    BY <2>1, <2>2 DEF OperationsOf
<1>3. CASE ReadReceipt(k) \/ NoReceipt(k) \/ ReadError(k)
  <2>1. PICK operation \in left[k] : \E status : Find(k, operation, status)
    BY <1>3 DEF ReadReceipt, NoReceipt, ReadError
  <2>2. /\ current' = current /\ stage[k] = "operations"
        /\ found'[k].id = operation.id
        /\ left'[k] = left[k] \ {operation}
    BY <1>3, <2>1 DEF Find, Enter, ReadReceipt, NoReceipt, ReadError
  <2> QED
    BY <1>0, <2>2
<1>4. CASE RecordFound(k)
  <2>1. current' = current /\ left' = left /\ stage[k] = "recording" /\ stage'[k] = "operations"
    BY <1>4 DEF RecordFound, Enter
  <2> QED
    BY <1>0, <2>1
<1>5. CASE UpdateRun(k) \/ CrashReconcile(k) \/ \E chosen \in SUBSET Started : Begin(k, chosen)
  <2>1. stage'[k] \in {"idle", "runs"}
    BY <1>5 DEF UpdateRun, CrashReconcile, Begin, Enter
  <2> QED
    BY <2>1
<1> QED
    BY <1>1, <1>2, <1>3, <1>4, <1>5, ReconcilerCases DEF Settle

(* The state of an operation is written by its worker, or by a reconciler  *)
(* that found its outcome.                                                 *)
LEMMA StateStays ==
    ASSUME JournalInv, [Next]_vars, NEW id \in Recorded,
           ~RecordOutcome(id[1]), \A k \in Reconcilers : RecordFound(k) => found[k].id # id
    PROVE  operations'[id].state = operations[id].state
<1> USE DEF JournalInv, TypeOK
<1>0. id \in Ids /\ operations[id] # None /\ id[1] \in Runs
    BY DEF Recorded, Ids
<1>1. ASSUME NEW r \in Runs, Prepare(r)
      PROVE  operations'[id] = operations[id]
  <2>1. id # <<r, count[r] + 1>>
    BY <1>1, NextIsNew
  <2> QED
    BY <1>0, <1>1, <2>1 DEF Prepare
<1>2. ASSUME NEW r \in Runs, RecordOutcome(r)
      PROVE  operations'[id] = operations[id]
  <2>1. id # This(r)
    BY <1>2 DEF This
  <2> QED
    BY <1>0, <1>2, <2>1 DEF RecordOutcome
<1>3. ASSUME NEW k \in Reconcilers, RecordFound(k)
      PROVE  operations'[id] = operations[id]
    BY <1>0, <1>3 DEF RecordFound
<1>4. ASSUME DamagePayload
      PROVE  operations'[id].state = operations[id].state
  <2>1. PICK other \in Recorded : operations' = [operations EXCEPT ![other] = Damaged(@)]
    BY <1>4 DEF DamagePayload
  <2> QED
    BY <1>0, <2>1 DEF Damaged
<1> QED
    BY <1>1, <1>2, <1>3, <1>4, OperationCases

LEMMA DoubtPreserved ==
    ASSUME IInv, StopFirst, \A k, q \in Reconcilers : k = q, AloneInv, [Next]_vars,
           NEW k \in Reconcilers, stage'[k] \in {"operations", "recording"}
    PROVE  DoubtOf(k)'
<1> USE DEF IInv, JournalInv, TypeOK
<1> SUFFICES ASSUME "unresolved" \in outcomes'[k]
             PROVE  \E id \in OperationsOf(current[k].run)' :
                       operations'[id].state = "unresolved" /\ Behind(k, id)'
    BY DEF DoubtOf
<1>0. stage[k] \in {"operations", "recording"} => LookupsOf(k) /\ DoubtOf(k)
    BY DEF AloneInv
<1>1. ASSUME stage[k] \in {"operations", "recording"}, current'[k] = current[k]
      PROVE  /\ ~RecordOutcome(current[k].run)
             /\ OperationsOf(current[k].run)' = OperationsOf(current[k].run)
  <2>1. current[k] \in RunRow /\ current[k] \in RowsOf(k)
    BY <1>1 DEF SelectionInv, SelectionOf, RowsOf
  <2>2. PICK r \in Runs : r = current[k].run /\ Stopped(r)
    BY <2>1 DEF SettledInv, StoppedInv, RunRow
  <2>3. ~Prepare(r) /\ ~RecordOutcome(r)
    BY <2>2 DEF Stopped, Active, Prepare, RecordOutcome
  <2>4. OperationsOf(r)' = OperationsOf(r)
    BY <2>3, OperationsStay
  <2>5. OperationsOf(current[k].run)' = OperationsOf(r)'
    BY <1>1, <2>2 DEF OperationsOf
  <2> QED
    BY <2>2, <2>3, <2>4, <2>5
(* A witness stays one.                                                    *)
<1>2. ASSUME stage[k] \in {"operations", "recording"}, current'[k] = current[k],
             NEW id \in OperationsOf(current[k].run), operations[id].state = "unresolved",
             RecordFound(k) => found[k].id # id, Behind(k, id)'
      PROVE  \E i \in OperationsOf(current[k].run)' :
                operations'[i].state = "unresolved" /\ Behind(k, i)'
  <2>1. id \in Recorded /\ id[1] = current[k].run
    BY DEF OperationsOf
  <2>2. \A q \in Reconcilers : RecordFound(q) => found[q].id # id
    BY <1>2
  <2>3. operations'[id].state = "unresolved"
    BY <1>1, <1>2, <2>1, <2>2, StateStays
  <2> QED
    BY <1>1, <1>2, <2>3
<1>3. CASE UNCHANGED Notes(k)
  <2>1. PICK id \in OperationsOf(current[k].run) :
           operations[id].state = "unresolved" /\ Behind(k, id)
    BY <1>0, <1>3 DEF Notes, DoubtOf
  <2>2. ~RecordFound(k)
    BY <1>3 DEF Notes, RecordFound, Enter
  <2>3. Behind(k, id)'
    BY <1>3, <2>1 DEF Notes, Behind
  <2> QED
    BY <1>2, <1>3, <2>1, <2>2, <2>3 DEF Notes
<1>4. CASE TakeRun(k)
    BY <1>4 DEF TakeRun
<1>5. CASE ReadReceipt(k) \/ NoReceipt(k) \/ ReadError(k)
  <2>1. PICK operation \in left[k] : \E status : Find(k, operation, status)
    BY <1>5 DEF ReadReceipt, NoReceipt, ReadError
  <2>2. /\ current' = current /\ outcomes' = outcomes /\ stage[k] = "operations"
        /\ found'[k].id = operation.id
        /\ left'[k] = left[k] \ {operation}
    BY <1>5, <2>1 DEF Find, Enter, ReadReceipt, NoReceipt, ReadError
  <2>3. PICK id \in OperationsOf(current[k].run) :
           operations[id].state = "unresolved" /\ Behind(k, id)
    BY <1>0, <2>2 DEF DoubtOf
  <2>4. Behind(k, id)' /\ ~RecordFound(k)
    BY <2>2, <2>3 DEF Behind, RecordFound
  <2> QED
    BY <1>2, <2>2, <2>3, <2>4
<1>6. CASE RecordFound(k)
  <2>1. /\ current' = current /\ left' = left /\ stage[k] = "recording"
        /\ stage'[k] = "operations"
        /\ outcomes'[k] = outcomes[k] \cup {found[k].status}
        /\ operations' = [operations EXCEPT ![found[k].id] = WithState(@, found[k].status)]
        /\ found[k].id \in Recorded
    BY <1>6 DEF RecordFound, FetchedInv, FetchedOf, Enter
  <2>2. CASE "unresolved" \in outcomes[k]
    <3>1. PICK id \in OperationsOf(current[k].run) :
             operations[id].state = "unresolved" /\ Behind(k, id)
      BY <1>0, <2>1, <2>2 DEF DoubtOf
    <3>2. Behind(k, id)' /\ found[k].id # id
      BY <2>1, <3>1 DEF Behind
    <3> QED
      BY <1>2, <2>1, <3>1, <3>2
  <2>3. CASE found[k].status = "unresolved"
    <3>1. found[k].id \in OperationsOf(current[k].run)
      BY <1>0, <2>1 DEF OperationsOf, LookupsOf
    <3>2. operations'[found[k].id].state = "unresolved"
      BY <2>1, <2>3 DEF WithState, Recorded
    <3>3. \A operation \in left'[k] : operation.id # found[k].id
      BY <1>0, <2>1 DEF LookupsOf
    <3>4. found[k].id \in OperationsOf(current[k].run)'
      BY <1>1, <2>1, <3>1
    <3> QED
      BY <2>1, <3>2, <3>3, <3>4 DEF Behind
  <2> QED
    BY <2>1, <2>2, <2>3
<1>7. CASE UpdateRun(k) \/ CrashReconcile(k) \/ \E chosen \in SUBSET Started : Begin(k, chosen)
  <2>1. stage'[k] \in {"idle", "runs"}
    BY <1>7 DEF UpdateRun, CrashReconcile, Begin, Enter
  <2> QED
    BY <2>1
<1> QED
    BY <1>3, <1>4, <1>5, <1>6, <1>7, ReconcilerCases DEF Settle

(* A run that is called completed loses that state to the reconciler only, *)
(* and only over an operation it has just recorded as unresolved.          *)
LEMMA CompletionStays ==
    ASSUME IInv, AloneInv, [Next]_vars, NEW r \in Runs,
           runs[r] = "completed", runs'[r] # "completed"
    PROVE  \E id \in OperationsOf(r) : operations[id].state = "unresolved"
<1> USE DEF IInv, JournalInv, TypeOK
<1>1. pc[r] = "done"
    BY DEF OnlyTheWorkerCompletes
<1>2. ~(Start(r) \/ Prepare(r) \/ Complete(r))
    BY <1>1 DEF Start, Prepare, Complete
<1>3. PICK k \in Reconcilers : UpdateRun(k) /\ current[k].run = r
    BY <1>2, RunCases
<1>4. stage[k] = "operations" /\ left[k] = {} /\ current[k] \in RowsOf(k)
    BY <1>3 DEF UpdateRun, SelectionInv, SelectionOf, RowsOf
<1>5. current[k].state = "completed"
    BY <1>3, <1>4 DEF AloneInv, HeldOf
<1>6. NewState(k) # "completed"
    BY <1>3 DEF UpdateRun
<1>7. "unresolved" \in outcomes[k]
    BY <1>5, <1>6 DEF NewState, Resolved
<1> QED
    BY <1>3, <1>4, <1>7 DEF AloneInv, DoubtOf

(* CompletionSticks, `a previously completed run stays completed when its  *)
(* evidence remains consistent': with workers stopped first and one        *)
(* reconciler at a time, and whatever is lost, damaged or interrupted,     *)
(* completion is revoked only with an operation recorded as unresolved.    *)
THEOREM CompletionIsKept ==
    ASSUME StopFirst, \A k, q \in Reconcilers : k = q
    PROVE  Spec => CompletionSticks
<1> DEFINE Sticks == \A r \in Runs : runs[r] = "completed" /\ runs'[r] # "completed" =>
                        \E id \in OperationsOf(r) : operations[id].state = "unresolved"
<1>1. Init => AloneInv
    BY DEF Init, AloneInv, HeldOf, RowsOf
<1>2. IInv /\ AloneInv /\ [Next]_vars => AloneInv'
    BY HeldPreserved, LookupsPreserved, DoubtPreserved DEF AloneInv
<1>3. IInv /\ AloneInv /\ [Next]_vars => [Sticks]_vars
    BY CompletionStays
<1>4. Spec => [][Sticks]_vars
  <2> HIDE DEF Sticks
  <2> QED
    BY <1>1, <1>2, <1>3, Invariance, PTL DEF Spec
<1> QED
    BY <1>4 DEF CompletionSticks
=============================================================================
