------------------------- MODULE RecoveryInvariants -------------------------
(***************************************************************************)
(* The inductive invariant of Recovery: what journal, ledger, workers and  *)
(* reconcilers know of each other between any two writes.                  *)
(***************************************************************************)
EXTENDS Recovery

(* The journal holds exactly the operations its workers have counted.      *)
CountInv == \A r \in Runs : \A n \in 1..MaxCommits : <<r, n>> \in Recorded <=> n <= count[r]

(* An operation under way is the worker's last, and its row names the      *)
(* database the worker has open and the snapshot it selected against.      *)
WorkerOf(r) ==
    /\ pc[r] \in Active => catalog[r] \in Databases
    /\ pc[r] \in {"prepared", "decided"} =>
          /\ This(r) \in Recorded
          /\ operations[This(r)].target = catalog[r]
          /\ operations[This(r)].intent = base[r]
    /\ pc[r] = "decided" => DecidedAs(This(r), outcome[r])

WorkerInv == \A r \in Runs : WorkerOf(r)

Locals(r) == <<pc[r], catalog[r], base[r], count[r], outcome[r], evidence[r]>>

RunsInv == \A r \in Runs : pc[r] = "off" <=> runs[r] = None

(* A commit under way has room for its payload and its reserve.            *)
EvidenceInv ==
    /\ EvidenceWithinLimit
    /\ \A r \in Runs :
          pc[r] \in {"prepared", "decided", "recorded"} => Fits(r, PayloadBytes, Reserve)

(* What a reconciler has fetched, and what it is about to record.          *)
FetchedOf(k) ==
    /\ \A operation \in left[k] :
          /\ operation.id \in Recorded
          /\ operation.row.target = operations[operation.id].target
          /\ operation.row.intent = operations[operation.id].intent
    /\ stage[k] = "recording" =>
          /\ found[k] # None
          /\ found[k].id \in Recorded
          /\ found[k].status \in Terminal => DecidedAs(found[k].id, found[k].status)

FetchedInv == \A k \in Reconcilers : FetchedOf(k)

Notes(k) == <<stage[k], selected[k], current[k], left[k], found[k], outcomes[k]>>

(* The rows of `runs' a reconciler works on.                               *)
RowsOf(k) == selected[k] \cup IF current[k] = None THEN {} ELSE {current[k]}

SelectionOf(k) ==
    /\ stage[k] \in {"operations", "recording"} => current[k] # None
    /\ \A row \in RowsOf(k) :
          /\ pc[row.run] # "off"
          /\ row.state = "completed" => pc[row.run] = "done" /\ Certain(row.run)

SelectionInv == \A k \in Reconcilers : SelectionOf(k)

JournalInv ==
    /\ TypeOK
    /\ CountInv
    /\ WorkerInv
    /\ RunsInv
    /\ EvidenceInv
    /\ FetchedInv
    /\ SelectionInv
    /\ RecordedOutcomeIsTrue
    /\ IntentBeforeEffect
    /\ OnlyTheWorkerCompletes

(* With workers stopped first: a run that may still complete has only      *)
(* decided operations, the one under way excepted; and a reconciler has,   *)
(* for each operation of its run, a row to look up, an outcome to record,  *)
(* or an outcome recorded.                                                 *)
KnownSoFar ==
    \A r \in Runs : \A id \in OperationsOf(r) :
        \/ Decided(id)
        \/ pc[r] = "prepared" /\ id = This(r)
        \/ pc[r] = "dead"
        \/ pc[r] \in {"stopping", "done"} /\ ~Certain(r)

StoppedInv == \A k \in Reconcilers : \A row \in RowsOf(k) : Stopped(row.run)

PassInv ==
    \A k \in Reconcilers : stage[k] \in {"operations", "recording"} =>
        \A id \in OperationsOf(current[k].run) :
            \/ \E operation \in left[k] : operation.id = id
            \/ stage[k] = "recording" /\ found[k].id = id
            \/ outcomes[k] # {} /\ ("unresolved" \notin outcomes[k] => Decided(id))

SettledInv == KnownSoFar /\ StoppedInv /\ PassInv /\ SettledRunsAreDecided

IInv == JournalInv /\ (StopFirst => SettledInv)
(* With one reconciler at a time: the rows it holds are those of the       *)
(* journal, each for a run of its own; it looks up each operation of its   *)
(* run at most once; and an unresolved outcome it has counted is that of   *)
(* an operation recorded as unresolved, which it will not touch again.     *)
HeldOf(k) ==
    /\ \A row \in RowsOf(k) : runs[row.run] = row.state
    /\ \A row, other \in RowsOf(k) : row.run = other.run => row = other
    /\ current[k] \notin selected[k]
    /\ stage[k] \in {"idle", "runs"} => current[k] = None

Behind(k, id) ==
    /\ \A operation \in left[k] : operation.id # id
    /\ stage[k] = "recording" => found[k].id # id

LookupsOf(k) ==
    /\ \A operation, other \in left[k] : operation.id = other.id => operation = other
    /\ \A operation \in left[k] : operation.id[1] = current[k].run
    /\ stage[k] = "recording" =>
          /\ found[k].id[1] = current[k].run
          /\ \A operation \in left[k] : operation.id # found[k].id

DoubtOf(k) ==
    "unresolved" \in outcomes[k] =>
        \E id \in OperationsOf(current[k].run) :
            operations[id].state = "unresolved" /\ Behind(k, id)

AloneInv ==
    \A k \in Reconcilers :
        /\ HeldOf(k)
        /\ stage[k] \in {"operations", "recording"} => LookupsOf(k) /\ DoubtOf(k)

=============================================================================
