-------------------------- MODULE CatalogInvariants --------------------------
(***************************************************************************)
(* The inductive invariant of CatalogStore.  The properties of that module *)
(* speak of what is committed and what is answered; each step is justified *)
(* by what an open transaction holds, which is what is added here.         *)
(***************************************************************************)
EXTENDS CatalogStore

(* The write lock and the program counters tell the same story.            *)
LockInv == \A c \in Connections : pc[c] \in InTransaction <=> writer = c

(* A revision stands for one content, for snapshots handed out and for the *)
(* one an open read is about to hand out.                                  *)
KnownInv ==
    /\ SnapshotsConsistent
    /\ \A c \in Connections : pc[c] = "reading" => seen[c] = db.revision

(* A call in progress, or answered, has well-formed arguments; its base is *)
(* a snapshot that was handed out.                                         *)
RequestInv ==
    \A c \in Connections :
        /\ pc[c] \in Calling => request[c] \in Request /\ request[c].base \in known
        /\ Delivered(c) => request[c] \in Request

(* What the ledger says of the revisions it mentions.                      *)
ReceiptInv == OneReceiptPerIdentity /\ NoLostUpdate /\ StaleMeansMovedOn

(* The decision a transaction is about to commit, against the database it  *)
(* will replace: the receipt repeats, refuses or applies the request.      *)
Repeats(c, r) ==
    /\ r \in db.receipts
    /\ work[c] = db
    /\ answer[c] = AnswerFrom(r, TRUE)

Refuses(c, r) ==
    /\ Undecided(db, r.commit_id)
    /\ r.status = "stale" /\ r.revision = db.revision
    /\ request[c].base # SnapshotOf(db)
    /\ work[c] = [revision |-> db.revision, rows |-> db.rows,
                  receipts |-> db.receipts \cup {r}]
    /\ answer[c] = AnswerFrom(r, FALSE)

Applies(c, r) ==
    /\ Undecided(db, r.commit_id)
    /\ r.status = "applied" /\ r.revision = db.revision + 1
    /\ request[c].base = SnapshotOf(db)
    /\ KnownRows(request[c].plan)
    /\ ValidArithmetic(Effect(db.rows, request[c].plan))
    /\ work[c] = [revision |-> db.revision + 1,
                  rows |-> Effect(db.rows, request[c].plan),
                  receipts |-> db.receipts \cup {r}]
    /\ answer[c] = AnswerFrom(r, FALSE)

Decides(r, c) == r.commit_id = CommitId(request[c]) /\ r.intent = IntentOf(request[c])

BegunInv(c) == work[c] = db

PatchingInv(c) ==
    /\ Undecided(db, CommitId(request[c]))
    /\ request[c].base = SnapshotOf(db)
    /\ KnownRows(request[c].plan)
    /\ ValidArithmetic(Effect(db.rows, request[c].plan))
    /\ expected[c] = Effect(db.rows, request[c].plan)
    /\ work[c].revision = db.revision
    /\ work[c].receipts = db.receipts

FinishingInv(c) ==
    \E r \in work[c].receipts :
        /\ Decides(r, c)
        /\ Repeats(c, r) \/ Refuses(c, r) \/ Applies(c, r)

TransactionOf(c) ==
    /\ pc[c] = "begun" => BegunInv(c)
    /\ pc[c] = "patching" => PatchingInv(c)
    /\ pc[c] = "finishing" => FinishingInv(c)

TransactionInv == \A c \in Connections : TransactionOf(c)

(* An answer that is committed, whether or not it has been returned yet.   *)
Settled(c) == pc[c] = "committed" \/ Delivered(c)

AnswerInv ==
    /\ \A c \in Connections : Settled(c) =>
          /\ answer[c] # None
          /\ \E r \in db.receipts :
                Decides(r, c) /\ answer[c] = AnswerFrom(r, answer[c].replay)
    /\ \A c, d \in Connections :
          /\ Settled(c) /\ ~answer[c].replay
          /\ Settled(d) /\ ~answer[d].replay
          /\ answer[c].commit_id = answer[d].commit_id
          => c = d

(* The ledger can be counted.                                              *)
LedgerInv == IsFiniteSet(db.receipts) /\ LedgerAccountsForRevision

IInv ==
    /\ TypeOK
    /\ LockInv
    /\ KnownInv
    /\ RequestInv
    /\ ReceiptInv
    /\ TransactionInv
    /\ AnswerInv
    /\ UnitArithmetic
=============================================================================
