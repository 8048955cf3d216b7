------------------------------ MODULE Decision ------------------------------
(***************************************************************************)
(* A decision from source to replay: a program is written and checked, run *)
(* against a catalog other writers share, and its report, perhaps damaged  *)
(* since, is replayed offline.                                             *)
(*                                                                         *)
(* A program the checker refuses never runs, so only accepted beginnings   *)
(* are continued.  Waived diagnostics are ignored: with them the           *)
(* interpreter meets programs it must refuse on its own, as it does for an *)
(* intermediate representation that did not come from the checker.         *)
(***************************************************************************)
EXTENDS Checker, Interpreter

CONSTANTS
    Settings,        \* what programs are written and how they are run
    MaxWrites,       \* bound: writes of others to the catalog
    MaxDamage        \* bound: damages to a report

(* Diagnostics of what the interpreter does not look at again: bindings of *)
(* one name, of no value, resources and models, origins, effects.          *)
Essential == {"F3001", "F3003", "F3004", "F3005", "F3006", "F3101", "F3301"}

(* A setting: whether the run has a journal, and so every commit an        *)
(* operation id; the diagnostics that do not stop a program from running;  *)
(* the candidate lists a model may answer with; values of                  *)
(* max_evidence_bytes, in events; the sets of effects a program may        *)
(* declare; and bounds on its statements and on how often an operation     *)
(* occurs at the top of it.                                                *)
ASSUME DecisionAssumption ==
    /\ {MaxWrites, MaxDamage} \subseteq Nat
    /\ \A s \in Settings :
          /\ s.journaled \in BOOLEAN
          /\ s.waived \cap Essential = {}
          /\ s.budgets \subseteq Nat
          /\ s.proposals \subseteq Seq(Plans \cup {Malformed})
          /\ s.effects \subseteq SUBSET Effects /\ None \notin s.effects
          /\ s.statements \in 0 .. MaxStatements
          /\ s.quota \in [Operations -> Nat]

VARIABLES
    setting,     \* the one the decision is written and run in
    source,      \* the statements written so far
    checker,     \* what the checker made of them
    declared,    \* the effects the decision declares, None while it is written
    live,        \* the interpreter running the decision
    catalog,     \* the content of the catalog
    receipts,    \* the receipts this run left in it
    calls,       \* history: tokens and payloads handed to the adapter
    report,      \* the saved report, None before
    damage,      \* how often the report was damaged
    offline,     \* the interpreter replaying the report, None before
    verdict      \* what replay says of the report, None before

vars == <<setting, source, checker, declared, live, catalog, receipts, calls, report, damage, offline, verdict>>
program == <<setting, source, checker, declared>>
target == <<catalog, receipts>>
saved == <<report, damage, offline, verdict>>

Seed == [revision |-> 0, source |-> 0, units |-> None]
Init ==
    /\ setting \in Settings
    /\ source = <<>>
    /\ checker = NewChecker
    /\ declared = None
    /\ live = Machine(0, None)
    /\ catalog = Seed
    /\ receipts = {}
    /\ calls = <<>>
    /\ report = None
    /\ damage = 0
    /\ offline = None
    /\ verdict = None

-----------------------------------------------------------------------------
Acceptable(c) == ToSet(c.diagnostics) \subseteq setting.waived

(* Bindings are numbered as they are introduced.  A statement may refer to *)
(* any of them or to one that does not exist; a `let' takes the next       *)
(* number, or one that is taken and must be refused.                       *)
NextName == Cardinality(DOMAIN checker.env) + 1
NamesInUse == {NextName} \cup DOMAIN checker.env

Uses(op) == Cardinality({i \in DOMAIN source : source[i].value.op = op})
Writable ==
    UNION {Expressions(op, NamesInUse) : op \in {o \in Operations : Uses(o) < setting.quota[o]}}

WriteLet ==
    /\ declared = None
    /\ Len(source) < setting.statements - 1
    /\ \E e \in Writable, name \in {1, NextName} :
          LET s == [kind |-> "let", name |-> name, value |-> e] IN
          /\ source' = Append(source, s)
          /\ checker' = CheckStatement(checker, s)
    /\ Acceptable(checker')
    /\ UNCHANGED <<setting, declared, live, target, calls, saved>>

(* The decision ends with its only return; then its effects are checked    *)
(* and it is run.                                                          *)
WriteReturn ==
    /\ declared = None
    /\ \E e \in Writable, effects \in setting.effects, budget \in setting.budgets :
          LET s == [kind |-> "return", value |-> e] IN
          /\ source' = Append(source, s)
          /\ declared' = effects
          /\ checker' = CheckEffects(CheckStatement(checker, s), effects)
          /\ live' = Machine(budget, None)
    /\ Acceptable(checker')
    /\ UNCHANGED <<setting, target, calls, saved>>

-----------------------------------------------------------------------------
Running == declared # None /\ ~Ended(live)
Current == source[live.pc]
At(op) == Running /\ Current.value.op = op

ReadSnapshot ==
    /\ At("snapshot")
    /\ live' = ExecSnapshot(live, Current, catalog)
    /\ UNCHANGED <<program, target, calls, saved>>

Propose ==
    /\ At("propose")
    /\ \E plans \in setting.proposals :
          live' = IF ProposalArguments(live, Current.value)
                  THEN ExecPropose(live, Current, plans)
                  ELSE Fail(live)
    /\ UNCHANGED <<program, target, calls, saved>>

(* The catalog cannot be read, or the model fails.                         *)
ProviderFails ==
    /\ \/ At("snapshot")
       \/ At("propose") /\ ProposalArguments(live, Current.value)
    /\ live' = Stop(live, "provider_error")
    /\ UNCHANGED <<program, target, calls, saved>>

Compute ==
    /\ \/ At("explore") /\ live' = ExecExplore(live, Current)
       \/ At("select") /\ live' = ExecSelect(live, Current)
       \/ At("var") /\ live' = ExecPure(live, Current)
       \/ At("call") /\ live' = ExecPure(live, Current)
       \/ At("simulate") /\ live' = ExecPure(live, Current)
    /\ UNCHANGED <<program, target, calls, saved>>

-----------------------------------------------------------------------------
(* Runtime.apply_selection.  Catalog.commit is one step: see AtomicCommit. *)
Payload == live.selections[Token(live, Current.value)].payload
OperationId == IF setting.journaled THEN Len(calls) + 1 ELSE None
Spent == Spend(live, Current.value)
Called == calls' = Append(calls, [token |-> Token(live, Current.value), payload |-> Payload])

RefuseToken ==
    /\ At("commit")
    /\ ~Committable(live, Current.value)
    /\ live' = Fail(live)
    /\ UNCHANGED <<program, target, calls, saved>>

(* The commit event and its reserve do not fit: the adapter is not called. *)
NoRoomForCommit ==
    /\ At("commit")
    /\ Committable(live, Current.value)
    /\ ~Fits(live)
    /\ live' = Stop(Spent, "evidence_limit")
    /\ UNCHANGED <<program, target, calls, saved>>

Calling == At("commit") /\ Committable(live, Current.value) /\ Fits(live)

Known == {r \in receipts : r.id = Identity(Payload, OperationId)}
SameIntent(r) == r.base = Payload.base /\ r.plan = Payload.plan
Conflict == \E r \in Known : ~SameIntent(r)
Fresh == catalog = Payload.base
Rejected ==      \* the adapter raises before it changes anything
    \/ Payload.plan \notin KeepsSource
    \/ Conflict
    \/ Known = {} /\ Fresh /\ Payload.plan \notin KnownRows \cap ValidUnits

Answer(status, revision) ==
    live' = ExecCommit(Spent, Current, Payload, OperationId,
                       Outcome(status, Identity(Payload, OperationId), revision))
Receipt(status, revision) ==
    [id |-> Identity(Payload, OperationId), base |-> Payload.base, plan |-> Payload.plan,
     status |-> status, revision |-> revision]

(* The same commit again: the adapter repeats its first answer.            *)
CommitAgain ==
    /\ Calling
    /\ ~Rejected
    /\ \E r \in Known : Answer(r.status, r.revision)
    /\ Called
    /\ UNCHANGED <<program, target, saved>>

CommitStale ==
    /\ Calling
    /\ ~Rejected /\ Known = {} /\ ~Fresh
    /\ Answer("stale", catalog.revision)
    /\ receipts' = receipts \cup {Receipt("stale", catalog.revision)}
    /\ Called
    /\ UNCHANGED <<program, catalog, saved>>

CommitApplies ==
    /\ Calling
    /\ ~Rejected /\ Known = {} /\ Fresh
    /\ Answer("applied", catalog.revision + 1)
    /\ catalog' = [Applied(catalog, Payload.plan) EXCEPT !.revision = @ + 1]
    /\ receipts' = receipts \cup {Receipt("applied", catalog.revision + 1)}
    /\ Called
    /\ UNCHANGED <<program, saved>>

(* The adapter raises: because it rejects the commit, because the database *)
(* fails, or after its transaction took effect.  With a journal the run    *)
(* ends unresolved; without one the error escapes and there is no report.  *)
AdapterError == live' = IF setting.journaled THEN Stop(Spent, "commit_unresolved") ELSE Raise(Spent)
CommitRaises ==
    /\ Calling
    /\ AdapterError
    /\ Called
    /\ UNCHANGED <<program, target, saved>>
CommitAppliesThenRaises ==
    /\ Calling
    /\ ~Rejected /\ Known = {} /\ Fresh
    /\ AdapterError
    /\ catalog' = [Applied(catalog, Payload.plan) EXCEPT !.revision = @ + 1]
    /\ receipts' = receipts \cup {Receipt("applied", catalog.revision + 1)}
    /\ Called
    /\ UNCHANGED <<program, saved>>

Commit ==
    \/ RefuseToken \/ NoRoomForCommit
    \/ CommitAgain \/ CommitStale \/ CommitApplies
    \/ CommitRaises \/ CommitAppliesThenRaises

(* Another writer changes a title: mutate_for_stale_test.                  *)
OutsideWrite ==
    /\ Running
    /\ catalog.source < MaxWrites
    /\ catalog' = [catalog EXCEPT !.revision = @ + 1, !.source = @ + 1]
    /\ UNCHANGED <<program, live, receipts, calls, saved>>

-----------------------------------------------------------------------------
(* A run that ends without an exception saves its report.                  *)
Save ==
    /\ live.outcome # None
    /\ report = None
    /\ report' = Report(live, live.events)
    /\ UNCHANGED <<program, live, target, calls, damage, offline, verdict>>

(* What may happen to the evidence since, checksum and all: an event is    *)
(* lost, two change places, one appears twice, or the outcome is altered.  *)
Damaged(events) ==
    {RemoveAt(events, i) : i \in DOMAIN events}
      \cup {InsertAt(events, i, events[i]) : i \in DOMAIN events}
      \cup {[events EXCEPT ![i] = events[j], ![j] = events[i]] : i, j \in DOMAIN events}
Damage ==
    /\ report # None /\ verdict = None /\ offline = None
    /\ damage < MaxDamage
    /\ damage' = damage + 1
    /\ \/ \E events \in Damaged(report.events) \ {report.events} :
             report' = [report EXCEPT !.events = events]
       \/ /\ report.outcome.status = "stale"
          /\ report' = [report EXCEPT !.outcome.status = "applied"]
    /\ UNCHANGED <<program, live, target, calls, offline, verdict>>

(* replay.reproduce refuses an incomplete report at once.  It rebuilds the *)
(* program from its representation and compiles it again, whatever was     *)
(* waived before it ran: a diagnostic refuses the report.  (The text it    *)
(* rebuilds is RecordedPrograms' matter.)  Then it runs the program again  *)
(* on what was recorded.  (Mutant: it runs what it was given.)             *)
RecompilesAnything == TRUE
Recompiles == checker.diagnostics = <<>>
Replay ==
    /\ report # None /\ verdict = None /\ offline = None
    /\ IF report.complete /\ Recompiles
       THEN /\ offline' = Machine(None, report.events)
            /\ UNCHANGED verdict
       ELSE /\ verdict' = "refused"
            /\ UNCHANGED offline
    /\ UNCHANGED <<program, live, target, calls, report, damage>>

Replaying == offline # None /\ verdict = None
ReplayStep ==
    /\ Replaying
    /\ ~Ended(offline)
    /\ offline' = OfflineStep(offline, source[offline.pc])
    /\ UNCHANGED <<program, live, target, calls, report, damage, verdict>>

ReplayEnds ==
    /\ Replaying
    /\ Ended(offline)
    /\ verdict' = IF Reproduces(offline, report) THEN "reproduced" ELSE "refused"
    /\ UNCHANGED <<program, live, target, calls, report, damage, offline>>

Next ==
    \/ WriteLet \/ WriteReturn
    \/ ReadSnapshot \/ Propose \/ ProviderFails \/ Compute \/ Commit \/ OutsideWrite
    \/ Save \/ Damage \/ Replay \/ ReplayStep \/ ReplayEnds

Spec == Init /\ [][Next]_vars
=============================================================================
