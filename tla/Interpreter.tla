----------------------------- MODULE Interpreter -----------------------------
(***************************************************************************)
(* The interpreter (foresee/runtime.py, class Runtime) and its offline     *)
(* subclass (foresee/replay.py, class OfflineRuntime).  A machine is a     *)
(* record; it is offline when it has no budget for evidence, and its       *)
(* `recorded' events take the place of the catalog and the model.          *)
(*                                                                         *)
(* A snapshot is its content: a revision, a version of the source fields   *)
(* and the plan that last wrote the derived fields: plans patch the same   *)
(* rows.  Its digest covers all of that.  TrialSet and Selected objects are positions in the        *)
(* machine's registries.                                                   *)
(***************************************************************************)
EXTENDS DecisionLanguage

CONSTANTS
    Plans,           \* candidate plans, by id; ids are ordered
    Malformed,       \* a candidate without a string id or a list of patches
    KnownRows,       \* plans that patch only rows the catalog has
    KeepsSource,     \* plans that patch only the derived field
    ValidUnits,      \* plans whose prices agree with pack and units
    Unresolved,      \* Unresolved[p]: rows without a unit price after p
    Unpriced         \* rows without a unit price before any plan

Content == [revision : Nat, source : Int, units : Plans \cup {None}]
Statuses ==
    {"applied", "stale", "invalid_plans", "no_eligible_candidate",
     "provider_error", "evidence_limit", "commit_unresolved"}
Outcomes ==
    [status : Statuses, id : {None} \cup [default : Content] \cup [operation : Nat],
     revision : Nat \cup {None}]

ASSUME PlanAssumption ==
    /\ Plans \subseteq Nat
    /\ Malformed \notin Plans
    /\ {KnownRows, KeepsSource, ValidUnits} \subseteq SUBSET Plans
    /\ Unresolved \in [Plans -> Nat]
    /\ Unpriced \in Nat
    /\ None \notin Nat \cup Content \cup Outcomes \cup {"internal", "plan", "adapter", "evidence"}

(* Catalog.apply_to_snapshot and the methods of a resource.                *)
Applied(base, plan) ==
    [base EXCEPT !.units = plan,
                 !.source = IF plan \in KeepsSource THEN @ ELSE -1]
CallMethod(method, args) ==
    CASE method = "source_fields_unchanged" -> args[1].source = args[2].source
      [] method = "valid_unit_arithmetic" -> args[1].units \in ValidUnits \cup {None}
      [] method = "unresolved_units" ->
            IF args[1].units = None THEN Unpriced ELSE Unresolved[args[1].units]

Value(kind, is) == [kind |-> kind, is |-> is]
Outcome(status, id, revision) == [status |-> status, id |-> id, revision |-> revision]

Machine(budget, recorded) ==
    [pc |-> 1, env |-> <<>>, trials |-> <<>>, selections |-> <<>>,
     exploration |-> None, selection |-> None, events |-> <<>>,
     outcome |-> None, failure |-> None, budget |-> budget, recorded |-> recorded]

Stop(m, status) == [m EXCEPT !.outcome = Outcome(status, None, None)]
Fail(m) == [m EXCEPT !.failure = "internal"]       \* RuntimeError, KeyError
Raise(m) == [m EXCEPT !.failure = "adapter"]       \* no journal: the error escapes
Refuse(m) == [m EXCEPT !.failure = "evidence"]     \* ValueError while replaying
Ended(m) == m.outcome # None \/ m.failure # None

(* Runtime.observe keeps an event if it fits into max_evidence_bytes, here *)
(* a number of events; OfflineRuntime.observe compares it first.           *)
Fits(m) == Len(m.events) < m.budget
Expected(m, kind) ==
    LET cursor == Len(m.events) + 1 IN
    cursor \in DOMAIN m.recorded /\ m.recorded[cursor].kind = kind
RecordedData(m) == m.recorded[Len(m.events) + 1].data
Observe(m, kind, data) ==
    LET kept == [m EXCEPT !.events = Append(@, [kind |-> kind, data |-> data])] IN
    IF m.budget = None
    THEN IF Expected(m, kind) /\ RecordedData(m) = data THEN kept ELSE Refuse(m)
    ELSE IF Fits(m) THEN kept ELSE Stop(m, "evidence_limit")

Assign(f, name, value) ==
    [n \in DOMAIN f \cup {name} |-> IF n = name THEN value ELSE f[n]]

(* A statement whose value is known: it is bound, or it ends the run.      *)
Finish(m, s, value) ==
    IF Ended(m) THEN m
    ELSE IF s.kind = "let" THEN [m EXCEPT !.env = Assign(@, s.name, value), !.pc = @ + 1]
    ELSE IF s.kind = "return" /\ value.kind = "outcome" THEN [m EXCEPT !.outcome = value.is]
    ELSE Fail(m)

Has(env, name, kinds) == name \in DOMAIN env /\ env[name].kind \in kinds
IsState(env, name) == Has(env, name, States)

-----------------------------------------------------------------------------
(* Expressions without effects, inside a branch or outside of one.  `base' *)
(* is the snapshot of the branch, None outside.  A value of kind `error'   *)
(* stands for an exception: of a plan that does not apply, or of a program *)
(* the checker should have refused.                                        *)
Raised(why) == Value("error", why)
SimulateValue(env, base, e) ==
    IF base = None \/ e.method # "apply" \/ ~Has(env, e.plan, {"plan"}) THEN Raised("internal")
    ELSE IF env[e.plan].is \notin KnownRows THEN Raised("plan")
    ELSE Value("simulated", Applied(base, env[e.plan].is))
CallValue(env, e) ==
    IF \/ e.target # Catalog
       \/ e.method \notin Methods
       \/ Len(e.args) # Arity[e.method]
       \/ \E i \in DOMAIN e.args : ~IsState(env, e.args[i])
    THEN Raised("internal")
    ELSE Value(Result[e.method],
               CallMethod(e.method, [i \in DOMAIN e.args |-> env[e.args[i]].is]))
PureValue(env, base, e) ==
    CASE e.op = "var" -> IF e.name \in DOMAIN env THEN env[e.name] ELSE Raised("internal")
      [] e.op = "simulate" -> SimulateValue(env, base, e)
      [] e.op = "call" -> CallValue(env, e)
      [] e.op \in BranchForbidden -> Raised("internal")

(* One statement of a branch.  Simulating twice raises, whatever the       *)
(* checker said, and so does a value of the wrong type.                    *)
BranchValue(base, branch, s) ==
    LET value == PureValue(branch.env, base, s.value) IN
    IF \/ s.value.op = "simulate" /\ branch.simulations > 0
       \/ s.kind = "return"
       \/ s.kind = "check" /\ value.kind \notin {"bool", "error"}
       \/ s.kind = "measure" /\ value.kind \notin {"int", "error"}
    THEN Raised("internal")
    ELSE value
BranchStep(base, branch, s) ==
    LET value == BranchValue(base, branch, s)
        next == [branch EXCEPT !.simulations = @ + IF s.value.op = "simulate" THEN 1 ELSE 0]
    IN  IF branch.error # None THEN branch
        ELSE IF value.kind = "error" THEN [next EXCEPT !.error = value.is]
        ELSE CASE s.kind = "let" -> [next EXCEPT !.env = Assign(@, s.name, value)]
               [] s.kind = "check" -> [next EXCEPT !.checks = Append(@, value.is)]
               [] s.kind = "measure" -> [next EXCEPT !.metrics = Assign(@, s.name, value.is)]

(* Every plan is tried in a copy of the environment.  A branch that raises *)
(* fails its trial and no other.                                           *)
Trial(env, e, base, plan) ==
    LET start == [env |-> Assign(env, Item, Value("plan", plan)),
                  checks |-> <<>>, metrics |-> <<>>, simulations |-> 0, error |-> None]
        branch[i \in 0 .. Len(e.body)] ==    \* after i statements
            IF i = 0 THEN start ELSE BranchStep(base, branch[i - 1], e.body[i])
        end == branch[Len(e.body)]
        error == IF end.error = None /\ end.simulations # 1 THEN "internal" ELSE end.error
    IN  [plan |-> plan, base |-> base, checks |-> end.checks, metrics |-> end.metrics,
         error |-> error,
         eligible |-> error = None /\ (\A i \in DOMAIN end.checks : end.checks[i])]

Summary(trials) ==
    [i \in DOMAIN trials |->
        [plan |-> trials[i].plan, eligible |-> trials[i].eligible, checks |-> trials[i].checks,
         metrics |-> trials[i].metrics, error |-> trials[i].error]]

WellFormed(plans) ==
    /\ \A i \in DOMAIN plans : plans[i] # Malformed
    /\ \A i, j \in DOMAIN plans : plans[i] = plans[j] => i = j

(* `explore': all candidates finish before the TrialSet is issued.         *)
ExecExplore(m, s) ==
    LET e == s.value
        plans == m.env[e.plans].is
        base == m.env[e.base].is
        trials == [i \in DOMAIN plans |-> Trial(m.env, e, base, plans[i])]
        explored == Observe([m EXCEPT !.exploration = Summary(trials)],
                            "exploration", Summary(trials))
        issued == [explored EXCEPT !.trials = Append(@, trials)]
    IN  IF ~({e.plans, e.base} \subseteq DOMAIN m.env) THEN Fail(m)
        ELSE IF ~Has(m.env, e.plans, {"plans"}) \/ ~WellFormed(plans) THEN Stop(m, "invalid_plans")
        ELSE IF plans # <<>> /\ ~IsState(m.env, e.base) THEN Fail(m)
        ELSE IF Ended(explored) THEN explored
        ELSE Finish(issued, s, Value("trials", Len(issued.trials)))

(* `select': least metric first, then least id, among eligible trials.     *)
Better(a, b, metric) ==
    \/ a.metrics[metric] < b.metrics[metric]
    \/ a.metrics[metric] = b.metrics[metric] /\ a.plan <= b.plan
(* (Mutant: failed checks are overlooked.)                                 *)
Evaluated(trials) == {trials[i] : i \in {j \in DOMAIN trials : trials[j].error = None}}
Eligible(trials) == {trials[i] : i \in {j \in DOMAIN trials : trials[j].eligible}}
Chosen(trials, metric) ==
    CHOOSE trial \in Eligible(trials) :
        \A other \in Eligible(trials) : Better(trial, other, metric)

ExecSelect(m, s) ==
    LET e == s.value
        trials == m.trials[m.env[e.trials].is]
        chosen == Chosen(trials, e.metric)
        payload == [plan |-> chosen.plan, base |-> chosen.base,
                    metric |-> e.metric, score |-> chosen.metrics[e.metric]]
        selection == [plan |-> chosen.plan, metric |-> e.metric, score |-> payload.score]
        selected == Observe([m EXCEPT !.selection = selection], "selection", selection)
        issued == [selected EXCEPT !.selections = Append(@, [payload |-> payload, spent |-> FALSE])]
    IN  IF ~Has(m.env, e.trials, {"trials"}) THEN Fail(m)
        ELSE IF Eligible(trials) = {} THEN Stop(m, "no_eligible_candidate")
        ELSE IF \E trial \in Eligible(trials) : e.metric \notin DOMAIN trial.metrics THEN Fail(m)
        ELSE IF Ended(selected) THEN selected
        ELSE Finish(issued, s, Value("selected", Len(issued.selections)))

ExecPure(m, s) ==
    LET value == PureValue(m.env, None, s.value) IN
    IF value.kind = "error" THEN Fail(m) ELSE Finish(m, s, value)

-----------------------------------------------------------------------------
(* Expressions that reach outside: what comes back is an argument.         *)
ExecSnapshot(m, s, base) ==
    Finish(Observe(m, "snapshot", base), s, Value("snapshot", base))

ProposalArguments(m, e) == IsState(m.env, e.base) /\ e.limit \in 1..4
ExecPropose(m, s, plans) ==
    LET e == s.value
        data == [base |-> m.env[e.base].is, limit |-> e.limit, plans |-> plans]
    IN  Finish(Observe(m, "proposal", data), s, Value("plans", plans))

(* `commit': the token must have been issued here, be unspent and belong   *)
(* to the resource; it is spent before the adapter is called.              *)
Committable(m, e) ==
    /\ Has(m.env, e.selected, {"selected"})
    /\ ~m.selections[m.env[e.selected].is].spent
    /\ e.resource = Catalog
(* (Mutant of Spend: the token stays in the registry.)                     *)
Token(m, e) == m.env[e.selected].is
Unspent(m, e) == m
Spend(m, e) ==
    LET registry == m.selections IN
    [m EXCEPT !.selections =
        [i \in DOMAIN registry |->
            [payload |-> registry[i].payload, spent |-> registry[i].spent \/ i = Token(m, e)]]]
ExecCommit(m, s, payload, operation, outcome) ==
    LET data == [payload |-> payload, operation |-> operation, outcome |-> outcome]
    IN  Finish(Observe(m, "commit", data), s, Value("outcome", outcome))

(* catalog.commit_identity: without an operation id, program and snapshot  *)
(* identify the commit.                                                    *)
Identity(payload, operation) ==
    IF operation = None THEN [default |-> payload.base] ELSE [operation |-> operation]

-----------------------------------------------------------------------------
(* The offline machine.  OfflineRuntime.apply_selection also compares what *)
(* was recorded as the outcome with what the selection admits.             *)
(* (Mutant: only effects are expected, no stale commits.)                  *)
AppliedOutcome(payload, data) ==
    /\ data.payload = payload
    /\ data.outcome.id = Identity(payload, data.operation)
    /\ data.outcome.status = "applied"
    /\ data.outcome.revision = payload.base.revision + 1
ConsistentOutcome(payload, data) ==
    /\ data.payload = payload
    /\ data.outcome.id = Identity(payload, data.operation)
    /\ data.outcome.status \in {"applied", "stale"}
    /\ data.outcome.revision \in Nat
    /\ data.outcome.status = "applied" => data.outcome.revision = payload.base.revision + 1

OfflineCommit(m, s) ==
    LET payload == m.selections[Token(m, s.value)].payload
        spent == Spend(m, s.value)
    IN  IF ~Committable(m, s.value) THEN Fail(m)
        ELSE IF ~Expected(m, "commit") THEN Refuse(spent)
        ELSE IF ~ConsistentOutcome(payload, RecordedData(m)) THEN Refuse(spent)
        ELSE ExecCommit(spent, s, payload, RecordedData(m).operation, RecordedData(m).outcome)

OfflineSnapshot(m, s) ==
    IF Expected(m, "snapshot") THEN ExecSnapshot(m, s, RecordedData(m)) ELSE Refuse(m)
OfflinePropose(m, s) ==
    IF ~ProposalArguments(m, s.value) THEN Fail(m)
    ELSE IF ~Expected(m, "proposal") THEN Refuse(m)
    ELSE ExecPropose(m, s, RecordedData(m).plans)
OfflineStep(m, s) ==
    CASE s.value.op = "snapshot" -> OfflineSnapshot(m, s)
      [] s.value.op = "propose" -> OfflinePropose(m, s)
      [] s.value.op = "explore" -> ExecExplore(m, s)
      [] s.value.op = "select" -> ExecSelect(m, s)
      [] s.value.op = "commit" -> OfflineCommit(m, s)
      [] s.value.op \in {"var", "call", "simulate"} -> ExecPure(m, s)

(* Outcomes that leave something open.  (Mutant: a commit in doubt is not  *)
(* one of them.)                                                           *)
Stopped == {"provider_error", "evidence_limit"}
Incomplete == {"provider_error", "evidence_limit", "commit_unresolved"}

Report(m, events) ==
    [exploration |-> m.exploration, selection |-> m.selection, outcome |-> m.outcome,
     events |-> events,
     complete |-> m.outcome.status \notin Incomplete]

(* replay.reproduce: everything recorded is consumed, nothing differs.     *)
(* (Mutant: trailing events are ignored.)                                  *)
ReproducesPrefix(m, report) ==
    /\ m.failure = None
    /\ m.exploration = report.exploration
    /\ m.selection = report.selection
    /\ m.outcome = report.outcome
Reproduces(m, report) ==
    /\ m.failure = None
    /\ Len(m.events) = Len(report.events)
    /\ m.exploration = report.exploration
    /\ m.selection = report.selection
    /\ m.outcome = report.outcome
=============================================================================
