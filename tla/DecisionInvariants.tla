------------------------- MODULE DecisionInvariants -------------------------
(***************************************************************************)
(* What a decision promises: the checker's promises about a run, the       *)
(* interpreter's about its commits, and the report's about both.           *)
(***************************************************************************)
EXTENDS Decision

EventKinds == {"snapshot", "proposal", "exploration", "selection", "commit"}

(* A program the checker accepts never meets the interpreter's own         *)
(* refusals: no unknown binding, foreign token or wrong type, at the top   *)
(* or in a branch (compiler.py against the RuntimeErrors of runtime.py).   *)
AcceptedProgramsRun ==
    setting.waived = {} =>
    /\ live.failure # "internal"
    /\ \A t \in DOMAIN live.trials : \A i \in DOMAIN live.trials[t] :
          live.trials[t][i].error # "internal"

(* A selection reaches the adapter at most once, whatever the program says *)
(* and however the adapter's call ends (Runtime.eval_expr, commit).        *)
SelectionsAreSpentOnce ==
    \A i, j \in DOMAIN calls : calls[i].token = calls[j].token => i = j

(* What is committed was proposed for the snapshot it is committed         *)
(* against, tried on that very snapshot, passed every check there, and was *)
(* the best of those that did.                                             *)
ProposedFor(plan, base) ==
    \E i \in DOMAIN live.events :
        /\ live.events[i].kind = "proposal"
        /\ live.events[i].data.base = base
        /\ plan \in ToSet(live.events[i].data.plans)
Passed(trials) ==
    {trials[i] : i \in {j \in DOMAIN trials :
        trials[j].error = None /\ \A k \in DOMAIN trials[j].checks : trials[j].checks[k]}}
BestOf(trials, payload) ==
    \E trial \in Passed(trials) :
        /\ trial.plan = payload.plan /\ trial.base = payload.base
        /\ trial.metrics[payload.metric] = payload.score
        /\ \A other \in Passed(trials) : Better(trial, other, payload.metric)
CommitsAreJustified ==
    \A i \in DOMAIN calls :
        LET payload == calls[i].payload IN
        /\ ProposedFor(payload.plan, payload.base)
        /\ \E t \in DOMAIN live.trials : BestOf(live.trials[t], payload)

(* A run does nothing its decision does not declare: no event of an        *)
(* undeclared effect, no call of the adapter without Commit.               *)
EffectNamed ==
    [kind \in EventKinds |->
        CASE kind = "snapshot" -> {<<"Snapshot", Catalog>>}
          [] kind = "proposal" -> {<<"Infer", Planner>>}
          [] kind = "exploration" -> {<<"Explore", Catalog>>}
          [] kind = "selection" -> {}
          [] kind = "commit" -> {<<"Commit", Catalog>>}]
OnlyDeclaredEffects ==
    /\ \A i \in DOMAIN live.events : EffectNamed[live.events[i].kind] \subseteq declared
    /\ calls # <<>> => <<"Commit", Catalog>> \in declared

(* A complete report tells of every call of the adapter, in order; where   *)
(* it tells less, it says that it is incomplete.                           *)
Commits(events) == {i \in DOMAIN events : events[i].kind = "commit"}
Before(told, i) == Cardinality({j \in told : j <= i})
TellsAll(events) ==
    LET told == Commits(events) IN
    /\ Cardinality(told) = Len(calls)
    /\ \A i \in told : events[i].data.payload = calls[Before(told, i)].payload
CompleteReportsTellAll ==
    report # None /\ report.complete /\ damage = 0 => TellsAll(report.events)

(* Replaying an untouched report reproduces it exactly when it is complete *)
(* and the checker accepts its program, whatever was waived when it ran    *)
(* (replay.reproduce).                                                     *)
CompleteReportsReproduce ==
    verdict # None /\ damage = 0 =>
        (verdict = "reproduced" <=> report.complete /\ checker.diagnostics = <<>>)

(* What a reproduced report tells of its run is true, damaged or not: its  *)
(* summary, how many events there were and of what kind, and all that the  *)
(* run computed.  Only what came from outside may be out of its place,     *)
(* where nothing the run computed depended on it: a snapshot, the plans of *)
(* a proposal, the operation and outcome of a commit.                      *)
Computed(event) ==
    CASE event.kind = "snapshot" -> event.kind
      [] event.kind = "proposal" -> <<event.kind, event.data.base, event.data.limit>>
      [] event.kind \in {"exploration", "selection"} -> event
      [] event.kind = "commit" -> <<event.kind, event.data.payload>>
ReproducedReportsAreTrue ==
    verdict = "reproduced" =>
    /\ \A field \in {"exploration", "selection", "outcome"} : report[field] = live[field]
    /\ Len(report.events) = Len(live.events)
    /\ \A i \in DOMAIN live.events : Computed(report.events[i]) = Computed(live.events[i])
=============================================================================
