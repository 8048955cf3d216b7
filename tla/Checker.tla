------------------------------- MODULE Checker -------------------------------
(***************************************************************************)
(* The static checker (foresee/compiler.py, class Checker): what binding   *)
(* an expression has, what it reports, and what checking it leaves behind. *)
(* A checker is a record: the bindings in scope, the effects used so far,  *)
(* how many snapshots and selections it has numbered, the selections that  *)
(* are consumed and the diagnostics, in the order reported.                *)
(*                                                                         *)
(* A selection's number stands for the identity of its Binding object,     *)
(* which aliases share and `types' keeps alive.                            *)
(***************************************************************************)
EXTENDS DecisionLanguage

(* What is known of a value: its kind and, when it has them, its resource, *)
(* the metrics of its trials, the snapshot it descends from, its identity. *)
Binding(kind, resource, metrics, lineage, selection) ==
    [kind |-> kind, resource |-> resource, metrics |-> metrics,
     lineage |-> lineage, selection |-> selection]
Scalar(kind) == Binding(kind, None, <<>>, None, None)

(* Outside of any exploration there is no branch.                          *)
Branch(resource, base) == [resource |-> resource, base |-> base]
NoBranch == Branch(None, None)

NewChecker ==
    [env |-> <<>>, used |-> {}, snapshots |-> 0, selections |-> 0,
     consumed |-> {}, diagnostics |-> <<>>, types |-> <<>>]

Flag(code, reported) == IF reported THEN <<code>> ELSE <<>>
SameOrigin(left, right) ==
    left.resource = right.resource /\ left.lineage = right.lineage
Accepts(kinds, binding) == binding.kind \in kinds

Lookup(c, name) == IF name \in DOMAIN c.env THEN c.env[name] ELSE Scalar("error")
ReadErrors(c, name) ==
    Flag("F3004", name \notin DOMAIN c.env)
      \o Flag("F3400", Lookup(c, name).selection \in c.consumed)

(* The resource of an exploration: that of its snapshot, if it has one.    *)
Explorable(plans, base) ==
    plans.kind = "plans" /\ base.kind = "snapshot" /\ base.resource # None
ExploredResource(c, e) ==
    IF Explorable(Lookup(c, e.plans), Lookup(c, e.base))
    THEN Lookup(c, e.base).resource
    ELSE "<error>"

(* Each branch simulates once.  (Mutant: a branch may leave out its simulation.)                        *)
SimulatesAtMostOnce(body) == Simulations(body) <= 1
SimulatesOnce(body) == Simulations(body) = 1

Offered(e) == e.target = Catalog /\ e.method \in Methods

(* Checker.infer_expr: the binding of an expression.                       *)
TypeOf(c, e, branch) ==
    CASE e.op = "var" -> Lookup(c, e.name)
      [] e.op = "snapshot" ->
            Binding("snapshot", e.resource, <<>>, c.snapshots + 1, None)
      [] e.op = "propose" ->
            LET base == Lookup(c, e.base) IN
            Binding("plans", base.resource, <<>>, base.lineage, None)
      [] e.op = "explore" ->
            Binding("trials", ExploredResource(c, e), MetricsOf(e.body),
                    Lookup(c, e.base).lineage, None)
      [] e.op = "simulate" ->
            Binding("simulated", e.resource, <<>>,
                    IF branch = NoBranch THEN None ELSE branch.base.lineage, None)
      [] e.op = "call" ->
            Scalar(IF Offered(e) THEN Result[e.method] ELSE "error")
      [] e.op = "select" ->
            LET trials == Lookup(c, e.trials) IN
            Binding("selected", trials.resource, <<>>, trials.lineage, c.selections + 1)
      [] e.op = "commit" ->
            Binding("outcome", e.resource, <<>>, Lookup(c, e.selected).lineage, None)

(* What checking the operands and then the expression itself reports.  A   *)
(* method that is not offered is reported without visiting arguments.      *)
ProposeErrors(c, e) ==
    Flag("F3006", e.model # Planner)
      \o ReadErrors(c, e.base)
      \o Flag("F3206", Lookup(c, e.base).kind # "snapshot")
      \o Flag("F3208", e.type # "Patch")
      \o Flag("F3208", e.limit \notin 1..4)
ExploreErrors(c, e) ==
    LET plans == Lookup(c, e.plans)
        base == Lookup(c, e.base)
    IN  Flag("F3401", ~SimulatesOnce(e.body))
          \o ReadErrors(c, e.plans)
          \o ReadErrors(c, e.base)
          \o Flag("F3101", ~Explorable(plans, base))
          \o Flag("F3301", ~SameOrigin(plans, base))
          \o Flag("F3204", Item \in DOMAIN c.env)
SimulateErrors(c, e, branch) ==
    Flag("F3103", branch = NoBranch)
      \o Flag("F3104", branch # NoBranch /\ e.resource # branch.resource)
      \o Flag("F3210", e.method # "apply" \/ e.resource # Catalog)
      \o ReadErrors(c, e.plan)
      \o Flag("F3206", Lookup(c, e.plan).kind # "plan")
      \o Flag("F3301", branch # NoBranch /\ ~SameOrigin(Lookup(c, e.plan), branch.base))
ArgumentErrors(c, e, branch, arg) ==
    Flag("F3301", arg.resource # e.target)
      \o Flag("F3301", ~SameOrigin(arg, Lookup(c, e.args[1])))
      \o Flag("F3301", branch # NoBranch /\ ~SameOrigin(arg, branch.base))
CallErrors(c, e, branch) ==
    LET args == [i \in DOMAIN e.args |-> Lookup(c, e.args[i])]
    IN  IF ~Offered(e)
        THEN <<"F3210">>
        ELSE FlattenSeq([i \in DOMAIN args |-> ReadErrors(c, e.args[i])])
               \o Flag("F3206", \/ Len(e.args) # Arity[e.method]
                              \/ \E i \in DOMAIN args : ~Accepts(States, args[i]))
               \o FlattenSeq([i \in DOMAIN args |-> ArgumentErrors(c, e, branch, args[i])])
SelectErrors(c, e) ==
    LET trials == Lookup(c, e.trials) IN
    ReadErrors(c, e.trials)
      \o Flag("F3105", trials.kind # "trials")
      \o Flag("F3106", trials.kind = "trials" /\ e.metric \notin ToSet(trials.metrics))
CommitErrors(c, e, branch) ==
    LET selected == Lookup(c, e.selected) IN
    Flag("F3102", branch # NoBranch)
      \o ReadErrors(c, e.selected)
      \o Flag("F3107", selected.kind # "selected" \/ selected.resource # e.resource)
ForbiddenErrors(e, branch) ==
    Flag(IF e.op = "commit" THEN "F3102" ELSE "F3207",
         branch # NoBranch /\ e.op \in BranchForbidden)

ErrorsOf(c, e, branch) ==
    ForbiddenErrors(e, branch) \o
    CASE e.op = "var" -> ReadErrors(c, e.name)
      [] e.op = "snapshot" -> Flag("F3005", e.resource # Catalog)
      [] e.op = "propose" -> ProposeErrors(c, e)
      [] e.op = "explore" -> ExploreErrors(c, e)
      [] e.op = "simulate" -> SimulateErrors(c, e, branch)
      [] e.op = "call" -> CallErrors(c, e, branch)
      [] e.op = "select" -> SelectErrors(c, e)
      [] e.op = "commit" -> CommitErrors(c, e, branch)

(* Committing consumes the selection, under whichever name it is known.    *)
(* (Mutant: it does not.)                                                  *)
NothingConsumed(c, e) == {}
Consumes(c, e) ==
    IF e.op = "commit" THEN {Lookup(c, e.selected).selection} \ {None} ELSE {}
EffectOf(c, e) ==
    CASE e.op = "snapshot" -> {<<"Snapshot", e.resource>>}
      [] e.op = "propose" -> {<<"Infer", e.model>>}
      [] e.op = "explore" -> {<<"Explore", ExploredResource(c, e)>>}
      [] e.op = "commit" -> {<<"Commit", e.resource>>}
      [] OTHER -> {}
(* `types': the binding of each expression, with its operation, in the     *)
(* order of the source.  What it describes is what the intermediate        *)
(* representation says of the expression.                                  *)
Described(op, type) ==
    [op |-> op,
     type |-> [kind |-> type.kind, metrics |-> type.metrics, lineage |-> type.lineage,
               resource |-> type.resource]]
TypesOf(c, e, branch) ==
    <<Described(e.op, TypeOf(c, e, branch))>>
      \o (IF e.op = "call" /\ ~Offered(e)
          THEN <<>>
          ELSE [i \in DOMAIN Operands(e) |-> Described("var", Lookup(c, Operands(e)[i]))])
      \o [i \in DOMAIN Literals(e) |-> Described(Literals(e)[i], Scalar(Literals(e)[i]))]
Visited(c, e, branch) ==
    [c EXCEPT !.diagnostics = @ \o ErrorsOf(c, e, branch),
              !.used = @ \cup EffectOf(c, e),
              !.snapshots = IF e.op = "snapshot" THEN @ + 1 ELSE @,
              !.selections = IF e.op = "select" THEN @ + 1 ELSE @,
              !.consumed = @ \cup Consumes(c, e),
              !.types = IF KeepTypes THEN @ \o TypesOf(c, e, branch) ELSE @]

(* Checker.check_statement: what is reported before and after the value is *)
(* visited.  `type' is the binding the value had when it was reached.      *)
Bind(env, name, binding) ==
    [n \in DOMAIN env \cup {name} |-> IF n = name THEN binding ELSE env[n]]
Reported(c, codes) == [c EXCEPT !.diagnostics = @ \o codes]
Entered(c, s, branch) ==
    Reported(c, Flag("F3204", s.kind = "let" /\ s.name \in Reserved)
                  \o Flag("F3003", s.kind = "let" /\ s.name \in DOMAIN c.env)
                  \o Flag("F3100", s.kind \in {"check", "measure"} /\ branch = NoBranch))
Describes(annotation, type) ==
    /\ annotation.name \in DOMAIN TypeNames
    /\ TypeNames[annotation.name] = type.kind
    /\ annotation.resource = IF type.kind \in Unplaced THEN None ELSE type.resource
Settled(c, s, type, branch) ==
    CASE s.kind = "let" ->
            Reported([c EXCEPT !.env = Bind(@, s.name, type)],
                     Flag("F3300", "annotation" \in DOMAIN s /\ ~Describes(s.annotation, type)))
      [] s.kind = "return" ->
            Reported(c, Flag("F3203", branch # NoBranch \/ type.kind # "outcome"))
      [] s.kind = "check" -> Reported(c, Flag("F3205", type.kind # "bool"))
      [] s.kind = "measure" ->
            Reported(c, Flag("F3205", type.kind # "int" \/ s.type # "Int"))

(* The body of an exploration is checked once, in a scope of its own where *)
(* the item is a plan of the exploration's snapshot.  `Statement' and      *)
(* `Body' are the checks one level further in.                             *)
BodyWith(Statement(_, _, _), c, e) ==
    LET base == Lookup(c, e.base)
        branch == Branch(ExploredResource(c, e), base)
        item == Binding("plan", branch.resource, <<>>, base.lineage, None)
        local[i \in 0 .. Len(e.body)] ==     \* after i statements
            IF i = 0
            THEN [c EXCEPT !.env = Bind(@, Item, item)]
            ELSE Reported(Statement(local[i - 1], e.body[i], branch),
                          Flag("F3209", e.body[i].kind = "measure"
                                          /\ e.body[i].name \in Measured(e.body, i)))
    IN  [local[Len(e.body)] EXCEPT !.env = c.env]
StatementWith(Body(_, _), c, s, branch) ==
    LET entered == Entered(c, s, branch)
        visited == Visited(entered, s.value, branch)
        explored == IF s.value.op = "explore" THEN Body(visited, s.value) ELSE visited
    IN  Settled(explored, s, TypeOf(entered, s.value, branch), branch)

InnerStatement(c, s, branch) == StatementWith(LAMBDA d, e : d, c, s, branch)
InnerBody(c, e) == BodyWith(InnerStatement, c, e)
BranchStatement(c, s, branch) == StatementWith(InnerBody, c, s, branch)
CheckBody(c, e) == BodyWith(BranchStatement, c, e)
CheckStatement(c, s) == StatementWith(CheckBody, c, s, NoBranch)

(* Checker.check: what is reported of the declarations, each of which has  *)
(* a name and, unless it is a decision, a type.                            *)
NamesDeclared(p) ==
    [i \in DOMAIN p.resources |-> p.resources[i].name]
      \o [i \in DOMAIN p.models |-> p.models[i].name]
      \o p.decisions
DeclarationErrors(p) ==
    Flag("F3200", {Len(p.decisions), Len(p.resources), Len(p.models)} # {1})
      \o FlattenSeq([i \in DOMAIN p.resources |-> Flag("F3201", p.resources[i].type # "Catalog")])
      \o FlattenSeq([i \in DOMAIN p.models |-> Flag("F3201", p.models[i].type # "Planner")])
      \o Flag("F3000", ~IsInjective(NamesDeclared(p)))

(* Checker.check before the first statement of a decision: one report per  *)
(* declared effect that cannot be, one unless the only return is the last  *)
(* statement.  And after the last statement: one per effect that is used   *)
(* but not declared, one per declared target that nothing is called.       *)
(* (Mutant: effects are checked that are declared but not used.)           *)
Each(code, set) == [i \in 1 .. Cardinality(set) |-> code]
Open(header) ==
    Reported(NewChecker, DeclarationErrors(header.declarations)
                           \o Each("F3202", header.declared \ Effects)
                           \o Flag("F3203", ~header.terminated))
Unused(c, declared) == declared \ c.used
Undeclared(c, declared) == c.used \ declared
UnknownTargets(declared) == {effect[2] : effect \in declared} \ {Catalog, Planner}
CheckEffects(c, declared) ==
    Reported(c, Each("F3001", Undeclared(c, declared))
                  \o Each("F3002", UnknownTargets(declared)))
=============================================================================
