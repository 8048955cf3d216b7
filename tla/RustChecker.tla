----------------------------- MODULE RustChecker -----------------------------
(***************************************************************************)
(* The static checker of the native compiler (crates/foresee-semantics),   *)
(* which grew in stages: `types' leaves effects, lineage and ownership     *)
(* unchecked, each later stage adds one of them, and `ownership' checks    *)
(* everything.  A checker is a record that each visit returns changed; in  *)
(* contrast to the Python checker it carries the exploration it is in and  *)
(* keeps a bounded number of diagnostics.                                  *)
(***************************************************************************)
EXTENDS DecisionLanguage

CONSTANT MaxDiagnostics      \* diagnostics kept

Stages == {"types", "effects", "lineage", "ownership"}
EffectsEnabled(c) == c.stage # "types"
LineageEnabled(c) == c.stage \in {"lineage", "ownership"}
OwnershipEnabled(c) == c.stage = "ownership"

(* ResourceRef: a declared resource, or a name that stands for none; and   *)
(* what stands for no resource at all (Rust's None).                       *)
Resolve(name) == [known |-> name = Catalog, name |-> name]
ErrorResource == [known |-> FALSE, name |-> "<error>"]
NoResource == Resolve(None)

(* InferredType.  Inspection shows the name of the resource and leaves out *)
(* the identity of a selection.                                            *)
Type(kind, resource, metrics, lineage) ==
    [kind |-> kind, resource |-> resource, metrics |-> metrics,
     lineage |-> lineage, selection |-> None]
Scalar(kind) == Type(kind, NoResource, <<>>, None)
Derived(kind, origin) == Type(kind, origin.resource, <<>>, origin.lineage)
Report(type) ==
    [kind |-> type.kind, metrics |-> type.metrics, lineage |-> type.lineage,
     resource |-> type.resource.name]

(* Outside of any exploration a checker has no base and no resource.       *)
NoBase == Scalar(None)
Checker(stage) ==
    [stage |-> stage, env |-> <<>>, used |-> {}, consumed |-> {}, errors |-> <<>>,
     snapshots |-> 0, selections |-> 0, resource |-> NoResource, base |-> NoBase,
     nodes |-> 0, expressions |-> <<>>]
InBranch(c) == c.base # NoBase

(* Checker::error: at the limit the last diagnostic becomes the marker.    *)
(* (Mutant: whatever exceeds the limit goes unmentioned.)                  *)
Silent(c, code) ==
    [c EXCEPT !.errors = IF Len(@) < MaxDiagnostics THEN Append(@, code) ELSE @]
Error(c, code) ==
    [c EXCEPT !.errors = IF Len(@) < MaxDiagnostics
                         THEN Append(@, code)
                         ELSE [@ EXCEPT ![MaxDiagnostics] = "F0002"]]
ErrorIf(c, code, wrong) == IF wrong THEN Error(c, code) ELSE c
Errors(c, code, number) ==
    LET after[i \in 0 .. number] == IF i = 0 THEN c ELSE Error(after[i - 1], code)
    IN  after[number]

UseEffect(c, kind, target) ==
    IF EffectsEnabled(c) THEN [c EXCEPT !.used = @ \cup {<<kind, target>>}] ELSE c

SameOrigin(c, left, right) ==
    ErrorIf(c, "F3301", LineageEnabled(c)
                          /\ (left.resource # right.resource \/ left.lineage # right.lineage))

(* An expression leaves a checker and has a type.                          *)
Found(c, type) == [checker |-> c, type |-> type]

(* Checker::expr numbers an expression before it looks at it and describes *)
(* it afterwards.                                                          *)
Number(c) == [c EXCEPT !.nodes = @ + 1]
Describe(c, node, op, type) ==
    [c EXCEPT !.expressions = Append(@, [node |-> node, op |-> op, type |-> Report(type)])]
Literal(c, kind) == Describe(Number(c), c.nodes, kind, Scalar(kind))

(* A variable, which is the operand of every other expression.             *)
TypeOfVar(c, name) == IF name \in DOMAIN c.env THEN c.env[name] ELSE Scalar("error")
Variable(c, name) ==
    LET known == ErrorIf(c, "F3004", name \notin DOMAIN c.env) IN
    ErrorIf(known, "F3400", /\ OwnershipEnabled(c)
                            /\ TypeOfVar(c, name).selection # None
                            /\ TypeOfVar(c, name).selection \in c.consumed)
Read(c, name) == Describe(Variable(Number(c), name), c.nodes, "var", TypeOfVar(c, name))

(* Checker::arguments: the operands in turn, then one error for them all.  *)
Reads(c, names) ==
    LET after[i \in 0 .. Len(names)] == IF i = 0 THEN c ELSE Read(after[i - 1], names[i])
    IN  after[Len(names)]
Arguments(c, names, count, kinds) ==
    ErrorIf(Reads(c, names), "F3206",
            \/ Len(names) # count
            \/ \E i \in DOMAIN names : TypeOfVar(c, names[i]).kind \notin kinds)

Snapshot(c, e) ==
    LET known == ErrorIf(c, "F3005", ~Resolve(e.resource).known)
        used == UseEffect(known, "Snapshot", e.resource)
    IN  Found([used EXCEPT !.snapshots = @ + 1],
              Type("snapshot", Resolve(e.resource), <<>>, c.snapshots + 1))

Propose(c, e) ==
    LET known == ErrorIf(c, "F3006", e.model # Planner)
        used == UseEffect(known, "Infer", e.model)
        read == Literal(Literal(Read(used, e.base), "string"), "int")
        fits == ErrorIf(read, "F3206", TypeOfVar(c, e.base).kind # "snapshot")
        typed == ErrorIf(fits, "F3208", e.type # "Patch")
    IN  Found(ErrorIf(typed, "F3208", e.limit \notin 1 .. 4),
              Derived("plans", TypeOfVar(c, e.base)))

Simulate(c, e) ==
    LET resource == Resolve(e.resource)
        plan == TypeOfVar(c, e.plan)
        inside == ErrorIf(c, "F3103", ~InBranch(c))
        placed == ErrorIf(inside, "F3104", LineageEnabled(c) /\ c.resource # NoResource
                                             /\ c.resource # resource)
        offered == ErrorIf(placed, "F3210", e.method # "apply" \/ ~resource.known)
        read == Arguments(offered, <<e.plan>>, 1, {"plan"})
    IN  Found(IF InBranch(c) THEN SameOrigin(read, plan, c.base) ELSE read,
              Type("simulated", resource, <<>>, IF InBranch(c) THEN c.base.lineage ELSE None))

(* A method that is not offered is refused before its arguments are seen.  *)
ArgumentOrigin(c, e, type) ==
    LET here == ErrorIf(c, "F3301", LineageEnabled(c) /\ type.resource # Resolve(e.target))
        alike == SameOrigin(here, type, TypeOfVar(c, e.args[1]))
    IN  IF InBranch(c) THEN SameOrigin(alike, type, c.base) ELSE alike
ArgumentOrigins(c, e) ==
    LET after[i \in 0 .. Len(e.args)] ==
            IF i = 0 THEN c ELSE ArgumentOrigin(after[i - 1], e, TypeOfVar(c, e.args[i]))
    IN  after[Len(e.args)]
Call(c, e) ==
    IF e.method \notin Methods \/ ~Resolve(e.target).known
    THEN Found(Error(c, "F3210"), Scalar("error"))
    ELSE Found(ArgumentOrigins(Arguments(c, e.args, Arity[e.method], States), e),
               Scalar(Result[e.method]))

Select(c, e) ==
    LET trials == TypeOfVar(c, e.trials)
        read == Read(c, e.trials)
        explored == ErrorIf(read, "F3105", trials.kind # "trials")
        measured == ErrorIf(explored, "F3106",
                            trials.kind = "trials" /\ e.metric \notin ToSet(trials.metrics))
    IN  Found([measured EXCEPT !.selections = @ + 1],
              [Derived("selected", trials) EXCEPT !.selection = c.selections + 1])

(* The selection is consumed whether or not it fits the resource.          *)
Commit(c, e) ==
    LET selected == TypeOfVar(c, e.selected)
        live == ErrorIf(c, "F3102", EffectsEnabled(c) /\ InBranch(c))
        read == Read(live, e.selected)
        spent == [read EXCEPT !.consumed =
                     IF OwnershipEnabled(c) /\ selected.selection # None
                     THEN @ \cup {selected.selection} ELSE @]
        fits == ErrorIf(spent, "F3107", selected.kind # "selected"
                                          \/ selected.resource # Resolve(e.resource))
    IN  Found(UseEffect(fits, "Commit", e.resource),
              Type("outcome", Resolve(e.resource), <<>>, selected.lineage))

(* Checker::infer of an exploration.  Its body is checked in an            *)
(* environment of its own; afterwards the checker is again in the          *)
(* exploration around it, if there is one.  (Mutant: its resource is not   *)
(* put back.)                                                              *)
Left(c, outer) == [c EXCEPT !.env = outer.env, !.base = outer.base]
Leave(c, outer) ==
    [c EXCEPT !.env = outer.env, !.base = outer.base, !.resource = outer.resource]
Bind(c, name, type) ==
    [c EXCEPT !.env = [n \in DOMAIN @ \cup {name} |-> IF n = name THEN type ELSE @[n]]]
Explorable(plans, base) ==
    plans.kind = "plans" /\ base.kind = "snapshot" /\ base.resource # NoResource
Enter(c, e) ==
    LET plans == TypeOfVar(c, e.plans)
        base == TypeOfVar(c, e.base)
        resource == IF Explorable(plans, base) THEN base.resource ELSE ErrorResource
        counted == ErrorIf(c, "F3401", OwnershipEnabled(c) /\ Simulations(e.body) # 1)
        read == Read(Read(counted, e.plans), e.base)
        explorable == ErrorIf(read, "F3101", ~Explorable(plans, base))
        used == UseEffect(explorable, "Explore", resource.name)
        named == ErrorIf(SameOrigin(used, plans, base), "F3204", Item \in DOMAIN c.env)
    IN  [Bind(named, Item, Type("plan", resource, <<>>, base.lineage))
            EXCEPT !.base = base, !.resource = resource]

Explore(Visit(_, _), c, e) ==
    LET entered == Enter(c, e)
        after[i \in 0 .. Len(e.body)] ==     \* after i statements
            IF i = 0
            THEN entered
            ELSE ErrorIf(Visit(after[i - 1], e.body[i]), "F3209",
                         e.body[i].kind = "measure" /\ e.body[i].name \in Measured(e.body, i))
    IN  Found(Leave(after[Len(e.body)], c),
              Type("trials", entered.resource, MetricsOf(e.body), entered.base.lineage))

Permitted(c, e) ==
    ErrorIf(c, IF e.op = "commit" THEN "F3102" ELSE "F3207",
            EffectsEnabled(c) /\ InBranch(c) /\ e.op \in BranchForbidden)
Infer(c, e) ==
    CASE e.op = "var" -> Found(Variable(c, e.name), TypeOfVar(c, e.name))
      [] e.op = "snapshot" -> Snapshot(c, e)
      [] e.op = "propose" -> Propose(c, e)
      [] e.op = "simulate" -> Simulate(c, e)
      [] e.op = "call" -> Call(c, e)
      [] e.op = "select" -> Select(c, e)
      [] e.op = "commit" -> Commit(c, e)

(* Checker::statement.                                                     *)
Mismatch(annotation, type) ==
    LET expected == IF annotation.name \in DOMAIN TypeNames
                    THEN TypeNames[annotation.name] ELSE None
        resource == IF expected \in Unplaced THEN None ELSE Report(type).resource
    IN  expected # type.kind \/ annotation.resource # resource
Entered(c, s) ==
    CASE s.kind = "let" ->
            ErrorIf(ErrorIf(c, "F3204", s.name \in Reserved), "F3003", s.name \in DOMAIN c.env)
      [] s.kind = "return" -> c
      [] s.kind \in {"check", "measure"} -> ErrorIf(c, "F3100", ~InBranch(c))
Settled(c, s, type) ==
    CASE s.kind = "let" ->
            Bind(ErrorIf(c, "F3300", "annotation" \in DOMAIN s /\ Mismatch(s.annotation, type)),
                 s.name, type)
      [] s.kind = "return" -> ErrorIf(c, "F3203", InBranch(c) \/ type.kind # "outcome")
      [] s.kind = "check" -> ErrorIf(c, "F3205", type.kind # "bool")
      [] s.kind = "measure" -> ErrorIf(c, "F3205", type.kind # "int" \/ s.type # "Int")
StatementWith(Exploration(_, _), c, s) ==
    LET seen == Permitted(Number(Entered(c, s)), s.value)
        value == IF s.value.op = "explore"
                 THEN Exploration(seen, s.value) ELSE Infer(seen, s.value)
        described == Describe(value.checker, c.nodes, s.value.op, value.type)
    IN  Settled(described, s, value.type)

(* The levels of a program: the statements of an exploration within an     *)
(* exploration hold no other.                                              *)
Innermost(c, s) == StatementWith(LAMBDA d, e : Found(d, Scalar("error")), c, s)
Inner(c, e) == Explore(Innermost, c, e)
BranchStatement(c, s) == StatementWith(Inner, c, s)
Outer(c, e) == Explore(BranchStatement, c, e)
Statement(c, s) == StatementWith(Outer, c, s)

(* check: before and after the statements of the decision.                 *)
Matches(effect) ==
    \/ effect[1] \in {"Snapshot", "Explore", "Commit"} /\ effect[2] = Catalog
    \/ effect[1] = "Infer" /\ effect[2] = Planner
Open(stage, header) ==
    LET fresh == Checker(stage)
        invalid == {effect \in header.declared : ~Matches(effect)}
        permitted == IF EffectsEnabled(fresh)
                     THEN Errors(fresh, "F3202", Cardinality(invalid)) ELSE fresh
    IN  ErrorIf(permitted, "F3203", ~header.terminated)
Close(c, declared) ==
    LET missing == Errors(c, "F3001", Cardinality(c.used \ declared))
        unknown == {effect[2] : effect \in declared} \ {Catalog, Planner}
    IN  IF EffectsEnabled(c) THEN Errors(missing, "F3002", Cardinality(unknown)) ELSE c

(* TypeAnalysis: the expressions sorted by their numbers, each at the      *)
(* place of how many do not come after it.  (Mutant: in the order in which *)
(* they were described.)                                                   *)
Unsorted(c) == c.expressions
Analysis(c) ==
    LET rows == ToSet(c.expressions)
        placed == {<<Cardinality({other \in rows : other.node <= row.node}), row>> : row \in rows}
    IN  [i \in DOMAIN c.expressions |-> (CHOOSE place \in placed : place[1] = i)[2]]

(* check_declarations comes first and, unlike in Python, is also last if   *)
(* it finds anything; of too many errors it cuts off what is left.         *)
Push(code, wrong) == IF wrong THEN <<code>> ELSE <<>>
BadTypes(items, type) ==
    FlattenSeq([i \in DOMAIN items |-> Push("F3201", items[i].type # type)])
Symbols(p) ==
    [i \in DOMAIN p.resources |-> p.resources[i].name]
      \o [i \in DOMAIN p.models |-> p.models[i].name]
      \o p.decisions
Duplicate(names) == \E i \in DOMAIN names : \E j \in 1 .. i - 1 : names[j] = names[i]
DeclarationErrors(p) ==
    LET all == Push("F3200", \/ Len(p.resources) # 1
                             \/ Len(p.models) # 1
                             \/ Len(p.decisions) # 1)
                 \o BadTypes(p.resources, "Catalog")
                 \o BadTypes(p.models, "Planner")
                 \o Push("F3000", Duplicate(Symbols(p)))
    IN  IF Len(all) > MaxDiagnostics
        THEN Append(SubSeq(all, 1, MaxDiagnostics - 1), "F0002")
        ELSE all
=============================================================================
