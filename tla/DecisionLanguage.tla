-------------------------- MODULE DecisionLanguage --------------------------
(***************************************************************************)
(* The Foresee language as foresee/parser.py reads it: a decision is a     *)
(* sequence of statements over named bindings.                             *)
(*                                                                         *)
(* An operand is the name of a binding: an expression nested in another is *)
(* a `let' of its own, which the checkers and the interpreter visit in the *)
(* same order.  Prompts, messages and spans carry no control and are left  *)
(* out, and every operation but a call in a branch has as many operands as *)
(* its signature asks for.  A `let' has an annotation if it is written;    *)
(* explorations nest at most once.                                         *)
(***************************************************************************)
EXTENDS Integers, Sequences, FiniteSets, SequencesExt

CONSTANTS
    Catalog,          \* the declared resource
    Planner,          \* the declared model
    Foreign,          \* other identifiers a program may mention
    Reserved,         \* names no binding may have: declared, or beginning with `__'
    Item,             \* the name `explore' binds to the plan
    Metrics,          \* names of measurements
    Limits,           \* literal proposal counts a program may ask for
    Bodies,           \* branch bodies of explorations
    MaxStatements,    \* bound: statements of a decision
    KeepTypes,        \* whether the types of all expressions are kept: only the
                      \* comparison of compilers looks at them
    None              \* absence of a value

ASSUME LanguageAssumption ==
    /\ Catalog # Planner
    /\ {Catalog, Planner} \cap Foreign = {}
    /\ Item \notin Nat \ {0}
    /\ Limits \subseteq Int
    /\ MaxStatements \in Nat
    /\ KeepTypes \in BOOLEAN

(* The kinds of values a checker tells apart, of which None is none; and a *)
(* name no identifier has, for the resource of a failed exploration.       *)
ValueKinds ==
    {"error", "snapshot", "plan", "plans", "simulated", "trials", "selected", "outcome",
     "int", "string", "bool"}
ASSUME NoneIsNothing ==
    None \notin ValueKinds \cup {"<error>"} /\ Catalog # "<error>"

(* The methods a resource offers: argument kinds and result (METHODS).  A  *)
(* program may ask for others.                                             *)
States == {"snapshot", "simulated"}
Methods == {"source_fields_unchanged", "valid_unit_arithmetic", "unresolved_units"}
Arity == [m \in Methods \cup Foreign |-> IF m = "source_fields_unchanged" THEN 2 ELSE 1]
Result == [m \in Methods |-> IF m = "unresolved_units" THEN "int" ELSE "bool"]

(* Forbidden inside a branch: only pure expressions may be explored.       *)
BranchForbidden == {"snapshot", "propose", "explore", "select", "commit"}

(* The expressions over given bindings.                                    *)
Mentioned == {Catalog} \cup Foreign
SnapshotExpr == [op : {"snapshot"}, resource : Mentioned]
ProposeExpr(names) ==
    [op : {"propose"}, model : {Planner} \cup Foreign, type : {"Patch"} \cup Foreign,
     base : names, limit : Limits]
ExploreExpr(names) == [op : {"explore"}, plans : names, base : names, body : Bodies]
SimulateExpr(names) ==
    [op : {"simulate"}, resource : Mentioned, method : {"apply"} \cup Foreign, plan : names]
CallExpr(names) ==
    UNION {[op : {"call"}, target : Mentioned, method : {m}, args : [1 .. Arity[m] -> names]] :
              m \in Methods \cup Foreign}
SelectExpr(names) == [op : {"select"}, trials : names, metric : Metrics]
CommitExpr(names) == [op : {"commit"}, selected : names, resource : Mentioned]
VarExpr(names) == [op : {"var"}, name : names]

Operations == {"snapshot", "propose", "explore", "simulate", "call", "select", "commit", "var"}
Expressions(op, names) ==
    CASE op = "snapshot" -> SnapshotExpr
      [] op = "propose" -> ProposeExpr(names)
      [] op = "explore" -> ExploreExpr(names)
      [] op = "simulate" -> SimulateExpr(names)
      [] op = "call" -> CallExpr(names)
      [] op = "select" -> SelectExpr(names)
      [] op = "commit" -> CommitExpr(names)
      [] op = "var" -> VarExpr(names)

(* Expressions within an expression, in the order of the source: bindings, *)
(* and the prompt and the number of a proposal.                            *)
Operands(e) ==
    CASE e.op \in {"var", "snapshot"} -> <<>>
      [] e.op = "propose" -> <<e.base>>
      [] e.op = "explore" -> <<e.plans, e.base>>
      [] e.op = "simulate" -> <<e.plan>>
      [] e.op = "call" -> e.args
      [] e.op = "select" -> <<e.trials>>
      [] e.op = "commit" -> <<e.selected>>
Literals(e) == IF e.op = "propose" THEN <<"string", "int">> ELSE <<>>

Kinds == {"let", "check", "measure", "return"}

(* A list of statements, as the parser makes one.                          *)
IsList(s) == s \in Seq(ToSet(s))
Parsed(body) ==
    /\ IsList(body)
    /\ \A i \in DOMAIN body :
          /\ body[i].kind \in Kinds /\ body[i].value.op \in Operations
          /\ body[i].value.op = "call" => IsList(body[i].value.args)
Flat(body) == Parsed(body) /\ \A i \in DOMAIN body : body[i].value.op # "explore"
Nesting(body) ==
    /\ Parsed(body)
    /\ \A i \in DOMAIN body : body[i].value.op = "explore" => Flat(body[i].value.body)
ASSUME BodiesAssumption == \A body \in Bodies : Nesting(body)

(* What both compilers count in the text of a body: its simulations, those *)
(* of the explorations in it included, and the names it measures in turn.  *)
Having(body, op) == {i \in DOMAIN body : body[i].value.op = op}
Nested(body) == UNION {{i} \X Having(body[i].value.body, "simulate") : i \in Having(body, "explore")}
Simulations(body) == Cardinality(Having(body, "simulate")) + Cardinality(Nested(body))
Named(s) == IF s.kind = "measure" THEN <<s.name>> ELSE <<>>
MetricsOf(body) == FlattenSeq([i \in DOMAIN body |-> Named(body[i])])
Measured(body, i) == ToSet(MetricsOf(SubSeq(body, 1, i - 1)))

(* The names of types in annotations, and those that name a resource too.  *)
TypeNames ==
    [Int |-> "int", String |-> "string", Bool |-> "bool", Snapshot |-> "snapshot",
     Plan |-> "plan", Plans |-> "plans", Simulated |-> "simulated", Trials |-> "trials",
     Selected |-> "selected", DecisionResult |-> "outcome"]
Unplaced == {"int", "string", "bool", "outcome"}

(* An effect has a kind and a target, which is of the kind's namespace.    *)
EffectKinds == {"Snapshot", "Infer", "Explore", "Commit"}
TargetOf(kind) == IF kind = "Infer" THEN Planner ELSE Catalog
Effects == {<<kind, TargetOf(kind)>> : kind \in EffectKinds}
Declarable == (EffectKinds \cup Foreign) \X ({Catalog, Planner} \cup Foreign)
=============================================================================
