----------------------------- MODULE MCCompilers -----------------------------
(***************************************************************************)
(* Programs whose beginning is a part of the documented one, of one that   *)
(* mixes snapshots, or of one that breaks a rule early, and up to two more *)
(* statements of any form.                                                 *)
(***************************************************************************)
EXTENDS Compilers, MCBodies

Reserve == {77}
FewLimits == {4, 5}

(* More bodies: a simulation of something else, effects of every kind, a   *)
(* commit of the selection 5, and explorations within the exploration,     *)
(* well-formed or not, before the branch's own simulation or in place of it.*)
Then(name, value) == [kind |-> "let", name |-> name, value |-> value]
Snap(resource) == [op |-> "snapshot", resource |-> resource]
From(base) ==
    [op |-> "propose", model |-> "planner", type |-> "Patch", base |-> base, limit |-> 4]
Exploring(plans, base, body) == [op |-> "explore", plans |-> plans, base |-> base, body |-> body]
Best(trials) == [op |-> "select", trials |-> trials, metric |-> "m"]
CommitOf(name) == [op |-> "commit", selected |-> name, resource |-> "catalog"]
Elsewhere == <<LetAfter([Simulate(TheItem) EXCEPT !.resource = "other"]), Measure("m", After)>>
Effects2 == <<LetAfter(From(1)), Then(102, Best(After)), [kind |-> "return", value |-> CommitOf(5)]>>
Within(plans, base) ==
    <<Then(102, Exploring(plans, base, Bare)), LetAfter(Simulate(TheItem)), Measure("m", After)>>
InPlace == <<Then(102, Exploring(2, 1, Bare)), Measure("m", 102)>>
MoreBodies ==
    {Crowded, Shown, Never, TwiceMeasured, Wrong, Effectful, Elsewhere, Effects2, Within(2, 1), Within(1, 1), InPlace}

Item1 == [name |-> "catalog", type |-> "Catalog"]
Item2 == [name |-> "planner", type |-> "Planner"]
Declarations ==
    [resources |-> <<Item1>>, models |-> <<Item2>>, decisions |-> <<"repair">>]
Usual == [declarations |-> Declarations, declared |-> Effects, terminated |-> TRUE]
Begin(of, body, following) == [header |-> of, body |-> body, more |-> following]

Documented ==
    <<Then(1, Snap("catalog")), Then(2, From(1)), Then(3, Exploring(2, 1, Shown)),
      Then(4, Best(3)), Then(5, CommitOf(4))>>
Mixed ==
    <<Then(1, Snap("catalog")), Then(2, From(1)), Then(3, Snap("catalog")),
      Then(4, Exploring(2, 3, Bare))>>
Strange == <<Then(1, Snap("other")), Then(2, From(1)), Then(3, Exploring(2, 1, Bare))>>
With(inner) == SubSeq(Documented, 1, 2) \o <<Then(3, Exploring(2, 1, inner)), Then(4, Best(3))>>
Spent(inner) == Documented \o <<Then(6, Exploring(2, 1, inner))>>

(* Effects that are missing, of the wrong namespace or unknown.            *)
DeclaredWrongly ==
    {{}, Effects \ {<<"Explore", "catalog">>},
     {<<"Commit", "planner">>, <<"Infer", "other">>, <<"other", "other">>, <<"other", "catalog">>}}
Permitted ==
    {Begin([Usual EXCEPT !.declared = d], Documented, 1) : d \in DeclaredWrongly}

(* Declarations of the wrong type, too often, or under one name.           *)
Misdeclared ==
    {Declarations, [Declarations EXCEPT !.resources = <<Item1, Item1>>],
     [Declarations EXCEPT !.models = <<[Item2 EXCEPT !.type = "Catalog"]>>],
     [Declarations EXCEPT !.decisions = <<"catalog">>],
     [resources |-> <<Item1, [Item1 EXCEPT !.type = "Planner"]>>,
      models |-> <<Item2, [Item2 EXCEPT !.type = "Other"]>>, decisions |-> <<"repair">>]}
Declared ==
    {Begin([Usual EXCEPT !.declarations = d, !.terminated = FALSE], SubSeq(Documented, 1, 2), 1) :
        d \in Misdeclared}

Unterminated ==
    {Begin([Usual EXCEPT !.terminated = FALSE], SubSeq(Documented, 1, 1), 2)}

Aliased == SubSeq(Documented, 1, 4) \o <<Then(5, [op |-> "var", name |-> 4]), Then(6, CommitOf(5))>>

SomeBeginnings ==
    {Begin(Usual, SubSeq(Documented, 1, i), 2) : i \in {0, 2}}
      \cup {Begin(Usual, body, 1) :
               body \in {SubSeq(Documented, 1, 4), Documented, Aliased, Mixed, Strange, Spent(Effects2)} \cup {With(b) : b \in MoreBodies}}
      \cup Permitted \cup Declared \cup Unterminated
=============================================================================
