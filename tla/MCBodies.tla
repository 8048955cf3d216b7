------------------------------ MODULE MCBodies ------------------------------
(***************************************************************************)
(* Branch bodies for instances of the language: the one the documentation  *)
(* shows and one for each mistake.  Binding 1 is a snapshot in all of      *)
(* them, 0 the plan explored and 101 what a branch binds first.            *)
(***************************************************************************)
EXTENDS Integers, Sequences

TheItem == 0
After == 101
LetAfter(value) == [kind |-> "let", name |-> After, value |-> value]
Simulate(plan) == [op |-> "simulate", resource |-> "catalog", method |-> "apply", plan |-> plan]
Call(method, args) == [op |-> "call", target |-> "catalog", method |-> method, args |-> args]
CheckValid(name) == [kind |-> "check", value |-> Call("valid_unit_arithmetic", <<name>>)]
CheckSource(a, b) == [kind |-> "check", value |-> Call("source_fields_unchanged", <<a, b>>)]
Measure(metric, name) ==
    [kind |-> "measure", name |-> metric, type |-> "Int", value |-> Call("unresolved_units", <<name>>)]

(* Branch bodies: the one the documentation shows and ones that measure    *)
(* the wrong thing, simulate never or twice, check the base instead of the *)
(* trial, refer to what is not there, call with too much, or try an effect.*)
Shown == <<LetAfter(Simulate(TheItem)), CheckSource(After, 1), CheckValid(After), Measure("m", After)>>
Bare == <<LetAfter(Simulate(TheItem)), Measure("m", After)>>
OfBase == <<LetAfter(Simulate(TheItem)), CheckValid(1), Measure("m", 1)>>
Never == <<CheckValid(1), Measure("m", 1)>>
Twice == <<LetAfter(Simulate(TheItem)), LetAfter(Simulate(TheItem)), Measure("m", After)>>
TwiceMeasured == <<LetAfter(Simulate(TheItem)), Measure("m", After), Measure("m", 1)>>
Unmeasured == <<LetAfter(Simulate(TheItem)), CheckValid(After)>>
Wrong == <<LetAfter(Simulate(1)), CheckValid(TheItem), Measure("m", After)>>
Effectful == <<LetAfter([op |-> "snapshot", resource |-> "catalog"]), Measure("m", After)>>
Crowded == <<LetAfter(Simulate(TheItem)), [kind |-> "check", value |-> Call("valid_unit_arithmetic", <<After, 1>>)]>>
SomeBodies == {Crowded, Shown, Bare, OfBase, Never, Twice, TwiceMeasured, Unmeasured, Wrong, Effectful}
=============================================================================
