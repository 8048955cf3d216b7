------------------------------ MODULE Compilers ------------------------------
(***************************************************************************)
(* One program, five checkers: the Python reference (foresee/compiler.py)  *)
(* and the four stages of the native compiler (crates/foresee-semantics)   *)
(* read a program statement by statement.  In contrast to `Decision',      *)
(* programs go on after errors, since both compilers do.                   *)
(*                                                                         *)
(* Both look for the effects and for the place of the return before they   *)
(* look at the statements, so a program is begun with its header and with  *)
(* whether its only return will be its last statement.  What goes through  *)
(* an accepted program once more, the lowering, follows statement by       *)
(* statement here: the rows it takes for one are there when it is checked. *)
(***************************************************************************)
EXTENDS Checker

CONSTANTS
    MaxDiagnostics,   \* diagnostics the native compiler keeps
    Beginnings,       \* headers, first statements and how many may follow
    MaxReported       \* bound: errors after which no statement is added

Native == INSTANCE RustChecker
IR == INSTANCE Lowering

ASSUME CompilersAssumption ==
    /\ MaxReported \in Nat /\ MaxDiagnostics \in Nat \ {0}
    /\ KeepTypes

(* Declarations with names and types, and statements, as a parser leaves   *)
(* them.                                                                   *)
ASSUME BeginningsAssumption ==
    \A b \in Beginnings :
        /\ LET p == b.header.declarations IN
           IsList(p.resources) /\ IsList(p.models) /\ IsList(p.decisions)
        /\ b.header.declared \subseteq Declarable /\ IsFiniteSet(b.header.declared)
        /\ Parsed(b.body)
        /\ \A i \in DOMAIN b.body : b.body[i].value.op = "explore" => Nesting(b.body[i].value.body)

VARIABLES
    header,      \* declarations, declared effects, `terminated'
    reference,   \* the Python checker
    native,      \* the native checker of each stage
    lowerer,     \* and its lowering
    returns,     \* where the returns are: "nowhere", "last" or "elsewhere"
    script,      \* the first statements not yet written
    more,        \* how many statements may follow them
    ended        \* the program is complete

vars == <<header, reference, native, lowerer, returns, script, more, ended>>

Init ==
    \E b \in Beginnings :
        /\ header = b.header
        /\ reference = Open(b.header)
        /\ native = [stage \in Native!Stages |-> Native!Open(stage, b.header)]
        /\ lowerer = IR!Lowerer
        /\ script = b.body
        /\ returns = "nowhere"
        /\ more = b.more
        /\ ended = FALSE

-----------------------------------------------------------------------------
NextName == Cardinality(DOMAIN reference.env) + 1
NamesInUse == {NextName} \cup DOMAIN reference.env

ReturnsWith(s) ==
    IF s.kind = "return"
    THEN IF returns = "nowhere" THEN "last" ELSE "elsewhere"
    ELSE IF returns = "nowhere" THEN "nowhere" ELSE "elsewhere"

(* Bindings of any expression; aliases with names and annotations that do  *)
(* not fit, which are checked without regard to the expression; returns,   *)
(* and what belongs into a branch.                                         *)
Lets == [kind : {"let"}, name : {NextName},
         value : UNION {Expressions(op, NamesInUse) : op \in Operations}]
Aliases ==
    [kind : {"let"}, name : Reserved \cup DOMAIN reference.env, value : VarExpr(NamesInUse)]
Annotations(type) ==
    [name : {n \in DOMAIN TypeNames : TypeNames[n] \in {type.kind, "plan", "outcome"}} \cup Foreign,
     resource : {None, type.resource}]
Annotated ==
    UNION {[kind : {"let"}, name : {NextName}, value : VarExpr({name}),
            annotation : Annotations(Lookup(reference, name))] : name \in NamesInUse}
Values == UNION {Expressions(op, NamesInUse) : op \in {"var", "call", "commit"}}
Others == [kind : {"return", "check"}, value : Values]
Measures == [kind : {"measure"}, name : Metrics, type : {"Int"} \cup Foreign, value : Values]

Write(s) ==
    /\ ~ended
    /\ header.terminated => ReturnsWith(s) # "elsewhere"
    /\ reference' = CheckStatement(reference, s)
    /\ native' = [stage \in Native!Stages |-> Native!Statement(native[stage], s)]
    /\ lowerer' = IR!Statement(lowerer, Native!Analysis(native'["ownership"]), s)
    /\ returns' = ReturnsWith(s)
    /\ UNCHANGED <<header, ended>>
WriteFirst ==
    /\ script # <<>>
    /\ Write(Head(script))
    /\ script' = Tail(script)
    /\ UNCHANGED more
WriteMore ==
    /\ script = <<>> /\ more > 0
    /\ Len(reference.diagnostics) <= MaxReported
    /\ \E s \in Lets \cup Aliases \cup Annotated \cup Others \cup Measures : Write(s)
    /\ more' = more - 1
    /\ UNCHANGED script

(* The end of the source: what is used but not declared is known.          *)
End ==
    /\ ~ended /\ script = <<>>
    /\ header.terminated = (returns = "last")
    /\ reference' = CheckEffects(reference, header.declared)
    /\ native' = [stage \in Native!Stages |-> Native!Close(native[stage], header.declared)]
    /\ ended' = TRUE
    /\ UNCHANGED <<header, lowerer, returns, script, more>>

Next == WriteFirst \/ WriteMore \/ End

Spec == Init /\ [][Next]_vars

-----------------------------------------------------------------------------
(* What a stage leaves to later ones: tools/check_types.py and its kin     *)
(* compare with the reference after removing the same codes.               *)
Lineage == {"F3104", "F3301"}
Ownership == {"F3400", "F3401"}
Permissions == {"F3202", "F3001", "F3002", "F3207", "F3102"}
Declarative == {"F3200", "F3201", "F3000"}
Deferred ==
    [types |-> Permissions \cup Lineage \cup Ownership,
     effects |-> Lineage \cup Ownership,
     lineage |-> Ownership,
     ownership |-> {}]

(* What the native compiler answers, and what it should.                   *)
Capped(codes) ==
    IF Len(codes) <= MaxDiagnostics
    THEN codes
    ELSE Append(SubSeq(codes, 1, MaxDiagnostics - 1), "F0002")
Sound == DeclarationErrors(header.declarations) = <<>>
Found(stage) ==
    IF Sound THEN native[stage].errors ELSE Native!DeclarationErrors(header.declarations)
Without(codes, dropped) ==
    FlattenSeq([i \in DOMAIN codes |-> Flag(codes[i], codes[i] \notin dropped)])
Expected(stage) ==
    Capped(Without(reference.diagnostics,
                   IF Sound THEN Deferred[stage] ELSE ToSet(reference.diagnostics) \ Declarative))
SameBindings(stage) ==
    /\ DOMAIN native[stage].env = DOMAIN reference.env
    /\ \A name \in DOMAIN reference.env :
          Described("var", reference.env[name]).type = Native!Report(native[stage].env[name])
SameTypes(stage) ==
    LET rows == Native!Analysis(native[stage]) IN
    reference.types = [i \in DOMAIN rows |-> [op |-> rows[i].op, type |-> rows[i].type]]
Accepted == ended /\ Found("ownership") = <<>>

(* Each stage finds what the reference finds, and nothing else: the same   *)
(* codes, as often and in the same order, except for those the stage       *)
(* defers (docs/rust-types.md, rust-effects.md, rust-lineage.md), up to    *)
(* the limit (docs/compiler-limits.md); of programs with bad declarations  *)
(* only these.  It infers the same types for the same expressions, those   *)
(* inside of explorations included, however often either has recovered     *)
(* from an error.  And the table of types of an accepted program is the    *)
(* one its lowering expects: no such program ends in an internal error,    *)
(* and its representation is the reference's (tools/check_ir.py).          *)
CompilersAgree ==
    /\ \A stage \in Native!Stages :
          /\ Found(stage) = Expected(stage)
          /\ Sound => SameBindings(stage) /\ SameTypes(stage)
    /\ Accepted => IR!Lowers(lowerer, Native!Analysis(native["ownership"]))
=============================================================================
