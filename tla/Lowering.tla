------------------------------ MODULE Lowering ------------------------------
(***************************************************************************)
(* Lowering a checked program to its typed intermediate representation     *)
(* (crates/foresee-semantics/src/ir.rs).  The checker leaves a table of    *)
(* types; the lowerer goes through the program a second time, takes a row  *)
(* for each expression it meets and refuses the program, as an internal    *)
(* error, if a row is not about that expression.  The representation is    *)
(* the program with the types of its rows.                                 *)
(***************************************************************************)
EXTENDS DecisionLanguage

(* Lowerer: how many rows are taken, and whether one did not fit.          *)
Lowerer == [next |-> 0, mismatch |-> FALSE]

(* Lowerer::expr: the row of an expression, then those of its operands,    *)
(* then the body of an exploration, for the levels of a program.           *)
Own(e) == <<e.op>> \o [i \in DOMAIN Operands(e) |-> "var"] \o Literals(e)
Inner(e) ==
    IF e.op = "explore"
    THEN Own(e) \o FlattenSeq([i \in DOMAIN e.body |-> Own(e.body[i].value)])
    ELSE Own(e)
Traversal(e) ==
    IF e.op = "explore"
    THEN Own(e) \o FlattenSeq([i \in DOMAIN e.body |-> Inner(e.body[i].value)])
    ELSE Own(e)

(* One row after the other is taken.                                       *)
Fits(rows, next, op) ==
    /\ next < Len(rows)
    /\ LET row == rows[next + 1] IN
       row.node = next /\ row.op = op /\ row.type.kind # "error"
TakeAll(l, rows, ops) ==
    [next |-> l.next + Len(ops),
     mismatch |-> l.mismatch \/ \E i \in DOMAIN ops : ~Fits(rows, l.next + i - 1, ops[i])]

(* Lowerer::statement, for the statements of a decision.                   *)
Statement(l, rows, s) == TakeAll(l, rows, Traversal(s.value))

(* lower_source: every expression has its row and every row is taken.      *)
Lowers(l, rows) == ~l.mismatch /\ l.next = Len(rows)
=============================================================================
