----------------------------- MODULE MCDecision -----------------------------
(***************************************************************************)
(* Decisions of up to MaxStatements statements over a catalog of one kind  *)
(* of content.  Plan 1 and plan 2 repair the catalog equally well, plan 3  *)
(* computes a wrong price, plan 4 patches an unknown row, plan 5 resolves  *)
(* more but rewrites a title.                                              *)
(***************************************************************************)
EXTENDS DecisionInvariants, MCBodies, TLC

FivePlans == 1 .. 5
Arithmetic == {1, 2, 4, 5}
Sources == 1 .. 4
RowsKnown == {1, 2, 3, 5}
LeftUnresolved == [p \in FivePlans |-> IF p \in {3, 5} THEN 0 ELSE 1]

FewLists == {<<>>, <<2, 1>>, <<3, 1>>, <<4, 3>>, <<5, 1>>, <<1, 1>>, <<6>>}
SomeEffects == {Effects, Effects \ {<<"Commit", "catalog">>}, Effects \ {<<"Explore", "catalog">>}}

(* Long programs alias and commit but call no method at the top; short     *)
(* ones use everything; unchecked ones also spend a selection twice,       *)
(* simulate outside of a branch or pass the wrong kind of value, against   *)
(* the interpreter alone; watching ones read the catalog three times, so   *)
(* that two snapshots nothing depends on may change places.                *)
QuotaOf(twice, never) ==
    [op \in Operations |-> IF op \in twice THEN 2 ELSE IF op \in never THEN 0 ELSE 1]
Long ==
    [journaled |-> TRUE, waived |-> {}, budgets |-> {9},
     proposals |-> {<<2, 1>>, <<3, 1>>, <<4, 3>>, <<5, 1>>}, effects |-> {Effects}, statements |-> 8,
     quota |-> QuotaOf({"select", "commit"}, {"call", "simulate"})]
Tight == [Long EXCEPT !.proposals = {<<2, 1>>, <<5, 1>>}, !.budgets = {2, 4}]
Short ==
    [Long EXCEPT !.proposals = FewLists, !.effects = SomeEffects, !.statements = 6,
                 !.quota = QuotaOf({"snapshot"}, {})]
Unchecked ==
    [Long EXCEPT !.journaled = FALSE, !.waived = {"F3400", "F3103", "F3206"},
                 !.proposals = {<<2, 1>>}, !.statements = 7,
                 !.quota = QuotaOf({"select", "commit"}, {"call"})]
Watching ==
    [Long EXCEPT !.proposals = {<<2, 1>>}, !.statements = 7,
                 !.quota = [QuotaOf({}, {"var", "call", "simulate"}) EXCEPT !["snapshot"] = 3]]
AllSettings == {Long, Tight, Short, Unchecked, Watching}
=============================================================================
