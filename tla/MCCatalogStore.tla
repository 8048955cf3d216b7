--------------------------- MODULE MCCatalogStore ---------------------------
(***************************************************************************)
(* CatalogStore on a catalog of three rows: coffee has no unit price yet,  *)
(* mugs and tea have one, and a trigger rewrites tea whenever it is        *)
(* updated.  The plans are a correct repair of two rows, a wrong price for *)
(* one, and a correct price for the triggered row.                         *)
(***************************************************************************)
EXTENDS CatalogInvariants

CONSTANTS c1, c2, op1

MCConnections == {c1, c2}
MCOperations == {op1}
MCRowIds == {"coffee", "mugs", "tea"}
MCTriggered == {"tea"}
MCPack == [coffee |-> 2, mugs |-> 6, tea |-> 1]
MCUnits == [coffee |-> 2, mugs |-> 2, tea |-> 1]
MCSeedRows == [coffee |-> [title |-> 0, unit |-> None],
               mugs |-> [title |-> 0, unit |-> 3],
               tea |-> [title |-> 0, unit |-> 1]]

Patch(id, price) == [id |-> id, unit_price_cents |-> price]
Repair == {Patch("coffee", 1), Patch("mugs", 3)}
Triggering == {Patch("tea", 1)}
Wrong == {Patch("coffee", 2)}
MCPlans == {Repair, Wrong, Triggering}
=============================================================================
