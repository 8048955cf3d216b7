--------------------------- MODULE MCBoundedReplay ---------------------------
(***************************************************************************)
(* One caller, as calls share nothing.  Seven bytes hold an escaped quote  *)
(* inside a string and one more bracket than MaxDepth after it; a report   *)
(* may be one byte too long.  Inherited limits are absent, partly absent,  *)
(* tighter and looser than the ones asked for.                             *)
(***************************************************************************)
EXTENDS BoundedReplay

CONSTANT c1

Limits(s, h) == [soft |-> s, hard |-> h]
Everywhere(l) == [k \in Kinds |-> l]
Wanted == [k \in Kinds |-> IF k = "core" THEN 0 ELSE 2]
SomeEnvironments ==
    {Everywhere(Limits(Infinity, Infinity)),
     Everywhere(Limits(1, Infinity)),
     Everywhere(Limits(3, 3)),
     [Everywhere(Limits(3, Infinity)) EXCEPT !["memory"] = Limits(1, 2)]}
=============================================================================
