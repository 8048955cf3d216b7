---------------------------- MODULE MCModelCalls ----------------------------
(***************************************************************************)
(* Two threads and three providers: two that share the OpenAI transport    *)
(* and one that runs a command.  A call costs at most one unit and a half, *)
(* so that two reservations of two units fit and rounding down would not   *)
(* cover them.  Requests have one token, or one more than may be sent; a   *)
(* generation uses what it may, or more of the input or of the output.     *)
(***************************************************************************)
EXTENDS ModelCallsInvariants, TLC

CONSTANTS t1, t2, paid1, paid2, own

TwoThreads == {t1, t2}
ThreeProviders == {paid1, paid2, own}
PaidProviders == {paid1, paid2}
OneOfEach == {paid1, own}
OnePaid == {paid1}
SomeRequests == {1, 2}
SomeUses == [input : {1, 2}, output : {1, 2}]
FewUses == [input : {1}, output : {1, 2}]

ThreadSymmetry == Permutations(TwoThreads) \cup Permutations(PaidProviders)
=============================================================================
