--------------------------- MODULE MCLanguageServer ---------------------------
(***************************************************************************)
(* Two documents where one may be open and one whose name is too long, a   *)
(* text and one that is too long; with two versions a change can be old,   *)
(* repeated, or new, and three requests can be before the first answer,    *)
(* between two, or after the session.                                      *)
(***************************************************************************)
EXTENDS LanguageServer, TLC

CONSTANTS u1, u2, far, short, long

LanguageServerSymmetry == Permutations({u1, u2})
=============================================================================
