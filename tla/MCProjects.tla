----------------------------- MODULE MCProjects ------------------------------
(***************************************************************************)
(* Three commands on one directory.                                        *)
(***************************************************************************)
EXTENDS Projects, TLC

Interchangeable == Permutations(Processes)
=============================================================================
