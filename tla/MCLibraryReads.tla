--------------------------- MODULE MCLibraryReads ---------------------------
(***************************************************************************)
(* Instances of LibraryReads for TLC.                                      *)
(***************************************************************************)
EXTENDS LibraryReadsProperties

CONSTANTS a, b

Projects == Permutations({a, b})
Launches == {Absent, "DIRECT_LOCAL"}
=============================================================================
