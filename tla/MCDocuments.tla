---------------------------- MODULE MCDocuments ----------------------------
(***************************************************************************)
(* Instances of Documents for TLC.                                         *)
(***************************************************************************)
EXTENDS DocumentsProperties, TLC

\* A directory with both files and one of them elected on its own.
Overlapping == 1 :> {1, 2} @@ 2 :> {1}
=============================================================================
