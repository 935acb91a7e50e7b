--------------------------- MODULE MCDerivedState ---------------------------
(***************************************************************************)
(* Instances of DerivedState for TLC: "yes" and "Yes" word one claim,      *)
(* "aye" one like it, and "no" opposes the first of these wordings.        *)
(***************************************************************************)
EXTENDS DerivedStateProperties, TLC

Forms == "yes" :> "affirmed" @@ "Yes" :> "affirmed" @@ "aye" :> "assented"
         @@ "no" :> "denied" @@ "" :> "none"
Entities == [t \in DOMAIN Forms |-> IF t = "" THEN {} ELSE {"it"}]
Similarities == {<<"affirmed", "assented">>, <<"assented", "affirmed">>}
Opposites == {<<"yes", "no">>, <<"no", "yes">>}
=============================================================================
