------------------------------ MODULE MCFat32 ------------------------------
(***************************************************************************)
(* A volume of four clusters, directories of four entries, and names of    *)
(* every kind: a short one, one of just eleven bytes, and one whose entry  *)
(* keeps the same eleven bytes and that takes two more entries.            *)
(***************************************************************************)
EXTENDS Fat32

R(s) == [abs |-> FALSE, comps |-> s]
A(s) == [abs |-> TRUE, comps |-> s]

\* "b" is what an entry keeps of the long name.
MCName == {"a", "b", "longer"}
MCLength == "a" :> 1 @@ "b" :> 11 @@ "longer" :> 14
MCStored == [n \in MCName |-> IF n = "a" THEN "a" ELSE "b"]
MCPath == {A(<<"a">>), R(<<"b">>), A(<<"a", "b">>), R(<<".">>)}
MCPattern == {{"a", "b"}}
MCText == {<<>>, <<"y", "y", "x">>}
=============================================================================
