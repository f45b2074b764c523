------------------------------ MODULE MCEditor ------------------------------
(* A buffer of three bytes on a screen of two text rows.                    *)
EXTENDS EditorLines

\* The last one is too long to be opened.
MCFile == {<<>>, <<"n", "x">>, <<"x", "n", "n">>, <<"x", "x", "x", "x">>}
====
