--------------------------- MODULE MCCommandLine ---------------------------
(***************************************************************************)
(* Every sequence of lines of up to six characters together, and aliases   *)
(* as long as their name, shorter, and of two words behind a line without  *)
(* one, in files of the same and of other sizes, or no file.               *)
(***************************************************************************)
EXTENDS CommandLine

MCLine == SeqOf({"a", "e", " ", ";"}, 5)
MCFormat == <<"%", "s", " ", "%", "s">>
MCEdit == <<"e">>

a(value) == [name |-> <<"a">>, value |-> value]
MCConfig ==
    {[exists |-> TRUE, lines |-> <<a(<<"e">>)>>],
     [exists |-> TRUE, lines |-> <<a(<<"b">>)>>],
     [exists |-> TRUE, lines |->
        <<[name |-> <<>>, value |-> <<"x">>], a(<<"b", " ", "c">>), a(<<"d">>)>>],
     [exists |-> TRUE, lines |-> <<[name |-> <<"a", "a">>, value |-> <<"b">>]>>],
     [exists |-> FALSE, lines |-> <<>>]}
=============================================================================
