------------------------------ MODULE MCShell ------------------------------
(***************************************************************************)
(* The shell on a screen of three columns and three rows: a line may be    *)
(* longer than a row, so that it wraps, scrolls and is erased back over    *)
(* the start of a row.  The two entries share their first letter;          *)
(* the second is a directory.                                              *)
(***************************************************************************)
EXTENDS Shell

MCKey == {"a", Blank}
MCPrompt == <<"$">>
MCEntries == <<<<"a", "b">>, <<"a", Blank>>>>
MCCd == <<"a">>
MCOutput == {<<"o", "\n", "o", "o">>}
=============================================================================
