----------------------------- MODULE MCLibrary -----------------------------
(***************************************************************************)
(* Ints of six bits, printed in two digits; directives with every flag, a  *)
(* width below, at and above the length of what is printed, and every size *)
(* that the parser knows.                                                  *)
(***************************************************************************)
EXTENDS Library

MC_Number == {-32, -31, -10, -1, 0, 9, 10, 31}
Plain(c) == [kind |-> "letter", text |-> c]
Directive(l, z, w, s, c, a) ==
    [kind |-> "directive", left |-> l, zero |-> z, width |-> w, size |-> s, conv |-> c, arg |-> a]

MC_Item ==
    {Plain("0"), Plain("d"), Directive(FALSE, FALSE, 0, <<>>, "%", 0),
     Directive(FALSE, FALSE, 0, <<>>, NUL, 0)}
    \cup {Directive(FALSE, FALSE, 0, <<>>, "c", "d")}
    \cup {Directive(l, z, w, <<>>, "d", n) :
             l \in BOOLEAN, z \in BOOLEAN, w \in {0, 3, 10}, n \in MC_Number}
    \cup {Directive(l, FALSE, w, <<>>, "s", n) :
             l \in BOOLEAN, w \in {0, 1, 3}, n \in {<<>>, <<"d", "0">>, <<"%", "d">>}}
    \cup {Directive(FALSE, z, 3, s, c, n) :
             z \in BOOLEAN, s \in {<<>>, <<"l">>, <<"l", "l">>, <<"z">>}, c \in {"u", "x"}, n \in {0, 16, 26}}
=============================================================================
