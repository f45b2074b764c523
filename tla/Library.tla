------------------------------ MODULE Library ------------------------------
(***************************************************************************)
(* Functions of the kernel's C library that loop over bytes                *)
(* (kernel/src/lib): match_wildcard, memmove and vprintf.  One call at a   *)
(* time; vprintf takes one step for each character or directive of its     *)
(* format.  Characters are strings of length one.  After `event' what      *)
(* happens is undefined, and the model stops.                              *)
(***************************************************************************)
EXTENDS Integers, SequencesExt, FiniteSetsExt

CONSTANTS
    Letter,             \* the letters of names
    MaxLength,          \* bound: length of names and patterns
    Bytes,              \* bytes of the buffer that memmove works in
    INT_MAX,            \* largest int (2^31 - 1)
    PRINT_BUFFER_SIZE,  \* digits that the buffer holds, and one
    Number,             \* the numbers printed with %d
    Item,               \* what formats consist of: letters and directives
    MaxItems            \* bound: items of a format

ASSUME LibraryAssumption ==
    /\ {MaxLength, Bytes, INT_MAX, PRINT_BUFFER_SIZE, MaxItems} \subseteq Nat \ {0}
    /\ Number \subseteq (-INT_MAX - 1) .. INT_MAX

VARIABLES
    call,       \* the call that runs or has returned
    result,     \* what match_wildcard returned, what memmove left
    format,     \* what is left of vprintf's format
    args,       \* what is left of its arguments
    out,        \* what it has printed
    event

vars == <<call, result, format, args, out, event>>

NUL == "NUL"
STAR == "*"
Name == SeqOf(Letter, MaxLength)
Pattern == SeqOf(Letter \cup {STAR}, MaxLength)
Nothing == <<>>

Init ==
    /\ call = [fn |-> "none"] /\ result = Nothing
    /\ format = <<>> /\ args = <<>> /\ out = <<>> /\ event = "none"

at(s, i) == IF i <= Len(s) THEN s[i] ELSE NUL

-----------------------------------------------------------------------------
\* match_wildcard on what is left of the pattern and of the string, from the
\* positions p and s.
RECURSIVE match_from(_, _, _, _)
match_from(pattern, p, str, s) ==
    IF at(str, s) = NUL
    THEN \A i \in p .. Len(pattern) : pattern[i] = STAR
    ELSE IF at(pattern, p) = STAR
    THEN \/ at(pattern, p + 1) = NUL
         \/ \E t \in s .. Len(str) : match_from(pattern, p + 1, str, t)
    ELSE /\ at(pattern, p) = at(str, s)
         /\ match_from(pattern, p + 1, str, s + 1)

\* A mutant of match_wildcard: the empty name matches no pattern.
match_wildcard_not_empty(pattern, str) == str # <<>> /\ match_from(pattern, 1, str, 1)

match_wildcard(pattern, str) == match_from(pattern, 1, str, 1)

\* memmove copies byte by byte, upwards if the destination is lower.
copy_byte(mem, d, s) == [mem EXCEPT ![d] = mem[s]]
memmove(mem, dest, src, count) ==
    FoldLeft(LAMBDA m, i : copy_byte(m, dest + i - 1, src + i - 1), mem,
             [i \in 1 .. count |-> IF dest < src THEN i ELSE count + 1 - i])

Match ==
    \E p \in Pattern, s \in Name :
        /\ call' = [fn |-> "match", pattern |-> p, str |-> s]
        /\ result' = match_wildcard(p, s)

Before == [i \in 1 .. Bytes |-> i]
Move ==
    \E d, s \in 1 .. Bytes, n \in 0 .. Bytes :
        /\ d + n - 1 <= Bytes /\ s + n - 1 <= Bytes
        /\ call' = [fn |-> "move", dest |-> d, src |-> s, count |-> n]
        /\ result' = memmove(Before, d, s, n)

-----------------------------------------------------------------------------
\* Printing.
DIGIT == <<"0", "1", "2", "3", "4", "5", "6", "7", "8", "9", "a", "b", "c", "d", "e", "f">>
Repeat(c, n) == [i \in 1 .. n |-> c]

\* The digits that the loops leave in the buffer, in the order printed.
digits(num, base) ==
    LET n == Cardinality({k \in 0 .. PRINT_BUFFER_SIZE - 2 : num \div (base ^ k) > 0})
    IN  IF num = 0 THEN <<"0">>
        ELSE [i \in 1 .. n |-> DIGIT[((num \div (base ^ (n - i))) % base) + 1]]

padding(d, content) == IF d.width > content THEN d.width - content ELSE 0

\* A mutant of print_number: the padding zeros come before the sign.
print_number_sign_last(num, d) ==
    LET sign == IF num < 0 THEN <<"-">> ELSE <<>>
        buffer == digits(IF num < 0 THEN -num ELSE num, 10)
        pad == padding(d, Len(buffer) + Len(sign))
    IN  IF d.left THEN sign \o buffer \o Repeat(" ", pad)
        ELSE Repeat(IF d.zero THEN "0" ELSE " ", pad) \o sign \o buffer

print_number(num, d) ==
    LET sign == IF num < 0 THEN <<"-">> ELSE <<>>
        buffer == digits(IF num < 0 THEN -num ELSE num, 10)
        pad == padding(d, Len(buffer) + Len(sign))
    IN  IF d.left THEN sign \o buffer \o Repeat(" ", pad)
        ELSE IF d.zero THEN sign \o Repeat("0", pad) \o buffer
        ELSE Repeat(" ", pad) \o sign \o buffer

print_unsigned(num, d) ==
    LET buffer == digits(num, 10)
        pad == padding(d, Len(buffer))
    IN  IF d.left THEN buffer \o Repeat(" ", pad)
        ELSE Repeat(IF d.zero THEN "0" ELSE " ", pad) \o buffer

print_hex(num, d) ==
    LET buffer == <<"0", "x">> \o digits(num, 16)
        pad == padding(d, Len(buffer))
    IN  IF d.left THEN buffer \o Repeat(" ", pad)
        ELSE Repeat(IF d.zero THEN "0" ELSE " ", pad) \o buffer

print_string(str, d) ==
    LET pad == Repeat(" ", padding(d, Len(str)))
    IN  IF d.left THEN str \o pad ELSE pad \o str

\* The part of vprintf that reads a directive: f is the format behind the '%'.
Decimal == {DIGIT[i] : i \in 1 .. 10}
span(f, i) == CHOOSE j \in i .. Len(f) + 1 :
                 at(f, j) \notin Decimal /\ \A k \in i .. j - 1 : f[k] \in Decimal
number(f, i, j) ==
    FoldLeft(LAMBDA n, c : n * 10 + (CHOOSE v \in 0 .. 9 : DIGIT[v + 1] = c), 0, SubSeq(f, i, j - 1))

directive(f) ==
    LET flag(i, c) == IF at(f, i) = c THEN i + 1 ELSE i
        left == flag(1, "-")
        zero == flag(left, "0")
        width == span(f, zero)
        size == flag(width, "z")
        long == flag(flag(size, "l"), "l")
    IN  [left |-> left > 1, zero |-> zero > left, width |-> number(f, zero, width),
         conv |-> at(f, long), rest |-> SubSeq(f, long + 1, Len(f))]

\* No caller has a size before 'd'; %p, %f and the precision are left out.
convert(d, arg) ==
    CASE d.conv = "d" -> print_number(arg, d)
      [] d.conv = "u" -> print_unsigned(arg, d)
      [] d.conv = "x" -> print_hex(arg, d)
      [] d.conv = "s" -> print_string(arg, d)
      [] d.conv = "c" -> <<arg>>

\* -num of the smallest int overflows; the argument of %s is printed as a
\* format, without arguments.
overflows(d, arg) == d.conv = "d" /\ arg = -INT_MAX - 1
nested(d, arg) == d.conv = "s" /\ "%" \in ToSet(arg)

Takes(d) == d.conv \in {"d", "u", "x", "s", "c"}

\* One turn of vprintf's loop.
vprintf ==
    /\ event = "none" /\ format # <<>>
    /\ IF Head(format) # "%"
       THEN out' = Append(out, Head(format)) /\ format' = Tail(format) /\ UNCHANGED <<args, event>>
       ELSE LET d == directive(Tail(format))
            IN  /\ format' = d.rest
                /\ IF Takes(d)
                   THEN \/ /\ overflows(d, Head(args))
                           /\ event' = "overflow" /\ UNCHANGED <<args, out>>
                        \/ /\ nested(d, Head(args))
                           /\ event' = "nested" /\ UNCHANGED <<args, out>>
                        \/ /\ ~overflows(d, Head(args)) /\ ~nested(d, Head(args))
                           /\ out' = out \o convert(d, Head(args))
                           /\ args' = Tail(args) /\ UNCHANGED event
                   ELSE /\ out' = out \o (IF d.conv = "%" THEN <<"%">> ELSE <<"%", d.conv>>)
                        /\ event' = IF d.conv = NUL THEN "past" ELSE event
                        /\ UNCHANGED args
    /\ UNCHANGED <<call, result>>

\* A caller writes a format: an item is a letter or a directive with its
\* argument.
IsDirective(it) == it.kind = "directive"
Width(w) == IF w = 0 THEN <<>> ELSE digits(w, 10)
Written(it) ==
    IF ~IsDirective(it) THEN <<it.text>>
    ELSE <<"%">> \o (IF it.left THEN <<"-">> ELSE <<>>) \o (IF it.zero THEN <<"0">> ELSE <<>>)
         \o Width(it.width) \o it.size \o (IF it.conv = NUL THEN <<>> ELSE <<it.conv>>)

call_printf ==
    \E items \in SeqOf(Item, MaxItems) :
        /\ \A i \in 1 .. Len(items) - 1 : IsDirective(items[i]) => items[i].conv # NUL
        /\ call' = [fn |-> "printf", items |-> items]
        /\ format' = FlattenSeq([i \in 1 .. Len(items) |-> Written(items[i])])
        /\ LET taking == SelectSeq(items, LAMBDA it : IsDirective(it) /\ it.conv \notin {"%", NUL})
           IN  args' = [i \in 1 .. Len(taking) |-> taking[i].arg]
        /\ UNCHANGED <<result, out, event>>

Begin ==
    /\ call.fn = "none"
    /\ \/ (Match \/ Move) /\ UNCHANGED <<format, args, out, event>>
       \/ call_printf

Return ==
    /\ call.fn # "none" /\ format = <<>> /\ event = "none"
    /\ call' = [fn |-> "none"] /\ result' = Nothing
    /\ args' = <<>> /\ out' = <<>>
    /\ UNCHANGED <<format, event>>

Next == Begin \/ vprintf \/ Return

Spec == Init /\ [][Next]_vars

-----------------------------------------------------------------------------
\* The names that a pattern stands for: a star for any letters, a letter for
\* itself.
Glob(pattern) ==
    FoldLeft(LAMBDA L, c : {w \in {u \o v : u \in L, v \in IF c = STAR THEN Name ELSE {<<c>>}} :
                               Len(w) <= MaxLength},
             {<<>>}, pattern)

\* match_wildcard accepts exactly the names that the pattern stands for,
\* wherever its stars are and however often it has to go back; rm deletes
\* what it accepts.
MatchesGlob == call.fn = "match" => (result <=> call.str \in Glob(call.pattern))

\* memmove leaves what the source held before the call in the destination and
\* every other byte alone, also when the two overlap, as in the editor's
\* insertions and deletions.
MovesAtOnce ==
    call.fn = "move" =>
        result = [i \in 1 .. Bytes |->
                     IF i \in call.dest .. call.dest + call.count - 1
                     THEN Before[call.src + i - call.dest] ELSE Before[i]]

\* The two functions do what their references say.
MeetsReference == MatchesGlob /\ MovesAtOnce

Value(s, base) ==
    FoldLeft(LAMBDA n, c : n * base + (CHOOSE v \in 0 .. base - 1 : DIGIT[v + 1] = c), 0, s)
Numeral(n, base) ==
    CHOOSE s \in SeqOf({DIGIT[i] : i \in 1 .. base}, PRINT_BUFFER_SIZE - 1) :
        /\ s # <<>> /\ (s[1] = "0" => Len(s) = 1)
        /\ Value(s, base) = n

\* How an item is to look: its text with blanks on one side, or zeros behind
\* the sign, to the width asked for.
Rendered(it) ==
    IF ~IsDirective(it) THEN <<it.text>>
    ELSE IF it.conv = "%" THEN <<"%">>
    ELSE IF it.conv = "c" THEN <<it.arg>>
    ELSE LET sign == IF it.conv = "d" /\ it.arg < 0 THEN <<"-">> ELSE <<>>
             body == CASE it.conv = "d" -> Numeral(IF it.arg < 0 THEN -it.arg ELSE it.arg, 10)
                       [] it.conv = "u" -> Numeral(it.arg, 10)
                       [] it.conv = "x" -> <<"0", "x">> \o Numeral(it.arg, 16)
                       [] it.conv = "s" -> it.arg
             fill(c) == Repeat(c, Max({0, it.width - Len(sign) - Len(body)}))
         IN  IF it.left THEN sign \o body \o fill(" ")
             ELSE IF it.zero /\ it.conv # "s" THEN sign \o fill("0") \o body
             ELSE fill(" ") \o sign \o body

\* What vprintf prints is what the format says, item by item, each directive
\* with its own argument: flags, width and size are read to their end, and the
\* digits that the loops produce from the last to the first are the number's.
PrintsItems ==
    call.fn = "printf" /\ format = <<>> /\ event = "none" =>
        out = FlattenSeq([i \in 1 .. Len(call.items) |-> Rendered(call.items[i])])
=============================================================================
