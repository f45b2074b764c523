------------------------------ MODULE Terminal ------------------------------
(***************************************************************************)
(* The text screen (kernel/src/shell/terminal.cpp, vga.cpp): what the      *)
(* output functions do to the cells and to the position of the next        *)
(* character.  Row, column and cell index are 16-bit numbers and wrap.     *)
(* Colours are left out.  `outside' records a write outside the screen.    *)
(***************************************************************************)
EXTENDS Integers, Sequences

CONSTANTS VGA_WIDTH, VGA_HEIGHT, NL

U16 == 65536
Blank == " "
Cell == 0 .. VGA_WIDTH * VGA_HEIGHT - 1

\* 80 columns and 25 rows.
ASSUME ScreenSize ==
    /\ VGA_WIDTH \in Nat \ {0} /\ VGA_HEIGHT \in Nat \ {0}
    /\ VGA_WIDTH * VGA_HEIGHT + VGA_WIDTH <= U16

terminal_initialize ==
    [row |-> 0, column |-> 0, cells |-> [i \in Cell |-> Blank], outside |-> FALSE]

index(x, y) == (y * VGA_WIDTH + x) % U16
cursor(t) == index(t.column, t.row)

terminal_putchar_at(t, c, x, y) ==
    IF index(x, y) \in Cell THEN [t EXCEPT !.cells[index(x, y)] = c]
    ELSE [t EXCEPT !.outside = TRUE]

\* The next row, at its start; the last row scrolls.
next_row(t) ==
    IF t.row + 1 # VGA_HEIGHT THEN [t EXCEPT !.column = 0, !.row = @ + 1]
    ELSE [t EXCEPT !.column = 0,
                   !.cells = [i \in Cell |-> IF i + VGA_WIDTH \in Cell
                                             THEN t.cells[i + VGA_WIDTH] ELSE Blank]]

terminal_putchar(t, c) ==
    IF c = NL THEN next_row(t)
    ELSE LET u == terminal_putchar_at(t, c, t.column, t.row)
             n == (t.column + 1) % U16
         IN  IF n = VGA_WIDTH THEN next_row(u) ELSE [u EXCEPT !.column = n]

\* printf without conversions.
puts(t, s) ==
    LET after[i \in 0 .. Len(s)] == IF i = 0 THEN t ELSE terminal_putchar(after[i - 1], s[i])
    IN  after[Len(s)]
=============================================================================
