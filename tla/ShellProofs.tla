---------------------------- MODULE ShellProofs ----------------------------
(***************************************************************************)
(* Proofs about the shell's line on the screen, for a screen of any size,  *)
(* any prompt, names and output: while the line is typed, erased over the  *)
(* start of rows, scrolled and completed, the cells before the cursor are  *)
(* the prompt and the line; and editor and pager give the screen back.     *)
(***************************************************************************)
EXTENDS Shell, WellFoundedInduction, TLAPS

\* Backspace takes the column below zero: it stands for a negative number.
Column(t) == IF t.column < VGA_WIDTH THEN t.column ELSE t.column - U16
Position(t) == t.row * VGA_WIDTH + Column(t)

Screen == [row : 0 .. VGA_HEIGHT - 1, column : 0 .. U16 - 1, cells : [Cell -> Character],
           outside : BOOLEAN]

OnScreen(t) == t \in Screen /\ Position(t) \in Cell

\* The cells before the cursor hold the first n characters of z.
Shows(t, z, n) ==
    /\ n <= Position(t)
    /\ \A i \in 1 .. n : t.cells[Position(t) - i] = z[n + 1 - i]

Lines ==
    /\ input_buffer \in Seq(LineCharacter)
    /\ event = "none" => Len(input_buffer) <= MaxInput
    /\ tab_matches \in Seq(Seq(LineCharacter)) /\ Len(tab_matches) <= MaxMatches
    /\ tab_matches # <<>> => current_tab_match \in 0 .. Len(tab_matches) - 1

Ended(s) ==
    /\ s \in Seq(Outcome \cup {[kind |-> "end"]})
    /\ \A i \in 1 .. Len(s) : s[i].kind = "end" <=> i = Len(s)

\* A line that runs ends with its end; a program that has the screen waits
\* for nothing of the line.
Running ==
    /\ Ended(script)
    /\ editor_active \in BOOLEAN /\ pager_active \in BOOLEAN
    /\ editor_active => script = <<>>
    /\ (editor_active \/ pager_active) /\ script = <<>> => input_buffer = <<>>

Screens ==
    /\ OnScreen(term) /\ OnScreen(saved_screen)
    /\ term.outside => event = "wiped"
    /\ ~saved_screen.outside
    /\ event = "none" => saved_screen = before

Typed ==
    AtPrompt => Shows(term, PROMPT \o input_buffer, Len(PROMPT) + Len(input_buffer))

ShellInv == Lines /\ Running /\ Screens /\ Typed
-----------------------------------------------------------------------------
LEMMA LeastNat ==
    ASSUME NEW T \in SUBSET Nat, T # {}
    PROVE  \E x \in T : \A y \in T : x <= y
  <1> DEFINE R == OpToRel(<, Nat)
  <1>1. IsWellFoundedOn(R, Nat)
    BY NatLessThanWellFounded, Zenon
  <1>2. \A x, y \in Nat : <<y, x>> \in R <=> y < x
    BY DEF OpToRel
  <1> HIDE DEF R
  <1>3. PICK x \in T : \A y \in T : ~(<<y, x>> \in R)
    BY <1>1, WFMin, Zenon
  <1>4. \A y \in T : ~(y < x)
    BY <1>2, <1>3, Zenon
  <1> QED
    BY <1>4

LEMMA Induct ==
    ASSUME NEW T, 0 \in T, \A n \in Nat : n \in T => n + 1 \in T
    PROVE  \A n \in Nat : n \in T
  <1> SUFFICES ASSUME Nat \ T # {} PROVE FALSE
    OBVIOUS
  <1>1. PICK x \in Nat \ T : \A y \in Nat \ T : x <= y
    BY LeastNat, Zenon
  <1>2. x # 0 /\ x - 1 \in Nat /\ x - 1 \in T
    BY <1>1
  <1> QED
    BY <1>1, <1>2

LEMMA EmptyFacts ==
    ASSUME NEW S
    PROVE  /\ <<>> \in Seq(S) /\ Len(<<>>) = 0
           /\ \A s \in Seq(S) : s # <<>> => Len(s) \in Nat \ {0}
  OBVIOUS

LEMMA SingleFacts ==
    ASSUME NEW S, NEW e \in S
    PROVE  <<e>> \in Seq(S) /\ Len(<<e>>) = 1 /\ <<e>>[1] = e
  OBVIOUS

LEMMA TailFacts ==
    ASSUME NEW S, NEW s \in Seq(S), s # <<>>
    PROVE  /\ Head(s) \in S /\ Head(s) = s[1]
           /\ Tail(s) \in Seq(S) /\ Len(Tail(s)) = Len(s) - 1
           /\ \A i \in 1 .. Len(Tail(s)) : Tail(s)[i] = s[i + 1]
  OBVIOUS

LEMMA AppendFacts ==
    ASSUME NEW S, NEW s \in Seq(S), NEW e \in S
    PROVE  /\ Append(s, e) \in Seq(S) /\ Append(s, e) # <<>> /\ Len(Append(s, e)) = Len(s) + 1
           /\ \A i \in 1 .. Len(s) : Append(s, e)[i] = s[i]
           /\ Append(s, e)[Len(s) + 1] = e
  OBVIOUS

LEMMA ConcatFacts ==
    ASSUME NEW S, NEW x \in Seq(S), NEW z \in Seq(S)
    PROVE  /\ x \o z \in Seq(S) /\ Len(x \o z) = Len(x) + Len(z)
           /\ \A k \in 1 .. Len(x) : (x \o z)[k] = x[k]
           /\ \A k \in 1 .. Len(z) : (x \o z)[Len(x) + k] = z[k]
  OBVIOUS

LEMMA SubSeqFacts ==
    ASSUME NEW S, NEW s \in Seq(S), NEW n \in 0 .. Len(s)
    PROVE  /\ SubSeq(s, 1, n) \in Seq(S) /\ Len(SubSeq(s, 1, n)) = n
           /\ \A k \in 1 .. n : SubSeq(s, 1, n)[k] = s[k]
  OBVIOUS
-----------------------------------------------------------------------------
\* The rows of the screen, one after the other.
LEMMA Rows ==
    ASSUME NEW r \in 0 .. VGA_HEIGHT - 1
    PROVE  /\ VGA_WIDTH \in Nat \ {0} /\ VGA_HEIGHT \in Nat \ {0}
           /\ VGA_WIDTH * VGA_HEIGHT \in Nat /\ VGA_WIDTH * VGA_HEIGHT + VGA_WIDTH <= U16
           /\ r * VGA_WIDTH \in Nat /\ (r + 1) * VGA_WIDTH = r * VGA_WIDTH + VGA_WIDTH
           /\ r * VGA_WIDTH + VGA_WIDTH <= VGA_WIDTH * VGA_HEIGHT
           /\ r + 1 = VGA_HEIGHT => r * VGA_WIDTH + VGA_WIDTH = VGA_WIDTH * VGA_HEIGHT
  <1>1. PICK w \in Nat \ {0} : w = VGA_WIDTH
    BY ScreenSize
  <1>2. PICK h \in Nat \ {0} : h = VGA_HEIGHT
    BY ScreenSize
  <1>3. w * h \in Nat /\ r * w \in Nat
    BY <1>1, <1>2
  <1>4. (r + 1) * w = r * w + w
    BY <1>1, <1>2
  <1>5. (r + 1) * w <= h * w /\ h * w = w * h
    <2>1. r + 1 <= h /\ r + 1 \in Nat
      BY <1>2
    <2>2. PICK d \in Nat : h = r + 1 + d
      <3>1. h - (r + 1) \in Nat /\ h = r + 1 + (h - (r + 1))
        BY <1>2, <2>1
      <3> QED
        BY <3>1, Zenon
    <2>3. h * w = (r + 1) * w + d * w /\ d * w \in Nat
      BY <1>1, <2>2
    <2>4. h * w = w * h
      BY <1>1, <1>2
    <2> QED
      BY <1>1, <2>1, <2>3, <2>4
  <1>6. r + 1 = h => (r + 1) * w = w * h
    BY <1>1, <1>2, <1>5
  <1> QED
    BY <1>1, <1>2, <1>3, <1>4, <1>5, <1>6, ScreenSize

LEMMA CellFacts ==
    ASSUME NEW i
    PROVE  i \in Cell <=> i \in Nat /\ i < VGA_WIDTH * VGA_HEIGHT
  <1>1. VGA_WIDTH * VGA_HEIGHT \in Nat
    BY ScreenSize
  <1> QED
    BY <1>1 DEF Cell

LEMMA Words == U16 \in Nat /\ U16 > 1
  BY DEF U16

LEMMA Modulo ==
    ASSUME NEW P \in Nat, P > 1, NEW x \in Int
    PROVE  \E r \in Nat, q \in Int : r = x % P /\ r < P /\ x = P * q + r
  <1>1. x % P \in 0 .. P - 1 /\ x \div P \in Int
    BY Z3
  <1>2. x = P * (x \div P) + (x % P)
    BY SMT
  <1>3. x % P \in Nat /\ x % P < P
    BY <1>1
  <1> QED
    BY <1>1, <1>2, <1>3, Zenon

LEMMA Wraps ==
    ASSUME NEW j \in Nat, j < U16
    PROVE  /\ (j + 1) % U16 \in 0 .. U16 - 1
           /\ (j + 1) % U16 = j + 1 \/ ((j + 1) % U16 = 0 /\ j + 1 = U16)
           /\ (j - 1) % U16 \in 0 .. U16 - 1
           /\ j = 0 => (j - 1) % U16 = U16 - 1
           /\ j # 0 => (j - 1) % U16 = j - 1
  <1>1. PICK x \in Int, y \in Int : x = j + 1 /\ y = j - 1
    OBVIOUS
  <1>2. x % U16 \in 0 .. U16 - 1 /\ y % U16 \in 0 .. U16 - 1
    BY Modulo, Words
  <1>3. x % U16 = x \/ (x % U16 = 0 /\ x = U16)
    <2>1. PICK r \in Nat, q \in Int : r = x % U16 /\ r < U16 /\ x = U16 * q + r
      BY Modulo, Words
    <2> QED
      BY <1>1, <2>1 DEF U16
  <1>4. y % U16 = IF y = -1 THEN U16 - 1 ELSE y
    <2>1. PICK r \in Nat, q \in Int : r = y % U16 /\ r < U16 /\ y = U16 * q + r
      BY Modulo, Words
    <2>2. -1 <= y /\ y < U16
      BY <1>1, Words
    <2>3. r = IF y = -1 THEN U16 - 1 ELSE y
      BY <2>1, <2>2 DEF U16
    <2> QED
      BY <2>1, <2>3
  <1> QED
    BY <1>1, <1>2, <1>3, <1>4, Words

\* Where the cursor is: the 16-bit numbers wrap to the cell meant.
LEMMA Where ==
    ASSUME NEW t, OnScreen(t)
    PROVE  /\ t.row \in 0 .. VGA_HEIGHT - 1 /\ t.column \in 0 .. U16 - 1
           /\ cursor(t) = Position(t) /\ index(t.column, t.row) = Position(t)
           /\ Position(t) \in Nat /\ Position(t) < VGA_WIDTH * VGA_HEIGHT
           /\ \/ t.column < VGA_WIDTH /\ Position(t) = t.row * VGA_WIDTH + t.column
              \/ /\ t.column > VGA_WIDTH /\ t.column + VGA_WIDTH * VGA_HEIGHT > U16
                 /\ Position(t) = t.row * VGA_WIDTH + t.column - U16
  <1>1. t.row \in 0 .. VGA_HEIGHT - 1 /\ t.column \in 0 .. U16 - 1
    BY DEF OnScreen, Screen
  <1>2. Position(t) \in Nat /\ Position(t) < VGA_WIDTH * VGA_HEIGHT
    BY CellFacts DEF OnScreen
  <1>3. PICK m \in Nat : m = t.row * VGA_WIDTH
    BY <1>1, Rows
  <1>4. PICK c \in Nat : c = t.column /\ c < U16
    <2>1. PICK c \in 0 .. U16 - 1 : c = t.column
      BY <1>1
    <2>2. c \in Nat /\ c < U16
      BY Words
    <2> QED
      BY <2>1, <2>2, Zenon
  <1>5. PICK a \in Nat : a = VGA_WIDTH * VGA_HEIGHT
    BY ScreenSize
  <1>6. VGA_WIDTH \in Nat \ {0} /\ a + VGA_WIDTH <= U16 /\ m + VGA_WIDTH <= a
    BY <1>1, <1>3, <1>5, Rows
  <1>7. Position(t) = IF c < VGA_WIDTH THEN m + c ELSE m + c - U16
    <2>1. Column(t) = IF c < VGA_WIDTH THEN c ELSE c - U16
      BY <1>4, Zenon DEF Column
    <2>2. Position(t) = m + Column(t)
      BY <1>3, Zenon DEF Position
    <2> QED
      BY <1>4, <1>6, <2>1, <2>2 DEF U16
  <1>8. PICK p \in Nat : p = Position(t) /\ p < a
    BY <1>2, <1>5
  <1>9. \/ c < VGA_WIDTH /\ p = m + c
        \/ c > VGA_WIDTH /\ c + a > U16 /\ p = m + c - U16
    BY <1>4, <1>6, <1>7, <1>8 DEF U16
  <1>10. (m + c) % U16 = p
    BY <1>6, <1>8, <1>9 DEF U16
  <1> QED
    BY <1>1, <1>2, <1>3, <1>4, <1>5, <1>8, <1>9, <1>10, Zenon DEF cursor, index

LEMMA Placed ==
    ASSUME NEW r \in 0 .. VGA_HEIGHT - 1, NEW c \in Nat, NEW f \in [Cell -> Character],
           NEW o \in BOOLEAN, NEW p \in Nat, p < VGA_WIDTH * VGA_HEIGHT,
           \/ c < VGA_WIDTH /\ p = r * VGA_WIDTH + c
           \/ c > VGA_WIDTH /\ c < U16 /\ p = r * VGA_WIDTH + c - U16
    PROVE  /\ OnScreen([row |-> r, column |-> c, cells |-> f, outside |-> o])
           /\ Position([row |-> r, column |-> c, cells |-> f, outside |-> o]) = p
  <1>1. PICK u : u = [row |-> r, column |-> c, cells |-> f, outside |-> o]
    BY Zenon
  <1>2. u.row = r /\ u.column = c
    BY <1>1
  <1>3. PICK m \in Nat : m = r * VGA_WIDTH
    BY Rows
  <1>4. PICK w \in Nat \ {0} : w = VGA_WIDTH /\ w <= U16
    BY Rows, Words
  <1>5. c \in 0 .. U16 - 1
    BY <1>4, Words
  <1>6. Position(u) = p
    <2>1. Column(u) = IF c < w THEN c ELSE c - U16
      BY <1>2, <1>4, Zenon DEF Column
    <2>2. Position(u) = m + Column(u)
      BY <1>2, <1>3, Zenon DEF Position
    <2> QED
      BY <1>3, <1>4, <2>1, <2>2, Words
  <1>7. u \in Screen
    BY <1>1, <1>5 DEF Screen
  <1>8. p \in Cell
    BY CellFacts
  <1> QED
    BY <1>1, <1>6, <1>7, <1>8, Zenon DEF OnScreen

LEMMA Fields ==
    ASSUME NEW t, OnScreen(t)
    PROVE  /\ t = [row |-> t.row, column |-> t.column, cells |-> t.cells, outside |-> t.outside]
           /\ t.cells \in [Cell -> Character] /\ t.outside \in BOOLEAN
  BY DEF OnScreen, Screen

\* Screens with some fields replaced.
LEMMA NextPlace ==
    ASSUME NEW t \in Screen, t.row + 1 \in 0 .. VGA_HEIGHT - 1
    PROVE  [t EXCEPT !.column = 0, !.row = @ + 1]
              = [row |-> t.row + 1, column |-> 0, cells |-> t.cells, outside |-> t.outside]
  <1>1. 0 \in 0 .. U16 - 1
    BY Words
  <1>2. PICK u : u = [t EXCEPT !.column = 0, !.row = @ + 1]
    OBVIOUS
  <1>3. u \in Screen
    BY <1>1, <1>2, Zenon DEF Screen
  <1>4. u.row = t.row + 1 /\ u.column = 0 /\ u.cells = t.cells /\ u.outside = t.outside
    BY <1>2 DEF Screen
  <1>5. u = [row |-> u.row, column |-> u.column, cells |-> u.cells, outside |-> u.outside]
    BY <1>3 DEF Screen
  <1> QED
    BY <1>2, <1>4, <1>5

LEMMA WithCells ==
    ASSUME NEW t \in Screen, NEW c \in 0 .. U16 - 1, NEW f \in [Cell -> Character]
    PROVE  [t EXCEPT !.column = c, !.cells = f]
              = [row |-> t.row, column |-> c, cells |-> f, outside |-> t.outside]
  <1>1. PICK u : u = [t EXCEPT !.column = c, !.cells = f]
    OBVIOUS
  <1>2. u \in Screen
    BY <1>1, Zenon DEF Screen
  <1>3. u.row = t.row /\ u.column = c /\ u.cells = f /\ u.outside = t.outside
    BY <1>1 DEF Screen
  <1>4. u = [row |-> u.row, column |-> u.column, cells |-> u.cells, outside |-> u.outside]
    BY <1>2 DEF Screen
  <1> QED
    BY <1>1, <1>3, <1>4

\* The cells after the screen has scrolled by one row.
Scrolled(f) == [i \in Cell |-> IF i + VGA_WIDTH \in Cell THEN f[i + VGA_WIDTH] ELSE Blank]

LEMMA Scrolls ==
    ASSUME NEW f \in [Cell -> Character]
    PROVE  Scrolled(f) \in [Cell -> Character]
  <1>1. Blank \in Character
    BY DEF Character
  <1>2. ASSUME NEW i \in Cell
        PROVE  (IF i + VGA_WIDTH \in Cell THEN f[i + VGA_WIDTH] ELSE Blank) \in Character
    BY <1>1, Zenon
  <1> QED
    BY <1>2, Zenon DEF Scrolled

\* A line feed goes to the start of the next row.
LEMMA Newline ==
    ASSUME NEW t, OnScreen(t)
    PROVE  /\ OnScreen(next_row(t)) /\ next_row(t).outside = t.outside
           /\ \/ /\ next_row(t).cells = t.cells
                 /\ Position(next_row(t)) = t.row * VGA_WIDTH + VGA_WIDTH
              \/ /\ next_row(t).cells = Scrolled(t.cells)
                 /\ Position(next_row(t)) = t.row * VGA_WIDTH
                 /\ t.row * VGA_WIDTH + VGA_WIDTH = VGA_WIDTH * VGA_HEIGHT
  <1>1. t.row \in 0 .. VGA_HEIGHT - 1 /\ t.column \in 0 .. U16 - 1
    BY Where
  <1>2. PICK r \in 0 .. VGA_HEIGHT - 1 : r = t.row
    BY <1>1
  <1>3. PICK f \in [Cell -> Character] : f = t.cells
    BY Fields
  <1>4. PICK o \in BOOLEAN : o = t.outside
    BY Fields
  <1>5. t = [row |-> r, column |-> t.column, cells |-> f, outside |-> o]
    BY <1>2, <1>3, <1>4, Fields
  <1>6. /\ VGA_WIDTH \in Nat \ {0} /\ VGA_HEIGHT \in Nat \ {0} /\ VGA_WIDTH * VGA_HEIGHT \in Nat
        /\ r * VGA_WIDTH \in Nat /\ r * VGA_WIDTH + VGA_WIDTH <= VGA_WIDTH * VGA_HEIGHT
        /\ (r + 1) * VGA_WIDTH = r * VGA_WIDTH + VGA_WIDTH
        /\ r + 1 = VGA_HEIGHT => r * VGA_WIDTH + VGA_WIDTH = VGA_WIDTH * VGA_HEIGHT
    BY Rows
  <1>7. CASE r + 1 # VGA_HEIGHT
    <2>1. r + 1 \in 0 .. VGA_HEIGHT - 1
      BY <1>6, <1>7
    <2>2. next_row(t) = [row |-> r + 1, column |-> 0, cells |-> f, outside |-> o]
      <3>1. next_row(t) = [t EXCEPT !.column = 0, !.row = @ + 1]
        BY <1>2, <1>7, Zenon DEF next_row
      <3> QED
        BY <1>2, <1>3, <1>4, <2>1, <3>1, NextPlace, Zenon DEF OnScreen
    <2>3. (r + 1) * VGA_WIDTH + VGA_WIDTH <= VGA_WIDTH * VGA_HEIGHT
      BY <2>1, Rows
    <2>4. PICK p \in Nat : p = r * VGA_WIDTH + VGA_WIDTH /\ p < VGA_WIDTH * VGA_HEIGHT
      BY <1>6, <2>3
    <2>5. 0 < VGA_WIDTH /\ p = (r + 1) * VGA_WIDTH + 0
      BY <1>6, <2>4
    <2>6. OnScreen(next_row(t)) /\ Position(next_row(t)) = p
      BY <2>1, <2>2, <2>4, <2>5, Placed
    <2> QED
      BY <1>2, <1>3, <1>4, <2>2, <2>4, <2>6
  <1>8. CASE r + 1 = VGA_HEIGHT
    <2>1. next_row(t) = [row |-> r, column |-> 0, cells |-> Scrolled(f), outside |-> o]
      <3>1. next_row(t) = [t EXCEPT !.column = 0, !.cells = Scrolled(f)]
        BY <1>2, <1>3, <1>8, Zenon DEF next_row, Scrolled
      <3>2. 0 \in 0 .. U16 - 1
        BY Words
      <3> QED
        BY <1>2, <1>3, <1>4, <3>1, <3>2, Scrolls, WithCells, Zenon DEF OnScreen
    <2>2. PICK g \in [Cell -> Character] : g = Scrolled(f)
      BY Scrolls
    <2>3. PICK p \in Nat : p = r * VGA_WIDTH /\ p < VGA_WIDTH * VGA_HEIGHT
      BY <1>6
    <2>4. 0 < VGA_WIDTH /\ p = r * VGA_WIDTH + 0
      BY <1>6, <2>3
    <2>5. OnScreen(next_row(t)) /\ Position(next_row(t)) = p
      BY <2>1, <2>2, <2>3, <2>4, Placed
    <2> QED
      BY <1>2, <1>3, <1>4, <1>6, <1>8, <2>1, <2>3, <2>5
  <1> QED
    BY <1>7, <1>8

LEMMA WithColumn ==
    ASSUME NEW t \in Screen, NEW c \in 0 .. U16 - 1
    PROVE  [t EXCEPT !.column = c]
              = [row |-> t.row, column |-> c, cells |-> t.cells, outside |-> t.outside]
  <1>1. PICK u : u = [t EXCEPT !.column = c]
    BY Zenon
  <1>2. u \in Screen
    BY <1>1 DEF Screen
  <1>3. u.row = t.row /\ u.column = c /\ u.cells = t.cells /\ u.outside = t.outside
    BY <1>1 DEF Screen
  <1>4. u = [row |-> u.row, column |-> u.column, cells |-> u.cells, outside |-> u.outside]
    BY <1>2 DEF Screen
  <1> QED
    BY <1>1, <1>3, <1>4

\* A character is written into the cell under the cursor and nowhere else.
LEMMA Writes ==
    ASSUME NEW t, OnScreen(t), NEW c \in Character
    PROVE  LET u == terminal_putchar_at(t, c, t.column, t.row)
           IN  /\ OnScreen(u) /\ Position(u) = Position(t)
               /\ u.row = t.row /\ u.column = t.column /\ u.outside = t.outside
               /\ u.cells = [t.cells EXCEPT ![Position(t)] = c]
  <1>1. PICK p \in Cell : p = Position(t)
    BY DEF OnScreen
  <1>2. PICK u : u = terminal_putchar_at(t, c, t.column, t.row)
    OBVIOUS
  <1>3. u = [t EXCEPT !.cells[p] = c]
    BY <1>1, <1>2, Where DEF terminal_putchar_at
  <1>4. /\ u \in Screen /\ u.row = t.row /\ u.column = t.column /\ u.outside = t.outside
        /\ u.cells = [t.cells EXCEPT ![p] = c]
    BY <1>3 DEF OnScreen, Screen
  <1>5. Position(u) = Position(t)
    BY <1>4, Zenon DEF Position, Column
  <1>6. OnScreen(u)
    BY <1>1, <1>4, <1>5 DEF OnScreen
  <1> QED
    BY <1>1, <1>2, <1>4, <1>5, <1>6

\* The cursor moves on by one cell, and off the last row the screen scrolls.
LEMMA Puts1 ==
    ASSUME NEW t, OnScreen(t), NEW c \in Character, c # NL,
           NEW u, u = terminal_putchar(t, c), NEW f, f = [t.cells EXCEPT ![Position(t)] = c]
    PROVE  /\ OnScreen(u) /\ u.outside = t.outside
           /\ \/ Position(u) = Position(t) + 1 /\ u.cells = f
              \/ /\ Position(t) + 1 = VGA_WIDTH * VGA_HEIGHT
                 /\ Position(u) + VGA_WIDTH = VGA_WIDTH * VGA_HEIGHT
                 /\ u.cells = Scrolled(f)
  <1>1. PICK v : v = terminal_putchar_at(t, c, t.column, t.row)
    OBVIOUS
  <1>2. /\ OnScreen(v) /\ Position(v) = Position(t) /\ v.row = t.row /\ v.column = t.column
        /\ v.outside = t.outside /\ v.cells = f
    BY <1>1, Writes
  <1>3. PICK k \in 0 .. U16 - 1 : k = t.column
    BY Where
  <1>4. PICK n : n = (k + 1) % U16
    OBVIOUS
  <1>5. u = IF n = VGA_WIDTH THEN next_row(v) ELSE [v EXCEPT !.column = n]
    BY <1>1, <1>3, <1>4, Zenon DEF terminal_putchar
  <1>6. n \in 0 .. U16 - 1 /\ (n = k + 1 \/ (n = 0 /\ k + 1 = U16))
    <2>1. PICK j \in Nat : j = k /\ j < U16
      BY Words
    <2> QED
      BY <1>4, <2>1, Wraps
  <1>7. PICK r \in 0 .. VGA_HEIGHT - 1 : r = t.row
    BY Where
  <1>8. PICK m \in Nat : m = r * VGA_WIDTH
    BY Rows
  <1>9. PICK a \in Nat : a = VGA_WIDTH * VGA_HEIGHT
    BY Rows
  <1>10. PICK w \in Nat \ {0} : w = VGA_WIDTH
    BY Rows
  <1>11. a + w <= U16 /\ m + w <= a
    BY <1>8, <1>9, <1>10, Rows
  <1>12. PICK p \in Nat : p = Position(t) /\ p < a
    BY <1>9, Where
  <1>13. \/ k < w /\ p = m + k
         \/ k > w /\ k + a > U16 /\ p = m + k - U16
    BY <1>3, <1>7, <1>8, <1>9, <1>10, <1>12, Where
  <1>14. CASE n = w
    <2>1. u = next_row(v)
      BY <1>5, <1>10, <1>14
    <2>2. p + 1 = m + w
      BY <1>6, <1>10, <1>11, <1>13, <1>14, Words
    <2>3. m + w <= a
      BY <1>11
    <2>4. /\ OnScreen(u) /\ u.outside = t.outside
          /\ \/ u.cells = f /\ Position(u) = m + w
             \/ u.cells = Scrolled(f) /\ Position(u) = m /\ m + w = a
      BY <1>2, <1>7, <1>8, <1>9, <1>10, <2>1, Newline
    <2> QED
      BY <1>8, <1>9, <1>10, <1>12, <2>2, <2>4
  <1>15. CASE n # w
    <2>1. u = [row |-> r, column |-> n, cells |-> v.cells, outside |-> v.outside]
      BY <1>2, <1>5, <1>6, <1>7, <1>10, <1>15, WithColumn DEF OnScreen
    <2>2. /\ n \in Nat /\ n < U16 /\ p + 1 < a
          /\ \/ n < w /\ p + 1 = m + n
             \/ n > w /\ p + 1 = m + n - U16
      BY <1>6, <1>10, <1>11, <1>12, <1>13, <1>15, Words
    <2>3. v.cells \in [Cell -> Character] /\ v.outside \in BOOLEAN
      BY <1>2, Fields, Zenon
    <2>4. p + 1 \in Nat
      OBVIOUS
    <2>5. OnScreen(u) /\ Position(u) = p + 1
      BY <1>8, <1>9, <1>10, <2>1, <2>2, <2>3, <2>4, Placed
    <2> QED
      BY <1>2, <1>12, <2>1, <2>5
  <1> QED
    BY <1>14, <1>15

\* One character more is shown, also when the screen scrolls.
LEMMA ShowsMore ==
    ASSUME NEW t, OnScreen(t), NEW z, NEW n \in Nat, Shows(t, z, n),
           NEW c \in Character, c # NL, c = z[n + 1], n + 1 + VGA_WIDTH <= VGA_WIDTH * VGA_HEIGHT
    PROVE  Shows(terminal_putchar(t, c), z, n + 1)
  <1>1. PICK u : u = terminal_putchar(t, c)
    OBVIOUS
  <1>2. PICK f : f = [t.cells EXCEPT ![Position(t)] = c]
    BY Zenon
  <1>3. PICK p \in Nat : p = Position(t) /\ p < VGA_WIDTH * VGA_HEIGHT /\ p \in Cell
    BY Where DEF OnScreen
  <1>4. /\ OnScreen(u)
        /\ \/ Position(u) = p + 1 /\ u.cells = f
           \/ /\ p + 1 = VGA_WIDTH * VGA_HEIGHT
              /\ Position(u) + VGA_WIDTH = VGA_WIDTH * VGA_HEIGHT /\ u.cells = Scrolled(f)
    BY <1>1, <1>2, <1>3, Puts1
  <1>5. n <= p /\ \A i \in 1 .. n : t.cells[p - i] = z[n + 1 - i]
    BY <1>3 DEF Shows
  <1>6. ASSUME NEW i \in 1 .. n + 1 PROVE p + 1 - i \in Cell /\ f[p + 1 - i] = z[n + 2 - i]
    <2>1. p + 1 - i \in Cell /\ p + 1 - i \in Nat
      BY <1>3, <1>5, CellFacts, ScreenSize
    <2>2. CASE i = 1
      <3>1. p + 1 - i = p /\ n + 2 - i = n + 1
        BY <2>2
      <3>2. f[p] = c
        BY <1>2, <1>3, Fields
      <3> QED
        BY <2>1, <3>1, <3>2
    <2>3. CASE i # 1
      <3>1. PICK j \in 1 .. n : i = j + 1
        <4>1. i - 1 \in 1 .. n /\ i = (i - 1) + 1
          BY <2>3
        <4> QED
          BY <4>1, Zenon
      <3>2. p + 1 - i = p - j /\ n + 2 - i = n + 1 - j /\ p - j # p
        BY <3>1
      <3>3. f[p - j] = t.cells[p - j]
        BY <1>2, <1>3, <2>1, <3>2, Fields
      <3> QED
        BY <1>5, <2>1, <3>2, <3>3
    <2> QED
      BY <2>2, <2>3
  <1>7. CASE Position(u) = p + 1 /\ u.cells = f
    <2>1. n + 1 <= p + 1 /\ \A i \in 1 .. n + 1 : (n + 1) + 1 - i = n + 2 - i
      BY <1>5
    <2> QED
      BY <1>1, <1>6, <1>7, <2>1 DEF Shows
  <1>8. ASSUME p + 1 = VGA_WIDTH * VGA_HEIGHT,
               Position(u) + VGA_WIDTH = VGA_WIDTH * VGA_HEIGHT, u.cells = Scrolled(f)
        PROVE  Shows(u, z, n + 1)
    <2>1. PICK q \in Nat : q = Position(u)
      BY <1>4, Where
    <2>2. VGA_WIDTH \in Nat \ {0} /\ q + VGA_WIDTH = p + 1 /\ n + 1 <= q
      BY <1>8, <2>1, ScreenSize
    <2>3. ASSUME NEW i \in 1 .. n + 1 PROVE u.cells[q - i] = z[(n + 1) + 1 - i]
      <3>1. q - i \in Nat /\ q - i < p + 1 /\ (q - i) + VGA_WIDTH = p + 1 - i /\ (n + 1) + 1 - i = n + 2 - i
        BY <2>2
      <3>2. q - i \in Cell
        BY <1>8, <3>1, CellFacts
      <3>3. Scrolled(f)[q - i] = f[p + 1 - i]
        BY <1>6, <3>1, <3>2 DEF Scrolled
      <3> QED
        BY <1>6, <1>8, <3>1, <3>3
    <2> QED
      BY <2>1, <2>2, <2>3 DEF Shows
  <1> QED
    BY <1>1, <1>4, <1>7, <1>8

\* The screens that printing s on t goes through.
IsPrinting(t, s, n, g) ==
    g = [i \in 0 .. n |-> IF i = 0 THEN t ELSE terminal_putchar(g[i - 1], s[i])]

LEMMA PrintingExists ==
    ASSUME NEW t, NEW s
    PROVE  \A n \in Nat : \E g : IsPrinting(t, s, n, g)
  <1> DEFINE T == {n \in Nat : \E g : IsPrinting(t, s, n, g)}
  <1>1. 0 \in T
    <2>1. PICK g : g = [i \in 0 .. 0 |-> t]
      BY Zenon
    <2>2. \A i \in 0 .. 0 : i = 0
      OBVIOUS
    <2>3. IsPrinting(t, s, 0, g)
      BY <2>1, <2>2 DEF IsPrinting
    <2> QED
      BY <2>3
  <1>2. ASSUME NEW n \in Nat, n \in T PROVE n + 1 \in T
    <2>1. PICK f : IsPrinting(t, s, n, f)
      BY <1>2
    <2>2. PICK g : g = [i \in 0 .. n + 1 |-> IF i = n + 1 THEN terminal_putchar(f[n], s[n + 1]) ELSE f[i]]
      BY Zenon
    <2>3. \A i \in 0 .. n : f[i] = IF i = 0 THEN t ELSE terminal_putchar(f[i - 1], s[i])
      BY <2>1, Zenon DEF IsPrinting
    <2>4. (\A i \in 0 .. n : g[i] = f[i]) /\ g[n + 1] = terminal_putchar(f[n], s[n + 1])
      BY <2>2
    <2>5. ASSUME NEW i \in 0 .. n + 1
          PROVE  g[i] = IF i = 0 THEN t ELSE terminal_putchar(g[i - 1], s[i])
      <3>1. CASE i = n + 1
        <4>1. i # 0 /\ i - 1 = n /\ n \in 0 .. n
          BY <3>1
        <4> QED
          BY <2>4, <3>1, <4>1
      <3>2. CASE i \in 1 .. n
        <4>1. i \in 0 .. n /\ i - 1 \in 0 .. n /\ i # 0
          BY <3>2
        <4> QED
          BY <2>3, <2>4, <4>1
      <3>3. CASE i = 0
        <4>1. 0 \in 0 .. n
          OBVIOUS
        <4> QED
          BY <2>3, <2>4, <3>3, <4>1
      <3> QED
        BY <3>1, <3>2, <3>3
    <2>6. g = [i \in 0 .. n + 1 |-> g[i]]
      BY <2>2
    <2>7. IsPrinting(t, s, n + 1, g)
      BY <2>5, <2>6, Zenon DEF IsPrinting
    <2> QED
      BY <2>7
  <1> HIDE DEF T
  <1>3. \A n \in Nat : n \in T
    BY <1>1, <1>2, Induct, Zenon
  <1> QED
    BY <1>3 DEF T

Prints(t, s, g) ==
    /\ g[0] = t /\ puts(t, s) = g[Len(s)]
    /\ \A i \in 1 .. Len(s) : g[i] = terminal_putchar(g[i - 1], s[i])

LEMMA Printing ==
    ASSUME NEW t, NEW s, Len(s) \in Nat
    PROVE  \E g : Prints(t, s, g)
  <1> DEFINE g == CHOOSE h : h = [i \in 0 .. Len(s) |->
                                     IF i = 0 THEN t ELSE terminal_putchar(h[i - 1], s[i])]
  <1>1. puts(t, s) = g[Len(s)]
    BY Zenon DEF puts
  <1>2. \E h : IsPrinting(t, s, Len(s), h)
    BY PrintingExists, Zenon
  <1>3. IsPrinting(t, s, Len(s), g)
    <2>1. \E h : h = [i \in 0 .. Len(s) |-> IF i = 0 THEN t ELSE terminal_putchar(h[i - 1], s[i])]
      BY <1>2, Zenon DEF IsPrinting
    <2>2. g = [i \in 0 .. Len(s) |-> IF i = 0 THEN t ELSE terminal_putchar(g[i - 1], s[i])]
      BY <2>1, Zenon
    <2> QED
      BY <2>2, Zenon DEF IsPrinting
  <1> HIDE DEF g
  <1>4. \A i \in 0 .. Len(s) : g[i] = IF i = 0 THEN t ELSE terminal_putchar(g[i - 1], s[i])
    BY <1>3, Zenon DEF IsPrinting
  <1>5. 0 \in 0 .. Len(s) /\ \A i \in 1 .. Len(s) : i \in 0 .. Len(s) /\ i # 0
    OBVIOUS
  <1>6. g[0] = t /\ \A i \in 1 .. Len(s) : g[i] = terminal_putchar(g[i - 1], s[i])
    BY <1>4, <1>5, Zenon
  <1> QED
    BY <1>1, <1>6, Zenon DEF Prints

\* Whatever is printed, the cursor stays on the screen and nothing is written
\* outside.
LEMMA PutOn ==
    ASSUME NEW t, OnScreen(t), NEW c \in Character
    PROVE  OnScreen(terminal_putchar(t, c)) /\ terminal_putchar(t, c).outside = t.outside
  <1>1. CASE c = NL
    BY <1>1, Newline, Zenon DEF terminal_putchar
  <1>2. CASE c # NL
    BY <1>2, Puts1, Zenon
  <1> QED
    BY <1>1, <1>2

LEMMA PutsOn ==
    ASSUME NEW t, OnScreen(t), NEW s \in Seq(Character)
    PROVE  OnScreen(puts(t, s)) /\ puts(t, s).outside = t.outside
  <1>1. PICK n \in Nat : n = Len(s)
    OBVIOUS
  <1>2. PICK g : /\ g[0] = t /\ puts(t, s) = g[n]
                 /\ \A i \in 1 .. n : g[i] = terminal_putchar(g[i - 1], s[i])
    <2>1. PICK g : Prints(t, s, g)
      BY <1>1, Printing, Zenon
    <2> QED
      BY <1>1, <2>1, Zenon DEF Prints
  <1> DEFINE Good(i) == OnScreen(g[i]) /\ g[i].outside = t.outside
             T == {i \in Nat : i <= n => Good(i)}
  <1>3. 0 \in T
    BY <1>2
  <1>4. ASSUME NEW i \in Nat, i \in T PROVE i + 1 \in T
    <2>1. SUFFICES ASSUME i + 1 <= n PROVE Good(i + 1)
      OBVIOUS
    <2>2. Good(i)
      BY <1>4, <2>1
    <2>3. i + 1 \in 1 .. n /\ (i + 1) - 1 = i
      BY <2>1
    <2>4. g[i + 1] = terminal_putchar(g[i], s[i + 1])
      BY <1>2, <2>3
    <2>5. s[i + 1] \in Character
      BY <1>1, <2>3
    <2> QED
      BY <2>2, <2>4, <2>5, PutOn
  <1> HIDE DEF T
  <1>5. \A i \in Nat : i \in T
    BY <1>3, <1>4, Induct, Zenon
  <1>6. Good(n)
    BY <1>5 DEF T
  <1> QED
    BY <1>2, <1>6

LEMMA PutsShow ==
    ASSUME NEW t, OnScreen(t), NEW z, NEW n \in Nat, Shows(t, z, n),
           NEW s \in Seq(Character), \A j \in 1 .. Len(s) : s[j] # NL /\ s[j] = z[n + j],
           n + Len(s) + VGA_WIDTH <= VGA_WIDTH * VGA_HEIGHT
    PROVE  Shows(puts(t, s), z, n + Len(s))
  <1>1. PICK k \in Nat : k = Len(s)
    OBVIOUS
  <1>2. PICK g : /\ g[0] = t /\ puts(t, s) = g[k]
                 /\ \A i \in 1 .. k : g[i] = terminal_putchar(g[i - 1], s[i])
    <2>1. PICK g : Prints(t, s, g)
      BY <1>1, Printing
    <2> QED
      BY <1>1, <2>1, Zenon DEF Prints
  <1> DEFINE Good(i) == OnScreen(g[i]) /\ Shows(g[i], z, n + i)
             T == {i \in Nat : i <= k => Good(i)}
  <1>3. 0 \in T
    BY <1>2
  <1>4. ASSUME NEW i \in Nat, i \in T PROVE i + 1 \in T
    <2>1. SUFFICES ASSUME i + 1 <= k PROVE Good(i + 1)
      OBVIOUS
    <2>2. Good(i)
      BY <1>4, <2>1
    <2>3. i + 1 \in 1 .. k /\ (i + 1) - 1 = i /\ n + (i + 1) = (n + i) + 1 /\ n + i \in Nat
      BY <2>1
    <2>4. g[i + 1] = terminal_putchar(g[i], s[i + 1])
      BY <1>2, <2>3
    <2>5. s[i + 1] \in Character /\ s[i + 1] # NL /\ s[i + 1] = z[(n + i) + 1]
      BY <1>1, <2>3
    <2>6. (n + i) + 1 + VGA_WIDTH <= VGA_WIDTH * VGA_HEIGHT
      BY <1>1, <2>1, ScreenSize
    <2>7. Shows(g[i + 1], z, (n + i) + 1)
      BY <2>2, <2>3, <2>4, <2>5, <2>6, ShowsMore
    <2> QED
      BY <2>2, <2>3, <2>4, <2>5, <2>7, PutOn
  <1> HIDE DEF T
  <1>5. \A i \in Nat : i \in T
    BY <1>3, <1>4, Induct, Zenon
  <1>6. Good(k)
    BY <1>5 DEF T
  <1> QED
    BY <1>1, <1>2, <1>6

\* The prompt, and the line after it, on any screen.
LEMMA TextFacts ==
    /\ PROMPT \in Seq(Character) /\ Len(PROMPT) \in Nat /\ LineCharacter \subseteq Character
    /\ \A j \in 1 .. Len(PROMPT) : PROMPT[j] # NL
    /\ \A c \in LineCharacter : c # NL
    /\ MaxInput \in Nat /\ Len(PROMPT) + MaxInput + VGA_WIDTH <= VGA_WIDTH * VGA_HEIGHT
  <1>1. PROMPT \in Seq(Character) /\ Len(PROMPT) \in Nat
    BY Texts
  <1>2. LineCharacter \subseteq Character
    BY Zenon DEF Character
  <1>3. \A j \in 1 .. Len(PROMPT) : PROMPT[j] \in Range(PROMPT)
    BY <1>1 DEF Range
  <1>4. NL \notin Range(PROMPT) /\ NL \notin LineCharacter
    BY Texts, Zenon
  <1>5. \A j \in 1 .. Len(PROMPT) : PROMPT[j] # NL
    BY <1>3, <1>4, Zenon
  <1>6. \A c \in LineCharacter : c # NL
    BY <1>4, Zenon
  <1> QED
    BY <1>1, <1>2, <1>5, <1>6, Texts, ScreenHoldsLine, Zenon

LEMMA LineIsText ==
    ASSUME NEW l \in Seq(LineCharacter)
    PROVE  /\ l \in Seq(Character) /\ Len(l) \in Nat
           /\ \A j \in 1 .. Len(l) : l[j] \in LineCharacter /\ l[j] # NL
  <1>1. \A j \in 1 .. Len(l) : l[j] \in LineCharacter
    OBVIOUS
  <1>2. l \in Seq(Character)
    BY TextFacts
  <1> QED
    BY <1>1, <1>2, TextFacts

LEMMA PromptOn ==
    ASSUME NEW t, OnScreen(t)
    PROVE  OnScreen(print_prompt(t)) /\ print_prompt(t).outside = t.outside
  BY PutsOn, TextFacts, Zenon DEF print_prompt

LEMMA PromptShown ==
    ASSUME NEW t, OnScreen(t), NEW l \in Seq(LineCharacter), Len(l) <= MaxInput
    PROVE  Shows(print_prompt(t), PROMPT \o l, Len(PROMPT))
  <1>1. PICK z : z = PROMPT \o l
    BY Zenon
  <1>2. l \in Seq(Character) /\ Len(l) \in Nat
    BY LineIsText, Zenon
  <1>3. \A j \in 1 .. Len(PROMPT) : PROMPT[j] # NL /\ PROMPT[j] = z[0 + j]
    <2>1. \A j \in 1 .. Len(PROMPT) : z[j] = PROMPT[j]
      BY <1>1, <1>2, ConcatFacts, TextFacts
    <2>2. \A j \in 1 .. Len(PROMPT) : 0 + j = j
      BY TextFacts
    <2> QED
      BY <2>1, <2>2, TextFacts, Zenon
  <1>4. Shows(t, z, 0)
    BY Where DEF Shows
  <1>5. 0 + Len(PROMPT) + VGA_WIDTH <= VGA_WIDTH * VGA_HEIGHT /\ 0 + Len(PROMPT) = Len(PROMPT)
    BY TextFacts, ScreenSize
  <1>6. Shows(puts(t, PROMPT), z, 0 + Len(PROMPT))
    BY <1>3, <1>4, <1>5, PutsShow, TextFacts
  <1> QED
    BY <1>1, <1>5, <1>6, Zenon DEF print_prompt

LEMMA LineShown ==
    ASSUME NEW t, OnScreen(t), NEW l \in Seq(LineCharacter), Len(l) <= MaxInput
    PROVE  Shows(puts(print_prompt(t), l), PROMPT \o l, Len(PROMPT) + Len(l))
  <1>1. PICK z : z = PROMPT \o l
    BY Zenon
  <1>2. /\ l \in Seq(Character) /\ Len(l) \in Nat
        /\ \A j \in 1 .. Len(l) : l[j] # NL
    BY LineIsText, Zenon
  <1>3. \A j \in 1 .. Len(l) : l[j] = z[Len(PROMPT) + j]
    BY <1>1, <1>2, ConcatFacts, TextFacts
  <1>4. Shows(print_prompt(t), z, Len(PROMPT)) /\ OnScreen(print_prompt(t))
    BY <1>1, PromptShown, PromptOn, Zenon
  <1>5. Len(PROMPT) + Len(l) + VGA_WIDTH <= VGA_WIDTH * VGA_HEIGHT
    BY <1>2, TextFacts, ScreenSize
  <1>6. Shows(puts(print_prompt(t), l), z, Len(PROMPT) + Len(l))
    BY <1>2, <1>3, <1>4, <1>5, PutsShow, TextFacts
  <1> QED
    BY <1>1, <1>6

\* A prompt without a line.
LEMMA EmptyShown ==
    ASSUME NEW t, OnScreen(t)
    PROVE  Shows(print_prompt(t), PROMPT \o <<>>, Len(PROMPT) + Len(<<>>))
  <1>1. <<>> \in Seq(LineCharacter) /\ Len(<<>>) = 0
    BY EmptyFacts
  <1>2. Len(<<>>) <= MaxInput /\ Len(PROMPT) + Len(<<>>) = Len(PROMPT)
    BY <1>1, TextFacts
  <1>3. Shows(print_prompt(t), PROMPT \o <<>>, Len(PROMPT))
    BY <1>1, <1>2, PromptShown, Zenon
  <1> QED
    BY <1>2, <1>3, Zenon

LEMMA Start ==
    OnScreen(terminal_initialize) /\ ~terminal_initialize.outside
  <1>1. [i \in Cell |-> Blank] \in [Cell -> Character]
    BY Zenon DEF Character
  <1>2. VGA_WIDTH \in Nat \ {0} /\ VGA_HEIGHT \in Nat \ {0} /\ 0 \in 0 .. VGA_HEIGHT - 1
    BY ScreenSize
  <1>3. 0 * VGA_WIDTH + VGA_WIDTH <= VGA_WIDTH * VGA_HEIGHT /\ VGA_WIDTH * VGA_HEIGHT \in Nat
    BY <1>2, Rows
  <1>4. 0 < VGA_WIDTH * VGA_HEIGHT /\ 0 = 0 * VGA_WIDTH + 0 /\ 0 < VGA_WIDTH
    BY <1>2, <1>3
  <1> QED
    BY <1>1, <1>2, <1>4, Placed, Zenon DEF terminal_initialize

\* Backspace: the cursor goes back by one cell, over the start of a row too.
LEMMA Erased ==
    ASSUME NEW t, OnScreen(t), NEW z, NEW n \in Nat, Shows(t, z, n + 1),
           NEW u, u = terminal_putchar_at(erase(t), Blank, erase(t).column, erase(t).row)
    PROVE  OnScreen(u) /\ u.outside = t.outside /\ Shows(u, z, n)
  <1>1. PICK j \in Nat : j = t.column /\ j < U16
    <2>1. PICK k \in 0 .. U16 - 1 : k = t.column
      BY Where
    <2>2. k \in Nat /\ k < U16
      BY Words
    <2> QED
      BY <2>1, <2>2, Zenon
  <1>2. PICK r \in 0 .. VGA_HEIGHT - 1 : r = t.row
    BY Where
  <1>3. PICK m \in Nat : m = r * VGA_WIDTH
    BY Rows
  <1>4. PICK a \in Nat : a = VGA_WIDTH * VGA_HEIGHT
    BY Rows
  <1>5. PICK w \in Nat \ {0} : w = VGA_WIDTH
    BY Rows
  <1>6. a + w <= U16 /\ m + w <= a
    BY <1>3, <1>4, <1>5, Rows
  <1>7. PICK p \in Nat : p = Position(t) /\ p < a
    BY <1>4, Where
  <1>8. n + 1 <= p /\ \A i \in 1 .. n + 1 : t.cells[p - i] = z[(n + 1) + 1 - i]
    BY <1>7 DEF Shows
  <1>9. \/ j < w /\ p = m + j
        \/ j > w /\ j + a > U16 /\ p = m + j - U16
    BY <1>1, <1>2, <1>3, <1>4, <1>5, <1>7, Where
  <1>10. PICK k \in 0 .. U16 - 1 : k = (j - 1) % U16 /\ k = IF j = 0 THEN U16 - 1 ELSE j - 1
    BY <1>1, Wraps
  <1>11. PICK v : v = erase(t)
    OBVIOUS
  <1>12. v = [row |-> r, column |-> k, cells |-> t.cells, outside |-> t.outside]
    BY <1>1, <1>2, <1>10, <1>11, WithColumn DEF erase, OnScreen
  <1>13. PICK q \in Nat : q = p - 1 /\ q < a
    BY <1>7, <1>8
  <1>14. /\ k \in Nat
         /\ \/ k < w /\ q = m + k
            \/ k > w /\ k < U16 /\ q = m + k - U16
    BY <1>6, <1>8, <1>9, <1>10, <1>13, Words
  <1>15. OnScreen(v) /\ Position(v) = q
    BY <1>3, <1>4, <1>5, <1>12, <1>13, <1>14, Fields, Placed
  <1>16. Blank \in Character
    BY DEF Character
  <1>17. /\ OnScreen(u) /\ Position(u) = q /\ u.outside = t.outside
         /\ u.cells = [t.cells EXCEPT ![q] = Blank]
    <2>1. v.cells = t.cells /\ v.outside = t.outside
      BY <1>12
    <2> QED
      BY <1>11, <1>15, <1>16, <2>1, Writes
  <1>18. ASSUME NEW i \in 1 .. n PROVE u.cells[q - i] = z[n + 1 - i]
    <2>1. i + 1 \in 1 .. n + 1 /\ p - (i + 1) = q - i /\ (n + 1) + 1 - (i + 1) = n + 1 - i /\ q - i # q
      BY <1>13
    <2>2. q - i \in Cell
      BY <1>4, <1>8, <1>13, CellFacts
    <2>3. u.cells[q - i] = t.cells[q - i]
      BY <1>17, <2>1, <2>2, Fields
    <2> QED
      BY <1>8, <2>1, <2>3
  <1>19. n <= q
    BY <1>8, <1>13
  <1> QED
    BY <1>17, <1>18, <1>19 DEF Shows

\* The start of a completion.
LEMMA RowCleared ==
    ASSUME NEW t, OnScreen(t)
    PROVE  OnScreen(clear_row(t))
  <1>1. CR \in Character /\ Blank \in Character /\ CR # NL
    BY Texts DEF Character
  <1>2. PICK v : v = terminal_putchar(t, CR)
    OBVIOUS
  <1>3. OnScreen(v)
    BY <1>1, <1>2, PutOn
  <1>4. CASE v.column > VGA_WIDTH
    <2>1. PICK u : u = [v EXCEPT !.outside = TRUE]
      BY Zenon
    <2>2. u \in Screen /\ u.row = v.row /\ u.column = v.column
      BY <1>3, <2>1, Zenon DEF OnScreen, Screen
    <2>3. Position(u) = Position(v)
      BY <2>2, Zenon DEF Position, Column
    <2>4. OnScreen(u)
      BY <1>3, <2>2, <2>3, Zenon DEF OnScreen
    <2> QED
      BY <1>2, <1>4, <2>1, <2>4, Zenon DEF clear_row
  <1>5. CASE ~(v.column > VGA_WIDTH)
    <2>1. PICK g : g = [i \in Cell |-> IF i \in index(0, v.row) .. cursor(v) - 1 THEN Blank ELSE v.cells[i]]
      BY Zenon
    <2>2. g \in [Cell -> Character]
      BY <1>1, <1>3, <2>1, Fields
    <2>3. clear_row(t) = [v EXCEPT !.column = 0, !.cells = g]
      BY <1>2, <1>5, <2>1, Zenon DEF clear_row
    <2>4. 0 \in 0 .. U16 - 1
      BY Words
    <2>5. clear_row(t) = [row |-> v.row, column |-> 0, cells |-> g, outside |-> v.outside]
      BY <1>3, <2>2, <2>3, <2>4, WithCells, Zenon DEF OnScreen
    <2>6. PICK r \in 0 .. VGA_HEIGHT - 1 : r = v.row
      BY <1>3, Where
    <2>7. PICK p \in Nat : p = r * VGA_WIDTH
      BY Rows
    <2>8. p < VGA_WIDTH * VGA_HEIGHT /\ 0 < VGA_WIDTH /\ p = r * VGA_WIDTH + 0
      BY <2>7, Rows
    <2> QED
      BY <1>3, <2>2, <2>5, <2>6, <2>8, Fields, Placed
  <1> QED
    BY <1>4, <1>5
-----------------------------------------------------------------------------
LEMMA MaxFacts ==
    ASSUME NEW n \in Nat, NEW S \in SUBSET (0 .. n), S # {}
    PROVE  Max(S) \in S
  <1>1. {n - x : x \in S} \in SUBSET Nat /\ {n - x : x \in S} # {}
    <2>1. \A x \in S : n - x \in Nat
      OBVIOUS
    <2> QED
      BY <2>1, Zenon
  <1>2. PICK z \in {n - x : x \in S} : \A y \in {n - x : x \in S} : z <= y
    BY <1>1, LeastNat, Zenon
  <1>3. PICK x \in S : z = n - x
    OBVIOUS
  <1>4. \A y \in S : x >= y
    BY <1>2, <1>3
  <1> QED
    BY <1>4, Zenon DEF Max

LEMMA KeptIsLine ==
    ASSUME input_buffer \in Seq(LineCharacter)
    PROVE  kept \in Seq(LineCharacter)
  <1>1. PICK n \in Nat : n = input_pos
    BY DEF input_pos
  <1>2. PICK S : S = {0} \cup {i \in 1 .. n : input_buffer[i] = Blank}
    BY Zenon
  <1>3. S \in SUBSET (0 .. n) /\ S # {}
    BY <1>2
  <1>4. PICK k \in 0 .. n : k = Max(S)
    BY <1>3, MaxFacts, Zenon
  <1>5. kept = SubSeq(input_buffer, 1, k)
    BY <1>1, <1>2, <1>4, Zenon DEF kept
  <1> QED
    BY <1>1, <1>4, <1>5, SubSeqFacts DEF input_pos

\* The matches found among the first n entries.
IsFound(n, g) ==
    g = [i \in 0 .. n |-> IF i = 0 THEN <<>>
                          ELSE IF Len(g[i - 1]) < MaxMatches /\ matches_word(i)
                          THEN Append(g[i - 1], Entries[i]) ELSE g[i - 1]]

NextFound(f, i) ==
    IF Len(f) < MaxMatches /\ matches_word(i) THEN Append(f, Entries[i]) ELSE f

LEMMA FoundExists == \A n \in Nat : \E g : IsFound(n, g)
  <1> DEFINE T == {n \in Nat : \E g : IsFound(n, g)}
  <1>1. 0 \in T
    <2>1. PICK g : g = [i \in 0 .. 0 |-> <<>>]
      BY Zenon
    <2>2. \A i \in 0 .. 0 : i = 0
      OBVIOUS
    <2>3. IsFound(0, g)
      BY <2>1, <2>2 DEF IsFound
    <2> QED
      BY <2>3
  <1>2. ASSUME NEW n \in Nat, n \in T PROVE n + 1 \in T
    <2>1. PICK f : IsFound(n, f)
      BY <1>2
    <2>2. PICK g : g = [i \in 0 .. n + 1 |-> IF i = n + 1 THEN NextFound(f[n], n + 1) ELSE f[i]]
      BY Zenon
    <2>3. \A i \in 0 .. n : f[i] = IF i = 0 THEN <<>> ELSE NextFound(f[i - 1], i)
      BY <2>1, Zenon DEF IsFound, NextFound
    <2>4. (\A i \in 0 .. n : g[i] = f[i]) /\ g[n + 1] = NextFound(f[n], n + 1)
      BY <2>2
    <2>5. ASSUME NEW i \in 0 .. n + 1
          PROVE  g[i] = IF i = 0 THEN <<>> ELSE NextFound(g[i - 1], i)
      <3>1. CASE i = n + 1
        <4>1. i # 0 /\ i - 1 = n /\ n \in 0 .. n
          BY <3>1
        <4> QED
          BY <2>4, <3>1, <4>1
      <3>2. CASE i \in 1 .. n
        <4>1. i \in 0 .. n /\ i - 1 \in 0 .. n /\ i # 0
          BY <3>2
        <4> QED
          BY <2>3, <2>4, <4>1
      <3>3. CASE i = 0
        <4>1. 0 \in 0 .. n
          OBVIOUS
        <4> QED
          BY <2>3, <2>4, <3>3, <4>1
      <3> QED
        BY <3>1, <3>2, <3>3
    <2>6. g = [i \in 0 .. n + 1 |-> g[i]]
      BY <2>2
    <2>7. g = [i \in 0 .. n + 1 |-> IF i = 0 THEN <<>> ELSE NextFound(g[i - 1], i)]
      BY <2>5, <2>6
    <2>8. IsFound(n + 1, g)
      BY <2>7, Zenon DEF IsFound, NextFound
    <2> QED
      BY <2>8
  <1> HIDE DEF T
  <1>3. \A n \in Nat : n \in T
    BY <1>1, <1>2, Induct, Zenon
  <1> QED
    BY <1>3 DEF T

\* What completion finds are entries, and not more than it has room for.
LEMMA MatchFacts ==
    find_matches \in Seq(Seq(LineCharacter)) /\ Len(find_matches) <= MaxMatches
  <1>1. PICK n \in Nat : n = Len(Entries)
    BY Texts
  <1> DEFINE g == CHOOSE h : h = [i \in 0 .. Len(Entries) |->
                        IF i = 0 THEN <<>>
                        ELSE IF Len(h[i - 1]) < MaxMatches /\ matches_word(i)
                        THEN Append(h[i - 1], Entries[i]) ELSE h[i - 1]]
  <1>2. find_matches = g[n]
    BY <1>1, Zenon DEF find_matches
  <1>3. IsFound(n, g)
    <2>1. \E h : IsFound(n, h)
      BY FoundExists, Zenon
    <2>2. \E h : h = [i \in 0 .. Len(Entries) |->
                        IF i = 0 THEN <<>>
                        ELSE IF Len(h[i - 1]) < MaxMatches /\ matches_word(i)
                        THEN Append(h[i - 1], Entries[i]) ELSE h[i - 1]]
      BY <1>1, <2>1, Zenon DEF IsFound
    <2>3. g = [i \in 0 .. Len(Entries) |->
                        IF i = 0 THEN <<>>
                        ELSE IF Len(g[i - 1]) < MaxMatches /\ matches_word(i)
                        THEN Append(g[i - 1], Entries[i]) ELSE g[i - 1]]
      BY <2>2, Zenon
    <2> QED
      BY <1>1, <2>3, Zenon DEF IsFound
  <1> HIDE DEF g
  <1>4. \A i \in 0 .. n : g[i] = IF i = 0 THEN <<>> ELSE NextFound(g[i - 1], i)
    BY <1>3, Zenon DEF IsFound, NextFound
  <1> DEFINE Good(i) == g[i] \in Seq(Seq(LineCharacter)) /\ Len(g[i]) <= MaxMatches
             T == {i \in Nat : i <= n => Good(i)}
  <1>5. 0 \in T
    <2>1. 0 \in 0 .. n
      OBVIOUS
    <2>2. g[0] = <<>>
      BY <1>4, <2>1
    <2>3. <<>> \in Seq(Seq(LineCharacter)) /\ Len(<<>>) = 0
      BY EmptyFacts, Zenon
    <2>4. 0 <= MaxMatches
      BY Texts
    <2>5. Good(0)
      BY <2>2, <2>3, <2>4, Zenon
    <2> QED
      BY <2>5
  <1>6. ASSUME NEW i \in Nat, i \in T PROVE i + 1 \in T
    <2>1. SUFFICES ASSUME i + 1 <= n PROVE Good(i + 1)
      OBVIOUS
    <2>2. Good(i)
      BY <1>6, <2>1
    <2>3. i + 1 \in 0 .. n /\ i + 1 # 0 /\ (i + 1) - 1 = i
      BY <2>1
    <2>4. g[i + 1] = NextFound(g[i], i + 1)
      BY <1>4, <2>3
    <2>5. PICK f \in Seq(Seq(LineCharacter)) : f = g[i] /\ Len(f) <= MaxMatches
      BY <2>2
    <2>6. PICK e \in Seq(LineCharacter) : e = Entries[i + 1]
      BY <1>1, <2>1, Texts
    <2>7. Append(f, e) \in Seq(Seq(LineCharacter)) /\ Len(Append(f, e)) = Len(f) + 1 /\ Len(f) \in Nat
      OBVIOUS
    <2>8. g[i + 1] = f \/ (g[i + 1] = Append(f, e) /\ Len(f) < MaxMatches)
      BY <2>4, <2>5, <2>6, Zenon DEF NextFound
    <2>9. MaxMatches \in Nat
      BY Texts
    <2>10. CASE g[i + 1] = f
      BY <2>5, <2>10, Zenon
    <2>11. CASE g[i + 1] = Append(f, e) /\ Len(f) < MaxMatches
      <3>1. Len(Append(f, e)) <= MaxMatches
        BY <2>7, <2>9, <2>11
      <3> QED
        BY <2>7, <2>11, <3>1, Zenon
    <2> QED
      BY <2>8, <2>10, <2>11
  <1> HIDE DEF T
  <1>7. \A i \in Nat : i \in T
    BY <1>5, <1>6, Induct, Zenon
  <1>8. Good(n)
    BY <1>7 DEF T
  <1> QED
    BY <1>2, <1>8
-----------------------------------------------------------------------------
LEMMA ShowsSame ==
    ASSUME NEW t, NEW n \in Nat, NEW z, NEW y, Shows(t, z, n), \A i \in 1 .. n : z[i] = y[i]
    PROVE  Shows(t, y, n)
  <1>1. \A i \in 1 .. n : n + 1 - i \in 1 .. n
    OBVIOUS
  <1> QED
    BY <1>1 DEF Shows

LEMMA NoMatches ==
    ASSUME tab_matches' = <<>>
    PROVE  /\ tab_matches' \in Seq(Seq(LineCharacter)) /\ Len(tab_matches') <= MaxMatches
           /\ tab_matches' # <<>> => current_tab_match' \in 0 .. Len(tab_matches') - 1
  <1>1. <<>> \in Seq(Seq(LineCharacter)) /\ Len(<<>>) = 0
    BY EmptyFacts, Zenon
  <1>2. 0 <= MaxMatches
    BY Texts
  <1> QED
    BY <1>1, <1>2, Zenon

LEMMA NoScript == Ended(<<>>)
  BY EmptyFacts DEF Ended

LEMMA NoLine ==
    <<>> \in Seq(LineCharacter) /\ Len(<<>>) <= MaxInput
  <1>1. <<>> \in Seq(LineCharacter) /\ Len(<<>>) = 0
    BY EmptyFacts, Zenon
  <1> QED
    BY <1>1, TextFacts

LEMMA ShellInit == ASSUME Init PROVE ShellInv
  <1>1. PICK t : t = terminal_putchar(terminal_initialize, NL)
    OBVIOUS
  <1>2. OnScreen(t) /\ t.outside = terminal_initialize.outside
    BY <1>1, Start, Newline, Zenon DEF terminal_putchar
  <1>3. Lines
    <2>1. <<>> \in Seq(Seq(LineCharacter)) /\ Len(<<>>) = 0 /\ 0 <= MaxMatches
      BY EmptyFacts, Texts
    <2> QED
      BY <2>1, NoLine, Zenon DEF Init, Lines
  <1>4. Running
    BY NoScript, Zenon DEF Init, Running
  <1>5. OnScreen(term) /\ term.outside = terminal_initialize.outside
    BY <1>1, <1>2, PromptOn, Zenon DEF Init
  <1>6. Screens
    BY <1>5, Start, Zenon DEF Init, Screens
  <1>7. Typed
    BY <1>1, <1>2, EmptyShown, Zenon DEF Init, Typed
  <1> QED
    BY <1>3, <1>4, <1>6, <1>7 DEF ShellInv

LEMMA GoKeyChar ==
    ASSUME ShellInv, NEW c \in Key, key_char(c)
    PROVE  ShellInv'
  <1>1. c \in LineCharacter /\ c \in Character /\ c # NL
    BY TextFacts, Zenon DEF LineCharacter
  <1>2. PICK l \in Seq(LineCharacter) : l = input_buffer /\ Len(l) < MaxInput
    BY DEF ShellInv, Lines, key_char, input_pos
  <1>3. /\ Append(l, c) \in Seq(LineCharacter) /\ Len(Append(l, c)) = Len(l) + 1
        /\ \A i \in 1 .. Len(l) : Append(l, c)[i] = l[i]
        /\ Append(l, c)[Len(l) + 1] = c
    BY <1>1, AppendFacts
  <1>4. Len(l) \in Nat /\ Len(l) + 1 <= MaxInput
    BY <1>2, TextFacts
  <1>5. Lines'
    BY <1>2, <1>3, <1>4, NoMatches DEF key_char, Lines
  <1>6. Running'
    BY Zenon DEF ShellInv, Running, key_char, AtPrompt, programs
  <1>7. OnScreen(term') /\ term'.outside = term.outside
    BY <1>1, PutOn, Zenon DEF ShellInv, Screens, key_char
  <1>8. Screens'
    BY <1>7, Zenon DEF ShellInv, Screens, key_char
  <1>9. Typed'
    <2>1. PICK z : z = PROMPT \o l
      BY Zenon
    <2>2. PICK y : y = PROMPT \o Append(l, c)
      BY Zenon
    <2>3. PICK n \in Nat : n = Len(PROMPT) + Len(l)
      BY <1>4, TextFacts
    <2>4. l \in Seq(Character) /\ Append(l, c) \in Seq(Character)
      BY <1>3, LineIsText, Zenon
    <2>5. \A k \in 1 .. Len(l) + 1 : y[Len(PROMPT) + k] = Append(l, c)[k]
      <3>1. PICK e \in Seq(Character) : e = Append(l, c)
        BY <2>4, Zenon
      <3>2. \A k \in 1 .. Len(e) : (PROMPT \o e)[Len(PROMPT) + k] = e[k]
        BY ConcatFacts, TextFacts
      <3>3. Len(e) = Len(l) + 1
        BY <1>3, <3>1
      <3> QED
        BY <2>2, <3>1, <3>2, <3>3, Zenon
    <2>6. \A i \in 1 .. n : z[i] = y[i]
      <3>1. \A i \in 1 .. Len(PROMPT) : z[i] = PROMPT[i] /\ y[i] = PROMPT[i]
        BY <2>1, <2>2, <2>4, ConcatFacts, TextFacts
      <3>2. \A k \in 1 .. Len(l) : z[Len(PROMPT) + k] = l[k]
        BY <2>1, <2>4, ConcatFacts, TextFacts
      <3>3. \A k \in 1 .. Len(l) : z[Len(PROMPT) + k] = y[Len(PROMPT) + k]
        <4>1. \A k \in 1 .. Len(l) : k \in 1 .. Len(l) + 1
          BY <1>4
        <4> QED
          BY <1>3, <2>5, <3>2, <4>1, Zenon
      <3>4. ASSUME NEW i \in 1 .. n, ~(i <= Len(PROMPT)) PROVE z[i] = y[i]
        <4>1. i - Len(PROMPT) \in 1 .. Len(l) /\ Len(PROMPT) + (i - Len(PROMPT)) = i
          BY <1>4, <2>3, <3>4, TextFacts
        <4> QED
          BY <3>3, <4>1
      <3>5. \A i \in 1 .. n : i <= Len(PROMPT) => i \in 1 .. Len(PROMPT)
        BY TextFacts
      <3> QED
        BY <3>1, <3>4, <3>5, Zenon
    <2>7. y[n + 1] = c
      <3>1. Len(l) + 1 \in 1 .. Len(l) + 1 /\ n + 1 = Len(PROMPT) + (Len(l) + 1)
        BY <1>4, <2>3, TextFacts
      <3> QED
        BY <1>3, <2>5, <3>1
    <2>8. Shows(term, z, n)
      BY <1>2, <2>1, <2>3, Zenon DEF ShellInv, Typed, key_char
    <2>9. Shows(term, y, n)
      BY <2>6, <2>8, ShowsSame
    <2>10. n + 1 + VGA_WIDTH <= VGA_WIDTH * VGA_HEIGHT
      BY <1>4, <2>3, TextFacts, ScreenSize
    <2>11. OnScreen(term) /\ term' = terminal_putchar(term, c) /\ input_buffer' = Append(l, c)
      BY <1>2 DEF ShellInv, Screens, key_char
    <2>12. Shows(term', y, n + 1)
      BY <1>1, <2>7, <2>9, <2>10, <2>11, ShowsMore
    <2>13. n + 1 = Len(PROMPT) + Len(input_buffer')
      BY <1>3, <1>4, <2>3, <2>11, TextFacts
    <2> QED
      BY <2>2, <2>11, <2>12, <2>13, Zenon DEF Typed
  <1> QED
    BY <1>5, <1>6, <1>8, <1>9 DEF ShellInv

LEMMA GoIgnored ==
    ASSUME ShellInv, key_ignored
    PROVE  ShellInv'
  <1>1. Lines'
    BY NoMatches, Zenon DEF ShellInv, Lines, key_ignored
  <1>2. Running' /\ Screens'
    BY Zenon DEF ShellInv, Running, Screens, key_ignored, programs
  <1>3. Typed'
    BY Zenon DEF ShellInv, Typed, AtPrompt, key_ignored, programs
  <1> QED
    BY <1>1, <1>2, <1>3 DEF ShellInv

LEMMA GoBackspace ==
    ASSUME ShellInv, key_backspace
    PROVE  ShellInv'
  <1>1. PICK l \in Seq(LineCharacter) : l = input_buffer /\ Len(l) <= MaxInput /\ Len(l) > 0
    BY DEF ShellInv, Lines, key_backspace, AtPrompt, input_pos
  <1>2. PICK k \in Nat : k + 1 = Len(l)
    <2>1. Len(l) - 1 \in Nat /\ (Len(l) - 1) + 1 = Len(l)
      BY <1>1
    <2> QED
      BY <2>1, Zenon
  <1>3. PICK s \in Seq(LineCharacter) : s = SubSeq(l, 1, k) /\ Len(s) = k /\ \A i \in 1 .. k : s[i] = l[i]
    <2>1. k \in 0 .. Len(l)
      BY <1>2
    <2> QED
      BY <2>1, SubSeqFacts, Zenon
  <1>4. input_buffer' = s
    <2>1. Len(l) - 1 = k
      BY <1>2
    <2> QED
      BY <1>1, <1>3, <2>1 DEF key_backspace, input_pos
  <1>5. k <= MaxInput
    BY <1>1, <1>2, TextFacts
  <1>6. Lines'
    BY <1>3, <1>4, <1>5, NoMatches, Zenon DEF key_backspace, Lines
  <1>7. Running'
    BY Zenon DEF ShellInv, Running, key_backspace, AtPrompt, programs
  <1>8. PICK z : z = PROMPT \o l
    BY Zenon
  <1>9. PICK y : y = PROMPT \o s
    BY Zenon
  <1>10. PICK n \in Nat : n = Len(PROMPT) + k /\ n + 1 = Len(PROMPT) + Len(l)
    <2>1. PICK p \in Nat : p = Len(PROMPT)
      BY TextFacts
    <2>2. p + k \in Nat /\ (p + k) + 1 = p + Len(l)
      BY <1>2
    <2> QED
      BY <2>1, <2>2, Zenon
  <1>11. Shows(term, z, n + 1)
    BY <1>1, <1>8, <1>10, Zenon DEF ShellInv, Typed, key_backspace
  <1>12. term' = terminal_putchar_at(erase(term), Blank, erase(term).column, erase(term).row)
    BY Zenon DEF key_backspace
  <1>13. OnScreen(term') /\ term'.outside = term.outside /\ Shows(term', z, n)
    BY <1>11, <1>12, Erased DEF ShellInv, Screens
  <1>14. Screens'
    BY <1>13, Zenon DEF ShellInv, Screens, key_backspace
  <1>15. \A i \in 1 .. n : z[i] = y[i]
    <2>1. l \in Seq(Character) /\ s \in Seq(Character)
      BY LineIsText, Zenon
    <2>2. \A i \in 1 .. Len(PROMPT) : z[i] = PROMPT[i] /\ y[i] = PROMPT[i]
      BY <1>8, <1>9, <2>1, ConcatFacts, TextFacts
    <2>3. \A j \in 1 .. Len(l) : z[Len(PROMPT) + j] = l[j]
      BY <1>8, <2>1, ConcatFacts, TextFacts
    <2>4. \A j \in 1 .. Len(s) : y[Len(PROMPT) + j] = s[j]
      BY <1>9, <2>1, ConcatFacts, TextFacts
    <2>5. \A j \in 1 .. k : z[Len(PROMPT) + j] = y[Len(PROMPT) + j]
      BY <1>2, <1>3, <2>3, <2>4
    <2>6. ASSUME NEW i \in 1 .. n, ~(i <= Len(PROMPT)) PROVE z[i] = y[i]
      <3>1. i - Len(PROMPT) \in 1 .. k /\ Len(PROMPT) + (i - Len(PROMPT)) = i
        BY <1>10, <2>6, TextFacts
      <3> QED
        BY <2>5, <3>1
    <2>7. \A i \in 1 .. n : i <= Len(PROMPT) => i \in 1 .. Len(PROMPT)
      BY TextFacts
    <2> QED
      BY <2>2, <2>6, <2>7, Zenon
  <1>16. Shows(term', y, n)
    BY <1>13, <1>15, ShowsSame
  <1>17. Typed'
    BY <1>3, <1>4, <1>9, <1>10, <1>16, Zenon DEF Typed
  <1> QED
    BY <1>6, <1>7, <1>14, <1>17 DEF ShellInv

LEMMA GoTab ==
    ASSUME ShellInv, handle_tab_completion
    PROVE  ShellInv'
  <1>1. PICK mm \in Seq(Seq(LineCharacter)) :
            /\ mm = (IF tab_matches # <<>> THEN tab_matches ELSE find_matches)
            /\ Len(mm) <= MaxMatches
    BY MatchFacts, Zenon DEF ShellInv, Lines
  <1>2. PICK n : n = IF tab_matches # <<>> THEN current_tab_match ELSE 0
    OBVIOUS
  <1>3. PICK line : line = kept \o mm[n + 1]
    BY Zenon
  <1>4. PICK t : t = clear_row(term)
    OBVIOUS
  <1>5. /\ AtPrompt /\ tab_matches' = mm
        /\ IF mm = <<>>
           THEN current_tab_match' = 0 /\ UNCHANGED <<input_buffer, term, event>>
           ELSE /\ input_buffer' = line
                /\ term' = puts(print_prompt(t), line)
                /\ current_tab_match' = (n + 1) % Len(mm)
                /\ event' = IF t.outside THEN "wiped"
                            ELSE IF Len(line) > MaxInput THEN "overflow" ELSE "none"
        /\ UNCHANGED <<saved_screen, script, programs, before>>
    BY <1>1, <1>2, <1>3, <1>4, Zenon DEF handle_tab_completion
  <1>6. Running'
    BY <1>5, Zenon DEF ShellInv, Running, AtPrompt, programs
  <1>7. CASE mm = <<>>
    <2>1. Lines'
      BY <1>5, <1>7, NoMatches, Zenon DEF ShellInv, Lines
    <2>2. Screens' /\ Typed'
      BY <1>5, <1>7, Zenon DEF ShellInv, Screens, Typed, AtPrompt, programs
    <2> QED
      BY <1>6, <2>1, <2>2 DEF ShellInv
  <1>8. CASE mm # <<>>
    <2>1. Len(mm) \in Nat \ {0}
      BY <1>8, EmptyFacts
    <2>2. n \in 0 .. Len(mm) - 1
      BY <1>1, <1>2, <2>1 DEF ShellInv, Lines
    <2>3. PICK e \in Seq(LineCharacter) : e = mm[n + 1]
      BY <2>1, <2>2
    <2>4. PICK b \in Seq(LineCharacter) : b = kept
      BY KeptIsLine DEF ShellInv, Lines
    <2>5. line \in Seq(LineCharacter) /\ line \in Seq(Character) /\ Len(line) \in Nat
      <3>1. line = b \o e
        BY <1>3, <2>3, <2>4, Zenon
      <3>2. line \in Seq(LineCharacter)
        BY <3>1, ConcatFacts
      <3> QED
        BY <3>2, LineIsText, Zenon
    <2>6. (n + 1) % Len(mm) \in 0 .. Len(mm) - 1
      <3>1. PICK d \in Nat \ {0} : d = Len(mm)
        BY <2>1
      <3>2. PICK x \in Nat : x = n + 1
        BY <2>1, <2>2
      <3>3. x % d \in 0 .. d - 1
        BY Z3
      <3> QED
        BY <3>1, <3>2, <3>3, Zenon
    <2>7. event' = "none" => Len(line) <= MaxInput
      BY <1>5, <1>8, <2>5, TextFacts
    <2>8. Lines'
      BY <1>1, <1>5, <1>8, <2>5, <2>6, <2>7, Zenon DEF Lines
    <2>9. OnScreen(t) /\ t.outside \in BOOLEAN
      BY <1>4, RowCleared, Fields DEF ShellInv, Screens
    <2>10. OnScreen(term') /\ term'.outside = t.outside
      <3>1. term' = puts(print_prompt(t), line)
        BY <1>5, <1>8, Zenon
      <3>2. OnScreen(print_prompt(t)) /\ print_prompt(t).outside = t.outside
        BY <2>9, PromptOn, Zenon
      <3> QED
        BY <2>5, <3>1, <3>2, PutsOn
    <2>11. Screens'
      BY <1>5, <1>8, <2>10, Zenon DEF ShellInv, Screens, AtPrompt
    <2>12. Typed'
      <3>1. SUFFICES ASSUME event' = "none"
                     PROVE  Shows(term', PROMPT \o input_buffer', Len(PROMPT) + Len(input_buffer'))
        BY Zenon DEF Typed, AtPrompt
      <3> QED
        BY <1>5, <1>8, <2>5, <2>7, <2>9, <3>1, LineShown, Zenon
    <2> QED
      BY <1>6, <2>8, <2>11, <2>12 DEF ShellInv
  <1> QED
    BY <1>7, <1>8

LEMMA GoEnter ==
    ASSUME ShellInv, NEW n \in Nat, NEW o \in [1 .. n -> Outcome], key_enter(o)
    PROVE  ShellInv'
  <1>1. Outcome \subseteq Outcome \cup {[kind |-> "end"]} /\ \A x \in Outcome : x.kind # "end"
    BY DEF Outcome
  <1>2. AtPrompt
    BY DEF key_enter
  <1>3. PICK t : t = terminal_putchar(term, NL)
    OBVIOUS
  <1>4. OnScreen(t) /\ t.outside = term.outside
    BY <1>3, Newline, Zenon DEF ShellInv, Screens, terminal_putchar
  <1>5. CASE \A i \in 1 .. input_pos : input_buffer[i] = Blank
    <2>1. term' = print_prompt(t) /\ input_buffer' = <<>> /\ script' = script
      BY <1>3, <1>5, Zenon DEF key_enter
    <2>2. Lines'
      BY <2>1, NoLine, NoMatches, Zenon DEF key_enter, Lines
    <2>3. Running'
      BY <2>1, Zenon DEF ShellInv, Running, key_enter, programs
    <2>4. OnScreen(term') /\ term'.outside = term.outside
      BY <1>4, <2>1, PromptOn, Zenon
    <2>5. Screens'
      BY <2>4, Zenon DEF ShellInv, Screens, key_enter
    <2>6. Typed'
      BY <1>4, <2>1, EmptyShown, Zenon DEF Typed
    <2> QED
      BY <2>2, <2>3, <2>5, <2>6 DEF ShellInv
  <1>6. CASE ~(\A i \in 1 .. input_pos : input_buffer[i] = Blank)
    <2>1. term' = t /\ input_buffer' = input_buffer /\ script' = o \o <<[kind |-> "end"]>>
      BY <1>3, <1>6, Zenon DEF key_enter
    <2>2. Lines'
      BY <2>1, NoMatches, Zenon DEF ShellInv, Lines, key_enter
    <2>3. Ended(script') /\ script' # <<>>
      <3>1. PICK e : e = [kind |-> "end"]
        BY Zenon
      <3>2. PICK s \in Seq(Outcome \cup {e}) : s = o /\ Len(s) = n
        BY <1>1, <3>1
      <3>3. PICK f \in Seq(Outcome \cup {e}) : f = <<e>> /\ Len(f) = 1 /\ f[1] = e
        <4>1. e \in Outcome \cup {e}
          OBVIOUS
        <4> QED
          BY <4>1, SingleFacts, Zenon
      <3>4. PICK x : x = s \o f
        BY Zenon
      <3>5. /\ x \in Seq(Outcome \cup {e}) /\ Len(x) = n + 1
            /\ \A i \in 1 .. n : x[i] = s[i]
            /\ x[n + 1] = e
        BY <3>2, <3>3, <3>4, ConcatFacts
      <3>6. e.kind = "end" /\ \A i \in 1 .. n : s[i].kind # "end"
        <4>1. \A i \in 1 .. n : s[i] \in Outcome
          BY <3>2
        <4>2. e.kind = "end"
          BY <3>1
        <4> QED
          BY <1>1, <4>1, <4>2, Zenon
      <3>7. \A i \in 1 .. n + 1 : i \in 1 .. n \/ i = n + 1
        OBVIOUS
      <3>8. \A i \in 1 .. n : i # n + 1
        OBVIOUS
      <3>9. \A i \in 1 .. n + 1 : x[i].kind = "end" <=> i = n + 1
        BY <3>5, <3>6, <3>7, <3>8, Zenon
      <3>10. script' = x
        BY <2>1, <3>1, <3>2, <3>3, <3>4, Zenon
      <3>11. Len(x) # 0
        BY <3>5
      <3> QED
        BY <3>1, <3>5, <3>9, <3>10, <3>11, EmptyFacts, Zenon DEF Ended
    <2>4. Running'
      BY <1>2, <2>3, Zenon DEF ShellInv, Running, key_enter, programs, AtPrompt
    <2>5. Screens'
      BY <1>4, <2>1, Zenon DEF ShellInv, Screens, key_enter
    <2>6. Typed'
      BY <2>3, Zenon DEF Typed, AtPrompt
    <2> QED
      BY <2>2, <2>4, <2>5, <2>6 DEF ShellInv
  <1> QED
    BY <1>5, <1>6

\* While a line runs its end is still to come.
LEMMA RestRuns ==
    ASSUME ShellInv, NEW k, k # "end", Does(k)
    PROVE  Ended(Tail(script)) /\ Tail(script) # <<>> /\ Head(script) \in Outcome
  <1>1. PICK S : S = Outcome \cup {[kind |-> "end"]}
    BY Zenon
  <1>2. PICK s \in Seq(S) : s = script /\ s # <<>>
    BY <1>1 DEF ShellInv, Running, Ended, Does
  <1>3. \A i \in 1 .. Len(s) : s[i].kind = "end" <=> i = Len(s)
    BY <1>2 DEF ShellInv, Running, Ended
  <1>4. /\ Head(s) \in S /\ Head(s) = s[1] /\ Tail(s) \in Seq(S) /\ Len(Tail(s)) = Len(s) - 1
        /\ \A i \in 1 .. Len(Tail(s)) : Tail(s)[i] = s[i + 1]
    BY <1>2, TailFacts
  <1>5. Len(s) \in Nat \ {0}
    BY <1>2, EmptyFacts
  <1>6. s[1].kind = k
    BY <1>2, <1>4 DEF Does
  <1>7. Len(s) # 1
    BY <1>3, <1>5, <1>6
  <1>8. \A i \in 1 .. Len(Tail(s)) : Tail(s)[i].kind = "end" <=> i = Len(Tail(s))
    <2>1. \A i \in 1 .. Len(Tail(s)) : i + 1 \in 1 .. Len(s) /\ (i + 1 = Len(s) <=> i = Len(Tail(s)))
      BY <1>4, <1>5
    <2> QED
      BY <1>3, <1>4, <2>1, Zenon
  <1>9. Len(Tail(s)) # 0
    BY <1>4, <1>5, <1>7
  <1>10. Head(s) \in Outcome
    <2>1. Head(s) # [kind |-> "end"]
      BY <1>4, <1>6
    <2> QED
      BY <1>1, <1>4, <2>1, Zenon
  <1> QED
    BY <1>1, <1>2, <1>4, <1>8, <1>9, <1>10, EmptyFacts, Zenon DEF Ended

LEMMA GoPrint ==
    ASSUME ShellInv, print_output
    PROVE  ShellInv'
  <1>1. Ended(Tail(script)) /\ Tail(script) # <<>> /\ Head(script) \in Outcome
    BY RestRuns DEF print_output
  <1>2. Head(script).text \in Seq(Character)
    <2>1. PICK h \in Outcome : h = Head(script) /\ h.kind = "print"
      BY <1>1 DEF print_output, Does
    <2>2. PICK o \in Output : h = [kind |-> "print", text |-> o]
      BY <2>1 DEF Outcome
    <2>3. h.text = o
      BY <2>2
    <2> QED
      BY <2>1, <2>3, Texts
  <1>3. Lines'
    BY Zenon DEF ShellInv, Lines, print_output, tabs
  <1>4. Running'
    BY <1>1, Zenon DEF ShellInv, Running, print_output, programs, Does
  <1>5. OnScreen(term') /\ term'.outside = term.outside
    BY <1>2, PutsOn, Zenon DEF ShellInv, Screens, print_output
  <1>6. Screens' /\ Typed'
    BY <1>1, <1>5, Zenon DEF ShellInv, Screens, print_output, Typed, AtPrompt
  <1> QED
    BY <1>3, <1>4, <1>6 DEF ShellInv

LEMMA GoClear ==
    ASSUME ShellInv, clear_screen
    PROVE  ShellInv'
  <1>1. Ended(Tail(script)) /\ Tail(script) # <<>>
    BY RestRuns DEF clear_screen
  <1>2. Lines'
    BY Zenon DEF ShellInv, Lines, clear_screen, tabs
  <1>3. Running'
    BY <1>1, Zenon DEF ShellInv, Running, clear_screen, programs, Does
  <1>4. Screens' /\ Typed'
    BY <1>1, Start, Zenon DEF ShellInv, Screens, clear_screen, Typed, AtPrompt
  <1> QED
    BY <1>2, <1>3, <1>4 DEF ShellInv

\* Saving the screen: the copy is the screen, and the one to come back to
\* unless the pager has it.
LEMMA SaveFacts ==
    ASSUME ShellInv, event = "none", save_screen
    PROVE  /\ OnScreen(saved_screen') /\ ~saved_screen'.outside
           /\ event' = "none" => saved_screen' = before'
  BY Zenon DEF ShellInv, Screens, save_screen

LEMMA GoShowText ==
    ASSUME ShellInv, show_text
    PROVE  ShellInv'
  <1>1. Ended(Tail(script)) /\ Tail(script) # <<>>
    BY RestRuns DEF show_text
  <1>2. event = "none" /\ script # <<>> /\ (event' = "none" \/ event' = "nested")
    BY Zenon DEF show_text, Does, save_screen
  <1>3. Lines'
    BY <1>2, Zenon DEF ShellInv, Lines, show_text, tabs
  <1>4. Running'
    BY <1>1, <1>2, Zenon DEF ShellInv, Running, show_text
  <1>5. PICK o \in Output : term' = puts(terminal_initialize, o)
    BY DEF show_text
  <1>6. o \in Seq(Character)
    BY Texts, Zenon
  <1>7. OnScreen(term') /\ ~term'.outside
    BY <1>5, <1>6, PutsOn, Start, Zenon
  <1>8. Screens' /\ Typed'
    BY <1>1, <1>2, <1>7, SaveFacts, Zenon DEF Screens, show_text, Typed, AtPrompt
  <1> QED
    BY <1>3, <1>4, <1>8 DEF ShellInv

LEMMA GoEdit ==
    ASSUME ShellInv, cmd_edit
    PROVE  ShellInv'
  <1>1. /\ event = "none" /\ script # <<>> /\ input_buffer' = <<>> /\ script' = <<>>
        /\ tab_matches' = tab_matches /\ current_tab_match' = current_tab_match
        /\ pager_active' = pager_active
    BY Zenon DEF cmd_edit, Does, tabs
  <1>2. Lines'
    BY <1>1, NoLine, Zenon DEF ShellInv, Lines
  <1>3. ~editor_active
    BY <1>1, Zenon DEF ShellInv, Running
  <1>4. ASSUME save_screen, editor_active' = TRUE, term' = terminal_initialize
        PROVE  ShellInv'
    <2>1. Running'
      BY <1>1, <1>4, NoScript, Zenon DEF ShellInv, Running
    <2>2. Screens' /\ Typed'
      BY <1>1, <1>4, SaveFacts, Start, Zenon DEF Screens, Typed, AtPrompt
    <2> QED
      BY <1>2, <2>1, <2>2 DEF ShellInv
  <1>5. ASSUME NEW o \in Output, term' = print_prompt(puts(term, o)),
               save_screen \/ UNCHANGED <<saved_screen, before, event>>,
               editor_active' = editor_active
        PROVE  ShellInv'
    <2>1. o \in Seq(Character)
      BY Texts, Zenon
    <2>2. OnScreen(puts(term, o)) /\ puts(term, o).outside = term.outside
      BY <2>1, PutsOn, Zenon DEF ShellInv, Screens
    <2>3. OnScreen(term') /\ term'.outside = term.outside /\ ~term.outside
      BY <1>1, <1>5, <2>2, PromptOn, Zenon DEF ShellInv, Screens
    <2>4. Running'
      BY <1>1, <1>5, NoScript, Zenon DEF ShellInv, Running
    <2>5. /\ OnScreen(saved_screen') /\ ~saved_screen'.outside
          /\ event' = "none" => saved_screen' = before'
      BY <1>1, <1>5, SaveFacts, Zenon DEF ShellInv, Screens
    <2>6. Screens'
      BY <2>3, <2>5, Zenon DEF Screens
    <2>7. Typed'
      BY <1>1, <1>5, <2>2, EmptyShown, Zenon DEF Typed
    <2> QED
      BY <1>2, <2>4, <2>6, <2>7 DEF ShellInv
  <1>6. \/ save_screen /\ editor_active' = TRUE /\ term' = terminal_initialize
        \/ \E o \in Output : /\ term' = print_prompt(puts(term, o))
                             /\ save_screen \/ UNCHANGED <<saved_screen, before, event>>
                             /\ editor_active' = editor_active
    BY Zenon DEF cmd_edit
  <1> QED
    BY <1>4, <1>5, <1>6, Zenon

LEMMA GoEndOfLine ==
    ASSUME ShellInv, end_of_line
    PROVE  ShellInv'
  <1>1. input_buffer' = <<>> /\ script' = <<>> /\ event' = "none"
    BY Zenon DEF end_of_line, Does
  <1>2. Lines'
    BY <1>1, NoLine, Zenon DEF ShellInv, Lines, end_of_line, tabs
  <1>3. Running'
    BY <1>1, NoScript, Zenon DEF ShellInv, Running, end_of_line, programs
  <1>4. OnScreen(term') /\ term'.outside = term.outside
    BY PromptOn, Zenon DEF ShellInv, Screens, end_of_line
  <1>5. Screens'
    BY <1>4, Zenon DEF ShellInv, Screens, end_of_line
  <1>6. Typed'
    <2>1. SUFFICES ASSUME ~pager_active'
                   PROVE  Shows(term', PROMPT \o input_buffer', Len(PROMPT) + Len(input_buffer'))
      BY Zenon DEF Typed, AtPrompt
    <2>2. term' = print_prompt(term)
      BY <2>1, Zenon DEF end_of_line, programs
    <2> QED
      BY <1>1, <2>2, EmptyShown, Zenon DEF ShellInv, Screens
  <1> QED
    BY <1>2, <1>3, <1>5, <1>6 DEF ShellInv

\* The two programs give the screen back in the same way.
LEMMA GivesBack ==
    ASSUME ShellInv, event = "none", term' = restore, input_buffer = <<>>,
           UNCHANGED <<saved_screen, input_buffer, before, event>>
    PROVE  Screens' /\ Typed'
  <1>1. OnScreen(saved_screen) /\ ~saved_screen.outside
    BY DEF ShellInv, Screens
  <1>2. OnScreen(term') /\ ~term'.outside
    BY <1>1, PromptOn, Zenon DEF restore
  <1>3. Screens'
    BY <1>2, Zenon DEF ShellInv, Screens
  <1>4. Typed'
    BY <1>1, EmptyShown, Zenon DEF Typed, restore
  <1> QED
    BY <1>3, <1>4

LEMMA GoCloseEditor ==
    ASSUME ShellInv, close_editor
    PROVE  ShellInv'
  <1>1. input_buffer = <<>> /\ script = <<>>
    BY Zenon DEF ShellInv, Running, close_editor
  <1>2. Lines'
    BY Zenon DEF ShellInv, Lines, close_editor, tabs
  <1>3. Running'
    BY <1>1, Zenon DEF ShellInv, Running, close_editor
  <1>4. Screens' /\ Typed'
    BY <1>1, GivesBack DEF close_editor
  <1> QED
    BY <1>2, <1>3, <1>4 DEF ShellInv

LEMMA GoClearPager ==
    ASSUME ShellInv, clear_pager
    PROVE  ShellInv'
  <1>1. input_buffer = <<>>
    BY Zenon DEF ShellInv, Running, clear_pager
  <1>2. Lines'
    BY Zenon DEF ShellInv, Lines, clear_pager, tabs
  <1>3. Running'
    BY <1>1, Zenon DEF ShellInv, Running, clear_pager
  <1>4. Screens' /\ Typed'
    BY <1>1, GivesBack DEF clear_pager
  <1> QED
    BY <1>2, <1>3, <1>4 DEF ShellInv

LEMMA ShellStep == ASSUME ShellInv, [Next]_vars PROVE ShellInv'
  <1>1. CASE UNCHANGED vars
    <2>1. Lines' /\ Running'
      BY <1>1, Zenon DEF ShellInv, Lines, Running, vars
    <2>2. Screens' /\ Typed'
      BY <1>1, Zenon DEF ShellInv, Screens, Typed, AtPrompt, vars
    <2> QED
      BY <2>1, <2>2 DEF ShellInv
  <1>2. ASSUME NEW c \in Key, key_char(c) PROVE ShellInv'
    BY <1>2, GoKeyChar
  <1>3. CASE key_ignored
    BY <1>3, GoIgnored
  <1>4. CASE key_backspace
    BY <1>4, GoBackspace
  <1>5. CASE handle_tab_completion
    BY <1>5, GoTab
  <1>6. ASSUME NEW n \in 0 .. MaxOutcomes, NEW o \in [1 .. n -> Outcome], key_enter(o) PROVE ShellInv'
    <2>1. n \in Nat
      BY Texts
    <2> QED
      BY <1>6, <2>1, GoEnter
  <1>7. CASE print_output
    BY <1>7, GoPrint
  <1>8. CASE clear_screen
    BY <1>8, GoClear
  <1>9. CASE show_text
    BY <1>9, GoShowText
  <1>10. CASE cmd_edit
    BY <1>10, GoEdit
  <1>11. CASE end_of_line
    BY <1>11, GoEndOfLine
  <1>12. CASE close_editor
    BY <1>12, GoCloseEditor
  <1>13. CASE clear_pager
    BY <1>13, GoClearPager
  <1> QED
    BY <1>1, <1>2, <1>3, <1>4, <1>5, <1>6, <1>7, <1>8, <1>9, <1>10, <1>11, <1>12, <1>13, Zenon DEF Next

LEMMA AlwaysShellInv == Spec => []ShellInv
  <1>1. Init => ShellInv
    BY ShellInit
  <1>2. ShellInv /\ [Next]_vars => ShellInv'
    BY ShellStep
  <1> QED
    BY <1>1, <1>2, PTL DEF Spec

\* The user sees what they are typing, on a screen of any size that holds the
\* longest line, with any prompt and any names to complete: before the cursor
\* are the prompt and the line, and nothing is written outside the screen but
\* by a completion after backspace has crossed the start of a row.
THEOREM LineAlwaysShown == Spec => []ScreenShowsLine
  <1>1. ASSUME ShellInv PROVE ScreenShowsLine
    <2>1. OnScreen(term) /\ (term.outside => event = "wiped")
      BY <1>1 DEF ShellInv, Screens
    <2>2. TypeOK
      <3>1. term.row \in 0 .. VGA_HEIGHT - 1 /\ term.column \in 0 .. U16 - 1
        BY <2>1, Where
      <3>2. \A i \in Cell : term.cells[i] \in Character
        BY <2>1, Fields
      <3>3. Len(tab_matches) <= MaxMatches /\ {editor_active, pager_active} \subseteq BOOLEAN
        BY <1>1, Zenon DEF ShellInv, Lines, Running
      <3> QED
        BY <3>1, <3>2, <3>3 DEF TypeOK
    <2>3. ASSUME AtPrompt
          PROVE  LET shown == PROMPT \o input_buffer
                     c == cursor(term)
                 IN  /\ c \in Cell
                     /\ \A i \in 1 .. Len(shown) :
                           c - i >= 0 => term.cells[c - i] = shown[Len(shown) + 1 - i]
      <3>1. PICK n \in Nat : n = Len(PROMPT) + Len(input_buffer) /\ n = Len(PROMPT \o input_buffer)
        <4>1. PICK l \in Seq(LineCharacter) : l = input_buffer
          BY <1>1 DEF ShellInv, Lines
        <4>2. l \in Seq(Character) /\ Len(l) \in Nat
          BY LineIsText, Zenon
        <4>3. Len(PROMPT \o l) = Len(PROMPT) + Len(l) /\ Len(PROMPT) + Len(l) \in Nat
          BY <4>2, ConcatFacts, TextFacts
        <4> QED
          BY <4>1, <4>3, Zenon
      <3>2. Shows(term, PROMPT \o input_buffer, n)
        BY <1>1, <2>3, <3>1, Zenon DEF ShellInv, Typed
      <3>3. cursor(term) = Position(term) /\ Position(term) \in Cell
        BY <2>1, Where DEF OnScreen
      <3> QED
        BY <3>1, <3>2, <3>3, Zenon DEF Shows
    <2> QED
      BY <2>1, <2>2, <2>3 DEF ScreenShowsLine
  <1> QED
    BY <1>1, AlwaysShellInv, PTL

\* Editor and pager give the screen back as the command found it, with a new
\* prompt, unless the line started one over the other.
THEOREM ScreenAlwaysComesBack == Spec => ScreenComesBack
  <1> DEFINE Back == (editor_active \/ pager_active) /\ ~editor_active' /\ ~pager_active'
                        => term' = print_prompt(before)
  <1>1. ASSUME ShellInv, [Next]_vars PROVE [Back]_vars
    <2>1. SUFFICES ASSUME Next, editor_active \/ pager_active, ~editor_active', ~pager_active'
                   PROVE  term' = print_prompt(before)
      BY <1>1
    <2>2. close_editor \/ clear_pager
      <3>1. ~AtPrompt
        BY <2>1 DEF AtPrompt
      <3>2. /\ \A c \in Key : ~key_char(c)
            /\ ~key_ignored /\ ~key_backspace /\ ~handle_tab_completion
            /\ \A o : ~key_enter(o)
        BY <3>1, Zenon DEF key_char, key_ignored, key_backspace, handle_tab_completion, key_enter
      <3>3. ~print_output /\ ~clear_screen /\ ~end_of_line
        BY <2>1, Zenon DEF print_output, clear_screen, end_of_line, programs
      <3>4. ~show_text
        BY <2>1, Zenon DEF show_text
      <3>5. ~cmd_edit
        <4>1. ASSUME cmd_edit PROVE FALSE
          <5>1. ~editor_active /\ pager_active' = pager_active
            BY <1>1, <4>1, Zenon DEF ShellInv, Running, cmd_edit, Does
          <5> QED
            BY <2>1, <5>1
        <4> QED
          BY <4>1
      <3> QED
        BY <2>1, <3>2, <3>3, <3>4, <3>5, Zenon DEF Next
    <2>3. event = "none" /\ term' = restore
      BY <2>2, Zenon DEF close_editor, clear_pager
    <2>4. saved_screen = before
      BY <1>1, <2>3 DEF ShellInv, Screens
    <2> QED
      BY <2>3, <2>4 DEF restore
  <1> QED
    BY <1>1, AlwaysShellInv, PTL DEF Spec, ScreenComesBack
=============================================================================
