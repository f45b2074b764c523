----------------------------- MODULE LineEditor -----------------------------
(***************************************************************************)
(* What the editor promises: a text of lines, a cursor in one of them, and *)
(* keys that change the text at the cursor.  The cursor may get lost, from *)
(* an empty line with nothing but empty lines below it; then nothing is    *)
(* promised until the editor is closed.                                    *)
(***************************************************************************)
EXTENDS Integers, SequencesExt

CONSTANT Char

VARIABLES lines, row, col, mode, anchor, opened, lost

vars == <<lines, row, col, mode, anchor, opened, lost>>

Line(r) == lines[r + 1]
Last0 == Len(lines) - 1
EmptyFrom(r) == \A i \in r .. Last0 : Line(i) = <<>>

Text(ls, r, c) == lines' = ls /\ row' = r /\ col' = c
Stays == UNCHANGED <<anchor, opened, lost>>
Put(ls, r, c) == opened /\ ~lost /\ Text(ls, r, c) /\ Stays
Moves(r, c) == Put(lines, r, c) /\ UNCHANGED mode

Init == lines = <<<<>>>> /\ row = 0 /\ col = 0 /\ mode = "NORMAL" /\ anchor = 0
        /\ opened = FALSE /\ lost = FALSE

Open == ~opened /\ opened' /\ row' = 0 /\ col' = 0 /\ mode' = "NORMAL" /\ UNCHANGED lost
Close == opened /\ mode = "NORMAL" /\ ~opened' /\ ~lost'
SwitchTo(m) == Put(lines, row, col) /\ mode' = m
Select == opened /\ ~lost /\ mode = "NORMAL" /\ mode' = "VISUAL" /\ anchor' = row
          /\ UNCHANGED <<lines, row, col, opened, lost>>

Left == mode = "NORMAL" /\ col > 0 /\ Moves(row, col - 1)
Right == mode = "NORMAL" /\ col < Len(Line(row)) /\ Moves(row, col + 1)
Clip(r) == IF col > Len(Line(r)) THEN Len(Line(r)) ELSE col
\* The way down ends before an empty last line.
Vertical(r) ==
    /\ mode \in {"NORMAL", "VISUAL"}
    /\ r \in 0 .. Last0
    /\ r = Last0 => Line(r) # <<>>
    /\ Moves(r, Clip(r))

Insert(c) == mode = "INSERT" /\ UNCHANGED mode
             /\ Put([lines EXCEPT ![row + 1] = InsertAt(@, col + 1, c)], row, col + 1)
Break == mode = "INSERT" /\ UNCHANGED mode
         /\ Put(SubSeq(lines, 1, row) \o <<SubSeq(Line(row), 1, col),
                    SubSeq(Line(row), col + 1, Len(Line(row)))>>
                    \o SubSeq(lines, row + 2, Len(lines)), row + 1, 0)
\* Lines r and r + 1 become one.
Joined(r) == SubSeq(lines, 1, r) \o <<Line(r) \o Line(r + 1)>> \o SubSeq(lines, r + 3, Len(lines))
Backspace ==
    /\ mode = "INSERT" /\ UNCHANGED mode
    /\ \/ col > 0 /\ Put([lines EXCEPT ![row + 1] = RemoveAt(@, col)], row, col - 1)
       \/ col = 0 /\ row > 0 /\ Put(Joined(row - 1), row - 1, Len(Line(row - 1)))
Substitute ==
    /\ mode = "NORMAL" /\ mode' = "INSERT"
    /\ \/ col < Len(Line(row)) /\ Put([lines EXCEPT ![row + 1] = RemoveAt(@, col + 1)], row, col)
       \/ col = Len(Line(row)) /\ row < Last0 /\ Put(Joined(row), row, col)
\* The selected lines become one empty line.
DeleteSelected ==
    LET first == IF anchor < row THEN anchor ELSE row
        last == IF anchor < row THEN row ELSE anchor
    IN  /\ mode = "VISUAL" /\ mode' = "INSERT"
        /\ Put(SubSeq(lines, 1, first) \o <<<<>>>> \o SubSeq(lines, last + 2, Len(lines)), first, 0)
Save ==
    /\ mode = "NORMAL" /\ UNCHANGED mode
    /\ \E n \in 1 .. Len(lines) :
            /\ n > 1 => lines[n] # <<>>
            /\ EmptyFrom(n)
            /\ Put(SubSeq(lines, 1, n), row, col)

Lose == opened /\ mode = "NORMAL" /\ EmptyFrom(row) /\ lost' /\ opened'
Lost == lost /\ lost' /\ opened'

Next ==
    \/ Lost \/ Close \/ Open \/ Lose
    \/ Select \/ \E m \in {"NORMAL", "INSERT"} : SwitchTo(m)
    \/ Left \/ Right \/ Vertical(row - 1) \/ Vertical(row + 1)
    \/ Break \/ Backspace \/ Substitute \/ DeleteSelected \/ Save
    \/ \E c \in Char : Insert(c)

Spec == Init /\ [][Next]_vars
=============================================================================
