------------------------------- MODULE Editor -------------------------------
(***************************************************************************)
(* The text editor, TextEditor (kernel/src/shell/editor.cpp): one action   *)
(* for each branch of process_keypress, with the render that ends it.  The *)
(* bytes behind m_buffer_size are never read while the cursor is inside.   *)
(* `drift' is history: it counts keys from the one on that puts the cursor *)
(* where m_cursor_row, m_cursor_col and m_cursor_pos do not say the same.  *)
(* `broken': memmove got a length of m_buffer_size - m_cursor_pos below    *)
(* zero; nothing is known afterwards.                                      *)
(***************************************************************************)
EXTENDS Integers, Sequences, FiniteSetsExt

CONSTANTS
    Char,                  \* characters that can be typed
    File,                  \* what the files contain that are opened
    NL,                    \* '\n'
    MAX_BUFFER_SIZE, TERMINAL_WIDTH, TERMINAL_HEIGHT, LINE_NUMBER_WIDTH,
    SIZE_MAX,              \* stands for 2^64 - 1
    MaxDrift               \* bound: keys after the cursor has strayed

\* The screen has a row for text besides the status row; the buffer is shorter
\* than a size_t counts.
ASSUME EditorAssumption ==
    /\ MAX_BUFFER_SIZE \in Nat \ {0} /\ SIZE_MAX \in Nat /\ MAX_BUFFER_SIZE < SIZE_MAX
    /\ TERMINAL_WIDTH \in Nat /\ LINE_NUMBER_WIDTH \in Nat
    /\ LINE_NUMBER_WIDTH + 1 < TERMINAL_WIDTH
    /\ TERMINAL_HEIGHT \in Nat \ {0, 1}
    /\ NL \notin Char /\ File \subseteq Seq(Char \cup {NL})
    /\ MaxDrift \in Nat

VARIABLES
    m_buffer,              \* the first m_buffer_size bytes
    m_cursor_pos, m_cursor_row, m_cursor_col, m_screen_row,
    m_mode, m_has_selection, m_selection_start_row, m_selection_end_row,
    m_active, m_modified,
    file,                  \* the bytes of the file
    drift,                 \* keys since the cursor strayed, that key included
    broken

cursor == <<m_cursor_pos, m_cursor_row, m_cursor_col>>
selection == <<m_has_selection, m_selection_start_row, m_selection_end_row>>
vars == <<m_buffer, cursor, m_screen_row, m_mode, selection, m_active, m_modified, file,
          drift, broken>>

m_buffer_size == Len(m_buffer)
Unknown == [kind |-> "unknown"]
Known(f) == [kind |-> "known", bytes |-> f]
None == [kind |-> "none"]

Init ==
    /\ m_buffer = <<>> /\ m_cursor_pos = 0 /\ m_cursor_row = 0 /\ m_cursor_col = 0
    /\ m_screen_row = 0 /\ m_mode = "NORMAL"
    /\ m_has_selection = FALSE /\ m_selection_start_row = 0 /\ m_selection_end_row = 0
    /\ m_active = FALSE /\ m_modified = FALSE
    /\ file = None /\ drift = 0 /\ broken = FALSE

-----------------------------------------------------------------------------
\* Newlines before position p of buffer b, and where the line of p starts.
Newlines(b, p) == Cardinality({k \in 1 .. p : b[k] = NL})
LineStart(b, p) == Max({0} \cup {k \in 1 .. p : b[k] = NL})

get_line_length(row) ==
    LET P == {p \in 0 .. m_buffer_size - 1 : Newlines(m_buffer, p) = row}
        end(p) == Min({m_buffer_size} \cup {q \in p .. m_buffer_size - 1 : m_buffer[q + 1] = NL})
    IN  IF P = {} THEN SIZE_MAX ELSE end(Min(P)) - Min(P)

update_cursor_pos(b, row, col) ==
    Min({Len(b)} \cup {p \in 0 .. Len(b) - 1 : /\ Newlines(b, p) = row
                                              /\ p - LineStart(b, p) = col})

strayed == drift > 0
KeyStrays(strays) ==
    /\ m_active /\ ~broken /\ drift < MaxDrift
    /\ drift' = IF strayed \/ strays THEN drift + 1 ELSE 0
Key == KeyStrays(FALSE)
Mode(m) == m_mode = m /\ Key

switch_to_visual_mode ==
    /\ m_mode' = "VISUAL"
    /\ m_has_selection' = TRUE
    /\ m_selection_start_row' = m_cursor_row
    /\ m_selection_end_row' = m_cursor_row

switch_to(mode) ==
    /\ m_mode' = mode
    /\ m_has_selection' = FALSE
    /\ UNCHANGED <<m_selection_start_row, m_selection_end_row>>

\* memmove of the end of the buffer: the bytes after i and up to j go, and a
\* byte comes in after p.
memmove_down(b, i, j) == SubSeq(b, 1, i) \o SubSeq(b, j + 1, Len(b))
memmove_up(b, p, ch) == SubSeq(b, 1, p) \o <<ch>> \o SubSeq(b, p + 1, Len(b))

SetCursor(p, r, c) == m_cursor_pos' = p /\ m_cursor_row' = r /\ m_cursor_col' = c

-----------------------------------------------------------------------------
\* cmd_edit opens a file or a name that has none; a directory or a file of
\* MAX_BUFFER_SIZE bytes or more leaves the editor as it was.
open(f) ==
    /\ ~m_active /\ ~broken
    /\ f # None => Len(f.bytes) < MAX_BUFFER_SIZE
    /\ m_buffer' = (IF f = None THEN <<>> ELSE f.bytes)
    /\ SetCursor(0, 0, 0)
    /\ m_screen_row' = 0 /\ m_mode' = "NORMAL"
    /\ m_active' = TRUE /\ m_modified' = FALSE
    /\ file' = f /\ drift' = 0
    /\ UNCHANGED <<selection, broken>>

close ==
    /\ m_active /\ ~broken /\ m_mode = "NORMAL"
    /\ m_active' = FALSE /\ m_modified' = FALSE
    /\ m_buffer' = <<>> /\ SetCursor(0, 0, 0)
    /\ m_screen_row' = 0 /\ m_mode' = "NORMAL"
    /\ file' = None /\ drift' = 0
    /\ UNCHANGED <<selection, broken>>

Trimmed(b) == SubSeq(b, 1, Max({0} \cup {k \in 1 .. Len(b) : b[k] # NL}))

\* Ctrl-S.  The buffer is trimmed first; the cursor is clamped only when all
\* the writes have succeeded, and m_cursor_row and m_cursor_col stay.
save_ok ==
    LET b == Trimmed(m_buffer)
    IN  /\ m_buffer' = b
        /\ file' = Known(b)
        /\ m_modified' = FALSE
        /\ m_cursor_pos' = IF m_cursor_pos > Len(b)
                           THEN update_cursor_pos(b, m_cursor_row, m_cursor_col) ELSE m_cursor_pos

\* A mutant of save: a failed save clears m_modified.
save_fails_clean ==
    /\ m_buffer' = Trimmed(m_buffer)
    /\ file' \in {file, Unknown}
    /\ m_modified' = FALSE
    /\ UNCHANGED m_cursor_pos

save_fails ==
    /\ m_buffer' = Trimmed(m_buffer)
    /\ file' \in {file, Unknown}
    /\ UNCHANGED <<m_modified, m_cursor_pos>>

save ==
    /\ m_mode = "NORMAL" /\ KeyStrays(m_cursor_pos > Len(Trimmed(m_buffer)))
    /\ save_ok \/ save_fails
    /\ UNCHANGED <<m_cursor_row, m_cursor_col, m_screen_row, m_mode, selection, m_active, broken>>

-----------------------------------------------------------------------------
\* Keys that change the mode: Esc, i and a, J and K.
escape ==
    /\ Key
    /\ switch_to("NORMAL")
    /\ UNCHANGED <<m_buffer, cursor, m_screen_row, m_active, m_modified, file, broken>>
key_insert ==
    /\ Key /\ m_mode \in {"NORMAL", "VISUAL"}
    /\ switch_to("INSERT")
    /\ UNCHANGED <<m_buffer, cursor, m_screen_row, m_active, m_modified, file, broken>>
key_select ==
    /\ Mode("NORMAL")
    /\ switch_to_visual_mode
    /\ UNCHANGED <<m_buffer, cursor, m_screen_row, m_active, m_modified, file, broken>>

\* s in normal mode: delete_char, then insert mode.
key_s ==
    /\ Mode("NORMAL")
    /\ IF m_cursor_pos < m_buffer_size
       THEN m_buffer' = memmove_down(m_buffer, m_cursor_pos, m_cursor_pos + 1) /\ m_modified' = TRUE
       ELSE UNCHANGED <<m_buffer, m_modified>>
    /\ switch_to("INSERT")
    /\ UNCHANGED <<cursor, m_screen_row, m_active, file, broken>>

key_h ==
    /\ Mode("NORMAL") /\ m_cursor_col > 0
    /\ SetCursor((m_cursor_pos - 1) % (SIZE_MAX + 1), m_cursor_row, m_cursor_col - 1)
    /\ UNCHANGED <<m_buffer, m_screen_row, m_mode, selection, m_active, m_modified, file,
                   broken>>

\* A line that starts at the end of the buffer has the length SIZE_MAX.
key_l ==
    /\ m_mode = "NORMAL" /\ m_cursor_col < get_line_length(m_cursor_row)
    /\ KeyStrays(get_line_length(m_cursor_row) = SIZE_MAX)
    /\ SetCursor((m_cursor_pos + 1) % (SIZE_MAX + 1), m_cursor_row, m_cursor_col + 1)
    /\ UNCHANGED <<m_buffer, m_screen_row, m_mode, selection, m_active, m_modified, file, broken>>

ScrollDown(row) ==
    IF row >= m_screen_row + TERMINAL_HEIGHT - 1 THEN row - TERMINAL_HEIGHT + 2 ELSE m_screen_row

GoTo(row, length) ==
    LET col == IF m_cursor_col > length THEN length ELSE m_cursor_col
    IN  /\ length # SIZE_MAX
        /\ SetCursor(update_cursor_pos(m_buffer, row, col), row, col)
        /\ m_selection_end_row' = IF m_mode = "VISUAL" THEN row ELSE m_selection_end_row
        /\ UNCHANGED <<m_buffer, m_mode, m_has_selection, m_selection_start_row, m_active,
                       m_modified, file, broken>>

\* k and j, in visual mode K and J.
key_up ==
    /\ Key /\ m_mode \in {"NORMAL", "VISUAL"} /\ m_cursor_row > 0
    /\ GoTo(m_cursor_row - 1, get_line_length(m_cursor_row - 1))
    /\ m_screen_row' = IF m_cursor_row' < m_screen_row THEN m_cursor_row' ELSE m_screen_row
key_down ==
    /\ Key /\ m_mode \in {"NORMAL", "VISUAL"}
    /\ GoTo(m_cursor_row + 1, get_line_length(m_cursor_row + 1))
    /\ m_screen_row' = ScrollDown(m_cursor_row')

-----------------------------------------------------------------------------
\* Edits in insert mode.  The cursor has to be inside the buffer.
Inside == m_cursor_pos <= m_buffer_size
Edit(b, p, r, c, s) ==
    \/ /\ Inside
       /\ m_buffer' = b /\ SetCursor(p, r, c) /\ m_screen_row' = s
       /\ m_modified' = TRUE
       /\ UNCHANGED <<m_mode, selection, m_active, file, broken>>
    \/ /\ ~Inside
       /\ broken' = TRUE
       /\ UNCHANGED <<m_buffer, cursor, m_screen_row, m_mode, selection, m_active, m_modified,
                      file>>

\* A mutant of backspace: the column is not computed anew.
column_after_join_old(b, p) == m_cursor_col

column_after_join(b, p) == p - LineStart(b, p)

backspace ==
    LET p == m_cursor_pos - 1
        b == IF Inside THEN memmove_down(m_buffer, p, m_cursor_pos) ELSE m_buffer
        newline == Inside /\ m_buffer[m_cursor_pos] = NL
    IN  /\ Mode("INSERT") /\ m_cursor_pos > 0
        /\ IF newline
           THEN Edit(b, p, m_cursor_row - 1, column_after_join(b, p), m_screen_row)
           ELSE Edit(b, p, m_cursor_row, IF m_cursor_col > 0 THEN m_cursor_col - 1 ELSE 0,
                     m_screen_row)

type_char(ch) ==
    /\ Mode("INSERT") /\ m_buffer_size < MAX_BUFFER_SIZE - 1
    /\ Edit(memmove_up(m_buffer, m_cursor_pos, ch), m_cursor_pos + 1, m_cursor_row,
            m_cursor_col + 1, m_screen_row)

screen_after_newline(row) == ScrollDown(row)

type_newline ==
    /\ Mode("INSERT") /\ m_buffer_size < MAX_BUFFER_SIZE - 1
    /\ Edit(memmove_up(m_buffer, m_cursor_pos, NL), m_cursor_pos + 1, m_cursor_row + 1, 0,
            screen_after_newline(m_cursor_row + 1))

\* A mutant of delete_selection: the newline of the last line goes too.
last_deleted_with_newline(p, n) ==
    Min({m_buffer_size} \cup {q \in p + 1 .. m_buffer_size :
            m_buffer[q] = NL /\ Newlines(m_buffer, q) - Newlines(m_buffer, p) = n})

\* Where the n-th line from the one at p ends: at its newline.
last_deleted(p, n) ==
    Min({m_buffer_size} \cup {q \in p .. m_buffer_size - 1 :
            m_buffer[q + 1] = NL /\ Newlines(m_buffer, q) - Newlines(m_buffer, p) = n - 1})

\* s in visual mode: the selected lines go, up to the newline of the last one.
delete_selection ==
    LET start_row == Min({m_selection_start_row, m_selection_end_row})
        end_row == Max({m_selection_start_row, m_selection_end_row})
        found == Min({m_buffer_size} \cup
                     {p \in 0 .. m_buffer_size : Newlines(m_buffer, p) = start_row})
        start_pos == LineStart(m_buffer, found)
        end_pos == last_deleted(start_pos, end_row - start_row + 1)
    IN  /\ Mode("VISUAL")
        /\ IF end_pos > start_pos
           THEN /\ m_buffer' = memmove_down(m_buffer, start_pos, end_pos)
                /\ SetCursor(start_pos, start_row, 0)
                /\ m_modified' = TRUE
           ELSE UNCHANGED <<m_buffer, cursor, m_modified>>
        /\ switch_to("INSERT")
        /\ UNCHANGED <<m_screen_row, m_active, file, broken>>

Next ==
    \/ \E f \in {None} \cup {Known(b) : b \in File} : open(f)
    \/ close \/ save
    \/ escape \/ key_insert \/ key_select \/ key_s
    \/ key_h \/ key_l \/ key_up \/ key_down
    \/ backspace \/ type_newline \/ delete_selection
    \/ \E ch \in Char : type_char(ch)

Spec == Init /\ [][Next]_vars

-----------------------------------------------------------------------------
\* render: the first byte shown, and the cell of the byte at position p.
first_shown == Max({0} \cup {k \in 1 .. m_buffer_size :
                                m_buffer[k] = NL /\ Newlines(m_buffer, k) <= m_screen_row})

\* A mutant of render: a newline keeps the column.
AfterByte_keeps_column(cell, byte) ==
    IF byte = NL THEN <<cell[1], cell[2] + 1>> ELSE <<cell[1] + 1, cell[2]>>

AfterByte(cell, byte) ==
    IF byte = NL \/ cell[1] + 1 >= TERMINAL_WIDTH THEN <<LINE_NUMBER_WIDTH + 1, cell[2] + 1>>
    ELSE <<cell[1] + 1, cell[2]>>
render(p) ==
    LET cell[q \in first_shown .. m_buffer_size] ==
          IF q = first_shown THEN <<LINE_NUMBER_WIDTH + 1, 0>>
          ELSE AfterByte(cell[q - 1], m_buffer[q])
    IN  cell[p]

\* The cell of the hardware cursor; row - m_screen_row is unsigned.
update_cursor ==
    <<Min({m_cursor_col + LINE_NUMBER_WIDTH + 1, TERMINAL_WIDTH - 1}),
      IF m_cursor_row - m_screen_row \in 0 .. TERMINAL_HEIGHT - 2
      THEN m_cursor_row - m_screen_row ELSE TERMINAL_HEIGHT - 2>>

-----------------------------------------------------------------------------
\* Every variable has its type; the buffer keeps a byte for the final '\0'.
TypeOK ==
    /\ m_buffer \in Seq(Char \cup {NL}) /\ Len(m_buffer) < MAX_BUFFER_SIZE
    /\ m_cursor_pos \in Nat /\ m_cursor_row \in Nat /\ m_cursor_col \in Nat /\ m_screen_row \in Nat
    /\ m_mode \in {"NORMAL", "INSERT", "VISUAL"}
    /\ {m_has_selection, m_active, m_modified, broken} \subseteq BOOLEAN
    /\ {m_selection_start_row, m_selection_end_row} \subseteq Nat /\ drift \in 0 .. MaxDrift

\* Every variable has its type.  Row, column and position say the same and
\* lie inside the buffer, so that no edit moves memory outside it, unless the
\* cursor strayed: by l on an empty last line, or by a save that trimmed the
\* line the cursor was on.  Even then the unsigned row never passes below zero:
\* it is at least the number of newlines before the position, so that there is
\* a row to take away for each newline that backspace deletes.
CursorAgrees ==
    /\ TypeOK
    /\ ~strayed =>
          /\ ~broken
          /\ m_cursor_pos <= m_buffer_size
          /\ m_cursor_row = Newlines(m_buffer, m_cursor_pos)
          /\ m_cursor_col = m_cursor_pos - LineStart(m_buffer, m_cursor_pos)
    /\ ~broken => m_cursor_row >= Newlines(m_buffer, Min({m_cursor_pos, m_buffer_size}))

\* The cursor never leaves the window at the bottom, whatever was typed,
\* deleted or trimmed; and as long as no line fills the width of the screen and
\* the cursor's row is not above the window, the hardware cursor is where
\* render draws the byte at m_cursor_pos.
CursorOnItsByte ==
    /\ m_cursor_row < m_screen_row + TERMINAL_HEIGHT - 1
    /\ (/\ m_active /\ ~strayed /\ m_mode # "VISUAL" /\ m_cursor_row >= m_screen_row
        /\ \A r \in 0 .. m_cursor_row :
              get_line_length(r) \in 0 .. TERMINAL_WIDTH - LINE_NUMBER_WIDTH - 2 \cup {SIZE_MAX})
       => update_cursor = render(m_cursor_pos)

\* A text that is not marked as modified is the file's, newlines at the end
\* apart, unless a save failed half way.
UnmodifiedIsSaved ==
    m_active /\ ~m_modified /\ ~broken =>
        CASE file = Unknown -> TRUE
          [] file = None -> Trimmed(m_buffer) = <<>>
          [] OTHER -> Trimmed(m_buffer) = Trimmed(file.bytes)
=============================================================================
