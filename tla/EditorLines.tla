---------------------------- MODULE EditorLines -----------------------------
(***************************************************************************)
(* The editor's buffer (Editor) as the lines with a cursor of LineEditor.  *)
(***************************************************************************)
EXTENDS Editor, SequencesExt

\* The buffer with its cursor is a text of lines with a cursor: every key does
\* to m_buffer, m_cursor_pos, m_cursor_row and m_cursor_col what LineEditor
\* says it does to the lines.
Lines ==
    LET ends == SetToSortSeq({k \in 1 .. m_buffer_size : m_buffer[k] = NL}, <) \o <<m_buffer_size + 1>>
    IN  [i \in 1 .. Len(ends) |-> SubSeq(m_buffer, IF i = 1 THEN 1 ELSE ends[i - 1] + 1, ends[i] - 1)]
Abstract == INSTANCE LineEditor WITH
    lines <- Lines, row <- m_cursor_row, col <- m_cursor_col, mode <- m_mode,
    anchor <- m_selection_start_row, opened <- m_active, lost <- strayed
IsLineEditor == Abstract!Spec
=============================================================================
