------------------------------- MODULE Shell -------------------------------
(***************************************************************************)
(* The shell's line input on the screen (kernel/src/shell/shell.cpp): keys *)
(* that edit the line, completion, running a line, and the programs that   *)
(* take over the screen, editor and pager, with screen_state.cpp, which    *)
(* gives it back.  Which command a line runs is left open; CommandLine has *)
(* that part.  `event' names what spoils the memory behind input_buffer or *)
(* the screen; nothing is known afterwards.                                *)
(***************************************************************************)
EXTENDS Terminal, FiniteSetsExt

CONSTANTS
    Key,             \* characters that can be typed, Blank among them
    PROMPT,          \* what print_prompt prints
    CR,              \* '\r', a character like any other to terminal_putchar
    MaxInput,        \* sizeof(input_buffer) - 1
    Entries,         \* the names in the current directory, as they are stored
    Directories,     \* the places of those that are directories
    CD,              \* the command that is completed with directories only
    MaxMatches,      \* entries of tab_matches (16)
    Output,          \* what commands print
    MaxOutcomes      \* bound: commands in a line

\* The characters of a line, and those of a cell.
LineCharacter == Key \cup UNION {Range(e) : e \in Range(Entries)}
Character == LineCharacter \cup Range(PROMPT) \cup {Blank, CR} \cup UNION {Range(o) : o \in Output}

ASSUME ScreenHoldsLine == Len(PROMPT) + MaxInput + VGA_WIDTH <= VGA_WIDTH * VGA_HEIGHT

\* '\n' is a key of its own, and no name has it.
ASSUME Texts ==
    /\ PROMPT \in Seq(Character) /\ Entries \in Seq(Seq(LineCharacter)) /\ Output \subseteq Seq(Character)
    /\ NL \notin LineCharacter \cup Range(PROMPT) \cup {Blank, CR}
    /\ MaxInput \in Nat /\ MaxMatches \in Nat

VARIABLES
    term,            \* the screen
    saved_screen,    \* screen_state
    input_buffer,    \* the first input_pos characters
    tab_matches, current_tab_match,
    script,          \* what the rest of the line does
    editor_active, pager_active,
    before,          \* history: the screen that the shell left to a program
    event

vars == <<term, saved_screen, input_buffer, tab_matches, current_tab_match, script,
          editor_active, pager_active, before, event>>
tabs == <<tab_matches, current_tab_match>>
programs == <<editor_active, pager_active>>

print_prompt(t) == puts(t, PROMPT)
input_pos == Len(input_buffer)

\* init_shell.
Init ==
    /\ term = print_prompt(terminal_putchar(terminal_initialize, NL))
    /\ saved_screen = terminal_initialize
    /\ input_buffer = <<>> /\ tab_matches = <<>> /\ current_tab_match = 0
    /\ script = <<>>
    /\ editor_active = FALSE /\ pager_active = FALSE
    /\ before = terminal_initialize /\ event = "none"

\* A key reaches the shell when no program takes it.
AtPrompt == script = <<>> /\ ~editor_active /\ ~pager_active /\ event = "none"

-----------------------------------------------------------------------------
key_char(c) ==
    /\ AtPrompt /\ input_pos < MaxInput
    /\ input_buffer' = Append(input_buffer, c)
    /\ term' = terminal_putchar(term, c)
    /\ tab_matches' = <<>>
    /\ UNCHANGED <<saved_screen, current_tab_match, script, programs, before, event>>

\* A character when the line is full, or backspace when it is empty.
key_ignored ==
    /\ AtPrompt /\ input_pos \in {0, MaxInput}
    /\ tab_matches' = <<>>
    /\ UNCHANGED <<term, saved_screen, input_buffer, current_tab_match, script, programs, before, event>>

\* A mutant of backspace: it stops at the start of a row.
erase_stops(t) == [t EXCEPT !.column = IF @ = 0 THEN 0 ELSE @ - 1]

\* The column is decremented in 16 bits, below zero at the start of a row.
erase(t) == [t EXCEPT !.column = (@ - 1) % U16]

key_backspace ==
    /\ AtPrompt /\ input_pos > 0
    /\ input_buffer' = SubSeq(input_buffer, 1, input_pos - 1)
    /\ LET t == erase(term) IN term' = terminal_putchar_at(t, Blank, t.column, t.row)
    /\ tab_matches' = <<>>
    /\ UNCHANGED <<saved_screen, current_tab_match, script, programs, before, event>>

-----------------------------------------------------------------------------
\* Completion of the last word.  Matches keep the blanks that fill an entry.
\* `kept': the part of the line before the last word.
kept == SubSeq(input_buffer, 1, Max({0} \cup {i \in 1 .. input_pos : input_buffer[i] = Blank}))
last_word == SubSeq(input_buffer, Len(kept) + 1, input_pos)

command == SubSeq(input_buffer, 1, IF kept = <<>> THEN input_pos ELSE Len(kept) - 1)

matches_word(i) ==
    /\ Len(last_word) <= Len(Entries[i])
    /\ SubSeq(Entries[i], 1, Len(last_word)) = last_word
    /\ command = CD => i \in Directories

find_matches ==
    LET found[i \in 0 .. Len(Entries)] ==
          IF i = 0 THEN <<>>
          ELSE IF Len(found[i - 1]) < MaxMatches /\ matches_word(i)
          THEN Append(found[i - 1], Entries[i]) ELSE found[i - 1]
    IN  found[Len(Entries)]

\* The row is cleared up to the column that '\r' leaves.
clear_row(t) ==
    LET u == terminal_putchar(t, CR)
    IN  IF u.column > VGA_WIDTH THEN [u EXCEPT !.outside = TRUE]
        ELSE [u EXCEPT !.column = 0,
                       !.cells = [i \in Cell |-> IF i \in index(0, u.row) .. cursor(u) - 1
                                                 THEN Blank ELSE @[i]]]

handle_tab_completion ==
    LET continuing == tab_matches # <<>>
        matches == IF continuing THEN tab_matches ELSE find_matches
        n == IF continuing THEN current_tab_match ELSE 0
        line == kept \o matches[n + 1]
        t == clear_row(term)
    IN  /\ AtPrompt /\ last_word # <<>>
        /\ tab_matches' = matches
        /\ IF matches = <<>>
           THEN current_tab_match' = 0 /\ UNCHANGED <<input_buffer, term, event>>
           ELSE /\ input_buffer' = line
                /\ term' = puts(print_prompt(t), line)
                /\ current_tab_match' = (n + 1) % Len(matches)
                /\ event' = IF t.outside THEN "wiped"
                            ELSE IF Len(line) > MaxInput THEN "overflow" ELSE "none"
        /\ UNCHANGED <<saved_screen, script, programs, before>>

-----------------------------------------------------------------------------
\* Enter, and what the commands of the line do in turn: print, start the pager,
\* or the editor, which drops the rest of the line.
key_enter(outcomes) ==
    /\ AtPrompt
    /\ tab_matches' = <<>>
    /\ IF \A i \in 1 .. input_pos : input_buffer[i] = Blank
       THEN /\ term' = print_prompt(terminal_putchar(term, NL))
            /\ input_buffer' = <<>>
            /\ UNCHANGED script
       ELSE /\ term' = terminal_putchar(term, NL)
            /\ script' = outcomes \o <<[kind |-> "end"]>>
            /\ UNCHANGED input_buffer
    /\ UNCHANGED <<saved_screen, current_tab_match, programs, before, event>>

Does(k) == script # <<>> /\ Head(script).kind = k /\ event = "none"

print_output ==
    /\ Does("print")
    /\ term' = puts(term, Head(script).text)
    /\ script' = Tail(script)
    /\ UNCHANGED <<saved_screen, input_buffer, tabs, programs, before, event>>

clear_screen ==
    /\ Does("clear")
    /\ term' = terminal_initialize
    /\ script' = Tail(script)
    /\ UNCHANGED <<saved_screen, input_buffer, tabs, programs, before, event>>

\* A mutant of screen_state::save: the cursor is not kept.
save_cells_only ==
    /\ saved_screen' = [saved_screen EXCEPT !.cells = term.cells]
    /\ before' = IF pager_active THEN before ELSE term
    /\ event' = IF pager_active THEN "nested" ELSE "none"

\* screen_state::save.
save_screen ==
    /\ saved_screen' = term
    /\ before' = IF pager_active THEN before ELSE term
    /\ event' = IF pager_active THEN "nested" ELSE "none"

\* cmd_less: pager::show_text draws a page.
show_text ==
    /\ Does("less")
    /\ save_screen
    /\ \E o \in Output : term' = puts(terminal_initialize, o)
    /\ pager_active' = TRUE
    /\ script' = Tail(script)
    /\ UNCHANGED <<input_buffer, tabs, editor_active>>

\* `edit' forgets the line first.  Without a name or when it cannot open the
\* file it prints a message and the prompt.
cmd_edit ==
    /\ Does("edit")
    /\ input_buffer' = <<>> /\ script' = <<>>
    /\ \/ save_screen /\ editor_active' = TRUE /\ term' = terminal_initialize
       \/ /\ \E o \in Output : term' = print_prompt(puts(term, o))
          /\ save_screen \/ UNCHANGED <<saved_screen, before, event>>
          /\ UNCHANGED editor_active
    /\ UNCHANGED <<tabs, pager_active>>

\* The end of process_command.
end_of_line ==
    /\ Does("end")
    /\ input_buffer' = <<>> /\ script' = <<>>
    /\ term' = IF pager_active THEN term ELSE print_prompt(term)
    /\ UNCHANGED <<saved_screen, tabs, programs, before, event>>

\* The program ends: screen_state::restore and a prompt.
restore == print_prompt(saved_screen)

close_editor ==
    /\ editor_active /\ event = "none"
    /\ editor_active' = FALSE
    /\ term' = restore
    /\ UNCHANGED <<saved_screen, input_buffer, tabs, script, pager_active, before, event>>

clear_pager ==
    /\ pager_active /\ ~editor_active /\ script = <<>> /\ event = "none"
    /\ pager_active' = FALSE
    /\ term' = restore
    /\ UNCHANGED <<saved_screen, input_buffer, tabs, script, editor_active, before, event>>

Outcome == {[kind |-> k] : k \in {"clear", "less", "edit"}}
           \cup {[kind |-> "print", text |-> o] : o \in Output}

Next ==
    \/ \E c \in Key : key_char(c)
    \/ key_ignored \/ key_backspace \/ handle_tab_completion
    \/ \E n \in 0 .. MaxOutcomes : \E o \in [1 .. n -> Outcome] : key_enter(o)
    \/ print_output \/ clear_screen \/ show_text \/ cmd_edit \/ end_of_line
    \/ close_editor \/ clear_pager

Spec == Init /\ [][Next]_vars

-----------------------------------------------------------------------------
\* Every variable has its type.
TypeOK ==
    /\ term.row \in 0 .. VGA_HEIGHT - 1 /\ term.column \in 0 .. U16 - 1
    /\ \A i \in Cell : term.cells[i] \in Character
    /\ Len(tab_matches) <= MaxMatches
    /\ {editor_active, pager_active} \subseteq BOOLEAN

\* The user sees what they are typing: the cells before the cursor are the
\* prompt and the line, also after backspace has crossed the start of a row,
\* after the screen has scrolled, and after a completion; and nothing but a
\* completion after such a backspace writes outside the screen.
ScreenShowsLine ==
    /\ TypeOK
    /\ term.outside => event = "wiped"
    /\ AtPrompt =>
          LET shown == PROMPT \o input_buffer
              c == cursor(term)
          IN  /\ c \in Cell
              /\ \A i \in 1 .. Len(shown) :
                    c - i >= 0 => term.cells[c - i] = shown[Len(shown) + 1 - i]

\* When editor or pager end, the screen is as the command found it, and a
\* prompt; the exception is a line that starts one after the pager.
ScreenComesBack ==
    [][(editor_active \/ pager_active) /\ ~editor_active' /\ ~pager_active'
            => term' = print_prompt(before)]_vars
=============================================================================
