---------------------------- MODULE CommandLine ----------------------------
(***************************************************************************)
(* What a line typed at the prompt runs: process_command (shell.cpp) cuts  *)
(* it in place at ';' and at the first blank of each command, and writes   *)
(* the value of an alias over the name (alias.cpp); the line goes to the   *)
(* history file first (history.cpp).  A command may change the file of     *)
(* aliases.  `event' names the ways in which the code, by design, does not *)
(* run what the line and the file say.                                     *)
(***************************************************************************)
EXTENDS Integers, SequencesExt

CONSTANTS
    NUL, Line,          \* the end of a string; the lines that are typed
    BUFFER_SIZE,        \* sizeof(input_buffer)
    FORMAT,             \* "%s %s", what snprintf copies instead of its arguments
    EDIT,               \* the name of the command that ends the line
    Config,             \* states of /shell/config: whether it exists, and its lines
                        \* [name, value], the name empty for a line without '='
    MAX_ALIASES,        \* entries of `aliases' (100)
    HISTORY_SIZE,       \* the buffer of append_to_history_file (4096)
    MaxTyped            \* bound: characters typed, the Enter keys included

VARIABLES
    input_buffer, current_cmd,   \* the line being run, from current_cmd on
    running,
    config, aliases, last_file_size,
    history,                     \* /shell/history, line by line
    entered, ran, wanted, todo,  \* history: lines typed; commands of the line that
                                 \* ran, should have run, and are still to come
    event

vars == <<input_buffer, current_cmd, running, config, aliases, last_file_size,
          history, entered, ran, wanted, todo, event>>

-----------------------------------------------------------------------------
\* Strings in the buffer: from p to the first NUL.
Ends(b, p) == {i \in p .. BUFFER_SIZE - 1 : b[i] = NUL}
str(b, p) ==
    LET e == CHOOSE i \in Ends(b, p) : \A j \in Ends(b, p) : i <= j
    IN  [i \in 1 .. e - p |-> b[p + i - 1]]

\* The index of c in s, 0 when it is not there (strchr).
strchr(s, c) == SelectInSeq(s, LAMBDA x : x = c)

cut(b, i) == [b EXCEPT ![i] = NUL]
strncpy(b, p, s) == [i \in DOMAIN b |-> IF i \in p .. p + Len(s) - 1 THEN s[i - p + 1] ELSE b[i]]

\* A command and its arguments, cut at the first blank; <<>> stands for a
\* null pointer and <<a>> for the string a.
split_args(s) ==
    LET i == strchr(s, " ")
    IN  IF i = 0 THEN [cmd |-> s, args |-> <<>>]
        ELSE [cmd |-> SubSeq(s, 1, i - 1), args |-> <<SubSeq(s, i + 1, Len(s))>>]

skip_blanks(s) ==
    LET i == SelectInSeq(s, LAMBDA x : x # " ") IN IF i = 0 THEN Len(s) ELSE i - 1

\* The line without its trailing blanks.
trim(s) == SubSeq(s, 1, SelectLastInSeq(s, LAMBDA x : x # " "))

-----------------------------------------------------------------------------
load_aliases(c) ==
    LET T == SelectSeq(c.lines, LAMBDA l : l.name # <<>>)
    IN  SubSeq(T, 1, IF Len(T) < MAX_ALIASES THEN Len(T) ELSE MAX_ALIASES)

file_size(c) == FoldLeft(LAMBDA n, l : n + Len(l.name) + Len(l.value) + 2, 0, c.lines)

\* The first entry of that name, as <<value>>; <<>> when there is none.
find_alias(T, name) ==
    LET i == SelectInSeq(T, LAMBDA l : l.name = name) IN IF i = 0 THEN <<>> ELSE <<T[i].value>>

\* get_alias loads the file again when its size is another one.
get_aliases(c, size, T) ==
    IF c.exists /\ file_size(c) # size THEN load_aliases(c) ELSE T

bytes(hist) == FoldLeft(LAMBDA n, l : n + Len(l) + 1, 0, hist)

\* A mutant of append_to_history_file: the size is not tested.
append_unbounded(hist, s) == Append(hist, s)

\* The history file has room for the line, '\n' and the end of the string.
append_to_history_file(hist, s) ==
    IF bytes(hist) + Len(s) + 2 < HISTORY_SIZE THEN Append(hist, s) ELSE hist

-----------------------------------------------------------------------------
\* What a line means: the commands between its ';', blanks before them skipped.
Pieces(s) ==
    FoldLeft(LAMBDA acc, c : IF c = ";" THEN Append(acc, <<>>)
                             ELSE [acc EXCEPT ![Len(acc)] = Append(@, c)], <<<<>>>>, s)
Stripped(s) == SubSeq(s, skip_blanks(s) + 1, Len(s))
Commands(s) == SelectSeq([i \in DOMAIN Pieces(s) |-> Stripped(Pieces(s)[i])], LAMBDA p : p # <<>>)

\* What a command means: its name replaced by the alias the file gives it.
Meaning(piece, T) ==
    LET c == split_args(piece)
        v == find_alias(T, c.cmd)
    IN  IF v = <<>> THEN c
        ELSE split_args(v[1] \o (IF c.args = <<>> THEN <<>> ELSE <<" ">> \o c.args[1]))

-----------------------------------------------------------------------------
Init ==
    /\ input_buffer = [i \in 0 .. BUFFER_SIZE - 1 |-> NUL]
    /\ current_cmd = 0 /\ running = FALSE
    /\ config \in Config /\ config.exists
    /\ aliases = load_aliases(config) /\ last_file_size = 0
    /\ history = <<>> /\ entered = <<>> /\ ran = <<>> /\ wanted = <<>> /\ todo = <<>>
    /\ event = "none"

\* process_command up to its loop.
enter ==
    /\ ~running /\ event # "overflow" /\ bytes(entered) < MaxTyped
    /\ \E s \in {trim(l) : l \in {l \in Line : bytes(entered) + Len(l) < MaxTyped}} :
          /\ entered' = Append(entered, s)
          /\ ran' = <<>> /\ wanted' = <<>> /\ todo' = Commands(s) /\ event' = "none"
          /\ IF s = <<>> THEN UNCHANGED <<input_buffer, current_cmd, running, history>>
             ELSE /\ input_buffer' = strncpy(input_buffer, 0, s)
                  /\ current_cmd' = 0 /\ running' = TRUE
                  /\ history' = append_to_history_file(history, s)
    /\ UNCHANGED <<config, aliases, last_file_size>>

\* The end of process_command: the buffer is zeroed.
finish ==
    /\ running' = FALSE /\ current_cmd' = 0
    /\ input_buffer' = [i \in DOMAIN input_buffer |-> NUL]

\* A mutant of the loop: the character behind the ';' is skipped.
continue_skips_separator(b, p, rest) ==
    IF rest = 0 \/ p + rest + 1 >= BUFFER_SIZE \/ b[p + rest + 1] = NUL THEN finish
    ELSE current_cmd' = p + rest + 1 /\ input_buffer' = b /\ UNCHANGED running

\* The loop goes on behind the ';' if there was one and the rest is not empty.
continue(b, p, rest) ==
    IF rest = 0 \/ b[p + rest] = NUL THEN finish
    ELSE current_cmd' = p + rest /\ input_buffer' = b /\ UNCHANGED running

\* One round of the loop that finds only blanks before the ';' or the end.
skip_empty ==
    LET whole == str(input_buffer, current_cmd)
        semi == strchr(whole, ";")
        b == IF semi = 0 THEN input_buffer ELSE cut(input_buffer, current_cmd + semi - 1)
        s == str(b, current_cmd)
    IN  /\ running /\ skip_blanks(s) = Len(s)
        /\ continue(b, current_cmd, semi)
        /\ UNCHANGED <<config, aliases, last_file_size, history, entered, ran, wanted, todo, event>>

\* One round that runs a command, which may leave another file of aliases.
\* An alias is written over the command without an end of string.
run_command(after) ==
    LET whole == str(input_buffer, current_cmd)
        semi == strchr(whole, ";")
        b0 == IF semi = 0 THEN input_buffer ELSE cut(input_buffer, current_cmd + semi - 1)
        s0 == str(b0, current_cmd)
        p == current_cmd + skip_blanks(s0)
        c0 == split_args(str(b0, p))
        b1 == IF c0.args = <<>> THEN b0 ELSE cut(b0, p + Len(c0.cmd))
        T == get_aliases(config, last_file_size, aliases)
        alias == find_alias(T, c0.cmd)
        expanded == IF c0.args = <<>> THEN alias[1] ELSE FORMAT
        b2 == IF alias = <<>> THEN b1 ELSE strncpy(b1, p, expanded)
        fits == alias = <<>> \/ p + Len(expanded) < BUFFER_SIZE
        c == IF alias = <<>> THEN c0 ELSE split_args(str(b2, p))
        b3 == IF alias = <<>> \/ c.args = <<>> THEN b2 ELSE cut(b2, p + Len(c.cmd))
        unseen == ~config.exists \/ file_size(config) = last_file_size
        lookup == IF unseen /\ alias # find_alias(load_aliases(config), c0.cmd) THEN "stale"
                  ELSE IF alias = <<>> THEN event
                  ELSE IF c0.args # <<>> THEN "format"
                  ELSE IF Len(expanded) < Len(c0.cmd) THEN "short"
                  ELSE IF Len(expanded) > Len(c0.cmd) /\ semi # 0 THEN "long"
                  ELSE event
    IN  /\ running /\ event # "overflow" /\ skip_blanks(s0) < Len(s0)
        /\ aliases' = T
        /\ last_file_size' = IF config.exists THEN file_size(config) ELSE last_file_size
        /\ IF fits
           THEN /\ event' = IF event = "none" THEN lookup ELSE event
                /\ ran' = Append(ran, c)
                /\ wanted' = IF todo = <<>> THEN wanted
                             ELSE Append(wanted, Meaning(Head(todo), load_aliases(config)))
                /\ todo' = IF todo = <<>> THEN <<>> ELSE Tail(todo)
                /\ IF c.cmd = EDIT THEN finish ELSE continue(b3, current_cmd, semi)
                /\ config' = after
           ELSE /\ event' = "overflow"
                /\ UNCHANGED <<ran, wanted, todo, input_buffer, current_cmd, running, config>>
        /\ UNCHANGED <<history, entered>>

Next ==
    \/ enter
    \/ skip_empty
    \/ \E c \in Config : run_command(c)

Spec == Init /\ [][Next]_vars

-----------------------------------------------------------------------------
\* The commands that run are the ones the line and the file of aliases mean,
\* in order and all of them (`edit' drops the rest of the line), unless an
\* alias does not fit the place of its name or the file changed unseen.
RunsTheLine ==
    event = "none" =>
        /\ ran = wanted
        /\ ~running => todo = <<>> \/ (ran # <<>> /\ Last(ran).cmd = EDIT)

\* The history file has the lines as they were typed and in order; while
\* there is room for all it has all of them.  It never outgrows the buffer
\* that it is read into.
HistoryKeepsLines ==
    LET typed == SelectSeq(entered, LAMBDA s : s # <<>>)
    IN  /\ bytes(history) < HISTORY_SIZE
        /\ bytes(typed) + 1 < HISTORY_SIZE => history = typed
        /\ \E f \in [DOMAIN history -> DOMAIN typed] :
              \A i \in DOMAIN history : /\ history[i] = typed[f[i]]
                                        /\ i > 1 => f[i - 1] < f[i]
=============================================================================
