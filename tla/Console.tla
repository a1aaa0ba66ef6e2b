------------------------------ MODULE Console ------------------------------
(***************************************************************************)
(* The text console: the terminal driver (kernel/arch/i386/drivers/tty.cpp)*)
(* under the line input and the command loop of the shell (shell.cpp).     *)
(*                                                                         *)
(* A step puts one character on the screen, as terminal_putchar and        *)
(* terminal_write do under tty_lock (the lock is in module Sched).  Colours*)
(* are left out; the text that a command prints is any of Texts.           *)
(***************************************************************************)
EXTENDS Integers, Sequences

CONSTANTS
    VGA_WIDTH, VGA_HEIGHT,      \* 80, 25
    MAX_LEN,                    \* the size of the shell's line buffer, 128
    NL, BS, SPACE, NUL,         \* '\n', '\b', ' ', '\0'
    Keys,                       \* what keyboard_getchar returns; never NUL
    Prompt,                     \* "kevos> "
    Texts,                      \* what the commands print
    Clear, Echo, Setcolor,      \* the names of these three commands
    Halts                       \* those of exit, quit and reboot

ASSUME ScreenAssumption ==
    /\ VGA_WIDTH \in Nat \ {0} /\ VGA_HEIGHT \in Nat \ {0, 1}
    /\ MAX_LEN \in Nat \ {0, 1}
    /\ Len(Prompt) + MAX_LEN - 1 < VGA_WIDTH * VGA_HEIGHT - VGA_WIDTH
ASSUME CharAssumption ==
    /\ NUL \notin Keys
    /\ NL # BS /\ SPACE \notin {NL, BS, NUL}
    /\ \A k \in 1 .. Len(Prompt) : Prompt[k] \notin {NL, BS}

\* What can be in a text.
Chars == Keys \cup {NUL, SPACE, NL} \cup
         UNION {{t[k] : k \in 1 .. Len(t)} : t \in Texts \cup {Prompt}}
ASSUME TextAssumption == Prompt \in Seq(Chars) /\ Texts \subseteq Seq(Chars)

Cells == 0 .. VGA_WIDTH * VGA_HEIGHT - 1

VARIABLES
    terminal_row, terminal_column,
    terminal_buffer,    \* the characters of the VGA text buffer
    cursor,             \* the position register of the VGA controller
    buffer, i,          \* the line buffer of shell_main; i of shell_readline
    pc,
    out                 \* the text still to be printed before pc goes on

terminal == <<terminal_row, terminal_column, terminal_buffer, cursor>>
vars == <<terminal, buffer, i, pc, out>>

\* terminal_initialize has run; kernel_main and shell_main print their messages
\* before the first prompt.
Init ==
    /\ terminal_row = 0 /\ terminal_column = 0
    /\ terminal_buffer = [k \in Cells |-> SPACE]
    /\ cursor = 0
    /\ buffer = [k \in 0 .. MAX_LEN - 1 |-> NUL]
    /\ i = 0
    /\ pc = "prompt"
    /\ out \in Texts
----------------------------------------------------------------------------
(* tty.cpp *)

\* Every row moves up; the last one is cleared.
terminal_scroll(b) ==
    [k \in Cells |-> IF k + VGA_WIDTH \in Cells THEN b[k + VGA_WIDTH] ELSE SPACE]

Index(row, column) == row * VGA_WIDTH + column

update_cursor == cursor' = Index(terminal_row', terminal_column')

\* The beginning of the next row, with b on the screen.
NextRow(b) ==
    /\ terminal_column' = 0
    /\ IF terminal_row + 1 = VGA_HEIGHT
         THEN terminal_buffer' = terminal_scroll(b) /\ terminal_row' = VGA_HEIGHT - 1
         ELSE terminal_buffer' = b /\ terminal_row' = terminal_row + 1

put_newline == NextRow(terminal_buffer) /\ update_cursor

\* Mutant: a backspace stays in its row.
put_backspace_SameRow ==
    /\ terminal_row' = terminal_row
    /\ terminal_column' = IF terminal_column > 0 THEN terminal_column - 1 ELSE 0
    /\ terminal_buffer' =
         [terminal_buffer EXCEPT ![Index(terminal_row', terminal_column')] = SPACE]
    /\ update_cursor

\* One cell back, into the row above when at its beginning, and erase.
put_backspace ==
    /\ IF terminal_column > 0
         THEN terminal_column' = terminal_column - 1 /\ UNCHANGED terminal_row
       ELSE IF terminal_row > 0
         THEN terminal_row' = terminal_row - 1 /\ terminal_column' = VGA_WIDTH - 1
       ELSE UNCHANGED <<terminal_row, terminal_column>>
    /\ terminal_buffer' =
         [terminal_buffer EXCEPT ![Index(terminal_row', terminal_column')] = SPACE]
    /\ update_cursor

\* Mutant: the row is left one character too late.
put_glyph_OffByOne(c) ==
    LET b == [terminal_buffer EXCEPT ![Index(terminal_row, terminal_column)] = c] IN
    /\ IF terminal_column = VGA_WIDTH
         THEN NextRow(b)
         ELSE /\ terminal_column' = terminal_column + 1
              /\ terminal_buffer' = b
              /\ UNCHANGED terminal_row
    /\ update_cursor

put_glyph(c) ==
    LET b == [terminal_buffer EXCEPT ![Index(terminal_row, terminal_column)] = c] IN
    /\ IF terminal_column + 1 = VGA_WIDTH
         THEN NextRow(b)
         ELSE /\ terminal_column' = terminal_column + 1
              /\ terminal_buffer' = b
              /\ UNCHANGED terminal_row
    /\ update_cursor

terminal_putchar(c) ==
    \/ c = NL /\ put_newline
    \/ c = BS /\ put_backspace
    \/ c \notin {NL, BS} /\ put_glyph(c)

terminal_initialize ==
    /\ terminal_row' = 0 /\ terminal_column' = 0
    /\ terminal_buffer' = [k \in Cells |-> SPACE]
    /\ update_cursor
----------------------------------------------------------------------------
(* shell.cpp *)

\* printf(text), and then on to pc = to.
Printing(text, to) == out' = text /\ pc' = to

\* The next character of the text that is being printed.
print ==
    /\ out # << >>
    /\ terminal_putchar(Head(out))
    /\ out' = Tail(out)
    /\ UNCHANGED <<buffer, i, pc>>

At(at) == pc = at /\ out = << >>

\* printf("kevos> "), and i = 0 in shell_readline.
prompt ==
    /\ At("prompt")
    /\ Printing(Prompt, "read")
    /\ i' = 0
    /\ UNCHANGED <<terminal, buffer>>

\* The loop of shell_readline ends at a newline or with a full buffer, and the
\* string is closed.
Close(b, n) == [b EXCEPT ![n] = NUL]

\* Mutant: the string is not closed.
read_newline_Open(c) ==
    /\ c = NL
    /\ terminal_putchar(NL)
    /\ pc' = "execute"
    /\ UNCHANGED <<buffer, i>>

read_newline(c) ==
    /\ c = NL
    /\ terminal_putchar(NL)
    /\ buffer' = Close(buffer, i)
    /\ pc' = "execute"
    /\ UNCHANGED i

read_backspace(c) ==
    /\ c = BS
    /\ IF i > 0 THEN i' = i - 1 /\ terminal_putchar(BS)
                ELSE UNCHANGED <<i, terminal>>
    /\ UNCHANGED <<buffer, pc>>

read_char(c) ==
    /\ c \notin {NL, BS}
    /\ terminal_putchar(c)
    /\ i' = i + 1
    /\ IF i + 1 < MAX_LEN - 1
         THEN buffer' = [buffer EXCEPT ![i] = c] /\ UNCHANGED pc
         ELSE buffer' = Close([buffer EXCEPT ![i] = c], i + 1) /\ pc' = "execute"

\* One round of shell_readline, for the next key that keyboard_getchar returns.
shell_readline(c) ==
    /\ At("read")
    /\ read_newline(c) \/ read_backspace(c) \/ read_char(c)
    /\ UNCHANGED out

\* The C string that begins at index from of b.
StringAt(b, from) ==
    LET end == CHOOSE n \in from .. MAX_LEN - 1 :
                   b[n] = NUL /\ \A m \in from .. n - 1 : b[m] # NUL
    IN [k \in 1 .. end - from |-> b[from + k - 1]]

Line == StringAt(buffer, 0)

\* The first space of the line, which shell_execute overwrites with NUL.
Spaces == {k \in 1 .. Len(Line) : Line[k] = SPACE}
Cut == CHOOSE k \in Spaces : \A j \in Spaces : k <= j
cmd == IF Spaces = {} THEN Line ELSE SubSeq(Line, 1, Cut - 1)
args == IF Spaces = {} THEN << >> ELSE SubSeq(Line, Cut + 1, Len(Line))

\* Where the line is cut: setcolor puts another NUL at the first space of its arguments.
Cuts ==
    IF Spaces = {} THEN {}
    ELSE {Cut} \cup {k \in Spaces : /\ cmd = Setcolor /\ k > Cut
                                    /\ \A j \in Spaces : j > Cut => k <= j}

\* shell_execute, and the printf("\n") that follows it in shell_main.
shell_execute ==
    /\ At("execute")
    /\ buffer' = [k \in 0 .. MAX_LEN - 1 |-> IF k + 1 \in Cuts THEN NUL ELSE buffer[k]]
    /\ \/ /\ Line = << >>
          /\ Printing(<<NL>>, "prompt") /\ UNCHANGED terminal
       \/ /\ Line # << >> /\ cmd = Clear
          /\ terminal_initialize /\ Printing(<<NL>>, "prompt")
       \/ /\ Line # << >> /\ cmd = Echo
          /\ Printing(args \o <<NL, NL>>, "prompt") /\ UNCHANGED terminal
       \/ /\ Line # << >> /\ cmd \in Halts
          /\ \E t \in Texts : Printing(t, "halted")
          /\ UNCHANGED terminal
       \/ /\ Line # << >> /\ cmd \notin {Clear, Echo} \cup Halts
          /\ \E t \in Texts : Printing(t \o <<NL>>, "prompt")
          /\ UNCHANGED terminal
    /\ UNCHANGED i

\* for (;;) hlt
halted == At("halted") /\ UNCHANGED vars

Next ==
    \/ print
    \/ prompt
    \/ \E c \in Keys : shell_readline(c)
    \/ shell_execute
    \/ halted

Spec == Init /\ [][Next]_vars
----------------------------------------------------------------------------
\* Every variable has its type; the cursor is on the screen and i in the buffer.
TypeOK ==
    /\ terminal_row \in 0 .. VGA_HEIGHT - 1
    /\ terminal_column \in 0 .. VGA_WIDTH - 1
    /\ terminal_buffer \in [Cells -> Chars]
    /\ cursor \in Cells
    /\ buffer \in [0 .. MAX_LEN - 1 -> Chars]
    /\ i \in 0 .. MAX_LEN - 1
    /\ pc \in {"prompt", "read", "execute", "halted"}
    /\ out \in Seq(Chars)

\* What the user should see before the cursor while a line is being read.
Shown == Prompt \o [k \in 1 .. i |-> buffer[k - 1]]

\* From the cursor on the screen is blank, whatever was printed, scrolled or erased.
BlankAhead == \A k \in Cells : k >= cursor => terminal_buffer[k] = SPACE

\* While shell_readline waits for a key, the cells before the blinking cursor show
\* the prompt and exactly the characters in the line buffer, also when the
\* line has wrapped, scrolled the screen or been edited across a row's end; and
\* nothing that was printed, scrolled away or erased is ever left beyond the cursor.
EchoMatches ==
    /\ At("read") =>
         \A k \in 1 .. Len(Shown) :
             LET cell == cursor - Len(Shown) + k - 1 IN
             cell \in Cells /\ terminal_buffer[cell] = Shown[k]
    /\ BlankAhead

\* shell_execute gets the line that was read, and nothing that an earlier, longer
\* line left behind in the same buffer.
CommandIsLine == At("execute") => Line = [k \in 1 .. i |-> buffer[k - 1]]
============================================================================
