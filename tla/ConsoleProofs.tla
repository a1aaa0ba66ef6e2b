--------------------------- MODULE ConsoleProofs ---------------------------
(***************************************************************************)
(* What holds of the text console for every size of screen and line buffer *)
(* that the prompt and a full line fit on, and for every text.             *)
(***************************************************************************)
EXTENDS Console, SequenceTheorems, WellFoundedInduction, TLAPS

LEMMA Sizes ==
    /\ VGA_WIDTH \in Nat /\ VGA_WIDTH > 0 /\ VGA_HEIGHT \in Nat /\ VGA_HEIGHT > 1
    /\ MAX_LEN \in Nat /\ MAX_LEN > 1
    /\ VGA_WIDTH * VGA_HEIGHT \in Nat /\ VGA_WIDTH < VGA_WIDTH * VGA_HEIGHT
    /\ Prompt \in Seq(Chars) /\ Len(Prompt) \in Nat
    /\ Len(Prompt) + MAX_LEN - 1 < VGA_WIDTH * VGA_HEIGHT - VGA_WIDTH
    /\ {NUL, SPACE, NL} \subseteq Chars /\ Keys \subseteq Chars
<1>1. /\ VGA_WIDTH \in Nat /\ VGA_WIDTH > 0 /\ VGA_HEIGHT \in Nat /\ VGA_HEIGHT > 1
      /\ MAX_LEN \in Nat /\ MAX_LEN > 1
      /\ Len(Prompt) + MAX_LEN - 1 < VGA_WIDTH * VGA_HEIGHT - VGA_WIDTH
  BY ScreenAssumption
<1>2. VGA_WIDTH * VGA_HEIGHT \in Nat
  BY <1>1
<1>3. VGA_WIDTH * 2 <= VGA_WIDTH * VGA_HEIGHT
  BY <1>1
<1>4. Prompt \in Seq(Chars) /\ Len(Prompt) \in Nat
  BY TextAssumption, LenProperties
<1> QED
  BY <1>1, <1>2, <1>3, <1>4 DEF Chars

\* Where row and column are on the screen, counted from its first cell.
LEMMA IndexFacts ==
    ASSUME NEW r \in 0 .. VGA_HEIGHT - 1, NEW c \in 0 .. VGA_WIDTH - 1
    PROVE  /\ Index(r, c) \in Cells /\ c <= Index(r, c)
           /\ r = VGA_HEIGHT - 1 => Index(r, c) = VGA_WIDTH * VGA_HEIGHT - VGA_WIDTH + c
           /\ r # VGA_HEIGHT - 1 => Index(r + 1, 0) = Index(r, c) + VGA_WIDTH - c
           /\ r > 0 => Index(r - 1, VGA_WIDTH - 1) = Index(r, 0) - 1
           /\ r = 0 => Index(r, c) = c
<1> DEFINE W == VGA_WIDTH
           H == VGA_HEIGHT
<1>1. /\ W \in Nat /\ H \in Nat /\ W > 0 /\ H > 1 /\ r \in Nat /\ c \in Nat /\ c < W /\ r < H
      /\ W * H \in Nat
  BY Sizes
<1>2. r * W \in Nat /\ (r + 1) * W = r * W + W /\ W * H = H * W
  BY <1>1
<1>3. (r + 1) * W <= H * W
  BY <1>1
<1>4. r = H - 1 => H * W = r * W + W
  BY <1>1, <1>2
<1>5. r > 0 => (r - 1) * W = r * W - W
  BY <1>1
<1>6. r = 0 => r * W = 0
  BY <1>1
<1> HIDE DEF W, H
<1>7. /\ r * W + c \in 0 .. W * H - 1 /\ c <= r * W + c
      /\ r = H - 1 => r * W + c = W * H - W + c
      /\ r # H - 1 => (r + 1) * W + 0 = (r * W + c) + W - c
      /\ r > 0 => (r - 1) * W + (W - 1) = (r * W + 0) - 1
      /\ r = 0 => r * W + c = c
  BY <1>1, <1>2, <1>3, <1>4, <1>5, <1>6
<1> QED
  BY <1>7 DEF Index, Cells, W, H
----------------------------------------------------------------------------
(* The screen *)

\* The terminal between two characters.
Screen ==
    /\ terminal_row \in 0 .. VGA_HEIGHT - 1
    /\ terminal_column \in 0 .. VGA_WIDTH - 1
    /\ terminal_buffer \in [Cells -> Chars]
    /\ cursor = Index(terminal_row, terminal_column)
    /\ BlankAhead

LEMMA ScreenCells ==
    ASSUME Screen
    PROVE  cursor \in Cells /\ cursor \in Nat /\ cursor < VGA_WIDTH * VGA_HEIGHT
BY IndexFacts, Sizes DEF Screen, Cells

\* The beginning of the next row, when b is blank from the old row's end on.
LEMMA NextRowEffect ==
    ASSUME Screen, NEW b \in [Cells -> Chars], NextRow(b), update_cursor,
           \A k \in Cells : k > cursor => b[k] = SPACE
    PROVE  /\ Screen'
           /\ \/ cursor' = cursor + VGA_WIDTH - terminal_column /\ terminal_buffer' = b
              \/ /\ cursor' = VGA_WIDTH * VGA_HEIGHT - VGA_WIDTH
                 /\ cursor = VGA_WIDTH * VGA_HEIGHT - VGA_WIDTH + terminal_column
                 /\ \A k \in Cells : terminal_buffer'[k] =
                      IF k + VGA_WIDTH \in Cells THEN b[k + VGA_WIDTH] ELSE SPACE
<1>1. /\ terminal_row \in 0 .. VGA_HEIGHT - 1 /\ terminal_column \in 0 .. VGA_WIDTH - 1
      /\ cursor = Index(terminal_row, terminal_column) /\ cursor \in Nat
      /\ VGA_HEIGHT \in Nat /\ VGA_HEIGHT > 1 /\ VGA_WIDTH \in Nat /\ VGA_WIDTH > 0
      /\ terminal_row \in Nat /\ terminal_column \in Nat /\ terminal_column < VGA_WIDTH
      /\ VGA_WIDTH * VGA_HEIGHT \in Nat
  BY ScreenCells, Sizes DEF Screen
<1>2. /\ terminal_column' = 0 /\ terminal_column' \in 0 .. VGA_WIDTH - 1
      /\ cursor' = Index(terminal_row', terminal_column')
  BY <1>1 DEF NextRow, update_cursor
<1>3. CASE terminal_row + 1 = VGA_HEIGHT
  <2>1. terminal_buffer' = terminal_scroll(b) /\ terminal_row' = VGA_HEIGHT - 1
    BY <1>3 DEF NextRow
  <2>2. terminal_row' \in 0 .. VGA_HEIGHT - 1 /\ terminal_row = VGA_HEIGHT - 1
    BY <1>1, <1>3, <2>1
  <2>3. /\ cursor = VGA_WIDTH * VGA_HEIGHT - VGA_WIDTH + terminal_column
        /\ cursor' = VGA_WIDTH * VGA_HEIGHT - VGA_WIDTH
    <3>1. 0 \in 0 .. VGA_WIDTH - 1
      BY <1>1
    <3>2. Index(terminal_row, 0) = VGA_WIDTH * VGA_HEIGHT - VGA_WIDTH + 0
      BY <2>2, <3>1, IndexFacts
    <3> QED
      BY <1>1, <1>2, <2>1, <2>2, <3>2, IndexFacts
  <2>4. /\ \A k \in Cells : terminal_buffer'[k] =
                IF k + VGA_WIDTH \in Cells THEN b[k + VGA_WIDTH] ELSE SPACE
        /\ terminal_buffer' \in [Cells -> Chars]
    BY <2>1, Sizes DEF terminal_scroll
  <2>5. \A k \in Cells : k >= cursor' => terminal_buffer'[k] = SPACE
    BY <1>1, <2>3, <2>4 DEF Cells
  <2> QED
    BY <1>2, <2>2, <2>3, <2>4, <2>5 DEF Screen, BlankAhead
<1>4. CASE terminal_row + 1 # VGA_HEIGHT
  <2>1. terminal_buffer' = b /\ terminal_row' = terminal_row + 1
    BY <1>4 DEF NextRow
  <2>2. terminal_row' \in 0 .. VGA_HEIGHT - 1 /\ terminal_row # VGA_HEIGHT - 1
    BY <1>1, <1>4, <2>1
  <2>3. cursor' = cursor + VGA_WIDTH - terminal_column
    BY <1>1, <1>2, <2>1, <2>2, IndexFacts
  <2>4. cursor' \in Nat /\ cursor' > cursor
    BY <1>1, <2>3
  <2>5. \A k \in Cells : k >= cursor' => terminal_buffer'[k] = SPACE
    BY <1>1, <2>1, <2>4 DEF Cells
  <2> QED
    BY <1>2, <2>1, <2>2, <2>3, <2>5 DEF Screen, BlankAhead
<1> QED
  BY <1>3, <1>4

\* A character is put at the cursor, which goes on by one cell, or the screen scrolls
\* and the cursor is at the beginning of the last row.
LEMMA GlyphEffect ==
    ASSUME Screen, NEW c \in Chars, put_glyph(c)
    PROVE  /\ Screen'
           /\ \/ /\ cursor' = cursor + 1
                 /\ \A k \in Cells : terminal_buffer'[k] = IF k = cursor THEN c ELSE terminal_buffer[k]
              \/ /\ cursor + 1 = VGA_WIDTH * VGA_HEIGHT
                 /\ cursor' = VGA_WIDTH * VGA_HEIGHT - VGA_WIDTH
                 /\ \A k \in Cells : k + VGA_WIDTH \in Cells =>
                      terminal_buffer'[k] = IF k + VGA_WIDTH = cursor THEN c
                                            ELSE terminal_buffer[k + VGA_WIDTH]
<1> DEFINE b == [terminal_buffer EXCEPT ![cursor] = c]
<1>1. /\ cursor \in Cells /\ cursor \in Nat /\ cursor = Index(terminal_row, terminal_column)
      /\ terminal_row \in 0 .. VGA_HEIGHT - 1 /\ terminal_column \in 0 .. VGA_WIDTH - 1
      /\ terminal_buffer \in [Cells -> Chars]
      /\ VGA_WIDTH \in Nat /\ VGA_WIDTH > 0 /\ VGA_HEIGHT \in Nat /\ VGA_WIDTH * VGA_HEIGHT \in Nat
  BY ScreenCells, Sizes DEF Screen
<1>2. /\ b \in [Cells -> Chars]
      /\ \A k \in Cells : b[k] = IF k = cursor THEN c ELSE terminal_buffer[k]
  BY <1>1
<1>3. /\ IF terminal_column + 1 = VGA_WIDTH
           THEN NextRow(b)
           ELSE terminal_column' = terminal_column + 1 /\ terminal_buffer' = b
                /\ UNCHANGED terminal_row
      /\ update_cursor
  BY <1>1 DEF put_glyph
<1> HIDE DEF b
<1>4. \A k \in Cells : k > cursor => b[k] = SPACE
  BY <1>1, <1>2 DEF Screen, BlankAhead, Cells
<1>5. CASE terminal_column + 1 = VGA_WIDTH
  <2>1. /\ Screen'
        /\ \/ cursor' = cursor + VGA_WIDTH - terminal_column /\ terminal_buffer' = b
           \/ /\ cursor' = VGA_WIDTH * VGA_HEIGHT - VGA_WIDTH
              /\ cursor = VGA_WIDTH * VGA_HEIGHT - VGA_WIDTH + terminal_column
              /\ \A k \in Cells : terminal_buffer'[k] =
                   IF k + VGA_WIDTH \in Cells THEN b[k + VGA_WIDTH] ELSE SPACE
    BY <1>2, <1>3, <1>4, <1>5, NextRowEffect
  <2>2. cursor + VGA_WIDTH - terminal_column = cursor + 1
    BY <1>1, <1>5
  <2>3. ASSUME cursor = VGA_WIDTH * VGA_HEIGHT - VGA_WIDTH + terminal_column
        PROVE  cursor + 1 = VGA_WIDTH * VGA_HEIGHT
    BY <1>1, <1>5, <2>3
  <2> QED
    BY <1>2, <2>1, <2>2, <2>3
<1>6. CASE terminal_column + 1 # VGA_WIDTH
  <2>1. /\ terminal_column' = terminal_column + 1 /\ terminal_buffer' = b
        /\ terminal_row' = terminal_row /\ cursor' = Index(terminal_row', terminal_column')
    BY <1>3, <1>6 DEF update_cursor
  <2>2. terminal_column' \in 0 .. VGA_WIDTH - 1
    BY <1>1, <1>6, <2>1
  <2>3. cursor' = cursor + 1
    <3>1. terminal_row * VGA_WIDTH \in Nat /\ terminal_column \in Nat
      BY <1>1
    <3> QED
      BY <1>1, <2>1, <3>1 DEF Index
  <2>4. \A k \in Cells : k >= cursor' => terminal_buffer'[k] = SPACE
    BY <1>1, <1>4, <2>1, <2>3 DEF Cells
  <2> QED
    BY <1>1, <1>2, <2>1, <2>2, <2>3, <2>4 DEF Screen, BlankAhead
<1> QED
  BY <1>5, <1>6

LEMMA NewlineEffect ==
    ASSUME Screen, put_newline
    PROVE  Screen'
<1>1. \A k \in Cells : k > cursor => terminal_buffer[k] = SPACE
  BY ScreenCells DEF Screen, BlankAhead, Cells
<1> QED
  BY <1>1, NextRowEffect DEF Screen, put_newline

\* The cell before the cursor is erased, the others stay.
LEMMA BackspaceEffect ==
    ASSUME Screen, put_backspace
    PROVE  /\ Screen'
           /\ cursor > 0 => cursor' = cursor - 1
           /\ \A k \in Cells : k < cursor' => terminal_buffer'[k] = terminal_buffer[k]
<1>1. /\ cursor \in Cells /\ cursor \in Nat /\ cursor = Index(terminal_row, terminal_column)
      /\ terminal_row \in 0 .. VGA_HEIGHT - 1 /\ terminal_column \in 0 .. VGA_WIDTH - 1
      /\ terminal_row \in Nat /\ terminal_column \in Nat
      /\ terminal_buffer \in [Cells -> Chars]
      /\ VGA_WIDTH \in Nat /\ VGA_WIDTH > 0 /\ VGA_HEIGHT \in Nat /\ VGA_HEIGHT > 1
  BY ScreenCells, Sizes DEF Screen
<1>2. /\ cursor' = Index(terminal_row', terminal_column')
      /\ terminal_buffer' = [terminal_buffer EXCEPT ![cursor'] = SPACE]
  BY DEF put_backspace, update_cursor
<1>3. /\ terminal_row' \in 0 .. VGA_HEIGHT - 1 /\ terminal_column' \in 0 .. VGA_WIDTH - 1
      /\ \/ cursor' = cursor - 1
         \/ cursor = 0 /\ cursor' = 0
  <2>1. CASE terminal_column > 0
    <3>1. terminal_column' = terminal_column - 1 /\ terminal_row' = terminal_row
      BY <2>1 DEF put_backspace
    <3>2. terminal_row * VGA_WIDTH \in Nat
      BY <1>1
    <3> QED
      BY <1>1, <1>2, <2>1, <3>1, <3>2 DEF Index
  <2>2. CASE ~(terminal_column > 0) /\ terminal_row > 0
    <3>1. terminal_row' = terminal_row - 1 /\ terminal_column' = VGA_WIDTH - 1
      BY <2>2 DEF put_backspace
    <3>2. terminal_column = 0
      BY <1>1, <2>2
    <3>3. cursor' = cursor - 1
      BY <1>1, <1>2, <2>2, <3>1, <3>2, IndexFacts
    <3> QED
      BY <1>1, <2>2, <3>1, <3>3
  <2>3. CASE ~(terminal_column > 0) /\ ~(terminal_row > 0)
    <3>1. UNCHANGED <<terminal_row, terminal_column>>
      BY <2>3 DEF put_backspace
    <3>2. terminal_row = 0 /\ terminal_column = 0
      BY <1>1, <2>3
    <3> QED
      BY <1>1, <1>2, <3>1, <3>2, IndexFacts
  <2> QED
    BY <2>1, <2>2, <2>3
<1>4. cursor' \in Cells
  BY <1>2, <1>3, IndexFacts
<1>5. /\ \A k \in Cells : terminal_buffer'[k] = IF k = cursor' THEN SPACE ELSE terminal_buffer[k]
      /\ terminal_buffer' \in [Cells -> Chars]
  BY <1>1, <1>2, <1>4, Sizes
<1>6. \A k \in Cells : k >= cursor' => terminal_buffer'[k] = SPACE
  BY <1>1, <1>3, <1>5 DEF Screen, BlankAhead, Cells
<1>7. \A k \in Cells : k < cursor' => terminal_buffer'[k] = terminal_buffer[k]
  BY <1>4, <1>5 DEF Cells
<1> QED
  BY <1>1, <1>2, <1>3, <1>5, <1>6, <1>7 DEF Screen, BlankAhead

LEMMA PutEffect ==
    ASSUME Screen, NEW c \in Chars, terminal_putchar(c)
    PROVE  Screen'
BY GlyphEffect, NewlineEffect, BackspaceEffect DEF terminal_putchar

LEMMA BlankScreen ==
    ASSUME terminal_initialize
    PROVE  Screen'
<1>1. /\ terminal_row' \in 0 .. VGA_HEIGHT - 1 /\ terminal_column' \in 0 .. VGA_WIDTH - 1
      /\ terminal_buffer' \in [Cells -> Chars]
      /\ \A k \in Cells : terminal_buffer'[k] = SPACE
  BY Sizes DEF terminal_initialize
<1> QED
  BY <1>1 DEF terminal_initialize, update_cursor, Screen, BlankAhead
----------------------------------------------------------------------------
(* The inductive invariant *)

\* While the shell reads a line, a first part of the prompt and of the line is on the
\* screen, right before the cursor.
Seen == Len(Prompt) - Len(out) + i
ShownAt(k) == IF k <= Len(Prompt) THEN Prompt[k] ELSE buffer[k - Len(Prompt) - 1]
Reading ==
    /\ i < MAX_LEN - 1
    /\ Len(out) <= Len(Prompt) /\ (out # << >> => i = 0)
    /\ \A k \in 1 .. Len(out) : out[k] = Prompt[Len(Prompt) - Len(out) + k]
    /\ Seen <= cursor
    /\ \A k \in 1 .. Seen : terminal_buffer[cursor - Seen + k - 1] = ShownAt(k)

\* The string in the line buffer has no end before the end of the line.
Open == \A k \in 0 .. i - 1 : buffer[k] # NUL

IInv ==
    /\ Screen
    /\ buffer \in [0 .. MAX_LEN - 1 -> Chars]
    /\ i \in 0 .. MAX_LEN - 1
    /\ pc \in {"prompt", "read", "execute", "halted"}
    /\ out \in Seq(Chars)
    /\ pc = "read" => Reading /\ Open
    /\ pc = "execute" => out = << >> /\ Open /\ buffer[i] = NUL

\* One more character of the prompt or of the line is on the screen.
LEMMA SeenMore ==
    ASSUME Screen, Reading, NEW n \in Nat, n = Seen, NEW c \in Chars, put_glyph(c),
           Seen' = n + 1, n < Len(Prompt) + MAX_LEN - 1,
           \A k \in 1 .. n : ShownAt(k)' = ShownAt(k),
           ShownAt(n + 1)' = c
    PROVE  /\ Seen' <= cursor'
           /\ \A k \in 1 .. Seen' : terminal_buffer'[cursor' - Seen' + k - 1] = ShownAt(k)'
<1>1. /\ cursor \in Nat /\ cursor \in Cells /\ n <= cursor /\ cursor < VGA_WIDTH * VGA_HEIGHT
      /\ VGA_WIDTH \in Nat /\ VGA_WIDTH > 0 /\ VGA_WIDTH * VGA_HEIGHT \in Nat
      /\ MAX_LEN \in Nat /\ Len(Prompt) \in Nat
      /\ Len(Prompt) + MAX_LEN - 1 < VGA_WIDTH * VGA_HEIGHT - VGA_WIDTH
  BY ScreenCells, Sizes DEF Reading
<1>2. \A k \in 1 .. n : terminal_buffer[cursor - n + k - 1] = ShownAt(k)
  BY DEF Reading
<1>3. CASE /\ cursor' = cursor + 1
           /\ \A k \in Cells : terminal_buffer'[k] = IF k = cursor THEN c ELSE terminal_buffer[k]
  <2>1. ASSUME NEW k \in 1 .. n + 1
        PROVE  terminal_buffer'[cursor' - (n + 1) + k - 1] = ShownAt(k)'
    <3>1. PICK cell \in Int : cell = cursor' - (n + 1) + k - 1
      BY <1>1, <1>3
    <3>2. /\ cell \in Cells /\ cell = cursor - n + k - 1
          /\ cell = cursor <=> k = n + 1
      BY <1>1, <1>3, <3>1 DEF Cells
    <3>3. CASE k = n + 1
      BY <1>3, <3>1, <3>2, <3>3
    <3>4. CASE k \in 1 .. n
      BY <1>2, <1>3, <3>1, <3>2, <3>4
    <3> QED
      BY <3>3, <3>4
  <2> QED
    BY <1>1, <1>3, <2>1
<1>4. CASE /\ cursor + 1 = VGA_WIDTH * VGA_HEIGHT
           /\ cursor' = VGA_WIDTH * VGA_HEIGHT - VGA_WIDTH
           /\ \A k \in Cells : k + VGA_WIDTH \in Cells =>
                terminal_buffer'[k] = IF k + VGA_WIDTH = cursor THEN c
                                      ELSE terminal_buffer[k + VGA_WIDTH]
  <2>1. n + 1 <= cursor' /\ cursor' = cursor + 1 - VGA_WIDTH
    BY <1>1, <1>4
  <2>2. ASSUME NEW k \in 1 .. n + 1
        PROVE  terminal_buffer'[cursor' - (n + 1) + k - 1] = ShownAt(k)'
    <3>1. PICK cell \in Int : cell = cursor' - (n + 1) + k - 1
      BY <1>1, <2>1
    <3>2. /\ cell \in Cells /\ cell + VGA_WIDTH = cursor - n + k - 1
          /\ cell + VGA_WIDTH \in Cells
          /\ cell + VGA_WIDTH = cursor <=> k = n + 1
      BY <1>1, <2>1, <3>1 DEF Cells
    <3>3. terminal_buffer'[cell] = IF k = n + 1 THEN c ELSE terminal_buffer[cursor - n + k - 1]
      BY <1>4, <3>2
    <3>4. CASE k = n + 1
      BY <3>1, <3>3, <3>4
    <3>5. CASE k \in 1 .. n
      BY <1>1, <1>2, <3>1, <3>3, <3>5
    <3> QED
      BY <3>4, <3>5
  <2> QED
    BY <2>1, <2>2
<1> QED
  BY <1>3, <1>4, GlyphEffect

LEMMA PromptChars ==
    ASSUME NEW k \in 1 .. Len(Prompt)
    PROVE  Prompt[k] \in Chars /\ Prompt[k] \notin {NL, BS}
BY Sizes, CharAssumption

LEMMA printInv ==
    ASSUME IInv, print
    PROVE  IInv'
<1>1. /\ out # << >> /\ terminal_putchar(Head(out)) /\ out' = Tail(out)
      /\ UNCHANGED <<buffer, i, pc>>
  BY DEF print
<1>2. /\ out \in Seq(Chars) /\ Head(out) \in Chars /\ Tail(out) \in Seq(Chars)
      /\ Len(out) \in Nat /\ Len(out) > 0 /\ Len(Tail(out)) = Len(out) - 1
      /\ Head(out) = out[1] /\ \A k \in 1 .. Len(out) - 1 : Tail(out)[k] = out[k + 1]
  BY <1>1, HeadTailProperties, EmptySeq, LenProperties DEF IInv
<1>3. Screen'
  BY <1>1, <1>2, PutEffect DEF IInv
<1>4. CASE pc = "read"
  <2>1. /\ Reading /\ Open /\ i = 0 /\ Len(Prompt) \in Nat /\ MAX_LEN \in Nat /\ MAX_LEN > 1
    BY <1>1, <1>4, Sizes DEF IInv, Reading
  <2>2. PICK n \in Nat : n = Seen /\ n = Len(Prompt) - Len(out)
    <3>1. Len(out) <= Len(Prompt)
      BY <2>1 DEF Reading
    <3>2. Seen = Len(Prompt) - Len(out) /\ Seen \in Nat
      BY <1>2, <2>1, <3>1 DEF Seen
    <3> QED
      BY <3>2
  <2>3. n + 1 \in 1 .. Len(Prompt) /\ Head(out) = Prompt[n + 1]
    BY <1>2, <2>1, <2>2 DEF Reading
  <2>4. put_glyph(Head(out))
    BY <1>1, <2>3, PromptChars DEF terminal_putchar
  <2>5. Seen' = n + 1
    BY <1>1, <1>2, <2>1, <2>2 DEF Seen
  <2>6. /\ \A k \in 1 .. n : ShownAt(k)' = ShownAt(k)
        /\ ShownAt(n + 1)' = Head(out)
    BY <1>1, <2>3 DEF ShownAt
  <2>7. n < Len(Prompt) + MAX_LEN - 1
    BY <2>1, <2>3
  <2>8. /\ Seen' <= cursor'
        /\ \A k \in 1 .. Seen' : terminal_buffer'[cursor' - Seen' + k - 1] = ShownAt(k)'
    <3>1. PICK c \in Chars : c = Head(out)
      BY <1>2
    <3> QED
      BY <2>1, <2>2, <2>4, <2>5, <2>6, <2>7, <3>1, SeenMore DEF IInv
  <2>9. /\ i' < MAX_LEN - 1 /\ i' = 0 /\ Len(out') <= Len(Prompt)
        /\ \A k \in 1 .. Len(out') : out'[k] = Prompt[Len(Prompt) - Len(out') + k]
    <3>1. Len(out') = Len(out) - 1 /\ Len(out) <= Len(Prompt)
      BY <1>1, <1>2, <2>1 DEF Reading
    <3>2. ASSUME NEW k \in 1 .. Len(out) - 1
          PROVE  out'[k] = Prompt[Len(Prompt) - (Len(out) - 1) + k]
      <4>1. k + 1 \in 1 .. Len(out)
            /\ Len(Prompt) - Len(out) + (k + 1) = Len(Prompt) - (Len(out) - 1) + k
        BY <1>2, <2>1
      <4>2. out'[k] = out[k + 1]
        BY <1>1, <1>2
      <4> QED
        BY <2>1, <4>1, <4>2 DEF Reading
    <3> QED
      BY <1>1, <1>2, <2>1, <3>1, <3>2
  <2>10. Reading'
    BY <2>8, <2>9 DEF Reading
  <2>11. Open'
    BY <1>1, <2>1 DEF Open
  <2> QED
    BY <1>1, <1>2, <1>3, <1>4, <2>10, <2>11 DEF IInv
<1>5. CASE pc # "read"
  BY <1>1, <1>2, <1>3, <1>5 DEF IInv
<1> QED
  BY <1>4, <1>5

LEMMA promptInv ==
    ASSUME IInv, prompt
    PROVE  IInv'
<1>1. /\ out' = Prompt /\ pc' = "read" /\ i' = 0 /\ UNCHANGED <<terminal, buffer>>
  BY DEF prompt, Printing
<1>2. Screen'
  BY <1>1 DEF IInv, Screen, BlankAhead, terminal, Index
<1>3. Reading'
  <2>1. Len(Prompt) - Len(Prompt) + 0 = 0 /\ MAX_LEN \in Nat /\ MAX_LEN > 1 /\ Len(Prompt) \in Nat
    BY Sizes
  <2>2. Seen' = 0
    BY <1>1, <2>1 DEF Seen
  <2>3. cursor' \in Nat
    BY <1>1, ScreenCells DEF IInv, terminal
  <2> QED
    BY <1>1, <2>1, <2>2, <2>3 DEF Reading
<1>4. Open'
  BY <1>1 DEF Open
<1> QED
  BY <1>1, <1>2, <1>3, <1>4, Sizes DEF IInv

\* The character that is typed is stored and echoed.
LEMMA read_charInv ==
    ASSUME IInv, At("read"), UNCHANGED out, NEW c \in Keys, read_char(c)
    PROVE  IInv'
<1>1. /\ pc = "read" /\ out = << >> /\ out' = << >> /\ c \notin {NL, BS} /\ i' = i + 1
      /\ terminal_putchar(c) /\ Reading /\ Open /\ Screen
      /\ c \in Chars /\ c # NUL /\ NUL \in Chars
      /\ i \in Nat /\ i + 1 < MAX_LEN /\ MAX_LEN \in Nat /\ Len(Prompt) \in Nat
      /\ buffer \in [0 .. MAX_LEN - 1 -> Chars] /\ Len(out) = 0 /\ out' \in Seq(Chars)
  BY Sizes, CharAssumption DEF At, read_char, IInv, Reading
<1>2. put_glyph(c) /\ Screen'
  BY <1>1, PutEffect DEF terminal_putchar
<1> DEFINE b == [buffer EXCEPT ![i] = c]
<1>3. /\ b \in [0 .. MAX_LEN - 1 -> Chars] /\ b[i] = c
      /\ \A k \in 0 .. MAX_LEN - 1 : k # i => b[k] = buffer[k]
  BY <1>1
<1> HIDE DEF b
<1>4. i' \in 0 .. MAX_LEN - 1
  BY <1>1
<1>5. ASSUME NEW k \in 0 .. i
      PROVE  b[k] # NUL
  BY <1>1, <1>3 DEF Open
<1>6. CASE i + 1 < MAX_LEN - 1
  <2>1. buffer' = b /\ pc' = "read"
    BY <1>1, <1>6 DEF read_char, b
  <2>2. PICK n \in Nat : n = Seen /\ n = Len(Prompt) + i
    BY <1>1 DEF Seen
  <2>3. Seen' = n + 1 /\ n < Len(Prompt) + MAX_LEN - 1
    BY <1>1, <2>2 DEF Seen
  <2>4. \A k \in 1 .. n : ShownAt(k)' = ShownAt(k)
    <3> SUFFICES ASSUME NEW k \in 1 .. n, ~(k <= Len(Prompt))
                 PROVE  b[k - Len(Prompt) - 1] = buffer[k - Len(Prompt) - 1]
      BY <2>1 DEF ShownAt
    <3>1. k - Len(Prompt) - 1 \in 0 .. MAX_LEN - 1 /\ k - Len(Prompt) - 1 # i
      BY <1>1, <2>2
    <3> QED
      BY <1>3, <3>1
  <2>5. ShownAt(n + 1)' = c
    <3>1. ~(n + 1 <= Len(Prompt)) /\ (n + 1) - Len(Prompt) - 1 = i
      BY <1>1, <2>2
    <3> QED
      BY <1>3, <2>1, <3>1 DEF ShownAt
  <2>6. /\ Seen' <= cursor'
        /\ \A k \in 1 .. Seen' : terminal_buffer'[cursor' - Seen' + k - 1] = ShownAt(k)'
    BY <1>1, <1>2, <2>2, <2>3, <2>4, <2>5, SeenMore
  <2>7. Reading'
    BY <1>1, <1>6, <2>6 DEF Reading
  <2>8. Open'
    BY <1>1, <1>5, <2>1 DEF Open
  <2> QED
    BY <1>1, <1>2, <1>3, <1>4, <2>1, <2>7, <2>8 DEF IInv
<1>7. CASE ~(i + 1 < MAX_LEN - 1)
  <2>1. buffer' = [b EXCEPT ![i + 1] = NUL] /\ pc' = "execute"
    BY <1>1, <1>7 DEF read_char, b, Close
  <2>2. /\ buffer' \in [0 .. MAX_LEN - 1 -> Chars] /\ buffer'[i + 1] = NUL
        /\ \A k \in 0 .. MAX_LEN - 1 : k # i + 1 => buffer'[k] = b[k]
    BY <1>1, <1>3, <2>1
  <2>3. Open'
    BY <1>1, <1>5, <2>2 DEF Open
  <2> QED
    BY <1>1, <1>2, <1>4, <2>1, <2>2, <2>3 DEF IInv
<1> QED
  BY <1>6, <1>7

LEMMA read_newlineInv ==
    ASSUME IInv, At("read"), UNCHANGED out, NEW c \in Keys, read_newline(c)
    PROVE  IInv'
<1>1. /\ pc = "read" /\ out = << >> /\ out' = << >> /\ i' = i /\ pc' = "execute"
      /\ terminal_putchar(NL) /\ Reading /\ Open /\ Screen
      /\ NL \in Chars /\ NUL \in Chars
      /\ i \in Nat /\ i \in 0 .. MAX_LEN - 1 /\ MAX_LEN \in Nat
      /\ buffer \in [0 .. MAX_LEN - 1 -> Chars] /\ out' \in Seq(Chars)
      /\ buffer' = [buffer EXCEPT ![i] = NUL]
  BY Sizes DEF At, read_newline, IInv, Close
<1>2. Screen'
  BY <1>1, PutEffect
<1>3. /\ buffer' \in [0 .. MAX_LEN - 1 -> Chars] /\ buffer'[i] = NUL
      /\ \A k \in 0 .. i - 1 : buffer'[k] = buffer[k]
  BY <1>1
<1>4. Open'
  BY <1>1, <1>3 DEF Open
<1> QED
  BY <1>1, <1>2, <1>3, <1>4 DEF IInv

\* The last character of the line goes from the buffer and from the screen.
LEMMA read_backspaceInv ==
    ASSUME IInv, At("read"), UNCHANGED out, NEW c \in Keys, read_backspace(c)
    PROVE  IInv'
<1>1. /\ pc = "read" /\ out = << >> /\ out' = << >> /\ UNCHANGED <<buffer, pc>>
      /\ IF i > 0 THEN i' = i - 1 /\ terminal_putchar(BS) ELSE UNCHANGED <<i, terminal>>
      /\ Reading /\ Open /\ Screen
      /\ i \in Nat /\ i < MAX_LEN - 1 /\ MAX_LEN \in Nat /\ Len(Prompt) \in Nat /\ Len(out) = 0
      /\ buffer \in [0 .. MAX_LEN - 1 -> Chars] /\ out' \in Seq(Chars)
  BY Sizes DEF At, read_backspace, IInv, Reading
<1>2. CASE i > 0
  <2>1. put_backspace
    BY <1>1, <1>2, CharAssumption DEF terminal_putchar
  <2>2. PICK n \in Nat : n = Seen /\ n = Len(Prompt) + i /\ n > 0
    BY <1>1, <1>2 DEF Seen
  <2>3. cursor \in Nat /\ cursor \in Cells /\ n <= cursor
    BY <1>1, <2>2, ScreenCells DEF Reading
  <2>4. /\ Screen' /\ cursor' = cursor - 1
        /\ \A k \in Cells : k < cursor' => terminal_buffer'[k] = terminal_buffer[k]
    BY <1>1, <2>1, <2>2, <2>3, BackspaceEffect
  <2>5. Seen' = n - 1 /\ i' = i - 1
    BY <1>1, <1>2, <2>2 DEF Seen
  <2>6. ASSUME NEW k \in 1 .. n - 1
        PROVE  terminal_buffer'[cursor' - (n - 1) + k - 1] = ShownAt(k)'
    <3>1. PICK cell \in Int : cell = cursor - n + k - 1 /\ cell = cursor' - (n - 1) + k - 1
      BY <2>2, <2>3, <2>4
    <3>2. cell \in Cells /\ cell < cursor'
      <4>1. k >= 1 /\ k <= n - 1 /\ k \in Nat
        BY <2>2
      <4>2. cursor < VGA_WIDTH * VGA_HEIGHT /\ VGA_WIDTH * VGA_HEIGHT \in Nat
        BY <1>1, ScreenCells, Sizes
      <4>3. cursor' = cursor - 1
        BY <2>4
      <4>4. cell >= 0 /\ cell < cursor - 1
        BY <2>2, <2>3, <3>1, <4>1
      <4> QED
        BY <2>3, <3>1, <4>2, <4>3, <4>4 DEF Cells
    <3>3. terminal_buffer[cell] = ShownAt(k)
      BY <1>1, <2>2, <3>1 DEF Reading
    <3>4. ShownAt(k)' = ShownAt(k)
      BY <1>1 DEF ShownAt
    <3> QED
      BY <2>4, <3>1, <3>2, <3>3, <3>4
  <2>7. /\ i' \in 0 .. MAX_LEN - 1 /\ i' < MAX_LEN - 1 /\ Seen' <= cursor'
    BY <1>1, <1>2, <2>2, <2>3, <2>4, <2>5
  <2>8. Reading'
    BY <1>1, <2>5, <2>6, <2>7 DEF Reading
  <2>9. Open'
    BY <1>1, <2>5 DEF Open
  <2> QED
    BY <1>1, <2>4, <2>7, <2>8, <2>9 DEF IInv
<1>3. CASE ~(i > 0)
  <2>1. UNCHANGED <<terminal_row, terminal_column, terminal_buffer, cursor, buffer, i, pc, out>>
    BY <1>1, <1>3 DEF terminal
  <2> QED
    BY <2>1 DEF IInv, Screen, BlankAhead, Index, Reading, Seen, ShownAt, Open
<1> QED
  BY <1>2, <1>3
----------------------------------------------------------------------------
(* The command *)

LEMMA LeastElement ==
    ASSUME NEW T \in SUBSET Nat, T # {}
    PROVE  \E n \in T : \A m \in T : n <= m
<1> DEFINE R == {ss \in Nat \X Nat : ss[1] < ss[2]}
<1>1. IsWellFoundedOn(R, Nat)
  BY NatLessThanWellFounded DEF OpToRel
<1>2. \A n, m \in Nat : n < m => <<n, m>> \in R
  OBVIOUS
<1> HIDE DEF R
<1>3. PICK n \in T : \A m \in T : <<m, n>> \notin R
  BY <1>1, WFMin
<1>4. \A m \in T : m \in Nat /\ n \in Nat /\ ~(m < n)
  BY <1>2, <1>3
<1>5. \A m \in T : n <= m
  BY <1>4
<1> QED
  BY <1>5

\* The first space of a line is one of its spaces.
LEMMA CutIsSpace ==
    ASSUME Spaces # {}, Line \in Seq(Chars)
    PROVE  Cut \in Spaces
<1>1. Spaces \subseteq Nat
  BY LenProperties DEF Spaces
<1>2. PICK k \in Spaces : \A j \in Spaces : k <= j
  BY <1>1, LeastElement
<1> QED
  BY <1>2 DEF Cut

\* The string that shell_execute finds is the line that was read.
LEMMA LineRead ==
    ASSUME IInv, pc = "execute"
    PROVE  /\ Line = [k \in 1 .. i |-> buffer[k - 1]]
           /\ Line \in Seq(Chars) /\ Len(Line) = i
<1>1. /\ i \in Nat /\ MAX_LEN \in Nat /\ i \in 0 .. MAX_LEN - 1 /\ buffer[i] = NUL
      /\ \A k \in 0 .. i - 1 : buffer[k] # NUL
      /\ buffer \in [0 .. MAX_LEN - 1 -> Chars]
  BY Sizes DEF IInv, Open
<1> DEFINE Ends(n) == buffer[n] = NUL /\ \A m \in 0 .. n - 1 : buffer[m] # NUL
           end == CHOOSE n \in 0 .. MAX_LEN - 1 : Ends(n)
<1>2. Ends(i)
  BY <1>1
<1>3. end \in 0 .. MAX_LEN - 1 /\ Ends(end)
  BY <1>1, <1>2
<1>4. Line = [k \in 1 .. end - 0 |-> buffer[0 + k - 1]]
  BY DEF Line, StringAt
<1>5. end = i
  <2>1. PICK e \in Nat : e = end /\ Ends(e)
    BY <1>1, <1>3
  <2>2. ~(e < i)
    BY <1>1, <2>1
  <2>3. ~(i < e)
    BY <1>1, <2>1
  <2> QED
    BY <1>1, <2>1, <2>2, <2>3
<1> HIDE DEF end
<1>6. i - 0 = i /\ \A k \in 1 .. i : 0 + k - 1 = k - 1
  BY <1>1
<1>7. Line = [k \in 1 .. i |-> buffer[k - 1]]
  BY <1>4, <1>5, <1>6
<1>8. \A k \in 1 .. i : buffer[k - 1] \in Chars
  BY <1>1
<1> QED
  BY <1>1, <1>7, <1>8

LEMMA ArgsChars ==
    ASSUME Line \in Seq(Chars)
    PROVE  args \in Seq(Chars)
<1>1. CASE Spaces = {}
  BY <1>1 DEF args
<1>2. CASE Spaces # {}
  <2>1. PICK n \in Nat : n = Len(Line)
    BY LenProperties
  <2>2. PICK k \in 1 .. n : k = Cut
    BY <1>2, <2>1, CutIsSpace DEF Spaces
  <2>3. SubSeq(Line, k + 1, n) \in Seq(Chars)
    BY <2>1, <2>2, SubSeqProperties
  <2> QED
    BY <1>2, <2>1, <2>2, <2>3 DEF args
<1> QED
  BY <1>1, <1>2

LEMMA shell_executeInv ==
    ASSUME IInv, shell_execute
    PROVE  IInv'
<1>1. /\ pc = "execute" /\ Screen /\ buffer \in [0 .. MAX_LEN - 1 -> Chars]
      /\ i' = i /\ i \in 0 .. MAX_LEN - 1 /\ {NUL, NL} \subseteq Chars
      /\ Texts \subseteq Seq(Chars) /\ Line \in Seq(Chars)
      /\ buffer' = [k \in 0 .. MAX_LEN - 1 |-> IF k + 1 \in Cuts THEN NUL ELSE buffer[k]]
  BY Sizes, TextAssumption, LineRead DEF shell_execute, At, IInv
<1>2. buffer' \in [0 .. MAX_LEN - 1 -> Chars]
  BY <1>1
<1>3. <<NL>> \in Seq(Chars) /\ <<NL, NL>> \in Seq(Chars)
  BY <1>1
<1>4. /\ pc' \in {"prompt", "halted"} /\ out' \in Seq(Chars)
      /\ UNCHANGED terminal \/ terminal_initialize
  <2>1. args \in Seq(Chars)
    BY <1>1, ArgsChars
  <2>2. args \o <<NL, NL>> \in Seq(Chars)
    BY <1>3, <2>1, ConcatProperties
  <2>3. \A t \in Texts : t \in Seq(Chars) /\ t \o <<NL>> \in Seq(Chars)
    BY <1>1, <1>3, ConcatProperties
  <2> QED
    BY <1>3, <2>2, <2>3 DEF shell_execute, Printing
<1>5. Screen'
  BY <1>1, <1>4, BlankScreen DEF Screen, BlankAhead, terminal, Index
<1> QED
  BY <1>1, <1>2, <1>4, <1>5 DEF IInv
----------------------------------------------------------------------------
(* The theorems *)

\* The invariant that the others follow from: the screen is blank from the cursor on;
\* while a line is read the part of the prompt and the line that has been echoed
\* stands right before the cursor; a line that is executed is closed at its end.
THEOREM Inductive == Spec => []IInv
<1>1. Init => IInv
  <2> SUFFICES ASSUME Init PROVE IInv
    OBVIOUS
  <2>1. Screen
    <3>1. 0 \in 0 .. VGA_HEIGHT - 1 /\ 0 \in 0 .. VGA_WIDTH - 1
      BY Sizes
    <3>2. Index(0, 0) = 0
      BY <3>1, IndexFacts
    <3> QED
      BY <3>1, <3>2, Sizes DEF Init, Screen, BlankAhead
  <2> QED
    BY <2>1, Sizes, TextAssumption DEF Init, IInv
<1>2. IInv /\ [Next]_vars => IInv'
  <2> SUFFICES ASSUME IInv, [Next]_vars PROVE IInv'
    OBVIOUS
  <2>1. CASE print
    BY <2>1, printInv
  <2>2. CASE prompt
    BY <2>2, promptInv
  <2>3. ASSUME NEW c \in Keys, shell_readline(c) PROVE IInv'
    BY <2>3, read_newlineInv, read_backspaceInv, read_charInv DEF shell_readline
  <2>4. CASE shell_execute
    BY <2>4, shell_executeInv
  <2>5. CASE UNCHANGED vars
    BY <2>5 DEF vars, terminal, IInv, Screen, BlankAhead, Index, Reading, Seen, ShownAt, Open
  <2> QED
    BY <2>1, <2>2, <2>3, <2>4, <2>5 DEF Next, halted
<1> QED
  BY <1>1, <1>2, PTL DEF Spec

\* terminal_row, terminal_column and the hardware cursor never leave the screen, and
\* shell_readline never writes beyond its buffer.
THEOREM TypeCorrect == Spec => []TypeOK
<1>1. IInv => TypeOK
  BY ScreenCells DEF IInv, Screen, TypeOK
<1> QED
  BY <1>1, Inductive, PTL

\* What terminal_putchar has put on the screen for shell_readline is the prompt and
\* the characters of its buffer, through wraps, scrolls and backspaces, and whatever
\* tty.cpp prints, scrolls or erases, nothing is left beyond the cursor.
THEOREM EchoMatchesCorrect == Spec => []EchoMatches
<1>1. ASSUME IInv, At("read")
      PROVE  \A k \in 1 .. Len(Shown) :
               LET cell == cursor - Len(Shown) + k - 1 IN
               cell \in Cells /\ terminal_buffer[cell] = Shown[k]
  <2>1. /\ Reading /\ Len(out) = 0 /\ i \in Nat /\ MAX_LEN \in Nat /\ i < MAX_LEN
        /\ Prompt \in Seq(Chars) /\ Len(Prompt) \in Nat
        /\ buffer \in [0 .. MAX_LEN - 1 -> Chars]
        /\ cursor \in Nat /\ cursor < VGA_WIDTH * VGA_HEIGHT /\ VGA_WIDTH * VGA_HEIGHT \in Nat
    BY <1>1, Sizes, ScreenCells DEF IInv, At
  <2> DEFINE typed == [k \in 1 .. i |-> buffer[k - 1]]
  <2>2. typed \in Seq(Chars) /\ Len(typed) = i /\ \A k \in 1 .. i : typed[k] = buffer[k - 1]
    <3>1. \A k \in 1 .. i : buffer[k - 1] \in Chars
      BY <2>1
    <3> QED
      BY <2>1, <3>1
  <2> HIDE DEF typed
  <2>3. /\ Len(Shown) = Len(Prompt) + i
        /\ \A k \in 1 .. Len(Prompt) + i :
             Shown[k] = IF k <= Len(Prompt) THEN Prompt[k] ELSE typed[k - Len(Prompt)]
    BY <2>1, <2>2, ConcatProperties DEF Shown, typed
  <2>4. \A k \in 1 .. Len(Prompt) + i : Shown[k] = ShownAt(k)
    <3> SUFFICES ASSUME NEW k \in 1 .. Len(Prompt) + i, ~(k <= Len(Prompt))
                 PROVE  typed[k - Len(Prompt)] = buffer[k - Len(Prompt) - 1]
      BY <2>3 DEF ShownAt
    <3> QED
      BY <2>1, <2>2
  <2>5. PICK n \in Nat : n = Seen /\ n = Len(Shown) /\ n = Len(Prompt) + i
    BY <2>1, <2>3 DEF Seen
  <2>6. n <= cursor /\ \A k \in 1 .. n : terminal_buffer[cursor - n + k - 1] = ShownAt(k)
    BY <2>1, <2>5 DEF Reading
  <2>7. \A k \in 1 .. n : cursor - n + k - 1 \in Cells
    BY <2>1, <2>6 DEF Cells
  <2> QED
    BY <2>4, <2>5, <2>6, <2>7
<1>2. IInv => EchoMatches
  BY <1>1 DEF EchoMatches, IInv, Screen
<1> QED
  BY <1>2, Inductive, PTL

\* shell_execute is given the line that shell_readline read, whatever lines were in
\* the buffer before.
THEOREM CommandIsLineCorrect == Spec => []CommandIsLine
<1>1. IInv => CommandIsLine
  BY LineRead DEF CommandIsLine, At
<1> QED
  BY <1>1, Inductive, PTL
============================================================================
