------------------------------ MODULE Keyboard ------------------------------
(***************************************************************************)
(* The keyboard driver, kernel/arch/i386/drivers/keyboard.cpp: the handler *)
(* of IRQ 1 translates a scancode and pushes the character into a ring     *)
(* buffer; keyboard_getchar, called by the shell, takes it out and sleeps  *)
(* with hlt while the ring is empty.                                       *)
(*                                                                         *)
(* An interrupt handler runs to its end without interruption (the gates    *)
(* clear IF), so keyboard_handler is one step; it may come between any two *)
(* accesses of the reader to the shared indices.  The reader is one task,  *)
(* the only caller of keyboard_getchar.                                    *)
(***************************************************************************)
EXTENDS Integers, Sequences

CONSTANTS
    KBD_BUFFER_SIZE,    \* 256
    Scancodes,          \* the bytes the keyboard controller may send
    kbd_us,             \* the two translation tables, indexed by 0 .. 127
    kbd_us_shifted

Char == 0 .. 127

ASSUME SizeAssumption == KBD_BUFFER_SIZE \in Nat /\ KBD_BUFFER_SIZE >= 2
ASSUME ScancodeAssumption == Scancodes \subseteq 0 .. 255
ASSUME TableAssumption ==
    kbd_us \in [0 .. 127 -> Char] /\ kbd_us_shifted \in [0 .. 127 -> Char]

Lower == 97 .. 122
Upper == 65 .. 90

\* The tables agree on the keys that have a character, and Shift turns a small
\* letter, and nothing else, into its capital.
ASSUME ShiftAssumption ==
    \A s \in 0 .. 127 :
        /\ kbd_us[s] = 0 <=> kbd_us_shifted[s] = 0
        /\ kbd_us[s] \in Lower => kbd_us_shifted[s] = kbd_us[s] - 32
        /\ kbd_us[s] \notin Lower =>
             {kbd_us[s], kbd_us_shifted[s]} \cap (Lower \cup Upper) = {}

VARIABLES
    kbd_buffer,
    kbd_buffer_head,    \* written by the handler
    kbd_buffer_tail,    \* written by the reader
    caps_lock,
    lshift_pressed,
    rshift_pressed,
    pc,                 \* the reader: "check", "hlt", "asleep", "fetch", "advance"
    c,                  \* the local variable of keyboard_getchar
    got                 \* the character keyboard_getchar returned last

mods == <<caps_lock, lshift_pressed, rshift_pressed>>
reader == <<kbd_buffer_tail, pc, c, got>>
vars == <<kbd_buffer, kbd_buffer_head, kbd_buffer_tail, mods, pc, c, got>>

Index == 0 .. KBD_BUFFER_SIZE - 1

\* Mutant: the index does not wrap.
Succ_NoWrap(x) == x + 1

Succ(x) == (x + 1) % KBD_BUFFER_SIZE

Init ==
    /\ kbd_buffer = [x \in Index |-> 0]
    /\ kbd_buffer_head = 0
    /\ kbd_buffer_tail = 0
    /\ caps_lock = FALSE
    /\ lshift_pressed = FALSE
    /\ rshift_pressed = FALSE
    /\ pc = "check"
    /\ c = 0
    /\ got = 0
----------------------------------------------------------------------------
(* keyboard_handler *)

\* The codes of the switch over the modifier keys.
LSHIFT == 42
RSHIFT == 54
CAPS == 58
RELEASE == 128

ModifierCodes == {LSHIFT, LSHIFT + RELEASE, RSHIFT, RSHIFT + RELEASE, CAPS}

modifier(scancode) ==
    /\ scancode \in ModifierCodes
    /\ lshift_pressed' =
         IF scancode \in {LSHIFT, LSHIFT + RELEASE}
           THEN scancode = LSHIFT ELSE lshift_pressed
    /\ rshift_pressed' =
         IF scancode \in {RSHIFT, RSHIFT + RELEASE}
           THEN scancode = RSHIFT ELSE rshift_pressed
    /\ caps_lock' = IF scancode = CAPS THEN ~caps_lock ELSE caps_lock
    /\ UNCHANGED <<kbd_buffer, kbd_buffer_head>>

\* Mutant: Caps Lock only ever makes a letter a capital.
translate_NoLower(scancode) ==
    LET shift_active == lshift_pressed \/ rshift_pressed
        ch == IF shift_active THEN kbd_us_shifted[scancode] ELSE kbd_us[scancode]
    IN IF caps_lock /\ ch \in Lower THEN ch - 32 ELSE ch

\* The character of a key press: table by Shift, then Caps Lock swaps the case
\* of what the table gave.
translate(scancode) ==
    LET shift_active == lshift_pressed \/ rshift_pressed
        ch == IF shift_active THEN kbd_us_shifted[scancode] ELSE kbd_us[scancode]
    IN CASE caps_lock /\ ch \in Lower -> ch - 32
         [] caps_lock /\ ch \in Upper -> ch + 32
         [] OTHER -> ch

\* Mutant: a full ring is not noticed.
push_NoFullCheck(ch) ==
    /\ kbd_buffer' = [kbd_buffer EXCEPT ![kbd_buffer_head] = ch]
    /\ kbd_buffer_head' = Succ(kbd_buffer_head)

push(ch) ==
    LET next == Succ(kbd_buffer_head) IN
    IF next # kbd_buffer_tail
      THEN /\ kbd_buffer' = [kbd_buffer EXCEPT ![kbd_buffer_head] = ch]
           /\ kbd_buffer_head' = next
      ELSE UNCHANGED <<kbd_buffer, kbd_buffer_head>>

\* A key press that has a character, and everything else: releases and keys
\* without a character.
press(scancode) ==
    /\ scancode \notin ModifierCodes
    /\ IF scancode < RELEASE /\ translate(scancode) # 0
         THEN push(translate(scancode))
         ELSE UNCHANGED <<kbd_buffer, kbd_buffer_head>>
    /\ UNCHANGED mods

\* An interrupt ends a hlt: the reader goes back to the loop condition.
wake == pc' = IF pc = "asleep" THEN "check" ELSE pc

keyboard_handler(scancode) ==
    /\ modifier(scancode) \/ press(scancode)
    /\ wake
    /\ UNCHANGED <<kbd_buffer_tail, c, got>>

\* Mutant: the timer interrupt stays masked.
timer_irq_Masked == pc = "asleep" /\ UNCHANGED vars

\* IRQ 0 (100 Hz) touches nothing here, but it ends a hlt too.
timer_irq ==
    /\ pc = "asleep"
    /\ wake
    /\ UNCHANGED <<kbd_buffer, kbd_buffer_head, mods, kbd_buffer_tail, c, got>>
----------------------------------------------------------------------------
(* keyboard_getchar *)

getchar_check ==
    /\ pc = "check"
    /\ pc' = IF kbd_buffer_head = kbd_buffer_tail THEN "hlt" ELSE "fetch"
    /\ UNCHANGED <<kbd_buffer, kbd_buffer_head, mods, kbd_buffer_tail, c, got>>

getchar_hlt ==
    /\ pc = "hlt"
    /\ pc' = "asleep"
    /\ UNCHANGED <<kbd_buffer, kbd_buffer_head, mods, kbd_buffer_tail, c, got>>

getchar_fetch ==
    /\ pc = "fetch"
    /\ c' = kbd_buffer[kbd_buffer_tail]
    /\ pc' = "advance"
    /\ UNCHANGED <<kbd_buffer, kbd_buffer_head, mods, kbd_buffer_tail, got>>

\* Advance the tail and return; the shell calls again.
getchar_advance ==
    /\ pc = "advance"
    /\ kbd_buffer_tail' = Succ(kbd_buffer_tail)
    /\ got' = c
    /\ pc' = "check"
    /\ UNCHANGED <<kbd_buffer, kbd_buffer_head, mods, c>>

keyboard_getchar ==
    getchar_check \/ getchar_hlt \/ getchar_fetch \/ getchar_advance

Next ==
    \/ \E scancode \in Scancodes : keyboard_handler(scancode)
    \/ timer_irq
    \/ keyboard_getchar

Spec == Init /\ [][Next]_vars

\* The shell's task keeps getting the CPU, and the timer keeps ticking; nobody
\* need press a key.
FairSpec == Spec /\ WF_vars(keyboard_getchar) /\ WF_vars(timer_irq)
----------------------------------------------------------------------------
\* How many characters wait in the ring.
Count ==
    IF kbd_buffer_head >= kbd_buffer_tail
      THEN kbd_buffer_head - kbd_buffer_tail
      ELSE kbd_buffer_head - kbd_buffer_tail + KBD_BUFFER_SIZE

\* The k-th cell from the tail.
Cell(k) ==
    IF kbd_buffer_tail + k < KBD_BUFFER_SIZE
      THEN kbd_buffer_tail + k
      ELSE kbd_buffer_tail + k - KBD_BUFFER_SIZE

\* The characters that wait, in the order in which they will be read.
Waiting == [k \in 1 .. Count |-> kbd_buffer[Cell(k - 1)]]

\* Every variable has its type.
TypeOK ==
    /\ kbd_buffer \in [Index -> Char]
    /\ kbd_buffer_head \in Index
    /\ kbd_buffer_tail \in Index
    /\ caps_lock \in BOOLEAN
    /\ lshift_pressed \in BOOLEAN
    /\ rshift_pressed \in BOOLEAN
    /\ pc \in {"check", "hlt", "asleep", "fetch", "advance"}
    /\ c \in Char
    /\ got \in Char

\* keyboard_getchar never takes from an empty ring, and the character it has
\* fetched but not yet released is still the oldest one: no interrupt between
\* the check, the fetch and the advance empties, overwrites or reorders it.
FetchedIsOldest ==
    /\ pc \in {"fetch", "advance"} => Count > 0
    /\ pc = "advance" => c = kbd_buffer[kbd_buffer_tail]

KeyCodes == {s \in Scancodes : s < RELEASE /\ s \notin ModifierCodes /\ kbd_us[s] # 0}

Queue ==
    INSTANCE KeyQueue WITH
        Capacity <- KBD_BUFFER_SIZE - 1,
        Keys <- KeyCodes,
        Plain <- kbd_us,
        Shifted <- kbd_us_shifted,
        Letters <- {s \in KeyCodes : kbd_us[s] \in Lower},
        queue <- Waiting,
        shift <- (IF lshift_pressed THEN {"left"} ELSE {})
                   \cup (IF rshift_pressed THEN {"right"} ELSE {}),
        caps <- caps_lock,
        got <- got

\* The driver is the bounded queue of KeyQueue: characters arrive in order, none
\* twice, with the right case, and are dropped only when SIZE - 1 wait.
QueueSpec == Queue!Spec

\* A waiting character is taken eventually, although an interrupt that comes
\* between the check and the hlt puts the reader to sleep on a ring that is not
\* empty: the next timer interrupt wakes it.
WaitingIsTaken ==
    \A x \in Index :
        (kbd_buffer_tail = x /\ kbd_buffer_head # x) ~> (kbd_buffer_tail # x)
============================================================================
