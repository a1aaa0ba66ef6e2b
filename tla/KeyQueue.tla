------------------------------ MODULE KeyQueue ------------------------------
(***************************************************************************)
(* What the keyboard driver promises its reader: the characters typed, in  *)
(* the order typed, each with the case that Shift and Caps Lock give it,   *)
(* through a queue of bounded length that drops a character when it is     *)
(* full and never overwrites one (keyboard.h, keyboard_getchar).           *)
(***************************************************************************)
EXTENDS Integers, Sequences

CONSTANTS
    Capacity,       \* the most characters that wait
    Keys,           \* the keys that produce a character
    Plain,          \* the character of a key without Shift
    Shifted,        \* and with it
    Letters         \* the keys that are letters

VARIABLES
    queue,      \* the characters that wait
    shift,      \* the Shift keys that are down
    caps,       \* Caps Lock is on
    got         \* the character the reader got last

vars == <<queue, shift, caps, got>>

\* A letter is in upper case iff exactly one of Shift and Caps Lock is active;
\* any other key looks at Shift only.
Glyph(k) ==
    IF (shift # {}) # (caps /\ k \in Letters) THEN Shifted[k] ELSE Plain[k]

Init ==
    /\ queue = << >>
    /\ shift = {}
    /\ caps = FALSE
    /\ got = 0

Press(k) ==
    /\ queue' = IF Len(queue) < Capacity THEN Append(queue, Glyph(k)) ELSE queue
    /\ UNCHANGED <<shift, caps, got>>

Modifier ==
    /\ \/ \E s \in {"left", "right"} :
            shift' \in {shift \cup {s}, shift \ {s}} /\ UNCHANGED caps
       \/ caps' = ~caps /\ UNCHANGED shift
    /\ UNCHANGED <<queue, got>>

Take ==
    /\ queue # << >>
    /\ got' = Head(queue)
    /\ queue' = Tail(queue)
    /\ UNCHANGED <<shift, caps>>

Next == (\E k \in Keys : Press(k)) \/ Modifier \/ Take

Spec == Init /\ [][Next]_vars
============================================================================
