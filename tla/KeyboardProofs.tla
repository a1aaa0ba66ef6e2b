--------------------------- MODULE KeyboardProofs ---------------------------
(***************************************************************************)
(* The keyboard driver is the bounded queue of KeyQueue, for every size of *)
(* the ring, every set of keys and every pair of translation tables.       *)
(***************************************************************************)
EXTENDS Keyboard, SequenceTheorems, TLAPS

\* The next index, without the remainder.
LEMMA SuccFacts ==
    ASSUME NEW x \in Index
    PROVE  /\ Succ(x) \in Index
           /\ Succ(x) = IF x + 1 = KBD_BUFFER_SIZE THEN 0 ELSE x + 1
<1>1. x \in Nat /\ x + 1 <= KBD_BUFFER_SIZE /\ KBD_BUFFER_SIZE \in Nat
  BY SizeAssumption DEF Index
<1>2. CASE x + 1 = KBD_BUFFER_SIZE
  <2>1. KBD_BUFFER_SIZE % KBD_BUFFER_SIZE = 0
    BY SizeAssumption
  <2> QED
    BY <1>1, <1>2, <2>1, SizeAssumption DEF Succ, Index
<1>3. CASE x + 1 < KBD_BUFFER_SIZE
  <2>1. (x + 1) % KBD_BUFFER_SIZE = x + 1
    BY <1>1, <1>3
  <2> QED
    BY <1>1, <1>3, <2>1 DEF Succ, Index
<1> QED
  BY <1>1, <1>2, <1>3

\* A press of a key gives a character.
LEMMA TranslateType ==
    ASSUME TypeOK, NEW s \in Scancodes, s < RELEASE
    PROVE  s \in 0 .. 127 /\ translate(s) \in Char
<1>1. s \in 0 .. 127
  BY ScancodeAssumption DEF RELEASE
<1>2. kbd_us[s] \in Char /\ kbd_us_shifted[s] \in Char
  BY <1>1, TableAssumption
<1> QED
  BY <1>1, <1>2 DEF translate, Char, Lower, Upper
----------------------------------------------------------------------------
\* The driver's variables keep their types: the ring's indices wrap in time.
THEOREM TypeCorrect == Spec => []TypeOK
<1>1. Init => TypeOK
  <2>1. 0 \in Index /\ 0 \in Char
    BY SizeAssumption DEF Index, Char
  <2> QED
    BY <2>1 DEF Init, TypeOK
<1>2. TypeOK /\ [Next]_vars => TypeOK'
  <2> SUFFICES ASSUME TypeOK, [Next]_vars PROVE TypeOK'
    OBVIOUS
  <2>1. ASSUME NEW s \in Scancodes, keyboard_handler(s)
        PROVE  TypeOK'
    <3>1. pc' \in {"check", "hlt", "asleep", "fetch", "advance"}
      BY <2>1 DEF keyboard_handler, wake, TypeOK
    <3>2. CASE modifier(s)
      BY <2>1, <3>1, <3>2 DEF keyboard_handler, modifier, TypeOK
    <3>3. CASE press(s)
      <4>1. /\ kbd_buffer' \in [Index -> Char]
            /\ kbd_buffer_head' \in Index
        BY <3>3, TranslateType, SuccFacts DEF press, push, TypeOK
      <4> QED
        BY <2>1, <3>1, <3>3, <4>1 DEF keyboard_handler, press, mods, TypeOK
    <3> QED
      BY <2>1, <3>2, <3>3 DEF keyboard_handler
  <2>2. CASE timer_irq
    BY <2>2 DEF timer_irq, wake, mods, TypeOK
  <2>3. CASE getchar_check \/ getchar_hlt
    BY <2>3 DEF getchar_check, getchar_hlt, mods, TypeOK
  <2>4. CASE getchar_fetch
    BY <2>4 DEF getchar_fetch, mods, TypeOK
  <2>5. CASE getchar_advance
    BY <2>5, SuccFacts DEF getchar_advance, mods, TypeOK
  <2>6. CASE UNCHANGED vars
    BY <2>6 DEF vars, mods, TypeOK
  <2> QED
    BY <2>1, <2>2, <2>3, <2>4, <2>5, <2>6 DEF Next, keyboard_getchar
<1> QED
  BY <1>1, <1>2, PTL DEF Spec

\* What a push does to the number of waiting characters: one more, unless
\* SIZE - 1 wait already.
LEMMA PushFacts ==
    ASSUME TypeOK, NEW ch \in Char, push(ch), kbd_buffer_tail' = kbd_buffer_tail
    PROVE  \/ /\ Count = KBD_BUFFER_SIZE - 1
              /\ UNCHANGED <<kbd_buffer, kbd_buffer_head>>
           \/ /\ Count < KBD_BUFFER_SIZE - 1
              /\ Count' = Count + 1
              /\ Cell(Count) = kbd_buffer_head
              /\ kbd_buffer' = [kbd_buffer EXCEPT ![kbd_buffer_head] = ch]
<1> DEFINE h == kbd_buffer_head
           t == kbd_buffer_tail
           n == KBD_BUFFER_SIZE
<1>1. h \in 0 .. n - 1 /\ t \in 0 .. n - 1 /\ n \in Nat /\ n >= 2
  BY SizeAssumption DEF TypeOK, Index
<1>2. Succ(h) = IF h + 1 = n THEN 0 ELSE h + 1
  BY SuccFacts DEF TypeOK
<1>3. CASE Succ(h) = t
  BY <1>1, <1>2, <1>3 DEF push, Count
<1>4. CASE Succ(h) # t
  <2>1. kbd_buffer_head' = Succ(h) /\ kbd_buffer' = [kbd_buffer EXCEPT ![h] = ch]
    BY <1>4 DEF push
  <2>2. Count < n - 1
    BY <1>1, <1>2, <1>4 DEF Count
  <2>3. Count' = Count + 1
    BY <1>1, <1>2, <1>4, <2>1 DEF Count
  <2>4. Cell(Count) = h
    BY <1>1 DEF Cell, Count
  <2> QED
    BY <2>1, <2>2, <2>3, <2>4
<1> QED
  BY <1>3, <1>4

LEMMA CountFacts ==
    ASSUME TypeOK
    PROVE  /\ Count \in 0 .. KBD_BUFFER_SIZE - 1
           /\ Count = 0 <=> kbd_buffer_head = kbd_buffer_tail
           /\ \A k \in 0 .. KBD_BUFFER_SIZE - 1 : Cell(k) \in Index
           /\ \A k \in 0 .. Count - 1 : Cell(k) # kbd_buffer_head
           /\ Cell(0) = kbd_buffer_tail
  BY SizeAssumption DEF TypeOK, Count, Cell, Index

\* The fetched character stays the oldest one through any interrupts.
THEOREM FetchCorrect == Spec => []FetchedIsOldest
<1>1. Init => FetchedIsOldest
  BY DEF Init, FetchedIsOldest
<1>2. TypeOK /\ FetchedIsOldest /\ [Next]_vars => FetchedIsOldest'
  <2> SUFFICES ASSUME TypeOK, FetchedIsOldest, [Next]_vars
               PROVE  FetchedIsOldest'
    OBVIOUS
  <2> USE DEF FetchedIsOldest
  <2>1. ASSUME NEW s \in Scancodes, keyboard_handler(s)
        PROVE  FetchedIsOldest'
    <3>1. /\ UNCHANGED <<kbd_buffer_tail, c>>
          /\ pc' \in {"fetch", "advance"} => pc' = pc
      BY <2>1 DEF keyboard_handler, wake
    <3>2. CASE UNCHANGED <<kbd_buffer, kbd_buffer_head>>
      BY <3>1, <3>2 DEF Count
    <3>3. ASSUME NEW ch \in Char, push(ch)
          PROVE  FetchedIsOldest'
      <4>1. CASE UNCHANGED <<kbd_buffer, kbd_buffer_head>>
        BY <3>2, <4>1
      <4>2. CASE /\ Count' = Count + 1
                 /\ kbd_buffer' = [kbd_buffer EXCEPT ![kbd_buffer_head] = ch]
        <5>1. Count > 0 => kbd_buffer_tail # kbd_buffer_head
          BY CountFacts
        <5>2. Count > 0 => kbd_buffer'[kbd_buffer_tail] = kbd_buffer[kbd_buffer_tail]
          BY <4>2, <5>1 DEF TypeOK
        <5> QED
          BY <3>1, <4>2, <5>2, CountFacts
      <4> QED
        BY <3>1, <3>3, <4>1, <4>2, PushFacts
    <3> QED
      BY <2>1, <3>2, <3>3, TranslateType DEF keyboard_handler, modifier, press
  <2>2. CASE timer_irq
    BY <2>2 DEF timer_irq, wake, Count
  <2>3. CASE getchar_check
    BY <2>3, CountFacts DEF getchar_check, Count
  <2>4. CASE getchar_hlt \/ getchar_fetch \/ getchar_advance
    BY <2>4 DEF getchar_hlt, getchar_fetch, getchar_advance, Count
  <2>5. CASE UNCHANGED vars
    BY <2>5 DEF vars, Count
  <2> QED
    BY <2>1, <2>2, <2>3, <2>4, <2>5 DEF Next, keyboard_getchar
<1> QED
  BY <1>1, <1>2, TypeCorrect, PTL DEF Spec
----------------------------------------------------------------------------
(* Refinement *)

\* The waiting characters form a sequence of Count characters.
LEMMA WaitingType ==
    ASSUME TypeOK
    PROVE  Waiting \in Seq(Char) /\ Len(Waiting) = Count
<1>1. Count \in Nat
  BY CountFacts
<1>2. \A k \in 1 .. Count : kbd_buffer[Cell(k - 1)] \in Char
  <2> TAKE k \in 1 .. Count
  <2>1. k - 1 \in 0 .. KBD_BUFFER_SIZE - 1
    BY CountFacts, SizeAssumption
  <2> QED
    BY <2>1, CountFacts DEF TypeOK
<1> QED
  BY <1>1, <1>2 DEF Waiting

WaitingOK == Waiting \in Seq(Char) /\ Len(Waiting) = Count

LEMMA WaitingTypePrime ==
    TypeOK' => Waiting' \in Seq(Char) /\ Len(Waiting') = Count'
<1>1. TypeOK => WaitingOK
  BY WaitingType DEF WaitingOK
<1>2. TypeOK' => WaitingOK'
  BY <1>1, PTL
<1> QED
  BY <1>2 DEF WaitingOK

\* A character that finds room goes to the end of the queue.
LEMMA PushAppends ==
    ASSUME TypeOK, TypeOK', NEW ch \in Char, push(ch),
           kbd_buffer_tail' = kbd_buffer_tail
    PROVE  Waiting' = IF Len(Waiting) < KBD_BUFFER_SIZE - 1
                        THEN Append(Waiting, ch) ELSE Waiting
<1>1. Len(Waiting) = Count /\ Waiting \in Seq(Char) /\ Count \in Nat
  BY WaitingType, CountFacts
<1>2. CASE /\ Count = KBD_BUFFER_SIZE - 1
           /\ UNCHANGED <<kbd_buffer, kbd_buffer_head>>
  <2>1. Waiting' = Waiting
    BY <1>2 DEF Waiting, Count, Cell
  <2> QED
    BY <1>1, <1>2, <2>1, SizeAssumption
<1>3. CASE /\ Count < KBD_BUFFER_SIZE - 1
           /\ Count' = Count + 1
           /\ Cell(Count) = kbd_buffer_head
           /\ kbd_buffer' = [kbd_buffer EXCEPT ![kbd_buffer_head] = ch]
  <2>1. \A k : Cell(k)' = Cell(k)
    BY DEF Cell
  <2>2. Waiting' = [k \in 1 .. Count + 1 |-> kbd_buffer'[Cell(k - 1)]]
    BY <1>3, <2>1 DEF Waiting
  <2>3. kbd_buffer'[Cell(Count)] = ch
    BY <1>3 DEF TypeOK
  <2>4. \A k \in 1 .. Count : kbd_buffer'[Cell(k - 1)] = kbd_buffer[Cell(k - 1)]
    <3> TAKE k \in 1 .. Count
    <3>1. k - 1 \in 0 .. Count - 1
      BY <1>1
    <3>2. Cell(k - 1) # kbd_buffer_head /\ Cell(k - 1) \in Index
      BY <1>3, <3>1, CountFacts, SizeAssumption
    <3> QED
      BY <1>3, <3>2 DEF TypeOK
  <2>5. /\ Append(Waiting, ch) \in Seq(Char)
        /\ Len(Append(Waiting, ch)) = Count + 1
        /\ \A k \in 1 .. Count : Append(Waiting, ch)[k] = Waiting[k]
        /\ Append(Waiting, ch)[Count + 1] = ch
    BY <1>1, AppendProperties
  <2>6. Waiting' \in Seq(Char) /\ Len(Waiting') = Count + 1
    <3>1. /\ Waiting' \in Seq(Char)
          /\ Len(Waiting') = Count'
      BY WaitingTypePrime
    <3> QED
      BY <1>3, <3>1
  <2>7. \A k \in 1 .. Count + 1 : Waiting'[k] = Append(Waiting, ch)[k]
    <3> TAKE k \in 1 .. Count + 1
    <3>1. CASE k = Count + 1
      <4>1. k - 1 = Count
        BY <1>1, <3>1
      <4> QED
        BY <2>2, <2>3, <2>5, <3>1, <4>1
    <3>2. CASE k # Count + 1
      <4>1. k \in 1 .. Count
        BY <1>1, <3>2
      <4>2. Waiting[k] = kbd_buffer[Cell(k - 1)]
        BY <4>1 DEF Waiting
      <4> QED
        BY <2>2, <2>4, <2>5, <4>1, <4>2
    <3> QED
      BY <3>1, <3>2
  <2>8. Waiting' = Append(Waiting, ch)
    BY <2>5, <2>6, <2>7, SeqEqual
  <2> QED
    BY <1>1, <1>3, <2>8
<1> QED
  BY <1>2, <1>3, PushFacts

\* Advancing the tail takes the first character off the queue.
LEMMA AdvanceTakes ==
    ASSUME TypeOK, TypeOK', Count > 0, getchar_advance
    PROVE  /\ Waiting # << >>
           /\ Head(Waiting) = kbd_buffer[kbd_buffer_tail]
           /\ Waiting' = Tail(Waiting)
<1> DEFINE h == kbd_buffer_head
           t == kbd_buffer_tail
           n == KBD_BUFFER_SIZE
<1>1. h \in 0 .. n - 1 /\ t \in 0 .. n - 1 /\ n \in Nat /\ n >= 2
  BY SizeAssumption DEF TypeOK, Index
<1>2. Succ(t) = IF t + 1 = n THEN 0 ELSE t + 1
  BY SuccFacts DEF TypeOK
<1>3. /\ kbd_buffer_tail' = Succ(t)
      /\ kbd_buffer_head' = h
      /\ kbd_buffer' = kbd_buffer
  BY DEF getchar_advance
<1>4. Waiting \in Seq(Char) /\ Len(Waiting) = Count /\ Count \in 1 .. n - 1
  BY WaitingType, CountFacts, <1>1
<1>5. Count' = Count - 1
  BY <1>1, <1>2, <1>3, <1>4 DEF Count
<1>6. \A k \in 1 .. Count - 1 : Cell(k - 1)' = Cell(k)
  BY <1>1, <1>2, <1>3, <1>4 DEF Cell
<1>7. Head(Waiting) = kbd_buffer[t]
  <2>1. Waiting[1] = kbd_buffer[Cell(0)]
    BY <1>4 DEF Waiting
  <2> QED
    BY <1>4, <2>1, CountFacts
<1>8. Waiting' = [k \in 1 .. Count - 1 |-> kbd_buffer[Cell(k)]]
  BY <1>3, <1>5, <1>6 DEF Waiting
<1>9. Waiting # << >>
  BY <1>4
<1>10. /\ Tail(Waiting) \in Seq(Char)
       /\ Len(Tail(Waiting)) = Count - 1
       /\ \A k \in 1 .. Count - 1 : Tail(Waiting)[k] = Waiting[k + 1]
  BY <1>4, <1>9, HeadTailProperties
<1>11. \A k \in 1 .. Count - 1 : Waiting[k + 1] = kbd_buffer[Cell(k)]
  <2> TAKE k \in 1 .. Count - 1
  <2>1. k + 1 \in 1 .. Count /\ (k + 1) - 1 = k
    BY <1>4
  <2> QED
    BY <2>1 DEF Waiting
<1>12. Waiting' \in Seq(Char) /\ Len(Waiting') = Count - 1
  BY <1>5, WaitingTypePrime
<1>13. \A k \in 1 .. Count - 1 : Waiting'[k] = Tail(Waiting)[k]
  BY <1>8, <1>10, <1>11
<1>14. Waiting' = Tail(Waiting)
  BY <1>10, <1>12, <1>13, SeqEqual
<1> QED
  BY <1>7, <1>9, <1>14

\* The handler gives a key the character that Shift and Caps Lock call for.
LEMMA TranslateIsGlyph ==
    ASSUME TypeOK, NEW s \in Scancodes, s < RELEASE, s \notin ModifierCodes
    PROVE  /\ translate(s) # 0 <=> s \in KeyCodes
           /\ s \in KeyCodes => translate(s) = Queue!Glyph(s)
<1>1. s \in 0 .. 127
  BY ScancodeAssumption DEF RELEASE
<1>2. kbd_us[s] \in Char /\ kbd_us_shifted[s] \in Char
  BY <1>1, TableAssumption
<1>3. /\ kbd_us[s] = 0 <=> kbd_us_shifted[s] = 0
      /\ kbd_us[s] \in Lower => kbd_us_shifted[s] = kbd_us[s] - 32
      /\ kbd_us[s] \notin Lower =>
           /\ kbd_us[s] \notin Upper
           /\ kbd_us_shifted[s] \notin Lower \cup Upper
  BY <1>1, ShiftAssumption
<1> DEFINE shift_active == lshift_pressed \/ rshift_pressed
           shift == (IF lshift_pressed THEN {"left"} ELSE {})
                      \cup (IF rshift_pressed THEN {"right"} ELSE {})
<1>4. shift # {} <=> shift_active
  OBVIOUS
<1>5. s \in KeyCodes <=> kbd_us[s] # 0
  BY DEF KeyCodes
<1>6. CASE kbd_us[s] \in Lower
  BY <1>2, <1>3, <1>4, <1>5, <1>6
  DEF translate, Queue!Glyph, Lower, Upper, Char, TypeOK
<1>7. CASE kbd_us[s] \notin Lower
  BY <1>2, <1>3, <1>4, <1>5, <1>7 DEF translate, Queue!Glyph, TypeOK
<1> QED
  BY <1>6, <1>7

\* The driver implements the bounded queue of KeyQueue: whatever interrupts
\* come between the steps of keyboard_getchar, the reader gets the characters
\* typed, in order, each once, and one is dropped only when the ring is full.
THEOREM DriverIsQueue == Spec => QueueSpec
<1>1. Init => Queue!Init
  <2> SUFFICES ASSUME Init PROVE Queue!Init
    OBVIOUS
  <2>1. Count = 0
    BY DEF Init, Count
  <2>2. Waiting = << >>
    BY <2>1 DEF Waiting
  <2> QED
    BY <2>2 DEF Init, Queue!Init
<1>2. /\ TypeOK /\ TypeOK' /\ FetchedIsOldest /\ [Next]_vars
      => [Queue!Next]_(Queue!vars)
  <2> SUFFICES ASSUME TypeOK, TypeOK', FetchedIsOldest, [Next]_vars
               PROVE  [Queue!Next]_(Queue!vars)
    OBVIOUS
  <2>1. ASSUME UNCHANGED <<kbd_buffer, kbd_buffer_head, kbd_buffer_tail>>
        PROVE  Waiting' = Waiting
    BY <2>1 DEF Waiting, Count, Cell
  <2>2. ASSUME NEW s \in Scancodes, keyboard_handler(s)
        PROVE  [Queue!Next]_(Queue!vars)
    <3>1. UNCHANGED <<kbd_buffer_tail, got>>
      BY <2>2 DEF keyboard_handler
    <3>2. CASE modifier(s)
      <4>1. Waiting' = Waiting
        BY <2>1, <3>1, <3>2 DEF modifier
      <4>2. CASE s \in {LSHIFT, LSHIFT + RELEASE}
        BY <3>1, <3>2, <4>1, <4>2
        DEF modifier, Queue!Next, Queue!Modifier, LSHIFT, RSHIFT, CAPS, RELEASE, TypeOK
      <4>3. CASE s \in {RSHIFT, RSHIFT + RELEASE}
        BY <3>1, <3>2, <4>1, <4>3
        DEF modifier, Queue!Next, Queue!Modifier, LSHIFT, RSHIFT, CAPS, RELEASE, TypeOK
      <4>4. CASE s = CAPS
        BY <3>1, <3>2, <4>1, <4>4
        DEF modifier, Queue!Next, Queue!Modifier, LSHIFT, RSHIFT, CAPS, RELEASE, TypeOK
      <4> QED
        BY <3>2, <4>2, <4>3, <4>4 DEF modifier, ModifierCodes
    <3>3. CASE press(s)
      <4>1. CASE s < RELEASE /\ translate(s) # 0
        <5>1. push(translate(s)) /\ translate(s) \in Char
          BY <3>3, <4>1, TranslateType DEF press
        <5>2. s \in KeyCodes /\ translate(s) = Queue!Glyph(s)
          BY <3>3, <4>1, TranslateIsGlyph DEF press
        <5>3. Queue!Press(s)
          BY <3>1, <3>3, <5>1, <5>2, PushAppends DEF Queue!Press, press, mods
        <5> QED
          BY <5>2, <5>3 DEF Queue!Next
      <4>2. CASE ~(s < RELEASE /\ translate(s) # 0)
        BY <2>1, <3>1, <3>3, <4>2 DEF press, mods, Queue!vars
      <4> QED
        BY <4>1, <4>2
    <3> QED
      BY <2>2, <3>2, <3>3 DEF keyboard_handler
  <2>3. CASE timer_irq \/ getchar_check \/ getchar_hlt \/ getchar_fetch
    BY <2>1, <2>3
    DEF timer_irq, getchar_check, getchar_hlt, getchar_fetch, mods, Queue!vars
  <2>4. CASE getchar_advance
    <3>1. Count > 0 /\ c = kbd_buffer[kbd_buffer_tail]
      BY <2>4 DEF getchar_advance, FetchedIsOldest
    <3> QED
      BY <2>4, <3>1, AdvanceTakes
      DEF getchar_advance, mods, Queue!Next, Queue!Take
  <2>5. CASE UNCHANGED vars
    BY <2>1, <2>5 DEF vars, mods, Queue!vars
  <2> QED
    BY <2>2, <2>3, <2>4, <2>5 DEF Next, keyboard_getchar
<1> QED
  BY <1>1, <1>2, TypeCorrect, FetchCorrect, PTL DEF Spec, QueueSpec, Queue!Spec
============================================================================
