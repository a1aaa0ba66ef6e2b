-------------------------------- MODULE Libc -------------------------------
(***************************************************************************)
(* The functions of src/libc that the kernel calls.  Memory is a sequence  *)
(* of numbers; a string is a sequence with a NUL in it, and what lies      *)
(* behind the NUL is not part of it.  Every loop is written as what its    *)
(* rounds do, in their order.                                              *)
(***************************************************************************)
EXTENDS Integers, Sequences, SequencesExt, FiniteSetsExt

NUL == 0
NL == 10
PERCENT == 37
MINUS == 45

\* The position of the NUL, less one.
strlen(s) == Min({n \in 1 .. Len(s) : s[n] = NUL}) - 1

\* A literal of the code as a string.
Literal(text) == Append(text, NUL)
Text(s) == SubSeq(s, 1, strlen(s))

strcpy(dest, src) ==
    [k \in 1 .. Len(dest) |-> IF k <= strlen(src) THEN src[k]
                              ELSE IF k = strlen(src) + 1 THEN NUL ELSE dest[k]]

\* The difference at the first place where s1 ends or the two differ.
strcmp(s1, s2) ==
    LET both == 1 .. Min({strlen(s1), strlen(s2)}) + 1
        stop == Min({strlen(s1) + 1} \cup {n \in both : s1[n] # s2[n]})
    IN s1[stop] - s2[stop]

\* The value is taken as an unsigned char.
memset(bufptr, value, size) ==
    [k \in 1 .. Len(bufptr) |-> IF k <= size THEN value % 256 ELSE bufptr[k]]

\* The rounds of a copy inside one memory, for the indices of a sequence.
Copy(mem, dst, src, indices) ==
    FoldLeft(LAMBDA m, n : [m EXCEPT ![dst + n] = m[src + n]], mem, indices)

Upwards(size) == [n \in 1 .. size |-> n - 1]
memmove(mem, dst, src, size) ==
    Copy(mem, dst, src, IF dst < src THEN Upwards(size) ELSE Reverse(Upwards(size)))

\* Two memories: the first size bytes of srcptr.
memcpy(dstptr, srcptr, size) ==
    [k \in 1 .. Len(dstptr) |-> IF k <= size THEN srcptr[k] ELSE dstptr[k]]

memcmp(aptr, bptr, size) ==
    LET differ == {n \in 1 .. size : aptr[n] # bptr[n]}
    IN IF differ = {} THEN 0 ELSE IF aptr[Min(differ)] < bptr[Min(differ)] THEN -1 ELSE 1

\* The digits of n, last one first, as the loop puts them into its buffer.
Digit(d) == IF d < 10 THEN 48 + d ELSE 97 + d - 10
Digits(n, base) ==
    LET buffer[r \in 0 .. n] ==
          IF r = 0 THEN << >> ELSE <<Digit(r % base)>> \o buffer[r \div base]
    IN buffer[n]

print_unsigned(n, base) == IF n = 0 THEN <<Digit(0)>> ELSE Reverse(Digits(n, base))

\* What "%s" writes for a null pointer: (null)
nullptr == << >>
NullText == <<40, 110, 117, 108, 108, 41>>

\* The specifiers, by their codes: s c d i u x.  One conversion; word is 2^32.
Specifiers == {115, 99, 100, 105, 117, 120}
Converted(c, arg, word) ==
    CASE c = 115         -> IF arg = nullptr THEN NullText ELSE Text(arg)
      [] c = 99          -> <<arg % 256>>
      [] c \in {100, 105} -> IF arg < 0 THEN <<MINUS>> \o print_unsigned((0 - arg) % word, 10)
                                       ELSE print_unsigned(arg, 10)
      [] c = 117         -> print_unsigned(arg, 10)
      [] c = 120         -> print_unsigned(arg, 16)

\* What printf writes.  A percent sign without a specifier behind it is written,
\* and the next character is looked at again.
printf(format, parameters, word) ==
    LET Round(st, c) ==
          CASE ~st.percent /\ c = PERCENT -> [st EXCEPT !.percent = TRUE]
            [] ~st.percent /\ c # PERCENT -> [st EXCEPT !.out = Append(@, c)]
            [] st.percent /\ c \in Specifiers ->
                 [percent |-> FALSE, args |-> Tail(st.args),
                  out |-> st.out \o Converted(c, Head(st.args), word)]
            [] st.percent /\ c \notin Specifiers ->
                 [st EXCEPT !.percent = FALSE,
                            !.out = @ \o (IF c = PERCENT THEN <<c>> ELSE <<PERCENT, c>>)]
        end == FoldLeft(Round, [percent |-> FALSE, args |-> parameters, out |-> << >>], format)
    IN IF end.percent THEN Append(end.out, PERCENT) ELSE end.out
============================================================================
