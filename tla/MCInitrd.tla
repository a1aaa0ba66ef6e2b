------------------------------ MODULE MCInitrd -----------------------------
(* Module Initrd with up to three files: names that fit, names that are cut  *)
(* to one that fits, with and without a directory, files with a byte 0 in    *)
(* them, empty ones and ones longer than cat's buffer.                       *)
EXTENDS Initrd

Long == <<97, 98, 99>>
SomeNames == {<<97>>, <<97, 98>>, Long, Dot}
SomeFiles == [path : {<<97>>, <<SLASH, 97, 98>>, <<98, SLASH, SLASH>> \o Long}, data : {<< >>, <<1, 0>>, <<2, 3, 4, 5>>}]
UpTo(n) == UNION {[1 .. m -> SomeFiles] : m \in 1 .. n}
ThreeFiles == UpTo(3)
----------------------------------------------------------------------------
(* The functions of Libc against what they are for, over all small inputs *)

Strings == {Literal(t) : t \in UNION {[1 .. n -> 1 .. 2] : n \in 0 .. 3}}
Blocks == [1 .. 3 -> 0 .. 2]

\* memmove moves a block also when it overlaps its destination, either way.
ASSUME MemmoveMoves ==
    LET mem == <<1, 2, 3, 4, 5, 6>> IN
    \A dst, src \in 1 .. 6 : \A size \in 0 .. 7 - Max({dst, src}) :
        memmove(mem, dst, src, size) =
            [n \in 1 .. 6 |-> IF n \in dst .. dst + size - 1 THEN mem[n - dst + src] ELSE mem[n]]

\* memcmp and strcmp order blocks and strings by the first byte that differs, and a
\* string before those that continue it.
Before(a, b) ==
    \E n \in 1 .. Len(b) :
        /\ \A m \in 1 .. n - 1 : m <= Len(a) /\ a[m] = b[m]
        /\ n > Len(a) \/ a[n] < b[n]
ASSUME MemcmpOrders ==
    \A a, b \in Blocks :
        memcmp(a, b, 3) = IF a = b THEN 0 ELSE IF Before(a, b) THEN -1 ELSE 1
ASSUME StrcmpOrders ==
    \A a, b \in Strings :
        /\ (strcmp(a, b) = 0) <=> (a = b)
        /\ (strcmp(a, b) < 0) <=> Before(Text(a), Text(b))

\* A string that is copied over another is the same string afterwards.
ASSUME StrcpyCopies ==
    \A a, b \in Strings :
        strlen(a) < Len(b) => Text(strcpy(b, a)) = Text(a) /\ strcmp(strcpy(b, a), a) = 0

\* The digits that print_unsigned writes have the value of the number, without
\* leading zeros, in both bases.
Value(c) == IF c < 97 THEN c - 48 ELSE c - 87
ASSUME DigitsHaveValue ==
    \A n \in 0 .. 300, base \in {10, 16} :
        LET d == print_unsigned(n, base) IN
        /\ FoldLeft(LAMBDA acc, c : base * acc + Value(c), 0, d) = n
        /\ Len(d) > 1 => Value(d[1]) # 0

\* "%d" writes the least number of a word of eight bits, whose negation does not
\* fit; a doubled, an unknown and a last percent sign are written; a null pointer is
\* not followed.
ASSUME FormatsEdges ==
    /\ printf(<<PERCENT, 100>>, <<-128>>, 256) = <<MINUS, 49, 50, 56>>
    /\ printf(<<PERCENT, PERCENT, PERCENT, 122, PERCENT>>, << >>, 256) =
         <<PERCENT, PERCENT, 122, PERCENT>>
    /\ printf(<<97, PERCENT, 115, PERCENT, 120, PERCENT, 117>>, <<<<98, NUL, 99>>, 255, 7>>, 256)
         = <<97, 98, 102, 102, 55>>
    /\ printf(<<PERCENT, 115, PERCENT, 99>>, <<nullptr, 256 + 65>>, 256) = NullText \o <<65>>
============================================================================
