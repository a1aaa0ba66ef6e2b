---------------------------- MODULE TrapsProofs ----------------------------
(***************************************************************************)
(* What holds of the processor's set-up and of the way of a trap for every *)
(* size of word, address of the TSS and of the stubs, set of interrupt     *)
(* lines and setting of the firmware's masks.                              *)
(***************************************************************************)
EXTENDS Traps, SequenceTheorems, WellFoundedInduction, TLAPS

----------------------------------------------------------------------------
(* Descriptors and gates *)

LEMMA Division ==
    ASSUME NEW a \in Nat, NEW b \in Nat \ {0}
    PROVE  a = b * (a \div b) + (a % b) /\ a % b \in 0 .. b - 1 /\ a \div b \in Nat
OBVIOUS

LEMMA Quotient ==
    ASSUME NEW b \in Nat \ {0}, NEW q \in Nat, NEW r \in 0 .. b - 1
    PROVE  (b * q + r) \div b = q /\ (b * q + r) % b = r
OBVIOUS

LEMMA SmallQuotient ==
    ASSUME NEW a \in Nat, NEW b \in Nat \ {0}, NEW c \in Nat \ {0}, a < b * c
    PROVE  a \div b < c
<1>1. PICK q \in Nat, r \in 0 .. b - 1 : q = a \div b /\ a = b * q + r
  BY Division
<1>2. SUFFICES ASSUME q >= c
               PROVE  FALSE
  BY <1>1
<1>3. b * q >= b * c
  BY <1>2
<1> QED
  BY <1>1, <1>3

LEMMA Sizes ==
    /\ NIBBLE \in Nat \ {0, 1}
    /\ {BYTE, HALF, WORD, PAGE} \subseteq Nat \ {0}
    /\ HALF * BYTE \in Nat \ {0} /\ HALF * NIBBLE \in Nat \ {0}
    /\ WORD = (HALF * BYTE) * BYTE /\ WORD = (HALF * NIBBLE) * PAGE
<1>1. NIBBLE \in Nat \ {0, 1}
  BY NibbleAssumption
<1> DEFINE N == NIBBLE
           B == N * N
           H == B * B
<1>2. N \in Nat \ {0} /\ B \in Nat \ {0}
  BY <1>1
<1> HIDE DEF N
<1>3. H \in Nat \ {0} /\ B * N \in Nat \ {0}
  BY <1>2
<1>4. H * H \in Nat \ {0} /\ H * B \in Nat \ {0} /\ H * N \in Nat \ {0}
  <2> HIDE DEF H
  <2> QED
    BY <1>2, <1>3
<1>5. H * H = (H * B) * B /\ H * H = (H * N) * (B * N)
  BY <1>2
<1> QED
  BY <1>1, <1>3, <1>2, <1>4, <1>5 DEF BYTE, HALF, WORD, PAGE, N

\* Three digits of a number that has no more.
LEMMA ThreeParts ==
    ASSUME NEW b \in Nat \ {0}, NEW h \in Nat \ {0}, NEW a \in Nat, h * b \in Nat \ {0},
           a < (h * b) * b
    PROVE  a = (a % h) + h * ((a \div h) % b) + h * b * ((a \div (h * b)) % b)
<1>1. PICK q \in Nat, r \in 0 .. h - 1 : q = a \div h /\ r = a % h /\ a = h * q + r
  BY Division
<1>2. PICK p \in Nat, s \in 0 .. b - 1 : p = q \div b /\ s = q % b /\ q = b * p + s
  BY Division
<1>3. a = (h * b) * p + (h * s + r)
  <2>1. p \in Nat /\ s \in Nat /\ r \in Nat
    BY <1>1, <1>2
  <2>2. h * (b * p + s) = (h * b) * p + h * s
    BY <2>1
  <2>3. h * q = (h * b) * p + h * s
    BY <1>2, <2>2
  <2>4. h * q \in Nat /\ (h * b) * p \in Nat /\ h * s \in Nat
    BY <1>1, <2>1
  <2> QED
    BY <1>1, <2>1, <2>3, <2>4
<1>4. h * s + r \in 0 .. h * b - 1
  <2>1. h * s <= h * (b - 1) /\ h * (b - 1) = h * b - h /\ h * s \in Nat
    BY <1>2
  <2> QED
    BY <1>1, <2>1
<1>5. a \div (h * b) = p
  <2>1. PICK c \in Nat \ {0} : c = h * b
    OBVIOUS
  <2>2. PICK t \in 0 .. c - 1 : t = h * s + r
    BY <1>4, <2>1
  <2>3. a = c * p + t
    BY <1>3, <2>1, <2>2
  <2> QED
    BY <2>1, <2>3, Quotient
<1>6. p < b
  BY <1>5, SmallQuotient
<1>7. p % b = p
  BY <1>6
<1>8. a = r + h * s + h * b * p
  <2>1. h * b * p \in Nat /\ h * s \in Nat /\ r \in Nat
    BY <1>1, <1>2
  <2> QED
    BY <1>3, <2>1
<1>9. /\ (a \div (h * b)) % b = p /\ (a \div h) % b = s /\ a % h = r
  BY <1>1, <1>2, <1>5, <1>7, Zenon
<1> QED
  BY <1>8, <1>9, Zenon

\* Two digits.
LEMMA TwoParts ==
    ASSUME NEW b \in Nat \ {0}, NEW h \in Nat \ {0}, NEW a \in Nat, a < h * b
    PROVE  a = (a % h) + h * ((a \div h) % b)
<1>1. PICK q \in Nat, r \in 0 .. h - 1 : q = a \div h /\ r = a % h /\ a = h * q + r
  BY Division
<1>2. q < b
  BY <1>1, SmallQuotient
<1>3. q % b = q
  BY <1>2
<1>4. a = r + h * q
  <2>1. h * q \in Nat /\ r \in Nat
    BY <1>1
  <2> QED
    BY <1>1, <2>1
<1>5. (a \div h) % b = q /\ a % h = r
  BY <1>1, <1>3, Zenon
<1> QED
  BY <1>4, <1>5, Zenon

\* The CPU reads from a descriptor the base and the limit that gdt_set_gate was called with,
\* wherever the segment lies and however long it is.
THEOREM SegmentDecoded ==
    ASSUME NEW base \in 0 .. WORD - 1, NEW limit \in 0 .. HALF * NIBBLE - 1, NEW access
    PROVE  LET d == gdt_set_gate(base, limit, access, FALSE) IN
           SegmentBase(d) = base /\ SegmentLimit(d) = limit
<1>1. base \in Nat /\ limit \in Nat /\ base < (HALF * BYTE) * BYTE /\ limit < HALF * NIBBLE
  BY Sizes
<1>2. base = (base % HALF) + HALF * ((base \div HALF) % BYTE)
             + HALF * BYTE * ((base \div (HALF * BYTE)) % BYTE)
  BY <1>1, Sizes, ThreeParts
<1>3. limit = (limit % HALF) + HALF * ((limit \div HALF) % NIBBLE)
  BY <1>1, Sizes, TwoParts
<1> QED
  BY <1>2, <1>3 DEF gdt_set_gate, SegmentBase, SegmentLimit

\* The four segments of gdt_install span all of memory: the limit has more digits than a descriptor
\* has room for, and what is cut off is what the unit of a page adds again.
THEOREM FlatDecoded ==
    ASSUME NEW access
    PROVE  LET d == gdt_set_gate(0, WORD - 1, access, TRUE) IN
           SegmentBase(d) = 0 /\ SegmentLimit(d) = WORD - 1 /\ d.access = access
<1>1. /\ HALF \in Nat \ {0} /\ NIBBLE \in Nat \ {0, 1} /\ BYTE \in Nat \ {0} /\ PAGE \in Nat \ {0}
      /\ HALF * BYTE \in Nat \ {0} /\ HALF * NIBBLE \in Nat \ {0}
      /\ WORD = (HALF * NIBBLE) * PAGE /\ WORD = HALF * HALF
      /\ HALF = NIBBLE * PAGE /\ WORD \in Nat \ {0}
  <2>1. HALF = NIBBLE * PAGE
    BY NibbleAssumption DEF HALF, PAGE, BYTE
  <2> QED
    BY <2>1, Sizes DEF WORD
<1>2. WORD - 1 = HALF * (HALF - 1) + (HALF - 1) /\ HALF - 1 \in Nat /\ HALF - 1 \in 0 .. HALF - 1
  BY <1>1
<1>3. (WORD - 1) % HALF = HALF - 1 /\ (WORD - 1) \div HALF = HALF - 1
  <2>1. PICK h \in Nat \ {0} : h = HALF
    BY <1>1
  <2>2. PICK q \in 0 .. h - 1 : q = h - 1
    BY <2>1
  <2>3. (h * q + q) \div h = q /\ (h * q + q) % h = q
    BY <2>2, Quotient
  <2>4. WORD - 1 = h * q + q
    BY <1>2, <2>1, <2>2
  <2> QED
    BY <2>1, <2>2, <2>3, <2>4
<1>4. (HALF - 1) % NIBBLE = NIBBLE - 1
  <2>1. HALF - 1 = NIBBLE * (PAGE - 1) + (NIBBLE - 1) /\ PAGE - 1 \in Nat
        /\ NIBBLE - 1 \in 0 .. NIBBLE - 1
    BY <1>1
  <2> QED
    BY <1>1, <2>1, Quotient
<1>5. (HALF - 1) + HALF * (NIBBLE - 1) = HALF * NIBBLE - 1
  BY <1>1
<1>6. (HALF * NIBBLE - 1) * PAGE + PAGE - 1 = WORD - 1
  BY <1>1
<1>7. /\ 0 % HALF = 0 /\ (0 \div HALF) % BYTE = 0 /\ (0 \div (HALF * BYTE)) % BYTE = 0
      /\ 0 + HALF * 0 + HALF * BYTE * 0 = 0
  BY <1>1
<1> QED
  BY <1>3, <1>4, <1>5, <1>6, <1>7 DEF gdt_set_gate, SegmentBase, SegmentLimit

\* The CPU jumps where idt_set_gate was told to.
THEOREM GateDecoded ==
    ASSUME NEW base \in 0 .. WORD - 1, NEW sel, NEW dpl
    PROVE  GateTarget(idt_set_gate(base, sel, dpl)) = base
<1>1. base \in Nat /\ base < HALF * HALF
  BY Sizes DEF WORD
<1> QED
  BY <1>1, Sizes, TwoParts DEF idt_set_gate, GateTarget
----------------------------------------------------------------------------
(* The inductive invariant *)

BootPlaces == {"gdt_install", "tss_install", "pic_remap", "idt_install", "keyboard_install", "sti"}
TrapPlaces == {"stub", "save", "handler", "restore", "iret"}
Places == BootPlaces \cup TrapPlaces \cup {"run", "halted"}
Before(p) == IF p = "tss_install" THEN {"gdt_install"}
             ELSE IF p = "pic_remap" THEN {"gdt_install", "tss_install"}
             ELSE IF p = "keyboard_install" THEN BootPlaces \ {"keyboard_install", "sti"}
             ELSE BootPlaces \ {"sti"}

Registers ==
    /\ pc \in Places
    /\ cs \in {0, KERNEL_CODE, USER_CODE} /\ eflags \in {0, IF_FLAG}
    /\ eip \in Nat /\ esp \in Nat /\ ss \in Nat
    /\ segs \in [SegRegs -> Nat] /\ gpr \in [GprRegs -> Nat] /\ stack \in Seq(Nat)

\* The four segment registers, which are always loaded together.
Loaded(s) == s["ds"] \in {KERNEL_DATA, USER_DATA} /\ \A r \in SegRegs : s[r] = s["ds"]

\* The tables are set up one after the other and then stay.
Segments ==
    /\ Flat(KERNEL_CODE, "code") /\ Flat(KERNEL_DATA, "data")
    /\ Flat(USER_CODE, "code") /\ Flat(USER_DATA, "data")
    /\ gdt[6].access.kind = "tss"
    /\ SegmentBase(gdt[6]) = TssAt /\ SegmentLimit(gdt[6]) = TssSize - 1
Gates == [v \in (0 .. 47) \cup {128} |->
              idt_set_gate(CodeAt + v, KERNEL_CODE, IF v = 128 THEN 3 ELSE 0)]
Tables ==
    /\ pc \notin Before("tss_install") => Segments /\ Loaded(segs) /\ cs # 0
    /\ pc \notin Before("pic_remap") => tss = [ss0 |-> KERNEL_DATA, esp0 |-> stack_top]
    /\ pc \notin Before("keyboard_install") => idt = Gates
    /\ pc \notin Before("sti") => 1 \in irq_routines

Booting ==
    pc \in BootPlaces =>
        /\ eflags = 0 /\ cs # USER_CODE
        /\ cause = NoCause /\ stub = None /\ origin = << >> /\ Len(stack) = 2

\* How far controller i is in its initialisation; each is written one step after
\* the other.
Progress(i) == step - i + 1
NextWord(n) == IF n <= 1 THEN 0 ELSE IF n <= 3 THEN 2 ELSE IF n <= 5 THEN 3 ELSE IF n <= 7 THEN 4 ELSE 0
BaseAt(i, n) == IF i = 1 THEN (IF n <= 3 THEN 8 ELSE 32) ELSE (IF n <= 3 THEN 112 ELSE 40)
Chips == [base : Nat, imr : 0 .. 255, irr : SUBSET (0 .. 7), isr : SUBSET (0 .. 7),
          cascade : Nat, mode : Nat, icw : Nat]
Controllers ==
    /\ pic \in [1 .. 2 -> Chips]
    /\ 2 \notin pic[1].irr
    /\ \A i \in 1 .. 2 : /\ pic[i].mode = 1 /\ pic[i].cascade = (IF i = 1 THEN 4 ELSE 2)
                         /\ pic[i].icw = NextWord(Progress(i))
                         /\ pic[i].base = BaseAt(i, Progress(i))
    /\ saved[1] \in 0 .. 255 /\ saved[2] \in 0 .. 255
    /\ step \in 0 .. 11
    /\ pc \in {"gdt_install", "tss_install"} => step = 0
    /\ pc = "pic_remap" => step \in 0 .. 10
    /\ pc \notin {"gdt_install", "tss_install", "pic_remap"} => step = 11

Running ==
    pc = "run" =>
        /\ cause = NoCause /\ stub = None
        /\ cs = KERNEL_CODE => Len(stack) = 2 /\ (origin # << >> => Context = origin)
        /\ cs = USER_CODE => ss = USER_DATA /\ Context = origin

\* A trap has been taken: what it has to return to, and which stub it came to.
Contexts == [cs : {KERNEL_CODE, USER_CODE}, eip : Nat, eflags : {0, IF_FLAG},
             segs : [SegRegs -> Nat], gpr : [GprRegs -> Nat], stack : Seq(Nat)]
Kinds == {"none", "line", "spurious", "exception", "int"}
Origin ==
    pc \in TrapPlaces =>
        /\ cs = KERNEL_CODE
        /\ origin \in Contexts /\ Loaded(origin.segs)
        /\ origin.cs = USER_CODE => Len(origin.stack) = 2 /\ origin.stack[2] = USER_DATA
        /\ origin.cs = KERNEL_CODE /\ cause.kind # "exception" => Len(origin.stack) = 2
Vector ==
    /\ cause.kind \in Kinds
    /\ cause.kind = "none" => pc \in BootPlaces \cup {"run", "iret"}
    /\ pc \in {"restore", "iret"} => cause.kind # "exception"
    /\ pc \in TrapPlaces /\ cause.kind # "none" =>
         /\ stub \in Nat
         /\ cause.kind \in {"line", "spurious"} =>
              cause.n \in 0 .. 15 /\ stub = 32 + cause.n /\ cause.err = None
         /\ cause.kind = "int" => cause.n = 128 /\ stub = 128 /\ cause.err = None
         /\ cause.kind = "exception" =>
              /\ cause.n \in Exceptions /\ stub = cause.n
              /\ IF stub \in ISR_ERRCODE THEN cause.err \in Nat ELSE cause.err = None

\* The stack holds the frame of an iret to the origin in its words n - 2 to n, and below it
\* what the origin had on the stack.
FrameAt(s, o, n) ==
    /\ Len(s) = n + Len(o.stack)
    /\ s[n - 2] = o.eip /\ s[n - 1] = o.cs /\ s[n] = o.eflags
    /\ \A i \in 1 .. Len(o.stack) : s[n + i] = o.stack[i]
Frame(n) == FrameAt(stack, origin, n)
Unchanged == segs = origin.segs /\ gpr = origin.gpr
Saved ==
    /\ stack[1] % 65536 = origin.segs["ds"]
    /\ stack[2] = origin.gpr["edi"] /\ stack[3] = origin.gpr["esi"] /\ stack[4] = origin.gpr["ebp"]
    /\ stack[6] = origin.gpr["ebx"] /\ stack[7] = origin.gpr["edx"] /\ stack[8] = origin.gpr["ecx"]
    /\ stack[9] = origin.gpr["eax"]
Err == IF cause.err = None THEN 0 ELSE cause.err
Frames ==
    /\ pc = "stub" => /\ Unchanged
                      /\ IF cause.err = None THEN Frame(3) ELSE Frame(4) /\ stack[1] = cause.err
    /\ pc = "save" => Unchanged /\ Frame(5) /\ stack[1] = stub /\ stack[2] = Err
    /\ pc = "handler" => Saved /\ Frame(14) /\ stack[10] = stub /\ stack[11] = Err
    /\ pc = "restore" => Saved /\ Frame(14)
    /\ pc = "iret" =>
         /\ Unchanged
         /\ stack[1] = origin.eip /\ stack[2] = origin.cs /\ stack[3] = origin.eflags
         /\ origin.cs = KERNEL_CODE => Frame(3)
         /\ origin.cs = USER_CODE =>
              /\ Len(stack) >= 5
              /\ stack[4] = origin.stack[1] /\ stack[5] = origin.stack[2]

IInv == Registers /\ Tables /\ Booting /\ Controllers /\ Running /\ Origin /\ Vector /\ Frames
        /\ EoiExact
----------------------------------------------------------------------------
(* The tables *)

LEMMA RegisterSets ==
    /\ GprRegs = {"eax", "ecx", "edx", "ebx", "ebp", "esi", "edi"}
    /\ SegRegs = {"ds", "es", "fs", "gs"}
BY DEF GprRegs, Pushes, Range, SegRegs

LEMMA SegmentsStay ==
    ASSUME UNCHANGED gdt
    PROVE  Segments' <=> Segments
BY DEF Segments, Flat

LEMMA InitInv == Init => IInv
<1> SUFFICES ASSUME Init PROVE IInv
  OBVIOUS
<1>1. /\ pc = "gdt_install" /\ tss = << >> /\ idt = << >> /\ saved = <<0, 0>> /\ step = 0
      /\ eflags = 0 /\ cs = 0 /\ eip = kernel_main /\ ss = 0 /\ esp = stack_top
      /\ segs = [s \in SegRegs |-> 0] /\ gpr = Initial /\ stack = <<magic, multiboot_ptr>>
      /\ stub = None /\ cause = NoCause /\ origin = << >>
  BY DEF Init
<1>2. PICK masks \in BiosMasks :
         pic = [i \in 1 .. 2 |->
                  [base |-> IF i = 1 THEN 8 ELSE 112, imr |-> masks[i], irr |-> {}, isr |-> {},
                   cascade |-> IF i = 1 THEN 4 ELSE 2, mode |-> 1, icw |-> 0]]
  BY DEF Init
<1>3. masks[1] \in 0 .. 255 /\ masks[2] \in 0 .. 255
  BY MaskAssumption
<1>4. gpr \in [GprRegs -> Nat]
  <2>1. ASSUME NEW r \in GprRegs
        PROVE  Initial[r] \in Nat
    <3> DEFINE at(q) == CHOOSE i \in 1 .. 8 : Pushes[i] = q
    <3>1. \E i \in 1 .. 8 : Pushes[i] = r
      BY RegisterSets DEF Pushes
    <3>2. at(r) \in 1 .. 8
      BY <3>1
    <3>3. Initial = [q \in GprRegs |-> 65537 * at(q)]
      BY DEF Initial
    <3> HIDE DEF at
    <3> QED
      BY <3>2, <3>3
  <2> QED
    <3>1. Initial = [q \in GprRegs |-> Initial[q]]
      BY DEF Initial
    <3> QED
      BY <1>1, <2>1, <3>1
<1>5. Registers
  BY <1>1, <1>4 DEF Registers, Places, BootPlaces, kernel_main, stack_top, magic, multiboot_ptr
<1>6. Tables
  BY <1>1 DEF Tables, Before, BootPlaces
<1>7. Booting
  BY <1>1 DEF Booting, USER_CODE
<1>8. Controllers
  <2>1. pic \in [1 .. 2 -> Chips]
    BY <1>2, <1>3 DEF Chips
  <2>2. \A i \in 1 .. 2 : /\ pic[i].mode = 1 /\ pic[i].cascade = (IF i = 1 THEN 4 ELSE 2)
                          /\ pic[i].icw = 0 /\ pic[i].base = IF i = 1 THEN 8 ELSE 112
    BY <1>2
  <2>3. \A i \in 1 .. 2 : Progress(i) <= 1 /\ Progress(i) \in Int
    BY <1>1 DEF Progress
  <2>4. pic[1].irr = {}
    BY <1>2
  <2> QED
    BY <1>1, <2>1, <2>2, <2>3, <2>4 DEF Controllers, NextWord, BaseAt
<1>9. Running /\ Origin /\ Vector /\ Frames
  BY <1>1 DEF Running, Origin, Vector, Frames, TrapPlaces, BootPlaces, NoCause, Cause, Kinds
<1>10. EoiExact
  <2>1. pic[1].isr = {} /\ pic[2].isr = {}
    BY <1>2
  <2> QED
    BY <1>1, <2>1 DEF EoiExact, InTrap, NoCause, Cause
<1> QED
  BY <1>5, <1>6, <1>7, <1>8, <1>9, <1>10 DEF IInv

\* While the system is set up no trap is taken.
LEMMA NoTrapYet ==
    ASSUME IInv, pc \in BootPlaces, pc' \in BootPlaces \cup {"run"},
           UNCHANGED <<esp, gpr, stack, stub, cause, origin>>
    PROVE  Vector' /\ Frames' /\ Origin' /\ (pc' = "run" => cause = NoCause /\ stub = None)
<1>1. cause = NoCause /\ stub = None
  BY DEF IInv, Booting
<1>2. pc' \notin TrapPlaces /\ pc' \in BootPlaces \cup {"run"}
  BY DEF BootPlaces, TrapPlaces
<1>3. pc' \notin {"stub", "save", "handler", "restore", "iret"}
  BY <1>2 DEF TrapPlaces
<1> QED
  BY <1>1, <1>2, <1>3 DEF Vector, Frames, Origin, NoCause, Cause, Kinds

\* Nothing is in service yet either.
LEMMA NoServiceYet ==
    ASSUME IInv, pc \in BootPlaces, pc' \in BootPlaces \cup {"run"},
           UNCHANGED <<stub, cause>>
    PROVE  /\ pic[1].isr = {} /\ pic[2].isr = {}
           /\ pic'[1].isr = {} /\ pic'[2].isr = {} => EoiExact'
<1>1. cause.kind = "none" /\ cause' = cause /\ stub = None /\ stub' = None
  BY DEF IInv, Booting, NoCause, Cause
<1> QED
  BY <1>1 DEF IInv, EoiExact, InTrap

LEMMA gdt_installInv ==
    ASSUME IInv, gdt_install
    PROVE  IInv'
<1>1. /\ pc = "gdt_install" /\ pc' = "tss_install"
      /\ UNCHANGED <<tss, idt, saved, step, irq_routines, pic, eflags, eip, esp, gpr, stack, stub,
                     cause, origin>>
      /\ segs' = [s \in SegRegs |-> KERNEL_DATA] /\ ss' = KERNEL_DATA /\ cs' = KERNEL_CODE
  BY DEF gdt_install
<1> DEFINE all == WORD - 1
<1>2. gdt' = << gdt_set_gate(0, 0, Access("null", 0), FALSE),
                gdt_set_gate(0, all, Access("code", 0), TRUE),
                gdt_set_gate(0, all, Access("data", 0), TRUE),
                gdt_set_gate(0, all, Access("code", 3), TRUE),
                gdt_set_gate(0, all, Access("data", 3), TRUE),
                gdt_set_gate(TssAt, TssSize - 1, Access("tss", 3), FALSE) >>
  BY DEF gdt_install
<1>3. Segments'
  <2>1. /\ 8 \div 8 + 1 = 2 /\ 16 \div 8 + 1 = 3 /\ 27 \div 8 + 1 = 4 /\ 35 \div 8 + 1 = 5
        /\ 8 % 4 = 0 /\ 16 % 4 = 0 /\ 27 % 4 = 3 /\ 35 % 4 = 3
    OBVIOUS
  <2>2. /\ DOMAIN gdt' = 1 .. 6
        /\ gdt'[2] = gdt_set_gate(0, all, Access("code", 0), TRUE)
        /\ gdt'[3] = gdt_set_gate(0, all, Access("data", 0), TRUE)
        /\ gdt'[4] = gdt_set_gate(0, all, Access("code", 3), TRUE)
        /\ gdt'[5] = gdt_set_gate(0, all, Access("data", 3), TRUE)
        /\ gdt'[6] = gdt_set_gate(TssAt, TssSize - 1, Access("tss", 3), FALSE)
    BY <1>2
  <2>3. ASSUME NEW d, NEW a, d = gdt_set_gate(0, all, a, TRUE)
        PROVE  d.access = a /\ SegmentBase(d) = 0 /\ SegmentLimit(d) = WORD - 1
    <3>1. /\ gdt_set_gate(0, all, a, TRUE).access = a
          /\ SegmentBase(gdt_set_gate(0, all, a, TRUE)) = 0
          /\ SegmentLimit(gdt_set_gate(0, all, a, TRUE)) = WORD - 1
      BY FlatDecoded, Zenon
    <3> QED
      BY <2>3, <3>1, Zenon
  <2>4. /\ SegmentBase(gdt'[6]) = TssAt /\ SegmentLimit(gdt'[6]) = TssSize - 1
        /\ gdt'[6].access.kind = "tss"
    <3>1. TssAt \in 0 .. WORD - 1 /\ TssSize - 1 \in 0 .. HALF * NIBBLE - 1
      BY AddressAssumption, Sizes
    <3>2. gdt'[6].access = Access("tss", 3)
      BY <2>2 DEF gdt_set_gate
    <3>3. /\ SegmentBase(gdt_set_gate(TssAt, TssSize - 1, Access("tss", 3), FALSE)) = TssAt
          /\ SegmentLimit(gdt_set_gate(TssAt, TssSize - 1, Access("tss", 3), FALSE)) = TssSize - 1
      BY <3>1, SegmentDecoded, Zenon
    <3>4. SegmentBase(gdt'[6]) = TssAt /\ SegmentLimit(gdt'[6]) = TssSize - 1
      BY <2>2, <3>3, Zenon
    <3> QED
      BY <3>2, <3>4 DEF Access
  <2>5. (Flat(8, "code"))' /\ (Flat(16, "data"))'
    <3>1. /\ gdt'[2].access = Access("code", 0) /\ gdt'[3].access = Access("data", 0)
          /\ SegmentBase(gdt'[2]) = 0 /\ SegmentLimit(gdt'[2]) = WORD - 1
          /\ SegmentBase(gdt'[3]) = 0 /\ SegmentLimit(gdt'[3]) = WORD - 1
      BY <2>2, <2>3, Zenon
    <3>2. 2 \in DOMAIN gdt' /\ 3 \in DOMAIN gdt'
      BY <2>2
    <3> QED
      BY <2>1, <3>1, <3>2, Zenon DEF Flat
  <2>6. (Flat(27, "code"))' /\ (Flat(35, "data"))'
    <3>1. /\ gdt'[4].access = Access("code", 3) /\ gdt'[5].access = Access("data", 3)
          /\ SegmentBase(gdt'[4]) = 0 /\ SegmentLimit(gdt'[4]) = WORD - 1
          /\ SegmentBase(gdt'[5]) = 0 /\ SegmentLimit(gdt'[5]) = WORD - 1
      BY <2>2, <2>3, Zenon
    <3>2. 4 \in DOMAIN gdt' /\ 5 \in DOMAIN gdt'
      BY <2>2
    <3> QED
      BY <2>1, <3>1, <3>2, Zenon DEF Flat
  <2> QED
    BY <2>4, <2>5, <2>6 DEF Segments, KERNEL_CODE, KERNEL_DATA, USER_CODE, USER_DATA
<1>4. Registers'
  BY <1>1 DEF IInv, Registers, Places, BootPlaces, KERNEL_DATA, KERNEL_CODE
<1>5. Tables'
  BY <1>1, <1>3, RegisterSets DEF Tables, Loaded, Before, BootPlaces, KERNEL_CODE, KERNEL_DATA
<1>6. Booting'
  BY <1>1 DEF IInv, Booting, BootPlaces, KERNEL_CODE, USER_CODE
<1>7. Controllers'
  BY <1>1 DEF IInv, Controllers, Progress
<1>8. Running' /\ Vector' /\ Frames' /\ Origin'
  BY <1>1, NoTrapYet DEF Running, BootPlaces
<1>9. EoiExact'
  BY <1>1, NoServiceYet DEF BootPlaces
<1> QED
  BY <1>4, <1>5, <1>6, <1>7, <1>8, <1>9 DEF IInv

LEMMA tss_installInv ==
    ASSUME IInv, tss_install
    PROVE  IInv'
<1>1. /\ pc = "tss_install" /\ pc' = "pic_remap"
      /\ tss' = [ss0 |-> KERNEL_DATA, esp0 |-> stack_top]
      /\ UNCHANGED <<gdt, idt, saved, step, irq_routines, pic, cpu, stub, cause, origin>>
  BY DEF tss_install
<1>2. Registers'
  BY <1>1 DEF IInv, Registers, Places, BootPlaces, cpu
<1>3. Tables'
  <2>1. Segments' /\ Loaded(segs) /\ cs # 0
    BY <1>1, SegmentsStay DEF IInv, Tables, Before
  <2> QED
    BY <1>1, <2>1 DEF Tables, Loaded, Before, BootPlaces, cpu
<1>4. Booting'
  BY <1>1 DEF IInv, Booting, BootPlaces, cpu
<1>5. Controllers'
  BY <1>1 DEF IInv, Controllers, Progress
<1>6. Running' /\ Vector' /\ Frames' /\ Origin'
  BY <1>1, NoTrapYet DEF Running, BootPlaces, cpu
<1>7. EoiExact'
  BY <1>1, NoServiceYet DEF BootPlaces
<1> QED
  BY <1>2, <1>3, <1>4, <1>5, <1>6, <1>7 DEF IInv

LEMMA pic_remap_saveInv ==
    ASSUME IInv, pic_remap_save
    PROVE  IInv'
<1>1. /\ pc = "pic_remap" /\ pc' = "pic_remap" /\ step = 0 /\ step' = 1
      /\ saved' = <<pic[1].imr, pic[2].imr>>
      /\ UNCHANGED <<gdt, tss, idt, irq_routines, pic, cpu, stub, cause, origin>>
  BY DEF pic_remap_save
<1>2. Registers'
  BY <1>1 DEF IInv, Registers, cpu
<1>3. Tables'
  <2>1. Segments' /\ Loaded(segs) /\ cs # 0
    BY <1>1, SegmentsStay DEF IInv, Tables, Before
  <2> QED
    BY <1>1, <2>1 DEF IInv, Tables, Loaded, Before, BootPlaces, cpu
<1>4. Booting'
  BY <1>1 DEF IInv, Booting, BootPlaces, cpu
<1>5. Controllers'
  <2>1. pic[1] \in Chips /\ pic[2] \in Chips
    BY DEF IInv, Controllers
  <2>2. saved'[1] \in 0 .. 255 /\ saved'[2] \in 0 .. 255
    BY <1>1, <2>1 DEF Chips
  <2>3. \A i \in 1 .. 2 : NextWord(Progress(i)) = NextWord(Progress(i)')
                          /\ BaseAt(i, Progress(i)) = BaseAt(i, Progress(i)')
    BY <1>1 DEF Progress, NextWord, BaseAt
  <2> QED
    BY <1>1, <2>2, <2>3 DEF IInv, Controllers
<1>6. Running' /\ Vector' /\ Frames' /\ Origin'
  BY <1>1, NoTrapYet DEF Running, BootPlaces, cpu
<1>7. EoiExact'
  BY <1>1, NoServiceYet DEF BootPlaces
<1> QED
  BY <1>2, <1>3, <1>4, <1>5, <1>6, <1>7 DEF IInv

\* What a write to the data port does, depending on how far the initialisation is.
LEMMA DataEffect ==
    ASSUME NEW c \in Chips, NEW val \in 0 .. 255, NEW d, d = OutData(c, val)
    PROVE  /\ d \in Chips /\ d.irr = c.irr /\ d.isr = c.isr
           /\ d.base = IF c.icw = 2 THEN 8 * (val \div 8) ELSE c.base
           /\ d.cascade = IF c.icw = 3 THEN val ELSE c.cascade
           /\ d.mode = IF c.icw = 4 THEN val ELSE c.mode
           /\ d.icw = IF c.icw = 2 THEN 3 ELSE IF c.icw = 3 THEN 4 ELSE IF c.icw = 4 THEN 0 ELSE c.icw
<1>1. /\ 8 * (val \div 8) \in Nat /\ c.base \in Nat /\ c.cascade \in Nat /\ c.mode \in Nat
      /\ c.icw \in Nat /\ val \in Nat /\ c.imr \in 0 .. 255
      /\ c.irr \in SUBSET (0 .. 7) /\ c.isr \in SUBSET (0 .. 7)
  BY Division DEF Chips
<1>2. CASE c.icw = 2
  <2>1. d = [c EXCEPT !.base = 8 * (val \div 8), !.icw = 3]
    BY <1>2 DEF OutData
  <2>2. d = [base |-> 8 * (val \div 8), imr |-> c.imr, irr |-> c.irr, isr |-> c.isr,
             cascade |-> c.cascade, mode |-> c.mode, icw |-> 3]
    BY <2>1 DEF Chips
  <2> QED
    BY <1>1, <1>2, <2>2 DEF Chips
<1>3. CASE c.icw = 3
  <2>1. d = [c EXCEPT !.cascade = val, !.icw = 4]
    BY <1>3 DEF OutData
  <2>2. d = [base |-> c.base, imr |-> c.imr, irr |-> c.irr, isr |-> c.isr,
             cascade |-> val, mode |-> c.mode, icw |-> 4]
    BY <2>1 DEF Chips
  <2> QED
    BY <1>1, <1>3, <2>2 DEF Chips
<1>4. CASE c.icw = 4
  <2>1. d = [c EXCEPT !.mode = val, !.icw = 0]
    BY <1>4 DEF OutData
  <2>2. d = [base |-> c.base, imr |-> c.imr, irr |-> c.irr, isr |-> c.isr,
             cascade |-> c.cascade, mode |-> val, icw |-> 0]
    BY <2>1 DEF Chips
  <2> QED
    BY <1>1, <1>4, <2>2 DEF Chips
<1>5. CASE c.icw \notin {2, 3, 4}
  <2>1. d = [c EXCEPT !.imr = val]
    BY <1>5 DEF OutData
  <2>2. d = [base |-> c.base, imr |-> val, irr |-> c.irr, isr |-> c.isr,
             cascade |-> c.cascade, mode |-> c.mode, icw |-> c.icw]
    BY <2>1 DEF Chips
  <2> QED
    BY <1>1, <1>5, <2>2 DEF Chips
<1> QED
  BY <1>2, <1>3, <1>4, <1>5

LEMMA ResetEffect ==
    ASSUME NEW c \in Chips, NEW d, d = OutCommand(c, 17)
    PROVE  /\ d \in Chips /\ d.irr = {} /\ d.isr = {} /\ d.icw = 2
           /\ d.base = c.base /\ d.cascade = c.cascade /\ d.mode = c.mode
<1>1. d = [c EXCEPT !.imr = 0, !.irr = {}, !.isr = {}, !.icw = 2]
  BY DEF OutCommand
<1>2. d = [base |-> c.base, imr |-> 0, irr |-> {}, isr |-> {}, cascade |-> c.cascade,
           mode |-> c.mode, icw |-> 2]
  BY <1>1 DEF Chips
<1>3. c.base \in Nat /\ c.cascade \in Nat /\ c.mode \in Nat
  BY DEF Chips
<1> QED
  BY <1>2, <1>3 DEF Chips

\* Whose turn it is, and what is written.
LEMMA WriteIs ==
    ASSUME saved[1] \in 0 .. 255, saved[2] \in 0 .. 255, step \in 1 .. 10
    PROVE  \E chip \in 1 .. 2, n \in {1, 3, 5, 7, 9}, val \in 0 .. 255 :
             /\ n = Progress(chip)
             /\ PicWrites[step] = <<chip, IF n = 1 THEN "command" ELSE "data", val>>
             /\ n = 1 => val = 17
             /\ n = 3 => val = IF chip = 1 THEN 32 ELSE 40
             /\ n = 5 => val = IF chip = 1 THEN 4 ELSE 2
             /\ n = 7 => val = 1
<1> DEFINE Is(chip, n, val) ==
             /\ n = Progress(chip)
             /\ PicWrites[step] = <<chip, IF n = 1 THEN "command" ELSE "data", val>>
             /\ n = 1 => val = 17
             /\ n = 3 => val = IF chip = 1 THEN 32 ELSE 40
             /\ n = 5 => val = IF chip = 1 THEN 4 ELSE 2
             /\ n = 7 => val = 1
<1>1. SUFFICES \E chip \in 1 .. 2, n \in {1, 3, 5, 7, 9}, val \in 0 .. 255 : Is(chip, n, val)
  OBVIOUS
<1>2. /\ step = 1 => Is(1, 1, 17)
      /\ step = 2 => Is(2, 1, 17)
  BY DEF PicWrites, Progress
<1>3. /\ step = 3 => Is(1, 3, 32)
      /\ step = 4 => Is(2, 3, 40)
  BY DEF PicWrites, Progress
<1>4. /\ step = 5 => Is(1, 5, 4)
      /\ step = 6 => Is(2, 5, 2)
  BY DEF PicWrites, Progress
<1>5. /\ step = 7 => Is(1, 7, 1)
      /\ step = 8 => Is(2, 7, 1)
  BY DEF PicWrites, Progress
<1>6. /\ step = 9 => Is(1, 9, saved[1])
      /\ step = 10 => Is(2, 9, saved[2])
  BY DEF PicWrites, Progress
<1> HIDE DEF Is
<1>7. step \in {1, 2, 3, 4, 5, 6, 7, 8, 9, 10}
  OBVIOUS
<1> QED
  BY <1>2, <1>3, <1>4, <1>5, <1>6, <1>7

LEMMA pic_remapInv ==
    ASSUME IInv, pic_remap
    PROVE  IInv'
<1>1. /\ pc = "pic_remap" /\ step \in 1 .. 10 /\ step' = step + 1
      /\ pc' = IF step = 10 THEN "idt_install" ELSE "pic_remap"
      /\ outb(PicWrites[step][1], PicWrites[step][2], PicWrites[step][3])
      /\ UNCHANGED <<gdt, tss, idt, saved, irq_routines, cpu, stub, cause, origin>>
      /\ Controllers
  <2>1. Len(PicWrites) = 10
    BY DEF PicWrites
  <2> QED
    BY <2>1 DEF pic_remap, IInv, Controllers
<1>2. Registers'
  BY <1>1 DEF IInv, Registers, Places, BootPlaces, cpu
<1>3. Tables'
  <2>1. Segments' /\ Loaded(segs) /\ cs # 0
    BY <1>1, SegmentsStay DEF IInv, Tables, Before
  <2> QED
    BY <1>1, <2>1 DEF IInv, Tables, Loaded, Before, BootPlaces, cpu
<1>4. Booting'
  BY <1>1 DEF IInv, Booting, BootPlaces, cpu
<1>5. PICK chip \in 1 .. 2, n \in {1, 3, 5, 7, 9}, val \in 0 .. 255 :
         /\ n = Progress(chip)
         /\ PicWrites[step] = <<chip, IF n = 1 THEN "command" ELSE "data", val>>
         /\ n = 1 => val = 17
         /\ n = 3 => val = IF chip = 1 THEN 32 ELSE 40
         /\ n = 5 => val = IF chip = 1 THEN 4 ELSE 2
         /\ n = 7 => val = 1
  BY <1>1, WriteIs DEF Controllers
<1>6. PICK d : /\ pic' = [pic EXCEPT ![chip] = d]
               /\ d = IF n = 1 THEN OutCommand(pic[chip], 17) ELSE OutData(pic[chip], val)
  <2>1. /\ PicWrites[step][1] = chip /\ PicWrites[step][3] = val
        /\ PicWrites[step][2] = "command" <=> n = 1
    BY <1>5
  <2>2. pic' = [pic EXCEPT ![chip] = IF n = 1 THEN OutCommand(pic[chip], val)
                                              ELSE OutData(pic[chip], val)]
    BY <1>1, <2>1 DEF outb
  <2> QED
    BY <1>5, <2>2
<1>7. /\ pic[chip] \in Chips /\ pic[chip].icw = NextWord(n) /\ pic[chip].base = BaseAt(chip, n)
      /\ pic[chip].mode = 1 /\ pic[chip].cascade = IF chip = 1 THEN 4 ELSE 2
      /\ chip = 1 => 2 \notin pic[chip].irr
  BY <1>1, <1>5 DEF Controllers
<1>8. pic[1].isr = {} /\ pic[2].isr = {}
  BY <1>1, NoServiceYet DEF BootPlaces
<1>9. /\ d \in Chips /\ d.isr = {} /\ (chip = 1 => 2 \notin d.irr)
      /\ d.icw = NextWord(n + 1) /\ d.base = BaseAt(chip, n + 1)
      /\ d.mode = 1 /\ d.cascade = IF chip = 1 THEN 4 ELSE 2
  <2>1. pic[chip].isr = {}
    BY <1>8
  <2>2. CASE n = 1
    BY <1>6, <1>7, <2>2, ResetEffect DEF NextWord, BaseAt
  <2>3. CASE n # 1
    <3>1. PICK c \in Chips : c = pic[chip]
      BY <1>7
    <3>2. d = OutData(c, val)
      BY <1>6, <2>3, <3>1
    <3>3. /\ d \in Chips /\ d.irr = c.irr /\ d.isr = c.isr
          /\ d.base = IF c.icw = 2 THEN 8 * (val \div 8) ELSE c.base
          /\ d.cascade = IF c.icw = 3 THEN val ELSE c.cascade
          /\ d.mode = IF c.icw = 4 THEN val ELSE c.mode
          /\ d.icw = IF c.icw = 2 THEN 3 ELSE IF c.icw = 3 THEN 4 ELSE IF c.icw = 4 THEN 0 ELSE c.icw
      BY <3>2, DataEffect, ZenonT(30)
    <3>4. /\ c.icw = IF n = 3 THEN 2 ELSE IF n = 5 THEN 3 ELSE IF n = 7 THEN 4 ELSE 0
          /\ NextWord(n + 1) = IF n = 3 THEN 3 ELSE IF n = 5 THEN 4 ELSE 0
      BY <1>7, <2>3, <3>1 DEF NextWord
    <3>5. n = 3 => 8 * (val \div 8) = IF chip = 1 THEN 32 ELSE 40
      BY <1>5
    <3>6. d.base = BaseAt(chip, n + 1)
      <4>1. c.base = BaseAt(chip, n)
        BY <1>7, <3>1
      <4> QED
        BY <2>3, <3>3, <3>4, <3>5, <4>1 DEF BaseAt
    <3>7. /\ c.mode = 1 /\ c.cascade = (IF chip = 1 THEN 4 ELSE 2) /\ c.isr = {}
          /\ chip = 1 => 2 \notin c.irr
      BY <1>7, <2>1, <3>1
    <3> QED
      BY <1>5, <2>3, <3>3, <3>4, <3>6, <3>7
  <2> QED
    BY <2>2, <2>3
<1>10. /\ pic' \in [1 .. 2 -> Chips] /\ pic'[chip] = d
       /\ \A i \in 1 .. 2 : i # chip => pic'[i] = pic[i]
  BY <1>1, <1>6, <1>9 DEF Controllers
<1>11. ASSUME NEW i \in 1 .. 2
       PROVE  /\ pic'[i].mode = 1 /\ pic'[i].cascade = (IF i = 1 THEN 4 ELSE 2)
              /\ pic'[i].icw = NextWord(Progress(i)') /\ pic'[i].base = BaseAt(i, Progress(i)')
              /\ (i = 1 => 2 \notin pic'[i].irr) /\ pic'[i].isr = {}
  <2>1. CASE i = chip
    <3>1. Progress(i)' = n + 1
      BY <1>1, <1>5, <2>1 DEF Progress
    <3> QED
      BY <1>9, <1>10, <2>1, <3>1
  <2>2. CASE i # chip
    <3>1. /\ Progress(i)' = Progress(i) + 1
          /\ Progress(i) \in {0, 2, 4, 6, 8, 10}
          /\ i = 1 => Progress(i) # 0
      BY <1>1, <1>5, <2>2 DEF Progress
    <3>2. NextWord(Progress(i)') = NextWord(Progress(i)) /\ BaseAt(i, Progress(i)') = BaseAt(i, Progress(i))
      BY <3>1 DEF NextWord, BaseAt
    <3> QED
      BY <1>1, <1>8, <1>10, <2>2, <3>2 DEF Controllers
  <2> QED
    BY <2>1, <2>2
<1>12. Controllers'
  BY <1>1, <1>10, <1>11 DEF Controllers
<1>13. Running' /\ Vector' /\ Frames' /\ Origin'
  BY <1>1, NoTrapYet DEF Running, BootPlaces, cpu
<1>14. EoiExact'
  BY <1>1, <1>11, NoServiceYet DEF BootPlaces
<1> QED
  BY <1>2, <1>3, <1>4, <1>12, <1>13, <1>14 DEF IInv

LEMMA idt_installInv ==
    ASSUME IInv, idt_install
    PROVE  IInv'
<1>1. /\ pc = "idt_install" /\ pc' = "keyboard_install" /\ idt' = Gates
      /\ UNCHANGED <<gdt, tss, saved, step, irq_routines, pic, cpu, stub, cause, origin>>
  BY DEF idt_install, Gates
<1>2. Registers'
  BY <1>1 DEF IInv, Registers, Places, BootPlaces, cpu
<1>3. Tables'
  <2>1. Segments' /\ Loaded(segs) /\ cs # 0
    BY <1>1, SegmentsStay DEF IInv, Tables, Before
  <2>2. Gates' = Gates
    BY DEF Gates
  <2> QED
    BY <1>1, <2>1, <2>2 DEF IInv, Tables, Loaded, Before, BootPlaces, cpu
<1>4. Booting'
  BY <1>1 DEF IInv, Booting, BootPlaces, cpu
<1>5. Controllers'
  BY <1>1 DEF IInv, Controllers, Progress
<1>6. Running' /\ Vector' /\ Frames' /\ Origin'
  BY <1>1, NoTrapYet DEF Running, BootPlaces, cpu
<1>7. EoiExact'
  BY <1>1, NoServiceYet DEF BootPlaces
<1> QED
  BY <1>2, <1>3, <1>4, <1>5, <1>6, <1>7 DEF IInv

LEMMA keyboard_installInv ==
    ASSUME IInv, keyboard_install
    PROVE  IInv'
<1>1. /\ pc = "keyboard_install" /\ pc' = "sti" /\ irq_routines' = irq_routines \cup {1}
      /\ UNCHANGED <<gdt, tss, idt, saved, step, pic, cpu, stub, cause, origin>>
  BY DEF keyboard_install
<1>2. Registers'
  BY <1>1 DEF IInv, Registers, Places, BootPlaces, cpu
<1>3. Tables'
  <2>1. Segments' /\ Loaded(segs) /\ cs # 0
    BY <1>1, SegmentsStay DEF IInv, Tables, Before
  <2>2. Gates' = Gates
    BY DEF Gates
  <2> QED
    BY <1>1, <2>1, <2>2 DEF IInv, Tables, Loaded, Before, BootPlaces, cpu
<1>4. Booting'
  BY <1>1 DEF IInv, Booting, BootPlaces, cpu
<1>5. Controllers'
  BY <1>1 DEF IInv, Controllers, Progress
<1>6. Running' /\ Vector' /\ Frames' /\ Origin'
  BY <1>1, NoTrapYet DEF Running, BootPlaces, cpu
<1>7. EoiExact'
  BY <1>1, NoServiceYet DEF BootPlaces
<1> QED
  BY <1>2, <1>3, <1>4, <1>5, <1>6, <1>7 DEF IInv

\* From here on the tables do not change, and nor does what the controllers have been told
\* but for what they have seen.
Settled == UNCHANGED <<gdt, tss, idt, saved, step, irq_routines>>

LEMMA TablesStay ==
    ASSUME IInv, Settled, pc \notin BootPlaces, pc' \notin BootPlaces, Loaded(segs'), cs' # 0
    PROVE  Tables'
<1>1. /\ Segments' /\ Gates' = Gates
      /\ tss = [ss0 |-> KERNEL_DATA, esp0 |-> stack_top] /\ idt = Gates /\ 1 \in irq_routines
  BY SegmentsStay DEF IInv, Tables, Before, BootPlaces, Settled, Gates
<1> QED
  BY <1>1 DEF Tables, Settled, Loaded

LEMMA stiInv ==
    ASSUME IInv, sti
    PROVE  IInv'
<1>1. /\ pc = "sti" /\ pc' = "run" /\ eflags' = IF_FLAG
      /\ UNCHANGED <<boot, pic, cs, eip, ss, esp, segs, gpr, stack, stub, cause, origin>>
  BY DEF sti
<1>2. Registers'
  BY <1>1 DEF IInv, Registers, Places
<1>3. Tables'
  <2>1. Segments' /\ Loaded(segs) /\ cs # 0
    BY <1>1, SegmentsStay DEF IInv, Tables, Before, boot
  <2>2. Gates' = Gates
    BY DEF Gates
  <2> QED
    BY <1>1, <2>1, <2>2 DEF IInv, Tables, Loaded, Before, BootPlaces, boot
<1>4. Booting'
  BY <1>1 DEF Booting, BootPlaces
<1>5. Controllers'
  BY <1>1 DEF IInv, Controllers, Progress, boot
<1>6. Vector' /\ Frames' /\ Origin' /\ cause = NoCause /\ stub = None
  BY <1>1, NoTrapYet DEF BootPlaces
<1>7. Running'
  <2>1. cs # USER_CODE /\ origin = << >> /\ Len(stack) = 2
    BY <1>1 DEF IInv, Booting, BootPlaces
  <2> QED
    BY <1>1, <1>6, <2>1 DEF Running
<1>8. EoiExact'
  BY <1>1, NoServiceYet DEF BootPlaces
<1> QED
  BY <1>2, <1>3, <1>4, <1>5, <1>6, <1>7, <1>8 DEF IInv
----------------------------------------------------------------------------
(* The controllers *)

LEMMA LeastElement ==
    ASSUME NEW T \in SUBSET Nat, T # {}
    PROVE  \E n \in T : \A m \in T : n <= m
<1> DEFINE R == {ss_ \in Nat \X Nat : ss_[1] < ss_[2]}
<1>1. IsWellFoundedOn(R, Nat)
  BY NatLessThanWellFounded DEF OpToRel
<1>2. \A n, m \in Nat : n < m => <<n, m>> \in R
  OBVIOUS
<1> HIDE DEF R
<1>3. PICK n \in T : \A m \in T : <<m, n>> \notin R
  BY <1>1, WFMin
<1>4. \A m \in T : m \in Nat /\ n \in Nat /\ ~(m < n)
  BY <1>2, <1>3
<1>5. \A m \in T : n <= m
  BY <1>4
<1> QED
  BY <1>5

LEMMA MinIsIn ==
    ASSUME NEW S \in SUBSET (0 .. 7), S # {}
    PROVE  Min(S) \in S
<1>1. S \in SUBSET Nat
  OBVIOUS
<1>2. \E n \in S : \A m \in S : n <= m
  BY <1>1, LeastElement
<1> QED
  BY <1>2 DEF Min

LEMMA IrrEffect ==
    ASSUME NEW c \in Chips, NEW r \in SUBSET (0 .. 7), NEW d, d = [c EXCEPT !.irr = r]
    PROVE  /\ d \in Chips /\ d.irr = r /\ d.isr = c.isr /\ d.base = c.base /\ d.icw = c.icw
           /\ d.cascade = c.cascade /\ d.mode = c.mode /\ d.imr = c.imr
BY DEF Chips

LEMMA IsrEffect ==
    ASSUME NEW c \in Chips, NEW r \in SUBSET (0 .. 7), NEW d, d = [c EXCEPT !.isr = r]
    PROVE  /\ d \in Chips /\ d.isr = r /\ d.irr = c.irr /\ d.base = c.base /\ d.icw = c.icw
           /\ d.cascade = c.cascade /\ d.mode = c.mode /\ d.imr = c.imr
BY DEF Chips

\* A step after the initialisation that changes nothing but requests and what is in service.
SameSetting(q, r) ==
    \A j \in 1 .. 2 : /\ r[j].base = q[j].base /\ r[j].icw = q[j].icw
                      /\ r[j].cascade = q[j].cascade /\ r[j].mode = q[j].mode

LEMMA ControllersStay ==
    ASSUME IInv, UNCHANGED <<saved, step>>, pic' \in [1 .. 2 -> Chips], 2 \notin pic'[1].irr,
           SameSetting(pic, pic'),
           pc' = pc \/ (pc \notin BootPlaces /\ pc' \notin BootPlaces)
    PROVE  Controllers'
<1>1. \A j \in 1 .. 2 : Progress(j)' = Progress(j)
  BY DEF Progress
<1>2. /\ pc' \in {"gdt_install", "tss_install"} => pc \in {"gdt_install", "tss_install"}
      /\ pc' = "pic_remap" => pc = "pic_remap"
      /\ pc' \notin {"gdt_install", "tss_install", "pic_remap"} =>
           pc \notin {"gdt_install", "tss_install", "pic_remap"}
  BY DEF BootPlaces
<1> QED
  BY <1>1, <1>2 DEF IInv, Controllers, SameSetting

LEMMA RaiseInv ==
    ASSUME IInv, Raise
    PROVE  IInv'
<1>1. UNCHANGED <<pc, boot, cpu, stub, cause, origin>>
  BY DEF Raise
<1>2. PICK n \in Lines : pic' = [pic EXCEPT ![n \div 8 + 1].irr = @ \cup {n % 8}]
  BY DEF Raise
<1>3. PICK j \in 1 .. 2, m \in 0 .. 7 : j = n \div 8 + 1 /\ m = n % 8 /\ ~(j = 1 /\ m = 2)
  <2>1. n \in 0 .. 15 /\ n # 2
    BY LinesAssumption
  <2> QED
    BY <2>1
<1>4. /\ pic \in [1 .. 2 -> Chips] /\ pic[j] \in Chips /\ pic[j].irr \in SUBSET (0 .. 7)
      /\ 2 \notin pic[1].irr
  BY DEF IInv, Controllers, Chips
<1>5. PICK d : d = [pic[j] EXCEPT !.irr = pic[j].irr \cup {m}]
  OBVIOUS
<1>6. pic' = [pic EXCEPT ![j] = d]
  BY <1>2, <1>3, <1>5
<1>7. /\ d \in Chips /\ d.irr = pic[j].irr \cup {m} /\ d.isr = pic[j].isr /\ d.base = pic[j].base
      /\ d.icw = pic[j].icw /\ d.cascade = pic[j].cascade /\ d.mode = pic[j].mode
  <2>1. PICK c \in Chips : c = pic[j]
    BY <1>4
  <2> QED
    BY <1>4, <1>5, <2>1, IrrEffect
<1>8. /\ pic' \in [1 .. 2 -> Chips] /\ pic'[j] = d /\ \A i \in 1 .. 2 : i # j => pic'[i] = pic[i]
  BY <1>4, <1>6, <1>7
<1>9. Controllers'
  <2>1. 2 \notin pic'[1].irr
    BY <1>3, <1>4, <1>7, <1>8
  <2>2. SameSetting(pic, pic')
    BY <1>7, <1>8 DEF SameSetting
  <2> QED
    BY <1>1, <1>8, <2>1, <2>2, ControllersStay DEF boot
<1>10. Registers' /\ Booting' /\ Vector'
  BY <1>1 DEF IInv, Registers, Booting, Vector, cpu
<1>11. Tables'
  BY <1>1, SegmentsStay DEF IInv, Tables, Loaded, Gates, boot, cpu
<1>12. Running' /\ Origin'
  BY <1>1 DEF IInv, Running, Origin, Context, User, Loaded, boot, cpu
<1>13. Frames'
  BY <1>1 DEF IInv, Frames, Frame, Unchanged, Saved, Err, cpu
<1>14. EoiExact'
  <2>1. pic'[1].isr = pic[1].isr /\ pic'[2].isr = pic[2].isr
    BY <1>7, <1>8
  <2> QED
    BY <1>1, <2>1 DEF IInv, EoiExact, InTrap
<1> QED
  BY <1>9, <1>10, <1>11, <1>12, <1>13, <1>14 DEF IInv
----------------------------------------------------------------------------
(* A trap is taken *)

LEMMA Ready ==
    ASSUME IInv, pc \notin BootPlaces
    PROVE  /\ Segments /\ Loaded(segs) /\ cs \in {KERNEL_CODE, USER_CODE} /\ 1 \in irq_routines
           /\ tss = [ss0 |-> KERNEL_DATA, esp0 |-> stack_top] /\ idt = Gates
           /\ step = 11 /\ Wired /\ pic[1].base = 32 /\ pic[2].base = 40
<1>1. /\ Segments /\ Loaded(segs) /\ cs \in {KERNEL_CODE, USER_CODE} /\ 1 \in irq_routines
      /\ tss = [ss0 |-> KERNEL_DATA, esp0 |-> stack_top] /\ idt = Gates
  BY DEF IInv, Registers, Tables, Before, BootPlaces
<1>2. step = 11
  BY DEF IInv, Controllers, BootPlaces
<1>3. Progress(1) = 11 /\ Progress(2) = 10
  BY <1>2 DEF Progress
<1>4. NextWord(11) = 0 /\ NextWord(10) = 0 /\ BaseAt(1, 11) = 32 /\ BaseAt(2, 10) = 40
  BY DEF NextWord, BaseAt
<1>5. /\ pic[1].icw = 0 /\ pic[2].icw = 0 /\ pic[1].base = 32 /\ pic[2].base = 40
      /\ pic[1].mode = 1 /\ pic[2].mode = 1 /\ pic[1].cascade = 4 /\ pic[2].cascade = 2
  BY <1>3, <1>4 DEF IInv, Controllers
<1> QED
  BY <1>1, <1>2, <1>5 DEF Wired

\* The CPU finds its way to stub v, with the frame on the right stack.
LEMMA EnterEffect ==
    ASSUME IInv, pc \notin BootPlaces, cs = USER_CODE => ss = USER_DATA,
           NEW v \in (0 .. 47) \cup {128}, NEW err \in Nat \cup {None},
           Enter(v, err), origin' = Context
    PROVE  /\ pc' = "stub" /\ stub' = v /\ cs' = KERNEL_CODE /\ eflags' = 0
           /\ UNCHANGED <<segs, gpr>>
           /\ eip' \in Nat /\ ss' \in Nat /\ esp' \in Nat /\ stack' \in Seq(Nat)
           /\ origin' \in Contexts /\ origin'.segs = segs /\ origin'.gpr = gpr /\ origin'.cs = cs
           /\ cs = USER_CODE => Len(origin'.stack) = 2 /\ origin'.stack[2] = USER_DATA
           /\ cs = KERNEL_CODE => origin'.stack = stack
           /\ IF err = None THEN Frame(3)' ELSE Frame(4)' /\ stack'[1] = err
<1> DEFINE rest == IF User THEN <<esp, ss>> ELSE stack
<1>1. /\ cs \in {KERNEL_CODE, USER_CODE} /\ eflags \in {0, IF_FLAG} /\ eip \in Nat /\ esp \in Nat
      /\ ss \in Nat /\ segs \in [SegRegs -> Nat] /\ gpr \in [GprRegs -> Nat] /\ stack \in Seq(Nat)
      /\ Segments /\ tss = [ss0 |-> KERNEL_DATA, esp0 |-> stack_top] /\ idt = Gates
  BY Ready DEF IInv, Registers
<1>2. User <=> cs = USER_CODE
  <2>1. KERNEL_CODE % 4 # 3 /\ USER_CODE % 4 = 3
    BY DEF KERNEL_CODE, USER_CODE
  <2>2. cs = KERNEL_CODE \/ cs = USER_CODE
    BY <1>1
  <2> QED
    BY <2>1, <2>2, Zenon DEF User
<1>3. /\ v \in DOMAIN idt /\ idt[v] = idt_set_gate(CodeAt + v, KERNEL_CODE, IF v = 128 THEN 3 ELSE 0)
      /\ idt[v].sel = KERNEL_CODE
  BY <1>1 DEF Gates, idt_set_gate
<1>4. GateTarget(idt[v]) = CodeAt + v /\ CodeAt \in Nat
  <2>1. PICK base \in 0 .. WORD - 1 : base = CodeAt + v
    <3>1. WORD \in Nat /\ CodeAt \in Nat /\ CodeAt + 128 < WORD
      BY AddressAssumption, Sizes
    <3>2. v \in 0 .. 128
      OBVIOUS
    <3> QED
      BY <3>1, <3>2
  <2>2. GateTarget(idt_set_gate(base, KERNEL_CODE, IF v = 128 THEN 3 ELSE 0)) = base
    BY GateDecoded, ZenonT(30)
  <2>3. idt[v] = idt_set_gate(base, KERNEL_CODE, IF v = 128 THEN 3 ELSE 0)
    BY <1>3, <2>1
  <2>4. CodeAt \in Nat
    BY AddressAssumption
  <2> QED
    BY <2>1, <2>2, <2>3, <2>4, Zenon
<1>5. /\ Flat(idt[v].sel, "code") /\ TssReached /\ Flat(tss.ss0, "data")
      /\ tss.ss0 = KERNEL_DATA /\ tss.esp0 = stack_top
  <2>1. tss # << >>
    BY <1>1
  <2>2. tss.ss0 = KERNEL_DATA /\ tss.esp0 = stack_top
    BY <1>1
  <2>3. TssReached
    BY <1>1, <2>1 DEF Segments, TssReached
  <2> QED
    BY <1>1, <1>3, <2>2, <2>3 DEF Segments
<1>6. /\ stack' = (IF err = None THEN << >> ELSE <<err>>) \o <<eip, cs, eflags>> \o rest
      /\ cs' = KERNEL_CODE /\ eip' = CodeAt + v /\ stub' = (CodeAt + v) - CodeAt
      /\ ss' = (IF User THEN KERNEL_DATA ELSE ss) /\ esp' = (IF User THEN stack_top ELSE esp)
      /\ eflags' = 0 /\ pc' = "stub" /\ UNCHANGED <<segs, gpr>>
  BY <1>3, <1>4, <1>5 DEF Enter
<1>7. stub' = v /\ eip' \in Nat /\ ss' \in Nat /\ esp' \in Nat
  BY <1>1, <1>4, <1>6 DEF KERNEL_DATA, stack_top
<1>8. rest \in Seq(Nat) /\ cs \in Nat /\ eflags \in Nat
  BY <1>1 DEF KERNEL_CODE, USER_CODE, IF_FLAG
<1>9. origin' = [cs |-> cs, eip |-> eip, eflags |-> eflags, segs |-> segs, gpr |-> gpr, stack |-> rest]
  BY DEF Context
<1> HIDE DEF rest
<1>10. /\ origin'.cs = cs /\ origin'.eip = eip /\ origin'.eflags = eflags /\ origin'.segs = segs
       /\ origin'.gpr = gpr /\ origin'.stack = rest
       /\ origin' \in Contexts
  BY <1>1, <1>8, <1>9 DEF Contexts
<1>11. PICK a \in Nat, b \in Nat, c \in Nat, t \in Seq(Nat) :
          a = eip /\ b = cs /\ c = eflags /\ t = rest
  BY <1>1, <1>8
<1>12. stack' \in Seq(Nat) /\ IF err = None THEN Frame(3)' ELSE Frame(4)' /\ stack'[1] = err
  <2>1. CASE err = None
    <3>1. stack' = <<a, b, c>> \o t
      BY <1>6, <1>11, <2>1
    <3>2. /\ stack' \in Seq(Nat) /\ Len(stack') = 3 + Len(t)
          /\ stack'[1] = a /\ stack'[2] = b /\ stack'[3] = c
          /\ \A j \in 1 .. Len(t) : stack'[3 + j] = t[j]
      BY <1>11, <3>1
    <3>3. Frame(3)'
      BY <1>10, <1>11, <3>2 DEF Frame, FrameAt
    <3> QED
      BY <2>1, <3>2, <3>3
  <2>2. CASE err # None
    <3>1. stack' = <<err, a, b, c>> \o t
      BY <1>6, <1>11, <2>2
    <3>2. /\ stack' \in Seq(Nat) /\ Len(stack') = 4 + Len(t)
          /\ stack'[1] = err /\ stack'[2] = a /\ stack'[3] = b /\ stack'[4] = c
          /\ \A j \in 1 .. Len(t) : stack'[4 + j] = t[j]
      BY <1>11, <2>2, <3>1 DEF None
    <3>3. Frame(4)'
      BY <1>10, <1>11, <3>2 DEF Frame, FrameAt
    <3> QED
      BY <2>2, <3>2, <3>3
  <2> QED
    BY <2>1, <2>2
<1>13. /\ cs = USER_CODE => Len(rest) = 2 /\ rest[2] = USER_DATA
       /\ cs = KERNEL_CODE => rest = stack
  BY <1>2 DEF rest, KERNEL_CODE, USER_CODE
<1> QED
  BY <1>6, <1>7, <1>10, <1>12, <1>13

\* The invariant after a trap has been taken, if the cause fits the vector.
LEMMA EnterInv ==
    ASSUME IInv, Settled, pc \in TrapPlaces \cup {"run"},
           pc = "run" \/ cause'.kind = "exception",
           NEW v \in (0 .. 47) \cup {128}, NEW err \in Nat \cup {None},
           Enter(v, err), origin' = Context, cause'.err = err,
           \/ /\ cause'.kind \in {"line", "spurious"} /\ cause'.n \in 0 .. 15
              /\ v = 32 + cause'.n /\ err = None
           \/ cause'.kind = "int" /\ cause'.n = 128 /\ v = 128 /\ err = None
           \/ /\ cause'.kind = "exception" /\ cause'.n \in Exceptions /\ v = cause'.n
              /\ IF v \in ISR_ERRCODE THEN err \in Nat ELSE err = None,
           pc' = "stub" /\ stub' = v => Controllers' /\ EoiExact'
    PROVE  IInv'
<1>1. pc \notin BootPlaces
  BY DEF BootPlaces, TrapPlaces
<1>2. /\ Loaded(segs) /\ cs \in {KERNEL_CODE, USER_CODE}
      /\ segs \in [SegRegs -> Nat] /\ gpr \in [GprRegs -> Nat]
  BY <1>1, Ready DEF IInv, Registers
<1>3. /\ cs = USER_CODE => ss = USER_DATA
      /\ cs = KERNEL_CODE /\ pc = "run" => Len(stack) = 2
  BY <1>2 DEF IInv, Running, Origin, KERNEL_CODE, USER_CODE
<1>4. /\ pc' = "stub" /\ stub' = v /\ cs' = KERNEL_CODE /\ eflags' = 0
      /\ segs' = segs /\ gpr' = gpr
      /\ eip' \in Nat /\ ss' \in Nat /\ esp' \in Nat /\ stack' \in Seq(Nat)
      /\ origin' \in Contexts /\ origin'.segs = segs /\ origin'.gpr = gpr /\ origin'.cs = cs
      /\ cs = USER_CODE => Len(origin'.stack) = 2 /\ origin'.stack[2] = USER_DATA
      /\ cs = KERNEL_CODE => origin'.stack = stack
      /\ IF err = None THEN Frame(3)' ELSE Frame(4)' /\ stack'[1] = err
  <2>1. /\ pc' = "stub" /\ stub' = v /\ cs' = KERNEL_CODE /\ eflags' = 0
        /\ UNCHANGED <<segs, gpr>>
        /\ eip' \in Nat /\ ss' \in Nat /\ esp' \in Nat /\ stack' \in Seq(Nat)
        /\ origin' \in Contexts /\ origin'.segs = segs /\ origin'.gpr = gpr /\ origin'.cs = cs
        /\ cs = USER_CODE => Len(origin'.stack) = 2 /\ origin'.stack[2] = USER_DATA
        /\ cs = KERNEL_CODE => origin'.stack = stack
        /\ IF err = None THEN Frame(3)' ELSE Frame(4)' /\ stack'[1] = err
    <3>1. v \in (0 .. 47) \cup {128} /\ err \in Nat \cup {None}
      OBVIOUS
    <3>2. Enter(v, err) /\ origin' = Context /\ IInv /\ pc \notin BootPlaces
          /\ (cs = USER_CODE => ss = USER_DATA)
      BY <1>1, <1>3
    <3> QED
      BY ONLY <3>1, <3>2, EnterEffect, Zenon
  <2> QED
    BY <2>1
<1>5. Registers'
  BY <1>2, <1>4 DEF Registers, Places, TrapPlaces
<1>6. Tables'
  <2>1. pc' \notin BootPlaces /\ Loaded(segs') /\ cs' # 0
    BY <1>2, <1>4 DEF BootPlaces, KERNEL_CODE, Loaded
  <2> QED
    BY <1>1, <2>1, TablesStay
<1>7. Booting' /\ Running'
  BY <1>4 DEF Booting, Running, BootPlaces
<1>8. Origin'
  <2>1. Loaded(origin'.segs)
    BY <1>2, <1>4
  <2>2. cause'.kind # "exception" => pc = "run"
    OBVIOUS
  <2> QED
    BY <1>3, <1>4, <2>1, <2>2 DEF Origin, Loaded, KERNEL_CODE, USER_CODE
<1>9. Vector'
  <2>1. /\ cause'.kind \in Kinds /\ cause'.kind # "none" /\ stub' \in Nat
    BY <1>4 DEF Kinds
  <2>2. /\ cause'.kind \in {"line", "spurious"} =>
             cause'.n \in 0 .. 15 /\ stub' = 32 + cause'.n /\ cause'.err = None
        /\ cause'.kind = "int" => cause'.n = 128 /\ stub' = 128 /\ cause'.err = None
    BY <1>4
  <2>3. cause'.kind = "exception" =>
             /\ cause'.n \in Exceptions /\ stub' = cause'.n
             /\ IF stub' \in ISR_ERRCODE THEN cause'.err \in Nat ELSE cause'.err = None
    BY <1>4
  <2>4. pc' \notin {"restore", "iret"}
    BY <1>4
  <2> QED
    BY <2>1, <2>2, <2>3, <2>4 DEF Vector
<1>10. Frames'
  BY <1>4 DEF Frames, Unchanged
<1>11. Controllers' /\ EoiExact'
  BY <1>4
<1> QED
  BY <1>5, <1>6, <1>7, <1>8, <1>9, <1>10, <1>11 DEF IInv

\* While nothing is being handled nothing is in service.
LEMMA Idle ==
    ASSUME IInv, pc = "run"
    PROVE  pic[1].isr = {} /\ pic[2].isr = {} /\ cause = NoCause /\ stub = None
<1>1. cause = NoCause /\ stub = None
  BY DEF IInv, Running
<1> QED
  BY <1>1 DEF IInv, EoiExact, InTrap, NoCause, Cause

LEMMA PendingLines ==
    ASSUME IInv, pc = "run"
    PROVE  /\ Pending(pic[2]) \in SUBSET (0 .. 7) /\ MasterPending \in SUBSET (0 .. 7)
           /\ 2 \in MasterPending => Pending(pic[2]) # {}
<1>1. /\ pic[1] \in Chips /\ pic[2] \in Chips /\ pic[1].irr \in SUBSET (0 .. 7)
      /\ pic[2].irr \in SUBSET (0 .. 7) /\ 2 \notin pic[1].irr
  BY DEF IInv, Controllers, Chips
<1>2. Pending(pic[2]) \in SUBSET (0 .. 7)
  BY <1>1 DEF Pending
<1> DEFINE r == IF Pending(pic[2]) = {} THEN pic[1].irr ELSE pic[1].irr \cup {2}
<1>3. r \in SUBSET (0 .. 7) /\ (2 \in r => Pending(pic[2]) # {})
  BY <1>1
<1>4. MasterPending = Pending([pic[1] EXCEPT !.irr = r])
  BY DEF MasterPending
<1> HIDE DEF r
<1>5. PICK d : d = [pic[1] EXCEPT !.irr = r]
  OBVIOUS
<1>6. d.irr = r
  BY <1>1, <1>5 DEF Chips
<1>7. Pending(d) \subseteq r
  BY <1>6 DEF Pending
<1> QED
  BY <1>2, <1>3, <1>4, <1>5, <1>7

LEMMA InterruptInv ==
    ASSUME IInv, Interrupt
    PROVE  IInv'
<1> DEFINE p == Min(MasterPending)
           chip == IF p = 2 THEN 2 ELSE 1
           n == IF p = 2 THEN Min(Pending(pic[2])) ELSE p
<1>1. /\ pc = "run" /\ MasterPending # {} /\ UNCHANGED boot
      /\ pic' = [i \in 1 .. 2 |->
                  [pic[i] EXCEPT !.irr = IF i = chip THEN @ \ {n} ELSE @,
                                 !.isr = @ \cup (IF i = 1 THEN {p}
                                                 ELSE IF chip = 2 THEN {n} ELSE {})]]
      /\ cause' = Cause("line", 8 * (chip - 1) + n, None)
      /\ origin' = Context
      /\ IF Wired THEN Enter(pic[chip].base + n, None)
                  ELSE pc' = "lost" /\ UNCHANGED <<cpu, stub>>
  BY DEF Interrupt
<1>2. p \in 0 .. 7 /\ p \in MasterPending
  BY <1>1, PendingLines, MinIsIn
<1>3. n \in 0 .. 7 /\ chip \in 1 .. 2 /\ (chip = 1 => n = p) /\ (chip = 2 <=> p = 2)
  <2>1. p = 2 => Min(Pending(pic[2])) \in 0 .. 7
    BY <1>1, <1>2, PendingLines, MinIsIn
  <2> QED
    BY <1>2, <2>1
<1> HIDE DEF p, chip, n
<1>4. /\ pic \in [1 .. 2 -> Chips] /\ pic[1] \in Chips /\ pic[2] \in Chips
      /\ \A j \in 1 .. 2 : pic[j].irr \in SUBSET (0 .. 7)
      /\ 2 \notin pic[1].irr /\ pic[1].isr = {} /\ pic[2].isr = {}
  BY <1>1, Idle DEF IInv, Controllers, Chips
<1>5. ASSUME NEW j \in 1 .. 2
      PROVE  /\ pic'[j] \in Chips /\ pic'[j].irr \subseteq pic[j].irr
             /\ pic'[j].isr = IF j = 1 THEN {p} ELSE IF chip = 2 THEN {n} ELSE {}
             /\ pic'[j].base = pic[j].base /\ pic'[j].icw = pic[j].icw
             /\ pic'[j].cascade = pic[j].cascade /\ pic'[j].mode = pic[j].mode
  <2>1. PICK c \in Chips : c = pic[j] /\ c.isr = {} /\ c.irr \in SUBSET (0 .. 7)
    BY <1>4
  <2>2. PICK a \in SUBSET (0 .. 7) : a = IF j = chip THEN c.irr \ {n} ELSE c.irr
    BY <2>1
  <2>3. PICK b \in SUBSET (0 .. 7) : b = IF j = 1 THEN {p} ELSE IF chip = 2 THEN {n} ELSE {}
    BY <1>2, <1>3
  <2>4. PICK d : d = [c EXCEPT !.irr = a, !.isr = b]
    OBVIOUS
  <2>5. /\ d \in Chips /\ d.irr = a /\ d.isr = b /\ d.base = c.base
        /\ d.icw = c.icw /\ d.cascade = c.cascade /\ d.mode = c.mode
    <3>1. d = [base |-> c.base, imr |-> c.imr, irr |-> a, isr |-> b, cascade |-> c.cascade,
               mode |-> c.mode, icw |-> c.icw]
      BY <2>4 DEF Chips
    <3>2. /\ c.base \in Nat /\ c.cascade \in Nat /\ c.mode \in Nat /\ c.icw \in Nat
          /\ c.imr \in 0 .. 255
      BY DEF Chips
    <3> QED
      BY <3>1, <3>2 DEF Chips
  <2>6. pic'[j] = d
    <3>1. pic'[j] = [pic[j] EXCEPT !.irr = IF j = chip THEN pic[j].irr \ {n} ELSE pic[j].irr,
                                   !.isr = pic[j].isr \cup (IF j = 1 THEN {p}
                                                   ELSE IF chip = 2 THEN {n} ELSE {})]
      BY <1>1
    <3>2. (IF j = chip THEN pic[j].irr \ {n} ELSE pic[j].irr) = a
      BY <2>1, <2>2
    <3>3. pic[j].isr \cup (IF j = 1 THEN {p} ELSE IF chip = 2 THEN {n} ELSE {}) = b
      BY <2>1, <2>3
    <3> QED
      BY <2>1, <2>4, <3>1, <3>2, <3>3, Zenon
  <2>7. a \subseteq pic[j].irr
    BY <2>1, <2>2
  <2> QED
    BY <2>1, <2>3, <2>5, <2>6, <2>7
<1>6. /\ pic' \in [1 .. 2 -> Chips] /\ SameSetting(pic, pic') /\ 2 \notin pic'[1].irr
      /\ pic'[1].isr = {p} /\ pic'[2].isr = IF chip = 2 THEN {n} ELSE {}
  <2>1. pic' = [j \in 1 .. 2 |-> pic'[j]]
    BY <1>1
  <2>2. pic' \in [1 .. 2 -> Chips]
    BY <1>5, <2>1
  <2>3. SameSetting(pic, pic')
    BY <1>5 DEF SameSetting
  <2>4. pic'[1].irr \subseteq pic[1].irr
    BY <1>5
  <2> QED
    BY <1>4, <1>5, <2>2, <2>3, <2>4
<1>7. /\ pc \notin BootPlaces /\ Wired
      /\ pic[chip].base + n = 32 + (8 * (chip - 1) + n) /\ 8 * (chip - 1) + n \in 0 .. 15
  <2>1. pc \notin BootPlaces
    BY <1>1 DEF BootPlaces
  <2> QED
    BY <1>3, <2>1, Ready
<1>8. PICK m \in 0 .. 15 : m = 8 * (chip - 1) + n
  BY <1>7
<1>9. /\ Enter(32 + m, None) /\ cause'.kind = "line" /\ cause'.n = m /\ cause'.err = None
       /\ pc' = "stub" /\ stub' = 32 + m
  <2>1. Enter(32 + m, None) /\ cause'.kind = "line" /\ cause'.n = m /\ cause'.err = None
    BY <1>1, <1>7, <1>8 DEF Cause
  <2>2. cs = USER_CODE => ss = USER_DATA
    BY <1>1 DEF IInv, Running
  <2>3. PICK v \in (0 .. 47) \cup {128} : v = 32 + m
    BY <1>8
  <2>4. Enter(v, None)
    BY <2>1, <2>3
  <2>5. pc' = "stub" /\ stub' = v
    BY <1>1, <1>7, <2>2, <2>4, EnterEffect
  <2> QED
    BY <2>1, <2>3, <2>5
<1>10. Controllers'
  <2>1. pc' \notin BootPlaces /\ UNCHANGED <<saved, step>>
    BY <1>1, <1>9 DEF BootPlaces, boot
  <2> QED
    BY <1>6, <1>7, <2>1, ControllersStay
<1>11. EoiExact'
  <2>1. /\ m >= 8 <=> chip = 2
        /\ m \div 8 + 1 = chip
        /\ chip = 1 => m = p
        /\ chip = 2 => p = 2 /\ m - 8 = n
    BY <1>2, <1>3, <1>8
  <2>2. stub' # None
    BY <1>8, <1>9 DEF None
  <2>3. cause'.n = m /\ cause'.kind = "line" /\ pc' = "stub"
    BY <1>9
  <2>4. CASE chip = 1
    BY <1>6, <2>1, <2>2, <2>3, <2>4 DEF EoiExact, InTrap
  <2>5. CASE chip = 2
    BY <1>6, <2>1, <2>2, <2>3, <2>5 DEF EoiExact, InTrap
  <2> QED
    BY <1>3, <2>4, <2>5
<1>12. PICK v \in (0 .. 47) \cup {128} : v = 32 + m
  BY <1>8
<1>13. Enter(v, None) /\ Settled
  BY <1>1, <1>9, <1>12 DEF Settled, boot
<1>14. pc \in TrapPlaces \cup {"run"} /\ (pc = "run" \/ cause'.kind = "exception")
  BY <1>1
<1>15. PICK err \in Nat \cup {None} : err = None
  OBVIOUS
<1>16. Enter(v, err) /\ origin' = Context /\ cause'.err = err
  BY <1>1, <1>9, <1>13, <1>15
<1>17. cause'.kind \in {"line", "spurious"} /\ cause'.n \in 0 .. 15 /\ v = 32 + cause'.n
  BY <1>8, <1>9, <1>12
<1> QED
  BY <1>10, <1>11, <1>13, <1>14, <1>15, <1>16, <1>17, EnterInv

LEMMA SpuriousInv ==
    ASSUME IInv, Spurious
    PROVE  IInv'
<1>1. PICK chip \in 1 .. 2 :
        /\ pic' = [pic EXCEPT ![1].isr = IF chip = 2 THEN @ \cup {2} ELSE @]
        /\ cause' = Cause("spurious", 8 * (chip - 1) + 7, None)
        /\ origin' = Context
        /\ IF Wired THEN Enter(pic[chip].base + 7, None)
                    ELSE pc' = "lost" /\ UNCHANGED <<cpu, stub>>
  BY DEF Spurious
<1>2. pc = "run" /\ UNCHANGED boot /\ pc \notin BootPlaces
  BY DEF Spurious, BootPlaces
<1>3. /\ pic \in [1 .. 2 -> Chips] /\ pic[1] \in Chips /\ pic[2] \in Chips
      /\ 2 \notin pic[1].irr /\ pic[1].isr = {} /\ pic[2].isr = {}
  BY <1>2, Idle DEF IInv, Controllers
<1>4. /\ pic' \in [1 .. 2 -> Chips] /\ SameSetting(pic, pic') /\ 2 \notin pic'[1].irr
      /\ pic'[1].isr = (IF chip = 2 THEN {2} ELSE {}) /\ pic'[2].isr = {}
  <2>1. PICK c \in Chips : c = pic[1]
    BY <1>3
  <2>2. PICK s \in SUBSET (0 .. 7) : s = IF chip = 2 THEN {2} ELSE {}
    <3>1. {2} \in SUBSET (0 .. 7) /\ {} \in SUBSET (0 .. 7)
      OBVIOUS
    <3> QED
      BY <3>1, Zenon
  <2>3. PICK d : d = [c EXCEPT !.isr = s]
    OBVIOUS
  <2>4. /\ d \in Chips /\ d.isr = s /\ d.irr = c.irr /\ d.base = c.base
        /\ d.icw = c.icw /\ d.cascade = c.cascade /\ d.mode = c.mode
    BY <2>3, IsrEffect
  <2>5. pic' = [pic EXCEPT ![1] = d]
    <3>1. (IF chip = 2 THEN c.isr \cup {2} ELSE c.isr) = s
      BY <1>3, <2>1, <2>2
    <3> QED
      BY <1>1, <2>1, <2>3, <3>1
  <2>6. pic' \in [1 .. 2 -> Chips] /\ pic'[1] = d /\ pic'[2] = pic[2]
    BY <1>3, <2>4, <2>5
  <2>7. ASSUME NEW j \in 1 .. 2
        PROVE  pic'[j].base = pic[j].base /\ pic'[j].icw = pic[j].icw
               /\ pic'[j].cascade = pic[j].cascade /\ pic'[j].mode = pic[j].mode
    BY <2>1, <2>4, <2>6
  <2>8. SameSetting(pic, pic')
    BY <2>7 DEF SameSetting
  <2> QED
    BY <1>3, <2>1, <2>2, <2>4, <2>6, <2>8
<1>5. Wired /\ pic[chip].base + 7 = 32 + (8 * (chip - 1) + 7)
  BY <1>2, Ready
<1>6. PICK m \in {7, 15} : m = 8 * (chip - 1) + 7
  OBVIOUS
<1>7. PICK v \in (0 .. 47) \cup {128} : v = 32 + m
  OBVIOUS
<1>8. Enter(v, None) /\ cause'.kind = "spurious" /\ cause'.n = m /\ cause'.err = None /\ Settled
  BY <1>1, <1>2, <1>5, <1>6, <1>7 DEF Cause, Settled, boot
<1>9. pc' = "stub" /\ stub' = v
  <2>1. cs = USER_CODE => ss = USER_DATA
    BY <1>2 DEF IInv, Running
  <2> QED
    BY <1>1, <1>2, <1>8, <2>1, EnterEffect
<1>10. Controllers'
  <2>1. pc' \notin BootPlaces /\ UNCHANGED <<saved, step>>
    BY <1>2, <1>9 DEF BootPlaces, boot
  <2> QED
    BY <1>2, <1>4, <2>1, ControllersStay
<1>11. EoiExact'
  <2>1. (m >= 8 <=> chip = 2) /\ stub' # None
    BY <1>6, <1>7, <1>9 DEF None
  <2> QED
    BY <1>4, <1>8, <1>9, <2>1 DEF EoiExact, InTrap
<1>12. PICK err \in Nat \cup {None} : err = None
  OBVIOUS
<1>13. Enter(v, err) /\ origin' = Context /\ cause'.err = err
  BY <1>1, <1>8, <1>12
<1>14. /\ cause'.kind \in {"line", "spurious"} /\ cause'.n \in 0 .. 15
       /\ v = 32 + cause'.n
  BY <1>6, <1>7, <1>8
<1>15. Settled /\ pc \in TrapPlaces \cup {"run"} /\ pc = "run"
  BY <1>2, <1>8
<1> QED
  BY <1>10, <1>11, <1>12, <1>13, <1>14, <1>15, EnterInv

LEMMA ExceptionInv ==
    ASSUME IInv, Exception
    PROVE  IInv'
<1>1. PICK v \in Exceptions : cause' = Cause("exception", v, ErrorCode(v)) /\ Enter(v, ErrorCode(v))
  BY DEF Exception
<1>2. /\ pc \in TrapPlaces \cup {"run"} /\ pc \notin BootPlaces /\ origin' = Context
      /\ UNCHANGED <<boot, pic>>
  BY DEF Exception, TrapPlaces, BootPlaces
<1>3. PICK err \in Nat \cup {None} : err = ErrorCode(v)
  <2>1. v \in Nat
    BY DEF Exceptions
  <2>2. PICK m \in Nat : m = 2000 + v
    BY <2>1
  <2>3. ErrorCode(v) = m \/ ErrorCode(v) = None
    BY <2>2 DEF ErrorCode
  <2>4. m \in Nat \cup {None} /\ None \in Nat \cup {None}
    OBVIOUS
  <2> QED
    BY <2>3, <2>4
<1>4. v \in (0 .. 47) \cup {128} /\ IF v \in ISR_ERRCODE THEN err \in Nat ELSE err = None
  BY <1>3 DEF Exceptions, ErrorCode, ISR_ERRCODE
<1>5. /\ Enter(v, err) /\ cause'.kind = "exception" /\ cause'.n = v /\ cause'.err = err /\ Settled
  BY <1>1, <1>2, <1>3 DEF Cause, Settled, boot
<1>6. ASSUME pc' = "stub"
      PROVE  Controllers'
  <2>1. pc' \notin BootPlaces /\ UNCHANGED <<saved, step, pic>>
    BY <1>2, <1>6 DEF BootPlaces, boot
  <2>2. pic \in [1 .. 2 -> Chips] /\ 2 \notin pic[1].irr
    BY DEF IInv, Controllers
  <2> QED
    BY <1>2, <2>1, <2>2, ControllersStay DEF SameSetting
<1>7. EoiExact'
  BY <1>5 DEF EoiExact
<1> QED
  BY <1>2, <1>4, <1>5, <1>6, <1>7, EnterInv

LEMMA SoftIntInv ==
    ASSUME IInv, SoftInt
    PROVE  IInv'
<1>1. pc = "run" /\ pc \notin BootPlaces /\ origin' = Context /\ UNCHANGED <<boot, pic>>
  BY DEF SoftInt, BootPlaces
<1>2. PICK n \in {3, 14, 33, 128, 255} :
         IF n \in DOMAIN idt /\ idt[n].dpl = 3
         THEN cause' = Cause("int", n, None) /\ Enter(n, None)
         ELSE cause' = Cause("exception", 13, 8 * n + 2) /\ Enter(13, 8 * n + 2)
  BY DEF SoftInt
<1>3. n \in DOMAIN idt /\ idt[n].dpl = 3 <=> n = 128
  <2>1. idt = Gates
    BY <1>1, Ready
  <2> QED
    BY <2>1 DEF Gates, idt_set_gate
<1>4. UNCHANGED <<saved, step, pic>> /\ Settled /\ pic \in [1 .. 2 -> Chips] /\ 2 \notin pic[1].irr
  BY <1>1 DEF boot, Settled, IInv, Controllers
<1>5. pic[1].isr = {} /\ pic[2].isr = {}
  BY <1>1, Idle
<1>6. ASSUME pc' = "stub" PROVE Controllers'
  <2>1. pc' \notin BootPlaces
    BY <1>6 DEF BootPlaces
  <2> QED
    BY <1>1, <1>4, <2>1, ControllersStay DEF SameSetting
<1> DEFINE Taken(v, err) ==
        /\ Enter(v, err) /\ cause'.err = err
        /\ \/ cause'.kind = "int" /\ cause'.n = 128 /\ v = 128 /\ err = None
           \/ cause'.kind = "exception" /\ cause'.n = 13 /\ v = 13 /\ err \in Nat
<1>7. PICK v \in (0 .. 47) \cup {128}, err \in Nat \cup {None} : Taken(v, err)
  <2>1. CASE n = 128
    <3>1. Enter(128, None) /\ cause'.kind = "int" /\ cause'.n = 128 /\ cause'.err = None
      BY <1>2, <1>3, <2>1 DEF Cause
    <3>2. PICK e \in Nat \cup {None} : e = None
      OBVIOUS
    <3>3. Taken(128, e)
      BY <3>1, <3>2
    <3> HIDE DEF Taken
    <3> QED
      BY <3>3
  <2>2. CASE n # 128
    <3>1. PICK e \in Nat : e = 8 * n + 2
      OBVIOUS
    <3>2. Enter(13, e) /\ cause'.kind = "exception" /\ cause'.n = 13 /\ cause'.err = e
      BY <1>2, <1>3, <2>2, <3>1 DEF Cause
    <3>3. Taken(13, e)
      BY <3>2
    <3> HIDE DEF Taken
    <3> QED
      BY <3>3
  <2> QED
    BY <2>1, <2>2
<1>8. EoiExact'
  BY <1>4, <1>5, <1>7 DEF EoiExact
<1>9. 13 \in Exceptions /\ 13 \in ISR_ERRCODE
  BY DEF Exceptions, ISR_ERRCODE
<1> QED
  BY <1>1, <1>4, <1>6, <1>7, <1>8, <1>9, EnterInv

LEMMA MovEaxInv ==
    ASSUME IInv, MovEax
    PROVE  IInv'
<1>1. /\ pc = "run" /\ pc' = "run" /\ User
      /\ origin' = [origin EXCEPT !.gpr = gpr']
      /\ UNCHANGED <<pc, boot, pic, eflags, cs, eip, ss, esp, segs, stack, stub, cause>>
  BY DEF MovEax
<1>2. PICK call \in 0 .. 1 : gpr' = [gpr EXCEPT !["eax"] = call]
  BY DEF MovEax
<1>3. gpr' \in [GprRegs -> Nat]
  <2>1. gpr \in [GprRegs -> Nat] /\ call \in Nat
    BY DEF IInv, Registers
  <2> QED
    BY <1>2, <2>1
<1>4. cs = USER_CODE /\ ss = USER_DATA /\ Context = origin
  BY <1>1 DEF IInv, Registers, Running, User, KERNEL_CODE, USER_CODE
<1>5. Context' = origin'
  <2>1. Context = [cs |-> cs, eip |-> eip, eflags |-> eflags, segs |-> segs, gpr |-> gpr,
                   stack |-> <<esp, ss>>]
    BY <1>1 DEF Context
  <2>2. Context' = [cs |-> cs, eip |-> eip, eflags |-> eflags, segs |-> segs, gpr |-> gpr',
                    stack |-> <<esp, ss>>]
    BY <1>1 DEF Context, User
  <2> QED
    BY <1>1, <1>4, <2>1, <2>2
<1>6. Registers'
  BY <1>1, <1>3 DEF IInv, Registers
<1>7. Tables'
  BY <1>1, SegmentsStay DEF IInv, Tables, Loaded, Gates, boot
<1>8. Booting' /\ Vector' /\ Origin' /\ Frames'
  BY <1>1 DEF IInv, Booting, Vector, Origin, Frames, BootPlaces, TrapPlaces
<1>9. Controllers'
  BY <1>1 DEF IInv, Controllers, Progress, boot
<1>10. Running'
  BY <1>1, <1>4, <1>5 DEF IInv, Running, KERNEL_CODE, USER_CODE
<1>11. EoiExact'
  BY <1>1 DEF IInv, EoiExact, InTrap
<1> QED
  BY <1>6, <1>7, <1>8, <1>9, <1>10, <1>11 DEF IInv
----------------------------------------------------------------------------
(* The stub *)

\* What a step of the stub or of a handler leaves alone.
LEMMA RestStays ==
    ASSUME IInv, UNCHANGED <<boot, pic>>, pc \notin BootPlaces, pc' \notin BootPlaces,
           Loaded(segs'), cs' # 0
    PROVE  Tables' /\ Controllers' /\ Booting'
<1>1. Settled /\ UNCHANGED <<saved, step, pic>>
  BY DEF Settled, boot
<1>2. pic \in [1 .. 2 -> Chips] /\ 2 \notin pic[1].irr
  BY DEF IInv, Controllers
<1>3. Controllers'
  BY <1>1, <1>2, ControllersStay DEF SameSetting
<1>4. Tables'
  BY <1>1, TablesStay
<1> QED
  BY <1>3, <1>4 DEF Booting

LEMMA ServiceStays ==
    ASSUME IInv, UNCHANGED <<pic, stub, cause>>,
           \/ pc \in {"stub", "save", "handler"} /\ pc' \in {"stub", "save", "handler"}
           \/ pc \notin {"stub", "save", "handler"} /\ pc' \notin {"stub", "save", "handler"}
    PROVE  EoiExact'
BY DEF IInv, EoiExact, InTrap

\* Pushing k words below it moves the frame up by k.
LEMMA FrameMoves ==
    ASSUME NEW o, o.stack \in Seq(Nat), NEW s \in Seq(Nat), NEW t,
           NEW n \in 3 .. 5, NEW k \in 1 .. 9, NEW m \in Nat, m = n + k,
           Len(t) = k + Len(s), \A i \in 1 .. Len(s) : t[k + i] = s[i], FrameAt(s, o, n)
    PROVE  FrameAt(t, o, m)
<1>1. PICK l \in Nat : l = Len(o.stack)
  OBVIOUS
<1>2. /\ Len(s) = n + l
      /\ s[n - 2] = o.eip /\ s[n - 1] = o.cs /\ s[n] = o.eflags
      /\ \A i \in 1 .. l : s[n + i] = o.stack[i]
  BY <1>1 DEF FrameAt
<1>3. Len(t) = m + l
  BY <1>2
<1>4. /\ n - 2 \in 1 .. Len(s) /\ n - 1 \in 1 .. Len(s) /\ n \in 1 .. Len(s)
      /\ k + (n - 2) = m - 2 /\ k + (n - 1) = m - 1 /\ k + n = m
  BY <1>2
<1>5. t[m - 2] = o.eip /\ t[m - 1] = o.cs /\ t[m] = o.eflags
  <2>1. t[k + (n - 2)] = s[n - 2] /\ t[k + (n - 1)] = s[n - 1] /\ t[k + n] = s[n]
    BY <1>4, Zenon
  <2> QED
    BY <1>2, <1>4, <2>1
<1>6. ASSUME NEW i \in 1 .. l
      PROVE  t[m + i] = o.stack[i]
  <2>1. n + i \in 1 .. n + l /\ k + (n + i) = m + i
    OBVIOUS
  <2>2. n + i \in 1 .. Len(s)
    BY <1>2, <2>1, Zenon
  <2>3. t[k + (n + i)] = s[n + i]
    BY <2>2, Zenon
  <2> QED
    BY <1>2, <2>1, <2>3
<1> QED
  BY <1>1, <1>3, <1>5, <1>6 DEF FrameAt

LEMMA Reversed ==
    ASSUME NEW n \in Nat, NEW f \in [1 .. n -> Nat]
    PROVE  /\ Reverse(f) \in Seq(Nat) /\ Len(Reverse(f)) = n
           /\ \A i \in 1 .. n : Reverse(f)[i] = f[(n - i) + 1]
<1>1. f \in Seq(Nat) /\ Len(f) = n
  OBVIOUS
<1>2. Reverse(f) = [i \in 1 .. Len(f) |-> f[(Len(f) - i) + 1]]
  BY DEF Reverse
<1>3. Reverse(f) = [i \in 1 .. n |-> f[(n - i) + 1]]
  BY <1>1, <1>2
<1>4. \A i \in 1 .. n : (n - i) + 1 \in 1 .. n
  OBVIOUS
<1>5. Reverse(f) \in [1 .. n -> Nat] /\ \A i \in 1 .. n : Reverse(f)[i] = f[(n - i) + 1]
  BY <1>3, <1>4
<1> QED
  BY <1>5

\* One word and n others in front of a stack.
Prefixed(t, u, R, n, s) ==
    /\ t \in Seq(Nat) /\ Len(t) = (1 + n) + Len(s)
    /\ t[1] = u /\ \A i \in 1 .. n : t[1 + i] = R[i]
    /\ \A i \in 1 .. Len(s) : t[(1 + n) + i] = s[i]

LEMMA Prepended ==
    ASSUME NEW u \in Nat, NEW R \in Seq(Nat), NEW n \in Nat, Len(R) = n, NEW s \in Seq(Nat)
    PROVE  Prefixed((<<u>> \o R) \o s, u, R, n, s)
<1> DEFINE t == (<<u>> \o R) \o s
<1>1. PICK w : w = <<u>> \o R
  OBVIOUS
<1>2. w \in Seq(Nat) /\ Len(w) = 1 + n /\ w[1] = u /\ \A i \in 1 .. n : w[1 + i] = R[i]
  BY <1>1
<1>3. t = w \o s
  BY <1>1
<1> HIDE DEF t
<1>4. t \in Seq(Nat)
  BY <1>2, <1>3
<1>5. PICK m \in Nat : m = 1 + n
  OBVIOUS
<1>6. Len(w) = m /\ w \in Seq(Nat)
  BY <1>2, <1>5
<1>7. /\ Len(t) = m + Len(s)
      /\ \A i \in 1 .. m : t[i] = w[i]
      /\ \A i \in 1 .. Len(s) : t[m + i] = s[i]
  <2>1. /\ Len(t) = Len(w) + Len(s)
        /\ \A i \in 1 .. Len(w) + Len(s) : t[i] = IF i <= Len(w) THEN w[i] ELSE s[i - Len(w)]
    BY <1>3, <1>6, ConcatProperties, Zenon
  <2>2. PICK l \in Nat : l = Len(s)
    OBVIOUS
  <2>3. Len(t) = m + l /\ \A i \in 1 .. m + l : t[i] = IF i <= m THEN w[i] ELSE s[i - m]
    BY <1>6, <2>1, <2>2, Zenon
  <2>4. \A i \in 1 .. m : i \in 1 .. m + l /\ i <= m
    OBVIOUS
  <2>5. \A i \in 1 .. l : m + i \in 1 .. m + l /\ ~(m + i <= m) /\ (m + i) - m = i
    OBVIOUS
  <2>6. \A i \in 1 .. m : t[i] = w[i]
    BY <2>3, <2>4
  <2>7. \A i \in 1 .. l : t[m + i] = s[i]
    <3>1. ASSUME NEW i \in 1 .. l
          PROVE  t[m + i] = s[i]
      <4>1. t[m + i] = s[(m + i) - m]
        BY <2>3, <2>5, Zenon
      <4> QED
        BY <2>5, <4>1, Zenon
    <3> QED
      BY <3>1
  <2> QED
    BY <2>2, <2>3, <2>6, <2>7, Zenon
<1>8. ASSUME NEW i \in 1 .. n
      PROVE  t[1 + i] = R[i]
  <2>1. 1 + i \in 1 .. m
    BY <1>5
  <2> QED
    BY <1>2, <1>7, <2>1
<1> QED
  <2>1. Prefixed(t, u, R, n, s)
    BY <1>2, <1>5, <1>7, <1>8, <1>4 DEF Prefixed
  <2> QED
    BY <2>1 DEF t

\* The upper half of EAX and a selector in the lower one.
LEMMA UpperHalf ==
    ASSUME NEW a \in Nat, NEW e \in {16, 35}
    PROVE  /\ 65536 * (a \div 65536) \in Nat
           /\ (65536 * (a \div 65536) + e) % 65536 = e /\ (0 + e) % 65536 = e
<1>1. PICK b \in Nat \ {0} : b = 65536
  OBVIOUS
<1>2. a \div b \in Nat
  BY Division
<1>3. PICK q \in Nat : q = a \div 65536
  BY <1>1, <1>2
<1>4. 65536 * q \in Nat /\ (65536 * q + e) % 65536 = e
  OBVIOUS
<1> QED
  BY <1>3, <1>4

\* Vectors that belong to no exception.
LEMMA Numbers ==
    ASSUME IInv, pc \in {"stub", "save", "handler"}
    PROVE  /\ stub \in Nat /\ cause.kind \in Kinds \ {"none"}
           /\ stub \in ISR_ERRCODE <=> cause.err # None
           /\ stub \in ISR_ERRCODE => cause.err \in Nat
           /\ Err \in Nat
           /\ Common(stub) = "isr" <=> cause.kind = "exception"
           /\ Common(stub) = "irq" <=> cause.kind \in {"line", "spurious"}
           /\ Common(stub) = "syscall" <=> cause.kind = "int"
           /\ cause.kind \in {"line", "spurious"} => cause.n \in 0 .. 15 /\ stub = 32 + cause.n
           /\ cause.kind = "exception" => stub = cause.n
           /\ cause.kind = "int" => stub = 128 /\ cause.n = 128
<1>1. pc \in TrapPlaces /\ pc \notin BootPlaces \cup {"run", "iret"}
  BY DEF TrapPlaces, BootPlaces
<1>2. /\ stub \in Nat /\ cause.kind \in Kinds \ {"none"}
      /\ cause.kind \in {"line", "spurious"} =>
           cause.n \in 0 .. 15 /\ stub = 32 + cause.n /\ cause.err = None
      /\ cause.kind = "int" => cause.n = 128 /\ stub = 128 /\ cause.err = None
      /\ cause.kind = "exception" =>
           /\ cause.n \in Exceptions /\ stub = cause.n
           /\ IF stub \in ISR_ERRCODE THEN cause.err \in Nat ELSE cause.err = None
  BY <1>1 DEF IInv, Vector
<1>3. CASE cause.kind \in {"line", "spurious"}
  <2>1. stub \in 32 .. 47 /\ stub = 32 + cause.n /\ cause.n \in 0 .. 15 /\ cause.err = None
    BY <1>2, <1>3
  <2>2. stub \notin ISR_ERRCODE /\ Common(stub) = "irq"
    BY <2>1 DEF ISR_ERRCODE, Common
  <2> QED
    BY <1>2, <1>3, <2>1, <2>2 DEF Err
<1>4. CASE cause.kind = "int"
  <2>1. stub = 128 /\ cause.n = 128 /\ cause.err = None
    BY <1>2, <1>4
  <2>2. stub \notin ISR_ERRCODE /\ Common(stub) = "syscall"
    BY <2>1 DEF ISR_ERRCODE, Common
  <2> QED
    BY <1>2, <1>4, <2>1, <2>2 DEF Err
<1>5. CASE cause.kind = "exception"
  <2>1. stub \in 0 .. 31 /\ stub = cause.n
    BY <1>2, <1>5 DEF Exceptions
  <2>2. Common(stub) = "isr"
    BY <2>1 DEF Common
  <2>3. IF stub \in ISR_ERRCODE THEN cause.err \in Nat ELSE cause.err = None
    BY <1>2, <1>5
  <2> QED
    BY <1>2, <1>5, <2>1, <2>2, <2>3 DEF Err, None
<1> QED
  BY <1>2, <1>3, <1>4, <1>5 DEF Kinds

LEMMA push_numberInv ==
    ASSUME IInv, push_number
    PROVE  IInv'
<1>1. /\ pc = "stub" /\ pc' = "save"
      /\ stack' = (IF stub \in ISR_ERRCODE THEN <<stub>> ELSE <<stub, 0>>) \o stack
      /\ UNCHANGED <<boot, pic, eflags, cs, eip, ss, esp, segs, gpr, stub, cause, origin>>
  BY DEF push_number
<1>2. /\ pc \in TrapPlaces /\ pc' \in TrapPlaces /\ pc \notin BootPlaces /\ pc' \notin BootPlaces
      /\ pc' \in Places
  BY <1>1 DEF TrapPlaces, BootPlaces, Places
<1>3. stub \in Nat /\ (stub \in ISR_ERRCODE <=> cause.err # None)
  BY <1>1, Numbers
<1>4. stack \in Seq(Nat)
  BY DEF IInv, Registers
<1>5. Unchanged /\ IF cause.err = None THEN Frame(3) ELSE Frame(4) /\ stack[1] = cause.err
  BY <1>1 DEF IInv, Frames
<1>6. origin.stack \in Seq(Nat)
  BY <1>2 DEF IInv, Origin, Contexts
<1>7. stack' \in Seq(Nat) /\ Frame(5)' /\ stack'[1] = stub /\ stack'[2] = Err
  <2>1. CASE cause.err = None
    <3>1. stack' = <<stub, 0>> \o stack /\ Frame(3)
      BY <1>1, <1>3, <1>5, <2>1
    <3>2. /\ stack' \in Seq(Nat) /\ Len(stack') = 2 + Len(stack) /\ stack'[1] = stub /\ stack'[2] = 0
          /\ \A i \in 1 .. Len(stack) : stack'[2 + i] = stack[i]
      BY <1>3, <1>4, <3>1
    <3>3. Frame(5)'
      <4>1. PICK n \in 3 .. 5, k \in 1 .. 9, m \in Nat : n = 3 /\ k = 2 /\ m = 5
        OBVIOUS
      <4>2. /\ origin.stack \in Seq(Nat) /\ stack \in Seq(Nat) /\ n \in 3 .. 5 /\ k \in 1 .. 9
            /\ m \in Nat /\ m = n + k /\ Len(stack') = k + Len(stack)
            /\ \A i \in 1 .. Len(stack) : stack'[k + i] = stack[i]
            /\ FrameAt(stack, origin, n)
        BY <1>4, <1>6, <3>1, <3>2, <4>1 DEF Frame
      <4>3. FrameAt(stack', origin, m)
        BY ONLY <4>2, FrameMoves, Zenon
      <4> QED
        BY <1>1, <4>1, <4>3 DEF Frame
    <3> QED
      BY <2>1, <3>2, <3>3 DEF Err
  <2>2. CASE cause.err # None
    <3>1. stack' = <<stub>> \o stack /\ Frame(4) /\ stack[1] = cause.err
      BY <1>1, <1>3, <1>5, <2>2
    <3>2. /\ stack' \in Seq(Nat) /\ Len(stack') = 1 + Len(stack) /\ stack'[1] = stub
          /\ \A i \in 1 .. Len(stack) : stack'[1 + i] = stack[i]
      BY <1>3, <1>4, <3>1
    <3>3. Frame(5)'
      <4>1. PICK n \in 3 .. 5, k \in 1 .. 9, m \in Nat : n = 4 /\ k = 1 /\ m = 5
        OBVIOUS
      <4>2. /\ origin.stack \in Seq(Nat) /\ stack \in Seq(Nat) /\ n \in 3 .. 5 /\ k \in 1 .. 9
            /\ m \in Nat /\ m = n + k /\ Len(stack') = k + Len(stack)
            /\ \A i \in 1 .. Len(stack) : stack'[k + i] = stack[i]
            /\ FrameAt(stack, origin, n)
        BY <1>4, <1>6, <3>1, <3>2, <4>1 DEF Frame
      <4>3. FrameAt(stack', origin, m)
        BY ONLY <4>2, FrameMoves, Zenon
      <4> QED
        BY <1>1, <4>1, <4>3 DEF Frame
    <3>4. stack'[2] = stack[1]
      <4>1. 1 \in 1 .. Len(stack)
        BY <1>4, <1>6, <3>1 DEF Frame, FrameAt
      <4> QED
        BY <3>2, <4>1
    <3> QED
      BY <2>2, <3>1, <3>2, <3>3, <3>4 DEF Err
  <2> QED
    BY <2>1, <2>2
<1>8. Registers'
  BY <1>1, <1>2, <1>7 DEF IInv, Registers
<1>9. Tables' /\ Controllers' /\ Booting'
  <2>1. Loaded(segs') /\ cs' # 0
    BY <1>1, <1>2, Ready DEF KERNEL_CODE, USER_CODE
  <2> QED
    BY <1>1, <1>2, <2>1, RestStays
<1>10. Running' /\ Origin' /\ Vector'
  BY <1>1, <1>2 DEF IInv, Running, Origin, Vector
<1>11. Frames'
  <2>1. Unchanged' /\ Err' = Err
    BY <1>1, <1>5 DEF Unchanged, Err
  <2> QED
    BY <1>1, <1>7, <2>1 DEF Frames
<1>12. EoiExact'
  BY <1>1, ServiceStays
<1> QED
  BY <1>8, <1>9, <1>10, <1>11, <1>12 DEF IInv

LEMMA save_registersInv ==
    ASSUME IInv, save_registers
    PROVE  IInv'
<1> DEFINE Word(i) == IF Pushes[i] = "esp" THEN Len(stack) + i - 1 ELSE gpr[Pushes[i]]
           upper == IF Common(stub) = "syscall" THEN 65536 * (gpr["eax"] \div 65536) ELSE 0
<1>1. /\ pc = "save"
      /\ stack' = <<upper + segs["ds"]>> \o Reverse([i \in 1 .. 8 |-> Word(i)]) \o stack
      /\ gpr' = [gpr EXCEPT !["eax"] = upper + KERNEL_DATA]
      /\ segs' = [s \in SegRegs |-> KERNEL_DATA]
      /\ pc' = IF Flat(KERNEL_DATA, "data") THEN "handler" ELSE "lost"
      /\ UNCHANGED <<boot, pic, eflags, cs, eip, ss, esp, stub, cause, origin>>
  BY DEF save_registers
<1>2. pc \in TrapPlaces /\ pc \notin BootPlaces
  BY <1>1 DEF TrapPlaces, BootPlaces
<1>3. /\ stack \in Seq(Nat) /\ gpr \in [GprRegs -> Nat] /\ segs \in [SegRegs -> Nat]
      /\ segs["ds"] \in {16, 35} /\ Segments /\ cs # 0
  BY <1>2, Ready DEF IInv, Registers, Loaded, KERNEL_DATA, USER_DATA, KERNEL_CODE, USER_CODE
<1>4. pc' = "handler" /\ pc' \in TrapPlaces /\ pc' \notin BootPlaces /\ pc' \in Places
  BY <1>1, <1>3 DEF Segments, TrapPlaces, BootPlaces, Places
<1>5. /\ Unchanged /\ Frame(5) /\ stack[1] = stub /\ stack[2] = Err
  BY <1>1 DEF IInv, Frames
<1>6. origin.stack \in Seq(Nat)
  BY <1>2 DEF IInv, Origin, Contexts
<1>7. PICK a \in Nat : a = gpr["eax"]
  BY <1>3, RegisterSets
<1>8. PICK u \in Nat : u = upper + segs["ds"] /\ u % 65536 = segs["ds"] /\ upper \in Nat
  <2>1. upper = 65536 * (a \div 65536) \/ upper = 0
    BY <1>7
  <2>2. PICK e \in {16, 35} : e = segs["ds"]
    BY <1>3
  <2>3. /\ 65536 * (a \div 65536) \in Nat
        /\ (65536 * (a \div 65536) + e) % 65536 = e /\ (0 + e) % 65536 = e
    BY UpperHalf
  <2> HIDE DEF upper
  <2>4. upper \in Nat /\ (upper + e) % 65536 = e
    BY <2>1, <2>3
  <2>5. PICK w \in Nat : w = upper + e
    BY <2>4
  <2> QED
    BY <2>2, <2>4, <2>5
<1>9. /\ Word(1) = gpr["eax"] /\ Word(2) = gpr["ecx"] /\ Word(3) = gpr["edx"]
      /\ Word(4) = gpr["ebx"] /\ Word(6) = gpr["ebp"] /\ Word(7) = gpr["esi"]
      /\ Word(8) = gpr["edi"] /\ Word(5) = Len(stack) + 4
  BY <1>3 DEF Pushes
<1> HIDE DEF Word, upper
<1>10. PICK n \in Nat : n = 8
  OBVIOUS
<1>11. PICK R \in Seq(Nat) :
         /\ R = Reverse([i \in 1 .. 8 |-> Word(i)])
         /\ Len(R) = n /\ R[1] = gpr["edi"] /\ R[2] = gpr["esi"] /\ R[3] = gpr["ebp"]
         /\ R[5] = gpr["ebx"] /\ R[6] = gpr["edx"] /\ R[7] = gpr["ecx"] /\ R[8] = gpr["eax"]
  <2>1. /\ gpr["eax"] \in Nat /\ gpr["ebx"] \in Nat /\ gpr["ecx"] \in Nat /\ gpr["edx"] \in Nat
        /\ gpr["ebp"] \in Nat /\ gpr["esi"] \in Nat /\ gpr["edi"] \in Nat /\ Len(stack) + 4 \in Nat
    BY <1>3, RegisterSets
  <2>2. /\ Word(1) \in Nat /\ Word(2) \in Nat /\ Word(3) \in Nat /\ Word(4) \in Nat
        /\ Word(5) \in Nat /\ Word(6) \in Nat /\ Word(7) \in Nat /\ Word(8) \in Nat
    BY <1>9, <2>1, Zenon
  <2>3. \A i \in 1 .. n : Word(i) \in Nat
    BY <1>10, <2>2
  <2>4. PICK f \in [1 .. n -> Nat] : f = [i \in 1 .. n |-> Word(i)]
    BY <2>3
  <2>5. PICK R : R = Reverse(f)
    OBVIOUS
  <2>6. R \in Seq(Nat) /\ Len(R) = n /\ \A i \in 1 .. n : R[i] = f[(n - i) + 1]
    BY <2>5, Reversed
  <2>7. /\ R[1] = f[8] /\ R[2] = f[7] /\ R[3] = f[6] /\ R[5] = f[4] /\ R[6] = f[3] /\ R[7] = f[2]
        /\ R[8] = f[1]
    <3>1. \A i \in 1 .. n : R[i] = f[(n - i) + 1]
      BY <2>6
    <3> QED
      BY <1>10, <3>1
  <2>8. /\ R[1] = Word(8) /\ R[2] = Word(7) /\ R[3] = Word(6) /\ R[5] = Word(4)
        /\ R[6] = Word(3) /\ R[7] = Word(2) /\ R[8] = Word(1)
    BY <1>10, <2>4, <2>7
  <2>9. R = Reverse([i \in 1 .. 8 |-> Word(i)])
    BY <1>10, <2>4, <2>5, Zenon
  <2> QED
    BY <1>9, <2>6, <2>8, <2>9, Zenon
<1>12. /\ stack' \in Seq(Nat) /\ Len(stack') = 9 + Len(stack)
       /\ \A i \in 1 .. Len(stack) : stack'[9 + i] = stack[i]
       /\ stack'[1] = u
       /\ stack'[2] = gpr["edi"] /\ stack'[3] = gpr["esi"] /\ stack'[4] = gpr["ebp"]
       /\ stack'[6] = gpr["ebx"] /\ stack'[7] = gpr["edx"] /\ stack'[8] = gpr["ecx"]
       /\ stack'[9] = gpr["eax"]
  <2>1. stack' = (<<u>> \o R) \o stack
    BY <1>1, <1>8, <1>11
  <2>2. PICK s \in Seq(Nat) : s = stack
    BY <1>3
  <2>3. PICK t : t = (<<u>> \o R) \o s
    OBVIOUS
  <2>4. t = stack'
    BY <2>1, <2>2, <2>3, Zenon
  <2>5. /\ t \in Seq(Nat) /\ Len(t) = (1 + n) + Len(s)
        /\ t[1] = u /\ \A i \in 1 .. n : t[1 + i] = R[i]
        /\ \A i \in 1 .. Len(s) : t[(1 + n) + i] = s[i]
    <3>1. Len(R) = n
      BY <1>11
    <3>2. Prefixed(t, u, R, n, s)
      BY <2>3, <3>1, Prepended, Zenon
    <3> QED
      BY <3>2 DEF Prefixed
  <2>6. /\ t[1 + 1] = R[1] /\ t[1 + 2] = R[2] /\ t[1 + 3] = R[3] /\ t[1 + 5] = R[5]
        /\ t[1 + 6] = R[6] /\ t[1 + 7] = R[7] /\ t[1 + 8] = R[8]
    <3>1. \A i \in 1 .. n : t[1 + i] = R[i]
      BY <2>5
    <3> QED
      BY <1>10, <3>1
  <2>7. (1 + n) + Len(s) = 9 + Len(stack) /\ \A i \in 1 .. Len(s) : t[9 + i] = s[i]
    BY <1>10, <2>2, <2>5
  <2>8. /\ t[2] = R[1] /\ t[3] = R[2] /\ t[4] = R[3] /\ t[6] = R[5]
        /\ t[7] = R[6] /\ t[8] = R[7] /\ t[9] = R[8] /\ t[1] = u
    BY <2>5, <2>6
  <2>9. /\ Len(stack') = 9 + Len(stack) /\ stack' \in Seq(Nat)
        /\ \A i \in 1 .. Len(stack) : stack'[9 + i] = stack[i]
    BY <2>2, <2>4, <2>5, <2>7, Zenon
  <2> QED
    BY <1>11, <2>4, <2>8, <2>9, Zenon
<1>13. Saved'
  <2>1. stack'[1] % 65536 = segs["ds"]
    BY <1>8, <1>12
  <2>2. segs = origin.segs /\ gpr = origin.gpr /\ origin' = origin
    BY <1>1, <1>5 DEF Unchanged
  <2> QED
    BY <1>12, <2>1, <2>2 DEF Saved
<1>14. Frame(14)' /\ stack'[10] = stub /\ stack'[11] = Err
  <2>1. Frame(14)'
    <3>1. PICK d \in 3 .. 5, k \in 1 .. 9, m \in Nat : d = 5 /\ k = 9 /\ m = 14
      OBVIOUS
    <3>2. /\ origin.stack \in Seq(Nat) /\ stack \in Seq(Nat) /\ d \in 3 .. 5 /\ k \in 1 .. 9
          /\ m \in Nat /\ m = d + k /\ Len(stack') = k + Len(stack)
          /\ \A i \in 1 .. Len(stack) : stack'[k + i] = stack[i]
          /\ FrameAt(stack, origin, d)
      BY <1>3, <1>5, <1>6, <1>12, <3>1 DEF Frame
    <3>3. FrameAt(stack', origin, m)
      BY ONLY <3>2, FrameMoves, Zenon
    <3> QED
      BY <1>1, <3>1, <3>3 DEF Frame
  <2>2. 1 \in 1 .. Len(stack) /\ 2 \in 1 .. Len(stack) /\ 9 + 1 = 10 /\ 9 + 2 = 11
    BY <1>5, <1>6 DEF Frame, FrameAt
  <2>3. stack'[9 + 1] = stack[1] /\ stack'[9 + 2] = stack[2]
    BY <1>12, <2>2, Zenon
  <2> QED
    BY <1>5, <2>1, <2>2, <2>3
<1>15. Registers'
  <2>1. gpr' \in [GprRegs -> Nat] /\ segs' \in [SegRegs -> Nat]
    <3>1. KERNEL_DATA \in Nat /\ upper + KERNEL_DATA \in Nat
      BY <1>8 DEF KERNEL_DATA
    <3> QED
      BY <1>1, <1>3, <3>1
  <2> QED
    BY <1>1, <1>4, <1>12, <2>1 DEF IInv, Registers
<1>16. Tables' /\ Controllers' /\ Booting'
  <2>1. Loaded(segs') /\ cs' # 0
    BY <1>1, <1>3, RegisterSets DEF Loaded, KERNEL_DATA
  <2> QED
    BY <1>1, <1>2, <1>4, <2>1, RestStays
<1>17. Running' /\ Origin' /\ Vector'
  BY <1>1, <1>2, <1>4 DEF IInv, Running, Origin, Vector
<1>18. Frames'
  <2>1. Err' = Err
    BY <1>1 DEF Err
  <2> QED
    BY <1>1, <1>4, <1>13, <1>14, <2>1 DEF Frames
<1>19. EoiExact'
  BY <1>1, <1>4, ServiceStays
<1> QED
  BY <1>15, <1>16, <1>17, <1>18, <1>19 DEF IInv

\* The place of a register's word on the stack of restore_registers.
PopAt(r) == CHOOSE i \in 1 .. Len(Pops) : Pops[i] = r

LEMMA PopsAt ==
    /\ PopAt("edi") = 2 /\ PopAt("esi") = 3 /\ PopAt("ebp") = 4 /\ PopAt("ebx") = 6
    /\ PopAt("edx") = 7 /\ PopAt("ecx") = 8 /\ PopAt("eax") = 9
BY DEF Pops, PopAt

\* What is left of a stack when k words have been popped.
Popped(t, s, k) ==
    /\ t \in Seq(Nat) /\ Len(t) = Len(s) - k
    /\ \A i \in 1 .. Len(s) - k : t[i] = s[k + i]

LEMMA PoppedIs ==
    ASSUME NEW s \in Seq(Nat), NEW k \in Nat, k <= Len(s), NEW m \in Nat, m = k + 1
    PROVE  Popped(SubSeq(s, m, Len(s)), s, k)
<1>1. PICK l \in Nat : l = Len(s)
  OBVIOUS
<1>2. \A i \in m .. l : s[i] \in Nat
  BY <1>1
<1> DEFINE t == SubSeq(s, m, l)
<1>3. /\ t \in Seq(Nat) /\ Len(t) = (IF m <= l THEN l - m + 1 ELSE 0)
      /\ \A i \in 1 .. l - m + 1 : t[i] = s[m + i - 1]
  BY <1>2, SubSeqProperties
<1> HIDE DEF t
<1>4. k <= l
  BY <1>1
<1>5. (IF m <= l THEN l - m + 1 ELSE 0) = l - k /\ l - m + 1 = l - k
  BY <1>4
<1>6. \A i \in 1 .. l - k : m + i - 1 = k + i
  BY <1>4
<1>7. Len(t) = l - k /\ \A i \in 1 .. l - k : t[i] = s[k + i]
  BY <1>3, <1>5, <1>6
<1>8. Popped(t, s, k)
  BY <1>1, <1>3, <1>7 DEF Popped
<1> QED
  BY <1>1, <1>8 DEF t

LEMMA FrameDrops ==
    ASSUME NEW o, o.stack \in Seq(Nat), NEW s \in Seq(Nat), NEW t, NEW k \in Nat, Popped(t, s, k),
           NEW n \in Nat, NEW m \in Nat, m = n - k, m >= 3, FrameAt(s, o, n)
    PROVE  FrameAt(t, o, m)
<1>1. PICK l \in Nat : l = Len(o.stack)
  OBVIOUS
<1>2. /\ Len(s) = n + l
      /\ s[n - 2] = o.eip /\ s[n - 1] = o.cs /\ s[n] = o.eflags
      /\ \A i \in 1 .. l : s[n + i] = o.stack[i]
  BY <1>1 DEF FrameAt
<1>3. n - k = m /\ (n + l) - k = m + l
  OBVIOUS
<1>4. Len(t) = m + l /\ \A i \in 1 .. m + l : t[i] = s[k + i]
  BY <1>2, <1>3, Zenon DEF Popped
<1>5. t[m - 2] = o.eip /\ t[m - 1] = o.cs /\ t[m] = o.eflags
  <2>1. /\ m - 2 \in 1 .. m + l /\ m - 1 \in 1 .. m + l /\ m \in 1 .. m + l
        /\ k + (m - 2) = n - 2 /\ k + (m - 1) = n - 1 /\ k + m = n
    OBVIOUS
  <2>2. t[m - 2] = s[k + (m - 2)] /\ t[m - 1] = s[k + (m - 1)] /\ t[m] = s[k + m]
    BY <1>4, <2>1, Zenon
  <2> QED
    BY <1>2, <2>1, <2>2
<1>6. ASSUME NEW i \in 1 .. l
      PROVE  t[m + i] = o.stack[i]
  <2>1. m + i \in 1 .. m + l /\ k + (m + i) = n + i
    OBVIOUS
  <2>2. t[m + i] = s[k + (m + i)]
    BY <1>4, <2>1, Zenon
  <2> QED
    BY <1>2, <2>1, <2>2
<1> QED
  BY <1>1, <1>4, <1>5, <1>6 DEF FrameAt

LEMMA restore_registersEffect ==
    ASSUME IInv, restore_registers
    PROVE  /\ pc = "restore" /\ pc' = "iret"
           /\ segs' = origin.segs /\ gpr' = origin.gpr
           /\ stack' = SubSeq(stack, 12, Len(stack))
           /\ UNCHANGED <<boot, pic, eflags, cs, eip, ss, esp, stub, cause, origin>>
<1>1. pc = "restore"
  BY DEF restore_registers
<1>2. segs' = [s \in SegRegs |-> stack[1] % 65536]
  BY DEF restore_registers
<1>3. gpr' = [r \in GprRegs |-> stack[PopAt(r)]]
  BY DEF restore_registers, PopAt
<1>4. stack' = SubSeq(stack, 12, Len(stack))
  BY DEF restore_registers, Pops
<1>5. pc' = IF Flat(stack[1] % 65536, "data") THEN "iret" ELSE "lost"
  BY DEF restore_registers
<1>6. UNCHANGED <<boot, pic, eflags, cs, eip, ss, esp, stub, cause, origin>>
  BY DEF restore_registers
<1>7. pc \in TrapPlaces /\ pc \notin BootPlaces
  BY <1>1 DEF TrapPlaces, BootPlaces
<1>8. Saved /\ Segments
  BY <1>1, <1>7, Ready DEF IInv, Frames
<1>9. origin.segs \in [SegRegs -> Nat] /\ origin.gpr \in [GprRegs -> Nat] /\ Loaded(origin.segs)
  BY <1>7 DEF IInv, Origin, Contexts
<1>10. stack[1] % 65536 = origin.segs["ds"]
  BY <1>8 DEF Saved
<1>11. segs' = origin.segs
  <2>1. \A s \in SegRegs : origin.segs[s] = origin.segs["ds"]
    BY <1>9 DEF Loaded
  <2>2. segs' = [s \in SegRegs |-> origin.segs["ds"]]
    BY <1>2, <1>10
  <2>3. origin.segs = [s \in SegRegs |-> origin.segs[s]]
    BY <1>9
  <2>4. [s \in SegRegs |-> origin.segs[s]] = [s \in SegRegs |-> origin.segs["ds"]]
    BY <2>1
  <2> QED
    BY <2>2, <2>3, <2>4
<1>12. \A r \in GprRegs : stack[PopAt(r)] = origin.gpr[r]
  <2>1. /\ stack[2] = origin.gpr["edi"] /\ stack[3] = origin.gpr["esi"]
        /\ stack[4] = origin.gpr["ebp"] /\ stack[6] = origin.gpr["ebx"]
        /\ stack[7] = origin.gpr["edx"] /\ stack[8] = origin.gpr["ecx"]
        /\ stack[9] = origin.gpr["eax"]
    BY <1>8 DEF Saved
  <2>2. ASSUME NEW r \in {"eax", "ecx", "edx", "ebx", "ebp", "esi", "edi"}
        PROVE  stack[PopAt(r)] = origin.gpr[r]
    BY <2>1, PopsAt
  <2> QED
    BY <2>2, RegisterSets
<1>13. gpr' = origin.gpr
  <2>1. [r \in GprRegs |-> stack[PopAt(r)]] = [r \in GprRegs |-> origin.gpr[r]]
    BY <1>12
  <2>2. origin.gpr = [r \in GprRegs |-> origin.gpr[r]]
    BY <1>9
  <2> QED
    BY <1>3, <2>1, <2>2
<1>14. pc' = "iret"
  <2>1. stack[1] % 65536 \in {KERNEL_DATA, USER_DATA}
    BY <1>9, <1>10 DEF Loaded
  <2>2. Flat(stack[1] % 65536, "data")
    BY <1>8, <2>1 DEF Segments
  <2> QED
    BY <1>5, <2>2
<1> QED
  BY <1>1, <1>4, <1>6, <1>11, <1>13, <1>14

LEMMA restore_registersInv ==
    ASSUME IInv, restore_registers
    PROVE  IInv'
<1>1. /\ pc = "restore" /\ pc' = "iret"
      /\ segs' = origin.segs /\ gpr' = origin.gpr
      /\ stack' = SubSeq(stack, 12, Len(stack))
  BY restore_registersEffect
<1>2. UNCHANGED <<boot, pic, eflags, cs, eip, ss, esp, stub, cause, origin>>
  BY restore_registersEffect
<1>3. /\ pc \in TrapPlaces /\ pc \notin BootPlaces
      /\ pc' \in TrapPlaces /\ pc' \notin BootPlaces /\ pc' \in Places
  BY <1>1 DEF TrapPlaces, BootPlaces, Places
<1>4. stack \in Seq(Nat) /\ FrameAt(stack, origin, 14)
  BY <1>1 DEF IInv, Registers, Frames, Frame
<1>5. /\ origin.segs \in [SegRegs -> Nat] /\ origin.gpr \in [GprRegs -> Nat]
      /\ origin.stack \in Seq(Nat) /\ Loaded(origin.segs)
      /\ origin.cs = USER_CODE => Len(origin.stack) = 2
  BY <1>3 DEF IInv, Origin, Contexts
<1>6. PICK n \in Nat, k \in Nat, m \in Nat, p \in Nat : n = 14 /\ k = 11 /\ m = 3 /\ p = 12
  OBVIOUS
<1>7. Popped(stack', stack, k)
  <2>1. PICK l \in Nat : l = Len(origin.stack)
    BY <1>5
  <2>2. Len(stack) = 14 + l
    BY <1>4, <2>1 DEF FrameAt
  <2>3. k <= Len(stack) /\ p = k + 1
    BY <1>6, <2>2
  <2>4. Popped(SubSeq(stack, p, Len(stack)), stack, k)
    BY <1>4, <2>3, PoppedIs, Zenon
  <2>5. stack' = SubSeq(stack, p, Len(stack))
    BY <1>1, <1>6
  <2> QED
    BY <2>4, <2>5
<1>8. FrameAt(stack', origin, m)
  <2>1. FrameAt(stack, origin, n) /\ m = n - k /\ m >= 3
    BY <1>4, <1>6
  <2> QED
    BY <1>4, <1>5, <1>7, <2>1, FrameDrops, Zenon
<1>9. FrameAt(stack', origin, 3)
  BY <1>6, <1>8
<1>10. Registers'
  <2>1. stack' \in Seq(Nat)
    BY <1>7 DEF Popped
  <2>2. gpr' \in [GprRegs -> Nat] /\ segs' \in [SegRegs -> Nat]
    BY <1>1, <1>5
  <2>3. UNCHANGED <<eflags, cs, eip, ss, esp>>
    BY <1>2
  <2> QED
    BY <1>3, <2>1, <2>2, <2>3 DEF IInv, Registers
<1>11. Tables' /\ Controllers' /\ Booting'
  <2>1. Loaded(segs') /\ cs' # 0 /\ UNCHANGED <<boot, pic>>
    BY <1>1, <1>2, <1>3, <1>5, Ready DEF KERNEL_CODE, USER_CODE
  <2> QED
    BY <1>3, <2>1, RestStays
<1>12. Running' /\ Origin' /\ Vector'
  <2>1. UNCHANGED <<cs, stub, cause, origin>>
    BY <1>2
  <2> QED
    BY <1>1, <1>3, <2>1 DEF IInv, Running, Origin, Vector
<1>13. Frames'
  <2>1. origin' = origin
    BY <1>2
  <2>2. Unchanged'
    BY <1>1, <2>1 DEF Unchanged
  <2>3. stack'[1] = origin.eip /\ stack'[2] = origin.cs /\ stack'[3] = origin.eflags
    BY <1>9 DEF FrameAt
  <2>4. Frame(3)'
    BY <1>9, <2>1 DEF Frame
  <2>5. ASSUME origin.cs = USER_CODE
        PROVE  Len(stack') >= 5 /\ stack'[4] = origin.stack[1] /\ stack'[5] = origin.stack[2]
    <3>1. Len(origin.stack) = 2
      BY <1>5, <2>5
    <3>2. Len(stack') = 3 + 2 /\ \A i \in 1 .. 2 : stack'[3 + i] = origin.stack[i]
      BY <1>9, <3>1 DEF FrameAt
    <3> QED
      BY <3>2
  <2> QED
    BY <1>1, <2>1, <2>2, <2>3, <2>4, <2>5 DEF Frames
<1>14. EoiExact'
  <2>1. UNCHANGED <<pic, stub, cause>>
    BY <1>2
  <2> QED
    BY <1>1, <2>1, ServiceStays
<1> QED
  BY <1>10, <1>11, <1>12, <1>13, <1>14 DEF IInv

LEMMA iretInv ==
    ASSUME IInv, iret
    PROVE  IInv'
<1>1. pc = "iret" /\ stub' = None /\ cause' = NoCause
  BY DEF iret
<1>2. UNCHANGED <<boot, pic, segs, gpr, origin>>
  BY DEF iret
<1>3. eip' = stack[1] /\ cs' = stack[2] /\ eflags' = stack[3]
  BY DEF iret
<1>4. IF stack[2] % 4 = 3
        THEN /\ esp' = stack[4] /\ ss' = stack[5] /\ stack' = SubSeq(stack, 6, Len(stack))
             /\ pc' = IF Flat(stack[2], "code") /\ Flat(stack[5], "data") THEN "run" ELSE "lost"
        ELSE /\ stack' = SubSeq(stack, 4, Len(stack)) /\ UNCHANGED <<esp, ss>>
             /\ pc' = IF Flat(stack[2], "code") THEN "run" ELSE "lost"
  BY DEF iret
<1>5. pc \in TrapPlaces /\ pc \notin BootPlaces
  BY <1>1 DEF TrapPlaces, BootPlaces
<1>6. stack \in Seq(Nat) /\ esp \in Nat /\ ss \in Nat
  BY DEF IInv, Registers
<1>7. Segments
  BY <1>5, Ready
<1>8. /\ origin.segs \in [SegRegs -> Nat] /\ origin.gpr \in [GprRegs -> Nat]
      /\ origin.stack \in Seq(Nat) /\ Loaded(origin.segs)
      /\ origin.cs \in {KERNEL_CODE, USER_CODE} /\ origin.eip \in Nat /\ origin.eflags \in {0, IF_FLAG}
      /\ origin = [cs |-> origin.cs, eip |-> origin.eip, eflags |-> origin.eflags,
                   segs |-> origin.segs, gpr |-> origin.gpr, stack |-> origin.stack]
  BY <1>5 DEF IInv, Origin, Contexts
<1>9. Unchanged /\ stack[1] = origin.eip /\ stack[2] = origin.cs /\ stack[3] = origin.eflags
  BY <1>1 DEF IInv, Frames
<1>10. segs' = origin.segs /\ gpr' = origin.gpr /\ origin' = origin
  BY <1>2, <1>9 DEF Unchanged
<1>11. eip' = origin.eip /\ cs' = origin.cs /\ eflags' = origin.eflags
  BY <1>3, <1>9
<1>12. /\ pc' = "run" /\ stack' \in Seq(Nat) /\ esp' \in Nat /\ ss' \in Nat
       /\ cs' = KERNEL_CODE => Len(stack') = 2 /\ stack' = origin.stack
       /\ cs' = USER_CODE => ss' = USER_DATA /\ <<esp', ss'>> = origin.stack
  <2>1. CASE origin.cs = KERNEL_CODE
    <3>1. stack[2] = 8 /\ stack[2] = KERNEL_CODE /\ KERNEL_CODE # USER_CODE /\ stack[2] % 4 # 3
      BY <1>9, <2>1 DEF KERNEL_CODE, USER_CODE
    <3>2. stack' = SubSeq(stack, 4, Len(stack)) /\ esp' = esp /\ ss' = ss
      BY <1>4, <3>1
    <3>3. pc' = "run"
      BY <1>4, <1>7, <3>1 DEF Segments
    <3>4. FrameAt(stack, origin, 3)
      BY <1>1, <2>1 DEF IInv, Frames, Frame
    <3>5. Len(origin.stack) = 2
      BY <1>1, <1>5, <2>1 DEF IInv, Origin, Vector
    <3>6. PICK l \in Nat : l = 2
      OBVIOUS
    <3>7. Len(stack) = 3 + l /\ \A i \in 1 .. l : stack[3 + i] = origin.stack[i]
      BY <3>4, <3>5, <3>6 DEF FrameAt
    <3>8. PICK k \in Nat, m \in Nat : k = 3 /\ m = 4
      OBVIOUS
    <3>9. Popped(stack', stack, k)
      <4>1. k <= Len(stack) /\ m = k + 1
        BY <3>7, <3>8
      <4>2. Popped(SubSeq(stack, m, Len(stack)), stack, k)
        BY <1>6, <4>1, PoppedIs, Zenon
      <4>3. stack' = SubSeq(stack, m, Len(stack))
        BY <3>2, <3>8
      <4> QED
        BY <4>2, <4>3
    <3>10. /\ stack' \in Seq(Nat) /\ Len(stack') = l
           /\ \A i \in 1 .. l : stack'[i] = origin.stack[i]
      BY <3>7, <3>8, <3>9 DEF Popped
    <3>11. stack' = origin.stack
      <4>1. Len(stack') = Len(origin.stack)
        BY <3>5, <3>6, <3>10
      <4>2. \A i \in 1 .. Len(stack') : stack'[i] = origin.stack[i]
        BY <3>10
      <4> QED
        BY <1>8, <3>10, <4>1, <4>2, SeqEqual
    <3> QED
      BY <1>6, <1>11, <2>1, <3>1, <3>2, <3>3, <3>6, <3>10, <3>11
  <2>2. CASE origin.cs = USER_CODE
    <3>1. stack[2] = 27 /\ stack[2] = USER_CODE /\ KERNEL_CODE # USER_CODE /\ stack[2] % 4 = 3
      BY <1>9, <2>2 DEF KERNEL_CODE, USER_CODE
    <3>2. Len(origin.stack) = 2 /\ origin.stack[2] = USER_DATA
      BY <1>5, <2>2 DEF IInv, Origin
    <3>3. /\ Len(stack) >= 5 /\ stack[4] = origin.stack[1] /\ stack[5] = origin.stack[2]
      BY <1>1, <2>2 DEF IInv, Frames
    <3>4. esp' = origin.stack[1] /\ ss' = USER_DATA /\ stack' = SubSeq(stack, 6, Len(stack))
      BY <1>4, <3>1, <3>2, <3>3
    <3>5. pc' = "run"
      BY <1>4, <1>7, <3>1, <3>2, <3>3 DEF Segments
    <3>6. stack' \in Seq(Nat)
      <4>1. PICK k \in Nat, m \in Nat : k = 5 /\ m = 6
        OBVIOUS
      <4>2. k <= Len(stack) /\ m = k + 1
        BY <3>3, <4>1
      <4>3. Popped(SubSeq(stack, m, Len(stack)), stack, k)
        BY <1>6, <4>2, PoppedIs, Zenon
      <4> QED
        BY <3>4, <4>1, <4>3 DEF Popped
    <3>7. origin.stack[1] \in Nat
      BY <1>8, <3>2
    <3>8. <<origin.stack[1], USER_DATA>> = origin.stack
      BY <1>8, <3>2
    <3> QED
      BY <1>11, <2>2, <3>1, <3>4, <3>5, <3>6, <3>7, <3>8 DEF USER_DATA
  <2> QED
    BY <1>8, <2>1, <2>2
<1>13. pc' \in Places /\ pc' \notin TrapPlaces /\ pc' \notin BootPlaces
  BY <1>12 DEF Places, TrapPlaces, BootPlaces
<1>14. Registers'
  BY <1>8, <1>10, <1>11, <1>12, <1>13 DEF Registers
<1>15. Tables' /\ Controllers' /\ Booting'
  <2>1. Loaded(segs') /\ cs' # 0 /\ UNCHANGED <<boot, pic>>
    BY <1>2, <1>8, <1>10, <1>11 DEF KERNEL_CODE, USER_CODE
  <2> QED
    BY <1>5, <1>13, <2>1, RestStays
<1>16. Running'
  <2>1. Context' = [cs |-> cs', eip |-> eip', eflags |-> eflags', segs |-> segs', gpr |-> gpr',
                    stack |-> IF cs' % 4 = 3 THEN <<esp', ss'>> ELSE stack']
    BY DEF Context, User
  <2>2. (IF cs' % 4 = 3 THEN <<esp', ss'>> ELSE stack') = origin.stack
    <3>1. CASE cs' = KERNEL_CODE
      <4>1. cs' % 4 # 3
        BY <3>1 DEF KERNEL_CODE
      <4> QED
        BY <1>12, <3>1, <4>1, Zenon
    <3>2. CASE cs' = USER_CODE
      <4>1. cs' % 4 = 3
        BY <3>2 DEF USER_CODE
      <4> QED
        BY <1>12, <3>2, <4>1, Zenon
    <3> QED
      BY <1>8, <1>11, <3>1, <3>2
  <2>3. Context' = origin
    BY <1>8, <1>10, <1>11, <2>1, <2>2
  <2> QED
    BY <1>1, <1>10, <1>12, <2>3 DEF Running
<1>17. Origin' /\ Vector' /\ Frames'
  BY <1>1, <1>12, <1>13 DEF Origin, Vector, Frames, NoCause, Cause, Kinds, TrapPlaces
<1>18. EoiExact'
  <2>1. pic[1].isr = {} /\ pic[2].isr = {}
    BY <1>1, <1>5 DEF IInv, EoiExact, Vector
  <2> QED
    BY <1>1, <1>2, <1>12, <2>1 DEF EoiExact, InTrap, NoCause, Cause
<1> QED
  BY <1>14, <1>15, <1>16, <1>17, <1>18 DEF IInv

LEMMA jump_to_usermodeInv ==
    ASSUME IInv, jump_to_usermode
    PROVE  IInv'
<1>1. pc = "run" /\ cs % 4 # 3
  BY DEF jump_to_usermode, User
<1>2. /\ gpr' = [gpr EXCEPT !["ebx"] = test_task, !["ecx"] = user_stack, !["eax"] = IF_FLAG]
      /\ segs' = [s \in SegRegs |-> USER_DATA]
      /\ stack' = <<test_task, USER_CODE, IF_FLAG, user_stack, USER_DATA>> \o stack
      /\ eflags' = 0 /\ cause' = NoCause
  BY DEF jump_to_usermode
<1>3. origin' = [cs |-> USER_CODE, eip |-> test_task, eflags |-> IF_FLAG, segs |-> segs',
                 gpr |-> gpr', stack |-> <<user_stack, USER_DATA>>]
  BY DEF jump_to_usermode
<1>4. UNCHANGED <<boot, pic, cs, eip, ss, esp, stub>>
  BY DEF jump_to_usermode
<1>5. pc' = IF Flat(USER_DATA, "data") THEN "iret" ELSE "lost"
  BY DEF jump_to_usermode
<1>6. pc \notin BootPlaces
  BY <1>1 DEF BootPlaces
<1>7. Segments /\ cs = KERNEL_CODE
  BY <1>1, <1>6, Ready DEF KERNEL_CODE, USER_CODE
<1>8. stack \in Seq(Nat) /\ gpr \in [GprRegs -> Nat] /\ eip \in Nat /\ esp \in Nat /\ ss \in Nat
  BY DEF IInv, Registers
<1>9. pc' = "iret" /\ pc' \in Places /\ pc' \in TrapPlaces /\ pc' \notin BootPlaces
  BY <1>5, <1>7 DEF Segments, Places, TrapPlaces, BootPlaces
<1>10. gpr' \in [GprRegs -> Nat]
  <2>1. test_task \in Nat /\ user_stack \in Nat /\ IF_FLAG \in Nat
    BY DEF test_task, user_stack, IF_FLAG
  <2> QED
    BY <1>2, <1>8, <2>1
<1>11. segs' \in [SegRegs -> Nat] /\ Loaded(segs')
  BY <1>2, RegisterSets DEF Loaded, USER_DATA
<1>12. /\ stack' \in Seq(Nat) /\ Len(stack') >= 5
       /\ stack'[1] = test_task /\ stack'[2] = USER_CODE /\ stack'[3] = IF_FLAG
       /\ stack'[4] = user_stack /\ stack'[5] = USER_DATA
  <2>1. /\ test_task \in Nat /\ USER_CODE \in Nat /\ IF_FLAG \in Nat /\ user_stack \in Nat
        /\ USER_DATA \in Nat
    BY DEF test_task, user_stack, IF_FLAG, USER_CODE, USER_DATA
  <2> QED
    BY <1>2, <1>8, <2>1
<1>13. Registers'
  <2>1. cs' \in {0, KERNEL_CODE, USER_CODE} /\ eflags' \in {0, IF_FLAG}
    BY <1>2, <1>4, <1>7
  <2> QED
    BY <1>4, <1>8, <1>9, <1>10, <1>11, <1>12, <2>1 DEF Registers
<1>14. Tables' /\ Controllers' /\ Booting'
  <2>1. cs' # 0 /\ UNCHANGED <<boot, pic>>
    BY <1>4, <1>7 DEF KERNEL_CODE
  <2> QED
    BY <1>6, <1>9, <1>11, <2>1, RestStays
<1>15. Running' /\ Vector'
  BY <1>2, <1>9 DEF Running, Vector, NoCause, Cause, Kinds
<1>16. /\ origin'.cs = USER_CODE /\ origin'.eip = test_task /\ origin'.eflags = IF_FLAG
       /\ origin'.segs = segs' /\ origin'.gpr = gpr'
       /\ Len(origin'.stack) = 2 /\ origin'.stack[1] = user_stack /\ origin'.stack[2] = USER_DATA
       /\ origin'.stack \in Seq(Nat)
  <2>1. user_stack \in Nat /\ USER_DATA \in Nat
    BY DEF user_stack, USER_DATA
  <2> QED
    BY <1>3, <2>1
<1>17. Origin'
  <2>1. test_task \in Nat
    BY DEF test_task
  <2>2. origin' \in Contexts
    BY <1>3, <1>10, <1>11, <1>16, <2>1 DEF Contexts
  <2>3. USER_CODE # KERNEL_CODE
    BY DEF KERNEL_CODE, USER_CODE
  <2> QED
    BY <1>4, <1>7, <1>11, <1>16, <2>2, <2>3 DEF Origin
<1>18. Frames'
  <2>1. USER_CODE # KERNEL_CODE
    BY DEF KERNEL_CODE, USER_CODE
  <2>2. Unchanged'
    BY <1>16 DEF Unchanged
  <2> QED
    BY <1>9, <1>12, <1>16, <2>1, <2>2 DEF Frames
<1>19. EoiExact'
  <2>1. pic[1].isr = {} /\ pic[2].isr = {}
    BY <1>1, Idle
  <2> QED
    BY <1>2, <1>4, <1>9, <2>1 DEF EoiExact, InTrap, NoCause, Cause
<1> QED
  BY <1>13, <1>14, <1>15, <1>17, <1>18, <1>19 DEF IInv

----------------------------------------------------------------------------
(* The handlers *)

\* Where struct registers finds what the stub has pushed.
LEMMA Fields ==
    /\ regs("ds") = stack[1] /\ regs("edi") = stack[2] /\ regs("esi") = stack[3]
    /\ regs("ebp") = stack[4] /\ regs("ebx") = stack[6] /\ regs("edx") = stack[7]
    /\ regs("ecx") = stack[8] /\ regs("eax") = stack[9] /\ regs("int_no") = stack[10]
    /\ regs("err_code") = stack[11] /\ regs("eip") = stack[12] /\ regs("cs") = stack[13]
    /\ regs("eflags") = stack[14] /\ regs("useresp") = stack[15] /\ regs("ss") = stack[16]
<1> DEFINE At(f) == CHOOSE i \in 1 .. 16 : registers[i] = f
<1>1. /\ At("ds") = 1 /\ At("edi") = 2 /\ At("esi") = 3 /\ At("ebp") = 4 /\ At("ebx") = 6
      /\ At("edx") = 7 /\ At("ecx") = 8 /\ At("eax") = 9 /\ At("int_no") = 10
      /\ At("err_code") = 11 /\ At("eip") = 12 /\ At("cs") = 13 /\ At("eflags") = 14
      /\ At("useresp") = 15 /\ At("ss") = 16
  BY DEF registers
<1>2. ASSUME NEW f
      PROVE  regs(f) = stack[At(f)]
  BY DEF regs
<1> HIDE DEF At
<1> QED
  BY <1>1, <1>2

LEMMA ClobberedType ==
    ASSUME gpr \in [GprRegs -> Nat]
    PROVE  Clobbered \in [GprRegs -> Nat]
BY DEF Clobbered

LEMMA isr_handlerInv ==
    ASSUME IInv, isr_handler
    PROVE  IInv'
<1>1. pc = "handler" /\ Common(stub) = "isr"
  BY DEF isr_handler, Handles
<1>2. pc' = IF regs("int_no") < 32 THEN "halted" ELSE "restore"
  BY DEF isr_handler
<1>3. gpr' = Clobbered
  BY DEF isr_handler
<1>4. UNCHANGED <<boot, pic, eflags, cs, eip, ss, esp, segs, stack, stub, cause, origin>>
  BY DEF isr_handler
<1>5. pc \in TrapPlaces /\ pc \notin BootPlaces
  BY <1>1 DEF TrapPlaces, BootPlaces
<1>6. cause.kind = "exception" /\ stub \in Nat /\ stub < 32
  BY <1>1, Numbers DEF Common
<1>7. pc' = "halted"
  <2>1. stack[10] = stub
    BY <1>1 DEF IInv, Frames
  <2>2. regs("int_no") < 32
    BY <1>6, <2>1, Fields
  <2> QED
    BY <1>2, <2>2
<1>8. pc' \in Places /\ pc' \notin TrapPlaces /\ pc' \notin BootPlaces
  BY <1>7 DEF Places, TrapPlaces, BootPlaces
<1>9. Registers'
  <2>1. gpr' \in [GprRegs -> Nat]
    BY <1>3, ClobberedType DEF IInv, Registers
  <2> QED
    BY <1>4, <1>8, <2>1 DEF IInv, Registers
<1>10. Tables' /\ Controllers' /\ Booting'
  <2>1. Loaded(segs') /\ cs' # 0 /\ UNCHANGED <<boot, pic>>
    BY <1>4, <1>5, Ready DEF KERNEL_CODE, USER_CODE
  <2> QED
    BY <1>5, <1>8, <2>1, RestStays
<1>11. Running' /\ Origin' /\ Vector' /\ Frames'
  BY <1>4, <1>6, <1>7, <1>8 DEF Running, Origin, Vector, Frames, Kinds
<1>12. EoiExact'
  BY <1>4, <1>6 DEF EoiExact
<1> QED
  BY <1>9, <1>10, <1>11, <1>12 DEF IInv

\* The end of interrupt clears what is in service when that is one line at most.
LEMMA ServiceEnds ==
    ASSUME NEW c \in Chips, c.isr = {} \/ \E n \in 0 .. 7 : c.isr = {n},
           NEW d, d = OutCommand(c, 32)
    PROVE  /\ d \in Chips /\ d.isr = {} /\ d.irr = c.irr /\ d.base = c.base /\ d.icw = c.icw
           /\ d.cascade = c.cascade /\ d.mode = c.mode
<1>1. d = [c EXCEPT !.isr = IF @ = {} THEN {} ELSE @ \ {Min(@)}]
  BY DEF OutCommand, EndOfInterrupt
<1>2. PICK r : r = IF c.isr = {} THEN {} ELSE c.isr \ {Min(c.isr)}
  OBVIOUS
<1>3. r = {}
  <2>1. CASE c.isr = {}
    BY <1>2, <2>1
  <2>2. CASE \E n \in 0 .. 7 : c.isr = {n}
    <3>1. PICK n \in 0 .. 7 : c.isr = {n}
      BY <2>2
    <3>2. PICK m : m = Min(c.isr)
      OBVIOUS
    <3>3. m = n
      <4>1. m \in c.isr
        BY <3>1, <3>2, MinIsIn
      <4> QED
        BY <3>1, <4>1
    <3> QED
      BY <1>2, <3>1, <3>2, <3>3
  <2> QED
    BY <2>1, <2>2
<1>4. d = [c EXCEPT !.isr = r]
  BY <1>1, <1>2
<1> QED
  BY <1>3, <1>4, IsrEffect

LEMMA irq_handlerInv ==
    ASSUME IInv, irq_handler
    PROVE  IInv'
<1>1. pc = "handler" /\ Common(stub) = "irq" /\ pc' = "restore" /\ gpr' = Clobbered
  BY DEF irq_handler, Handles
<1>2. pic_eoi(regs("int_no") - 32)
  BY DEF irq_handler
<1>3. UNCHANGED <<boot, eflags, cs, eip, ss, esp, segs, stack, stub, cause, origin>>
  BY DEF irq_handler
<1>4. /\ pc \in TrapPlaces /\ pc \notin BootPlaces
      /\ pc' \in TrapPlaces /\ pc' \notin BootPlaces /\ pc' \in Places
  BY <1>1 DEF TrapPlaces, BootPlaces, Places
<1>5. cause.kind \in {"line", "spurious"} /\ stub \in Nat
  BY <1>1, Numbers
<1>6. PICK n \in 0 .. 15 : n = cause.n /\ stub = 32 + n
  BY <1>1, <1>5, Numbers
<1>7. regs("int_no") - 32 = n
  <2>1. stack[10] = stub
    BY <1>1 DEF IInv, Frames
  <2> QED
    BY <1>6, <2>1, Fields
<1>8. pic' = [i \in 1 .. 2 |-> IF i = 1 \/ n >= 8 THEN OutCommand(pic[i], 32) ELSE pic[i]]
  BY <1>2, <1>7 DEF pic_eoi
<1>9. pic \in [1 .. 2 -> Chips] /\ 2 \notin pic[1].irr
  BY DEF IInv, Controllers
<1>10. InTrap /\ cause.kind # "exception"
  BY <1>1, <1>5 DEF InTrap, None
<1>11. /\ pic[1].isr = IF n >= 8 THEN {2} ELSE IF cause.kind = "line" THEN {n} ELSE {}
       /\ pic[2].isr = IF cause.kind = "line" /\ n >= 8 THEN {n - 8} ELSE {}
  <2>1. n \div 8 + 1 = 1 <=> ~(n >= 8)
    OBVIOUS
  <2>2. n \div 8 + 1 = 2 <=> n >= 8
    OBVIOUS
  <2> QED
    BY <1>1, <1>5, <1>6, <1>10, <2>1, <2>2 DEF IInv, EoiExact
<1>12. PICK c \in Chips : c = pic[1]
  BY <1>9
<1>13. PICK d : d = pic'[1]
  OBVIOUS
<1>14. d = OutCommand(c, 32)
  BY <1>8, <1>12, <1>13
<1>15. c.isr = {} \/ \E m \in 0 .. 7 : c.isr = {m}
  <2>1. CASE n >= 8
    BY <1>11, <1>12, <1>13, <1>14, <2>1
  <2>2. CASE ~(n >= 8)
    <3>1. n \in 0 .. 7
      BY <2>2
    <3> QED
      BY <1>11, <1>12, <1>13, <1>14, <2>2, <3>1
  <2> QED
    BY <2>1, <2>2
<1>16. /\ d \in Chips /\ d.isr = {} /\ d.irr = c.irr /\ d.base = c.base /\ d.icw = c.icw
       /\ d.cascade = c.cascade /\ d.mode = c.mode
  BY <1>12, <1>13, <1>14, <1>15, ServiceEnds
<1>17. PICK a \in Chips : a = pic[2]
  BY <1>9
<1>18. PICK b : b = pic'[2]
  OBVIOUS
<1>19. /\ b \in Chips /\ b.isr = {} /\ b.base = a.base /\ b.icw = a.icw
       /\ b.cascade = a.cascade /\ b.mode = a.mode
  <2>1. CASE n >= 8
    <3>1. b = OutCommand(a, 32)
      BY <1>8, <1>17, <1>18, <2>1
    <3>2. a.isr = {} \/ \E m \in 0 .. 7 : a.isr = {m}
      <4>1. n - 8 \in 0 .. 7
        BY <2>1
      <4> QED
        BY <1>11, <1>17, <1>18, <4>1
    <3> QED
      BY <3>1, <3>2, ServiceEnds
  <2>2. CASE ~(n >= 8)
    <3>1. b = a
      BY <1>8, <1>17, <1>18, <2>2
    <3> QED
      BY <1>11, <1>17, <1>18, <2>2, <3>1
  <2> QED
    BY <2>1, <2>2
<1>20. Controllers'
  <2>1. pic' \in [1 .. 2 -> Chips]
    <3>1. pic' = [i \in 1 .. 2 |-> pic'[i]]
      BY <1>8
    <3>2. pic'[1] \in Chips /\ pic'[2] \in Chips
      BY <1>12, <1>13, <1>14, <1>16, <1>17, <1>18, <1>19
    <3>3. PICK q : q = pic'
      OBVIOUS
    <3>4. \A i \in 1 .. 2 : q[i] \in Chips
      BY <3>2, <3>3
    <3> QED
      BY <3>1, <3>3, <3>4
  <2>2. 2 \notin pic'[1].irr
    BY <1>9, <1>12, <1>13, <1>14, <1>16
  <2>3. SameSetting(pic, pic')
    <3>1. /\ pic'[1].base = pic[1].base /\ pic'[1].icw = pic[1].icw
          /\ pic'[1].cascade = pic[1].cascade /\ pic'[1].mode = pic[1].mode
      BY <1>12, <1>13, <1>14, <1>16
    <3>2. /\ pic'[2].base = pic[2].base /\ pic'[2].icw = pic[2].icw
          /\ pic'[2].cascade = pic[2].cascade /\ pic'[2].mode = pic[2].mode
      BY <1>17, <1>18, <1>19
    <3>3. \A j \in 1 .. 2 : j = 1 \/ j = 2
      OBVIOUS
    <3> QED
      BY <3>1, <3>2, <3>3, Zenon DEF SameSetting
  <2>4. UNCHANGED <<saved, step>>
    BY <1>3 DEF boot
  <2> QED
    BY <1>4, <2>1, <2>2, <2>3, <2>4, ControllersStay
<1>21. Registers'
  <2>1. gpr' \in [GprRegs -> Nat]
    BY <1>1, ClobberedType DEF IInv, Registers
  <2> QED
    BY <1>3, <1>4, <2>1 DEF IInv, Registers
<1>22. Tables' /\ Booting'
  <2>1. Loaded(segs') /\ cs' # 0 /\ Settled
    BY <1>3, <1>4, Ready DEF KERNEL_CODE, USER_CODE, Settled, boot
  <2> QED
    BY <1>4, <2>1, TablesStay DEF Booting
<1>23. Running' /\ Origin' /\ Vector'
  BY <1>1, <1>3, <1>4, <1>5 DEF IInv, Running, Origin, Vector
<1>24. Frames'
  <2>1. Saved /\ Frame(14) /\ stack' = stack /\ origin' = origin
    BY <1>1, <1>3 DEF IInv, Frames
  <2> QED
    BY <1>1, <2>1 DEF Frames, Saved, Frame
<1>25. EoiExact'
  BY <1>1, <1>3, <1>12, <1>13, <1>14, <1>16, <1>17, <1>18, <1>19 DEF EoiExact
<1> QED
  BY <1>20, <1>21, <1>22, <1>23, <1>24, <1>25 DEF IInv

LEMMA syscall_handlerInv ==
    ASSUME IInv, syscall_handler
    PROVE  IInv'
<1>1. pc = "handler" /\ Common(stub) = "syscall" /\ pc' = "restore" /\ gpr' = Clobbered
  BY DEF syscall_handler, Handles
<1>2. /\ stack' = [stack EXCEPT ![9] = answer]
      /\ origin' = [origin EXCEPT !.gpr["eax"] = answer]
  BY DEF syscall_handler
<1>3. UNCHANGED <<boot, pic, eflags, cs, eip, ss, esp, segs, stub, cause>>
  BY DEF syscall_handler
<1>4. /\ pc \in TrapPlaces /\ pc \notin BootPlaces
      /\ pc' \in TrapPlaces /\ pc' \notin BootPlaces /\ pc' \in Places
  BY <1>1 DEF TrapPlaces, BootPlaces, Places
<1>5. cause.kind = "int" /\ cause.kind # "none"
  BY <1>1, Numbers
\* Neither answer differs from the number in EAX.
<1>6. stack' = stack /\ origin' = origin
  <2>1. stack \in Seq(Nat)
    BY DEF IInv, Registers
  <2>2. answer = stack[9]
    BY Fields DEF answer
  <2>3. stack' = stack
    BY <1>2, <2>1, <2>2
  <2>4. origin \in Contexts /\ origin.gpr["eax"] = stack[9]
    BY <1>1, <1>4 DEF IInv, Origin, Frames, Saved
  <2>5. origin.gpr = [origin.gpr EXCEPT !["eax"] = answer]
    <3>1. origin.gpr \in [GprRegs -> Nat]
      BY <2>4 DEF Contexts
    <3> QED
      BY <2>2, <2>4, <3>1
  <2>6. origin' = [origin EXCEPT !.gpr = [origin.gpr EXCEPT !["eax"] = answer]]
    BY <1>2
  <2>7. origin = [origin EXCEPT !.gpr = origin.gpr]
    BY <2>4 DEF Contexts
  <2> QED
    BY <2>3, <2>5, <2>6, <2>7
<1>7. Registers'
  <2>1. gpr' \in [GprRegs -> Nat]
    BY <1>1, ClobberedType DEF IInv, Registers
  <2> QED
    BY <1>3, <1>4, <1>6, <2>1 DEF IInv, Registers
<1>8. Tables' /\ Controllers' /\ Booting'
  <2>1. Loaded(segs') /\ cs' # 0 /\ UNCHANGED <<boot, pic>>
    BY <1>3, <1>4, Ready DEF KERNEL_CODE, USER_CODE
  <2> QED
    BY <1>4, <2>1, RestStays
<1>9. Running' /\ Origin' /\ Vector'
  BY <1>1, <1>3, <1>4, <1>5, <1>6 DEF IInv, Running, Origin, Vector
<1>10. Frames'
  <2>1. Saved /\ Frame(14) /\ origin' = origin
    BY <1>1, <1>6 DEF IInv, Frames
  <2> QED
    BY <1>1, <1>6, <2>1 DEF Frames, Saved, Frame
<1>11. EoiExact'
  <2>1. pic[1].isr = {} /\ pic[2].isr = {}
    BY <1>5 DEF IInv, EoiExact
  <2> QED
    BY <1>1, <1>3, <2>1 DEF EoiExact
<1> QED
  BY <1>7, <1>8, <1>9, <1>10, <1>11 DEF IInv

LEMMA StutterInv ==
    ASSUME IInv, UNCHANGED vars
    PROVE  IInv'
<1>1. UNCHANGED <<pc, boot, pic, cpu, stub, cause, origin>>
  BY DEF vars
<1>2. Registers' /\ Booting' /\ Vector'
  BY <1>1 DEF IInv, Registers, Booting, Vector, cpu
<1>3. Tables'
  BY <1>1, SegmentsStay DEF IInv, Tables, Loaded, Gates, boot, cpu
<1>4. Controllers'
  BY <1>1 DEF IInv, Controllers, Progress, boot
<1>5. Running' /\ Origin'
  BY <1>1 DEF IInv, Running, Origin, Context, User, Loaded, boot, cpu
<1>6. Frames'
  BY <1>1 DEF IInv, Frames, Frame, Unchanged, Saved, Err, cpu
<1>7. EoiExact'
  BY <1>1 DEF IInv, EoiExact, InTrap
<1> QED
  BY <1>2, <1>3, <1>4, <1>5, <1>6, <1>7 DEF IInv

LEMMA NextInv == IInv /\ [Next]_vars => IInv'
<1> SUFFICES ASSUME IInv, [Next]_vars
             PROVE  IInv'
  OBVIOUS
<1>1. CASE gdt_install
  BY <1>1, gdt_installInv
<1>2. CASE tss_install
  BY <1>2, tss_installInv
<1>3. CASE pic_remap_save
  BY <1>3, pic_remap_saveInv
<1>4. CASE pic_remap
  BY <1>4, pic_remapInv
<1>5. CASE idt_install
  BY <1>5, idt_installInv
<1>6. CASE keyboard_install
  BY <1>6, keyboard_installInv
<1>7. CASE sti
  BY <1>7, stiInv
<1>8. CASE Raise
  BY <1>8, RaiseInv
<1>9. CASE Interrupt
  BY <1>9, InterruptInv
<1>10. CASE Spurious
  BY <1>10, SpuriousInv
<1>11. CASE Exception
  BY <1>11, ExceptionInv
<1>12. CASE SoftInt
  BY <1>12, SoftIntInv
<1>13. CASE MovEax
  BY <1>13, MovEaxInv
<1>14. CASE push_number
  BY <1>14, push_numberInv
<1>15. CASE save_registers
  BY <1>15, save_registersInv
<1>16. CASE restore_registers
  BY <1>16, restore_registersInv
<1>17. CASE iret
  BY <1>17, iretInv
<1>18. CASE jump_to_usermode
  BY <1>18, jump_to_usermodeInv
<1>19. CASE isr_handler
  BY <1>19, isr_handlerInv
<1>20. CASE irq_handler
  BY <1>20, irq_handlerInv
<1>21. CASE syscall_handler
  BY <1>21, syscall_handlerInv
<1>22. CASE halted \/ UNCHANGED vars
  BY <1>22, StutterInv DEF halted
<1> QED
  BY <1>1, <1>2, <1>3, <1>4, <1>5, <1>6, <1>7, <1>8, <1>9, <1>10, <1>11, <1>12, <1>13, <1>14,
     <1>15, <1>16, <1>17, <1>18, <1>19, <1>20, <1>21, <1>22 DEF Next
----------------------------------------------------------------------------
(* The theorems *)

\* The tables are set up in order and stay, and wherever a trap is on its way between the gate and
\* its iret the stack holds the frame that leads back to where it came from.
THEOREM Inductive == Spec => []IInv
<1>1. Init => IInv
  BY InitInv
<1>2. IInv /\ [Next]_vars => IInv'
  BY NextInv
<1> QED
  BY <1>1, <1>2, PTL DEF Spec

\* Every variable has its type, a controller the firmware's vectors or the kernel's, and ring 0
\* outside a trap its stack as deep as at the start.
THEOREM TypeCorrect == Spec => []TypeOK
<1>1. IInv => TypeOK
  <2> SUFFICES ASSUME IInv
               PROVE  TypeOK
    OBVIOUS
  <2>1. pc \in Places /\ cs \in {0, KERNEL_CODE, USER_CODE} /\ eflags \in {0, IF_FLAG}
        /\ segs \in [SegRegs -> Nat]
    BY DEF IInv, Registers
  <2>2. ASSUME NEW i \in 1 .. 2
        PROVE  /\ pic[i].base \in (IF i = 1 THEN {8, 32} ELSE {112, 40})
               /\ pic[i].imr \in 0 .. 255
               /\ pic[i].irr \subseteq 0 .. 7 /\ pic[i].isr \subseteq 0 .. 7
    <3>1. pic[i] \in Chips /\ pic[i].base = BaseAt(i, Progress(i))
      BY DEF IInv, Controllers
    <3>2. BaseAt(i, Progress(i)) \in (IF i = 1 THEN {8, 32} ELSE {112, 40})
      BY DEF BaseAt
    <3> QED
      BY <3>1, <3>2 DEF Chips
  <2>3. step \in 0 .. Len(PicWrites) + 1
    <3>1. Len(PicWrites) = 10
      BY DEF PicWrites
    <3>2. step \in 0 .. 11
      BY DEF IInv, Controllers
    <3> QED
      BY <3>1, <3>2
  <2>4. pc = "run" /\ ~User => Len(stack) = 2
    <3> SUFFICES ASSUME pc = "run", cs % 4 # 3
                 PROVE  Len(stack) = 2
      BY DEF User
    <3>1. cs = KERNEL_CODE
      BY Ready DEF BootPlaces, KERNEL_CODE, USER_CODE
    <3> QED
      BY <3>1 DEF IInv, Running
  <2>5. pc \in {"gdt_install", "tss_install", "pic_remap", "idt_install", "keyboard_install",
                "sti", "run", "stub", "save", "handler", "restore", "iret", "halted", "lost"}
    BY <2>1 DEF Places, BootPlaces, TrapPlaces
  <2> QED
    BY <2>1, <2>2, <2>3, <2>4, <2>5 DEF TypeOK
<1> QED
  BY <1>1, Inductive, PTL

\* pic_eoi ends exactly the interrupt that was handled, for every set of lines and in whatever order
\* they are raised: no line stays blocked and none is ended for another.
THEOREM EoiExactCorrect == Spec => []EoiExact
<1>1. IInv => EoiExact
  BY DEF IInv
<1> QED
  BY <1>1, Inductive, PTL

\* The gate of int 0x80 is there and open to ring 3 whenever a user program runs.
NotRefused == cause.kind = "exception" => cause.err # 8 * 128 + 2

LEMMA NotRefusedCorrect == Spec => []NotRefused
<1>1. Init => NotRefused
  BY DEF Init, NoCause, Cause, NotRefused
<1>2. IInv /\ NotRefused /\ [Next]_vars => NotRefused'
  <2> SUFFICES ASSUME IInv, NotRefused, [Next]_vars
               PROVE  NotRefused'
    OBVIOUS
  <2>1. CASE cause' = cause
    BY <2>1 DEF NotRefused
  <2>2. CASE cause' = NoCause
    BY <2>2 DEF NotRefused, NoCause, Cause
  <2>3. CASE Interrupt
    BY <2>3 DEF Interrupt, Cause, NotRefused
  <2>4. CASE Spurious
    BY <2>4 DEF Spurious, Cause, NotRefused
  <2>5. CASE Exception
    BY <2>5 DEF Exception, ErrorCode, Exceptions, None, Cause, NotRefused
  <2>6. CASE SoftInt
    <3>1. pc \notin BootPlaces
      BY <2>6 DEF SoftInt, BootPlaces
    <3>2. 128 \in DOMAIN idt /\ idt[128].dpl = 3
      BY <3>1, Ready DEF Gates, idt_set_gate
    <3> QED
      BY <2>6, <3>2 DEF SoftInt, Cause, NotRefused
  <2>7. CASE gdt_install \/ tss_install \/ pic_remap_save \/ pic_remap
    BY <2>7, <2>1 DEF gdt_install, tss_install, pic_remap_save, pic_remap
  <2>8. CASE idt_install \/ keyboard_install \/ sti \/ Raise \/ MovEax
    BY <2>8, <2>1 DEF idt_install, keyboard_install, sti, Raise, MovEax
  <2>9. CASE push_number \/ save_registers \/ restore_registers
    BY <2>9, <2>1 DEF push_number, save_registers, restore_registers
  <2>10. CASE iret \/ jump_to_usermode
    BY <2>10, <2>2 DEF iret, jump_to_usermode
  <2>11. CASE isr_handler \/ irq_handler \/ syscall_handler
    BY <2>11, <2>1 DEF isr_handler, irq_handler, syscall_handler
  <2>12. CASE halted \/ UNCHANGED vars
    BY <2>12, <2>1 DEF halted, vars
  <2> QED
    BY <2>3, <2>4, <2>5, <2>6, <2>7, <2>8, <2>9, <2>10, <2>11, <2>12 DEF Next
<1> QED
  BY <1>1, <1>2, Inductive, PTL DEF Spec

\* The CPU never misses a descriptor, a gate or a stack, and every trap comes to the handler that is
\* meant for it under its own number.
THEOREM EveryTrapHandledCorrect == Spec => []EveryTrapHandled
<1>1. IInv /\ NotRefused => EveryTrapHandled
  <2> SUFFICES ASSUME IInv, NotRefused
               PROVE  EveryTrapHandled
    OBVIOUS
  <2>1. pc # "lost"
    BY DEF IInv, Registers, Places, BootPlaces, TrapPlaces
  <2>2. ASSUME pc = "handler"
        PROVE  CASE cause.kind \in {"line", "spurious"} ->
                      /\ Common(stub) = "irq" /\ regs("int_no") = 32 + cause.n
                      /\ cause.n = 1 => regs("int_no") - 32 \in irq_routines
                 [] cause.kind = "exception" ->
                      Common(stub) = "isr" /\ regs("int_no") = cause.n
                 [] cause.kind = "int" ->
                      Common(stub) = "syscall" /\ cause.n = 128 /\ regs("int_no") = 128
    <3>1. regs("int_no") = stub
      BY <2>2, Fields DEF IInv, Frames
    <3>2. 1 \in irq_routines
      BY <2>2, Ready DEF BootPlaces
    <3>3. /\ cause.kind \in {"line", "spurious", "exception", "int"}
          /\ cause.kind \in {"line", "spurious"} =>
               Common(stub) = "irq" /\ cause.n \in 0 .. 15 /\ stub = 32 + cause.n
          /\ cause.kind = "exception" => Common(stub) = "isr" /\ stub = cause.n
          /\ cause.kind = "int" => Common(stub) = "syscall" /\ stub = 128 /\ cause.n = 128
      BY <2>2, Numbers DEF Kinds
    <3>4. CASE cause.kind \in {"line", "spurious"}
      <4>1. PICK i : i = regs("int_no")
        OBVIOUS
      <4>2. i = 32 + cause.n /\ cause.n \in 0 .. 15
        BY <3>1, <3>3, <3>4, <4>1
      <4>3. cause.n = 1 => i - 32 = 1
        BY <4>2
      <4>4. cause.n = 1 => i - 32 \in irq_routines
        BY <3>2, <4>3
      <4> QED
        BY <3>3, <3>4, <4>1, <4>2, <4>4, Zenon
    <3>5. CASE cause.kind = "exception"
      BY <3>1, <3>3, <3>5
    <3>6. CASE cause.kind = "int"
      BY <3>1, <3>3, <3>6
    <3> QED
      BY <3>3, <3>4, <3>5, <3>6
  <2> QED
    BY <2>1, <2>2 DEF EveryTrapHandled, NotRefused
<1> QED
  BY <1>1, Inductive, NotRefusedCorrect, PTL

\* A handler reads the interrupted state through struct registers, whichever stub it came by and
\* whatever the CPU pushed.
THEOREM FrameMatchesCorrect == Spec => []FrameMatches
<1>1. IInv => FrameMatches
  <2> SUFFICES ASSUME IInv, pc = "handler"
               PROVE  FrameMatches
    BY DEF FrameMatches
  <2>1. pc \in TrapPlaces
    BY DEF TrapPlaces
  <2>2. Saved /\ FrameAt(stack, origin, 14) /\ stack[11] = Err
    BY DEF IInv, Frames, Frame
  <2>3. /\ regs("err_code") = IF cause.err = None THEN 0 ELSE cause.err
        /\ regs("eip") = origin.eip /\ regs("cs") = origin.cs
        /\ regs("eflags") = origin.eflags
        /\ regs("ds") % 65536 = origin.segs["ds"]
    BY <2>2, Fields DEF Err, Saved, FrameAt
  <2>4. ASSUME NEW r \in GprRegs
        PROVE  regs(r) = origin.gpr[r]
    <3>1. r \in {"eax", "ecx", "edx", "ebx", "ebp", "esi", "edi"}
      BY RegisterSets
    <3> QED
      BY <2>2, <3>1, Fields DEF Saved
  <2>5. ASSUME origin.cs % 4 = 3
        PROVE  <<regs("useresp"), regs("ss")>> = origin.stack
    <3>1. origin.cs = USER_CODE /\ origin.stack \in Seq(Nat)
      BY <2>1, <2>5 DEF IInv, Origin, Contexts, KERNEL_CODE, USER_CODE
    <3>2. Len(origin.stack) = 2
      BY <2>1, <3>1 DEF IInv, Origin
    <3>3. stack[14 + 1] = origin.stack[1] /\ stack[14 + 2] = origin.stack[2]
      BY <2>2, <3>2 DEF FrameAt
    <3>4. stack[15] = origin.stack[1] /\ stack[16] = origin.stack[2]
      BY <3>3
    <3>5. origin.stack = <<origin.stack[1], origin.stack[2]>>
      BY <3>1, <3>2
    <3> QED
      BY <3>4, <3>5, Fields
  <2> QED
    BY <2>3, <2>4, <2>5 DEF FrameMatches
<1> QED
  BY <1>1, Inductive, PTL

\* The code a trap interrupts cannot see it: after the iret its registers, segments, flags and stack
\* are what they were, EAX after a system call what the handler answered.
THEOREM TransparentCorrect == Spec => []Transparent
<1>1. IInv => Transparent
  <2> SUFFICES ASSUME IInv, pc = "run", origin # << >>
               PROVE  Context = origin
    BY DEF Transparent
  <2>1. cs \in {KERNEL_CODE, USER_CODE}
    BY Ready DEF BootPlaces
  <2> QED
    BY <2>1 DEF IInv, Running
<1> QED
  BY <1>1, Inductive, PTL
============================================================================
