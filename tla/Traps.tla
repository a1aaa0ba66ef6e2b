------------------------------- MODULE Traps -------------------------------
(***************************************************************************)
(* Set-up of the processor and the way of a trap: gdt.cpp, idt.cpp,        *)
(* pic.cpp and interrupts.S under kernel/arch/i386/cpu, irq_handler,       *)
(* isr_handler, and the part of kernel_main that calls them.               *)
(*                                                                         *)
(* The CPU and the two 8259 controllers are external: they decode what the *)
(* code encodes.  Words are split at nibbles; NIBBLE is 16 in the code and *)
(* smaller here.  Every register begins with a value of its own, so that a *)
(* value that comes back to the wrong place shows.  The kernel stack is a  *)
(* sequence with its lowest address in front.  What a task switch does     *)
(* inside a trap is in module Sched; here schedule just returns.           *)
(***************************************************************************)
EXTENDS Integers, Sequences, SequencesExt, FiniteSetsExt

CONSTANTS
    NIBBLE,     \* 16
    TssAt,      \* the address of tss_entry
    TssSize,    \* sizeof(tss_entry_struct)
    CodeAt,     \* the stub of vector v is at CodeAt + v
    Lines,      \* the interrupt lines that devices use
    BiosMasks   \* the masks the firmware leaves in the two controllers

ASSUME NibbleAssumption == NIBBLE \in Nat /\ NIBBLE > 1

\* How many values a byte, a half word and a word have; the size of a page.
BYTE == NIBBLE * NIBBLE
HALF == BYTE * BYTE
WORD == HALF * HALF
PAGE == BYTE * NIBBLE

ASSUME AddressAssumption ==
    /\ TssAt \in 0 .. WORD - 1 /\ TssSize \in 1 .. HALF * NIBBLE
    /\ CodeAt \in Nat /\ CodeAt + 128 < WORD
ASSUME LinesAssumption == Lines \subseteq (0 .. 15) \ {2}
ASSUME MaskAssumption == BiosMasks \subseteq (0 .. 255) \X (0 .. 255)

VARIABLES
    pc,
    gdt,            \* gdt_entries, once loaded
    tss,            \* tss_entry, once in TR
    idt,            \* the gates of idt_entries that are not null, once loaded
    pic,            \* the controllers, 1 master and 2 slave
    saved,          \* a1 and a2 of pic_remap
    step,           \* the port write of pic_remap that comes next, 0 before the first
    irq_routines,   \* the lines with a routine
    eflags, cs, eip, ss, esp,
    segs,           \* ds, es, fs, gs
    gpr,            \* the other registers
    stack,          \* of the kernel
    stub,           \* the vector whose stub runs
    cause,          \* history: what the trap is about
    origin          \* history: the state it has to return to

boot == <<gdt, tss, idt, saved, step, irq_routines>>
cpu == <<eflags, cs, eip, ss, esp, segs, gpr, stack>>
vars == <<pc, boot, pic, cpu, stub, cause, origin>>

None == -1
Cause(kind, n, err) == [kind |-> kind, n |-> n, err |-> err]
NoCause == Cause("none", None, None)
KERNEL_CODE == 8
KERNEL_DATA == 16
USER_CODE == 27     \* 0x18 | 3
USER_DATA == 35     \* 0x20 | 3
SegRegs == {"ds", "es", "fs", "gs"}
Pushes == <<"eax", "ecx", "edx", "ebx", "esp", "ebp", "esi", "edi">>
GprRegs == Range(Pushes) \ {"esp"}
IF_FLAG == 512

\* Values that differ from each other; a register has something in both halves.
Initial == [r \in GprRegs |-> LET i == CHOOSE i \in 1 .. 8 : Pushes[i] = r IN 65537 * i]
kernel_main == 1001
test_task == 1002
stack_top == 1003
user_stack == 1004
magic == 1005
multiboot_ptr == 1006
Bits(n) == {i \in 0 .. 7 : (n \div 2^i) % 2 = 1}
----------------------------------------------------------------------------
(* Descriptors and gates, as the code writes and the CPU reads them *)

Access(kind, dpl) == [kind |-> kind, dpl |-> dpl]

\* Mutant: the top of the base comes from the middle.
gdt_set_gate_Shift(base, limit, access, pages) ==
    [base_low |-> base % HALF, base_middle |-> (base \div HALF) % BYTE,
     base_high |-> (base \div HALF) % BYTE, limit_low |-> limit % HALF,
     granularity |-> [limit_high |-> (limit \div HALF) % NIBBLE, pages |-> pages],
     access |-> access]

gdt_set_gate(base, limit, access, pages) ==
    [base_low |-> base % HALF, base_middle |-> (base \div HALF) % BYTE,
     base_high |-> (base \div (HALF * BYTE)) % BYTE, limit_low |-> limit % HALF,
     granularity |-> [limit_high |-> (limit \div HALF) % NIBBLE, pages |-> pages],
     access |-> access]

SegmentBase(d) == d.base_low + HALF * d.base_middle + HALF * BYTE * d.base_high
SegmentLimit(d) ==
    LET l == d.limit_low + HALF * d.granularity.limit_high
    IN IF d.granularity.pages THEN l * PAGE + PAGE - 1 ELSE l

\* The CPU takes selector sel for a segment of this kind and privilege that
\* spans all of memory.
Flat(sel, kind) ==
    /\ sel \div 8 + 1 \in DOMAIN gdt
    /\ LET d == gdt[sel \div 8 + 1] IN
         /\ d.access = Access(kind, sel % 4)
         /\ SegmentBase(d) = 0 /\ SegmentLimit(d) = WORD - 1

\* TR leads to tss_entry.
TssReached ==
    /\ tss # << >>
    /\ LET d == gdt[6] IN
         /\ d.access.kind = "tss"
         /\ SegmentBase(d) = TssAt /\ SegmentLimit(d) = TssSize - 1

idt_set_gate(base, sel, dpl) ==
    [base_low |-> base % HALF, base_high |-> (base \div HALF) % HALF,
     sel |-> sel, dpl |-> dpl]

GateTarget(g) == g.base_low + HALF * g.base_high
----------------------------------------------------------------------------
(* The controllers *)

\* A port write: to a command port ICW1 or the end of interrupt, to a data port the
\* next initialisation word or the mask.
EndOfInterrupt(c) == [c EXCEPT !.isr = IF @ = {} THEN {} ELSE @ \ {Min(@)}]
OutCommand(c, val) ==
    IF val = 17 THEN [c EXCEPT !.imr = 0, !.irr = {}, !.isr = {}, !.icw = 2]
    ELSE EndOfInterrupt(c)
OutData(c, val) ==
    CASE c.icw = 2 -> [c EXCEPT !.base = 8 * (val \div 8), !.icw = 3]
      [] c.icw = 3 -> [c EXCEPT !.cascade = val, !.icw = 4]
      [] c.icw = 4 -> [c EXCEPT !.mode = val, !.icw = 0]
      [] OTHER     -> [c EXCEPT !.imr = val]
outb(chip, port, val) ==
    pic' = [pic EXCEPT ![chip] = IF port = "command" THEN OutCommand(@, val)
                                                    ELSE OutData(@, val)]

\* The lines of a controller that have priority over those in service.
Pending(c) ==
    {n \in c.irr \ Bits(c.imr) : \A m \in c.isr : n < m}
MasterPending ==
    Pending([pic[1] EXCEPT !.irr = IF Pending(pic[2]) = {} THEN @ ELSE @ \cup {2}])

\* Both speak to the CPU as the code expects, the slave at line 2 of the master.
Wired ==
    \A i \in 1 .. 2 : pic[i].icw = 0 /\ pic[i].mode = 1 /\ pic[i].cascade = (IF i = 1 THEN 4 ELSE 2)
----------------------------------------------------------------------------
Init ==
    /\ pc = "gdt_install"
    /\ gdt = << >> /\ tss = << >> /\ idt = << >>
    /\ \E masks \in BiosMasks :
         pic = [i \in 1 .. 2 |->
                  [base |-> IF i = 1 THEN 8 ELSE 112, imr |-> masks[i], irr |-> {}, isr |-> {},
                   cascade |-> IF i = 1 THEN 4 ELSE 2, mode |-> 1, icw |-> 0]]
    /\ saved = <<0, 0>> /\ step = 0
    /\ irq_routines = {}
    /\ eflags = 0 /\ cs = 0 /\ eip = kernel_main /\ ss = 0 /\ esp = stack_top
    /\ segs = [s \in SegRegs |-> 0]
    /\ gpr = Initial
    /\ stack = <<magic, multiboot_ptr>>
    /\ stub = None /\ cause = NoCause /\ origin = << >>

\* A device raises its line, whatever the CPU does.
Raise ==
    /\ pc \notin {"halted", "lost"}
    /\ \E n \in Lines :
         /\ n % 8 \notin pic[n \div 8 + 1].irr
         /\ pic' = [pic EXCEPT ![n \div 8 + 1].irr = @ \cup {n % 8}]
    /\ UNCHANGED <<pc, boot, cpu, stub, cause, origin>>

\* The six descriptors, lgdt, and gdt_flush.
gdt_install ==
    /\ pc = "gdt_install"
    /\ LET all == WORD - 1 IN
       gdt' = << gdt_set_gate(0, 0, Access("null", 0), FALSE),
                 gdt_set_gate(0, all, Access("code", 0), TRUE),
                 gdt_set_gate(0, all, Access("data", 0), TRUE),
                 gdt_set_gate(0, all, Access("code", 3), TRUE),
                 gdt_set_gate(0, all, Access("data", 3), TRUE),
                 gdt_set_gate(TssAt, TssSize - 1, Access("tss", 3), FALSE) >>
    /\ segs' = [s \in SegRegs |-> KERNEL_DATA] /\ ss' = KERNEL_DATA /\ cs' = KERNEL_CODE
    /\ pc' = "tss_install"
    /\ UNCHANGED <<tss, idt, saved, step, irq_routines, pic, eflags, eip, esp, gpr, stack, stub,
                   cause, origin>>

tss_install ==
    /\ pc = "tss_install"
    /\ tss' = [ss0 |-> KERNEL_DATA, esp0 |-> stack_top]
    /\ pc' = "pic_remap"
    /\ UNCHANGED <<gdt, idt, saved, step, irq_routines, pic, cpu, stub, cause, origin>>

pic_remap_save ==
    /\ pc = "pic_remap" /\ step = 0
    /\ saved' = <<pic[1].imr, pic[2].imr>> /\ step' = 1
    /\ UNCHANGED <<pc, gdt, tss, idt, irq_routines, pic, cpu, stub, cause, origin>>

\* Mutant: the words of the master and of the slave are not in the order of the
\* initialisation.
PicWrites_Swapped ==
    << <<1, "command", 17>>, <<2, "command", 17>>, <<1, "data", 4>>, <<2, "data", 2>>,
       <<1, "data", 32>>, <<2, "data", 40>>, <<1, "data", 1>>, <<2, "data", 1>>,
       <<1, "data", saved[1]>>, <<2, "data", saved[2]>> >>

PicWrites ==
    << <<1, "command", 17>>, <<2, "command", 17>>, <<1, "data", 32>>, <<2, "data", 40>>,
       <<1, "data", 4>>, <<2, "data", 2>>, <<1, "data", 1>>, <<2, "data", 1>>,
       <<1, "data", saved[1]>>, <<2, "data", saved[2]>> >>

pic_remap ==
    /\ pc = "pic_remap" /\ step > 0
    /\ outb(PicWrites[step][1], PicWrites[step][2], PicWrites[step][3])
    /\ step' = step + 1
    /\ pc' = IF step = Len(PicWrites) THEN "idt_install" ELSE pc
    /\ UNCHANGED <<gdt, tss, idt, saved, irq_routines, cpu, stub, cause, origin>>

idt_install ==
    /\ pc = "idt_install"
    /\ idt' = [v \in (0 .. 47) \cup {128} |->
                 idt_set_gate(CodeAt + v, KERNEL_CODE, IF v = 128 THEN 3 ELSE 0)]
    /\ pc' = "keyboard_install"
    /\ UNCHANGED <<gdt, tss, saved, step, irq_routines, pic, cpu, stub, cause, origin>>

\* irq_install_handler(1, keyboard_handler)
keyboard_install ==
    /\ pc = "keyboard_install"
    /\ irq_routines' = irq_routines \cup {1}
    /\ pc' = "sti"
    /\ UNCHANGED <<gdt, tss, idt, saved, step, pic, cpu, stub, cause, origin>>

sti ==
    /\ pc = "sti"
    /\ eflags' = IF_FLAG /\ pc' = "run"
    /\ UNCHANGED <<boot, pic, cs, eip, ss, esp, segs, gpr, stack, stub, cause, origin>>
----------------------------------------------------------------------------
(* The CPU enters a gate and leaves a trap *)

User == cs % 4 = 3
Context == [cs |-> cs, eip |-> eip, eflags |-> eflags, segs |-> segs, gpr |-> gpr,
            stack |-> IF User THEN <<esp, ss>> ELSE stack]

\* Through the gate of vector v: from ring 3 onto the stack of the TSS.
Enter(v, err) ==
    IF /\ v \in DOMAIN idt
       /\ Flat(idt[v].sel, "code")
       /\ User => TssReached /\ Flat(tss.ss0, "data")
    THEN /\ stack' = (IF err = None THEN << >> ELSE <<err>>) \o <<eip, cs, eflags>>
                        \o (IF User THEN <<esp, ss>> ELSE stack)
         /\ cs' = idt[v].sel /\ eip' = GateTarget(idt[v])
         /\ ss' = (IF User THEN tss.ss0 ELSE ss) /\ esp' = (IF User THEN tss.esp0 ELSE esp)
         /\ eflags' = 0
         /\ stub' = GateTarget(idt[v]) - CodeAt
         /\ pc' = "stub"
         /\ UNCHANGED <<segs, gpr>>
    ELSE pc' = "lost" /\ UNCHANGED <<cpu, stub>>

\* The highest request is acknowledged.
Interrupt ==
    /\ pc = "run" /\ eflags = IF_FLAG /\ MasterPending # {}
    /\ LET p == Min(MasterPending)
           chip == IF p = 2 THEN 2 ELSE 1
           n == IF p = 2 THEN Min(Pending(pic[2])) ELSE p
       IN /\ pic' = [i \in 1 .. 2 |->
                        [pic[i] EXCEPT !.irr = IF i = chip THEN @ \ {n} ELSE @,
                                       !.isr = @ \cup (IF i = 1 THEN {p}
                                                       ELSE IF chip = 2 THEN {n} ELSE {})]]
          /\ cause' = Cause("line", 8 * (chip - 1) + n, None)
          /\ origin' = Context
          /\ IF Wired THEN Enter(pic[chip].base + n, None)
                      ELSE pc' = "lost" /\ UNCHANGED <<cpu, stub>>
    /\ UNCHANGED boot

\* A request that is gone when it is acknowledged: the controller answers with
\* its last line and marks nothing.
Spurious ==
    /\ pc = "run" /\ eflags = IF_FLAG /\ MasterPending = {}
    /\ \E chip \in 1 .. 2 :
         /\ pic' = [pic EXCEPT ![1].isr = IF chip = 2 THEN @ \cup {2} ELSE @]
         /\ cause' = Cause("spurious", 8 * (chip - 1) + 7, None)
         /\ origin' = Context
         /\ IF Wired THEN Enter(pic[chip].base + 7, None)
                     ELSE pc' = "lost" /\ UNCHANGED <<cpu, stub>>
    /\ UNCHANGED boot

\* The exceptions, and those that bring an error code, here a number of their own.
Exceptions == (0 .. 14) \cup (16 .. 21) \cup (28 .. 30)
ErrorCode(v) == IF v \in {8, 10, 11, 12, 13, 14, 17, 21, 29, 30} THEN 2000 + v ELSE None

\* In any code, the handlers' included; one of them is enough to stop the system.
Exception ==
    /\ pc \in {"run", "stub", "save", "handler", "restore", "iret"}
    /\ cause.kind # "exception"
    /\ \E v \in Exceptions :
         cause' = Cause("exception", v, ErrorCode(v)) /\ Enter(v, ErrorCode(v))
    /\ origin' = Context
    /\ UNCHANGED <<boot, pic>>

\* int n in a user program.  The CPU refuses a gate that ring 3 may not use, and one
\* that is null, with a general protection fault; the error code names the gate.
SoftInt ==
    /\ pc = "run" /\ User
    /\ \E v \in {3, 14, 33, 128, 255} :
         IF v \in DOMAIN idt /\ idt[v].dpl = 3
         THEN cause' = Cause("int", v, None) /\ Enter(v, None)
         ELSE cause' = Cause("exception", 13, 8 * v + 2) /\ Enter(13, 8 * v + 2)
    /\ origin' = Context
    /\ UNCHANGED <<boot, pic>>

\* The user program loads EAX.
MovEax ==
    /\ pc = "run" /\ User
    /\ \E call \in 0 .. 1 : gpr["eax"] # call /\ gpr' = [gpr EXCEPT !["eax"] = call]
    /\ origin' = [origin EXCEPT !.gpr = gpr']
    /\ UNCHANGED <<pc, boot, pic, eflags, cs, eip, ss, esp, segs, stack, stub, cause>>
----------------------------------------------------------------------------
(* interrupts.S *)

Common(v) == IF v < 32 THEN "isr" ELSE IF v = 128 THEN "syscall" ELSE "irq"

\* Mutant: the stub of the alignment check pushes an error code of its own.
ISR_ERRCODE_No17 == {8, 10, 11, 12, 13, 14, 21, 29, 30}
ISR_ERRCODE == {8, 10, 11, 12, 13, 14, 17, 21, 29, 30}

\* The number, and a zero where the CPU pushes no error code.
push_number ==
    /\ pc = "stub"
    /\ stack' = (IF stub \in ISR_ERRCODE THEN <<stub>> ELSE <<stub, 0>>) \o stack
    /\ pc' = "save"
    /\ UNCHANGED <<boot, pic, eflags, cs, eip, ss, esp, segs, gpr, stub, cause, origin>>

\* The registers and DS, which isr128 puts into the lower half of EAX; then the
\* kernel's data segment, and EAX holds its selector.
save_registers ==
    /\ pc = "save"
    /\ LET Word(i) == IF Pushes[i] = "esp" THEN Len(stack) + i - 1 ELSE gpr[Pushes[i]]
           upper == IF Common(stub) = "syscall" THEN 65536 * (gpr["eax"] \div 65536) ELSE 0
       IN /\ stack' = <<upper + segs["ds"]>> \o Reverse([i \in 1 .. 8 |-> Word(i)]) \o stack
          /\ gpr' = [gpr EXCEPT !["eax"] = upper + KERNEL_DATA]
    /\ segs' = [s \in SegRegs |-> KERNEL_DATA]
    /\ pc' = IF Flat(KERNEL_DATA, "data") THEN "handler" ELSE "lost"
    /\ UNCHANGED <<boot, pic, eflags, cs, eip, ss, esp, stub, cause, origin>>

\* struct registers, idt.h
registers ==
    <<"ds", "edi", "esi", "ebp", "esp", "ebx", "edx", "ecx", "eax", "int_no", "err_code",
      "eip", "cs", "eflags", "useresp", "ss">>
regs(f) == stack[CHOOSE i \in 1 .. 16 : registers[i] = f]

\* Mutant: ECX and EDX are popped in the order in which they were pushed.
Pops_Swapped == <<"ds", "edi", "esi", "ebp", "esp", "ebx", "ecx", "edx", "eax">>
Pops == <<"ds", "edi", "esi", "ebp", "esp", "ebx", "edx", "ecx", "eax">>

\* DS goes to the four segment registers, the slot of ESP is skipped, and then
\* the number and the error code are.
restore_registers ==
    /\ pc = "restore"
    /\ LET At(r) == CHOOSE i \in 1 .. Len(Pops) : Pops[i] = r IN
         /\ segs' = [s \in SegRegs |-> stack[1] % 65536]
         /\ gpr' = [r \in GprRegs |-> stack[At(r)]]
         /\ stack' = SubSeq(stack, Len(Pops) + 3, Len(stack))
         /\ pc' = IF Flat(stack[1] % 65536, "data") THEN "iret" ELSE "lost"
    /\ UNCHANGED <<boot, pic, eflags, cs, eip, ss, esp, stub, cause, origin>>

iret ==
    /\ pc = "iret"
    /\ eip' = stack[1] /\ cs' = stack[2] /\ eflags' = stack[3]
    /\ IF stack[2] % 4 = 3
         THEN /\ esp' = stack[4] /\ ss' = stack[5] /\ stack' = SubSeq(stack, 6, Len(stack))
              /\ pc' = IF Flat(stack[2], "code") /\ Flat(stack[5], "data") THEN "run" ELSE "lost"
         ELSE /\ stack' = SubSeq(stack, 4, Len(stack)) /\ UNCHANGED <<esp, ss>>
              /\ pc' = IF Flat(stack[2], "code") THEN "run" ELSE "lost"
    /\ stub' = None /\ cause' = NoCause
    /\ UNCHANGED <<boot, pic, segs, gpr, origin>>

\* user_mode_proxy goes to ring 3 with the frame of an iret.
jump_to_usermode ==
    /\ pc = "run" /\ ~User
    /\ gpr' = [gpr EXCEPT !["ebx"] = test_task, !["ecx"] = user_stack, !["eax"] = IF_FLAG]
    /\ segs' = [s \in SegRegs |-> USER_DATA]
    /\ stack' = <<test_task, USER_CODE, IF_FLAG, user_stack, USER_DATA>> \o stack
    /\ eflags' = 0
    /\ cause' = NoCause
    /\ origin' = [cs |-> USER_CODE, eip |-> test_task, eflags |-> IF_FLAG, segs |-> segs',
                  gpr |-> gpr', stack |-> <<user_stack, USER_DATA>>]
    /\ pc' = IF Flat(USER_DATA, "data") THEN "iret" ELSE "lost"
    /\ UNCHANGED <<boot, pic, cs, eip, ss, esp, stub>>
----------------------------------------------------------------------------
(* The handlers.  A C function may change EAX, ECX and EDX. *)

Clobbered == [r \in GprRegs |-> IF r \in {"eax", "ecx", "edx"} THEN 0 ELSE gpr[r]]

Handles(h) == pc = "handler" /\ Common(stub) = h

\* Prints and halts.
isr_handler ==
    /\ Handles("isr")
    /\ pc' = IF regs("int_no") < 32 THEN "halted" ELSE "restore"
    /\ gpr' = Clobbered
    /\ UNCHANGED <<boot, pic, eflags, cs, eip, ss, esp, segs, stack, stub, cause, origin>>

\* Mutant: line 8 counts as one of the master.
pic_eoi_OffByOne(irq) ==
    pic' = [i \in 1 .. 2 |-> IF i = 1 \/ irq > 8 THEN OutCommand(pic[i], 32) ELSE pic[i]]

pic_eoi(irq) ==
    pic' = [i \in 1 .. 2 |-> IF i = 1 \/ irq >= 8 THEN OutCommand(pic[i], 32) ELSE pic[i]]

\* The line's routine, if it has one, and the end of interrupt.  The count of timer
\* ticks and schedule are in module Sched, the routine of line 1 is in Keyboard.
irq_handler ==
    /\ Handles("irq")
    /\ pic_eoi(regs("int_no") - 32)
    /\ gpr' = Clobbered
    /\ pc' = "restore"
    /\ UNCHANGED <<boot, eflags, cs, eip, ss, esp, segs, stack, stub, cause, origin>>

\* Call 0 prints and returns 0.  Any other number, that of the ticks included, is
\* refused before the switch (module Sched, Heartbeat) and stays in EAX.
answer == IF regs("eax") = 0 THEN 0 ELSE regs("eax")

\* The answer is what the program has to find in EAX.
syscall_handler ==
    /\ Handles("syscall")
    /\ stack' = [stack EXCEPT ![9] = answer]
    /\ origin' = [origin EXCEPT !.gpr["eax"] = answer]
    /\ gpr' = Clobbered
    /\ pc' = "restore"
    /\ UNCHANGED <<boot, pic, eflags, cs, eip, ss, esp, segs, stub, cause>>

halted == pc = "halted" /\ UNCHANGED vars

Next ==
    \/ gdt_install \/ tss_install \/ pic_remap_save \/ pic_remap \/ idt_install
    \/ keyboard_install \/ sti
    \/ Raise \/ Interrupt \/ Spurious \/ Exception \/ SoftInt \/ MovEax
    \/ push_number \/ save_registers \/ restore_registers \/ iret \/ jump_to_usermode
    \/ isr_handler \/ irq_handler \/ syscall_handler \/ halted

Spec == Init /\ [][Next]_vars
----------------------------------------------------------------------------
InTrap == pc \in {"stub", "save", "handler", "restore", "iret"} /\ stub # None

\* Every variable has its type; a controller has the firmware's vectors or the
\* kernel's, and in ring 0 outside a trap the stack is as deep as at the start.
TypeOK ==
    /\ pc \in {"gdt_install", "tss_install", "pic_remap", "idt_install", "keyboard_install",
               "sti", "run", "stub", "save", "handler", "restore", "iret", "halted", "lost"}
    /\ \A i \in 1 .. 2 :
         /\ pic[i].base \in (IF i = 1 THEN {8, 32} ELSE {112, 40})
         /\ pic[i].imr \in 0 .. 255
         /\ pic[i].irr \subseteq 0 .. 7 /\ pic[i].isr \subseteq 0 .. 7
    /\ step \in 0 .. Len(PicWrites) + 1
    /\ cs \in {0, KERNEL_CODE, USER_CODE} /\ \A s \in SegRegs : segs[s] \in Nat
    /\ eflags \in {0, IF_FLAG}
    /\ pc = "run" /\ ~User => Len(stack) = 2

\* Every trap that the CPU takes gets to its handler: no descriptor, gate or stack
\* that it then needs is missing or points elsewhere, line n arrives in irq_handler as
\* number 32 + n, line 1 finds its routine registered, an exception arrives in
\* isr_handler under its own number, and only int 0x80 of a user program in
\* syscall_handler.  That int is never refused; the others are, most of them because
\* idt_install leaves their gates null, and are the exception 13 that the CPU makes of them.
EveryTrapHandled ==
    /\ pc # "lost"
    /\ cause.kind = "exception" => cause.err # 8 * 128 + 2
    /\ pc = "handler" =>
         CASE cause.kind \in {"line", "spurious"} ->
                 /\ Common(stub) = "irq" /\ regs("int_no") = 32 + cause.n
                 /\ cause.n = 1 => regs("int_no") - 32 \in irq_routines
           [] cause.kind = "exception" ->
                 Common(stub) = "isr" /\ regs("int_no") = cause.n
           [] cause.kind = "int" ->
                 Common(stub) = "syscall" /\ cause.n = 128 /\ regs("int_no") = 128

\* What a handler reads through struct registers, and isr_handler prints, is
\* the interrupted state, for every stub, with and without an error code of
\* the CPU and from either ring; only regs->esp is not, it lies inside the frame.
FrameMatches ==
    pc = "handler" =>
        /\ regs("err_code") = IF cause.err = None THEN 0 ELSE cause.err
        /\ regs("eip") = origin.eip /\ regs("cs") = origin.cs
        /\ regs("eflags") = origin.eflags
        /\ \A r \in GprRegs : regs(r) = origin.gpr[r]
        /\ regs("ds") % 65536 = origin.segs["ds"]
        /\ origin.cs % 4 = 3 => <<regs("useresp"), regs("ss")>> = origin.stack

\* A trap cannot be seen by the code it interrupts: after iret registers,
\* segments, flags and stack are what they were, but for EAX after a system call,
\* which is what syscall_handler put into its frame; and jump_to_usermode leaves
\* the processor in ring 3 at its entry point.
Transparent == pc = "run" /\ origin # << >> => Context = origin

\* No line stays blocked and none is ended for another: outside a trap nothing
\* is in service, and until pic_eoi exactly the line that is being handled, with the
\* cascade for a line of the slave, spurious interrupts included.
EoiExact ==
    LET Line == cause.kind \in {"line", "spurious"}
        Handling == InTrap /\ Line /\ pc \in {"stub", "save", "handler"}
        Marked(chip) == cause.kind = "line" /\ cause.n \div 8 + 1 = chip
    IN cause.kind # "exception" =>
         /\ pic[1].isr = IF ~Handling THEN {}
                         ELSE IF cause.n >= 8 THEN {2}
                         ELSE IF Marked(1) THEN {cause.n} ELSE {}
         /\ pic[2].isr = IF Handling /\ Marked(2) THEN {cause.n - 8} ELSE {}
============================================================================
