------------------------------- MODULE Sched -------------------------------
(***************************************************************************)
(* Tasks, interrupts and system calls on the one CPU of the machine:       *)
(* kernel/kernel/task.cpp, process/switch.S, cpu/irq.cpp, cpu/interrupts.S,*)
(* cpu/gdt.cpp (the TSS), kernel/kernel/syscall.cpp, spinlock.cpp and the  *)
(* user program test_task of kernel/kernel/kernel.cpp.                     *)
(*                                                                         *)
(* The CPU is its program counter, its ring, its interrupt flag, the stack *)
(* it is on and EAX; the stacks hold the frames that interrupts and        *)
(* switch_to push.  The gates clear IF, so irq_handler with schedule and   *)
(* switch_to inside is one step; so is each statement of the code that runs*)
(* with IF set and shares state with them.  An interrupt that is pending   *)
(* when IF is set is taken before the next instruction.  A task, its       *)
(* task_t and its stack have the same number.                              *)
(***************************************************************************)
EXTENDS Integers, Sequences, FiniteSets

CONSTANTS
    NTASKS,     \* tasks after boot; kernel_main creates one besides itself
    PERIOD,     \* ticks between two messages of test_task; 200
    TICK_MOD    \* 2^32, where timer_ticks wraps

ASSUME TasksAssumption == NTASKS \in Nat /\ NTASKS >= 2
ASSUME PeriodAssumption == PERIOD \in Nat
ASSUME TickAssumption == TICK_MOD \in Nat /\ TICK_MOD >= 2

Tasks == 1 .. NTASKS
nullptr == 0
Wild == -1          \* what an uninitialised word holds
TIMER == 0
KEYBOARD == 1
SYS_PRINTF == 0
SYS_GET_TICKS == 1
NUM_SYSCALLS == 1   \* the table syscalls[] has one entry

VARIABLES
    pc, ring, ifl, sp, eax,             \* the CPU; ifl is the IF bit of EFLAGS
    stack,                              \* the frames on the stack of each task
    irr, isr,                           \* the PIC: requested, in service
    timer_ticks,
    current_task, ready_queue, next_tid,
    next, esp, kstack_bottom,           \* the fields of each task_t
    new_task,                           \* the local variable of task_create
    tss_esp0,
    tty_lock,
    ucur, ulast,                        \* current_tick, last_tick of test_task
    slack                               \* lines that may be raised again already

cpu == <<pc, ring, ifl, sp, eax>>
pic == <<irr, isr>>
tasks == <<current_task, ready_queue, next_tid, next, esp, kstack_bottom,
           new_task, tss_esp0>>
user == <<ucur, ulast>>
machine == <<cpu, stack, pic, timer_ticks, tasks, tty_lock, user>>
vars == <<machine, slack>>

Lines == {TIMER, KEYBOARD}

Top(s) == s[Len(s)]
Pop(s) == SubSeq(s, 1, Len(s) - 1)

\* What switch_to and the interrupt stubs leave on a stack.
SwitchFrame(ret) == [pc |-> ret, ring |-> 0, sp |-> Wild, eax |-> 0, int_no |-> Wild]
TrapFrame(ret, int_no, a) ==
    [pc |-> ret, ring |-> ring, sp |-> sp, eax |-> a, int_no |-> int_no]

\* kernel_main is past sti, on its way to tasking_init.
Init ==
    /\ pc = "init_alloc" /\ ring = 0 /\ ifl = TRUE /\ sp = 1 /\ eax = 0
    /\ stack = [t \in Tasks |-> << >>]
    /\ irr = {} /\ isr = {}
    /\ timer_ticks = 0
    /\ current_task = nullptr /\ ready_queue = nullptr /\ next_tid = 1
    /\ next = [t \in Tasks |-> Wild]
    /\ esp = [t \in Tasks |-> Wild]
    /\ kstack_bottom = [t \in Tasks |-> Wild]
    /\ new_task = nullptr
    /\ tss_esp0 = 1                             \* tss_install(&stack_top)
    /\ tty_lock = 0
    /\ ucur = [t \in Tasks |-> 0] /\ ulast = [t \in Tasks |-> 0]
    /\ slack = Lines
----------------------------------------------------------------------------
(* The devices, and the delivery of an interrupt *)

\* The PIT and the keyboard controller raise their lines, each at most once
\* before the next instruction that runs with IF set: a tick of the PIT takes
\* 10 ms, an interrupt or a system call a few microseconds.
Raise(n) ==
    /\ n \in slack
    /\ slack' = slack \ {n}
    /\ irr' = irr \cup {n}
    /\ UNCHANGED <<cpu, stack, isr, timer_ticks, tasks, tty_lock, user>>

\* A request goes through unless one of the same or a higher priority (a lower
\* number) is in service.
Deliverable(n) == ifl /\ n \in irr /\ \A m \in isr : m > n

Pending == \E n \in irr : Deliverable(n)

\* The CPU runs the instruction at pc = at.
At(at) == pc = at /\ ~Pending

\* Enter the kernel: from ring 3 on the stack that the TSS names, from its top;
\* from ring 0 on the stack in use.  Without a valid stack the machine is lost.
Trap(handler, frame) ==
    LET to == IF ring = 3 THEN tss_esp0 ELSE sp IN
    /\ ring' = 0 /\ ifl' = FALSE
    /\ IF to \in Tasks
         THEN /\ stack' = [stack EXCEPT ![to] =
                              IF ring = 3 THEN <<frame>> ELSE Append(@, frame)]
              /\ sp' = to /\ pc' = handler
         ELSE sp' = Wild /\ pc' = "wild" /\ UNCHANGED stack

\* A halted CPU goes on behind the hlt, in the loop of keyboard_getchar.
Resume == IF pc = "halted" THEN "getchar" ELSE pc

Interrupt ==
    /\ pc # "wild"
    /\ \E n \in irr :
         /\ Deliverable(n) /\ \A m \in irr : m >= n
         /\ Trap("irq", TrapFrame(Resume, 32 + n, eax))
         /\ irr' = irr \ {n} /\ isr' = isr \cup {n}
    /\ UNCHANGED <<eax, timer_ticks, tasks, tty_lock, user>>

\* Mutant: the frame stays on the stack.
iret_NoPop ==
    /\ At("iret")
    /\ LET f == Top(stack[sp]) IN
         pc' = f.pc /\ ring' = f.ring /\ sp' = f.sp /\ eax' = f.eax
    /\ ifl' = TRUE
    /\ UNCHANGED <<stack, pic, timer_ticks, tasks, tty_lock, user>>

\* The end of the stubs: restore the registers of the frame; IF was set in it.
iret ==
    /\ At("iret")
    /\ LET f == Top(stack[sp]) IN
         /\ stack' = [stack EXCEPT ![sp] = Pop(@)]
         /\ pc' = f.pc /\ ring' = f.ring /\ sp' = f.sp /\ eax' = f.eax
    /\ ifl' = TRUE
    /\ UNCHANGED <<pic, timer_ticks, tasks, tty_lock, user>>
----------------------------------------------------------------------------
(* irq_handler, schedule, switch_to *)

\* Mutant: the TSS keeps the stack of the task that ran before.
switch_to_StaleTss(old, new) ==
    /\ current_task' = new
    /\ UNCHANGED tss_esp0
    /\ esp' = [esp EXCEPT ![old] = Len(stack[sp]) + 1]
    /\ LET saved == [stack EXCEPT ![sp] = Append(@, SwitchFrame("iret"))]
           target == SubSeq(saved[new], 1, esp'[new])
       IN /\ stack' = [saved EXCEPT ![new] = Pop(target)]
          /\ pc' = Top(target).pc
          /\ sp' = new

\* Mutant: the stack pointer of the old task is not saved.
switch_to_NoSave(old, new) ==
    /\ current_task' = new
    /\ tss_esp0' = kstack_bottom[new]
    /\ UNCHANGED esp
    /\ LET saved == [stack EXCEPT ![sp] = Append(@, SwitchFrame("iret"))]
           target == IF esp[new] = Wild THEN saved[new] ELSE SubSeq(saved[new], 1, esp[new])
       IN /\ stack' = [saved EXCEPT ![new] = Pop(target)]
          /\ pc' = Top(target).pc
          /\ sp' = new

\* Lines 57 to 63 of task.cpp and switch.S: save the registers and ESP of the old
\* task, take ESP of the new one, restore its registers and return.
switch_to(old, new) ==
    /\ current_task' = new
    /\ tss_esp0' = kstack_bottom[new]
    /\ esp' = [esp EXCEPT ![old] = Len(stack[sp]) + 1]
    /\ LET saved == [stack EXCEPT ![sp] = Append(@, SwitchFrame("iret"))]
           target == SubSeq(saved[new], 1, esp'[new])
       IN /\ stack' = [saved EXCEPT ![new] = Pop(target)]
          /\ pc' = Top(target).pc
          /\ sp' = new

schedule ==
    LET new == next[current_task] IN
    CASE current_task = nullptr \/ new = current_task ->
           /\ pc' = "iret"
           /\ UNCHANGED <<sp, stack, current_task, esp, tss_esp0>>
      [] OTHER ->
           IF new \in Tasks THEN switch_to(current_task, new)
           ELSE pc' = "wild" /\ UNCHANGED <<sp, stack, current_task, esp, tss_esp0>>

\* Mutant: the end of interrupt is sent after schedule has returned.
irq_handler_LateEoi ==
    /\ At("irq")
    /\ IF Top(stack[sp]).int_no = 32
         THEN /\ timer_ticks' = (timer_ticks + 1) % TICK_MOD
              /\ schedule
         ELSE /\ pc' = "iret"
              /\ UNCHANGED <<timer_ticks, sp, stack, current_task, esp, tss_esp0>>
    /\ isr' = IF pc' = "iret" THEN isr \ {Top(stack[sp]).int_no - 32} ELSE isr
    /\ UNCHANGED <<ring, ifl, eax, irr, ready_queue, next_tid, next, kstack_bottom,
                   new_task, tty_lock, user>>

\* Count a tick, run the driver's handler (another module), send the end of
\* interrupt, and for the timer schedule.
irq_handler ==
    /\ At("irq")
    /\ isr' = isr \ {Top(stack[sp]).int_no - 32}
    /\ IF Top(stack[sp]).int_no = 32
         THEN /\ timer_ticks' = (timer_ticks + 1) % TICK_MOD
              /\ schedule
         ELSE /\ pc' = "iret"
              /\ UNCHANGED <<timer_ticks, sp, stack, current_task, esp, tss_esp0>>
    /\ UNCHANGED <<ring, ifl, eax, irr, ready_queue, next_tid, next, kstack_bottom,
                   new_task, tty_lock, user>>
----------------------------------------------------------------------------
(* Task 1: kernel_main from tasking_init on.  Each statement that schedule   *)
(* can observe is a step.                                                    *)

\* A step of ring-0 code with IF set: from one statement to the next.
Goto(from, to) == At(from) /\ pc' = to /\ UNCHANGED <<ring, ifl, sp, eax>>

\* tasking_init, line 14: the fields of the new task_t are not yet written.
tasking_init_alloc ==
    /\ Goto("init_alloc", "init_next")
    /\ current_task' = 1
    /\ UNCHANGED <<stack, pic, timer_ticks, ready_queue, next_tid, next, esp,
                   kstack_bottom, new_task, tss_esp0, tty_lock, user>>

\* Lines 15 to 17; id and running are read by nobody else.
tasking_init_next ==
    /\ Goto("init_next", "init_queue")
    /\ next_tid' = next_tid + 1
    /\ next' = [next EXCEPT ![current_task] = current_task]
    /\ UNCHANGED <<stack, pic, timer_ticks, current_task, ready_queue, esp,
                   kstack_bottom, new_task, tss_esp0, tty_lock, user>>

tasking_init_queue ==
    /\ Goto("init_queue", "print")
    /\ ready_queue' = current_task
    /\ UNCHANGED <<stack, pic, timer_ticks, current_task, next_tid, next, esp,
                   kstack_bottom, new_task, tss_esp0, tty_lock, user>>

\* task_create, lines 24 to 40: a task_t, a stack, and on it a frame that makes
\* switch_to return into the entry function.
task_create_alloc ==
    /\ Goto("create", "create_link")
    /\ new_task' = next_tid
    /\ next_tid' = next_tid + 1
    /\ kstack_bottom' = [kstack_bottom EXCEPT ![next_tid] = next_tid]
    /\ stack' = [stack EXCEPT ![next_tid] = <<SwitchFrame("proxy")>>]
    /\ esp' = [esp EXCEPT ![next_tid] = 1]
    /\ UNCHANGED <<pic, timer_ticks, current_task, ready_queue, next, tss_esp0,
                   tty_lock, user>>

\* Mutant: the new task is published before its own link is set.
task_create_link_Late ==
    /\ Goto("create_link", "create_publish")
    /\ next' = [next EXCEPT ![ready_queue] = new_task]
    /\ UNCHANGED <<stack, pic, timer_ticks, current_task, ready_queue, next_tid, esp,
                   kstack_bottom, new_task, tss_esp0, tty_lock, user>>

\* Line 43: the new task points into the ring ...
task_create_link ==
    /\ Goto("create_link", "create_publish")
    /\ next' = [next EXCEPT ![new_task] = next[ready_queue]]
    /\ UNCHANGED <<stack, pic, timer_ticks, current_task, ready_queue, next_tid, esp,
                   kstack_bottom, new_task, tss_esp0, tty_lock, user>>

\* Mutant: the queue's head moves to the new task, and nothing points to it.
task_create_publish_NoLink ==
    /\ Goto("create_publish", "print")
    /\ ready_queue' = new_task
    /\ UNCHANGED <<stack, pic, timer_ticks, current_task, next, next_tid, esp,
                   kstack_bottom, new_task, tss_esp0, tty_lock, user>>

\* ... line 44: and the ring points to it.
task_create_publish ==
    /\ Goto("create_publish", "print")
    /\ next' = [next EXCEPT ![ready_queue] = new_task]
    /\ UNCHANGED <<stack, pic, timer_ticks, current_task, ready_queue, next_tid, esp,
                   kstack_bottom, new_task, tss_esp0, tty_lock, user>>

\* The lock of the terminal, taken and released for each piece of text.  who
\* says who prints: "print" is task 1 with IF set, "sys_print"
\* the system call, with IF clear.
Hold(who) == IF who = "print" THEN "print_held" ELSE "sys_held"

\* Mutant: the old value of the lock is not looked at.
spinlock_acquire_NoTest(who) ==
    /\ Goto(who, Hold(who))
    /\ tty_lock' = 1
    /\ UNCHANGED <<stack, pic, timer_ticks, tasks, user>>

spinlock_acquire(who) ==
    /\ tty_lock = 0
    /\ Goto(who, Hold(who))
    /\ tty_lock' = 1
    /\ UNCHANGED <<stack, pic, timer_ticks, tasks, user>>

\* spinlock_acquire finds the lock taken and tries again.
spin(who) ==
    /\ tty_lock = 1
    /\ At(who)
    /\ UNCHANGED machine

\* The text is in the frame buffer; spinlock_release, and back to the caller.
spinlock_release(who, to) ==
    /\ Goto(Hold(who), to)
    /\ tty_lock' = 0
    /\ UNCHANGED <<stack, pic, timer_ticks, tasks, user>>

\* After a message task 1 creates the tasks still missing, then it is the shell:
\* it waits for a key in keyboard_getchar, and echoes.
AfterPrint == IF next_tid <= NTASKS THEN "create" ELSE "getchar"

\* keyboard_getchar finds a character, or none and halts (module Keyboard).
shell_getchar ==
    /\ \E to \in {"print", "halted"} : Goto("getchar", to)
    /\ UNCHANGED <<stack, pic, timer_ticks, tasks, tty_lock, user>>
----------------------------------------------------------------------------
(* The other tasks: user_mode_proxy, and test_task in ring 3 *)

\* user_mode_proxy and jump_to_usermode: IF is still clear from the interrupt
\* that switched here; the iret at the end sets it.
user_mode_proxy ==
    /\ At("proxy")
    /\ pc' = "user" /\ ring' = 3 /\ ifl' = TRUE
    /\ UNCHANGED <<sp, eax, stack, pic, timer_ticks, tasks, tty_lock, user>>

\* mov nr, eax; int 0x80
int80(from, nr, to) ==
    /\ At(from)
    /\ eax' = nr
    /\ Trap("syscall", TrapFrame(to, 128, nr))
    /\ UNCHANGED <<pic, timer_ticks, tasks, tty_lock>>

test_task_ticks == int80("user", SYS_GET_TICKS, "user_test") /\ UNCHANGED user

\* if (current_tick - last_tick >= PERIOD), on unsigned numbers.
test_task_test ==
    /\ At("user_test")
    /\ ucur' = [ucur EXCEPT ![sp] = eax]
    /\ pc' = IF (eax - ulast[sp]) % TICK_MOD >= PERIOD THEN "user_print" ELSE "user"
    /\ UNCHANGED <<ring, ifl, sp, eax, stack, pic, timer_ticks, tasks, tty_lock, ulast>>

test_task_print == int80("user_print", SYS_PRINTF, "user_done") /\ UNCHANGED user

test_task_done ==
    /\ Goto("user_done", "user")
    /\ ulast' = [ulast EXCEPT ![sp] = ucur[sp]]
    /\ UNCHANGED <<stack, pic, timer_ticks, tasks, tty_lock, ucur>>

\* The caller's EAX, in the frame of the int 0x80.
Regs == Top(stack[sp])

\* The guard against NUM_SYSCALLS comes before the switch.
syscall_handler ==
    /\ At("syscall")
    /\ LET n == Regs.eax
           result == IF n < NUM_SYSCALLS /\ n = SYS_GET_TICKS THEN timer_ticks ELSE n
       IN /\ pc' = IF n < NUM_SYSCALLS /\ n = SYS_PRINTF THEN "sys_print" ELSE "iret"
          /\ stack' = [stack EXCEPT ![sp][Len(stack[sp])].eax = result]
    /\ UNCHANGED <<ring, ifl, sp, eax, pic, timer_ticks, tasks, tty_lock, user>>

\* A pointer that was never written has been followed: anything may happen.
runaway == pc = "wild" /\ UNCHANGED machine
----------------------------------------------------------------------------
\* The interrupted program goes on.
Instruction ==
    \/ tasking_init_alloc
    \/ tasking_init_next
    \/ tasking_init_queue
    \/ task_create_alloc
    \/ task_create_link
    \/ task_create_publish
    \/ \E who \in {"print", "sys_print"} : spinlock_acquire(who) \/ spin(who)
    \/ spinlock_release("print", AfterPrint)
    \/ spinlock_release("sys_print", "iret")
    \/ shell_getchar
    \/ user_mode_proxy
    \/ test_task_ticks
    \/ test_task_test
    \/ test_task_print
    \/ test_task_done
    \/ syscall_handler
    \/ runaway

Cpu ==
    \/ (Interrupt \/ irq_handler \/ iret) /\ UNCHANGED slack
    \/ Instruction /\ slack' = IF ifl THEN Lines ELSE slack

Next == Cpu \/ Raise(TIMER) \/ Raise(KEYBOARD)

Spec == Init /\ [][Next]_vars

\* The CPU goes on executing and the PIT goes on ticking.
FairSpec == Spec /\ WF_vars(Cpu) /\ WF_vars(Raise(TIMER))
----------------------------------------------------------------------------
\* The places in the code of task 1 and of test_task at which an interrupt may come,
\* and those in the handlers.
KernelPlaces == {"init_alloc", "init_next", "init_queue", "print", "print_held",
                 "create", "create_link", "create_publish", "getchar"}
UserPlaces == {"user", "user_test", "user_print", "user_done"}
Handlers == {"irq", "iret", "syscall", "sys_print", "sys_held"}

Frames == [pc : KernelPlaces \cup UserPlaces \cup {"proxy", "iret"}, ring : {0, 3},
           sp : Tasks \cup {Wild}, eax : 0 .. TICK_MOD, int_no : {32, 33, 128, Wild}]

\* Every variable has its type, and no stack holds more than two frames.
TypeOK ==
    /\ pc \in KernelPlaces \cup UserPlaces \cup Handlers \cup {"proxy", "halted", "wild"}
    /\ ring \in {0, 3} /\ ifl \in BOOLEAN
    /\ sp \in Tasks \cup {Wild} /\ eax \in 0 .. TICK_MOD
    /\ stack \in [Tasks -> Seq(Frames)] /\ \A t \in Tasks : Len(stack[t]) <= 2
    /\ irr \subseteq Lines /\ isr \subseteq Lines /\ slack \subseteq Lines
    /\ timer_ticks \in 0 .. TICK_MOD - 1
    /\ {current_task, ready_queue, new_task} \subseteq Tasks \cup {nullptr}
    /\ next_tid \in 1 .. NTASKS + 1
    /\ next \in [Tasks -> Tasks \cup {Wild}]
    /\ esp \in [Tasks -> {1, 2, Wild}]
    /\ kstack_bottom \in [Tasks -> Tasks \cup {Wild}]
    /\ tss_esp0 \in Tasks \cup {Wild}
    /\ tty_lock \in {0, 1}
    /\ ucur \in [Tasks -> 0 .. TICK_MOD] /\ ulast \in [Tasks -> 0 .. TICK_MOD]

\* The CPU is always on the stack of current_task, and a task in ring 3 enters
\* the kernel on its own stack, although the TSS is one and the task_t of task 1
\* never gets a kstack_bottom (schedule then loads garbage into the TSS).
OwnStack ==
    pc # "wild" /\ current_task # nullptr =>
        /\ sp = current_task
        /\ ring = 3 => tss_esp0 = current_task

\* Whatever runs meanwhile, a task that waits keeps what it needs to go on: on its
\* stack, under the frame of switch_to at the saved ESP, lies exactly one
\* interrupt frame, which leads back to that task (a new task has the frame
\* that task_create built).
WaitingTasksIntact ==
    pc # "wild" =>
        \A t \in Tasks \ {current_task} :
            esp[t] # Wild =>
                /\ esp[t] = Len(stack[t])
                /\ \/ esp[t] = 1 /\ stack[t][1].pc = "proxy"
                   \/ /\ esp[t] = 2
                      /\ stack[t][2] = SwitchFrame("iret")
                      /\ stack[t][1].sp = t
                      /\ stack[t][1].ring = IF t = 1 THEN 0 ELSE 3

\* Where task t is, in itself and in the frames of what it interrupted.
Places(t) ==
    {stack[t][k].pc : k \in 1 .. Len(stack[t])} \cup (IF sp = t THEN {pc} ELSE {})

Holders == {t \in Tasks : Places(t) \cap {"print_held", "sys_held"} # {}}

\* Across preemption and system calls at most one task is between
\* spinlock_acquire and spinlock_release, and the lock is taken exactly then.
LockExclusive ==
    pc # "wild" => /\ Cardinality(Holders) <= 1
                   /\ tty_lock = 1 <=> Holders # {}

\* With interrupts enabled no interrupt is in service: every path through
\* irq_handler, also the one that leaves through switch_to into a new task, has
\* sent its end of interrupt, so no line stays blocked.
NoLineBlocked == ifl => isr = {}

\* Following next from the head of the queue.
Follow == [n \in 0 .. NTASKS |-> LET F[k \in 0 .. NTASKS] ==
                                      IF k = 0 THEN ready_queue ELSE next[F[k - 1]]
                                 IN F[n]]

\* From the end of tasking_init on, while tasks are being added under a running
\* timer, the queue is a ring of initialised tasks with the current one in it.
ReadyRing ==
    ready_queue # nullptr /\ pc # "wild" =>
        \E n \in 1 .. NTASKS :
            /\ \A k \in 0 .. n - 1 : next[Follow[k]] \in Tasks
            /\ Follow[n] = ready_queue
            /\ \E k \in 0 .. n - 1 : Follow[k] = current_task
            /\ \A k \in 0 .. n - 1 : Follow[k] # current_task => esp[Follow[k]] # Wild

\* Unless the boot race sends the CPU astray or a system call spins for ever, every
\* task runs again and again: the shell in its loop, the others in ring 3.
EveryTaskRuns ==
    [](pc # "wild") /\ []<>(pc # "sys_print") =>
        /\ []<>(sp = 1 /\ pc = "getchar")
        /\ \A t \in Tasks \ {1} : []<>(sp = t /\ ring = 3)

\* Whenever the timer interrupt is about to call schedule with a current task, the
\* list that schedule follows is circular.
ListIsCircular ==
    pc = "irq" /\ Top(stack[sp]).int_no = 32 /\ current_task # nullptr =>
        next[current_task] \in Tasks

\* test_task prints its message again and again, unless the boot race sends the CPU
\* astray or a system call spins for ever: it asks system call 1 for the ticks and
\* prints when PERIOD of them have gone by ("roughly every 2 seconds").
Heartbeat ==
    [](pc # "wild") /\ []<>(pc # "sys_print") => []<>(pc = "user_print")
============================================================================
