---------------------------- MODULE SchedProofs ----------------------------
(***************************************************************************)
(* What holds of tasks, interrupts and system calls for every number of    *)
(* tasks and every length of the tick counter.                             *)
(***************************************************************************)
EXTENDS Sched, SequenceTheorems, FiniteSetTheorems, WellFoundedInduction, TLAPS

----------------------------------------------------------------------------
(* Stacks of one and two frames *)

LEMMA OneFrame ==
    ASSUME NEW f
    PROVE  /\ <<f>> # << >> /\ Len(<<f>>) = 1 /\ <<f>>[1] = f
           /\ Top(<<f>>) = f /\ Pop(<<f>>) = << >>
           /\ Append(<< >>, f) = <<f>>
           /\ SubSeq(<<f>>, 1, 1) = <<f>>
<1>1. <<f>> \in Seq({f}) /\ Len(<<f>>) = 1 /\ <<f>>[1] = f
  OBVIOUS
<1>2. SubSeq(<<f>>, 1, 0) = << >>
  BY SubSeqEmpty
<1>3. SubSeq(<<f>>, 1, 1) = <<f>>
  BY <1>1, SubSeqFull
<1>4. Append(<< >>, f) = <<f>>
  OBVIOUS
<1> QED
  BY <1>1, <1>2, <1>3, <1>4 DEF Top, Pop

LEMMA TwoFrames ==
    ASSUME NEW f, NEW g
    PROVE  /\ <<f, g>> # << >> /\ Len(<<f, g>>) = 2
           /\ <<f, g>>[1] = f /\ <<f, g>>[2] = g
           /\ Top(<<f, g>>) = g /\ Pop(<<f, g>>) = <<f>>
           /\ Append(<<f>>, g) = <<f, g>>
           /\ SubSeq(<<f, g>>, 1, 2) = <<f, g>>
<1>1. /\ <<f>> \in Seq({f, g}) /\ Len(<<f>>) = 1 /\ <<f>>[1] = f
      /\ <<f, g>> \in Seq({f, g}) /\ Len(<<f, g>>) = 2
      /\ <<f, g>>[1] = f /\ <<f, g>>[2] = g
  OBVIOUS
<1>2. SubSeq(<<f, g>>, 1, 2) = <<f, g>>
  BY <1>1, SubSeqFull
<1> DEFINE s == <<f, g>>
           S == {f, g}
<1>s. s \in Seq(S) /\ Len(s) = 2 /\ s[1] = f
  BY <1>1
<1>t. <<f>> \in Seq(S) /\ g \in S
  BY <1>1
<1> HIDE DEF s, S
<1>3. SubSeq(s, 1, 1) = <<f>>
  <2>1. SubSeq(s, 1, 1) \in Seq(S) /\ Len(SubSeq(s, 1, 1)) = 1 /\ SubSeq(s, 1, 1)[1] = s[1]
    <3>1. \A i \in 1 .. 1 : s[i] \in S
      BY <1>s
    <3> QED
      BY <3>1, SubSeqProperties, 1 \in Int, 1 \in 1 .. 1
  <2>2. \A i \in 1 .. Len(SubSeq(s, 1, 1)) : SubSeq(s, 1, 1)[i] = <<f>>[i]
    BY <1>1, <1>s, <2>1
  <2>3. Len(SubSeq(s, 1, 1)) = Len(<<f>>)
    BY <1>1, <2>1
  <2> QED
    BY <1>t, <2>1, <2>2, <2>3, SeqEqual
<1>4. Append(<<f>>, g) = s
  <2>1. /\ Append(<<f>>, g) \in Seq(S) /\ Len(Append(<<f>>, g)) = 2
        /\ Append(<<f>>, g)[1] = f /\ Append(<<f>>, g)[2] = g
    BY <1>1, <1>t, AppendProperties
  <2>2. s[2] = g
    BY <1>1 DEF s
  <2> QED
    BY <1>s, <2>1, <2>2, SeqEqual
<1> QED
  BY <1>1, <1>2, <1>3, <1>4 DEF Top, Pop, s

LEMMA StackTypes ==
    ASSUME NEW f \in Frames, NEW g \in Frames
    PROVE  << >> \in Seq(Frames) /\ <<f>> \in Seq(Frames) /\ <<f, g>> \in Seq(Frames)
OBVIOUS
----------------------------------------------------------------------------
(* The inductive invariant *)

\* The frames that lead back into the code of task t.
Interrupted(t) ==
    [pc : IF t = 1 THEN KernelPlaces ELSE UserPlaces, ring : {IF t = 1 THEN 0 ELSE 3},
     sp : {t}, eax : 0 .. TICK_MOD, int_no : {32, 33, 128}]

\* Where task 1 is in its own code.
Place == IF stack[1] = << >> THEN pc ELSE stack[1][1].pc

\* task_create has made a task that is not yet in the ring; the last task in it.
NewTask == Place \in {"create_link", "create_publish"}
Last == IF NewTask THEN next_tid - 2 ELSE next_tid - 1

\* The CPU is in the code of task 1, in a user program, on the way to one, or in a
\* handler above the one frame that leads back.
CpuShape ==
    /\ sp = 1 \/ sp \in 2 .. Last
    /\ \/ /\ pc \in KernelPlaces \cup {"halted"} /\ sp = 1
          /\ ring = 0 /\ ifl = TRUE /\ stack[sp] = << >>
       \/ /\ pc \in UserPlaces /\ sp # 1
          /\ ring = 3 /\ ifl = TRUE /\ stack[sp] = << >>
       \/ /\ pc = "proxy" /\ sp # 1
          /\ ring = 0 /\ ifl = FALSE /\ stack[sp] = << >>
       \/ /\ pc \in Handlers /\ ring = 0 /\ ifl = FALSE
          /\ \E f \in Interrupted(sp) :
               /\ stack[sp] = <<f>>
               /\ pc = "irq" => f.int_no # 128
               /\ pc \notin {"irq", "iret"} => sp # 1
    /\ sp # 1 => tss_esp0 = sp

\* Only the interrupt whose handler is about to run is in service.
InService ==
    isr = IF pc = "irq" THEN {stack[sp][1].int_no - 32} ELSE {}

\* Task t has been switched away from, or never run.
Waits(t) ==
    \/ /\ t # 1 /\ esp[t] = 1
       /\ stack[t] = <<SwitchFrame("proxy")>>
    \/ /\ esp[t] = 2
       /\ \E f \in Interrupted(t) : stack[t] = <<f, SwitchFrame("iret")>>

Others ==
    \A t \in Tasks \ {sp} :
        IF t < next_tid THEN Waits(t) ELSE stack[t] = << >> /\ esp[t] = Wild

\* How far task 1 has come decides what the variables of task.cpp hold.
TaskTable ==
    /\ Place = "init_alloc" => sp = 1 /\ current_task = nullptr /\ esp[1] = Wild
    /\ Place # "init_alloc" => current_task = sp
    /\ next_tid = 1 <=> Place \in {"init_alloc", "init_next"}
    /\ Place \in {"init_alloc", "init_next", "create"} => next_tid <= NTASKS
    /\ Place = "init_queue" => next_tid = 2
    /\ ready_queue = IF Place \in {"init_alloc", "init_next", "init_queue"} THEN nullptr ELSE 1
    /\ \A t \in 2 .. next_tid - 1 : kstack_bottom[t] = t

\* Task 1 is followed by the newest task, every other one by the one before it.
Ring ==
    /\ next[1] = IF next_tid = 1 THEN Wild ELSE Last
    /\ \A t \in 2 .. Last : next[t] = t - 1
    /\ NewTask => new_task = next_tid - 1 /\ next_tid > 2
    /\ Place = "create_publish" => next[new_task] = Last

Lock ==
    /\ tty_lock = IF pc = "sys_held" \/ Place = "print_held" THEN 1 ELSE 0
    /\ pc = "sys_held" => Place # "print_held"

Alive == CpuShape /\ InService /\ Others /\ TaskTable /\ Ring /\ Lock

IInv == TypeOK /\ NoLineBlocked /\ (pc # "wild" => Alive)
----------------------------------------------------------------------------
(* What the invariant says at a place *)

LEMMA InterruptedIsFrame ==
    ASSUME NEW t \in Tasks
    PROVE  Interrupted(t) \subseteq Frames
<1> SUFFICES ASSUME NEW f \in Interrupted(t)
             PROVE  f \in Frames
  OBVIOUS
<1>1. /\ f = [pc |-> f.pc, ring |-> f.ring, sp |-> f.sp, eax |-> f.eax, int_no |-> f.int_no]
      /\ f.pc \in KernelPlaces \cup UserPlaces /\ f.ring \in {0, 3} /\ f.sp \in Tasks
      /\ f.eax \in 0 .. TICK_MOD /\ f.int_no \in {32, 33, 128, Wild}
  BY DEF Interrupted
<1> QED
  BY <1>1 DEF Frames

\* Task 1 runs its own code.
LEMMA InKernel ==
    ASSUME IInv, pc \in KernelPlaces \cup {"halted"}
    PROVE  /\ sp = 1 /\ ring = 0 /\ ifl = TRUE /\ isr = {} /\ stack[1] = << >>
           /\ Place = pc /\ Alive
BY DEF IInv, Alive, CpuShape, InService, Place, KernelPlaces, UserPlaces, Handlers

\* A user program runs.
LEMMA InUser ==
    ASSUME IInv, pc \in UserPlaces
    PROVE  /\ sp \in 2 .. Last /\ ring = 3 /\ ifl = TRUE /\ isr = {} /\ stack[sp] = << >>
           /\ tss_esp0 = sp /\ Alive
BY DEF IInv, Alive, CpuShape, InService, Place, KernelPlaces, UserPlaces, Handlers

\* A handler runs, above one frame.
LEMMA InHandler ==
    ASSUME IInv, pc \in Handlers
    PROVE  /\ ring = 0 /\ ifl = FALSE /\ Alive
           /\ stack[sp][1] \in Interrupted(sp)
           /\ stack[sp] = <<stack[sp][1]>>
           /\ Top(stack[sp]) = stack[sp][1]
           /\ pc = "irq" => stack[sp][1].int_no # 128
           /\ pc \notin {"irq", "iret"} => sp # 1
<1>1. Alive /\ CpuShape
  BY DEF IInv, Alive, Handlers
<1>2. PICK f \in Interrupted(sp) :
        /\ stack[sp] = <<f>>
        /\ pc = "irq" => f.int_no # 128
        /\ pc \notin {"irq", "iret"} => sp # 1
  BY <1>1 DEF CpuShape, KernelPlaces, UserPlaces, Handlers
<1>3. ring = 0 /\ ifl = FALSE
  BY <1>1 DEF CpuShape, KernelPlaces, UserPlaces, Handlers
<1>4. stack[sp][1] = f /\ Top(stack[sp]) = f
  BY <1>2, OneFrame
<1> QED
  BY <1>1, <1>2, <1>3, <1>4
----------------------------------------------------------------------------
(* The steps *)

LEMMA InitInv == Init => IInv
<1> SUFFICES ASSUME Init PROVE IInv
  OBVIOUS
<1>1. stack \in [Tasks -> Seq(Frames)] /\ \A t \in Tasks : Len(stack[t]) <= 2
  BY DEF Init
<1>2. 1 \in Tasks /\ stack[1] = << >> /\ Place = "init_alloc" /\ ~NewTask
  BY TasksAssumption DEF Init, Tasks, Place, NewTask
<1>3. TypeOK
  BY <1>1, <1>2, TasksAssumption, TickAssumption
  DEF Init, TypeOK, KernelPlaces, Tasks, Wild, nullptr
<1>4. NoLineBlocked /\ CpuShape /\ InService
  BY <1>2 DEF Init, NoLineBlocked, CpuShape, InService, KernelPlaces
<1>5. Others /\ TaskTable /\ Ring /\ Lock
  BY <1>2, TasksAssumption
  DEF Init, Others, TaskTable, Ring, Lock, Tasks, Last, nullptr, Wild, NewTask
<1> QED
  BY <1>3, <1>4, <1>5 DEF IInv, Alive

\* The statements of tasking_init.
LEMMA tasking_init_allocInv ==
    ASSUME IInv, tasking_init_alloc, slack' \subseteq Lines
    PROVE  IInv'
<1>1. /\ sp = 1 /\ ring = 0 /\ ifl = TRUE /\ isr = {} /\ stack[1] = << >>
      /\ Place = pc /\ Alive /\ pc = "init_alloc" /\ ~NewTask
  BY InKernel DEF tasking_init_alloc, Goto, At, KernelPlaces, NewTask
<1>2. /\ UNCHANGED <<ring, ifl, sp, eax, stack, irr, isr, timer_ticks, ready_queue, next_tid,
                     next, esp, kstack_bottom, new_task, tss_esp0, tty_lock, ucur, ulast>>
      /\ pc' = "init_next" /\ current_task' = 1
      /\ Place' = pc' /\ ~NewTask'
  BY <1>1 DEF tasking_init_alloc, Goto, Place, pic, user, NewTask
<1>3. next_tid = 1 /\ ready_queue = nullptr /\ next[1] = Wild /\ 1 \in Tasks /\ tty_lock = 0
  BY <1>1, TasksAssumption DEF Alive, TaskTable, Ring, Tasks, Lock
<1>4. TypeOK'
  BY <1>2, <1>3 DEF IInv, TypeOK, KernelPlaces
<1>5. NoLineBlocked' /\ CpuShape' /\ InService' /\ Lock'
  BY <1>1, <1>2, <1>3 DEF NoLineBlocked, CpuShape, InService, Lock, KernelPlaces
<1>6. TaskTable' /\ Ring'
  BY <1>1, <1>2, <1>3, TasksAssumption DEF Alive, TaskTable, Ring, Last
<1>7. Others'
  BY <1>1, <1>2 DEF Alive, Others, Waits
<1> QED
  BY <1>4, <1>5, <1>6, <1>7 DEF IInv, Alive

LEMMA tasking_init_nextInv ==
    ASSUME IInv, tasking_init_next, slack' \subseteq Lines
    PROVE  IInv'
<1>1. /\ sp = 1 /\ ring = 0 /\ ifl = TRUE /\ isr = {} /\ stack[1] = << >>
      /\ Place = pc /\ Alive /\ pc = "init_next" /\ ~NewTask
  BY InKernel DEF tasking_init_next, Goto, At, KernelPlaces, NewTask
<1>2. /\ next_tid = 1 /\ ready_queue = nullptr /\ 1 \in Tasks /\ tty_lock = 0
      /\ current_task = 1 /\ next_tid <= NTASKS
  BY <1>1, TasksAssumption DEF Alive, TaskTable, Tasks, Lock
<1>3. /\ UNCHANGED <<ring, ifl, sp, eax, stack, irr, isr, timer_ticks, current_task, ready_queue,
                     esp, kstack_bottom, new_task, tss_esp0, tty_lock, ucur, ulast>>
      /\ pc' = "init_queue" /\ next_tid' = 2 /\ next' = [next EXCEPT ![1] = 1]
      /\ Place' = pc' /\ ~NewTask'
  BY <1>1, <1>2 DEF tasking_init_next, Goto, Place, pic, user, NewTask
<1>4. next' \in [Tasks -> Tasks \cup {Wild}] /\ next'[1] = 1
  BY <1>2, <1>3 DEF IInv, TypeOK
<1>5. TypeOK'
  <2>1. pc' \in KernelPlaces /\ next_tid' \in 1 .. NTASKS + 1
    BY <1>3, TasksAssumption DEF KernelPlaces
  <2>2. TypeOK
    BY DEF IInv
  <2> QED
    BY <1>3, <1>4, <2>1, <2>2 DEF TypeOK
<1>6. NoLineBlocked' /\ CpuShape' /\ InService' /\ Lock'
  BY <1>1, <1>2, <1>3 DEF NoLineBlocked, CpuShape, InService, Lock, KernelPlaces
<1>7. TaskTable' /\ Ring'
  BY <1>1, <1>2, <1>3, <1>4, TasksAssumption DEF Alive, TaskTable, Ring, Last
<1>8. Others'
  BY <1>1, <1>2, <1>3 DEF Alive, Others, Waits, Tasks
<1> QED
  BY <1>5, <1>6, <1>7, <1>8 DEF IInv, Alive

LEMMA tasking_init_queueInv ==
    ASSUME IInv, tasking_init_queue, slack' \subseteq Lines
    PROVE  IInv'
<1>1. /\ sp = 1 /\ ring = 0 /\ ifl = TRUE /\ isr = {} /\ stack[1] = << >>
      /\ Place = pc /\ Alive /\ pc = "init_queue" /\ ~NewTask
  BY InKernel DEF tasking_init_queue, Goto, At, KernelPlaces, NewTask
<1>2. /\ next_tid = 2 /\ next[1] = 1 /\ 1 \in Tasks /\ tty_lock = 0 /\ current_task = 1
  BY <1>1, TasksAssumption DEF Alive, TaskTable, Ring, Last, Tasks, Lock
<1>3. /\ UNCHANGED <<ring, ifl, sp, eax, stack, irr, isr, timer_ticks, current_task, next_tid, next,
                     esp, kstack_bottom, new_task, tss_esp0, tty_lock, ucur, ulast>>
      /\ pc' = "print" /\ ready_queue' = 1
      /\ Place' = pc' /\ ~NewTask'
  BY <1>1, <1>2 DEF tasking_init_queue, Goto, Place, pic, user, NewTask
<1>4. TypeOK'
  BY <1>2, <1>3 DEF IInv, TypeOK, KernelPlaces
<1>5. NoLineBlocked' /\ CpuShape' /\ InService' /\ Lock'
  BY <1>1, <1>2, <1>3 DEF NoLineBlocked, CpuShape, InService, Lock, KernelPlaces
<1>6. TaskTable' /\ Ring'
  BY <1>1, <1>2, <1>3, TasksAssumption DEF Alive, TaskTable, Ring, Last
<1>7. Others'
  BY <1>1, <1>2, <1>3 DEF Alive, Others, Waits, Tasks
<1> QED
  BY <1>4, <1>5, <1>6, <1>7 DEF IInv, Alive

\* task_create: a task and its stack, ...
LEMMA task_create_allocInv ==
    ASSUME IInv, task_create_alloc, slack' \subseteq Lines
    PROVE  IInv'
<1>1. /\ sp = 1 /\ ring = 0 /\ ifl = TRUE /\ isr = {} /\ stack[1] = << >>
      /\ Place = pc /\ Alive /\ pc = "create" /\ ~NewTask
  BY InKernel DEF task_create_alloc, Goto, At, KernelPlaces, NewTask
<1>2. /\ ready_queue = 1 /\ 1 \in Tasks /\ tty_lock = 0 /\ current_task = 1
      /\ next_tid \in 2 .. NTASKS /\ next_tid \in Tasks
  BY <1>1, TasksAssumption DEF Alive, TaskTable, Ring, Last, Tasks, Lock, IInv, TypeOK
<1>3. /\ UNCHANGED <<ring, ifl, sp, eax, irr, isr, timer_ticks, current_task, ready_queue, next,
                     tss_esp0, tty_lock, ucur, ulast>>
      /\ pc' = "create_link" /\ next_tid' = next_tid + 1 /\ new_task' = next_tid
      /\ kstack_bottom' = [kstack_bottom EXCEPT ![next_tid] = next_tid]
      /\ stack' = [stack EXCEPT ![next_tid] = <<SwitchFrame("proxy")>>]
      /\ esp' = [esp EXCEPT ![next_tid] = 1]
  BY DEF task_create_alloc, Goto, pic, user
<1>4. /\ stack \in [Tasks -> Seq(Frames)] /\ esp \in [Tasks -> {1, 2, Wild}]
      /\ kstack_bottom \in [Tasks -> Tasks \cup {Wild}]
  BY DEF IInv, TypeOK
<1>5. stack'[1] = << >> /\ Place' = pc' /\ NewTask' /\ Last' = Last
  BY <1>1, <1>2, <1>3, <1>4 DEF Place, NewTask, Last
<1>6. stack' \in [Tasks -> Seq(Frames)] /\ \A t \in Tasks : Len(stack'[t]) <= 2
  <2>1. SwitchFrame("proxy") \in Frames
    BY TickAssumption DEF SwitchFrame, Frames
  <2>2. <<SwitchFrame("proxy")>> \in Seq(Frames) /\ Len(<<SwitchFrame("proxy")>>) = 1
    BY <2>1, StackTypes, OneFrame
  <2>3. \A t \in Tasks : Len(stack[t]) <= 2
    BY DEF IInv, TypeOK
  <2> QED
    BY <1>2, <1>3, <1>4, <2>2, <2>3
<1>7. TypeOK'
  <2>1. /\ esp' \in [Tasks -> {1, 2, Wild}] /\ kstack_bottom' \in [Tasks -> Tasks \cup {Wild}]
        /\ next_tid' \in 1 .. NTASKS + 1
    BY <1>2, <1>3, <1>4, TasksAssumption
  <2>2. TypeOK
    BY DEF IInv
  <2>3. pc' \in KernelPlaces /\ new_task' \in Tasks
    BY <1>2, <1>3 DEF KernelPlaces
  <2>4. UNCHANGED <<ring, ifl, sp, eax, irr, isr, timer_ticks, current_task, ready_queue, next,
                    tss_esp0, tty_lock, ucur, ulast>>
    BY <1>3
  <2> QED
    BY <1>6, <2>1, <2>2, <2>3, <2>4 DEF TypeOK
<1>8. NoLineBlocked' /\ CpuShape' /\ InService' /\ Lock'
  BY <1>1, <1>2, <1>3, <1>5 DEF NoLineBlocked, CpuShape, InService, Lock, KernelPlaces, Alive
<1>9. TaskTable'
  <2>1. kstack_bottom'[next_tid] = next_tid
        /\ \A t \in Tasks \ {next_tid} : kstack_bottom'[t] = kstack_bottom[t]
    BY <1>2, <1>3, <1>4
  <2>2. \A t \in 2 .. next_tid : t \in Tasks /\ (t = next_tid \/ t \in 2 .. next_tid - 1)
    BY <1>2, TasksAssumption DEF Tasks
  <2>3. \A t \in 2 .. next_tid - 1 : kstack_bottom[t] = t
    BY <1>1 DEF Alive, TaskTable
  <2>4. \A t \in 2 .. next_tid' - 1 : kstack_bottom'[t] = t
    BY <1>2, <1>3, <2>1, <2>2, <2>3
  <2> QED
    BY <1>1, <1>2, <1>3, <1>5, <2>4 DEF TaskTable
<1>10. Ring'
  BY <1>1, <1>2, <1>3, <1>4, <1>5, TasksAssumption DEF Alive, Ring, Last
<1>11. Others'
  <2> SUFFICES ASSUME NEW t \in Tasks \ {1}
               PROVE  IF t < next_tid' THEN Waits(t)' ELSE stack'[t] = << >> /\ esp'[t] = Wild
    BY <1>1, <1>3 DEF Others
  <2>1. CASE t = next_tid
    BY <2>1, <1>2, <1>3, <1>4 DEF Waits, Tasks
  <2>2. CASE t # next_tid
    <3>1. stack'[t] = stack[t] /\ esp'[t] = esp[t] /\ (t < next_tid' <=> t < next_tid)
      BY <2>2, <1>2, <1>3, <1>4 DEF Tasks
    <3> QED
      BY <3>1, <1>1 DEF Alive, Others, Waits
  <2> QED
    BY <2>1, <2>2
<1> QED
  BY <1>7, <1>8, <1>9, <1>10, <1>11 DEF IInv, Alive

\* ... its link into the ring, ...
LEMMA task_create_linkInv ==
    ASSUME IInv, task_create_link, slack' \subseteq Lines
    PROVE  IInv'
<1>1. /\ sp = 1 /\ ring = 0 /\ ifl = TRUE /\ isr = {} /\ stack[1] = << >>
      /\ Place = pc /\ Alive /\ pc = "create_link" /\ NewTask
  BY InKernel DEF task_create_link, Goto, At, KernelPlaces, NewTask
<1>2. /\ ready_queue = 1 /\ 1 \in Tasks /\ tty_lock = 0 /\ current_task = 1
      /\ next_tid \in 3 .. NTASKS + 1 /\ new_task = next_tid - 1 /\ new_task \in Tasks
      /\ next[1] = Last /\ Last = new_task - 1 /\ Last \in Tasks
  BY <1>1, TasksAssumption DEF Alive, TaskTable, Ring, Last, Tasks, Lock, IInv, TypeOK
<1>3. /\ UNCHANGED <<ring, ifl, sp, eax, stack, irr, isr, timer_ticks, current_task, ready_queue,
                     next_tid, esp, kstack_bottom, new_task, tss_esp0, tty_lock, ucur, ulast>>
      /\ pc' = "create_publish" /\ next' = [next EXCEPT ![new_task] = Last]
      /\ Place' = pc' /\ NewTask' /\ Last' = Last
  BY <1>1, <1>2 DEF task_create_link, Goto, pic, user, Place, NewTask, Last
<1>4. /\ next \in [Tasks -> Tasks \cup {Wild}] /\ next' \in [Tasks -> Tasks \cup {Wild}]
      /\ next'[new_task] = Last /\ \A t \in 1 .. Last : next'[t] = next[t]
  BY <1>2, <1>3 DEF IInv, TypeOK, Tasks
<1>5. TypeOK'
  BY <1>2, <1>3, <1>4 DEF IInv, TypeOK, KernelPlaces
<1>6. NoLineBlocked' /\ CpuShape' /\ InService' /\ Lock'
  BY <1>1, <1>2, <1>3 DEF NoLineBlocked, CpuShape, InService, Lock, KernelPlaces, Alive
<1>7. TaskTable' /\ Ring'
  <2>1. /\ Place = "create_link" /\ Place' = "create_publish"
        /\ UNCHANGED <<sp, current_task, ready_queue, next_tid, kstack_bottom, new_task>>
    BY <1>1, <1>3
  <2>2. TaskTable /\ Ring
    BY <1>1 DEF Alive
  <2>3. TaskTable'
    BY <2>1, <2>2 DEF TaskTable
  <2>4. next'[1] = next[1]
    <3>1. 1 \in 1 .. Last
      BY <1>2 DEF Tasks
    <3> QED
      BY <1>4, <3>1
  <2>5. \A t \in 2 .. Last : next'[t] = next[t]
    <3>1. \A t \in 2 .. Last : t \in 1 .. Last
      OBVIOUS
    <3> QED
      BY <1>4, <3>1
  <2>6. Ring'
    BY <1>2, <1>3, <1>4, <2>1, <2>2, <2>4, <2>5 DEF Ring
  <2> QED
    BY <2>3, <2>6
<1>8. Others'
  BY <1>1, <1>3 DEF Alive, Others, Waits
<1> QED
  BY <1>5, <1>6, <1>7, <1>8 DEF IInv, Alive

\* ... and the link to it.
LEMMA task_create_publishInv ==
    ASSUME IInv, task_create_publish, slack' \subseteq Lines
    PROVE  IInv'
<1>1. /\ sp = 1 /\ ring = 0 /\ ifl = TRUE /\ isr = {} /\ stack[1] = << >>
      /\ Place = pc /\ Alive /\ pc = "create_publish" /\ NewTask
  BY InKernel DEF task_create_publish, Goto, At, KernelPlaces, NewTask
<1>2. /\ ready_queue = 1 /\ 1 \in Tasks /\ tty_lock = 0 /\ current_task = 1
      /\ next_tid \in 3 .. NTASKS + 1 /\ new_task = next_tid - 1 /\ new_task \in Tasks
      /\ next[new_task] = new_task - 1 /\ Last = new_task - 1 /\ Last \in Tasks
  BY <1>1, TasksAssumption DEF Alive, TaskTable, Ring, Last, Tasks, Lock, IInv, TypeOK
<1>3. /\ UNCHANGED <<ring, ifl, sp, eax, stack, irr, isr, timer_ticks, current_task, ready_queue,
                     next_tid, esp, kstack_bottom, new_task, tss_esp0, tty_lock, ucur, ulast>>
      /\ pc' = "print" /\ next' = [next EXCEPT ![1] = new_task]
      /\ Place' = pc' /\ ~NewTask' /\ Last' = new_task
  BY <1>1, <1>2 DEF task_create_publish, Goto, pic, user, Place, NewTask, Last
<1>4. /\ next \in [Tasks -> Tasks \cup {Wild}] /\ next' \in [Tasks -> Tasks \cup {Wild}]
      /\ next'[1] = new_task /\ \A t \in 2 .. new_task : next'[t] = next[t]
  BY <1>2, <1>3 DEF IInv, TypeOK, Tasks
<1>5. TypeOK'
  BY <1>2, <1>3, <1>4 DEF IInv, TypeOK, KernelPlaces
<1>6. NoLineBlocked' /\ CpuShape' /\ InService' /\ Lock'
  BY <1>1, <1>2, <1>3 DEF NoLineBlocked, CpuShape, InService, Lock, KernelPlaces, Alive
<1>7. TaskTable' /\ Ring'
  <2>1. TaskTable'
    BY <1>1, <1>2, <1>3, TasksAssumption DEF Alive, TaskTable
  <2>2. Ring'
    BY <1>1, <1>2, <1>3, <1>4, TasksAssumption DEF Alive, Ring, Tasks
  <2> QED
    BY <2>1, <2>2
<1>8. Others'
  BY <1>1, <1>3 DEF Alive, Others, Waits
<1> QED
  BY <1>5, <1>6, <1>7, <1>8 DEF IInv, Alive

\* Task 1 prints, or waits for a key.
LEMMA Task1Inv ==
    ASSUME IInv, slack' \subseteq Lines,
           \/ spinlock_acquire("print") \/ spinlock_release("print", AfterPrint)
           \/ shell_getchar
    PROVE  IInv'
<1>1. /\ pc \in KernelPlaces /\ pc' \in {"print", "print_held", "create", "getchar", "halted"}
      /\ UNCHANGED <<ring, ifl, sp, eax, stack, irr, isr, timer_ticks, current_task, ready_queue,
                     next_tid, next, esp, kstack_bottom, new_task, tss_esp0, ucur, ulast>>
      /\ pc \in {"print", "print_held", "getchar"}
      /\ pc' = "create" => next_tid <= NTASKS
      /\ tty_lock' = IF pc' = "print_held" THEN 1 ELSE IF pc = "print_held" THEN 0 ELSE tty_lock
  BY DEF spinlock_acquire, spinlock_release, shell_getchar, Hold, Goto, At, AfterPrint, pic, user,
     tasks, KernelPlaces
<1>2. /\ sp = 1 /\ ring = 0 /\ ifl = TRUE /\ isr = {} /\ stack[1] = << >>
      /\ Place = pc /\ Alive
  BY <1>1, InKernel
<1>3. Place' = pc' /\ ~NewTask /\ ~NewTask' /\ Last' = Last
  BY <1>1, <1>2 DEF Place, NewTask, Last
<1>4. TypeOK'
  BY <1>1 DEF IInv, TypeOK, KernelPlaces
<1>5. NoLineBlocked' /\ CpuShape' /\ InService' /\ Lock'
  BY <1>1, <1>2, <1>3 DEF NoLineBlocked, CpuShape, InService, Lock, KernelPlaces, Alive
<1>6. TaskTable' /\ Ring'
  BY <1>1, <1>2, <1>3 DEF Alive, TaskTable, Ring
<1>7. Others'
  BY <1>1, <1>2 DEF Alive, Others, Waits
<1> QED
  BY <1>4, <1>5, <1>6, <1>7 DEF IInv, Alive

\* While another task has the CPU, task 1 waits behind tasking_init.
LEMMA OtherTask ==
    ASSUME IInv, Alive, sp # 1
    PROVE  /\ sp \in Tasks /\ 1 \in Tasks /\ stack[1] # << >>
           /\ Place = stack[1][1].pc
           /\ Place \notin {"init_alloc", "init_next", "init_queue"}
           /\ ready_queue = 1 /\ next_tid > 2 /\ Last \in 2 .. NTASKS
<1>1. next_tid \in 1 .. NTASKS + 1 /\ sp \in 2 .. Last /\ 1 \in Tasks
  BY TasksAssumption DEF IInv, TypeOK, Alive, CpuShape, Tasks
<1>2. Last \in 2 .. NTASKS /\ next_tid > 2
  BY <1>1, TasksAssumption DEF Last
<1>3. Waits(1)
  BY <1>1, <1>2, TasksAssumption DEF Alive, Others
<1>4. stack[1] # << >>
  BY <1>3, TwoFrames DEF Waits
<1> QED
  BY <1>1, <1>2, <1>4, TasksAssumption DEF Place, Alive, TaskTable, Tasks

\* A trap keeps what it interrupts on the stack of the task that runs.
LEMMA TrapEffect ==
    ASSUME IInv, pc \in KernelPlaces \cup UserPlaces \cup {"halted"},
           NEW handler, NEW frame, Trap(handler, frame)
    PROVE  /\ ring' = 0 /\ ifl' = FALSE /\ sp' = sp /\ sp \in Tasks /\ pc' = handler
           /\ stack' = [stack EXCEPT ![sp] = <<frame>>]
           /\ Alive /\ isr = {}
           /\ pc \in UserPlaces <=> sp # 1
<1>1. CASE pc \in UserPlaces
  <2>1. /\ sp \in 2 .. Last /\ ring = 3 /\ isr = {} /\ tss_esp0 = sp /\ Alive
    BY <1>1, InUser
  <2>2. sp \in Tasks /\ sp # 1
    BY <2>1, OtherTask, 1 \notin 2 .. Last
  <2> QED
    BY <1>1, <2>1, <2>2 DEF Trap
<1>2. CASE pc \in KernelPlaces \cup {"halted"}
  <2>a. /\ sp = 1 /\ ring = 0 /\ isr = {} /\ stack[1] = << >> /\ Alive
    BY <1>2, InKernel
  <2>b. pc \notin UserPlaces
    BY <1>2 DEF KernelPlaces, UserPlaces
  <2>1. /\ sp = 1 /\ ring = 0 /\ isr = {} /\ stack[1] = << >> /\ Alive
        /\ 1 \in Tasks /\ pc \notin UserPlaces
    BY <2>a, <2>b, TasksAssumption DEF Tasks
  <2>2. stack' = [stack EXCEPT ![1] = Append(@, frame)] /\ ring' = 0 /\ ifl' = FALSE
        /\ sp' = 1 /\ pc' = handler
    <3>1. ring # 3 /\ (IF ring = 3 THEN tss_esp0 ELSE sp) = 1
      BY <2>1
    <3> QED
      BY <2>1, <3>1 DEF Trap
  <2>3. stack' = [stack EXCEPT ![1] = <<frame>>]
    BY <2>1, <2>2, OneFrame
  <2> QED
    BY <2>1, <2>2, <2>3
<1> QED
  BY <1>1, <1>2

LEMMA EnterInv ==
    ASSUME IInv, pc \in KernelPlaces \cup UserPlaces \cup {"halted"},
           NEW handler \in {"irq", "syscall"}, NEW frame, Trap(handler, frame),
           frame \in Interrupted(sp), frame.pc = Resume \/ sp # 1,
           handler = "irq" <=> frame.int_no # 128, handler = "syscall" => sp # 1,
           eax' \in 0 .. TICK_MOD, irr' \subseteq Lines, slack' \subseteq Lines,
           isr' = IF handler = "irq" THEN {frame.int_no - 32} ELSE {},
           UNCHANGED <<timer_ticks, tasks, tty_lock, ucur, ulast>>
    PROVE  IInv'
<1>1. /\ ring' = 0 /\ ifl' = FALSE /\ sp' = sp /\ sp \in Tasks /\ pc' = handler
      /\ stack' = [stack EXCEPT ![sp] = <<frame>>]
      /\ Alive /\ isr = {} /\ (pc \in UserPlaces <=> sp # 1)
  BY TrapEffect
<1>2. UNCHANGED <<current_task, ready_queue, next_tid, next, esp, kstack_bottom, new_task,
                  tss_esp0>>
  BY DEF tasks
<1>3. /\ stack \in [Tasks -> Seq(Frames)] /\ stack'[sp] = <<frame>>
      /\ \A t \in Tasks \ {sp} : stack'[t] = stack[t]
      /\ stack'[sp][1] = frame
  BY <1>1, OneFrame DEF IInv, TypeOK
<1>4. stack' \in [Tasks -> Seq(Frames)] /\ \A t \in Tasks : Len(stack'[t]) <= 2
  <2>1. <<frame>> \in Seq(Frames) /\ Len(<<frame>>) = 1
    BY <1>1, InterruptedIsFrame, StackTypes, OneFrame
  <2>2. \A t \in Tasks : Len(stack[t]) <= 2
    BY DEF IInv, TypeOK
  <2> QED
    BY <1>1, <1>3, <2>1, <2>2
<1>5. TypeOK'
  <2>1. frame.int_no - 32 \in Lines \/ handler # "irq"
    BY DEF Interrupted, Lines, TIMER, KEYBOARD
  <2> QED
    BY <1>1, <1>2, <1>4, <2>1 DEF IInv, TypeOK, Handlers
<1>6. /\ pc = "halted" => Place = "halted" /\ Place' = "getchar"
      /\ pc # "halted" => Place' = Place
  <2>1. CASE sp = 1
    <3>1. stack[1] = << >> /\ Place = pc /\ pc \in KernelPlaces \cup {"halted"}
      BY <2>1, <1>1, InKernel
    <3>2. Place' = Resume
      BY <2>1, <1>1, <1>3, OneFrame DEF Place
    <3> QED
      BY <3>1, <3>2 DEF Resume
  <2>2. CASE sp # 1
    <3>1. pc # "halted"
      BY <2>2, <1>1 DEF UserPlaces
    <3>2. 1 \in Tasks \ {sp} /\ stack[1] # << >>
      BY <2>2, <1>1, OtherTask
    <3> QED
      BY <3>1, <3>2, <1>3 DEF Place
  <2> QED
    BY <2>1, <2>2
<1>7. /\ (NewTask' <=> NewTask) /\ Last' = Last
  BY <1>2, <1>6 DEF NewTask, Last
<1>8. NoLineBlocked' /\ InService'
  BY <1>1, <1>3 DEF NoLineBlocked, InService
<1>9. CpuShape'
  BY <1>1, <1>2, <1>3, <1>7 DEF Alive, CpuShape, Handlers
<1>10. TaskTable'
  BY <1>1, <1>2, <1>6 DEF Alive, TaskTable
<1>11. Ring' /\ Lock'
  <2>1. pc # "sys_held"
    BY DEF KernelPlaces, UserPlaces
  <2> QED
    BY <1>1, <1>2, <1>6, <1>7, <2>1 DEF Alive, Ring, Lock
<1>12. Others'
  BY <1>1, <1>2, <1>3 DEF Alive, Others, Waits
<1> QED
  BY <1>5, <1>8, <1>9, <1>10, <1>11, <1>12 DEF IInv, Alive

\* A device interrupts code that runs with IF set.
LEMMA InterruptInv ==
    ASSUME IInv, Interrupt, UNCHANGED slack
    PROVE  IInv'
<1>1. PICK n \in irr : /\ Deliverable(n)
                       /\ Trap("irq", TrapFrame(Resume, 32 + n, eax))
                       /\ irr' = irr \ {n} /\ isr' = isr \cup {n}
  BY DEF Interrupt
<1>2. ifl = TRUE /\ Alive /\ n \in Lines /\ n \in {0, 1}
  BY <1>1 DEF Deliverable, Interrupt, IInv, TypeOK, Lines, TIMER, KEYBOARD
<1>3. pc \in KernelPlaces \cup UserPlaces \cup {"halted"}
  BY <1>2 DEF Alive, CpuShape
<1>4. /\ isr = {} /\ sp \in Tasks /\ (pc \in UserPlaces <=> sp # 1)
  BY <1>1, <1>3, TrapEffect
<1> DEFINE frame == TrapFrame(Resume, 32 + n, eax)
<1>5. frame.pc = Resume /\ frame.int_no = 32 + n
  BY DEF TrapFrame
<1>6. frame \in Interrupted(sp)
  <2>1. Resume \in IF sp = 1 THEN KernelPlaces ELSE UserPlaces
    BY <1>3, <1>4 DEF Resume, KernelPlaces, UserPlaces
  <2>2. ring = IF sp = 1 THEN 0 ELSE 3
    BY <1>3, <1>4, InKernel, InUser
  <2>3. eax \in 0 .. TICK_MOD /\ 32 + n \in {32, 33, 128}
    BY <1>2 DEF IInv, TypeOK
  <2> QED
    BY <2>1, <2>2, <2>3 DEF TrapFrame, Interrupted
<1>7. Trap("irq", frame)
  BY <1>1
<1> HIDE DEF frame
<1>8. /\ eax' = eax /\ eax \in 0 .. TICK_MOD /\ irr' \subseteq Lines /\ slack' \subseteq Lines
      /\ isr' = {frame.int_no - 32} /\ frame.int_no # 128
      /\ UNCHANGED <<timer_ticks, tasks, tty_lock, ucur, ulast>>
  <2>1. /\ irr \subseteq Lines /\ slack \subseteq Lines /\ eax \in 0 .. TICK_MOD
    BY DEF IInv, TypeOK
  <2>2. irr' \subseteq Lines /\ slack' \subseteq Lines
    BY <1>1, <2>1
  <2>3. frame.int_no - 32 = n /\ frame.int_no # 128
    BY <1>2, <1>5
  <2>4. isr' = {n}
    BY <1>1, <1>4
  <2>5. UNCHANGED <<eax, timer_ticks, tasks, tty_lock, ucur, ulast>>
    BY DEF Interrupt, user
  <2> QED
    BY <2>1, <2>2, <2>3, <2>4, <2>5
<1> QED
  BY <1>3, <1>5, <1>6, <1>8, <1>7, EnterInv

\* test_task calls the kernel.
LEMMA int80Inv ==
    ASSUME IInv, slack' \subseteq Lines,
           test_task_ticks \/ test_task_print
    PROVE  IInv'
<1>1. PICK to \in UserPlaces, nr \in {0, 1} :
        /\ pc \in UserPlaces
        /\ eax' = nr
        /\ Trap("syscall", TrapFrame(to, 128, nr))
        /\ UNCHANGED <<pic, timer_ticks, tasks, tty_lock, user>>
  BY DEF test_task_ticks, test_task_print, int80, UserPlaces, At, SYS_GET_TICKS, SYS_PRINTF
<1> DEFINE frame == TrapFrame(to, 128, nr)
<1>2. /\ isr = {} /\ sp \in Tasks /\ sp # 1 /\ ring = 3
  BY <1>1, TrapEffect, InUser
<1>3. frame \in Interrupted(sp) /\ frame.int_no = 128
  BY <1>1, <1>2, TickAssumption DEF TrapFrame, Interrupted
<1>4. /\ eax' \in 0 .. TICK_MOD /\ irr' \subseteq Lines /\ isr' = {}
      /\ UNCHANGED <<timer_ticks, tasks, tty_lock, ucur, ulast>>
  BY <1>1, <1>2, TickAssumption DEF IInv, TypeOK, user, pic
<1>5. Trap("syscall", frame)
  BY <1>1
<1> HIDE DEF frame
<1> QED
  BY <1>1, <1>2, <1>3, <1>4, <1>5, EnterInv

\* switch_to another task of the ring.
LEMMA switch_toInv ==
    ASSUME IInv, pc = "irq", NEW new \in Tasks, new # sp, new = next[current_task],
           current_task # nullptr, switch_to(current_task, new),
           timer_ticks' \in 0 .. TICK_MOD - 1, isr' = {}, slack' \subseteq Lines,
           UNCHANGED <<ring, ifl, eax, irr, ready_queue, next_tid, next, kstack_bottom, new_task,
                       tty_lock, ucur, ulast>>
    PROVE  IInv'
<1> DEFINE f == stack[sp][1]
<1>1. /\ ring = 0 /\ ifl = FALSE /\ Alive /\ f \in Interrupted(sp) /\ stack[sp] = <<f>>
  BY InHandler DEF Handlers
<1>2. /\ stack \in [Tasks -> Seq(Frames)] /\ esp \in [Tasks -> {1, 2, Wild}]
      /\ next \in [Tasks -> Tasks \cup {Wild}] /\ next_tid \in 1 .. NTASKS + 1
  BY DEF IInv, TypeOK
<1>3. /\ sp \in Tasks /\ current_task = sp
  <2>1. Place # "init_alloc"
    BY <1>1 DEF Alive, TaskTable
  <2>2. current_task = sp
    BY <1>1, <2>1 DEF Alive, TaskTable
  <2>3. current_task \in Tasks \cup {nullptr}
    BY DEF IInv, TypeOK
  <2> QED
    BY <2>2, <2>3
<1>4. next_tid > 1 /\ new < next_tid /\ new \in 1 .. Last
  <2>1. next_tid # 1
    BY <1>1, <1>3 DEF Alive, Ring, Tasks, Wild, CpuShape, Last
  <2>2. new \in 1 .. Last
    <3>1. Last \in Nat /\ Last >= 1
      BY <1>1, <1>2, <2>1 DEF Alive, Ring, Last
    <3>2. sp = 1 => new = Last
      BY <1>1, <1>3, <2>1 DEF Alive, Ring
    <3>3. sp # 1 => sp \in 2 .. Last /\ new = sp - 1
      BY <1>1, <1>3 DEF Alive, Ring, CpuShape
    <3> QED
      BY <3>1, <3>2, <3>3
  <2> QED
    BY <1>2, <2>1, <2>2 DEF Last
<1>5. Waits(new)
  BY <1>1, <1>4 DEF Alive, Others
<1> DEFINE old == SwitchFrame("iret")
<1>6. old \in Frames /\ f \in Frames
  BY <1>1, <1>3, InterruptedIsFrame, TickAssumption DEF SwitchFrame, Frames
<1> HIDE DEF f, old
<1>7. /\ current_task' = new /\ tss_esp0' = kstack_bottom[new] /\ sp' = new
      /\ esp' = [esp EXCEPT ![sp] = 2]
  BY <1>1, <1>3, OneFrame DEF switch_to
<1> DEFINE saved == [stack EXCEPT ![sp] = <<f, old>>]
           target == SubSeq(saved[new], 1, esp'[new])
           rest == Pop(target)
<1>8. /\ stack' = [stack EXCEPT ![sp] = <<f, old>>, ![new] = rest]
      /\ pc' = Top(target).pc
      /\ target = SubSeq(stack[new], 1, esp[new])
  <2>1. stack[sp] = <<f>> /\ Append(<<f>>, old) = <<f, old>>
    BY <1>1, TwoFrames DEF f
  <2>2. [stack EXCEPT ![sp] = Append(@, SwitchFrame("iret"))] = saved
    BY <2>1 DEF old
  <2>3. stack' = [saved EXCEPT ![new] = Pop(target)] /\ pc' = Top(target).pc
    BY <1>3, <2>2 DEF switch_to
  <2>4. target = SubSeq(stack[new], 1, esp[new])
    BY <1>2, <1>3, <1>7
  <2> QED
    BY <2>3, <2>4
<1> HIDE DEF saved, target, rest
<1>9. /\ rest \in Seq(Frames) /\ Len(rest) <= 2
      /\ \/ new # 1 /\ rest = << >> /\ pc' = "proxy"
         \/ /\ pc' = "iret"
            /\ \E g \in Interrupted(new) : rest = <<g>> /\ stack[new] = <<g, old>>
  <2>1. CASE new # 1 /\ esp[new] = 1 /\ stack[new] = <<SwitchFrame("proxy")>>
    <3>1. target = <<SwitchFrame("proxy")>>
      BY <1>8, <2>1, OneFrame
    <3>2. rest = << >> /\ pc' = "proxy"
      <4>1. rest = << >> /\ Top(target) = SwitchFrame("proxy")
        BY <3>1, OneFrame DEF rest
      <4>2. SwitchFrame("proxy").pc = "proxy"
        BY DEF SwitchFrame
      <4> QED
        BY <1>8, <4>1, <4>2
    <3>3. << >> \in Seq(Frames) /\ Len(<< >>) = 0
      OBVIOUS
    <3> QED
      BY <2>1, <3>2, <3>3
  <2>2. ASSUME NEW g \in Interrupted(new), esp[new] = 2, stack[new] = <<g, old>>
        PROVE  rest = <<g>> /\ rest \in Seq(Frames) /\ Len(rest) <= 2 /\ pc' = "iret"
    <3>1. target = SubSeq(<<g, old>>, 1, 2)
      BY <1>8, <2>2
    <3>2. target = <<g, old>>
      BY <3>1, TwoFrames
    <3>3. rest = <<g>> /\ Top(target) = old
      BY <3>2, TwoFrames DEF rest
    <3>4. old.pc = "iret"
      BY DEF old, SwitchFrame
    <3>5. <<g>> \in Seq(Frames) /\ Len(<<g>>) = 1
      BY InterruptedIsFrame, StackTypes, OneFrame
    <3> QED
      BY <1>8, <3>3, <3>4, <3>5
  <2> QED
    BY <1>5, <2>1, <2>2 DEF Waits, old
<1>10. /\ stack'[sp] = <<f, old>> /\ stack'[new] = rest
       /\ \A t \in Tasks \ {sp, new} : stack'[t] = stack[t] /\ esp'[t] = esp[t]
       /\ esp'[sp] = 2 /\ 1 \in Tasks
  BY <1>2, <1>3, <1>7, <1>8, TasksAssumption DEF Tasks
<1>11. stack' \in [Tasks -> Seq(Frames)] /\ \A t \in Tasks : Len(stack'[t]) <= 2
  <2>1. <<f, old>> \in Seq(Frames) /\ Len(<<f, old>>) = 2
    BY <1>6, StackTypes, TwoFrames
  <2>2. \A t \in Tasks : Len(stack[t]) <= 2
    BY DEF IInv, TypeOK
  <2>3. stack' \in [Tasks -> Seq(Frames)]
    BY <1>2, <1>3, <1>8, <1>9, <2>1
  <2> QED
    <3>1. \A t \in Tasks : t = sp \/ t = new \/ t \in Tasks \ {sp, new}
      OBVIOUS
    <3>2. Len(stack'[sp]) <= 2 /\ Len(stack'[new]) <= 2
      BY <1>9, <1>10, <2>1
    <3> QED
      BY <1>10, <2>2, <2>3, <3>1, <3>2
<1>12a. TypeOK'
  <2>1. esp' \in [Tasks -> {1, 2, Wild}] /\ kstack_bottom[new] \in Tasks \cup {Wild}
    BY <1>2, <1>3, <1>7 DEF IInv, TypeOK
  <2>2. TypeOK
    BY DEF IInv
  <2>3. pc' \in Handlers \cup {"proxy"}
    BY <1>9 DEF Handlers
  <2>4. /\ tss_esp0' \in Tasks \cup {Wild} /\ sp' \in Tasks
        /\ {current_task', ready_queue', new_task'} \subseteq Tasks \cup {nullptr}
    BY <1>7, <2>1, <2>2 DEF TypeOK
  <2> QED
    BY <1>11, <2>1, <2>2, <2>3, <2>4 DEF TypeOK
<1>12. Place' = Place
  <2>1. CASE sp = 1
    <3>1. stack[1] = <<f>> /\ stack'[1] = <<f, old>>
      BY <2>1, <1>1, <1>10 DEF f
    <3>2. stack[1] # << >> /\ stack'[1] # << >> /\ stack[1][1] = stack'[1][1]
      BY <3>1, OneFrame, TwoFrames
    <3> QED
      BY <3>2 DEF Place
  <2>2. CASE new = 1
    <3>1. PICK g : stack'[1] = <<g>> /\ stack[1] = <<g, old>>
      BY <2>2, <1>9, <1>10
    <3>2. stack[1] # << >> /\ stack'[1] # << >> /\ stack[1][1] = stack'[1][1]
      BY <3>1, OneFrame, TwoFrames
    <3> QED
      BY <3>2 DEF Place
  <2>3. CASE sp # 1 /\ new # 1
    <3>1. stack'[1] = stack[1] /\ stack[1] # << >>
      BY <2>3, <1>1, <1>10, OtherTask
    <3> QED
      BY <3>1 DEF Place
  <2> QED
    BY <2>1, <2>2, <2>3
<1>13. (NewTask' <=> NewTask) /\ Last' = Last
  BY <1>12 DEF NewTask, Last
<1>14. NoLineBlocked' /\ InService'
  BY <1>1, <1>9 DEF NoLineBlocked, InService
<1>15. CpuShape'
  <2>1. new # 1 => new \in 2 .. Last /\ kstack_bottom[new] = new
    BY <1>1, <1>4, <1>2 DEF Alive, TaskTable
  <2> QED
    BY <1>1, <1>7, <1>9, <1>10, <1>13, <2>1 DEF CpuShape, Handlers
<1>16. TaskTable'
  BY <1>1, <1>3, <1>7, <1>12 DEF Alive, TaskTable
<1>17. Ring' /\ Lock'
  BY <1>1, <1>9, <1>12, <1>13 DEF Alive, Ring, Lock
<1>18. Others'
  <2> SUFFICES ASSUME NEW t \in Tasks \ {new}
               PROVE  IF t < next_tid THEN Waits(t)' ELSE stack'[t] = << >> /\ esp'[t] = Wild
    BY <1>7 DEF Others
  <2>1. CASE t = sp
    <3>1. sp < next_tid
      BY <1>1, <1>2, <1>4 DEF Alive, CpuShape, Last
    <3> QED
      BY <2>1, <3>1, <1>1, <1>10 DEF Waits, old
  <2>2. CASE t # sp
    BY <2>2, <1>1, <1>10 DEF Alive, Others, Waits
  <2> QED
    BY <2>1, <2>2
<1> QED
  BY <1>12a, <1>14, <1>15, <1>16, <1>17, <1>18 DEF IInv, Alive

\* irq_handler, on every path through schedule.
LEMMA irq_handlerInv ==
    ASSUME IInv, irq_handler, UNCHANGED slack
    PROVE  IInv'
<1> DEFINE f == stack[sp][1]
<1>1. /\ pc = "irq" /\ ring = 0 /\ ifl = FALSE /\ Alive /\ f \in Interrupted(sp)
      /\ stack[sp] = <<f>> /\ Top(stack[sp]) = f
  BY InHandler DEF irq_handler, At, Handlers
<1> HIDE DEF f
<1>2. isr = {f.int_no - 32}
  BY <1>1 DEF Alive, InService, f
<1>3. /\ isr' = {} /\ slack' \subseteq Lines /\ timer_ticks' \in 0 .. TICK_MOD - 1
      /\ UNCHANGED <<ring, ifl, eax, irr, ready_queue, next_tid, next, kstack_bottom, new_task,
                     tty_lock, ucur, ulast>>
  <2>1. timer_ticks' \in 0 .. TICK_MOD - 1
    <3>1. timer_ticks \in 0 .. TICK_MOD - 1
      BY DEF IInv, TypeOK
    <3>2. (timer_ticks + 1) % TICK_MOD \in 0 .. TICK_MOD - 1
      BY <3>1, TickAssumption
    <3>3. timer_ticks' = timer_ticks \/ timer_ticks' = (timer_ticks + 1) % TICK_MOD
      BY DEF irq_handler
    <3> QED
      BY <3>1, <3>2, <3>3
  <2>2. isr' = {}
    BY <1>1, <1>2 DEF irq_handler
  <2>3. slack' \subseteq Lines
    BY DEF IInv, TypeOK
  <2> QED
    BY <2>1, <2>2, <2>3 DEF irq_handler, user
<1>4. \/ pc' = "iret" /\ UNCHANGED <<sp, stack, current_task, esp, tss_esp0>>
      \/ pc' = "wild" /\ UNCHANGED <<sp, stack, current_task, esp, tss_esp0>>
      \/ /\ current_task # nullptr /\ next[current_task] \in Tasks
         /\ next[current_task] # current_task
         /\ switch_to(current_task, next[current_task])
  BY DEF irq_handler, schedule
<1>5. CASE pc' = "iret" /\ UNCHANGED <<sp, stack, current_task, esp, tss_esp0>>
  <2>1. TypeOK'
    BY <1>3, <1>5 DEF IInv, TypeOK, Handlers
  <2>2. Place' = Place
    BY <1>1, <1>5, OneFrame, OtherTask DEF Place
  <2>3. (NewTask' <=> NewTask) /\ Last' = Last
    BY <1>3, <2>2 DEF NewTask, Last
  <2>4. NoLineBlocked' /\ CpuShape' /\ InService'
    BY <1>1, <1>3, <1>5, <2>3 DEF NoLineBlocked, CpuShape, InService, Alive, Handlers,
       KernelPlaces, UserPlaces
  <2>5. Others' /\ TaskTable' /\ Ring' /\ Lock'
    BY <1>1, <1>3, <1>5, <2>2, <2>3 DEF Alive, Others, Waits, TaskTable, Ring, Lock
  <2> QED
    BY <2>1, <2>4, <2>5 DEF IInv, Alive
<1>6. CASE pc' = "wild" /\ UNCHANGED <<sp, stack, current_task, esp, tss_esp0>>
  <2>1. TypeOK'
    BY <1>3, <1>6 DEF IInv, TypeOK
  <2> QED
    BY <1>3, <1>6, <2>1 DEF IInv, NoLineBlocked
<1>7. CASE /\ current_task # nullptr /\ next[current_task] \in Tasks
           /\ next[current_task] # current_task
           /\ switch_to(current_task, next[current_task])
  <2>1. current_task = sp
    BY <1>1, <1>7 DEF Alive, TaskTable
  <2> QED
    BY <1>1, <1>3, <1>7, <2>1, switch_toInv
<1> QED
  BY <1>4, <1>5, <1>6, <1>7

\* The end of the stubs goes back to the code that was interrupted.
LEMMA iretInv ==
    ASSUME IInv, iret, UNCHANGED slack
    PROVE  IInv'
<1> DEFINE f == stack[sp][1]
<1>1. /\ pc = "iret" /\ ring = 0 /\ ifl = FALSE /\ Alive /\ f \in Interrupted(sp)
      /\ stack[sp] = <<f>> /\ Top(stack[sp]) = f
  BY InHandler DEF iret, At, Handlers
<1>2. Pop(stack[sp]) = << >> /\ f.sp = sp
  BY <1>1, OneFrame DEF Interrupted
<1>3. /\ stack \in [Tasks -> Seq(Frames)] /\ sp \in Tasks
  <2>1. 1 \in Tasks
    BY TasksAssumption DEF Tasks
  <2> QED
    BY <1>1, <2>1, OtherTask DEF IInv, TypeOK
<1>4. /\ stack' = [stack EXCEPT ![sp] = << >>]
      /\ pc' = f.pc /\ ring' = f.ring /\ sp' = sp /\ eax' = f.eax /\ ifl' = TRUE
      /\ UNCHANGED <<irr, isr, timer_ticks, current_task, ready_queue, next_tid, next, esp,
                     kstack_bottom, new_task, tss_esp0, tty_lock, ucur, ulast, slack>>
  BY <1>1, <1>2 DEF iret, pic, tasks, user
<1>5. /\ sp = 1 => f.pc \in KernelPlaces /\ f.ring = 0
      /\ sp # 1 => f.pc \in UserPlaces /\ f.ring = 3
      /\ f.eax \in 0 .. TICK_MOD
  BY <1>1 DEF Interrupted
<1>6. Place' = Place
  <2>1. CASE sp = 1
    BY <2>1, <1>1, <1>3, <1>4, OneFrame DEF Place
  <2>2. CASE sp # 1
    <3>1. 1 \in Tasks \ {sp} /\ stack[1] # << >>
      BY <2>2, <1>1, OtherTask
    <3> QED
      BY <3>1, <1>3, <1>4 DEF Place
  <2> QED
    BY <2>1, <2>2
<1> HIDE DEF f
<1>7. (NewTask' <=> NewTask) /\ Last' = Last /\ stack'[sp] = << >>
      /\ \A t \in Tasks \ {sp} : stack'[t] = stack[t]
  BY <1>3, <1>4, <1>6 DEF NewTask, Last
<1>8. TypeOK'
  <2>1. stack' \in [Tasks -> Seq(Frames)] /\ \A t \in Tasks : Len(stack'[t]) <= 2
    <3>1. << >> \in Seq(Frames) /\ Len(<< >>) = 0
      OBVIOUS
    <3>2. \A t \in Tasks : Len(stack[t]) <= 2
      BY DEF IInv, TypeOK
    <3> QED
      BY <1>3, <1>4, <1>7, <3>1, <3>2
  <2> QED
    BY <1>3, <1>4, <1>5, <2>1 DEF IInv, TypeOK
<1>9. NoLineBlocked' /\ InService'
  BY <1>1, <1>4, <1>5 DEF NoLineBlocked, InService, Alive, KernelPlaces, UserPlaces
<1>10. CpuShape'
  BY <1>1, <1>4, <1>5, <1>7 DEF Alive, CpuShape
<1>11. TaskTable' /\ Ring'
  BY <1>1, <1>4, <1>6, <1>7 DEF Alive, TaskTable, Ring
<1>12. Lock'
  BY <1>1, <1>4, <1>5, <1>6 DEF Alive, Lock, KernelPlaces, UserPlaces
<1>13. Others'
  BY <1>1, <1>4, <1>7 DEF Alive, Others, Waits
<1> QED
  BY <1>8, <1>9, <1>10, <1>11, <1>12, <1>13 DEF IInv, Alive

\* Ring 3, and the way to it.
LEMMA UserInv ==
    ASSUME IInv, user_mode_proxy \/ test_task_test \/ test_task_done, slack' \subseteq Lines
    PROVE  IInv'
<1>1. /\ pc \in UserPlaces \cup {"proxy"} /\ pc' \in UserPlaces /\ ring' = 3 /\ ifl' = TRUE
      /\ UNCHANGED <<sp, eax, stack, irr, isr, timer_ticks, current_task, ready_queue, next_tid,
                     next, esp, kstack_bottom, new_task, tss_esp0, tty_lock>>
  <2>1. CASE user_mode_proxy
    BY <2>1 DEF user_mode_proxy, At, pic, tasks, UserPlaces
  <2>2. CASE test_task_test \/ test_task_done
    <3>1. pc \in UserPlaces /\ ring = 3 /\ ifl = TRUE
      BY <2>2, InUser DEF test_task_test, test_task_done, Goto, At, UserPlaces
    <3> QED
      BY <2>2, <3>1 DEF test_task_test, test_task_done, Goto, At, pic, tasks, UserPlaces
  <2> QED
    BY <2>1, <2>2
<1>2. /\ Alive /\ sp # 1 /\ sp \in 2 .. Last /\ stack[sp] = << >> /\ isr = {} /\ tss_esp0 = sp
  BY <1>1 DEF IInv, Alive, CpuShape, InService, KernelPlaces, UserPlaces, Handlers
<1>3. /\ sp \in Tasks /\ Place' = Place
  BY <1>1, <1>2, OtherTask DEF Place
<1>4. (NewTask' <=> NewTask) /\ Last' = Last
  BY <1>1, <1>3 DEF NewTask, Last
<1>5. TypeOK'
  <2>1. ucur' \in [Tasks -> 0 .. TICK_MOD] /\ ulast' \in [Tasks -> 0 .. TICK_MOD]
    BY <1>3 DEF IInv, TypeOK, user_mode_proxy, test_task_test, test_task_done, user
  <2> QED
    BY <1>1, <2>1 DEF IInv, TypeOK
<1>6. NoLineBlocked' /\ CpuShape' /\ InService'
  BY <1>1, <1>2, <1>4 DEF NoLineBlocked, CpuShape, InService, UserPlaces
<1>7. TaskTable' /\ Ring'
  BY <1>1, <1>2, <1>3, <1>4 DEF Alive, TaskTable, Ring
<1>8. Lock'
  BY <1>1, <1>2, <1>3 DEF Alive, Lock, UserPlaces
<1>9. Others'
  BY <1>1, <1>2 DEF Alive, Others, Waits
<1> QED
  BY <1>5, <1>6, <1>7, <1>8, <1>9 DEF IInv, Alive

\* A system call stays on the stack of its caller and changes EAX in its frame only.
LEMMA syscallInv ==
    ASSUME IInv, slack' \subseteq Lines,
           \/ syscall_handler \/ spinlock_acquire("sys_print")
           \/ spinlock_release("sys_print", "iret")
    PROVE  IInv'
<1> DEFINE f == stack[sp][1]
<1>1. pc \in {"syscall", "sys_print", "sys_held"}
  BY DEF syscall_handler, spinlock_acquire, spinlock_release, Goto, At, Hold
<1>2. /\ ring = 0 /\ ifl = FALSE /\ Alive /\ f \in Interrupted(sp) /\ stack[sp] = <<f>>
      /\ Top(stack[sp]) = f /\ Len(stack[sp]) = 1 /\ sp # 1
  BY <1>1, InHandler, OneFrame DEF Handlers
<1>3. /\ isr = {} /\ sp \in Tasks /\ 1 \in Tasks \ {sp} /\ stack[1] # << >>
      /\ stack \in [Tasks -> Seq(Frames)]
  BY <1>1, <1>2, OtherTask DEF Alive, InService, IInv, TypeOK
<1>4. /\ pc' \in {"sys_print", "sys_held", "iret"}
      /\ UNCHANGED <<ring, ifl, sp, eax, irr, isr, timer_ticks, current_task, ready_queue, next_tid,
                     next, esp, kstack_bottom, new_task, tss_esp0, ucur, ulast>>
      /\ pc' = "sys_held" => tty_lock = 0 /\ tty_lock' = 1
      /\ pc' # "sys_held" => tty_lock' = IF pc = "sys_held" THEN 0 ELSE tty_lock
  BY DEF syscall_handler, spinlock_acquire, spinlock_release, Goto, At, Hold, pic, tasks, user
<1>5. PICK g \in Interrupted(sp) : stack' = [stack EXCEPT ![sp] = <<g>>]
  <2>1. CASE syscall_handler
    <3>1. PICK result \in 0 .. TICK_MOD : stack' = [stack EXCEPT ![sp][1].eax = result]
      <4>1. f.eax \in 0 .. TICK_MOD /\ timer_ticks \in 0 .. TICK_MOD
        <5>1. f.eax \in 0 .. TICK_MOD
          BY <1>2 DEF Interrupted
        <5>2. timer_ticks \in 0 .. TICK_MOD - 1
          BY DEF IInv, TypeOK
        <5> QED
          BY <5>1, <5>2, TickAssumption
      <4> QED
        BY <1>2, <2>1, <4>1 DEF syscall_handler, Regs
    <3>2. [f EXCEPT !.eax = result] \in Interrupted(sp)
      BY <1>2 DEF Interrupted
    <3>3. [stack[sp] EXCEPT ![1].eax = result] = <<[f EXCEPT !.eax = result]>>
      BY <1>2
    <3>4. stack' = [stack EXCEPT ![sp] = <<[f EXCEPT !.eax = result]>>]
      BY <3>1, <3>3
    <3> QED
      BY <3>2, <3>4
  <2>2. CASE spinlock_acquire("sys_print") \/ spinlock_release("sys_print", "iret")
    <3>1. stack' = [stack EXCEPT ![sp] = <<f>>]
      BY <1>2, <1>3, <2>2 DEF spinlock_acquire, spinlock_release
    <3> QED
      BY <1>2, <3>1
  <2> QED
    BY <2>1, <2>2
<1> HIDE DEF f
<1>6. /\ stack'[sp] = <<g>> /\ \A t \in Tasks \ {sp} : stack'[t] = stack[t]
      /\ Place' = Place
  BY <1>3, <1>5 DEF Place
<1>7. (NewTask' <=> NewTask) /\ Last' = Last
  BY <1>4, <1>6 DEF NewTask, Last
<1>8. TypeOK'
  <2>1. stack' \in [Tasks -> Seq(Frames)] /\ \A t \in Tasks : Len(stack'[t]) <= 2
    <3>1. <<g>> \in Seq(Frames) /\ Len(<<g>>) = 1
      BY <1>3, InterruptedIsFrame, StackTypes, OneFrame
    <3>2. \A t \in Tasks : Len(stack[t]) <= 2
      BY DEF IInv, TypeOK
    <3> QED
      BY <1>3, <1>5, <1>6, <3>1, <3>2
  <2> QED
    BY <1>4, <2>1 DEF IInv, TypeOK, Handlers
<1>9. NoLineBlocked' /\ InService'
  BY <1>2, <1>3, <1>4 DEF NoLineBlocked, InService
<1>10. CpuShape'
  BY <1>2, <1>4, <1>5, <1>6, <1>7 DEF Alive, CpuShape, Handlers
<1>11. TaskTable' /\ Ring'
  BY <1>2, <1>4, <1>6, <1>7 DEF Alive, TaskTable, Ring
<1>12. Lock'
  BY <1>2, <1>4, <1>6 DEF Alive, Lock
<1>13. Others'
  BY <1>2, <1>4, <1>6 DEF Alive, Others, Waits
<1> QED
  BY <1>8, <1>9, <1>10, <1>11, <1>12, <1>13 DEF IInv, Alive

\* A step that leaves the machine alone.
LEMMA machineInv ==
    ASSUME IInv, UNCHANGED <<cpu, stack, isr, timer_ticks, tasks, tty_lock, user>>,
           irr' \subseteq Lines, slack' \subseteq Lines
    PROVE  IInv'
<1>1. UNCHANGED <<pc, ring, ifl, sp, eax, stack, isr, timer_ticks, current_task, ready_queue,
                  next_tid, next, esp, kstack_bottom, new_task, tss_esp0, tty_lock, ucur, ulast>>
  BY DEF cpu, tasks, user
<1>2. TypeOK' /\ NoLineBlocked'
  BY <1>1 DEF IInv, TypeOK, NoLineBlocked
<1>3. Place' = Place /\ (NewTask' <=> NewTask) /\ Last' = Last
  BY <1>1 DEF Place, NewTask, Last
<1>4. Alive => Alive'
  BY <1>1, <1>3 DEF Alive, CpuShape, InService, Others, Waits, TaskTable, Ring, Lock
<1> QED
  BY <1>1, <1>2, <1>4 DEF IInv
----------------------------------------------------------------------------
(* The inductive invariant, and what follows from it *)

LEMMA InstructionInv ==
    ASSUME IInv, Instruction, slack' \subseteq Lines
    PROVE  IInv'
<1>1. ASSUME NEW who \in {"print", "sys_print"}, spinlock_acquire(who) \/ spin(who)
      PROVE  IInv'
  <2>1. CASE spinlock_acquire(who)
    BY <1>1, <2>1, Task1Inv, syscallInv
  <2>2. CASE spin(who)
    <3>1. UNCHANGED <<cpu, stack, irr, isr, timer_ticks, tasks, tty_lock, user>>
      BY <2>2 DEF spin, machine, pic
    <3>2. irr' \subseteq Lines
      BY <3>1 DEF IInv, TypeOK
    <3> QED
      BY <3>1, <3>2, machineInv
  <2> QED
    BY <1>1, <2>1, <2>2
<1>2. CASE runaway
  <2>1. UNCHANGED <<cpu, stack, irr, isr, timer_ticks, tasks, tty_lock, user>>
    BY <1>2 DEF runaway, machine, pic
  <2>2. irr' \subseteq Lines
    BY <2>1 DEF IInv, TypeOK
  <2> QED
    BY <2>1, <2>2, machineInv
<1>3. CASE tasking_init_alloc \/ tasking_init_next \/ tasking_init_queue
  BY <1>3, tasking_init_allocInv, tasking_init_nextInv, tasking_init_queueInv
<1>4. CASE task_create_alloc \/ task_create_link \/ task_create_publish
  BY <1>4, task_create_allocInv, task_create_linkInv, task_create_publishInv
<1>5. CASE spinlock_release("print", AfterPrint) \/ shell_getchar
  BY <1>5, Task1Inv
<1>6. CASE spinlock_release("sys_print", "iret") \/ syscall_handler
  BY <1>6, syscallInv
<1>7. CASE user_mode_proxy \/ test_task_test \/ test_task_done
  BY <1>7, UserInv
<1>8. CASE test_task_ticks \/ test_task_print
  BY <1>8, int80Inv
<1> QED
  BY <1>1, <1>2, <1>3, <1>4, <1>5, <1>6, <1>7, <1>8 DEF Instruction

\* IInv holds in every reachable state: a step of the CPU or of a device keeps it.
THEOREM Inductive == Spec => []IInv
<1>1. Init => IInv
  BY InitInv
<1>2. IInv /\ [Next]_vars => IInv'
  <2> SUFFICES ASSUME IInv, [Next]_vars
               PROVE  IInv'
    OBVIOUS
  <2>t. irr \subseteq Lines /\ slack \subseteq Lines
    BY DEF IInv, TypeOK
  <2>1. CASE Interrupt /\ UNCHANGED slack
    BY <2>1, InterruptInv
  <2>2. CASE irq_handler /\ UNCHANGED slack
    BY <2>2, irq_handlerInv
  <2>3. CASE iret /\ UNCHANGED slack
    BY <2>3, iretInv
  <2>4. CASE Instruction /\ slack' = IF ifl THEN Lines ELSE slack
    <3>1. slack' \subseteq Lines
      BY <2>t, <2>4
    <3> QED
      BY <2>4, <3>1, InstructionInv
  <2>5. ASSUME NEW n \in Lines, Raise(n)
        PROVE  IInv'
    <3>1. irr' \subseteq Lines /\ slack' \subseteq Lines
      BY <2>t, <2>5 DEF Raise
    <3> QED
      BY <2>5, <3>1, machineInv DEF Raise
  <2>6. CASE UNCHANGED vars
    <3>1. UNCHANGED <<cpu, stack, irr, isr, timer_ticks, tasks, tty_lock, user, slack>>
      BY <2>6 DEF vars, machine, pic
    <3>2. irr' \subseteq Lines /\ slack' \subseteq Lines
      BY <2>t, <3>1
    <3> QED
      BY <3>1, <3>2, machineInv
  <2> QED
    BY <2>1, <2>2, <2>3, <2>4, <2>5, <2>6 DEF Next, Cpu, Lines
<1> QED
  BY <1>1, <1>2, PTL DEF Spec

\* Every variable has its type, and no stack holds more than two frames: neither an
\* interrupt nor a task switch nests deeper, however long the system runs.
THEOREM TypeCorrect == Spec => []TypeOK
<1>1. IInv => TypeOK
  BY DEF IInv
<1> QED
  BY <1>1, Inductive, PTL

\* Whenever interrupts are enabled every end of interrupt has been sent.
THEOREM NoLineBlockedCorrect == Spec => []NoLineBlocked
<1>1. IInv => NoLineBlocked
  BY DEF IInv
<1> QED
  BY <1>1, Inductive, PTL

\* The CPU is on the stack of current_task, and ring 3 enters the kernel on it.
THEOREM OwnStackCorrect == Spec => []OwnStack
<1>1. IInv => OwnStack
  <2> SUFFICES ASSUME IInv, pc # "wild", current_task # nullptr
               PROVE  sp = current_task /\ (ring = 3 => tss_esp0 = current_task)
    BY DEF OwnStack
  <2>1. Alive /\ sp = current_task
    BY DEF IInv, Alive, TaskTable
  <2>2. ring = 3 => sp # 1
    BY <2>1 DEF Alive, CpuShape
  <2> QED
    BY <2>1, <2>2 DEF Alive, CpuShape
<1> QED
  BY <1>1, Inductive, PTL

\* A task that waits finds its own interrupt frame under the frame of switch_to.
THEOREM WaitingTasksIntactCorrect == Spec => []WaitingTasksIntact
<1>1. IInv => WaitingTasksIntact
  <2> SUFFICES ASSUME IInv, pc # "wild", NEW t \in Tasks \ {current_task}, esp[t] # Wild
               PROVE  /\ esp[t] = Len(stack[t])
                      /\ \/ esp[t] = 1 /\ stack[t][1].pc = "proxy"
                         \/ /\ esp[t] = 2
                            /\ stack[t][2] = SwitchFrame("iret")
                            /\ stack[t][1].sp = t
                            /\ stack[t][1].ring = IF t = 1 THEN 0 ELSE 3
    BY DEF WaitingTasksIntact
  <2>1. Alive /\ t # sp
    BY DEF IInv, Alive, TaskTable
  <2>2. Waits(t)
    BY <2>1 DEF Alive, Others
  <2>3. CASE esp[t] = 1 /\ stack[t] = <<SwitchFrame("proxy")>>
    <3>1. Len(stack[t]) = 1 /\ stack[t][1] = SwitchFrame("proxy")
      BY <2>3, OneFrame
    <3> QED
      BY <2>3, <3>1 DEF SwitchFrame
  <2>4. ASSUME esp[t] = 2, NEW f \in Interrupted(t), stack[t] = <<f, SwitchFrame("iret")>>
        PROVE  /\ esp[t] = Len(stack[t]) /\ esp[t] = 2
               /\ stack[t][2] = SwitchFrame("iret") /\ stack[t][1].sp = t
               /\ stack[t][1].ring = IF t = 1 THEN 0 ELSE 3
    <3>1. Len(stack[t]) = 2 /\ stack[t][1] = f /\ stack[t][2] = SwitchFrame("iret")
      BY <2>4, TwoFrames
    <3> QED
      BY <2>4, <3>1 DEF Interrupted
  <2> QED
    BY <2>2, <2>3, <2>4 DEF Waits
<1> QED
  BY <1>1, Inductive, PTL

\* Task 1 holds the lock between its own acquire and release, any other task only in
\* a system call that is running.
LEMMA HolderIs ==
    ASSUME IInv, Alive, NEW t \in Tasks
    PROVE  t \in Holders <=> IF t = 1 THEN Place = "print_held" ELSE sp = t /\ pc = "sys_held"
<1> DEFINE Held == {"print_held", "sys_held"}
           Own == IF sp = t THEN {pc} ELSE {}
<1>1. t \in Holders <=> ({stack[t][k].pc : k \in 1 .. Len(stack[t])} \cup Own) \cap Held # {}
  BY DEF Holders, Places
<1> HIDE DEF Own
<1>2. CASE stack[t] = << >>
  <2>1. {stack[t][k].pc : k \in 1 .. Len(stack[t])} = {}
    BY <1>2
  <2>2. t \in Holders <=> sp = t /\ pc \in Held
    BY <1>1, <2>1 DEF Own
  <2>3. t = 1 => Place = pc /\ sp = 1
    <3>1. sp # 1 => stack[1] # << >>
      BY OtherTask
    <3> QED
      BY <1>2, <3>1 DEF Place
  <2>4. sp = t => (pc = "sys_held" => t # 1) /\ (pc = "print_held" => t = 1)
    <3>1. ASSUME sp = t, pc = "sys_held" PROVE t # 1
      BY <3>1, InHandler DEF Handlers
    <3>2. ASSUME sp = t, pc = "print_held" PROVE t = 1
      BY <3>2, InKernel DEF KernelPlaces
    <3> QED
      BY <3>1, <3>2
  <2> QED
    BY <2>2, <2>3, <2>4
<1>3. ASSUME NEW f, f.pc \in KernelPlaces \cup UserPlaces \cup {"proxy"},
             t = 1 => f.pc \in KernelPlaces, t # 1 => f.pc \notin KernelPlaces,
             stack[t] = <<f>> \/ stack[t] = <<f, SwitchFrame("iret")>>
      PROVE  t \in Holders <=> IF t = 1 THEN Place = "print_held" ELSE sp = t /\ pc = "sys_held"
  <2>1. /\ f.pc # "sys_held" /\ SwitchFrame("iret").pc = "iret"
        /\ t # 1 => f.pc # "print_held"
    BY <1>3 DEF KernelPlaces, UserPlaces, SwitchFrame
  <2>2. {stack[t][k].pc : k \in 1 .. Len(stack[t])} \in {{f.pc}, {f.pc, "iret"}}
    <3>1. CASE stack[t] = <<f>>
      <4>1. 1 .. Len(stack[t]) = {1} /\ stack[t][1] = f
        BY <3>1, OneFrame
      <4> QED
        BY <4>1
    <3>2. CASE stack[t] = <<f, SwitchFrame("iret")>>
      <4>1. 1 .. Len(stack[t]) = {1, 2} /\ stack[t][1] = f /\ stack[t][2] = SwitchFrame("iret")
        BY <3>2, TwoFrames
      <4> QED
        BY <2>1, <4>1
    <3> QED
      BY <1>3, <3>1, <3>2
  <2>3. t \in Holders <=> f.pc = "print_held" \/ (sp = t /\ pc \in Held)
    BY <1>1, <2>1, <2>2 DEF Own
  <2>4. t = 1 => Place = f.pc
    BY <1>3, OneFrame, TwoFrames DEF Place
  <2>5. sp = t => pc # "print_held"
    <3>1. stack[t] # << >>
      BY <1>3, OneFrame, TwoFrames
    <3> QED
      BY <3>1, InKernel DEF KernelPlaces
  <2>6. sp = t /\ pc = "sys_held" => t # 1
    BY InHandler DEF Handlers
  <2> QED
    BY <2>1, <2>3, <2>4, <2>5, <2>6
<1>4. CASE stack[t] # << >>
  <2>1. CASE t = sp
    <3>1. PICK f \in Interrupted(t) : stack[t] = <<f>>
      BY <1>4, <2>1 DEF Alive, CpuShape
    <3>2. f.pc \in IF t = 1 THEN KernelPlaces ELSE UserPlaces
      BY <3>1 DEF Interrupted
    <3> QED
      BY <3>1, <3>2, <1>3 DEF KernelPlaces, UserPlaces
  <2>2. CASE t # sp
    <3>1. Waits(t)
      BY <1>4, <2>2 DEF Alive, Others
    <3>2. CASE t # 1 /\ stack[t] = <<SwitchFrame("proxy")>>
      <4>1. SwitchFrame("proxy").pc = "proxy"
        BY DEF SwitchFrame
      <4> QED
        BY <3>2, <4>1, <1>3 DEF KernelPlaces
    <3>3. ASSUME NEW f \in Interrupted(t), stack[t] = <<f, SwitchFrame("iret")>>
          PROVE  t \in Holders <=> IF t = 1 THEN Place = "print_held" ELSE sp = t /\ pc = "sys_held"
      <4>1. f.pc \in IF t = 1 THEN KernelPlaces ELSE UserPlaces
        BY <3>3 DEF Interrupted
      <4> QED
        BY <3>3, <4>1, <1>3 DEF KernelPlaces, UserPlaces
    <3> QED
      BY <3>1, <3>2, <3>3 DEF Waits
  <2> QED
    BY <2>1, <2>2
<1> QED
  BY <1>2, <1>4

\* At most one task is between spinlock_acquire and spinlock_release, and the lock
\* is taken exactly then, whatever is preempted or interrupted.
THEOREM LockExclusiveCorrect == Spec => []LockExclusive
<1>1. IInv => LockExclusive
  <2> SUFFICES ASSUME IInv, pc # "wild"
               PROVE  Cardinality(Holders) <= 1 /\ (tty_lock = 1 <=> Holders # {})
    BY DEF LockExclusive
  <2>1. Alive /\ 1 \in Tasks
    BY TasksAssumption DEF IInv, Tasks
  <2>2. \A t \in Holders : t \in Tasks
    BY DEF Holders
  <2>3. /\ tty_lock = 1 <=> pc = "sys_held" \/ Place = "print_held"
        /\ pc = "sys_held" => Place # "print_held" /\ sp \in Tasks /\ sp # 1
    <3>1. pc = "sys_held" => sp # 1 /\ sp \in Tasks
      BY <2>1, InHandler, OtherTask DEF Handlers
    <3> QED
      BY <2>1, <3>1 DEF Alive, Lock
  <2>4. CASE Place = "print_held"
    <3>1. Holders = {1}
      BY <2>1, <2>2, <2>3, <2>4, HolderIs
    <3> QED
      BY <2>3, <2>4, <3>1, FS_Singleton
  <2>5. CASE pc = "sys_held"
    <3>1. Holders = {sp}
      BY <2>1, <2>2, <2>3, <2>5, HolderIs
    <3> QED
      BY <2>3, <2>5, <3>1, FS_Singleton
  <2>6. CASE Place # "print_held" /\ pc # "sys_held"
    <3>1. Holders = {}
      BY <2>1, <2>2, <2>6, HolderIs
    <3> QED
      BY <2>3, <2>6, <3>1, FS_EmptySet
  <2> QED
    BY <2>4, <2>5, <2>6
<1> QED
  BY <1>1, Inductive, PTL
----------------------------------------------------------------------------
(* The ring *)

LEMMA LeastElement ==
    ASSUME NEW T \in SUBSET Nat, T # {}
    PROVE  \E n \in T : \A m \in T : n <= m
<1> DEFINE R == {ss \in Nat \X Nat : ss[1] < ss[2]}
<1>1. IsWellFoundedOn(R, Nat)
  BY NatLessThanWellFounded DEF OpToRel
<1>2. \A n, m \in Nat : n < m => <<n, m>> \in R
  OBVIOUS
<1> HIDE DEF R
<1>3. PICK n \in T : \A m \in T : <<m, n>> \notin R
  BY <1>1, WFMin
<1>4. \A m \in T : m \in Nat /\ n \in Nat /\ ~(m < n)
  BY <1>2, <1>3
<1>5. \A m \in T : n <= m
  BY <1>4
<1> QED
  BY <1>5

LEMMA Induct ==
    ASSUME NEW S \in SUBSET Nat, 0 \in S, \A n \in S : n + 1 \in S
    PROVE  S = Nat
<1> SUFFICES ASSUME Nat \ S # {}
             PROVE  FALSE
  OBVIOUS
<1>1. PICK n \in Nat \ S : \A m \in Nat \ S : n <= m
  BY LeastElement
<1>2. n # 0 /\ n - 1 \in Nat /\ n - 1 + 1 = n /\ ~(n <= n - 1)
  BY <1>1
<1>3. n - 1 \in S
  BY <1>1, <1>2
<1> QED
  BY <1>1, <1>2, <1>3

\* Following the links of a list defines a function, as far as one likes.
IsChain(f, g, x, n) == f = [k \in 0 .. n |-> IF k = 0 THEN x ELSE g[f[k - 1]]]

LEMMA Chain ==
    ASSUME NEW g, NEW x, NEW N \in Nat
    PROVE  \E f : IsChain(f, g, x, N)
<1> DEFINE Is(f, n) == f = [k \in 0 .. n |-> IF k = 0 THEN x ELSE g[f[k - 1]]]
           S == {n \in Nat : \E f : Is(f, n)}
<1>1. 0 \in S
  <2>1. Is([k \in 0 .. 0 |-> x], 0)
    OBVIOUS
  <2> QED
    BY <2>1
<1>2. ASSUME NEW n \in S
      PROVE  n + 1 \in S
  <2>1. PICK f : Is(f, n)
    OBVIOUS
  <2> DEFINE h == [k \in 0 .. n + 1 |-> IF k <= n THEN f[k] ELSE g[f[n]]]
  <2>2. \A k \in 0 .. n : h[k] = f[k]
    OBVIOUS
  <2>3. \A k \in 0 .. n + 1 : h[k] = IF k = 0 THEN x ELSE g[h[k - 1]]
    <3> SUFFICES ASSUME NEW k \in 0 .. n + 1
                 PROVE  h[k] = IF k = 0 THEN x ELSE g[h[k - 1]]
      OBVIOUS
    <3>1. CASE k = 0
      BY <2>1, <3>1
    <3>2. CASE k \in 1 .. n
      <4>1. k - 1 \in 0 .. n /\ k \in 0 .. n /\ k # 0
        BY <3>2
      <4> HIDE DEF h
      <4> QED
        BY <2>1, <2>2, <4>1
    <3>3. CASE k = n + 1
      <4>1. k - 1 = n /\ n \in 0 .. n /\ k # 0
        BY <3>3
      <4> QED
        BY <3>3, <4>1
    <3> QED
      BY <3>1, <3>2, <3>3
  <2>4. Is(h, n + 1)
    BY <2>3
  <2>5. n + 1 \in Nat
    OBVIOUS
  <2> HIDE DEF Is, h
  <2> QED
    BY <2>4, <2>5
<1>3. S = Nat
  <2> HIDE DEF S
  <2>1. S \in SUBSET Nat
    BY DEF S
  <2> QED
    BY <1>1, <1>2, <2>1, Induct
<1> QED
  BY <1>3 DEF IsChain

LEMMA FollowIs ==
    ASSUME NTASKS \in Nat
    PROVE  /\ Follow[0] = ready_queue
           /\ \A k \in 1 .. NTASKS : Follow[k] = next[Follow[k - 1]]
<1> DEFINE F == CHOOSE f : f = [k \in 0 .. NTASKS |->
                                   IF k = 0 THEN ready_queue ELSE next[f[k - 1]]]
<1>1. F = [k \in 0 .. NTASKS |-> IF k = 0 THEN ready_queue ELSE next[F[k - 1]]]
  <2>1. \E f : IsChain(f, next, ready_queue, NTASKS)
    BY Chain
  <2>2. IsChain(CHOOSE f : IsChain(f, next, ready_queue, NTASKS), next, ready_queue, NTASKS)
    BY <2>1
  <2> QED
    BY <2>2 DEF IsChain
<1>2. Follow = [n \in 0 .. NTASKS |-> F[n]]
  BY DEF Follow
<1> HIDE DEF F
<1>3. \A k \in 1 .. NTASKS : k \in 0 .. NTASKS /\ k - 1 \in 0 .. NTASKS /\ k # 0
  OBVIOUS
<1> QED
  BY <1>1, <1>2, <1>3

\* The queue is 1, the newest task, ..., 2, and 1 again, at every step of
\* task_create at which the timer may look.
THEOREM ReadyRingCorrect == Spec => []ReadyRing
<1>1. IInv => ReadyRing
  <2> SUFFICES ASSUME IInv, pc # "wild", ready_queue # nullptr
               PROVE  \E n \in 1 .. NTASKS :
                        /\ \A k \in 0 .. n - 1 : next[Follow[k]] \in Tasks
                        /\ Follow[n] = ready_queue
                        /\ \E k \in 0 .. n - 1 : Follow[k] = current_task
                        /\ \A k \in 0 .. n - 1 : Follow[k] # current_task => esp[Follow[k]] # Wild
    BY DEF ReadyRing
  <2>1. Alive
    BY DEF IInv
  <2>2. /\ ready_queue = 1 /\ next_tid \in 2 .. NTASKS + 1 /\ current_task = sp
        /\ sp \in 1 .. Last /\ Last \in 1 .. NTASKS /\ Last < next_tid
        /\ NTASKS \in Nat /\ Last \in Nat /\ sp \in Nat
    <3>1. NTASKS \in Nat /\ next_tid \in 1 .. NTASKS + 1
      BY TasksAssumption DEF IInv, TypeOK
    <3>2. Place \notin {"init_alloc", "init_next", "init_queue"} /\ ready_queue = 1
      BY <2>1 DEF Alive, TaskTable
    <3>3. next_tid # 1 /\ current_task = sp
      BY <2>1, <3>2 DEF Alive, TaskTable
    <3>4. NewTask => next_tid > 2
      BY <2>1 DEF Alive, Ring
    <3>5. Last = next_tid - 1 \/ (Last = next_tid - 2 /\ next_tid > 2)
      BY <3>4 DEF Last
    <3>6. Last \in 1 .. NTASKS /\ Last < next_tid /\ Last \in Nat
      BY <3>1, <3>3, <3>5
    <3>7. sp = 1 \/ sp \in 2 .. Last
      BY <2>1 DEF Alive, CpuShape
    <3> QED
      BY <3>1, <3>2, <3>3, <3>6, <3>7
  <2>3. next[1] = Last /\ \A t \in 2 .. Last : next[t] = t - 1
    BY <2>1, <2>2 DEF Alive, Ring
  <2>4. /\ Follow[0] = 1
        /\ \A k \in 1 .. NTASKS : Follow[k] = next[Follow[k - 1]]
    BY <2>2, FollowIs, TasksAssumption
  <2>5. \A k \in 1 .. Last : Follow[k] = Last - k + 1
    <3> DEFINE S == {n \in Nat : n + 1 \in 1 .. Last => Follow[n + 1] = Last - n}
    <3>1. 0 \in S
      BY <2>2, <2>3, <2>4
    <3>2. ASSUME NEW n \in S
          PROVE  n + 1 \in S
      <4> SUFFICES ASSUME n + 2 \in 1 .. Last
                   PROVE  Follow[n + 2] = Last - n - 1
        <5>1. n \in Nat /\ n + 1 \in Nat /\ n + 1 + 1 = n + 2 /\ Last - (n + 1) = Last - n - 1
          BY <2>2
        <5> QED
          BY <5>1
      <4>1. n + 1 \in 1 .. Last /\ Last - n \in 2 .. Last /\ n + 2 \in 1 .. NTASKS
        BY <2>2
      <4>2. Follow[n + 1] = Last - n
        BY <4>1
      <4>3. Follow[n + 2] = next[Follow[n + 1]]
        BY <2>4, <4>1
      <4>4. Follow[n + 2] = Last - n - 1
        BY <2>3, <4>1, <4>2, <4>3
      <4> QED
        BY <4>4
    <3>3. S = Nat
      <4> HIDE DEF S
      <4>1. S \in SUBSET Nat
        BY DEF S
      <4> QED
        BY <3>1, <3>2, <4>1, Induct
    <3>4. \A k \in 1 .. Last : k - 1 \in S /\ k - 1 + 1 = k /\ Last - (k - 1) = Last - k + 1
      <4>1. \A k \in 1 .. Last : k - 1 \in Nat
        BY <2>2
      <4> HIDE DEF S
      <4> QED
        BY <3>3, <4>1, <2>2
    <3> QED
      BY <3>4, <2>2
  <2>6. \A k \in 0 .. Last - 1 : Follow[k] \in 1 .. Last /\ next[Follow[k]] = Follow[k + 1]
    BY <2>2, <2>4, <2>5
  <2>7. Follow[Last] = 1
    BY <2>2, <2>5
  <2>8. \A k \in 0 .. Last - 1 : next[Follow[k]] \in Tasks
    <3>1. \A k \in 0 .. Last - 1 : Follow[k + 1] \in 1 .. Last
      BY <2>2, <2>5
    <3> QED
      BY <2>2, <2>6, <3>1 DEF Tasks
  <2>9. \E k \in 0 .. Last - 1 : Follow[k] = current_task
    <3>1. CASE sp = 1
      BY <3>1, <2>2, <2>4
    <3>2. CASE sp # 1
      <4>1. Last - sp + 1 \in 1 .. Last - 1 /\ Follow[Last - sp + 1] = sp
        BY <3>2, <2>2, <2>5
      <4> QED
        BY <4>1, <2>2
    <3> QED
      BY <3>1, <3>2
  <2>10. ASSUME NEW k \in 0 .. Last - 1, Follow[k] # current_task
         PROVE  esp[Follow[k]] # Wild
    <3>1. Follow[k] \in Tasks \ {sp} /\ Follow[k] < next_tid
      BY <2>2, <2>6, <2>10 DEF Tasks
    <3> QED
      BY <3>1, <2>1 DEF Alive, Others, Waits, Wild
  <2> QED
    BY <2>2, <2>7, <2>8, <2>9, <2>10
<1> QED
  BY <1>1, Inductive, PTL
============================================================================
