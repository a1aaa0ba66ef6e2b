# A TLA+ verification of KevOS

KevOS is a 32-bit x86 kernel (`kernel/`), a small `libc/` and a build-time tool
(`make_initrd.c`). It runs on one CPU. This directory holds TLA+ modules for the
parts that carry its logic, TLC configurations that check them on small
instances, and TLAPS proofs that carry the most important results to every value
of the parameters. `PROJECT.json` gives, for every definition that stands for
code, the file and the lines it stands for.

## 1. Inventory

| Part | State | Operations | Interacts with | What makes it correct |
|---|---|---|---|---|
| Physical memory manager, `mm/pmm.cpp` | bitmap, two counters | `pmm_init`, `pmm_alloc_page`, `pmm_free_page`, queries | boot loader's memory map; VMM and heap call it | counter = bitmap; kernel pages never handed out; only RAM handed out; nothing lost |
| Virtual memory manager, `mm/vmm.cpp` | page directory and tables | `vmm_init`, `vmm_map_page` | PMM, heap | the kernel stays mapped; heap addresses lead to the heap's frames; a frame has one use; no stale translation |
| Kernel heap, `mm/heap.cpp` | list of block headers, end of the mapped area | `kheap_init`, `kmalloc`, `kfree`, growth | PMM and VMM; tasks, initrd, shell call it | blocks tile the heap; blocks in use = blocks handed out; coalesced; calls return |
| Keyboard, `drivers/keyboard.cpp` | ring buffer, Shift and Caps state | IRQ handler, `keyboard_getchar` | IRQ 1, shell | a bounded FIFO of the right characters; a waiting character is read |
| Tasks, `kernel/task.cpp`, `process/switch.S` | ring of `task_t`, stacks, TSS | `tasking_init`, `task_create`, `schedule`, `switch_to` | timer interrupt, every task | stacks stay apart; a waiting task can go on; everyone runs |
| Interrupts and system calls, `cpu/irq.cpp`, `cpu/interrupts.S`, `kernel/syscall.cpp` | PIC, tick counter, frames | `irq_handler`, `syscall_handler`, stubs | all of the above | end of interrupt on every path; a trap leaves no trace in the code it interrupts; a frame is what the handler takes it for |
| Spinlock, `kernel/spinlock.cpp` | `tty_lock` | acquire, release | terminal; tasks and system calls | exclusion; no wait for a holder that cannot run |
| Terminal, `drivers/tty.cpp` | screen, cursor | put a character, clear | shell, everyone who prints | cursor on screen; text where it should be |
| Shell, `drivers/shell.cpp` | line buffer | read a line, execute | keyboard, terminal, all queries | screen = buffer; the command run is the line typed |
| Ramdisk and VFS, `kernel/fs/`, `make_initrd.c` | image, nodes | build, load, read, readdir, finddir | boot loader, heap, shell | a read gives the bytes of the file on the build host |
| GDT, IDT, PIC, PIT, `cpu/` | descriptor tables, ports | set-up functions | CPU | the CPU reads what the code meant; every trap reaches its handler |
| libc | none | printf, string functions | everyone | each equals its reference definition |

What is hard here: one CPU, but interrupts may come between any two instructions
of code that runs with IF set, and the timer interrupt changes the task; the heap,
the task list and the keyboard ring are shared without locks; one lock is taken
with interrupts both enabled and disabled; addresses and sizes are 32-bit; rings,
buffers and memory run full. Nothing is persisted and there is no second machine,
so crash recovery does not occur, and the only message that can get lost is an
interrupt request while the PIC is being initialised. `PROJECT.json` lists each hazard
with its line and the properties aimed at it.

## 2. Modules

| Module | Models | Run from |
|---|---|---|
| `Pmm` | the PMM; `pmm_init` is one step per round of its two loops | `MCPmm` (memory maps) |
| `PmmProofs` | theorems about `Pmm` | |
| `KeyQueue` | what the keyboard promises: a bounded FIFO of characters | instantiated by `Keyboard` |
| `Keyboard` | the driver; reader and handler interleave at each access to a shared index | `MCKeyboard` (the driver's tables) |
| `KeyboardProofs` | theorems about `Keyboard`, with the refinement of `KeyQueue` | |
| `Sched` | CPU, PIC, stacks, scheduler, system calls, lock, user task | itself |
| `SchedProofs` | theorems about `Sched` | |
| `Heap` | the heap; a step per round of the search, three for `kfree`, one for the taking of a block and one for a growth | itself |
| `HeapProofs` | theorems about `Heap` | |
| `Console` | terminal under the shell's line input and command loop | `MCConsole` |
| `ConsoleProofs` | theorems about `Console` | |
| `Libc` | string functions and `printf` as operators | extended by `Initrd` |
| `Initrd` | from files on the build host to `ls` and `cat` | `MCInitrd` (files; checks of `Libc`) |
| `InitrdProofs` | theorems about `Initrd` | |
| `Vmm` | boot tables, `vmm_init`, `vmm_map_page` and `kheap_expand`, on `INSTANCE Pmm` | `MCVmm` (machines) |
| `VmmProofs` | theorems about `Vmm`, with the refinement of `Pmm` | |
| `Traps` | GDT, TSS, IDT, PIC set-up, stubs, frames, handlers | `MCTraps` |
| `TrapsProofs` | theorems about `Traps`, and that decoding inverts encoding | |

How the parts are composed: `Vmm` runs the actions of `Pmm` on shared variables, so every page that
paging takes comes out of the bitmap; `Console` puts the shell on top of the terminal;
`Initrd` goes from the build tool through VFS and libc to the shell; `Sched` joins
scheduler, interrupts, lock and system calls. `Traps` and `Sched` divide a trap between
them: in `Traps` registers and stack words are real and there is one task, in `Sched`
frames are whole and tasks switch.

**Pmm.** `pmm_bitmap` is the set of pages whose bit is set; `held` is history, the
pages handed out. The second walk clears the bits of one map entry per step and
`pmm_init_relock` marks kernel image and bitmap again. `PhysAddr` keeps the 32-bit
wrap (`ADDR_SPACE`).

**Keyboard.** `keyboard_handler` is one step because interrupt gates clear IF.
`keyboard_getchar` is four: test, `hlt`, fetch, advance. An interrupt may come
between the test and the `hlt`, after which the reader sleeps on a ring that is not
empty; the timer wakes it. The compiler must not keep `kbd_buffer_head` in a
register across the loop: the `asm volatile("hlt")` without operands does not
formally forbid it, and the model assumes that the variable is read each time.

**Sched.** Variables are the CPU (`pc`, `ring`, `ifl`, `sp`, `eax`), the frames on
each task's stack, the PIC (`irr`, `isr`), `task_t` fields, the TSS stack and the
terminal lock. A trap from ring 3 starts at the top of the stack named by the TSS,
one from ring 0 pushes on the current stack, so a wrong TSS destroys frames in the
model as it does in the machine. `switch_to` saves ESP as the height of the stack
and cuts the new stack at its saved height. Code that runs with IF set is split at
each store that the timer interrupt can see, in program order. `slack` bounds the
devices: each line is raised at most once between two instructions with IF set (the
PIT ticks every 10 ms, a handler takes microseconds). `wild` is the state after an
uninitialised pointer has been followed. The user task is `test_task` with its
period as a parameter.

**Heap.** `mem` maps an address to the header there; payload is not modelled, so a
header that has been merged away reads as `Junk`. `kmalloc` is one step per round
of its loop, then one for the taking of the block or for a growth; `kfree` is three steps.
A task may be switched between those steps; inside them the code could be preempted too,
and the model leaves that out. The one preemption that `heap_race` needs, between test and mark, is there. Locals vanish
when a call returns. `Atomic` callers run with IF clear (`user_mode_proxy`, which
is entered from the timer interrupt). `frames` counts page frames and does not
charge for page tables. The header of a growth that wraps to zero pages lies in
unmapped memory: the kernel stops, as it does when frames run out.

**Console.** A step prints one character, with wrapping, scrolling, erasing and the
cursor register. `shell_readline` is one step per key, `shell_execute` splits the
line (for `setcolor` twice) and runs `clear`, `echo`, the commands that halt, or prints one of `Texts`.
Colours are left out. Only the shell prints: `test_task` never does, see below.

**Initrd.** `make_initrd` writes the global header, one file header per step, with the
name that is left of the path (`FileName`), and one file per step. The image is the headers, the count of bytes ahead of the data and
the data, so that computed offsets and real positions are two different things. Names and
buffers are C strings and byte arrays of fixed size, handled with the operators of
`Libc`; `fs_root` is unset when the boot loader has no module. `read_file` is a read through
the VFS with any offset and size, near 2^32 too, where their sum wraps and `initrd_read` does not clip.

**Libc.** Each function is what the rounds of its loop do; `memmove` keeps the order of the
rounds, `printf` the state of its scan, and the width of a word is a parameter. `MCInitrd` states
reference definitions as assumptions, which TLC evaluates over all small inputs: moves with
every overlap, the order of blocks and strings, copies of strings, the value of printed
digits up to 300 in both bases, the least negative number, percent signs at every place.

**Vmm.** A virtual address is a page number. Directory and tables are rows of entries in page
frames, and the code reaches them only through `Reach`, the translation of the MMU with
the tables as they are at that moment: a store to the directory through its own last
entry is a store through itself. `tlb` holds one translation of an arbitrary page, filled at any
moment (`tlb_fill`), which is enough for properties of single pages. A frame that was never
written reads as `leftover`. Each store that the MMU can see is a step. An access without a
mapping, or a fetch without one, ends in `lost`.

**Traps.** Descriptors, gates and port writes are encoded as in the code and decoded as by
CPU and PIC (`SegmentBase`, `GateTarget`, `OutData` ...), with words of 8 digits in base `NIBBLE`.
Every register starts with a value of its own, and `origin` remembers the
state that a trap interrupts. A stub is three steps: number and error code, registers,
handler; then restore and `iret`. Exceptions may hit any step with the kernel's descriptors
loaded. Ring 3 may execute `int` with any vector; without a gate, or with one that is not
for ring 3, the CPU raises exception 13 (`SoftInt`). `EveryTrapHandled` is about the trap that comes,
exception 13 then, and says that `int 0x80` is never refused. A system call changes EAX of its caller: `origin` then has
what `syscall_handler` answers, so `Transparent` says that nothing else is changed. `regs->esp` is not compared:
interrupts.S:65 calls it the original ESP, but it is the one after the pushes.

## 3. Runs

| Run | Shows |
|---|---|
| `pmm` | `AccountingExact`, `NoPageInTwoHands`, `OnlyRamWhenAligned`, `NothingLost`, for memory maps with and without page 0 as RAM |
| `keyboard` | `FetchedIsOldest`; the driver implements `KeyQueue` (`QueueSpec`); `WaitingIsTaken` |
| `sched` | `OwnStack`, `WaitingTasksIntact`, `NoLineBlocked`, `ReadyRing`, `LockExclusive`, `EveryTaskRuns` with three tasks |
| `heap` | `Tiled`, `Coalesced`, `BlocksOwned`, `CallsReturn` for one caller |
| `console` | `EchoMatches` (with `BlankAhead`), `CommandIsLine` |
| `initrd` | `ReadsOwnFile`, `CatFindsFile`, `LsInOrder`, `LsShowsAll` for images of up to three files, and the assumptions about `Libc` |
| `vmm` | `KernelMapped`, `HeapExact`, `FramesApart`, `TlbCoherent`, `StopsOnlyWhenFull` for machines that run out of pages at different points |
| `traps` | `EveryTrapHandled`, `FrameMatches`, `Transparent`, `EoiExact` from `gdt_install` to ring 3 |

Every passing run also checks the type invariant of its module. The other runs each show one
disagreement between the code and what its comments or docs say:

| Run | Property violated | Why |
|---|---|---|
| `pmm_boot_module` | `ModuleKept` | the pages of the loaded initrd are not reserved |
| `sched_init_race` | `ListIsCircular` | the timer may fire while `current_task->next` is unwritten |
| `sched_heartbeat` | `Heartbeat` | system call 1 (get ticks) is refused by a guard on the size of another table, so `test_task` never prints |
| `heap_race` | `NoSharedBlock` | `kmalloc` tests and marks a block without a lock |

In `sched_init_race` the interrupt is the timer's: only line 0 reaches `schedule` (irq.cpp:60).

`sched_heartbeat` shows what the guard at syscall.cpp:24 does. The table behind `NUM_SYSCALLS` has one entry, so
system call 1 returns without a change, EAX keeps the number 1, and 1 - 0 is below the period. The run has
`PERIOD` 2 instead of 200 to keep the trace short; as EAX is always 1, all periods above 1 are alike. With the guard repaired
(`NUM_SYSCALLS` 2) the property holds at that period. The premise that no system call spins for ever is met: here none prints at all.

A deadlock waits behind that guard. A system call that prints runs with IF clear and spins on `tty_lock`
(tty.cpp:184); when the holder is a preempted task, it cannot run again. No behaviour of the present program gets there, since
nothing in ring 3 prints, so it is not among the findings, and whoever repairs the guard will meet it. The steps are in
`Sched` (`sys_print`), and `Heartbeat` and `EveryTaskRuns` exclude an endless spin in their premises. To reach these steps `sched` has `PERIOD` 1,
with which the user tasks do print: the safety properties are thereby checked, and proved for every period, for more behaviours than the
present program has.

What `vmm` says about page 0: after `pmm_init` it is free on a PC, and its address is `nullptr`. `vmm_init`
takes the first page without a test and uses it as the directory, so `kheap_expand`, which
does test, never gets it, and `StopsOnlyWhenFull` holds. When a new table is needed and no
page is left, `vmm_map_page` installs page 0, the directory, as a page table and clears
it; the machine is lost without a message. The properties hold up to that point (`Served`),
and it is reached only with no page free.

README.md:16 of the repository claims "Full interrupt routing for all 256 gates". The code has less: `idt_install` sets gates 0 to 47 and 128 and leaves
the others null, so an `int` of a user program with another vector becomes exception 13, which halts the system (`SoftInt`).
`EveryTrapHandled` covers the gates that are set.

More limits of the code were met while modelling and are stated as conditions
of the properties or assumptions instead of runs: the heap's area ends at the page tables, which
`kheap_expand` does not test (`HeapAssumption` in `Vmm`, `SpanAssumption` in `Heap`: less than 764 MiB of available memory; reserved entries of the map may lie anywhere); available regions that begin inside a page have
that page freed (`OnlyRamWhenAligned` has the condition); pages above 4 GiB have
addresses that repeat (`MemoryFits`); `kmalloc` of one of the seven largest sizes
wraps to a block of no bytes (`Unwrapped`, a hypothesis of the theorems about `Heap`); `cat` prints at most 255 bytes;
a read whose offset and size add up to 2^32 or more is not clipped (the premise of `ReadsOwnFile`; `cat`, the only caller, asks for 255 bytes at 0).

### Bounds

- `pmm`: pages of 4 bytes, up to 13 pages, a kernel of one and a half pages, so that
  every rounding in `pmm_init` happens in both directions; holes, overlaps, an
  empty map and a ROM at the end of the address space are among the maps.
- `keyboard`: a ring of 4 cells (fills, wraps, drops), the real tables, one key of
  each kind (letter, digit, key without a character, a release, both Shift keys, Caps Lock).
- `sched`: three tasks, so that a new task is linked into a ring that is already
  running; ticks modulo 4; `PERIOD` 1, with which each user task prints once and
  then goes on without printing, so both kinds of loop occur (see above). `sched_heartbeat`: two tasks, a period of 2 in 16 ticks.
- `heap`: pages of 16 bytes, headers of 4, two pages at first and two to grow by,
  up to three blocks of sizes that split, fit exactly, are too small to split, need
  growth, exhaust memory, and wrap the page count.
- `console`: 3 by 3 cells, lines of up to four characters behind a prompt of one: lines
  wrap once or twice at every position and scroll. The assumption that prompt and line fit on the
  screen holds for 7 + 127 characters on 80 by 25.
- `initrd`: up to three files with names that fit or are cut, data that is empty,
  contains NUL or exceeds the buffer of `cat`; paths with and without directories; every offset and size from 0 to 5 and
  within 5 of the size of a word, so that sums wrap.
- `vmm`: tables of 8 entries, two pages of heap at first and up to two per growth, so that the
  heap begins a table and crosses into the next; four machines, one with a ROM at the end of the address space, on which
  memory ends between the frame of a page and that of its table, or in `kheap_expand`; old contents of a
  frame are empty or a present entry to a frame of the kernel.
- `traps`: base 2, an address of the TSS with different digits in every part; lines 0, 1, 7, 8 and 15,
  which are the timer, the keyboard, the last line of each controller and the first of the slave; firmware masks
  that leave the lines open or closed; every exception of the CPU; five vectors for `int`. Handlers do not nest
  except for one exception, after which the system halts.

### Fairness

- `Keyboard`: weak fairness of the reader (its task is scheduled again and again, which `sched`
  checks as `EveryTaskRuns`) and of the timer interrupt (the PIT is periodic). Nobody
  need press a key.
- `Sched`: the CPU executes and the PIT ticks. Nothing is assumed of the keyboard,
  of locks or of the choice of tasks.
- `Heap`: a caller inside `kmalloc` or `kfree` goes on; callers need not call.
- `Initrd`: the loop of `ls` goes on.

Deadlock checking is on everywhere: halting, spinning and panicking are explicit
steps that change nothing.

## 4. Proofs

All theorems are checked by `tlapm` down to the last leaf. Every safety property of a passing
run is one of them. In each module the theorem rests on an inductive
invariant, called `IInv` where it is one formula; TLC checked it on the module's run before it was proved. Its
preservation has one step per action.

`PmmProofs`, for every page size, kernel, memory map and sequence of calls:

- `TypeCorrect`: `TypeOK`.
- `AccountingCorrect`: `AccountingExact`. The inductive invariant is `TypeOK` with
  `pmm_used_blocks = Cardinality(pmm_bitmap)`; each action changes both by the same set,
  and the lemmas are about cardinalities of subsets of an interval.
- `OwnershipCorrect`, `OnlyRamCorrect`, `NothingLostCorrect`, under `MemoryFits`: no
  available region reaches past the last 32-bit address. The condition is needed, because
  otherwise `pmm_free_page` gets the address of one page and frees another. The
  strengthening says that all managed pages lie below the limit (so an address
  determines its page, `AddressOfPage`), that held pages stay marked, and that during `pmm_init`
  free pages come from the map entries already visited.

`KeyboardProofs`, for every ring size of at least 2 and all tables:

- `TypeCorrect`: `TypeOK`.
- `FetchCorrect`: `FetchedIsOldest`. The handler never moves the head onto the tail,
  so the ring stays non-empty between test and advance, and never writes the tail's cell.
- `DriverIsQueue`: `Spec => QueueSpec`, the refinement of `KeyQueue`. The mapping reads the ring
  from the tail; lemmas give the effect of push and advance on that sequence.
  It uses `ShiftAssumption`: the tables have characters for the same keys and Shift
  makes exactly the small letters capital. TLC checks the assumption on the driver's tables.

`SchedProofs`, for every number of tasks of at least 2, period, modulus of ticks and task to run first:

- `OwnStackCorrect`, `WaitingTasksIntactCorrect`, `NoLineBlockedCorrect`, `LockExclusiveCorrect`,
  `ReadyRingCorrect`, and `TypeCorrect`.
- That a waiting task can go on is not inductive: its stack is built by whoever ran when it stopped.
  The invariant `Alive` says where everyone is. `CpuShape`: the CPU is in the code of the first task, in the user program, in
  `user_mode_proxy`, or in a handler above exactly one frame. `Others`: a waiting task has an
  interrupt frame under a frame of `switch_to`, or has not started and lies in front of the proxy.
  `TaskTable`: how far `tasking_init` and `task_create` came fixes what is written. `Ring`: the first task
  is followed by the newest, every other by the one before. `Lock`: who is between acquiring and releasing.
- `Alive` holds unless the race in `tasking_init` (run `sched_init_race`) has sent the CPU astray, `pc = "wild"`. The
  properties that cannot hold there say so themselves.

`HeapProofs`, for every size of header, page and heap, alignment and list of requests:

- `TiledCorrect`, `CoalescedCorrect`, `BlocksOwnedCorrect`, `TypeCorrect`, and `Inductive`, which is the invariant
  at every step inside `kmalloc` and `kfree`, where the three properties say nothing.
- `NoSharedBlockCorrect`: under the same hypotheses no block has two owners at any step, so preemption is the only
  cause of what `heap_race` finds.
- Hypotheses: `Serial`, no caller is preempted inside the heap by another one (without it
  `heap_race` is a counterexample), and `Unwrapped`, no request wraps when it is rounded up.
- The invariant: `Shape` (headers tile from `KHEAP_START` to `heap_current_end`, linked both ways), `Coal` (free
  neighbours meet only at the block that `kfree` is merging), `Own` (every used block has one owner
  record, except the one `kfree` was given and has not marked yet), and what the caller inside `Knows` of
  its local variables. The lemmas say that splitting, joining and growing keep `Shape`, and that the list
  reached from the head is the set of all headers, by the least header that it would miss.

`ConsoleProofs`, for every screen, line buffer and text on which prompt and line fit (`ScreenAssumption`):

- `EchoMatchesCorrect`, `CommandIsLineCorrect`, `TypeCorrect`. While a line is read, the part of prompt
  and line that was printed stands right before the cursor (`Reading`); wrapping, scrolling and erasing move both.

`InitrdProofs`, for every list of files whose image is shorter than 2^32:

- `ReadsOwnFileCorrect`, for offsets and sizes whose sum fits into 32 bits, and `TypeCorrect`. The invariant follows `make_initrd`: headers point where the data
  of each file begins (`DataBefore`), the data written so far lie one behind the other, and nodes are those
  of the headers. Offsets are a recursive function of the index; the lemma about them takes a least counterexample.
- `CatFindsFileCorrect`: a name goes through `strncpy` into the header, `strcpy` into the node and `strcmp` with what
  was typed. The lemmas say of arrays of any length which text they hold (`Holds`) and what the string functions
  make of it. Of `printf`'s fold only the format `"%s\n"` is needed: its three rounds are unfolded (`PrintfLine`).
- `LsInOrderCorrect`: at every moment of `ls` its lines are the first entries of the root directory, in order, each under
  its own name. The invariant `Listing` relates the index in the loop, the one static `dirent` that `readdir` overwrites
  and the lines written. It is about images in which no file is called `.` or `..`, because `finddir` looks up names.

`VmmProofs`, for every size of table and every machine whose available memory is below 764 MiB (`HeapAssumption`), with reserved
entries of the memory map anywhere:

- `UsesPmm`: `Spec => P!Spec`, every step of paging is an action of `Pmm` or leaves its variables alone.
- `KernelMappedCorrect`, `HeapExactCorrect`, `FramesApartCorrect`, `TlbCoherentCorrect`, `TypeCorrect`.
- `StopsOnlyWhenFullCorrect`, under `LowMemory`: every memory map has two pages below 4 MiB outside the kernel and the
  bitmap, as a PC has below 640 KiB. `vmm_init` clears its two pages through the identity mapping of `boot.S`; on a machine
  whose first free page lies above it, it faults. `LowFree` follows both walks of `pmm_init` to show that the
  allocator hands out such pages (`LowFirst`). TLC evaluates the condition on the machines of `MCVmm`.
- The invariant: `Base` (what every entry may be), `Start` (boot tables until CR3 is loaded, the two frames of
  `vmm_init`), and, as long as `Served` holds after that, `Tables` (what each slot of the directory holds, so that
  `Reach` finds it), `Apart` and `Coherent`. A slot, a frame and a translation
  can be wrong only together, so none of the properties is inductive alone.

`TrapsProofs`, for every base of digits, place of TSS and stubs, set of lines and firmware mask (`TransparentCorrect`: all but EAX
of a system call, which is the handler's answer):

- `SegmentDecoded`, `FlatDecoded`, `GateDecoded`: the CPU decodes what `gdt_set_gate` and `idt_set_gate` encoded.
- `EveryTrapHandledCorrect`, `FrameMatchesCorrect`, `TransparentCorrect`, `EoiExactCorrect`, `TypeCorrect`, and `Inductive`:
  tables are set up in order and then stay; from gate to `iret` the stack holds the frame that leads
  back to `origin`; what is in service is what the handler's end of interrupt ends.

Only model-checked:

- Liveness, because fairness is out of this prover's reach: `WaitingIsTaken`, `EveryTaskRuns`, `CallsReturn`, `LsShowsAll`.
  What `LsShowsAll` adds to `LsInOrder`, which is proved, is that `ls` ends.
- The assumptions about `Libc` in `MCInitrd`, such as moves with overlap and the digits of a number: `Libc` writes these
  loops as folds over the data, and what a fold computes for every input needs induction over data. What `cat`
  and `ls` need of strings is proved, see `InitrdProofs`.

## 5. Not modelled

- Reordering of stores by the compiler (`-O2`, no `volatile` on shared variables):
  stores are in program order.
- What `isr_handler` prints: it takes `tty_lock`, so an exception while the lock is held
  prints nothing. `Traps` models the halt.
- Exceptions before `idt_install`, which reset the machine.
- Colours, the texts themselves, `gdtinfo`, `uptime` and `ps`, which only print.
- The divisor of the PIT: it fixes the rate, on which no property depends.
- The keyboard controller's output buffer: a key pressed before `pic_remap` may leave a byte there
  that no interrupt announces; `Traps` models the lost request only.
- Memory above 4 GiB (`MemoryFits` in the proofs), more than 64 files in an image.
- `abort`, `raise`, `puts`, `putchar`; `vfs_write`, `vfs_open`, `vfs_close`, which nobody calls.
- Build scripts.
- Writers of the terminal without `tty_lock` (`clear`, `setcolor`): one task prints in the present program, and `Console` has one writer.
- The reuse of boot module pages by the heap in `Initrd`: `pmm_boot_module` shows it at its cause.

## 6. Plan

Every component that keeps state is modelled, and every safety property of a passing run is proved. What is left is
`Keyboard` under `Console`: `Console` takes keys one by one, as `KeyQueue` hands them out; that the two fit is
by inspection so far.
