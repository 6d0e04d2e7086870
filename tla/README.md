# FOS in TLA+

FOS is a teaching operating system for one x86 processor
(`FOS_Project_2016_Template/`). This project models the parts that decide which
memory a program has (demand paging with its page file, the user heap, the
kernel heap, the loader, the scheduler, the environment identifiers), the
console through which it is driven, the start-up that builds its address space,
the library routines it formats and parses with, and the authors' own tests,
which run here as scripts on the models. Paths below are relative to
`FOS_Project_2016_Template/`. The configuration modelled is the one that is
built: `USE_KHEAP` is 1, page buffering is disabled, LRU and FIRST FIT are the
defaults. The prompt can choose another replacement algorithm or placement
strategy, and so can every program for the placement strategy
(`sys_set_uheap_strategy`), at any time, for all programs at once and with any
number.

## 1. The system

| Component | State | Operations | Talks to |
|---|---|---|---|
| Page faults (`kern/trap.c`) | – | `trap`, `trap_dispatch`, `fault_handler`, `table_fault_handler`, `page_fault_handler` | frames, working set, page file, scheduler (on a panic) |
| Working set and page tables (`kern/memory_manager.c`, `kern/sched.c`) | `ptr_pageWorkingSet`, `page_last_WS_index`, page tables with used and modified bits | `map_frame`, `unmap_frame`, `env_page_ws_*`, `update_WS_time_stamps` | MMU, clock interrupt |
| Frame pool (`kern/memory_manager.c`) | `free_frame_list`, `Frame_Info.references` | `allocate_frame`, `free_frame`, `decrement_references` | every allocator |
| Page file (`kern/file_manager.c`) | `disk_free_frame_list`, disk page tables | `pf_add_env_page`, `pf_add_empty_env_page`, `pf_update_env_page`, `pf_read_env_page`, `pf_remove_env_page`, `pf_free_env` | fault handler, loader, user heap |
| User heap, kernel side (`kern/memory_manager.c`) | – | `allocateMem`, `freeMem` | page file, working set, page tables |
| User heap, library side (`lib/uheap.c`) | `UHeap_Tracker`, `sizeOfVAs`, `generalAddress` | `malloc` (NEXT, FIRST, BEST, WORST FIT), `free` | the kernel: two system calls for memory, up to four for the strategy |
| Kernel heap (`kern/kheap.c`) | `firstFreeVAInKHeap`, `allocatedHAddresses`, `idx`, `virtualAddresses` | `kmalloc`, `kfree`, `kheap_virtual_address`, `kheap_physical_address` | frame pool; `get_page_table` trusts the reverse map |
| Loader (`kern/user_environment.c`) | – | `env_create`, `program_segment_alloc_map_copy_workingset` | all of the above |
| Environments and scheduler (`kern/sched.c`, `kern/user_environment.c`, `inc/queue.h`) | four queues, `sched_next`, `curenv`, `scheduler_status` | `fos_scheduler`, `sched_insert_ready`, `sched_remove_ready`, `sched_run_env`, `sched_run_all`, `sched_kill_env`, `sched_kill_all`, `sched_exit_env`, `env_run`, `env_free`, `_panic` | clock, prompt, system calls |
| Identifiers (`kern/helpers.c`, `inc/environment_definitions.h`) | `env_id` of every entry of `envs[]` | `complete_environment_initialization`, `envid2env`, `ENVX` | system calls that name an environment |
| Console (`kern/console.c`, `kern/command_prompt.c`, `lib/readline.c`) | `cons`, shift state, screen, the line being edited, the history | `cons_intr`, `kbd_proc_data`, `cons_getc`, `cons_getc2`, `cga_putc`, `command_prompt_readline`, `readline` | keyboard, serial port, programs |
| Start-up (`boot/main.c`, `kern/memory_manager.c`, `kern/helpers.c`) | the kernel's page directory, `ptr_free_mem`, the first free list | `cmain`, `readseg`, `detect_memory`, `initialize_kernel_VM`, `turn_on_paging`, `initialize_paging` | everything later |
| Library (`lib/string.c`, `lib/printfmt.c`, `lib/printf.c`, `kern/kdebug.c`) | – | `strtol`, `ltostr`, `strsplit`, `memmove`, `vprintfmt`, `vsnprintf`, `cprintf`, `debuginfo_eip` | prompt, programs |
| Tests and programs (`user/tst_*.c`, `kern/test_kheap.c`, `user/quicksort.c`, `user/mergesort_*.c`) | – | scripts of calls and the values they demand | heaps, paging |
| Table working set, page buffering | – | bookkeeping without effect, empty functions | not modelled |
| Shared memory, semaphores | – | all panic as not implemented | not modelled |
| Timer, interrupt controller, disk | – | port I/O | not modelled |

What is hard here. Kernel code runs with interrupts disabled, so there are no
races inside a handler. The difficulty lies elsewhere:

- `malloc` asks the kernel for the strategy in up to four system calls, between
  which another program may set it;
- user programs interleave at traps, and a handler leaves state (a clock hand,
  a time stamp, a working-set index, `generalAddress`, `sched_next`) that is
  read much later, when it may be stale;
- each operation edits several structures that describe the same thing (working
  set, page table, page file; tracker, size table, page file; queue and status;
  page table and reverse map), and one may be left out of step;
- `panic` does not stop the machine: it kills the current environment, or only
  the command, and goes on with whatever half of the work was done;
- input arrives at any rhythm in a buffer without a test for room, and the
  editor, the screen and the history are kept in step by separate statements;
- two loaders cut the same segments into pages or sectors with different code,
  and the kernel's own tables are allocated while they are being mapped;
- a program has to make progress although every fault may evict a page that the
  same instruction needs, and every ready environment has to get the processor.

`PROJECT.json` lists these as hazards, each at its line with the properties
that would notice it going wrong.

## 2. Modules

| Module | Models | Composition |
|---|---|---|
| `Paging` | faults, working sets, frames, page file, `allocateMem`, `freeMem`, loader, `env_free` | – |
| `FlatMemory` | abstract: a private memory without frames or page file | implemented by `Paging` |
| `PagingCPU` | a processor that restarts an instruction after each fault | extends `Paging` |
| `MCPaging` | frames as symmetric model values | extends `Paging` |
| `Paging_proofs` | invariants and action properties of `Paging`; `Paging` implements `FlatMemory` | extends `Paging` |
| `UHeap`, `UHeap_proofs` | `malloc` and `free` of the library | – |
| `KHeap`, `KHeap_proofs` | `kmalloc` and `kfree` with the reverse map | – |
| `Placement`, `UHeapPlacement` | what the four strategies choose, in terms of holes; the loops of `UHeap` choose it | `UHeapPlacement` extends `UHeap` and `Placement`; `UHeap_proofs` extends it |
| `HeapScripts`, `SelfTests` | the tests of the heaps as data; both heaps at real size | `SelfTests` uses `Placement` |
| `ReplacementTests` | the tests of page replacement | extends `Paging` and drives its actions |
| `Terminal`, `Console`, `Console_proofs` | the screen; keyboard, serial port, buffer, line editor, `readline` | `Console` uses `Terminal` |
| `LibString`, `LibFormat`, `Stabs`, `SortPrograms` | strings, formatting, debugging symbols, the sorting programs | – |
| `BootLoader`, `KernelVM`, `Loader` | loading the kernel, its address space, loading a program | – |
| `Library` | calls of `LibString` to `Loader`, with reference definitions | extends them |
| `ReadyQueue` | the scheduler's queues as sequences | – |
| `Sched`, `Sched_proofs` | queues, scheduler, prompt commands, clock | `Sched` extends `ReadyQueue` |
| `Queue`, `Queue_proofs` | the linked lists of `inc/queue.h` and the loops of the scheduler on their links | `Queue` extends `ReadyQueue` |
| `EnvId`, `EnvId_proofs` | identifiers and their lookup | – |
| `MCPrograms` | instructions and `malloc`, for TLC | extends `PagingCPU` and `UHeapPlacement` |
| `MCEnvironments` | scheduler, lists and identifiers, for TLC | extends `Sched`, `Queue` and `EnvId` |
| `MCKernel` | kernel heap, heap tests, console and library, for TLC | extends `KHeap`, `SelfTests`, `Console` and `Library` |
| `InductionLemmas` | induction over a natural, recursive functions over sequences, removal and insertion in a sequence, for the proofs | – |

`MCPrograms`, `MCEnvironments` and `MCKernel` check several components with one run.
The components of such a module share no variable, so their product would show
nothing that each does not show alone: the variable `part` says which one moves in a
behaviour, and the others stay as they start.

**Paging.** One action per trap or system call. A handler that may fail in the
middle is cut at the points where it may: `PageFault` chooses and evicts a
victim, then `kpc` is `"place"` and one of `PlaceFromPageFile`,
`PlaceNewStackPage`, `PlaceInvalid` and `PlaceNoFrame` follows. In the same way
`allocateMem` is `AllocateMem` and one `AllocatePage` per page, and `env_create`
is `EnvCreate`, `LoadWSPage`, `LoadWSDone`, `LoadPfPage` and `LoadStackPage`.
While `kpc` is not `"user"` nothing else moves, as interrupts are disabled. A
page's bytes are one value; what is left in a freed frame is `Junk`. LRU's
arithmetic is kept: stamps are shifted by two and the use bit is added at
`TopBit`. `MODIFIEDCLOCK` has no branch in `page_fault_handler`, so it takes
FIFO's victim. Not charged to `Frames`: page directories, working-set arrays and
disk page tables. The status `"ready"` also stands for NEW, and `"stuck"` is an
environment whose loading panicked, which is on no queue.

**FlatMemory.** What a program relies on: a page holds what was last written to
it. `PagingIsTransparent` is the refinement; its mapping, `View`, reads memory
if the page is resident and the page file otherwise.

**PagingCPU.** An instruction is a sequence of distinct pages, no more than the
working set holds. It faults at the first page that is missing and starts over
after the handler, since `env_pop_tf` reloads the saved `eip`.

**UHeap.** One step is one iteration of a search loop, or one system call, with the
locals of `malloc` as variables. Only the first cell of a block is marked in
`UHeap_Tracker`. The counter of NEXT FIT is unsigned and wraps at `Word`. The heap
belongs to one process; `strategy` is the kernel's variable, which `SetStrategy`
changes at any moment, also to `"unknown"`, a number that is no strategy. The four
questions of `malloc` are steps (`AskYes`, `AskNo`), and `branch` is the strategy
it asks about and then follows. If all four answers are no, `FallThrough` goes on to
the allocation without a search, as the code does, wherever `generalAddress` points,
perhaps over a live block. The history variable `intact` becomes FALSE when that
happens at a place where the block does not fit, and the properties say what holds
until then.

**KHeap.** One step is one page of `kmalloc`, since `allocate_frame` may panic
at each. `live` and `lost` are history variables. `Share` and `Unshare` are the
second mapping of working-set frames in user space, `UserMap` and `UserUnmap`
the page faults that use the same pool.

**Sched.** Queues are sequences; an action is one command, or one trap up to the
assertion at its end; then `TrapReturn` decides. `Panic` is `_panic` with its
call of the scheduler. `masked` holds the environments that disabled interrupts.

**Queue.** A memory of links (`mem`): `le_next` and `le_prev` of each entry of
`envs[]`, first, last, size and saved pointer of each list, and `sched_next`. The
macros are operators with their assignments in order. One step is one turn of a
`LIST_FOREACH`, so a function is caught between the moment its loop saves the next
element and the moment it goes on there, with its body, which may have moved the
element to another list, in between. `lists` and `next` follow the same calls with
the operators of `ReadyQueue` that `Sched` uses. Whether a function ends in
`fos_scheduler` depends on state that only `Sched` has, so `Schedule` may come or
not between two calls.

**EnvId.** With the real numbers: `NENV` is 1379. The bit operations are constant
operators, of which the proofs assume only what they need; `MCEnvironments` gives
them their real meaning. `curenv` may point to an entry that was freed, since
`free_environment` does not reset it. `dead` is a history variable.

**Placement.** Holes are the gaps between blocks. NEXT FIT is the first hole that
fits from `generalAddress` to the end of the heap, else the lowest one of the heap;
BEST FIT and WORST FIT compare only the holes that a block follows and use the one at
the end of the heap when there is none. `UHeapPlacement` shows that the loops, which
see only the first cell of a block marked, choose exactly this, but for one case: when
NEXT FIT starts inside a hole it may also return NULL (section 6). `SelfTests` can
then use the definitions for a heap of 131072 pages.

**HeapScripts, SelfTests.** A script is the sequence of calls of one test with
the addresses, page-file pages and frames the test demands after each. The
program's heap tables are resident, since the tests ask for a working set of
1000 pages. Addresses are those of the tests; sizes are in kilobytes.

**ReplacementTests.** A script is the sequence of pages a test touches and the
working set it compares with. The layout (code in page 0x800, the globals and
the start of `arr` in 0x803, the stack in 0xeebfd) comes from the addresses
the tests themselves list. A clock interrupt may come at any access. The test
of the stack asks for a working set of 6 entries and runs here with 9, as the
others do. All checks of the tests are there; the last one of
`tst_page_replacement_FIFO_2` is a property of its own, `FinalCheckAsTested`.

**Console.** `cons_getc` and `cons_getc2` poll the devices, and nothing else
calls the handlers, so one call is one step; keys arrive between steps. There is
one key of every kind the code tells apart. `waiting`, `overrun`, `entered` and
`ups` are history variables: what was put into the buffer and not yet handed
out, whether it ever held too much, the lines entered, and the UP keys in a row.

**KernelVM.** Booting is a function from a machine (memory size, image, sizes of
the arrays, what was in memory before) to the page directory, tables, arrays and
free list it leaves, in the order of the calls in the code, which matters:
`boot_map_range` may allocate page tables while it maps.

**Loader.** `env_create` over several segments. A byte of the file is named by
its offset, so that a byte in the wrong place is a wrong value. The path into
the working set and the path into the page file are separate definitions, as
they are separate code. The panic on a full table working set and the program
`tpp`, whose symbols are all loaded, are there.

**BootLoader, Stabs.** `cmain` with the header it reads first and its stop when that
is no ELF header; `debuginfo_eip` with its choice between the kernel's symbols and
the program's, and its refusal of a table without strings.

**Library.** One call is one step, and its result a value that a property
compares with a reference definition. Numbers are 8 bits wide instead of 32 and
wrap in the same way.

## 3. Runs

| Run | Instance | Result |
|---|---|---|
| `paging_replacement` | 1 environment, 4 pages in 2 tables, working set of 2, 4 frames, LRU, FIFO and CLOCK | 196 000 states |
| `programs` | instructions: 1 environment, 4 pages, working set of 2, the three algorithms; `malloc`: heap of 6 pages, requests up to 7, the four strategies and an unknown one set at any time; fairness | 672 000 states |
| `paging_accounting` | 2 environments, 3 pages each, 5 frames and 4 disk frames for up to 8 and 6 uses, FIFO | 300 000 states |
| `environments` | 4 environments in the scheduler and on the lists; 5 entries with identifiers: 0, 1, 2, 34, 1378; fairness | 287 000 states |
| `kernel` | kernel heap of 6 pages, 3 frames, requests up to 3; every test of `HeapScripts` at real sizes; screen of 3 by 3, buffer of 3, line of 4, history of 2, 5 keys of 7 kinds, 2 modifiers; 8-bit numbers, texts and arrays up to 5, tables of 4, pages of 4 and 8 bytes; fairness | 534 000 states |
| `replacement_tests` | working set of 9, the pages of the tests, at most one clock interrupt anywhere, fairness | 46 000 states |
| `sched_self_kill` | the scheduler of `environments` | `ReturnsToReady` violated |
| `next_fit_null` | heap of 4 pages, NEXT FIT | `NullMeansNoSpace` violated |
| `env_ids` | as `environments` | `StaleIdsRejected` violated |
| `fifo2_final` | as `replacement_tests` | `FinalCheckAsTested` violated |
| `stab_binsearch` | the library of `kernel`, tables of 5 | `RegionHoldsAddress` violated |
| `paging_switch` | the library of `kernel` | `MappingMaintained` violated |

What the passing runs show.

- *Paging.* `WSMatchesPageTable`: working set and page tables describe the same
  pages after any mixture of faults, `freeMem` and kills, so the handler never
  overwrites a live entry. `EvictionLeavesAFrame`: once a victim is out, the
  handler cannot panic for want of a frame. `RecentlyUsedSpared`: CLOCK and LRU
  evict a page that was used only if all were. `FramesExact`,
  `DiskAccounting`: no frame or disk frame is shared, freed early or
  lost, except by a panic in the loader. `PagingIsTransparent`: none of it can
  be seen by a program while the page file has room. `LossOnlyWithoutDiskFrame`:
  with a full page file a program loses what it wrote in one way only, at the
  eviction of a page that has no disk frame; no other environment, no allocation
  and no `freeMem` changes its memory. `TypeOK` includes the bound that makes
  the constant 1e9 of the LRU search meaningful.
- *CPU.* `InstructionCompletes`: no algorithm lets an instruction fault for ever.
- *User heap.* `BlocksDisjoint`, `PageFileMatchesBlocks`, `NeverInsideABlock`:
  the searches are safe although they read a table in which the inside of a
  block looks free, and although the strategy changes between and during calls;
  blocks come to overlap in one way only, a `FallThrough` to a place that is taken.
  `NullOnlyWhenFull`, `ChoiceIsPlacement`, `MallocReturns`: until then they choose
  what the strategy promises, and end.
- *Kernel heap.* `ReverseMapExact`, `BlocksIntact`, `RefsExact`, `NoOrphans`:
  the reverse map is the inverse of the page tables, live blocks stay mapped,
  counts are the numbers of mappings, and only a panic leaves pages behind.
- *Scheduler.* `QueuesConsistent`, `PromptOnlyWhenIdle`: queues, statuses,
  `sched_next`, `curenv` and `scheduler_status` agree through kills, exits
  and panics in any order. `NobodyOvertaken`, `EveryoneRuns`: newcomers cannot
  delay those who wait.
- *Queues.* `QueuesExact`: in memory every list is, forwards, backwards and by its
  size, the sequence `Sched` has, also between two turns of a loop that removes the
  element it stands on or puts it on another list. `NobodyMissed`: `sched_run_all`
  and `sched_kill_all` end only when nobody is left, and a search passes nobody it
  looks for. `CallReturns`: no loop goes round for ever.
- *Identifiers.* `LiveIdsDistinct`: live identifiers are positive and differ,
  although they are put together with a mask that is none. That a dead environment's
  identifier is refused is false (`env_ids`).
- *Heap tests.* `TestsPass`: the models return the addresses and counts that
  the authors' tests print "Congratulations" for, which ties the models to the
  code by evidence that does not come from reading it; and the page tables of
  the heap are exactly those of its resident pages.
- *Replacement tests.* `ReplacementAsTested`: the working sets are, entry by
  entry, those the tests list, wherever a clock interrupt comes; replacement
  takes no frame, and evicted stack pages come back with what was written.
  All but the last check of FIFO_2, which fails (`fifo2_final`).
  `TestEnds`: every test gets to its end.
- *Console.* `InputInOrder`: no character is lost, doubled or reordered unless
  the buffer is overrun. `EditorConsistent`: the line, the screen and the
  history agree through rubbing out, wrapping, scrolling, completion and
  recall, and the line stays in its buffer. `NoStuckModifier`: no shift, control
  or alt state outlives its key. `PromptDrains`: what waits at the prompt is read.
- *Library.* `TextExact` joins `FormattingExact` (`cprintf` fills its fields and
  `strtol` reads back what it printed) and `BuffersExact` (`snprintf`, `cprintf`,
  `strsplit`, `memmove`, `strlcpy` and `strncpy` lose nothing that fits and write
  nothing past the end). `SymbolsFound`: `stab_binsearch` and `debuginfo_eip` find
  the entry an address belongs to, and nothing is said where `stab_binsearch` breaks
  its promise (the run of that name). `SortsArrays`: both sorts sort. `StartUpExact`
  joins `ImagesExact` (kernel and programs are loaded byte for byte, into memory
  and into the page file) and `KernelBooted` (the kernel's address space is what
  `check_boot_pgdir` asserts and more, programs can only read what they should, and
  no frame on the free list is in use). Where the code does less than its comment
  says and no run is about it, the property states the case it leaves out (see
  section 6).

**Why the bounds are enough.** A working set of 2 has every case of a larger one
that the code distinguishes: full or not, an empty entry at or away from the index,
the victim being the next index or not. 4 pages in 2 tables allow a table that
becomes empty and one that the loop of `freeMem` visits past its range. With 5
frames two environments cannot both have all they want, so every panic happens; with
4 disk frames the page file is full before both have all their pages, while
`paging_replacement` has enough for all, which the refinement needs. A heap of 6
holds three blocks with holes between and after them. `programs` does not look
further once `intact` is FALSE (the state constraint `FollowIntact`): it stays so,
and then every property of `UHeap` says nothing. 4 environments are needed for an
insertion before `sched_next` with others on both sides, and for a removal from the
middle of a list. The entries of `EnvId` are those whose index the mask 1378 keeps
(0, 2, 34, 1378) and drops (1). `TopBit` = 2 and `MinTime` = 1 stand for 2^31 and
1e9: all that matters is `StampAssumption`; `replacement_tests` uses 2^29 and 2^28,
so that the stamps of several turns stay apart within TLC's integers. On a screen of
3 by 3 a line of 4 wraps and scrolls, a buffer of 3 wraps and overflows, and a
history of 2 goes round with three lines. The texts, tables and arrays of `kernel`
are longer than every buffer or limit they meet.

**Symmetry.** `allocate_frame` takes the head of a list whose order depends on
history; the model takes any free frame. `paging_replacement` uses TLC's symmetry on
frames and disk frames. `paging_accounting` takes the action constraint
`TakesLeast`, by which every step takes the least free frame: the same reduction by
hand, since no action compares frames.

**Deadlock** is checked in `environments` and `kernel`. The others have `Paging` or
one of its extensions, where the machine may stop: an environment whose loading
panicked stays in its entry for ever, and a replacement test ends.

## 4. Fairness

A run of several components has the fairness of each. Where a component starts none
of its fair actions is enabled, so this asks nothing of a behaviour in which it stays
there.

- `PagingCPU`: weak fairness of the handlers and of the processor's next access
  or fault. The kernel is not interrupted and its loops are bounded. Nothing is
  assumed of the clock or of system calls.
- `UHeap`: weak fairness of a call of `malloc`, sequential code of a process that gets
  the processor again and again (`EveryoneRuns`). Nothing is assumed of `SetStrategy`.
- `Sched`: strong fairness of the clock interrupt, since `env_run` calls
  `kclock_resume` and the timer counts on across other traps; weak fairness of
  the end of a trap. Strong fairness of `EnableInterrupt` is a duty of the
  programs: all those in `user/` pair the two calls, and one that did not would
  stop everyone else.
- `Queue`: weak fairness of the loops, sequential code that nothing interrupts.
- `Console`: weak fairness of the two loops that poll for a character, the
  prompt's and that of a program's `readline`, and of nothing that depends on the
  user.
- `ReplacementTests`: weak fairness of the handlers and of the program's next
  access; interrupts are bounded and not fair.

## 5. Proofs

TLAPS checks these for every value of the constants that the assumptions of the
modules allow. The assumptions say that sizes are naturals, that null values lie
outside their sets, and:

| Assumption | Why the code satisfies it |
|---|---|
| `UHeap`: `Word > N` | 2^32 against 131072 pages |
| `Paging!ValuesAssumption` | `Junk` is none of the values programs write; it only names what nobody wrote |
| `Sched!EnvsAssumption` | `envs[]` is finite |
| `EnvId!NumberAssumption` | `NENV` is 1379, and no more than 1 << `ENVGENSHIFT` (4096), which is an int32 |
| `EnvId!BitAssumption` | 1 << `ENVGENSHIFT` has a single bit, above those of every number below it: `&` gives 0 and `\|` the sum |
| `Console!KeyAssumption` | the keys of an instance are among those of the tables |
| `Console!LineAssumption` | `BUFLEN` is 1024, the screen has 2000 cells, 1920 without the row that scrolling clears |
| `RoomForAll` (of `PagingTransparent` only) | a premise, not a fact: the page file has a frame for every page of every environment. `LossIsConfined` says what happens without it |

*`Paging_proofs`*: `TypeCorrect`, `WorkingSetCorrect`, `PageFileCorrect`,
`FramePoolCorrect`, and of every step `EvictionFreesAFrame` and
`ReplacementSparesUsed`. The handlers are cut into steps, and what the next step
relies on is no property of the data alone: `PlaceInv` (after the eviction the
page is absent, its table present and an entry of the working set empty),
`AllocInv` (the rest of the range is in the heap) and `LoadInv` (the pages loaded
so far fill the working set from its start). `IInv` joins these to the invariants
of the runs, with `FramesExact` split into facts about two entries
(`FramesApart`) and about one frame (`RefsCount`), because a cardinality is not
something the provers follow through a step; it is put together again at the
end. The clock's search is a least counterexample: the first entry from the hand
on without a used bit.

The refinement, in the second half of the module: `LossIsConfined` and
`PagingTransparent`. The mapping `View` reads the page file where a page is not resident, so
each step needs to know what the two copies have in common. `DInv` says it: a
free disk frame holds `Junk`, a page that was not modified since it was brought
in has the same value in both, a resident heap page has a disk frame, and what
the loader has brought in is the program. Each action is then shown to change
`View` in one page by a write or not at all, or to be the eviction of a page that
has no disk frame. With room for all, `Backed` (resident pages of a ready
environment are on disk) excludes the last case; it needs the cardinality of the
disk frames in use.

*`Sched_proofs`*: `QueuesCorrect`, `SchedulerNeverIdles` and `RoundIsKept`.
`IInv` is `QueueInv` (the queues, as sequences without repetition, describe the
statuses, and `sched_next` is in the ready queue) and `CpuInv`. `sched_run_all`
and `sched_kill_all` insert and remove one environment after the other with a
recursive function; their invariant is proved for every number of turns by a
least counterexample. `RoundIsKept` compares the distance of an environment from
`sched_next`, modulo the length of the queue, before and after: a removal in
front shortens it, an insertion goes behind everyone in the round.

*`Console_proofs`*: `InputOrdered` and `ModifiersFollowKeys`. One `cons_getc`
processes all the bytes that wait, so both are about the run of a handler over a
sequence of any length. `BufInv`: what lies between `rpos` and `wpos`, round the
end of the buffer, is `waiting`, and a poll appends what it got. `ShiftInv`: if
the bytes that wait in the controller were all processed now, the shift state
would have only the modes of keys that are down. That is what survives when keys
go up and down while the kernel does not look, and with an empty controller it
is the property.

The second half of the module is about the editor: `EditorCorrect`. The property is
about the screen after strings of any length, so the proof first shows what one
`Putc` does to the text in front of the cursor: a character is added behind it, and
a backspace takes its last one away, also across the end of a row and through a
scroll, as long as the text is no longer than the screen without one row
(`ShowsPut`, `ShowsBack`); then the same for strings (`ShowsText`, `ShowsRubbed`).
The history is a ring of slots, and `BackUp` and `BackWrite` say how UP and Enter
move in it. `EditorInv` is inductive: `EdInv` has the types and that the editor's
places in the history and among the matches exist, `ShowInv` what is on the screen,
`HistInv` that the slots are the last lines entered, and `UpsInv` that after n UPs
the editor's place, and not just the line it shows, is that of the n-th last line;
otherwise the next UP would not follow. There is one lemma per kind of key.

*`InductionLemmas`* makes that possible: induction over a natural by a set whose
least missing element is contradicted (`SetInduction`), existence and uniqueness
of the run of a machine over a sequence (`RunExists`, `RunUnique`), that the
recursive functions `KeysIn` and `PutAll` follow such a run (`FeedExists`,
`FeedLeads`), and that runs can be joined (`LeadsOn`). `RemoveAtFacts` and
`InsertAtFacts` say, element by element, what removal and insertion give.

*`Queue_proofs`*: `QueuesAreExact` and `NobodyLeftOut`, for any number of
environments. The argument has four layers. First each macro link by link: which
links it writes and with what. Then list by list: if memory holds the sequences L,
without an element on two of them, it holds afterwards L without its k-th element
(`Taken`) or with a new one there (`Placed`), and every other list is untouched,
because no link that the macro writes belongs to it. Then the functions of
`sched.c`: they lead from a `Good` memory, in which `sched_next` is on the ready
queue or that is empty, to the one that `ReadyQueue` computes. Last the loops:
`IInv` adds to the two properties that the entries `env_init` has not reached are
on no list, and `Calling`, which lists each function can be on. The loop of
`sched_run_all` stays on the new queue and `sched_exit_env` never looks at the
exit queue, so no loop meets again what it has moved, and the successor it saved
before the body is still the right one after it.

*`EnvId_proofs`*: `IdsCorrect`, that live identifiers differ. The invariant is that
the identifier of entry s is (1 << `ENVGENSHIFT`) + s whenever it is in use, and
that nothing else was ever given out: entries are cleared when they are freed, so
generations never grow.

*`UHeap_proofs`*: `TypeCorrect`, `BlocksNeverOverlap`, `KernelAgrees`,
`SearchOnBoundaries`, `SearchComplete` and `ChoiceCorrect`, with the strategy set to
anything at any step. They hold as long as `intact` does, and cannot hold longer: after
a `FallThrough` over a live block the sizes in `sizeOfVAs` and the page file disagree, a
search may land inside a block, and NEXT FIT's `k` may jump over 0. So what they show
is that the four questions are the only danger: a change of the strategy at any other
moment is harmless, and so is a `FallThrough` to free cells. `OneStrategyKeepsIntact`
is the other half: when the kernel's strategy takes one value only, one of the four,
`intact` is never FALSE, and the theorems hold without a condition. Its invariant is
that `malloc` never gets past the question about that strategy.
`BlocksDisjoint` is not inductive, because a search between two iterations holds
a promise about cells it has passed. `IInv` adds it: `HoleInv` says that the
cells from `j` to `i` are free and `currentSize` counts them; `ScanInv` says that
nothing below the hole being measured fits, unless something was found already,
and that what was found fits; `NeverInsideABlock` and `NextFitCountsDown` keep
the position on a boundary and the countdown in step with it, which is also why
`k` never wraps. There is one lemma per action. `ChoiceCorrect` compares with
reference definitions that speak of holes and not of loops; it leaves open what NEXT
FIT that starts inside a hole does when it finds nothing. `PlacementInv`, on top
of `IInv`, says what a search knows of them: it works in a window (the heap, or for
NEXT FIT the part ahead of or behind `generalAddress`), what it measures begins
where a hole begins, no hole below that fits if nothing was found, and what BEST
FIT or WORST FIT has found is the best of the holes below it, the lowest of equals.

*`KHeap_proofs`*: `HeapTypeCorrect`, `ReverseMapCorrect`, `ReferencesCorrect`,
`LiveBlocksIntact` and `OnlyPanicsLeak`. `IInv` adds `Fresh` (nothing at or above
`firstFreeVAInKHeap` was ever mapped or recorded, so that `map_frame` never meets
a mapping and an address has one table entry), `Table` (recorded blocks,
freed ones too, are disjoint and below the call in progress, and there are no
more of them than pages), `InCall` (a half-done `kmalloc` has room for the
rest), `LiveMapped`, `LostApart` and `Owned`. In `kfree` the exactness of the
reverse map is what shows that no page outside the block loses its frame.

The inductive invariants were checked by TLC as invariants of the same
instances before they were proved (`NextFitCountsDown`, `ChoiceIsFree` and
`FirstFitIsLowest`, parts of that of `UHeap`, are stated there).

*Only model-checked.* Liveness (`MallocReturns`, `InstructionCompletes`,
`EveryoneRuns`, `CallReturns`, `PromptDrains`, `TestEnds`), since TLAPS has no
support here for fairness and `ENABLED`; the library routines, loaders and tests,
which are recursive operators or single calls on data.

## 6. Where code and comments disagree

Six runs end with a counterexample; each checks what a comment, an assertion or a test
says, which `PROJECT.json` quotes.

- `sched_self_kill`: an environment that kills itself is not replaced by the scheduler
  but meets the assertion at the end of `trap`, because `sched_kill_env` compares
  `curenv->env_id` after the entry was cleared. The panic then runs the scheduler, so
  the system goes on; the other properties of `Sched` hold in spite of it.
- `next_fit_null`: NEXT FIT sees a hole that spans its starting cell in two parts, and
  returns NULL although the whole is large enough.
- `env_ids`: `free_environment` clears `env_id`, so an entry gives out the same
  identifier every time and a stale one is accepted. (`ENVX` is wrong as well: it masks
  with `NENV - 1`, and `NENV`, 1379, is no power of two. The identifier of entry 1 is
  0x1001, and `ENVX` of it is 0: the lookup of a live environment fails.)
- `fifo2_final`: the last check of `tst_page_replacement_FIFO_2` expects page 0x80a in
  entry 0, where the model has 0x801. Like the checks that pass, this rests on the
  layout that the tests themselves list; if another page holds a variable or the
  code, the result may differ.
- `stab_binsearch`: when all entries of the type are above the address the region that
  is returned is neither empty nor contains it; `debuginfo_eip` may then name a file's
  own entry as the function.
- `paging_switch`: `turn_on_paging` does not copy the page table `ptr_free_mem` is in,
  so the end of the kernel may not be mapped to itself while it still runs there.

No comment speaks of the next one, so it is no finding: with another program calling
`sys_set_uheap_strategy`, `malloc` may match no strategy and allocate over a live block
(`FallThrough`). `ChoiceIsFree`, which is proved while `intact` holds, fails without
that condition: with NEXT FIT and FIRST FIT alternating TLC needs 12 states.

The others are left out of the properties, which say for which inputs they hold:

- `allocateMem` ignores a full page file, and so does the growth of the stack
  (`LossOnlyWithoutDiskFrame`).
- `cons_getc2` hands out a waiting character only if a key was finished by this
  very poll, although the comment calls it the same as `cons_getc`; the rest
  waits for the next key or for the prompt.
- `ltostr` stops at an inner digit 0 and loses the digits above it
  (`LtostrExact`). `%5d` of a negative number puts the sign before the blanks, and
  `%-5d` pads with `-` on the left (`ParsesWhatItPrints`).
- `readseg` reads whole sectors; "we load in increasing order" does not save the
  end of a segment from the sector where the next begins, if the two are not as
  far apart in the file as in memory (`SegmentsLoaded`).
- `env_create` writes the page file's copy of a segment that starts inside a page
  and ends in it twice, the second time at the wrong offset (`ImageLoaded` is stated
  for the other segments). `ptr_zero_page` is cleared for 1024 bytes only, a quarter
  of it: the rest is as it was in memory, which emulators leave 0.
- Page tables made at boot are not cleared (`UserOnlyReads` is stated for memory that
  was 0). `boot_allocate_space` never compares with the end of memory, though its
  comment says it should panic, and `detect_memory` finds no frames at all without
  extended memory: `KernelBooted` is stated for machines that hold the boot
  allocations.

Not reached by a property: `quicksort.c` divides by zero for fewer than three
elements (`i % Repetition`); programs declare `char Line[255]` where `readline`
writes up to `BUFLEN` characters; `kmalloc`'s `size+PAGE_SIZE-1` wraps for sizes
close to 2^32.

## 7. Not modelled

- `malloc(0)`, `free(NULL)` and `kfree` of an address that `kmalloc` did not return,
  which read uninitialised locals, and `kmalloc(0)`; the kernel and the programs
  in `user/` do none of this.
- `kmallocFirstFit`, `kmallocBestFit` and `kern/uheap.c`: never called or built.
- Raw mapping system calls (`__sys_allocate_page` and its kin), `moveMem` and
  the shared heap; the memory-inspection commands of the prompt.
- `LIST_INSERT_AFTER` and `LIST_CONCAT`, which the kernel does not use; the links of
  the frame lists (sets in `Paging` and `KHeap`); the table working set; page
  buffering; shared memory and semaphores; the timer, interrupt controller and disk
  drivers; the segment registers and descriptor tables.
- The permission check of `envid2env`: every caller passes 0.
- Tests of what the source does not implement: `tst_realloc_*`, the shared
  memory and semaphore tests, `tst_page_replacement_mod_clock`, `tstmod1`. Tests
  whose demands depend on unknown layout or on very long loops: `tst_free_3`,
  `tst_placement`, `tst_malloc_2`, `tst_freeRAM`, `tst_invalid_access`,
  `heap_program`.

## 8. Plan

Done, in this order: `Paging` with `FlatMemory`, `PagingCPU`, `UHeap` and its
proofs, `Sched`, `EnvId`, `KHeap` and its proofs; then the full page file in
`Paging`, `Placement`, the tests, the console, the library routines, start-up,
`Loader` and `Queue`; then the proofs about `Paging` with the refinement, about
`Sched` and about `Console`; then `ChoiceIsPlacement`, `EnvId` and `Queue`, with
their proofs; then the strategy as a variable of the kernel, and the runs that show
where the code differs from its comments and tests. Left: the raw mapping system
calls in `Paging`, and `Sched` composed with it.
