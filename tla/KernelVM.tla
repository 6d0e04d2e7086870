----------------------------- MODULE KernelVM -------------------------------
(***************************************************************************)
(* The boot of the kernel's memory: detect_memory, initialize_kernel_VM    *)
(* with boot_allocate_space, boot_map_range and boot_get_page_table, the   *)
(* switch to paging, and initialize_paging.  kern/memory_manager.c and     *)
(* kern/helpers.c.                                                         *)
(*                                                                         *)
(* Physical addresses are bytes, a page is its number.  An entry of the    *)
(* directory or of a table is [frame, perm]; ram holds the frames that are *)
(* used as tables.  USE_KHEAP is 1.  The kernel runs alone: booting is one *)
(* computation, from the machine m to the state b it leaves.               *)
(***************************************************************************)
EXTENDS Integers

CONSTANTS
    Entries,            \* NPDENTRIES and NPTENTRIES
    KernelTables,       \* directory entries at and above KERNEL_BASE
    PageBytes,          \* PAGE_SIZE
    IoFrame,            \* PHYS_IO_MEM / PAGE_SIZE
    ExtFrame,           \* PHYS_EXTENDED_MEM / PAGE_SIZE
    Frame16M,           \* the first frame CMOS register 0x34 counts
    BlockFrames,        \* the frames in a unit of that register (64K)
    FrameInfoSize,      \* sizeof(struct Frame_Info)
    StackPages          \* KERNEL_STACK_SIZE / PAGE_SIZE

ASSUME KernelVMAssumption ==
    /\ {PageBytes, BlockFrames, FrameInfoSize, StackPages} \subseteq Nat \ {0}
    /\ KernelTables \in Nat \ {0} /\ KernelTables + 5 < Entries
    /\ 3 <= IoFrame /\ IoFrame <= ExtFrame /\ ExtFrame <= Frame16M

\* inc/memlayout.h, as directory entries.
KernelBase == Entries - KernelTables
VPT        == KernelBase - 1
KStackTop  == VPT                   \* the stack ends where VPT starts
UserLimit  == KStackTop - 1
UVPT       == UserLimit - 1
UENVS      == UVPT - 2

PDX(page)       == page \div Entries
PTX(page)       == page % Entries
VirtualOf(pd)   == pd * Entries     \* the first page of a directory entry
PagesIn(size)   == (size + PageBytes - 1) \div PageBytes
RoundUp(addr)   == PagesIn(addr) * PageBytes
NoEntry         == [frame |-> 0, perm |-> {}]

-----------------------------------------------------------------------------
\* What CMOS tells of a machine with n frames: the memory above 1 MB, and the
\* blocks above 16 MB.
NvramExt(n)   == IF n > ExtFrame THEN n - ExtFrame ELSE 0
NvramOther(n) == IF n > Frame16M THEN (n - Frame16M) \div BlockFrames ELSE 0

\* number_of_frames.  Without extended memory it is 0.
detect_memory(ext, other) ==
    IF other > 0 THEN other * BlockFrames + Frame16M
    ELSE IF ext > 0 THEN ExtFrame + ext ELSE 0

-----------------------------------------------------------------------------
\* The space starts at ptr (in pages) and ptr_free_mem moves past it.
boot_allocate_space(b, size) ==
    [b EXCEPT !.ptr = PagesIn(b.free), !.free = RoundUp(b.free) + size]

SetEntry(b, frame, i, entry) == [b EXCEPT !.ram[frame][i] = entry]
DirEntry(b, pd) == b.ram[b.dir][pd]

\* Mutant: the permissions of a new directory entry are left to the pages.
TablePerm_User == {"P", "W", "U"}
\* The permissions of the directory entry of a new table.
TablePerm == {"P", "W"}

\* The page table of directory entry pd exists afterwards.  A new one is not
\* cleared: its entries are what was in memory.
boot_get_page_table(b, pd) ==
    IF DirEntry(b, pd).frame # 0 THEN b
    ELSE LET a == boot_allocate_space(b, PageBytes)
         IN  SetEntry(a, a.dir, pd, [frame |-> a.ptr, perm |-> TablePerm])

RECURSIVE boot_map_range(_, _, _, _, _)
boot_map_range(b, page, size, frame, perm) ==
    IF size <= 0 THEN b
    ELSE LET t == boot_get_page_table(b, PDX(page))
             s == SetEntry(t, DirEntry(t, PDX(page)).frame, PTX(page),
                           [frame |-> frame, perm |-> perm \cup {"P"}])
         IN  boot_map_range(s, page + 1, size - PageBytes, frame + 1, perm)

\* The loop over sva: every table of the kernel.
RECURSIVE BootTables(_, _)
BootTables(b, pd) ==
    IF pd = Entries THEN b ELSE BootTables(boot_get_page_table(b, pd), pd + 1)
\* Mutant: the tables are made when a mapping first needs them.
KernelTablesFirst_Lazy(b) == b
KernelTablesFirst(b) == BootTables(b, KernelBase)

setup_listing(b) ==
    SetEntry(SetEntry(b, b.dir, VPT, [frame |-> b.dir, perm |-> {"P", "W"}]),
             b.dir, UVPT, [frame |-> b.dir, perm |-> {"P", "U"}])

-----------------------------------------------------------------------------
\* A machine: the bytes of the kernel image, the frame of ptr_stack_bottom, the
\* frames, the sizes of the arrays disk_frames_info and envs, and what a word of
\* memory holds that nobody wrote yet.
PowerOn(m) ==
    [free |-> m.end, ptr |-> 0, dir |-> 0, frames_info |-> 0, disk_frames_info |-> 0, envs |-> 0,
     ram |-> [f \in 0 .. m.frames - 1 |-> [i \in 0 .. Entries - 1 |-> m.fill]],
     window |-> <<>>]

AllocateDirectory(b) ==
    LET a == boot_allocate_space(b, PageBytes)
    IN  [a EXCEPT !.dir = a.ptr, !.ram[a.ptr] = [i \in 0 .. Entries - 1 |-> NoEntry]]
MapStack(b, m) ==
    boot_map_range(b, VirtualOf(KStackTop) - StackPages, StackPages * PageBytes, m.stack, {"W"})
AllocateFramesInfo(b, n) ==
    LET a == boot_allocate_space(b, n * FrameInfoSize) IN [a EXCEPT !.frames_info = a.ptr]
AllocateDiskFramesInfo(b, m) ==
    LET a == boot_allocate_space(b, m.disk) IN [a EXCEPT !.disk_frames_info = a.ptr]
AllocateEnvs(b, m) ==
    LET a == boot_allocate_space(b, m.envs)
        s == boot_map_range([a EXCEPT !.envs = a.ptr], VirtualOf(UENVS), m.envs, a.ptr, {"U"})
    IN  SetEntry(s, s.dir, UENVS, [DirEntry(s, UENVS) EXCEPT !.perm = @ \cup {"U", "P"}])
\* The size is that of what was allocated before the call.
MapKernel(b) == boot_map_range(b, VirtualOf(KernelBase), b.free, 0, {"W"})

initialize_kernel_VM(m, n) ==
    MapKernel(AllocateEnvs(setup_listing(AllocateDiskFramesInfo(AllocateFramesInfo(
        KernelTablesFirst(MapStack(AllocateDirectory(PowerOn(m)), m)), n), m)), m))

-----------------------------------------------------------------------------
\* Mutant: the last whole table is left out too.
TablesCopied_Short(b) == PDX(b.free \div PageBytes) - 1
\* How many tables turn_on_paging shows at address 0 as well: those before the
\* one ptr_free_mem is in.
TablesCopied(b) == PDX(b.free \div PageBytes)

\* While the segments still have the base -KERNEL_BASE, the directory is the
\* one in window; then its first entries are cleared.
turn_on_paging(b) ==
    LET low(f(_)) == [i \in 0 .. Entries - 1 |->
                        IF i < TablesCopied(b) THEN f(i) ELSE DirEntry(b, i)]
    IN  [b EXCEPT !.window = low(LAMBDA i : DirEntry(b, KernelBase + i)),
                  !.ram[b.dir] = low(LAMBDA i : NoEntry)]

\* Mutant: range_end is the frame of ptr_free_mem's last byte.
RangeEnd_LastByte(b) == (b.free - 1) \div PageBytes
\* range_end, in frames.
RangeEnd(b) == PagesIn(b.free)

\* free_frame_list and the frames with a reference.
initialize_paging(b, n) ==
    [free |-> (3 .. IoFrame - 1) \cup (RangeEnd(b) .. n - 1),
     referenced |-> (0 .. 2) \cup (IoFrame .. ExtFrame - 1) \cup (ExtFrame .. RangeEnd(b) - 1)]

\* The part of FOS_initialize that sets up memory.
BootMemory(m) ==
    LET n == detect_memory(NvramExt(m.frames), NvramOther(m.frames))
        b == turn_on_paging(initialize_kernel_VM(m, n))
    IN  [n |-> n, b |-> b, pool |-> initialize_paging(b, n)]
=============================================================================
