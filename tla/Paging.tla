------------------------------- MODULE Paging -------------------------------
(***************************************************************************)
(* Demand paging in FOS: the page working set of every environment, its    *)
(* page tables, the pool of physical frames, the page file, the page-fault *)
(* handler with the replacement algorithms it implements, the system calls *)
(* allocateMem and freeMem behind malloc and free, the program loader and  *)
(* env_free.  kern/trap.c, kern/memory_manager.c, kern/file_manager.c,     *)
(* kern/user_environment.c and update_WS_time_stamps of kern/sched.c.      *)
(*                                                                         *)
(* The kernel runs with interrupts disabled, so a trap is one critical     *)
(* section.  A handler that can fail half-way is cut into steps at the     *)
(* points where it can fail; kpc is then not "user", and no other          *)
(* environment moves until the handler is done.                            *)
(*                                                                         *)
(* Abstractions.  A page's 4096 bytes are one value.  free_frame and       *)
(* free_disk_frame leave stale bytes behind; here they leave Junk, which   *)
(* stands for every value.  Page directories, working-set arrays and disk  *)
(* page tables are not charged to Frames, and the kernel heap is assumed   *)
(* to have addresses left (KHeap is about that limit).                     *)
(***************************************************************************)
EXTENDS Integers, FiniteSets

CONSTANTS
    Envs,           \* the entries of envs[]
    Frames,         \* physical frames
    DiskFrames,     \* frames of the page file
    NProg,          \* pages 0 .. NProg-1 of every environment: its program
    NHeap,          \* the next NHeap pages: the user heap
    NStack,         \* the last NStack pages: USTACKBOTTOM .. USTACKTOP
    PagesPerTable,  \* entries of a page table (1024)
    WSMax,          \* page_WS_max_size
    LoadMax,        \* program pages the loader brings into memory at most (6)
    TopBit,         \* 0x80000000, the bit a use sets in a time stamp
    MinTime,        \* 1e9, where the LRU search starts
    Values,         \* what user code can write into a page
    Algorithms,     \* replacement algorithms to consider
    NoFrame,        \* a page table or page directory entry of 0
    NoDisk,         \* disk frame number 0
    NoEnv           \* no handler is running

ASSUME SizeAssumption ==
    /\ NProg \in Nat /\ NHeap \in Nat /\ NStack \in Nat \ {0}
    /\ PagesPerTable \in Nat \ {0}
    /\ WSMax \in Nat \ {0}
    /\ LoadMax \in Nat

\* A stamp is its old value shifted right by two with the top bit set or not,
\* so it never exceeds 4/3 of the top bit: 1e9 tells used from unused.
ASSUME StampAssumption ==
    /\ TopBit \in Nat \ {0} /\ MinTime \in Nat
    /\ TopBit < 3 * MinTime
    /\ MinTime <= TopBit

ASSUME AlgorithmAssumption ==
    Algorithms \subseteq {"LRU", "FIFO", "CLOCK", "MODIFIEDCLOCK"}

ASSUME FiniteAssumption ==
    /\ IsFiniteSet(Envs) /\ IsFiniteSet(Frames) /\ IsFiniteSet(DiskFrames)

NPages == NProg + NHeap + NStack
Pages  == 0 .. NPages - 1
Prog   == 0 .. NProg - 1
Heap   == NProg .. NProg + NHeap - 1
Stack  == NProg + NHeap .. NPages - 1

NoPage  == -1                       \* virtual_address = 0, empty = 1

ASSUME NoneAssumption ==
    NoFrame \notin Frames /\ NoDisk \notin DiskFrames /\ NoEnv \notin Envs

\* "unmapped" is what View shows where a program has no page.
ASSUME ValuesAssumption == "unmapped" \notin Values

Image == "image"                    \* what the loader puts in a page
Junk  == "junk"                     \* bytes nobody defined

TableOf(p) == p \div PagesPerTable  \* PDX
Tables     == {TableOf(p) : p \in Pages}
Idx        == 0 .. WSMax - 1

VARIABLES
    algo,       \* _PageRepAlgoType
    status,     \* env_status: "free", "loading", "ready", "exit", "stuck"
    ws,         \* ptr_pageWorkingSet[i].virtual_address, per environment
    stamp,      \* ptr_pageWorkingSet[i].time_stamp
    last,       \* page_last_WS_index
    frameOf,    \* the frame in the page table entry of a page
    used,       \* the pages whose entry has PERM_USED
    modified,   \* the pages whose entry has PERM_MODIFIED
    table,      \* the frame of a page table, per environment
    refs,       \* Frame_Info.references
    free,       \* free_frame_list
    content,    \* what a frame holds
    pf,         \* the disk frame of a page: the disk page tables
    diskFree,   \* disk_free_frame_list
    disk,       \* what a disk frame holds
    kpc, kenv, kva, kn, kidx  \* the handler in progress and its locals

envVars   == <<status, ws, stamp, last>>
pteVars   == <<frameOf, used, modified, table>>
frameVars == <<refs, free, content>>
diskVars  == <<pf, diskFree, disk>>
kVars     == <<kpc, kenv, kva, kn, kidx>>
vars      == <<algo, envVars, pteVars, frameVars, diskVars, kVars>>

-----------------------------------------------------------------------------
(***************************************************************************)
(* Initial state: initialize_paging, initialize_disk_page_file, env_init.  *)
(***************************************************************************)
Init ==
    /\ algo \in Algorithms
    /\ status = [e \in Envs |-> "free"]
    /\ ws = [e \in Envs |-> [i \in Idx |-> NoPage]]
    /\ stamp = [e \in Envs |-> [i \in Idx |-> 0]]
    /\ last = [e \in Envs |-> 0]
    /\ frameOf = [e \in Envs |-> [p \in Pages |-> NoFrame]]
    /\ used = [e \in Envs |-> {}]
    /\ modified = [e \in Envs |-> {}]
    /\ table = [e \in Envs |-> [t \in Tables |-> NoFrame]]
    /\ refs = [f \in Frames |-> 0]
    /\ free = Frames
    /\ content = [f \in Frames |-> Junk]
    /\ pf = [e \in Envs |-> [p \in Pages |-> NoDisk]]
    /\ diskFree = DiskFrames
    /\ disk = [d \in DiskFrames |-> Junk]
    /\ kpc = "user" /\ kenv = NoEnv /\ kva = 0 /\ kn = 0 /\ kidx = 0

\* Back to user mode: the handler's locals die with it.
ReturnToUser ==
    kpc' = "user" /\ kenv' = NoEnv /\ kva' = 0 /\ kn' = 0 /\ kidx' = 0

\* _panic while curenv is READY: env_exit moves it to the exit queue; its
\* memory stays until it is killed.
PanicExit(e) ==
    /\ status' = [status EXCEPT ![e] = "exit"]
    /\ ReturnToUser

\* _panic in the loader: the half-built environment is on no queue, and nothing
\* ever frees it.  The environment that asked for it, if any, exits.
PanicLoad(e) ==
    /\ \E caller \in SUBSET {g \in Envs : status[g] = "ready"} :
          /\ Cardinality(caller) <= 1
          /\ status' = [g \in Envs |-> IF g = e THEN "stuck"
                                     ELSE IF g \in caller THEN "exit" ELSE status[g]]
    /\ ReturnToUser

\* Mutant of TakeFrames: LIST_REMOVE is forgotten.
TakeFrames_StayListed(F) ==
    /\ free' = free
    /\ refs' = [f \in Frames |-> IF f \in F THEN refs[f] + 1 ELSE refs[f]]

\* allocate_frame takes frames off the free list; each is then mapped once.
TakeFrames(F) ==
    /\ free' = free \ F
    /\ refs' = [f \in Frames |-> IF f \in F THEN refs[f] + 1 ELSE refs[f]]

WSPages(e) == {ws[e][i] : i \in Idx} \ {NoPage}
WSFull(e)  == \A i \in Idx : ws[e][i] # NoPage

-----------------------------------------------------------------------------
(***************************************************************************)
(* The processor: an access to a present page sets the accessed bit, a     *)
(* write the dirty bit too.                                                *)
(***************************************************************************)
Running(e) == kpc = "user" /\ status[e] = "ready"

MMURead(e, p) ==
    /\ Running(e) /\ frameOf[e][p] # NoFrame
    /\ used' = [used EXCEPT ![e] = @ \cup {p}]
    /\ UNCHANGED <<algo, envVars, frameOf, modified, table, frameVars, diskVars, kVars>>

MMUWrite(e, p, v) ==
    /\ Running(e) /\ frameOf[e][p] # NoFrame
    /\ used' = [used EXCEPT ![e] = @ \cup {p}]
    /\ modified' = [modified EXCEPT ![e] = @ \cup {p}]
    /\ content' = [content EXCEPT ![frameOf[e][p]] = v]
    /\ UNCHANGED <<algo, envVars, frameOf, table, refs, free, diskVars, kVars>>

-----------------------------------------------------------------------------
(***************************************************************************)
(* update_WS_time_stamps: stamps age, and a use since the last call sets   *)
(* the top bit and is forgotten.  The stamps of the table working set feed *)
(* no decision of this kernel.                                             *)
(***************************************************************************)
\* Mutant of AgedStamp: a shift by one.
AgedStamp_ShiftByOne(e) ==
    [i \in Idx |->
        IF ws[e][i] = NoPage THEN stamp[e][i]
        ELSE (stamp[e][i] \div 2) + (IF ws[e][i] \in used[e] THEN TopBit ELSE 0)]

AgedStamp(e) ==
    [i \in Idx |->
        IF ws[e][i] = NoPage THEN stamp[e][i]
        ELSE (stamp[e][i] \div 4) + (IF ws[e][i] \in used[e] THEN TopBit ELSE 0)]

AgedUsed(e) == used[e] \ WSPages(e)

\* What the fault handler finds: trap_dispatch ages the stamps first under LRU.
StampAtFault(e) == IF algo = "LRU" THEN AgedStamp(e) ELSE stamp[e]
UsedAtFault(e)  == IF algo = "LRU" THEN AgedUsed(e) ELSE used[e]

\* The clock interrupt of clock_interrupt_handler; the switch of environment
\* is the scheduler's.
ClockTick(e) ==
    /\ Running(e) /\ algo = "LRU"
    /\ stamp' = [stamp EXCEPT ![e] = AgedStamp(e)]
    /\ used' = [used EXCEPT ![e] = AgedUsed(e)]
    /\ UNCHANGED <<algo, status, ws, last, frameOf, modified, table, frameVars, diskVars, kVars>>

-----------------------------------------------------------------------------
(***************************************************************************)
(* fault_handler on a page whose page table is missing: create_page_table  *)
(* takes a frame for it through kmalloc.                                   *)
(***************************************************************************)
TableFault(e, p) ==
    /\ Running(e) /\ table[e][TableOf(p)] = NoFrame
    /\ stamp' = [stamp EXCEPT ![e] = StampAtFault(e)]
    /\ used' = [used EXCEPT ![e] = UsedAtFault(e)]
    /\ \/ /\ free = {}
          /\ PanicExit(e)
          /\ UNCHANGED <<table, refs, free>>
       \/ \E f \in free :
             /\ TakeFrames({f})
             /\ table' = [table EXCEPT ![e][TableOf(p)] = f]
             /\ UNCHANGED <<status, kVars>>
    /\ UNCHANGED <<algo, ws, last, frameOf, modified, content, diskVars>>

-----------------------------------------------------------------------------
(***************************************************************************)
(* page_fault_handler: choose a victim when the working set is full.       *)
(***************************************************************************)
\* Mutant of LRUVictim: the search keeps the greatest stamp.
LRUVictim_Greatest(e, st) == CHOOSE i \in Idx : \A j \in Idx : st[i] >= st[j]

\* The first index with the least stamp below MinTime, or page_last_WS_index
\* when every page was used since the last aging.
LRUVictim(e, st) ==
    LET cand == {i \in Idx : st[i] < MinTime}
    IN  IF cand = {} THEN last[e]
        ELSE CHOOSE i \in cand :
                \A j \in cand : st[i] < st[j] \/ (st[i] = st[j] /\ i <= j)

Slot(e, k) == (last[e] + k) % WSMax

\* The clock hand starts at page_last_WS_index, clears PERM_USED of what it
\* passes and stops at the first page without it; after a full round that is
\* where it started.
ClockPassed(e) ==
    {k \in Idx : \A j \in 0 .. k : ws[e][Slot(e, j)] \in used[e]}

\* Mutant of ClockVictim: the hand moves on once more.
ClockVictim_OneTooFar(e) == Slot(e, (Cardinality(ClockPassed(e)) + 1) % WSMax)

ClockVictim(e) == Slot(e, Cardinality(ClockPassed(e)) % WSMax)

Victim(e) ==
    IF algo = "LRU" THEN LRUVictim(e, StampAtFault(e))
    ELSE IF algo = "CLOCK" THEN ClockVictim(e)
    ELSE last[e]

UsedAfterChoice(e) ==
    IF algo = "CLOCK" THEN used[e] \ {ws[e][Slot(e, k)] : k \in ClockPassed(e)}
    ELSE UsedAtFault(e)

\* Mutant of DiskAfterUpdate: the modified bit is not looked at.
DiskAfterUpdate_Never(e, v) == disk

\* pf_update_env_page: the page file copy of a modified page is brought up to
\* date; a page the page file does not have is E_PAGE_NOT_EXIST_IN_PF, and
\* the caller ignores it.  The temporary mapping at USER_LIMIT adds and takes
\* away one reference.
DiskAfterUpdate(e, v) ==
    IF v \in modified[e] /\ pf[e][v] # NoDisk
    THEN [disk EXCEPT ![pf[e][v]] = content[frameOf[e][v]]]
    ELSE disk

\* Mutant of LastReference: the count is tested before it is decremented.
LastReference_TestedFirst(f) == refs[f] = 0

\* decrement_references reaches 0.
LastReference(f) == refs[f] = 1

\* env_page_ws_clear_entry on the entries in I, over stamps st.
ClearEntries(e, I, st) ==
    /\ ws' = [ws EXCEPT ![e] = [i \in Idx |-> IF i \in I THEN NoPage ELSE ws[e][i]]]
    /\ stamp' = [stamp EXCEPT ![e] = [i \in Idx |-> IF i \in I THEN 0 ELSE st[i]]]

\* unmap_frame on the pages S and kfree of the page tables T of environment e,
\* whose used bits were us: a frame is free once its last reference is gone.
Unmap(e, S, T, us) ==
    LET gone(p) == p \in S \/ TableOf(p) \in T
        dropped == {frameOf[e][p] : p \in S} \cup {table[e][t] : t \in T}
        freed == {f \in dropped : LastReference(f)}
    IN  /\ frameOf' = [frameOf EXCEPT ![e] =
                          [p \in Pages |-> IF gone(p) THEN NoFrame ELSE frameOf[e][p]]]
        /\ used' = [used EXCEPT ![e] = {p \in us : ~gone(p)}]
        /\ modified' = [modified EXCEPT ![e] = {p \in modified[e] : ~gone(p)}]
        /\ table' = [table EXCEPT ![e] =
                          [t \in Tables |-> IF t \in T THEN NoFrame ELSE table[e][t]]]
        /\ refs' = [f \in Frames |-> IF f \in dropped THEN refs[f] - 1 ELSE refs[f]]
        /\ free' = free \cup freed
        /\ content' = [f \in Frames |-> IF f \in freed THEN Junk ELSE content[f]]

Evict(e, i) ==
    /\ disk' = DiskAfterUpdate(e, ws[e][i])
    /\ Unmap(e, {ws[e][i]}, {}, UsedAfterChoice(e))
    /\ ClearEntries(e, {i}, StampAtFault(e))

PageFault(e, p) ==
    /\ Running(e)
    /\ table[e][TableOf(p)] # NoFrame /\ frameOf[e][p] = NoFrame
    /\ kpc' = "place" /\ kenv' = e /\ kva' = p
    /\ \/ /\ WSFull(e)
          /\ kidx' = Victim(e)
          /\ Evict(e, Victim(e))
       \/ /\ ~WSFull(e)
          /\ kidx' = last[e]
          /\ stamp' = [stamp EXCEPT ![e] = StampAtFault(e)]
          /\ used' = [used EXCEPT ![e] = UsedAtFault(e)]
          /\ UNCHANGED <<ws, frameOf, modified, table, frameVars, disk>>
    /\ UNCHANGED <<algo, status, last, pf, diskFree, kn>>

\* Mutant of EmptySlot: the entry is assumed to be empty.
EmptySlot_NoSearch(e) == kidx

\* The first empty slot at or after kidx.
EmptySlot(e) ==
    LET at(k) == (kidx + k) % WSMax
    IN  at(CHOOSE k \in Idx :
            /\ ws[e][at(k)] = NoPage
            /\ \A j \in 0 .. k - 1 : ws[e][at(j)] # NoPage)

\* The disk frames page p can have in the page file: the one it has already, or
\* any that allocate_disk_frame may return; none is E_NO_PAGE_FILE_SPACE.
DiskFrameFor(e, p) == IF pf[e][p] # NoDisk THEN {pf[e][p]} ELSE diskFree

\* pf_add_empty_env_page(e, p, 0): a new disk frame is not initialized.
PfAddEmpty(e, p) ==
    \/ /\ DiskFrameFor(e, p) = {}
       /\ UNCHANGED diskVars
    \/ \E d \in DiskFrameFor(e, p) :
          /\ pf' = [pf EXCEPT ![e][p] = d]
          /\ diskFree' = diskFree \ {d}
          /\ UNCHANGED disk

\* pf_add_env_page, which also writes the page.
PfAddPage(e, p, val) ==
    \/ /\ DiskFrameFor(e, p) = {}
       /\ UNCHANGED diskVars
    \/ \E d \in DiskFrameFor(e, p) :
          /\ pf' = [pf EXCEPT ![e][p] = d]
          /\ diskFree' = diskFree \ {d}
          /\ disk' = [disk EXCEPT ![d] = val]

\* Mutant of MapInto: page_last_WS_index is not moved on.
MapInto_IndexStays(e, p, f, val, i, st) ==
    /\ frameOf' = [frameOf EXCEPT ![e][p] = f]
    /\ content' = [content EXCEPT ![f] = val]
    /\ used' = [used EXCEPT ![e] = @ \cup {p}]
    /\ ws' = [ws EXCEPT ![e][i] = p]
    /\ stamp' = [stamp EXCEPT ![e][i] = st]
    /\ last' = [last EXCEPT ![e] = i]

\* map_frame of a frame just allocated, and env_page_ws_set_entry with the
\* index moved on: page p of environment e goes to entry i with stamp st.
MapInto(e, p, f, val, i, st) ==
    /\ frameOf' = [frameOf EXCEPT ![e][p] = f]
    /\ content' = [content EXCEPT ![f] = val]
    /\ used' = [used EXCEPT ![e] = @ \cup {p}]
    /\ ws' = [ws EXCEPT ![e][i] = p]
    /\ stamp' = [stamp EXCEPT ![e][i] = st]
    /\ last' = [last EXCEPT ![e] = (i + 1) % WSMax]

\* The rest of page_fault_handler: take a frame, map it, read the page from the
\* page file or extend the stack, and record the page in the working set.
Place(val) ==
    \E f \in free :
        /\ TakeFrames({f})
        /\ MapInto(kenv, kva, f, val, EmptySlot(kenv), TopBit)

PlaceFromPageFile ==
    /\ kpc = "place" /\ pf[kenv][kva] # NoDisk
    /\ Place(disk[pf[kenv][kva]])
    /\ ReturnToUser
    /\ UNCHANGED <<algo, status, modified, table, diskVars>>

PlaceNewStackPage ==
    /\ kpc = "place" /\ pf[kenv][kva] = NoDisk /\ kva \in Stack
    /\ Place(Junk)
    /\ PfAddEmpty(kenv, kva)
    /\ ReturnToUser
    /\ UNCHANGED <<algo, status, modified, table>>

\* An address that is neither allocated nor stack: the frame is mapped and
\* unmapped again, then panic("NOT STACK").
PlaceInvalid ==
    /\ kpc = "place" /\ pf[kenv][kva] = NoDisk /\ kva \notin Stack
    /\ free # {}
    /\ PanicExit(kenv)
    /\ UNCHANGED <<algo, ws, stamp, last, pteVars, frameVars, diskVars>>

\* allocate_frame panics.
PlaceNoFrame ==
    /\ kpc = "place" /\ free = {}
    /\ PanicExit(kenv)
    /\ UNCHANGED <<algo, ws, stamp, last, pteVars, frameVars, diskVars>>

-----------------------------------------------------------------------------
(***************************************************************************)
(* The system calls under malloc and free.                                 *)
(***************************************************************************)
AllocateMem(e, va, n) ==
    /\ Running(e) /\ n > 0
    /\ va \in Heap /\ va + n - 1 \in Heap
    /\ kpc' = "alloc" /\ kenv' = e /\ kva' = va /\ kn' = n
    /\ UNCHANGED <<algo, envVars, pteVars, frameVars, diskVars, kidx>>

AllocatePage ==
    /\ kpc = "alloc"
    /\ PfAddEmpty(kenv, kva)
    /\ \/ kn = 1 /\ ReturnToUser
       \/ /\ kn > 1
          /\ kva' = kva + 1 /\ kn' = kn - 1
          /\ UNCHANGED <<kpc, kenv, kidx>>
    /\ UNCHANGED <<algo, envVars, pteVars, frameVars>>

\* Mutant of PfRemove: the entry of the disk page table is not cleared.
PfRemove_EntryKept(e, R) ==
    LET blocks == {pf[e][p] : p \in R} \ {NoDisk}
    IN  /\ UNCHANGED pf
        /\ diskFree' = diskFree \cup blocks
        /\ disk' = [d \in DiskFrames |-> IF d \in blocks THEN Junk ELSE disk[d]]

\* pf_remove_env_page on the pages R.
PfRemove(e, R) ==
    LET blocks == {pf[e][p] : p \in R} \ {NoDisk}
    IN  /\ pf' = [pf EXCEPT ![e] = [p \in Pages |-> IF p \in R THEN NoDisk ELSE pf[e][p]]]
        /\ diskFree' = diskFree \cup blocks
        /\ disk' = [d \in DiskFrames |-> IF d \in blocks THEN Junk ELSE disk[d]]

\* pf_free_env; the frames of the page file's own tables are not modelled.
PfFreeEnv(e) == PfRemove(e, Pages)

\* The tables the last loop of freeMem visits: up to and including the one of
\* the address just after the range.
TablesVisited(va, n) ==
    {t \in Tables : TableOf(va) <= t /\ t * PagesPerTable <= va + n}

\* freeMem: the range leaves the page file, its pages in the working set leave
\* memory, and the visited tables left without an entry are freed.
FreeMem(e, va, n) ==
    LET R == va .. va + n - 1
        hit == {i \in Idx : /\ ws[e][i] \in R
                            /\ \A j \in 0 .. i - 1 : ws[e][j] # ws[e][i]}
        gone == {ws[e][i] : i \in hit}
        emptied == {t \in TablesVisited(va, n) :
                        /\ table[e][t] # NoFrame
                        /\ \A p \in Pages \ gone :
                              frameOf[e][p] # NoFrame => TableOf(p) # t}
    IN  /\ Running(e) /\ n > 0
        /\ va \in Heap /\ va + n - 1 \in Heap
        /\ PfRemove(e, R)
        /\ ClearEntries(e, hit, stamp[e])
        /\ Unmap(e, gone, emptied, used[e])
        /\ UNCHANGED <<algo, status, last, kVars>>

-----------------------------------------------------------------------------
(***************************************************************************)
(* env_create for a program of one segment: the first pages of the program *)
(* are mapped and recorded in the working set, all of it is written to the *)
(* page file, then one stack page is added.                                *)
(***************************************************************************)
LoadCount ==    \* one working-set entry is kept for the stack
    LET least(a, b) == IF a <= b THEN a ELSE b
    IN  least(NProg, least(LoadMax, WSMax - 1))

EnvCreate(e) ==
    /\ kpc = "user" /\ status[e] = "free"
    /\ status' = [status EXCEPT ![e] = "loading"]
    /\ ws' = [ws EXCEPT ![e] = [i \in Idx |-> NoPage]]
    /\ stamp' = [stamp EXCEPT ![e] = [i \in Idx |-> 0]]
    /\ last' = [last EXCEPT ![e] = 0]
    /\ kpc' = "loadws" /\ kenv' = e /\ kva' = 0
    /\ UNCHANGED <<algo, pteVars, frameVars, diskVars, kn, kidx>>

\* allocate_frame panics, either for the page or, in create_page_table, for its
\* missing page table: then the page's frame is lost, neither mapped nor free.
NoFrameAtLoad(e, p) ==
    /\ \/ free = {} /\ UNCHANGED free
       \/ /\ table[e][TableOf(p)] = NoFrame
          /\ Cardinality(free) = 1 /\ free' = {}
    /\ PanicLoad(e)
    /\ UNCHANGED <<algo, ws, stamp, last, pteVars, refs, content, diskVars>>

\* allocate_frame, loadtime_map_frame (with create_page_table if needed) and
\* the working-set entry, for page p of environment e.
MapAtLoad(e, p, val, st) ==
    \E f \in free :
        /\ \/ /\ table[e][TableOf(p)] # NoFrame
              /\ TakeFrames({f})
              /\ UNCHANGED table
           \/ /\ table[e][TableOf(p)] = NoFrame
              /\ \E g \in free \ {f} :
                    /\ TakeFrames({f, g})
                    /\ table' = [table EXCEPT ![e][TableOf(p)] = g]
        /\ MapInto(e, p, f, val, last[e], st)

LoadWSPage ==
    /\ kpc = "loadws" /\ kva < LoadCount
    /\ \/ NoFrameAtLoad(kenv, kva)
       \/ /\ MapAtLoad(kenv, kva, Image, 0)
          /\ kva' = kva + 1
          /\ UNCHANGED <<algo, status, modified, diskVars, kpc, kenv, kn, kidx>>

LoadWSDone ==
    /\ kpc = "loadws" /\ kva = LoadCount
    /\ kpc' = "loadpf" /\ kva' = 0
    /\ UNCHANGED <<algo, envVars, pteVars, frameVars, diskVars, kenv, kn, kidx>>

\* A full page file is a panic here.
LoadPfPage ==
    /\ kpc = "loadpf" /\ kva < NProg
    /\ PfAddPage(kenv, kva, Image)
    /\ IF DiskFrameFor(kenv, kva) = {}
       THEN PanicLoad(kenv)
       ELSE kva' = kva + 1 /\ UNCHANGED <<status, kpc, kenv, kn, kidx>>
    /\ UNCHANGED <<algo, ws, stamp, last, pteVars, frameVars>>

\* The stack page is zeroed in place, after the modified bits were cleared; a
\* full page file is ignored here.
LoadStackPage ==
    /\ kpc = "loadpf" /\ kva = NProg
    /\ \/ NoFrameAtLoad(kenv, NPages - 1)
       \/ /\ MapAtLoad(kenv, NPages - 1, Image, TopBit)
          /\ status' = [status EXCEPT ![kenv] = "ready"]
          /\ modified' = [modified EXCEPT ![kenv] = @ \cup {NPages - 1}]
          /\ PfAddPage(kenv, NPages - 1, Image)
          /\ ReturnToUser
          /\ UNCHANGED algo

-----------------------------------------------------------------------------
\* env_exit, called by the environment itself.
EnvExit(e) ==
    /\ Running(e)
    /\ status' = [status EXCEPT ![e] = "exit"]
    /\ UNCHANGED <<algo, ws, stamp, last, pteVars, frameVars, diskVars, kVars>>

\* env_free: the pages of the working set, the page tables, and the pages in
\* the page file.  A page mapped outside the working set would be forgotten.
EnvFree(e) ==
    /\ kpc = "user" /\ status[e] \in {"ready", "exit"}
    /\ status' = [status EXCEPT ![e] = "free"]
    /\ ClearEntries(e, Idx, stamp[e])
    /\ last' = [last EXCEPT ![e] = 0]
    /\ Unmap(e, WSPages(e), {t \in Tables : table[e][t] # NoFrame}, used[e])
    /\ PfFreeEnv(e)
    /\ UNCHANGED <<algo, kVars>>

-----------------------------------------------------------------------------
User(e) ==
    \/ \E p \in Pages : MMURead(e, p)
    \/ \E p \in Pages, v \in Values : MMUWrite(e, p, v)
    \/ \E p \in Pages : TableFault(e, p)
    \/ \E p \in Pages : PageFault(e, p)
    \/ \E va \in Heap, n \in 1 .. NHeap : AllocateMem(e, va, n)
    \/ \E va \in Heap, n \in 1 .. NHeap : FreeMem(e, va, n)
    \/ ClockTick(e)
    \/ EnvExit(e)

Kernel ==
    \/ PlaceFromPageFile \/ PlaceNewStackPage \/ PlaceInvalid \/ PlaceNoFrame
    \/ AllocatePage
    \/ LoadWSPage \/ LoadWSDone \/ LoadPfPage \/ LoadStackPage

Next ==
    \/ \E e \in Envs : User(e) \/ EnvCreate(e) \/ EnvFree(e)
    \/ Kernel

Spec == Init /\ [][Next]_vars

\* allocate_frame and allocate_disk_frame take the head of a list, Spec any free
\* frame.  Frames are interchangeable: the runs let every step take the least
\* one, and see every behaviour up to a renaming of frames.
TakesLeast ==
    /\ \A f \in free \ free', g \in free \cap free' : f < g
    /\ \A d \in diskFree \ diskFree', c \in diskFree \cap diskFree' : d < c

-----------------------------------------------------------------------------
(***************************************************************************)
(* Properties.                                                             *)
(***************************************************************************)
Contents == Values \cup {Image, Junk}

\* Every variable keeps its type; a stamp stays below 4/3 of the top bit.
TypeOK ==
    /\ algo \in Algorithms
    /\ status \in [Envs -> {"free", "loading", "ready", "exit", "stuck"}]
    /\ ws \in [Envs -> [Idx -> Pages \cup {NoPage}]]
    /\ stamp \in [Envs -> [Idx -> Nat]]
    /\ \A e \in Envs, i \in Idx : 3 * stamp[e][i] <= 4 * TopBit
    /\ last \in [Envs -> Idx]
    /\ frameOf \in [Envs -> [Pages -> Frames \cup {NoFrame}]]
    /\ used \in [Envs -> SUBSET Pages]
    /\ modified \in [Envs -> SUBSET Pages]
    /\ table \in [Envs -> [Tables -> Frames \cup {NoFrame}]]
    /\ refs \in [Frames -> Nat]
    /\ free \in SUBSET Frames
    /\ content \in [Frames -> Contents]
    /\ pf \in [Envs -> [Pages -> DiskFrames \cup {NoDisk}]]
    /\ diskFree \in SUBSET DiskFrames
    /\ disk \in [DiskFrames -> Contents]
    /\ kpc \in {"user", "place", "alloc", "loadws", "loadpf"}
    /\ kenv \in Envs \cup {NoEnv}
    /\ kva \in Nat /\ kn \in Nat /\ kidx \in Idx

Resident(e) == {p \in Pages : frameOf[e][p] # NoFrame}

\* The working set and the page table agree: no page is listed twice, a page is
\* in memory iff it is listed, its page table is in memory then, and only such
\* pages have a used or a modified bit.  page_fault_handler, freeMem and
\* env_free each update the two structures separately.
WSMatchesPageTable ==
    \A e \in Envs :
        /\ WSPages(e) = Resident(e)
        /\ \A i, j \in Idx : ws[e][i] = ws[e][j] /\ ws[e][i] # NoPage => i = j
        /\ \A p \in Resident(e) : table[e][TableOf(p)] # NoFrame
        /\ used[e] \subseteq Resident(e) /\ modified[e] \subseteq Resident(e)

\* The page and page table entries that name a frame, as (kind, env, index).
Uses ==
    {u \in {"page"} \X Envs \X Pages : frameOf[u[2]][u[3]] # NoFrame}
      \cup {u \in {"table"} \X Envs \X Tables : table[u[2]][u[3]] # NoFrame}

FrameAt(u) == IF u[1] = "page" THEN frameOf[u[2]][u[3]] ELSE table[u[2]][u[3]]

\* allocate_frame, map_frame, unmap_frame and kfree keep the frame pool: a frame
\* backs at most one page or page table of one environment, its reference count
\* says whether it does, and it is on the free list only when it backs none.
FrameAccounting ==
    /\ \A u, v \in Uses : FrameAt(u) = FrameAt(v) => u = v
    /\ \A f \in Frames :
          /\ refs[f] = IF \E u \in Uses : FrameAt(u) = f THEN 1 ELSE 0
          /\ f \in free => refs[f] = 0

OnDisk(e) == {p \in Pages : pf[e][p] # NoDisk}

\* The page file: a disk frame belongs to at most one page of one environment,
\* and it is on the free list iff it belongs to none.
DiskAccounting ==
    /\ \A e, g \in Envs : \A p \in OnDisk(e), q \in OnDisk(g) :
          pf[e][p] = pf[g][q] => e = g /\ p = q
    /\ \A d \in DiskFrames :
          d \in diskFree <=> \A e \in Envs, p \in Pages : pf[e][p] # d

\* Memory leaks only when the loader panics half-way: otherwise a frame that is
\* not mapped is free, and an environment that was freed holds no frame and no
\* disk frame, whatever faults, frees, exits and kills came before.
NoLeak ==
    /\ (\A e \in Envs : status[e] # "stuck") =>
          \A f \in Frames : refs[f] = 0 => f \in free
    /\ \A e \in Envs : status[e] = "free" =>
          /\ Resident(e) = {} /\ OnDisk(e) = {}
          /\ \A t \in Tables : table[e][t] = NoFrame

\* The frame pool: no frame is shared or freed while it is used, and none is
\* lost but by a loader that panics.
FramesExact == FrameAccounting /\ NoLeak

\* The step of page_fault_handler that evicts a page of environment e.
Evicts(e) == kpc = "user" /\ kpc' = "place" /\ kenv' = e /\ WSFull(e)

\* Once page_fault_handler has evicted a page it cannot run out of frames, so
\* it never panics with the working set already changed.
EvictionLeavesAFrame == [][\A e \in Envs : Evicts(e) => free' # {}]_vars

\* CLOCK and LRU spare what was used: the page evicted was not used since the
\* clock hand last passed it (CLOCK) or since the last aging (LRU), unless
\* every page of the working set was.
RecentlyUsedSpared ==
    [][\A e \in Envs : Evicts(e) /\ algo \in {"CLOCK", "LRU"} =>
          \/ (WSPages(e) \ WSPages(e)') \cap used[e] = {}
          \/ WSPages(e) \subseteq used[e]]_vars

\* What a program sees in a page: memory if it is there, else the page file.
View(e, p) ==
    IF frameOf[e][p] # NoFrame THEN content[frameOf[e][p]]
    ELSE IF pf[e][p] # NoDisk THEN disk[pf[e][p]]
    ELSE "unmapped"

Memory == INSTANCE FlatMemory WITH
            Unmapped <- "unmapped",
            mem <- [e \in Envs |-> [p \in Pages |-> View(e, p)]],
            alive <- {e \in Envs : status[e] # "free"},
            inKernel <- (kpc # "user")

\* Page replacement is invisible: faults, evictions and page-file traffic leave
\* what every program sees of its memory as it was.
PagingIsTransparent == Memory!Spec

\* When the page file is full, allocateMem and the growth of the stack leave
\* pages without a disk frame, and nobody is told.  What a program loses then is
\* what it wrote to such a page, when the page is evicted; every other step is
\* as transparent as with room, for all environments.
LossOnlyWithoutDiskFrame ==
    [][\/ [Memory!Next]_(Memory!fvars)
       \/ \E e \in Envs :
            /\ Evicts(e)
            /\ \A g \in Envs, p \in Pages :
                  View(g, p)' # View(g, p) => g = e /\ p \notin WSPages(e)' /\ pf[e][p] = NoDisk]_vars
=============================================================================
