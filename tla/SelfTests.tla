----------------------------- MODULE SelfTests ------------------------------
(***************************************************************************)
(* The programs of HeapScripts run on the heaps of real size: 512 MB of    *)
(* user heap and 160 MB of kernel heap.  Where UHeap, Paging and KHeap     *)
(* check all short histories of small heaps, this module follows the long  *)
(* histories that the authors of the tests thought worth checking, and     *)
(* the numbers (pages, frames, page tables) they expect.                   *)
(*                                                                         *)
(* The tests ask for a working set of 1000 pages, so nothing is evicted    *)
(* and what malloc keeps in the program's data pages is resident.          *)
(***************************************************************************)
EXTENDS HeapScripts, Placement, FiniteSets

TablePages == 1024      \* pages that one page table maps

Test(st, script) == [strategy |-> st, script |-> script]

Tests ==
    [first_fit_1 |-> Test("FIRSTFIT", FirstFit1a \o FirstFit1b),
     first_fit_2 |-> Test("FIRSTFIT", FirstFit2),
     best_fit_1  |-> Test("BESTFIT", BestFit1a \o BestFit1b),
     best_fit_2  |-> Test("BESTFIT", BestFit2a \o BestFit2b),
     nextfit     |-> Test("NEXTFIT", NextFita \o NextFitb),
     worstfit    |-> Test("WORSTFIT", WorstFita \o WorstFitb),
     malloc_1    |-> Test("FIRSTFIT", Malloc1),
     malloc_3    |-> Test("FIRSTFIT", AllocUse1 \o AllocUse2),
     free_1      |-> Test("FIRSTFIT", Free1a \o Free1b \o Free1c),
     free_2      |-> Test("FIRSTFIT", Free2),
     kmalloc     |-> Test("FIRSTFIT", TestKmalloc),
     kfree       |-> Test("FIRSTFIT", TestKfreeAlloc \o TestKfreeSome
                                      \o TestKfreeRest \o TestKfreeAgain),
     kheap_addr  |-> Test("FIRSTFIT", TestKheapAddr)]

VARIABLES
    test,       \* the program that runs
    taken,      \* the number of steps it has taken
    ptr,        \* ptr_allocations, as far as it is set
    heap,       \* UHeap_Tracker: first page of a block -> pages
    from,       \* generalAddress
    usedDisk,   \* heap pages in the page file
    diskTables, \* 4 MB regions of the heap with a disk page table
    pageTables, \* 4 MB regions of the heap with a page table
    resident,   \* heap pages in memory and in the working set
    cr2,        \* the address of the last page fault
    firstFreeVA,    \* firstFreeVAInKHeap
    table,      \* allocatedHAddresses[0 .. idx-1]: first page and pages
    mapped,     \* entries of table whose pages are mapped
    markDisk, markFrames,   \* usedDiskPages and freeFrames of the program
    verdict     \* "ok", or what the program would panic about

userVars == <<heap, from, usedDisk, diskTables, pageTables, resident, cr2>>
kernVars == <<firstFreeVA, table, mapped>>
scriptVars == <<test, taken, ptr, userVars, kernVars, markDisk, markFrames, verdict>>

ScriptInit ==
    /\ test \in DOMAIN Tests
    /\ taken = 0
    /\ ptr = <<>> /\ heap = <<>> /\ from = 0
    /\ usedDisk = 0 /\ diskTables = {} /\ pageTables = {} /\ resident = {} /\ cr2 = -1
    /\ firstFreeVA = 0 /\ table = <<>> /\ mapped = {}
    /\ markDisk = 0 /\ markFrames = 0
    /\ verdict = "ok"

RECURSIVE SumOver(_, _)
SumOver(f, s) == IF s = {} THEN 0
                 ELSE LET x == CHOOSE y \in s : TRUE IN f[x].size + SumOver(f, s \ {x})

\* Frames taken since the program started: sys_calculate_free_frames counts
\* the free list.  A disk page table is a page of the kernel heap.
usedFrames ==
    Cardinality(resident) + Cardinality(pageTables) + Cardinality(diskTables)
        + SumOver(table, mapped)

step == Tests[test].script[taken + 1]

\* ROUNDUP(size, PAGE_SIZE) / PAGE_SIZE.
PagesOf(kb) == (kb + 3) \div 4

PageAt(slot, kb) == ptr[slot] + kb \div 4
Touched == {PageAt(step.slot, kb) : kb \in step.kb}
TableOf(p) == p \div TablePages
TablesOf(a, n) == TableOf(a) .. TableOf(a + n - 1)

\* What the program demands after a step, with the values it read before.
Judge(page, faulted) ==
    LET disk   == usedDisk' - IF step.mark THEN usedDisk ELSE markDisk
        frames == usedFrames' - IF step.op = "total" THEN 0
                                ELSE IF step.mark THEN usedFrames ELSE markFrames
    IN  verdict' = IF page \notin step.where THEN "address"
                  ELSE IF disk \notin step.disk THEN "page file"
                  ELSE IF ~faulted THEN "access"
                  ELSE IF frames \notin step.frames THEN "frames"
                  ELSE verdict

Take(op) ==
    /\ taken < Len(Tests[test].script) /\ step.op = op
    /\ taken' = taken + 1
    /\ markDisk' = IF step.mark THEN usedDisk ELSE markDisk
    /\ markFrames' = IF step.mark THEN usedFrames ELSE markFrames
    /\ UNCHANGED test

SetPtr(a) == ptr' = [s \in DOMAIN ptr \cup {step.slot} |-> IF s = step.slot THEN a ELSE ptr[s]]

\* Mutant: generalAddress runs to the end of the heap.
NextFrom_End(a, n) == a + n
\* generalAddress after a block of n pages at a.
NextFrom(a, n) == IF a + n >= UHeapPages THEN 0 ELSE a

\* The place malloc finds for n pages.  NEXT FIT, where it starts inside a hole,
\* sees only the two parts.
Chosen(n) ==
    LET st   == Tests[test].strategy
        seen == FitIn(HolesIn(heap, from, UHeapPages), n) \cup FitIn(HolesIn(heap, 0, from), n)
    IN  IF st = "NEXTFIT" /\ seen = {} THEN NoPlace ELSE PlaceFor(st, heap, n, UHeapPages, from)

\* malloc: the block is recorded, and allocateMem puts each page in the page
\* file, creating the disk page tables that are missing.
CallMalloc ==
    LET n == PagesOf(step.kb)
        a == Chosen(n)
    IN  /\ Take("malloc")
        /\ SetPtr(a)
        /\ IF a = NoPlace
           THEN UNCHANGED <<heap, usedDisk, diskTables>>
                /\ from' = IF Tests[test].strategy = "NEXTFIT" THEN from ELSE 0
           ELSE /\ heap' = [b \in DOMAIN heap \cup {a} |-> IF b = a THEN n ELSE heap[b]]
                /\ usedDisk' = usedDisk + n
                /\ diskTables' = diskTables \cup TablesOf(a, n)
                /\ from' = NextFrom(a, n)
        /\ UNCHANGED <<pageTables, resident, cr2, kernVars>>
        /\ Judge(a, TRUE)

\* Mutant: freeMem leaves the page tables.
EmptyTables_None(a, n, left) == {}
\* The page tables that freeMem finds empty: it looks at every table up to the
\* one of the page after the block.
EmptyTables(a, n, left) ==
    {t \in TableOf(a) .. TableOf(a + n) : \A p \in left : TableOf(p) # t}

\* The pages that leave memory and the working set with a block.
Removed(a, n) == {p \in resident : p >= a /\ p < a + n}

\* Mutant: freeMem leaves the pages in the page file.
LeavePageFile_None(n) == usedDisk
\* pf_remove_env_page, for every page of the block.
LeavePageFile(n) == usedDisk - n

\* free: the pages leave the page file, the working set and memory; page
\* tables left empty are freed, disk page tables are not.
CallFree ==
    LET a == ptr[step.slot]
        n == heap[a]
        left == resident \ Removed(a, n)
    IN  /\ Take("free")
        /\ heap' = [b \in DOMAIN heap \ {a} |-> heap[b]]
        /\ usedDisk' = LeavePageFile(n)
        /\ resident' = left
        /\ pageTables' = pageTables \ EmptyTables(a, n, left)
        /\ UNCHANGED <<ptr, from, diskTables, cr2, kernVars>>
        /\ Judge(a, TRUE)

\* Mutant: the page file does not have the first page of a block.
InPageFile_NotFirst(p) == \E b \in DOMAIN heap : b < p /\ p < b + heap[b]
\* The page file has the page.
InPageFile(p) == \E b \in DOMAIN heap : b <= p /\ p < b + heap[b]

\* An access to pages of a block: a fault for each that is not resident brings
\* it in, with its page table.
Touch ==
    /\ Take("touch")
    /\ resident' = resident \cup {p \in Touched : InPageFile(p)}
    /\ pageTables' = pageTables \cup {TableOf(p) : p \in Touched}
    /\ UNCHANGED <<ptr, heap, from, usedDisk, diskTables, cr2, kernVars>>
    /\ Judge(ptr[step.slot], Touched \subseteq resident')

\* The working set is searched for pages of a freed block.
LookFor ==
    /\ Take("gone")
    /\ UNCHANGED <<ptr, userVars, kernVars>>
    /\ Judge(ptr[step.slot], Touched \cap resident = {})

\* An access to freed space under sys_bypassPageFault: the faulting
\* instruction is skipped, and cr2 holds its address.
ProbeFreed ==
    /\ Take("probe")
    /\ cr2' = IF Touched \cap resident = {} THEN PageAt(step.slot, 0) ELSE cr2
    /\ UNCHANGED <<ptr, heap, from, usedDisk, diskTables, pageTables, resident, kernVars>>
    /\ Judge(ptr[step.slot], cr2' = PageAt(step.slot, 0))

CompareTotal ==
    /\ Take("total")
    /\ UNCHANGED <<ptr, userVars, kernVars>>
    /\ Judge(-1, TRUE)

\* kmalloc's test for room.
KheapFull(n) == firstFreeVA >= KHeapPages - n

CallKmalloc ==
    LET n == PagesOf(step.kb) IN
    /\ Take("kmalloc")
    /\ IF KheapFull(n)
       THEN SetPtr(NoPlace) /\ UNCHANGED kernVars
       ELSE /\ SetPtr(firstFreeVA)
            /\ table' = Append(table, [first |-> firstFreeVA, size |-> n])
            /\ mapped' = mapped \cup {Len(table) + 1}
            /\ firstFreeVA' = firstFreeVA + n
    /\ UNCHANGED userVars
    /\ Judge(ptr'[step.slot], TRUE)

\* Mutant: a block that was freed and is freed again has its frames taken.
Unmap_Toggles(e) == IF e \in mapped THEN mapped \ {e} ELSE mapped \cup {e}
\* unmap_frame does nothing for a page that is not mapped.
Unmap(e) == mapped \ {e}

\* kfree: the first entry with this address, whether it is freed or not.
CallKfree ==
    /\ Take("kfree")
    /\ \E e \in 1 .. Len(table) :
          /\ table[e].first = ptr[step.slot]
          /\ \A d \in 1 .. e - 1 : table[d].first # ptr[step.slot]
          /\ mapped' = Unmap(e)
    /\ UNCHANGED <<ptr, userVars, firstFreeVA, table>>
    /\ Judge(ptr[step.slot], TRUE)

\* The program has come to its end; one that cannot is a deadlock.
Congratulations == taken = Len(Tests[test].script) /\ UNCHANGED scriptVars

ScriptNext ==
    \/ CallMalloc \/ CallFree \/ Touch \/ LookFor \/ ProbeFreed \/ CompareTotal
    \/ CallKmalloc \/ CallKfree \/ Congratulations

ScriptSpec == ScriptInit /\ [][ScriptNext]_scriptVars

-----------------------------------------------------------------------------
\* The variables have their types.
ScriptTypeOK ==
    /\ test \in DOMAIN Tests /\ taken \in 0 .. Len(Tests[test].script)
    /\ \A s \in DOMAIN ptr : ptr[s] \in AnyPage
    /\ \A b \in DOMAIN heap : heap[b] \in 1 .. UHeapPages - b
    /\ usedDisk \in 0 .. UHeapPages /\ from \in 0 .. UHeapPages - 1
    /\ firstFreeVA \in 0 .. KHeapPages /\ mapped \subseteq DOMAIN table
    /\ verdict \in {"ok", "address", "page file", "frames", "access"}

\* What the tests demand.  The four strategies and kmalloc return the addresses
\* they expect, and NULL where they expect NULL; malloc and free change the page
\* file by the pages of the block, kmalloc and kfree do not touch it; malloc
\* takes frames only for the disk page tables it is first to need, an access
\* takes the page and perhaps its table, free gives back the resident pages
\* and the tables left empty, and a second kfree gives back nothing; accessed
\* pages are in the working set, those of a freed block are not, and an access
\* to them faults.
DemandsMet == verdict = "ok"

\* The page tables of the heap are those of its resident pages: the loop over
\* tables in freeMem, which runs past the block, frees none that is in use and
\* leaves none that is empty.
PageTablesExact == pageTables = {TableOf(p) : p \in resident}

\* Through the whole of every test malloc, free, kmalloc, kfree and the page
\* faults between them do what it demands, and leave no table behind.
TestsPass == ScriptTypeOK /\ DemandsMet /\ PageTablesExact
=============================================================================
