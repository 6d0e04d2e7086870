------------------------------- MODULE KHeap --------------------------------
(***************************************************************************)
(* The kernel heap of kern/kheap.c: kmalloc, kfree and the reverse map     *)
(* virtualAddresses from frames to heap addresses, which get_page_table    *)
(* trusts for every user page table.  kmalloc takes its frames one by one  *)
(* from the pool that page faults use too, and allocate_frame may panic    *)
(* half-way.  initialize_environment maps the frames of a working-set      *)
(* array a second time, in user space.                                     *)
(*                                                                         *)
(* Addresses and sizes are in pages, and a size is at least one page: the  *)
(* only caller with a variable size asks for a working set, and the loader *)
(* cannot run with an empty one.  The flag empty of a table entry is left  *)
(* out: only kmallocFirstFit and kmallocBestFit read it, and nothing calls *)
(* them.  An address has at most one entry, so the table is a function     *)
(* from addresses to sizes and a count.                                    *)
(***************************************************************************)
EXTENDS Integers

CONSTANTS
    H,          \* (KERNEL_HEAP_MAX - KERNEL_HEAP_START) / PAGE_SIZE
    Frames,     \* physical frames
    MaxSize,    \* the largest request, in pages
    NoFrame     \* an entry of 0

ASSUME HeapAssumption == H \in Nat \ {0} /\ MaxSize \in Nat

ASSUME NoFrameAssumption == NoFrame \notin Frames

KPages  == 0 .. H - 1
NoVA  == -1             \* address 0 in the reverse map
Sizes == 1 .. MaxSize

VARIABLES
    firstFree,          \* firstFreeVAInKHeap
    pte,                \* the kernel's page tables, from KERNEL_HEAP_START on
    virtualAddresses,   \* frame -> heap address
    ksize, idx,         \* allocatedHAddresses
    refs, free,         \* Frame_Info.references, free_frame_list
    shared,             \* frames of the heap also mapped in user space
    other,              \* frames that a page fault mapped for a user page
    kpc, start, left,   \* kmalloc in progress: its first page, pages to map
    live,               \* history: the blocks handed out and not freed
    lost                \* history: pages of a kmalloc that panicked

mapVars   == <<firstFree, pte, virtualAddresses, ksize, idx>>
frameVars == <<refs, free, shared, other>>
callVars  == <<kpc, start, left>>
kheapVars == <<mapVars, frameVars, callVars, live, lost>>

KHeapInit ==
    /\ firstFree = 0
    /\ pte = [v \in KPages |-> NoFrame]
    /\ virtualAddresses = [f \in Frames |-> NoVA]
    /\ ksize = [v \in KPages |-> 0] /\ idx = 0
    /\ refs = [f \in Frames |-> 0] /\ free = Frames
    /\ shared = {} /\ other = {}
    /\ kpc = "idle" /\ start = 0 /\ left = 0
    /\ live = {} /\ lost = {}

BlockPages(v, n) == v .. v + n - 1

-----------------------------------------------------------------------------
\* Mutant of HeapFull: an allocation may end beyond the heap.
HeapFull_OneTooFar(n) == firstFree > H - n + 1

\* The test of kmalloc; a block that would end at KERNEL_HEAP_MAX is refused.
HeapFull(n) == firstFree >= H - n

Kmalloc(n) ==
    /\ kpc = "idle" /\ ~HeapFull(n)
    /\ kpc' = "map" /\ start' = firstFree /\ left' = n
    /\ UNCHANGED <<mapVars, frameVars, live, lost>>

\* One iteration: allocate_frame, map_frame, the reverse map.  The page at
\* firstFree is not mapped already (Fresh in KHeap_proofs): map_frame only adds.
KmallocPage ==
    /\ kpc = "map" /\ left > 0
    /\ \E f \in free :
          /\ free' = free \ {f}
          /\ refs' = [refs EXCEPT ![f] = @ + 1]
          /\ pte' = [pte EXCEPT ![firstFree] = f]
          /\ virtualAddresses' = [virtualAddresses EXCEPT ![f] = firstFree]
    /\ firstFree' = firstFree + 1 /\ left' = left - 1
    /\ UNCHANGED <<ksize, idx, shared, other, kpc, start, live, lost>>

\* allocate_frame panics and does not return: what was mapped stays mapped, and
\* no table entry knows of it.
KmallocPanic ==
    /\ kpc = "map" /\ left > 0 /\ free = {}
    /\ lost' = lost \cup (start .. firstFree - 1)
    /\ kpc' = "idle" /\ start' = 0 /\ left' = 0
    /\ UNCHANGED <<mapVars, frameVars, live>>

\* Mutant of Record: the address after the block is recorded.
Record_EndAddress ==
    /\ ksize' = [ksize EXCEPT ![firstFree] = firstFree - start]
    /\ live' = live \cup {firstFree}

Record ==
    /\ ksize' = [ksize EXCEPT ![start] = firstFree - start]
    /\ live' = live \cup {start}

KmallocDone ==
    /\ kpc = "map" /\ left = 0
    /\ Record
    /\ idx' = idx + 1
    /\ kpc' = "idle" /\ start' = 0 /\ left' = 0
    /\ UNCHANGED <<firstFree, pte, virtualAddresses, frameVars, lost>>

-----------------------------------------------------------------------------
\* Mutant of LastReference: the count is tested before it is decremented.
LastReference_TestedFirst(f) == refs[f] = 0

\* decrement_references reaches 0.
LastReference(f) == refs[f] = 1

\* One mapping of each frame in F goes; those without another are free.
Drop(F) ==
    /\ refs' = [f \in Frames |-> IF f \in F THEN refs[f] - 1 ELSE refs[f]]
    /\ free' = free \cup {f \in F : LastReference(f)}

\* Mutant of Forget: the reverse map is cleared after unmap_frame, when
\* kheap_physical_address finds no frame any more.
Forget_TooLate(F) == UNCHANGED virtualAddresses

Forget(F) ==
    virtualAddresses' = [f \in Frames |-> IF f \in F THEN NoVA ELSE virtualAddresses[f]]

\* kfree of an address that kmalloc returned.  The entry stays in the table: a
\* second kfree finds it again, and unmapped pages.
Kfree(v) ==
    LET R == BlockPages(v, ksize[v])
        F == {pte[w] : w \in R} \ {NoFrame}
    IN  /\ kpc = "idle" /\ ksize[v] > 0
        /\ Forget(F)
        /\ pte' = [w \in KPages |-> IF w \in R THEN NoFrame ELSE pte[w]]
        /\ Drop(F)
        /\ live' = live \ {v}
        /\ UNCHANGED <<firstFree, ksize, idx, shared, other, callVars, lost>>

-----------------------------------------------------------------------------
\* initialize_environment maps the frame of a heap page, which it finds with
\* kheap_physical_address, in user space; __remove_pws_user_pages unmaps it.
Share(v) ==
    /\ kpc = "idle"
    /\ pte[v] # NoFrame /\ pte[v] \notin shared
    /\ refs' = [refs EXCEPT ![pte[v]] = @ + 1]
    /\ shared' = shared \cup {pte[v]}
    /\ UNCHANGED <<mapVars, free, other, callVars, live, lost>>

Unshare(f) ==
    /\ kpc = "idle" /\ f \in shared
    /\ shared' = shared \ {f}
    /\ Drop({f})
    /\ UNCHANGED <<mapVars, other, callVars, live, lost>>

\* Page faults and evictions use the same pool.
UserMap(f) ==
    /\ kpc = "idle" /\ f \in free
    /\ free' = free \ {f}
    /\ refs' = [refs EXCEPT ![f] = @ + 1]
    /\ other' = other \cup {f}
    /\ UNCHANGED <<mapVars, shared, callVars, live, lost>>

UserUnmap(f) ==
    /\ kpc = "idle" /\ f \in other
    /\ other' = other \ {f}
    /\ Drop({f})
    /\ UNCHANGED <<mapVars, shared, callVars, live, lost>>

KHeapNext ==
    \/ \E n \in Sizes : Kmalloc(n)
    \/ KmallocPage \/ KmallocPanic \/ KmallocDone
    \/ \E v \in KPages : Kfree(v) \/ Share(v)
    \/ \E f \in Frames : Unshare(f) \/ UserMap(f) \/ UserUnmap(f)

KHeapSpec == KHeapInit /\ [][KHeapNext]_kheapVars

-----------------------------------------------------------------------------
\* Every variable keeps its type: firstFree stays inside the heap, and idx inside
\* allocatedHAddresses.
KHeapTypeOK ==
    /\ firstFree \in KPages
    /\ pte \in [KPages -> Frames \cup {NoFrame}]
    /\ virtualAddresses \in [Frames -> KPages \cup {NoVA}]
    /\ ksize \in [KPages -> 0 .. H] /\ idx \in KPages
    /\ refs \in [Frames -> Nat] /\ free \in SUBSET Frames
    /\ shared \in SUBSET Frames /\ other \in SUBSET Frames
    /\ kpc \in {"idle", "map"} /\ start \in KPages /\ left \in 0 .. H
    /\ live \in SUBSET KPages /\ lost \in SUBSET KPages

Mapped == {v \in KPages : pte[v] # NoFrame}

\* kheap_virtual_address and kheap_physical_address are inverse to each other:
\* the reverse map names an address iff the frame is mapped there now.  A stale
\* entry would make get_page_table return somebody else's memory.
ReverseMapExact ==
    /\ \A v \in Mapped : virtualAddresses[pte[v]] = v
    /\ \A f \in Frames : virtualAddresses[f] # NoVA => pte[virtualAddresses[f]] = f

\* Every block handed out and not freed is mapped to its last page, and no two
\* of them overlap, whatever was freed twice or given up half-way.
BlocksIntact ==
    \A v \in live :
        /\ ksize[v] > 0 /\ v + ksize[v] <= firstFree
        /\ BlockPages(v, ksize[v]) \subseteq Mapped
        /\ \A w \in live : v < w => v + ksize[v] <= w

\* The count of a frame is the number of its mappings, in the heap, in the user
\* view of a working set and by a page fault; it is free iff there is none.
RefsExact ==
    \A f \in Frames :
        /\ refs[f] = (IF \E v \in KPages : pte[v] = f THEN 1 ELSE 0)
                   + (IF f \in shared THEN 1 ELSE 0)
                   + (IF f \in other THEN 1 ELSE 0)
        /\ f \in free <=> refs[f] = 0

\* What is mapped can be freed: it belongs to a live block or to the call in
\* progress, except the pages a panic left behind.
NoOrphans ==
    Mapped = (UNION {BlockPages(v, ksize[v]) : v \in live})
                \cup (IF kpc = "map" THEN start .. firstFree - 1 ELSE {})
                \cup lost
=============================================================================
