---------------------------- MODULE HeapScripts -----------------------------
(***************************************************************************)
(* The heap tests of the repository as data: user/tst_first_fit_*.c,       *)
(* tst_best_fit_*.c, tst_nextfit.c, tst_worstfit.c, tst_malloc_1.c,        *)
(* tst_malloc_3.c, tst_free_1.c, tst_free_2.c, and the kernel heap's       *)
(* kern/test_kheap.c.  A step is a call and what the program then demands: *)
(* the set of addresses it accepts, and by how much the used pages of the  *)
(* page file and the used frames may have changed since they were last     *)
(* read.  Addresses are pages of the heap, sizes are kilobytes.            *)
(***************************************************************************)
EXTENDS Integers, Sequences

UHeapPages == 131072                    \* USER_HEAP_MAX - USER_HEAP_START
KHeapPages == 40959                     \* KERNEL_HEAP_MAX - KERNEL_HEAP_START
AnyCount   == (-UHeapPages) .. UHeapPages
AnyPage    == (-1) .. UHeapPages
NULL       == {-1}
Mega       == 1024

\* An address written in the tests as so many kilobytes above the start.
At(kb)      == {kb \div 4}                   \* != in the test
Near(kb)    == kb \div 4 .. kb \div 4 + 1    \* up to a page more is accepted
AtLeast(kb) == kb \div 4 .. UHeapPages

Call(op, slot, kb, where, disk, frames) ==
    [op |-> op, slot |-> slot, kb |-> kb, where |-> where, disk |-> disk,
     frames |-> frames, mark |-> TRUE]

\* ptr_allocations[slot] = malloc(kb), demanding an address, page file pages
\* and frames; free(ptr_allocations[slot]) likewise.
Alloc(slot, kb, where, disk, frames) == Call("malloc", slot, kb, where, {disk}, frames)
Release(slot, disk, frames)          == Call("free", slot, 0, AnyPage, {-disk}, frames)

\* Accesses to the block in slot at these offsets, and the frames they take;
\* the pages must then be in the working set.
Use(slot, offsets, frames) == Call("touch", slot, offsets, AnyPage, {0}, {frames})
\* After free: the pages at these offsets are not in the working set.
Gone(slot, offsets) == Call("gone", slot, offsets, AnyPage, AnyCount, AnyCount)
\* An access to freed space, with sys_bypassPageFault: it must fault.
Probe(slot, offsets) == Call("probe", slot, offsets, AnyPage, {0}, {0})
\* sys_calculate_free_frames against its value at the start of the test.
Total(frames) == Call("total", 0, 0, AnyPage, AnyCount, {frames})

\* Part of a measurement that an earlier call has begun.
Within(step) == [step EXCEPT !.mark = FALSE]

-----------------------------------------------------------------------------
FirstFit1a == <<
    Alloc(0, Mega - 1, Near(0), 256, AnyCount),
    Alloc(1, Mega - 1, Near(Mega), 256, AnyCount),
    Alloc(2, Mega - 1, Near(2*Mega), 256, AnyCount),
    Alloc(3, Mega - 1, Near(3*Mega), 256, AnyCount),
    Alloc(4, 2*Mega - 1, Near(4*Mega), 512, AnyCount),
    Alloc(5, 2*Mega - 1, Near(6*Mega), 512, AnyCount),
    Alloc(6, 3*Mega - 1, Near(8*Mega), 768, AnyCount),
    Alloc(7, 3*Mega - 1, Near(11*Mega), 768, AnyCount),
    Release(1, 256, AnyCount), Release(4, 512, {0}), Release(6, 768, {0}) >>

FirstFit1b == <<
    Alloc(8, 512 - 1, Near(Mega), 128, {0}),
    Alloc(9, Mega - 1, Near(4*Mega), 256, {0}),
    Alloc(10, 256 - 1, Near(Mega + 512), 64, {0}),
    Alloc(11, 4*Mega - 1, Near(14*Mega), 1024, {1}),
    Release(2, 256, {0}), Release(3, 256, {0}),
    Alloc(12, 2*Mega + 128 - 1, Near(Mega + 768), 512 + 32, {0}) >>

FirstFit2 == <<
    Alloc(0, 512*Mega + 1, NULL, 0, AnyCount),
    Alloc(0, 2*Mega - 1, Near(0), 512, AnyCount),
    Alloc(1, 2*Mega - 1, Near(2*Mega), 512, AnyCount),
    Alloc(2, 2, Near(4*Mega), 1, AnyCount),
    Alloc(3, 2, Near(4*Mega + 4), 1, AnyCount),
    Release(2, 1, AnyCount),
    Alloc(4, 7, Near(4*Mega + 8), 2, AnyCount),
    Release(0, 512, AnyCount),
    Alloc(5, 3*Mega - 1, Near(4*Mega + 16), 768, AnyCount),
    Alloc(6, 2*Mega + 6, Near(7*Mega + 16), 514, AnyCount),
    Release(5, 768, AnyCount),
    Alloc(7, 5*Mega - 1, Near(9*Mega + 24), 1280, AnyCount),
    Release(6, 514, AnyCount),
    Alloc(8, 4*Mega - 1, Near(4*Mega + 16), 1024, AnyCount),
    Alloc(9, 512*Mega - 14*Mega, NULL, 0, AnyCount) >>

BestFit1a == <<
    Alloc(0, 3*Mega - 1, Near(0), 768, {1}),
    Alloc(1, 3*Mega - 1, At(3*Mega), 768, {1}),
    Alloc(2, 2*Mega - 1, At(6*Mega), 512, {0}),
    Alloc(3, 2*Mega - 1, At(8*Mega), 512, {1}),
    Alloc(4, Mega - 1, At(10*Mega), 256, {0}),
    Alloc(5, Mega - 1, At(11*Mega), 256, {0}),
    Alloc(6, Mega - 1, At(12*Mega), 256, {1}),
    Alloc(7, Mega - 1, At(13*Mega), 256, {0}),
    Release(1, 768, {0}), Release(3, 512, {0}), Release(5, 256, {0}) >>

BestFit1b == <<
    Alloc(8, 512, At(11*Mega), 128, {0}),
    Alloc(9, Mega - 1, At(8*Mega), 256, {0}),
    Alloc(10, 256 - 1, At(11*Mega + 512), 64, {0}),
    Alloc(11, 4*Mega - 1, At(14*Mega), 1024, {1}),
    Release(4, 256, {0}), Release(8, 128, {0}),
    Alloc(12, 2*Mega - 1, At(9*Mega), 512, {0}) >>

BestFit2a == <<
    Alloc(0, 512*Mega + 1, NULL, 0, AnyCount),
    Alloc(0, 2*Mega - 1, Near(0), 512, AnyCount),
    Alloc(1, 2*Mega - 1, Near(2*Mega), 512, AnyCount),
    Alloc(2, 2, At(4*Mega), 1, AnyCount),
    Alloc(3, 2, At(4*Mega + 4), 1, AnyCount),
    Release(2, 1, AnyCount),
    Alloc(4, 7, At(4*Mega + 8), 2, AnyCount),
    Release(0, 512, AnyCount),
    Alloc(5, 3*Mega - 1, At(4*Mega + 16), 768, AnyCount),
    Alloc(6, 2*Mega + 6, At(7*Mega + 16), 514, AnyCount),
    Alloc(7, 5*Mega - 1, At(9*Mega + 24), 1280, AnyCount) >>

BestFit2b == <<
    Release(6, 514, AnyCount), Release(1, 512, AnyCount),
    Alloc(8, 2*Mega - 1, Near(7*Mega + 16), 512, AnyCount),
    Alloc(9, 6, At(9*Mega + 16), 2, AnyCount),
    Release(5, 768, AnyCount),
    Alloc(10, 3*Mega - 1, At(4*Mega + 16), 768, AnyCount),
    Alloc(11, 4*Mega - 1, At(0), 1024, AnyCount),
    Alloc(12, 512*Mega - 14*Mega, NULL, 0, AnyCount) >>

-----------------------------------------------------------------------------
\* The heap filled with 256 blocks of 2 MB; the addresses of some are
\* demanded, and at the end all pages of the heap and 128 page tables.
FillHeap(checked) ==
    [n \in 1 .. 256 |->
        [Call("malloc", n - 1, 2*Mega,
              IF n - 1 \in checked THEN At((n - 1)*2*Mega) ELSE AnyPage,
              IF n = 256 THEN {UHeapPages} ELSE AnyCount,
              IF n = 256 THEN {128} ELSE AnyCount)
         EXCEPT !.mark = (n = 1)]]

\* Blocks freed one after the other, measured as a whole.
Holes(slots) ==
    [n \in 1 .. Len(slots) |->
        [Call("free", slots[n], 0, AnyPage,
              IF n = Len(slots) THEN {-(512*n)} ELSE AnyCount,
              IF n = Len(slots) THEN {0} ELSE AnyCount)
         EXCEPT !.mark = (n = 1)]]

Temp == 300     \* tempAddress, which is never freed

NextFita ==
    FillHeap({0, 2, 8, 10, 15, 20, 25, 255})
    \o Holes(<<0, 2, 3, 5, 10, 12, 11, 20, 25, 255>>)

NextFitb == <<
    Alloc(Temp, Mega - 1, At(0), 256, {0}),
    Alloc(Temp, 1, At(Mega), 1, {0}),
    Alloc(Temp, 5*Mega, At(20*Mega), 1280, {0}),
    Alloc(Temp, Mega, At(25*Mega), 256, {0}),
    Release(15, 512, {0}),
    Alloc(Temp, 1, At(30*Mega), 1, {0}),
    Alloc(Temp, Mega + 1016, At(30*Mega + 4), 510, {0}),
    Alloc(Temp, 512, At(40*Mega), 128, {0}),
    Alloc(Temp, 3*Mega + 512, At(4*Mega), 896, {0}),
    Release(24, 512, {0}),
    Alloc(Temp, 4*Mega - 1, At(48*Mega), 1024, {0}),
    Alloc(Temp, 6*Mega, NULL, 0, {0}) >>

WorstFita ==
    FillHeap({0, 2, 8, 100, 150, 200, 255})
    \o Holes(<<0, 2, 3, 10, 12, 11, 100, 104, 103, 102, 101, 200, 201, 202, 203>>)

WorstFitb == <<
    Alloc(Temp, Mega, At(200*Mega), 256, {0}),
    Alloc(Temp, 4*Mega, At(201*Mega), 1024, {0}),
    Alloc(Temp, 6*Mega, At(400*Mega), 1536, {0}),
    Alloc(Temp, 5*Mega, At(20*Mega), 1280, {0}),
    Alloc(Temp, 4*Mega, At(205*Mega), 1024, {0}),
    Alloc(Temp, 2*Mega, At(4*Mega), 512, {0}),
    Alloc(Temp, Mega + 512, At(0), 384, {0}),
    Alloc(Temp, 512, At(6*Mega), 128, {0}),
    Alloc(Temp, 1, At(406*Mega), 1, {0}),
    Alloc(Temp, 2*Mega - 4, At(406*Mega + 4), 511, {0}),
    Alloc(Temp, 4*Mega, NULL, 0, {0}) >>

-----------------------------------------------------------------------------
Malloc1 == <<
    Alloc(0, 2*Mega - 1, Near(0), 512, {1}),
    Alloc(1, 2*Mega - 1, Near(2*Mega), 512, {0}),
    Alloc(2, 2, Near(4*Mega), 1, {1}),
    Alloc(3, 2, Near(4*Mega + 4), 1, {0}),
    Alloc(4, 7, Near(4*Mega + 8), 2, {0}),
    Alloc(5, 3*Mega - 1, Near(4*Mega + 16), 768, {0}),
    Alloc(6, 2*Mega - 1, Near(7*Mega + 16), 512, {1}) >>

\* tst_malloc_3: blocks and the accesses to their first and last elements; the 6 MB block is
\* also accessed in its middle.
AllocUse1 == <<
    Alloc(0, 2*Mega - 1, Near(0), 512, AnyCount),
    Use(0, {0, 2*Mega - 2}, 2 + 1),
    Alloc(1, 2*Mega - 1, Near(2*Mega), 512, AnyCount),
    Use(1, {0, 2*Mega - 2}, 2),
    Alloc(2, 2, Near(4*Mega), 1, AnyCount),
    Use(2, {0, 1}, 1 + 1),
    Alloc(3, 2, Near(4*Mega + 4), 1, AnyCount),
    Alloc(4, 7, Near(4*Mega + 8), 2, AnyCount),
    Use(4, {0, 6}, 2) >>

AllocUse2 == <<
    Alloc(5, 3*Mega - 1, Near(4*Mega + 16), 768, AnyCount),
    Alloc(6, 6*Mega - 1, Near(7*Mega + 16), 1536, AnyCount),
    Use(6, {0, 3*Mega - 1, 6*Mega - 2}, 3 + 2),
    Alloc(7, 14, Near(13*Mega + 16), 4, AnyCount),
    Use(7, {0, 13}, 2) >>

\* tst_free_1 begins with the same.
Free1a == AllocUse1
Free1b == AllocUse2

Free1c == <<
    Release(0, 512, {-2}), Gone(0, {0, 2*Mega - 2}),
    Release(1, 512, {-(2 + 1)}), Gone(1, {0, 2*Mega - 2}),
    Release(6, 1536, {-(3 + 1)}), Gone(6, {0, 3*Mega - 1, 6*Mega - 2}),
    Release(4, 2, {-2}), Gone(4, {0, 6}),
    Release(5, 768, {0}),
    Release(2, 1, {-(1 + 1)}), Gone(2, {0, 1}),
    Release(3, 1, {0}),
    Release(7, 4, {-(2 + 1)}), Gone(1, {0, 2*Mega - 2}),
    Total(4) >>

Free2 == <<
    Alloc(0, 2*Mega - 1, AtLeast(0), 512, AnyCount),
    Alloc(1, 2*Mega - 1, AtLeast(2*Mega), 512, AnyCount),
    Alloc(2, 2, AtLeast(4*Mega), 1, AnyCount),
    Alloc(3, 2, AtLeast(4*Mega + 4), 1, AnyCount),
    Alloc(4, 7, AtLeast(4*Mega + 8), 2, AnyCount),
    Alloc(5, 3*Mega - 1, AtLeast(4*Mega + 16), 768, AnyCount),
    Alloc(6, 2*Mega - 1, AtLeast(7*Mega + 16), 512, AnyCount),
    Release(0, 512, AnyCount), Probe(0, {0, 2*Mega - 2}),
    Release(1, 512, AnyCount), Probe(1, {0, 2*Mega - 2}),
    Release(2, 1, AnyCount), Probe(2, {0, 1}),
    Release(3, 1, AnyCount), Probe(3, {0, 1}),
    Release(4, 2, AnyCount), Probe(4, {0, 6}),
    Release(5, 768, AnyCount), Probe(5, {0, 3*Mega - 2}),
    Release(6, 512, AnyCount), Probe(6, {0, 2*Mega - 2}),
    Total(3) >>

-----------------------------------------------------------------------------
\* kern/test_kheap.c: a kmalloc or kfree, the address and the frames.
KAlloc(slot, kb, where, frames) == Call("kmalloc", slot, kb, where, {0}, {frames})
KRelease(slot, frames)          == Call("kfree", slot, 0, AnyPage, {0}, {-frames})

\* The allocations that each of its tests begins with.
KBlocks == <<
    KAlloc(0, 2*Mega - 1, At(0), 512),
    KAlloc(1, 2*Mega - 1, At(2*Mega), 512),
    KAlloc(2, 2, At(4*Mega), 1),
    KAlloc(3, 2, At(4*Mega + 4), 1),
    KAlloc(4, 7, At(4*Mega + 8), 2),
    KAlloc(5, 3*Mega - 1, At(4*Mega + 16), 768),
    KAlloc(6, 6*Mega - 1, At(7*Mega + 16), 1536),
    KAlloc(7, 14, At(13*Mega + 16), 4) >>

TestKmalloc ==
    <<KAlloc(0, KHeapPages*4 + 1, NULL, 0)>> \o KBlocks
    \o <<KAlloc(8, (KHeapPages*4 + 8) - (13*Mega + 32), NULL, 0)>>

KReleaseSome == << KRelease(0, 512), KRelease(1, 512), KRelease(6, 1536) >>

TestKfreeAlloc == KBlocks
TestKfreeSome  == KReleaseSome

\* kmalloc after kfree does not reuse the space; kfree of the rest, then of
\* blocks that were freed before.
TestKfreeRest ==
    << KAlloc(8, 20, At(13*Mega + 32), 5), KAlloc(9, Mega, At(13*Mega + 52), 256),
       KRelease(4, 2), KRelease(5, 768), KRelease(2, 1), KRelease(3, 1),
       KRelease(7, 4), KRelease(8, 5), KRelease(9, 256), Total(0) >>

TestKfreeAgain ==
    << KRelease(0, 0), KRelease(2, 0), KRelease(8, 0), KRelease(9, 0) >>

\* test_kheap_phys_addr and test_kheap_virt_addr, without the two functions
\* they are about, which KHeap models.
TestKheapAddr == KBlocks \o KReleaseSome
=============================================================================
