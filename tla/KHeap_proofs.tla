---------------------------- MODULE KHeap_proofs ----------------------------
(***************************************************************************)
(* Proofs about KHeap, for every size of heap, memory and request.  IInv   *)
(* is inductive.  Fresh says why map_frame never meets a mapping and why   *)
(* an address has one table entry: kmalloc only ever moves up.  InCall     *)
(* describes a kmalloc that stands between two iterations.                 *)
(***************************************************************************)
EXTENDS KHeap, TLAPS

\* Nothing was ever mapped or recorded at firstFree or above.
Fresh == \A v \in KPages : v >= firstFree => pte[v] = NoFrame /\ ksize[v] = 0

\* Where the call in progress began, or the next one will begin.
Begin == IF kpc = "map" THEN start ELSE firstFree

\* The recorded blocks lie below that, in disjoint ranges, and idx counts no
\* more blocks than there are pages below.
Table ==
    /\ idx <= Begin
    /\ \A v \in KPages : ksize[v] > 0 => v + ksize[v] <= Begin
    /\ \A v, w \in KPages : ksize[v] > 0 /\ ksize[w] > 0 /\ v < w => v + ksize[v] <= w

\* The call in progress has mapped its pages so far and has room for the rest.
InCall ==
    kpc = "map" =>
        /\ start <= firstFree /\ start < firstFree + left
        /\ firstFree + left < H
        /\ \A v \in start .. firstFree - 1 : pte[v] # NoFrame

\* Live blocks are recorded and mapped.
LiveMapped ==
    \A v \in live : ksize[v] > 0 /\ \A w \in BlockPages(v, ksize[v]) : pte[w] # NoFrame

\* A page is in at most one of: a recorded block, the lost pages, the call.
LostApart ==
    \A p \in lost :
        /\ p < Begin /\ pte[p] # NoFrame
        /\ \A v \in KPages : ksize[v] > 0 => p \notin BlockPages(v, ksize[v])

\* Every mapped page has an owner: NoOrphans without the union.
Owned ==
    \A p \in KPages : pte[p] # NoFrame =>
        \/ \E v \in live : p \in BlockPages(v, ksize[v])
        \/ kpc = "map" /\ p \in start .. firstFree - 1
        \/ p \in lost

IInv ==
    /\ KHeapTypeOK /\ ReverseMapExact /\ RefsExact
    /\ Fresh /\ Table /\ InCall /\ LiveMapped /\ LostApart /\ Owned

-----------------------------------------------------------------------------
USE HeapAssumption, NoFrameAssumption

\* The initial state.
LEMMA InitInv == KHeapInit => IInv
<1> SUFFICES ASSUME KHeapInit PROVE IInv
  OBVIOUS
<1> USE DEF KHeapInit, KPages, NoVA
<1>1. KHeapTypeOK /\ Fresh /\ Table /\ InCall /\ LiveMapped /\ LostApart /\ Owned
  BY DEF KHeapTypeOK, Fresh, Table, Begin, InCall, LiveMapped, LostApart, Owned
<1>2. ReverseMapExact
  BY DEF ReverseMapExact, Mapped
<1>3. RefsExact
  BY DEF RefsExact
<1> QED
  BY <1>1, <1>2, <1>3 DEF IInv

\* kmalloc begins: only the call's own variables change.
LEMMA KmallocInv ==
    ASSUME IInv, NEW n \in Sizes, Kmalloc(n) PROVE IInv'
<1> USE DEF Kmalloc, HeapFull, mapVars, frameVars, KPages, NoVA, Sizes, IInv
<1>1. KHeapTypeOK'
  BY DEF KHeapTypeOK
<1>2. ReverseMapExact' /\ RefsExact' /\ Fresh'
  BY DEF ReverseMapExact, RefsExact, Fresh, Mapped
<1>3. Table' /\ InCall'
  BY DEF Table, InCall, Begin, KHeapTypeOK
<1>4. LiveMapped' /\ LostApart' /\ Owned'
  BY DEF LiveMapped, LostApart, Owned, Begin, BlockPages, KHeapTypeOK
<1> QED
  BY <1>1, <1>2, <1>3, <1>4

\* One more page of the call in progress.
LEMMA KmallocPageInv ==
    ASSUME IInv, KmallocPage PROVE IInv'
<1> PICK f \in free : KmallocPage!2!(f)
  BY DEF KmallocPage
<1> USE DEF KPages, NoVA, IInv
<1>0. /\ kpc = "map" /\ left > 0 /\ firstFree' = firstFree + 1 /\ left' = left - 1
      /\ UNCHANGED <<ksize, idx, shared, other, kpc, start, live, lost>>
  BY DEF KmallocPage
<1>f. /\ f \in Frames /\ f # NoFrame /\ refs[f] = 0
      /\ \A v \in KPages : pte[v] # f
      /\ f \notin shared /\ f \notin other
  BY DEF KHeapTypeOK, RefsExact
<1>1. KHeapTypeOK'
  BY <1>0, <1>f DEF KHeapTypeOK, InCall
<1>2. ReverseMapExact'
  BY <1>0, <1>f DEF ReverseMapExact, Mapped, KHeapTypeOK, Fresh
<1>3. RefsExact'
  <2> SUFFICES ASSUME NEW g \in Frames PROVE RefsExact!(g)'
    BY DEF RefsExact
  <2>1. CASE g = f
    BY <2>1, <1>0, <1>f DEF RefsExact, KHeapTypeOK
  <2>2. CASE g # f
    <3>1. (\E v \in KPages : pte'[v] = g) <=> (\E v \in KPages : pte[v] = g)
      BY <2>2, <1>0, <1>f DEF KHeapTypeOK, Fresh
    <3> QED
      BY <2>2, <3>1, <1>0 DEF RefsExact, KHeapTypeOK
  <2> QED
    BY <2>1, <2>2
<1>4. Fresh' /\ Table' /\ InCall'
  BY <1>0, <1>f DEF Fresh, Table, InCall, Begin, KHeapTypeOK
<1>5. LiveMapped' /\ LostApart'
  BY <1>0, <1>f DEF LiveMapped, LostApart, Begin, KHeapTypeOK, BlockPages, Fresh, Table, InCall
<1>6. Owned'
  BY <1>0, <1>f DEF Owned, KHeapTypeOK, InCall
<1> QED
  BY <1>1, <1>2, <1>3, <1>4, <1>5, <1>6

\* A panic: the pages of the call become lost pages.
LEMMA KmallocPanicInv ==
    ASSUME IInv, KmallocPanic PROVE IInv'
<1> USE DEF KmallocPanic, mapVars, frameVars, KPages, NoVA, IInv
<1>1. KHeapTypeOK'
  BY DEF KHeapTypeOK, InCall
<1>2. ReverseMapExact' /\ RefsExact' /\ Fresh'
  BY DEF ReverseMapExact, RefsExact, Fresh, Mapped
<1>3. Table' /\ InCall'
  BY DEF Table, InCall, Begin, KHeapTypeOK
<1>4. LiveMapped' /\ LostApart'
  BY DEF LiveMapped, LostApart, Begin, BlockPages, KHeapTypeOK, InCall, Table
<1>5. Owned'
  BY DEF Owned, KHeapTypeOK
<1> QED
  BY <1>1, <1>2, <1>3, <1>4, <1>5

\* The call ends: its pages become a live block.
LEMMA KmallocDoneInv ==
    ASSUME IInv, KmallocDone PROVE IInv'
<1> USE DEF KmallocDone, Record, frameVars, KPages, NoVA, IInv
<1>1. KHeapTypeOK'
  BY DEF KHeapTypeOK, InCall, Table, Begin
<1>2. ReverseMapExact' /\ RefsExact' /\ Fresh'
  BY DEF ReverseMapExact, RefsExact, Fresh, Mapped, InCall, KHeapTypeOK
<1>3. Table' /\ InCall'
  BY DEF Table, InCall, Begin, KHeapTypeOK, Fresh
<1>4. LiveMapped'
  BY DEF LiveMapped, BlockPages, KHeapTypeOK, InCall, Table, Begin
<1>5. LostApart'
  BY DEF LostApart, Begin, BlockPages, KHeapTypeOK, InCall
<1>6. Owned'
  <2> SUFFICES ASSUME NEW p \in KPages, pte[p] # NoFrame
               PROVE \/ \E v \in live' : p \in BlockPages(v, ksize'[v])
                     \/ p \in lost
    BY DEF Owned
  <2>1. CASE \E v \in live : p \in BlockPages(v, ksize[v])
    BY <2>1 DEF BlockPages, KHeapTypeOK, LiveMapped, Table, Begin
  <2>2. CASE p \in start .. firstFree - 1
    BY <2>2 DEF BlockPages, KHeapTypeOK, InCall
  <2> QED
    BY <2>1, <2>2 DEF Owned
<1> QED
  BY <1>1, <1>2, <1>3, <1>4, <1>5, <1>6

\* kfree: the reverse map makes the frames of the block its own, so that no
\* other heap page loses one.
LEMMA KfreeInv ==
    ASSUME IInv, NEW v \in KPages, Kfree(v) PROVE IInv'
<1> DEFINE R == BlockPages(v, ksize[v])
           F == {pte[w] : w \in R} \ {NoFrame}
<1> USE DEF KPages, NoVA, IInv
<1>0. /\ kpc = "idle" /\ ksize[v] > 0
      /\ virtualAddresses' = [f \in Frames |-> IF f \in F THEN NoVA ELSE virtualAddresses[f]]
      /\ pte' = [w \in KPages |-> IF w \in R THEN NoFrame ELSE pte[w]]
      /\ refs' = [f \in Frames |-> IF f \in F THEN refs[f] - 1 ELSE refs[f]]
      /\ free' = free \cup {f \in F : refs[f] = 1}
      /\ live' = live \ {v}
      /\ UNCHANGED <<firstFree, ksize, idx, shared, other, kpc, start, left, lost>>
  BY DEF Kfree, Forget, Drop, LastReference, callVars
<1>1. R \subseteq KPages /\ F \subseteq Frames
  <2>1. /\ v + ksize[v] <= firstFree /\ ksize[v] \in Nat /\ firstFree \in KPages
        /\ pte \in [KPages -> Frames \cup {NoFrame}]
    BY <1>0 DEF Table, Begin, KHeapTypeOK
  <2>2. R \subseteq KPages
    BY <2>1 DEF BlockPages
  <2> QED
    BY <2>1, <2>2
<1>2. \A x \in KPages \ R : pte[x] \notin F
  BY <1>1 DEF ReverseMapExact, Mapped, KHeapTypeOK
<1> HIDE DEF R, F
<1>3. \A g \in F : refs[g] >= 1 /\ \A x \in KPages : pte'[x] # g
  <2> SUFFICES ASSUME NEW g \in F
               PROVE refs[g] >= 1 /\ \A x \in KPages : pte'[x] # g
    OBVIOUS
  <2>1. \E x \in KPages : pte[x] = g
    BY <1>1 DEF F
  <2>2. refs[g] >= 1
    BY <2>1, <1>1 DEF RefsExact
  <2>3. g # NoFrame
    BY <1>1
  <2> QED
    BY <2>2, <2>3, <1>0, <1>2
<1>4. KHeapTypeOK'
  BY <1>0, <1>1, <1>3 DEF KHeapTypeOK
<1>5. ReverseMapExact'
  <2>1. ASSUME NEW x \in KPages, pte'[x] # NoFrame PROVE virtualAddresses'[pte'[x]] = x
    <3>1. x \notin R /\ pte'[x] = pte[x]
      BY <2>1, <1>0
    <3>2. pte[x] \notin F /\ pte[x] \in Frames
      BY <3>1, <2>1, <1>2 DEF KHeapTypeOK
    <3> QED
      BY <3>1, <3>2, <2>1, <1>0 DEF ReverseMapExact, Mapped
  <2>2. ASSUME NEW f \in Frames, virtualAddresses'[f] # NoVA
        PROVE pte'[virtualAddresses'[f]] = f
    <3>1. f \notin F /\ virtualAddresses'[f] = virtualAddresses[f]
      BY <2>2, <1>0
    <3>2. pte[virtualAddresses[f]] = f /\ virtualAddresses[f] \in KPages
      BY <3>1, <2>2 DEF ReverseMapExact, KHeapTypeOK
    <3>3. virtualAddresses[f] \notin R
      BY <3>1, <3>2 DEF F
    <3> QED
      BY <3>1, <3>2, <3>3, <1>0
  <2> QED
    BY <2>1, <2>2 DEF ReverseMapExact, Mapped
<1>6. RefsExact'
  <2> SUFFICES ASSUME NEW g \in Frames PROVE RefsExact!(g)'
    BY DEF RefsExact
  <2>1. CASE g \in F
    <3>1. \E x \in KPages : pte[x] = g
      BY <2>1, <1>1 DEF F
    <3>2. ~ \E x \in KPages : pte'[x] = g
      BY <2>1, <1>3
    <3>3. refs'[g] = refs[g] - 1 /\ (g \in free' <=> g \in free \/ refs[g] = 1)
      BY <2>1, <1>0
    <3>4. /\ refs[g] = 1 + (IF g \in shared THEN 1 ELSE 0) + (IF g \in other THEN 1 ELSE 0)
          /\ g \in free <=> refs[g] = 0
      BY <3>1 DEF RefsExact
    <3> QED
      BY <3>2, <3>3, <3>4, <1>0
  <2>2. CASE g \notin F
    <3>1. (\E x \in KPages : pte'[x] = g) <=> (\E x \in KPages : pte[x] = g)
      BY <2>2, <1>0 DEF F
    <3> QED
      BY <2>2, <3>1, <1>0 DEF RefsExact, KHeapTypeOK
  <2> QED
    BY <2>1, <2>2
<1>7. Fresh' /\ Table' /\ InCall'
  BY <1>0 DEF Fresh, Table, InCall, Begin
<1>8. LiveMapped' /\ LostApart'
  <2>1. ASSUME NEW w \in live, w # v, NEW p \in BlockPages(w, ksize[w]) PROVE pte'[p] # NoFrame
    <3>1. ksize[w] > 0 /\ pte[p] # NoFrame /\ w \in KPages
      BY <2>1 DEF LiveMapped, KHeapTypeOK
    <3>2. /\ ksize[v] \in Nat /\ ksize[w] \in Nat /\ w + ksize[w] <= firstFree
          /\ w < v => w + ksize[w] <= v
          /\ v < w => v + ksize[v] <= w
          /\ firstFree \in KPages
      BY <3>1, <1>0 DEF Table, Begin, KHeapTypeOK
    <3>3. p \in KPages /\ p \notin R
      BY <3>1, <3>2, <2>1 DEF BlockPages, R
    <3> QED
      BY <3>1, <3>3, <1>0
  <2>2. LiveMapped'
    BY <2>1, <1>0 DEF LiveMapped, BlockPages
  <2>3. ASSUME NEW p \in lost PROVE pte'[p] # NoFrame
    BY <1>0 DEF LostApart, KHeapTypeOK, R
  <2>4. LostApart'
    BY <2>3, <1>0 DEF LostApart, Begin, BlockPages
  <2> QED
    BY <2>2, <2>4
<1>9. Owned'
  BY <1>0 DEF Owned, R
<1> QED
  BY <1>4, <1>5, <1>6, <1>7, <1>8, <1>9

\* The four steps of the other users of the frame pool leave the heap alone.
LEMMA SharingInv ==
    ASSUME IInv,
           \/ \E v \in KPages : Share(v)
           \/ \E f \in Frames : Unshare(f) \/ UserMap(f) \/ UserUnmap(f)
    PROVE IInv'
<1> USE DEF KPages, NoVA, IInv
<1>0. UNCHANGED <<mapVars, callVars, live, lost>>
  BY DEF Share, Unshare, UserMap, UserUnmap
<1>1. /\ ReverseMapExact' /\ Fresh' /\ Table' /\ InCall'
      /\ LiveMapped' /\ LostApart' /\ Owned'
  BY <1>0 DEF ReverseMapExact, Mapped, Fresh, Table, InCall, Begin, LiveMapped,
              LostApart, Owned, BlockPages, mapVars, callVars
<1>2. KHeapTypeOK' /\ RefsExact'
  <2> DEFINE InHeap(g) == \E v \in KPages : pte[v] = g
  <2>0. /\ \A g \in Frames :
               /\ refs[g] = (IF InHeap(g) THEN 1 ELSE 0)
                          + (IF g \in shared THEN 1 ELSE 0)
                          + (IF g \in other THEN 1 ELSE 0)
               /\ g \in free <=> refs[g] = 0
        /\ refs \in [Frames -> Nat] /\ free \in SUBSET Frames
        /\ shared \in SUBSET Frames /\ other \in SUBSET Frames
    BY DEF RefsExact, KHeapTypeOK
  <2> SUFFICES
        /\ \A g \in Frames :
              /\ refs'[g] = (IF InHeap(g) THEN 1 ELSE 0)
                          + (IF g \in shared' THEN 1 ELSE 0)
                          + (IF g \in other' THEN 1 ELSE 0)
              /\ g \in free' <=> refs'[g] = 0
        /\ refs' \in [Frames -> Nat] /\ free' \in SUBSET Frames
        /\ shared' \in SUBSET Frames /\ other' \in SUBSET Frames
    BY <1>0 DEF RefsExact, KHeapTypeOK, mapVars, callVars
  <2>1. CASE \E v \in KPages : Share(v)
    <3> PICK v \in KPages : Share(v)
      BY <2>1
    <3>1. pte[v] \in Frames /\ InHeap(pte[v])
      BY DEF Share, KHeapTypeOK
    <3> HIDE DEF InHeap
    <3> QED
      BY <3>1, <2>0 DEF Share
  <2>2. CASE \E f \in Frames : Unshare(f)
    <3> HIDE DEF InHeap
    <3> QED
      BY <2>2, <2>0 DEF Unshare, Drop, LastReference
  <2>3. CASE \E f \in Frames : UserMap(f)
    <3> HIDE DEF InHeap
    <3> QED
      BY <2>3, <2>0 DEF UserMap
  <2>4. CASE \E f \in Frames : UserUnmap(f)
    <3> HIDE DEF InHeap
    <3> QED
      BY <2>4, <2>0 DEF UserUnmap, Drop, LastReference
  <2> QED
    BY <2>1, <2>2, <2>3, <2>4
<1> QED
  BY <1>1, <1>2

\* IInv is an invariant of the kernel heap.
LEMMA Inductive == KHeapSpec => []IInv
<1>1. IInv /\ [KHeapNext]_kheapVars => IInv'
  <2> SUFFICES ASSUME IInv, [KHeapNext]_kheapVars PROVE IInv'
    OBVIOUS
  <2>1. CASE UNCHANGED kheapVars
    BY <2>1 DEF kheapVars, mapVars, frameVars, callVars, IInv, KHeapTypeOK, ReverseMapExact,
                Mapped, RefsExact, Fresh, Table, InCall, Begin, LiveMapped,
                LostApart, Owned, BlockPages
  <2> QED
    BY <2>1, KmallocInv, KmallocPageInv, KmallocPanicInv, KmallocDoneInv,
       KfreeInv, SharingInv DEF KHeapNext
<1> QED
  BY <1>1, InitInv, PTL DEF KHeapSpec

-----------------------------------------------------------------------------
\* Every variable of kern/kheap.c keeps its type: firstFreeVAInKHeap stays below
\* KERNEL_HEAP_MAX, and idx within allocatedHAddresses.
THEOREM HeapTypeCorrect == KHeapSpec => []KHeapTypeOK
  BY Inductive, PTL DEF IInv

\* kheap_virtual_address and kheap_physical_address are inverse to each other in
\* every state, so get_page_table finds the table that the directory names.
THEOREM ReverseMapCorrect == KHeapSpec => []ReverseMapExact
  BY Inductive, PTL DEF IInv

\* The reference counts are exact: kfree and unmap_frame free a frame with its
\* last mapping, never before and always then.
THEOREM ReferencesCorrect == KHeapSpec => []RefsExact
  BY Inductive, PTL DEF IInv

\* Blocks of the kernel heap stay mapped and apart until they are freed.
THEOREM LiveBlocksIntact == KHeapSpec => []BlocksIntact
<1>1. IInv => BlocksIntact
  <2> SUFFICES ASSUME IInv, NEW v \in live
               PROVE /\ ksize[v] > 0 /\ v + ksize[v] <= firstFree
                     /\ BlockPages(v, ksize[v]) \subseteq Mapped
                     /\ \A w \in live : v < w => v + ksize[v] <= w
    BY DEF BlocksIntact
  <2>1. ksize[v] > 0 /\ v + ksize[v] <= firstFree
    BY DEF IInv, LiveMapped, Table, Begin, InCall, KHeapTypeOK, KPages
  <2>2. BlockPages(v, ksize[v]) \subseteq Mapped
    <3>1. /\ v \in KPages /\ ksize[v] \in Nat /\ firstFree \in KPages
          /\ \A w \in BlockPages(v, ksize[v]) : pte[w] # NoFrame
      BY DEF IInv, LiveMapped, KHeapTypeOK
    <3>2. BlockPages(v, ksize[v]) \subseteq KPages
      BY <3>1, <2>1 DEF KPages, BlockPages
    <3> QED
      BY <3>1, <3>2 DEF Mapped
  <2>3. \A w \in live : v < w => v + ksize[v] <= w
    BY DEF IInv, LiveMapped, Table, KHeapTypeOK
  <2> QED
    BY <2>1, <2>2, <2>3
<1> QED
  BY <1>1, Inductive, PTL

\* Only a panic inside kmalloc leaves mapped pages that nobody can free.
THEOREM OnlyPanicsLeak == KHeapSpec => []NoOrphans
<1>1. IInv => NoOrphans
  <2> SUFFICES ASSUME IInv PROVE NoOrphans
    OBVIOUS
  <2> DEFINE Blocks == UNION {BlockPages(v, ksize[v]) : v \in live}
             Call   == IF kpc = "map" THEN start .. firstFree - 1 ELSE {}
  <2>0. \A p : p \in Blocks <=> \E v \in live : p \in BlockPages(v, ksize[v])
    BY Zenon
  <2>1. ASSUME NEW v \in live, NEW p \in BlockPages(v, ksize[v]) PROVE p \in Mapped
    <3>1. /\ v \in KPages /\ ksize[v] \in Nat /\ firstFree \in KPages
          /\ pte[p] # NoFrame /\ ksize[v] > 0
      BY DEF IInv, LiveMapped, KHeapTypeOK
    <3>2. v + ksize[v] <= firstFree
      BY <3>1 DEF IInv, Table, Begin, InCall, KHeapTypeOK, KPages
    <3> QED
      BY <3>1, <3>2 DEF Mapped, BlockPages, KPages
  <2>2. Call \subseteq Mapped /\ lost \subseteq Mapped
    BY DEF IInv, InCall, LostApart, Mapped, KHeapTypeOK, KPages
  <2>3. NoOrphans <=> Mapped = Blocks \cup Call \cup lost
    BY DEF NoOrphans
  <2> HIDE DEF Blocks
  <2>4. Mapped \subseteq Blocks \cup Call \cup lost
    <3> SUFFICES ASSUME NEW p \in KPages, pte[p] # NoFrame
                 PROVE p \in Blocks \/ p \in Call \/ p \in lost
      BY DEF Mapped
    <3>1. \/ \E v \in live : p \in BlockPages(v, ksize[v])
          \/ kpc = "map" /\ p \in start .. firstFree - 1
          \/ p \in lost
      BY DEF IInv, Owned
    <3>2. kpc = "map" /\ p \in start .. firstFree - 1 => p \in Call
      OBVIOUS
    <3> QED
      BY <2>0, <3>1, <3>2
  <2>5. Blocks \subseteq Mapped
    BY <2>0, <2>1
  <2> HIDE DEF Call
  <2> QED
    BY <2>2, <2>3, <2>4, <2>5
<1> QED
  BY <1>1, Inductive, PTL
=============================================================================
