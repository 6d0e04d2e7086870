---------------------------- MODULE Paging_proofs ---------------------------
(***************************************************************************)
(* Proofs about Paging, for every number of environments, frames, disk     *)
(* frames and pages and every size of working set.  IInv is inductive.  It *)
(* joins the four invariants of the runs, with FrameAccounting as facts    *)
(* about two entries or about one frame (FramesApart, RefsCount), to what  *)
(* a handler that stands between two of its steps has established          *)
(* (PlaceInv, AllocInv, LoadInv).  The second part is the refinement.      *)
(***************************************************************************)
EXTENDS Paging, TLAPS, FiniteSetTheorems, InductionLemmas

\* A frame is in at most one entry.
FramesApart ==
    /\ \A e, g \in Envs, p, q \in Pages :
          frameOf[e][p] = frameOf[g][q] /\ frameOf[e][p] # NoFrame => e = g /\ p = q
    /\ \A e, g \in Envs, s, t \in Tables :
          table[e][s] = table[g][t] /\ table[e][s] # NoFrame => e = g /\ s = t
    /\ \A e, g \in Envs, p \in Pages, t \in Tables :
          frameOf[e][p] = table[g][t] => frameOf[e][p] = NoFrame

\* Some entry names frame f.
Backs(f) ==
    \/ \E e \in Envs, p \in Pages : frameOf[e][p] = f
    \/ \E e \in Envs, t \in Tables : table[e][t] = f

\* The count of a frame is 1 if an entry names it and 0 otherwise.
RefsCount ==
    /\ \A e \in Envs, p \in Pages : frameOf[e][p] # NoFrame => refs[frameOf[e][p]] = 1
    /\ \A e \in Envs, t \in Tables : table[e][t] # NoFrame => refs[table[e][t]] = 1
    /\ \A f \in Frames : refs[f] = 0 \/ (refs[f] = 1 /\ Backs(f))
    /\ \A f \in free : refs[f] = 0

\* page_fault_handler between the eviction and the allocation of a frame: the
\* page is absent, its table present, and the working set has an empty entry.
PlaceInv ==
    kpc = "place" =>
        /\ kenv \in Envs /\ status[kenv] = "ready" /\ kva \in Pages
        /\ frameOf[kenv][kva] = NoFrame /\ table[kenv][TableOf(kva)] # NoFrame
        /\ ~WSFull(kenv)

\* allocateMem between two pages: the rest of the range is in the heap.
AllocInv ==
    kpc = "alloc" =>
        /\ kenv \in Envs /\ status[kenv] = "ready"
        /\ kn >= 1 /\ kva \in Heap /\ kva + kn - 1 \in Heap

\* The pages the loader has brought into memory so far: 0 .. Loaded - 1.
Loading == kpc \in {"loadws", "loadpf"}
Loaded  == IF kpc = "loadws" THEN kva ELSE LoadCount

\* env_create between two pages: they fill the working set from its start, and
\* the page file has the pages before kva in the second phase, none before.
LoadInv ==
    Loading =>
        /\ kenv \in Envs /\ status[kenv] = "loading"
        /\ Loaded <= LoadCount /\ last[kenv] = Loaded
        /\ \A i \in Idx : ws[kenv][i] = IF i < Loaded THEN i ELSE NoPage
        /\ kva <= NProg
        /\ \A p \in Pages : pf[kenv][p] # NoDisk => kpc = "loadpf" /\ p < kva

IInv ==
    /\ TypeOK /\ WSMatchesPageTable
    /\ FramesApart /\ RefsCount /\ NoLeak /\ DiskAccounting
    /\ PlaceInv /\ AllocInv /\ LoadInv

-----------------------------------------------------------------------------
(***************************************************************************)
(* Arithmetic and choices.                                                 *)
(***************************************************************************)
\* The sets of indices, pages and tables.
LEMMA SetFacts ==
    /\ NPages \in Nat /\ NPages > NProg /\ NPages > 0
    /\ Pages \subseteq Nat /\ Prog \subseteq Pages /\ Heap \subseteq Pages /\ Stack \subseteq Pages
    /\ Idx \subseteq Nat /\ 0 \in Idx /\ NoPage \notin Pages
    /\ LoadCount \in Nat /\ LoadCount < WSMax /\ LoadCount <= NProg
    /\ \A p \in Pages : TableOf(p) \in Tables
<1>1. \A p \in Pages : TableOf(p) \in Tables
  BY DEF Tables
<1> QED
  BY <1>1, SizeAssumption DEF NPages, Pages, Prog, Heap, Stack, Idx, NoPage, LoadCount

\* What TypeOK says of single entries.
LEMMA EntryTypes ==
    ASSUME TypeOK
    PROVE  /\ \A e \in Envs, i \in Idx : ws[e][i] \in Pages \cup {NoPage}
           /\ \A e \in Envs, p \in Pages : frameOf[e][p] \in Frames \cup {NoFrame}
           /\ \A e \in Envs, t \in Tables : table[e][t] \in Frames \cup {NoFrame}
           /\ \A e \in Envs, p \in Pages : pf[e][p] \in DiskFrames \cup {NoDisk}
           /\ \A e \in Envs : used[e] \subseteq Pages /\ modified[e] \subseteq Pages
           /\ \A f \in free : f \in Frames
           /\ \A d \in diskFree : d \in DiskFrames
<1>1. \A e \in Envs, i \in Idx : ws[e][i] \in Pages \cup {NoPage}
  BY DEF TypeOK
<1>2. \A e \in Envs, p \in Pages : frameOf[e][p] \in Frames \cup {NoFrame}
  BY DEF TypeOK
<1>3. \A e \in Envs, t \in Tables : table[e][t] \in Frames \cup {NoFrame}
  BY DEF TypeOK
<1>4. \A e \in Envs, p \in Pages : pf[e][p] \in DiskFrames \cup {NoDisk}
  BY DEF TypeOK
<1>5. \A e \in Envs : used[e] \subseteq Pages /\ modified[e] \subseteq Pages
  BY DEF TypeOK
<1>6. (\A f \in free : f \in Frames) /\ (\A d \in diskFree : d \in DiskFrames)
  BY DEF TypeOK
<1> QED
  BY <1>1, <1>2, <1>3, <1>4, <1>5, <1>6

\* Slots of the working set, counted from any place.
LEMMA SlotFacts ==
    /\ \A k \in Nat : k % WSMax \in Idx
    /\ \A i, j \in Idx : \E k \in Idx : (i + k) % WSMax = j
    /\ \A k \in Idx : k % WSMax = k
<1>1. \A k \in Nat : k % WSMax \in Idx
  BY SizeAssumption DEF Idx
<1>2. \A k \in Idx : k % WSMax = k /\ (k + WSMax) % WSMax = k
  BY SizeAssumption DEF Idx
<1>3. ASSUME NEW i \in Idx, NEW j \in Idx
      PROVE  \E k \in Idx : (i + k) % WSMax = j
  <2>1. CASE i <= j
    <3>1. j - i \in Idx /\ i + (j - i) = j
      BY <2>1, SizeAssumption DEF Idx
    <3> QED
      BY <3>1, <1>2
  <2>2. CASE j < i
    <3>1. j - i + WSMax \in Idx /\ i + (j - i + WSMax) = j + WSMax
      BY <2>2, SizeAssumption DEF Idx
    <3> QED
      BY <3>1, <1>2
  <2> QED
    BY <2>1, <2>2, SizeAssumption DEF Idx
<1> QED
  BY <1>1, <1>2, <1>3

\* The LRU search returns an index with the least stamp below MinTime.
LEMMA LRUVictimFacts ==
    ASSUME TypeOK, NEW e \in Envs, NEW st \in [Idx -> Nat]
    PROVE  /\ LRUVictim(e, st) \in Idx
           /\ (\E i \in Idx : st[i] < MinTime) => st[LRUVictim(e, st)] < MinTime
<1> DEFINE cand == {i \in Idx : st[i] < MinTime}
           IsLeast(i) == \A j \in cand : st[i] < st[j] \/ (st[i] = st[j] /\ i <= j)
           values == {st[i] : i \in cand}
<1>1. CASE cand = {}
  <2>1. LRUVictim(e, st) = last[e]
    BY <1>1 DEF LRUVictim
  <2> QED
    BY <2>1, <1>1 DEF TypeOK
<1>2. CASE cand # {}
  <2>1. PICK v \in values : \A w \in values : v <= w
    <3>1. values \subseteq Nat /\ values # {}
      BY <1>2
    <3> QED
      BY <3>1, LeastElement, Zenon
  <2>2. PICK i \in {j \in cand : st[j] = v} : \A j \in {k \in cand : st[k] = v} : i <= j
    <3>1. {j \in cand : st[j] = v} \subseteq Nat /\ {j \in cand : st[j] = v} # {}
      BY <2>1, SetFacts
    <3> QED
      BY <3>1, LeastElement, Zenon
  <2>3. i \in cand /\ IsLeast(i)
    BY <2>1, <2>2, SetFacts
  <2>4. LRUVictim(e, st) = CHOOSE k \in cand : IsLeast(k)
    BY <1>2, Zenon DEF LRUVictim
  <2>5. LRUVictim(e, st) \in cand
    BY <2>3, <2>4, Zenon
  <2> QED
    BY <2>5
<1> QED
  BY <1>1, <1>2

\* What trap_dispatch leaves of stamps and used bits.
LEMMA AtFaultFacts ==
    ASSUME TypeOK, NEW e \in Envs
    PROVE  /\ StampAtFault(e) \in [Idx -> Nat]
           /\ \A i \in Idx : 3 * StampAtFault(e)[i] <= 4 * TopBit
           /\ UsedAtFault(e) \subseteq used[e]
           /\ UsedAfterChoice(e) \subseteq used[e]
           /\ AgedStamp(e) \in [Idx -> Nat]
           /\ \A i \in Idx : 3 * AgedStamp(e)[i] <= 4 * TopBit
<1>1. ASSUME NEW i \in Idx
      PROVE  /\ AgedStamp(e)[i] \in Nat
             /\ 3 * AgedStamp(e)[i] <= 4 * TopBit
  BY StampAssumption DEF AgedStamp, TypeOK
<1>2. AgedStamp(e) \in [Idx -> Nat] /\ \A i \in Idx : 3 * AgedStamp(e)[i] <= 4 * TopBit
  BY <1>1 DEF AgedStamp
<1>3. StampAtFault(e) \in [Idx -> Nat] /\ \A i \in Idx : 3 * StampAtFault(e)[i] <= 4 * TopBit
  BY <1>2 DEF StampAtFault, TypeOK
<1>4. UsedAtFault(e) \subseteq used[e] /\ UsedAfterChoice(e) \subseteq used[e]
  BY DEF UsedAtFault, AgedUsed, UsedAfterChoice
<1> QED
  BY <1>2, <1>3, <1>4

\* Every algorithm chooses an entry of the working set.
LEMMA VictimInIdx ==
    ASSUME TypeOK, NEW e \in Envs
    PROVE  Victim(e) \in Idx
<1>1. LRUVictim(e, StampAtFault(e)) \in Idx
  BY LRUVictimFacts, AtFaultFacts
<1>2. ClockVictim(e) \in Idx
  <2>1. Cardinality(ClockPassed(e)) \in Nat
    <3>1. IsFiniteSet(Idx)
      BY FS_Interval, SizeAssumption DEF Idx
    <3>2. ClockPassed(e) \subseteq Idx
      BY DEF ClockPassed
    <3> QED
      BY <3>1, <3>2, FS_Subset, FS_CardinalityType
  <2>2. \A k \in Nat : last[e] + (k % WSMax) \in Nat
    <3>1. last[e] \in Nat
      BY SetFacts DEF TypeOK
    <3>2. \A k \in Nat : k % WSMax \in Nat
      BY SizeAssumption
    <3> QED
      BY <3>1, <3>2
  <2> QED
    BY <2>1, <2>2, SlotFacts DEF ClockVictim, Slot
<1>3. last[e] \in Idx
  BY DEF TypeOK
<1> QED
  BY <1>1, <1>2, <1>3 DEF Victim

\* The handler finds an empty entry whenever there is one.
LEMMA EmptySlotFacts ==
    ASSUME TypeOK, NEW e \in Envs, ~WSFull(e)
    PROVE  EmptySlot(e) \in Idx /\ ws[e][EmptySlot(e)] = NoPage
<1> DEFINE at(k) == (kidx + k) % WSMax
           empty == {k \in Idx : ws[e][at(k)] = NoPage}
           IsFirst(k) == ws[e][at(k)] = NoPage /\ \A j \in 0 .. k - 1 : ws[e][at(j)] # NoPage
<1>1. PICK i \in Idx : ws[e][i] = NoPage
  BY DEF WSFull
<1>2. empty # {}
  BY <1>1, SlotFacts DEF TypeOK
<1>3. PICK k \in empty : \A j \in empty : k <= j
  BY <1>2, LeastElement, SetFacts
<1>4. k \in Idx /\ IsFirst(k)
  <2>1. \A j \in 0 .. k - 1 : j \in Idx /\ ~(k <= j)
    BY SizeAssumption DEF Idx
  <2> QED
    BY <1>3, <2>1
<1>5. EmptySlot(e) = at(CHOOSE n \in Idx : IsFirst(n))
  BY DEF EmptySlot
<1>6. (CHOOSE n \in Idx : IsFirst(n)) \in Idx /\ IsFirst(CHOOSE n \in Idx : IsFirst(n))
  BY <1>4, Zenon
<1>7. \A n \in Idx : at(n) \in Idx
  BY SlotFacts, SetFacts DEF TypeOK
<1> QED
  BY <1>5, <1>6, <1>7, Zenon

-----------------------------------------------------------------------------
(***************************************************************************)
(* The initial state.                                                      *)
(***************************************************************************)
LEMMA InitInv == Init => IInv
<1> SUFFICES ASSUME Init PROVE IInv
  OBVIOUS
<1> USE DEF Init
<1>1. TypeOK
  BY SetFacts, StampAssumption DEF TypeOK, Contents
<1>2. WSMatchesPageTable
  <2>1. \A e \in Envs : WSPages(e) = {} /\ Resident(e) = {}
    BY DEF WSPages, Resident
  <2> QED
    BY <2>1 DEF WSMatchesPageTable
<1>3. FramesApart /\ RefsCount
  BY NoneAssumption DEF FramesApart, RefsCount
<1>4. NoLeak
  BY DEF NoLeak, Resident, OnDisk
<1>5. DiskAccounting
  BY NoneAssumption DEF DiskAccounting, OnDisk
<1>6. PlaceInv /\ AllocInv /\ LoadInv
  BY DEF PlaceInv, AllocInv, LoadInv, Loading
<1> QED
  BY <1>1, <1>2, <1>3, <1>4, <1>5, <1>6 DEF IInv

-----------------------------------------------------------------------------
(***************************************************************************)
(* Types.                                                                  *)
(***************************************************************************)
\* _panic changes statuses and the handler's locals only.
LEMMA PanicTypes ==
    ASSUME TypeOK, NEW e \in Envs, PanicExit(e) \/ PanicLoad(e)
    PROVE  /\ status' \in [Envs -> {"free", "loading", "ready", "exit", "stuck"}]
           /\ kpc' = "user" /\ kenv' = NoEnv /\ kva' = 0 /\ kn' = 0 /\ kidx' \in Idx
  BY SetFacts DEF TypeOK, PanicExit, PanicLoad, ReturnToUser

\* Taking and mapping frames.
LEMMA MapTypes ==
    ASSUME TypeOK, NEW e \in Envs, NEW p \in Pages, NEW f \in free, NEW F \in SUBSET free,
           NEW val \in Contents, NEW i \in Idx, NEW st \in {0, TopBit},
           TakeFrames(F), MapInto(e, p, f, val, i, st)
    PROVE  /\ ws' \in [Envs -> [Idx -> Pages \cup {NoPage}]]
           /\ stamp' \in [Envs -> [Idx -> Nat]]
           /\ \A g \in Envs, j \in Idx : 3 * stamp'[g][j] <= 4 * TopBit
           /\ last' \in [Envs -> Idx]
           /\ frameOf' \in [Envs -> [Pages -> Frames \cup {NoFrame}]]
           /\ used' \in [Envs -> SUBSET Pages]
           /\ refs' \in [Frames -> Nat]
           /\ free' \in SUBSET Frames
           /\ content' \in [Frames -> Contents]
<1> USE DEF TypeOK, MapInto, TakeFrames
<1>1. ws' \in [Envs -> [Idx -> Pages \cup {NoPage}]]
  OBVIOUS
<1>2. stamp' \in [Envs -> [Idx -> Nat]] /\ \A g \in Envs, j \in Idx : 3 * stamp'[g][j] <= 4 * TopBit
  BY StampAssumption
<1>3. last' \in [Envs -> Idx]
  <2>1. (i + 1) % WSMax \in Idx
    BY SlotFacts, SetFacts
  <2> QED
    BY <2>1
<1>4. frameOf' \in [Envs -> [Pages -> Frames \cup {NoFrame}]]
  OBVIOUS
<1>5. used' \in [Envs -> SUBSET Pages]
  OBVIOUS
<1>6. refs' \in [Frames -> Nat] /\ free' \in SUBSET Frames
  OBVIOUS
<1>7. content' \in [Frames -> Contents]
  OBVIOUS
<1> QED
  BY <1>1, <1>2, <1>3, <1>4, <1>5, <1>6, <1>7

\* Unmapping pages S and tables T and clearing the entries I.
LEMMA UnmapTypes ==
    ASSUME TypeOK, NEW e \in Envs, NEW S, NEW T, NEW us \in SUBSET Pages,
           NEW I, NEW st \in [Idx -> Nat], \A i \in Idx : 3 * st[i] <= 4 * TopBit,
           \A f \in Frames : f \in {frameOf[e][p] : p \in S} \cup {table[e][t] : t \in T} => refs[f] > 0,
           Unmap(e, S, T, us), ClearEntries(e, I, st)
    PROVE  /\ ws' \in [Envs -> [Idx -> Pages \cup {NoPage}]]
           /\ stamp' \in [Envs -> [Idx -> Nat]]
           /\ \A g \in Envs, j \in Idx : 3 * stamp'[g][j] <= 4 * TopBit
           /\ frameOf' \in [Envs -> [Pages -> Frames \cup {NoFrame}]]
           /\ used' \in [Envs -> SUBSET Pages]
           /\ modified' \in [Envs -> SUBSET Pages]
           /\ table' \in [Envs -> [Tables -> Frames \cup {NoFrame}]]
           /\ refs' \in [Frames -> Nat]
           /\ content' \in [Frames -> Contents]
<1>1. ws' \in [Envs -> [Idx -> Pages \cup {NoPage}]]
  BY DEF TypeOK, ClearEntries
<1>2. stamp' \in [Envs -> [Idx -> Nat]] /\ \A g \in Envs, j \in Idx : 3 * stamp'[g][j] <= 4 * TopBit
  BY StampAssumption DEF TypeOK, ClearEntries
<1>3. frameOf' \in [Envs -> [Pages -> Frames \cup {NoFrame}]]
  BY DEF TypeOK, Unmap
<1>4. used' \in [Envs -> SUBSET Pages] /\ modified' \in [Envs -> SUBSET Pages]
  BY DEF TypeOK, Unmap
<1>5. table' \in [Envs -> [Tables -> Frames \cup {NoFrame}]]
  BY DEF TypeOK, Unmap
<1>6. refs' \in [Frames -> Nat]
  BY DEF TypeOK, Unmap
<1>7. content' \in [Frames -> Contents]
  BY DEF TypeOK, Unmap, Contents
<1> QED
  BY <1>1, <1>2, <1>3, <1>4, <1>5, <1>6, <1>7

-----------------------------------------------------------------------------
(***************************************************************************)
(* Mapping a page: its own frame f and, where its page table was missing,  *)
(* a frame for that.                                                       *)
(***************************************************************************)
\* The frames taken for page p of environment e: f, and perhaps the table's.
Takes(e, p, f, F) ==
    \/ /\ table[e][TableOf(p)] # NoFrame
       /\ F = {f} /\ table' = table
    \/ /\ table[e][TableOf(p)] = NoFrame
       /\ \E g \in free \ {f} : F = {f, g} /\ table' = [table EXCEPT ![e][TableOf(p)] = g]

\* A free frame is in no entry.
LEMMA FreeUnused ==
    ASSUME TypeOK, RefsCount, NEW f \in free
    PROVE  /\ f \in Frames /\ f # NoFrame /\ refs[f] = 0
           /\ \A e \in Envs, p \in Pages : frameOf[e][p] # f
           /\ \A e \in Envs, t \in Tables : table[e][t] # f
<1>1. f \in Frames /\ f # NoFrame
  BY NoneAssumption DEF TypeOK
<1> QED
  BY <1>1 DEF RefsCount

\* What taking a frame leaves has its type.
LEMMA TakesTypes ==
    ASSUME TypeOK, NEW e \in Envs, NEW p \in Pages, NEW f \in free, NEW F, Takes(e, p, f, F)
    PROVE  /\ F \in SUBSET free /\ f \in F
           /\ table' \in [Envs -> [Tables -> Frames \cup {NoFrame}]]
           /\ table'[e][TableOf(p)] # NoFrame
           /\ \A g \in Envs, t \in Tables : table[g][t] # NoFrame => table'[g][t] = table[g][t]
           /\ \A g \in Envs \ {e} : table'[g] = table[g]
<1> TableOf(p) \in Tables
  BY SetFacts
<1>1. CASE table[e][TableOf(p)] # NoFrame /\ F = {f} /\ table' = table
  BY <1>1 DEF TypeOK
<1>2. ASSUME NEW g \in free \ {f}, table[e][TableOf(p)] = NoFrame,
             F = {f, g}, table' = [table EXCEPT ![e][TableOf(p)] = g]
      PROVE  /\ F \in SUBSET free /\ f \in F
             /\ table' \in [Envs -> [Tables -> Frames \cup {NoFrame}]]
             /\ table'[e][TableOf(p)] # NoFrame
             /\ \A h \in Envs, t \in Tables : table[h][t] # NoFrame => table'[h][t] = table[h][t]
             /\ \A h \in Envs \ {e} : table'[h] = table[h]
  BY <1>2, NoneAssumption DEF TypeOK
<1> QED
  BY <1>1, <1>2 DEF Takes

\* The working set and the page tables get the page together.
LEMMA MapWS ==
    ASSUME TypeOK, WSMatchesPageTable,
           NEW e \in Envs, NEW p \in Pages, NEW f \in free, NEW F, Takes(e, p, f, F),
           NEW val, NEW i \in Idx, NEW st, MapInto(e, p, f, val, i, st),
           ws[e][i] = NoPage, frameOf[e][p] = NoFrame,
           modified' = modified \/ modified' = [modified EXCEPT ![e] = @ \cup {p}]
    PROVE  WSMatchesPageTable'
<1>1. f # NoFrame /\ f \in Frames /\ NoPage \notin Pages
  BY NoneAssumption, SetFacts DEF TypeOK
<1>2. ASSUME NEW g \in Envs, g # e
      PROVE  /\ ws'[g] = ws[g] /\ frameOf'[g] = frameOf[g] /\ used'[g] = used[g]
             /\ modified'[g] = modified[g] /\ table'[g] = table[g]
  BY <1>2, TakesTypes DEF TypeOK, MapInto
<1>3. /\ \A j \in Idx : ws'[e][j] = IF j = i THEN p ELSE ws[e][j]
      /\ \A q \in Pages : frameOf'[e][q] = IF q = p THEN f ELSE frameOf[e][q]
      /\ used'[e] = used[e] \cup {p}
      /\ modified'[e] = modified[e] \/ modified'[e] = modified[e] \cup {p}
  <2>1. \A j \in Idx : ws'[e][j] = IF j = i THEN p ELSE ws[e][j]
    BY DEF TypeOK, MapInto
  <2>2. \A q \in Pages : frameOf'[e][q] = IF q = p THEN f ELSE frameOf[e][q]
    BY DEF TypeOK, MapInto
  <2>3. /\ used'[e] = used[e] \cup {p}
        /\ modified'[e] = modified[e] \/ modified'[e] = modified[e] \cup {p}
    BY DEF TypeOK, MapInto
  <2> QED
    BY <2>1, <2>2, <2>3
<1>4. \A t \in Tables : table[e][t] # NoFrame => table'[e][t] = table[e][t]
  BY TakesTypes
<1>5. table'[e][TableOf(p)] # NoFrame
  BY TakesTypes
<1>6. WSPages(e)' = WSPages(e) \cup {p}
  <2>1. \A q \in Pages : (\E j \in Idx : ws'[e][j] = q) <=> (q = p \/ \E j \in Idx : ws[e][j] = q)
    BY <1>1, <1>3
  <2>2. \A j \in Idx : ws'[e][j] \in Pages \cup {NoPage} /\ ws[e][j] \in Pages \cup {NoPage}
    BY <1>3, EntryTypes
  <2> QED
    BY <1>1, <2>1, <2>2 DEF WSPages
<1>7. Resident(e)' = Resident(e) \cup {p}
  BY <1>1, <1>3 DEF Resident
<1>8. p \notin WSPages(e)
  BY DEF WSMatchesPageTable, Resident
<1>9. \A j, k \in Idx : ws'[e][j] = ws'[e][k] /\ ws'[e][j] # NoPage => j = k
  <2>1. \A j \in Idx : ws[e][j] # p
    BY <1>1, <1>8 DEF WSPages
  <2> QED
    BY <1>3, <2>1 DEF WSMatchesPageTable
<1>10. \A q \in Resident(e)' : table'[e][TableOf(q)] # NoFrame
  <2>1. \A q \in Resident(e) : q \in Pages /\ table[e][TableOf(q)] # NoFrame
    BY DEF WSMatchesPageTable, Resident
  <2> QED
    BY <1>4, <1>5, <1>7, <2>1, SetFacts
<1>11. used'[e] \subseteq Resident(e)' /\ modified'[e] \subseteq Resident(e)'
  BY <1>3, <1>7 DEF WSMatchesPageTable
<1>12. \A g \in Envs : g # e => WSPages(g)' = WSPages(g) /\ Resident(g)' = Resident(g)
  BY <1>2 DEF WSPages, Resident
<1> QED
  <2> SUFFICES ASSUME NEW g \in Envs
               PROVE  /\ WSPages(g)' = Resident(g)'
                      /\ \A j, k \in Idx : ws'[g][j] = ws'[g][k] /\ ws'[g][j] # NoPage => j = k
                      /\ \A q \in Resident(g)' : table'[g][TableOf(q)] # NoFrame
                      /\ used'[g] \subseteq Resident(g)' /\ modified'[g] \subseteq Resident(g)'
    BY DEF WSMatchesPageTable
  <2>1. CASE g = e
    BY <2>1, <1>6, <1>7, <1>9, <1>10, <1>11 DEF WSMatchesPageTable
  <2>2. CASE g # e
    BY <2>2, <1>2, <1>12 DEF WSMatchesPageTable
  <2> QED
    BY <2>1, <2>2

\* The entries still name different frames, each counted once.
LEMMA MapFrames ==
    ASSUME TypeOK, FramesApart, RefsCount,
           NEW e \in Envs, NEW p \in Pages, NEW f \in free, NEW F, Takes(e, p, f, F), TakeFrames(F),
           frameOf' = [frameOf EXCEPT ![e][p] = f], frameOf[e][p] = NoFrame
    PROVE  FramesApart' /\ RefsCount' /\ \A h \in Frames : refs'[h] = 0 => refs[h] = 0 /\ (h \in free => h \in free')
<1>1. \A h \in F : /\ h \in Frames /\ h # NoFrame /\ refs[h] = 0
                   /\ \A g \in Envs, q \in Pages : frameOf[g][q] # h
                   /\ \A g \in Envs, t \in Tables : table[g][t] # h
  BY TakesTypes, FreeUnused
<1>2. f \in F
  BY TakesTypes
<1>3. \A g \in Envs, q \in Pages :
        frameOf'[g][q] = IF g = e /\ q = p THEN f ELSE frameOf[g][q]
  BY DEF TypeOK
<1>4. \A g \in Envs, t \in Tables :
        /\ table'[g][t] = table[g][t] \/ (g = e /\ t = TableOf(p) /\ table[g][t] = NoFrame /\ table'[g][t] \in F \ {f})
  BY SetFacts DEF TypeOK, Takes
<1>5. \A h \in F : h = f \/ \E g \in Envs, t \in Tables : table'[g][t] = h
  BY SetFacts DEF TypeOK, Takes
<1>6. \A h \in Frames : refs'[h] = IF h \in F THEN 1 ELSE refs[h]
  BY <1>1 DEF TakeFrames, TypeOK
<1>7. FramesApart'
  <2>1. \A g, h \in Envs, q, r \in Pages :
          frameOf'[g][q] = frameOf'[h][r] /\ frameOf'[g][q] # NoFrame => g = h /\ q = r
    BY <1>1, <1>2, <1>3 DEF FramesApart
  <2>2. \A g, h \in Envs, s, t \in Tables :
          table'[g][s] = table'[h][t] /\ table'[g][s] # NoFrame => g = h /\ s = t
    BY <1>1, <1>4 DEF FramesApart
  <2>3. \A g, h \in Envs, q \in Pages, t \in Tables :
          frameOf'[g][q] = table'[h][t] => frameOf'[g][q] = NoFrame
    BY <1>1, <1>2, <1>3, <1>4 DEF FramesApart
  <2> QED
    BY <2>1, <2>2, <2>3 DEF FramesApart
<1>8. RefsCount'
  <2>1. \A g \in Envs, q \in Pages : frameOf'[g][q] # NoFrame => refs'[frameOf'[g][q]] = 1
    BY <1>1, <1>2, <1>3, <1>6 DEF RefsCount, TypeOK
  <2>2. \A g \in Envs, t \in Tables : table'[g][t] # NoFrame => refs'[table'[g][t]] = 1
    BY <1>1, <1>4, <1>6, EntryTypes DEF RefsCount
  <2>3. ASSUME NEW h \in Frames
        PROVE  refs'[h] = 0 \/ (refs'[h] = 1 /\ Backs(h)')
    <3>1. CASE h \in F
      <4>1. Backs(h)'
        BY <1>3, <1>5, <3>1 DEF Backs
      <4> QED
        BY <1>6, <3>1, <4>1
    <3>2. CASE h \notin F
      <4>1. Backs(h) => Backs(h)'
        BY <1>1, <1>3, <1>4, NoneAssumption DEF Backs
      <4> QED
        BY <1>6, <3>2, <4>1 DEF RefsCount
    <3> QED
      BY <3>1, <3>2
  <2>4. \A h \in free' : refs'[h] = 0
    BY <1>6 DEF TakeFrames, RefsCount, TypeOK
  <2> QED
    BY <2>1, <2>2, <2>3, <2>4 DEF RefsCount
<1>9. \A h \in Frames : refs'[h] = 0 => refs[h] = 0 /\ (h \in free => h \in free')
  BY <1>6 DEF TakeFrames
<1> QED
  BY <1>7, <1>8, <1>9

-----------------------------------------------------------------------------
(***************************************************************************)
(* Unmapping the pages S and the page tables T, where no page stays mapped *)
(* through a table of T, and clearing the entries of the working set.      *)
(***************************************************************************)
\* The working set and the page tables lose the same pages.
LEMMA UnmapWS ==
    ASSUME TypeOK, WSMatchesPageTable,
           NEW e \in Envs, NEW I \in SUBSET Idx, NEW S, S = {ws[e][i] : i \in I} \ {NoPage},
           NEW T \in SUBSET Tables, \A p \in Resident(e) : TableOf(p) \in T => p \in S,
           NEW us, us \subseteq used[e], NEW st,
           Unmap(e, S, T, us), ClearEntries(e, I, st)
    PROVE  WSMatchesPageTable' /\ S \subseteq Resident(e)
<1>1. ASSUME NEW g \in Envs, g # e
      PROVE  /\ ws'[g] = ws[g] /\ frameOf'[g] = frameOf[g] /\ used'[g] = used[g]
             /\ modified'[g] = modified[g] /\ table'[g] = table[g]
  <2>1. ws'[g] = ws[g]
    BY <1>1 DEF TypeOK, ClearEntries
  <2>2. frameOf'[g] = frameOf[g] /\ used'[g] = used[g]
    BY <1>1 DEF TypeOK, Unmap
  <2>3. modified'[g] = modified[g] /\ table'[g] = table[g]
    BY <1>1 DEF TypeOK, Unmap
  <2> QED
    BY <2>1, <2>2, <2>3
<1>2. \A j \in Idx : ws'[e][j] = IF j \in I THEN NoPage ELSE ws[e][j]
  BY DEF TypeOK, ClearEntries
<1>3. \A q \in Pages : frameOf'[e][q] = IF q \in S \/ TableOf(q) \in T THEN NoFrame ELSE frameOf[e][q]
  BY DEF TypeOK, Unmap
<1>4. \A q : q \in used'[e] \cup modified'[e] =>
               q \in used[e] \cup modified[e] /\ ~(q \in S \/ TableOf(q) \in T)
  BY DEF TypeOK, Unmap
<1>5. \A t \in Tables : table'[e][t] = IF t \in T THEN NoFrame ELSE table[e][t]
  BY DEF TypeOK, Unmap
<1>6. WSPages(e) = Resident(e)
  BY DEF WSMatchesPageTable
<1>7. S \subseteq Resident(e)
  BY <1>6 DEF WSPages
<1>8. \A j, k \in Idx : ws[e][j] = ws[e][k] /\ ws[e][j] # NoPage => j = k
  BY DEF WSMatchesPageTable
<1>9. Resident(e)' = Resident(e) \ S
  BY <1>3, <1>7 DEF Resident
<1>10. WSPages(e)' = WSPages(e) \ S
  <2>1. ASSUME NEW q, q \in WSPages(e)' PROVE q \in WSPages(e) \ S
    <3>1. PICK j \in Idx : ws'[e][j] = q
      BY <2>1 DEF WSPages
    <3>2. j \notin I /\ q = ws[e][j] /\ q # NoPage
      BY <1>2, <2>1, <3>1 DEF WSPages
    <3>3. q \notin S
      BY <1>8, <3>2
    <3> QED
      BY <3>2, <3>3 DEF WSPages
  <2>2. ASSUME NEW q, q \in WSPages(e) \ S PROVE q \in WSPages(e)'
    <3>1. PICK j \in Idx : ws[e][j] = q
      BY <2>2 DEF WSPages
    <3>2. j \notin I /\ q # NoPage
      BY <2>2, <3>1 DEF WSPages
    <3> QED
      BY <1>2, <3>1, <3>2 DEF WSPages
  <2> QED
    BY <2>1, <2>2
<1>11. \A j, k \in Idx : ws'[e][j] = ws'[e][k] /\ ws'[e][j] # NoPage => j = k
  BY <1>2, <1>8
<1>12. \A q \in Resident(e)' : table'[e][TableOf(q)] # NoFrame
  <2>1. \A q \in Resident(e) : TableOf(q) \in Tables /\ table[e][TableOf(q)] # NoFrame
    BY SetFacts DEF WSMatchesPageTable, Resident
  <2> QED
    BY <1>5, <1>9, <2>1
<1>13. used'[e] \subseteq Resident(e)' /\ modified'[e] \subseteq Resident(e)'
  BY <1>4, <1>9 DEF WSMatchesPageTable
<1>14. \A g \in Envs : g # e => WSPages(g)' = WSPages(g) /\ Resident(g)' = Resident(g)
  BY <1>1 DEF WSPages, Resident
<1> QED
  <2> SUFFICES ASSUME NEW g \in Envs
               PROVE  /\ WSPages(g)' = Resident(g)'
                      /\ \A j, k \in Idx : ws'[g][j] = ws'[g][k] /\ ws'[g][j] # NoPage => j = k
                      /\ \A q \in Resident(g)' : table'[g][TableOf(q)] # NoFrame
                      /\ used'[g] \subseteq Resident(g)' /\ modified'[g] \subseteq Resident(g)'
    BY <1>7 DEF WSMatchesPageTable
  <2>1. CASE g = e
    BY <2>1, <1>6, <1>9, <1>10, <1>11, <1>12, <1>13
  <2>2. CASE g # e
    BY <2>2, <1>1, <1>14 DEF WSMatchesPageTable
  <2> QED
    BY <2>1, <2>2

\* The frames dropped become free, and the entries left are as they were.
LEMMA UnmapFrames ==
    ASSUME TypeOK, FramesApart, RefsCount,
           NEW e \in Envs, NEW S \in SUBSET Resident(e),
           NEW T \in SUBSET {t \in Tables : table[e][t] # NoFrame},
           \A p \in Resident(e) : TableOf(p) \in T => p \in S,
           NEW us, Unmap(e, S, T, us)
    PROVE  /\ FramesApart' /\ RefsCount'
           /\ free \subseteq free' /\ free' \in SUBSET Frames
           /\ \A f \in Frames : refs'[f] = 0 => refs[f] = 0 \/ f \in free'
           /\ \A f \in Frames : f \in {frameOf[e][p] : p \in S} \cup {table[e][t] : t \in T} => refs[f] > 0
           /\ S # {} => free' # {}
<1> DEFINE D == {frameOf[e][p] : p \in S} \cup {table[e][t] : t \in T}
<1>1. \A q \in Pages : q \notin S /\ TableOf(q) \in T => frameOf[e][q] = NoFrame
  BY DEF Resident
<1>2. \A g \in Envs, q \in Pages : frameOf'[g][q] = IF g = e /\ q \in S THEN NoFrame ELSE frameOf[g][q]
  <2>1. \A q \in Pages : frameOf'[e][q] = IF q \in S \/ TableOf(q) \in T THEN NoFrame ELSE frameOf[e][q]
    BY DEF TypeOK, Unmap
  <2>2. \A g \in Envs : g # e => frameOf'[g] = frameOf[g]
    BY DEF TypeOK, Unmap
  <2> QED
    BY <1>1, <2>1, <2>2
<1>3. \A g \in Envs, t \in Tables : table'[g][t] = IF g = e /\ t \in T THEN NoFrame ELSE table[g][t]
  BY DEF TypeOK, Unmap
<1>4. \A p \in S : p \in Pages /\ frameOf[e][p] # NoFrame
  BY DEF Resident
<1>5. \A t \in T : t \in Tables /\ table[e][t] # NoFrame
  OBVIOUS
<1>6. \A f \in D : f \in Frames /\ refs[f] = 1
  BY <1>4, <1>5, EntryTypes DEF RefsCount
<1>7. \A f \in Frames : refs'[f] = IF f \in D THEN 0 ELSE refs[f]
  <2>1. \A f \in Frames : refs'[f] = IF f \in D THEN refs[f] - 1 ELSE refs[f]
    BY DEF Unmap
  <2> QED
    BY <1>6, <2>1
<1>8. free' = free \cup D
  <2>1. free' = free \cup {f \in D : LastReference(f)}
    BY DEF Unmap
  <2> QED
    BY <1>6, <2>1 DEF LastReference
<1>9. ASSUME NEW g \in Envs, NEW q \in Pages, ~(g = e /\ q \in S), frameOf[g][q] # NoFrame
      PROVE  frameOf[g][q] \notin D
  BY <1>4, <1>5, <1>9 DEF FramesApart
<1>10. ASSUME NEW g \in Envs, NEW t \in Tables, ~(g = e /\ t \in T), table[g][t] # NoFrame
       PROVE  table[g][t] \notin D
  BY <1>4, <1>5, <1>10 DEF FramesApart
<1>11. FramesApart'
  BY <1>2, <1>3 DEF FramesApart
<1>12. RefsCount'
  <2>1. \A g \in Envs, q \in Pages : frameOf'[g][q] # NoFrame => refs'[frameOf'[g][q]] = 1
    BY <1>2, <1>7, <1>9, EntryTypes DEF RefsCount
  <2>2. \A g \in Envs, t \in Tables : table'[g][t] # NoFrame => refs'[table'[g][t]] = 1
    BY <1>3, <1>7, <1>10, EntryTypes DEF RefsCount
  <2>3. ASSUME NEW h \in Frames, h \notin D, Backs(h)
        PROVE  Backs(h)'
    <3>1. CASE \E g \in Envs, q \in Pages : frameOf[g][q] = h
      BY <1>2, <2>3, <3>1 DEF Backs
    <3>2. CASE \E g \in Envs, t \in Tables : table[g][t] = h
      BY <1>3, <2>3, <3>2 DEF Backs
    <3> QED
      BY <2>3, <3>1, <3>2 DEF Backs
  <2>4. \A h \in Frames : refs'[h] = 0 \/ (refs'[h] = 1 /\ Backs(h)')
    BY <1>7, <2>3 DEF RefsCount
  <2>5. \A h \in free' : refs'[h] = 0
    BY <1>6, <1>7, <1>8, EntryTypes DEF RefsCount
  <2> QED
    BY <2>1, <2>2, <2>4, <2>5 DEF RefsCount
<1>13. free' \in SUBSET Frames
  BY <1>6, <1>8, EntryTypes
<1>14. S # {} => D # {}
  OBVIOUS
<1>15. /\ free \subseteq free' /\ (S # {} => free' # {})
       /\ \A f \in Frames : refs'[f] = 0 => refs[f] = 0 \/ f \in free'
       /\ \A f \in D : refs[f] > 0
  <2> HIDE DEF D
  <2> QED
    BY <1>6, <1>7, <1>8, <1>14
<1> QED
  BY <1>11, <1>12, <1>13, <1>15

-----------------------------------------------------------------------------
(***************************************************************************)
(* The page file.                                                          *)
(***************************************************************************)
\* Adding a page keeps the disk frame it has or takes a free one, or does nothing.
LEMMA PfAddFacts ==
    ASSUME TypeOK, DiskAccounting, NEW e \in Envs, NEW p \in Pages, NEW val \in Contents,
           PfAddEmpty(e, p) \/ PfAddPage(e, p, val)
    PROVE  /\ pf' \in [Envs -> [Pages -> DiskFrames \cup {NoDisk}]]
           /\ diskFree' \in SUBSET DiskFrames
           /\ disk' \in [DiskFrames -> Contents]
           /\ DiskAccounting'
           /\ \A g \in Envs, q \in Pages : pf'[g][q] # pf[g][q] => g = e /\ q = p
<1>1. CASE UNCHANGED diskVars
  <2>1. DiskAccounting'
    BY <1>1 DEF diskVars, DiskAccounting, OnDisk
  <2> QED
    BY <1>1, <2>1 DEF diskVars, TypeOK
<1>2. ASSUME NEW d \in DiskFrameFor(e, p), pf' = [pf EXCEPT ![e][p] = d], diskFree' = diskFree \ {d},
             disk' = disk \/ disk' = [disk EXCEPT ![d] = val]
      PROVE  /\ pf' \in [Envs -> [Pages -> DiskFrames \cup {NoDisk}]]
             /\ diskFree' \in SUBSET DiskFrames
             /\ disk' \in [DiskFrames -> Contents]
             /\ DiskAccounting'
             /\ \A g \in Envs, q \in Pages : pf'[g][q] # pf[g][q] => g = e /\ q = p
  <2>1. d \in DiskFrames /\ d # NoDisk
    BY EntryTypes, NoneAssumption DEF DiskFrameFor
  <2>2. pf' \in [Envs -> [Pages -> DiskFrames \cup {NoDisk}]] /\ diskFree' \in SUBSET DiskFrames
    BY <1>2, <2>1 DEF TypeOK
  <2>3. disk' \in [DiskFrames -> Contents]
    BY <1>2, <2>1 DEF TypeOK
  <2>4. \A g \in Envs, q \in Pages : pf'[g][q] = IF g = e /\ q = p THEN d ELSE pf[g][q]
    BY <1>2 DEF TypeOK
  <2>5. \A g \in Envs, q \in Pages : pf[g][q] = d => g = e /\ q = p
    BY <2>1 DEF DiskFrameFor, DiskAccounting, OnDisk
  <2>6. pf[e][p] = d \/ pf[e][p] = NoDisk
    BY DEF DiskFrameFor
  <2>7. \A g, h \in Envs, q, r \in Pages :
          pf'[g][q] = pf'[h][r] /\ pf'[g][q] # NoDisk => g = h /\ q = r
    BY <2>4, <2>5 DEF DiskAccounting, OnDisk
  <2>8. ASSUME NEW c \in DiskFrames
        PROVE  c \in diskFree' <=> \A g \in Envs, q \in Pages : pf'[g][q] # c
    <3>1. CASE c = d
      BY <1>2, <2>4, <3>1
    <3>2. CASE c # d
      <4>1. c \in diskFree' <=> \A g \in Envs, q \in Pages : pf[g][q] # c
        BY <1>2, <3>2 DEF DiskAccounting
      <4> QED
        BY <2>1, <2>4, <2>6, <3>2, <4>1, NoneAssumption
    <3> QED
      BY <3>1, <3>2
  <2>9. DiskAccounting'
    BY <2>7, <2>8 DEF DiskAccounting, OnDisk
  <2> QED
    BY <2>2, <2>3, <2>4, <2>9
<1> QED
  BY <1>1, <1>2 DEF PfAddEmpty, PfAddPage

\* Removing pages frees exactly their disk frames.
LEMMA PfRemoveFacts ==
    ASSUME TypeOK, DiskAccounting, NEW e \in Envs, NEW R \in SUBSET Pages, PfRemove(e, R)
    PROVE  /\ pf' \in [Envs -> [Pages -> DiskFrames \cup {NoDisk}]]
           /\ diskFree' \in SUBSET DiskFrames
           /\ disk' \in [DiskFrames -> Contents]
           /\ DiskAccounting'
           /\ \A g \in Envs, q \in Pages : pf'[g][q] = IF g = e /\ q \in R THEN NoDisk ELSE pf[g][q]
<1> DEFINE B == {pf[e][p] : p \in R} \ {NoDisk}
<1>1. pf' = [pf EXCEPT ![e] = [p \in Pages |-> IF p \in R THEN NoDisk ELSE pf[e][p]]]
  BY DEF PfRemove
<1>2. diskFree' = diskFree \cup B /\ disk' = [d \in DiskFrames |-> IF d \in B THEN Junk ELSE disk[d]]
  BY DEF PfRemove
<1>3. \A g \in Envs, q \in Pages : pf'[g][q] = IF g = e /\ q \in R THEN NoDisk ELSE pf[g][q]
  BY <1>1 DEF TypeOK
<1>4. pf' \in [Envs -> [Pages -> DiskFrames \cup {NoDisk}]]
  BY <1>1 DEF TypeOK
<1>5. disk' \in [DiskFrames -> Contents]
  BY <1>2 DEF TypeOK, Contents
<1>6. \A d \in B : d \in DiskFrames /\ \E p \in R : pf[e][p] = d
  BY EntryTypes
<1>7. diskFree' \in SUBSET DiskFrames
  BY <1>2, <1>6, EntryTypes
<1>8. ASSUME NEW c \in DiskFrames
      PROVE  c \in diskFree' <=> \A g \in Envs, q \in Pages : pf'[g][q] # c
  <2>1. c # NoDisk
    BY NoneAssumption
  <2>2. c \in diskFree <=> \A g \in Envs, q \in Pages : pf[g][q] # c
    BY DEF DiskAccounting
  <2>3. CASE c \in B
    <3>1. PICK p \in R : pf[e][p] = c
      BY <1>6, <2>3
    <3>2. \A g \in Envs, q \in Pages : pf[g][q] = c => g = e /\ q = p
      BY <2>1, <3>1 DEF DiskAccounting, OnDisk
    <3> QED
      BY <1>2, <1>3, <2>1, <2>3, <3>2
  <2>4. CASE c \notin B
    <3>1. \A p \in R : pf[e][p] # c
      BY <2>1, <2>4
    <3> QED
      BY <1>2, <1>3, <2>1, <2>2, <2>4, <3>1
  <2> QED
    BY <2>3, <2>4
<1>9. \A g, h \in Envs, q, r \in Pages :
        pf'[g][q] = pf'[h][r] /\ pf'[g][q] # NoDisk => g = h /\ q = r
  BY <1>3 DEF DiskAccounting, OnDisk
<1>10. DiskAccounting'
  BY <1>8, <1>9 DEF DiskAccounting, OnDisk
<1> QED
  BY <1>3, <1>4, <1>5, <1>7, <1>10

-----------------------------------------------------------------------------
(***************************************************************************)
(* What a part of the invariant depends on.                                *)
(***************************************************************************)
LEMMA SameEntries ==
    ASSUME WSMatchesPageTable, UNCHANGED <<ws, frameOf, table>>,
           \A e \in Envs : used'[e] \subseteq Resident(e) /\ modified'[e] \subseteq Resident(e)
    PROVE  WSMatchesPageTable'
  BY DEF WSMatchesPageTable, WSPages, Resident

\* Steps that map, unmap and free nothing keep the accounting of frames.
LEMMA SameFrames ==
    ASSUME FramesApart, RefsCount, UNCHANGED <<frameOf, table, refs>>, free' \subseteq free
    PROVE  FramesApart' /\ RefsCount'
<1>1. FramesApart'
  BY DEF FramesApart
<1>2. RefsCount'
  BY DEF RefsCount, Backs
<1> QED
  BY <1>1, <1>2

\* Steps that leave the page file alone keep the disk accounting.
LEMMA SameDisk ==
    ASSUME DiskAccounting, UNCHANGED <<pf, diskFree>>
    PROVE  DiskAccounting'
  BY DEF DiskAccounting, OnDisk

\* In user mode no handler and no loader is under way.
LEMMA InUserMode ==
    ASSUME kpc' = "user" PROVE PlaceInv' /\ AllocInv' /\ LoadInv'
  BY DEF PlaceInv, AllocInv, LoadInv, Loading

\* A step of one environment e, which is not freed by it.
LEMMA NoLeakStep ==
    ASSUME NoLeak, NEW e \in Envs, status'[e] # "free",
           \A g \in Envs : g # e =>
              /\ status'[g] = "free" => status[g] = "free"
              /\ frameOf'[g] = frameOf[g] /\ table'[g] = table[g] /\ pf'[g] = pf[g],
           \A g \in Envs : status[g] = "stuck" => status'[g] = "stuck",
           \/ status'[e] = "stuck"
           \/ \A f \in Frames : refs'[f] = 0 => f \in free' \/ (refs[f] = 0 /\ (f \in free => f \in free'))
    PROVE  NoLeak'
<1>1. (\A g \in Envs : status'[g] # "stuck") => \A f \in Frames : refs'[f] = 0 => f \in free'
  BY DEF NoLeak
<1>2. ASSUME NEW g \in Envs, status'[g] = "free"
      PROVE  /\ Resident(g)' = {} /\ OnDisk(g)' = {}
             /\ \A t \in Tables : table'[g][t] = NoFrame
  <2>1. g # e /\ status[g] = "free"
    BY <1>2
  <2>2. Resident(g) = {} /\ OnDisk(g) = {} /\ \A t \in Tables : table[g][t] = NoFrame
    BY <2>1 DEF NoLeak
  <2> QED
    BY <2>1, <2>2 DEF Resident, OnDisk
<1> QED
  BY <1>1, <1>2 DEF NoLeak

-----------------------------------------------------------------------------
(***************************************************************************)
(* Every action keeps the invariant.  First the processor and the clock.   *)
(***************************************************************************)
LEMMA MMUInv ==
    ASSUME IInv, NEW e \in Envs, NEW p \in Pages,
           MMURead(e, p) \/ \E v \in Values : MMUWrite(e, p, v)
    PROVE  IInv'
<1> USE DEF envVars, frameVars, diskVars, kVars
<1>1. UNCHANGED <<algo, status, ws, stamp, last, frameOf, table, refs, free, pf, diskFree, disk,
                  kpc, kenv, kva, kn, kidx>>
  BY DEF MMURead, MMUWrite
<1>2. kpc = "user" /\ status[e] = "ready" /\ p \in Resident(e)
  BY DEF MMURead, MMUWrite, Running, Resident
<1>3. /\ used' = [used EXCEPT ![e] = @ \cup {p}]
      /\ modified' = modified \/ modified' = [modified EXCEPT ![e] = @ \cup {p}]
  <2>1. CASE MMURead(e, p)
    BY <2>1 DEF MMURead
  <2>2. ASSUME NEW v \in Values, MMUWrite(e, p, v)
        PROVE  /\ used' = [used EXCEPT ![e] = @ \cup {p}]
               /\ modified' = [modified EXCEPT ![e] = @ \cup {p}]
    BY <2>2 DEF MMUWrite
  <2> QED
    BY <2>1, <2>2
<1>4. content' \in [Frames -> Contents]
  BY DEF IInv, TypeOK, MMURead, MMUWrite, Contents
<1>5. TypeOK'
  <2>1. used' \in [Envs -> SUBSET Pages]
    BY <1>3 DEF IInv, TypeOK
  <2>2. modified' \in [Envs -> SUBSET Pages]
    <3>1. modified \in [Envs -> SUBSET Pages]
      BY DEF IInv, TypeOK
    <3>2. CASE modified' = [modified EXCEPT ![e] = @ \cup {p}]
      BY <3>1, <3>2
    <3> QED
      BY <1>3, <3>1, <3>2
  <2> QED
    BY <1>1, <1>4, <2>1, <2>2 DEF IInv, TypeOK
<1>6. WSMatchesPageTable'
  <2>1. ASSUME NEW g \in Envs
        PROVE  used'[g] \subseteq Resident(g) /\ modified'[g] \subseteq Resident(g)
    <3>1. used[g] \subseteq Resident(g) /\ modified[g] \subseteq Resident(g)
      BY DEF IInv, WSMatchesPageTable
    <3>2. used'[g] \subseteq used[g] \cup {p} /\ modified'[g] \subseteq modified[g] \cup {p}
      BY <1>3 DEF IInv, TypeOK
    <3>3. g # e => used'[g] = used[g] /\ modified'[g] = modified[g]
      BY <1>3 DEF IInv, TypeOK
    <3> QED
      BY <1>2, <3>1, <3>2, <3>3
  <2> QED
    BY <1>1, <2>1, SameEntries DEF IInv
<1>7. FramesApart' /\ RefsCount' /\ DiskAccounting'
  BY <1>1, SameFrames, SameDisk DEF IInv
<1>8. NoLeak'
  BY <1>1 DEF IInv, NoLeak, Resident, OnDisk
<1> QED
  BY <1>1, <1>2, <1>5, <1>6, <1>7, <1>8, InUserMode DEF IInv

\* The clock interrupt.
LEMMA ClockTickInv ==
    ASSUME IInv, NEW e \in Envs, ClockTick(e)
    PROVE  IInv'
<1> USE DEF envVars, frameVars, diskVars, kVars
<1>1. /\ UNCHANGED <<algo, status, ws, last, frameOf, modified, table, refs, free, content,
                     pf, diskFree, disk, kpc, kenv, kva, kn, kidx>>
      /\ kpc = "user"
      /\ stamp' = [stamp EXCEPT ![e] = AgedStamp(e)]
      /\ used' = [used EXCEPT ![e] = AgedUsed(e)]
  BY DEF ClockTick, Running
<1>2. TypeOK'
  <2>1. stamp' \in [Envs -> [Idx -> Nat]] /\ \A g \in Envs, i \in Idx : 3 * stamp'[g][i] <= 4 * TopBit
    BY <1>1, AtFaultFacts DEF IInv, TypeOK
  <2>2. used' \in [Envs -> SUBSET Pages]
    BY <1>1 DEF IInv, TypeOK, AgedUsed
  <2> QED
    BY <1>1, <2>1, <2>2 DEF IInv, TypeOK
<1>3. WSMatchesPageTable'
  <2>1. \A g \in Envs : used'[g] \subseteq used[g]
    BY <1>1 DEF IInv, TypeOK, AgedUsed
  <2> QED
    BY <1>1, <2>1, SameEntries DEF IInv, WSMatchesPageTable
<1>4. FramesApart' /\ RefsCount' /\ DiskAccounting'
  BY <1>1, SameFrames, SameDisk DEF IInv
<1>5. NoLeak'
  BY <1>1 DEF IInv, NoLeak, Resident, OnDisk
<1> QED
  BY <1>1, <1>2, <1>3, <1>4, <1>5, InUserMode DEF IInv

\* A panic that changes nothing but statuses and, in the loader, loses a frame.
LEMMA PanicInv ==
    ASSUME IInv, NEW e \in Envs, status[e] # "free",
           \/ PanicExit(e) /\ status[e] # "stuck" /\ free' = free
           \/ PanicLoad(e) /\ free' \subseteq free,
           UNCHANGED <<algo, ws, last, frameOf, table, modified, refs, content, pf, diskFree, disk>>,
           stamp' \in [Envs -> [Idx -> Nat]], \A g \in Envs, i \in Idx : 3 * stamp'[g][i] <= 4 * TopBit,
           used' \in [Envs -> SUBSET Pages], \A g \in Envs : used'[g] \subseteq used[g]
    PROVE  IInv'
<1>1. TypeOK'
  BY PanicTypes, SetFacts DEF IInv, TypeOK
<1>2. WSMatchesPageTable'
  BY SameEntries DEF IInv, WSMatchesPageTable
<1>3. FramesApart' /\ RefsCount' /\ DiskAccounting'
  BY SameFrames, SameDisk DEF IInv
<1>4. NoLeak'
  <2>1. /\ status'[e] \in {"exit", "stuck"}
        /\ status'[e] = "exit" => free' = free
        /\ \A g \in Envs : g # e => (status'[g] = "free" => status[g] = "free")
        /\ \A g \in Envs : status[g] = "stuck" => status'[g] = "stuck"
    BY DEF IInv, TypeOK, PanicExit, PanicLoad
  <2> QED
    BY <2>1, NoLeakStep DEF IInv
<1>5. kpc' = "user"
  BY DEF PanicExit, PanicLoad, ReturnToUser
<1> QED
  BY <1>1, <1>2, <1>3, <1>4, <1>5, InUserMode DEF IInv

-----------------------------------------------------------------------------
(***************************************************************************)
(* The page-fault handler.                                                 *)
(***************************************************************************)
LEMMA TableFaultInv ==
    ASSUME IInv, NEW e \in Envs, NEW p \in Pages, TableFault(e, p)
    PROVE  IInv'
<1> USE DEF envVars, frameVars, diskVars, kVars
<1>1. /\ UNCHANGED <<algo, ws, last, frameOf, modified, content, pf, diskFree, disk>>
      /\ kpc = "user" /\ status[e] = "ready" /\ table[e][TableOf(p)] = NoFrame
      /\ stamp' = [stamp EXCEPT ![e] = StampAtFault(e)]
      /\ used' = [used EXCEPT ![e] = UsedAtFault(e)]
  BY DEF TableFault, Running
<1>2. stamp' \in [Envs -> [Idx -> Nat]] /\ \A g \in Envs, i \in Idx : 3 * stamp'[g][i] <= 4 * TopBit
  BY <1>1, AtFaultFacts DEF IInv, TypeOK
<1>3. \A g \in Envs : used'[g] \subseteq used[g]
  BY <1>1, AtFaultFacts DEF IInv, TypeOK
<1>4. used' \in [Envs -> SUBSET Pages]
  <2>1. UsedAtFault(e) \subseteq Pages
    BY AtFaultFacts, EntryTypes DEF IInv
  <2> QED
    BY <1>1, <2>1 DEF IInv, TypeOK
<1>5. CASE PanicExit(e) /\ UNCHANGED <<table, refs, free>>
  BY <1>1, <1>2, <1>3, <1>4, <1>5, PanicInv
<1>6. ASSUME NEW f \in free, TakeFrames({f}), table' = [table EXCEPT ![e][TableOf(p)] = f],
             UNCHANGED <<status, kpc, kenv, kva, kn, kidx>>
      PROVE  IInv'
  <2>1. /\ f \in Frames /\ f # NoFrame /\ refs[f] = 0
        /\ \A g \in Envs, q \in Pages : frameOf[g][q] # f
        /\ \A g \in Envs, t \in Tables : table[g][t] # f
    BY FreeUnused DEF IInv
  <2>2. TableOf(p) \in Tables
    BY SetFacts
  <2>3. \A g \in Envs, t \in Tables : table'[g][t] = IF g = e /\ t = TableOf(p) THEN f ELSE table[g][t]
    BY <1>6 DEF IInv, TypeOK
  <2>4. free' = free \ {f} /\ \A h \in Frames : refs'[h] = IF h = f THEN 1 ELSE refs[h]
    BY <1>6, <2>1 DEF TakeFrames
  <2>5. TypeOK'
    <3>1. table' \in [Envs -> [Tables -> Frames \cup {NoFrame}]]
      BY <1>6, <2>1 DEF IInv, TypeOK
    <3>2. refs' \in [Frames -> Nat] /\ free' \in SUBSET Frames
      BY <1>6 DEF TakeFrames, IInv, TypeOK
    <3> QED
      BY <1>1, <1>2, <1>4, <1>6, <3>1, <3>2 DEF IInv, TypeOK
  <2>6. WSMatchesPageTable'
    <3>1. ASSUME NEW g \in Envs
          PROVE  /\ WSPages(g)' = WSPages(g) /\ Resident(g)' = Resident(g) /\ ws'[g] = ws[g]
                 /\ \A q \in Resident(g) : TableOf(q) \in Tables
      BY <1>1, SetFacts DEF WSPages, Resident
    <3>2. \A g \in Envs : \A q \in Resident(g) : table'[g][TableOf(q)] # NoFrame
      BY <2>1, <2>3, <3>1 DEF IInv, WSMatchesPageTable
    <3> QED
      BY <1>1, <1>3, <3>1, <3>2 DEF IInv, WSMatchesPageTable
  <2>7. FramesApart'
    <3>1. \A g, h \in Envs, s, t \in Tables :
            table'[g][s] = table'[h][t] /\ table'[g][s] # NoFrame => g = h /\ s = t
      BY <2>1, <2>3 DEF IInv, FramesApart
    <3>2. \A g, h \in Envs, q \in Pages, t \in Tables :
            frameOf'[g][q] = table'[h][t] => frameOf'[g][q] = NoFrame
      BY <1>1, <2>1, <2>3 DEF IInv, FramesApart
    <3> QED
      BY <1>1, <3>1, <3>2 DEF IInv, FramesApart
  <2>8. RefsCount'
    <3>1. \A g \in Envs, q \in Pages : frameOf'[g][q] # NoFrame => refs'[frameOf'[g][q]] = 1
      BY <1>1, <2>1, <2>4, EntryTypes DEF IInv, RefsCount
    <3>2. \A g \in Envs, t \in Tables : table'[g][t] # NoFrame => refs'[table'[g][t]] = 1
      BY <2>1, <2>3, <2>4, EntryTypes DEF IInv, RefsCount
    <3>3. \A h \in Frames : Backs(h) => Backs(h)'
      BY <1>1, <1>6, <2>2, <2>3, NoneAssumption DEF Backs
    <3>4. Backs(f)'
      BY <2>2, <2>3 DEF Backs
    <3>5. \A h \in Frames : refs'[h] = 0 \/ (refs'[h] = 1 /\ Backs(h)')
      BY <2>4, <3>3, <3>4 DEF IInv, RefsCount
    <3>6. \A h \in free' : refs'[h] = 0
      BY <2>4, EntryTypes DEF IInv, RefsCount
    <3> QED
      BY <3>1, <3>2, <3>5, <3>6 DEF RefsCount
  <2>9. NoLeak'
    <3>1. \A g \in Envs : g # e => table'[g] = table[g]
      BY <1>6 DEF IInv, TypeOK
    <3>2. \A h \in Frames : refs'[h] = 0 => refs[h] = 0 /\ (h \in free => h \in free')
      BY <2>4
    <3> QED
      BY <1>1, <1>6, <3>1, <3>2, NoLeakStep DEF IInv
  <2> QED
    BY <1>1, <1>6, <2>5, <2>6, <2>7, <2>8, <2>9, SameDisk, InUserMode DEF IInv
<1> QED
  BY <1>5, <1>6 DEF TableFault

\* The victim is a page in memory, and it leaves a free frame and an empty entry.
LEMMA EvictFacts ==
    ASSUME IInv, NEW e \in Envs, NEW i \in Idx, WSFull(e), Evict(e, i)
    PROVE  /\ ws[e][i] \in Resident(e)
           /\ WSMatchesPageTable' /\ FramesApart' /\ RefsCount'
           /\ free' # {} /\ free \subseteq free' /\ free' \in SUBSET Frames
           /\ \A f \in Frames : refs'[f] = 0 => refs[f] = 0 \/ f \in free'
           /\ ws' \in [Envs -> [Idx -> Pages \cup {NoPage}]]
           /\ stamp' \in [Envs -> [Idx -> Nat]]
           /\ \A g \in Envs, j \in Idx : 3 * stamp'[g][j] <= 4 * TopBit
           /\ frameOf' \in [Envs -> [Pages -> Frames \cup {NoFrame}]]
           /\ used' \in [Envs -> SUBSET Pages]
           /\ modified' \in [Envs -> SUBSET Pages]
           /\ refs' \in [Frames -> Nat]
           /\ content' \in [Frames -> Contents]
           /\ disk' \in [DiskFrames -> Contents]
           /\ table' = table /\ ws'[e][i] = NoPage
           /\ \A g \in Envs : g # e => frameOf'[g] = frameOf[g]
           /\ \A q \in Pages : frameOf'[e][q] = IF q = ws[e][i] THEN NoFrame ELSE frameOf[e][q]
<1> DEFINE S == {ws[e][i]}
<1>1. ws[e][i] # NoPage
  BY DEF WSFull
<1>2. S = {ws[e][j] : j \in {i}} \ {NoPage}
  BY <1>1
<1>3. /\ Unmap(e, S, {}, UsedAfterChoice(e)) /\ ClearEntries(e, {i}, StampAtFault(e))
      /\ disk' = DiskAfterUpdate(e, ws[e][i])
  BY DEF Evict
<1> HIDE DEF S
<1>4. /\ StampAtFault(e) \in [Idx -> Nat] /\ \A j \in Idx : 3 * StampAtFault(e)[j] <= 4 * TopBit
      /\ UsedAfterChoice(e) \subseteq used[e] /\ UsedAfterChoice(e) \in SUBSET Pages
  BY AtFaultFacts, EntryTypes DEF IInv
<1>5. WSMatchesPageTable' /\ S \subseteq Resident(e)
  BY <1>2, <1>3, <1>4, UnmapWS DEF IInv
<1>6. /\ FramesApart' /\ RefsCount'
      /\ free' # {} /\ free \subseteq free' /\ free' \in SUBSET Frames
      /\ \A f \in Frames : refs'[f] = 0 => refs[f] = 0 \/ f \in free'
      /\ \A f \in Frames : f \in {frameOf[e][p] : p \in S} \cup {table[e][t] : t \in {}} => refs[f] > 0
  <2>1. S # {}
    BY DEF S
  <2> QED
    BY <1>3, <1>5, <2>1, UnmapFrames DEF IInv
<1>7. /\ ws' \in [Envs -> [Idx -> Pages \cup {NoPage}]]
      /\ stamp' \in [Envs -> [Idx -> Nat]]
      /\ \A g \in Envs, j \in Idx : 3 * stamp'[g][j] <= 4 * TopBit
      /\ frameOf' \in [Envs -> [Pages -> Frames \cup {NoFrame}]]
      /\ used' \in [Envs -> SUBSET Pages]
      /\ modified' \in [Envs -> SUBSET Pages]
      /\ refs' \in [Frames -> Nat]
      /\ content' \in [Frames -> Contents]
  BY <1>3, <1>4, <1>6, UnmapTypes DEF IInv
<1>8. ws[e][i] \in Resident(e)
  BY <1>5 DEF S
<1>9. disk' \in [DiskFrames -> Contents]
  <2>1. ws[e][i] \in Pages /\ frameOf[e][ws[e][i]] # NoFrame
    BY <1>8 DEF Resident
  <2>2. frameOf[e][ws[e][i]] \in Frames
    BY <2>1, EntryTypes DEF IInv
  <2>3. content[frameOf[e][ws[e][i]]] \in Contents /\ disk \in [DiskFrames -> Contents]
    BY <2>2 DEF IInv, TypeOK
  <2> QED
    BY <1>3, <2>3 DEF DiskAfterUpdate
<1>10. table' = table
  <2>1. table' = [table EXCEPT ![e] = [t \in Tables |-> table[e][t]]]
    BY <1>3 DEF Unmap
  <2>2. table \in [Envs -> [Tables -> Frames \cup {NoFrame}]]
    BY DEF IInv, TypeOK
  <2> QED
    BY <2>1, <2>2
<1>11. ws'[e][i] = NoPage
  BY <1>3 DEF ClearEntries, IInv, TypeOK
<1>12. frameOf' = [frameOf EXCEPT ![e] = [q \in Pages |-> IF q \in S THEN NoFrame ELSE frameOf[e][q]]]
  BY <1>3 DEF Unmap
<1>13. frameOf \in [Envs -> [Pages -> Frames \cup {NoFrame}]]
  BY DEF IInv, TypeOK
<1>14. \A g \in Envs : g # e => frameOf'[g] = frameOf[g]
  BY <1>12, <1>13
<1>15. \A q \in Pages : frameOf'[e][q] = IF q = ws[e][i] THEN NoFrame ELSE frameOf[e][q]
  BY <1>12, <1>13 DEF S
<1> QED
  BY <1>5, <1>6, <1>7, <1>8, <1>9, <1>10, <1>11, <1>14, <1>15

\* The first half of page_fault_handler.
LEMMA PageFaultInv ==
    ASSUME IInv, NEW e \in Envs, NEW p \in Pages, PageFault(e, p)
    PROVE  IInv'
<1> USE DEF envVars, frameVars, diskVars, kVars
<1>1. /\ kpc = "user" /\ status[e] = "ready"
      /\ table[e][TableOf(p)] # NoFrame /\ frameOf[e][p] = NoFrame
      /\ kpc' = "place" /\ kenv' = e /\ kva' = p
      /\ UNCHANGED <<algo, status, last, pf, diskFree, kn>>
  BY DEF PageFault, Running
<1>2. kva' \in Nat
  BY <1>1, SetFacts
<1>3. DiskAccounting' /\ AllocInv' /\ LoadInv'
  BY <1>1, SameDisk DEF IInv, AllocInv, LoadInv, Loading
<1>4. CASE WSFull(e) /\ kidx' = Victim(e) /\ Evict(e, Victim(e))
  <2>1. Victim(e) \in Idx
    BY VictimInIdx DEF IInv
  <2>2. TypeOK'
    BY <1>1, <1>2, <1>4, <2>1, EvictFacts DEF IInv, TypeOK
  <2>3. WSMatchesPageTable' /\ FramesApart' /\ RefsCount'
    BY <1>4, <2>1, EvictFacts
  <2>4. NoLeak'
    <3>1. /\ table' = table /\ \A g \in Envs : g # e => frameOf'[g] = frameOf[g]
          /\ free \subseteq free'
          /\ \A f \in Frames : refs'[f] = 0 => refs[f] = 0 \/ f \in free'
      BY <1>4, <2>1, EvictFacts
    <3> QED
      BY <1>1, <3>1, NoLeakStep DEF IInv
  <2>5. PlaceInv'
    <3>1. table' = table /\ ws'[e][Victim(e)] = NoPage
      BY <1>4, <2>1, EvictFacts
    <3>2. frameOf'[e][p] = NoFrame
      BY <1>1, <1>4, <2>1, EvictFacts
    <3> QED
      BY <1>1, <2>1, <3>1, <3>2 DEF PlaceInv, WSFull
  <2> QED
    BY <1>3, <2>2, <2>3, <2>4, <2>5 DEF IInv
<1>5. CASE /\ ~WSFull(e) /\ kidx' = last[e]
           /\ stamp' = [stamp EXCEPT ![e] = StampAtFault(e)]
           /\ used' = [used EXCEPT ![e] = UsedAtFault(e)]
           /\ UNCHANGED <<ws, frameOf, modified, table, frameVars, disk>>
  <2>1. UNCHANGED <<ws, frameOf, modified, table, refs, free, content, disk>>
    BY <1>5
  <2>2. stamp' \in [Envs -> [Idx -> Nat]] /\ \A g \in Envs, i \in Idx : 3 * stamp'[g][i] <= 4 * TopBit
    BY <1>5, AtFaultFacts DEF IInv, TypeOK
  <2>3. used' \in [Envs -> SUBSET Pages] /\ \A g \in Envs : used'[g] \subseteq used[g]
    <3>1. UsedAtFault(e) \subseteq used[e] /\ UsedAtFault(e) \subseteq Pages
      BY AtFaultFacts, EntryTypes DEF IInv
    <3> QED
      BY <1>5, <3>1 DEF IInv, TypeOK
  <2>4. TypeOK'
    <3>1. last[e] \in Idx
      BY DEF IInv, TypeOK
    <3> QED
      BY <1>1, <1>2, <1>5, <2>1, <2>2, <2>3, <3>1 DEF IInv, TypeOK
  <2>5. WSMatchesPageTable'
    BY <2>1, <2>3, SameEntries DEF IInv, WSMatchesPageTable
  <2>6. FramesApart' /\ RefsCount'
    BY <2>1, SameFrames DEF IInv
  <2>7. NoLeak'
    BY <1>1, <2>1 DEF IInv, NoLeak, Resident, OnDisk
  <2>8. PlaceInv'
    BY <1>1, <1>5, <2>1 DEF PlaceInv, WSFull
  <2> QED
    BY <1>3, <2>4, <2>5, <2>6, <2>7, <2>8 DEF IInv
<1> QED
  BY <1>4, <1>5 DEF PageFault

\* Mapping a page and recording it in an empty entry, for the fault handler and
\* the loader.
LEMMA MapFacts ==
    ASSUME IInv, NEW e \in Envs, NEW p \in Pages, NEW f \in free, NEW F, Takes(e, p, f, F), TakeFrames(F),
           NEW val \in Contents, NEW i \in Idx, NEW st \in {0, TopBit}, MapInto(e, p, f, val, i, st),
           ws[e][i] = NoPage, frameOf[e][p] = NoFrame,
           modified' = modified \/ modified' = [modified EXCEPT ![e] = @ \cup {p}],
           algo' = algo, status' \in [Envs -> {"free", "loading", "ready", "exit", "stuck"}],
           pf' \in [Envs -> [Pages -> DiskFrames \cup {NoDisk}]],
           diskFree' \in SUBSET DiskFrames, disk' \in [DiskFrames -> Contents], DiskAccounting',
           kpc' \in {"user", "loadws"}, kenv' \in Envs \cup {NoEnv},
           kva' \in Nat, kn' \in Nat, kidx' \in Idx,
           status[e] # "stuck", status'[e] # "free",
           \A g \in Envs : g # e => status'[g] = status[g] /\ pf'[g] = pf[g],
           kpc' = "loadws" => LoadInv'
    PROVE  IInv'
<1>1. TypeOK
  BY DEF IInv
<1>2. /\ F \in SUBSET free
      /\ table' \in [Envs -> [Tables -> Frames \cup {NoFrame}]]
      /\ \A g \in Envs \ {e} : table'[g] = table[g]
  BY <1>1, TakesTypes
<1>3. modified' \in [Envs -> SUBSET Pages]
  <2>1. modified \in [Envs -> SUBSET Pages]
    BY <1>1 DEF TypeOK
  <2>2. CASE modified' = [modified EXCEPT ![e] = @ \cup {p}]
    BY <2>1, <2>2
  <2> QED
    BY <2>1, <2>2
<1>4. TypeOK'
  <2>1. /\ ws' \in [Envs -> [Idx -> Pages \cup {NoPage}]]
        /\ stamp' \in [Envs -> [Idx -> Nat]]
        /\ \A g \in Envs, j \in Idx : 3 * stamp'[g][j] <= 4 * TopBit
        /\ last' \in [Envs -> Idx]
        /\ frameOf' \in [Envs -> [Pages -> Frames \cup {NoFrame}]]
        /\ used' \in [Envs -> SUBSET Pages]
        /\ refs' \in [Frames -> Nat]
        /\ free' \in SUBSET Frames
        /\ content' \in [Frames -> Contents]
    <3>1. F \in SUBSET free
      BY <1>2
    <3> QED
      BY ONLY <1>1, <3>1, MapTypes, TakeFrames(F), MapInto(e, p, f, val, i, st),
              e \in Envs, p \in Pages, f \in free, val \in Contents, i \in Idx, st \in {0, TopBit}
  <2>2. algo' \in Algorithms
    BY <1>1 DEF TypeOK
  <2> QED
    BY <1>2, <1>3, <2>1, <2>2 DEF TypeOK
<1>5. WSMatchesPageTable'
  BY <1>1, MapWS DEF IInv
<1>6. frameOf' = [frameOf EXCEPT ![e][p] = f]
  BY DEF MapInto
<1>7. /\ FramesApart' /\ RefsCount'
      /\ \A h \in Frames : refs'[h] = 0 => refs[h] = 0 /\ (h \in free => h \in free')
  BY <1>1, <1>6, MapFrames DEF IInv
<1>8. NoLeak'
  <2>1. \A g \in Envs : g # e => frameOf'[g] = frameOf[g]
    BY <1>1, <1>6 DEF TypeOK
  <2> QED
    BY <1>2, <1>7, <2>1, NoLeakStep DEF IInv
<1>9. PlaceInv' /\ AllocInv' /\ LoadInv'
  BY InUserMode DEF PlaceInv, AllocInv
<1> QED
  BY <1>4, <1>5, <1>7, <1>8, <1>9 DEF IInv

\* The second half of page_fault_handler.
LEMMA PlaceStepInv ==
    ASSUME IInv, PlaceFromPageFile \/ PlaceNewStackPage
    PROVE  IInv'
<1> USE DEF diskVars
<1>1. /\ kpc = "place" /\ kenv \in Envs /\ status[kenv] = "ready" /\ kva \in Pages
      /\ frameOf[kenv][kva] = NoFrame /\ table[kenv][TableOf(kva)] # NoFrame
      /\ ~WSFull(kenv)
  BY DEF IInv, PlaceInv, PlaceFromPageFile, PlaceNewStackPage
<1>2. EmptySlot(kenv) \in Idx /\ ws[kenv][EmptySlot(kenv)] = NoPage
  BY <1>1, EmptySlotFacts DEF IInv
<1>3. ReturnToUser /\ UNCHANGED <<algo, status, modified, table>>
  BY DEF PlaceFromPageFile, PlaceNewStackPage
<1>4. PICK val \in Contents : Place(val)
  <2>1. CASE PlaceFromPageFile
    <3>1. pf[kenv][kva] \in DiskFrames
      BY <1>1, <2>1, EntryTypes DEF IInv, PlaceFromPageFile
    <3>2. disk[pf[kenv][kva]] \in Contents
      BY <3>1 DEF IInv, TypeOK
    <3> QED
      BY <2>1, <3>2 DEF PlaceFromPageFile
  <2>2. CASE PlaceNewStackPage
    BY <2>2 DEF PlaceNewStackPage, Contents
  <2> QED
    BY <2>1, <2>2
<1>5. PICK f \in free : /\ TakeFrames({f})
                        /\ MapInto(kenv, kva, f, val, EmptySlot(kenv), TopBit)
  BY <1>4 DEF Place
<1>6. Takes(kenv, kva, f, {f})
  BY <1>1, <1>3 DEF Takes
<1>7. /\ pf' \in [Envs -> [Pages -> DiskFrames \cup {NoDisk}]]
      /\ diskFree' \in SUBSET DiskFrames /\ disk' \in [DiskFrames -> Contents] /\ DiskAccounting'
      /\ \A g \in Envs : g # kenv => pf'[g] = pf[g]
  <2>1. CASE PlaceFromPageFile
    <3>1. UNCHANGED <<pf, diskFree, disk>>
      BY <2>1 DEF PlaceFromPageFile
    <3>2. DiskAccounting'
      BY <3>1, SameDisk DEF IInv
    <3> QED
      BY <3>1, <3>2 DEF IInv, TypeOK
  <2>2. CASE PlaceNewStackPage
    <3>1. PfAddEmpty(kenv, kva)
      BY <2>2 DEF PlaceNewStackPage
    <3>2. /\ pf' \in [Envs -> [Pages -> DiskFrames \cup {NoDisk}]]
          /\ diskFree' \in SUBSET DiskFrames /\ disk' \in [DiskFrames -> Contents] /\ DiskAccounting'
      BY <1>1, <3>1, PfAddFacts DEF IInv
    <3>3. \A g \in Envs : g # kenv => pf'[g] = pf[g]
      <4>1. pf \in [Envs -> [Pages -> DiskFrames \cup {NoDisk}]]
        BY DEF IInv, TypeOK
      <4>2. pf' = pf \/ \E d : pf' = [pf EXCEPT ![kenv][kva] = d]
        BY <3>1 DEF PfAddEmpty
      <4> QED
        BY <4>1, <4>2
    <3> QED
      BY <3>2, <3>3
  <2> QED
    BY <2>1, <2>2
<1>8. /\ kpc' = "user" /\ kenv' \in Envs \cup {NoEnv} /\ kva' \in Nat /\ kn' \in Nat /\ kidx' \in Idx
      /\ status' \in [Envs -> {"free", "loading", "ready", "exit", "stuck"}]
      /\ status'[kenv] # "free" /\ status[kenv] # "stuck"
  BY <1>1, <1>3, SetFacts DEF ReturnToUser, IInv, TypeOK
<1> QED
  BY <1>1, <1>2, <1>3, <1>5, <1>6, <1>7, <1>8, MapFacts

\* The panics of page_fault_handler.
LEMMA PlacePanicInv ==
    ASSUME IInv, PlaceInvalid \/ PlaceNoFrame
    PROVE  IInv'
<1> USE DEF pteVars, frameVars, diskVars
<1>1. kpc = "place" /\ kenv \in Envs /\ status[kenv] = "ready"
  BY DEF IInv, PlaceInv, PlaceInvalid, PlaceNoFrame
<1>2. /\ PanicExit(kenv)
      /\ UNCHANGED <<algo, ws, stamp, last, frameOf, used, modified, table, refs, free, content,
                     pf, diskFree, disk>>
  BY DEF PlaceInvalid, PlaceNoFrame
<1>3. /\ stamp' \in [Envs -> [Idx -> Nat]] /\ \A g \in Envs, i \in Idx : 3 * stamp'[g][i] <= 4 * TopBit
      /\ used' \in [Envs -> SUBSET Pages] /\ \A g \in Envs : used'[g] \subseteq used[g]
  BY <1>2 DEF IInv, TypeOK
<1> QED
  BY <1>1, <1>2, <1>3, PanicInv

-----------------------------------------------------------------------------
(***************************************************************************)
(* The system calls.                                                       *)
(***************************************************************************)
LEMMA AllocateMemInv ==
    ASSUME IInv, NEW e \in Envs, NEW va \in Heap, NEW n \in 1 .. NHeap, AllocateMem(e, va, n)
    PROVE  IInv'
<1> USE DEF envVars, pteVars, frameVars, diskVars
<1>1. /\ UNCHANGED <<algo, status, ws, stamp, last, frameOf, used, modified, table, refs, free, content,
                     pf, diskFree, disk, kidx>>
      /\ kpc = "user" /\ status[e] = "ready"
      /\ kpc' = "alloc" /\ kenv' = e /\ kva' = va /\ kn' = n /\ va + n - 1 \in Heap
  BY DEF AllocateMem, Running
<1>2. va \in Nat /\ n \in Nat /\ n >= 1
  BY SetFacts, SizeAssumption
<1>3. TypeOK'
  BY <1>1, <1>2 DEF IInv, TypeOK
<1>4. WSMatchesPageTable' /\ FramesApart' /\ RefsCount' /\ DiskAccounting'
  BY <1>1, SameEntries, SameFrames, SameDisk DEF IInv, WSMatchesPageTable
<1>5. NoLeak'
  BY <1>1 DEF IInv, NoLeak, Resident, OnDisk
<1>6. AllocInv' /\ PlaceInv' /\ LoadInv'
  BY <1>1, <1>2 DEF AllocInv, PlaceInv, LoadInv, Loading
<1> QED
  BY <1>3, <1>4, <1>5, <1>6 DEF IInv

\* A step of allocateMem.
LEMMA AllocatePageInv ==
    ASSUME IInv, AllocatePage
    PROVE  IInv'
<1> USE DEF envVars, pteVars, frameVars
<1>1. /\ UNCHANGED <<algo, status, ws, stamp, last, frameOf, used, modified, table, refs, free, content>>
      /\ kpc = "alloc" /\ kenv \in Envs /\ status[kenv] = "ready"
      /\ kn >= 1 /\ kva \in Heap /\ kva + kn - 1 \in Heap
      /\ PfAddEmpty(kenv, kva)
  BY DEF IInv, AllocInv, AllocatePage
<1>2. kva \in Pages /\ kn \in Nat /\ kva \in Nat /\ kidx \in Idx
  BY <1>1, SetFacts DEF IInv, TypeOK
<1>3. Junk \in Contents
  BY DEF Contents
<1>4. /\ pf' \in [Envs -> [Pages -> DiskFrames \cup {NoDisk}]]
      /\ diskFree' \in SUBSET DiskFrames /\ disk' \in [DiskFrames -> Contents] /\ DiskAccounting'
      /\ \A g \in Envs, q \in Pages : pf'[g][q] # pf[g][q] => g = kenv /\ q = kva
  BY <1>1, <1>2, <1>3, PfAddFacts DEF IInv
<1>5. \/ kpc' = "user" /\ kenv' = NoEnv /\ kva' = 0 /\ kn' = 0 /\ kidx' = 0
      \/ kpc' = "alloc" /\ kenv' = kenv /\ kva' = kva + 1 /\ kn' = kn - 1 /\ kn > 1 /\ kidx' = kidx
  BY <1>1 DEF AllocatePage, ReturnToUser
<1>6. kpc' \in {"user", "alloc"} /\ kenv' \in Envs \cup {NoEnv} /\ kva' \in Nat /\ kn' \in Nat /\ kidx' \in Idx
  BY <1>1, <1>2, <1>5, SetFacts
<1>7. TypeOK'
  BY <1>1, <1>4, <1>6 DEF IInv, TypeOK
<1>8. WSMatchesPageTable' /\ FramesApart' /\ RefsCount'
  BY <1>1, SameEntries, SameFrames DEF IInv, WSMatchesPageTable
<1>9. NoLeak'
  <2>1. ASSUME NEW g \in Envs, g # kenv PROVE OnDisk(g)' = OnDisk(g)
    BY <1>4, <2>1 DEF OnDisk
  <2> QED
    BY <1>1, <2>1 DEF IInv, NoLeak, Resident
<1>10. AllocInv'
  <2>1. CASE kpc' = "alloc"
    <3>1. kva + 1 \in Heap /\ kva + 1 + (kn - 1) - 1 = kva + kn - 1 /\ kn - 1 >= 1
      BY <1>1, <1>2, <1>5, <2>1, SizeAssumption DEF Heap
    <3> QED
      BY <1>1, <1>5, <2>1, <3>1 DEF AllocInv
  <2> QED
    BY <2>1 DEF AllocInv
<1>11. PlaceInv' /\ LoadInv'
  BY <1>6 DEF PlaceInv, LoadInv, Loading
<1> QED
  BY <1>4, <1>7, <1>8, <1>9, <1>10, <1>11 DEF IInv

\* freeMem.
LEMMA FreeMemInv ==
    ASSUME IInv, NEW e \in Envs, NEW va \in Heap, NEW n \in 1 .. NHeap, FreeMem(e, va, n)
    PROVE  IInv'
<1> DEFINE R == va .. va + n - 1
           hit == {i \in Idx : /\ ws[e][i] \in R
                               /\ \A j \in 0 .. i - 1 : ws[e][j] # ws[e][i]}
           gone == {ws[e][i] : i \in hit}
           emptied == {t \in TablesVisited(va, n) :
                          /\ table[e][t] # NoFrame
                          /\ \A p \in Pages \ gone : frameOf[e][p] # NoFrame => TableOf(p) # t}
<1>1. /\ kpc = "user" /\ status[e] = "ready" /\ va + n - 1 \in Heap
      /\ PfRemove(e, R)
      /\ ClearEntries(e, hit, stamp[e])
      /\ Unmap(e, gone, emptied, used[e])
      /\ UNCHANGED <<algo, status, last, kpc, kenv, kva, kn, kidx>>
  BY DEF FreeMem, Running, kVars
<1>2. R \in SUBSET Pages
  BY <1>1, SetFacts, SizeAssumption DEF Heap
<1>3. gone = {ws[e][i] : i \in hit} \ {NoPage} /\ hit \in SUBSET Idx
  BY <1>2, SetFacts
<1>4. emptied \in SUBSET {t \in Tables : table[e][t] # NoFrame}
  BY DEF TablesVisited
<1>5. \A p \in Resident(e) : TableOf(p) \in emptied => p \in gone
  BY DEF Resident
<1> HIDE DEF R, hit, gone, emptied
<1>6. /\ stamp[e] \in [Idx -> Nat] /\ \A i \in Idx : 3 * stamp[e][i] <= 4 * TopBit
      /\ used[e] \in SUBSET Pages
  BY DEF IInv, TypeOK
<1>7. WSMatchesPageTable' /\ gone \subseteq Resident(e)
  BY <1>1, <1>3, <1>4, <1>5, UnmapWS DEF IInv
<1>8. /\ FramesApart' /\ RefsCount' /\ free \subseteq free' /\ free' \in SUBSET Frames
      /\ \A f \in Frames : refs'[f] = 0 => refs[f] = 0 \/ f \in free'
      /\ \A f \in Frames : f \in {frameOf[e][p] : p \in gone} \cup {table[e][t] : t \in emptied} => refs[f] > 0
  BY <1>1, <1>4, <1>5, <1>7, UnmapFrames DEF IInv
<1>9. /\ pf' \in [Envs -> [Pages -> DiskFrames \cup {NoDisk}]]
      /\ diskFree' \in SUBSET DiskFrames /\ disk' \in [DiskFrames -> Contents] /\ DiskAccounting'
  BY <1>1, <1>2, PfRemoveFacts DEF IInv
<1>10. TypeOK'
  <2>1. /\ ws' \in [Envs -> [Idx -> Pages \cup {NoPage}]]
        /\ stamp' \in [Envs -> [Idx -> Nat]]
        /\ \A g \in Envs, j \in Idx : 3 * stamp'[g][j] <= 4 * TopBit
        /\ frameOf' \in [Envs -> [Pages -> Frames \cup {NoFrame}]]
        /\ used' \in [Envs -> SUBSET Pages]
        /\ modified' \in [Envs -> SUBSET Pages]
        /\ table' \in [Envs -> [Tables -> Frames \cup {NoFrame}]]
        /\ refs' \in [Frames -> Nat]
        /\ content' \in [Frames -> Contents]
    BY <1>1, <1>6, <1>8, UnmapTypes DEF IInv
  <2> QED
    BY <1>1, <1>8, <1>9, <2>1 DEF IInv, TypeOK
<1>11. NoLeak'
  <2>1. \A g \in Envs : g # e => frameOf'[g] = frameOf[g] /\ table'[g] = table[g]
    BY <1>1 DEF Unmap, IInv, TypeOK
  <2>2. \A g \in Envs : g # e => pf'[g] = pf[g]
    BY <1>1 DEF PfRemove, IInv, TypeOK
  <2> QED
    BY <1>1, <1>8, <2>1, <2>2, NoLeakStep DEF IInv
<1> QED
  BY <1>1, <1>7, <1>8, <1>9, <1>10, <1>11, InUserMode DEF IInv

-----------------------------------------------------------------------------
(***************************************************************************)
(* The loader.                                                             *)
(***************************************************************************)
LEMMA EnvCreateInv ==
    ASSUME IInv, NEW e \in Envs, EnvCreate(e)
    PROVE  IInv'
<1> USE DEF pteVars, frameVars, diskVars
<1>1. /\ UNCHANGED <<algo, frameOf, used, modified, table, refs, free, content, pf, diskFree, disk, kn, kidx>>
      /\ kpc = "user" /\ status[e] = "free"
      /\ status' = [status EXCEPT ![e] = "loading"]
      /\ ws' = [ws EXCEPT ![e] = [i \in Idx |-> NoPage]]
      /\ stamp' = [stamp EXCEPT ![e] = [i \in Idx |-> 0]]
      /\ last' = [last EXCEPT ![e] = 0]
      /\ kpc' = "loadws" /\ kenv' = e /\ kva' = 0
  BY DEF EnvCreate
<1>2. TypeOK'
  <2>1. status' \in [Envs -> {"free", "loading", "ready", "exit", "stuck"}]
    BY <1>1 DEF IInv, TypeOK
  <2>2. ws' \in [Envs -> [Idx -> Pages \cup {NoPage}]] /\ last' \in [Envs -> Idx]
    BY <1>1, SetFacts DEF IInv, TypeOK
  <2>3. stamp' \in [Envs -> [Idx -> Nat]] /\ \A g \in Envs, i \in Idx : 3 * stamp'[g][i] <= 4 * TopBit
    BY <1>1, StampAssumption DEF IInv, TypeOK
  <2> QED
    BY <1>1, <2>1, <2>2, <2>3 DEF IInv, TypeOK
<1>3. Resident(e) = {} /\ OnDisk(e) = {}
  BY <1>1 DEF IInv, NoLeak
<1>4. (\A i \in Idx : ws'[e][i] = NoPage) /\ (\A g \in Envs : g # e => ws'[g] = ws[g])
  BY <1>1 DEF IInv, TypeOK
<1>5. WSMatchesPageTable'
  <2>1. \A g \in Envs : Resident(g)' = Resident(g)
    BY <1>1 DEF Resident
  <2>2. \A g \in Envs : WSPages(g)' = WSPages(g)
    <3>1. WSPages(e) = {}
      BY <1>3 DEF IInv, WSMatchesPageTable
    <3> QED
      BY <1>4, <3>1 DEF WSPages
  <2>3. \A g \in Envs : \A i, j \in Idx : ws'[g][i] = ws'[g][j] /\ ws'[g][i] # NoPage => i = j
    BY <1>4 DEF IInv, WSMatchesPageTable
  <2> QED
    BY <1>1, <2>1, <2>2, <2>3 DEF IInv, WSMatchesPageTable
<1>6. FramesApart' /\ RefsCount' /\ DiskAccounting'
  BY <1>1, SameFrames, SameDisk DEF IInv
<1>7. status'[e] = "loading" /\ \A g \in Envs : g # e => status'[g] = status[g]
  BY <1>1 DEF IInv, TypeOK
<1>8. NoLeak'
  BY <1>1, <1>7, NoLeakStep DEF IInv
<1>9. LoadInv'
  <2>1. last'[e] = 0
    BY <1>1 DEF IInv, TypeOK
  <2>2. \A p \in Pages : pf'[e][p] = NoDisk
    BY <1>1, <1>3 DEF OnDisk
  <2>3. Loaded' = 0
    BY <1>1 DEF Loaded
  <2>4. 0 <= LoadCount /\ 0 <= NProg /\ \A i \in Idx : ~(i < 0)
    BY SetFacts, SizeAssumption DEF Idx
  <2>5. LoadCount' = LoadCount
    BY DEF LoadCount
  <2> QED
    BY <1>1, <1>4, <1>7, <2>1, <2>2, <2>3, <2>4, <2>5 DEF LoadInv
<1>10. PlaceInv' /\ AllocInv'
  BY <1>1 DEF PlaceInv, AllocInv
<1> QED
  BY <1>2, <1>5, <1>6, <1>8, <1>9, <1>10 DEF IInv

\* What LoadInv says of the page the loader is at.
LEMMA LoadingFacts ==
    ASSUME IInv, Loading
    PROVE  /\ kenv \in Envs /\ status[kenv] = "loading"
           /\ Loaded \in Idx /\ last[kenv] = Loaded /\ ws[kenv][Loaded] = NoPage
           /\ \A p \in Pages : p >= Loaded => frameOf[kenv][p] = NoFrame
           /\ kva \in Nat /\ kva <= NProg
           /\ \A q \in Pages : pf[kenv][q] # NoDisk => kpc = "loadpf" /\ q < kva
<1>1. /\ kenv \in Envs /\ status[kenv] = "loading" /\ kva <= NProg
      /\ Loaded <= LoadCount /\ last[kenv] = Loaded
      /\ \A i \in Idx : ws[kenv][i] = IF i < Loaded THEN i ELSE NoPage
      /\ \A q \in Pages : pf[kenv][q] # NoDisk => kpc = "loadpf" /\ q < kva
  BY DEF IInv, LoadInv
<1>2. kva \in Nat /\ last[kenv] \in Idx
  BY <1>1 DEF IInv, TypeOK
<1>3. Loaded \in Idx /\ ws[kenv][Loaded] = NoPage
  <2>1. Loaded \in Idx
    BY <1>1, <1>2
  <2>2. Loaded \in Nat
    BY <2>1, SetFacts
  <2>3. ~(Loaded < Loaded)
    BY <2>2
  <2> QED
    BY <1>1, <2>1, <2>3
<1>4. ASSUME NEW p \in Pages, p >= Loaded PROVE frameOf[kenv][p] = NoFrame
  <2>1. \A i \in Idx : ws[kenv][i] # p
    <3> TAKE i \in Idx
    <3>1. CASE i < Loaded
      <4>1. ws[kenv][i] = i
        BY <1>1, <3>1
      <4>2. i \in Nat /\ p \in Nat /\ Loaded \in Nat
        BY <1>3, SetFacts
      <4> QED
        BY <1>4, <3>1, <4>1, <4>2
    <3>2. CASE ~(i < Loaded)
      BY <1>1, <3>2, SetFacts
    <3> QED
      BY <3>1, <3>2
  <2>2. p \notin WSPages(kenv)
    BY <2>1 DEF WSPages
  <2> QED
    BY <1>1, <2>2 DEF IInv, WSMatchesPageTable, Resident
<1> QED
  BY <1>1, <1>2, <1>3, <1>4

\* The loader panics.
LEMMA NoFrameAtLoadInv ==
    ASSUME IInv, Loading, NEW p, NoFrameAtLoad(kenv, p)
    PROVE  IInv'
<1> USE DEF pteVars, diskVars
<1>1. kenv \in Envs /\ status[kenv] = "loading"
  BY LoadingFacts
<1>2. /\ PanicLoad(kenv) /\ free' \subseteq free
      /\ UNCHANGED <<algo, ws, stamp, last, frameOf, used, modified, table, refs, content, pf, diskFree, disk>>
  BY DEF NoFrameAtLoad
<1>3. /\ stamp' \in [Envs -> [Idx -> Nat]] /\ \A g \in Envs, i \in Idx : 3 * stamp'[g][i] <= 4 * TopBit
      /\ used' \in [Envs -> SUBSET Pages] /\ \A g \in Envs : used'[g] \subseteq used[g]
  BY <1>2 DEF IInv, TypeOK
<1> QED
  BY <1>1, <1>2, <1>3, PanicInv

\* MapAtLoad takes frames the way MapFacts asks.
LEMMA MapAtLoadFacts ==
    ASSUME NEW e \in Envs, NEW p \in Pages, NEW val, NEW st, MapAtLoad(e, p, val, st)
    PROVE  \E f \in free, F \in SUBSET free :
              Takes(e, p, f, F) /\ TakeFrames(F) /\ MapInto(e, p, f, val, last[e], st)
<1>1. PICK f \in free :
        /\ \/ /\ table[e][TableOf(p)] # NoFrame
              /\ TakeFrames({f})
              /\ UNCHANGED table
           \/ /\ table[e][TableOf(p)] = NoFrame
              /\ \E g \in free \ {f} :
                    /\ TakeFrames({f, g})
                    /\ table' = [table EXCEPT ![e][TableOf(p)] = g]
        /\ MapInto(e, p, f, val, last[e], st)
  BY DEF MapAtLoad
<1>2. CASE table[e][TableOf(p)] # NoFrame /\ TakeFrames({f}) /\ UNCHANGED table
  <2>1. Takes(e, p, f, {f}) /\ {f} \in SUBSET free
    BY <1>2 DEF Takes
  <2> QED
    BY <1>1, <1>2, <2>1
<1>3. ASSUME NEW g \in free \ {f}, table[e][TableOf(p)] = NoFrame, TakeFrames({f, g}),
             table' = [table EXCEPT ![e][TableOf(p)] = g]
      PROVE  \E F \in SUBSET free : Takes(e, p, f, F) /\ TakeFrames(F)
  <2>1. Takes(e, p, f, {f, g}) /\ {f, g} \in SUBSET free
    BY <1>3 DEF Takes
  <2> QED
    BY <1>3, <2>1
<1> QED
  BY <1>1, <1>2, <1>3

\* The loader maps a page of a segment.
LEMMA LoadWSPageInv ==
    ASSUME IInv, LoadWSPage
    PROVE  IInv'
<1> USE DEF diskVars
<1>1. kpc = "loadws" /\ kva < LoadCount /\ Loading /\ Loaded = kva
  BY DEF LoadWSPage, Loading, Loaded
<1>2. CASE NoFrameAtLoad(kenv, kva)
  BY <1>1, <1>2, NoFrameAtLoadInv
<1>3. CASE /\ MapAtLoad(kenv, kva, Image, 0) /\ kva' = kva + 1
           /\ UNCHANGED <<algo, status, modified, pf, diskFree, disk, kpc, kenv, kn, kidx>>
  <2>1. /\ kenv \in Envs /\ status[kenv] = "loading"
        /\ kva \in Idx /\ last[kenv] = kva /\ ws[kenv][kva] = NoPage
        /\ \A p \in Pages : p >= kva => frameOf[kenv][p] = NoFrame
        /\ kva \in Nat
        /\ \A q \in Pages : pf[kenv][q] = NoDisk
    BY <1>1, LoadingFacts
  <2>2. kva \in Pages /\ kva + 1 <= LoadCount /\ kva + 1 <= NProg /\ kva + 1 \in Idx
    BY <1>1, <2>1, SetFacts, SizeAssumption DEF Pages, Idx
  <2>3. frameOf[kenv][kva] = NoFrame
    BY <2>1, <2>2
  <2>4. PICK f \in free, F \in SUBSET free :
           Takes(kenv, kva, f, F) /\ TakeFrames(F) /\ MapInto(kenv, kva, f, Image, kva, 0)
    BY <1>3, <2>1, <2>2, MapAtLoadFacts
  <2>5. LoadInv'
    <3>1. last'[kenv] = kva + 1
      <4>1. (kva + 1) % WSMax = kva + 1
        BY <2>2, SlotFacts
      <4> QED
        BY <2>1, <2>4, <4>1 DEF MapInto, IInv, TypeOK
    <3>2. Loaded' = kva + 1 /\ LoadCount' = LoadCount
      BY <1>1, <1>3 DEF Loaded, LoadCount
    <3>3. \A i \in Idx : ws'[kenv][i] = IF i = kva THEN kva ELSE ws[kenv][i]
      BY <2>1, <2>4 DEF MapInto, IInv, TypeOK
    <3>4. \A i \in Idx : ws'[kenv][i] = IF i < kva + 1 THEN i ELSE NoPage
      <4>1. \A i \in Idx : ws[kenv][i] = IF i < kva THEN i ELSE NoPage
        BY <1>1 DEF IInv, LoadInv
      <4>2. \A i \in Idx : i < kva + 1 <=> (i < kva \/ i = kva)
        BY <2>1, SetFacts
      <4> QED
        BY <3>3, <4>1, <4>2
    <3> QED
      BY <1>3, <2>1, <2>2, <3>1, <3>2, <3>4 DEF LoadInv
  <2>6. /\ status' \in [Envs -> {"free", "loading", "ready", "exit", "stuck"}] /\ status'[kenv] = "loading"
        /\ pf' \in [Envs -> [Pages -> DiskFrames \cup {NoDisk}]]
        /\ diskFree' \in SUBSET DiskFrames /\ disk' \in [DiskFrames -> Contents]
        /\ kpc' = "loadws" /\ kenv' \in Envs \cup {NoEnv} /\ kva' \in Nat /\ kn' \in Nat /\ kidx' \in Idx
    BY <1>1, <1>3, <2>1 DEF IInv, TypeOK
  <2>7. DiskAccounting'
    BY <1>3, SameDisk DEF IInv
  <2>8. Image \in Contents
    BY DEF Contents
  <2> QED
    BY <1>3, <2>1, <2>2, <2>3, <2>4, <2>5, <2>6, <2>7, <2>8, MapFacts
<1> QED
  BY <1>2, <1>3 DEF LoadWSPage

\* The loader turns to the page file.
LEMMA LoadWSDoneInv ==
    ASSUME IInv, LoadWSDone
    PROVE  IInv'
<1> USE DEF envVars, pteVars, frameVars, diskVars
<1>1. /\ UNCHANGED <<algo, status, ws, stamp, last, frameOf, used, modified, table, refs, free, content,
                     pf, diskFree, disk, kenv, kn, kidx>>
      /\ kpc = "loadws" /\ kva = LoadCount /\ kpc' = "loadpf" /\ kva' = 0
  BY DEF LoadWSDone
<1>2. TypeOK'
  BY <1>1 DEF IInv, TypeOK
<1>3. WSMatchesPageTable' /\ FramesApart' /\ RefsCount' /\ DiskAccounting'
  BY <1>1, SameEntries, SameFrames, SameDisk DEF IInv, WSMatchesPageTable
<1>4. NoLeak'
  BY <1>1 DEF IInv, NoLeak, Resident, OnDisk
<1>5. LoadInv'
  <2>1. Loaded = LoadCount /\ Loaded' = LoadCount /\ LoadCount' = LoadCount /\ Loading
    BY <1>1 DEF Loaded, Loading, LoadCount
  <2>2. LoadCount <= LoadCount /\ 0 <= NProg
    BY SetFacts, SizeAssumption
  <2> QED
    BY <1>1, <2>1, <2>2 DEF IInv, LoadInv
<1>6. PlaceInv' /\ AllocInv'
  BY <1>1 DEF PlaceInv, AllocInv
<1> QED
  BY <1>2, <1>3, <1>4, <1>5, <1>6 DEF IInv

\* The loader writes a page of a segment to the page file.
LEMMA LoadPfPageInv ==
    ASSUME IInv, LoadPfPage
    PROVE  IInv'
<1> USE DEF pteVars, frameVars
<1>1. /\ UNCHANGED <<algo, ws, stamp, last, frameOf, used, modified, table, refs, free, content>>
      /\ kpc = "loadpf" /\ kva < NProg /\ PfAddPage(kenv, kva, Image) /\ Loading /\ Loaded = LoadCount
  BY DEF LoadPfPage, Loading, Loaded
<1>2. /\ kenv \in Envs /\ status[kenv] = "loading" /\ kva \in Nat
      /\ last[kenv] = LoadCount
      /\ \A q \in Pages : pf[kenv][q] # NoDisk => q < kva
  BY <1>1, LoadingFacts
<1>3. kva \in Pages /\ kva + 1 <= NProg /\ kva + 1 \in Nat
  BY <1>1, <1>2, SetFacts, SizeAssumption DEF Pages
<1>4. CASE DiskFrameFor(kenv, kva) = {} /\ PanicLoad(kenv)
  <2>1. UNCHANGED <<pf, diskFree, disk>>
    BY <1>1, <1>4 DEF PfAddPage, diskVars
  <2>2. /\ stamp' \in [Envs -> [Idx -> Nat]] /\ \A g \in Envs, i \in Idx : 3 * stamp'[g][i] <= 4 * TopBit
        /\ used' \in [Envs -> SUBSET Pages] /\ \A g \in Envs : used'[g] \subseteq used[g]
    BY <1>1 DEF IInv, TypeOK
  <2> QED
    BY <1>1, <1>2, <1>4, <2>1, <2>2, PanicInv
<1>5. CASE kva' = kva + 1 /\ UNCHANGED <<status, kpc, kenv, kn, kidx>>
  <2>1. Image \in Contents
    BY DEF Contents
  <2>2. /\ pf' \in [Envs -> [Pages -> DiskFrames \cup {NoDisk}]]
        /\ diskFree' \in SUBSET DiskFrames /\ disk' \in [DiskFrames -> Contents] /\ DiskAccounting'
        /\ \A g \in Envs, q \in Pages : pf'[g][q] # pf[g][q] => g = kenv /\ q = kva
    BY <1>1, <1>2, <1>3, <2>1, PfAddFacts DEF IInv
  <2>3. TypeOK'
    BY <1>1, <1>3, <1>5, <2>2 DEF IInv, TypeOK
  <2>4. WSMatchesPageTable' /\ FramesApart' /\ RefsCount'
    BY <1>1, SameEntries, SameFrames DEF IInv, WSMatchesPageTable
  <2>5. NoLeak'
    <3>1. ASSUME NEW g \in Envs, g # kenv PROVE OnDisk(g)' = OnDisk(g)
      BY <2>2, <3>1 DEF OnDisk
    <3> QED
      BY <1>1, <1>2, <1>5, <3>1 DEF IInv, NoLeak, Resident
  <2>6. LoadInv'
    <3>1. Loaded' = LoadCount /\ LoadCount' = LoadCount
      BY <1>1, <1>5 DEF Loaded, LoadCount
    <3>2. \A q \in Pages : pf'[kenv][q] # NoDisk => q < kva + 1
      <4> TAKE q \in Pages
      <4>1. q \in Nat
        BY SetFacts
      <4>2. CASE q = kva
        BY <1>2, <4>2
      <4>3. CASE q # kva
        BY <1>2, <2>2, <4>1, <4>3
      <4> QED
        BY <4>2, <4>3
    <3> QED
      BY <1>1, <1>2, <1>3, <1>5, <3>1, <3>2 DEF IInv, LoadInv
  <2>7. PlaceInv' /\ AllocInv'
    BY <1>1, <1>5 DEF PlaceInv, AllocInv
  <2> QED
    BY <2>2, <2>3, <2>4, <2>5, <2>6, <2>7 DEF IInv
<1> QED
  BY <1>4, <1>5 DEF LoadPfPage

\* The loader maps the first page of the stack.
LEMMA LoadStackPageInv ==
    ASSUME IInv, LoadStackPage
    PROVE  IInv'
<1>1. kpc = "loadpf" /\ kva = NProg /\ Loading /\ Loaded = LoadCount
  BY DEF LoadStackPage, Loading, Loaded
<1>2. CASE NoFrameAtLoad(kenv, NPages - 1)
  BY <1>1, <1>2, NoFrameAtLoadInv
<1>3. CASE /\ MapAtLoad(kenv, NPages - 1, Image, TopBit)
           /\ status' = [status EXCEPT ![kenv] = "ready"]
           /\ modified' = [modified EXCEPT ![kenv] = @ \cup {NPages - 1}]
           /\ PfAddPage(kenv, NPages - 1, Image)
           /\ ReturnToUser
           /\ UNCHANGED algo
  <2>1. /\ kenv \in Envs /\ status[kenv] = "loading"
        /\ LoadCount \in Idx /\ last[kenv] = LoadCount /\ ws[kenv][LoadCount] = NoPage
        /\ \A p \in Pages : p >= LoadCount => frameOf[kenv][p] = NoFrame
    BY <1>1, LoadingFacts
  <2>2. NPages - 1 \in Pages /\ NPages - 1 >= LoadCount
    BY SetFacts, SizeAssumption DEF Pages
  <2>3. frameOf[kenv][NPages - 1] = NoFrame
    BY <2>1, <2>2
  <2>4. PICK f \in free, F \in SUBSET free :
           /\ Takes(kenv, NPages - 1, f, F) /\ TakeFrames(F)
           /\ MapInto(kenv, NPages - 1, f, Image, LoadCount, TopBit)
    BY <1>3, <2>1, <2>2, MapAtLoadFacts
  <2>5. Image \in Contents
    BY DEF Contents
  <2>6. /\ pf' \in [Envs -> [Pages -> DiskFrames \cup {NoDisk}]]
        /\ diskFree' \in SUBSET DiskFrames /\ disk' \in [DiskFrames -> Contents] /\ DiskAccounting'
    BY <1>3, <2>1, <2>2, <2>5, PfAddFacts DEF IInv
  <2>7. \A g \in Envs : g # kenv => pf'[g] = pf[g]
    <3>1. pf \in [Envs -> [Pages -> DiskFrames \cup {NoDisk}]]
      BY DEF IInv, TypeOK
    <3>2. pf' = pf \/ \E d : pf' = [pf EXCEPT ![kenv][NPages - 1] = d]
      BY <1>3 DEF PfAddPage, diskVars
    <3> QED
      BY <3>1, <3>2
  <2>8. /\ kpc' = "user" /\ kenv' \in Envs \cup {NoEnv} /\ kva' \in Nat /\ kn' \in Nat /\ kidx' \in Idx
    BY <1>3, SetFacts DEF ReturnToUser
  <2>9. /\ status' \in [Envs -> {"free", "loading", "ready", "exit", "stuck"}]
        /\ status'[kenv] = "ready" /\ \A g \in Envs : g # kenv => status'[g] = status[g]
    BY <1>3, <2>1 DEF IInv, TypeOK
  <2> QED
    BY <1>3, <2>1, <2>2, <2>3, <2>4, <2>5, <2>6, <2>7, <2>8, <2>9, MapFacts
<1> QED
  BY <1>2, <1>3 DEF LoadStackPage

-----------------------------------------------------------------------------
(***************************************************************************)
(* The end of an environment.                                              *)
(***************************************************************************)
LEMMA EnvExitInv ==
    ASSUME IInv, NEW e \in Envs, EnvExit(e)
    PROVE  IInv'
<1> USE DEF pteVars, frameVars, diskVars, kVars
<1>1. /\ UNCHANGED <<algo, ws, stamp, last, frameOf, used, modified, table, refs, free, content,
                     pf, diskFree, disk, kpc, kenv, kva, kn, kidx>>
      /\ kpc = "user" /\ status[e] = "ready" /\ status' = [status EXCEPT ![e] = "exit"]
  BY DEF EnvExit, Running
<1>2. TypeOK'
  BY <1>1 DEF IInv, TypeOK
<1>3. WSMatchesPageTable' /\ FramesApart' /\ RefsCount' /\ DiskAccounting'
  BY <1>1, SameEntries, SameFrames, SameDisk DEF IInv, WSMatchesPageTable
<1>4. NoLeak'
  <2>1. status'[e] = "exit" /\ \A g \in Envs : g # e => status'[g] = status[g]
    BY <1>1 DEF IInv, TypeOK
  <2> QED
    BY <1>1, <2>1, NoLeakStep DEF IInv
<1> QED
  BY <1>1, <1>2, <1>3, <1>4, InUserMode DEF IInv

\* env_free.
LEMMA EnvFreeInv ==
    ASSUME IInv, NEW e \in Envs, EnvFree(e)
    PROVE  IInv'
<1> DEFINE T == {t \in Tables : table[e][t] # NoFrame}
           S == WSPages(e)
<1>1. /\ kpc = "user" /\ status[e] \in {"ready", "exit"}
      /\ status' = [status EXCEPT ![e] = "free"]
      /\ ClearEntries(e, Idx, stamp[e])
      /\ last' = [last EXCEPT ![e] = 0]
      /\ Unmap(e, S, T, used[e])
      /\ PfRemove(e, Pages)
      /\ UNCHANGED <<algo, kpc, kenv, kva, kn, kidx>>
  BY DEF EnvFree, PfFreeEnv, kVars
<1>2. S = {ws[e][i] : i \in Idx} \ {NoPage}
  BY DEF WSPages
<1>3. S = Resident(e)
  BY DEF IInv, WSMatchesPageTable
<1>4. T \in SUBSET {t \in Tables : table[e][t] # NoFrame} /\ T \in SUBSET Tables
  OBVIOUS
<1>5. /\ stamp[e] \in [Idx -> Nat] /\ \A i \in Idx : 3 * stamp[e][i] <= 4 * TopBit
      /\ used[e] \in SUBSET Pages
  BY DEF IInv, TypeOK
<1>6. \A t \in Tables : table'[e][t] = NoFrame
  BY <1>1 DEF Unmap, IInv, TypeOK
<1>7. Resident(e)' = {}
  <2>1. \A p \in Pages : frameOf'[e][p] = IF p \in S \/ TableOf(p) \in T THEN NoFrame ELSE frameOf[e][p]
    BY <1>1 DEF Unmap, IInv, TypeOK
  <2> QED
    BY <1>3, <2>1 DEF Resident
<1> HIDE DEF S, T
<1>8. WSMatchesPageTable'
  BY <1>1, <1>2, <1>3, <1>4, UnmapWS DEF IInv
<1>9. /\ FramesApart' /\ RefsCount' /\ free \subseteq free' /\ free' \in SUBSET Frames
      /\ \A f \in Frames : refs'[f] = 0 => refs[f] = 0 \/ f \in free'
      /\ \A f \in Frames : f \in {frameOf[e][p] : p \in S} \cup {table[e][t] : t \in T} => refs[f] > 0
  BY <1>1, <1>3, <1>4, UnmapFrames DEF IInv
<1>10. /\ pf' \in [Envs -> [Pages -> DiskFrames \cup {NoDisk}]]
       /\ diskFree' \in SUBSET DiskFrames /\ disk' \in [DiskFrames -> Contents] /\ DiskAccounting'
       /\ \A g \in Envs, q \in Pages : pf'[g][q] = IF g = e /\ q \in Pages THEN NoDisk ELSE pf[g][q]
  BY <1>1, PfRemoveFacts DEF IInv
<1>11. TypeOK'
  <2>1. /\ ws' \in [Envs -> [Idx -> Pages \cup {NoPage}]]
        /\ stamp' \in [Envs -> [Idx -> Nat]]
        /\ \A g \in Envs, j \in Idx : 3 * stamp'[g][j] <= 4 * TopBit
        /\ frameOf' \in [Envs -> [Pages -> Frames \cup {NoFrame}]]
        /\ used' \in [Envs -> SUBSET Pages]
        /\ modified' \in [Envs -> SUBSET Pages]
        /\ table' \in [Envs -> [Tables -> Frames \cup {NoFrame}]]
        /\ refs' \in [Frames -> Nat]
        /\ content' \in [Frames -> Contents]
    BY <1>1, <1>5, <1>9, UnmapTypes DEF IInv
  <2>2. /\ status' \in [Envs -> {"free", "loading", "ready", "exit", "stuck"}]
        /\ last' \in [Envs -> Idx]
    BY <1>1, SetFacts DEF IInv, TypeOK
  <2> QED
    BY <1>1, <1>9, <1>10, <2>1, <2>2 DEF IInv, TypeOK
<1>12. NoLeak'
  <2>1. \A g \in Envs : g # e => frameOf'[g] = frameOf[g] /\ table'[g] = table[g]
    BY <1>1 DEF Unmap, IInv, TypeOK
  <2>2. \A g \in Envs : g # e => status'[g] = status[g] /\ OnDisk(g)' = OnDisk(g) /\ Resident(g)' = Resident(g)
    <3>1. \A g \in Envs : g # e => OnDisk(g)' = OnDisk(g)
      BY <1>10 DEF OnDisk
    <3>2. \A g \in Envs : g # e => Resident(g)' = Resident(g)
      BY <2>1 DEF Resident
    <3>3. \A g \in Envs : g # e => status'[g] = status[g]
      BY <1>1 DEF IInv, TypeOK
    <3> QED
      BY <3>1, <3>2, <3>3
  <2>3. OnDisk(e)' = {}
    BY <1>10 DEF OnDisk
  <2>4. (\A g \in Envs : status'[g] # "stuck") => \A f \in Frames : refs'[f] = 0 => f \in free'
    <3>1. status[e] # "stuck"
      BY <1>1
    <3> QED
      BY <1>9, <2>2, <3>1 DEF IInv, NoLeak
  <2>5. ASSUME NEW g \in Envs, status'[g] = "free"
        PROVE  /\ Resident(g)' = {} /\ OnDisk(g)' = {}
               /\ \A t \in Tables : table'[g][t] = NoFrame
    <3>1. CASE g = e
      BY <1>6, <1>7, <2>3, <3>1
    <3>2. CASE g # e
      BY <2>1, <2>2, <2>5, <3>2 DEF IInv, NoLeak
    <3> QED
      BY <3>1, <3>2
  <2> QED
    BY <2>4, <2>5 DEF NoLeak
<1> QED
  BY <1>1, <1>8, <1>9, <1>10, <1>11, <1>12, InUserMode DEF IInv

\* A step that changes nothing.
LEMMA StutterInv ==
    ASSUME IInv, UNCHANGED vars
    PROVE  IInv'
<1> USE DEF vars, envVars, pteVars, frameVars, diskVars, kVars
<1>1. TypeOK'
  BY DEF IInv, TypeOK
<1>2. WSMatchesPageTable' /\ FramesApart' /\ RefsCount' /\ DiskAccounting'
  BY SameEntries, SameFrames, SameDisk DEF IInv, WSMatchesPageTable
<1>3. NoLeak'
  BY DEF IInv, NoLeak, Resident, OnDisk
<1>4. PlaceInv' /\ AllocInv'
  BY DEF IInv, PlaceInv, AllocInv, WSFull
<1>5. LoadInv'
  BY DEF IInv, LoadInv, Loading, Loaded, LoadCount
<1> QED
  BY <1>1, <1>2, <1>3, <1>4, <1>5 DEF IInv

-----------------------------------------------------------------------------
(***************************************************************************)
(* The invariant is inductive.                                             *)
(***************************************************************************)
LEMMA NextInv ==
    ASSUME IInv, [Next]_vars
    PROVE  IInv'
<1>1. ASSUME NEW e \in Envs, User(e) PROVE IInv'
  BY <1>1, MMUInv, TableFaultInv, PageFaultInv, AllocateMemInv, FreeMemInv,
     ClockTickInv, EnvExitInv DEF User
<1>2. CASE Kernel
  BY <1>2, PlaceStepInv, PlacePanicInv, AllocatePageInv, LoadWSPageInv, LoadWSDoneInv,
     LoadPfPageInv, LoadStackPageInv DEF Kernel
<1>3. CASE UNCHANGED vars
  BY <1>3, StutterInv
<1> QED
  BY <1>1, <1>2, <1>3, EnvCreateInv, EnvFreeInv DEF Next

\* The invariant holds in every reachable state.
LEMMA Inductive == Spec => []IInv
<1>1. IInv /\ [Next]_vars => IInv'
  BY NextInv
<1> QED
  BY InitInv, <1>1, PTL DEF Spec

-----------------------------------------------------------------------------
(***************************************************************************)
(* The theorems.                                                           *)
(***************************************************************************)
\* Every variable keeps its type through faults, system calls, loads and kills,
\* and no stamp of update_WS_time_stamps exceeds 4/3 of the top bit.
THEOREM TypeCorrect == Spec => []TypeOK
<1>1. IInv => TypeOK
  BY DEF IInv
<1> QED
  BY <1>1, Inductive, PTL

\* page_fault_handler, freeMem, env_create and env_free keep the working set and
\* the page table in step: a page is listed once iff it is mapped.
THEOREM WorkingSetCorrect == Spec => []WSMatchesPageTable
<1>1. IInv => WSMatchesPageTable
  BY DEF IInv
<1> QED
  BY <1>1, Inductive, PTL

\* A disk frame belongs to one page at most and is free iff it belongs to none.
THEOREM PageFileCorrect == Spec => []DiskAccounting
<1>1. IInv => DiskAccounting
  BY DEF IInv
<1> QED
  BY <1>1, Inductive, PTL

\* The counts of single entries add up to FrameAccounting.
LEMMA FramesAccounted ==
    ASSUME TypeOK, FramesApart, RefsCount
    PROVE  FrameAccounting
<1>1. \A u \in Uses :
        \/ u[1] = "page" /\ u[2] \in Envs /\ u[3] \in Pages /\ u = <<"page", u[2], u[3]>>
           /\ FrameAt(u) = frameOf[u[2]][u[3]] /\ FrameAt(u) # NoFrame
        \/ u[1] = "table" /\ u[2] \in Envs /\ u[3] \in Tables /\ u = <<"table", u[2], u[3]>>
           /\ FrameAt(u) = table[u[2]][u[3]] /\ FrameAt(u) # NoFrame
  BY DEF Uses, FrameAt
<1>2. \A u, v \in Uses : FrameAt(u) = FrameAt(v) => u = v
  <2> SUFFICES ASSUME NEW u \in Uses, NEW v \in Uses, FrameAt(u) = FrameAt(v) PROVE u = v
    OBVIOUS
  <2>1. CASE u[1] = "page" /\ v[1] = "page"
    <3>1. u[2] = v[2] /\ u[3] = v[3]
      BY <1>1, <2>1 DEF FramesApart
    <3> QED
      BY <1>1, <2>1, <3>1
  <2>2. CASE u[1] = "table" /\ v[1] = "table"
    <3>1. u[2] = v[2] /\ u[3] = v[3]
      BY <1>1, <2>2 DEF FramesApart
    <3> QED
      BY <1>1, <2>2, <3>1
  <2>3. CASE u[1] = "page" /\ v[1] = "table"
    BY <1>1, <2>3 DEF FramesApart
  <2>4. CASE u[1] = "table" /\ v[1] = "page"
    BY <1>1, <2>4 DEF FramesApart
  <2> QED
    BY <1>1, <2>1, <2>2, <2>3, <2>4
<1>3. ASSUME NEW f \in Frames
      PROVE  refs[f] = IF \E u \in Uses : FrameAt(u) = f THEN 1 ELSE 0
  <2>1. CASE \E u \in Uses : FrameAt(u) = f
    BY <1>1, <2>1 DEF RefsCount
  <2>2. ASSUME Backs(f) PROVE \E u \in Uses : FrameAt(u) = f
    <3>1. f # NoFrame
      BY NoneAssumption
    <3>2. ASSUME NEW e \in Envs, NEW p \in Pages, frameOf[e][p] = f
          PROVE  \E u \in Uses : FrameAt(u) = f
      <4>1. <<"page", e, p>> \in Uses /\ FrameAt(<<"page", e, p>>) = f
        BY <3>1, <3>2 DEF Uses, FrameAt
      <4> QED
        BY <4>1
    <3>3. ASSUME NEW e \in Envs, NEW t \in Tables, table[e][t] = f
          PROVE  \E u \in Uses : FrameAt(u) = f
      <4>1. <<"table", e, t>> \in Uses /\ FrameAt(<<"table", e, t>>) = f
        BY <3>1, <3>3 DEF Uses, FrameAt
      <4> QED
        BY <4>1
    <3> QED
      BY <2>2, <3>2, <3>3 DEF Backs
  <2> QED
    BY <2>1, <2>2 DEF RefsCount
<1>4. \A f \in Frames : f \in free => refs[f] = 0
  BY DEF RefsCount
<1> QED
  BY <1>2, <1>3, <1>4 DEF FrameAccounting

\* The frame pool of allocate_frame, map_frame, unmap_frame, kfree and env_free:
\* no frame is shared or free while used, and none is lost but by a loader that
\* panics.
THEOREM FramePoolCorrect == Spec => []FramesExact
<1>1. IInv => FramesExact
  BY FramesAccounted DEF IInv, FramesExact
<1> QED
  BY <1>1, Inductive, PTL

\* Only the first half of page_fault_handler enters the second.
LEMMA EvictsIsPageFault ==
    ASSUME IInv, [Next]_vars, NEW e \in Envs, Evicts(e)
    PROVE  /\ \E p \in Pages : PageFault(e, p)
           /\ Victim(e) \in Idx /\ Evict(e, Victim(e)) /\ algo' = algo
<1>1. kpc = "user" /\ kpc' = "place" /\ kenv' = e /\ WSFull(e)
  BY DEF Evicts
<1>2. ~UNCHANGED vars
  BY <1>1 DEF vars, kVars
<1>3. ~Kernel
  BY <1>1 DEF Kernel, PlaceFromPageFile, PlaceNewStackPage, PlaceInvalid, PlaceNoFrame,
              AllocatePage, LoadWSPage, LoadWSDone, LoadPfPage, LoadStackPage
<1>4. \A g \in Envs : ~EnvCreate(g) /\ ~EnvFree(g)
  BY <1>1 DEF EnvCreate, EnvFree, kVars
<1>5. ASSUME NEW g \in Envs, User(g)
      PROVE  \E p \in Pages : PageFault(g, p)
  <2>1. \A p \in Pages : ~MMURead(g, p) /\ ~TableFault(g, p) /\ \A v \in Values : ~MMUWrite(g, p, v)
    BY <1>1 DEF MMURead, MMUWrite, TableFault, PanicExit, ReturnToUser, kVars
  <2>2. ~ClockTick(g) /\ ~EnvExit(g)
    BY <1>1 DEF ClockTick, EnvExit, kVars
  <2>3. \A va \in Heap, n \in 1 .. NHeap : ~AllocateMem(g, va, n) /\ ~FreeMem(g, va, n)
    BY <1>1 DEF AllocateMem, FreeMem, kVars
  <2> QED
    BY <1>5, <2>1, <2>2, <2>3 DEF User
<1>6. PICK g \in Envs : User(g)
  BY <1>2, <1>3, <1>4 DEF Next
<1>7. PICK p \in Pages : PageFault(g, p)
  BY <1>5, <1>6
<1>8. g = e
  BY <1>1, <1>7 DEF PageFault
<1>9. Evict(e, Victim(e)) /\ algo' = algo
  BY <1>1, <1>7, <1>8 DEF PageFault
<1>10. Victim(e) \in Idx
  BY VictimInIdx DEF IInv
<1> QED
  BY <1>7, <1>8, <1>9, <1>10

\* Once page_fault_handler has evicted a page, allocate_frame cannot panic: the
\* frame of the victim had one reference and is free.
THEOREM EvictionFreesAFrame == Spec => EvictionLeavesAFrame
<1>1. ASSUME IInv, [Next]_vars, NEW e \in Envs, Evicts(e) PROVE free' # {}
  <2>1. WSFull(e) /\ Victim(e) \in Idx /\ Evict(e, Victim(e))
    BY <1>1, EvictsIsPageFault DEF Evicts
  <2> QED
    BY <1>1, <2>1, EvictFacts
<1>2. IInv /\ [Next]_vars => [\A e \in Envs : Evicts(e) => free' # {}]_vars
  BY <1>1
<1> QED
  BY <1>2, Inductive, PTL DEF Spec, EvictionLeavesAFrame

\* The clock hand stops at the first page without PERM_USED.
LEMMA ClockVictimFacts ==
    ASSUME TypeOK, NEW e \in Envs, NEW i \in Idx, ws[e][i] \notin used[e]
    PROVE  ws[e][ClockVictim(e)] \notin used[e]
<1> DEFINE stops == {k \in Idx : ws[e][Slot(e, k)] \notin used[e]}
<1>1. last[e] \in Idx
  BY DEF TypeOK
<1>2. stops # {}
  BY <1>1, SlotFacts DEF Slot
<1>3. PICK k \in stops : \A j \in stops : k <= j
  <2>1. stops \subseteq Nat
    BY SetFacts
  <2> QED
    BY <1>2, <2>1, LeastElement, Zenon
<1>4. k \in Idx /\ k \in Nat /\ ws[e][Slot(e, k)] \notin used[e]
  BY <1>3, SetFacts
<1>5. ClockPassed(e) = 0 .. k - 1
  <2>1. ASSUME NEW j \in ClockPassed(e) PROVE j \in 0 .. k - 1
    <3>1. j \in Idx /\ j \in Nat /\ \A m \in 0 .. j : ws[e][Slot(e, m)] \in used[e]
      BY SetFacts DEF ClockPassed
    <3>2. ~(k \in 0 .. j)
      BY <1>4, <3>1
    <3> QED
      BY <1>4, <3>1, <3>2
  <2>2. ASSUME NEW j \in 0 .. k - 1 PROVE j \in ClockPassed(e)
    <3>1. \A m \in 0 .. j : m \in Idx /\ ~(k <= m)
      BY <1>4, SizeAssumption DEF Idx
    <3>2. \A m \in 0 .. j : ws[e][Slot(e, m)] \in used[e]
      BY <1>3, <3>1
    <3>3. j \in Idx
      BY <1>4, SizeAssumption DEF Idx
    <3> QED
      BY <3>2, <3>3 DEF ClockPassed
  <2> QED
    BY <2>1, <2>2
<1>6. Cardinality(ClockPassed(e)) = k
  <2>1. 0 \in Int /\ k - 1 \in Int
    BY <1>4
  <2>2. Cardinality(0 .. k - 1) = IF 0 > k - 1 THEN 0 ELSE (k - 1) - 0 + 1
    BY <2>1, FS_Interval, Zenon
  <2> QED
    BY <1>4, <1>5, <2>2
<1>7. ClockVictim(e) = Slot(e, k)
  BY <1>4, <1>6, SlotFacts DEF ClockVictim
<1> QED
  BY <1>4, <1>7

\* An aged stamp is below MinTime iff the page was not used.
LEMMA AgedStampFacts ==
    ASSUME TypeOK, NEW e \in Envs, NEW i \in Idx, ws[e][i] # NoPage
    PROVE  AgedStamp(e)[i] < MinTime <=> ws[e][i] \notin used[e]
<1>1. stamp[e][i] \in Nat /\ 3 * stamp[e][i] <= 4 * TopBit
  BY DEF TypeOK
<1>2. AgedStamp(e)[i] = (stamp[e][i] \div 4) + (IF ws[e][i] \in used[e] THEN TopBit ELSE 0)
  BY DEF AgedStamp
<1> QED
  BY <1>1, <1>2, StampAssumption

\* The replacement of CLOCK and of LRU spares a page used since the hand passed
\* it or since the last aging, unless every page was.
THEOREM ReplacementSparesUsed == Spec => RecentlyUsedSpared
<1>1. ASSUME IInv, [Next]_vars, NEW e \in Envs, Evicts(e), algo \in {"CLOCK", "LRU"}
      PROVE  \/ (WSPages(e) \ WSPages(e)') \cap used[e] = {}
             \/ WSPages(e) \subseteq used[e]
  <2> DEFINE v == ws[e][Victim(e)]
  <2>1. WSFull(e) /\ Victim(e) \in Idx /\ Evict(e, Victim(e)) /\ TypeOK
    BY <1>1, EvictsIsPageFault DEF Evicts, IInv
  <2>2. WSPages(e) \ WSPages(e)' \subseteq {v}
    <3>1. WSPages(e) = Resident(e) /\ WSPages(e)' = Resident(e)'
      BY <1>1, <2>1, EvictFacts DEF IInv, WSMatchesPageTable
    <3>2. \A q \in Pages : frameOf'[e][q] = IF q = v THEN NoFrame ELSE frameOf[e][q]
      BY <1>1, <2>1, EvictFacts
    <3> QED
      BY <3>1, <3>2 DEF Resident
  <2>3. ASSUME ~(WSPages(e) \subseteq used[e]) PROVE v \notin used[e]
    <3>1. PICK i \in Idx : ws[e][i] \notin used[e]
      BY <2>3 DEF WSPages
    <3>2. CASE algo = "CLOCK"
      BY <2>1, <3>1, <3>2, ClockVictimFacts DEF Victim
    <3>3. CASE algo = "LRU"
      <4>1. \A j \in Idx : AgedStamp(e)[j] < MinTime <=> ws[e][j] \notin used[e]
        BY <2>1, AgedStampFacts DEF WSFull
      <4>2. AgedStamp(e) \in [Idx -> Nat]
        BY <2>1, AtFaultFacts
      <4>3. Victim(e) = LRUVictim(e, AgedStamp(e))
        BY <3>3 DEF Victim, StampAtFault
      <4>4. AgedStamp(e)[Victim(e)] < MinTime
        BY <2>1, <3>1, <4>1, <4>2, <4>3, LRUVictimFacts
      <4> QED
        BY <2>1, <4>1, <4>4
    <3> QED
      BY <1>1, <3>2, <3>3
  <2> QED
    BY <2>2, <2>3
<1>2. IInv /\ [Next]_vars =>
        [\A e \in Envs : Evicts(e) /\ algo \in {"CLOCK", "LRU"} =>
            \/ (WSPages(e) \ WSPages(e)') \cap used[e] = {}
            \/ WSPages(e) \subseteq used[e]]_vars
  BY <1>1
<1> QED
  BY <1>2, Inductive, PTL DEF Spec, RecentlyUsedSpared

-----------------------------------------------------------------------------
(***************************************************************************)
(* Demand paging implements FlatMemory.  With IInv, five facts about       *)
(* contents are inductive (DInv), and every step of Paging is then a step  *)
(* of FlatMemory or leaves it as it is, but for one: the eviction of a     *)
(* page without a disk frame.                                              *)
(***************************************************************************)
\* A free disk frame holds undefined bytes.
DiskClean == \A d \in diskFree : disk[d] = Junk

\* The page file is up to date for a page in memory without its modified bit.
CleanPage(e, p) ==
    frameOf[e][p] # NoFrame /\ pf[e][p] # NoDisk /\ p \notin modified[e]
        => content[frameOf[e][p]] = disk[pf[e][p]]

\* A heap page in memory is in the page file: allocateMem put it there.
HeapBacked(e, p) == p \in Heap /\ frameOf[e][p] # NoFrame => pf[e][p] # NoDisk

PagesKnown == \A e \in Envs, p \in Pages : CleanPage(e, p) /\ HeapBacked(e, p)

\* The loader's pages in memory hold the program's image, and the page file has
\* every page before kva in the second phase.
LoadImage ==
    /\ Loading => \A p \in Pages : frameOf[kenv][p] # NoFrame => content[frameOf[kenv][p]] = Image
    /\ kpc = "loadpf" => \A p \in Pages : p < kva => pf[kenv][p] # NoDisk

DInv == DiskClean /\ PagesKnown /\ LoadImage

-----------------------------------------------------------------------------
(***************************************************************************)
(* Steps of FlatMemory, told by what they do to single pages.              *)
(***************************************************************************)
Mem   == [e \in Envs |-> [p \in Pages |-> View(e, p)]]
Alive == {e \in Envs : status[e] # "free"}

RStep == [Memory!Next]_(Memory!fvars)

\* A step that leaves every view alone is a stutter of FlatMemory.
LEMMA SameStep ==
    ASSUME \A g \in Envs, q \in Pages : View(g, q)' = View(g, q), Alive' = Alive
    PROVE  RStep
<1>1. Mem' = Mem
  BY DEF Mem
<1>2. CASE (kpc' # "user") = (kpc # "user")
  BY <1>1, <1>2 DEF RStep, Memory!fvars, Mem, Alive
<1>3. CASE (kpc' # "user") = ~(kpc # "user")
  <2>1. Memory!Trap
    BY <1>1, <1>3 DEF Memory!Trap, Mem, Alive
  <2> QED
    BY <2>1 DEF RStep, Memory!Next
<1> QED
  BY <1>2, <1>3

\* One cell written is FlatMemory's Write.
LEMMA WriteStep ==
    ASSUME NEW e \in Alive, NEW p \in Pages, NEW v \in Values, View(e, p) # "unmapped",
           kpc = "user", kpc' = "user", Alive' = Alive,
           \A g \in Envs, q \in Pages : View(g, q)' = IF g = e /\ q = p THEN v ELSE View(g, q)
    PROVE  RStep
<1>1. e \in Envs
  BY DEF Alive
<1>2. Mem' = [Mem EXCEPT ![e][p] = v] /\ Mem[e][p] # "unmapped"
  BY <1>1 DEF Mem
<1>3. Memory!Write(e, p, v)
  BY <1>2 DEF Memory!Write, Mem, Alive
<1> QED
  BY <1>1, <1>3 DEF RStep, Memory!Next

\* A page that appears while the kernel runs is FlatMemory's Add.
LEMMA AddStep ==
    ASSUME NEW e \in Alive, NEW p \in Pages, NEW v \in {Image, Junk}, View(e, p) = "unmapped",
           kpc # "user", Alive' = Alive,
           \A g \in Envs, q \in Pages : View(g, q)' = IF g = e /\ q = p THEN v ELSE View(g, q)
    PROVE  RStep
<1>1. e \in Envs
  BY DEF Alive
<1>2. Mem' = [Mem EXCEPT ![e][p] = v] /\ Mem[e][p] = "unmapped"
  BY <1>1 DEF Mem
<1>3. Memory!Add(e, p, v)
  BY <1>2 DEF Memory!Add, Mem, Alive
<1> QED
  BY <1>1, <1>3 DEF RStep, Memory!Next

\* Pages of the heap that go are FlatMemory's Release.
LEMMA ReleaseStep ==
    ASSUME NEW e \in Alive, NEW R \in SUBSET Heap,
           kpc = "user", kpc' = "user", Alive' = Alive,
           \A g \in Envs, q \in Pages :
              View(g, q)' = IF g = e /\ q \in R THEN "unmapped" ELSE View(g, q)
    PROVE  RStep
<1>1. e \in Envs
  BY DEF Alive
<1>2. Mem' = [Mem EXCEPT ![e] = [p \in Pages |-> IF p \in R THEN "unmapped" ELSE @[p]]]
  BY <1>1 DEF Mem
<1>3. Memory!Release(e, R)
  BY <1>2 DEF Memory!Release, Mem, Alive
<1> QED
  BY <1>1, <1>3 DEF RStep, Memory!Next

\* A program that appears, without a page, is FlatMemory's Create.
LEMMA CreateStep ==
    ASSUME NEW e \in Envs, e \notin Alive, Alive' = Alive \cup {e}, kpc' # "user",
           \A g \in Envs, q \in Pages : View(g, q)' = View(g, q)
    PROVE  RStep
<1>1. Mem' = Mem
  BY DEF Mem
<1>2. Memory!Create(e)
  BY <1>1 DEF Memory!Create, Mem, Alive
<1> QED
  BY <1>2 DEF RStep, Memory!Next

\* A program whose pages all go is FlatMemory's Destroy.
LEMMA DestroyStep ==
    ASSUME NEW e \in Alive, Alive' = Alive \ {e}, kpc = "user", kpc' = "user",
           \A g \in Envs, q \in Pages : View(g, q)' = IF g = e THEN "unmapped" ELSE View(g, q)
    PROVE  RStep
<1>1. e \in Envs
  BY DEF Alive
<1>2. Mem' = [Mem EXCEPT ![e] = [p \in Pages |-> "unmapped"]]
  BY <1>1 DEF Mem
<1>3. Memory!Destroy(e)
  BY <1>2 DEF Memory!Destroy, Mem, Alive
<1> QED
  BY <1>1, <1>3 DEF RStep, Memory!Next

-----------------------------------------------------------------------------
(***************************************************************************)
(* Pages a step leaves alone, in memory and in the page file.              *)
(***************************************************************************)
MKept(g, q) ==
    /\ frameOf'[g][q] = frameOf[g][q]
    /\ frameOf[g][q] # NoFrame => content'[frameOf[g][q]] = content[frameOf[g][q]]
    /\ q \in modified'[g] <=> q \in modified[g]

DKept(g, q) ==
    /\ pf'[g][q] = pf[g][q]
    /\ pf[g][q] # NoDisk => disk'[pf[g][q]] = disk[pf[g][q]]

Kept(g, q) == MKept(g, q) /\ DKept(g, q)

\* A page that is kept keeps what the invariants say of it.
LEMMA KeptFacts ==
    ASSUME NEW g \in Envs, NEW q \in Pages, Kept(g, q)
    PROVE  /\ View(g, q)' = View(g, q)
           /\ CleanPage(g, q) => CleanPage(g, q)'
           /\ HeapBacked(g, q) => HeapBacked(g, q)'
<1>1. View(g, q)' = View(g, q)
  BY DEF Kept, MKept, DKept, View
<1>2. CleanPage(g, q) => CleanPage(g, q)'
  BY DEF Kept, MKept, DKept, CleanPage
<1>3. HeapBacked(g, q) => HeapBacked(g, q)'
  BY DEF Kept, MKept, DKept, HeapBacked
<1> QED
  BY <1>1, <1>2, <1>3

\* map_frame keeps the other pages in memory.
LEMMA MapKept ==
    ASSUME IInv, NEW e \in Envs, NEW p \in Pages, NEW f \in free, NEW val, NEW i, NEW st,
           MapInto(e, p, f, val, i, st),
           modified' = modified \/ modified' = [modified EXCEPT ![e] = @ \cup {p}]
    PROVE  /\ frameOf'[e][p] = f /\ f # NoFrame /\ content'[f] = val
           /\ \A g \in Envs, q \in Pages : ~(g = e /\ q \in {p}) => MKept(g, q)
<1>1. f \in Frames /\ f # NoFrame /\ \A g \in Envs, q \in Pages : frameOf[g][q] # f
  BY FreeUnused DEF IInv
<1>2. \A g \in Envs, q \in Pages : frameOf'[g][q] = IF g = e /\ q = p THEN f ELSE frameOf[g][q]
  BY DEF MapInto, IInv, TypeOK
<1>3. \A h \in Frames : content'[h] = IF h = f THEN val ELSE content[h]
  BY DEF MapInto, IInv, TypeOK
<1>4. ASSUME NEW g \in Envs, NEW q \in Pages, ~(g = e /\ q \in {p})
      PROVE  q \in modified'[g] <=> q \in modified[g]
  <2>1. modified \in [Envs -> SUBSET Pages]
    BY DEF IInv, TypeOK
  <2> QED
    BY <1>4, <2>1
<1>5. \A g \in Envs, q \in Pages : frameOf[g][q] \in Frames \cup {NoFrame}
  BY EntryTypes DEF IInv
<1> QED
  BY <1>1, <1>2, <1>3, <1>4, <1>5 DEF MKept

\* unmap_frame keeps the other pages in memory.
LEMMA UnmapKept ==
    ASSUME IInv, NEW e \in Envs, NEW S \in SUBSET Resident(e),
           NEW T \in SUBSET {t \in Tables : table[e][t] # NoFrame},
           \A p \in Resident(e) : TableOf(p) \in T => p \in S,
           NEW us, Unmap(e, S, T, us)
    PROVE  /\ \A q \in S : frameOf'[e][q] = NoFrame
           /\ \A g \in Envs, q \in Pages : ~(g = e /\ q \in S) => MKept(g, q)
<1> DEFINE D == {frameOf[e][p] : p \in S} \cup {table[e][t] : t \in T}
<1>1. \A q \in Pages : frameOf'[e][q] = IF q \in S \/ TableOf(q) \in T THEN NoFrame ELSE frameOf[e][q]
  BY DEF IInv, TypeOK, Unmap
<1>2. \A g \in Envs : g # e => frameOf'[g] = frameOf[g] /\ modified'[g] = modified[g]
  BY DEF IInv, TypeOK, Unmap
<1>3. modified'[e] = {p \in modified[e] : ~(p \in S \/ TableOf(p) \in T)}
  BY DEF IInv, TypeOK, Unmap
<1>4. \A f \in Frames : f \notin D => content'[f] = content[f]
  BY DEF Unmap
<1>5. ASSUME NEW g \in Envs, NEW q \in Pages, ~(g = e /\ q \in S), frameOf[g][q] # NoFrame
      PROVE  frameOf[g][q] \in Frames /\ frameOf[g][q] \notin D
  <2>1. frameOf[g][q] \in Frames
    BY <1>5, EntryTypes DEF IInv
  <2>2. \A p \in S : p \in Pages /\ frameOf[e][p] # NoFrame
    BY DEF Resident
  <2>3. \A p \in S : frameOf[g][q] # frameOf[e][p]
    BY <1>5, <2>2 DEF IInv, FramesApart
  <2>4. \A t \in T : frameOf[g][q] # table[e][t]
    BY <1>5 DEF IInv, FramesApart
  <2> QED
    BY <2>1, <2>3, <2>4
<1> HIDE DEF D
<1>6. \A q \in modified[e] : q \in Resident(e)
  BY DEF IInv, WSMatchesPageTable
<1>7. ASSUME NEW q \in Pages, q \notin S
      PROVE  MKept(e, q)
  <2>1. CASE TableOf(q) \in T
    <3>1. frameOf[e][q] = NoFrame /\ q \notin modified[e]
      BY <1>6, <1>7, <2>1 DEF Resident
    <3> QED
      BY <1>1, <1>3, <1>7, <2>1, <3>1 DEF MKept
  <2>2. CASE TableOf(q) \notin T
    BY <1>1, <1>3, <1>4, <1>5, <1>7, <2>2 DEF MKept
  <2> QED
    BY <2>1, <2>2
<1>8. ASSUME NEW g \in Envs, NEW q \in Pages, g # e
      PROVE  MKept(g, q)
  BY <1>2, <1>4, <1>5, <1>8 DEF MKept
<1>9. \A q \in S : q \in Pages
  BY DEF Resident
<1> QED
  BY <1>1, <1>7, <1>8, <1>9

\* Page p gets disk frame d, its own or a free one, and only d is written.
TakesDisk(e, p, d) ==
    /\ d \in DiskFrameFor(e, p)
    /\ pf' = [pf EXCEPT ![e][p] = d] /\ diskFree' = diskFree \ {d}
    /\ \A c \in DiskFrames : c # d => disk'[c] = disk[c]

\* pf_add_env_page keeps the other pages of the page file.
LEMMA PfAddKept ==
    ASSUME IInv, DiskClean, NEW e \in Envs, NEW p \in Pages, NEW d, TakesDisk(e, p, d)
    PROVE  /\ d # NoDisk /\ d \in DiskFrames /\ pf'[e][p] = d
           /\ pf[e][p] # NoDisk => d = pf[e][p]
           /\ pf[e][p] = NoDisk => disk[d] = Junk
           /\ DiskClean'
           /\ \A g \in Envs, q \in Pages : ~(g = e /\ q \in {p}) => DKept(g, q)
<1>1. d \in DiskFrames /\ d # NoDisk
  BY EntryTypes, NoneAssumption DEF DiskFrameFor, IInv, TakesDisk
<1>2. \A g \in Envs, q \in Pages : pf'[g][q] = IF g = e /\ q = p THEN d ELSE pf[g][q]
  BY DEF IInv, TypeOK, TakesDisk
<1>3. \A c \in DiskFrames : c # d => disk'[c] = disk[c]
  BY DEF TakesDisk
<1>4. \A g \in Envs, q \in Pages : pf[g][q] = d => g = e /\ q = p
  BY <1>1 DEF DiskFrameFor, IInv, DiskAccounting, OnDisk, TakesDisk
<1>5. \A g \in Envs, q \in Pages : pf[g][q] # NoDisk => pf[g][q] \in DiskFrames
  BY EntryTypes DEF IInv
<1>6. \A g \in Envs, q \in Pages : ~(g = e /\ q \in {p}) => DKept(g, q)
  BY <1>2, <1>3, <1>4, <1>5 DEF DKept
<1>7. DiskClean'
  BY <1>3, EntryTypes DEF DiskClean, IInv, TakesDisk
<1>8. (pf[e][p] # NoDisk => d = pf[e][p]) /\ (pf[e][p] = NoDisk => disk[d] = Junk)
  BY DEF DiskFrameFor, DiskClean, TakesDisk
<1> QED
  BY <1>1, <1>2, <1>6, <1>7, <1>8

\* The two ways pf_add_empty_env_page and pf_add_env_page end.
LEMMA PfAddCases ==
    ASSUME IInv, NEW e \in Envs, NEW p \in Pages
    PROVE  /\ PfAddEmpty(e, p) =>
                 \/ DiskFrameFor(e, p) = {} /\ UNCHANGED <<pf, diskFree, disk>>
                 \/ \E d : TakesDisk(e, p, d) /\ disk' = disk
           /\ \A val : PfAddPage(e, p, val) =>
                 \/ DiskFrameFor(e, p) = {} /\ UNCHANGED <<pf, diskFree, disk>>
                 \/ \E d : TakesDisk(e, p, d) /\ disk' = [disk EXCEPT ![d] = val]
<1>1. disk \in [DiskFrames -> Contents]
  BY DEF IInv, TypeOK
<1>2. PfAddEmpty(e, p) =>
        \/ DiskFrameFor(e, p) = {} /\ UNCHANGED <<pf, diskFree, disk>>
        \/ \E d : TakesDisk(e, p, d) /\ disk' = disk
  BY DEF PfAddEmpty, TakesDisk, diskVars
<1>3. ASSUME NEW val, PfAddPage(e, p, val)
      PROVE  \/ DiskFrameFor(e, p) = {} /\ UNCHANGED <<pf, diskFree, disk>>
             \/ \E d : TakesDisk(e, p, d) /\ disk' = [disk EXCEPT ![d] = val]
  BY <1>1, <1>3 DEF PfAddPage, TakesDisk, diskVars
<1> QED
  BY <1>2, <1>3

\* pf_remove_env_page keeps the other pages of the page file.
LEMMA PfRemoveKept ==
    ASSUME IInv, DiskClean, NEW e \in Envs, NEW R \in SUBSET Pages, PfRemove(e, R)
    PROVE  /\ \A q \in R : pf'[e][q] = NoDisk
           /\ DiskClean'
           /\ \A g \in Envs, q \in Pages : ~(g = e /\ q \in R) => DKept(g, q)
<1> DEFINE B == {pf[e][p] : p \in R} \ {NoDisk}
<1>1. \A g \in Envs, q \in Pages : pf'[g][q] = IF g = e /\ q \in R THEN NoDisk ELSE pf[g][q]
  BY PfRemoveFacts DEF IInv
<1>2. diskFree' = diskFree \cup B /\ \A d \in DiskFrames : disk'[d] = IF d \in B THEN Junk ELSE disk[d]
  BY DEF PfRemove
<1>3. \A d \in B : d \in DiskFrames
  BY EntryTypes DEF IInv
<1>4. ASSUME NEW g \in Envs, NEW q \in Pages, ~(g = e /\ q \in R), pf[g][q] # NoDisk
      PROVE  pf[g][q] \in DiskFrames /\ pf[g][q] \notin B
  <2>1. pf[g][q] \in DiskFrames
    BY <1>4, EntryTypes DEF IInv
  <2>2. \A p \in R : pf[g][q] # pf[e][p]
    BY <1>4 DEF IInv, DiskAccounting, OnDisk
  <2> QED
    BY <2>1, <2>2
<1> HIDE DEF B
<1>5. \A g \in Envs, q \in Pages : ~(g = e /\ q \in R) => DKept(g, q)
  BY <1>1, <1>2, <1>4 DEF DKept
<1>6. DiskClean'
  BY <1>2, <1>3, EntryTypes DEF DiskClean, IInv
<1> QED
  BY <1>1, <1>5, <1>6

\* A step that touches only pages S of environment e.
LEMMA KnownStep ==
    ASSUME PagesKnown, NEW e \in Envs, NEW S,
           \A g \in Envs, q \in Pages : ~(g = e /\ q \in S) => Kept(g, q),
           \A q \in Pages : q \in S => CleanPage(e, q)' /\ HeapBacked(e, q)'
    PROVE  /\ PagesKnown'
           /\ \A g \in Envs, q \in Pages : ~(g = e /\ q \in S) => View(g, q)' = View(g, q)
<1>1. ASSUME NEW g \in Envs, NEW q \in Pages, ~(g = e /\ q \in S)
      PROVE  /\ View(g, q)' = View(g, q)
             /\ CleanPage(g, q)' /\ HeapBacked(g, q)'
  BY <1>1, KeptFacts DEF PagesKnown
<1> QED
  BY <1>1 DEF PagesKnown

\* Outside the loader nobody is being loaded.
LEMMA NotLoading ==
    ASSUME kpc' \in {"user", "place", "alloc"} PROVE LoadImage'
  BY DEF LoadImage, Loading

\* Steps that touch no page at all.
LEMMA NothingStep ==
    ASSUME IInv, DInv, UNCHANGED <<frameOf, content, modified, pf, disk, diskFree>>
    PROVE  /\ DiskClean' /\ PagesKnown'
           /\ \A g \in Envs, q \in Pages : View(g, q)' = View(g, q)
<1>1. \A g \in Envs, q \in Pages : Kept(g, q)
  BY DEF Kept, MKept, DKept
<1>2. PagesKnown' /\ \A g \in Envs, q \in Pages : View(g, q)' = View(g, q)
  BY <1>1, KeptFacts DEF DInv, PagesKnown
<1> QED
  BY <1>2 DEF DInv, DiskClean

-----------------------------------------------------------------------------
(***************************************************************************)
(* Every action, first the ones FlatMemory does not see.                   *)
(***************************************************************************)
LEMMA UnseenRefines ==
    ASSUME IInv, DInv, NEW e \in Envs,
           \/ \E p \in Pages : MMURead(e, p) \/ TableFault(e, p)
           \/ \E va \in Heap, n \in 1 .. NHeap : AllocateMem(e, va, n)
           \/ ClockTick(e) \/ EnvExit(e) \/ PlaceInvalid \/ PlaceNoFrame \/ LoadWSDone
    PROVE  DInv' /\ RStep
<1> USE DEF envVars, pteVars, frameVars, diskVars, kVars
<1>1. UNCHANGED <<frameOf, content, modified, pf, disk, diskFree>>
  BY DEF MMURead, TableFault, AllocateMem, ClockTick, EnvExit, PlaceInvalid, PlaceNoFrame, LoadWSDone
<1>2. DiskClean' /\ PagesKnown' /\ \A g \in Envs, q \in Pages : View(g, q)' = View(g, q)
  BY <1>1, NothingStep
<1>3. Alive' = Alive
  <2>1. \/ status' = status
        \/ \E g \in Envs : status[g] = "ready" /\ status' = [status EXCEPT ![g] = "exit"]
    <3>1. CASE PlaceInvalid \/ PlaceNoFrame
      <4>1. kenv \in Envs /\ status[kenv] = "ready"
        BY <3>1 DEF IInv, PlaceInv, PlaceInvalid, PlaceNoFrame
      <4> QED
        BY <3>1, <4>1 DEF PlaceInvalid, PlaceNoFrame, PanicExit
    <3>2. CASE \E p \in Pages : TableFault(e, p)
      BY <3>2 DEF TableFault, PanicExit, Running
    <3>3. CASE EnvExit(e)
      BY <3>3 DEF EnvExit, Running
    <3>4. CASE \/ \E p \in Pages : MMURead(e, p)
               \/ \E va \in Heap, n \in 1 .. NHeap : AllocateMem(e, va, n)
               \/ ClockTick(e) \/ LoadWSDone
      BY <3>4 DEF MMURead, AllocateMem, ClockTick, LoadWSDone
    <3> QED
      BY <3>1, <3>2, <3>3, <3>4
  <2> QED
    BY <2>1 DEF Alive, IInv, TypeOK
<1>4. LoadImage'
  <2>1. CASE LoadWSDone
    <3>1. Loading /\ kenv' = kenv /\ kpc' = "loadpf" /\ kva' = 0 /\ \A p \in Pages : ~(p < 0)
      BY <2>1, SetFacts DEF LoadWSDone, Loading
    <3> QED
      BY <1>1, <3>1 DEF DInv, LoadImage
  <2>2. CASE ~LoadWSDone
    <3>1. kpc' \in {"user", "place", "alloc"}
      BY <2>2 DEF MMURead, TableFault, AllocateMem, ClockTick, EnvExit, PlaceInvalid, PlaceNoFrame,
                  Running, PanicExit, ReturnToUser
    <3> QED
      BY <3>1, NotLoading
  <2> QED
    BY <2>1, <2>2
<1> QED
  BY <1>2, <1>3, <1>4, SameStep DEF DInv

\* A step that changes nothing.
LEMMA StutterRefines ==
    ASSUME IInv, DInv, UNCHANGED vars
    PROVE  DInv' /\ RStep
<1> USE DEF vars, envVars, pteVars, frameVars, diskVars, kVars
<1>1. LoadImage' /\ Alive' = Alive
  BY DEF DInv, LoadImage, Loading, Alive
<1> QED
  BY <1>1, NothingStep, SameStep DEF DInv

\* A page in memory or in the page file shows defined or undefined bytes, and
\* never "unmapped".
LEMMA ViewMapped ==
    ASSUME TypeOK, NEW e \in Envs, NEW p \in Pages
    PROVE  View(e, p) = "unmapped" <=> frameOf[e][p] = NoFrame /\ pf[e][p] = NoDisk
<1>1. "unmapped" \notin Contents
  BY ValuesAssumption DEF Contents, Image, Junk
<1>2. frameOf[e][p] # NoFrame => content[frameOf[e][p]] \in Contents
  BY DEF TypeOK
<1>3. pf[e][p] # NoDisk => disk[pf[e][p]] \in Contents
  BY DEF TypeOK
<1> QED
  BY <1>1, <1>2, <1>3 DEF View

\* A store of the program.
LEMMA WriteRefines ==
    ASSUME IInv, DInv, NEW e \in Envs, NEW p \in Pages, NEW v \in Values, MMUWrite(e, p, v)
    PROVE  DInv' /\ RStep
<1> USE DEF envVars, frameVars, diskVars, kVars
<1>1. /\ kpc = "user" /\ kpc' = "user" /\ status[e] = "ready" /\ frameOf[e][p] # NoFrame
      /\ UNCHANGED <<status, frameOf, pf, disk, diskFree>>
      /\ modified' = [modified EXCEPT ![e] = @ \cup {p}]
      /\ content' = [content EXCEPT ![frameOf[e][p]] = v]
  BY DEF MMUWrite, Running
<1>2. \A g \in Envs, q \in Pages : frameOf[g][q] \in Frames \cup {NoFrame}
  BY EntryTypes DEF IInv
<1>3. \A h \in Frames : content'[h] = IF h = frameOf[e][p] THEN v ELSE content[h]
  BY <1>1 DEF IInv, TypeOK
<1>4. ASSUME NEW g \in Envs, NEW q \in Pages, ~(g = e /\ q \in {p})
      PROVE  Kept(g, q)
  <2>1. frameOf[g][q] # NoFrame => content'[frameOf[g][q]] = content[frameOf[g][q]]
    BY <1>2, <1>3, <1>4 DEF IInv, FramesApart
  <2>2. q \in modified'[g] <=> q \in modified[g]
    BY <1>1, <1>4 DEF IInv, TypeOK
  <2> QED
    BY <1>1, <2>1, <2>2 DEF Kept, MKept, DKept
<1>5. p \in modified'[e] /\ content'[frameOf[e][p]] = v
  BY <1>1, <1>2, <1>3 DEF IInv, TypeOK
<1>6. CleanPage(e, p)' /\ HeapBacked(e, p)'
  BY <1>1, <1>5 DEF CleanPage, HeapBacked, DInv, PagesKnown
<1>7. PagesKnown' /\ \A g \in Envs, q \in Pages : ~(g = e /\ q \in {p}) => View(g, q)' = View(g, q)
  BY <1>4, <1>6, KnownStep DEF DInv
<1>8. View(e, p)' = v /\ View(e, p) # "unmapped"
  BY <1>1, <1>5, ViewMapped DEF View, IInv
<1>9. DInv'
  BY <1>1, <1>7, NotLoading DEF DInv, DiskClean
<1>10. e \in Alive /\ Alive' = Alive
  BY <1>1 DEF Alive
<1>11. RStep
  BY <1>1, <1>7, <1>8, <1>10, WriteStep
<1> QED
  BY <1>9, <1>11

\* env_create before it loads anything.
LEMMA EnvCreateRefines ==
    ASSUME IInv, DInv, NEW e \in Envs, EnvCreate(e)
    PROVE  DInv' /\ RStep
<1> USE DEF pteVars, frameVars, diskVars
<1>1. /\ UNCHANGED <<frameOf, content, modified, pf, disk, diskFree>>
      /\ status[e] = "free" /\ status' = [status EXCEPT ![e] = "loading"]
      /\ kpc' = "loadws" /\ kenv' = e
  BY DEF EnvCreate
<1>2. DiskClean' /\ PagesKnown' /\ \A g \in Envs, q \in Pages : View(g, q)' = View(g, q)
  BY <1>1, NothingStep
<1>3. LoadImage'
  <2>1. \A q \in Pages : frameOf[e][q] = NoFrame
    BY <1>1 DEF IInv, NoLeak, Resident
  <2> QED
    BY <1>1, <2>1 DEF LoadImage
<1>4. e \notin Alive /\ Alive' = Alive \cup {e}
  BY <1>1 DEF Alive, IInv, TypeOK
<1> QED
  BY <1>1, <1>2, <1>3, <1>4, CreateStep DEF DInv

\* What the eviction of a page of environment e may do beyond FlatMemory.
LossStep(e) ==
    /\ Evicts(e)
    /\ \A g \in Envs, p \in Pages :
          View(g, p)' # View(g, p) => g = e /\ p \notin WSPages(e)' /\ pf[e][p] = NoDisk

\* An evicted page shows what it showed, provided it has a disk frame.
LEMMA PageFaultRefines ==
    ASSUME IInv, DInv, NEW e \in Envs, NEW p \in Pages, PageFault(e, p)
    PROVE  /\ DInv'
           /\ RStep \/ LossStep(e)
           /\ Resident(e) \subseteq OnDisk(e) => RStep
<1>1. kpc = "user" /\ kpc' = "place" /\ kenv' = e /\ UNCHANGED <<status, pf, diskFree>>
  BY DEF PageFault, Running
<1>2. LoadImage' /\ Alive' = Alive
  BY <1>1, NotLoading DEF Alive
<1>3. CASE ~WSFull(e)
  <2>1. UNCHANGED <<frameOf, content, modified, pf, disk, diskFree>>
    BY <1>1, <1>3 DEF PageFault, frameVars
  <2> QED
    BY <1>2, <2>1, NothingStep, SameStep DEF DInv
<1>4. CASE WSFull(e)
  <2>1. Victim(e) \in Idx /\ Evict(e, Victim(e))
    BY <1>4, VictimInIdx DEF PageFault, IInv
  <2>0. PICK v : v = ws[e][Victim(e)]
    OBVIOUS
  <2>2. v \in Resident(e) /\ Unmap(e, {v}, {}, UsedAfterChoice(e)) /\ disk' = DiskAfterUpdate(e, v)
    BY <1>4, <2>0, <2>1, EvictFacts DEF Evict
  <2>3. WSMatchesPageTable'
    BY <1>4, <2>1, EvictFacts
  <2>4. v \in Pages /\ frameOf[e][v] # NoFrame
    BY <2>2 DEF Resident
  <2>5. /\ frameOf'[e][v] = NoFrame
        /\ \A g \in Envs, q \in Pages : ~(g = e /\ q \in {v}) => MKept(g, q)
    <3>1. {v} \in SUBSET Resident(e)
      BY <2>2
    <3> QED
      BY <2>2, <3>1, UnmapKept
  <2>6. /\ \A d \in DiskFrames : d # pf[e][v] => disk'[d] = disk[d]
        /\ pf[e][v] # NoDisk => disk'[pf[e][v]] = content[frameOf[e][v]]
    <3>1. disk \in [DiskFrames -> Contents] /\ (pf[e][v] # NoDisk => pf[e][v] \in DiskFrames)
      BY <2>4, EntryTypes DEF IInv, TypeOK
    <3>2. CleanPage(e, v)
      BY <2>4 DEF DInv, PagesKnown
    <3> QED
      BY <2>2, <2>4, <3>1, <3>2 DEF DiskAfterUpdate, CleanPage
  <2>7. \A g \in Envs, q \in Pages : ~(g = e /\ q \in {v}) => DKept(g, q)
    <3>1. \A g \in Envs, q \in Pages : pf[g][q] # NoDisk => pf[g][q] \in DiskFrames
      BY EntryTypes DEF IInv
    <3>2. \A g \in Envs, q \in Pages : ~(g = e /\ q \in {v}) /\ pf[g][q] # NoDisk => pf[g][q] # pf[e][v]
      BY <2>4 DEF IInv, DiskAccounting, OnDisk
    <3> QED
      BY <1>1, <2>6, <3>1, <3>2 DEF DKept
  <2>8. CleanPage(e, v)' /\ HeapBacked(e, v)'
    BY <2>5 DEF CleanPage, HeapBacked
  <2>9. PagesKnown' /\ \A g \in Envs, q \in Pages : ~(g = e /\ q \in {v}) => View(g, q)' = View(g, q)
    BY <2>5, <2>7, <2>8, KnownStep DEF Kept, DInv
  <2>10. DiskClean'
    <3>1. \A d \in diskFree : d \in DiskFrames /\ d # pf[e][v]
      BY <2>4, EntryTypes DEF IInv, DiskAccounting
    <3> QED
      BY <1>1, <2>6, <3>1 DEF DInv, DiskClean
  <2>11. CASE pf[e][v] # NoDisk
    <3>1. View(e, v)' = View(e, v)
      BY <1>1, <2>4, <2>5, <2>6, <2>11 DEF View
    <3> QED
      BY <1>2, <2>9, <2>10, <3>1, SameStep DEF DInv
  <2>12. CASE pf[e][v] = NoDisk
    <3>1. v \notin WSPages(e)'
      BY <2>3, <2>5 DEF WSMatchesPageTable, Resident
    <3>2. LossStep(e)
      BY <1>1, <1>4, <2>9, <2>12, <3>1 DEF LossStep, Evicts
    <3>3. ~(Resident(e) \subseteq OnDisk(e))
      BY <2>2, <2>12 DEF OnDisk
    <3> QED
      BY <1>2, <2>9, <2>10, <3>2, <3>3 DEF DInv
  <2> QED
    BY <2>11, <2>12
<1> QED
  BY <1>3, <1>4

\* page_fault_handler reads a page in.
LEMMA PlaceFromPageFileRefines ==
    ASSUME IInv, DInv, PlaceFromPageFile
    PROVE  DInv' /\ RStep
<1>1. PICK e, p : e = kenv /\ p = kva
  OBVIOUS
<1>2. /\ kpc = "place" /\ e \in Envs /\ p \in Pages /\ frameOf[e][p] = NoFrame
      /\ pf[e][p] # NoDisk /\ Place(disk[pf[e][p]]) /\ kpc' = "user"
      /\ UNCHANGED <<status, modified, pf, diskFree, disk>>
  BY <1>1 DEF PlaceFromPageFile, ReturnToUser, IInv, PlaceInv, diskVars
<1>3. PICK f \in free : MapInto(e, p, f, disk[pf[e][p]], EmptySlot(e), TopBit)
  BY <1>1, <1>2 DEF Place
<1>4. /\ frameOf'[e][p] = f /\ f # NoFrame /\ content'[f] = disk[pf[e][p]]
      /\ \A g \in Envs, q \in Pages : ~(g = e /\ q \in {p}) => MKept(g, q)
  BY <1>2, <1>3, MapKept
<1>5. \A g \in Envs, q \in Pages : DKept(g, q)
  BY <1>2 DEF DKept
<1>6. CleanPage(e, p)' /\ HeapBacked(e, p)' /\ View(e, p)' = View(e, p)
  BY <1>2, <1>4 DEF CleanPage, HeapBacked, View
<1>7. PagesKnown' /\ \A g \in Envs, q \in Pages : ~(g = e /\ q \in {p}) => View(g, q)' = View(g, q)
  BY <1>2, <1>4, <1>5, <1>6, KnownStep DEF Kept, DInv
<1>8. DInv'
  BY <1>2, <1>7, NotLoading DEF DInv, DiskClean
<1>9. Alive' = Alive
  BY <1>2 DEF Alive
<1> QED
  BY <1>6, <1>7, <1>8, <1>9, SameStep

\* page_fault_handler adds a page of the stack.
LEMMA PlaceNewStackPageRefines ==
    ASSUME IInv, DInv, PlaceNewStackPage
    PROVE  DInv' /\ RStep
<1>1. PICK e, p : e = kenv /\ p = kva
  OBVIOUS
<1>2. /\ kpc = "place" /\ e \in Envs /\ status[e] = "ready" /\ p \in Pages /\ frameOf[e][p] = NoFrame
      /\ pf[e][p] = NoDisk /\ p \in Stack /\ Place(Junk) /\ PfAddEmpty(e, p) /\ kpc' = "user"
      /\ UNCHANGED <<status, modified>>
  BY <1>1 DEF PlaceNewStackPage, ReturnToUser, IInv, PlaceInv
<1>3. PICK f \in free : MapInto(e, p, f, Junk, EmptySlot(e), TopBit)
  BY <1>1, <1>2 DEF Place
<1>4. /\ frameOf'[e][p] = f /\ f # NoFrame /\ content'[f] = Junk
      /\ \A g \in Envs, q \in Pages : ~(g = e /\ q \in {p}) => MKept(g, q)
  BY <1>2, <1>3, MapKept
<1>5. /\ pf'[e][p] # NoDisk => disk'[pf'[e][p]] = Junk
      /\ DiskClean' /\ \A g \in Envs, q \in Pages : ~(g = e /\ q \in {p}) => DKept(g, q)
  <2>1. CASE UNCHANGED <<pf, diskFree, disk>>
    BY <1>2, <2>1 DEF DKept, DInv, DiskClean
  <2>2. ASSUME NEW d, TakesDisk(e, p, d), disk' = disk
        PROVE  /\ pf'[e][p] # NoDisk => disk'[pf'[e][p]] = Junk
               /\ DiskClean' /\ \A g \in Envs, q \in Pages : ~(g = e /\ q \in {p}) => DKept(g, q)
    BY <1>2, <2>2, PfAddKept DEF DInv
  <2> QED
    BY <1>2, <2>1, <2>2, PfAddCases
<1>6. p \notin Heap
  BY <1>2, SizeAssumption DEF Heap, Stack
<1>7. CleanPage(e, p)' /\ HeapBacked(e, p)' /\ View(e, p)' = Junk /\ View(e, p) = "unmapped"
  BY <1>2, <1>4, <1>5, <1>6 DEF CleanPage, HeapBacked, View
<1>8. PagesKnown' /\ \A g \in Envs, q \in Pages : ~(g = e /\ q \in {p}) => View(g, q)' = View(g, q)
  BY <1>2, <1>4, <1>5, <1>7, KnownStep DEF Kept, DInv
<1>9. DInv'
  BY <1>2, <1>5, <1>8, NotLoading DEF DInv
<1>10. Alive' = Alive /\ e \in Alive
  BY <1>2 DEF Alive
<1> QED
  BY <1>2, <1>7, <1>8, <1>9, <1>10, AddStep

\* A step of allocateMem.
LEMMA AllocatePageRefines ==
    ASSUME IInv, DInv, AllocatePage
    PROVE  DInv' /\ RStep
<1>1. PICK e, p : e = kenv /\ p = kva
  OBVIOUS
<1>2. /\ kpc = "alloc" /\ e \in Envs /\ status[e] = "ready" /\ p \in Heap /\ p \in Pages
      /\ PfAddEmpty(e, p) /\ kpc' \in {"user", "alloc"}
      /\ UNCHANGED <<status, frameOf, content, modified>>
  BY <1>1, SetFacts DEF AllocatePage, ReturnToUser, IInv, AllocInv, envVars, pteVars, frameVars
<1>3. Alive' = Alive /\ e \in Alive
  BY <1>2 DEF Alive
<1>4. LoadImage'
  BY <1>2, NotLoading
<1>5. CASE UNCHANGED <<pf, diskFree, disk>>
  BY <1>2, <1>3, <1>4, <1>5, NothingStep, SameStep DEF DInv
<1>6. ASSUME NEW d, TakesDisk(e, p, d), disk' = disk
      PROVE  DInv' /\ RStep
  <2>1. /\ d # NoDisk /\ pf'[e][p] = d
        /\ pf[e][p] # NoDisk => d = pf[e][p]
        /\ pf[e][p] = NoDisk => disk[d] = Junk
        /\ DiskClean'
        /\ \A g \in Envs, q \in Pages : ~(g = e /\ q \in {p}) => DKept(g, q)
    BY <1>2, <1>6, PfAddKept DEF DInv
  <2>2. \A g \in Envs, q \in Pages : MKept(g, q)
    BY <1>2 DEF MKept
  <2>3. HeapBacked(e, p) /\ CleanPage(e, p)
    BY <1>2 DEF DInv, PagesKnown
  <2>4. CleanPage(e, p)' /\ HeapBacked(e, p)'
    BY <1>2, <1>6, <2>1, <2>3 DEF CleanPage, HeapBacked
  <2>5. PagesKnown' /\ \A g \in Envs, q \in Pages : ~(g = e /\ q \in {p}) => View(g, q)' = View(g, q)
    BY <1>2, <2>1, <2>2, <2>4, KnownStep DEF Kept, DInv
  <2>6. DInv'
    BY <1>4, <2>1, <2>5 DEF DInv
  <2>7. CASE pf[e][p] # NoDisk
    <3>1. View(e, p)' = View(e, p)
      BY <1>2, <1>6, <2>1, <2>7 DEF View
    <3> QED
      BY <1>3, <2>5, <2>6, <3>1, SameStep
  <2>8. CASE pf[e][p] = NoDisk
    <3>1. View(e, p)' = Junk /\ View(e, p) = "unmapped"
      BY <1>2, <1>6, <2>1, <2>3, <2>8 DEF View, HeapBacked
    <3> QED
      BY <1>2, <1>3, <2>5, <2>6, <3>1, AddStep
  <2> QED
    BY <2>7, <2>8
<1> QED
  BY <1>2, <1>5, <1>6, PfAddCases

\* freeMem drops the range from memory and from the page file, and nothing else.
LEMMA FreeMemRefines ==
    ASSUME IInv, DInv, NEW e \in Envs, NEW va \in Heap, NEW n \in 1 .. NHeap, FreeMem(e, va, n)
    PROVE  DInv' /\ RStep /\ \A q \in va .. va + n - 1 : frameOf'[e][q] = NoFrame
<1>1. PICK R : R = va .. va + n - 1
  OBVIOUS
<1> DEFINE hit == {i \in Idx : /\ ws[e][i] \in R
                               /\ \A j \in 0 .. i - 1 : ws[e][j] # ws[e][i]}
           emptied(gn) == {t \in TablesVisited(va, n) :
                          /\ table[e][t] # NoFrame
                          /\ \A p \in Pages \ gn : frameOf[e][p] # NoFrame => TableOf(p) # t}
<1>2. PICK gone : gone = {ws[e][i] : i \in hit}
  OBVIOUS
<1>3. /\ kpc = "user" /\ kpc' = "user" /\ status[e] = "ready" /\ va + n - 1 \in Heap
      /\ PfRemove(e, R) /\ Unmap(e, gone, emptied(gone), used[e])
      /\ status' = status
  BY <1>1, <1>2 DEF FreeMem, Running, kVars
<1>4. R \in SUBSET Heap /\ R \in SUBSET Pages
  <2>1. va + n - 1 \in Heap /\ Heap \subseteq Pages
    BY <1>3, SetFacts
  <2>2. \A q \in va .. va + n - 1 : q \in Heap
    BY <2>1, SizeAssumption DEF Heap
  <2> QED
    BY <1>1, <2>1, <2>2
<1>5. gone = R \cap Resident(e)
  <2>1. Resident(e) = WSPages(e) /\ NoPage \notin Pages
    BY SetFacts DEF IInv, WSMatchesPageTable
  <2>2. ASSUME NEW q \in R \cap Resident(e) PROVE q \in gone
    <3>1. PICK i \in Idx : ws[e][i] = q
      BY <2>1, <2>2 DEF WSPages
    <3>2. \A j \in 0 .. i - 1 : j \in Idx /\ j # i
      BY <3>1, SizeAssumption DEF Idx
    <3>3. \A j \in 0 .. i - 1 : ws[e][j] # ws[e][i]
      <4>1. ws[e][i] # NoPage
        BY <1>4, <2>1, <3>1
      <4> QED
        BY <3>2, <4>1 DEF IInv, WSMatchesPageTable
    <3> QED
      BY <1>2, <3>1, <3>3
  <2>3. ASSUME NEW q \in gone PROVE q \in R \cap Resident(e)
    BY <1>2, <1>4, <2>1 DEF WSPages
  <2> QED
    BY <2>2, <2>3
<1>6. /\ emptied(gone) \in SUBSET {t \in Tables : table[e][t] # NoFrame}
      /\ \A p \in Resident(e) : TableOf(p) \in emptied(gone) => p \in gone
      /\ gone \in SUBSET Resident(e)
  BY <1>5 DEF TablesVisited, Resident
<1> HIDE DEF emptied, hit
<1>7. /\ \A q \in gone : frameOf'[e][q] = NoFrame
      /\ \A g \in Envs, q \in Pages : ~(g = e /\ q \in gone) => MKept(g, q)
  BY <1>3, <1>6, UnmapKept
<1>8. /\ \A q \in R : pf'[e][q] = NoDisk
      /\ DiskClean'
      /\ \A g \in Envs, q \in Pages : ~(g = e /\ q \in R) => DKept(g, q)
  BY <1>3, <1>4, PfRemoveKept DEF DInv
<1>9. \A q \in R : frameOf'[e][q] = NoFrame
  BY <1>4, <1>5, <1>7 DEF MKept, Resident
<1>10. \A q \in Pages : q \in R => CleanPage(e, q)' /\ HeapBacked(e, q)' /\ View(e, q)' = "unmapped"
  BY <1>8, <1>9 DEF CleanPage, HeapBacked, View
<1>11. \A g \in Envs, q \in Pages : ~(g = e /\ q \in R) => Kept(g, q)
  BY <1>5, <1>7, <1>8 DEF Kept
<1>12. PagesKnown' /\ \A g \in Envs, q \in Pages : ~(g = e /\ q \in R) => View(g, q)' = View(g, q)
  BY <1>10, <1>11, KnownStep DEF DInv
<1>13. DInv'
  BY <1>3, <1>8, <1>12, NotLoading DEF DInv
<1>14. Alive' = Alive /\ e \in Alive
  BY <1>3 DEF Alive
<1>15. RStep
  BY <1>3, <1>4, <1>10, <1>12, <1>14, ReleaseStep
<1> QED
  BY <1>1, <1>9, <1>13, <1>15

\* env_free.
LEMMA EnvFreeRefines ==
    ASSUME IInv, DInv, NEW e \in Envs, EnvFree(e)
    PROVE  DInv' /\ RStep
<1>1. /\ kpc = "user" /\ kpc' = "user" /\ status[e] \in {"ready", "exit"}
      /\ status' = [status EXCEPT ![e] = "free"]
      /\ Unmap(e, Resident(e), {t \in Tables : table[e][t] # NoFrame}, used[e])
      /\ PfRemove(e, Pages)
  BY DEF EnvFree, PfFreeEnv, kVars, IInv, WSMatchesPageTable
<1>2. /\ \A q \in Resident(e) : frameOf'[e][q] = NoFrame
      /\ \A g \in Envs, q \in Pages : ~(g = e /\ q \in Resident(e)) => MKept(g, q)
  BY <1>1, UnmapKept
<1>3. /\ \A q \in Pages : pf'[e][q] = NoDisk
      /\ DiskClean'
      /\ \A g \in Envs, q \in Pages : ~(g = e /\ q \in Pages) => DKept(g, q)
  BY <1>1, PfRemoveKept DEF DInv
<1>4. \A q \in Pages : frameOf'[e][q] = NoFrame
  BY <1>2 DEF MKept, Resident
<1>5. \A q \in Pages : q \in Pages => CleanPage(e, q)' /\ HeapBacked(e, q)' /\ View(e, q)' = "unmapped"
  BY <1>3, <1>4 DEF CleanPage, HeapBacked, View
<1>6. \A g \in Envs, q \in Pages : ~(g = e /\ q \in Pages) => Kept(g, q)
  BY <1>2, <1>3 DEF Kept
<1>7. PagesKnown' /\ \A g \in Envs, q \in Pages : ~(g = e /\ q \in Pages) => View(g, q)' = View(g, q)
  BY <1>5, <1>6, KnownStep DEF DInv
<1>8. DInv'
  BY <1>1, <1>3, <1>7, NotLoading DEF DInv
<1>9. e \in Alive /\ Alive' = Alive \ {e}
  BY <1>1 DEF Alive, IInv, TypeOK
<1> QED
  BY <1>1, <1>5, <1>7, <1>8, <1>9, DestroyStep

\* A loader that panics leaves memory as it is.
LEMMA PanicLoadRefines ==
    ASSUME IInv, DInv, Loading, PanicLoad(kenv),
           UNCHANGED <<frameOf, content, modified, pf, disk, diskFree>>
    PROVE  DInv' /\ RStep
<1>1. kpc' = "user"
  BY DEF PanicLoad, ReturnToUser
<1>2. kenv \in Envs /\ status[kenv] = "loading"
  BY LoadingFacts
<1>3. Alive' = Alive
  BY <1>2 DEF Alive, PanicLoad, IInv, TypeOK
<1> QED
  BY <1>1, <1>3, NothingStep, NotLoading, SameStep DEF DInv

\* The loader maps a page of a segment.
LEMMA LoadWSPageRefines ==
    ASSUME IInv, DInv, LoadWSPage
    PROVE  DInv' /\ RStep
<1>1. PICK e, p : e = kenv /\ p = kva
  OBVIOUS
<1>2. kpc = "loadws" /\ p < LoadCount /\ Loading /\ Loaded = p
  BY <1>1 DEF LoadWSPage, Loading, Loaded
<1>3. CASE NoFrameAtLoad(kenv, kva)
  BY <1>2, <1>3, PanicLoadRefines DEF NoFrameAtLoad, pteVars, diskVars
<1>4. CASE /\ MapAtLoad(e, p, Image, 0)
           /\ UNCHANGED <<algo, status, modified, diskVars, kpc, kenv, kn, kidx>>
  <2>1. /\ e \in Envs /\ status[e] = "loading" /\ p \in Nat /\ p <= NProg
        /\ \A q \in Pages : q >= p => frameOf[e][q] = NoFrame
        /\ \A q \in Pages : pf[e][q] = NoDisk
    BY <1>1, <1>2, LoadingFacts
  <2>2. p \in Pages /\ p \notin Heap /\ p >= p
    BY <1>2, <2>1, SetFacts, SizeAssumption DEF Pages, Heap
  <2>3. frameOf[e][p] = NoFrame /\ pf[e][p] = NoDisk
    BY <2>1, <2>2
  <2>4. UNCHANGED <<status, modified, pf, diskFree, disk, kpc, kenv>>
    BY <1>4 DEF diskVars
  <2>5. PICK f \in free : MapInto(e, p, f, Image, last[e], 0)
    BY <1>4, <2>1, <2>2 DEF MapAtLoad
  <2>6. /\ frameOf'[e][p] = f /\ f # NoFrame /\ content'[f] = Image
        /\ \A g \in Envs, q \in Pages : ~(g = e /\ q \in {p}) => MKept(g, q)
    BY <2>1, <2>2, <2>4, <2>5, MapKept
  <2>7. \A g \in Envs, q \in Pages : DKept(g, q)
    BY <2>4 DEF DKept
  <2>8. CleanPage(e, p)' /\ HeapBacked(e, p)' /\ View(e, p)' = Image /\ View(e, p) = "unmapped"
    BY <2>2, <2>3, <2>4, <2>6 DEF CleanPage, HeapBacked, View
  <2>9. PagesKnown' /\ \A g \in Envs, q \in Pages : ~(g = e /\ q \in {p}) => View(g, q)' = View(g, q)
    BY <2>1, <2>6, <2>7, <2>8, KnownStep DEF Kept, DInv
  <2>10. LoadImage'
    <3>1. \A q \in Pages : frameOf[e][q] # NoFrame => content[frameOf[e][q]] = Image
      BY <1>1, <1>2 DEF DInv, LoadImage
    <3>2. \A q \in Pages : frameOf'[e][q] # NoFrame => content'[frameOf'[e][q]] = Image
      BY <2>1, <2>6, <3>1 DEF MKept
    <3> QED
      BY <1>1, <1>2, <2>4, <3>2 DEF LoadImage
  <2>11. DInv'
    BY <2>4, <2>9, <2>10 DEF DInv, DiskClean
  <2>12. Alive' = Alive /\ e \in Alive
    BY <2>1, <2>4 DEF Alive
  <2> QED
    BY <1>2, <2>2, <2>8, <2>9, <2>11, <2>12, AddStep
<1> QED
  BY <1>1, <1>3, <1>4 DEF LoadWSPage

\* The loader writes a page of a segment to the page file.
LEMMA LoadPfPageRefines ==
    ASSUME IInv, DInv, LoadPfPage
    PROVE  DInv' /\ RStep
<1>1. PICK e, p : e = kenv /\ p = kva
  OBVIOUS
<1>2. /\ kpc = "loadpf" /\ p < NProg /\ Loading
      /\ PfAddPage(e, p, Image) /\ UNCHANGED <<frameOf, content, modified>>
  BY <1>1 DEF LoadPfPage, Loading, pteVars, frameVars
<1>3. /\ e \in Envs /\ status[e] = "loading" /\ p \in Nat
      /\ \A q \in Pages : pf[e][q] # NoDisk => q < p
  BY <1>1, <1>2, LoadingFacts
<1>4. p \in Pages /\ p \notin Heap /\ ~(p < p)
  BY <1>2, <1>3, SetFacts, SizeAssumption DEF Pages, Heap
<1>5. CASE DiskFrameFor(e, p) = {} /\ UNCHANGED <<pf, diskFree, disk>>
  <2>1. PanicLoad(kenv)
    BY <1>1, <1>5 DEF LoadPfPage
  <2> QED
    BY <1>2, <1>5, <2>1, PanicLoadRefines
<1>6. ASSUME NEW d, TakesDisk(e, p, d), disk' = [disk EXCEPT ![d] = Image]
      PROVE  DInv' /\ RStep
  <2>1. /\ d # NoDisk /\ d \in DiskFrames /\ pf'[e][p] = d /\ DiskClean'
        /\ \A g \in Envs, q \in Pages : ~(g = e /\ q \in {p}) => DKept(g, q)
    BY <1>3, <1>4, <1>6, PfAddKept DEF DInv
  <2>2. disk'[d] = Image
    BY <1>6, <2>1 DEF IInv, TypeOK
  <2>3. kva' = p + 1 /\ UNCHANGED <<status, kpc, kenv>>
    BY <1>1, <1>6 DEF LoadPfPage, TakesDisk
  <2>4. \A q \in Pages : frameOf[e][q] # NoFrame => content[frameOf[e][q]] = Image
    BY <1>1, <1>2 DEF DInv, LoadImage
  <2>5. \A g \in Envs, q \in Pages : MKept(g, q)
    BY <1>2 DEF MKept
  <2>6. CleanPage(e, p)' /\ HeapBacked(e, p)'
    BY <1>2, <1>4, <2>1, <2>2, <2>4 DEF CleanPage, HeapBacked
  <2>7. PagesKnown' /\ \A g \in Envs, q \in Pages : ~(g = e /\ q \in {p}) => View(g, q)' = View(g, q)
    BY <1>3, <2>1, <2>5, <2>6, KnownStep DEF Kept, DInv
  <2>8. LoadImage'
    <3>1. ASSUME NEW q \in Pages, q < p + 1 PROVE pf'[e][q] # NoDisk
      <4>1. CASE q = p
        BY <2>1, <4>1
      <4>2. CASE q # p
        <5>1. q < p
          BY <1>3, <3>1, <4>2, SetFacts
        <5>2. pf[e][q] # NoDisk
          BY <1>1, <1>2, <5>1 DEF DInv, LoadImage
        <5> QED
          BY <1>3, <2>1, <4>2, <5>2 DEF DKept
      <4> QED
        BY <4>1, <4>2
    <3> QED
      BY <1>1, <1>2, <2>3, <2>4, <3>1 DEF LoadImage
  <2>9. DInv'
    BY <2>1, <2>7, <2>8 DEF DInv
  <2>10. Alive' = Alive /\ e \in Alive
    BY <1>3, <2>3 DEF Alive
  <2>11. CASE frameOf[e][p] # NoFrame
    <3>1. View(e, p)' = View(e, p)
      BY <1>2, <2>11 DEF View
    <3> QED
      BY <2>7, <2>9, <2>10, <3>1, SameStep
  <2>12. CASE frameOf[e][p] = NoFrame
    <3>1. pf[e][p] = NoDisk
      BY <1>3, <1>4
    <3>2. View(e, p)' = Image /\ View(e, p) = "unmapped"
      BY <1>2, <2>1, <2>2, <2>12, <3>1 DEF View
    <3> QED
      BY <1>2, <1>4, <2>7, <2>9, <2>10, <3>2, AddStep
  <2> QED
    BY <2>11, <2>12
<1> QED
  BY <1>2, <1>3, <1>4, <1>5, <1>6, PfAddCases

\* The loader maps the first page of the stack.
LEMMA LoadStackPageRefines ==
    ASSUME IInv, DInv, LoadStackPage
    PROVE  DInv' /\ RStep
<1>1. PICK e, p : e = kenv /\ p = NPages - 1
  OBVIOUS
<1>2. kpc = "loadpf" /\ kva = NProg /\ Loading /\ Loaded = LoadCount
  BY DEF LoadStackPage, Loading, Loaded
<1>3. CASE NoFrameAtLoad(kenv, NPages - 1)
  BY <1>2, <1>3, PanicLoadRefines DEF NoFrameAtLoad, pteVars, diskVars
<1>4. CASE /\ MapAtLoad(e, p, Image, TopBit)
           /\ status' = [status EXCEPT ![e] = "ready"]
           /\ modified' = [modified EXCEPT ![e] = @ \cup {p}]
           /\ PfAddPage(e, p, Image)
           /\ kpc' = "user"
  <2>1. /\ e \in Envs /\ status[e] = "loading"
        /\ \A q \in Pages : q >= LoadCount => frameOf[e][q] = NoFrame
        /\ \A q \in Pages : pf[e][q] # NoDisk => q < NProg
    BY <1>1, <1>2, LoadingFacts
  <2>2. p \in Pages /\ p \notin Heap /\ p >= LoadCount /\ ~(p < NProg)
    BY <1>1, SetFacts, SizeAssumption DEF Pages, Heap, NPages
  <2>3. frameOf[e][p] = NoFrame /\ pf[e][p] = NoDisk
    BY <2>1, <2>2
  <2>4. PICK f \in free : MapInto(e, p, f, Image, last[e], TopBit)
    BY <1>4, <2>1, <2>2 DEF MapAtLoad
  <2>5. /\ frameOf'[e][p] = f /\ f # NoFrame /\ content'[f] = Image
        /\ \A g \in Envs, q \in Pages : ~(g = e /\ q \in {p}) => MKept(g, q)
    BY <1>4, <2>1, <2>2, <2>4, MapKept
  <2>6. DiskClean' /\ \A g \in Envs, q \in Pages : ~(g = e /\ q \in {p}) => DKept(g, q)
    <3>1. CASE UNCHANGED <<pf, diskFree, disk>>
      BY <3>1 DEF DKept, DInv, DiskClean
    <3>2. ASSUME NEW d, TakesDisk(e, p, d)
          PROVE  DiskClean' /\ \A g \in Envs, q \in Pages : ~(g = e /\ q \in {p}) => DKept(g, q)
      BY <2>1, <2>2, <3>2, PfAddKept DEF DInv
    <3> QED
      BY <1>4, <2>1, <2>2, <3>1, <3>2, PfAddCases
  <2>7. p \in modified'[e]
    BY <1>4, <2>1 DEF IInv, TypeOK
  <2>8. CleanPage(e, p)' /\ HeapBacked(e, p)' /\ View(e, p)' = Image /\ View(e, p) = "unmapped"
    BY <2>2, <2>3, <2>5, <2>7 DEF CleanPage, HeapBacked, View
  <2>9. PagesKnown' /\ \A g \in Envs, q \in Pages : ~(g = e /\ q \in {p}) => View(g, q)' = View(g, q)
    BY <2>1, <2>5, <2>6, <2>8, KnownStep DEF Kept, DInv
  <2>10. DInv'
    BY <1>4, <2>6, <2>9, NotLoading DEF DInv
  <2>11. Alive' = Alive /\ e \in Alive
    BY <1>4, <2>1 DEF Alive, IInv, TypeOK
  <2> QED
    BY <1>2, <2>2, <2>8, <2>9, <2>10, <2>11, AddStep
<1> QED
  BY <1>1, <1>3, <1>4 DEF LoadStackPage, ReturnToUser

-----------------------------------------------------------------------------
(***************************************************************************)
(* The theorems.                                                           *)
(***************************************************************************)
LEMMA InitData == Init => DInv
  BY DEF Init, DInv, DiskClean, PagesKnown, CleanPage, HeapBacked, LoadImage, Loading

\* Every step is one of FlatMemory, or the eviction of a page without room.
LEMMA NextRefines ==
    ASSUME IInv, DInv, [Next]_vars
    PROVE  /\ DInv'
           /\ RStep \/ \E e \in Envs : LossStep(e)
           /\ (\A e \in Envs : status[e] = "ready" => Resident(e) \subseteq OnDisk(e)) => RStep
<1>1. ASSUME NEW e \in Envs, NEW p \in Pages, PageFault(e, p)
      PROVE  /\ DInv'
             /\ RStep \/ LossStep(e)
             /\ (\A g \in Envs : status[g] = "ready" => Resident(g) \subseteq OnDisk(g)) => RStep
  <2>1. status[e] = "ready"
    BY <1>1 DEF PageFault, Running
  <2> QED
    BY <1>1, <2>1, PageFaultRefines
<1>2. ASSUME NEW e \in Envs, User(e), \A p \in Pages : ~PageFault(e, p)
      PROVE  DInv' /\ RStep
  BY <1>2, UnseenRefines, WriteRefines, FreeMemRefines DEF User
<1>3. ASSUME NEW e \in Envs, EnvCreate(e) \/ EnvFree(e)
      PROVE  DInv' /\ RStep
  BY <1>3, EnvCreateRefines, EnvFreeRefines
<1>4. ASSUME PlaceInvalid \/ PlaceNoFrame \/ LoadWSDone PROVE DInv' /\ RStep
  <2>1. kenv \in Envs
    BY <1>4 DEF IInv, PlaceInv, LoadInv, Loading, PlaceInvalid, PlaceNoFrame, LoadWSDone
  <2> QED
    BY <1>4, <2>1, UnseenRefines
<1>5. CASE Kernel
  BY <1>4, <1>5, PlaceFromPageFileRefines, PlaceNewStackPageRefines, AllocatePageRefines,
     LoadWSPageRefines, LoadPfPageRefines, LoadStackPageRefines DEF Kernel
<1>6. CASE UNCHANGED vars
  BY <1>6, StutterRefines
<1> QED
  BY <1>1, <1>2, <1>3, <1>5, <1>6 DEF Next

\* Both invariants hold in every reachable state.
LEMMA DataInductive == Spec => [](IInv /\ DInv)
<1>1. Init => DInv
  BY InitData
<1>2. IInv /\ DInv /\ [Next]_vars => DInv'
  BY NextRefines
<1> QED
  BY <1>1, <1>2, Inductive, PTL DEF Spec

\* Whatever the number of disk frames, every step of the kernel is a step of
\* FlatMemory or changes no memory, but for the eviction of a page the page file
\* had no room for; that changes what its own program sees of that page only.
THEOREM LossIsConfined == Spec => LossOnlyWithoutDiskFrame
<1>1. IInv /\ DInv /\ [Next]_vars =>
        [\/ [Memory!Next]_(Memory!fvars)
         \/ \E e \in Envs :
              /\ Evicts(e)
              /\ \A g \in Envs, p \in Pages :
                    View(g, p)' # View(g, p) => g = e /\ p \notin WSPages(e)' /\ pf[e][p] = NoDisk]_vars
  BY NextRefines DEF RStep, LossStep
<1> QED
  BY <1>1, DataInductive, PTL DEF Spec, LossOnlyWithoutDiskFrame

-----------------------------------------------------------------------------
(***************************************************************************)
(* A page file with a frame for every page of every environment.           *)
(***************************************************************************)
RoomForAll == Cardinality(DiskFrames) >= Cardinality(Envs) * NPages

\* Every page in memory of an environment that can run is in the page file.
Backed == \A e \in Envs : status[e] = "ready" => Resident(e) \subseteq OnDisk(e)

\* With room, a page without a disk frame finds a free one.
LEMMA RoomLeft ==
    ASSUME IInv, RoomForAll, NEW e \in Envs, NEW p \in Pages, pf[e][p] = NoDisk
    PROVE  diskFree # {}
<1> SUFFICES ASSUME diskFree = {} PROVE FALSE
  OBVIOUS
<1> DEFINE All == Envs \X Pages
           Held == {u \in All : pf[u[1]][u[2]] # NoDisk}
           h == [u \in Held |-> pf[u[1]][u[2]]]
<1>1. IsFiniteSet(All) /\ Cardinality(All) = Cardinality(Envs) * NPages
  <2>1. IsFiniteSet(Pages) /\ Cardinality(Pages) = NPages
    <3>1. NPages - 1 \in Int /\ 0 \in Int
      BY SetFacts
    <3>2. IsFiniteSet(0 .. NPages - 1)
          /\ Cardinality(0 .. NPages - 1) = IF 0 > NPages - 1 THEN 0 ELSE (NPages - 1) - 0 + 1
      BY <3>1, FS_Interval, Zenon
    <3> QED
      BY <3>2, SetFacts DEF Pages
  <2> QED
    BY <2>1, FS_Product, FiniteAssumption
<1>2. h \in Surjection(Held, DiskFrames)
  <2>1. h \in [Held -> DiskFrames]
    BY EntryTypes DEF IInv
  <2>2. ASSUME NEW d \in DiskFrames PROVE \E u \in Held : h[u] = d
    <3>1. PICK g \in Envs, q \in Pages : pf[g][q] = d
      BY DEF IInv, DiskAccounting
    <3>2. <<g, q>> \in Held /\ h[<<g, q>>] = d
      BY <3>1, NoneAssumption
    <3> QED
      BY <3>2
  <2> QED
    BY <2>1, <2>2 DEF Surjection
<1>3. <<e, p>> \in All /\ Held \in SUBSET (All \ {<<e, p>>})
  OBVIOUS
<1> HIDE DEF All, Held, h
<1>4. IsFiniteSet(All \ {<<e, p>>}) /\ Cardinality(All \ {<<e, p>>}) = Cardinality(All) - 1
  BY <1>1, <1>3, FS_RemoveElement
<1>5. IsFiniteSet(Held) /\ Cardinality(Held) <= Cardinality(All \ {<<e, p>>})
  BY <1>3, <1>4, FS_Subset
<1>6. Cardinality(DiskFrames) <= Cardinality(Held)
  BY <1>2, <1>5, FS_Surjection
<1>7. Cardinality(DiskFrames) \in Nat /\ Cardinality(Held) \in Nat /\ Cardinality(All) \in Nat
  BY <1>1, <1>5, FS_CardinalityType, FiniteAssumption
<1> QED
  BY <1>1, <1>4, <1>5, <1>6, <1>7 DEF RoomForAll

\* So pf_add_empty_env_page and pf_add_env_page succeed, and lose no other page.
LEMMA RoomToAdd ==
    ASSUME IInv, RoomForAll, NEW e \in Envs, NEW p \in Pages, NEW val,
           PfAddEmpty(e, p) \/ PfAddPage(e, p, val)
    PROVE  /\ pf'[e][p] # NoDisk
           /\ \A q \in Pages : pf[e][q] # NoDisk => pf'[e][q] # NoDisk
           /\ \A g \in Envs : g # e => pf'[g] = pf[g]
<1>1. DiskFrameFor(e, p) # {}
  BY RoomLeft DEF DiskFrameFor
<1>2. PICK d : TakesDisk(e, p, d)
  BY <1>1, PfAddCases
<1>3. d # NoDisk
  BY <1>2, EntryTypes, NoneAssumption DEF DiskFrameFor, IInv, TakesDisk
<1>4. pf \in [Envs -> [Pages -> DiskFrames \cup {NoDisk}]] /\ pf' = [pf EXCEPT ![e][p] = d]
  BY <1>2 DEF IInv, TypeOK, TakesDisk
<1> QED
  BY <1>3, <1>4

\* A step of one environment.
LEMMA BackedStep ==
    ASSUME Backed, NEW e \in Envs, status'[e] = "ready" => Resident(e)' \subseteq OnDisk(e)',
           \A g \in Envs : g # e =>
              /\ status'[g] = "ready" => status[g] = "ready"
              /\ frameOf'[g] = frameOf[g] /\ pf'[g] = pf[g]
    PROVE  Backed'
<1>1. \A g \in Envs : g # e => Resident(g)' = Resident(g) /\ OnDisk(g)' = OnDisk(g)
  BY DEF Resident, OnDisk
<1> QED
  BY <1>1 DEF Backed

\* Steps that keep frames and disk frames where they are.
LEMMA SameBacked ==
    ASSUME Backed, UNCHANGED <<frameOf, pf>>,
           \A g \in Envs : status'[g] = "ready" => status[g] = "ready"
    PROVE  Backed'
  BY DEF Backed, Resident, OnDisk

\* With room for all, the steps of a program keep every page backed.
LEMMA UserBacked ==
    ASSUME IInv, DInv, Backed, NEW e \in Envs, User(e)
    PROVE  Backed'
<1> USE DEF envVars, pteVars, frameVars, diskVars, kVars
<1>1. status[e] = "ready" /\ Resident(e) \subseteq OnDisk(e)
  BY DEF User, MMURead, MMUWrite, TableFault, PageFault, AllocateMem, FreeMem, ClockTick, EnvExit,
         Running, Backed
<1>2. CASE \/ \E p \in Pages : MMURead(e, p)
           \/ \E p \in Pages, v \in Values : MMUWrite(e, p, v)
           \/ \E p \in Pages : TableFault(e, p)
           \/ \E va \in Heap, n \in 1 .. NHeap : AllocateMem(e, va, n)
           \/ ClockTick(e) \/ EnvExit(e)
  <2>1. UNCHANGED <<frameOf, pf>> /\ (status' = status \/ status' = [status EXCEPT ![e] = "exit"])
    BY <1>2 DEF MMURead, MMUWrite, TableFault, AllocateMem, ClockTick, EnvExit, PanicExit
  <2>2. \A g \in Envs : status'[g] = "ready" => status[g] = "ready"
    BY <2>1 DEF IInv, TypeOK
  <2> QED
    BY <2>1, <2>2, SameBacked
<1>3. ASSUME NEW p \in Pages, PageFault(e, p) PROVE Backed'
  <2>1. status' = status /\ pf' = pf
    BY <1>3 DEF PageFault
  <2>2. CASE ~WSFull(e)
    <3>1. frameOf' = frameOf
      BY <1>3, <2>2 DEF PageFault
    <3> QED
      BY <2>1, <3>1, SameBacked
  <2>3. CASE WSFull(e)
    <3>1. Victim(e) \in Idx /\ Evict(e, Victim(e))
      BY <1>3, <2>3, VictimInIdx DEF PageFault, IInv
    <3>2. /\ \A g \in Envs : g # e => frameOf'[g] = frameOf[g]
          /\ \A q \in Pages : frameOf'[e][q] # NoFrame => frameOf[e][q] # NoFrame
      BY <2>3, <3>1, EvictFacts
    <3>3. Resident(e)' \subseteq OnDisk(e)'
      BY <1>1, <2>1, <3>2 DEF Resident, OnDisk
    <3> QED
      BY <2>1, <3>2, <3>3, BackedStep
  <2> QED
    BY <2>2, <2>3
<1>4. ASSUME NEW va \in Heap, NEW n \in 1 .. NHeap, FreeMem(e, va, n) PROVE Backed'
  <2>1. PICK R : R = va .. va + n - 1
    OBVIOUS
  <2>2. status' = status /\ PfRemove(e, R) /\ va + n - 1 \in Heap
    BY <1>4, <2>1 DEF FreeMem
  <2>3. PICK S, T : Unmap(e, S, T, used[e])
    BY <1>4 DEF FreeMem
  <2>4. R \in SUBSET Pages
    BY <2>1, <2>2, SetFacts, SizeAssumption DEF Heap
  <2>5. \A q \in R : frameOf'[e][q] = NoFrame
    BY <1>4, <2>1, FreeMemRefines
  <2>6. /\ \A g \in Envs : g # e => frameOf'[g] = frameOf[g]
        /\ \A q \in Pages : frameOf'[e][q] # NoFrame => frameOf[e][q] # NoFrame
    BY <2>3 DEF Unmap, IInv, TypeOK
  <2>7. \A g \in Envs, q \in Pages : pf'[g][q] = IF g = e /\ q \in R THEN NoDisk ELSE pf[g][q]
    BY <2>2, <2>4, PfRemoveFacts DEF IInv
  <2>8. \A g \in Envs : g # e => pf'[g] = pf[g]
    BY <2>2 DEF PfRemove, IInv, TypeOK
  <2>9. Resident(e)' \subseteq OnDisk(e)'
    BY <1>1, <2>5, <2>6, <2>7 DEF Resident, OnDisk
  <2> QED
    BY <2>2, <2>6, <2>8, <2>9, BackedStep
<1> QED
  BY <1>2, <1>3, <1>4 DEF User

\* With room for all, placing a page keeps every page backed.
LEMMA PlaceBacked ==
    ASSUME IInv, RoomForAll, Backed, PlaceFromPageFile \/ PlaceNewStackPage
    PROVE  Backed'
<1>1. PICK e, p : e = kenv /\ p = kva
  OBVIOUS
<1>2. e \in Envs /\ p \in Pages /\ status[e] = "ready" /\ status' = status
  BY <1>1 DEF PlaceFromPageFile, PlaceNewStackPage, IInv, PlaceInv
<1>3. PICK f : frameOf' = [frameOf EXCEPT ![e][p] = f]
  BY <1>1 DEF PlaceFromPageFile, PlaceNewStackPage, Place, MapInto
<1>4. /\ pf'[e][p] # NoDisk
      /\ \A q \in Pages : pf[e][q] # NoDisk => pf'[e][q] # NoDisk
      /\ \A g \in Envs : g # e => pf'[g] = pf[g]
  <2>1. CASE PlaceFromPageFile
    BY <1>1, <2>1 DEF PlaceFromPageFile, diskVars
  <2>2. CASE PlaceNewStackPage
    <3>1. PfAddEmpty(e, p)
      BY <1>1, <2>2 DEF PlaceNewStackPage
    <3> QED
      BY <1>2, <3>1, RoomToAdd
  <2> QED
    BY <2>1, <2>2
<1>5. /\ \A q \in Pages : q # p => frameOf'[e][q] = frameOf[e][q]
      /\ \A g \in Envs : g # e => frameOf'[g] = frameOf[g]
  BY <1>2, <1>3 DEF IInv, TypeOK
<1>6. Resident(e)' \subseteq OnDisk(e)'
  BY <1>2, <1>4, <1>5 DEF Backed, Resident, OnDisk
<1> QED
  BY <1>2, <1>4, <1>5, <1>6, BackedStep

\* With room for all, allocateMem gets a disk frame for every page.
LEMMA AllocateBacked ==
    ASSUME IInv, RoomForAll, Backed, AllocatePage
    PROVE  Backed'
<1>1. PICK e, p : e = kenv /\ p = kva
  OBVIOUS
<1>2. /\ e \in Envs /\ p \in Pages /\ status[e] = "ready" /\ PfAddEmpty(e, p)
      /\ status' = status /\ frameOf' = frameOf
  BY <1>1, SetFacts DEF AllocatePage, IInv, AllocInv, envVars, pteVars
<1>3. /\ \A q \in Pages : pf[e][q] # NoDisk => pf'[e][q] # NoDisk
      /\ \A g \in Envs : g # e => pf'[g] = pf[g]
  BY <1>2, RoomToAdd
<1>4. Resident(e)' \subseteq OnDisk(e)'
  BY <1>2, <1>3 DEF Backed, Resident, OnDisk
<1> QED
  BY <1>2, <1>3, <1>4, BackedStep

\* An environment is ready once every page the loader mapped is in the page file.
LEMMA LoadBacked ==
    ASSUME IInv, DInv, RoomForAll, Backed, LoadWSPage \/ LoadPfPage \/ LoadStackPage
    PROVE  Backed'
<1> USE DEF envVars, pteVars, frameVars, diskVars
<1>1. PICK e, k : e = kenv /\ k = kva
  OBVIOUS
<1>2. /\ Loading /\ e \in Envs /\ status[e] = "loading" /\ k \in Nat /\ k <= NProg
  BY <1>1, LoadingFacts DEF LoadWSPage, LoadPfPage, LoadStackPage, Loading
<1>3. ASSUME PanicLoad(e), UNCHANGED <<frameOf, pf>> PROVE Backed'
  <2>1. \A g \in Envs : status'[g] = "ready" => status[g] = "ready"
    BY <1>3 DEF PanicLoad, IInv, TypeOK
  <2> QED
    BY <1>3, <2>1, SameBacked
<1>4. \A p \in Pages : \A val, st : MapAtLoad(e, p, val, st) =>
        /\ \A q \in Pages : q # p => frameOf'[e][q] = frameOf[e][q]
        /\ \A g \in Envs : g # e => frameOf'[g] = frameOf[g]
  <2> SUFFICES ASSUME NEW p \in Pages, NEW val, NEW st, MapAtLoad(e, p, val, st)
               PROVE  /\ \A q \in Pages : q # p => frameOf'[e][q] = frameOf[e][q]
                      /\ \A g \in Envs : g # e => frameOf'[g] = frameOf[g]
    OBVIOUS
  <2>1. PICK f : frameOf' = [frameOf EXCEPT ![e][p] = f]
    BY DEF MapAtLoad, MapInto
  <2> QED
    BY <1>2, <2>1 DEF IInv, TypeOK
<1>5. CASE LoadWSPage
  <2>1. CASE NoFrameAtLoad(kenv, kva)
    BY <1>1, <1>3, <2>1 DEF NoFrameAtLoad
  <2>2. CASE MapAtLoad(kenv, kva, Image, 0) /\ UNCHANGED <<status, pf>>
    <3>1. k \in Pages
      BY <1>1, <1>2, <1>5, SetFacts, SizeAssumption DEF LoadWSPage, Pages
    <3> QED
      BY <1>1, <1>2, <1>4, <2>2, <3>1, BackedStep
  <2> QED
    BY <1>5, <2>1, <2>2 DEF LoadWSPage
<1>6. CASE LoadPfPage
  <2>1. frameOf' = frameOf /\ PfAddPage(e, k, Image) /\ k < NProg
    BY <1>1, <1>6 DEF LoadPfPage
  <2>2. k \in Pages
    BY <1>2, <2>1, SetFacts, SizeAssumption DEF Pages
  <2>3. \A g \in Envs : g # e => pf'[g] = pf[g]
    BY <1>2, <2>1, <2>2, RoomToAdd
  <2>4. DiskFrameFor(e, k) # {}
    BY <1>2, <2>2, RoomLeft DEF DiskFrameFor
  <2>5. status' = status
    BY <1>1, <1>6, <2>4 DEF LoadPfPage
  <2> QED
    BY <1>2, <2>1, <2>3, <2>5, BackedStep
<1>7. CASE LoadStackPage
  <2>1. CASE NoFrameAtLoad(kenv, NPages - 1)
    BY <1>1, <1>3, <2>1 DEF NoFrameAtLoad
  <2>2. CASE /\ MapAtLoad(e, NPages - 1, Image, TopBit) /\ PfAddPage(e, NPages - 1, Image)
             /\ status' = [status EXCEPT ![e] = "ready"]
    <3>1. PICK p : p = NPages - 1
      OBVIOUS
    <3>2. p \in Pages
      BY <3>1, SetFacts DEF Pages
    <3>3. /\ \A q \in Pages : q # p => frameOf'[e][q] = frameOf[e][q]
          /\ \A g \in Envs : g # e => frameOf'[g] = frameOf[g]
      BY <1>4, <2>2, <3>1, <3>2
    <3>4. /\ pf'[e][p] # NoDisk
          /\ \A q \in Pages : pf[e][q] # NoDisk => pf'[e][q] # NoDisk
          /\ \A g \in Envs : g # e => pf'[g] = pf[g]
      BY <1>2, <2>2, <3>1, <3>2, RoomToAdd
    <3>5. ASSUME NEW q \in Pages, frameOf[e][q] # NoFrame PROVE pf[e][q] # NoDisk
      <4>1. kpc = "loadpf" /\ k = NProg /\ Loaded = LoadCount
        BY <1>1, <1>7 DEF LoadStackPage, Loaded
      <4>2. ~(q >= LoadCount)
        BY <1>1, <1>2, <3>5, <4>1, LoadingFacts
      <4>3. q < k
        BY <4>1, <4>2, SetFacts, SizeAssumption
      <4> QED
        BY <1>1, <4>1, <4>3 DEF DInv, LoadImage
    <3>6. Resident(e)' \subseteq OnDisk(e)'
      BY <3>3, <3>4, <3>5 DEF Resident, OnDisk
    <3>7. \A g \in Envs : g # e => status'[g] = status[g]
      BY <2>2 DEF IInv, TypeOK
    <3> QED
      BY <1>2, <3>3, <3>4, <3>6, <3>7, BackedStep
  <2> QED
    BY <1>1, <1>7, <2>1, <2>2 DEF LoadStackPage
<1> QED
  BY <1>5, <1>6, <1>7

\* With room for all, every page has its disk frame, always.
LEMMA NextBacked ==
    ASSUME IInv, DInv, RoomForAll, Backed, [Next]_vars
    PROVE  Backed'
<1> USE DEF pteVars, diskVars
<1>1. ASSUME NEW e \in Envs, EnvCreate(e) PROVE Backed'
  <2>1. UNCHANGED <<frameOf, pf>> /\ status' = [status EXCEPT ![e] = "loading"]
    BY <1>1 DEF EnvCreate
  <2>2. \A g \in Envs : status'[g] = "ready" => status[g] = "ready"
    BY <2>1 DEF IInv, TypeOK
  <2> QED
    BY <2>1, <2>2, SameBacked
<1>2. ASSUME NEW e \in Envs, EnvFree(e) PROVE Backed'
  <2>1. status'[e] = "free" /\ \A g \in Envs : g # e => status'[g] = status[g]
    BY <1>2 DEF EnvFree, IInv, TypeOK
  <2>2. \A g \in Envs : g # e => frameOf'[g] = frameOf[g]
    BY <1>2 DEF EnvFree, Unmap, IInv, TypeOK
  <2>3. \A g \in Envs : g # e => pf'[g] = pf[g]
    BY <1>2 DEF EnvFree, PfFreeEnv, PfRemove, IInv, TypeOK
  <2> QED
    BY <2>1, <2>2, <2>3, BackedStep
<1>3. CASE PlaceInvalid \/ PlaceNoFrame
  <2>1. UNCHANGED <<frameOf, pf>> /\ status' = [status EXCEPT ![kenv] = "exit"]
    BY <1>3 DEF PlaceInvalid, PlaceNoFrame, PanicExit
  <2>2. \A g \in Envs : status'[g] = "ready" => status[g] = "ready"
    BY <2>1 DEF IInv, TypeOK
  <2> QED
    BY <2>1, <2>2, SameBacked
<1>4. CASE LoadWSDone \/ UNCHANGED vars
  <2>1. UNCHANGED <<frameOf, pf, status>>
    BY <1>4 DEF LoadWSDone, vars, envVars
  <2> QED
    BY <2>1, SameBacked
<1> QED
  BY <1>1, <1>2, <1>3, <1>4, UserBacked, PlaceBacked, AllocateBacked, LoadBacked DEF Next, Kernel

\* The initial states.
LEMMA InitRefines == Init => Memory!Init /\ Backed
<1> SUFFICES ASSUME Init PROVE Memory!Init /\ Backed
  OBVIOUS
<1>1. \A e \in Envs, p \in Pages : View(e, p) = "unmapped"
  BY DEF Init, View
<1>2. Memory!Init
  BY <1>1 DEF Memory!Init, Init
<1>3. Backed
  BY DEF Init, Backed
<1> QED
  BY <1>2, <1>3

\* With a disk frame for every page of every environment, demand paging is
\* FlatMemory: page_fault_handler, the replacement algorithms, freeMem, the
\* loader and env_free never change what any program sees of its memory.
THEOREM PagingTransparent ==
    ASSUME RoomForAll
    PROVE  Spec => PagingIsTransparent
<1>1. Init => Memory!Init /\ Backed
  BY InitRefines
<1>2. IInv /\ DInv /\ Backed /\ [Next]_vars => Backed'
  BY NextBacked
<1>3. IInv /\ DInv /\ Backed /\ [Next]_vars => [Memory!Next]_(Memory!fvars)
  BY NextRefines DEF Backed, RStep
<1> QED
  BY <1>1, <1>2, <1>3, DataInductive, PTL DEF Spec, PagingIsTransparent, Memory!Spec

=============================================================================
