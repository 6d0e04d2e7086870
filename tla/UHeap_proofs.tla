---------------------------- MODULE UHeap_proofs ----------------------------
(***************************************************************************)
(* Proofs about the user heap, for every heap size, request bound and set  *)
(* of strategies: the blocks malloc hands out never overlap, the kernel's  *)
(* page file agrees with the library, NEXT FIT's counter never wraps,      *)
(* first, best and worst fit return NULL only when nothing fits, and every *)
(* branch chooses what Placement defines in terms of holes.                *)
(***************************************************************************)
EXTENDS UHeapPlacement, InductionLemmas

\* No address below a fits the request.
NothingBelow(a) == \A b \in Cells : b < a => ~Fits(b, req)

\* What a search knows about the hole it is measuring.
HoleInv ==
    /\ flag = 1 => /\ j + currentSize = i /\ currentSize > 0
                   /\ \A c \in Cells : j <= c /\ c < i => ~Covered(c)
    /\ flag = 0 => currentSize = 0

\* What a search knows between two iterations.
ScanInv ==
    pc = "scan" =>
        /\ req > 0 /\ branch # "none"
        /\ HoleInv
        /\ branch = "NEXTFIT" => found = 0 /\ i < N /\ currentSize < req
        /\ branch = "FIRSTFIT" => found = 0
        /\ branch # "NEXTFIT" /\ found = 0 => NothingBelow(IF flag = 1 THEN j ELSE i)
        /\ branch \in {"BESTFIT", "WORSTFIT"} /\ found = 0 =>
              viable = IF branch = "BESTFIT" THEN N ELSE 0
        /\ found = 1 => Fits(generalAddress, req)

\* What holds as long as the heap is intact; the inductive invariant is
\* intact => IInv.
IInv ==
    /\ Types
    /\ Disjoint
    /\ PageFileExact
    /\ OnBoundaries
    /\ NextFitCountsDown
    /\ ScanInv
    /\ ChoiceIsFree
    /\ pc = "commit" => req > 0
    /\ pc = "ask" => req > 0 /\ branch # "none"
    /\ FullWhenNull
    /\ FirstFitIsLowest

-----------------------------------------------------------------------------
\* A free cell that is not inside a block is not covered by one, and neither
\* is the next cell inside one: the search may step over it.
LEMMA FreeCellFacts ==
    ASSUME Types, Disjoint, OnBoundaries, i \in Cells, tracker[i] = 0
    PROVE  ~Covered(i) /\ ~Inside(i + 1)
  BY RequestAssumption DEF Types, Disjoint, OnBoundaries, Inside, Covered,
        Live, Cells, Null

\* A search that stands on a block skips to a cell that is inside no block and
\* not beyond the end of the heap.
LEMMA BlockFacts ==
    ASSUME Types, Disjoint, i \in Cells, tracker[i] # 0
    PROVE  /\ i \in Live /\ Covered(i)
           /\ AfterBlock \in 0 .. N /\ AfterBlock > i
           /\ ~Inside(AfterBlock)
  <1>1. i \in Live /\ size[i] = tracker[i] /\ size[i] > 0
    BY RequestAssumption DEF Types, Disjoint, Live, Cells, Null
  <1>2. i + size[i] <= N
    BY <1>1 DEF Disjoint
  <1>3. Covered(i)
    BY <1>1, RequestAssumption DEF Covered, Cells, Types
  <1>4. AfterBlock = i + size[i] /\ AfterBlock \in 0 .. N /\ AfterBlock > i
    BY <1>1, <1>2, RequestAssumption DEF Types, Cells, AfterBlock
  <1>5. ~Inside(i + size[i])
    <2> SUFFICES ASSUME NEW b \in Live, b < i + size[i], i + size[i] < b + size[b]
                 PROVE  FALSE
      BY DEF Inside
    <2>1. b \in Cells /\ size[b] \in 0 .. N
      BY DEF Live, Types
    <2>2. CASE b < i
      BY <1>1, <2>1, <2>2, RequestAssumption DEF Disjoint, Cells, Types
    <2>3. CASE b > i
      BY <1>1, <2>1, <2>3, RequestAssumption DEF Disjoint, Cells, Types
    <2>4. CASE b = i
      BY <2>1, <2>4, RequestAssumption DEF Cells
    <2> QED
      BY <2>1, <2>2, <2>3, <2>4, RequestAssumption DEF Cells, Types
  <1> QED
    BY <1>1, <1>3, <1>4, <1>5

\* Predicates on the heap do not change while the heap does not.
LEMMA HeapUnchanged ==
    ASSUME UNCHANGED <<heapVars, req>>
    PROVE  /\ Live' = Live
           /\ Disjoint' <=> Disjoint
           /\ PageFileExact' <=> PageFileExact
           /\ \A c : Inside(c)' <=> Inside(c)
           /\ \A c : Covered(c)' <=> Covered(c)
           /\ \A a, n : Fits(a, n)' <=> Fits(a, n)
  BY DEF heapVars, Live, Disjoint, PageFileExact, Inside, Covered, Fits,
        PagesAt

\* An empty heap position 0 and the end of the heap are inside no block.
LEMMA EndsNotInside ==
    ASSUME Types, Disjoint
    PROVE  ~Inside(0) /\ ~Inside(N)
  BY RequestAssumption DEF Types, Disjoint, Inside, Live, Cells

\* An empty heap satisfies the invariant.
LEMMA InitIInv == UHeapInit => IInv
  <1> SUFFICES ASSUME UHeapInit PROVE IInv
    OBVIOUS
  <1>1. Live = {}
    BY DEF UHeapInit, Live, Null
  <1>2. Types
    BY RequestAssumption DEF UHeapInit, Types, Cells, Null
  <1> QED
    BY <1>1, <1>2, RequestAssumption DEF UHeapInit, IInv, Disjoint, PageFileExact,
        OnBoundaries, Inside, NextFitCountsDown, ScanInv, ChoiceIsFree,
        FullWhenNull, FirstFitIsLowest

\* malloc begins.
LEMMA MallocStep ==
    ASSUME IInv, NEW s \in 1 .. MaxRequest, Malloc(s)
    PROVE  IInv'
  <1>1. /\ UNCHANGED <<heapVars, generalAddress, i, j, k, currentSize, flag, found, viable>>
        /\ pc' = "ask" /\ req' = s /\ branch' = "NEXTFIT"
    BY DEF Malloc, localVars
  <1>2. Types'
    BY <1>1, RequestAssumption DEF IInv, Types, heapVars
  <1>3. Disjoint' /\ PageFileExact' /\ OnBoundaries'
    BY <1>1 DEF IInv, heapVars, Disjoint, PageFileExact, OnBoundaries, Inside, Live, PagesAt
  <1> QED
    BY <1>1, <1>2, <1>3, RequestAssumption
       DEF IInv, NextFitCountsDown, ScanInv, ChoiceIsFree, FullWhenNull, FirstFitIsLowest

\* malloc has its strategy: the heap is as it was, and NEXT FIT has all N cells
\* ahead of it.
LEMMA AskYesStep ==
    ASSUME IInv, AskYes
    PROVE  IInv'
  <1>1. UNCHANGED <<heapVars, req, branch>> /\ pc' = "scan"
    BY DEF AskYes
  <1>2. Types'
    <2>1. /\ i' \in 0 .. N /\ k' \in 0 .. N /\ viable' \in 0 .. N /\ generalAddress' \in Cells
          /\ j' \in Cells /\ currentSize' \in 0 .. N
      BY RequestAssumption DEF IInv, Types, AskYes, Cells
    <2>2. flag' \in {0, 1} /\ found' \in {0, 1}
      BY DEF AskYes
    <2> QED
      BY <1>1, <2>1, <2>2 DEF IInv, Types, heapVars
  <1>3. Disjoint' /\ PageFileExact'
    BY <1>1, HeapUnchanged DEF IInv
  <1>4. OnBoundaries'
    BY EndsNotInside DEF IInv, AskYes, heapVars, OnBoundaries, Inside, Live
  <1>5. NextFitCountsDown'
    BY RequestAssumption DEF IInv, Types, AskYes, NextFitCountsDown, Cells
  <1>6. ScanInv'
    BY RequestAssumption DEF IInv, Types, AskYes, ScanInv, HoleInv, NothingBelow, Cells
  <1> QED
    BY <1>1, <1>2, <1>3, <1>4, <1>5, <1>6
       DEF IInv, ChoiceIsFree, FullWhenNull, FirstFitIsLowest

\* malloc goes on to its next question.
LEMMA AskNoStep ==
    ASSUME IInv, AskNo
    PROVE  IInv'
  <1>1. /\ UNCHANGED <<heapVars, req, generalAddress, pc, i, j, k, currentSize, flag, found, viable>>
        /\ pc = "ask" /\ branch' = NextQuestion[branch] /\ branch # "WORSTFIT"
    BY DEF AskNo, localVars
  <1>2. branch' \in {"FIRSTFIT", "BESTFIT", "WORSTFIT"}
    BY <1>1 DEF IInv, Types, NextQuestion
  <1>3. Types'
    BY <1>1, <1>2 DEF IInv, Types, heapVars
  <1>4. OnBoundaries'
    BY <1>1, HeapUnchanged DEF IInv, OnBoundaries
  <1> QED
    BY <1>1, <1>2, <1>3, <1>4, HeapUnchanged
       DEF IInv, NextFitCountsDown, ScanInv, ChoiceIsFree, FullWhenNull, FirstFitIsLowest

\* malloc goes on without a search, to a place where its block happens to fit.
LEMMA FallThroughStep ==
    ASSUME IInv, FallThrough, intact'
    PROVE  IInv'
  <1>1. /\ UNCHANGED <<heapVars, req, generalAddress, i, j, k, currentSize, flag, found, viable>>
        /\ pc = "ask" /\ pc' = "commit" /\ branch' = "none" /\ Fits(generalAddress, req)
    BY DEF FallThrough, localVars
  <1>2. Types'
    BY <1>1 DEF IInv, Types, heapVars
  <1>3. OnBoundaries' /\ ChoiceIsFree'
    BY <1>1, HeapUnchanged DEF IInv, OnBoundaries, ChoiceIsFree
  <1> QED
    BY <1>1, <1>2, <1>3, HeapUnchanged
       DEF IInv, NextFitCountsDown, ScanInv, FullWhenNull, FirstFitIsLowest

\* One iteration of NEXT FIT on a free cell.
LEMMA NextFitFreeCellStep ==
    ASSUME IInv, NextFitFreeCell
    PROVE  IInv'
  <1>1. UNCHANGED <<heapVars, req>>
    BY DEF NextFitFreeCell
  <1>2. /\ i \in Cells /\ ~Covered(i) /\ ~Inside(i + 1)
    BY FreeCellFacts, RequestAssumption DEF IInv, NextFitFreeCell, ScanInv, Types, Cells
  <1>3. /\ HoleStart \in Cells /\ HoleStart + currentSize = i
        /\ \A c \in Cells : HoleStart <= c /\ c <= i => ~Covered(c)
    BY <1>2, RequestAssumption DEF IInv, NextFitFreeCell, ScanInv, HoleInv, Types, Cells,
        HoleStart
  <1>4. Types'
    <2>1. currentSize + 1 \in 0 .. N /\ i + 1 \in 0 .. N /\ k - 1 \in 0 .. N
      BY <1>2, <1>3, RequestAssumption DEF IInv, NextFitFreeCell, Types, Cells
    <2>2. i' \in 0 .. N /\ currentSize' \in 0 .. N /\ flag' \in {0, 1} /\ found' \in {0, 1}
      BY <2>1, RequestAssumption DEF NextFitFreeCell, IInv, Types
    <2>3. generalAddress' \in Cells /\ j' \in Cells /\ k' \in 0 .. N
      BY <1>3, <2>1 DEF NextFitFreeCell, IInv, Types
    <2> QED
      BY <2>2, <2>3 DEF NextFitFreeCell, IInv, Types, heapVars
  <1>5. Disjoint' /\ PageFileExact'
    BY <1>1, HeapUnchanged DEF IInv
  <1>6. \A c \in Cells : Covered(c)' <=> Covered(c)
    BY <1>1, HeapUnchanged
  <1>7. CASE currentSize + 1 >= req
    <2>1. Fits(HoleStart, req)
      BY <1>2, <1>3, <1>7, RequestAssumption
         DEF IInv, ScanInv, NextFitFreeCell, Fits, PagesAt, Cells, Types
    <2>2. /\ pc' = "commit" /\ generalAddress' = HoleStart /\ i' = i + 1
          /\ branch' = "NEXTFIT" /\ req > 0
      BY <1>7, RequestAssumption DEF NextFitFreeCell, IInv, ScanInv, Types
    <2>3. ChoiceIsFree'
      BY <1>1, <2>1, <2>2, HeapUnchanged DEF ChoiceIsFree
    <2>4. OnBoundaries'
      <3>1. ~Inside(HoleStart)
        <4> SUFFICES ASSUME NEW b \in Live, b < HoleStart, HoleStart < b + size[b]
                     PROVE  FALSE
          BY DEF Inside
        <4>1. Covered(HoleStart)
          BY RequestAssumption, <1>3 DEF Covered, Live, Cells
        <4> QED
          BY <4>1, <1>3, <1>2, RequestAssumption DEF Cells, IInv, Types
      <3> QED
        BY <1>1, <1>2, <2>2, <3>1, HeapUnchanged DEF OnBoundaries
    <2> QED
      BY <1>1, <1>4, <1>5, <2>2, <2>3, <2>4 DEF IInv, NextFitCountsDown, ScanInv,
          FullWhenNull, FirstFitIsLowest
  <1>8. CASE currentSize + 1 < req
    <2>1. pc' = "scan" /\ UNCHANGED <<generalAddress, found, branch>>
      BY <1>8, RequestAssumption DEF NextFitFreeCell, IInv, Types
    <2>2. OnBoundaries'
      <3>1. ~Inside(i')
        BY <1>2, <1>8, EndsNotInside DEF IInv, NextFitFreeCell, Types
      <3> QED
        BY <1>1, <2>1, <3>1, HeapUnchanged DEF OnBoundaries, IInv
    <2>5. \/ i + 1 >= N /\ i' = 0 /\ currentSize' = 0 /\ flag' = 0
          \/ i + 1 < N /\ i' = i + 1 /\ currentSize' = currentSize + 1 /\ flag' = 1
      BY <1>8, RequestAssumption DEF NextFitFreeCell, IInv, Types
    <2>3. NextFitCountsDown'
      <3>1. k' = k - 1 /\ pc = "scan" /\ branch = "NEXTFIT" /\ k \in 1 .. N
        BY DEF NextFitFreeCell, IInv, Types
      <3>2. i \in 0 .. N - 1 /\ generalAddress \in 0 .. N - 1
        BY <1>2 DEF IInv, Types, Cells
      <3>3. \/ i >= generalAddress /\ i + k = generalAddress + N
            \/ i <= generalAddress /\ i + k = generalAddress
        BY <3>1 DEF IInv, NextFitCountsDown
      <3>4. \/ i' >= generalAddress /\ i' + k' = generalAddress + N
            \/ i' <= generalAddress /\ i' + k' = generalAddress
        BY <2>5, <3>1, <3>2, <3>3, RequestAssumption
      <3> QED
        BY <2>1, <3>4 DEF NextFitCountsDown
    <2>4. ScanInv'
      <3>1. HoleInv'
        <4>1. j' = HoleStart /\ i \in Cells /\ currentSize \in Nat
          BY <1>2, RequestAssumption DEF NextFitFreeCell, IInv, Types
        <4> QED
          BY <1>3, <1>6, <2>5, <4>1, RequestAssumption DEF HoleInv, Cells
      <3> QED
        BY <1>1, <1>8, <2>1, <2>5, <3>1, RequestAssumption
           DEF IInv, Types, NextFitFreeCell, ScanInv, Cells
    <2> QED
      BY <1>1, <1>4, <1>5, <2>1, <2>2, <2>3, <2>4 DEF IInv, ChoiceIsFree,
          FullWhenNull, FirstFitIsLowest
  <1> QED
    BY <1>7, <1>8 DEF IInv, Types

\* In NEXT FIT the countdown cannot jump over 0: a block ahead of i ends at or
\* before the cell the search started from.
LEMMA NextFitBlockStep ==
    ASSUME IInv, NextFitBlock
    PROVE  IInv'
  <1>1. UNCHANGED <<heapVars, req, branch, j>>
    BY DEF NextFitBlock
  <1>2. /\ pc = "scan" /\ branch = "NEXTFIT" /\ k \in 1 .. N /\ i \in Cells
        /\ tracker[i] # 0 /\ currentSize < req /\ found = 0 /\ req > 0
        /\ currentSize \in Nat /\ req \in Nat /\ generalAddress \in Cells
    BY RequestAssumption DEF NextFitBlock, IInv, ScanInv, Types, Cells
  <1>3. /\ i \in Live /\ AfterBlock \in 0 .. N /\ AfterBlock > i
        /\ ~Inside(AfterBlock)
    BY <1>2, BlockFacts DEF IInv
  <1>4. /\ k' = (k - tracker[i]) % Word
        /\ i' = IF AfterBlock >= N THEN 0 ELSE AfterBlock
        /\ flag' = 0 /\ currentSize' = 0
        /\ UNCHANGED <<generalAddress, found, pc, viable>>
    BY <1>2 DEF NextFitBlock
  <1>5. tracker[i] = size[i] /\ tracker[i] \in 1 .. N /\ AfterBlock = i + tracker[i]
    BY <1>2, RequestAssumption DEF IInv, Disjoint, Types, AfterBlock
  <1>6. i < generalAddress => AfterBlock <= generalAddress
    BY <1>2, <1>3, <1>5, RequestAssumption DEF IInv, OnBoundaries, Inside, Cells
  <1>7. \/ i >= generalAddress /\ i + k = generalAddress + N
        \/ i <= generalAddress /\ i + k = generalAddress
    BY <1>2 DEF IInv, NextFitCountsDown
  <1>8. k - tracker[i] \in 0 .. N /\ k' = k - tracker[i]
    <2>1. k - tracker[i] \in 0 .. N
      BY <1>2, <1>3, <1>5, <1>6, <1>7, RequestAssumption DEF Cells
    <2>2. (k - tracker[i]) % Word = k - tracker[i]
      BY <2>1, WordAssumption, RequestAssumption
    <2> QED
      BY <1>4, <2>1, <2>2
  <1>9. i' \in Cells
    BY <1>3, <1>4, RequestAssumption DEF Cells
  <1>10. Types'
    <2>1. /\ flag' = 0 /\ currentSize' = 0 /\ 0 \in 0 .. N
          /\ UNCHANGED <<generalAddress, found, pc, viable>>
      BY <1>4, RequestAssumption
    <2>2. i' \in 0 .. N /\ k' \in 0 .. N
      BY <1>8, <1>9, RequestAssumption DEF Cells
    <2> QED
      BY <1>1, <2>1, <2>2 DEF IInv, Types, heapVars
  <1>11. Disjoint' /\ PageFileExact'
    BY <1>1, HeapUnchanged DEF IInv
  <1>12. OnBoundaries'
    <2>1. ~Inside(i')
      BY <1>3, <1>4, EndsNotInside DEF IInv
    <2> QED
      BY <1>1, <1>4, <2>1, HeapUnchanged DEF OnBoundaries, IInv
  <1>13. NextFitCountsDown'
    <2>1. \/ i' >= generalAddress /\ i' + k' = generalAddress + N
          \/ i' <= generalAddress /\ i' + k' = generalAddress
      BY <1>2, <1>3, <1>4, <1>5, <1>6, <1>7, <1>8, RequestAssumption DEF Cells
    <2> QED
      BY <1>4, <2>1 DEF NextFitCountsDown
  <1>14. ScanInv'
    BY <1>1, <1>2, <1>4, <1>9, RequestAssumption DEF ScanInv, HoleInv, Cells
  <1> QED
    BY <1>1, <1>2, <1>4, <1>10, <1>11, <1>12, <1>13, <1>14
       DEF IInv, ChoiceIsFree, FullWhenNull, FirstFitIsLowest

\* One iteration of the other strategies on a free cell.
LEMMA FreeCellStep ==
    ASSUME IInv, FreeCell
    PROVE  IInv'
  <1>1. UNCHANGED <<heapVars, req, branch, generalAddress, pc, k, found, viable>>
    BY DEF FreeCell
  <1>2. /\ pc = "scan" /\ branch # "NEXTFIT" /\ i \in Cells /\ tracker[i] = 0
        /\ j' = HoleStart /\ flag' = 1 /\ currentSize' = currentSize + 1 /\ i' = i + 1
        /\ currentSize \in Nat
    BY RequestAssumption DEF FreeCell, IInv, Types, Cells
  <1>3. ~Covered(i) /\ ~Inside(i + 1)
    BY <1>2, FreeCellFacts DEF IInv
  <1>4. /\ HoleStart \in Cells /\ HoleStart + currentSize = i
        /\ \A c \in Cells : HoleStart <= c /\ c <= i => ~Covered(c)
    BY <1>2, <1>3, RequestAssumption DEF IInv, ScanInv, HoleInv, Types, Cells, HoleStart
  <1>5. Types'
    BY <1>1, <1>2, <1>4, RequestAssumption DEF IInv, Types, heapVars, Cells
  <1>6. Disjoint' /\ PageFileExact'
    BY <1>1, HeapUnchanged DEF IInv
  <1>7. OnBoundaries'
    BY <1>1, <1>2, <1>3, HeapUnchanged DEF OnBoundaries, IInv
  <1>8. ScanInv'
    <2>1. HoleInv'
      BY <1>1, <1>2, <1>4, HeapUnchanged, RequestAssumption DEF HoleInv, Cells
    <2>2. found = 0 => NothingBelow(HoleStart)
      BY <1>2 DEF IInv, ScanInv, HoleStart
    <2>3. found' = 0 => NothingBelow(IF flag = 1 THEN j ELSE i)'
      BY <1>1, <1>2, <2>2, HeapUnchanged DEF NothingBelow
    <2>4. found' = 1 => Fits(generalAddress, req)'
      BY <1>1, <1>2, HeapUnchanged DEF IInv, ScanInv
    <2> QED
      BY <1>1, <1>2, <2>1, <2>3, <2>4 DEF IInv, ScanInv
  <1> QED
    BY <1>1, <1>2, <1>5, <1>6, <1>7, <1>8
       DEF IInv, ChoiceIsFree, FullWhenNull, FirstFitIsLowest, NextFitCountsDown

\* A hole that ends at a block and is too small hides no address that fits.
LEMMA TooSmallHole ==
    ASSUME IInv, pc = "scan", branch # "NEXTFIT", i \in Cells, tracker[i] # 0,
           found = 0, currentSize < req
    PROVE  NothingBelow(AfterBlock)
  <1>1. /\ i \in Live /\ Covered(i) /\ AfterBlock = i + size[i] /\ size[i] \in 0 .. N
    BY BlockFacts DEF IInv, Disjoint, Types, AfterBlock
  <1>2. \A c \in Cells : i <= c /\ c < AfterBlock => Covered(c)
    BY <1>1, RequestAssumption DEF Covered, Cells
  <1> SUFFICES ASSUME NEW b \in Cells, b < AfterBlock, Fits(b, req) PROVE FALSE
    BY DEF NothingBelow
  <1>3. req \in Nat /\ req > 0 /\ currentSize \in Nat
    BY DEF IInv, ScanInv, Types
  <1>4. ~Covered(b)
    BY <1>3, RequestAssumption DEF Fits, PagesAt, Cells
  <1>5. b < i
    BY <1>2, <1>4, RequestAssumption DEF Cells
  <1>6. flag = 1 /\ j <= b /\ j + currentSize = i
    BY <1>5, RequestAssumption DEF IInv, ScanInv, HoleInv, NothingBelow, Types, Cells
  <1>7. i \in PagesAt(b, req)
    BY <1>3, <1>5, <1>6, RequestAssumption DEF PagesAt, Cells, IInv, Types
  <1> QED
    BY <1>1, <1>7 DEF Fits

\* A hole that is large enough may be handed out.
LEMMA LargeHole ==
    ASSUME IInv, pc = "scan", branch # "NEXTFIT", currentSize >= req
    PROVE  /\ flag = 1 /\ j \in Cells /\ req > 0
           /\ Fits(j, req) /\ ~Inside(j)
  <1>1. req \in Nat /\ req > 0 /\ currentSize \in Nat /\ i \in 0 .. N /\ j \in Cells
    BY DEF IInv, ScanInv, Types
  <1>2. /\ flag = 1 /\ j + currentSize = i
        /\ \A c \in Cells : j <= c /\ c < i => ~Covered(c)
    BY <1>1 DEF IInv, ScanInv, HoleInv, Types
  <1>3. Fits(j, req)
    BY <1>1, <1>2, RequestAssumption DEF Fits, PagesAt, Cells
  <1>4. ~Inside(j)
    BY <1>1, <1>2, RequestAssumption DEF Inside, Covered, Live, Cells, IInv, Types
  <1> QED
    BY <1>1, <1>2, <1>3, <1>4

\* FIRST FIT meets a block.
LEMMA FirstFitBlockStep ==
    ASSUME IInv, FirstFitBlock
    PROVE  IInv'
  <1>1. UNCHANGED <<heapVars, req, branch, j, k, viable>>
    BY DEF FirstFitBlock
  <1>2. /\ pc = "scan" /\ branch = "FIRSTFIT" /\ i \in Cells /\ tracker[i] # 0
        /\ currentSize \in Nat /\ req \in Nat /\ req > 0 /\ found = 0
    BY RequestAssumption DEF FirstFitBlock, IInv, ScanInv, Types, Cells
  <1>3. Disjoint' /\ PageFileExact'
    BY <1>1, HeapUnchanged DEF IInv
  <1>4. CASE currentSize >= req
    <2>1. /\ generalAddress' = j /\ found' = 1 /\ pc' = "commit"
          /\ UNCHANGED <<i, flag, currentSize>>
      BY <1>2, <1>4 DEF FirstFitBlock
    <2>2. flag = 1 /\ j \in Cells /\ Fits(j, req) /\ ~Inside(j)
      BY <1>2, <1>4, LargeHole
    <2>3. Types'
      BY <1>1, <2>1, <2>2 DEF IInv, Types, heapVars
    <2>4. OnBoundaries'
      BY <1>1, <2>1, <2>2, HeapUnchanged DEF IInv, OnBoundaries
    <2>5. ChoiceIsFree'
      BY <1>1, <2>1, <2>2, HeapUnchanged DEF ChoiceIsFree
    <2>6. NothingBelow(j)
      BY <1>2, <2>2 DEF IInv, ScanInv
    <2>7. FirstFitIsLowest'
      BY <1>1, <2>1, <2>2, <2>6, HeapUnchanged, RequestAssumption
         DEF FirstFitIsLowest, NothingBelow, Cells
    <2> QED
      BY <1>1, <1>2, <1>3, <2>1, <2>3, <2>4, <2>5, <2>7
         DEF IInv, NextFitCountsDown, ScanInv, FullWhenNull
  <1>5. CASE currentSize < req
    <2>1. /\ i' = AfterBlock /\ flag' = 0 /\ currentSize' = 0
          /\ UNCHANGED <<generalAddress, found, pc>>
      BY <1>2, <1>5 DEF FirstFitBlock
    <2>2. AfterBlock \in 0 .. N /\ ~Inside(AfterBlock)
      BY <1>2, BlockFacts DEF IInv
    <2>3. Types'
      BY <1>1, <2>1, <2>2, RequestAssumption DEF IInv, Types, heapVars
    <2>4. OnBoundaries'
      BY <1>1, <2>1, <2>2, HeapUnchanged DEF IInv, OnBoundaries
    <2>5. NothingBelow(AfterBlock)
      BY <1>2, <1>5, TooSmallHole
    <2>6. ScanInv'
      BY <1>1, <1>2, <2>1, <2>5, HeapUnchanged DEF ScanInv, HoleInv, NothingBelow
    <2> QED
      BY <1>1, <1>2, <1>3, <2>1, <2>3, <2>4, <2>6
         DEF IInv, NextFitCountsDown, ChoiceIsFree, FullWhenNull, FirstFitIsLowest
  <1> QED
    BY <1>2, <1>4, <1>5

\* BEST FIT or WORST FIT meets a block.
LEMMA BestWorstFitBlockStep ==
    ASSUME IInv, BestWorstFitBlock
    PROVE  IInv'
  <1>1. /\ UNCHANGED <<heapVars, req, branch, j, k, pc>>
        /\ i' = AfterBlock /\ flag' = 0 /\ currentSize' = 0
    BY DEF BestWorstFitBlock
  <1>2. /\ pc = "scan" /\ branch \in {"BESTFIT", "WORSTFIT"}
        /\ i \in Cells /\ tracker[i] # 0
        /\ currentSize \in 0 .. N /\ req \in Nat /\ req > 0
        /\ viable \in 0 .. N
    BY RequestAssumption DEF BestWorstFitBlock, IInv, ScanInv, Types, Cells
  <1>3. Disjoint' /\ PageFileExact'
    BY <1>1, HeapUnchanged DEF IInv
  <1>4. AfterBlock \in 0 .. N /\ ~Inside(AfterBlock)
    BY <1>2, BlockFacts DEF IInv
  <1>5. Better => currentSize >= req
    BY DEF Better
  <1>6. \/ /\ Better /\ generalAddress' = j /\ viable' = currentSize /\ found' = 1
        \/ /\ ~Better /\ UNCHANGED <<generalAddress, viable, found>>
    BY DEF BestWorstFitBlock
  <1>7. Better => j \in Cells /\ Fits(j, req) /\ ~Inside(j)
    BY <1>2, <1>5, LargeHole
  <1>8. Types'
    <2>1. generalAddress' \in Cells /\ viable' \in 0 .. N /\ found' \in {0, 1}
      BY <1>2, <1>6, <1>7 DEF IInv, Types
    <2> QED
      BY <1>1, <1>4, <2>1, RequestAssumption DEF IInv, Types, heapVars
  <1>9. OnBoundaries'
    BY <1>1, <1>4, <1>6, <1>7, HeapUnchanged DEF IInv, OnBoundaries
  <1>10. found' = 1 => Fits(generalAddress', req)
    BY <1>2, <1>6, <1>7 DEF IInv, ScanInv
  <1>11. found' = 0 => NothingBelow(AfterBlock)
    <2> SUFFICES ASSUME found' = 0 PROVE NothingBelow(AfterBlock)
      OBVIOUS
    <2>1. ~Better /\ found = 0
      BY <1>6
    <2>2. currentSize < req
      <3> SUFFICES ASSUME currentSize >= req PROVE FALSE
        BY <1>2
      <3>1. viable = IF branch = "BESTFIT" THEN N ELSE 0
        BY <1>2, <2>1 DEF IInv, ScanInv
      <3>2. currentSize < N
        BY <1>2, LargeHole, RequestAssumption DEF IInv, ScanInv, HoleInv, Types, Cells
      <3> QED
        BY <1>2, <2>1, <3>1, <3>2, RequestAssumption DEF Better
    <2> QED
      BY <1>2, <2>1, <2>2, TooSmallHole
  <1>12. ScanInv'
    BY <1>1, <1>2, <1>6, <1>10, <1>11, HeapUnchanged DEF ScanInv, HoleInv, NothingBelow, IInv
  <1> QED
    BY <1>1, <1>2, <1>3, <1>8, <1>9, <1>12
       DEF IInv, NextFitCountsDown, ChoiceIsFree, FullWhenNull, FirstFitIsLowest

\* The scan is over: the hole at the end of the heap, or none.
LEMMA EndOfScanStep ==
    ASSUME IInv, EndOfScan
    PROVE  IInv'
  <1>1. UNCHANGED <<heapVars, req, branch, i, j, k, currentSize, flag, found, viable>>
    BY DEF EndOfScan, localVars
  <1>2. /\ pc = "scan" /\ ScanOver /\ req \in Nat /\ req > 0 /\ currentSize \in Nat
        /\ found \in {0, 1} /\ generalAddress \in Cells
    BY DEF EndOfScan, IInv, ScanInv, Types
  <1>3. Disjoint' /\ PageFileExact'
    BY <1>1, HeapUnchanged DEF IInv
  <1>4. CASE found = 0 /\ currentSize >= req
    <2>1. generalAddress' = j /\ pc' = "commit"
      BY <1>2, <1>4 DEF EndOfScan
    <2>2. branch # "NEXTFIT"
      BY <1>2, <1>4 DEF IInv, ScanInv
    <2>3. flag = 1 /\ j \in Cells /\ Fits(j, req) /\ ~Inside(j)
      BY <1>2, <1>4, <2>2, LargeHole
    <2>4. Types' /\ OnBoundaries' /\ ChoiceIsFree'
      BY <1>1, <2>1, <2>3, HeapUnchanged
         DEF IInv, Types, heapVars, OnBoundaries, ChoiceIsFree
    <2>5. FirstFitIsLowest'
      BY <1>1, <1>2, <1>4, <2>1, <2>2, <2>3, HeapUnchanged, RequestAssumption
         DEF IInv, ScanInv, FirstFitIsLowest, NothingBelow, Cells
    <2> QED
      BY <1>1, <1>2, <1>3, <2>1, <2>4, <2>5
         DEF IInv, NextFitCountsDown, ScanInv, FullWhenNull
  <1>5. CASE found = 0 /\ currentSize < req
    <2>1. pc' = "fail" /\ UNCHANGED generalAddress
      BY <1>2, <1>5 DEF EndOfScan
    <2>2. Types' /\ OnBoundaries'
      BY <1>1, <2>1, HeapUnchanged DEF IInv, Types, heapVars, OnBoundaries
    <2>3. FullWhenNull'
      <3> SUFFICES ASSUME branch # "NEXTFIT", NEW a \in Cells, Fits(a, req)
                   PROVE  FALSE
        BY <1>1, HeapUnchanged DEF FullWhenNull
      <3>1. i = N
        BY <1>2, RequestAssumption DEF ScanOver, IInv, Types
      <3>2. flag = 1 /\ j <= a
        BY <1>2, <1>5, <3>1, RequestAssumption
           DEF IInv, ScanInv, NothingBelow, Cells, Types
      <3>3. j + currentSize = N /\ j \in Cells
        BY <1>2, <3>1, <3>2 DEF IInv, ScanInv, HoleInv, Types
      <3> QED
        BY <1>2, <1>5, <3>2, <3>3, RequestAssumption DEF Fits, Cells
    <2> QED
      BY <1>1, <1>2, <1>3, <2>1, <2>2, <2>3
         DEF IInv, NextFitCountsDown, ScanInv, ChoiceIsFree, FirstFitIsLowest
  <1>6. CASE found = 1
    <2>1. pc' = "commit" /\ UNCHANGED generalAddress
      BY <1>2, <1>6 DEF EndOfScan
    <2>2. Types' /\ OnBoundaries' /\ ChoiceIsFree'
      BY <1>1, <1>2, <1>6, <2>1, HeapUnchanged
         DEF IInv, Types, heapVars, OnBoundaries, ChoiceIsFree, ScanInv
    <2> QED
      BY <1>1, <1>2, <1>3, <1>6, <2>1, <2>2
         DEF IInv, NextFitCountsDown, ScanInv, FullWhenNull, FirstFitIsLowest
  <1> QED
    BY <1>2, <1>4, <1>5, <1>6

\* The pages in the page file are those covered by a block.
CoveredPages == {c \in Cells : Covered(c)}

\* The pages of the live blocks are the covered cells.
LEMMA PageFileCovered ==
    Types /\ Disjoint => (PageFileExact <=> inPF = CoveredPages)
  <1> SUFFICES ASSUME Types, Disjoint
               PROVE  PageFileExact <=> inPF = CoveredPages
    OBVIOUS
  <1>1. \A c : c \in UNION {PagesAt(b, size[b]) : b \in Live} <=> c \in Cells /\ Covered(c)
    <2> TAKE c
    <2>1. ASSUME NEW b \in Live, c \in PagesAt(b, size[b])
          PROVE  c \in Cells /\ Covered(c)
      BY <2>1, RequestAssumption DEF PagesAt, Covered, Live, Types, Disjoint, Cells
    <2>2. ASSUME c \in Cells, Covered(c)
          PROVE  \E b \in Live : c \in PagesAt(b, size[b])
      BY <2>2, RequestAssumption DEF PagesAt, Covered, Live, Types, Cells
    <2> QED
      BY <2>1, <2>2
  <1> QED
    BY <1>1 DEF PageFileExact, CoveredPages

\* malloc records the block it found, and the kernel its pages.
LEMMA CommitStep ==
    ASSUME IInv, Commit
    PROVE  IInv'
  <1> DEFINE g == generalAddress
  <1>1. /\ g \in Cells /\ req \in Nat /\ req > 0 /\ Fits(g, req) /\ g + req <= N
    BY RequestAssumption DEF Commit, IInv, Types, ChoiceIsFree, Fits
  <1>2. /\ tracker' = [tracker EXCEPT ![g] = req]
        /\ size' = [size EXCEPT ![g] = req]
        /\ va' = [va EXCEPT ![g] = g]
        /\ inPF' = inPF \cup PagesAt(g, req)
        /\ generalAddress' = IF g + req >= N THEN 0 ELSE g
        /\ pc' = "idle" /\ req' = 0 /\ i' = 0 /\ j' = 0 /\ k' = 0 /\ currentSize' = 0
        /\ flag' = 0 /\ found' = 0 /\ viable' = 0 /\ branch' = "none"
    BY DEF Commit, Return
  <1>3. Types'
    <2>1. PagesAt(g, req) \subseteq Cells
      BY <1>1, RequestAssumption DEF PagesAt, Cells
    <2>2. inPF' \in SUBSET Cells
      BY <1>2, <2>1 DEF IInv, Types
    <2>3. req \in 0 .. N
      BY <1>1, RequestAssumption DEF Cells
    <2>4. /\ tracker' \in [Cells -> 0 .. N] /\ size' \in [Cells -> 0 .. N]
          /\ va' \in [Cells -> Cells \cup {Null}]
      BY <1>1, <1>2, <2>3 DEF IInv, Types
    <2>5. generalAddress' \in Cells /\ 0 \in Cells
      BY <1>1, <1>2, RequestAssumption DEF Cells
    <2> QED
      BY <1>2, <2>2, <2>4, <2>5, RequestAssumption DEF IInv, Types
  <1>4. g \notin Live /\ Live' = Live \cup {g}
    <2>1. ~Covered(g)
      BY <1>1, RequestAssumption DEF Fits, PagesAt, Cells
    <2>2. g \notin Live
      BY <2>1, <1>1, RequestAssumption DEF Covered, Live, IInv, Disjoint, Types, Cells, Null
    <2> QED
      BY <1>1, <1>2, <2>2, RequestAssumption DEF Live, IInv, Types, Cells, Null
  <1>5. \A b \in Live : size'[b] = size[b] /\ b \in Cells /\ size[b] \in 1 .. N
    BY <1>1, <1>2, <1>4, RequestAssumption DEF Live, IInv, Types, Disjoint, Null, Cells
  <1>6. \A b \in Live : b < g => b + size[b] <= g
    <2> SUFFICES ASSUME NEW b \in Live, b < g, b + size[b] > g PROVE FALSE
      BY <1>1, <1>5, RequestAssumption DEF Cells
    <2>1. Covered(g)
      BY <1>1, <1>5, RequestAssumption DEF Covered, Cells
    <2> QED
      BY <1>1, <2>1, RequestAssumption DEF Fits, PagesAt, Cells
  <1>7. \A b \in Live : g < b => g + req <= b
    <2> SUFFICES ASSUME NEW b \in Live, g < b, g + req > b PROVE FALSE
      BY <1>1, <1>5, RequestAssumption DEF Cells
    <2>1. Covered(b)
      BY <1>1, <1>5, RequestAssumption DEF Covered, Cells
    <2>2. b \in PagesAt(g, req)
      BY <1>1, <1>5, RequestAssumption DEF PagesAt, Cells
    <2> QED
      BY <1>1, <2>1, <2>2 DEF Fits
  <1>8. size'[g] = req
    BY <1>1, <1>2 DEF IInv, Types
  <1>9. Disjoint'
    <2>1. \A c \in Cells : tracker'[c] = size'[c]
      BY <1>1, <1>2, RequestAssumption DEF IInv, Types, Disjoint
    <2>2. \A c \in Cells : va'[c] = IF size'[c] = 0 THEN Null ELSE c
      BY <1>1, <1>2, RequestAssumption DEF IInv, Types, Disjoint
    <2>3. \A c \in Live' : c + size'[c] <= N
      BY <1>1, <1>4, <1>5, <1>8 DEF IInv, Disjoint
    <2>4. \A c, d \in Live' : c < d => c + size'[c] <= d
      BY <1>1, <1>4, <1>5, <1>6, <1>7, <1>8, RequestAssumption DEF IInv, Disjoint, Cells
    <2> QED
      BY <2>1, <2>2, <2>3, <2>4 DEF Disjoint
  <1>10. \A c \in Cells : Covered(c)' <=> Covered(c) \/ c \in PagesAt(g, req)
    BY <1>1, <1>4, <1>5, <1>8, RequestAssumption DEF Covered, PagesAt, Cells
  <1>11. PageFileExact'
    <2>1. inPF = CoveredPages
      BY PageFileCovered DEF IInv
    <2>2. inPF' = CoveredPages'
      BY <1>1, <1>2, <1>10, <2>1, RequestAssumption DEF PagesAt, Cells, CoveredPages
    <2>3. (Types /\ Disjoint => (PageFileExact <=> inPF = CoveredPages))'
      BY PageFileCovered, PTL
    <2> QED
      BY <1>3, <1>9, <2>2, <2>3
  <1>12. OnBoundaries'
    <2>1. \A b \in Live' : ~(b < g /\ g < b + size'[b])
      BY <1>1, <1>4, <1>5, <1>6, <1>8, RequestAssumption DEF Cells
    <2>2. \A b \in Live' : ~(b < 0)
      BY <1>1, <1>4, <1>5, RequestAssumption DEF Cells
    <2> QED
      BY <1>2, <2>1, <2>2 DEF OnBoundaries, Inside
  <1> QED
    BY <1>2, <1>3, <1>9, <1>11, <1>12
       DEF IInv, NextFitCountsDown, ScanInv, ChoiceIsFree, FullWhenNull, FirstFitIsLowest

\* malloc returns NULL.
LEMMA ReturnNullStep ==
    ASSUME IInv, ReturnNull
    PROVE  IInv'
  <1>1. /\ UNCHANGED <<heapVars, generalAddress>> /\ branch' = "none"
        /\ pc' = "idle" /\ req' = 0 /\ i' = 0 /\ j' = 0 /\ k' = 0 /\ currentSize' = 0
        /\ flag' = 0 /\ found' = 0 /\ viable' = 0
    BY DEF ReturnNull, Return
  <1>2. Types'
    BY <1>1, RequestAssumption DEF IInv, Types, heapVars, Cells
  <1>3. Disjoint' /\ PageFileExact'
    BY <1>1 DEF IInv, heapVars, Disjoint, PageFileExact, Live, PagesAt
  <1>4. OnBoundaries'
    BY <1>1, EndsNotInside DEF IInv, heapVars, OnBoundaries, Inside, Live
  <1> QED
    BY <1>1, <1>2, <1>3, <1>4
       DEF IInv, NextFitCountsDown, ScanInv, ChoiceIsFree, FullWhenNull, FirstFitIsLowest

\* free: the block leaves both tables and its pages the page file.
LEMMA FreeStep ==
    ASSUME IInv, NEW a \in Cells, Free(a)
    PROVE  IInv'
  <1>1. UNCHANGED <<branch, generalAddress, pc, req, i, j, k, currentSize, flag, found, viable>>
    BY DEF Free, localVars
  <1>2. PICK c \in Cells :
          /\ va[c] = a
          /\ tracker' = [tracker EXCEPT ![va[c]] = 0]
          /\ inPF' = inPF \ PagesAt(a, size[c])
          /\ va' = [va EXCEPT ![c] = Null]
          /\ size' = [size EXCEPT ![c] = 0]
    BY DEF Free
  <1>3. c = a /\ a \in Live /\ size[a] \in 1 .. N
    <2>1. a # Null
      BY RequestAssumption DEF Cells, Null
    <2>2. size[c] # 0 /\ c = a
      BY <1>2, <2>1 DEF IInv, Disjoint
    <2>3. size[a] \in 0 .. N
      BY DEF IInv, Types
    <2> QED
      BY <1>2, <2>1, <2>2, <2>3, RequestAssumption DEF Live
  <1>4. Types'
    <2>1. /\ tracker' \in [Cells -> 0 .. N] /\ size' \in [Cells -> 0 .. N]
          /\ va' \in [Cells -> Cells \cup {Null}] /\ inPF' \in SUBSET Cells
      BY <1>2, <1>3, RequestAssumption DEF IInv, Types
    <2> QED
      BY <1>1, <2>1 DEF IInv, Types
  <1>5. Live' = Live \ {a}
    BY <1>2, <1>3 DEF Live, IInv, Types
  <1>6. \A b \in Live : b # a => size'[b] = size[b]
    BY <1>2, <1>3 DEF Live, IInv, Types
  <1>7. Disjoint'
    <2>1. \A d \in Cells : tracker'[d] = size'[d]
      BY <1>2, <1>3 DEF IInv, Types, Disjoint
    <2>2. \A d \in Cells : va'[d] = IF size'[d] = 0 THEN Null ELSE d
      BY <1>2, <1>3 DEF IInv, Types, Disjoint
    <2>3. \A d \in Live' : d + size'[d] <= N /\ \A b \in Live' : d < b => d + size'[d] <= b
      BY <1>5, <1>6 DEF IInv, Disjoint
    <2> QED
      BY <2>1, <2>2, <2>3 DEF Disjoint
  <1>8. \A d \in Cells : Covered(d)' <=> Covered(d) /\ d \notin PagesAt(a, size[a])
    <2> TAKE d \in Cells
    <2>1. ASSUME NEW b \in Live, b # a, b <= d, d < b + size[b]
          PROVE  d \notin PagesAt(a, size[a])
      <3>1. a < b \/ b < a
        BY <1>3, <2>1, RequestAssumption DEF Live, Cells
      <3>2. a < b => a + size[a] <= b
        BY <1>3, <2>1 DEF IInv, Disjoint
      <3>3. b < a => b + size[b] <= a
        BY <1>3, <2>1 DEF IInv, Disjoint
      <3>4. size[b] \in 0 .. N /\ b \in Cells
        BY DEF IInv, Types, Live
      <3> QED
        BY <1>3, <2>1, <3>1, <3>2, <3>3, <3>4, RequestAssumption DEF PagesAt, Cells
    <2>2. ASSUME d \notin PagesAt(a, size[a]), Covered(d)
          PROVE  Covered(d)'
      BY <1>3, <1>5, <1>6, <2>2, RequestAssumption DEF Covered, PagesAt, Cells
    <2>3. ASSUME Covered(d)'
          PROVE  Covered(d) /\ d \notin PagesAt(a, size[a])
      <3>1. PICK b \in Live : b # a /\ b <= d /\ d < b + size[b]
        BY <1>5, <1>6, <2>3 DEF Covered
      <3> QED
        BY <2>1, <3>1 DEF Covered
    <2> QED
      BY <2>2, <2>3
  <1>9. PageFileExact'
    <2>1. inPF = CoveredPages
      BY PageFileCovered DEF IInv
    <2>2. inPF' = CoveredPages'
      BY <1>2, <1>3, <1>8, <2>1 DEF CoveredPages
    <2>3. (Types /\ Disjoint => (PageFileExact <=> inPF = CoveredPages))'
      BY PageFileCovered, PTL
    <2> QED
      BY <1>4, <1>7, <2>2, <2>3
  <1>10. OnBoundaries'
    BY <1>1, <1>5, <1>6 DEF IInv, OnBoundaries, Inside
  <1>11. pc = "idle"
    BY DEF Free
  <1> QED
    BY <1>1, <1>4, <1>7, <1>9, <1>10, <1>11
       DEF IInv, NextFitCountsDown, ScanInv, ChoiceIsFree, FullWhenNull, FirstFitIsLowest

\* A step that changes nothing of malloc's own; the strategy may change.
LEMMA Stutter ==
    ASSUME IInv, UNCHANGED <<branch, heapVars, generalAddress, pc, req, localVars>>
    PROVE  IInv'
  <1>1. /\ UNCHANGED <<heapVars, req, branch, generalAddress, pc>>
        /\ UNCHANGED <<i, j, k, currentSize, flag, found, viable>>
    BY DEF localVars
  <1>2. Types'
    BY <1>1 DEF IInv, Types, heapVars
  <1>3. OnBoundaries' /\ NextFitCountsDown' /\ ScanInv'
    BY <1>1, HeapUnchanged
       DEF IInv, OnBoundaries, NextFitCountsDown, ScanInv, HoleInv, NothingBelow
  <1>4. ChoiceIsFree' /\ FullWhenNull' /\ FirstFitIsLowest'
    BY <1>1, HeapUnchanged DEF IInv, ChoiceIsFree, FullWhenNull, FirstFitIsLowest
  <1> QED
    BY <1>1, <1>2, <1>3, <1>4, HeapUnchanged DEF IInv

\* A heap that is intact has been intact all the time.
LEMMA IntactBefore ==
    ASSUME [UHeapNext]_uheapVars, intact'
    PROVE  intact
  BY DEF UHeapNext, uheapVars, Malloc, Free, SetStrategy, Search, AskYes, AskNo, FallThrough,
      NextFitFreeCell, NextFitBlock, FreeCell, FirstFitBlock, BestWorstFitBlock, EndOfScan,
      Commit, ReturnNull

\* As long as the heap is intact, IInv holds.
LEMMA Inductive == UHeapSpec => [](intact => IInv)
  <1>1. (intact => IInv) /\ [UHeapNext]_uheapVars => (intact => IInv)'
    <2> SUFFICES ASSUME intact => IInv, [UHeapNext]_uheapVars, intact' PROVE IInv'
      OBVIOUS
    <2>0. IInv
      BY IntactBefore
    <2>1. CASE \E s \in 1 .. MaxRequest : Malloc(s)
      BY <2>0, <2>1, MallocStep
    <2>2. CASE \E a \in Cells : Free(a)
      BY <2>0, <2>2, FreeStep
    <2>3. CASE AskYes \/ AskNo \/ FallThrough
      BY <2>0, <2>3, AskYesStep, AskNoStep, FallThroughStep
    <2>4. CASE NextFitFreeCell \/ NextFitBlock \/ FreeCell \/ FirstFitBlock \/ BestWorstFitBlock
      BY <2>0, <2>4, NextFitFreeCellStep, NextFitBlockStep, FreeCellStep, FirstFitBlockStep,
          BestWorstFitBlockStep
    <2>5. CASE EndOfScan \/ Commit \/ ReturnNull
      BY <2>0, <2>5, EndOfScanStep, CommitStep, ReturnNullStep
    <2>6. CASE \E s \in Strategies : SetStrategy(s)
      BY <2>0, <2>6, Stutter DEF SetStrategy
    <2>7. CASE UNCHANGED uheapVars
      BY <2>0, <2>7, Stutter DEF uheapVars
    <2> QED
      BY <2>1, <2>2, <2>3, <2>4, <2>5, <2>6, <2>7 DEF UHeapNext, Search
  <1> QED
    BY <1>1, InitIInv, PTL DEF UHeapSpec

\* The strategy is one of those that are ever set.
LEMMA StrategyTypes == UHeapSpec => [](strategy \in Strategies /\ intact \in BOOLEAN)
  <1> DEFINE T == strategy \in Strategies /\ intact \in BOOLEAN
  <1>1. UHeapInit => T
    BY DEF UHeapInit
  <1>2. T /\ [UHeapNext]_uheapVars => T'
    BY DEF UHeapNext, uheapVars, Malloc, Free, SetStrategy, Search, AskYes, AskNo, FallThrough,
        NextFitFreeCell, NextFitBlock, FreeCell, FirstFitBlock, BestWorstFitBlock, EndOfScan,
        Commit, ReturnNull
  <1> QED
    BY <1>1, <1>2, PTL DEF UHeapSpec

\* Types, for every heap size: no index leaves the heap and k never wraps, as
\* long as no block was put over another.
THEOREM TypeCorrect == UHeapSpec => []UHeapTypeOK
  BY Inductive, StrategyTypes, PTL DEF IInv, UHeapTypeOK

\* malloc never hands out a page of a live block, whatever strategies are set
\* and when, and whatever was freed before, unless it goes on without a search
\* to a place where its block does not fit; nothing but that makes blocks
\* overlap.
THEOREM BlocksNeverOverlap == UHeapSpec => [](BlocksDisjoint /\ (intact => ChoiceIsFree))
  BY Inductive, PTL DEF IInv, BlocksDisjoint

\* Until then the kernel's page file holds exactly the pages of the live blocks.
THEOREM KernelAgrees == UHeapSpec => []PageFileMatchesBlocks
  BY Inductive, PTL DEF IInv, PageFileMatchesBlocks

\* Until then no search ever reads the tracker inside a block, also after the
\* strategy has changed, and NEXT FIT visits every cell exactly once.
THEOREM SearchOnBoundaries == UHeapSpec => [](NeverInsideABlock /\ (intact => NextFitCountsDown))
  BY Inductive, PTL DEF IInv, NeverInsideABlock

\* First, best and worst fit fail only when nothing fits, and first fit returns
\* the lowest address that does.
THEOREM SearchComplete == UHeapSpec => [](NullOnlyWhenFull /\ (intact => FirstFitIsLowest))
  BY Inductive, PTL DEF IInv, NullOnlyWhenFull

\* The questions malloc has not passed when the strategy is st.
NotPassed(st) ==
    /\ branch = "FIRSTFIT" => st # "NEXTFIT"
    /\ branch = "BESTFIT" => st \notin {"NEXTFIT", "FIRSTFIT"}
    /\ branch = "WORSTFIT" => st = "WORSTFIT"

\* As long as everybody sets the same strategy, and one that exists, malloc always
\* finds it, and the heap stays intact: then what is said above of an intact
\* heap holds of every state.
THEOREM OneStrategyKeepsIntact ==
    ASSUME NEW st \in {"NEXTFIT", "FIRSTFIT", "BESTFIT", "WORSTFIT"}, Strategies = {st}
    PROVE  UHeapSpec => []intact
  <1> DEFINE J == strategy = st /\ intact = TRUE /\ (pc = "ask" => NotPassed(st))
  <1>1. UHeapInit => J
    BY DEF UHeapInit
  <1>2. (intact => IInv) /\ J /\ [UHeapNext]_uheapVars => J'
    <2> SUFFICES ASSUME IInv, J, [UHeapNext]_uheapVars PROVE J'
      OBVIOUS
    <2>1. CASE \E s \in 1 .. MaxRequest : Malloc(s)
      BY <2>1 DEF Malloc, NotPassed
    <2>2. CASE \E a \in Cells : Free(a)
      BY <2>2 DEF Free
    <2>3. CASE AskYes
      BY <2>3 DEF AskYes
    <2>4. CASE AskNo
      <3>1. /\ UNCHANGED <<strategy, intact, pc>> /\ branch # st /\ branch # "WORSTFIT"
            /\ branch' = NextQuestion[branch]
            /\ branch \in {"NEXTFIT", "FIRSTFIT", "BESTFIT"} /\ NotPassed(st)
        BY <2>4 DEF AskNo, IInv, Types
      <3> QED
        BY <3>1 DEF NotPassed, NextQuestion
    <2>5. CASE FallThrough
      BY <2>5 DEF FallThrough, NotPassed
    <2>6. CASE NextFitFreeCell \/ NextFitBlock \/ FreeCell \/ FirstFitBlock \/ BestWorstFitBlock
      BY <2>6 DEF NextFitFreeCell, NextFitBlock, FreeCell, FirstFitBlock, BestWorstFitBlock
    <2>7. CASE EndOfScan \/ Commit \/ ReturnNull
      BY <2>7 DEF EndOfScan, Commit, ReturnNull, Return
    <2>8. CASE \E s \in Strategies : SetStrategy(s)
      BY <2>8 DEF SetStrategy, NotPassed
    <2>9. CASE UNCHANGED uheapVars
      BY <2>9 DEF uheapVars, NotPassed
    <2> QED
      BY <2>1, <2>2, <2>3, <2>4, <2>5, <2>6, <2>7, <2>8, <2>9 DEF UHeapNext, Search
  <1>3. J => intact
    OBVIOUS
  <1> QED
    BY <1>1, <1>2, <1>3, Inductive, PTL DEF UHeapSpec

-----------------------------------------------------------------------------
(***************************************************************************)
(* The holes of Placement, described by their ends.                        *)
(***************************************************************************)
\* A search that starts at lo has a hole to begin at p: lo itself, or the end
\* of a block.
Start(lo, p) == p = lo \/ \E b \in Live : lo <= b /\ p = b + size[b]

\* From h up to e is a hole of the window from lo to hi.
IsHole(lo, hi, h, e) ==
    /\ lo <= h /\ h < e /\ e <= hi
    /\ Start(lo, h)
    /\ e = hi \/ e \in Live
    /\ \A b \in Live : ~(h <= b /\ b < e)

\* A window that cuts no block.
Window(lo, hi) ==
    /\ lo \in 0 .. N /\ hi \in 0 .. N /\ lo <= hi
    /\ ~Inside(lo) /\ ~Inside(hi)

\* Min, where there is a least element.
LEMMA MinIs ==
    ASSUME NEW S, S \subseteq Int, NEW x \in S, \A y \in S : x <= y
    PROVE  Min(S) = x
  <1>1. \A y \in S : (\A z \in S : y <= z) => y = x
    OBVIOUS
  <1>2. \E y \in S : \A z \in S : y <= z
    OBVIOUS
  <1>3. Min(S) \in S /\ \A z \in S : Min(S) <= z
    BY <1>2 DEF Min
  <1> QED
    BY <1>1, <1>3

\* What is known of every live block.
LEMMA BlockTypes ==
    ASSUME Types, Disjoint, NEW b \in Live
    PROVE  b \in Cells /\ b \in 0 .. N - 1 /\ size[b] \in 1 .. N /\ b + size[b] \in 1 .. N
  BY RequestAssumption DEF Types, Disjoint, Live, Cells, Null

\* The places where HolesIn lets a hole end, and those where it begins.
Stops(lo, hi)  == {b \in Live : lo <= b /\ b < hi} \cup {hi}
Starts(lo, hi) == {lo} \cup {b + size[b] : b \in {c \in Live : lo <= c /\ c < hi}}

\* HolesIn in these terms.
LEMMA HolesInIs ==
    ASSUME NEW lo, NEW hi
    PROVE  HolesIn(LiveBlocks, lo, hi) =
             [h \in Starts(lo, hi) \ Stops(lo, hi) |-> Min({s \in Stops(lo, hi) : s > h}) - h]
  <1>1. DOMAIN LiveBlocks = Live /\ \A b \in Live : LiveBlocks[b] = size[b]
    BY DEF LiveBlocks
  <1>2. {b \in DOMAIN LiveBlocks : lo <= b /\ b < hi} = {b \in Live : lo <= b /\ b < hi}
    BY <1>1
  <1>3. {b + LiveBlocks[b] : b \in {c \in Live : lo <= c /\ c < hi}}
          = {b + size[b] : b \in {c \in Live : lo <= c /\ c < hi}}
    BY <1>1
  <1> QED
    BY <1>2, <1>3 DEF HolesIn, Starts, Stops

\* A hole by its ends is a hole of Placement, of that size.
LEMMA HoleIsIn ==
    ASSUME Types, Disjoint, NEW lo, NEW hi, Window(lo, hi),
           NEW h \in 0 .. N, NEW e \in 0 .. N, IsHole(lo, hi, h, e)
    PROVE  h \in DOMAIN HolesIn(LiveBlocks, lo, hi) /\ HolesIn(LiveBlocks, lo, hi)[h] = e - h
  <1> DEFINE After == {s \in Stops(lo, hi) : s > h}
  <1>1. Stops(lo, hi) \subseteq Int
    BY BlockTypes DEF Stops, Window
  <1>2. h \in Starts(lo, hi)
    <2>1. CASE h = lo
      BY <2>1 DEF Starts
    <2>2. CASE h # lo
      <3>1. PICK b \in Live : lo <= b /\ h = b + size[b]
        BY <2>2 DEF IsHole, Start
      <3>2. b < hi
        BY <3>1, BlockTypes, RequestAssumption DEF IsHole, Window
      <3> QED
        BY <3>1, <3>2 DEF Starts
    <2> QED
      BY <2>1, <2>2
  <1>3. h \notin Stops(lo, hi)
    BY RequestAssumption DEF Stops, IsHole, Window
  <1>4. e \in After
    BY RequestAssumption DEF Stops, IsHole, Window
  <1>5. ASSUME NEW s \in After PROVE e <= s
    BY <1>1, BlockTypes, RequestAssumption DEF Stops, IsHole, Window
  <1>6. Min(After) = e
    <2>1. After \subseteq Int
      BY <1>1
    <2> HIDE DEF After
    <2> QED
      BY <1>4, <1>5, <2>1, MinIs
  <1> QED
    BY <1>2, <1>3, <1>6, HolesInIs

\* Above every place of a window inside it there is a stop, and a first one.
LEMMA FirstStop ==
    ASSUME Types, Disjoint, NEW lo, NEW hi, Window(lo, hi), NEW p \in 0 .. N, p < hi
    PROVE  \E e \in 0 .. N : /\ e \in Stops(lo, hi) /\ e > p
                             /\ \A s \in Stops(lo, hi) : s > p => e <= s
  <1> DEFINE After == {s \in Stops(lo, hi) : s > p}
  <1>1. \A s \in Stops(lo, hi) : s \in 0 .. N
    BY BlockTypes, RequestAssumption DEF Stops, Window
  <1>2. After \subseteq Nat /\ hi \in After
    BY <1>1, RequestAssumption DEF Stops, Window
  <1>3. PICK e \in After : \A s \in After : e <= s
    <2> HIDE DEF After
    <2> QED
      BY <1>2, LeastElement
  <1> QED
    BY <1>1, <1>3

\* A block that starts below a window's end ends in it.
LEMMA BlockInWindow ==
    ASSUME Types, Disjoint, NEW lo, NEW hi, Window(lo, hi),
           NEW b \in Live, b < hi
    PROVE  b + size[b] <= hi
  BY BlockTypes, RequestAssumption DEF Window, Inside

\* And a hole of Placement is one by its ends.
LEMMA InIsHole ==
    ASSUME Types, Disjoint, NEW lo, NEW hi, Window(lo, hi),
           NEW h \in DOMAIN HolesIn(LiveBlocks, lo, hi)
    PROVE  /\ h \in 0 .. N /\ HolesIn(LiveBlocks, lo, hi)[h] \in 1 .. N
           /\ h + HolesIn(LiveBlocks, lo, hi)[h] \in 0 .. N
           /\ IsHole(lo, hi, h, h + HolesIn(LiveBlocks, lo, hi)[h])
  <1>1. h \in Starts(lo, hi) /\ h \notin Stops(lo, hi)
    BY HolesInIs
  <1>2. h \in lo .. hi /\ Start(lo, h)
    <2>1. CASE h = lo
      BY <2>1 DEF Window, Start
    <2>2. CASE h # lo
      <3>1. PICK b \in Live : lo <= b /\ b < hi /\ h = b + size[b]
        BY <1>1, <2>2 DEF Starts
      <3> QED
        BY <3>1, BlockTypes, BlockInWindow DEF Window, Start
    <2> QED
      BY <2>1, <2>2
  <1>3. h < hi /\ h \in 0 .. N
    BY <1>1, <1>2, RequestAssumption DEF Stops, Window
  <1>4. PICK e \in 0 .. N : /\ e \in Stops(lo, hi) /\ e > h
                            /\ \A s \in Stops(lo, hi) : s > h => e <= s
    BY <1>3, FirstStop
  <1>5. e <= hi /\ (e = hi \/ e \in Live)
    BY <1>3, <1>4 DEF Stops, Window
  <1>6. ASSUME NEW b \in Live, h <= b, b < e PROVE FALSE
    <2>1. b \in Stops(lo, hi)
      BY <1>2, <1>4, <1>5, <1>6, BlockTypes DEF Stops, Window
    <2>2. b # h
      BY <1>1, <2>1
    <2> QED
      BY <1>3, <1>4, <1>6, <2>1, <2>2, BlockTypes
  <1>7. IsHole(lo, hi, h, e)
    BY <1>2, <1>4, <1>5, <1>6, RequestAssumption DEF IsHole
  <1>8. HolesIn(LiveBlocks, lo, hi)[h] = e - h
    BY <1>3, <1>7, HoleIsIn
  <1> QED
    BY <1>3, <1>4, <1>7, <1>8, RequestAssumption

-----------------------------------------------------------------------------
(***************************************************************************)
(* What the searches know about holes.  NEXT FIT searches two windows, the *)
(* second when it has come back to the bottom; the others the whole heap.  *)
(***************************************************************************)
Wrapped == branch = "NEXTFIT" /\ k <= generalAddress
ScanLo  == IF branch = "NEXTFIT" /\ ~Wrapped THEN generalAddress ELSE 0
ScanHi  == IF Wrapped THEN generalAddress ELSE N

\* Where the hole being measured begins, or the next one may.
Pos == IF flag = 1 THEN j ELSE i

\* No hole of the window that begins below p is large enough.
NoneBelow(lo, hi, p) ==
    \A h, e \in 0 .. N : IsHole(lo, hi, h, e) /\ h < p => e - h < req

\* What best and worst fit have found so far is the first of the best among the
\* holes below p that a block follows.
BestBelow(p) ==
    /\ IsHole(0, N, generalAddress, generalAddress + viable)
    /\ generalAddress + viable < N /\ generalAddress < p /\ viable >= req
    /\ \A h, e \in 0 .. N :
          IsHole(0, N, h, e) /\ h < p /\ e < N /\ e - h >= req =>
            /\ IF branch = "BESTFIT" THEN viable <= e - h ELSE viable >= e - h
            /\ viable = e - h => generalAddress <= h

PlacementInv ==
    pc = "scan" =>
        /\ ScanLo <= Pos /\ Pos <= i /\ i <= ScanHi /\ Start(ScanLo, Pos)
        /\ found = 0 => NoneBelow(ScanLo, ScanHi, Pos)
        /\ Wrapped => NoneBelow(generalAddress, N, N)
        /\ found = 1 => BestBelow(Pos)

-----------------------------------------------------------------------------
\* Free cells from a place where a hole may begin up to a stop are a hole, and
\* there is no other among them.
LEMMA HoleSpans ==
    ASSUME Types, Disjoint, NEW lo, NEW hi, Window(lo, hi),
           NEW p \in 0 .. N, NEW q \in 0 .. N, lo <= p, p <= q, q <= hi, Start(lo, p),
           \A c \in Cells : p <= c /\ c < q => ~Covered(c),
           q = hi \/ q \in Live
    PROVE  /\ p < q => IsHole(lo, hi, p, q)
           /\ \A h, e \in 0 .. N : IsHole(lo, hi, h, e) /\ p <= h /\ h < q => h = p /\ e = q
  <1>1. ASSUME NEW b \in Live, p <= b, b < q PROVE FALSE
    BY <1>1, BlockTypes, RequestAssumption DEF Covered
  <1>2. p < q => IsHole(lo, hi, p, q)
    BY <1>1 DEF IsHole
  <1>3. ASSUME NEW h \in 0 .. N, NEW e \in 0 .. N, IsHole(lo, hi, h, e), p <= h, h < q
        PROVE  h = p /\ e = q
    <2>1. h = p
      <3> SUFFICES ASSUME h # p PROVE FALSE
        OBVIOUS
      <3>1. p < h /\ h # lo
        BY <1>3 DEF Window
      <3>2. PICK b \in Live : lo <= b /\ h = b + size[b]
        BY <1>3, <3>1 DEF IsHole, Start
      <3>3. h - 1 \in Cells /\ p <= h - 1 /\ h - 1 < q
        BY <1>3, <3>1, RequestAssumption DEF Cells
      <3>4. Covered(h - 1)
        BY <3>2, BlockTypes DEF Covered
      <3> QED
        BY <3>3, <3>4
    <2>2. e <= q
      BY <1>3, RequestAssumption DEF IsHole, Window
    <2>3. e >= q
      BY <1>1, <1>3, <2>2, RequestAssumption DEF IsHole, Window
    <2> QED
      BY <2>1, <2>2, <2>3
  <1> QED
    BY <1>2, <1>3

\* No hole begins inside a block or at its first cell.
LEMMA NoHoleInBlock ==
    ASSUME Types, Disjoint, NEW lo, NEW hi, Window(lo, hi), NEW b \in Live,
           NEW h \in 0 .. N, NEW e \in 0 .. N, IsHole(lo, hi, h, e), b <= h
    PROVE  b + size[b] <= h
  <1>1. b # h
    BY DEF IsHole
  <1>2. CASE h = lo
    BY <1>1, <1>2, BlockTypes DEF Window, Inside
  <1>3. CASE h # lo
    <2>1. PICK c \in Live : lo <= c /\ h = c + size[c]
      BY <1>3 DEF IsHole, Start
    <2>2. b <= c
      BY <1>1, <2>1, BlockTypes DEF Disjoint
    <2>3. b = c \/ b + size[b] <= c
      BY <2>2, BlockTypes DEF Disjoint
    <2> QED
      BY <2>1, <2>3, BlockTypes
  <1> QED
    BY <1>2, <1>3

\* Where a search stands, between two iterations.
LEMMA ScanFacts ==
    ASSUME IInv, PlacementInv, pc = "scan"
    PROVE  /\ Window(ScanLo, ScanHi) /\ Pos \in 0 .. N /\ i \in 0 .. N
           /\ ScanLo <= Pos /\ Pos <= i /\ i <= ScanHi /\ Start(ScanLo, Pos)
           /\ Pos + currentSize = i
           /\ \A c \in Cells : Pos <= c /\ c < i => ~Covered(c)
           /\ Pos < i <=> flag = 1
           /\ req \in Nat /\ req > 0 /\ currentSize \in 0 .. N
           /\ flag \in {0, 1} /\ found \in {0, 1}
           /\ generalAddress \in 0 .. N - 1 /\ N \in Nat /\ k \in 0 .. N
  <1>1. /\ req \in Nat /\ req > 0 /\ currentSize \in 0 .. N /\ flag \in {0, 1}
        /\ found \in {0, 1} /\ i \in 0 .. N /\ j \in 0 .. N - 1
        /\ generalAddress \in 0 .. N - 1 /\ N \in Nat /\ k \in 0 .. N
    BY RequestAssumption DEF IInv, Types, ScanInv, Cells
  <1>2. Window(ScanLo, ScanHi)
    <2>1. ~Inside(0) /\ ~Inside(N) /\ ~Inside(generalAddress)
      BY EndsNotInside DEF IInv, OnBoundaries
    <2> QED
      BY <1>1, <2>1 DEF Window, ScanLo, ScanHi, Wrapped
  <1>3. /\ Pos \in 0 .. N /\ Pos + currentSize = i /\ (Pos < i <=> flag = 1)
        /\ \A c \in Cells : Pos <= c /\ c < i => ~Covered(c)
    BY <1>1 DEF Pos, IInv, ScanInv, HoleInv, Cells
  <1>4. ScanLo <= Pos /\ Pos <= i /\ i <= ScanHi /\ Start(ScanLo, Pos)
    BY DEF PlacementInv
  <1> QED
    BY <1>1, <1>2, <1>3, <1>4

\* When a search meets a block, the hole before it is the one it measured.
LEMMA HoleBeforeBlock ==
    ASSUME IInv, PlacementInv, pc = "scan", i \in Cells, tracker[i] # 0, i < ScanHi
    PROVE  /\ AfterBlock \in 0 .. N /\ AfterBlock <= ScanHi /\ AfterBlock > i
           /\ Start(ScanLo, AfterBlock) /\ i \in Live
           /\ flag = 1 => IsHole(ScanLo, ScanHi, Pos, i)
           /\ \A h, e \in 0 .. N :
                 IsHole(ScanLo, ScanHi, h, e) /\ h < AfterBlock =>
                   h < Pos \/ (flag = 1 /\ h = Pos /\ e = i)
  <1> USE ScanFacts
  <1>0. Types /\ Disjoint
    BY DEF IInv
  <1>1. /\ i \in Live /\ AfterBlock = i + size[i] /\ AfterBlock \in 0 .. N /\ AfterBlock > i
    BY <1>0, BlockFacts DEF Disjoint, AfterBlock
  <1>2. AfterBlock <= ScanHi
    BY <1>0, <1>1, BlockInWindow
  <1>3. Start(ScanLo, AfterBlock)
    BY <1>1 DEF Start, Window
  <1>4. /\ Pos < i => IsHole(ScanLo, ScanHi, Pos, i)
        /\ \A h, e \in 0 .. N : IsHole(ScanLo, ScanHi, h, e) /\ Pos <= h /\ h < i => h = Pos /\ e = i
    BY <1>0, <1>1, HoleSpans
  <1>5. ASSUME NEW h \in 0 .. N, NEW e \in 0 .. N, IsHole(ScanLo, ScanHi, h, e), h < AfterBlock
        PROVE  h < Pos \/ (flag = 1 /\ h = Pos /\ e = i)
    <2>1. h < i
      BY <1>0, <1>1, <1>5, NoHoleInBlock
    <2> QED
      BY <1>4, <1>5, <2>1
  <1> QED
    BY <1>1, <1>2, <1>3, <1>4, <1>5

\* NEXT FIT's counter tells which window it is in.
LEMMA NextFitPhase ==
    ASSUME IInv, pc = "scan", branch = "NEXTFIT"
    PROVE  /\ i < N /\ currentSize < req /\ found = 0
           /\ ~Wrapped => i >= generalAddress /\ i + k = generalAddress + N
           /\ Wrapped => i <= generalAddress /\ i + k = generalAddress
           /\ k # 0 => i < ScanHi
  BY RequestAssumption DEF IInv, Types, ScanInv, NextFitCountsDown, Wrapped, ScanHi, Cells

\* Nothing was large enough before a block, so nothing is before its end.
LEMMA NothingBeforeBlock ==
    ASSUME IInv, PlacementInv, pc = "scan", i \in Cells, tracker[i] # 0, i < ScanHi,
           found = 0, currentSize < req
    PROVE  NoneBelow(ScanLo, ScanHi, AfterBlock)
  <1>1. NoneBelow(ScanLo, ScanHi, Pos)
    BY DEF PlacementInv
  <1> SUFFICES ASSUME NEW h \in 0 .. N, NEW e \in 0 .. N,
                      IsHole(ScanLo, ScanHi, h, e), h < AfterBlock
               PROVE  e - h < req
    BY DEF NoneBelow
  <1>2. h < Pos \/ (h = Pos /\ e = i)
    BY HoleBeforeBlock
  <1> QED
    BY <1>1, <1>2, ScanFacts DEF NoneBelow

\* At the end of a window the hole being measured is its last one.
LEMMA HoleAtEnd ==
    ASSUME IInv, PlacementInv, pc = "scan", NEW q \in 0 .. N, q = ScanHi, i <= q,
           \A c \in Cells : Pos <= c /\ c < q => ~Covered(c)
    PROVE  /\ Pos < q => IsHole(ScanLo, ScanHi, Pos, q)
           /\ \A h, e \in 0 .. N :
                 IsHole(ScanLo, ScanHi, h, e) => h < Pos \/ (h = Pos /\ e = q)
  <1>1. Types /\ Disjoint
    BY DEF IInv
  <1>2. /\ Pos < q => IsHole(ScanLo, ScanHi, Pos, q)
        /\ \A h, e \in 0 .. N : IsHole(ScanLo, ScanHi, h, e) /\ Pos <= h /\ h < q => h = Pos /\ e = q
    BY <1>1, ScanFacts, HoleSpans
  <1>3. \A h, e \in 0 .. N : IsHole(ScanLo, ScanHi, h, e) => h < q
    BY DEF IsHole
  <1> QED
    BY <1>2, <1>3, ScanFacts

\* Holes do not change while the heap does not.
LEMMA HolesUnchanged ==
    ASSUME UNCHANGED <<heapVars, req>>
    PROVE  /\ \A lo, p : Start(lo, p)' <=> Start(lo, p)
           /\ \A lo, hi, h, e : IsHole(lo, hi, h, e)' <=> IsHole(lo, hi, h, e)
           /\ \A lo, hi, p : NoneBelow(lo, hi, p)' <=> NoneBelow(lo, hi, p)
  <1>1. Live' = Live /\ size' = size /\ req' = req
    BY HeapUnchanged DEF heapVars
  <1>2. \A lo, p : Start(lo, p)' <=> Start(lo, p)
    BY <1>1 DEF Start
  <1>3. \A lo, hi, h, e : IsHole(lo, hi, h, e)' <=> IsHole(lo, hi, h, e)
    BY <1>1 DEF IsHole, Start
  <1> QED
    BY <1>1, <1>2, <1>3 DEF NoneBelow

\* A search begins.
LEMMA AskYesPlaces ==
    ASSUME IInv, AskYes
    PROVE  PlacementInv'
  <1>1. /\ flag' = 0 /\ found' = 0 /\ generalAddress \in 0 .. N - 1 /\ branch' = branch
        /\ N \in Nat /\ N > 0
    BY RequestAssumption DEF AskYes, IInv, Types, Cells
  <1>2. ScanLo' = i' /\ Pos' = i' /\ i' <= ScanHi' /\ ~Wrapped' /\ i' \in 0 .. N
    BY <1>1 DEF AskYes, ScanLo, ScanHi, Pos, Wrapped
  <1> QED
    BY <1>1, <1>2 DEF PlacementInv, NoneBelow, IsHole, Start

\* NEXT FIT goes on from a free cell.
LEMMA NextFitFreeCellPlaces ==
    ASSUME IInv, PlacementInv, NextFitFreeCell
    PROVE  PlacementInv'
  <1> SUFFICES ASSUME pc' = "scan" PROVE PlacementInv'
    BY DEF PlacementInv
  <1>1. /\ pc = "scan" /\ branch = "NEXTFIT" /\ k # 0 /\ tracker[i] = 0 /\ k' = k - 1
        /\ currentSize + 1 < req /\ j' = HoleStart
        /\ UNCHANGED <<generalAddress, found, branch, heapVars, req>>
    BY ScanFacts DEF NextFitFreeCell
  <1>2. /\ IF i + 1 >= N
           THEN i' = 0 /\ flag' = 0
           ELSE i' = i + 1 /\ flag' = 1
    BY <1>1, ScanFacts DEF NextFitFreeCell
  <1>3. Pos = HoleStart
    BY <1>1, ScanFacts DEF Pos, HoleStart
  <1>4. NoneBelow(ScanLo, ScanHi, Pos)
    BY <1>1, NextFitPhase DEF PlacementInv
  <1>5. CASE i + 1 < N
    <2>1. Wrapped' <=> Wrapped
      BY <1>1, <1>5, NextFitPhase, ScanFacts DEF Wrapped
    <2>2. ScanLo' = ScanLo /\ ScanHi' = ScanHi /\ Pos' = Pos
      BY <1>1, <1>2, <1>3, <1>5, <2>1, ScanFacts DEF ScanLo, ScanHi, Pos
    <2>3. ScanLo' <= Pos' /\ Pos' <= i' /\ i' <= ScanHi'
      BY <1>1, <1>2, <1>5, <2>2, ScanFacts, NextFitPhase DEF ScanHi
    <2>4. /\ Start(ScanLo, Pos)' /\ NoneBelow(ScanLo, ScanHi, Pos)'
      BY <1>1, <1>4, <2>2, ScanFacts, HolesUnchanged
    <2>5. Wrapped' => NoneBelow(generalAddress, N, N)'
      BY <1>1, <2>1, HolesUnchanged DEF PlacementInv
    <2>6. found' = 0
      BY <1>1, NextFitPhase
    <2> QED
      BY <2>3, <2>4, <2>5, <2>6 DEF PlacementInv
  <1>6. CASE i + 1 >= N
    <2>1. i + 1 = N /\ ~Wrapped /\ k' = generalAddress
      BY <1>1, <1>6, NextFitPhase, ScanFacts DEF Wrapped
    <2>2. ScanLo = generalAddress /\ ScanHi = N
      BY <1>1, <2>1 DEF ScanLo, ScanHi
    <2>3. \A c \in Cells : Pos <= c /\ c < N => ~Covered(c)
      BY <1>1, <2>1, FreeCellFacts, ScanFacts DEF Cells, IInv
    <2>4. NoneBelow(generalAddress, N, N)
      <3> SUFFICES ASSUME NEW h \in 0 .. N, NEW e \in 0 .. N, IsHole(ScanLo, ScanHi, h, e)
                   PROVE  e - h < req
        BY <2>2 DEF NoneBelow
      <3>1. h < Pos \/ (h = Pos /\ e = N)
        BY <1>1, <2>2, <2>3, HoleAtEnd, ScanFacts
      <3> QED
        BY <1>1, <1>4, <2>1, <3>1, ScanFacts DEF NoneBelow
    <2>5. Wrapped' /\ ScanLo' = 0 /\ ScanHi' = generalAddress /\ Pos' = 0 /\ i' = 0
      BY <1>1, <1>2, <1>6, <2>1, ScanFacts DEF Wrapped, ScanLo, ScanHi, Pos
    <2>6. NoneBelow(generalAddress, N, N)'
      BY <1>1, <2>4, HolesUnchanged
    <2>7. NoneBelow(ScanLo, ScanHi, Pos)' /\ Start(ScanLo, Pos)'
      BY <2>5, ScanFacts DEF NoneBelow, IsHole, Start
    <2>8. found' = 0
      BY <1>1, NextFitPhase
    <2> QED
      BY <1>1, <2>5, <2>6, <2>7, <2>8, ScanFacts DEF PlacementInv
  <1> QED
    BY <1>1, <1>5, <1>6, ScanFacts

\* NEXT FIT skips a block.
LEMMA NextFitBlockPlaces ==
    ASSUME IInv, PlacementInv, NextFitBlock
    PROVE  PlacementInv'
  <1>1. /\ pc = "scan" /\ branch = "NEXTFIT" /\ k # 0 /\ tracker[i] # 0
        /\ UNCHANGED <<branch, heapVars, req>>
    BY DEF NextFitBlock
  <1>2. i \in Cells /\ i < ScanHi /\ found = 0 /\ currentSize < req
    BY <1>1, NextFitPhase, ScanFacts DEF Cells
  <1>3. /\ k' = (k - tracker[i]) % Word
        /\ i' = IF AfterBlock >= N THEN 0 ELSE AfterBlock
        /\ flag' = 0 /\ UNCHANGED <<generalAddress, found>>
    BY <1>1, <1>2, ScanFacts DEF NextFitBlock
  <1>4. /\ AfterBlock \in 0 .. N /\ AfterBlock <= ScanHi /\ Start(ScanLo, AfterBlock)
        /\ AfterBlock > i /\ NoneBelow(ScanLo, ScanHi, AfterBlock)
    BY <1>1, <1>2, HoleBeforeBlock, NothingBeforeBlock
  <1>5. tracker[i] = AfterBlock - i
    BY <1>1, <1>2, ScanFacts DEF IInv, Types, AfterBlock
  <1>6. k' = k - (AfterBlock - i)
    <2>1. k - (AfterBlock - i) \in 0 .. N
      BY <1>1, <1>4, NextFitPhase, ScanFacts DEF ScanHi
    <2> QED
      BY <1>3, <1>5, <2>1, WordAssumption, RequestAssumption
  <1>7. CASE AfterBlock < N
    <2>1. Wrapped' <=> Wrapped
      BY <1>1, <1>3, <1>4, <1>6, <1>7, NextFitPhase, ScanFacts DEF Wrapped
    <2>2. ScanLo' = ScanLo /\ ScanHi' = ScanHi /\ Pos' = AfterBlock /\ i' = AfterBlock
      BY <1>1, <1>3, <1>4, <1>7, <2>1, ScanFacts DEF ScanLo, ScanHi, Pos
    <2>3. /\ Start(ScanLo, Pos)' /\ NoneBelow(ScanLo, ScanHi, Pos)'
      BY <1>1, <1>4, <2>2, HolesUnchanged
    <2>4. Wrapped' => NoneBelow(generalAddress, N, N)'
      BY <1>1, <1>3, <2>1, HolesUnchanged DEF PlacementInv
    <2> QED
      BY <1>1, <1>2, <1>3, <1>4, <2>2, <2>3, <2>4, ScanFacts DEF PlacementInv, Window
  <1>8. CASE AfterBlock >= N
    <2>1. AfterBlock = N /\ ~Wrapped /\ k' = generalAddress
      BY <1>1, <1>4, <1>6, <1>8, NextFitPhase, ScanFacts DEF Wrapped, ScanHi
    <2>2. NoneBelow(generalAddress, N, N)'
      BY <1>1, <1>3, <1>4, <2>1, HolesUnchanged DEF ScanLo, ScanHi
    <2>3. Wrapped' /\ ScanLo' = 0 /\ ScanHi' = generalAddress /\ Pos' = 0 /\ i' = 0
      BY <1>1, <1>3, <1>8, <2>1, ScanFacts DEF Wrapped, ScanLo, ScanHi, Pos
    <2>4. NoneBelow(ScanLo, ScanHi, Pos)' /\ Start(ScanLo, Pos)'
      BY <2>3, ScanFacts DEF NoneBelow, IsHole, Start
    <2> QED
      BY <1>1, <1>2, <1>3, <2>2, <2>3, <2>4, ScanFacts DEF PlacementInv
  <1> QED
    BY <1>1, <1>4, <1>7, <1>8, ScanFacts

\* The other searches search the whole heap.
LEMMA WholeHeap ==
    ASSUME branch # "NEXTFIT"
    PROVE  ~Wrapped /\ ScanLo = 0 /\ ScanHi = N
  BY DEF Wrapped, ScanLo, ScanHi

\* They go on from a free cell.
LEMMA FreeCellPlaces ==
    ASSUME IInv, PlacementInv, FreeCell
    PROVE  PlacementInv'
  <1>1. /\ pc = "scan" /\ branch # "NEXTFIT" /\ i < N /\ flag' = 1 /\ j' = HoleStart
        /\ i' = i + 1
        /\ UNCHANGED <<branch, heapVars, req, generalAddress, found, viable>>
    BY DEF FreeCell
  <1>2. ~Wrapped' /\ ScanLo' = 0 /\ ScanHi' = N /\ ScanLo = 0 /\ ScanHi = N
    BY <1>1 DEF Wrapped, ScanLo, ScanHi
  <1>3. Pos' = Pos
    BY <1>1, ScanFacts DEF Pos, HoleStart
  <1>4. Start(ScanLo, Pos)' /\ (found' = 0 => NoneBelow(ScanLo, ScanHi, Pos)')
    BY <1>1, <1>2, <1>3, HolesUnchanged DEF PlacementInv
  <1>5. found' = 1 => BestBelow(Pos)'
    BY <1>1, <1>3, HolesUnchanged DEF PlacementInv, BestBelow
  <1> QED
    BY <1>1, <1>2, <1>3, <1>4, <1>5, ScanFacts DEF PlacementInv

\* FIRST FIT skips a block.
LEMMA FirstFitBlockPlaces ==
    ASSUME IInv, PlacementInv, FirstFitBlock
    PROVE  PlacementInv'
  <1> SUFFICES ASSUME pc' = "scan" PROVE PlacementInv'
    BY DEF PlacementInv
  <1>1. /\ pc = "scan" /\ branch = "FIRSTFIT" /\ i < N /\ tracker[i] # 0 /\ currentSize < req
        /\ i' = AfterBlock /\ flag' = 0
        /\ UNCHANGED <<branch, heapVars, req, found>>
    BY DEF FirstFitBlock
  <1>2. ~Wrapped' /\ ScanLo' = 0 /\ ScanHi' = N /\ ScanLo = 0 /\ ScanHi = N /\ Pos' = AfterBlock
    BY <1>1 DEF Wrapped, ScanLo, ScanHi, Pos
  <1>3. i \in Cells /\ found = 0
    BY <1>1, ScanFacts DEF Cells, IInv, ScanInv
  <1>4. /\ AfterBlock \in 0 .. N /\ Start(ScanLo, AfterBlock)
        /\ NoneBelow(ScanLo, ScanHi, AfterBlock)
    BY <1>1, <1>2, <1>3, HoleBeforeBlock, NothingBeforeBlock
  <1>5. Start(ScanLo, Pos)' /\ NoneBelow(ScanLo, ScanHi, Pos)'
    BY <1>1, <1>2, <1>4, HolesUnchanged
  <1> QED
    BY <1>1, <1>2, <1>3, <1>4, <1>5 DEF PlacementInv

\* BEST FIT and WORST FIT compare the hole before a block with what they have.
LEMMA BestWorstFitBlockPlaces ==
    ASSUME IInv, PlacementInv, BestWorstFitBlock
    PROVE  PlacementInv'
  <1>1. /\ pc = "scan" /\ branch \in {"BESTFIT", "WORSTFIT"} /\ i < N /\ tracker[i] # 0
        /\ i' = AfterBlock /\ flag' = 0
        /\ UNCHANGED <<branch, heapVars, req>>
    BY DEF BestWorstFitBlock
  <1>2. ~Wrapped' /\ ScanLo' = 0 /\ ScanHi' = N /\ ScanLo = 0 /\ ScanHi = N /\ Pos' = AfterBlock
    BY <1>1 DEF Wrapped, ScanLo, ScanHi, Pos
  <1>3. i \in Cells /\ viable \in 0 .. N
    BY <1>1, ScanFacts DEF Cells, IInv, Types
  <1>4. /\ AfterBlock \in 0 .. N /\ AfterBlock > i /\ Start(ScanLo, AfterBlock)
        /\ flag = 1 => IsHole(0, N, Pos, i)
        /\ \A h, e \in 0 .. N :
              IsHole(0, N, h, e) /\ h < AfterBlock => h < Pos \/ (flag = 1 /\ h = Pos /\ e = i)
    BY <1>1, <1>2, <1>3, HoleBeforeBlock
  <1>5. Start(ScanLo, Pos)'
    BY <1>1, <1>2, <1>4, HolesUnchanged
  <1>6. \/ /\ Better /\ generalAddress' = j /\ viable' = currentSize /\ found' = 1
        \/ /\ ~Better /\ UNCHANGED <<generalAddress, viable, found>>
    BY DEF BestWorstFitBlock
  <1>7. CASE Better
    <2>1. currentSize >= req /\ flag = 1 /\ Pos = j /\ generalAddress' = Pos /\ found' = 1
          /\ viable' = currentSize /\ currentSize = i - Pos
      BY <1>1, <1>6, <1>7, ScanFacts DEF Better, Pos
    <2>2. ASSUME NEW h \in 0 .. N, NEW e \in 0 .. N, IsHole(0, N, h, e), h < AfterBlock,
                 e < N, e - h >= req
          PROVE  /\ IF branch = "BESTFIT" THEN viable' <= e - h ELSE viable' >= e - h
                 /\ viable' = e - h => Pos <= h
      <3>1. CASE h = Pos /\ e = i
        BY <2>1, <3>1, ScanFacts
      <3>2. CASE h < Pos
        <4>1. found = 1
          BY <1>1, <1>2, <2>2, <3>2, ScanFacts DEF PlacementInv, NoneBelow
        <4>2. IF branch = "BESTFIT" THEN viable <= e - h ELSE viable >= e - h
          BY <1>1, <2>2, <3>2, <4>1 DEF PlacementInv, BestBelow
        <4>3. IF branch = "BESTFIT" THEN viable > currentSize ELSE viable < currentSize
          BY <1>7 DEF Better
        <4> QED
          BY <1>3, <2>1, <4>2, <4>3, ScanFacts
      <3> QED
        BY <1>4, <2>2, <3>1, <3>2
    <2>3. BestBelow(Pos)'
      <3>1. IsHole(0, N, generalAddress, generalAddress + viable)'
        BY <1>1, <1>4, <2>1, HolesUnchanged, ScanFacts
      <3>2. generalAddress' + viable' < N /\ generalAddress' < Pos' /\ viable' >= req'
        BY <1>1, <1>2, <1>4, <2>1, ScanFacts
      <3> QED
        BY <1>1, <1>2, <2>1, <2>2, <3>1, <3>2, HolesUnchanged DEF BestBelow
    <2> QED
      BY <1>1, <1>2, <1>4, <1>5, <2>1, <2>3 DEF PlacementInv
  <1>8. CASE ~Better
    <2>1. UNCHANGED <<generalAddress, viable, found>>
      BY <1>6, <1>8
    <2>2. CASE found = 0
      <3>1. currentSize < req
        <4>1. viable = IF branch = "BESTFIT" THEN N ELSE 0
          BY <1>1, <2>2 DEF IInv, ScanInv
        <4> QED
          BY <1>1, <1>3, <1>8, <4>1, ScanFacts DEF Better
      <3>2. NoneBelow(ScanLo, ScanHi, AfterBlock)
        BY <1>1, <1>2, <1>3, <2>2, <3>1, NothingBeforeBlock
      <3>3. NoneBelow(ScanLo, ScanHi, Pos)'
        BY <1>1, <1>2, <3>2, HolesUnchanged
      <3> QED
        BY <1>1, <1>2, <1>4, <1>5, <2>1, <2>2, <3>3 DEF PlacementInv
    <2>3. CASE found = 1
      <3>1. BestBelow(Pos)
        BY <1>1, <2>3 DEF PlacementInv
      <3>2. ASSUME NEW h \in 0 .. N, NEW e \in 0 .. N, IsHole(0, N, h, e), h < AfterBlock,
                   e < N, e - h >= req
            PROVE  /\ IF branch = "BESTFIT" THEN viable <= e - h ELSE viable >= e - h
                   /\ viable = e - h => generalAddress <= h
        <4>1. CASE h < Pos
          BY <3>1, <3>2, <4>1 DEF BestBelow
        <4>2. CASE h = Pos /\ e = i
          <5>1. IF branch = "BESTFIT" THEN viable <= currentSize ELSE viable >= currentSize
            BY <1>1, <1>3, <1>8, <3>2, <4>2, ScanFacts DEF Better
          <5>2. generalAddress < Pos
            BY <3>1 DEF BestBelow
          <5> QED
            BY <1>1, <4>2, <5>1, <5>2, ScanFacts
        <4> QED
          BY <1>4, <3>2, <4>1, <4>2
      <3>3. generalAddress < AfterBlock
        BY <1>1, <1>4, <3>1, ScanFacts DEF BestBelow
      <3>4. BestBelow(Pos)'
        BY <1>1, <1>2, <2>1, <3>1, <3>2, <3>3, HolesUnchanged DEF BestBelow
      <3> QED
        BY <1>1, <1>2, <1>4, <1>5, <2>1, <2>3, <3>4 DEF PlacementInv
    <2> QED
      BY <1>1, <2>2, <2>3, ScanFacts
  <1> QED
    BY <1>7, <1>8

\* What the searches know about holes is an invariant of an intact heap.
LEMMA Places == UHeapSpec => [](intact => PlacementInv)
  <1>1. UHeapInit => PlacementInv
    BY DEF UHeapInit, PlacementInv
  <1>2. IInv /\ PlacementInv /\ [UHeapNext]_uheapVars => PlacementInv'
    <2> SUFFICES ASSUME IInv, PlacementInv, [UHeapNext]_uheapVars PROVE PlacementInv'
      OBVIOUS
    <2>1. CASE (\E s \in 1 .. MaxRequest : Malloc(s)) \/ AskNo \/ FallThrough
      BY <2>1 DEF Malloc, AskNo, FallThrough, PlacementInv
    <2>2. CASE \E a \in Cells : Free(a)
      BY <2>2 DEF Free, PlacementInv
    <2>3. CASE EndOfScan \/ Commit \/ ReturnNull
      BY <2>3 DEF EndOfScan, Commit, ReturnNull, Return, PlacementInv
    <2>4. CASE NextFitFreeCell \/ NextFitBlock \/ FreeCell \/ FirstFitBlock \/ BestWorstFitBlock
      BY <2>4, NextFitFreeCellPlaces, NextFitBlockPlaces, FreeCellPlaces, FirstFitBlockPlaces,
         BestWorstFitBlockPlaces
    <2>5. CASE AskYes
      BY <2>5, AskYesPlaces
    <2>6. CASE UNCHANGED uheapVars \/ \E s \in Strategies : SetStrategy(s)
      <3>1. /\ UNCHANGED <<heapVars, req>>
            /\ UNCHANGED <<branch, generalAddress, pc, i, j, k, currentSize, flag, found, viable>>
        BY <2>6 DEF uheapVars, localVars, SetStrategy
      <3>2. /\ Wrapped' = Wrapped /\ ScanLo' = ScanLo /\ ScanHi' = ScanHi /\ Pos' = Pos
        BY <3>1 DEF Wrapped, ScanLo, ScanHi, Pos
      <3>3. BestBelow(Pos)' <=> BestBelow(Pos)
        BY <3>1, <3>2, HolesUnchanged DEF BestBelow
      <3> QED
        BY <3>1, <3>2, <3>3, HolesUnchanged DEF PlacementInv
    <2> QED
      BY <2>1, <2>2, <2>3, <2>4, <2>5, <2>6 DEF UHeapNext, Search
  <1>3. [UHeapNext]_uheapVars /\ intact' => intact
    BY IntactBefore
  <1> QED
    BY <1>1, <1>2, <1>3, Inductive, PTL DEF UHeapSpec

-----------------------------------------------------------------------------
\* The holes of a window that are large enough.
FitsIn(lo, hi) == FitIn(HolesIn(LiveBlocks, lo, hi), req)

\* They are those whose ends are far enough apart.
LEMMA FitsInIs ==
    ASSUME Types, Disjoint, NEW lo, NEW hi, Window(lo, hi)
    PROVE  /\ \A h \in FitsIn(lo, hi) :
                 \E e \in 0 .. N : /\ h \in 0 .. N /\ IsHole(lo, hi, h, e) /\ e - h >= req
                                  /\ HolesIn(LiveBlocks, lo, hi)[h] = e - h
           /\ \A h, e \in 0 .. N :
                 IsHole(lo, hi, h, e) /\ e - h >= req =>
                   h \in FitsIn(lo, hi) /\ HolesIn(LiveBlocks, lo, hi)[h] = e - h
  <1>1. ASSUME NEW h \in FitsIn(lo, hi)
        PROVE  \E e \in 0 .. N : /\ h \in 0 .. N /\ IsHole(lo, hi, h, e) /\ e - h >= req
                                 /\ HolesIn(LiveBlocks, lo, hi)[h] = e - h
    <2>1. h \in DOMAIN HolesIn(LiveBlocks, lo, hi) /\ HolesIn(LiveBlocks, lo, hi)[h] >= req
      BY DEF FitsIn, FitIn
    <2>2. PICK z : z = HolesIn(LiveBlocks, lo, hi)[h]
      OBVIOUS
    <2>3. /\ h \in 0 .. N /\ z \in 1 .. N /\ h + z \in 0 .. N /\ IsHole(lo, hi, h, h + z)
      BY <2>1, <2>2, InIsHole
    <2> QED
      BY <2>1, <2>2, <2>3
  <1>2. ASSUME NEW h \in 0 .. N, NEW e \in 0 .. N, IsHole(lo, hi, h, e), e - h >= req
        PROVE  h \in FitsIn(lo, hi) /\ HolesIn(LiveBlocks, lo, hi)[h] = e - h
    BY <1>2, HoleIsIn DEF FitsIn, FitIn
  <1> QED
    BY <1>1, <1>2

\* The first hole that is large enough is the lowest one.
LEMMA LowestFit ==
    ASSUME Types, Disjoint, NEW lo, NEW hi, Window(lo, hi), req \in Nat,
           NEW h \in 0 .. N, NEW e \in 0 .. N, IsHole(lo, hi, h, e), e - h >= req,
           NoneBelow(lo, hi, h)
    PROVE  FitsIn(lo, hi) # {} /\ Lowest(FitsIn(lo, hi)) = h
  <1>1. h \in FitsIn(lo, hi)
    BY FitsInIs
  <1>2. FitsIn(lo, hi) \subseteq Int
    BY FitsInIs
  <1>3. ASSUME NEW g \in FitsIn(lo, hi) PROVE h <= g
    <2>1. PICK f \in 0 .. N : g \in 0 .. N /\ IsHole(lo, hi, g, f) /\ f - g >= req
      BY FitsInIs
    <2> QED
      BY <2>1 DEF NoneBelow
  <1>4. Min(FitsIn(lo, hi)) = h
    BY <1>1, <1>2, <1>3, MinIs
  <1> QED
    BY <1>1, <1>4 DEF Lowest

\* Without such a hole there is none.
LEMMA NoFit ==
    ASSUME Types, Disjoint, NEW lo, NEW hi, Window(lo, hi), req \in Nat,
           \A h, e \in 0 .. N : IsHole(lo, hi, h, e) => e - h < req
    PROVE  FitsIn(lo, hi) = {} /\ Lowest(FitsIn(lo, hi)) = NoPlace
  <1>1. FitsIn(lo, hi) = {}
    <2> SUFFICES ASSUME NEW g \in FitsIn(lo, hi) PROVE FALSE
      OBVIOUS
    <2>1. PICK f \in 0 .. N : g \in 0 .. N /\ IsHole(lo, hi, g, f) /\ f - g >= req
      BY FitsInIs
    <2> QED
      BY <2>1
  <1> QED
    BY <1>1 DEF Lowest

\* A hole that begins below g is the lowest of the heap that is large enough when
\* its part below g is, and is the lowest such part.
LEMMA LowestOfHeap ==
    ASSUME Types, Disjoint, NEW g \in 0 .. N - 1, ~Inside(g), req \in Nat,
           NEW h \in 0 .. N, NEW e \in 0 .. N, IsHole(0, g, h, e), e - h >= req,
           NoneBelow(0, g, h)
    PROVE  Lowest(FitsIn(0, N)) = h
  <1>1. Window(0, N)
    BY EndsNotInside, RequestAssumption DEF Window
  <1>2. /\ 0 <= h /\ h < e /\ e <= g /\ Start(0, h) /\ (e = g \/ e \in Live)
        /\ \A b \in Live : ~(h <= b /\ b < e)
    BY DEF IsHole
  <1>3. PICK f \in 0 .. N : /\ f \in Stops(0, N) /\ f > h
                            /\ \A s \in Stops(0, N) : s > h => f <= s
    BY <1>1, <1>2, FirstStop, RequestAssumption
  <1>4. f = N \/ f \in Live
    BY <1>3 DEF Stops
  <1>5. ASSUME NEW b \in Live, h <= b, b < f PROVE FALSE
    <2>1. b \in 0 .. N - 1 /\ b # h
      BY <1>2, <1>5, BlockTypes
    <2>2. b \in Stops(0, N)
      BY <2>1, RequestAssumption DEF Stops
    <2> QED
      BY <1>3, <1>5, <2>1, <2>2
  <1>6. IsHole(0, N, h, f)
    BY <1>2, <1>3, <1>4, <1>5 DEF IsHole
  <1>7. f >= e
    BY <1>2, <1>3, <1>4, RequestAssumption
  <1>8. ASSUME NEW h2 \in 0 .. N, NEW e2 \in 0 .. N, IsHole(0, N, h2, e2), h2 < h
        PROVE  e2 - h2 < req
    <2>1. PICK b \in Live : h = b + size[b]
      BY <1>2, <1>8 DEF Start
    <2>2. b \in 0 .. N - 1 /\ size[b] \in 1 .. N
      BY BlockTypes
    <2>3. h2 < b
      BY <1>1, <1>8, <2>1, <2>2, NoHoleInBlock
    <2>4. e2 <= b
      BY <1>8, <2>2, <2>3 DEF IsHole
    <2>5. IsHole(0, g, h2, e2)
      BY <1>2, <1>8, <2>1, <2>2, <2>4 DEF IsHole
    <2> QED
      BY <1>8, <2>5 DEF NoneBelow
  <1>9. NoneBelow(0, N, h)
    BY <1>8 DEF NoneBelow
  <1> QED
    BY <1>1, <1>3, <1>6, <1>7, <1>9, LowestFit

\* When neither what is below g nor what is above has a hole that is large enough,
\* the heap has none, unless g is in the middle of it.
LEMMA NoneOfHeap ==
    ASSUME Types, Disjoint, NEW g \in 0 .. N - 1, ~Inside(g), req \in Nat,
           \A h, e \in 0 .. N : IsHole(0, g, h, e) => e - h < req,
           FitsIn(g, N) = {}
    PROVE  Lowest(FitsIn(0, N)) = NoPlace \/ InsideHole(LiveBlocks, N, g)
  <1>1. Window(0, N) /\ Window(g, N)
    BY EndsNotInside, RequestAssumption DEF Window
  <1>2. ASSUME ~InsideHole(LiveBlocks, N, g), NEW h \in 0 .. N, NEW e \in 0 .. N, IsHole(0, N, h, e)
        PROVE  e - h < req
    <2>1. /\ 0 <= h /\ h < e /\ Start(0, h) /\ (e = N \/ e \in Live)
          /\ \A b \in Live : ~(h <= b /\ b < e)
      BY <1>2 DEF IsHole
    <2>2. CASE e <= g
      BY <2>1, <2>2 DEF IsHole
    <2>3. CASE g <= h
      <3>1. Start(g, h)
        <4>1. CASE h = 0
          BY <2>3, <4>1 DEF Start
        <4>2. CASE h # 0
          <5>1. PICK b \in Live : h = b + size[b]
            BY <2>1, <4>2 DEF Start
          <5> QED
            BY <2>3, <5>1, BlockTypes DEF Start, Inside
        <4> QED
          BY <4>1, <4>2
      <3>2. IsHole(g, N, h, e)
        BY <2>1, <2>3, <3>1 DEF IsHole
      <3> QED
        BY <1>1, <3>2, FitsInIs
    <2>4. CASE h < g /\ g < e
      <3>1. h \in DOMAIN HolesIn(LiveBlocks, 0, N) /\ HolesIn(LiveBlocks, 0, N)[h] = e - h
        BY <1>1, <1>2, HoleIsIn
      <3> QED
        BY <1>2, <2>4, <3>1 DEF InsideHole
    <2> QED
      BY <2>2, <2>3, <2>4
  <1> QED
    BY <1>1, <1>2, NoFit

\* NEXT FIT's choice, from what lies ahead and what is in the whole heap.
LEMMA NextFitChoice ==
    ASSUME branch = "NEXTFIT"
    PROVE  PlaceFor(branch, LiveBlocks, req, N, generalAddress) =
             IF FitsIn(generalAddress, N) # {} THEN Lowest(FitsIn(generalAddress, N))
             ELSE Lowest(FitsIn(0, N))
  BY DEF PlaceFor, NextFitPlace, FirstFitPlace, FitsIn

\* The first window holds nothing once NEXT FIT is in the second.
LEMMA NothingAhead ==
    ASSUME IInv, PlacementInv, pc = "scan", Wrapped
    PROVE  FitsIn(generalAddress, N) = {}
  <1>1. NoneBelow(generalAddress, N, N)
    BY DEF PlacementInv
  <1>2. \A h, e \in 0 .. N : IsHole(generalAddress, N, h, e) => h < N
    BY RequestAssumption DEF IsHole
  <1>3. Window(generalAddress, N)
    BY EndsNotInside, ScanFacts DEF IInv, OnBoundaries, Window
  <1> QED
    BY <1>1, <1>2, <1>3, NoFit, ScanFacts DEF NoneBelow, IInv

\* NEXT FIT takes the first hole that is large enough as soon as it has measured
\* enough of it.
LEMMA NextFitChooses ==
    ASSUME IInv, PlacementInv, NextFitFreeCell, pc' # "scan"
    PROVE  pc' = "commit" /\ generalAddress' = PlaceFor(branch, LiveBlocks, req, N, generalAddress)
  <1>1. /\ pc = "scan" /\ branch = "NEXTFIT" /\ k # 0 /\ tracker[i] = 0
        /\ currentSize + 1 >= req /\ generalAddress' = HoleStart /\ pc' = "commit"
    BY ScanFacts DEF NextFitFreeCell
  <1>2. Pos = HoleStart
    BY <1>1, ScanFacts DEF Pos, HoleStart
  <1>3. i < ScanHi /\ i \in Cells /\ found = 0
    BY <1>1, NextFitPhase, ScanFacts DEF Cells
  <1>4. Types /\ Disjoint /\ ~Covered(i)
    BY <1>1, <1>3, FreeCellFacts DEF IInv
  <1>5. \E e \in 0 .. N : e > i /\ IsHole(ScanLo, ScanHi, Pos, e)
    <2>1. PICK e \in 0 .. N : /\ e \in Stops(ScanLo, ScanHi) /\ e > i
                             /\ \A s \in Stops(ScanLo, ScanHi) : s > i => e <= s
      BY <1>1, <1>3, <1>4, FirstStop, ScanFacts
    <2>2. e <= ScanHi /\ (e = ScanHi \/ e \in Live)
      BY <1>1, <1>3, <2>1, ScanFacts DEF Stops, Window
    <2>3. ASSUME NEW b \in Live, Pos <= b, b < e PROVE FALSE
      <3>1. b \in 0 .. N - 1 /\ size[b] \in 1 .. N
        BY <1>4, BlockTypes
      <3>2. CASE b <= i
        <4>1. Covered(b)
          BY <3>1 DEF Covered
        <4> QED
          BY <1>1, <1>4, <2>3, <3>1, <3>2, <4>1, ScanFacts DEF Cells
      <3>3. CASE b > i
        <4>1. b \in Stops(ScanLo, ScanHi)
          BY <1>1, <2>2, <2>3, <3>1, ScanFacts DEF Stops, Window
        <4> QED
          BY <2>1, <2>3, <3>1, <3>3, <4>1
      <3> QED
        BY <1>1, <3>1, <3>2, <3>3, ScanFacts
    <2> QED
      BY <1>1, <2>1, <2>2, <2>3, ScanFacts DEF IsHole
  <1>6. PICK e \in 0 .. N : e > i /\ IsHole(ScanLo, ScanHi, Pos, e)
    BY <1>5
  <1>7. FitsIn(ScanLo, ScanHi) # {} /\ Lowest(FitsIn(ScanLo, ScanHi)) = Pos
    <2>1. NoneBelow(ScanLo, ScanHi, Pos) /\ e - Pos >= req
      BY <1>1, <1>3, <1>6, ScanFacts DEF PlacementInv
    <2> QED
      BY <1>1, <1>4, <1>6, <2>1, LowestFit, ScanFacts
  <1>8. CASE Wrapped
    <2>1. ScanLo = 0 /\ ScanHi = generalAddress /\ ~Inside(generalAddress)
      BY <1>8 DEF ScanLo, ScanHi, IInv, OnBoundaries
    <2>2. NoneBelow(ScanLo, ScanHi, Pos) /\ e - Pos >= req
      BY <1>1, <1>3, <1>6, ScanFacts DEF PlacementInv
    <2>3. Lowest(FitsIn(0, N)) = Pos
      BY <1>1, <1>4, <1>6, <2>1, <2>2, LowestOfHeap, ScanFacts
    <2> QED
      BY <1>1, <1>2, <1>8, <2>3, NextFitChoice, NothingAhead
  <1>9. CASE ~Wrapped
    BY <1>1, <1>2, <1>7, <1>9, NextFitChoice DEF ScanLo, ScanHi
  <1> QED
    BY <1>8, <1>9, <1>1

\* FIRST FIT takes the hole before the block it has met.
LEMMA FirstFitChooses ==
    ASSUME IInv, PlacementInv, FirstFitBlock, pc' # "scan"
    PROVE  pc' = "commit" /\ generalAddress' = PlaceFor(branch, LiveBlocks, req, N, generalAddress)
  <1>1. /\ pc = "scan" /\ branch = "FIRSTFIT" /\ i < N /\ tracker[i] # 0
        /\ currentSize >= req /\ generalAddress' = j /\ pc' = "commit"
    BY DEF FirstFitBlock
  <1>2. ScanLo = 0 /\ ScanHi = N /\ i \in Cells /\ flag = 1 /\ Pos = j /\ found = 0
    BY <1>1, WholeHeap, ScanFacts DEF Cells, Pos, IInv, ScanInv
  <1>3. IsHole(0, N, Pos, i) /\ i - Pos >= req /\ NoneBelow(0, N, Pos)
    BY <1>1, <1>2, HoleBeforeBlock, ScanFacts DEF PlacementInv
  <1>4. Lowest(FitsIn(0, N)) = Pos
    BY <1>1, <1>2, <1>3, LowestFit, ScanFacts DEF IInv
  <1> QED
    BY <1>1, <1>2, <1>4 DEF PlaceFor, FirstFitPlace, FitsIn

\* The holes that a block follows.
Inner == {h \in FitsIn(0, N) : h + HolesIn(LiveBlocks, 0, N)[h] < N}

\* What BEST FIT and WORST FIT choose among them.
LEMMA BestWorstChoice ==
    ASSUME branch \in {"BESTFIT", "WORSTFIT"}
    PROVE  PlaceFor(branch, LiveBlocks, req, N, generalAddress) =
             IF Inner = {} THEN Lowest(FitsIn(0, N))
             ELSE Min({h \in Inner : \A g \in Inner :
                        IF branch = "BESTFIT"
                        THEN ~(HolesIn(LiveBlocks, 0, N)[g] < HolesIn(LiveBlocks, 0, N)[h])
                        ELSE ~(HolesIn(LiveBlocks, 0, N)[g] > HolesIn(LiveBlocks, 0, N)[h])})
  <1>1. CASE branch = "BESTFIT"
    BY <1>1 DEF PlaceFor, BestFitPlace, AmongInner, FitsIn, Inner
  <1>2. CASE branch = "WORSTFIT"
    BY <1>2 DEF PlaceFor, WorstFitPlace, AmongInner, FitsIn, Inner
  <1> QED
    BY <1>1, <1>2

\* BEST FIT and WORST FIT have found the first of the best of them.
LEMMA BestWorstChooses ==
    ASSUME IInv, PlacementInv, pc = "scan", branch \in {"BESTFIT", "WORSTFIT"},
           i = N, found = 1
    PROVE  generalAddress = PlaceFor(branch, LiveBlocks, req, N, generalAddress)
  <1> DEFINE z(h) == HolesIn(LiveBlocks, 0, N)[h]
             Best == {h \in Inner : \A g \in Inner :
                        IF branch = "BESTFIT" THEN ~(z(g) < z(h)) ELSE ~(z(g) > z(h))}
  <1>1. ScanLo = 0 /\ ScanHi = N /\ Types /\ Disjoint /\ Window(0, N)
    BY WholeHeap, ScanFacts DEF IInv
  <1>2. BestBelow(Pos) /\ viable \in 0 .. N
    BY DEF PlacementInv, IInv, Types
  <1>3. \A h, e \in 0 .. N : IsHole(0, N, h, e) /\ e < N => h < Pos
    BY <1>1, HoleAtEnd, ScanFacts
  <1>4. generalAddress \in Inner /\ z(generalAddress) = viable
    <2>1. generalAddress + viable \in 0 .. N /\ (generalAddress + viable) - generalAddress = viable
      BY <1>2, ScanFacts DEF BestBelow
    <2>2. generalAddress \in FitsIn(0, N) /\ z(generalAddress) = viable
      BY <1>1, <1>2, <2>1, FitsInIs, ScanFacts DEF BestBelow
    <2> QED
      BY <1>2, <2>2 DEF BestBelow, Inner
  <1>5. ASSUME NEW h \in Inner
        PROVE  /\ h \in 0 .. N /\ z(h) \in 0 .. N
               /\ IF branch = "BESTFIT" THEN viable <= z(h) ELSE viable >= z(h)
               /\ viable = z(h) => generalAddress <= h
    <2>1. PICK e \in 0 .. N : /\ h \in 0 .. N /\ IsHole(0, N, h, e) /\ e - h >= req
                             /\ z(h) = e - h
      BY <1>1, FitsInIs DEF Inner
    <2>2. e < N
      BY <2>1 DEF Inner
    <2>3. h < e
      BY <2>1 DEF IsHole
    <2> QED
      BY <1>2, <1>3, <2>1, <2>2, <2>3, ScanFacts DEF BestBelow
  <1> HIDE DEF z
  <1>6. generalAddress \in Best
    BY <1>2, <1>4, <1>5
  <1>7. ASSUME NEW h \in Best PROVE generalAddress <= h /\ h \in Int
    BY <1>2, <1>4, <1>5
  <1>8. Min(Best) = generalAddress
    <2> HIDE DEF Best
    <2> QED
      BY <1>6, <1>7, MinIs
  <1> QED
    BY <1>4, <1>8, BestWorstChoice DEF z

\* The search is over: what it chose is what the strategy promises, and where it
\* chose nothing the strategy promises nothing, or NEXT FIT started inside a hole.
LEMMA EndChooses ==
    ASSUME IInv, PlacementInv, EndOfScan
    PROVE  /\ pc' = "commit" => generalAddress' = PlaceFor(branch, LiveBlocks, req, N, generalAddress)
           /\ pc' = "fail" =>
                \/ PlaceFor(branch, LiveBlocks, req, N, generalAddress) = NoPlace
                \/ branch = "NEXTFIT" /\ InsideHole(LiveBlocks, N, generalAddress)
  <1>1. pc = "scan" /\ ScanOver /\ Types /\ Disjoint
    BY DEF EndOfScan, IInv
  <1>2. i = ScanHi
    BY <1>1, NextFitPhase, ScanFacts DEF ScanOver, ScanHi, Wrapped
  <1>3. CASE found = 1
    <2>1. branch \in {"BESTFIT", "WORSTFIT"}
      BY <1>1, <1>3 DEF IInv, ScanInv, Types
    <2>2. generalAddress' = generalAddress /\ pc' = "commit" /\ i = N
      BY <1>2, <1>3, <2>1, WholeHeap DEF EndOfScan
    <2> QED
      BY <1>1, <1>3, <2>1, <2>2, BestWorstChooses
  <1>4. CASE found = 0
    <2>1. NoneBelow(ScanLo, ScanHi, Pos)
      BY <1>1, <1>4 DEF PlacementInv
    <2>2. /\ Pos < i => IsHole(ScanLo, ScanHi, Pos, i)
          /\ \A h, e \in 0 .. N :
                IsHole(ScanLo, ScanHi, h, e) => h < Pos \/ (h = Pos /\ e = i)
      BY <1>1, <1>2, HoleAtEnd, ScanFacts
    <2>3. branch \in {"BESTFIT", "WORSTFIT"} => Inner = {}
      <3> SUFFICES ASSUME branch \in {"BESTFIT", "WORSTFIT"}, NEW h \in Inner PROVE FALSE
        OBVIOUS
      <3>1. ScanLo = 0 /\ ScanHi = N
        BY WholeHeap
      <3>2. PICK e \in 0 .. N : /\ h \in 0 .. N /\ IsHole(0, N, h, e) /\ e - h >= req
                               /\ HolesIn(LiveBlocks, 0, N)[h] = e - h
        BY <1>1, <3>1, FitsInIs, ScanFacts DEF Inner
      <3>3. e < N
        BY <3>2 DEF Inner
      <3> QED
        BY <1>1, <1>2, <2>1, <2>2, <3>1, <3>2, <3>3, ScanFacts DEF NoneBelow
    <2>4. branch # "NEXTFIT" => PlaceFor(branch, LiveBlocks, req, N, generalAddress) = Lowest(FitsIn(ScanLo, ScanHi))
      <3> SUFFICES ASSUME branch # "NEXTFIT"
                   PROVE  PlaceFor(branch, LiveBlocks, req, N, generalAddress) = Lowest(FitsIn(0, N))
        BY WholeHeap
      <3>1. branch \in {"FIRSTFIT", "BESTFIT", "WORSTFIT"}
        BY <1>1 DEF IInv, ScanInv, Types
      <3>2. CASE branch = "FIRSTFIT"
        BY <3>2 DEF PlaceFor, FirstFitPlace, FitsIn
      <3> QED
        BY <2>3, <3>1, <3>2, BestWorstChoice
    <2>5. CASE currentSize >= req
      <3>1. branch # "NEXTFIT" /\ generalAddress' = j /\ Pos = j /\ pc' = "commit"
        BY <1>1, <1>4, <2>5, NextFitPhase, ScanFacts DEF EndOfScan, Pos
      <3>2. IsHole(ScanLo, ScanHi, Pos, i) /\ i - Pos >= req
        BY <1>1, <2>2, <2>5, ScanFacts
      <3>3. Lowest(FitsIn(ScanLo, ScanHi)) = Pos
        BY <1>1, <2>1, <3>2, LowestFit, ScanFacts
      <3> QED
        BY <2>4, <3>1, <3>3
    <2>6. CASE currentSize < req
      <3>1. pc' = "fail"
        BY <1>1, <1>4, <2>6, ScanFacts DEF EndOfScan
      <3>2. \A h, e \in 0 .. N : IsHole(ScanLo, ScanHi, h, e) => e - h < req
        BY <1>1, <2>1, <2>2, <2>6, ScanFacts DEF NoneBelow
      <3>3. Lowest(FitsIn(ScanLo, ScanHi)) = NoPlace
        BY <1>1, <3>2, NoFit, ScanFacts
      <3>4. CASE branch = "NEXTFIT"
        <4>1. Wrapped
          BY <1>1, <3>4, NextFitPhase, ScanFacts DEF ScanOver
        <4>2. ScanLo = 0 /\ ScanHi = generalAddress /\ ~Inside(generalAddress)
          BY <4>1 DEF ScanLo, ScanHi, IInv, OnBoundaries
        <4>3. FitsIn(generalAddress, N) = {}
          BY <1>1, <4>1, NothingAhead
        <4>4. Lowest(FitsIn(0, N)) = NoPlace \/ InsideHole(LiveBlocks, N, generalAddress)
          BY <1>1, <3>2, <4>2, <4>3, NoneOfHeap, ScanFacts
        <4> QED
          BY <3>1, <3>4, <4>3, <4>4, NextFitChoice
      <3> QED
        BY <2>4, <3>1, <3>3, <3>4
    <2> QED
      BY <1>1, <2>5, <2>6, ScanFacts
  <1> QED
    BY <1>1, <1>3, <1>4, ScanFacts

\* Every strategy, in an intact heap of any size and with any blocks in it,
\* chooses what Placement says, and returns NULL only when that is nothing or
\* NEXT FIT started inside a hole.
THEOREM ChoiceCorrect == UHeapSpec => ChoiceIsPlacement
  <1> DEFINE Choice == intact /\ pc = "scan" /\ pc' # "scan" =>
                LET place == PlaceFor(branch, LiveBlocks, req, N, generalAddress)
                IN  /\ pc' = "commit" => generalAddress' = place
                    /\ pc' = "fail" =>
                          \/ place = NoPlace
                          \/ branch = "NEXTFIT" /\ InsideHole(LiveBlocks, N, generalAddress)
  <1>1. (intact => IInv) /\ (intact => PlacementInv) /\ [UHeapNext]_uheapVars => [Choice]_uheapVars
    <2> SUFFICES ASSUME IInv, PlacementInv, UHeapNext, pc = "scan", pc' # "scan"
                 PROVE  /\ pc' = "commit" => generalAddress' = PlaceFor(branch, LiveBlocks, req, N, generalAddress)
                        /\ pc' = "fail" =>
                              \/ PlaceFor(branch, LiveBlocks, req, N, generalAddress) = NoPlace
                              \/ branch = "NEXTFIT" /\ InsideHole(LiveBlocks, N, generalAddress)
      OBVIOUS
    <2>1. NextFitFreeCell \/ NextFitBlock \/ FirstFitBlock \/ EndOfScan
      BY DEF UHeapNext, Search, Malloc, Free, SetStrategy, AskYes, AskNo, FallThrough, FreeCell,
         BestWorstFitBlock, Commit, ReturnNull
    <2>2. ~NextFitBlock
      BY NextFitPhase, ScanFacts DEF NextFitBlock
    <2> QED
      BY <2>1, <2>2, NextFitChooses, FirstFitChooses, EndChooses
  <1> QED
    BY <1>1, Inductive, Places, PTL DEF UHeapSpec, ChoiceIsPlacement
=============================================================================
