----------------------------- MODULE Placement ------------------------------
(***************************************************************************)
(* What the four placement strategies of malloc (lib/uheap.c) choose, said *)
(* in terms of holes instead of a loop over UHeap_Tracker.  UHeap checks   *)
(* that its loops choose the same; SelfTests uses these definitions, since *)
(* its heap of 131072 pages is too large to be walked page by page.        *)
(*                                                                         *)
(* A heap is a function from the first page of a block to its size.        *)
(***************************************************************************)
EXTENDS Integers, FiniteSetsExt

NoPlace == -1

\* The holes between lo and hi: a function from first page to size.  Neither
\* bound lies inside a block.
HolesIn(heap, lo, hi) ==
    LET within == {b \in DOMAIN heap : lo <= b /\ b < hi}
        stops  == within \cup {hi}
        starts == {lo} \cup {b + heap[b] : b \in within}
    IN  [h \in starts \ stops |-> Min({s \in stops : s > h}) - h]

FitIn(holes, n) == {h \in DOMAIN holes : holes[h] >= n}

Lowest(s) == IF s = {} THEN NoPlace ELSE Min(s)

\* FIRST FIT: the lowest hole that is large enough.
FirstFitPlace(heap, n, total) == Lowest(FitIn(HolesIn(heap, 0, total), n))

\* BEST FIT and WORST FIT compare only the holes that a block follows, and
\* take the first of equals; without one they take the hole at the end.
AmongInner(heap, n, total, better(_, _)) ==
    LET holes == HolesIn(heap, 0, total)
        fit   == FitIn(holes, n)
        inner == {h \in fit : h + holes[h] < total}
    IN  IF inner = {} THEN Lowest(fit)
        ELSE Min({h \in inner : \A g \in inner : ~better(holes[g], holes[h])})

BestFitPlace(heap, n, total)  == AmongInner(heap, n, total, LAMBDA x, y : x < y)
WorstFitPlace(heap, n, total) == AmongInner(heap, n, total, LAMBDA x, y : x > y)

\* Mutant: the search starts over at the bottom each time.
NextFitPlace_FromBottom(heap, n, total, from) == FirstFitPlace(heap, n, total)

\* NEXT FIT: the first hole that is large enough from the last allocation to
\* the end of the heap, else the lowest one of the heap.
NextFitPlace(heap, n, total, from) ==
    LET ahead == FitIn(HolesIn(heap, from, total), n)
    IN  IF ahead # {} THEN Lowest(ahead) ELSE FirstFitPlace(heap, n, total)

\* The page from is in the middle of a hole.
InsideHole(heap, total, from) ==
    LET holes == HolesIn(heap, 0, total)
    IN  \E h \in DOMAIN holes : h < from /\ from < h + holes[h]

\* malloc's search under the strategy st, starting at from under NEXT FIT.
PlaceFor(st, heap, n, total, from) ==
    CASE st = "NEXTFIT"  -> NextFitPlace(heap, n, total, from)
      [] st = "FIRSTFIT" -> FirstFitPlace(heap, n, total)
      [] st = "BESTFIT"  -> BestFitPlace(heap, n, total)
      [] st = "WORSTFIT" -> WorstFitPlace(heap, n, total)
=============================================================================
