------------------------------- MODULE UHeap --------------------------------
(***************************************************************************)
(* The user heap of lib/uheap.c: malloc with its four placement strategies *)
(* and free.  The heap is N pages; a cell of UHeap_Tracker holds the size  *)
(* of the block that starts there and 0 everywhere else, so the searches   *)
(* must only ever land on the first cell of a block or on a free cell.     *)
(* One step is one iteration of a search loop, or one system call.  The    *)
(* heap is private to its process; the strategy is not: it is a variable   *)
(* of the kernel that every program can set, and malloc asks for it in up  *)
(* to four system calls, between which other processes run.                *)
(*                                                                         *)
(* Sizes are in pages and at least one page: malloc(0), which reads j      *)
(* before it is set, and free(NULL) are outside the model.                 *)
(***************************************************************************)
EXTENDS Integers

CONSTANTS
    N,          \* (USER_HEAP_MAX - USER_HEAP_START) / PAGE_SIZE
    MaxRequest, \* the largest size a program asks for
    Word,       \* 2^32: the counter k of NEXT FIT is a uint32
    Strategies  \* the values _UHeapPlacementStrategy takes

ASSUME RequestAssumption == N \in Nat \ {0} /\ MaxRequest \in Nat

ASSUME WordAssumption == Word \in Nat /\ Word > N

\* "unknown" stands for every number that is no strategy: the system call does
\* not look at its argument.
ASSUME StrategyAssumption ==
    Strategies \subseteq {"NEXTFIT", "FIRSTFIT", "BESTFIT", "WORSTFIT", "unknown"}

Cells == 0 .. N - 1
Null  == -1

VARIABLES
    strategy,       \* the kernel's _UHeapPlacementStrategy
    tracker,        \* UHeap_Tracker
    va,             \* sizeOfVAs[].virtualAddress
    size,           \* sizeOfVAs[].size
    generalAddress,
    inPF,           \* the heap pages allocateMem has put in the page file
    pc,             \* "idle", "ask", "scan", "commit", "fail"
    req,            \* malloc's argument
    branch,         \* the strategy malloc asks about, then the one it follows
    i, j, k, currentSize, flag, found, viable,  \* locals of malloc
    intact          \* history: FALSE once malloc has gone on, without a search,
                    \* to a place where the block does not fit

heapVars  == <<tracker, va, size, inPF>>
localVars == <<i, j, k, currentSize, flag, found, viable>>
uheapVars == <<strategy, branch, intact, heapVars, generalAddress, pc, req, localVars>>

UHeapInit ==
    /\ strategy \in Strategies
    /\ tracker = [c \in Cells |-> 0]
    /\ va = [c \in Cells |-> Null]
    /\ size = [c \in Cells |-> 0]
    /\ generalAddress = 0
    /\ inPF = {}
    /\ pc = "idle" /\ req = 0 /\ branch = "none" /\ intact = TRUE
    /\ i = 0 /\ j = 0 /\ k = 0 /\ currentSize = 0
    /\ flag = 0 /\ found = 0 /\ viable = 0

PagesAt(a, n) == a .. a + n - 1
Live == {c \in Cells : va[c] # Null}
Covered(c) == \E b \in Live : b <= c /\ c < b + size[b]
Fits(a, n) == a + n <= N /\ \A c \in PagesAt(a, n) : ~Covered(c)

\* sys_set_uheap_strategy, by any process and at any time.
SetStrategy(s) ==
    /\ strategy' = s
    /\ UNCHANGED <<branch, intact, heapVars, generalAddress, pc, req, localVars>>

\* malloc is called, and will ask for NEXT FIT first.
Malloc(s) ==
    /\ pc = "idle"
    /\ pc' = "ask" /\ req' = s /\ branch' = "NEXTFIT"
    /\ UNCHANGED <<strategy, intact, heapVars, generalAddress, localVars>>

\* The system call says yes: NEXT FIT starts at the last allocation and visits N
\* cells, the others start over at the bottom.
AskYes ==
    /\ pc = "ask" /\ strategy = branch
    /\ pc' = "scan"
    /\ \/ /\ branch = "NEXTFIT"
          /\ i' = generalAddress /\ k' = N
          /\ UNCHANGED generalAddress
       \/ /\ branch # "NEXTFIT"
          /\ i' = 0 /\ k' = 0
          /\ generalAddress' = 0
    /\ viable' = IF branch = "BESTFIT" THEN N ELSE 0
    /\ j' = 0 /\ currentSize' = 0 /\ flag' = 0 /\ found' = 0
    /\ UNCHANGED <<strategy, branch, intact, heapVars, req>>

\* It says no: the next else-if.
NextQuestion ==
    [NEXTFIT |-> "FIRSTFIT", FIRSTFIT |-> "BESTFIT", BESTFIT |-> "WORSTFIT"]

AskNo ==
    /\ pc = "ask" /\ strategy # branch /\ branch # "WORSTFIT"
    /\ branch' = NextQuestion[branch]
    /\ UNCHANGED <<strategy, intact, heapVars, generalAddress, pc, req, localVars>>

\* The last one says no, too, because the strategy is unknown or was changed
\* between two questions: no search, and on to the allocation, wherever
\* generalAddress points.
FallThrough ==
    /\ pc = "ask" /\ strategy # branch /\ branch = "WORSTFIT"
    /\ pc' = "commit" /\ branch' = "none"
    /\ intact' = (intact /\ Fits(generalAddress, req))
    /\ UNCHANGED <<strategy, heapVars, generalAddress, req, localVars>>

\* Mutant of HoleStart: j is set at every free cell.
HoleStart_Latest == i

\* Where the hole being measured starts once a free cell at i is counted.
HoleStart == IF flag = 1 THEN j ELSE i

\* NEXT FIT, one iteration at a free cell: the hole grows; it is taken as soon
\* as it is large enough, and forgotten at the end of the heap.
NextFitFreeCell ==
    /\ pc = "scan" /\ branch = "NEXTFIT" /\ k # 0 /\ tracker[i] = 0
    /\ j' = HoleStart
    /\ k' = k - 1
    /\ \/ /\ currentSize + 1 >= req
          /\ generalAddress' = HoleStart
          /\ i' = i + 1 /\ currentSize' = currentSize + 1
          /\ flag' = 1 /\ found' = 1
          /\ pc' = "commit"
       \/ /\ currentSize + 1 < req
          /\ IF i + 1 >= N
             THEN i' = 0 /\ currentSize' = 0 /\ flag' = 0
             ELSE i' = i + 1 /\ currentSize' = currentSize + 1 /\ flag' = 1
          /\ UNCHANGED <<generalAddress, found, pc>>
    /\ UNCHANGED <<strategy, branch, intact, heapVars, req, viable>>

\* Mutants of AfterBlock: one cell on, not at all.
AfterBlock_NextCell == i + 1
AfterBlock_Stays == i

\* The cell after the block at i.
AfterBlock == i + tracker[i]

\* NEXT FIT, one iteration at a block: it is skipped, and k, a uint32, counts
\* its cells off.
NextFitBlock ==
    /\ pc = "scan" /\ branch = "NEXTFIT" /\ k # 0 /\ tracker[i] # 0
    /\ IF currentSize >= req
       THEN /\ generalAddress' = j /\ found' = 1 /\ pc' = "commit"
            /\ UNCHANGED <<i, k, flag, currentSize>>
       ELSE /\ k' = (k - tracker[i]) % Word
            /\ i' = IF AfterBlock >= N THEN 0 ELSE AfterBlock
            /\ flag' = 0 /\ currentSize' = 0
            /\ UNCHANGED <<generalAddress, found, pc>>
    /\ UNCHANGED <<strategy, branch, intact, heapVars, req, j, viable>>

\* The three other searches at a free cell.
FreeCell ==
    /\ pc = "scan" /\ branch # "NEXTFIT" /\ i < N /\ tracker[i] = 0
    /\ j' = HoleStart
    /\ flag' = 1
    /\ currentSize' = currentSize + 1
    /\ i' = i + 1
    /\ UNCHANGED <<strategy, branch, intact, heapVars, generalAddress, pc, req, k, found, viable>>

\* FIRST FIT stops at the first hole that fits.
FirstFitBlock ==
    /\ pc = "scan" /\ branch = "FIRSTFIT" /\ i < N /\ tracker[i] # 0
    /\ \/ /\ currentSize >= req
          /\ generalAddress' = j /\ found' = 1 /\ pc' = "commit"
          /\ UNCHANGED <<i, flag, currentSize>>
       \/ /\ currentSize < req
          /\ i' = AfterBlock
          /\ flag' = 0 /\ currentSize' = 0
          /\ UNCHANGED <<generalAddress, found, pc>>
    /\ UNCHANGED <<strategy, branch, intact, heapVars, req, j, k, viable>>

\* Mutants of Better: a strict size test; the two comparisons swapped.
Better_Strict ==
    /\ currentSize > req
    /\ IF branch = "BESTFIT" THEN viable > currentSize ELSE viable < currentSize

Better_Swapped ==
    /\ currentSize >= req
    /\ IF branch = "BESTFIT" THEN viable < currentSize ELSE viable > currentSize

\* BEST FIT keeps the smallest hole that fits, WORST FIT the largest.
Better ==
    /\ currentSize >= req
    /\ IF branch = "BESTFIT" THEN viable > currentSize ELSE viable < currentSize

BestWorstFitBlock ==
    /\ pc = "scan" /\ branch \in {"BESTFIT", "WORSTFIT"} /\ i < N /\ tracker[i] # 0
    /\ IF Better
       THEN generalAddress' = j /\ viable' = currentSize /\ found' = 1
       ELSE UNCHANGED <<generalAddress, viable, found>>
    /\ i' = AfterBlock
    /\ flag' = 0 /\ currentSize' = 0
    /\ UNCHANGED <<strategy, branch, intact, heapVars, pc, req, j, k>>

\* After the loop: the hole at the end of the heap counts only when nothing
\* else was found.
ScanOver == IF branch = "NEXTFIT" THEN k = 0 ELSE i >= N

EndOfScan ==
    /\ pc = "scan" /\ ScanOver
    /\ \/ /\ found = 0 /\ currentSize >= req
          /\ generalAddress' = j
          /\ pc' = "commit"
       \/ /\ found = 0 /\ currentSize < req
          /\ pc' = "fail"
          /\ UNCHANGED generalAddress
       \/ /\ found = 1
          /\ pc' = "commit"
          /\ UNCHANGED generalAddress
    /\ UNCHANGED <<strategy, branch, intact, heapVars, req, localVars>>

\* The locals are gone when malloc returns.
Return ==
    /\ pc' = "idle" /\ req' = 0 /\ branch' = "none"
    /\ i' = 0 /\ j' = 0 /\ k' = 0 /\ currentSize' = 0
    /\ flag' = 0 /\ found' = 0 /\ viable' = 0

\* sys_allocateMem and the two tables; NEXT FIT starts over at the bottom after
\* a block that reaches the end.
Commit ==
    /\ pc = "commit"
    /\ tracker' = [tracker EXCEPT ![generalAddress] = req]
    /\ inPF' = inPF \cup PagesAt(generalAddress, req)
    /\ size' = [size EXCEPT ![generalAddress] = req]
    /\ va' = [va EXCEPT ![generalAddress] = generalAddress]
    /\ generalAddress' = IF generalAddress + req >= N THEN 0 ELSE generalAddress
    /\ Return
    /\ UNCHANGED <<strategy, intact>>

ReturnNull ==
    /\ pc = "fail"
    /\ Return
    /\ UNCHANGED <<strategy, intact, heapVars, generalAddress>>

\* Mutant of Free: the size is cleared before sys_freeMem is told of it.
Free_SizeLost(a) ==
    /\ pc = "idle"
    /\ \E c \in Cells :
          /\ va[c] = a /\ \A d \in 0 .. c - 1 : va[d] # a
          /\ tracker' = [tracker EXCEPT ![va[c]] = 0]
          /\ va' = [va EXCEPT ![c] = Null]
          /\ size' = [size EXCEPT ![c] = 0]
    /\ UNCHANGED <<inPF, strategy, branch, intact, generalAddress, pc, req, localVars>>

\* free: the first entry with this address; an unknown address is ignored.
Free(a) ==
    /\ pc = "idle"
    /\ \E c \in Cells :
          /\ va[c] = a /\ \A d \in 0 .. c - 1 : va[d] # a
          /\ tracker' = [tracker EXCEPT ![va[c]] = 0]
          /\ inPF' = inPF \ PagesAt(a, size[c])
          /\ va' = [va EXCEPT ![c] = Null]
          /\ size' = [size EXCEPT ![c] = 0]
    /\ UNCHANGED <<strategy, branch, intact, generalAddress, pc, req, localVars>>

\* malloc, from its first question on.
Search ==
    \/ AskYes \/ AskNo \/ FallThrough
    \/ NextFitFreeCell \/ NextFitBlock
    \/ FreeCell \/ FirstFitBlock \/ BestWorstFitBlock
    \/ EndOfScan \/ Commit \/ ReturnNull

UHeapNext ==
    \/ \E s \in 1 .. MaxRequest : Malloc(s)
    \/ \E a \in Cells : Free(a)
    \/ \E s \in Strategies : SetStrategy(s)
    \/ Search

\* A call of malloc, once begun, keeps running.
UHeapSpec == UHeapInit /\ [][UHeapNext]_uheapVars /\ WF_uheapVars(Search)

-----------------------------------------------------------------------------
\* The ranges of the variables, as long as no block lies over another.
Types ==
    /\ tracker \in [Cells -> 0 .. N]
    /\ va \in [Cells -> Cells \cup {Null}]
    /\ size \in [Cells -> 0 .. N]
    /\ generalAddress \in Cells
    /\ inPF \in SUBSET Cells
    /\ pc \in {"idle", "ask", "scan", "commit", "fail"}
    /\ req \in 0 .. MaxRequest
    /\ branch \in {"NEXTFIT", "FIRSTFIT", "BESTFIT", "WORSTFIT", "none"}
    /\ i \in 0 .. N /\ j \in Cells /\ k \in 0 .. N
    /\ currentSize \in 0 .. N /\ viable \in 0 .. N
    /\ flag \in {0, 1} /\ found \in {0, 1}

\* Every variable keeps its type; in particular k never wraps around.
UHeapTypeOK == strategy \in Strategies /\ intact \in BOOLEAN /\ (intact => Types)

Disjoint ==
    /\ \A c \in Cells : /\ tracker[c] = size[c]
                        /\ va[c] = IF size[c] = 0 THEN Null ELSE c
    /\ \A c \in Live :
          /\ c + size[c] <= N
          /\ \A d \in Live : c < d => c + size[c] <= d

\* The blocks handed out and not freed lie inside the heap and do not overlap,
\* and UHeap_Tracker and sizeOfVAs describe the same blocks, whatever strategies
\* are set and when, until a malloc that found no strategy allocates where its
\* block does not fit: there is no other way.
BlocksDisjoint == intact => Disjoint

PageFileExact == inPF = UNION {PagesAt(c, size[c]) : c \in Live}

\* Until then the kernel and the library agree: the page file holds exactly the
\* pages of the live blocks.
PageFileMatchesBlocks == intact => PageFileExact

Inside(c) == \E b \in Live : b < c /\ c < b + size[b]
OnBoundaries == ~Inside(generalAddress) /\ ~Inside(i)

\* Until then a search and the start of the next one, under whatever strategy,
\* never stand inside a block, where the tracker reads 0 and would look free.
NeverInsideABlock == intact => OnBoundaries

\* NEXT FIT's countdown is exact: k cells ahead of i lies the cell the search
\* started from, so k reaches 0 and the search looks at every cell once.
NextFitCountsDown ==
    pc = "scan" /\ branch = "NEXTFIT" =>
        \/ i >= generalAddress /\ i + k = generalAddress + N
        \/ i <= generalAddress /\ i + k = generalAddress

\* What malloc is about to hand out is free.
ChoiceIsFree == pc = "commit" => Fits(generalAddress, req)

FullWhenNull == pc = "fail" /\ branch # "NEXTFIT" => \A a \in Cells : ~Fits(a, req)

\* malloc returns NULL only when no hole is large enough ("return NULL if
\* there's no suitable space"), for every strategy but NEXT FIT, whose case is
\* NullMeansNoSpace.
NullOnlyWhenFull == intact => FullWhenNull

\* lib/uheap.c:10-11, "return NULL if there's no suitable space for the required
\* allocation", for every strategy.
NullMeansNoSpace == pc = "fail" => \A a \in Cells : ~Fits(a, req)

\* FIRST FIT hands out the lowest address that fits.
FirstFitIsLowest ==
    pc = "commit" /\ branch = "FIRSTFIT" =>
        \A a \in 0 .. generalAddress - 1 : ~Fits(a, req)

\* A call of malloc ends: with k counting down by block sizes this is not
\* obvious, since k != 0 is the loop's only bound.  (Not so when blocks
\* overlap: k may then jump over 0.)
MallocReturns == pc # "idle" /\ intact ~> pc = "idle" \/ ~intact
=============================================================================
