------------------------- MODULE ReplacementTests ---------------------------
(***************************************************************************)
(* The authors' tests of page replacement, user/tst_page_replacement_*.c,  *)
(* run on the actions of Paging: the accesses a test makes, page by page,  *)
(* and what it expects of the working set, of memory and of the page file. *)
(*                                                                         *)
(* The page an access touches depends on the layout of the program: the    *)
(* test's code in page 0x800, ptr, ptr2 and the start of arr in page       *)
(* 0x803, the stack in page 0xeebfd.  The library code a test calls is     *)
(* taken to be in pages that are in the working set.                       *)
(***************************************************************************)
EXTENDS Paging, SequencesExt

CONSTANTS
    TheEnv,         \* the environment that runs the test
    MaxTicks        \* clock interrupts during a test, at most

ASSUME TestAssumption ==
    MaxTicks \in Nat /\
    TheEnv \in Envs /\ NProg = 22 /\ NHeap = 22 /\ NStack = 11 /\ PagesPerTable = 22 /\ WSMax = 9

VARIABLES
    test,       \* the program
    at,         \* its next step
    mark,       \* freePages and usedDiskPages
    ticks       \* clock interrupts so far
testVars == <<test, at, mark, ticks>>

Stab(k)  == k                   \* 0x200000 and up: six pages
Data(k)  == 6 + k               \* 0x800000 and up
TempArr  == NProg               \* 0x80000000, in a table of its own
StackTop == NPages - 1          \* 0xeebfd000
StackLow == StackTop - 10       \* where an array of ten pages on the stack starts

ReadOf(p)  == [op |-> "read", page |-> p]
WriteOf(p) == [op |-> "write", page |-> p]
Mark       == [op |-> "mark"]
Alloc      == [op |-> "alloc"]
Free       == [op |-> "free"]
\* A check of the working set, entry by entry, and of its pointer.
CheckWS(entries, index) == [op |-> "check", ws |-> entries, last |-> index]
\* The same where the test leaves a choice.
CheckFinal(entries, indices) == [op |-> "final", ws |-> entries, last |-> indices]
\* A check that frames were only exchanged, that the page file grew by n pages,
\* and that these pages hold what was written to them.
CheckMemory(n, pages) == [op |-> "compare", n |-> n, pages |-> pages]

-----------------------------------------------------------------------------
\* Instructions that make these accesses; each is fetched first.
Code == Data(0)
Run(accesses) == FlattenSeq([j \in DOMAIN accesses |-> <<ReadOf(Code), accesses[j]>>])

\* One turn of the loop over arr: arr[i] = -1, *ptr = *ptr2, ptr++, ptr2++.
Turn(k) ==
    Run(<<ReadOf(StackTop), WriteOf(Data(3 + (k \div 2))), ReadOf(Data(3)), ReadOf(Data(4)),
          WriteOf(Data(1)), WriteOf(Data(3)), WriteOf(StackTop)>>)
\* The loop ends with its condition, which reads i.
Turns(from, to) ==
    FlattenSeq([j \in 1 .. to - from |-> Turn(from + j - 1)]) \o Run(<<ReadOf(StackTop)>>)
\* The last two pages of arr are read, not written.
Garbage == Run(<<ReadOf(Data(14)), ReadOf(Data(15))>>)
\* The loop of FIFO_2 over tempArr.
FillTemp == Run(FlattenSeq([k \in 1 .. 4 |-> <<WriteOf(StackTop), WriteOf(TempArr + k - 1)>>]))
\* The loops of the stack test: the first call touches the low end of arr.
StackTurns(op) ==
    Run(FlattenSeq([j \in 1 .. 20 |->
        <<WriteOf(StackTop), [op |-> op, page |-> StackLow + (j \div 2)]>>]))

FIFO_1 ==
    Garbage \o Turns(0, 20) \o
    <<CheckWS(<<Data(1), StackTop, Data(9), Data(3), Data(4), Data(10), Data(11), Data(12), Data(0)>>, 2)>>
\* The working set is checked again after tempArr was freed: the test allows for
\* two ways to treat the entries that become empty.
FIFO_2 ==
    Garbage \o Turns(0, 10) \o
    <<CheckWS(<<StackTop, Data(15), Data(3), Data(4), Data(5), Data(6), Data(7), Data(0), Data(1)>>, 1), Alloc>>
    \o FillTemp \o <<Free>> \o Turns(10, 20) \o
    <<CheckFinal(<<{Data(10)}, {StackTop, Data(1)}, {Data(11), Data(3)}, {Data(12), Data(4)},
                   {Data(0), Data(9)}, {Data(1), StackTop}, {Data(3), Data(11)}, {Data(4), Data(12)},
                   {Data(9), Data(0)}>>, {6, 2})>>
Clock ==
    Garbage \o Turns(0, 20) \o
    <<CheckWS(<<StackTop, Data(12), Data(3), Data(4), Data(9), Data(10), Data(11), Data(0), Data(1)>>, 2)>>
Lru ==
    Garbage \o Turns(0, 20) \o
    <<CheckWS(<<Data(11), Data(12), Data(3), Data(4), Data(9), Data(10), Data(0), Data(1), StackTop>>, 2)>>
Allocations == <<Mark>> \o Garbage \o Turns(0, 20) \o <<CheckMemory(0, {})>>
StackPages ==
    <<WriteOf(StackLow), Mark>> \o StackTurns("write") \o StackTurns("read")
    \o <<CheckMemory(9, StackLow .. StackTop)>>

Scripts == [FIFO_1 |-> FIFO_1, FIFO_2 |-> FIFO_2, clock |-> Clock, lru |-> Lru,
            alloc |-> Allocations, stack |-> StackPages]
AlgorithmsOf(t) ==
    CASE t \in {"FIFO_1", "FIFO_2"} -> {"FIFO"} [] t = "clock" -> {"CLOCK"} [] t = "lru" -> {"LRU"}
      [] OTHER -> Algorithms

-----------------------------------------------------------------------------
\* STEP 0 of the tests: the state the loader leaves, a full working set.
LoadedWS ==
    [i \in Idx |-> IF i < 6 THEN Stab(i) ELSE IF i < 8 THEN Data(i - 6) ELSE StackTop]
Loaded == {LoadedWS[i] : i \in Idx}
TestInit ==
    /\ test \in DOMAIN Scripts /\ at = 1 /\ mark = [free |-> 0, disk |-> 0] /\ ticks = 0
    /\ algo \in AlgorithmsOf(test)
    /\ status = [e \in Envs |-> IF e = TheEnv THEN "ready" ELSE "free"]
    /\ ws = [e \in Envs |-> LoadedWS]
    /\ stamp = [e \in Envs |-> [i \in Idx |-> IF i = 8 THEN TopBit ELSE 0]]
    /\ last = [e \in Envs |-> 0]
    /\ frameOf = [e \in Envs |-> [p \in Pages |->
                    IF p \in Loaded THEN 1 + CHOOSE i \in Idx : LoadedWS[i] = p ELSE NoFrame]]
    /\ used = [e \in Envs |-> Loaded] /\ modified = [e \in Envs |-> {StackTop}]
    /\ table = [e \in Envs |-> [t \in Tables |-> IF t = 0 THEN 10 ELSE IF t = 2 THEN 11 ELSE NoFrame]]
    /\ refs = [f \in Frames |-> IF f <= 11 THEN 1 ELSE 0]
    /\ free = {f \in Frames : f > 11}
    /\ content = [f \in Frames |-> IF f <= 9 THEN Image ELSE Junk]
    /\ pf = [e \in Envs |-> [p \in Pages |->
                IF p \in Prog THEN p + 1 ELSE IF p = StackTop THEN NProg + 1 ELSE NoDisk]]
    /\ diskFree = {d \in DiskFrames : d > NProg + 1}
    /\ disk = [d \in DiskFrames |-> IF d <= NProg + 1 THEN Image ELSE Junk]
    /\ kpc = "user" /\ kenv = NoEnv /\ kva = 0 /\ kn = 0 /\ kidx = 0

Step == Scripts[test][at]
OnStep(op) == at <= Len(Scripts[test]) /\ Step.op = op
Advance == at' = at + 1 /\ UNCHANGED test

pf_calculate_allocated_pages == Cardinality(OnDisk(TheEnv))

Access ==
    /\ frameOf[TheEnv][Code] # NoFrame
    /\ \/ OnStep("read") /\ MMURead(TheEnv, Step.page)
       \/ OnStep("write") /\ \E v \in Values : MMUWrite(TheEnv, Step.page, v)
    /\ Advance /\ UNCHANGED <<mark, ticks>>
\* An access faults until its page is there, and is made again; its instruction
\* is fetched again, too, and may have been evicted.
Fault ==
    /\ OnStep("read") \/ OnStep("write")
    /\ LET page == IF frameOf[TheEnv][Code] = NoFrame THEN Code ELSE Step.page
       IN  TableFault(TheEnv, page) \/ PageFault(TheEnv, page)
    /\ UNCHANGED testVars
Handler ==
    /\ PlaceFromPageFile \/ PlaceNewStackPage \/ AllocatePage
    /\ UNCHANGED testVars
\* The system calls.
Allocate == OnStep("alloc") /\ AllocateMem(TheEnv, TempArr, 4) /\ Advance /\ UNCHANGED <<mark, ticks>>
Release  == OnStep("free") /\ FreeMem(TheEnv, TempArr, 4) /\ Advance /\ UNCHANGED <<mark, ticks>>
\* sys_calculate_free_frames and sys_pf_calculate_allocated_pages.
Count ==
    /\ OnStep("mark") /\ kpc = "user"
    /\ mark' = [free |-> Cardinality(free), disk |-> pf_calculate_allocated_pages]
    /\ Advance /\ UNCHANGED <<vars, ticks>>
Pass ==
    /\ OnStep("check") \/ OnStep("compare") \/ OnStep("final")
    /\ kpc = "user"
    /\ Advance /\ UNCHANGED <<vars, mark, ticks>>
Tick ==
    /\ ticks < MaxTicks /\ at <= Len(Scripts[test])
    /\ ClockTick(TheEnv)
    /\ ticks' = ticks + 1 /\ UNCHANGED <<test, at, mark>>

TestNext == (Access \/ Fault \/ Handler \/ Allocate \/ Release \/ Count \/ Pass \/ Tick) /\ TakesLeast
\* The processor goes on executing the program.
TestSpec == TestInit /\ [][TestNext]_<<vars, testVars>> /\ WF_<<vars, testVars>>(TestNext)

-----------------------------------------------------------------------------
Checking(op) == OnStep(op) /\ kpc = "user"

\* The working set, entry by entry, and its pointer are what the tests of FIFO,
\* CLOCK and LRU expect, wherever a clock interrupt comes.
WorkingSetAsTested ==
    Checking("check") =>
        /\ \A i \in Idx : ws[TheEnv][i] = Step.ws[i + 1]
        /\ last[TheEnv] = Step.last

\* Under every algorithm replacement takes no frame ("It's REplacement: expected
\* that no extra frames are allocated"); the page file grows by the new pages
\* of the stack and by nothing else; and what was written to stack pages that
\* were evicted since is read back.
MemoryAsTested ==
    Checking("compare") =>
        /\ Cardinality(free) = mark.free
        /\ pf_calculate_allocated_pages - mark.disk = Step.n
        /\ \A p \in Step.pages : View(TheEnv, p) \in Values

\* What the tests demand holds wherever a clock interrupt comes: the working
\* sets of FIFO, CLOCK and LRU, and under every algorithm the frames, the page
\* file and the pages written; all but the last check of FIFO_2, which is
\* FinalCheckAsTested.
ReplacementAsTested == WorkingSetAsTested /\ MemoryAsTested

\* user/tst_page_replacement_FIFO_2.c:84-98, "Checking PAGE FIFO algorithm after
\* Free and replacement": the working set at the end of FIFO_2.
FinalCheckAsTested ==
    Checking("final") =>
        /\ \A i \in Idx : ws[TheEnv][i] \in Step.ws[i + 1]
        /\ last[TheEnv] \in Step.last

\* Every test comes to its end: the handler never evicts what the instruction
\* that faulted needs over and over again.
TestEnds == <>(at > Len(Scripts[test]))
=============================================================================
