------------------------------ MODULE Loader --------------------------------
(***************************************************************************)
(* How env_create (kern/user_environment.c) cuts the segments of a program *)
(* into pages: once into the frames of the working set, and once more,     *)
(* with other code, into the page file.                                    *)
(*                                                                         *)
(* A byte of the program file is named by its offset, counted from 1; 0 is *)
(* the byte 0 and Unset what a fresh frame holds.  Memory and page file    *)
(* map the address of a page to its bytes.  Frames and disk frames do not  *)
(* run out here: Paging has those cases.                                   *)
(***************************************************************************)
EXTENDS Integers, Sequences, FiniteSetsExt

CONSTANTS
    LPage,      \* PAGE_SIZE, in bytes
    LWord,      \* 2^32
    StabsVA,    \* 0x200000, where the debugging symbols are
    StabsLimit, \* 6, the most pages of them that are loaded
    StackVA,    \* USTACKTOP - PAGE_SIZE
    LTable,     \* the bytes a page table maps
    TwsMax      \* __TWS_MAX_SIZE

ASSUME LoaderAssumption ==
    /\ LPage \in Nat \ {0} /\ LWord \in Nat /\ LWord % LPage = 0
    /\ StabsVA % LPage = 0 /\ StackVA % LPage = 0 /\ StackVA + LPage <= LWord /\ StabsLimit \in Nat
    /\ LTable \in Nat \ {0} /\ LTable % LPage = 0 /\ TwsMax \in Nat \ {0}

Unset == -1
Offsets == 0 .. LPage - 1
RoundDown(a) == a - (a % LPage)
\* ROUNDUP is unsigned, and wraps.
RoundUpTo(a) == RoundDown((a + LPage - 1) % LWord)
PagesFrom(a, b) == {p \in a .. b - 1 : p % LPage = a % LPage}

\* write_disk_page: with, over the pages in the page file.
Put(pages, p, bytes) == [q \in DOMAIN pages \cup {p} |-> IF q = p THEN bytes ELSE pages[q]]

-----------------------------------------------------------------------------
\* The segments of a program: headers of other types are passed over.
IsLoad(ph) == ph.load
Segments(phs) == SelectSeq(phs, IsLoad)

\* How many pages of a segment may go to the working set; the program tpp gets
\* all its symbols.
WSPagesLeft(va, remaining, tpp) ==
    IF RoundDown(va) = StabsVA /\ ~tpp THEN Min({remaining, StabsLimit}) ELSE remaining

\* Mutant: the copy goes on to the end of the segment in memory.
ByteAt_NoZeros(seg, a) == IF a < seg.va THEN Unset ELSE seg.offset + a - seg.va + 1
\* The byte at a, of a fresh frame after both copying loops.
ByteAt(seg, a) ==
    IF a < seg.va THEN Unset ELSE IF a < seg.va + seg.filesz THEN seg.offset + a - seg.va + 1 ELSE 0

\* Mutant: the table before is counted again.
NewTables_All(l, pages) == {p \div LTable : p \in pages}
\* The tables that go to the table working set with these pages.
NewTables(l, pages) == {p \div LTable : p \in pages} \ {l.lastTable}

\* The pages that fit, in fresh frames.  It is the end when the index of the table
\* working set comes back to 0.
program_segment_alloc_map_copy_workingset(l, seg) ==
    LET start == RoundDown(seg.va)
        want  == (RoundUpTo(seg.va + seg.memsz) - start) \div LPage
        n     == Min({want, WSPagesLeft(seg.va, l.remaining, l.tpp)})
        pages == PagesFrom(start, start + n * LPage)
        tables == l.tables + Cardinality(NewTables(l, pages))
    IN  IF tables >= TwsMax THEN [l EXCEPT !.panic = TRUE]
        ELSE [l EXCEPT
                  !.tables = tables, !.lastTable = Max({@} \cup {p \div LTable : p \in pages}),
                  !.mem = [p \in DOMAIN l.mem \cup pages |->
                              IF p \in pages THEN [o \in Offsets |-> ByteAt(seg, p + o)] ELSE l.mem[p]],
                  !.ws = @ \o [k \in 1 .. n |-> start + (k - 1) * LPage],
                  !.remaining = @ - n]

-----------------------------------------------------------------------------
\* ptr_temp_page with n bytes of the file, from src, put at an offset.
TempPage(at, n, src) == [o \in Offsets |-> IF o >= at /\ o < at + n THEN src + o - at + 1 ELSE 0]

\* [1] The first page, up to the next page boundary: nothing if there is one
\* at its start.
FirstPage(seg) ==
    LET at == seg.va % LPage IN TempPage(at, RoundUpTo(seg.va) - seg.va, seg.offset)
\* src_ptr behind it.
SrcAfterFirst(seg) == seg.offset + RoundUpTo(seg.va) - seg.va

\* [2] The whole pages from there on, src_ptr going with them.
WholePages(seg) == PagesFrom(RoundUpTo(seg.va), RoundDown(seg.va + seg.filesz))
WholePage(seg, p) == TempPage(0, LPage, SrcAfterFirst(seg) + p - RoundUpTo(seg.va))

\* [3] The last page, from its start: nothing if the file part ends there.
LastPage(seg) ==
    TempPage(0, (seg.va + seg.filesz) % LPage, SrcAfterFirst(seg) + LPage * Cardinality(WholePages(seg)))

\* [4] The pages after the file part.  The difference wraps if the segment ends
\* in its last page, and its rounding wraps back to 0.
\* Mutant: the length is that of the part after the file, page or not.
RemainingLength_Whole(seg) == seg.memsz - seg.filesz
\* remainingLength.
RemainingLength(seg) == (seg.va + seg.memsz - RoundUpTo(seg.va + seg.filesz)) % LWord
RemainingPages(seg) ==
    LET start == RoundUpTo(seg.va + seg.filesz)
    IN  PagesFrom(start, start + RoundUpTo(RemainingLength(seg)))

\* ptr_zero_page: only a quarter of it is cleared, fill is what was in memory.
ZeroPage(fill) == [o \in Offsets |-> IF o < LPage \div 4 THEN 0 ELSE fill]

\* The page file after a segment; zero is ptr_zero_page.
AddToPageFile(pf, seg, zero) ==
    LET first == Put(pf, RoundDown(seg.va), FirstPage(seg))
        whole == [p \in DOMAIN first \cup WholePages(seg) |->
                     IF p \in WholePages(seg) THEN WholePage(seg, p) ELSE first[p]]
        last  == Put(whole, RoundDown(seg.va + seg.filesz), LastPage(seg))
    IN  [p \in DOMAIN last \cup RemainingPages(seg) |-> IF p \in RemainingPages(seg) THEN zero ELSE last[p]]

RECURSIVE LoadAll(_, _, _)
LoadAll(l, segs, zero) ==
    IF segs = <<>> \/ l.panic THEN l
    ELSE LET s == program_segment_alloc_map_copy_workingset(l, Head(segs))
         IN  LoadAll(IF s.panic THEN s ELSE [s EXCEPT !.pf = AddToPageFile(@, Head(segs), zero)],
                     Tail(segs), zero)

\* [9] One page of stack, zeroed in memory and taken from ptr_zero_page on disk.
AddStack(l, zero) ==
    IF l.panic THEN l
    ELSE [l EXCEPT !.mem = Put(@, StackVA, [o \in Offsets |-> 0]), !.ws = Append(@, StackVA),
              !.pf = Put(@, StackVA, zero)]

\* remaining_ws_pages.
WSForProgram(wsSize) == wsSize - 1

\* Loading, for a working set of wsSize entries; a panic leaves it where it is.
LoadProgram(phs, wsSize, zero, tpp) ==
    AddStack(LoadAll([mem |-> <<>>, pf |-> <<>>, ws |-> <<>>, remaining |-> WSForProgram(wsSize),
                      tpp |-> tpp, tables |-> 0, lastTable |-> -1, panic |-> FALSE],
                     Segments(phs), zero), zero)
=============================================================================
