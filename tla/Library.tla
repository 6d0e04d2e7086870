------------------------------ MODULE Library -------------------------------
(***************************************************************************)
(* Calls of the pure routines: strings and formatting (LibString,          *)
(* LibFormat), debugging information (Stabs), the sorting programs         *)
(* (SortPrograms), the boot loader (BootLoader), the set-up of memory      *)
(* (KernelVM) and the loader of programs (Loader).  A behaviour makes one  *)
(* call after the other; a property compares the result of a call with     *)
(* what the call is for.                                                   *)
(***************************************************************************)
EXTENDS LibFormat, Stabs, SortPrograms, BootLoader, KernelVM, Loader

CONSTANTS
    MaxText,    \* length of the longest text
    MaxTable,   \* the last entry of a table of stabs
    StabGap,    \* the least distance of two different addresses in a table
    MaxArray,   \* elements of the longest array
    MaxValue    \* the largest element of an array

ASSUME LibraryAssumption ==
    /\ {MaxText, MaxTable, MaxArray, MaxValue} \subseteq Nat
    /\ StabGap \in Nat /\ StabGap > AddrUnit

\* The call that was made last: the function and its arguments, and what it
\* returned or left in memory.
VARIABLE event
libraryVars == <<event>>
call == event[1]
result == event[2]

NoCall == [fn |-> "none"]
LibraryInit == event = <<NoCall, <<>>>>

Called(c, r) == event' = <<c, r>>
Idle == call = NoCall
Returns == ~Idle /\ Called(NoCall, <<>>)

-----------------------------------------------------------------------------
Flags  == {<<>>, <<"0">>, <<"-">>}
Fields == {<<>>, <<"2">>, <<"5">>}
Verbs  == {"d", "u", "x", "p"}
\* A number printed in a field.
PrintNumber ==
    /\ Idle
    /\ \E n \in Longs, flag \in Flags, field \in Fields, verb \in Verbs :
        Called([fn |-> "number", n |-> n, flag |-> flag, field |-> field, verb |-> verb],
             vprintfmt(<<"%">> \o flag \o field \o <<verb>>, <<n>>))
ConvertNumber ==
    Idle /\ \E n \in Longs : Called([fn |-> "ltostr", n |-> n], ltostr(n))

\* Formats of at most MaxText characters, with strings as arguments.
FormatChars == {"%", "3", ".", "1", "-", "#", "s", "z"}
Argument == <<"a", "\n">>
PrintText ==
    /\ Idle
    /\ \E fmt \in SeqOf(FormatChars, MaxText) :
        Called([fn |-> "text", fmt |-> fmt], vprintfmt(fmt, Copies(Argument, MaxText)))
PrintError ==
    Idle /\ \E err \in -MaxError - 1 .. MaxError + 1 :
        Called([fn |-> "error", err |-> err], vprintfmt(<<"%", "e">>, <<err>>))

\* Outputs as long as two buffers; every character is different.
Outputs == {[k \in 1 .. n |-> k] : n \in 0 .. 2 * PrintBuf}
PrintToBuffer ==
    /\ Idle
    /\ \E out \in Outputs, n \in 1 .. PrintBuf :
        Called([fn |-> "snprintf", out |-> out, n |-> n], vsnprintf(out, n))
PrintToConsole ==
    Idle /\ \E out \in Outputs : Called([fn |-> "cprintf", out |-> out], vcprintf(out))

SplitCommand ==
    /\ Idle
    /\ \E s \in SeqOf({"a", "b", " ", "\t"}, MaxText + 2) : Called([fn |-> "split", s |-> s], strsplit(s))

Addresses == 0 .. 5
Before == [a \in Addresses |-> a]
MoveBytes ==
    /\ Idle
    /\ \E f \in {"memcpy", "memmove"}, dst, src \in Addresses, n \in 0 .. 6 :
        /\ dst + n <= 6 /\ src + n <= 6
        /\ Called([fn |-> f, dst |-> dst, src |-> src, n |-> n],
                IF f = "memcpy" THEN memcpy(Before, dst, src, n) ELSE memmove(Before, dst, src, n))
CopyString ==
    /\ Idle
    /\ \E f \in {"strlcpy", "strncpy"}, src \in SeqOf({"a", "b"}, 3), size \in 0 .. 5 :
        Called([fn |-> f, src |-> src, size |-> size],
             IF f = "strlcpy" THEN strlcpy(src, size) ELSE strncpy(src, size))
CompareStrings ==
    /\ Idle
    /\ \E p, q \in SeqOf({1, 2}, 3), n \in 0 .. 4 :
        Called([fn |-> "strncmp", p |-> p, q |-> q, n |-> n], strncmp(p, q, n))

\* A table starts with a header; its addresses do not decrease, and those of
\* one type increase.
Rising == {v \in [0 .. MaxTable -> 1 .. MaxTable] :
             v[0] = 1 /\ \A i \in 1 .. MaxTable : v[i - 1] <= v[i]}
StabTables ==
    {t \in {[i \in 0 .. MaxTable |-> [type |-> IF i = 0 THEN "none" ELSE type[i], value |-> StabGap * v[i]]] :
                type \in [1 .. MaxTable -> {"SO", "SOL", "FUN", "none"}], v \in Rising} :
        \A i, j \in 1 .. MaxTable :
            i < j /\ t[i].type = t[j].type /\ t[i].type # "none" => t[i].value < t[j].value}
SearchStabs ==
    /\ Idle
    /\ \E t \in StabTables, type \in {"SO", "FUN"}, addr \in 0 .. StabGap * (MaxTable + 1) :
        Called([fn |-> "binsearch", t |-> t, type |-> type, addr |-> addr],
             stab_binsearch(t, 0, MaxTable, type, addr))
\* A table is the kernel's or the program's; the other one is empty.
DescribeAddress ==
    /\ Idle
    /\ \E t \in StabTables, addr \in 0 .. StabGap * (MaxTable + 1),
          userLimit \in {0, StabGap * (MaxTable + 1) + 1} :
       \E strings \in IF addr = 0 THEN BOOLEAN ELSE {TRUE} :
        LET this   == [stabs |-> t, n |-> MaxTable + 1, strings |-> strings]
            other  == [stabs |-> <<>>, n |-> 0, strings |-> FALSE]
            kernel == IF userLimit = 0 THEN this ELSE other
            user   == IF userLimit = 0 THEN other ELSE this
        IN  Called([fn |-> "debuginfo", t |-> t, addr |-> addr, strings |-> strings],
                 debuginfo_eip(kernel, user, userLimit, addr))

\* The arrays a program may start with, and any other.
Arrays == UNION {[0 .. n - 1 -> 0 .. MaxValue] : n \in 0 .. MaxArray}
            \cup {InitializeAscending(MaxArray), InitializeDescending(MaxArray), InitializeSemiRandom(MaxArray)}
SortArray ==
    /\ Idle
    /\ \E A \in Arrays, f \in {"quicksort", "mergesort"} :
        LET n == Cardinality(DOMAIN A)
        IN  Called([fn |-> f, A |-> A], IF f = "quicksort" THEN QuickSort(A, n) ELSE MSort(A, 1, n))

\* Segments in increasing order, as the linker writes them: an address and its
\* offset are congruent.  The first is linked high, as the kernel is; both lie
\* above the header.
BootKernel ==
    /\ Idle
    /\ \E va1, va2 \in ElfHdr + HdrSectors * SectSize .. MemTop - 1,
          size1, size2 \in 1 .. SectSize + 1, offset1, offset2 \in 0 .. 2 * SectSize :
        /\ va1 + size1 <= va2 /\ va2 + size2 <= MemTop
        /\ va1 % SectSize = offset1 % SectSize /\ va2 % SectSize = offset2 % SectSize
        /\ LET phs == <<[va |-> MemTop + va1, memsz |-> size1, offset |-> offset1],
                        [va |-> va2, memsz |-> size2, offset |-> offset2]>>
           IN  \E magic \in IF offset1 = 0 THEN BOOLEAN ELSE {TRUE} :
                 Called([fn |-> "boot", phs |-> phs, magic |-> magic], cmain(magic, phs))

\* Machines of every size from little memory to some above 16 MB; the image and
\* the arrays end anywhere in a page.
Leftover == [frame |-> 1, perm |-> {"P", "W", "U"}]
Machines ==
    [end : PageBytes * (ExtFrame + StackPages) .. PageBytes * (ExtFrame + StackPages + 1),
     stack : {ExtFrame}, frames : Frame16M - 4 .. Frame16M + 2 * BlockFrames + 1,
     disk : {1, PageBytes, PageBytes + 1}, envs : {PageBytes - 1, PageBytes, PageBytes + 1},
     fill : {NoEntry, Leftover}]
\* boot_allocate_space does not notice the end of memory; the machine has enough.
SetUpMemory ==
    /\ Idle
    /\ \E m \in Machines :
        LET r == BootMemory(m)
        IN  /\ r.b.free <= r.n * PageBytes
            /\ Called([fn |-> "memory", m |-> m], r)

\* Two segments in increasing order, the first where the symbols are linked or
\* anywhere else, perhaps with a header between them that is not loaded; the
\* file part ends anywhere in a page, also where it starts.
SegmentAt(va, filesz, memsz, offset) ==
    [load |-> TRUE, va |-> va, filesz |-> filesz, memsz |-> memsz, offset |-> offset]
NotLoaded == [load |-> FALSE]
LoadUserProgram ==
    /\ Idle
    /\ \E va \in StabsVA .. StabsVA + 2 * LPage, filesz \in 0 .. 2 * LPage + 1, bss \in 0 .. LPage + 1,
          va2, filesz2 \in {0, 1, LPage}, wsSize \in 1 .. 4, fill \in {0, Unset}, tpp \in BOOLEAN :
        LET end  == RoundUpTo(va + filesz + bss)
            seg1 == SegmentAt(va, filesz, filesz + bss, 0)
            seg2 == SegmentAt(end + va2, filesz2, filesz2 + 1, 4 * LPage)
            phs  == <<seg1, NotLoaded, seg2>>
        IN  /\ filesz + bss > 0
            /\ fill = 0 \/ ~tpp
            /\ Called([fn |-> "load", segs |-> {seg1, seg2}, wsSize |-> wsSize, fill |-> fill, tpp |-> tpp],
                    LoadProgram(phs, wsSize, ZeroPage(fill), tpp))

LibraryNext ==
    \/ PrintNumber \/ ConvertNumber \/ PrintText \/ PrintError \/ PrintToBuffer \/ PrintToConsole
    \/ SplitCommand \/ MoveBytes \/ CopyString \/ CompareStrings
    \/ SearchStabs \/ DescribeAddress \/ SortArray \/ BootKernel \/ SetUpMemory
    \/ LoadUserProgram \/ Returns
LibrarySpec == LibraryInit /\ [][LibraryNext]_libraryVars

-----------------------------------------------------------------------------
Reads(n, text, base) == strtol(text, base) = [val |-> n, rest |-> <<>>]
FieldOf(c) == IF c.field = <<>> THEN 0 ELSE DigitValue(c.field[1])
Bigger(a, b) == IF a > b THEN a ELSE b

\* What cprintf prints for a number strtol reads back as that number, with the
\* base named or, unless there are zeros in front, found from the text; a
\* number printed without a sign wraps on the way back.  A negative number in a
\* field of blanks is not read back: its sign stands before the blanks.  Digits
\* printed with the flag '-' are padded with '-' on the left, and read as 0.
ParsesWhatItPrints ==
    call.fn = "number" =>
        LET padded == Len(result) > Len(vprintfmt(<<"%", call.verb>>, <<call.n>>))
        IN  ~padded \/ (call.flag # <<"-">> /\ call.verb # "p" /\ (call.flag = <<"0">> \/ call.n >= 0))
            => /\ Reads(call.n, result, IF call.verb \in {"x", "p"} THEN 16 ELSE 10)
               /\ ~padded /\ call.verb # "x" => Reads(call.n, result, 0)

\* A number fills the field asked for and no more than its digits need: the
\* padding of printnum's recursion is right at every depth.  The sign of %d and
\* the 0x of %p are not counted.
FieldFilled ==
    call.fn = "number" =>
        LET extra == IF call.verb = "p" THEN 2 ELSE IF call.verb = "d" /\ call.n < 0 THEN 1 ELSE 0
        IN  Len(result) = Bigger(Len(vprintfmt(<<"%", call.verb>>, <<call.n>>)), FieldOf(call) + extra)

\* ltostr writes a number's decimal digits, if no digit before the last is 0: at
\* such a digit its loop ends, and what it writes then is not said here.  (Nor
\* is it for the least number, which has no positive counterpart.)
LtostrExact ==
    call.fn = "ltostr" /\ call.n # -(2 ^ (LongBits - 1)) =>
        LET text == vprintfmt(<<"%", "d">>, <<call.n>>)
        IN  "0" \notin {text[k] : k \in 1 .. Len(text) - 1} => result = text

\* A format whose one escape is not known prints itself ("just print it
\* literally"), flags, width and precision included; a string is shown up to
\* its precision, in the field asked for, on the side asked for, and with '#'
\* what cannot be printed is a question mark.
TextAsAsked ==
    /\ call.fn = "text" /\ (\A k \in 2 .. Len(call.fmt) : call.fmt[k] # "%") /\ "s" \notin ToSet(call.fmt)
        => result = call.fmt
    /\ \A flags \in SeqOf({"-", "#"}, 1), width \in {<<>>, <<"3">>}, precision \in {<<>>, <<".", "1">>} :
        call.fn = "text" /\ call.fmt = <<"%">> \o flags \o width \o precision \o <<"s">> =>
            LET text == <<"a">> \o (IF precision # <<>> THEN <<>> ELSE IF flags = <<"#">> THEN <<"?">> ELSE <<"\n">>)
                pad  == Copies(" ", IF width = <<>> THEN 0 ELSE 3 - Len(text))
            IN  result = IF flags = <<"-">> THEN text \o pad ELSE pad \o text
    /\ call.fn = "error" =>
        (result = <<"text">>) <=> call.err \in -MaxError .. MaxError \ {0}

\* Formatting prints what is asked for, and parsing reads it back.
FormattingExact == ParsesWhatItPrints /\ FieldFilled /\ LtostrExact /\ TextAsAsked

\* snprintf never writes past its buffer, always ends it with a 0, loses no
\* character that fits, and returns the length of the whole output.
SnprintfBounded ==
    call.fn = "snprintf" =>
        /\ Len(result.buf) <= call.n /\ Last(result.buf) = NUL
        /\ IsPrefix(Front(result.buf), call.out)
        /\ Len(result.buf) < call.n => Front(result.buf) = call.out
        /\ result.ret = Len(call.out)

\* cprintf of a program: whatever the output's length, the system calls
\* together print it, in order and once, none longer than the buffer, and an
\* output shorter than the buffer is one call ("ONE system call").
ChunksRejoin ==
    call.fn = "cprintf" =>
        /\ FlattenSeq(result) = call.out
        /\ \A k \in DOMAIN result : Len(result[k]) < PrintBuf
        /\ Len(call.out) < PrintBuf - 1 => Len(result) = 1

-----------------------------------------------------------------------------
\* The arguments of a command line: from each start of a word to its end.
Words(s) ==
    LET starts == {k \in DOMAIN s : ~Blank(s[k]) /\ (k = 1 \/ Blank(s[k - 1]))}
        word(k) == SubSeq(s, k, CHOOSE e \in k .. Len(s) :
                        /\ \A j \in k .. e : ~Blank(s[j])
                        /\ e = Len(s) \/ Blank(s[e + 1]))
    IN  [i \in 1 .. Cardinality(starts) |->
            word(CHOOSE k \in starts : Cardinality({j \in starts : j <= k}) = i)]
\* strsplit finds the words of a line, whatever blanks are around them; with
\* more words than argv holds besides the 0 at its end it fails, having stored
\* those that fit and no more.
SplitExact ==
    call.fn = "split" =>
        LET words == Words(call.s)
            most  == MaxArguments - 1
        IN  /\ result.ret = IF Len(words) <= most THEN 1 ELSE 0
            /\ result.argv = SubSeq(words, 1, IF Len(words) <= most THEN Len(words) ELSE most)

MovedTo(a, c) == a \in c.dst .. c.dst + c.n - 1
\* memmove moves the bytes as they were, however the areas overlap, and leaves
\* the others; memcpy does so unless the source starts before the destination
\* and reaches into it.
MemmoveExact ==
    call.fn = "memmove" \/ (call.fn = "memcpy" /\ ~(call.src < call.dst /\ call.src + call.n > call.dst)) =>
        result = [a \in Addresses |-> IF MovedTo(a, call) THEN Before[call.src + a - call.dst] ELSE Before[a]]

\* strlcpy writes at most size characters and ends with a 0; strncpy writes
\* exactly size, so that it ends with a 0 only if the source is shorter.
\* strncmp's order is that of the first place where the strings differ.
StringsBounded ==
    /\ call.fn = "strlcpy" /\ call.size > 0 =>
        /\ Len(result) <= call.size /\ Last(result) = NUL /\ IsPrefix(Front(result), call.src)
        /\ Len(call.src) < call.size => Front(result) = call.src
    /\ call.fn = "strncpy" =>
        /\ Len(result) = call.size
        /\ NUL \in ToSet(result) <=> Len(call.src) < call.size
    /\ call.fn = "strncmp" =>
        /\ (result = 0) <=> SubSeq(call.p, 1, IF call.n < Len(call.p) THEN call.n ELSE Len(call.p))
                            = SubSeq(call.q, 1, IF call.n < Len(call.q) THEN call.n ELSE Len(call.q))
        /\ result = -strncmp(call.q, call.p, call.n)

\* Nothing is written past a buffer, and nothing that fits is lost: snprintf,
\* cprintf's buffer, argv, and the copying functions.
BuffersExact == SnprintfBounded /\ ChunksRejoin /\ SplitExact /\ MemmoveExact /\ StringsBounded

\* The text routines: what is printed is what was asked for, and it stays in
\* its buffers.
TextExact == FormattingExact /\ BuffersExact

-----------------------------------------------------------------------------
OfType(t, type, lo, hi) == {i \in lo .. hi : t[i].type = type}
Largest(S) == CHOOSE i \in S : \A j \in S : j <= i
\* stab_binsearch brackets the address: the last entry of the type at or below
\* it, and the place before the next entry of the type; without an entry of the
\* type the region is empty.  (RegionHoldsAddress has the case that there are
\* some, all above the address.)  Entries must be further apart than addr++
\* moves a uint32*.
BinsearchExact ==
    call.fn = "binsearch" =>
        LET all   == OfType(call.t, call.type, 0, MaxTable)
            below == {i \in all : call.t[i].value <= call.addr}
            above == all \ below
            next  == IF above = {} THEN MaxTable + 1 ELSE CHOOSE i \in above : \A j \in above : i <= j
        IN  /\ all = {} => result.left > result.right
            /\ below # {} => result = [left |-> Largest(below), right |-> next - 1]

\* kern/kdebug.c:39-43: "*region_left points to the matching stab that contains
\* 'addr' ...  If *region_left > *region_right, then 'addr' is not contained in
\* any matching stab."
RegionHoldsAddress ==
    call.fn = "binsearch" =>
        \/ result.left > result.right
        \/ call.t[result.left].type = call.type /\ call.t[result.left].value <= call.addr

\* debuginfo_eip, for addresses of the kernel and of programs, fails exactly if
\* there are no strings or no source file starts at or below the address; else
\* the function is the last one of that file that starts at or below it, and none
\* if the file has no function; the file name is that of the last N_SOL or N_SO
\* entry before it, which is always found.  Nothing is said of a file whose
\* functions all start later: see RegionHoldsAddress.
DebuginfoExact ==
    call.fn = "debuginfo" =>
        LET t == call.t
            files == {i \in OfType(t, "SO", 0, MaxTable) : t[i].value <= call.addr}
            file  == Largest(files)
            end   == Largest({i \in file .. MaxTable : \A j \in file + 1 .. i : t[j].type # "SO"})
            funs  == OfType(t, "FUN", file, end)
            low   == {i \in funs : t[i].value <= call.addr}
            fun   == IF low = {} THEN -1 ELSE Largest(low)
            names == {i \in file .. (IF fun = -1 THEN file ELSE fun) : t[i].type \in {"SO", "SOL"}}
        IN  IF ~call.strings \/ files = {} THEN result.ret = -1
            ELSE low # {} \/ funs = {} => result = [ret |-> 0, fun |-> fun, file |-> Largest(names)]

\* The search for symbols finds the entry an address belongs to.
SymbolsFound == BinsearchExact /\ DebuginfoExact

-----------------------------------------------------------------------------
\* Both sorts leave the array sorted, so that CheckSorted never makes the
\* program panic, with the elements it had, repeated ones included.
SortsArrays ==
    call.fn \in {"quicksort", "mergesort"} =>
        /\ DOMAIN result = DOMAIN call.A
        /\ CheckSorted(result, Cardinality(DOMAIN result))
        /\ \A v \in 0 .. Bigger(MaxValue, MaxArray) :
            Cardinality({i \in DOMAIN result : result[i] = v})
                = Cardinality({i \in DOMAIN call.A : call.A[i] = v})

Sectors(ph) == {a \div SectSize : a \in ph.va % MemTop .. (ph.va % MemTop) + ph.memsz - 1}
Shift(ph) == (ph.va % MemTop) - ph.offset
\* Every byte of every segment is in its place after cmain, although whole
\* sectors are read, and so is the header, from which the loop still reads, if
\* segments that share a sector of memory also are as far apart in the file.
\* ("We'd write more to memory than asked, but it doesn't matter -- we load in
\* increasing order": the order does not save the end of the first segment from
\* the sector where the second starts.)
SegmentsLoaded ==
    /\ call.fn = "boot" /\ call.magic
    /\ \A x, y \in ToSet(call.phs) : Sectors(x) \cap Sectors(y) # {} => Shift(x) = Shift(y)
    =>
        /\ \A ph \in ToSet(call.phs) : \A k \in 0 .. ph.memsz - 1 :
              result.mem[(ph.va % MemTop) + k] = ph.offset + k
        /\ \A k \in 0 .. HdrSectors * SectSize - 1 : result.mem[ElfHdr + k] = k

-----------------------------------------------------------------------------
Walk(dir, b, page) ==
    LET pde == dir[PDX(page)]
        pte == IF "P" \in pde.perm THEN b.ram[pde.frame][PTX(page)] ELSE NoEntry
    IN  [frame |-> pte.frame, perm |-> pde.perm \cap pte.perm]
\* check_va2pa.
MapsTo(dir, b, page, frame) ==
    LET w == Walk(dir, b, page) IN "P" \in w.perm /\ w.frame = frame
FramesOf(start, size) == start .. start + PagesIn(size) - 1
TableFrames(b) == {DirEntry(b, pd).frame : pd \in 0 .. Entries - 1} \ {0}
BootAreas(c, r) ==
    {{r.b.dir}, FramesOf(r.b.frames_info, r.n * FrameInfoSize), FramesOf(r.b.disk_frames_info, c.m.disk),
     FramesOf(r.b.envs, c.m.envs), 0 .. PagesIn(c.m.end) - 1} \cup {{f} : f \in TableFrames(r.b)}
Directory(b) == b.ram[b.dir]

\* What check_boot_pgdir asserts, whatever was in memory before: all that was
\* allocated at boot is mapped at KERNEL_BASE, page tables included ("MAKE SURE
\* THAT THIS MAPPING HAPPENS AFTER ALL BOOT ALLOCATIONS"), the stack is below
\* VPT, the entries that should be there are and the others are 0.  The array
\* envs, which it does not look at, is at UENVS.
KernelSpaceMapped ==
    call.fn = "memory" =>
        LET b == result.b
            dir == Directory(b)
        IN  /\ \A f \in 0 .. PagesIn(b.free) - 1 : MapsTo(dir, b, VirtualOf(KernelBase) + f, f)
            /\ \A k \in 0 .. StackPages - 1 :
                  MapsTo(dir, b, VirtualOf(KStackTop) - StackPages + k, call.m.stack + k)
            /\ \A k \in 0 .. PagesIn(call.m.envs) - 1 : MapsTo(dir, b, VirtualOf(UENVS) + k, b.envs + k)
            /\ \A pd \in 0 .. Entries - 1 :
                  dir[pd] # NoEntry <=> pd \in {VPT, UVPT, KStackTop - 1, UENVS} \cup KernelBase .. Entries - 1

\* What initialize_paging puts on the free list is memory nobody has: no frame of
\* the image, of a table, of an array or of the I/O hole, each of which has its
\* own frames; and every frame of the machine is either free or referenced.
FreeFramesUnused ==
    call.fn = "memory" =>
        LET areas == BootAreas(call, result)
            pool == result.pool
        IN  /\ \A A \in areas : A \cap pool.free \subseteq 3 .. IoFrame - 1
            /\ \A A, B \in areas : A = B \/ A \cap B = {}
            /\ pool.free \cup pool.referenced = 0 .. result.n - 1
            /\ pool.free \cap pool.referenced = {}
            /\ result.n \in call.m.frames - BlockFrames + 1 .. call.m.frames

\* With memory that was 0 before, a program can read envs and, through UVPT, the
\* tables that map it, and can write nothing ("Above USER_LIMIT the user cannot
\* read (or write)").  boot_get_page_table does not clear a table: entries left
\* over in memory would be mapped, and check_boot_pgdir would not see them.
UserOnlyReads ==
    call.fn = "memory" /\ call.m.fill = NoEntry =>
        LET b == result.b
            reach == {p \in 0 .. Entries * Entries - 1 : "U" \in Walk(Directory(b), b, p).perm}
        IN  /\ {Walk(Directory(b), b, p).frame : p \in reach}
                  = FramesOf(b.envs, call.m.envs) \cup {b.dir, DirEntry(b, UENVS).frame}
            /\ \A p \in reach : p < VirtualOf(UserLimit) /\ "W" \notin Walk(Directory(b), b, p).perm

\* turn_on_paging runs with physical addresses until the segments are reloaded.
\* Meanwhile every page is mapped to itself whose table lies before the one that
\* ptr_free_mem is in.
SwitchCovered ==
    call.fn = "memory" =>
        \A f \in 0 .. PagesIn(result.b.free) - 1 :
            PDX(f) < PDX(result.b.free \div PageBytes) => MapsTo(result.b.window, result.b, f, f)

\* kern/helpers.c:324-329: "From here on down we must maintain this VA
\* (KERNEL_BASE + x) => PA (x) mapping": for the image, whose last page is in the
\* table of ptr_free_mem when what was allocated at boot ends in that table.
MappingMaintained ==
    call.fn = "memory" =>
        \A f \in ExtFrame .. PagesIn(call.m.end) - 1 : MapsTo(result.b.window, result.b, f, f)

\* The address space the kernel builds for itself: mapped as check_boot_pgdir
\* and the switch to paging need it, closed to programs, and apart from the
\* frames it gives out afterwards.
KernelBooted == KernelSpaceMapped /\ FreeFramesUnused /\ UserOnlyReads /\ SwitchCovered

-----------------------------------------------------------------------------
PagesOfSegment(seg) == PagesFrom(RoundDown(seg.va), seg.va + seg.memsz)
InOnePage(seg) == seg.filesz > 0 /\ seg.va % LPage # 0 /\ RoundDown(seg.va + seg.filesz) < seg.va
\* The byte a program expects at an address of a segment.
ImageByte(seg, a) == IF a < seg.va + seg.filesz THEN seg.offset + a - seg.va + 1 ELSE 0
Holds(pages, seg) ==
    \A a \in seg.va .. seg.va + seg.memsz - 1 :
        RoundDown(a) \in DOMAIN pages => pages[RoundDown(a)][a % LPage] = ImageByte(seg, a)
\* Both copies that env_create makes of a program, in memory and in the page
\* file, are its image, so that a page may be evicted unmodified and read again.
\* Not claimed is the copy in the page file of a segment that starts inside a
\* page and ends, as far as the file goes, in the same page: the third loop
\* copies over what the first has copied.  The zeros after the file part are as
\* good as ptr_zero_page.
ImageLoaded ==
    call.fn = "load" /\ call.fill = 0 /\ ~result.panic =>
        \A seg \in call.segs :
            Holds(result.mem, seg) /\ (InOnePage(seg) \/ Holds(result.pf, seg))

\* The working set holds different pages, as many as fit, and at its end the
\* stack; the page file has these and all other pages of the program, and
\* besides them at most the page where the file part of a segment ends: the
\* length of what follows it is right although it is computed with a wrap.  It is
\* given up only if the pages are in as many tables as the table working set has
\* entries.
PagesPlaced ==
    /\ call.fn = "load" /\ result.panic =>
        Cardinality({p \div LTable : p \in UNION {PagesOfSegment(seg) : seg \in call.segs}}) >= TwsMax
    /\ call.fn = "load" /\ ~result.panic =>
        /\ Cardinality({p \div LTable : p \in DOMAIN result.mem \ {StackVA}}) < TwsMax
        /\ DOMAIN result.mem = ToSet(result.ws) /\ Cardinality(DOMAIN result.mem) = Len(result.ws)
        /\ Len(result.ws) <= call.wsSize /\ result.ws[Len(result.ws)] = StackVA
        /\ LET program == UNION {PagesOfSegment(seg) : seg \in call.segs} \cup {StackVA}
           IN  /\ program \subseteq DOMAIN result.pf
               /\ DOMAIN result.pf \subseteq program \cup {RoundDown(seg.va + seg.filesz) : seg \in call.segs}
               /\ \/ Len(result.ws) = call.wsSize \/ program = ToSet(result.ws)
                  \/ /\ ~call.tpp
                     /\ \E seg \in call.segs : RoundDown(seg.va) = StabsVA /\ Cardinality(PagesOfSegment(seg)) > StabsLimit

\* The kernel and the programs are in memory, and in the page file, as they are
\* in their files: the two loaders cut segments differently, and both read or
\* write more than the segment at its ends.
ImagesExact == SegmentsLoaded /\ ImageLoaded /\ PagesPlaced

\* The kernel is loaded, builds its address space and loads programs into theirs,
\* each whole and apart from the others.
StartUpExact == ImagesExact /\ KernelBooted
=============================================================================
