------------------------------- MODULE Stabs --------------------------------
(***************************************************************************)
(* The search for debugging information in kern/kdebug.c.  A table is a    *)
(* function from 0 .. N-1 to records [type, value]; of each type the       *)
(* values increase.  An address is a uint32*, so addr++ adds AddrUnit.     *)
(***************************************************************************)
EXTENDS Integers

CONSTANT AddrUnit       \* sizeof(uint32)

ASSUME AddrAssumption == AddrUnit \in Nat \ {0}

\* The last entry of the type in l .. m, or l - 1.
RECURSIVE Earlier(_, _, _, _)
Earlier(stabs, type, l, m) ==
    IF m >= l /\ stabs[m].type # type THEN Earlier(stabs, type, l, m - 1) ELSE m

\* Mutant: an entry above the address closes the region at itself.
RightOf_Itself(m) == m
\* An entry above the address closes the region before itself.
RightOf(m) == m - 1

\* stab_binsearch's loop, from the locals s = [l, r, left, right, any, addr].
RECURSIVE Narrowed(_, _, _)
Narrowed(stabs, type, s) ==
    LET true_m == (s.l + s.r) \div 2
        m == Earlier(stabs, type, s.l, true_m)
    IN  IF s.l > s.r THEN s
        ELSE IF m < s.l THEN Narrowed(stabs, type, [s EXCEPT !.l = true_m + 1])
        ELSE Narrowed(stabs, type,
            CASE stabs[m].value < s.addr -> [s EXCEPT !.any = TRUE, !.left = m, !.l = true_m + 1]
              [] stabs[m].value > s.addr -> [s EXCEPT !.any = TRUE, !.right = RightOf(m), !.r = m - 1]
              [] OTHER -> [s EXCEPT !.any = TRUE, !.left = m, !.l = m, !.addr = @ + AddrUnit])

\* stab_binsearch: the region it leaves in *region_left and *region_right.
stab_binsearch(stabs, left, right, type, addr) ==
    LET s == Narrowed(stabs, type, [l |-> left, r |-> right, left |-> left, right |-> right,
                                  any |-> FALSE, addr |-> addr])
    IN  IF ~s.any THEN [left |-> s.left, right |-> s.left - 1]
        ELSE [left |-> IF s.right > s.left THEN Earlier(stabs, type, s.left + 1, s.right) ELSE s.right,
              right |-> s.right]

\* The last entry in lfile .. lline that names a file, or -1.
RECURSIVE FileEntry(_, _, _)
FileEntry(stabs, lline, lfile) ==
    IF lline < lfile THEN -1
    ELSE IF stabs[lline].type = "SOL" \/ (stabs[lline].type = "SO" /\ stabs[lline].value # 0) THEN lline
    ELSE FileEntry(stabs, lline - 1, lfile)

\* Mutant: the function is searched in the whole table.
FunRegion_All(file, n) == [left |-> 0, right |-> n - 1]
\* The entries among which the function is searched.
FunRegion(file, n) == file

\* debuginfo_eip: whether it succeeds, the entry taken for the function, or -1,
\* and the entry taken for the file name, or -1.  Information, the kernel's or the
\* program's, is [stabs, n, strings]: whether stabstr is a table of strings.
debuginfo_eip(kernel, user, userLimit, addr) ==
    LET info == IF addr >= userLimit THEN kernel ELSE user
        stabs == info.stabs
        file == stab_binsearch(stabs, 0, info.n - 1, "SO", addr)
        region == FunRegion(file, info.n)
        fun  == stab_binsearch(stabs, region.left, region.right, "FUN", addr)
        found == fun.left <= fun.right
    IN  IF ~info.strings \/ file.left = 0 THEN [ret |-> -1, fun |-> -1, file |-> -1]
        ELSE [ret |-> 0, fun |-> IF found THEN fun.left ELSE -1,
              file |-> FileEntry(stabs, IF found THEN fun.left ELSE file.left, file.left)]
=============================================================================
