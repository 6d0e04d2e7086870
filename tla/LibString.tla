----------------------------- MODULE LibString ------------------------------
(***************************************************************************)
(* lib/string.c.  A C string is the sequence of its characters without the *)
(* 0 at the end; memory is a function from addresses to characters.        *)
(* Numbers are signed and LongBits wide, as long is, and wrap.             *)
(***************************************************************************)
EXTENDS Integers, Sequences, SequencesExt

CONSTANTS
    LongBits,       \* bits of a long
    MaxArguments    \* MAX_ARGUMENTS

ASSUME StringAssumption == LongBits \in Nat \ {0} /\ MaxArguments \in Nat \ {0}

Longs   == -(2 ^ (LongBits - 1)) .. 2 ^ (LongBits - 1) - 1
Wrap(x) == ((x + 2 ^ (LongBits - 1)) % 2 ^ LongBits) - 2 ^ (LongBits - 1)

digitChars == <<"0", "1", "2", "3", "4", "5", "6", "7", "8", "9", "a", "b", "c", "d", "e", "f">>
DigitChar(d) == digitChars[d + 1]
\* Letters of either case are digits.
upperChars == SubSeq(digitChars, 1, 10) \o <<"A", "B", "C", "D", "E", "F">>
HasValue(c, d) == c \in {DigitChar(d), upperChars[d + 1]}
IsDigit(c, base) == \E d \in 0 .. base - 1 : HasValue(c, d)
DigitValue(c) == CHOOSE d \in 0 .. 15 : HasValue(c, d)

RECURSIVE SkipBlanks(_)
SkipBlanks(s) == IF s # <<>> /\ Head(s) \in {" ", "\t"} THEN SkipBlanks(Tail(s)) ELSE s

\* strtol's loop over digits: the value so far wraps, and the rest of the
\* string is *endptr.
RECURSIVE StrtolDigits(_, _, _)
StrtolDigits(s, base, val) ==
    IF s = <<>> \/ ~IsDigit(Head(s), base) THEN [val |-> val, rest |-> s]
    ELSE StrtolDigits(Tail(s), base, Wrap(val * base + DigitValue(Head(s))))

\* Mutant: the sign is not skipped.
AfterSign_None(s) == s
\* What follows a plus or minus sign.
AfterSign(s) == IF s # <<>> /\ Head(s) \in {"+", "-"} THEN Tail(s) ELSE s

strtol(string, base) ==
    LET s == SkipBlanks(string)
        t == AfterSign(s)
        hex == base \in {0, 16} /\ IsPrefix(<<"0", "x">>, t)
        octal == base = 0 /\ ~hex /\ IsPrefix(<<"0">>, t)
        b == IF hex THEN 16 ELSE IF octal THEN 8 ELSE IF base = 0 THEN 10 ELSE base
        r == StrtolDigits(IF hex THEN SubSeq(t, 3, Len(t)) ELSE IF octal THEN Tail(t) ELSE t, b, 0)
    IN  [r EXCEPT !.val = IF s # <<>> /\ Head(s) = "-" THEN Wrap(-@) ELSE @]

\* C's % and /, which round towards 0.
Rem(a, b) == IF a < 0 THEN -((-a) % b) ELSE a % b
Quot(a, b) == IF a < 0 THEN -((-a) \div b) ELSE a \div b

\* Mutant: the loop ends one digit early.
MoreDigits_Above(value) == value > 9
\* ltostr's loop condition.
MoreDigits(value) == Rem(value, 10) # 0

RECURSIVE LtostrDigits(_)
LtostrDigits(value) ==
    LET rest == Quot(value, 10)
    IN  (IF MoreDigits(rest) THEN LtostrDigits(rest) ELSE <<>>)
            \o <<IF value < 0 THEN "?" ELSE DigitChar(Rem(value, 10))>>
\* The least number has no positive counterpart: its digits are garbage.
ltostr(value) ==
    IF value < 0 THEN <<"-">> \o LtostrDigits(Wrap(-value)) ELSE LtostrDigits(value)

-----------------------------------------------------------------------------
Blank(c) == c \in {" ", "\t", "\r", "\n"}
RECURSIVE SkipWhile(_, _)
SkipWhile(blank, s) == IF s # <<>> /\ Blank(Head(s)) = blank THEN SkipWhile(blank, Tail(s)) ELSE s

\* Mutant: one argument more is stored.
NoMoreArguments_Late(argc) == argc = MaxArguments
\* The last place of argv is for the 0.
NoMoreArguments(argc) == argc = MaxArguments - 1

\* strsplit: the arguments, and 1, or 0 if there are too many.
RECURSIVE SplitFrom(_, _)
SplitFrom(string, argv) ==
    LET s == SkipWhile(TRUE, string)
        rest == SkipWhile(FALSE, s)
    IN  IF s = <<>> THEN [argv |-> argv, ret |-> 1]
        ELSE IF NoMoreArguments(Len(argv)) THEN [argv |-> argv, ret |-> 0]
        ELSE SplitFrom(rest, Append(argv, SubSeq(s, 1, Len(s) - Len(rest))))
strsplit(string) == SplitFrom(string, <<>>)

-----------------------------------------------------------------------------
\* One byte after the other, in the order given.
RECURSIVE CopyBytes(_, _, _, _)
CopyBytes(mem, dst, src, order) ==
    IF order = <<>> THEN mem
    ELSE CopyBytes([mem EXCEPT ![dst + Head(order)] = mem[src + Head(order)]], dst, src, Tail(order))
Upward(n) == [k \in 1 .. n |-> k - 1]

memcpy(mem, dst, src, n) == CopyBytes(mem, dst, src, Upward(n))

\* Mutant: the areas overlap only if src's end is past dst's.
Overlap_Never(dst, src, n) == FALSE
\* The end of src is overwritten before it is read.
Overlap(dst, src, n) == src < dst /\ src + n > dst
memmove(mem, dst, src, n) ==
    CopyBytes(mem, dst, src, IF Overlap(dst, src, n) THEN Reverse(Upward(n)) ELSE Upward(n))

\* What strlcpy and strncpy write to dst; 0 is the character NUL.
NUL == "NUL"
\* Mutant: the last place is used for a character.
LcpyLength_Full(src, size) == IF Len(src) < size THEN Len(src) ELSE size
\* The number of characters strlcpy takes.
LcpyLength(src, size) == IF Len(src) < size THEN Len(src) ELSE size - 1
strlcpy(src, size) ==
    IF size = 0 THEN <<>> ELSE Append(SubSeq(src, 1, LcpyLength(src, size)), NUL)
strncpy(src, size) == [k \in 1 .. size |-> IF k <= Len(src) THEN src[k] ELSE NUL]

\* The sign of strncmp(p, q, n), for characters that are numbers.
RECURSIVE strncmp(_, _, _)
strncmp(p, q, n) ==
    LET a == IF p = <<>> THEN 0 ELSE Head(p)
        b == IF q = <<>> THEN 0 ELSE Head(q)
    IN  IF n = 0 THEN 0
        ELSE IF a # 0 /\ a = b THEN strncmp(Tail(p), Tail(q), n - 1)
        ELSE a - b
=============================================================================
