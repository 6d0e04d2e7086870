----------------------------- MODULE LibFormat ------------------------------
(***************************************************************************)
(* lib/printfmt.c, and how lib/printf.c hands its output to the kernel.    *)
(* A format is a sequence of characters, an argument a number or a string. *)
(***************************************************************************)
EXTENDS LibString

CONSTANTS
    PrintBuf,       \* size of printbuf.buf
    MaxError        \* MAXERROR

ASSUME FormatAssumption == PrintBuf \in Nat \ {0, 1} /\ MaxError \in Nat

Copies(c, n) == [k \in 1 .. n |-> c]    \* empty if n < 1

\* Mutant: the padding leaves no place for the first digit.
PadCount_Full(width) == width
\* while (--width > 0).
PadCount(width) == width - 1

RECURSIVE printnum(_, _, _, _)
printnum(num, base, width, padc) ==
    (IF num >= base THEN printnum(num \div base, base, width - 1, padc)
     ELSE Copies(padc, PadCount(width)))
        \o <<DigitChar(num % base)>>

Unsigned(n) == n % 2 ^ LongBits

FormatSigned(n, st) ==
    IF n < 0 THEN <<"-">> \o printnum(-n, 10, st.width, st.padc)
    ELSE printnum(n, 10, st.width, st.padc)

\* Mutant: the precision is not counted in the padding on the left.
Shown_All(p, st) == Len(p)
\* strnlen(p, precision): the characters that are shown.
Shown(p, st) == IF st.precision >= 0 /\ st.precision < Len(p) THEN st.precision ELSE Len(p)

FormatString(p, st) ==
    LET n == Shown(p, st)
        left  == IF st.width > 0 /\ st.padc # "-" THEN st.width - n ELSE 0
        right == IF st.width > 0 /\ st.padc = "-" THEN st.width - n ELSE 0
        text  == SubSeq(p, 1, IF st.precision < 0 \/ st.precision > Len(p) THEN Len(p) ELSE st.precision)
    IN  Copies(st.padc, left)
            \o [k \in DOMAIN text |-> IF st.altflag /\ text[k] = "\n" THEN "?" ELSE text[k]]
            \o Copies(" ", right)

\* error_string, one name for each text.
FormatError(err) ==
    LET e == IF err < 0 THEN -err ELSE err
    IN  IF e > MaxError \/ e = 0 THEN <<"error ">> \o printnum(e, 10, -1, " ") ELSE <<"text">>

\* process_precision: the first number of an escape is its width.
Precision(st, n) == IF st.width < 0 THEN [st EXCEPT !.width = n] ELSE [st EXCEPT !.precision = n]

RECURSIVE vprintfmt(_, _)
RECURSIVE Escape(_, _, _, _)
\* The escape whose rest is f; start is all that follows its %.
Escape(f, args, st, start) ==
    LET c == IF f = <<>> THEN NUL ELSE Head(f)
        number == StrtolDigits(f, 10, 0)
        done(out, a) == out \o vprintfmt(Tail(f), a)
    IN  CASE c = "-" -> Escape(Tail(f), args, [st EXCEPT !.padc = "-"], start)
          [] c = "0" -> Escape(Tail(f), args, [st EXCEPT !.padc = "0"], start)
          [] c # "0" /\ IsDigit(c, 10) -> Escape(number.rest, args, Precision(st, number.val), start)
          [] c = "*" -> Escape(Tail(f), Tail(args), Precision(st, Head(args)), start)
          [] c = "." -> Escape(Tail(f), args, [st EXCEPT !.width = IF @ < 0 THEN 0 ELSE @], start)
          [] c = "#" -> Escape(Tail(f), args, [st EXCEPT !.altflag = TRUE], start)
          [] c = "l" -> Escape(Tail(f), args, st, start)
          [] c = "c" -> done(<<Head(args)>>, Tail(args))
          [] c = "e" -> done(FormatError(Head(args)), Tail(args))
          [] c = "s" -> done(FormatString(Head(args), st), Tail(args))
          [] c = "d" -> done(FormatSigned(Head(args), st), Tail(args))
          [] c = "u" -> done(printnum(Unsigned(Head(args)), 10, st.width, st.padc), Tail(args))
          [] c = "o" -> done(<<"X", "X", "X">>, args)
          [] c = "p" -> done(<<"0", "x">> \o printnum(Unsigned(Head(args)), 16, st.width, st.padc), Tail(args))
          [] c = "x" -> done(printnum(Unsigned(Head(args)), 16, st.width, st.padc), Tail(args))
          [] c = "%" -> done(<<"%">>, args)
          [] OTHER   -> <<"%">> \o vprintfmt(start, args)

vprintfmt(fmt, args) ==
    IF fmt = <<>> THEN <<>>
    ELSE IF Head(fmt) # "%" THEN <<Head(fmt)>> \o vprintfmt(Tail(fmt), args)
    ELSE Escape(Tail(fmt), args,
                [padc |-> " ", width |-> -1, precision |-> -1, altflag |-> FALSE], Tail(fmt))

\* Mutant: the buffer's end is not kept for the 0.
BufferEnd_Full(n) == n
\* ebuf.
BufferEnd(n) == n - 1

\* vsnprintf of an output: the buffer of n bytes and the value returned.
vsnprintf(out, n) ==
    [buf |-> Append(SubSeq(out, 1, IF Len(out) < BufferEnd(n) THEN Len(out) ELSE BufferEnd(n)), NUL),
     ret |-> Len(out)]

\* Mutant: the rest of the output is not flushed.
LastChunk_None(rest) == <<>>
\* The call after vprintfmt: what is left, even if it is nothing.
LastChunk(rest) == <<rest>>

\* cprintf of a program: what it passes to sys_cputs, call by call.
RECURSIVE vcprintf(_)
vcprintf(out) ==
    IF Len(out) < PrintBuf - 1 THEN LastChunk(out)
    ELSE <<SubSeq(out, 1, PrintBuf - 1)>> \o vcprintf(SubSeq(out, PrintBuf, Len(out)))
=============================================================================
