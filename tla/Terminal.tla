------------------------------ MODULE Terminal ------------------------------
(***************************************************************************)
(* The text screen of kern/console.c: the cells of the CGA buffer and the  *)
(* cursor.  A screen is a record [cells, pos]; Putc gives the screen after *)
(* one character.  The printer port, which gets the same characters, and   *)
(* the attribute byte of a cell are left out.                              *)
(***************************************************************************)
EXTENDS Integers, Sequences, SequencesExt

CONSTANTS
    CrtRows,    \* CRT_ROWS
    CrtCols     \* CRT_COLS

ASSUME CrtAssumption == CrtRows \in Nat \ {0} /\ CrtCols \in Nat \ {0}

CrtSize == CrtRows * CrtCols
\* The characters that are written; "bs" is a backspace.
Glyphs == {" ", ">", "?", "r", "m", "R", "M", "a", "p", "UP", "DOWN", "DEL", "bs", "\t", "\n", "\r"}
Screens == [cells : [0 .. CrtSize - 1 -> Glyphs], pos : 0 .. CrtSize - 1]

\* cga_init takes the cursor from the hardware; the boot loader leaves it at
\* the start of a cleared screen.
ClearScreen == [cells |-> [k \in 0 .. CrtSize - 1 |-> " "], pos |-> 0]

\* The lines move up when the cursor has left the screen.
Scroll(s) ==
    IF s.pos < CrtSize THEN s
    ELSE [cells |-> [k \in 0 .. CrtSize - 1 |->
                        IF k + CrtCols < CrtSize THEN s.cells[k + CrtCols] ELSE " "],
          pos |-> s.pos - CrtCols]

\* Mutant: the cursor does not go back into the line above.
Backspace_InLine(s) ==
    IF s.pos % CrtCols = 0 THEN s
    ELSE [cells |-> [s.cells EXCEPT ![s.pos - 1] = " "], pos |-> s.pos - 1]
\* The cursor goes back over the character, into the line above too.
Backspace(s) ==
    IF s.pos = 0 THEN s
    ELSE [cells |-> [s.cells EXCEPT ![s.pos - 1] = " "], pos |-> s.pos - 1]

\* cga_putc for everything but a tab.
Putc(s, c) ==
    CASE c = "bs" -> Backspace(s)
      [] c = "\n" -> Scroll([s EXCEPT !.pos = @ + CrtCols - (@ % CrtCols)])
      [] c = "\r" -> [s EXCEPT !.pos = @ - (@ % CrtCols)]
      [] OTHER    -> Scroll([cells |-> [s.cells EXCEPT ![s.pos] = c], pos |-> s.pos + 1])

\* cons_putc; cga_putc calls it for a tab, which is five blanks.
cons_putc(s, c) ==
    IF c = "\t" THEN Putc(Putc(Putc(Putc(Putc(s, " "), " "), " "), " "), " ") ELSE Putc(s, c)

\* cputchar, once for every character.
PutAll[x \in Screens \X Seq(Glyphs)] ==
    LET s == x[1]
        cs == x[2]
    IN  IF cs = <<>> THEN s ELSE PutAll[<<cons_putc(s, Head(cs)), Tail(cs)>>]
=============================================================================
