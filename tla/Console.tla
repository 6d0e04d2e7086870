------------------------------ MODULE Console -------------------------------
(***************************************************************************)
(* Console input from the keyboard controller and the serial port to the   *)
(* line that a reader gets: kern/console.c (scan codes, the circular       *)
(* buffer, cons_getc and cons_getc2), the command prompt's line editor     *)
(* with history and completion (kern/command_prompt.c) and the readline of *)
(* user programs (lib/readline.c, lib/console.c).                          *)
(*                                                                         *)
(* Interrupts are off in the kernel and the device handlers are only       *)
(* called from cons_getc and cons_getc2, so a call of either is one step;  *)
(* keys are pressed at any time.  Of the keys the model has one of every   *)
(* kind the code tells apart, and of the commands three that share         *)
(* prefixes: runall ("ra"), modifiedclock ("m") and rep? ("rp").           *)
(***************************************************************************)
EXTENDS Terminal

CONSTANTS
    ConsBufSize,    \* CONSBUFSIZE
    BufLen,         \* BUFLEN
    HistoryMax,     \* history_max
    Keys,           \* the keys that are struck
    Modifiers,      \* the keys that are held down
    SerialExists,   \* serial_exists, after serial_init
    FifoSize,       \* bytes the keyboard controller holds
    MaxKeys         \* bound: key presses and serial characters

ASSUME ConsoleAssumption ==
    /\ ConsBufSize \in Nat \ {0, 1} /\ HistoryMax \in Nat \ {0}
    /\ SerialExists \in BOOLEAN /\ FifoSize \in Nat /\ MaxKeys \in Nat

\* A line holds the names of the commands, and the screen the longest line and
\* its prompt, without the row that scrolling clears.
ASSUME LineAssumption == BufLen \in Nat /\ BufLen > 2 /\ BufLen <= CrtSize - CrtCols

\* The byte a key sends, and whether E0 precedes it.
scancode ==
    [r |-> <<19>>, m |-> <<50>>, BS |-> <<14>>, TAB |-> <<15>>, ENTER |-> <<28>>,
     UP |-> <<224, 72>>, DOWN |-> <<224, 80>>, DEL |-> <<224, 83>>,
     LSHIFT |-> <<42>>, RSHIFT |-> <<54>>, LCTL |-> <<29>>, RCTL |-> <<224, 29>>,
     ALT |-> <<56>>, RALT |-> <<224, 56>>, CAPS |-> <<58>>]
ASSUME KeyAssumption == Keys \subseteq DOMAIN scancode /\ Modifiers \subseteq DOMAIN scancode
Make(k)  == scancode[k]
Break(k) == [n \in DOMAIN Make(k) |-> IF n = Len(Make(k)) THEN Make(k)[n] + 128 ELSE Make(k)[n]]

shiftcode(d) ==
    CASE d \in {29, 157} -> {"CTL"}
      [] d \in {42, 54}  -> {"SHIFT"}
      [] d \in {56, 184} -> {"ALT"}
      [] OTHER           -> {}
togglecode(d) == IF d = 58 THEN {"CAPSLOCK"} ELSE {}

NO == "NO"      \* the code's 0: a byte that finishes no character
Characters == {"r", "m", "R", "M", "^R", "bs", "\t", "\n", "\r", "UP", "DOWN", "DEL"}

special(d) == CASE d = 200 -> "UP" [] d = 208 -> "DOWN" [] d = 211 -> "DEL" [] OTHER -> NO
normalmap(d) ==
    CASE d = 19 -> "r" [] d = 50 -> "m" [] d = 14 -> "bs" [] d = 15 -> "\t" [] d = 28 -> "\n"
      [] OTHER -> special(d)
shiftmap(d) == CASE d = 19 -> "R" [] d = 50 -> "M" [] OTHER -> normalmap(d)
ctlmap(d)   == CASE d = 19 -> "^R" [] d \in {50, 28} -> "\r" [] OTHER -> special(d)
charcode(shift, d) ==
    IF "CTL" \in shift THEN ctlmap(d) ELSE IF "SHIFT" \in shift THEN shiftmap(d) ELSE normalmap(d)

CapsSwap(c) ==
    CASE c = "r" -> "R" [] c = "R" -> "r" [] c = "m" -> "M" [] c = "M" -> "m" [] OTHER -> c

\* Printable characters are those from ' ' up: the arrow keys are, too.
Printable == {"r", "m", "R", "M", "a", "p", "UP", "DOWN", "DEL"}

-----------------------------------------------------------------------------
\* Mutant: a released E0 key leaves E0ESC set.
ReleaseKey_KeepsEscape(shift, data) ==
    shift \ shiftcode(IF "E0ESC" \in shift THEN data ELSE data % 128)
\* A key goes up.
ReleaseKey(shift, data) ==
    shift \ (shiftcode(IF "E0ESC" \in shift THEN data ELSE data % 128) \cup {"E0ESC"})

\* kbd_proc_data for one byte: the new shift state, the character and whether
\* the machine is reset.
kbd_proc_data(shift, data) ==
    LET code  == IF "E0ESC" \in shift THEN data + 128 ELSE data
        down  == (shift \ {"E0ESC"}) \cup shiftcode(code)
        held  == (down \ togglecode(code)) \cup (togglecode(code) \ down)
        plain == charcode(held, code)
        c     == IF "CAPSLOCK" \in held THEN CapsSwap(plain) ELSE plain
    IN  CASE data = 224  -> [shift |-> shift \cup {"E0ESC"}, c |-> NO, reset |-> FALSE]
          [] data \in 128 .. 223 \cup 225 .. 255 ->
                [shift |-> ReleaseKey(shift, data), c |-> NO, reset |-> FALSE]
          [] OTHER ->
                [shift |-> held, c |-> c, reset |-> {"CTL", "ALT"} \subseteq held /\ c = "DEL"]

\* Mutant: the last place of the buffer is not used.
Advance_Short(p) == IF p + 1 >= ConsBufSize - 1 THEN 0 ELSE p + 1
\* The next position of the circular buffer.
Advance(p) == IF p + 1 = ConsBufSize THEN 0 ELSE p + 1

\* cons_intr's body: nothing is checked against rpos.
Store(cons, c) ==
    IF c = NO THEN cons
    ELSE [cons EXCEPT !.buf[cons.wpos] = c, !.wpos = Advance(@)]

Modes == {"SHIFT", "CTL", "ALT", "CAPSLOCK", "E0ESC"}
Buffers == [buf : [0 .. ConsBufSize - 1 -> Characters \cup {NO}],
            rpos : 0 .. ConsBufSize - 1, wpos : 0 .. ConsBufSize - 1]
DeviceStates == [serial : Characters \cup {NO}, shift : SUBSET Modes, cons : Buffers,
                 reset : BOOLEAN, got : Seq(Characters)]

\* The devices as a handler finds and leaves them: the serial port and the
\* keyboard bytes given to it, stored in the buffer.
SerialIn(d) ==
    IF SerialExists /\ d.serial # NO
    THEN [d EXCEPT !.cons = Store(@, d.serial), !.got = Append(@, d.serial), !.serial = NO]
    ELSE d
KeyIn(d, byte) ==
    LET k == kbd_proc_data(d.shift, byte)
    IN  [d EXCEPT !.shift = k.shift, !.cons = Store(@, k.c), !.reset = @ \/ k.reset,
                  !.got = IF k.c = NO THEN @ ELSE Append(@, k.c)]

\* The contents of the buffer, from rpos to wpos.
Buffered(cons) ==
    LET n == (cons.wpos + ConsBufSize - cons.rpos) % ConsBufSize
    IN  [k \in 1 .. n |-> cons.buf[(cons.rpos + k - 1) % ConsBufSize]]

-----------------------------------------------------------------------------
Commands == << <<"r", "a">>, <<"m">>, <<"r", "p">> >>
runall == Commands[1]

VARIABLES
    fifo,       \* bytes in the keyboard controller
    serial,     \* character in the serial port's receive register
    held,       \* modifier keys that are down
    keysLeft,   \* bound
    cons,       \* cons: buf, rpos, wpos
    shift,      \* kbd_proc_data's shift
    screen,     \* the display
    reader,     \* who reads: "prompt", "program"; "reset" after Ctrl-Alt-Del
    ed,         \* the reader's locals
    history,    \* history_list, history_size, history_write
    \* History variables.
    waiting,    \* characters stored and not yet returned
    overrun,    \* ConsBufSize characters have been waiting at once
    entered,    \* lines the prompt has read
    ups         \* arrow keys since the last other key: number of UPs, or -1

devices == <<fifo, serial, held, keysLeft>>
reading == <<cons, shift, screen, reader, ed, history, waiting, overrun, entered, ups>>
consoleVars == <<devices, reading>>

\* The locals of readline and command_prompt_readline: buf[0 .. i-1], and what
\* the prompt knows of history and completion.
NewLine == [line |-> <<>>, history_index |-> 0, history_used |-> FALSE,
            matches |-> <<>>, used_match |-> 0]

ConsoleInit ==
    /\ fifo = <<>> /\ serial = NO /\ held = {} /\ keysLeft = MaxKeys
    /\ cons = [buf |-> [k \in 0 .. ConsBufSize - 1 |-> NO], rpos |-> 0, wpos |-> 0]
    /\ shift = {}
    /\ screen = Putc(ClearScreen, ">")
    /\ reader = "prompt" /\ ed = NewLine
    /\ history = [list |-> [k \in 0 .. HistoryMax - 1 |-> <<>>], size |-> 0, write |-> 0]
    /\ waiting = <<>> /\ overrun = FALSE /\ entered = <<>> /\ ups = 0

-----------------------------------------------------------------------------
\* The typist.
Send(bytes) ==
    /\ keysLeft > 0 /\ Len(fifo) + Len(bytes) <= FifoSize
    /\ fifo' = fifo \o bytes
    /\ keysLeft' = keysLeft - 1
    /\ UNCHANGED <<serial, reading>>
Strike(k) == Send(Make(k) \o Break(k)) /\ UNCHANGED held
Hold(k)   == k \notin held /\ Send(Make(k)) /\ held' = held \cup {k}
LetGo(k) ==
    /\ k \in held /\ Len(fifo) + Len(Break(k)) <= FifoSize
    /\ fifo' = fifo \o Break(k)
    /\ held' = held \ {k}
    /\ UNCHANGED <<serial, keysLeft, reading>>
SerialReceive ==
    /\ SerialExists /\ serial = NO /\ keysLeft > 0
    /\ serial' = "m"
    /\ keysLeft' = keysLeft - 1
    /\ UNCHANGED <<fifo, held, reading>>

-----------------------------------------------------------------------------
\* Line editing.  Each operator gives the reader's locals and what is written.
Edited(e, out) == [ed |-> e, out |-> out]

\* The line is rubbed out and another one shown in its place.
Replaced(e, new) == Edited([e EXCEPT !.line = new], [k \in DOMAIN e.line |-> "bs"] \o new)

\* Mutant: no place is left for the 0 at the end.
Room_Over(line) == Len(line) < BufLen
\* There is place for a character and the 0.
Room(line) == Len(line) < BufLen - 1

Typed(e, c) ==
    IF c \in Printable /\ Room(e.line)
    THEN Edited([e EXCEPT !.line = Append(@, c)], <<c>>)
    ELSE IF c = "bs" /\ e.line # <<>> THEN Edited([e EXCEPT !.line = Front(@)], <<c>>)
    ELSE Edited(e, <<>>)

\* Mutant: UP from the first entry goes to the last slot, used or not.
Older_LastSlot(x) == IF x = 0 THEN HistoryMax - 1 ELSE x - 1
\* UP: the entry before, or the last.
Older(x) == IF x = 0 THEN history.size - 1 ELSE x - 1
\* DOWN: the entry after, or the first.
Newer(x) == IF x + 1 >= history.size THEN 0 ELSE x + 1

Recall(e, c) ==
    LET at == IF e.history_used THEN e.history_index ELSE history.write
        x  == IF c = "UP" THEN Older(at) ELSE Newer(at)
    IN  IF history.size = 0 THEN Edited(e, <<>>)
        ELSE Replaced([e EXCEPT !.history_index = x, !.history_used = TRUE], history.list[x])

\* The commands with strncmp(buf, name, i) == 0, in their order.
Match(line, n) == IF IsPrefix(line, Commands[n]) THEN <<Commands[n]>> ELSE <<>>
Matching(line) == Match(line, 1) \o Match(line, 2) \o Match(line, 3)

Complete(e) ==
    LET ms == IF e.matches = <<>> THEN Matching(e.line) ELSE e.matches
        n  == IF e.matches = <<>> THEN 1 ELSE e.used_match + 1
    IN  IF ms = <<>> THEN Edited(e, <<>>)
        ELSE Replaced([e EXCEPT !.matches = ms, !.used_match = n % Len(ms)], ms[n])

\* command_prompt_readline for one character other than Enter.  What is left
\* of old matches and of the old place in the history is not read again.
PromptEdit(e, c) ==
    LET fresh == [e EXCEPT !.matches = <<>>, !.used_match = 0]
        plain == [fresh EXCEPT !.history_used = FALSE, !.history_index = 0]
    IN  CASE c \in {"UP", "DOWN"} -> Recall(fresh, c)
          [] c = "\t" -> Complete([e EXCEPT !.history_used = FALSE, !.history_index = 0])
          [] /\ c \in (Printable \cup {"bs"}) \ {"UP", "DOWN"}
             /\ Typed(plain, c) # Edited(plain, <<>>) -> Typed(plain, c)
          [] OTHER -> Edited(e, <<>>)

\* run_command_prompt: a line goes into the history, over the oldest one.
SaveHistory(line) ==
    history' = [list  |-> [history.list EXCEPT ![history.write] = line],
                size  |-> IF history.size = HistoryMax THEN HistoryMax ELSE history.size + 1,
                write |-> (history.write + 1) % HistoryMax]

\* execute_command: what is written, and who reads next.
Executed(line) ==
    CASE line = <<>>   -> [out |-> <<>>, reader |-> "prompt"]
      [] line = runall -> [out |-> <<>>, reader |-> "program"]
      [] OTHER         -> [out |-> <<"?", "\n">>, reader |-> "prompt"]

-----------------------------------------------------------------------------
\* What cons_getc and cons_getc2 do after polling: d is the devices, c the
\* character returned.
Polled(d, c) ==
    /\ serial' = d.serial /\ shift' = d.shift
    /\ cons' = IF c = NO THEN d.cons ELSE [d.cons EXCEPT !.rpos = Advance(@)]
    /\ overrun' = (overrun \/ Len(waiting \o d.got) >= ConsBufSize)
    /\ waiting' = IF overrun' THEN <<>>
                  ELSE IF c = NO THEN waiting \o d.got ELSE Tail(waiting \o d.got)
    /\ UNCHANGED <<held, keysLeft>>

Devices == [serial |-> serial, shift |-> shift, cons |-> cons, reset |-> FALSE, got |-> <<>>]
\* Mutant: a character is taken only if one has just come.
NextChar_Fresh(d) ==
    IF d.got = <<>> \/ d.cons.rpos = d.cons.wpos THEN NO ELSE d.cons.buf[d.cons.rpos]
\* The next character of the buffer.
NextChar(d) == IF d.cons.rpos = d.cons.wpos THEN NO ELSE d.cons.buf[d.cons.rpos]

Reset(d) ==
    /\ d.reset
    /\ reader' = "reset"
    /\ UNCHANGED <<screen, ed, history, entered, ups>>

\* cons_getc: everything the devices have is stored, then a character taken.
KeysIn[x \in DeviceStates \X Seq(0 .. 255)] ==
    LET d == x[1]
        bytes == x[2]
    IN  IF bytes = <<>> THEN d ELSE KeysIn[<<KeyIn(d, Head(bytes)), Tail(bytes)>>]
PromptPoll == KeysIn[<<SerialIn(Devices), fifo>>]

\* getchar returns no character: the prompt polls again.
PromptWaits(d) ==
    /\ NextChar(d) = NO /\ ~d.reset
    /\ Polled(d, NO)
    /\ UNCHANGED <<screen, reader, ed, history, entered, ups>>

PromptTakes(d, c) ==
    /\ c \notin {NO, "\n", "\r"} /\ ~d.reset
    /\ Polled(d, c)
    /\ \E e \in {PromptEdit(ed, c)} : ed' = e.ed /\ screen' = PutAll[<<screen, e.out>>]
    /\ ups' = IF c = "UP" /\ history.size > 0 /\ ups >= 0 THEN ups + 1
              ELSE IF c = "DOWN" THEN -1 ELSE IF ed'.history_used THEN ups ELSE 0
    /\ UNCHANGED <<reader, history, entered>>

PromptEnter(d, c) ==
    LET x == Executed(ed.line) IN
    /\ c \in {"\n", "\r"} /\ ~d.reset
    /\ Polled(d, c)
    /\ SaveHistory(ed.line) /\ entered' = Append(entered, ed.line)
    /\ reader' = x.reader /\ ed' = NewLine /\ ups' = 0
    /\ screen' = PutAll[<<screen, <<c>> \o x.out \o IF x.reader = "prompt" THEN <<">">> ELSE <<>> >>]

PromptGetc ==
    /\ reader = "prompt"
    /\ fifo' = <<>>
    /\ \E d \in {PromptPoll} :
          \/ PromptWaits(d) \/ PromptTakes(d, NextChar(d)) \/ PromptEnter(d, NextChar(d))
          \/ Polled(d, NO) /\ Reset(d)

\* cons_getc2: one byte from each device, and a character is taken only if the
\* keyboard has just finished one.
ProgramPoll ==
    IF fifo = <<>> THEN SerialIn(Devices) ELSE KeyIn(SerialIn(Devices), Head(fifo))
KeyDone == fifo # <<>> /\ kbd_proc_data(shift, Head(fifo)).c # NO

\* readline of lib/readline.c for one character.
ProgramTakes(d, c) ==
    /\ c \notin {"\n", "\r"} /\ ~d.reset
    /\ Polled(d, c)
    /\ \E e \in {Typed(ed, c)} : ed' = e.ed /\ screen' = PutAll[<<screen, e.out>>]
    /\ UNCHANGED <<reader, history, entered, ups>>

\* The program has its line: it writes something and exits to the prompt.
ProgramEnter(d, c) ==
    /\ c \in {"\n", "\r"} /\ ~d.reset
    /\ Polled(d, c)
    /\ reader' = "prompt" /\ ed' = NewLine
    /\ screen' = PutAll[<<screen, <<c, "\t", ">">> >>]
    /\ UNCHANGED <<history, entered, ups>>

SysCgetc ==
    /\ reader = "program"
    /\ fifo' = IF fifo = <<>> THEN <<>> ELSE Tail(fifo)
    /\ \E d \in {ProgramPoll} :
          LET c == IF KeyDone THEN NextChar(d) ELSE NO IN
          \/ ProgramTakes(d, c) \/ ProgramEnter(d, c)
          \/ Polled(d, NO) /\ Reset(d)

\* The machine starts again; the model ends here.
Off == reader = "reset" /\ UNCHANGED consoleVars

ConsoleNext ==
    \/ \E k \in Keys : Strike(k)
    \/ \E k \in Modifiers : Hold(k) \/ LetGo(k)
    \/ SerialReceive
    \/ PromptGetc \/ SysCgetc \/ Off

\* Both readers call again at once when they get nothing; interrupts only
\* suspend them.  Nobody has to type.
ConsoleFairness == WF_consoleVars(PromptGetc) /\ WF_consoleVars(SysCgetc)
ConsoleSpec == ConsoleInit /\ [][ConsoleNext]_consoleVars /\ ConsoleFairness

-----------------------------------------------------------------------------
\* The variables have their types; in particular the cursor is on the screen
\* and a line fits its buffer.
ConsoleTypeOK ==
    /\ Len(fifo) <= FifoSize /\ keysLeft \in 0 .. MaxKeys /\ held \subseteq Modifiers
    /\ shift \subseteq Modes
    /\ cons \in Buffers
    /\ screen.pos \in 0 .. CrtSize - 1
    /\ reader \in {"prompt", "program", "reset"}
    /\ Len(ed.line) < BufLen
    /\ history.size \in 0 .. HistoryMax /\ history.write \in 0 .. HistoryMax - 1

\* Characters come out of the circular buffer in the order they went in, none
\* lost and none twice, as long as fewer than ConsBufSize wait at once.
InputInOrder == overrun \/ Buffered(cons) = waiting

\* What is on the screen in front of the cursor is the reader's line, and in
\* front of it the prompt: through wrapped lines, scrolling, rubbing out,
\* history and completion.
ScreenShowsLine ==
    LET n == Len(ed.line)
    IN  /\ reader # "reset" => \A k \in 1 .. n : screen.cells[screen.pos - n + k - 1] = ed.line[k]
        /\ reader = "prompt" => screen.cells[screen.pos - n - 1] = ">"

\* A shift, control or alt state is there only while such a key is down, and
\* the E0 state only within a key: nothing sticks.
NoStuckModifier ==
    fifo = <<>> /\ reader # "reset" =>
        shift \ {"CAPSLOCK"} \subseteq UNION {shiftcode(Last(Make(k))) : k \in held}

\* The n-th UP in a row shows the n-th last line that was entered, and goes
\* round among those that are kept.
UpRecallsLatest ==
    ed.history_used /\ ups > 0 =>
        ed.line = entered[Len(entered) - ((ups - 1) % history.size)]

\* The line, its length, the screen and the history, which the editor keeps by
\* separate statements, agree, and the line stays within its buffer.
EditorConsistent == ConsoleTypeOK /\ ScreenShowsLine /\ UpRecallsLatest

\* What has been typed at the prompt is read.
PromptDrains ==
    (reader = "prompt" /\ waiting # <<>>) ~> (reader # "prompt" \/ waiting = <<>>)
=============================================================================
