--------------------------- MODULE Console_proofs ---------------------------
(***************************************************************************)
(* Proofs about Console, for every size of the buffer, every set of keys   *)
(* and any number of key presses: characters come out of the circular      *)
(* buffer in the order they went in, no modifier key gets stuck, and the   *)
(* line that is edited is what the screen shows.                           *)
(***************************************************************************)
EXTENDS Console, InductionLemmas, SequenceTheorems

Bytes == 0 .. 255
Chars == Characters \cup {NO}

-----------------------------------------------------------------------------
(***************************************************************************)
(* Types.                                                                  *)
(***************************************************************************)
\* The tables yield characters.
LEMMA CharTypes ==
    /\ \A d : shiftcode(d) \subseteq Modes /\ togglecode(d) \subseteq Modes
    /\ \A S, d : charcode(S, d) \in Chars
    /\ \A c \in Chars : CapsSwap(c) \in Chars
<1>1. \A d : shiftcode(d) \subseteq Modes /\ togglecode(d) \subseteq Modes
  BY DEF shiftcode, togglecode, Modes
<1>2. \A d : special(d) \in Chars
  BY DEF special, Chars, Characters, NO
<1>3. \A d : normalmap(d) \in Chars /\ ctlmap(d) \in Chars
  BY <1>2 DEF normalmap, ctlmap, Chars, Characters
<1>4. \A d : shiftmap(d) \in Chars
  BY <1>3 DEF shiftmap, Chars, Characters
<1>5. \A S, d : charcode(S, d) \in Chars
  BY <1>3, <1>4 DEF charcode
<1>6. \A c \in Chars : CapsSwap(c) \in Chars
  BY DEF CapsSwap, Chars, Characters
<1> QED
  BY <1>1, <1>5, <1>6

\* So does kbd_proc_data.
LEMMA KbdType ==
    ASSUME NEW S \in SUBSET Modes, NEW b \in Bytes
    PROVE  kbd_proc_data(S, b) \in [shift : SUBSET Modes, c : Chars, reset : BOOLEAN]
<1> DEFINE code == IF "E0ESC" \in S THEN b + 128 ELSE b
           down == (S \ {"E0ESC"}) \cup shiftcode(code)
           on == (down \ togglecode(code)) \cup (togglecode(code) \ down)
           plain == charcode(on, code)
           c == IF "CAPSLOCK" \in on THEN CapsSwap(plain) ELSE plain
           reset == {"CTL", "ALT"} \subseteq on /\ c = "DEL"
<1>1. on \in SUBSET Modes
  BY CharTypes
<1>2. c \in Chars
  <2> HIDE DEF on, code
  <2>1. plain \in Chars
    BY CharTypes
  <2> HIDE DEF plain
  <2> QED
    BY <2>1, CharTypes
<1>3. reset \in BOOLEAN
  OBVIOUS
<1>4. S \cup {"E0ESC"} \in SUBSET Modes /\ NO \in Chars /\ ReleaseKey(S, b) \in SUBSET Modes
  BY DEF Modes, Chars, ReleaseKey
<1>5. kbd_proc_data(S, b) =
        CASE b = 224  -> [shift |-> S \cup {"E0ESC"}, c |-> NO, reset |-> FALSE]
          [] b \in 128 .. 223 \cup 225 .. 255 ->
                [shift |-> ReleaseKey(S, b), c |-> NO, reset |-> FALSE]
          [] OTHER -> [shift |-> on, c |-> c, reset |-> reset]
  BY Zenon DEF kbd_proc_data
<1> HIDE DEF c, on, reset
<1> QED
  BY <1>1, <1>2, <1>3, <1>4, <1>5

\* cons_intr stays within the buffer.
LEMMA StoreType ==
    ASSUME NEW bf \in Buffers, NEW c \in Chars
    PROVE  Store(bf, c) \in Buffers
<1>1. Advance(bf.wpos) \in 0 .. ConsBufSize - 1
  BY ConsoleAssumption DEF Buffers, Advance
<1> QED
  BY <1>1 DEF Store, Buffers, Chars

\* The devices keep their types.
LEMMA KeyInType ==
    ASSUME NEW d \in DeviceStates, NEW b \in Bytes
    PROVE  KeyIn(d, b) \in DeviceStates
<1>1. PICK k : k = kbd_proc_data(d.shift, b)
  OBVIOUS
<1>2. k \in [shift : SUBSET Modes, c : Chars, reset : BOOLEAN]
  BY <1>1, KbdType DEF DeviceStates
<1>3. Store(d.cons, k.c) \in Buffers
  BY <1>2, StoreType DEF DeviceStates
<1>4. PICK g : g = IF k.c = NO THEN d.got ELSE Append(d.got, k.c)
  OBVIOUS
<1>5. g \in Seq(Characters)
  BY <1>2, <1>4 DEF DeviceStates, Chars
<1>6. (d.reset \/ k.reset) \in BOOLEAN
  OBVIOUS
<1>7. KeyIn(d, b) = [serial |-> d.serial, shift |-> k.shift, cons |-> Store(d.cons, k.c),
                     reset |-> d.reset \/ k.reset, got |-> g]
  <2>1. KeyIn(d, b) = [d EXCEPT !.shift = k.shift, !.cons = Store(@, k.c),
                                !.reset = @ \/ k.reset,
                                !.got = IF k.c = NO THEN @ ELSE Append(@, k.c)]
    BY <1>1 DEF KeyIn
  <2>2. [d EXCEPT !.shift = k.shift, !.cons = Store(@, k.c), !.reset = @ \/ k.reset,
                  !.got = IF k.c = NO THEN @ ELSE Append(@, k.c)] =
        [d EXCEPT !.shift = k.shift, !.cons = Store(d.cons, k.c), !.reset = d.reset \/ k.reset,
                  !.got = g]
    BY <1>4, Zenon DEF DeviceStates
  <2> QED
    BY <2>1, <2>2 DEF DeviceStates
<1> QED
  BY <1>2, <1>3, <1>5, <1>6, <1>7 DEF DeviceStates

\* The serial handler keeps the types of the devices.
LEMMA SerialInType ==
    ASSUME NEW d \in DeviceStates
    PROVE  SerialIn(d) \in DeviceStates
<1>1. CASE SerialExists /\ d.serial # NO
  <2>1. Store(d.cons, d.serial) \in Buffers
    BY StoreType DEF DeviceStates, Chars
  <2>2. Append(d.got, d.serial) \in Seq(Characters)
    BY <1>1 DEF DeviceStates
  <2>3. SerialIn(d) = [serial |-> NO, shift |-> d.shift, cons |-> Store(d.cons, d.serial),
                       reset |-> d.reset, got |-> Append(d.got, d.serial)]
    BY <1>1 DEF SerialIn, DeviceStates
  <2> QED
    BY <2>1, <2>2, <2>3 DEF DeviceStates
<1>2. CASE ~(SerialExists /\ d.serial # NO)
  BY <1>2 DEF SerialIn
<1> QED
  BY <1>1, <1>2


-----------------------------------------------------------------------------
(***************************************************************************)
(* cons_getc empties the keyboard: KeysIn is the run of KeyIn over the     *)
(* bytes.                                                                  *)
(***************************************************************************)
KeyStep == [y \in DeviceStates \X Bytes |-> KeyIn(y[1], y[2])]

\* KeyStep is KeyIn.
LEMMA KeyStepIs ==
    /\ Machine(DeviceStates, Bytes, KeyStep)
    /\ \A d \in DeviceStates, b \in Bytes : KeyStep[<<d, b>>] = KeyIn(d, b)
<1>1. \A y \in DeviceStates \X Bytes : KeyIn(y[1], y[2]) \in DeviceStates
  BY KeyInType
<1> QED
  BY <1>1 DEF Machine, KeyStep

\* The equation that defines KeysIn has a solution.
LEMMA KeysInFeeds == Feeds(DeviceStates, Bytes, KeyStep, KeysIn)
<1> DEFINE Eq(f) == f = [x \in DeviceStates \X Seq(Bytes) |->
                            IF x[2] = <<>> THEN x[1]
                            ELSE f[<<KeyIn(x[1], Head(x[2])), Tail(x[2])>>]]
<1>1. ASSUME NEW x \in DeviceStates \X Seq(Bytes), x[2] # <<>>
      PROVE  KeyStep[<<x[1], Head(x[2])>>] = KeyIn(x[1], Head(x[2]))
  <2>1. x[1] \in DeviceStates /\ Head(x[2]) \in Bytes
    BY <1>1
  <2> QED
    BY <2>1, KeyStepIs
<1>2. ASSUME NEW f
      PROVE  Feeds(DeviceStates, Bytes, KeyStep, f) <=> Eq(f)
  <2>1. \A x \in DeviceStates \X Seq(Bytes) :
          (IF x[2] = <<>> THEN x[1] ELSE f[<<KeyStep[<<x[1], Head(x[2])>>], Tail(x[2])>>]) =
          (IF x[2] = <<>> THEN x[1] ELSE f[<<KeyIn(x[1], Head(x[2])), Tail(x[2])>>])
    BY <1>1, Zenon
  <2>2. [x \in DeviceStates \X Seq(Bytes) |->
           IF x[2] = <<>> THEN x[1] ELSE f[<<KeyStep[<<x[1], Head(x[2])>>], Tail(x[2])>>]] =
        [x \in DeviceStates \X Seq(Bytes) |->
           IF x[2] = <<>> THEN x[1] ELSE f[<<KeyIn(x[1], Head(x[2])), Tail(x[2])>>]]
    BY <2>1, Zenon
  <2> QED
    BY <2>2, Zenon DEF Feeds
<1>3. \E f : Eq(f)
  <2>1. PICK f : Feeds(DeviceStates, Bytes, KeyStep, f)
    BY KeyStepIs, FeedExists
  <2> QED
    BY <1>2, <2>1, Zenon
<1>4. KeysIn = CHOOSE f : Eq(f)
  BY Zenon DEF KeysIn, Bytes
<1>5. Eq(KeysIn)
  <2> HIDE DEF Eq
  <2> QED
    BY <1>3, <1>4
<1> QED
  BY <1>2, <1>5, Zenon


-----------------------------------------------------------------------------
(***************************************************************************)
(* The circular buffer.                                                    *)
(***************************************************************************)
\* How many characters wait between two positions, and where the k-th is.
Count(r, w) == IF r <= w THEN w - r ELSE (w + ConsBufSize) - r
Place(r, k) == IF (r + k) - 1 < ConsBufSize THEN (r + k) - 1 ELSE ((r + k) - 1) - ConsBufSize

Positions == 0 .. ConsBufSize - 1

\* The remainders in Buffered only go round once.
LEMMA BufferedIs ==
    ASSUME NEW bf \in Buffers
    PROVE  /\ Count(bf.rpos, bf.wpos) \in Positions
           /\ \A k \in 1 .. Count(bf.rpos, bf.wpos) : Place(bf.rpos, k) \in Positions
           /\ Buffered(bf) = [k \in 1 .. Count(bf.rpos, bf.wpos) |-> bf.buf[Place(bf.rpos, k)]]
<1>1. PICK r, w, N : r = bf.rpos /\ w = bf.wpos /\ N = ConsBufSize
  OBVIOUS
<1>2. r \in 0 .. N - 1 /\ w \in 0 .. N - 1 /\ N \in Nat \ {0, 1}
  BY <1>1, ConsoleAssumption DEF Buffers
<1>3. \A d \in 0 .. N - 1 : d % N = d
  BY <1>2
<1>4. \A d \in 0 .. N - 1 : (d + N) % N = d
  BY <1>2
<1>5. (w + N - r) % N = Count(r, w) /\ Count(r, w) \in 0 .. N - 1
  <2>1. CASE r <= w
    <3>1. w - r \in 0 .. N - 1 /\ w + N - r = (w - r) + N
      BY <1>2, <2>1
    <3> QED
      BY <1>1, <1>4, <2>1, <3>1 DEF Count
  <2>2. CASE ~(r <= w)
    <3>1. (w + N) - r \in 0 .. N - 1 /\ w + N - r = (w + N) - r
      BY <1>2, <2>2
    <3> QED
      BY <1>1, <1>3, <2>2, <3>1 DEF Count
  <2> QED
    BY <2>1, <2>2
<1>6. ASSUME NEW k \in 1 .. Count(r, w)
      PROVE  (r + k - 1) % N = Place(r, k) /\ Place(r, k) \in 0 .. N - 1
  <2>1. k \in 1 .. N - 1
    BY <1>2, <1>5
  <2>2. CASE (r + k) - 1 < N
    <3>1. (r + k) - 1 \in 0 .. N - 1 /\ r + k - 1 = (r + k) - 1
      BY <1>2, <2>1, <2>2
    <3> QED
      BY <1>1, <1>3, <2>2, <3>1 DEF Place
  <2>3. CASE ~((r + k) - 1 < N)
    <3>1. ((r + k) - 1) - N \in 0 .. N - 1 /\ r + k - 1 = (((r + k) - 1) - N) + N
      BY <1>2, <2>1, <2>3
    <3> QED
      BY <1>1, <1>4, <2>3, <3>1 DEF Place
  <2> QED
    BY <2>2, <2>3
<1>7. Buffered(bf) = [k \in 1 .. Count(r, w) |-> bf.buf[Place(r, k)]]
  <2>1. Buffered(bf) = [k \in 1 .. (w + N - r) % N |-> bf.buf[(r + k - 1) % N]]
    BY <1>1 DEF Buffered
  <2> QED
    BY <1>5, <1>6, <2>1
<1> QED
  BY <1>1, <1>5, <1>6, <1>7 DEF Positions

\* What waits is a sequence of at most ConsBufSize - 1 characters.
LEMMA BufferedType ==
    ASSUME NEW bf \in Buffers
    PROVE  /\ Buffered(bf) \in Seq(Chars) /\ Len(Buffered(bf)) = Count(bf.rpos, bf.wpos)
           /\ Len(Buffered(bf)) < ConsBufSize
<1>1. PICK n : n = Count(bf.rpos, bf.wpos)
  OBVIOUS
<1>2. n \in Nat /\ n < ConsBufSize
  BY <1>1, BufferedIs, ConsoleAssumption DEF Positions
<1>3. /\ \A k \in 1 .. n : Place(bf.rpos, k) \in Positions
      /\ Buffered(bf) = [k \in 1 .. n |-> bf.buf[Place(bf.rpos, k)]]
  BY <1>1, BufferedIs
<1>4. \A k \in 1 .. n : bf.buf[Place(bf.rpos, k)] \in Chars
  BY <1>3 DEF Buffers, Positions, Chars
<1> QED
  BY <1>1, <1>2, <1>3, <1>4

\* cons_intr adds a character behind the others, as long as there is room.
LEMMA StoreAppends ==
    ASSUME NEW bf \in Buffers, NEW c \in Characters, Len(Buffered(bf)) < ConsBufSize - 1
    PROVE  Buffered(Store(bf, c)) = Append(Buffered(bf), c)
<1>1. PICK r, w, n, sf, v :
        /\ r = bf.rpos /\ w = bf.wpos /\ n = Count(r, w) /\ sf = Store(bf, c) /\ v = Advance(w)
  OBVIOUS
<1>2. /\ r \in Positions /\ w \in Positions /\ ConsBufSize \in Nat \ {0, 1}
      /\ n \in Nat /\ n + 1 < ConsBufSize /\ Len(Buffered(bf)) = n
  BY <1>1, BufferedType, BufferedIs, ConsoleAssumption DEF Buffers, Positions
<1>3. v \in Positions /\ Count(r, v) = n + 1 /\ Place(r, n + 1) = w
  <2>1. PICK N : N = ConsBufSize
    OBVIOUS
  <2>2. /\ r \in 0 .. N - 1 /\ w \in 0 .. N - 1 /\ N \in Nat \ {0, 1} /\ n \in Nat /\ n + 1 < N
        /\ n = (IF r <= w THEN w - r ELSE (w + N) - r) /\ v = (IF w + 1 = N THEN 0 ELSE w + 1)
    BY <1>1, <1>2, <2>1 DEF Positions, Count, Advance
  <2>3. v \in 0 .. N - 1 /\ (IF r <= v THEN v - r ELSE (v + N) - r) = n + 1
    BY <2>2
  <2>4. (IF (r + (n + 1)) - 1 < N THEN (r + (n + 1)) - 1 ELSE ((r + (n + 1)) - 1) - N) = w
    BY <2>2
  <2> QED
    BY <2>1, <2>3, <2>4 DEF Positions, Count, Place
<1>4. \A k \in 1 .. n : Place(r, k) \in Positions /\ Place(r, k) # w
  <2> TAKE k \in 1 .. n
  <2>1. PICK N : N = ConsBufSize
    OBVIOUS
  <2>2. /\ r \in 0 .. N - 1 /\ w \in 0 .. N - 1 /\ N \in Nat \ {0, 1} /\ n \in Nat /\ n + 1 < N
        /\ n = (IF r <= w THEN w - r ELSE (w + N) - r)
    BY <1>1, <1>2, <2>1 DEF Positions, Count
  <2>3. PICK p : p = IF (r + k) - 1 < N THEN (r + k) - 1 ELSE ((r + k) - 1) - N
    OBVIOUS
  <2>4. p \in 0 .. N - 1 /\ p # w
    BY <2>2, <2>3
  <2> QED
    BY <2>1, <2>3, <2>4 DEF Positions, Place
<1>5. /\ sf \in Buffers /\ sf.rpos = r /\ sf.wpos = v /\ sf.buf[w] = c
      /\ \A p \in Positions : p # w => sf.buf[p] = bf.buf[p]
  <2>1. c # NO /\ c \in Chars
    BY DEF Characters, NO, Chars
  <2>2. sf = [bf EXCEPT !.buf[bf.wpos] = c, !.wpos = Advance(@)]
    BY <1>1, <2>1 DEF Store
  <2> QED
    BY <1>1, <1>2, <2>1, <2>2, StoreType DEF Buffers, Positions
<1>6. Buffered(sf) = [k \in 1 .. n + 1 |-> sf.buf[Place(r, k)]]
  BY <1>3, <1>5, BufferedIs
<1>7. Buffered(bf) \in Seq(Chars) /\ Buffered(bf) = [k \in 1 .. n |-> bf.buf[Place(r, k)]]
  BY <1>1, BufferedIs, BufferedType
<1>8. \A k \in 1 .. n + 1 :
        sf.buf[Place(r, k)] = IF k = n + 1 THEN c ELSE bf.buf[Place(r, k)]
  BY <1>2, <1>3, <1>4, <1>5
<1>9. PICK q, t : q = Buffered(bf) /\ t = Buffered(sf)
  OBVIOUS
<1>10. /\ q \in Seq(Chars) /\ Len(q) = n /\ \A k \in 1 .. n : q[k] = bf.buf[Place(r, k)]
       /\ t \in Seq(Chars) /\ Len(t) = n + 1 /\ \A k \in 1 .. n + 1 : t[k] = sf.buf[Place(r, k)]
  BY <1>2, <1>3, <1>5, <1>6, <1>7, <1>9, BufferedType
<1>11. /\ Append(q, c) \in Seq(Chars) /\ Len(Append(q, c)) = Len(t)
       /\ \A k \in 1 .. Len(t) : Append(q, c)[k] = IF k = n + 1 THEN c ELSE q[k]
  BY <1>2, <1>10 DEF Chars
<1>12. \A k \in 1 .. Len(t) : Append(q, c)[k] = t[k]
  <2> TAKE k \in 1 .. Len(t)
  <2>1. k \in 1 .. n + 1 /\ (k # n + 1 => k \in 1 .. n)
    BY <1>2, <1>10
  <2> QED
    BY <1>8, <1>10, <1>11, <2>1
<1>13. Append(q, c) = t
  BY <1>10, <1>11, <1>12, SeqEqual
<1> QED
  BY <1>1, <1>9, <1>13

\* cons_getc and cons_getc2 take the first character.
LEMMA TakeFirst ==
    ASSUME NEW bf \in Buffers, bf.rpos # bf.wpos
    PROVE  /\ [bf EXCEPT !.rpos = Advance(@)] \in Buffers /\ Buffered(bf) # <<>>
           /\ Buffered([bf EXCEPT !.rpos = Advance(@)]) = Tail(Buffered(bf))
<1>1. PICK r, w, n, tf, v :
        /\ r = bf.rpos /\ w = bf.wpos /\ n = Count(r, w)
        /\ tf = [bf EXCEPT !.rpos = Advance(@)] /\ v = Advance(r)
  OBVIOUS
<1>2. /\ r \in Positions /\ w \in Positions /\ ConsBufSize \in Nat \ {0, 1} /\ r # w
      /\ Len(Buffered(bf)) = n
  BY <1>1, BufferedType, ConsoleAssumption DEF Buffers, Positions
<1>3. n \in 1 .. ConsBufSize - 1 /\ v \in Positions /\ Count(v, w) = n - 1
  <2>1. PICK N : N = ConsBufSize
    OBVIOUS
  <2>2. /\ N \in Nat \ {0, 1} /\ r \in 0 .. N - 1 /\ w \in 0 .. N - 1 /\ r # w
        /\ n = IF r <= w THEN w - r ELSE (w + N) - r
        /\ v = IF r + 1 = N THEN 0 ELSE r + 1
    BY <1>1, <1>2, <2>1 DEF Positions, Advance, Count
  <2>3. /\ n \in 1 .. N - 1 /\ v \in 0 .. N - 1
        /\ n - 1 = IF v <= w THEN w - v ELSE (w + N) - v
    BY <2>2
  <2> QED
    BY <2>1, <2>3 DEF Positions, Count
<1>4. \A k \in 1 .. n - 1 : Place(v, k) = Place(r, k + 1)
  <2> TAKE k \in 1 .. n - 1
  <2>1. PICK N : N = ConsBufSize
    OBVIOUS
  <2>2. /\ r \in 0 .. N - 1 /\ N \in Nat \ {0, 1} /\ n \in 1 .. N - 1
        /\ v = (IF r + 1 = N THEN 0 ELSE r + 1)
    BY <1>1, <1>2, <1>3, <2>1 DEF Positions, Advance
  <2>3. (IF (v + k) - 1 < N THEN (v + k) - 1 ELSE ((v + k) - 1) - N) =
        (IF (r + (k + 1)) - 1 < N THEN (r + (k + 1)) - 1 ELSE ((r + (k + 1)) - 1) - N)
    BY <2>2
  <2> QED
    BY <2>1, <2>3 DEF Place
<1>5. tf \in Buffers /\ tf.rpos = v /\ tf.wpos = w /\ tf.buf = bf.buf
  BY <1>1, <1>3 DEF Buffers, Positions
<1>6. Buffered(tf) = [k \in 1 .. n - 1 |-> bf.buf[Place(v, k)]]
  BY <1>3, <1>5, BufferedIs
<1>7. PICK q : q = Buffered(bf)
  OBVIOUS
<1>8. q \in Seq(Chars) /\ Len(q) = n /\ \A k \in 1 .. n : q[k] = bf.buf[Place(r, k)]
  BY <1>1, <1>2, <1>7, BufferedIs, BufferedType
<1>9. /\ q # <<>> /\ Tail(q) \in Seq(Chars) /\ Len(Tail(q)) = n - 1
      /\ \A k \in 1 .. n - 1 : Tail(q)[k] = q[k + 1]
  BY <1>3, <1>8
<1>10. PICK t : t = Buffered(tf)
  OBVIOUS
<1>11. t \in Seq(Chars) /\ Len(t) = n - 1 /\ \A k \in 1 .. n - 1 : t[k] = bf.buf[Place(v, k)]
  BY <1>3, <1>5, <1>6, <1>10, BufferedType
<1>12. \A k \in 1 .. Len(t) : Tail(q)[k] = t[k]
  <2> TAKE k \in 1 .. Len(t)
  <2>1. k \in 1 .. n - 1 /\ k + 1 \in 1 .. n
    BY <1>3, <1>11
  <2> QED
    BY <1>4, <1>8, <1>9, <1>11, <2>1
<1>13. Tail(q) = t
  BY <1>9, <1>11, <1>12, SeqEqual
<1> QED
  BY <1>1, <1>5, <1>7, <1>9, <1>10, <1>13


-----------------------------------------------------------------------------
(***************************************************************************)
(* Characters come out as they went in.                                    *)
(***************************************************************************)
\* The buffer of d holds w and what was got since, unless that is too much.
InOrder(w, d) == Len(w \o d.got) < ConsBufSize => Buffered(d.cons) = w \o d.got

\* A character is got and stored at the same time.
LEMMA StoredInOrder ==
    ASSUME NEW w \in Seq(Characters), NEW d \in DeviceStates, NEW e \in DeviceStates,
           NEW c \in Characters, InOrder(w, d),
           e.cons = Store(d.cons, c), e.got = Append(d.got, c)
    PROVE  InOrder(w, e)
<1>1. PICK g, bf : g = d.got /\ bf = d.cons
  OBVIOUS
<1>2. g \in Seq(Characters) /\ bf \in Buffers
  BY <1>1 DEF DeviceStates
<1>3. /\ w \o Append(g, c) = Append(w \o g, c)
      /\ Len(w \o Append(g, c)) = Len(w \o g) + 1 /\ Len(w \o g) \in Nat
  BY <1>2
<1>4. ASSUME Len(w \o Append(g, c)) < ConsBufSize
      PROVE  Buffered(Store(bf, c)) = w \o Append(g, c)
  <2>1. Len(w \o g) < ConsBufSize - 1 /\ Len(w \o g) < ConsBufSize
    BY <1>3, <1>4, ConsoleAssumption
  <2>2. Buffered(bf) = w \o g
    BY <1>1, <2>1 DEF InOrder
  <2>3. Buffered(Store(bf, c)) = Append(Buffered(bf), c)
    BY <1>2, <2>1, <2>2, StoreAppends
  <2> QED
    BY <1>3, <2>2, <2>3
<1> QED
  BY <1>1, <1>4 DEF InOrder

\* serial_intr.
LEMMA SerialInOrder ==
    ASSUME NEW w \in Seq(Characters), NEW d \in DeviceStates, InOrder(w, d)
    PROVE  InOrder(w, SerialIn(d))
<1>1. CASE SerialExists /\ d.serial # NO
  <2>1. PICK e, c : e = SerialIn(d) /\ c = d.serial
    OBVIOUS
  <2>2. /\ e \in DeviceStates /\ c \in Characters
        /\ e.cons = Store(d.cons, c) /\ e.got = Append(d.got, c)
    BY <1>1, <2>1, SerialInType DEF SerialIn, DeviceStates
  <2> QED
    BY <2>1, <2>2, StoredInOrder
<1>2. CASE ~(SerialExists /\ d.serial # NO)
  BY <1>2 DEF SerialIn
<1> QED
  BY <1>1, <1>2

\* kbd_intr for one byte.
LEMMA KeyInOrder ==
    ASSUME NEW w \in Seq(Characters), NEW d \in DeviceStates, NEW b \in Bytes, InOrder(w, d)
    PROVE  InOrder(w, KeyIn(d, b))
<1>1. PICK e, k : e = KeyIn(d, b) /\ k = kbd_proc_data(d.shift, b)
  OBVIOUS
<1>2. e \in DeviceStates /\ k.c \in Chars
  BY <1>1, KeyInType, KbdType DEF DeviceStates
<1>3. /\ e.cons = Store(d.cons, k.c)
      /\ e.got = IF k.c = NO THEN d.got ELSE Append(d.got, k.c)
  BY <1>1 DEF KeyIn, DeviceStates
<1>4. CASE k.c = NO
  BY <1>1, <1>3, <1>4 DEF InOrder, Store
<1>5. CASE k.c # NO
  <2>1. k.c \in Characters
    BY <1>2, <1>5 DEF Chars
  <2> QED
    BY <1>1, <1>2, <1>3, <1>5, <2>1, StoredInOrder
<1> QED
  BY <1>4, <1>5

\* kbd_intr for all the bytes there are.
LEMMA KeysInOrder ==
    ASSUME NEW w \in Seq(Characters), NEW d \in DeviceStates, NEW s \in Seq(Bytes)
    PROVE  KeysIn[<<d, s>>] \in DeviceStates /\ (InOrder(w, d) => InOrder(w, KeysIn[<<d, s>>]))
<1>1. PICK C : IsRun(DeviceStates, KeyStep, d, s, C)
  BY KeyStepIs, RunExists
<1>2. KeysIn[<<d, s>>] = C[Len(s)]
  BY <1>1, KeyStepIs, KeysInFeeds, FeedEnds
<1>3. Len(s) \in Nat /\ \A n \in 0 .. Len(s) : C[n] \in DeviceStates
  <2>1. Len(s) \in Nat
    OBVIOUS
  <2>2. C \in [0 .. Len(s) -> DeviceStates]
    BY <1>1, Zenon DEF IsRun
  <2> QED
    BY <2>1, <2>2, Zenon
<1>4. ASSUME InOrder(w, d) PROVE InOrder(w, C[Len(s)])
  <2> DEFINE S == {n \in 0 .. Len(s) : InOrder(w, C[n])}
  <2>1. 0 \in S
    BY <1>1, <1>3, <1>4 DEF IsRun
  <2>2. ASSUME NEW n \in 1 .. Len(s), n - 1 \in S PROVE n \in S
    <3>1. PICK e, b : e = C[n - 1] /\ b = s[n]
      OBVIOUS
    <3>2. e \in DeviceStates /\ b \in Bytes /\ InOrder(w, e)
      BY <1>3, <2>2, <3>1
    <3>3. C[n] = KeyStep[<<e, b>>]
      BY <1>1, <3>1, Zenon DEF IsRun
    <3>4. C[n] = KeyIn(e, b)
      BY <3>2, <3>3, KeyStepIs
    <3>5. InOrder(w, C[n])
      BY <3>2, <3>4, KeyInOrder
    <3> QED
      BY <1>3, <3>5
  <2>3. \A n \in 0 .. Len(s) : n \in S
    <3> HIDE DEF S
    <3> QED
      BY <1>3, <2>1, <2>2, SetInduction
  <2> QED
    BY <1>3, <2>3
<1> QED
  BY <1>2, <1>3, <1>4

BufInv ==
    /\ fifo \in Seq(Bytes) /\ serial \in Chars /\ shift \in SUBSET Modes /\ cons \in Buffers
    /\ waiting \in Seq(Characters) /\ overrun \in BOOLEAN
    /\ InputInOrder

\* The end of cons_getc and of cons_getc2.
LEMMA PolledInv ==
    ASSUME BufInv, NEW d \in DeviceStates, overrun \/ InOrder(waiting, d),
           NEW c, c # NO => d.cons.rpos # d.cons.wpos, Polled(d, c), fifo' \in Seq(Bytes)
    PROVE  BufInv'
<1>1. PICK q, tf : q = waiting \o d.got /\ tf = [d.cons EXCEPT !.rpos = Advance(@)]
  OBVIOUS
<1>2. /\ q \in Seq(Characters) /\ d.cons \in Buffers /\ d.serial \in Chars
      /\ d.shift \in SUBSET Modes
  BY <1>1 DEF BufInv, DeviceStates, Chars
<1>3. /\ serial' = d.serial /\ shift' = d.shift /\ cons' = IF c = NO THEN d.cons ELSE tf
      /\ overrun' = (overrun \/ Len(q) >= ConsBufSize)
      /\ waiting' = IF overrun' THEN <<>> ELSE IF c = NO THEN q ELSE Tail(q)
  BY <1>1 DEF Polled
<1>4. ASSUME c # NO
      PROVE  tf \in Buffers /\ Buffered(d.cons) # <<>> /\ Buffered(tf) = Tail(Buffered(d.cons))
  BY <1>1, <1>2, <1>4, TakeFirst
<1>5. cons' \in Buffers /\ overrun' \in BOOLEAN
  BY <1>2, <1>3, <1>4
<1>6. CASE overrun'
  BY <1>2, <1>3, <1>5, <1>6 DEF BufInv, InputInOrder
<1>7. CASE ~overrun'
  <2>1. Len(q) < ConsBufSize /\ ~overrun
    <3>1. ~overrun /\ ~(Len(q) >= ConsBufSize)
      BY <1>3, <1>7, Zenon
    <3> QED
      BY <1>2, <3>1, ConsoleAssumption
  <2>2. Buffered(d.cons) = q
    BY <1>1, <2>1 DEF InOrder
  <2>3. CASE c = NO
    BY <1>2, <1>3, <1>5, <1>7, <2>2, <2>3 DEF BufInv, InputInOrder
  <2>4. CASE c # NO
    <3>1. Tail(q) \in Seq(Characters)
      BY <1>2, <1>4, <2>2, <2>4
    <3> QED
      BY <1>2, <1>3, <1>4, <1>5, <1>7, <2>2, <2>4, <3>1 DEF BufInv, InputInOrder
  <2> QED
    BY <2>3, <2>4
<1> QED
  BY <1>6, <1>7


\* The bytes of a key: one when it goes down and one when it goes up, each
\* after E0 if it is one of the keys the larger keyboard has twice or adds.
PlainCodes == {14, 15, 19, 28, 29, 42, 50, 54, 56, 58}
ExtendedCodes == {29, 56, 72, 80, 83}
IsPlain(k, b) == b \in PlainCodes /\ Make(k) = <<b>> /\ Break(k) = <<b + 128>>
IsExtended(k, b) == b \in ExtendedCodes /\ Make(k) = <<224, b>> /\ Break(k) = <<224, b + 128>>

\* Every key sends one code, or E0 and one code, and 128 more when it goes up.
LEMMA KeyCodes ==
    ASSUME NEW k \in DOMAIN scancode
    PROVE  \E b \in 0 .. 127 : IsPlain(k, b) \/ IsExtended(k, b)
<1>1. /\ k \in {"r", "m", "BS", "TAB", "ENTER", "LSHIFT", "RSHIFT", "LCTL", "ALT", "CAPS"} =>
           \E b \in PlainCodes : Make(k) = <<b>>
      /\ k \in {"UP", "DOWN", "DEL", "RCTL", "RALT"} =>
           \E b \in ExtendedCodes : Make(k) = <<224, b>>
      /\ k \in {"r", "m", "BS", "TAB", "ENTER", "LSHIFT", "RSHIFT", "LCTL", "ALT", "CAPS"}
               \cup {"UP", "DOWN", "DEL", "RCTL", "RALT"}
  BY DEF Make, scancode, PlainCodes, ExtendedCodes
<1>2. ASSUME NEW b \in PlainCodes, Make(k) = <<b>> PROVE IsPlain(k, b)
  <2>1. PICK q : q = <<b>>
    OBVIOUS
  <2>2. Len(q) = 1 /\ DOMAIN q = 1 .. 1 /\ q[1] = b
    BY <2>1
  <2>3. Break(k) = [n \in 1 .. 1 |-> IF n = 1 THEN q[n] + 128 ELSE q[n]]
    BY <1>2, <2>1, <2>2 DEF Break
  <2>4. Break(k) = <<b + 128>>
    BY <2>2, <2>3
  <2> QED
    BY <1>2, <2>4 DEF IsPlain
<1>3. ASSUME NEW b \in ExtendedCodes, Make(k) = <<224, b>> PROVE IsExtended(k, b)
  <2>1. PICK q : q = <<224, b>>
    OBVIOUS
  <2>2. Len(q) = 2 /\ DOMAIN q = 1 .. 2 /\ q[1] = 224 /\ q[2] = b
    BY <2>1
  <2>3. Break(k) = [n \in 1 .. 2 |-> IF n = 2 THEN q[n] + 128 ELSE q[n]]
    BY <1>3, <2>1, <2>2 DEF Break
  <2>4. Break(k) = <<224, b + 128>>
    BY <2>2, <2>3
  <2> QED
    BY <1>3, <2>4 DEF IsExtended
<1>4. PlainCodes \subseteq 0 .. 127 /\ ExtendedCodes \subseteq 0 .. 127
  BY DEF PlainCodes, ExtendedCodes
<1> QED
  BY <1>1, <1>2, <1>3, <1>4

\* They are bytes.
LEMMA KeyBytes ==
    ASSUME NEW k \in DOMAIN scancode
    PROVE  Make(k) \in Seq(Bytes) /\ Break(k) \in Seq(Bytes)
<1>1. PICK b \in 0 .. 127 : IsPlain(k, b) \/ IsExtended(k, b)
  BY KeyCodes
<1>2. b \in Bytes /\ b + 128 \in Bytes /\ 224 \in Bytes
  BY DEF Bytes
<1>3. <<b>> \in Seq(Bytes) /\ <<b + 128>> \in Seq(Bytes)
  BY <1>2
<1>4. <<224, b>> \in Seq(Bytes) /\ <<224, b + 128>> \in Seq(Bytes)
  BY <1>2
<1> QED
  BY <1>1, <1>3, <1>4, Zenon DEF IsPlain, IsExtended

\* At boot the buffer is empty and nothing waits.
LEMMA BufInit == ConsoleInit => BufInv
<1> SUFFICES ASSUME ConsoleInit PROVE BufInv
  OBVIOUS
<1>1. cons \in Buffers /\ cons.rpos = 0 /\ cons.wpos = 0
  BY ConsoleAssumption DEF ConsoleInit, Buffers
<1>2. Buffered(cons) = <<>>
  <2>1. Len(Buffered(cons)) = 0 /\ Buffered(cons) \in Seq(Chars)
    BY <1>1, BufferedType DEF Count
  <2> QED
    BY <2>1
<1>3. fifo \in Seq(Bytes) /\ waiting \in Seq(Characters)
  BY DEF ConsoleInit
<1> QED
  BY <1>1, <1>2, <1>3 DEF ConsoleInit, BufInv, InputInOrder, Chars

\* What both readers start from.
LEMMA DevicesFacts ==
    ASSUME BufInv
    PROVE  /\ Devices \in DeviceStates /\ SerialIn(Devices) \in DeviceStates
           /\ SerialIn(Devices).shift = shift
           /\ overrun \/ InOrder(waiting, SerialIn(Devices))
<1>1. PICK d : d = Devices
  OBVIOUS
<1>2. d \in DeviceStates /\ d.got = <<>> /\ d.cons = cons /\ d.shift = shift
  BY <1>1 DEF Devices, DeviceStates, BufInv, Chars
<1>3. SerialIn(d).shift = d.shift
  BY <1>2 DEF SerialIn, DeviceStates
<1>4. overrun \/ InOrder(waiting, d)
  BY <1>2 DEF InOrder, BufInv, InputInOrder
<1> QED
  BY <1>1, <1>2, <1>3, <1>4, SerialInType, SerialInOrder DEF BufInv

\* The devices as cons_getc and cons_getc2 leave them.
LEMMA PollFacts ==
    ASSUME BufInv
    PROVE  /\ PromptPoll \in DeviceStates /\ (overrun \/ InOrder(waiting, PromptPoll))
           /\ ProgramPoll \in DeviceStates /\ (overrun \/ InOrder(waiting, ProgramPoll))
<1>1. PICK d, w, s : d = SerialIn(Devices) /\ w = waiting /\ s = fifo
  OBVIOUS
<1>2. d \in DeviceStates /\ w \in Seq(Characters) /\ s \in Seq(Bytes) /\ (overrun \/ InOrder(w, d))
  BY <1>1, DevicesFacts DEF BufInv
<1>3. PromptPoll = KeysIn[<<d, s>>] /\ ProgramPoll = IF s = <<>> THEN d ELSE KeyIn(d, Head(s))
  BY <1>1 DEF PromptPoll, ProgramPoll
<1>4. KeysIn[<<d, s>>] \in DeviceStates /\ (overrun \/ InOrder(w, KeysIn[<<d, s>>]))
  BY <1>2, KeysInOrder
<1>5. ASSUME s # <<>> PROVE KeyIn(d, Head(s)) \in DeviceStates /\ (overrun \/ InOrder(w, KeyIn(d, Head(s))))
  <2>1. Head(s) \in Bytes
    BY <1>2, <1>5
  <2> QED
    BY <1>2, <2>1, KeyInType, KeyInOrder
<1> QED
  BY <1>1, <1>2, <1>3, <1>4, <1>5

\* Every step keeps the invariant of the buffer.
LEMMA BufStep ==
    ASSUME BufInv, [ConsoleNext]_consoleVars
    PROVE  BufInv'
<1>1. ASSUME NEW k \in DOMAIN scancode, NEW q \in {Make(k), Break(k), Make(k) \o Break(k)},
             fifo' = fifo \o q, UNCHANGED <<serial, reading>>
      PROVE  BufInv'
  <2>1. q \in Seq(Bytes)
    <3>1. Make(k) \in Seq(Bytes) /\ Break(k) \in Seq(Bytes)
      BY KeyBytes
    <3>2. PICK m, n : m = Make(k) /\ n = Break(k)
      OBVIOUS
    <3>3. m \in Seq(Bytes) /\ n \in Seq(Bytes) /\ m \o n \in Seq(Bytes)
      BY <3>1, <3>2
    <3> QED
      BY <3>2, <3>3, Zenon
  <2> QED
    BY <1>1, <2>1 DEF BufInv, reading, InputInOrder
<1>2. CASE \E k \in Keys : Strike(k)
  BY <1>1, <1>2, KeyAssumption DEF Strike, Send
<1>3. CASE \E k \in Modifiers : Hold(k)
  BY <1>1, <1>3, KeyAssumption DEF Hold, Send
<1>4. CASE \E k \in Modifiers : LetGo(k)
  BY <1>1, <1>4, KeyAssumption DEF LetGo
<1>5. CASE SerialReceive
  BY <1>5 DEF SerialReceive, BufInv, reading, InputInOrder, Chars, Characters
<1>6. CASE PromptGetc
  <2>1. PICK d : /\ d = PromptPoll
                 /\ \/ PromptWaits(d) \/ PromptTakes(d, NextChar(d)) \/ PromptEnter(d, NextChar(d))
                    \/ Polled(d, NO) /\ Reset(d)
    BY <1>6 DEF PromptGetc
  <2>2. PICK c : c \in {NO, NextChar(d)} /\ Polled(d, c)
    BY <2>1 DEF PromptWaits, PromptTakes, PromptEnter
  <2>3. c # NO => d.cons.rpos # d.cons.wpos
    BY <2>2 DEF NextChar
  <2>4. fifo' \in Seq(Bytes)
    BY <1>6 DEF PromptGetc
  <2> QED
    BY <2>1, <2>2, <2>3, <2>4, PollFacts, PolledInv
<1>7. CASE SysCgetc
  <2>1. PICK d, c : d = ProgramPoll /\ c \in {NO, NextChar(d)} /\ Polled(d, c)
    BY <1>7 DEF SysCgetc, ProgramTakes, ProgramEnter
  <2>2. c # NO => d.cons.rpos # d.cons.wpos
    BY <2>1 DEF NextChar
  <2>3. fifo' \in Seq(Bytes)
    BY <1>7 DEF SysCgetc, BufInv
  <2> QED
    BY <2>1, <2>2, <2>3, PollFacts, PolledInv
<1>8. CASE Off \/ UNCHANGED consoleVars
  BY <1>8 DEF Off, consoleVars, devices, reading, BufInv, InputInOrder
<1> QED
  BY <1>2, <1>3, <1>4, <1>5, <1>6, <1>7, <1>8 DEF ConsoleNext

\* The invariant of the buffer holds in every reachable state.
LEMMA BufHolds == ConsoleSpec => []BufInv
<1>1. ConsoleSpec => ConsoleInit /\ [][ConsoleNext]_consoleVars
  BY DEF ConsoleSpec
<1> QED
  BY <1>1, BufInit, BufStep, PTL

\* Whatever is typed, received and read, cons_getc and cons_getc2 return the
\* characters that kbd_intr and serial_intr stored in their order, none lost and
\* none twice, until CONSBUFSIZE of them have waited at once.
THEOREM InputOrdered == ConsoleSpec => []InputInOrder
<1>1. BufInv => InputInOrder
  BY DEF BufInv
<1> QED
  BY <1>1, BufHolds, PTL


-----------------------------------------------------------------------------
(***************************************************************************)
(* No modifier gets stuck.                                                 *)
(***************************************************************************)
\* kbd_proc_data's shift alone, fed with bytes.
ShiftStates == SUBSET Modes
ShiftStep == [y \in ShiftStates \X Bytes |-> kbd_proc_data(y[1], y[2]).shift]

\* ShiftStep is kbd_proc_data's new shift state.
LEMMA ShiftStepIs ==
    /\ Machine(ShiftStates, Bytes, ShiftStep)
    /\ \A S \in ShiftStates, b \in Bytes : ShiftStep[<<S, b>>] = kbd_proc_data(S, b).shift
<1>1. \A y \in ShiftStates \X Bytes : kbd_proc_data(y[1], y[2]).shift \in ShiftStates
  BY KbdType DEF ShiftStates
<1> QED
  BY <1>1 DEF Machine, ShiftStep

\* The modes m come on; caps lock apart, nothing else changes.
Adds(S, m, T) == T \ {"CAPSLOCK"} = (S \cup m) \ {"CAPSLOCK"}

\* The shift state of a key that goes down, between keys and after E0.
LEMMA KeyDown ==
    ASSUME NEW S \in ShiftStates, "E0ESC" \notin S, NEW b \in 0 .. 127,
           NEW E, E = S \cup {"E0ESC"}
    PROVE  /\ Adds(S, shiftcode(b), kbd_proc_data(S, b).shift)
           /\ Adds(S, shiftcode(b + 128), kbd_proc_data(E, b).shift)
<1>1. ASSUME NEW T, NEW c \in Int, NEW a \in Int, c = IF "E0ESC" \in T THEN a + 128 ELSE a, a \in 0 .. 127
      PROVE  kbd_proc_data(T, a).shift =
               LET down == (T \ {"E0ESC"}) \cup shiftcode(c)
               IN  (down \ togglecode(c)) \cup (togglecode(c) \ down)
  <2>1. ~(a = 224) /\ ~(a \in 128 .. 223 \cup 225 .. 255)
    BY <1>1
  <2> QED
    BY <1>1, <2>1 DEF kbd_proc_data
<1>2. \A c : togglecode(c) \subseteq {"CAPSLOCK"}
  BY DEF togglecode
<1>3. b \in Int /\ b + 128 \in Int
  OBVIOUS
<1>4. ASSUME NEW T, NEW c PROVE
        ((T \ togglecode(c)) \cup (togglecode(c) \ T)) \ {"CAPSLOCK"} = T \ {"CAPSLOCK"}
  BY <1>2
<1>5. kbd_proc_data(S, b).shift \ {"CAPSLOCK"} = (S \cup shiftcode(b)) \ {"CAPSLOCK"}
  <2>1. S \ {"E0ESC"} = S
    OBVIOUS
  <2> QED
    BY <1>1, <1>3, <1>4, <2>1
<1>6. kbd_proc_data(E, b).shift \ {"CAPSLOCK"}
        = (S \cup shiftcode(b + 128)) \ {"CAPSLOCK"}
  <2>1. E \ {"E0ESC"} = S /\ "E0ESC" \in E
    OBVIOUS
  <2> QED
    BY <1>1, <1>3, <1>4, <2>1
<1> QED
  BY <1>5, <1>6 DEF Adds

\* E0 was read; the modes of code b are off.
Escaped(S) == S \cup {"E0ESC"}
Without(S, b) == S \ shiftcode(b)

\* The mode a key is for, by its last byte.
LEMMA KeyMode ==
    ASSUME NEW k, NEW b \in 0 .. 127
    PROVE  /\ IsPlain(k, b) => Last(Make(k)) = b /\ b # 96
           /\ IsExtended(k, b) => /\ Last(Make(k)) = b /\ b # 96
                                  /\ shiftcode(b + 128) = shiftcode(Last(Make(k)))
<1>1. Last(<<b>>) = b /\ Last(<<224, b>>) = b
  BY DEF Last
<1>2. b \in ExtendedCodes => shiftcode(b + 128) = shiftcode(b)
  BY DEF shiftcode, ExtendedCodes
<1>3. 96 \notin PlainCodes \cup ExtendedCodes
  BY DEF PlainCodes, ExtendedCodes
<1>4. IsPlain(k, b) => Last(Make(k)) = b /\ b # 96
  BY <1>1, <1>3, Zenon DEF IsPlain
<1>5. IsExtended(k, b) => Last(Make(k)) = b /\ b # 96 /\ b \in ExtendedCodes
  BY <1>1, <1>3, Zenon DEF IsExtended
<1> QED
  BY <1>2, <1>4, <1>5, Zenon

\* A run of kbd_proc_data over s leads from S to T.
Leads(S, s, T) == LeadsTo(ShiftStates, ShiftStep, S, s, T)

\* Runs over one byte and over two.
LEMMA ShortLeads ==
    ASSUME NEW S \in ShiftStates, NEW a \in Bytes, NEW b \in Bytes
    PROVE  /\ Leads(S, <<a>>, ShiftStep[<<S, a>>])
           /\ Leads(S, <<a, b>>, ShiftStep[<<ShiftStep[<<S, a>>], b>>])
  BY ShiftStepIs, ShortRuns DEF Leads

\* A key goes down: its mode is on.
LEMMA MakeLeads ==
    ASSUME NEW S \in ShiftStates, "E0ESC" \notin S, NEW k \in DOMAIN scancode
    PROVE  \E T \in ShiftStates :
              Leads(S, Make(k), T) /\ Adds(S, shiftcode(Last(Make(k))), T)
<1>1. PICK b \in 0 .. 127 : IsPlain(k, b) \/ IsExtended(k, b)
  BY KeyCodes
<1>2. b \in Bytes /\ 224 \in Bytes /\ S \cup {"E0ESC"} \in ShiftStates
  BY DEF Bytes, ShiftStates, Modes
<1>3. CASE IsPlain(k, b)
  <2>1. PICK T : T = kbd_proc_data(S, b).shift
    OBVIOUS
  <2>2. T \in ShiftStates /\ ShiftStep[<<S, b>>] = T
    BY <1>2, <2>1, KbdType, ShiftStepIs DEF ShiftStates
  <2>3. Leads(S, <<b>>, T)
    BY <1>2, <2>2, ShortLeads
  <2>4. Leads(S, Make(k), T)
    BY <1>3, <2>3 DEF IsPlain
  <2>5. Adds(S, shiftcode(Last(Make(k))), T)
    <3>1. Adds(S, shiftcode(b), T)
      BY <2>1, KeyDown
    <3>2. Last(Make(k)) = b
      BY <1>3, KeyMode, Zenon
    <3> QED
      BY <3>1, <3>2, Zenon
  <2> QED
    BY <2>2, <2>4, <2>5
<1>4. CASE IsExtended(k, b)
  <2>1. PICK T : T = kbd_proc_data(S \cup {"E0ESC"}, b).shift
    OBVIOUS
  <2>2. /\ T \in ShiftStates /\ ShiftStep[<<S \cup {"E0ESC"}, b>>] = T
        /\ ShiftStep[<<S, 224>>] = S \cup {"E0ESC"}
    <3>1. kbd_proc_data(S, 224).shift = S \cup {"E0ESC"}
      BY DEF kbd_proc_data
    <3>2. T \in ShiftStates
      BY <1>2, <2>1, KbdType DEF ShiftStates
    <3> QED
      BY <1>2, <2>1, <3>1, <3>2, ShiftStepIs
  <2>3. Leads(S, <<224, b>>, T)
    <3>1. PICK z : z = 224
      OBVIOUS
    <3>2. b \in Bytes /\ z \in Bytes /\ ShiftStep[<<ShiftStep[<<S, z>>], b>>] = T
      BY <1>2, <2>2, <3>1
    <3>3. Leads(S, <<z, b>>, T)
      BY <3>2, ShortLeads
    <3> QED
      BY <3>1, <3>3
  <2>4. Leads(S, Make(k), T)
    BY <1>4, <2>3 DEF IsExtended
  <2>5. Adds(S, shiftcode(Last(Make(k))), T)
    <3>1. Adds(S, shiftcode(b + 128), T)
      <4>1. PICK E : E = S \cup {"E0ESC"}
        OBVIOUS
      <4>2. Adds(S, shiftcode(b + 128), kbd_proc_data(E, b).shift)
        BY <4>1, KeyDown
      <4> QED
        BY <2>1, <4>1, <4>2
    <3>2. shiftcode(b + 128) = shiftcode(Last(Make(k)))
      BY <1>4, KeyMode, Zenon
    <3> QED
      BY <3>1, <3>2, Zenon
  <2> QED
    BY <2>2, <2>4, <2>5
<1> QED
  BY <1>1, <1>3, <1>4

\* A key goes up: its mode is off.
LEMMA BreakLeads ==
    ASSUME NEW S \in ShiftStates, "E0ESC" \notin S, NEW k \in DOMAIN scancode
    PROVE  \E T \in ShiftStates :
              Leads(S, Break(k), T) /\ T = S \ shiftcode(Last(Make(k)))
<1>1. PICK b \in 0 .. 127 : IsPlain(k, b) \/ IsExtended(k, b)
  BY KeyCodes
<1>2. b # 96 /\ Last(Make(k)) = b
  BY <1>1, KeyMode, Zenon
<1>3. PICK r, z : r = b + 128 /\ z = 224
  OBVIOUS
<1>4. /\ r \in Bytes /\ z \in Bytes /\ Escaped(S) \in ShiftStates
      /\ Without(S, b) \in ShiftStates
  <2>1. r \in Bytes /\ z \in Bytes
    BY <1>3 DEF Bytes
  <2>2. Escaped(S) \in ShiftStates /\ Without(S, b) \in ShiftStates
    BY DEF ShiftStates, Modes, Escaped, Without
  <2> QED
    BY <2>1, <2>2
<1>5. /\ kbd_proc_data(S, z).shift = Escaped(S) /\ kbd_proc_data(S, r).shift = Without(S, b)
      /\ kbd_proc_data(Escaped(S), r).shift = Without(S, r)
  <2>1. kbd_proc_data(S, z).shift = Escaped(S)
    BY <1>3 DEF kbd_proc_data, Escaped
  <2>2. ~(r = 224) /\ r \in 128 .. 223 \cup 225 .. 255 /\ r % 128 = b
    BY <1>2, <1>3
  <2>3. \A T : kbd_proc_data(T, r).shift = ReleaseKey(T, r)
    BY <2>2 DEF kbd_proc_data
  <2>4. ReleaseKey(S, r) = Without(S, b)
    BY <2>2 DEF ReleaseKey, Without
  <2>5. ReleaseKey(Escaped(S), r) = Without(S, r)
    BY DEF ReleaseKey, Escaped, Without
  <2> QED
    BY <2>1, <2>3, <2>4, <2>5, Zenon
<1>6. /\ ShiftStep[<<S, z>>] = Escaped(S) /\ ShiftStep[<<S, r>>] = Without(S, b)
      /\ ShiftStep[<<Escaped(S), r>>] = Without(S, r)
  BY <1>4, <1>5, ShiftStepIs
<1>7. CASE IsPlain(k, b)
  <2>1. Break(k) = <<r>>
    BY <1>3, <1>7 DEF IsPlain
  <2>2. Leads(S, Break(k), Without(S, b))
    BY <1>4, <1>6, <2>1, ShortLeads
  <2> QED
    BY <1>2, <1>4, <2>2 DEF Without
<1>8. CASE IsExtended(k, b)
  <2>1. Break(k) = <<z, r>> /\ shiftcode(r) = shiftcode(b)
    BY <1>2, <1>3, <1>8, KeyMode DEF IsExtended
  <2>2. Without(S, r) = Without(S, b)
    BY <2>1 DEF Without
  <2>3. Leads(S, Break(k), Without(S, b))
    BY <1>4, <1>6, <2>1, <2>2, ShortLeads
  <2> QED
    BY <1>2, <1>4, <2>3 DEF Without
<1> QED
  BY <1>1, <1>7, <1>8


\* Nothing is on in S, caps lock apart, but what the keys in h are for.
HeldModes(h) == UNION {shiftcode(Last(Make(k))) : k \in h}
Settled(S, h) == S \ {"CAPSLOCK"} \subseteq HeldModes(h)

\* E0ESC is no key's mode.
LEMMA SettledNoEscape ==
    ASSUME NEW S, NEW h, Settled(S, h)
    PROVE  "E0ESC" \notin S
<1>1. \A d : "E0ESC" \notin shiftcode(d)
  BY DEF shiftcode
<1> QED
  BY <1>1 DEF Settled, HeldModes

\* Runs follow each other.
LEMMA LeadsJoin ==
    ASSUME NEW S \in ShiftStates, NEW s \in Seq(Bytes), NEW R, Leads(S, s, R),
           NEW t \in Seq(Bytes), NEW T, Leads(R, t, T)
    PROVE  Leads(S, s \o t, T)
  BY ShiftStepIs, LeadsOn DEF Leads

\* The bytes s bring what is settled with h down to what is settled with g.
Brings(s, h, g) ==
    \A S \in ShiftStates : Settled(S, h) => \E T \in ShiftStates : Leads(S, s, T) /\ Settled(T, g)

\* Bytes of one key after those of another.
LEMMA BringsJoin ==
    ASSUME NEW s \in Seq(Bytes), NEW t \in Seq(Bytes), NEW f, NEW g, NEW h,
           Brings(s, f, g), Brings(t, g, h)
    PROVE  Brings(s \o t, f, h)
<1> SUFFICES ASSUME NEW S \in ShiftStates, Settled(S, f)
             PROVE  \E T \in ShiftStates : Leads(S, s \o t, T) /\ Settled(T, h)
  BY DEF Brings
<1>1. PICK R \in ShiftStates : Leads(S, s, R) /\ Settled(R, g)
  BY DEF Brings
<1>2. PICK T \in ShiftStates : Leads(R, t, T) /\ Settled(T, h)
  BY <1>1 DEF Brings
<1>3. Leads(S, s \o t, T)
  BY <1>1, <1>2, LeadsJoin
<1> QED
  BY <1>2, <1>3

\* Keys that go down and up.
LEMMA KeyBrings ==
    ASSUME NEW h, NEW k \in DOMAIN scancode
    PROVE  /\ Brings(Make(k), h, h \cup {k})
           /\ Brings(Break(k), h, h \ {k})
           /\ Brings(Make(k) \o Break(k), h, h)
<1>1. Brings(Make(k), h, h \cup {k})
  <2> SUFFICES ASSUME NEW S \in ShiftStates, Settled(S, h)
               PROVE  \E T \in ShiftStates : Leads(S, Make(k), T) /\ Settled(T, h \cup {k})
    BY DEF Brings
  <2>1. PICK T \in ShiftStates : Leads(S, Make(k), T) /\ Adds(S, shiftcode(Last(Make(k))), T)
    BY SettledNoEscape, MakeLeads
  <2>2. Settled(T, h \cup {k})
    <3>1. HeldModes(h \cup {k}) = HeldModes(h) \cup shiftcode(Last(Make(k)))
      BY DEF HeldModes
    <3> QED
      BY <2>1, <3>1 DEF Adds, Settled
  <2> QED
    BY <2>1, <2>2
<1>2. ASSUME NEW g PROVE Brings(Break(k), g, g \ {k})
  <2> SUFFICES ASSUME NEW S \in ShiftStates, Settled(S, g)
               PROVE  \E T \in ShiftStates : Leads(S, Break(k), T) /\ Settled(T, g \ {k})
    BY DEF Brings
  <2>1. PICK T \in ShiftStates : Leads(S, Break(k), T) /\ T = S \ shiftcode(Last(Make(k)))
    BY SettledNoEscape, BreakLeads
  <2>2. Settled(T, g \ {k})
    <3>1. HeldModes(g) \subseteq HeldModes(g \ {k}) \cup shiftcode(Last(Make(k)))
      BY DEF HeldModes
    <3> QED
      BY <2>1, <3>1 DEF Settled
  <2> QED
    BY <2>1, <2>2
<1>3. Brings(Break(k), h \cup {k}, h)
  <2>1. \A T : Settled(T, (h \cup {k}) \ {k}) => Settled(T, h)
    BY DEF Settled, HeldModes
  <2>2. Brings(Break(k), h \cup {k}, (h \cup {k}) \ {k})
    BY <1>2
  <2> QED
    BY <2>1, <2>2 DEF Brings
<1> QED
  BY <1>1, <1>2, <1>3, KeyBytes, BringsJoin

\* The whole run of kbd_proc_data over the bytes that wait ends settled.
ShiftInv == \E T \in ShiftStates : Leads(shift, fifo, T) /\ Settled(T, held)

\* The typist adds bytes.
LEMMA TypedShift ==
    ASSUME BufInv, ShiftInv, NEW s \in Seq(Bytes), Brings(s, held, held'),
           fifo' = fifo \o s, shift' = shift
    PROVE  ShiftInv'
<1>1. PICK S, q, h, g : S = shift /\ q = fifo /\ h = held /\ g = held'
  OBVIOUS
<1>2. S \in ShiftStates /\ q \in Seq(Bytes)
  BY <1>1 DEF BufInv, ShiftStates
<1>3. PICK R \in ShiftStates : Leads(S, q, R) /\ Settled(R, h)
  BY <1>1 DEF ShiftInv
<1>4. PICK T \in ShiftStates : Leads(R, s, T) /\ Settled(T, g)
  BY <1>1, <1>3 DEF Brings
<1>5. Leads(S, q \o s, T)
  BY <1>2, <1>3, <1>4, LeadsJoin
<1> QED
  BY <1>1, <1>4, <1>5 DEF ShiftInv


\* The devices' shift goes the same way as kbd_proc_data's alone.
LEMMA KeysInShift ==
    ASSUME NEW d \in DeviceStates, NEW s \in Seq(Bytes), NEW T, Leads(d.shift, s, T)
    PROVE  KeysIn[<<d, s>>].shift = T
<1>1. PICK F : IsRun(ShiftStates, ShiftStep, d.shift, s, F) /\ F[Len(s)] = T
  BY DEF Leads, LeadsTo
<1>2. PICK C : IsRun(DeviceStates, KeyStep, d, s, C)
  BY KeyStepIs, RunExists
<1>3. KeysIn[<<d, s>>] = C[Len(s)]
  BY <1>2, KeyStepIs, KeysInFeeds, FeedEnds
<1>4. Len(s) \in Nat
  OBVIOUS
<1>5. C \in [0 .. Len(s) -> DeviceStates] /\ C[0] = d /\ F[0] = d.shift
  BY <1>1, <1>2, Zenon DEF IsRun
<1> DEFINE Q == {n \in 0 .. Len(s) : C[n].shift = F[n]}
<1>6. 0 \in Q
  BY <1>4, <1>5
<1>7. ASSUME NEW n \in 1 .. Len(s), n - 1 \in Q PROVE n \in Q
  <2>1. PICK e, b, S : e = C[n - 1] /\ b = s[n] /\ S = F[n - 1]
    OBVIOUS
  <2>2. e \in DeviceStates /\ b \in Bytes /\ e.shift = S /\ n \in 0 .. Len(s)
    BY <1>4, <1>5, <1>7, <2>1
  <2>3. C[n] = KeyStep[<<e, b>>] /\ F[n] = ShiftStep[<<S, b>>]
    BY <1>1, <1>2, <2>1, Zenon DEF IsRun
  <2>4. S \in ShiftStates
    BY <2>2 DEF DeviceStates, ShiftStates
  <2>5. C[n] = KeyIn(e, b) /\ F[n] = kbd_proc_data(S, b).shift
    BY <2>2, <2>3, <2>4, KeyStepIs, ShiftStepIs
  <2>6. KeyIn(e, b).shift = kbd_proc_data(e.shift, b).shift
    BY <2>2 DEF KeyIn, DeviceStates
  <2> QED
    BY <2>2, <2>5, <2>6
<1>8. \A n \in 0 .. Len(s) : n \in Q
  <2> HIDE DEF Q
  <2> QED
    BY <1>4, <1>6, <1>7, SetInduction
<1> QED
  BY <1>1, <1>3, <1>4, <1>8

\* cons_getc reads all the bytes.
LEMMA PromptShift ==
    ASSUME BufInv, ShiftInv, fifo' = <<>>, shift' = PromptPoll.shift, held' = held
    PROVE  ShiftInv'
<1>1. PICK d, q : d = SerialIn(Devices) /\ q = fifo
  OBVIOUS
<1>2. d \in DeviceStates /\ d.shift = shift /\ q \in Seq(Bytes)
  BY <1>1, DevicesFacts DEF BufInv
<1>3. PICK T \in ShiftStates : Leads(d.shift, q, T) /\ Settled(T, held)
  BY <1>1, <1>2 DEF ShiftInv
<1>4. shift' = T
  BY <1>1, <1>2, <1>3, KeysInShift DEF PromptPoll
<1>5. Leads(T, <<>>, T)
  BY ShiftStepIs, EmptyRun DEF Leads
<1> QED
  BY <1>3, <1>4, <1>5 DEF ShiftInv

\* cons_getc2 reads one byte, if there is one.
LEMMA ProgramShift ==
    ASSUME BufInv, ShiftInv, fifo' = (IF fifo = <<>> THEN <<>> ELSE Tail(fifo)),
           shift' = ProgramPoll.shift, held' = held
    PROVE  ShiftInv'
<1>1. PICK d, q, S : d = SerialIn(Devices) /\ q = fifo /\ S = shift
  OBVIOUS
<1>2. d \in DeviceStates /\ d.shift = S /\ q \in Seq(Bytes) /\ S \in ShiftStates
  BY <1>1, DevicesFacts DEF BufInv, ShiftStates
<1>3. PICK T \in ShiftStates : Leads(S, q, T) /\ Settled(T, held)
  BY <1>1, <1>2 DEF ShiftInv
<1>4. CASE q = <<>>
  <2>1. shift' = S /\ fifo' = q
    BY <1>1, <1>2, <1>4 DEF ProgramPoll
  <2> QED
    BY <1>3, <2>1 DEF ShiftInv
<1>5. CASE q # <<>>
  <2>1. PICK b, R, t : b = Head(q) /\ R = ShiftStep[<<S, Head(q)>>] /\ t = Tail(q)
    OBVIOUS
  <2>2. b \in Bytes /\ R = kbd_proc_data(S, b).shift
    <3>1. b \in Bytes
      BY <1>2, <1>5, <2>1
    <3> QED
      BY <1>2, <2>1, <3>1, ShiftStepIs
  <2>3. shift' = R /\ fifo' = t
    <3>1. shift' = KeyIn(d, b).shift
      BY <1>1, <1>5, <2>1 DEF ProgramPoll
    <3>2. KeyIn(d, b).shift = kbd_proc_data(d.shift, b).shift
      BY <1>2 DEF KeyIn, DeviceStates
    <3> QED
      BY <1>1, <1>2, <1>5, <2>1, <2>2, <3>1, <3>2
  <2>4. PICK C : IsRun(ShiftStates, ShiftStep, S, q, C) /\ C[Len(q)] = T
    BY <1>3 DEF Leads, LeadsTo
  <2>5. RunsOn(ShiftStates, Bytes, ShiftStep, S, q, C)
    BY <1>2, <1>5, <2>4, ShiftStepIs, RunTail
  <2>6. /\ Len(t) = Len(q) - 1 /\ Len(q) \in Nat /\ Len(t) \in Nat
        /\ IsRun(ShiftStates, ShiftStep, R, t, LaterRun(q, C))
    BY <1>2, <1>5, <2>1, <2>5 DEF RunsOn
  <2>7. LaterRun(q, C)[Len(t)] = T
    BY <2>4, <2>6 DEF LaterRun
  <2>8. Leads(R, t, T)
    BY <2>6, <2>7, Zenon DEF Leads, LeadsTo
  <2> QED
    BY <1>3, <2>3, <2>8 DEF ShiftInv
<1> QED
  BY <1>4, <1>5

\* At boot no key is down and no mode is on.
LEMMA ShiftInit == ConsoleInit => ShiftInv
<1> SUFFICES ASSUME ConsoleInit PROVE ShiftInv
  OBVIOUS
<1>1. PICK S : S = {}
  OBVIOUS
<1>2. S \in ShiftStates /\ shift = S /\ fifo = <<>> /\ Settled(S, held)
  BY <1>1 DEF ConsoleInit, ShiftStates, Settled
<1>3. Leads(S, <<>>, S)
  BY <1>2, ShiftStepIs, EmptyRun DEF Leads
<1> QED
  BY <1>2, <1>3 DEF ShiftInv

\* Every step keeps it.
LEMMA ShiftStepInv ==
    ASSUME BufInv, ShiftInv, [ConsoleNext]_consoleVars
    PROVE  ShiftInv'
<1>1. CASE \E k \in Keys : Strike(k)
  <2>1. PICK k \in DOMAIN scancode : Strike(k)
    BY <1>1, KeyAssumption
  <2>2. PICK h, s : h = held /\ s = Make(k) \o Break(k)
    OBVIOUS
  <2>3. fifo' = fifo \o s /\ shift' = shift /\ held' = h
    BY <2>1, <2>2 DEF Strike, Send, reading
  <2>4. s \in Seq(Bytes) /\ Brings(s, h, h)
    <3>1. Make(k) \in Seq(Bytes) /\ Break(k) \in Seq(Bytes)
      BY KeyBytes
    <3>2. Make(k) \o Break(k) \in Seq(Bytes)
      BY <3>1
    <3>3. Brings(Make(k) \o Break(k), h, h)
      BY KeyBrings, Zenon
    <3> QED
      BY <2>2, <3>2, <3>3
  <2> QED
    BY <2>2, <2>3, <2>4, TypedShift
<1>2. CASE \E k \in Modifiers : Hold(k)
  <2>1. PICK k \in DOMAIN scancode : Hold(k)
    BY <1>2, KeyAssumption
  <2>2. PICK h, s : h = held /\ s = Make(k)
    OBVIOUS
  <2>3. fifo' = fifo \o s /\ shift' = shift /\ held' = h \cup {k}
    BY <2>1, <2>2 DEF Hold, Send, reading
  <2>4. s \in Seq(Bytes) /\ Brings(s, h, h \cup {k})
    BY <2>2, KeyBytes, KeyBrings
  <2> QED
    BY <2>2, <2>3, <2>4, TypedShift
<1>3. CASE \E k \in Modifiers : LetGo(k)
  <2>1. PICK k \in DOMAIN scancode : LetGo(k)
    BY <1>3, KeyAssumption
  <2>2. PICK h, s : h = held /\ s = Break(k)
    OBVIOUS
  <2>3. fifo' = fifo \o s /\ shift' = shift /\ held' = h \ {k}
    BY <2>1, <2>2 DEF LetGo, reading
  <2>4. s \in Seq(Bytes) /\ Brings(s, h, h \ {k})
    BY <2>2, KeyBytes, KeyBrings
  <2> QED
    BY <2>2, <2>3, <2>4, TypedShift
<1>4. CASE SerialReceive \/ Off \/ UNCHANGED consoleVars
  BY <1>4 DEF SerialReceive, Off, consoleVars, devices, reading, ShiftInv
<1>5. CASE PromptGetc
  <2>1. PICK d, c : d = PromptPoll /\ Polled(d, c)
    BY <1>5 DEF PromptGetc, PromptWaits, PromptTakes, PromptEnter
  <2>2. fifo' = <<>> /\ shift' = PromptPoll.shift /\ held' = held
    BY <1>5, <2>1 DEF PromptGetc, Polled
  <2> QED
    BY <2>2, PromptShift
<1>6. CASE SysCgetc
  <2>1. PICK d, c : d = ProgramPoll /\ Polled(d, c)
    BY <1>6 DEF SysCgetc, ProgramTakes, ProgramEnter
  <2>2. /\ fifo' = (IF fifo = <<>> THEN <<>> ELSE Tail(fifo))
        /\ shift' = ProgramPoll.shift /\ held' = held
    BY <1>6, <2>1 DEF SysCgetc, Polled
  <2> QED
    BY <2>2, ProgramShift
<1> QED
  BY <1>1, <1>2, <1>3, <1>4, <1>5, <1>6 DEF ConsoleNext

\* Whatever keys are struck, held and let go in whatever order, and whoever reads
\* in between, kbd_proc_data's shift state has a mode on only while a key for it
\* is down, and never waits for the rest of an E0 key, once the bytes are read.
THEOREM ModifiersFollowKeys == ConsoleSpec => []NoStuckModifier
<1>1. ConsoleSpec => ConsoleInit /\ [][ConsoleNext]_consoleVars
  BY DEF ConsoleSpec
<1>2. BufInv /\ ShiftInv => NoStuckModifier
  <2> SUFFICES ASSUME BufInv, ShiftInv, fifo = <<>>
               PROVE  Settled(shift, held)
    BY DEF NoStuckModifier, Settled, HeldModes
  <2>1. PICK s : s = <<>>
    OBVIOUS
  <2>2. PICK T \in ShiftStates : Leads(shift, s, T) /\ Settled(T, held)
    BY <2>1 DEF ShiftInv
  <2>3. T = shift
    BY <2>1, <2>2 DEF Leads, LeadsTo, IsRun
  <2> QED
    BY <2>2, <2>3
<1> QED
  BY <1>1, <1>2, BufHolds, ShiftInit, ShiftStepInv, PTL

-----------------------------------------------------------------------------
(***************************************************************************)
(* The prompt's editor and readline keep line, screen and history in step  *)
(* (EditorConsistent), for every size of screen, line and history that     *)
(* LineAssumption allows.  First the screen: what Putc does to the text in *)
(* front of the cursor, then PutAll by induction over the characters       *)
(* written.  Then the history as a ring of slots.  EditorInv joins the two *)
(* to the places the editor keeps between two keys.                        *)
(***************************************************************************)
\* The sizes: a row is part of the screen, and a line fits on the others.
LEMMA SizeFacts ==
    /\ CrtSize \in Nat /\ CrtCols \in Nat \ {0} /\ CrtCols <= CrtSize
    /\ BufLen \in Nat /\ BufLen > 2 /\ BufLen <= CrtSize - CrtCols
<1>1. \A a, n \in Nat \ {0} : a * n \in Nat /\ n <= a * n
  OBVIOUS
<1>2. CrtSize \in Nat /\ CrtCols \in Nat \ {0} /\ CrtCols <= CrtSize
  BY <1>1, CrtAssumption DEF CrtSize
<1> QED
  BY <1>2, LineAssumption

\* Scrolling brings the cursor back onto the screen.
LEMMA ScrollType ==
    ASSUME NEW cs \in [0 .. CrtSize - 1 -> Glyphs], NEW p \in Nat, p < CrtSize + CrtCols
    PROVE  Scroll([cells |-> cs, pos |-> p]) \in Screens
<1>1. PICK t : t = [cells |-> cs, pos |-> p]
  OBVIOUS
<1>2. t.cells = cs /\ t.pos = p
  BY <1>1
<1>3. CASE p < CrtSize
  BY <1>1, <1>2, <1>3, SizeFacts DEF Scroll, Screens
<1>4. CASE ~(p < CrtSize)
  <2>1. PICK u : u = [k \in 0 .. CrtSize - 1 |->
                        IF k + CrtCols < CrtSize THEN cs[k + CrtCols] ELSE " "]
    OBVIOUS
  <2>2. u \in [0 .. CrtSize - 1 -> Glyphs]
    <3>1. " " \in Glyphs
      BY DEF Glyphs
    <3>2. \A k \in 0 .. CrtSize - 1 : k + CrtCols < CrtSize => k + CrtCols \in 0 .. CrtSize - 1
      BY SizeFacts
    <3> QED
      BY <2>1, <3>1, <3>2
  <2>3. p - CrtCols \in 0 .. CrtSize - 1
    BY <1>4, SizeFacts
  <2>4. Scroll(t) = [cells |-> u, pos |-> p - CrtCols]
    BY <1>2, <1>4, <2>1 DEF Scroll
  <2> QED
    BY <1>1, <2>2, <2>3, <2>4 DEF Screens
<1> QED
  BY <1>3, <1>4

\* cga_putc keeps the cursor on the screen.
LEMMA PutcType ==
    ASSUME NEW s \in Screens, NEW c \in Glyphs
    PROVE  Putc(s, c) \in Screens
<1>1. PICK cs, p : cs = s.cells /\ p = s.pos
  OBVIOUS
<1>2. /\ cs \in [0 .. CrtSize - 1 -> Glyphs] /\ p \in 0 .. CrtSize - 1
      /\ s = [cells |-> cs, pos |-> p] /\ p \in Nat
  BY <1>1, SizeFacts DEF Screens
<1>3. PICK r : r = p % CrtCols
  OBVIOUS
<1>4. r \in 0 .. CrtCols - 1 /\ r <= p
  <2>1. \A a \in Nat, n \in Nat \ {0} : a % n \in 0 .. n - 1 /\ a % n <= a
    OBVIOUS
  <2> QED
    BY <1>2, <1>3, <2>1, SizeFacts
<1>5. CASE c = "bs"
  <2>1. Putc(s, c) = Backspace(s)
    BY <1>5 DEF Putc
  <2>2. CASE p = 0
    BY <1>1, <2>1, <2>2 DEF Backspace
  <2>3. CASE p # 0
    <3>1. p - 1 \in 0 .. CrtSize - 1
      BY <1>2, <2>3, SizeFacts
    <3>2. " " \in Glyphs
      BY DEF Glyphs
    <3>3. Putc(s, c) = [cells |-> [cs EXCEPT ![p - 1] = " "], pos |-> p - 1]
      BY <1>1, <2>1, <2>3 DEF Backspace
    <3>4. PICK q, u : q = p - 1 /\ u = [cs EXCEPT ![q] = " "]
      OBVIOUS
    <3>5. u \in [0 .. CrtSize - 1 -> Glyphs]
      BY <1>2, <3>2, <3>4
    <3>6. Putc(s, c) = [cells |-> u, pos |-> q]
      BY <3>3, <3>4
    <3>7. q \in 0 .. CrtSize - 1
      BY <3>1, <3>4
    <3> QED
      BY <3>5, <3>6, <3>7 DEF Screens
  <2> QED
    BY <2>2, <2>3
<1>6. CASE c = "\n"
  <2>1. p + CrtCols - r \in Nat /\ p + CrtCols - r < CrtSize + CrtCols
    BY <1>2, <1>4, SizeFacts
  <2>2. Putc(s, c) = Scroll([cells |-> cs, pos |-> p + CrtCols - r])
    BY <1>2, <1>3, <1>6 DEF Putc
  <2> QED
    BY <1>2, <2>1, <2>2, ScrollType
<1>7. CASE c = "\r"
  <2>1. p - r \in 0 .. CrtSize - 1
    BY <1>2, <1>4, SizeFacts
  <2>2. Putc(s, c) = [cells |-> cs, pos |-> p - r]
    BY <1>2, <1>3, <1>7 DEF Putc
  <2> QED
    BY <1>2, <2>1, <2>2 DEF Screens
<1>8. CASE c \notin {"bs", "\n", "\r"}
  <2>1. p + 1 \in Nat /\ p + 1 < CrtSize + CrtCols
    BY <1>2, SizeFacts
  <2>2. Putc(s, c) = Scroll([cells |-> [cs EXCEPT ![p] = c], pos |-> p + 1])
    BY <1>1, <1>8 DEF Putc
  <2>3. [cs EXCEPT ![p] = c] \in [0 .. CrtSize - 1 -> Glyphs]
    BY <1>2
  <2> QED
    BY <2>1, <2>2, <2>3, ScrollType
<1> QED
  BY <1>5, <1>6, <1>7, <1>8

\* cons_putc as the step of a machine.
PutStep == [y \in Screens \X Glyphs |-> cons_putc(y[1], y[2])]

\* PutStep is cons_putc.
LEMMA PutStepIs ==
    /\ Machine(Screens, Glyphs, PutStep)
    /\ \A s \in Screens, c \in Glyphs : PutStep[<<s, c>>] = cons_putc(s, c)
<1>1. ASSUME NEW s \in Screens, NEW c \in Glyphs PROVE cons_putc(s, c) \in Screens
  <2>1. " " \in Glyphs
    BY DEF Glyphs
  <2>2. \A t \in Screens : Putc(t, " ") \in Screens
    BY <2>1, PutcType
  <2>3. PICK t : t = Putc(Putc(Putc(Putc(Putc(s, " "), " "), " "), " "), " ")
    OBVIOUS
  <2>4. t \in Screens
    BY <2>2, <2>3
  <2> QED
    BY <2>3, <2>4, PutcType DEF cons_putc
<1>2. \A y \in Screens \X Glyphs : cons_putc(y[1], y[2]) \in Screens
  BY <1>1
<1> QED
  BY <1>2 DEF Machine, PutStep

\* The equation that defines PutAll has a solution.
LEMMA PutAllFeeds == Feeds(Screens, Glyphs, PutStep, PutAll)
<1> DEFINE Eq(f) == f = [x \in Screens \X Seq(Glyphs) |->
                            IF x[2] = <<>> THEN x[1]
                            ELSE f[<<cons_putc(x[1], Head(x[2])), Tail(x[2])>>]]
<1>1. ASSUME NEW x \in Screens \X Seq(Glyphs), x[2] # <<>>
      PROVE  PutStep[<<x[1], Head(x[2])>>] = cons_putc(x[1], Head(x[2]))
  <2>1. x[1] \in Screens /\ Head(x[2]) \in Glyphs
    BY <1>1
  <2> QED
    BY <2>1, PutStepIs
<1>2. ASSUME NEW f
      PROVE  Feeds(Screens, Glyphs, PutStep, f) <=> Eq(f)
  <2>1. \A x \in Screens \X Seq(Glyphs) :
          (IF x[2] = <<>> THEN x[1] ELSE f[<<PutStep[<<x[1], Head(x[2])>>], Tail(x[2])>>]) =
          (IF x[2] = <<>> THEN x[1] ELSE f[<<cons_putc(x[1], Head(x[2])), Tail(x[2])>>])
    BY <1>1, Zenon
  <2>2. [x \in Screens \X Seq(Glyphs) |->
           IF x[2] = <<>> THEN x[1] ELSE f[<<PutStep[<<x[1], Head(x[2])>>], Tail(x[2])>>]] =
        [x \in Screens \X Seq(Glyphs) |->
           IF x[2] = <<>> THEN x[1] ELSE f[<<cons_putc(x[1], Head(x[2])), Tail(x[2])>>]]
    BY <2>1, Zenon
  <2> QED
    BY <2>2, Zenon DEF Feeds
<1>3. \E f : Eq(f)
  <2>1. PICK f : Feeds(Screens, Glyphs, PutStep, f)
    BY PutStepIs, FeedExists
  <2> QED
    BY <1>2, <2>1, Zenon
<1>4. PutAll = CHOOSE f : Eq(f)
  BY Zenon DEF PutAll
<1>5. Eq(PutAll)
  <2> HIDE DEF Eq
  <2> QED
    BY <1>3, <1>4
<1> QED
  BY <1>2, <1>5, Zenon
\* The empty string writes nothing.
LEMMA PutNothing ==
    ASSUME NEW s \in Screens
    PROVE  PutAll[<<s, <<>> >>] = s
<1>1. PICK z : z = <<>>
  OBVIOUS
<1>2. z \in Seq(Glyphs) /\ LeadsTo(Screens, PutStep, s, z, s)
  BY <1>1, PutStepIs, EmptyRun
<1>3. PutAll[<<s, z>>] = s
  BY <1>2, PutStepIs, PutAllFeeds, FeedLeads
<1> QED
  BY <1>1, <1>3

\* A string of one character.
LEMMA PutOne ==
    ASSUME NEW s \in Screens, NEW c \in Glyphs
    PROVE  PutAll[<<s, <<c>> >>] = cons_putc(s, c)
<1>1. PICK z, y : z = <<c>> /\ y = PutStep[<<s, c>>]
  OBVIOUS
<1>2. LeadsTo(Screens, PutStep, s, z, y)
  BY <1>1, PutStepIs, ShortRuns
<1>3. z \in Seq(Glyphs)
  BY <1>1
<1>4. PutAll[<<s, z>>] = y
  BY <1>2, <1>3, PutStepIs, PutAllFeeds, FeedLeads
<1> QED
  BY <1>1, <1>4, PutStepIs

\* A string leaves a screen.
LEMMA PutIsScreen ==
    ASSUME NEW s \in Screens, NEW a \in Seq(Glyphs)
    PROVE  PutAll[<<s, a>>] \in Screens
<1>1. PICK u \in Screens : LeadsTo(Screens, PutStep, s, a, u)
  BY PutStepIs, LeadsSomewhere
<1>2. PutAll[<<s, a>>] = u
  BY <1>1, PutStepIs, PutAllFeeds, FeedLeads
<1> QED
  BY <1>2

\* Two strings are written one after the other.
LEMMA PutJoin ==
    ASSUME NEW s \in Screens, NEW a \in Seq(Glyphs), NEW b \in Seq(Glyphs)
    PROVE  PutAll[<<s, a \o b>>] = PutAll[<<PutAll[<<s, a>>], b>>]
<1>1. PICK u \in Screens : LeadsTo(Screens, PutStep, s, a, u)
  BY PutStepIs, LeadsSomewhere
<1>2. PICK v \in Screens : LeadsTo(Screens, PutStep, u, b, v)
  BY PutStepIs, LeadsSomewhere
<1>3. PutAll[<<s, a>>] = u /\ PutAll[<<u, b>>] = v
  BY <1>1, <1>2, PutStepIs, PutAllFeeds, FeedLeads
<1>4. PICK z : z = a \o b
  OBVIOUS
<1>5. LeadsTo(Screens, PutStep, s, z, v)
  BY <1>1, <1>2, <1>4, PutStepIs, LeadsOn
<1>6. z \in Seq(Glyphs)
  BY <1>4
<1>7. PutAll[<<s, z>>] = v
  BY <1>5, <1>6, PutStepIs, PutAllFeeds, FeedLeads
<1> QED
  BY <1>3, <1>4, <1>7

\* The text t stands on the screen in front of the cursor.
ShowsOn(s, t) ==
    /\ Len(t) <= s.pos
    /\ \A k \in 1 .. Len(t) : s.cells[((s.pos - Len(t)) + k) - 1] = t[k]
Controls == {"bs", "\t", "\n", "\r"}

\* A character is put behind the text, though the screen may scroll.
LEMMA ShowsPut ==
    ASSUME NEW s \in Screens, NEW t \in Seq(Glyphs), ShowsOn(s, t),
           NEW c \in Glyphs \ Controls, Len(t) < CrtSize - CrtCols
    PROVE  ShowsOn(cons_putc(s, c), t \o <<c>>)
<1>1. PICK cs, p, n, u, w : /\ cs = s.cells /\ p = s.pos /\ n = Len(t) /\ u = t \o <<c>>
                            /\ w = [cs EXCEPT ![p] = c]
  OBVIOUS
<1>2. /\ cs \in [0 .. CrtSize - 1 -> Glyphs] /\ p \in 0 .. CrtSize - 1 /\ p \in Nat
      /\ n \in Nat /\ n <= p /\ n < CrtSize - CrtCols
  BY <1>1, SizeFacts DEF Screens, ShowsOn
<1>3. /\ Len(u) = n + 1 /\ \A k \in 1 .. n : u[k] = t[k]
      /\ u[n + 1] = c
  BY <1>1
<1>4. \A k \in 1 .. n : cs[((p - n) + k) - 1] = t[k]
  BY <1>1 DEF ShowsOn
<1>5. /\ w \in [0 .. CrtSize - 1 -> Glyphs] /\ w[p] = c
      /\ \A k \in 0 .. CrtSize - 1 : k # p => w[k] = cs[k]
  BY <1>1, <1>2
<1>6. \A k \in 1 .. n + 1 : w[((p - n) + k) - 1] = u[k]
  <2> SUFFICES ASSUME NEW k \in 1 .. n + 1 PROVE w[((p - n) + k) - 1] = u[k]
    OBVIOUS
  <2>1. CASE k = n + 1
    <3>1. ((p - n) + k) - 1 = p
      BY <1>2, <2>1
    <3> QED
      BY <1>3, <1>5, <2>1, <3>1
  <2>2. CASE k # n + 1
    <3>1. k \in 1 .. n /\ ((p - n) + k) - 1 \in 0 .. CrtSize - 1 /\ ((p - n) + k) - 1 # p
      BY <1>2, <2>2, SizeFacts
    <3> QED
      BY <1>3, <1>4, <1>5, <3>1
  <2> QED
    BY <2>1, <2>2
<1>7. cons_putc(s, c) = Scroll([cells |-> w, pos |-> p + 1])
  <2>1. c \notin {"bs", "\n", "\r"} /\ c # "\t"
    BY DEF Controls
  <2>2. Putc(s, c) = Scroll([cells |-> w, pos |-> p + 1])
    BY <1>1, <2>1 DEF Putc
  <2> QED
    BY <2>1, <2>2 DEF cons_putc
<1>8. PICK r : r = [cells |-> w, pos |-> p + 1]
  OBVIOUS
<1>9. r.cells = w /\ r.pos = p + 1
  BY <1>8
<1>10. CASE p + 1 < CrtSize
  <2>1. cons_putc(s, c) = r
    BY <1>7, <1>8, <1>9, <1>10 DEF Scroll
  <2>2. n + 1 <= p + 1 /\ (p + 1) - (n + 1) = p - n
    BY <1>2
  <2>3. ShowsOn(r, u)
    BY <1>3, <1>6, <1>9, <2>2 DEF ShowsOn
  <2> QED
    BY <1>1, <2>1, <2>3
<1>11. CASE ~(p + 1 < CrtSize)
  <2>0. PICK q : q = (p + 1) - CrtCols
    OBVIOUS
  <2>1. PICK v : v = [k \in 0 .. CrtSize - 1 |->
                        IF k + CrtCols < CrtSize THEN w[k + CrtCols] ELSE " "]
    OBVIOUS
  <2>2. cons_putc(s, c) = [cells |-> v, pos |-> q]
    BY <1>7, <1>8, <1>9, <1>11, <2>0, <2>1 DEF Scroll
  <2>3. q \in Nat /\ n + 1 <= q
    <3>1. p + 1 = CrtSize /\ q = CrtSize - CrtCols
      BY <1>2, <1>11, <2>0, SizeFacts
    <3> QED
      BY <1>2, <3>1, SizeFacts
  <2>4. ASSUME NEW k \in 1 .. n + 1 PROVE v[((q - (n + 1)) + k) - 1] = u[k]
    <3>1. PICK j : j = ((q - (n + 1)) + k) - 1
      OBVIOUS
    <3>2. q = (p + 1) - CrtCols /\ k \in Nat /\ 1 <= k /\ k <= n + 1
      BY <1>2, <2>0
    <3>3. j \in Nat /\ j + CrtCols = ((p - n) + k) - 1
      BY <1>2, <2>3, <3>1, <3>2, SizeFacts
    <3>4. j + CrtCols <= p /\ j + CrtCols < CrtSize /\ j \in 0 .. CrtSize - 1
      BY <1>2, <3>2, <3>3, SizeFacts
    <3>5. v[j] = w[j + CrtCols]
      BY <2>1, <3>4
    <3> QED
      BY <1>6, <3>1, <3>3, <3>5
  <2> QED
    BY <1>1, <1>3, <2>2, <2>3, <2>4 DEF ShowsOn
<1> QED
  BY <1>10, <1>11

\* A backspace takes the last character away.
LEMMA ShowsBack ==
    ASSUME NEW s \in Screens, NEW t \in Seq(Glyphs), ShowsOn(s, t), NEW n \in Nat, Len(t) = n + 1
    PROVE  ShowsOn(cons_putc(s, "bs"), SubSeq(t, 1, n))
<1>1. PICK cs, p, u, q : /\ cs = s.cells /\ p = s.pos /\ u = SubSeq(t, 1, n) /\ q = p - 1
  OBVIOUS
<1>2. /\ cs \in [0 .. CrtSize - 1 -> Glyphs] /\ p \in 0 .. CrtSize - 1 /\ p \in Nat
      /\ n + 1 <= p /\ q \in 0 .. CrtSize - 1
  BY <1>1, SizeFacts DEF Screens, ShowsOn
<1>3. Len(u) = n /\ \A k \in 1 .. n : u[k] = t[k]
  BY <1>1
<1>4. \A k \in 1 .. n + 1 : cs[((p - (n + 1)) + k) - 1] = t[k]
  BY <1>1 DEF ShowsOn
<1>5. PICK w : w = [cs EXCEPT ![q] = " "]
  OBVIOUS
<1>6. Putc(s, "bs") = Backspace(s)
  BY DEF Putc
<1>7. Backspace(s) = [cells |-> w, pos |-> q]
  <2>1. s.pos # 0
    BY <1>1, <1>2
  <2> QED
    BY <1>1, <1>5, <2>1 DEF Backspace
<1>8. cons_putc(s, "bs") = [cells |-> w, pos |-> q]
  BY <1>6, <1>7 DEF cons_putc
<1>9. ASSUME NEW k \in 1 .. n PROVE w[((q - n) + k) - 1] = u[k]
  <2>1. PICK j : j = ((q - n) + k) - 1
    OBVIOUS
  <2>2. q = p - 1 /\ p < CrtSize /\ CrtSize \in Nat
    BY <1>1, <1>2, SizeFacts
  <2>3. j = ((p - (n + 1)) + k) - 1 /\ k \in 1 .. n + 1 /\ j \in Nat /\ j < q
    BY <1>2, <2>1, <2>2
  <2>4. j \in 0 .. CrtSize - 1 /\ j # q
    BY <1>2, <2>2, <2>3
  <2>5. w[j] = cs[j]
    BY <1>2, <1>5, <2>4
  <2> QED
    BY <1>3, <1>4, <2>1, <2>3, <2>5
<1>10. n <= q
  BY <1>1, <1>2
<1> QED
  BY <1>1, <1>3, <1>8, <1>9, <1>10 DEF ShowsOn

\* A string without control characters stands behind the text it is written to.
LEMMA ShowsText ==
    ASSUME NEW s \in Screens, NEW t \in Seq(Glyphs), ShowsOn(s, t),
           NEW u \in Seq(Glyphs), \A k \in 1 .. Len(u) : u[k] \notin Controls,
           Len(t) + Len(u) <= CrtSize - CrtCols
    PROVE  ShowsOn(PutAll[<<s, u>>], t \o u)
<1> DEFINE Part(n) == SubSeq(u, 1, n)
           Good(n) == ShowsOn(PutAll[<<s, Part(n)>>], t \o Part(n))
           S == {n \in 0 .. Len(u) : Good(n)}
<1>1. \A n \in 0 .. Len(u) : Part(n) \in Seq(Glyphs) /\ Len(Part(n)) = n
  OBVIOUS
<1>2. Good(0)
  <2>1. Part(0) = <<>>
    BY <1>1
  <2>2. PutAll[<<s, Part(0)>>] = s
    BY <2>1, PutNothing
  <2>3. t \o Part(0) = t
    BY <2>1
  <2> QED
    BY <2>2, <2>3, Zenon
<1>3. ASSUME NEW k \in 1 .. Len(u), Good(k - 1) PROVE Good(k)
  <2>1. PICK a, c, v : a = Part(k - 1) /\ c = u[k] /\ v = t \o a
    OBVIOUS
  <2>2. /\ a \in Seq(Glyphs) /\ Len(a) = k - 1 /\ c \in Glyphs \ Controls
        /\ v \in Seq(Glyphs) /\ Len(v) = Len(t) + (k - 1)
    <3>1. k - 1 \in 0 .. Len(u) /\ u[k] \in Glyphs
      OBVIOUS
    <3>2. a \in Seq(Glyphs) /\ Len(a) = k - 1
      BY <1>1, <2>1, <3>1
    <3> QED
      BY <2>1, <3>1, <3>2
  <2>3. Part(k) = a \o <<c>>
    <3>1. \A i \in 1 .. k : (a \o <<c>>)[i] = u[i]
      BY <2>1, <2>2
    <3>2. a \o <<c>> \in Seq(Glyphs) /\ Len(a \o <<c>>) = k
      BY <2>2
    <3>3. Part(k) \in Seq(Glyphs) /\ Len(Part(k)) = k /\ \A i \in 1 .. k : Part(k)[i] = u[i]
      OBVIOUS
    <3> HIDE DEF Part
    <3> QED
      BY <3>1, <3>2, <3>3, SeqEqual
  <2>4. t \o Part(k) = v \o <<c>>
    <3>1. t \o (a \o <<c>>) = (t \o a) \o <<c>>
      BY <2>2
    <3> QED
      BY <2>1, <2>3, <3>1
  <2>5. PICK y : y = PutAll[<<s, a>>]
    OBVIOUS
  <2>6. y \in Screens /\ ShowsOn(y, v)
    BY <1>3, <2>1, <2>2, <2>5, PutIsScreen
  <2>7. PutAll[<<s, a \o <<c>> >>] = cons_putc(y, c)
    <3>1. PICK z : z = <<c>>
      OBVIOUS
    <3>2. z \in Seq(Glyphs)
      BY <2>2, <3>1
    <3>3. PutAll[<<s, a \o z>>] = PutAll[<<y, z>>]
      <4>1. c \in Glyphs /\ a \in Seq(Glyphs) /\ s \in Screens
        BY <2>2
      <4>2. PutAll[<<s, a \o z>>] = PutAll[<<PutAll[<<s, a>>], z>>]
        BY <3>2, <4>1, PutJoin
      <4> QED
        BY <2>5, <4>2
    <3>4. PutAll[<<y, <<c>> >>] = cons_putc(y, c)
      BY <2>2, <2>6, PutOne
    <3> QED
      BY <3>1, <3>3, <3>4
  <2>8. Len(v) < CrtSize - CrtCols
    BY <2>2, SizeFacts
  <2>9. ShowsOn(cons_putc(y, c), v \o <<c>>)
    BY <2>2, <2>6, <2>8, ShowsPut
  <2> QED
    BY <2>3, <2>4, <2>7, <2>9, Zenon
<1>4. Good(Len(u))
  <2> HIDE DEF Good
  <2>1. 0 \in S /\ \A k \in 1 .. Len(u) : k - 1 \in S => k \in S
    BY <1>2, <1>3
  <2>2. Len(u) \in Nat
    OBVIOUS
  <2>3. Len(u) \in S
    <3> HIDE DEF S
    <3>1. \A k \in 0 .. Len(u) : k \in S
      BY <2>1, <2>2, SetInduction
    <3> QED
      BY <2>2, <3>1
  <2> QED
    BY <2>3
<1>5. Part(Len(u)) = u
  <2>1. u \in Seq(Glyphs)
    OBVIOUS
  <2>2. /\ Part(Len(u)) \in Seq(Glyphs) /\ Len(Part(Len(u))) = Len(u)
        /\ \A i \in 1 .. Len(u) : Part(Len(u))[i] = u[i]
    OBVIOUS
  <2> HIDE DEF Part
  <2> QED
    BY <2>1, <2>2, SeqEqual
<1> QED
  BY <1>4, <1>5

\* n backspaces.
Rubs(n) == [k \in 1 .. n |-> "bs"]

\* n backspaces take the last n characters away.
LEMMA ShowsRubbed ==
    ASSUME NEW s \in Screens, NEW t \in Seq(Glyphs), ShowsOn(s, t),
           NEW m \in 0 .. Len(t)
    PROVE  /\ Rubs(m) \in Seq(Glyphs)
           /\ ShowsOn(PutAll[<<s, Rubs(m)>>], SubSeq(t, 1, Len(t) - m))
<1> DEFINE Left(n) == SubSeq(t, 1, Len(t) - n)
           Good(n) == ShowsOn(PutAll[<<s, Rubs(n)>>], Left(n))
           S == {n \in 0 .. m : Good(n)}
<1>1. "bs" \in Glyphs
  BY DEF Glyphs
<1>2. \A n \in Nat : Rubs(n) \in Seq(Glyphs) /\ Len(Rubs(n)) = n
  BY <1>1 DEF Rubs
<1>3. Good(0)
  <2>1. Rubs(0) = <<>>
    BY DEF Rubs
  <2>2. PutAll[<<s, Rubs(0)>>] = s
    BY <1>1, <2>1, PutNothing
  <2>3. Left(0) = t
    <3>1. Left(0) \in Seq(Glyphs) /\ Len(Left(0)) = Len(t) /\ \A i \in 1 .. Len(t) : Left(0)[i] = t[i]
      OBVIOUS
    <3>2. t \in Seq(Glyphs)
      OBVIOUS
    <3> HIDE DEF Left
    <3> QED
      BY <3>1, <3>2, SeqEqual
  <2> QED
    BY <2>2, <2>3, Zenon
<1>4. ASSUME NEW k \in 1 .. m, Good(k - 1) PROVE Good(k)
  <2>1. PICK a, v, n, z : a = Rubs(k - 1) /\ v = Left(k - 1) /\ n = Len(t) - k /\ z = <<"bs">>
    OBVIOUS
  <2>2. k - 1 \in Nat /\ n \in Nat /\ (Len(t) - (k - 1)) = n + 1 /\ n + 1 <= Len(t)
    BY <2>1
  <2>3. a \in Seq(Glyphs) /\ Len(a) = k - 1 /\ z \in Seq(Glyphs)
    BY <1>1, <1>2, <2>1, <2>2
  <2>4. v \in Seq(Glyphs) /\ Len(v) = n + 1 /\ \A i \in 1 .. n + 1 : v[i] = t[i]
    BY <2>1, <2>2
  <2>5. Rubs(k) = a \o z
    <3>1. a \o z \in Seq(Glyphs) /\ Len(a \o z) = k
      BY <2>1, <2>3
    <3>2. \A i \in 1 .. k : (a \o z)[i] = "bs"
      BY <2>1, <2>3 DEF Rubs
    <3>3. Rubs(k) \in Seq(Glyphs) /\ Len(Rubs(k)) = k /\ \A i \in 1 .. k : Rubs(k)[i] = "bs"
      BY <1>2 DEF Rubs
    <3> QED
      BY <3>1, <3>2, <3>3, SeqEqual
  <2>6. PICK y : y = PutAll[<<s, a>>]
    OBVIOUS
  <2>7. y \in Screens /\ ShowsOn(y, v)
    <3>1. y \in Screens
      BY <1>1, <2>3, <2>6, PutIsScreen
    <3> QED
      BY <1>4, <2>1, <2>6, <3>1, Zenon
  <2>8. PutAll[<<s, a \o z>>] = cons_putc(y, "bs")
    <3>1. PutAll[<<s, a \o z>>] = PutAll[<<y, z>>] /\ PutAll[<<y, <<"bs">> >>] = cons_putc(y, "bs")
      BY <1>1, <2>3, <2>6, <2>7, PutJoin, PutOne
    <3> QED
      BY <2>1, <3>1
  <2>9. ShowsOn(cons_putc(y, "bs"), SubSeq(v, 1, n))
    BY <2>2, <2>4, <2>7, ShowsBack
  <2>10. SubSeq(v, 1, n) = Left(k)
    <3>1. /\ SubSeq(v, 1, n) \in Seq(Glyphs) /\ Len(SubSeq(v, 1, n)) = n
          /\ \A i \in 1 .. n : SubSeq(v, 1, n)[i] = t[i]
      BY <2>2, <2>4
    <3>2. Left(k) \in Seq(Glyphs) /\ Len(Left(k)) = n /\ \A i \in 1 .. n : Left(k)[i] = t[i]
      BY <2>1, <2>2
    <3> HIDE DEF Left
    <3> QED
      BY <3>1, <3>2, SeqEqual
  <2> QED
    BY <2>5, <2>8, <2>9, <2>10, Zenon
<1>5. Good(m)
  <2> HIDE DEF Good
  <2>1. 0 \in S /\ \A k \in 1 .. m : k - 1 \in S => k \in S
    BY <1>3, <1>4
  <2>2. m \in Nat
    OBVIOUS
  <2>3. m \in S
    <3> HIDE DEF S
    <3>1. \A k \in 0 .. m : k \in S
      BY <2>1, <2>2, SetInduction
    <3> QED
      BY <2>2, <3>1
  <2> QED
    BY <2>3
<1> QED
  BY <1>2, <1>5

-----------------------------------------------------------------------------
(***************************************************************************)
(* What the editor writes.                                                 *)
(***************************************************************************)
Lines == {l \in Seq(Printable) : Len(l) < BufLen}
Prompts == {<<>>, <<">">>}
Locals == [line : Lines, history_index : Nat, history_used : BOOLEAN,
           matches : Seq(Lines), used_match : Nat]

\* r, what an editing operator returns for e, keeps line and screen in step.
InStep(e, r) ==
    /\ r.ed.line \in Lines /\ r.out \in Seq(Glyphs)
    /\ \A s \in Screens, pre \in Prompts :
          ShowsOn(s, pre \o e.line) => ShowsOn(PutAll[<<s, r.out>>], pre \o r.ed.line)

\* A prefix of a \o b that goes beyond a.
LEMMA PrefixOfConcat ==
    ASSUME NEW T, NEW a \in Seq(T), NEW b \in Seq(T), NEW k \in 0 .. Len(b)
    PROVE  SubSeq(a \o b, 1, Len(a) + k) = a \o SubSeq(b, 1, k)
<1>1. PICK t, u, v, m : t = a \o b /\ u = SubSeq(t, 1, m) /\ m = Len(a) + k /\ v = SubSeq(b, 1, k)
  OBVIOUS
<1>2. k \in Nat /\ m \in Nat /\ Len(a) \in Nat
  BY <1>1
<1>3. /\ t \in Seq(T) /\ Len(t) = Len(a) + Len(b)
      /\ \A i \in 1 .. Len(a) + Len(b) : t[i] = IF i <= Len(a) THEN a[i] ELSE b[i - Len(a)]
  BY <1>1, ConcatProperties
<1>4. u \in Seq(T) /\ Len(u) = m /\ \A i \in 1 .. m : u[i] = t[i]
  <2>1. m <= Len(t)
    BY <1>1, <1>3
  <2> QED
    BY <1>1, <1>2, <1>3, <2>1
<1>5. v \in Seq(T) /\ Len(v) = k /\ \A i \in 1 .. k : v[i] = b[i]
  BY <1>1
<1>6. /\ a \o v \in Seq(T) /\ Len(a \o v) = m
      /\ \A i \in 1 .. m : (a \o v)[i] = IF i <= Len(a) THEN a[i] ELSE v[i - Len(a)]
  BY <1>1, <1>5, ConcatProperties
<1>7. ASSUME NEW i \in 1 .. m PROVE u[i] = (a \o v)[i]
  <2>1. i \in 1 .. Len(a) + Len(b)
    BY <1>1, <1>2
  <2>2. ~(i <= Len(a)) => i - Len(a) \in 1 .. k
    BY <1>1, <1>2
  <2> QED
    BY <1>3, <1>4, <1>5, <1>6, <2>1, <2>2
<1> QED
  BY <1>1, <1>4, <1>6, <1>7, SeqEqual

\* Lines hold no control characters, and fit on the screen behind a prompt.
LEMMA LineFacts ==
    ASSUME NEW l \in Lines, NEW pre \in Prompts
    PROVE  /\ l \in Seq(Glyphs) /\ \A k \in 1 .. Len(l) : l[k] \notin Controls
           /\ pre \in Seq(Glyphs) /\ Len(pre) <= 1 /\ Len(l) < BufLen
           /\ Len(pre) + Len(l) <= CrtSize - CrtCols
<1>1. Printable \subseteq Glyphs /\ \A c \in Printable : c \notin Controls
  BY DEF Printable, Glyphs, Controls
<1>2. l \in Seq(Glyphs) /\ \A k \in 1 .. Len(l) : l[k] \notin Controls
  BY <1>1 DEF Lines
<1>3. ">" \in Glyphs
  BY DEF Glyphs
<1>4. pre \in Seq(Glyphs) /\ Len(pre) <= 1
  <2>1. CASE pre = <<>>
    BY <2>1
  <2>2. CASE pre = <<">">>
    BY <1>3, <2>2
  <2> QED
    BY <2>1, <2>2 DEF Prompts
<1>5. Len(l) < BufLen
  BY DEF Lines
<1> QED
  BY <1>2, <1>4, <1>5, SizeFacts

\* Nothing is written and the line stays.
LEMMA NothingInStep ==
    ASSUME NEW e, e.line \in Lines, NEW f, f.line = e.line
    PROVE  InStep(e, Edited(f, <<>>))
<1>1. PICK z : z = <<>>
  OBVIOUS
<1>2. z \in Seq(Glyphs) /\ \A s \in Screens : PutAll[<<s, z>>] = s
  <2>1. z \in Seq(Glyphs)
    BY <1>1
  <2> QED
    BY <1>1, <2>1, PutNothing
<1>3. Edited(f, <<>>).ed = f /\ Edited(f, <<>>).out = z
  BY <1>1 DEF Edited
<1> QED
  BY <1>2, <1>3 DEF InStep

\* A line is rubbed out and another one written.
LEMMA ReplacedInStep ==
    ASSUME NEW e, e.line \in Lines, NEW f, f.line = e.line, NEW new \in Lines,
           NEW r, r.ed.line = new, r.out = [k \in DOMAIN f.line |-> "bs"] \o new
    PROVE  InStep(e, r)
<1>1. PICK l, n, z : l = e.line /\ n = Len(l) /\ z = Rubs(n)
  OBVIOUS
<1>2. l \in Seq(Glyphs) /\ n \in Nat /\ new \in Seq(Glyphs)
  BY <1>1, LineFacts DEF Prompts
<1>3. r.out = z \o new
  <2>1. DOMAIN l = 1 .. n
    BY <1>1, <1>2
  <2> QED
    BY <1>1, <2>1 DEF Rubs
<1>4. ASSUME NEW s \in Screens, NEW pre \in Prompts, ShowsOn(s, pre \o l)
      PROVE  z \in Seq(Glyphs) /\ ShowsOn(PutAll[<<s, z \o new>>], pre \o new)
  <2>1. PICK t : t = pre \o l
    OBVIOUS
  <2>2. pre \in Seq(Glyphs)
    BY LineFacts
  <2>3. t \in Seq(Glyphs) /\ Len(t) = Len(pre) + n /\ Len(pre) \in Nat
    BY <1>1, <1>2, <2>1, <2>2, ConcatProperties
  <2>4. PICK u : u = SubSeq(t, 1, Len(t) - n)
    OBVIOUS
  <2>5. u = pre
    <3>1. Len(t) - n = Len(pre) + 0 /\ 0 \in 0 .. Len(l)
      BY <1>1, <1>2, <2>3
    <3>2. u = pre \o SubSeq(l, 1, 0)
      BY <1>2, <2>1, <2>2, <2>4, <3>1, PrefixOfConcat
    <3>3. SubSeq(l, 1, 0) = <<>>
      BY SubSeqEmpty
    <3> QED
      BY <2>2, <3>2, <3>3, ConcatEmptySeq
  <2>6. n \in 0 .. Len(t)
    BY <1>2, <2>2, <2>3
  <2>7. PICK y : y = PutAll[<<s, z>>]
    OBVIOUS
  <2>8. z \in Seq(Glyphs) /\ ShowsOn(y, pre)
    BY <1>1, <1>4, <2>1, <2>3, <2>4, <2>5, <2>6, <2>7, ShowsRubbed
  <2>9. y \in Screens /\ PutAll[<<s, z \o new>>] = PutAll[<<y, new>>]
    BY <1>2, <2>7, <2>8, PutIsScreen, PutJoin
  <2>10. ShowsOn(PutAll[<<y, new>>], pre \o new)
    BY <1>2, <2>2, <2>8, <2>9, LineFacts, ShowsText
  <2> QED
    BY <2>8, <2>9, <2>10
<1>5. z \in Seq(Glyphs)
  <2>1. "bs" \in Glyphs
    BY DEF Glyphs
  <2> QED
    BY <1>1, <1>2, <2>1 DEF Rubs
<1>6. r.out \in Seq(Glyphs)
  BY <1>2, <1>3, <1>5, ConcatProperties
<1> QED
  BY <1>1, <1>3, <1>4, <1>6 DEF InStep

\* readline for one character.
LEMMA TypedInStep ==
    ASSUME NEW e, e.line \in Lines, NEW f \in Locals, f.line = e.line, NEW c \in Chars
    PROVE  /\ InStep(e, Typed(f, c))
           /\ \E l \in Lines : Typed(f, c).ed = [f EXCEPT !.line = l]
<1>1. PICK l, n : l = e.line /\ n = Len(l)
  OBVIOUS
<1>2. /\ l \in Seq(Printable) /\ n \in Nat /\ n < BufLen /\ l \in Seq(Glyphs)
      /\ l = f.line
  BY <1>1, LineFacts DEF Prompts, Lines
<1>3. CASE c \in Printable /\ Room(f.line)
  <2>1. PICK m, z : m = Append(l, c) /\ z = <<c>>
    OBVIOUS
  <2>2. m \in Lines /\ c \in Glyphs \ Controls /\ m = l \o z /\ z \in Seq(Glyphs)
    <3>1. c \in Printable /\ n < BufLen - 1
      BY <1>1, <1>2, <1>3 DEF Room
    <3>2. c \in Glyphs \ Controls
      BY <3>1 DEF Printable, Glyphs, Controls
    <3>3. m \in Seq(Printable) /\ Len(m) = n + 1
      BY <1>1, <1>2, <2>1, <3>1
    <3>4. m = l \o z /\ z \in Seq(Glyphs)
      <4>1. z \in Seq(Glyphs)
        BY <2>1, <3>2
      <4>2. Append(l, c) = l \o <<c>>
        BY <1>2, <3>1, AppendIsConcat
      <4> QED
        BY <2>1, <4>1, <4>2
    <3>5. m \in Lines
      BY <1>2, <3>1, <3>3, SizeFacts DEF Lines
    <3> QED
      BY <3>2, <3>4, <3>5
  <2>3. Typed(f, c) = Edited([f EXCEPT !.line = m], z)
    BY <1>2, <1>3, <2>1 DEF Typed
  <2>4. Typed(f, c).ed = [f EXCEPT !.line = m] /\ Typed(f, c).out = z
    BY <2>3 DEF Edited
  <2>5. [f EXCEPT !.line = m].line = m
    BY DEF Locals
  <2>6. ASSUME NEW s \in Screens, NEW pre \in Prompts, ShowsOn(s, pre \o l)
        PROVE  ShowsOn(PutAll[<<s, z>>], pre \o m)
    <3>1. PICK t : t = pre \o l
      OBVIOUS
    <3>2. pre \in Seq(Glyphs) /\ Len(pre) <= 1
      BY LineFacts
    <3>3. t \in Seq(Glyphs) /\ Len(t) = Len(pre) + n /\ pre \o m = t \o z
      <4>1. Len(l) = n
        BY <1>1
      <4>2. pre \o (l \o z) = (pre \o l) \o z
        <5>1. l \in Seq(Glyphs) /\ z \in Seq(Glyphs)
          BY <1>2, <2>2
        <5>2. pre \in Seq(Glyphs)
          BY <3>2
        <5> QED
          BY <5>1, <5>2, ConcatAssociative
      <4> QED
        BY <1>2, <2>2, <3>1, <3>2, <4>1, <4>2, ConcatProperties
    <3>4. Len(m) = n + 1 /\ Len(pre) + Len(m) <= CrtSize - CrtCols
      <4>1. Len(m) = n + 1
        BY <1>1, <1>2, <2>1
      <4> QED
        BY <2>2, <4>1, LineFacts
    <3>5. Len(t) < CrtSize - CrtCols
      BY <1>2, <3>2, <3>3, <3>4, SizeFacts
    <3>6. ShowsOn(cons_putc(s, c), t \o <<c>>)
      BY <2>2, <2>6, <3>1, <3>3, <3>5, ShowsPut
    <3>7. PutAll[<<s, <<c>> >>] = cons_putc(s, c)
      BY <1>2, <2>2, PutOne
    <3> QED
      BY <2>1, <3>3, <3>6, <3>7
  <2> QED
    BY <1>1, <2>2, <2>4, <2>5, <2>6 DEF InStep
<1>4. CASE ~(c \in Printable /\ Room(f.line)) /\ c = "bs" /\ f.line # <<>>
  <2>1. PICK m, z : m = Front(l) /\ z = <<c>>
    OBVIOUS
  <2>2. n - 1 \in Nat /\ m = SubSeq(l, 1, n - 1) /\ m \in Lines /\ c \in Glyphs /\ z \in Seq(Glyphs)
    <3>1. n - 1 \in Nat
      BY <1>1, <1>2, <1>4
    <3>2. m = SubSeq(l, 1, n - 1)
      BY <1>1, <2>1 DEF Front
    <3>3. m \in Seq(Printable) /\ Len(m) = n - 1
      <4>1. \A i \in 1 .. n - 1 : l[i] \in Printable
        BY <1>1, <1>2, <3>1
      <4> QED
        BY <3>1, <3>2, <4>1, SubSeqProperties
    <3>4. c \in Glyphs
      BY <1>4 DEF Glyphs
    <3>5. z \in Seq(Glyphs)
      BY <2>1, <3>4
    <3>6. m \in Lines
      BY <1>2, <3>1, <3>3, SizeFacts DEF Lines
    <3> QED
      BY <3>1, <3>2, <3>4, <3>5, <3>6
  <2>3. Typed(f, c) = Edited([f EXCEPT !.line = m], z)
    BY <1>2, <1>4, <2>1 DEF Typed
  <2>4. Typed(f, c).ed = [f EXCEPT !.line = m] /\ Typed(f, c).out = z
    BY <2>3 DEF Edited
  <2>5. [f EXCEPT !.line = m].line = m
    BY DEF Locals
  <2>6. ASSUME NEW s \in Screens, NEW pre \in Prompts, ShowsOn(s, pre \o l)
        PROVE  ShowsOn(PutAll[<<s, z>>], pre \o m)
    <3>1. PICK t, p : t = pre \o l /\ p = (Len(pre) + n) - 1
      OBVIOUS
    <3>2. pre \in Seq(Glyphs)
      BY LineFacts
    <3>3. t \in Seq(Glyphs) /\ Len(t) = p + 1 /\ p \in Nat /\ p = Len(pre) + (n - 1)
      <4>1. t \in Seq(Glyphs) /\ Len(t) = Len(pre) + n
        BY <1>1, <1>2, <3>1, <3>2, ConcatProperties
      <4>2. Len(pre) \in Nat
        BY <3>2
      <4> QED
        BY <1>2, <2>2, <3>1, <4>1, <4>2
    <3>4. SubSeq(t, 1, p) = pre \o m
      <4>1. n - 1 \in 0 .. Len(l)
        BY <1>1, <1>2, <2>2
      <4>2. PICK k : k = n - 1
        OBVIOUS
      <4>3. k \in 0 .. Len(l) /\ l \in Seq(Glyphs)
        BY <1>2, <4>1, <4>2
      <4>4. SubSeq(pre \o l, 1, Len(pre) + k) = pre \o SubSeq(l, 1, k)
        BY <3>2, <4>3, PrefixOfConcat
      <4> QED
        BY <2>2, <3>1, <3>3, <4>2, <4>4
    <3>5. ShowsOn(cons_putc(s, "bs"), SubSeq(t, 1, p))
      BY <2>6, <3>1, <3>3, ShowsBack
    <3>6. PutAll[<<s, <<c>> >>] = cons_putc(s, c)
      BY <1>2, <2>2, PutOne
    <3> QED
      BY <1>4, <2>1, <3>4, <3>5, <3>6
  <2> QED
    BY <1>1, <2>2, <2>4, <2>5, <2>6 DEF InStep
<1>5. CASE ~(c \in Printable /\ Room(f.line)) /\ ~(c = "bs" /\ f.line # <<>>)
  <2>1. Typed(f, c) = Edited(f, <<>>)
    BY <1>5 DEF Typed
  <2>2. Edited(f, <<>>).ed = f
    BY DEF Edited
  <2>3. f = [f EXCEPT !.line = l]
    BY <1>2 DEF Locals
  <2> QED
    BY <1>1, <2>1, <2>2, <2>3, NothingInStep
<1> QED
  BY <1>3, <1>4, <1>5

-----------------------------------------------------------------------------
(***************************************************************************)
(* The history.                                                            *)
(***************************************************************************)
Histories == [list : [0 .. HistoryMax - 1 -> Lines], size : 0 .. HistoryMax,
              write : 0 .. HistoryMax - 1]

\* The slot of the line entered j lines before the last, if w is written next.
Back(w, j) == IF j < w THEN (w - 1) - j ELSE ((w - 1) - j) + HistoryMax

\* The slots in use are a prefix of the list until all are.
Filled(n, w) == /\ n \in 0 .. HistoryMax /\ w \in 0 .. HistoryMax - 1
                /\ n < HistoryMax => w = n

\* UP goes from the slot written next to the last line's, and from any line's to
\* that of the line before it.
LEMMA BackUp ==
    ASSUME NEW n, NEW w, Filled(n, w), n > 0, NEW j \in 0 .. n - 1
    PROVE  /\ Back(w, j) \in 0 .. n - 1
           /\ (IF w = 0 THEN n - 1 ELSE w - 1) = Back(w, 0)
           /\ (IF Back(w, j) = 0 THEN n - 1 ELSE Back(w, j) - 1) =
                 Back(w, IF j + 1 = n THEN 0 ELSE j + 1)
<1>1. HistoryMax \in Nat /\ n \in Nat /\ w \in Nat /\ j \in Nat /\ n <= HistoryMax /\ w < HistoryMax /\ j < n
  BY ConsoleAssumption DEF Filled
<1>2. CASE n < HistoryMax
  <2>1. w = n
    BY <1>2 DEF Filled
  <2> QED
    BY <1>1, <2>1 DEF Back
<1>3. CASE n = HistoryMax
  BY <1>1, <1>3 DEF Back
<1> QED
  BY <1>1, <1>2, <1>3

\* Writing a line moves all the others one back.
LEMMA BackWrite ==
    ASSUME NEW n, NEW w, Filled(n, w), NEW m, m = IF n = HistoryMax THEN HistoryMax ELSE n + 1,
           NEW v, v = (w + 1) % HistoryMax
    PROVE  /\ Filled(m, v) /\ m > 0 /\ Back(v, 0) = w
           /\ \A j \in 1 .. m - 1 :
                 j - 1 \in 0 .. n - 1 /\ Back(v, j) = Back(w, j - 1) /\ Back(v, j) # w
<1>1. /\ HistoryMax \in Nat \ {0} /\ n \in Nat /\ w \in Nat /\ n <= HistoryMax /\ w < HistoryMax
      /\ n < HistoryMax => w = n
  BY ConsoleAssumption DEF Filled
<1>2. v = IF w + 1 = HistoryMax THEN 0 ELSE w + 1
  <2>1. \A a \in Nat, b \in Nat \ {0} : a <= b => a % b = IF a = b THEN 0 ELSE a
    OBVIOUS
  <2> QED
    BY <1>1, <2>1
<1>3. CASE n < HistoryMax
  BY <1>1, <1>2, <1>3 DEF Filled, Back
<1>4. CASE n = HistoryMax
  BY <1>1, <1>2, <1>4 DEF Filled, Back
<1> QED
  BY <1>1, <1>3, <1>4

\* Counting on modulo n.
LEMMA ModNext ==
    ASSUME NEW n \in Nat \ {0}, NEW u \in Nat
    PROVE  /\ 0 % n = 0 /\ u % n \in 0 .. n - 1
           /\ (u + 1) % n = IF (u % n) + 1 = n THEN 0 ELSE (u % n) + 1
<1>1. PICK q, r : q = u \div n /\ r = u % n
  OBVIOUS
<1>2. u = (n * q) + r /\ q \in Nat /\ r \in 0 .. n - 1
  BY <1>1
<1>3. \A p \in Nat, d \in 0 .. n - 1 : ((n * p) + d) % n = d
  OBVIOUS
<1>4. CASE r + 1 = n
  <2>1. PICK p : p = q + 1
    OBVIOUS
  <2>2. u + 1 = (n * p) + 0 /\ p \in Nat /\ 0 \in 0 .. n - 1
    BY <1>2, <1>4, <2>1
  <2>3. (u + 1) % n = 0
    BY <1>3, <2>2
  <2> QED
    BY <1>1, <1>2, <1>4, <2>3
<1>5. CASE r + 1 # n
  <2>1. u + 1 = (n * q) + (r + 1) /\ r + 1 \in 0 .. n - 1
    BY <1>2, <1>5
  <2> QED
    BY <1>1, <1>2, <1>3, <1>5, <2>1
<1> QED
  BY <1>4, <1>5

-----------------------------------------------------------------------------
(***************************************************************************)
(* The invariant of the editor.                                            *)
(***************************************************************************)
\* The types, with the places in the history and among the matches.
EdInv ==
    /\ screen \in Screens /\ ed \in Locals /\ history \in Histories /\ entered \in Seq(Lines)
    /\ reader \in {"prompt", "program", "reset"} /\ ups \in Int /\ ups >= -1
    /\ ed.matches # <<>> => ed.used_match < Len(ed.matches)
    /\ ed.history_used => history.size > 0 /\ ed.history_index < history.size

\* The line stands on the screen, behind the prompt if the prompt reads.
Prompted == IF reader = "prompt" THEN <<">">> ELSE <<>>
ShowInv == reader # "reset" => ShowsOn(screen, Prompted \o ed.line)

\* The slots of the history are the last lines entered.
HistInv ==
    /\ Filled(history.size, history.write) /\ history.size <= Len(entered)
    /\ \A j \in 0 .. history.size - 1 :
          history.list[Back(history.write, j)] = entered[Len(entered) - j]

\* After n UPs in a row the editor is at the n-th last line.
UpsInv ==
    /\ ed.history_used => ups # 0
    /\ ~ed.history_used => ups <= 0
    /\ ed.history_used /\ ups > 0 =>
          /\ ed.history_index = Back(history.write, (ups - 1) % history.size)
          /\ ed.line = entered[Len(entered) - ((ups - 1) % history.size)]
    /\ reader = "program" => ~ed.history_used

EditorInv == EdInv /\ ShowInv /\ HistInv /\ UpsInv

\* What an edit of the prompt must leave, whatever the character was.
Sound(r) ==
    /\ InStep(ed, r) /\ r.ed \in Locals
    /\ r.ed.matches # <<>> => r.ed.used_match < Len(r.ed.matches)
    /\ r.ed.history_used => history.size > 0 /\ r.ed.history_index < history.size

\* Where UP or DOWN goes.
Goes(c) ==
    LET at == IF ed.history_used THEN ed.history_index ELSE history.write
    IN  IF c = "UP" THEN Older(at) ELSE Newer(at)

\* No matches.
LEMMA EmptyMatches == <<>> \in Seq(Lines)
  OBVIOUS

\* UP and DOWN with an empty history.
LEMMA RecallNothing ==
    ASSUME EdInv, NEW c \in {"UP", "DOWN"}, history.size = 0, NEW r, r = PromptEdit(ed, c)
    PROVE  Sound(r) /\ ~r.ed.history_used
<1>1. PICK fresh : fresh = [ed EXCEPT !.matches = <<>>, !.used_match = 0]
  OBVIOUS
<1>2. /\ fresh \in Locals /\ fresh.line = ed.line /\ fresh.matches = <<>>
      /\ fresh.history_used = ed.history_used
  BY <1>1, EmptyMatches DEF EdInv, Locals
<1>3. r = Recall(fresh, c)
  BY <1>1 DEF PromptEdit
<1>4. r = Edited(fresh, <<>>)
  BY <1>3 DEF Recall
<1>5. r.ed = fresh
  BY <1>4 DEF Edited
<1>6. ~ed.history_used
  BY SMT DEF EdInv, Histories
<1>7. InStep(ed, r)
  <2>1. ed.line \in Lines
    BY DEF EdInv, Locals
  <2> QED
    BY <1>2, <1>4, <2>1, NothingInStep
<1> QED
  BY <1>2, <1>5, <1>6, <1>7 DEF Sound

\* UP and DOWN bring a line of the history.
LEMMA RecallLine ==
    ASSUME EdInv, NEW c \in {"UP", "DOWN"}, history.size # 0, Filled(history.size, history.write),
           NEW r, r = PromptEdit(ed, c)
    PROVE  /\ Sound(r) /\ r.ed.history_used
           /\ r.ed.history_index = Goes(c) /\ r.ed.line = history.list[Goes(c)]
<1>1. PICK fresh : fresh = [ed EXCEPT !.matches = <<>>, !.used_match = 0]
  OBVIOUS
<1>2. /\ fresh \in Locals /\ fresh.line = ed.line /\ fresh.matches = <<>>
      /\ fresh.history_used = ed.history_used /\ fresh.history_index = ed.history_index
  BY <1>1, EmptyMatches DEF EdInv, Locals
<1>3. r = Recall(fresh, c)
  BY <1>1 DEF PromptEdit
<1>4. PICK x, l : x = Goes(c) /\ l = history.list[x]
  OBVIOUS
<1>5. PICK g : g = [fresh EXCEPT !.history_index = x, !.history_used = TRUE]
  OBVIOUS
<1>6. r = Replaced(g, l)
  BY <1>2, <1>3, <1>4, <1>5 DEF Recall, Goes
<1>7. x \in 0 .. history.size - 1
  <2>1. PICK n, w, at : /\ n = history.size /\ w = history.write
                        /\ at = IF ed.history_used THEN ed.history_index ELSE w
    OBVIOUS
  <2>2. n \in Nat /\ n > 0 /\ n <= HistoryMax /\ w \in Nat /\ (n < HistoryMax => w = n) /\ w < HistoryMax
    BY <2>1, ConsoleAssumption DEF EdInv, Histories, Filled
  <2>3. at \in Nat /\ (at < n \/ at = w)
    BY <2>1, <2>2 DEF EdInv, Locals
  <2>4. x = IF c = "UP" THEN (IF at = 0 THEN n - 1 ELSE at - 1)
                        ELSE (IF at + 1 >= n THEN 0 ELSE at + 1)
    BY <1>4, <2>1 DEF Goes, Older, Newer
  <2>5. at <= n
    <3>1. n < HistoryMax \/ n = HistoryMax
      BY <2>2, ConsoleAssumption
    <3>2. w <= n
      BY <2>2, <3>1, ConsoleAssumption
    <3> QED
      BY <2>2, <2>3, <3>2
  <2>6. x \in 0 .. n - 1
    BY <2>2, <2>3, <2>4, <2>5
  <2> QED
    BY <2>1, <2>6
<1>8. l \in Lines /\ x \in Nat /\ x < history.size /\ history.size > 0
  <2>1. history.size \in 0 .. HistoryMax /\ HistoryMax \in Nat
    BY ConsoleAssumption DEF EdInv, Histories
  <2>2. x \in 0 .. HistoryMax - 1 /\ x \in Nat /\ x < history.size /\ history.size > 0
    BY <1>7, <2>1
  <2> QED
    BY <1>4, <2>2 DEF EdInv, Histories
<1>9. g \in Locals /\ g.line = ed.line /\ g.matches = <<>> /\ g.history_used /\ g.history_index = x
  BY <1>2, <1>5, <1>8 DEF Locals
<1>10. r.ed = [g EXCEPT !.line = l] /\ r.out = [k \in DOMAIN g.line |-> "bs"] \o l
  BY <1>6 DEF Replaced, Edited
<1>11. /\ r.ed \in Locals /\ r.ed.line = l /\ r.ed.matches = <<>> /\ r.ed.history_used
       /\ r.ed.history_index = x
  BY <1>8, <1>9, <1>10 DEF Locals
<1>12. InStep(ed, r)
  <2>1. ed.line \in Lines
    BY DEF EdInv, Locals
  <2>2. /\ l \in Lines /\ g.line = ed.line /\ r.ed.line = l
        /\ r.out = [k \in DOMAIN g.line |-> "bs"] \o l
    BY <1>8, <1>9, <1>10, <1>11
  <2> QED
    BY <2>1, <2>2, ReplacedInStep
<1> QED
  BY <1>4, <1>8, <1>11, <1>12 DEF Sound

\* The commands fit in a line.
LEMMA MatchingType ==
    ASSUME NEW l
    PROVE  Matching(l) \in Seq(Lines)
<1>1. \A n \in 1 .. 3 : Commands[n] \in Lines
  <2>1. {"r", "a", "m", "p"} \subseteq Printable
    BY DEF Printable
  <2>2. PICK x, y, z : x = <<"r", "a">> /\ y = <<"m">> /\ z = <<"r", "p">>
    OBVIOUS
  <2>3. x \in Lines /\ y \in Lines /\ z \in Lines
    BY <2>1, <2>2, SizeFacts DEF Lines
  <2>4. Commands[1] = x /\ Commands[2] = y /\ Commands[3] = z
    BY <2>2 DEF Commands
  <2> QED
    BY <2>3, <2>4
<1>2. \A n \in 1 .. 3 : Match(l, n) \in Seq(Lines)
  BY <1>1 DEF Match
<1>3. PICK a, b, c : a = Match(l, 1) /\ b = Match(l, 2) /\ c = Match(l, 3)
  OBVIOUS
<1>4. a \in Seq(Lines) /\ b \in Seq(Lines) /\ c \in Seq(Lines)
  BY <1>2, <1>3
<1>5. a \o b \in Seq(Lines)
  BY <1>4, ConcatProperties
<1>6. (a \o b) \o c \in Seq(Lines)
  BY <1>4, <1>5, ConcatProperties
<1> QED
  BY <1>3, <1>6 DEF Matching

\* TAB.
LEMMA Completed ==
    ASSUME EdInv, NEW r, r = PromptEdit(ed, "\t")
    PROVE  Sound(r) /\ ~r.ed.history_used
<1>1. PICK e : e = [ed EXCEPT !.history_used = FALSE, !.history_index = 0]
  OBVIOUS
<1>2. /\ e \in Locals /\ e.line = ed.line /\ e.matches = ed.matches /\ e.used_match = ed.used_match
      /\ ~e.history_used
  BY <1>1 DEF EdInv, Locals
<1>3. r = Complete(e)
  BY <1>1 DEF PromptEdit, Printable
<1>4. PICK ms, n : /\ ms = (IF e.matches = <<>> THEN Matching(e.line) ELSE e.matches)
                   /\ n = (IF e.matches = <<>> THEN 1 ELSE e.used_match + 1)
  OBVIOUS
<1>5. ms \in Seq(Lines)
  BY <1>2, <1>4, MatchingType DEF Locals
<1>6. ed.line \in Lines
  BY DEF EdInv, Locals
<1>7. CASE ms = <<>>
  <2>1. r = Edited(e, <<>>)
    BY <1>3, <1>4, <1>7 DEF Complete
  <2>2. r.ed = e
    BY <2>1 DEF Edited
  <2>3. InStep(ed, r)
    BY <1>2, <1>6, <2>1, NothingInStep
  <2>4. e.matches = <<>>
    BY <1>4, <1>7
  <2> QED
    BY <1>2, <2>2, <2>3, <2>4 DEF Sound
<1>8. CASE ms # <<>>
  <2>1. PICK l, u, g : l = ms[n] /\ u = n % Len(ms) /\ g = [e EXCEPT !.matches = ms, !.used_match = u]
    OBVIOUS
  <2>2. n \in 1 .. Len(ms)
    <3>1. Len(ms) \in Nat /\ Len(ms) >= 1
      BY <1>5, <1>8
    <3>2. CASE e.matches = <<>>
      BY <1>4, <3>1, <3>2
    <3>3. CASE e.matches # <<>>
      <4>1. ms = ed.matches /\ n = ed.used_match + 1 /\ ed.used_match \in Nat
        BY <1>2, <1>4, <3>3 DEF Locals
      <4>2. ed.used_match < Len(ms)
        BY <1>8, <4>1 DEF EdInv
      <4> QED
        BY <3>1, <4>1, <4>2
    <3> QED
      BY <3>2, <3>3
  <2>3. l \in Lines /\ Len(ms) \in Nat \ {0} /\ n \in Nat
    BY <1>5, <2>1, <2>2
  <2>4. u \in Nat /\ u < Len(ms)
    <3>1. \A a \in Nat, b \in Nat \ {0} : a % b \in Nat /\ a % b < b
      OBVIOUS
    <3> QED
      BY <2>1, <2>3, <3>1
  <2>5. r = Replaced(g, l)
    BY <1>3, <1>4, <1>8, <2>1 DEF Complete
  <2>6. g \in Locals /\ g.line = ed.line /\ g.matches = ms /\ g.used_match = u /\ ~g.history_used
    BY <1>2, <1>5, <2>1, <2>4 DEF Locals
  <2>7. r.ed = [g EXCEPT !.line = l] /\ r.out = [k \in DOMAIN g.line |-> "bs"] \o l
    <3>1. Replaced(g, l) = [ed |-> [g EXCEPT !.line = l], out |-> [k \in DOMAIN g.line |-> "bs"] \o l]
      BY DEF Replaced, Edited
    <3>2. Replaced(g, l).ed = [g EXCEPT !.line = l]
      BY <3>1
    <3>3. Replaced(g, l).out = [k \in DOMAIN g.line |-> "bs"] \o l
      BY <3>1
    <3> QED
      BY <2>5, <3>2, <3>3, Zenon
  <2>8. /\ r.ed \in Locals /\ r.ed.line = l /\ r.ed.matches = ms /\ r.ed.used_match = u
        /\ ~r.ed.history_used
    BY <2>3, <2>6, <2>7 DEF Locals
  <2>9. InStep(ed, r)
    BY <1>6, <2>3, <2>6, <2>7, <2>8, ReplacedInStep
  <2> QED
    BY <2>4, <2>8, <2>9 DEF Sound
<1> QED
  BY <1>7, <1>8

\* Every other character is typed, rubs one out or is ignored.
LEMMA OtherEdit ==
    ASSUME EdInv, NEW c \in Chars, c \notin {"UP", "DOWN", "\t"}, NEW r, r = PromptEdit(ed, c)
    PROVE  Sound(r) /\ (~r.ed.history_used \/ r.ed = ed)
<1>1. PICK plain : plain = [[ed EXCEPT !.matches = <<>>, !.used_match = 0]
                                EXCEPT !.history_used = FALSE, !.history_index = 0]
  OBVIOUS
<1>2. plain \in Locals /\ plain.line = ed.line /\ plain.matches = <<>> /\ ~plain.history_used
  BY <1>1, EmptyMatches DEF EdInv, Locals
<1>3. ed.line \in Lines /\ ed \in Locals
  BY DEF EdInv, Locals
<1>4. r = Typed(plain, c) \/ r = Edited(ed, <<>>)
  BY <1>1 DEF PromptEdit
<1>5. CASE r = Typed(plain, c)
  <2>1. InStep(ed, r)
    BY <1>2, <1>3, <1>5, TypedInStep
  <2>2. PICK l \in Lines : r.ed = [plain EXCEPT !.line = l]
    BY <1>2, <1>3, <1>5, TypedInStep
  <2>3. r.ed \in Locals /\ r.ed.matches = <<>> /\ ~r.ed.history_used
    BY <1>2, <2>2 DEF Locals
  <2> QED
    BY <2>1, <2>3 DEF Sound
<1>6. CASE r = Edited(ed, <<>>)
  <2>1. r.ed = ed
    BY <1>6 DEF Edited
  <2>2. InStep(ed, r)
    BY <1>3, <1>6, NothingInStep
  <2> QED
    BY <1>3, <2>1, <2>2 DEF Sound, EdInv
<1> QED
  BY <1>4, <1>5, <1>6

-----------------------------------------------------------------------------
(***************************************************************************)
(* The steps.                                                              *)
(***************************************************************************)
\* Steps of the devices, and a poll that finds no character.
LEMMA EditorRests ==
    ASSUME EditorInv, UNCHANGED <<screen, ed, history, entered, ups>>, reader' \in {reader, "reset"}
    PROVE  EditorInv'
<1>1. EdInv'
  BY DEF EditorInv, EdInv
<1>2. ShowInv'
  BY DEF EditorInv, ShowInv, Prompted
<1>3. HistInv'
  BY DEF EditorInv, HistInv
<1>4. UpsInv'
  BY DEF EditorInv, UpsInv
<1> QED
  BY <1>1, <1>2, <1>3, <1>4 DEF EditorInv

\* UP, after the n-th of a row or the first: the next older line.
LEMMA OneMoreUp ==
    ASSUME EditorInv, history.size # 0, ups >= 0, NEW e,
           e.history_index = Goes("UP"), e.line = history.list[Goes("UP")]
    PROVE  /\ e.history_index = Back(history.write, ups % history.size)
           /\ e.line = entered[Len(entered) - (ups % history.size)]
<1>1. PICK n, w, u : n = history.size /\ w = history.write /\ u = ups
  OBVIOUS
<1>2. Filled(n, w) /\ n \in Nat \ {0} /\ n > 0 /\ u \in Nat
  BY <1>1, ConsoleAssumption DEF EditorInv, EdInv, HistInv, Histories
<1>3. Goes("UP") = Back(w, u % n)
  <2>1. CASE u = 0
    <3>1. ~ed.history_used
      BY <1>1, <2>1 DEF EditorInv, UpsInv
    <3>2. Goes("UP") = IF w = 0 THEN n - 1 ELSE w - 1
      BY <1>1, <3>1 DEF Goes, Older
    <3>3. 0 \in 0 .. n - 1 /\ u % n = 0
      BY <1>2, <2>1, ModNext
    <3> QED
      BY <1>2, <3>2, <3>3, BackUp
  <2>2. CASE u # 0
    <3>1. PICK v, j : v = u - 1 /\ j = v % n
      OBVIOUS
    <3>2. v \in Nat /\ u = v + 1 /\ u > 0
      BY <1>2, <2>2, <3>1
    <3>3. j \in 0 .. n - 1 /\ u % n = IF j + 1 = n THEN 0 ELSE j + 1
      BY <1>2, <3>1, <3>2, ModNext
    <3>4. ed.history_used
      BY <1>1, <1>2, <3>2 DEF EditorInv, UpsInv
    <3>5. ed.history_index = Back(w, j)
      BY <1>1, <3>1, <3>2, <3>4 DEF EditorInv, UpsInv
    <3>6. Goes("UP") = IF Back(w, j) = 0 THEN n - 1 ELSE Back(w, j) - 1
      BY <1>1, <3>4, <3>5 DEF Goes, Older
    <3> QED
      BY <1>2, <3>3, <3>6, BackUp
  <2> QED
    BY <2>1, <2>2
<1>4. u % n \in 0 .. n - 1
  BY <1>2, ModNext
<1>5. history.list[Back(w, u % n)] = entered[Len(entered) - (u % n)]
  BY <1>1, <1>4 DEF EditorInv, HistInv
<1> QED
  BY <1>1, <1>3, <1>5

\* The prompt takes a character.
LEMMA PromptTakesInv ==
    ASSUME EditorInv, reader = "prompt", NEW c \in Chars, NEW d, PromptTakes(d, c)
    PROVE  EditorInv'
<1>1. PICK r : /\ r = PromptEdit(ed, c) /\ ed' = r.ed /\ screen' = PutAll[<<screen, r.out>>]
  BY DEF PromptTakes
<1>2. PICK e : e = r.ed
  OBVIOUS
<1>3. /\ ed' = e /\ reader' = reader /\ history' = history /\ entered' = entered
      /\ ups' = IF c = "UP" /\ history.size > 0 /\ ups >= 0 THEN ups + 1
                ELSE IF c = "DOWN" THEN -1 ELSE IF e.history_used THEN ups ELSE 0
  BY <1>1, <1>2 DEF PromptTakes
<1>4. history.size \in Nat /\ Filled(history.size, history.write) /\ ups \in Int /\ ups >= -1 /\ EdInv
  BY ConsoleAssumption DEF EditorInv, EdInv, HistInv, Histories
<1>5. /\ Sound(r)
      /\ c \in {"UP", "DOWN"} /\ history.size # 0 =>
            /\ e.history_used /\ e.history_index = Goes(c) /\ e.line = history.list[Goes(c)]
      /\ ~(c \in {"UP", "DOWN"} /\ history.size # 0) => ~e.history_used \/ e = ed
  <2>1. CASE c \in {"UP", "DOWN"} /\ history.size # 0
    BY <1>1, <1>2, <1>4, <2>1, RecallLine
  <2>2. CASE c \in {"UP", "DOWN"} /\ history.size = 0
    BY <1>1, <1>2, <1>4, <2>2, RecallNothing
  <2>3. CASE c = "\t"
    BY <1>1, <1>2, <1>4, <2>3, Completed
  <2>4. CASE c \notin {"UP", "DOWN", "\t"}
    BY <1>1, <1>2, <1>4, <2>4, OtherEdit
  <2> QED
    BY <2>1, <2>2, <2>3, <2>4
<1>6. screen' \in Screens
  <2>1. screen \in Screens /\ r.out \in Seq(Glyphs)
    BY <1>4, <1>5 DEF EdInv, Sound, InStep
  <2> QED
    BY <1>1, <2>1, PutIsScreen
<1>7. ups' \in Int /\ ups' >= -1
  BY <1>3, <1>4
<1>8. EdInv'
  BY <1>2, <1>3, <1>4, <1>5, <1>6, <1>7 DEF EdInv, Sound
<1>9. ShowInv'
  <2>1. PICK pre : pre = <<">">>
    OBVIOUS
  <2>2. pre \in Prompts /\ Prompted = pre /\ Prompted' = pre
    BY <1>3, <2>1 DEF Prompts, Prompted
  <2>3. ShowsOn(screen, pre \o ed.line) /\ screen \in Screens
    BY <1>4, <2>2 DEF EditorInv, ShowInv, EdInv
  <2>4. ShowsOn(PutAll[<<screen, r.out>>], pre \o r.ed.line)
    BY <1>5, <2>2, <2>3 DEF Sound, InStep
  <2> QED
    BY <1>1, <2>2, <2>4 DEF ShowInv
<1>10. HistInv'
  BY <1>3 DEF EditorInv, HistInv
<1>11. UpsInv'
  <2>1. reader' # "program"
    BY <1>3
  <2>2. CASE c \in {"UP", "DOWN"} /\ history.size # 0
    <3>1. CASE c = "UP" /\ ups >= 0
      <4>1. ups' = ups + 1 /\ ups' > 0 /\ ups' - 1 = ups
        BY <1>3, <1>4, <2>2, <3>1
      <4>2. /\ e.history_index = Back(history.write, ups % history.size)
            /\ e.line = entered[Len(entered) - (ups % history.size)]
        BY <1>5, <2>2, <3>1, OneMoreUp
      <4> QED
        BY <1>3, <1>5, <2>1, <2>2, <4>1, <4>2 DEF UpsInv
    <3>2. CASE ~(c = "UP" /\ ups >= 0)
      <4>1. ups' = -1
        BY <1>3, <1>4, <1>5, <2>2, <3>2
      <4> QED
        BY <1>3, <1>5, <2>1, <2>2, <4>1 DEF UpsInv
    <3> QED
      BY <3>1, <3>2
  <2>3. CASE ~(c \in {"UP", "DOWN"} /\ history.size # 0)
    <3>1. CASE ~e.history_used
      <4>1. ups' \in {0, -1}
        BY <1>3, <1>4, <2>3, <3>1
      <4> QED
        BY <1>3, <2>1, <3>1, <4>1 DEF UpsInv
    <3>2. CASE e.history_used
      <4>1. e = ed /\ history.size # 0
        BY <1>4, <1>5, <2>3, <3>2 DEF EdInv
      <4>2. ups' = ups
        BY <1>3, <2>3, <3>2, <4>1
      <4> QED
        BY <1>3, <2>1, <4>1, <4>2 DEF EditorInv, UpsInv
    <3> QED
      BY <3>1, <3>2
  <2> QED
    BY <2>2, <2>3
<1> QED
  BY <1>8, <1>9, <1>10, <1>11 DEF EditorInv

\* A program takes a character.
LEMMA ProgramTakesInv ==
    ASSUME EditorInv, reader = "program", NEW c \in Chars, NEW d, ProgramTakes(d, c)
    PROVE  EditorInv'
<1>1. PICK r : /\ r = Typed(ed, c) /\ ed' = r.ed /\ screen' = PutAll[<<screen, r.out>>]
  BY DEF ProgramTakes
<1>2. reader' = reader /\ history' = history /\ entered' = entered /\ ups' = ups
  BY DEF ProgramTakes
<1>3. ed \in Locals /\ ed.line \in Lines /\ screen \in Screens /\ ~ed.history_used
  BY DEF EditorInv, EdInv, UpsInv, Locals
<1>4. InStep(ed, r)
  BY <1>1, <1>3, TypedInStep
<1>5. PICK l \in Lines : r.ed = [ed EXCEPT !.line = l]
  BY <1>1, <1>3, TypedInStep
<1>6. PICK e : e = [ed EXCEPT !.line = l]
  OBVIOUS
<1>7. /\ ed' = e /\ e \in Locals /\ e.line = l /\ ~e.history_used /\ e.matches = ed.matches
      /\ e.used_match = ed.used_match
  BY <1>1, <1>3, <1>5, <1>6 DEF Locals
<1>8. screen' \in Screens
  <2>1. r.out \in Seq(Glyphs)
    BY <1>4 DEF InStep
  <2> QED
    BY <1>1, <1>3, <2>1, PutIsScreen
<1>9. EdInv'
  BY <1>2, <1>7, <1>8 DEF EditorInv, EdInv
<1>10. ShowInv'
  <2>1. PICK pre : pre = <<>>
    OBVIOUS
  <2>2. pre \in Prompts /\ Prompted = pre /\ Prompted' = pre
    BY <1>2, <2>1 DEF Prompts, Prompted
  <2>3. ShowsOn(screen, pre \o ed.line)
    BY <2>2 DEF EditorInv, ShowInv
  <2>4. ShowsOn(PutAll[<<screen, r.out>>], pre \o r.ed.line)
    BY <1>3, <1>4, <2>2, <2>3 DEF InStep
  <2> QED
    BY <1>1, <2>2, <2>4 DEF ShowInv
<1>11. HistInv'
  BY <1>2 DEF EditorInv, HistInv
<1>12. UpsInv'
  BY <1>2, <1>3, <1>7 DEF EditorInv, UpsInv
<1> QED
  BY <1>9, <1>10, <1>11, <1>12 DEF EditorInv

\* A fresh line.
LEMMA NewLineFacts ==
    /\ NewLine \in Locals /\ NewLine.line = <<>> /\ NewLine.matches = <<>> /\ ~NewLine.history_used
<1>1. <<>> \in Lines
  BY SizeFacts DEF Lines
<1> QED
  BY <1>1, EmptyMatches DEF NewLine, Locals

\* A prompt after any output stands in front of the cursor.
LEMMA PromptShown ==
    ASSUME NEW s \in Screens, NEW a \in Seq(Glyphs)
    PROVE  /\ PutAll[<<s, a>>] \in Screens /\ ShowsOn(PutAll[<<s, a>>], <<>>)
           /\ PutAll[<<s, a \o <<">">> >>] \in Screens
           /\ ShowsOn(PutAll[<<s, a \o <<">">> >>], <<">">>)
<1>1. PICK z, y : z = <<">">> /\ y = PutAll[<<s, a>>]
  OBVIOUS
<1>2. ">" \in Glyphs \ Controls /\ ">" \in Glyphs
  BY DEF Glyphs, Controls
<1>3. z \in Seq(Glyphs) /\ a \o z \in Seq(Glyphs)
  <2>1. z \in Seq(Glyphs)
    BY <1>1, <1>2
  <2> QED
    BY <2>1, ConcatProperties
<1>4. y \in Screens /\ PutAll[<<s, a \o z>>] \in Screens
  <2>1. y \in Screens
    BY <1>1, <1>2, PutIsScreen
  <2>2. PICK b : b = a \o z
    OBVIOUS
  <2>3. PutAll[<<s, b>>] \in Screens
    BY <1>2, <1>3, <2>2, PutIsScreen
  <2> QED
    BY <2>1, <2>2, <2>3
<1>5. PICK t : t = <<>>
  OBVIOUS
<1>6. t \in Seq(Glyphs) /\ Len(t) = 0 /\ t \o z = z /\ ShowsOn(y, t)
  <2>1. t \in Seq(Glyphs) /\ Len(t) = 0 /\ t \o z = z
    BY <1>3, <1>5, ConcatEmptySeq
  <2>2. y.pos \in Nat
    BY <1>4, SizeFacts DEF Screens
  <2> QED
    BY <2>1, <2>2 DEF ShowsOn
<1>7. ShowsOn(cons_putc(y, ">"), t \o <<">">>)
  <2>1. Len(t) < CrtSize - CrtCols
    BY <1>6, SizeFacts
  <2> QED
    BY <1>2, <1>4, <1>6, <2>1, ShowsPut
<1>8. PutAll[<<s, a \o z>>] = PutAll[<<y, z>>]
  <2>1. z \in Seq(Glyphs)
    BY <1>3
  <2>2. PutAll[<<s, a \o z>>] = PutAll[<<PutAll[<<s, a>>], z>>]
    BY <2>1, PutJoin
  <2> QED
    BY <1>1, <2>2
<1>9. PutAll[<<y, <<">">> >>] = cons_putc(y, ">")
  BY <1>2, <1>3, <1>4, PutOne
<1> QED
  BY <1>1, <1>4, <1>5, <1>6, <1>7, <1>8, <1>9

\* Enter at the prompt: the line goes into the history.
LEMMA PromptEnterInv ==
    ASSUME EditorInv, reader = "prompt", NEW c, NEW d, PromptEnter(d, c)
    PROVE  EditorInv'
<1>1. PICK l, x, h, q : l = ed.line /\ x = Executed(l) /\ h = history /\ q = entered
  OBVIOUS
<1>2. /\ c \in {"\n", "\r"} /\ reader' = x.reader /\ ed' = NewLine /\ ups' = 0
      /\ entered' = Append(q, l)
      /\ history' = [list  |-> [h.list EXCEPT ![h.write] = l],
                     size  |-> IF h.size = HistoryMax THEN HistoryMax ELSE h.size + 1,
                     write |-> (h.write + 1) % HistoryMax]
      /\ screen' = PutAll[<<screen, <<c>> \o x.out \o IF x.reader = "prompt" THEN <<">">> ELSE <<>> >>]
  BY <1>1 DEF PromptEnter, SaveHistory
<1>3. /\ l \in Lines /\ h \in Histories /\ q \in Seq(Lines) /\ screen \in Screens
  BY <1>1 DEF EditorInv, EdInv, Locals
<1>4. PICK hl, n, w, m, v : /\ hl = h.list /\ n = h.size /\ w = h.write
                            /\ m = (IF n = HistoryMax THEN HistoryMax ELSE n + 1)
                            /\ v = (w + 1) % HistoryMax
  OBVIOUS
<1>5. Filled(n, w) /\ n <= Len(q) /\ \A j \in 0 .. n - 1 : hl[Back(w, j)] = q[Len(q) - j]
  BY <1>1, <1>4 DEF EditorInv, HistInv
<1>6. /\ Filled(m, v) /\ m > 0 /\ Back(v, 0) = w
      /\ \A j \in 1 .. m - 1 :
            j - 1 \in 0 .. n - 1 /\ Back(v, j) = Back(w, j - 1) /\ Back(v, j) # w
  BY <1>4, <1>5, BackWrite
<1>7. PICK g, p : g = [hl EXCEPT ![w] = l] /\ p = Append(q, l)
  OBVIOUS
<1>8. history' = [list |-> g, size |-> m, write |-> v] /\ entered' = p
  BY <1>2, <1>4, <1>7
<1>9. /\ history'.list = g /\ history'.size = m /\ history'.write = v
  BY <1>8
<1>10. /\ hl \in [0 .. HistoryMax - 1 -> Lines] /\ w \in 0 .. HistoryMax - 1
       /\ g \in [0 .. HistoryMax - 1 -> Lines]
  BY <1>3, <1>4, <1>7 DEF Histories
<1>11. /\ p \in Seq(Lines) /\ Len(p) = Len(q) + 1 /\ p[Len(q) + 1] = l
       /\ \A i \in 1 .. Len(q) : p[i] = q[i]
  BY <1>3, <1>7
<1>12. HistInv'
  <2>1. m <= Len(p)
    <3>1. n \in Nat /\ HistoryMax \in Nat /\ Len(q) \in Nat
      BY <1>3, <1>5, ConsoleAssumption DEF Filled
    <3> QED
      BY <1>4, <1>5, <1>11, <3>1
  <2>2. ASSUME NEW j \in 0 .. m - 1 PROVE g[Back(v, j)] = p[Len(p) - j]
    <3>1. CASE j = 0
      <4>1. Len(p) - j = Len(q) + 1
        BY <1>3, <1>11, <3>1
      <4> QED
        BY <1>6, <1>7, <1>10, <1>11, <3>1, <4>1
    <3>2. CASE j # 0
      <4>1. j \in 1 .. m - 1
        BY <3>2
      <4>2. PICK i, b : i = j - 1 /\ b = Back(w, i)
        OBVIOUS
      <4>3. i \in 0 .. n - 1 /\ Back(v, j) = b /\ b # w
        BY <1>6, <4>1, <4>2
      <4>4. b \in 0 .. HistoryMax - 1 /\ n \in Nat /\ n > 0
        <5>1. n \in Nat /\ n <= HistoryMax /\ HistoryMax \in Nat
          BY <1>5, ConsoleAssumption DEF Filled
        <5>2. n > 0
          BY <4>3, <5>1
        <5>3. b \in 0 .. n - 1
          BY <1>5, <4>2, <4>3, <5>2, BackUp
        <5> QED
          BY <5>1, <5>2, <5>3
      <4>5. g[b] = hl[b]
        BY <1>7, <1>10, <4>3, <4>4
      <4>6. hl[b] = q[Len(q) - i]
        BY <1>5, <4>2, <4>3
      <4>7. Len(p) - j = Len(q) - i /\ Len(q) - i \in 1 .. Len(q)
        <5>1. Len(q) \in Nat /\ i <= n - 1 /\ i \in Nat
          BY <1>3, <4>3, <4>4
        <5> QED
          BY <1>5, <1>11, <4>1, <4>2, <4>4, <5>1
      <4> QED
        BY <1>11, <4>3, <4>5, <4>6, <4>7
    <3> QED
      BY <3>1, <3>2
  <2> QED
    BY <1>6, <1>8, <1>9, <2>1, <2>2 DEF HistInv
<1>13. /\ x.out \in Seq(Glyphs) /\ x.reader \in {"prompt", "program"}
  <2>1. PICK z, y : z = <<>> /\ y = <<"?", "\n">>
    OBVIOUS
  <2>2. z \in Seq(Glyphs) /\ y \in Seq(Glyphs)
    <3>1. "?" \in Glyphs /\ "\n" \in Glyphs
      BY DEF Glyphs
    <3> QED
      BY <2>1, <3>1
  <2>3. x \in {[out |-> z, reader |-> "prompt"], [out |-> z, reader |-> "program"],
               [out |-> y, reader |-> "prompt"]}
    BY <1>1, <2>1 DEF Executed
  <2> QED
    BY <2>2, <2>3
<1>14. PICK a : a = <<c>> \o x.out
  OBVIOUS
<1>15. a \in Seq(Glyphs)
  <2>1. c \in Glyphs
    BY <1>2 DEF Glyphs
  <2>2. <<c>> \in Seq(Glyphs)
    BY <2>1
  <2> QED
    BY <1>13, <1>14, <2>2, ConcatProperties
<1>16. screen' \in Screens /\ ShowsOn(screen', Prompted')
  <2>1. CASE x.reader = "prompt"
    <3>1. screen' = PutAll[<<screen, a \o <<">">> >>] /\ Prompted' = <<">">>
      BY <1>2, <1>14, <2>1 DEF Prompted
    <3> QED
      BY <1>3, <1>15, <3>1, PromptShown
  <2>2. CASE x.reader = "program"
    <3>1. screen' = PutAll[<<screen, a \o <<>> >>] /\ Prompted' = <<>>
      BY <1>2, <1>14, <2>2 DEF Prompted
    <3>2. a \o <<>> = a
      BY <1>15, ConcatEmptySeq
    <3> QED
      BY <1>3, <1>15, <3>1, <3>2, PromptShown
  <2> QED
    BY <1>13, <2>1, <2>2
<1>17. ShowInv'
  <2>1. Prompted' \in Seq(Glyphs)
    <3>1. Prompted' \in Prompts
      BY DEF Prompted, Prompts
    <3>2. <<>> \in Lines
      BY SizeFacts DEF Lines
    <3> QED
      BY <3>1, <3>2, LineFacts
  <2>2. Prompted' \o <<>> = Prompted'
    BY <2>1, ConcatEmptySeq
  <2>3. (Prompted \o ed.line)' = Prompted'
    BY <1>2, <2>2, NewLineFacts
  <2> QED
    BY <1>16, <2>3 DEF ShowInv
<1>18. EdInv'
  <2>1. history' \in Histories
    BY <1>6, <1>8, <1>10 DEF Histories, Filled
  <2> QED
    BY <1>2, <1>8, <1>11, <1>13, <1>16, <2>1, NewLineFacts DEF EdInv
<1>19. UpsInv'
  BY <1>2, NewLineFacts DEF UpsInv
<1> QED
  BY <1>12, <1>17, <1>18, <1>19 DEF EditorInv

\* Enter in a program.
LEMMA ProgramEnterInv ==
    ASSUME EditorInv, reader = "program", NEW c, NEW d, ProgramEnter(d, c)
    PROVE  EditorInv'
<1>1. /\ c \in {"\n", "\r"} /\ reader' = "prompt" /\ ed' = NewLine
      /\ screen' = PutAll[<<screen, <<c, "\t", ">">> >>]
      /\ history' = history /\ entered' = entered /\ ups' = ups
  BY DEF ProgramEnter
<1>2. screen \in Screens /\ ups <= 0 /\ ups \in Int /\ ups >= -1
  BY DEF EditorInv, EdInv, UpsInv
<1>3. PICK a : a = <<c, "\t">>
  OBVIOUS
<1>4. a \in Seq(Glyphs) /\ <<c, "\t", ">">> = a \o <<">">>
  <2>1. c \in Glyphs /\ "\t" \in Glyphs
    BY <1>1 DEF Glyphs
  <2>2. a \in Seq(Glyphs)
    BY <1>3, <2>1
  <2> QED
    BY <1>3, <2>2
<1>5. screen' \in Screens /\ ShowsOn(screen', <<">">>)
  BY <1>1, <1>2, <1>4, PromptShown
<1>6. ShowInv'
  <2>1. Prompted' = <<">">> /\ (ed.line)' = <<>>
    BY <1>1, NewLineFacts DEF Prompted
  <2>2. <<">">> \o <<>> = <<">">>
    OBVIOUS
  <2> QED
    BY <1>5, <2>1, <2>2 DEF ShowInv
<1>7. EdInv'
  BY <1>1, <1>5, NewLineFacts DEF EditorInv, EdInv
<1>8. HistInv'
  BY <1>1 DEF EditorInv, HistInv
<1>9. UpsInv'
  BY <1>1, <1>2, NewLineFacts DEF UpsInv
<1> QED
  BY <1>6, <1>7, <1>8, <1>9 DEF EditorInv

\* At boot the screen shows the prompt, and the history is empty.
LEMMA EditorInit == ConsoleInit => EditorInv
<1> SUFFICES ASSUME ConsoleInit PROVE EditorInv
  OBVIOUS
<1>1. PICK s : s = ClearScreen
  OBVIOUS
<1>2. s \in Screens
  <2>1. " " \in Glyphs
    BY DEF Glyphs
  <2>2. 0 \in 0 .. CrtSize - 1
    BY SizeFacts
  <2> QED
    BY <1>1, <2>1, <2>2 DEF ClearScreen, Screens
<1>3. PICK a : a = <<>>
  OBVIOUS
<1>4. screen \in Screens /\ ShowsOn(screen, <<">">>)
  <2>1. a \in Seq(Glyphs) /\ a \o <<">">> = <<">">>
    BY <1>3
  <2>2. /\ PutAll[<<s, a \o <<">">> >>] \in Screens
        /\ ShowsOn(PutAll[<<s, a \o <<">">> >>], <<">">>)
    BY <1>2, <2>1, PromptShown
  <2>3. ">" \in Glyphs
    BY DEF Glyphs
  <2>4. PutAll[<<s, <<">">> >>] = cons_putc(s, ">")
    BY <1>2, <2>1, <2>3, PutOne
  <2>5. screen = cons_putc(s, ">")
    BY <1>1 DEF ConsoleInit, cons_putc
  <2> QED
    BY <2>1, <2>2, <2>4, <2>5
<1>5. ShowInv
  <2>1. Prompted = <<">">> /\ ed.line = <<>>
    BY NewLineFacts DEF ConsoleInit, Prompted
  <2>2. <<">">> \o <<>> = <<">">>
    OBVIOUS
  <2> QED
    BY <1>4, <2>1, <2>2 DEF ShowInv
<1>6. history \in Histories /\ history.size = 0 /\ history.write = 0
  <2>1. <<>> \in Lines
    BY SizeFacts DEF Lines
  <2>2. 0 \in 0 .. HistoryMax /\ 0 \in 0 .. HistoryMax - 1
    BY ConsoleAssumption
  <2> QED
    BY <2>1, <2>2 DEF ConsoleInit, Histories
<1>7. EdInv
  <2>1. entered \in Seq(Lines) /\ reader = "prompt" /\ ups = 0 /\ ed = NewLine
    BY DEF ConsoleInit
  <2> QED
    BY <1>4, <1>6, <2>1, NewLineFacts DEF EdInv
<1>8. HistInv
  <2>1. Len(entered) = 0
    BY DEF ConsoleInit
  <2> QED
    BY <1>6, <2>1, ConsoleAssumption DEF HistInv, Filled
<1>9. UpsInv
  BY NewLineFacts DEF ConsoleInit, UpsInv
<1> QED
  BY <1>5, <1>7, <1>8, <1>9 DEF EditorInv

\* What a poll takes from the buffer is a character.
LEMMA NextCharType ==
    ASSUME NEW d \in DeviceStates
    PROVE  NextChar(d) \in Chars
<1>1. d.cons \in Buffers
  BY DEF DeviceStates
<1>2. d.cons.buf[d.cons.rpos] \in Chars
  BY <1>1 DEF Buffers, Chars
<1> QED
  BY <1>2 DEF NextChar, Chars

\* Every step keeps the invariant of the editor.
LEMMA EditorStep ==
    ASSUME BufInv, EditorInv, [ConsoleNext]_consoleVars
    PROVE  EditorInv'
<1>1. CASE \/ \E k \in Keys : Strike(k)
           \/ \E k \in Modifiers : Hold(k) \/ LetGo(k)
           \/ SerialReceive \/ Off \/ UNCHANGED consoleVars
  <2>1. UNCHANGED <<screen, ed, history, entered, ups>> /\ reader' = reader
    BY <1>1 DEF Strike, Hold, LetGo, Send, SerialReceive, Off, consoleVars, reading
  <2> QED
    BY <2>1, EditorRests
<1>2. CASE PromptGetc
  <2>1. PICK d : /\ d = PromptPoll
                 /\ \/ PromptWaits(d) \/ PromptTakes(d, NextChar(d)) \/ PromptEnter(d, NextChar(d))
                    \/ Polled(d, NO) /\ Reset(d)
    BY <1>2 DEF PromptGetc
  <2>2. reader = "prompt"
    BY <1>2 DEF PromptGetc
  <2>3. NextChar(d) \in Chars
    BY <2>1, PollFacts, NextCharType
  <2>4. CASE PromptWaits(d)
    BY <2>4, EditorRests DEF PromptWaits
  <2>5. CASE Reset(d)
    BY <2>5, EditorRests DEF Reset
  <2>6. CASE PromptTakes(d, NextChar(d))
    BY <2>2, <2>3, <2>6, PromptTakesInv
  <2>7. CASE PromptEnter(d, NextChar(d))
    BY <2>2, <2>7, PromptEnterInv
  <2> QED
    BY <2>1, <2>4, <2>5, <2>6, <2>7
<1>3. CASE SysCgetc
  <2>1. PICK d, c : /\ d = ProgramPoll /\ c = (IF KeyDone THEN NextChar(d) ELSE NO)
                    /\ ProgramTakes(d, c) \/ ProgramEnter(d, c) \/ (Polled(d, NO) /\ Reset(d))
    BY <1>3 DEF SysCgetc
  <2>2. reader = "program"
    BY <1>3 DEF SysCgetc
  <2>3. c \in Chars
    <3>1. NextChar(d) \in Chars
      BY <2>1, PollFacts, NextCharType
    <3> QED
      BY <2>1, <3>1 DEF Chars
  <2>4. CASE Reset(d)
    BY <2>4, EditorRests DEF Reset
  <2>5. CASE ProgramTakes(d, c)
    BY <2>2, <2>3, <2>5, ProgramTakesInv
  <2>6. CASE ProgramEnter(d, c)
    BY <2>2, <2>6, ProgramEnterInv
  <2> QED
    BY <2>1, <2>4, <2>5, <2>6
<1> QED
  BY <1>1, <1>2, <1>3 DEF ConsoleNext

\* The controller holds no more than it can, the keys left are counted down, and
\* only modifiers are held.
DevInv == Len(fifo) <= FifoSize /\ keysLeft \in 0 .. MaxKeys /\ held \subseteq Modifiers

\* Every step keeps it.
LEMMA DevStep ==
    ASSUME BufInv, DevInv, [ConsoleNext]_consoleVars
    PROVE  DevInv'
<1>1. ASSUME NEW q \in Seq(Bytes), Len(fifo) + Len(q) <= FifoSize, fifo' = fifo \o q
      PROVE  Len(fifo') <= FifoSize
  <2>1. Len(fifo \o q) = Len(fifo) + Len(q)
    BY <1>1, ConcatProperties DEF BufInv
  <2> QED
    BY <1>1, <2>1
<1>2. ASSUME keysLeft > 0, keysLeft' = keysLeft - 1 PROVE keysLeft' \in 0 .. MaxKeys
  BY <1>2, ConsoleAssumption DEF DevInv
<1>3. CASE \E k \in Keys : Strike(k)
  <2>1. PICK k \in Keys : Strike(k)
    BY <1>3
  <2>2. Make(k) \o Break(k) \in Seq(Bytes)
    BY KeyBytes, KeyAssumption, ConcatProperties
  <2> QED
    BY <1>1, <1>2, <2>1, <2>2 DEF Strike, Send, DevInv
<1>4. CASE \E k \in Modifiers : Hold(k)
  <2>1. PICK k \in Modifiers : Hold(k)
    BY <1>4
  <2>2. Make(k) \in Seq(Bytes)
    BY KeyBytes, KeyAssumption
  <2> QED
    BY <1>1, <1>2, <2>1, <2>2 DEF Hold, Send, DevInv
<1>5. CASE \E k \in Modifiers : LetGo(k)
  <2>1. PICK k \in Modifiers : LetGo(k)
    BY <1>5
  <2>2. Break(k) \in Seq(Bytes)
    BY KeyBytes, KeyAssumption
  <2> QED
    BY <1>1, <2>1, <2>2 DEF LetGo, DevInv
<1>6. CASE SerialReceive
  BY <1>2, <1>6 DEF SerialReceive, DevInv
<1>7. CASE PromptGetc
  <2>1. fifo' = <<>> /\ held' = held /\ keysLeft' = keysLeft
    BY <1>7 DEF PromptGetc, PromptWaits, PromptTakes, PromptEnter, Polled
  <2> QED
    BY <2>1, ConsoleAssumption DEF DevInv
<1>8. CASE SysCgetc
  <2>1. /\ fifo' = (IF fifo = <<>> THEN <<>> ELSE Tail(fifo)) /\ held' = held
        /\ keysLeft' = keysLeft
    BY <1>8 DEF SysCgetc, ProgramTakes, ProgramEnter, Polled
  <2>2. Len(fifo') <= FifoSize
    BY <2>1, ConsoleAssumption DEF DevInv, BufInv
  <2> QED
    BY <2>1, <2>2 DEF DevInv
<1>9. CASE Off \/ UNCHANGED consoleVars
  BY <1>9 DEF Off, consoleVars, devices, DevInv
<1> QED
  BY <1>3, <1>4, <1>5, <1>6, <1>7, <1>8, <1>9 DEF ConsoleNext

\* Together the invariants say what EditorConsistent does.
LEMMA EditorAgrees ==
    ASSUME BufInv, DevInv, EditorInv
    PROVE  EditorConsistent
<1>1. ConsoleTypeOK
  BY DEF ConsoleTypeOK, BufInv, DevInv, EditorInv, EdInv, Screens, Locals, Lines, Histories
<1>2. ScreenShowsLine
  <2>1. PICK l, n, p, cs : l = ed.line /\ n = Len(l) /\ p = screen.pos /\ cs = screen.cells
    OBVIOUS
  <2>2. l \in Seq(Glyphs) /\ n \in Nat /\ p \in Nat
    <3>1. l \in Lines /\ screen \in Screens /\ <<>> \in Prompts
      BY <2>1 DEF EditorInv, EdInv, Locals, Prompts
    <3> QED
      BY <2>1, <3>1, LineFacts, SizeFacts DEF Screens
  <2>3. ASSUME reader # "reset", NEW k \in 1 .. n PROVE cs[((p - n) + k) - 1] = l[k]
    <3>1. PICK t : t = Prompted \o l
      OBVIOUS
    <3>2. Prompted \in Prompts
      BY DEF Prompted, Prompts
    <3>3. Prompted \in Seq(Glyphs)
      BY <2>1, <3>2, LineFacts DEF EditorInv, EdInv, Locals
    <3>4. PICK m : m = Len(Prompted)
      OBVIOUS
    <3>5. m \in Nat /\ Len(t) = m + n /\ t[m + k] = l[k] /\ m + k \in 1 .. m + n
      <4>1. m \in Nat /\ m + k \in 1 .. m + n /\ ~(m + k <= m) /\ (m + k) - m = k
        BY <2>2, <3>3, <3>4
      <4>2. /\ Len(t) = m + n
            /\ \A i \in 1 .. m + n : t[i] = IF i <= m THEN Prompted[i] ELSE l[i - m]
        BY <2>1, <2>2, <3>1, <3>3, <3>4, ConcatProperties
      <4> QED
        BY <4>1, <4>2
    <3>6. cs[((p - (m + n)) + (m + k)) - 1] = t[m + k]
      BY <2>1, <2>3, <3>1, <3>5 DEF EditorInv, ShowInv, ShowsOn
    <3>7. ((p - (m + n)) + (m + k)) - 1 = ((p - n) + k) - 1
      BY <2>2, <3>5
    <3> QED
      BY <3>5, <3>6, <3>7
  <2>4. ASSUME reader = "prompt" PROVE cs[(p - n) - 1] = ">"
    <3>1. PICK z, t : z = <<">">> /\ t = z \o l
      OBVIOUS
    <3>2. z \in Seq(Glyphs) /\ Len(z) = 1 /\ z[1] = ">"
      <4>1. ">" \in Glyphs
        BY DEF Glyphs
      <4> QED
        BY <3>1, <4>1
    <3>3. Len(t) = 1 + n /\ t[1] = ">"
      BY <2>1, <2>2, <3>1, <3>2, ConcatProperties
    <3>4. ShowsOn(screen, t)
      BY <2>1, <2>4, <3>1 DEF EditorInv, ShowInv, Prompted
    <3>5. 1 \in 1 .. 1 + n /\ ((p - (1 + n)) + 1) - 1 = (p - n) - 1
      BY <2>2
    <3> QED
      BY <2>1, <3>3, <3>4, <3>5 DEF ShowsOn
  <2>5. ASSUME NEW k \in 1 .. n PROVE screen.pos - n + k - 1 = ((p - n) + k) - 1
    BY <2>1, <2>2
  <2> QED
    BY <2>1, <2>3, <2>4, <2>5 DEF ScreenShowsLine
<1>3. UpRecallsLatest
  BY DEF EditorInv, UpsInv, UpRecallsLatest
<1> QED
  BY <1>1, <1>2, <1>3 DEF EditorConsistent

\* Whatever is typed, the line that command_prompt_readline or readline holds is
\* what stands on the screen, behind the prompt, through wrapping, scrolling,
\* rubbing out, completion and recall; it stays in its buffer; and the n-th UP in
\* a row brings the n-th last line entered, round among those that are kept.
THEOREM EditorCorrect == ConsoleSpec => []EditorConsistent
<1>1. ConsoleSpec => ConsoleInit /\ [][ConsoleNext]_consoleVars
  BY DEF ConsoleSpec
<1>2. ConsoleInit => DevInv
  BY ConsoleAssumption DEF ConsoleInit, DevInv
<1> QED
  BY <1>1, <1>2, BufHolds, EditorInit, EditorStep, DevStep, EditorAgrees, PTL

=============================================================================
