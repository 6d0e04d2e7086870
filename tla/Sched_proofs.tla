---------------------------- MODULE Sched_proofs ----------------------------
(***************************************************************************)
(* Proofs about Sched, for every finite set of environments and every      *)
(* choice of the other constants: the queues agree with the states of the  *)
(* environments, the kernel goes to its prompt only when nobody is ready,  *)
(* and round robin lets nobody overtake.                                   *)
(*                                                                         *)
(* The first part has what LIST_INSERT_*, LIST_REMOVE and the loops over a *)
(* queue do to a sequence without repetitions; a loop is a fold, and what  *)
(* it leaves is found along the chain of its intermediate values.  Then    *)
(* the inductive invariant IInv, with one lemma per action, and last the   *)
(* order of the ready queue.                                               *)
(***************************************************************************)
EXTENDS Sched, TLAPS, FiniteSetTheorems, SequenceTheorems, InductionLemmas

-----------------------------------------------------------------------------
(***************************************************************************)
(* Places of a queue.                                                      *)
(***************************************************************************)
\* Position finds an environment that is on the queue.
LEMMA PositionFound ==
    ASSUME NEW S, NEW q \in Seq(S), NEW e, Contains(q, e)
    PROVE  Position(q, e) \in 1 .. Len(q) /\ q[Position(q, e)] = e
<1> DEFINE I == {i \in 1 .. Len(q) : q[i] = e}
<1>1. I # {} /\ I \subseteq Nat
  BY DEF Contains
<1>2. PICK x \in I : \A y \in I : x <= y
  BY <1>1, LeastElement, Zenon
<1>3. Position(q, e) = Min(I)
  BY <1>1 DEF Position, SelectInSeq
<1>4. Min(I) \in I
  BY <1>2 DEF Min
<1> QED
  BY <1>3, <1>4

\* What LIST_REMOVE leaves.
LEMMA WithoutFacts ==
    ASSUME NEW S, NEW q \in Seq(S), NEW e, Contains(q, e)
    PROVE  /\ Without(q, e) \in Seq(S) /\ Len(Without(q, e)) = Len(q) - 1
           /\ \A i \in 1 .. Len(q) - 1 :
                 Without(q, e)[i] = IF i < Position(q, e) THEN q[i] ELSE q[i + 1]
<1>1. Position(q, e) \in 1 .. Len(q)
  BY PositionFound
<1>2. Without(q, e) = RemoveAt(q, Position(q, e))
  BY DEF Without, RemoveFirst, Contains, Position
<1> QED
  BY <1>1, <1>2, RemoveAtFacts

\* What LIST_INSERT_BEFORE makes of the queue.
LEMMA InsertBeforeFacts ==
    ASSUME NEW S, NEW q \in Seq(S), NEW x, Contains(q, x), NEW e \in S
    PROVE  /\ InsertBefore(q, x, e) \in Seq(S) /\ Len(InsertBefore(q, x, e)) = Len(q) + 1
           /\ \A i \in 1 .. Len(q) + 1 :
                 InsertBefore(q, x, e)[i] = IF i < Position(q, x) THEN q[i]
                                            ELSE IF i = Position(q, x) THEN e ELSE q[i - 1]
<1>1. PICK k : k = Position(q, x)
  OBVIOUS
<1>2. k \in 1 .. Len(q)
  BY <1>1, PositionFound
<1>3. InsertBefore(q, x, e) = InsertAt(q, k, e)
  BY <1>1 DEF InsertBefore
<1>4. InsertAt(q, k, e) \in Seq(S) /\ Widened(q, k, e, InsertAt(q, k, e))
  BY <1>2, InsertAtFacts
<1> QED
  BY <1>1, <1>2, <1>3, <1>4 DEF Widened

\* An environment that leaves a queue is not on it any more; nobody else is
\* touched.
LEMMA Leaves ==
    ASSUME NEW q \in Seq(Envs), IsInjective(q), NEW e, Contains(q, e)
    PROVE  /\ Without(q, e) \in Seq(Envs) /\ IsInjective(Without(q, e))
           /\ \A g : Contains(Without(q, e), g) <=> Contains(q, g) /\ g # e
<1>1. PICK k, w : k = Position(q, e) /\ w = Without(q, e)
  OBVIOUS
<1>2. k \in 1 .. Len(q) /\ q[k] = e
  BY <1>1, PositionFound
<1>3. w \in Seq(Envs) /\ Len(w) = Len(q) - 1
      /\ \A i \in 1 .. Len(q) - 1 : w[i] = IF i < k THEN q[i] ELSE q[i + 1]
  BY <1>1, WithoutFacts
<1>4. \A i, j \in 1 .. Len(q) : q[i] = q[j] => i = j
  BY DEF IsInjective
<1>5. IsInjective(w)
  BY <1>2, <1>3, <1>4 DEF IsInjective
<1>6. ASSUME NEW g, Contains(w, g) PROVE Contains(q, g) /\ g # e
  BY <1>2, <1>3, <1>4, <1>6 DEF Contains
<1>7. ASSUME NEW g, Contains(q, g), g # e PROVE Contains(w, g)
  <2>1. PICK i \in 1 .. Len(q) : q[i] = g
    BY <1>7 DEF Contains
  <2>2. CASE i < k
    BY <1>2, <1>3, <2>1, <2>2 DEF Contains
  <2>3. CASE i > k
    <3>1. i - 1 \in 1 .. Len(w) /\ w[i - 1] = g
      BY <1>2, <1>3, <2>1, <2>3
    <3> QED
      BY <3>1 DEF Contains
  <2> QED
    BY <1>2, <1>7, <2>1, <2>2, <2>3
<1> QED
  BY <1>1, <1>3, <1>5, <1>6, <1>7

\* A newcomer is on the queue, and everybody who was.
LEMMA EntersBefore ==
    ASSUME NEW q \in Seq(Envs), IsInjective(q), NEW x, Contains(q, x), NEW e \in Envs, ~Contains(q, e)
    PROVE  /\ InsertBefore(q, x, e) \in Seq(Envs) /\ IsInjective(InsertBefore(q, x, e))
           /\ \A g : Contains(InsertBefore(q, x, e), g) <=> Contains(q, g) \/ g = e
<1>1. PICK k, w : k = Position(q, x) /\ w = InsertBefore(q, x, e)
  OBVIOUS
<1>2. k \in 1 .. Len(q) /\ q[k] = x
  BY <1>1, PositionFound
<1>3. w \in Seq(Envs) /\ Len(w) = Len(q) + 1
      /\ \A i \in 1 .. Len(q) + 1 : w[i] = IF i < k THEN q[i] ELSE IF i = k THEN e ELSE q[i - 1]
  BY <1>1, InsertBeforeFacts
<1>4. /\ \A i, j \in 1 .. Len(q) : q[i] = q[j] => i = j
      /\ \A i \in 1 .. Len(q) : q[i] # e
  BY DEF IsInjective, Contains
<1>5. IsInjective(w)
  BY <1>2, <1>3, <1>4 DEF IsInjective
<1>6. ASSUME NEW g, Contains(w, g) PROVE Contains(q, g) \/ g = e
  <2>1. PICK i \in 1 .. Len(q) + 1 : w[i] = g
    BY <1>3, <1>6 DEF Contains
  <2>2. CASE i < k
    <3>1. i \in 1 .. Len(q) /\ q[i] = g
      BY <1>2, <1>3, <2>1, <2>2
    <3> QED
      BY <3>1 DEF Contains
  <2>3. CASE i > k
    <3>1. i - 1 \in 1 .. Len(q) /\ q[i - 1] = g
      BY <1>2, <1>3, <2>1, <2>3
    <3> QED
      BY <3>1 DEF Contains
  <2> QED
    BY <1>2, <1>3, <2>1, <2>2, <2>3
<1>7. ASSUME NEW g, Contains(q, g) PROVE Contains(w, g)
  <2>1. PICK i \in 1 .. Len(q) : q[i] = g
    BY <1>7 DEF Contains
  <2>2. CASE i < k
    BY <1>2, <1>3, <2>1, <2>2 DEF Contains
  <2>3. CASE i >= k
    <3>1. i + 1 \in 1 .. Len(w) /\ w[i + 1] = g
      BY <1>2, <1>3, <2>1, <2>3
    <3> QED
      BY <3>1 DEF Contains
  <2> QED
    BY <1>2, <2>1, <2>2, <2>3
<1>8. Contains(w, e)
  <2>1. k \in 1 .. Len(w) /\ w[k] = e
    BY <1>2, <1>3
  <2> QED
    BY <2>1 DEF Contains
<1> QED
  BY <1>1, <1>3, <1>5, <1>6, <1>7, <1>8

\* LIST_INSERT_TAIL of an environment that is not on the queue.
LEMMA EntersLast ==
    ASSUME NEW q \in Seq(Envs), IsInjective(q), NEW e \in Envs, ~Contains(q, e)
    PROVE  /\ Append(q, e) \in Seq(Envs) /\ IsInjective(Append(q, e))
           /\ \A g : Contains(Append(q, e), g) <=> Contains(q, g) \/ g = e
<1>1. Append(q, e) \in Seq(Envs) /\ Len(Append(q, e)) = Len(q) + 1
  OBVIOUS
<1>2. \A i \in 1 .. Len(q) + 1 : Append(q, e)[i] = IF i = Len(q) + 1 THEN e ELSE q[i]
  OBVIOUS
<1>3. /\ \A i, j \in 1 .. Len(q) : q[i] = q[j] => i = j
      /\ \A i \in 1 .. Len(q) : q[i] # e
  BY DEF IsInjective, Contains
<1>4. PICK w : w = Append(q, e)
  OBVIOUS
<1>5. IsInjective(w)
  BY <1>1, <1>2, <1>3, <1>4 DEF IsInjective
<1>6. \A g : Contains(w, g) <=> Contains(q, g) \/ g = e
  BY <1>1, <1>2, <1>4 DEF Contains
<1> QED
  BY <1>1, <1>4, <1>5, <1>6

\* The free list loses its first entry.
LEMMA HeadLeaves ==
    ASSUME NEW q \in Seq(Envs), IsInjective(q), q # <<>>
    PROVE  /\ Head(q) \in Envs /\ Tail(q) \in Seq(Envs) /\ IsInjective(Tail(q))
           /\ Contains(q, Head(q))
           /\ \A g : Contains(Tail(q), g) <=> Contains(q, g) /\ g # Head(q)
<1>1. /\ Len(q) \in Nat /\ Len(q) > 0 /\ Head(q) = q[1] /\ q[1] \in Envs
      /\ Tail(q) \in Seq(Envs) /\ Len(Tail(q)) = Len(q) - 1
      /\ \A i \in 1 .. Len(q) - 1 : Tail(q)[i] = q[i + 1]
  OBVIOUS
<1>2. \A i, j \in 1 .. Len(q) : q[i] = q[j] => i = j
  BY DEF IsInjective
<1>3. PICK w, e : w = Tail(q) /\ e = Head(q)
  OBVIOUS
<1>4. IsInjective(w) /\ Contains(q, e)
  BY <1>1, <1>2, <1>3 DEF IsInjective, Contains
<1>5. ASSUME NEW g, Contains(w, g) PROVE Contains(q, g) /\ g # e
  BY <1>1, <1>2, <1>3, <1>5 DEF Contains
<1>6. ASSUME NEW g, Contains(q, g), g # e PROVE Contains(w, g)
  <2>1. PICK i \in 1 .. Len(q) : q[i] = g
    BY <1>6 DEF Contains
  <2>2. i - 1 \in 1 .. Len(w) /\ w[i - 1] = g
    BY <1>1, <1>3, <1>6, <2>1
  <2> QED
    BY <2>2 DEF Contains
<1> QED
  BY <1>1, <1>3, <1>4, <1>5, <1>6

\* free_environment puts the entry in front.
LEMMA EntersFirst ==
    ASSUME NEW q \in Seq(Envs), IsInjective(q), NEW e \in Envs, ~Contains(q, e)
    PROVE  /\ <<e>> \o q \in Seq(Envs) /\ IsInjective(<<e>> \o q)
           /\ \A g : Contains(<<e>> \o q, g) <=> Contains(q, g) \/ g = e
<1>1. PICK w : w = <<e>> \o q
  OBVIOUS
<1>2. /\ w \in Seq(Envs) /\ Len(w) = Len(q) + 1
      /\ \A i \in 1 .. Len(q) + 1 : w[i] = IF i = 1 THEN e ELSE q[i - 1]
  BY <1>1
<1>3. /\ \A i, j \in 1 .. Len(q) : q[i] = q[j] => i = j
      /\ \A i \in 1 .. Len(q) : q[i] # e
  BY DEF IsInjective, Contains
<1>4. IsInjective(w)
  BY <1>2, <1>3 DEF IsInjective
<1>5. Contains(w, e) /\ \A g : Contains(w, g) => Contains(q, g) \/ g = e
  <2>1. 1 \in 1 .. Len(w) /\ w[1] = e
    BY <1>2
  <2>2. \A i \in 1 .. Len(w) : w[i] = e \/ (i - 1 \in 1 .. Len(q) /\ w[i] = q[i - 1])
    BY <1>2
  <2> QED
    BY <2>1, <2>2 DEF Contains
<1>6. ASSUME NEW g, Contains(q, g) PROVE Contains(w, g)
  <2>1. PICK i \in 1 .. Len(q) : q[i] = g
    BY <1>6 DEF Contains
  <2>2. i + 1 \in 1 .. Len(w) /\ w[i + 1] = g
    BY <1>2, <2>1
  <2> QED
    BY <2>2 DEF Contains
<1> QED
  BY <1>1, <1>2, <1>4, <1>5, <1>6

-----------------------------------------------------------------------------
(***************************************************************************)
(* Folds.  What FoldLeft computes is an element of the chain of results    *)
(* that starts with its base and makes one step for every element.         *)
(***************************************************************************)
\* The greatest element of a non-empty set of places.
LEMMA MaxFacts ==
    ASSUME NEW k \in Nat, NEW s \in SUBSET (1 .. k), s # {}
    PROVE  Max(s) \in s /\ \A y \in s : y <= Max(s)
<1> DEFINE up == {k - y : y \in s}
<1>1. up \subseteq Nat /\ up # {}
  <2>1. \A y \in s : k - y \in Nat
    OBVIOUS
  <2> QED
    BY <2>1
<1>2. PICK u \in up : \A v \in up : u <= v
  BY <1>1, LeastElement, Zenon
<1>3. PICK x \in s : u = k - x
  BY <1>2
<1>4. \A y \in s : y <= x
  <2> SUFFICES ASSUME NEW y \in s PROVE y <= x
    OBVIOUS
  <2>1. k - y \in up
    OBVIOUS
  <2>2. k - x <= k - y
    BY <1>2, <1>3, <2>1
  <2> QED
    BY <2>2
<1> QED
  BY <1>3, <1>4 DEF Max

\* g is the recursive function that a fold is defined by.
IsFold(g, n, base, step) ==
    \A s \in SUBSET (1 .. n) : g[s] = IF s = {} THEN base ELSE step[<<g[s \ {Max(s)}], Max(s)>>]

\* There is such a function.
LEMMA FoldExists ==
    ASSUME NEW n \in Nat, NEW T, NEW base \in T, NEW step \in [T \X (1 .. n) -> T]
    PROVE  \E g \in [SUBSET (1 .. n) -> T] : IsFold(g, n, base, step)
<1> DEFINE Val(g, s) == IF s = {} THEN base ELSE step[<<g[s \ {Max(s)}], Max(s)>>]
           Good(g, k) == \A s \in SUBSET (1 .. k) : g[s] = Val(g, s)
           Bad == {k \in 0 .. n : ~ \E g \in [SUBSET (1 .. k) -> T] : Good(g, k)}
<1>1. SUFFICES \E g \in [SUBSET (1 .. n) -> T] : Good(g, n)
  BY <1>1 DEF IsFold
<1> HIDE DEF Good
<1>2. SUFFICES ASSUME Bad # {} PROVE FALSE
  <2>1. n \in 0 .. n
    OBVIOUS
  <2>2. n \notin Bad
    <3> HIDE DEF Bad
    <3> QED
      BY <1>2
  <2> QED
    BY <2>1, <2>2
<1>3. PICK k \in Bad : \A j \in Bad : k <= j
  <2>1. Bad \subseteq Nat
    OBVIOUS
  <2> HIDE DEF Bad
  <2> QED
    BY <1>2, <2>1, LeastElement, Zenon
<1>4. k # 0
  <2>1. PICK g : g = [s \in SUBSET (1 .. 0) |-> base]
    OBVIOUS
  <2>2. \A s \in SUBSET (1 .. 0) : s = {}
    OBVIOUS
  <2>3. g \in [SUBSET (1 .. 0) -> T]
    BY <2>1
  <2>4. Good(g, 0)
    BY <2>1, <2>2 DEF Good
  <2> QED
    BY <1>3, <2>3, <2>4
<1>5. k - 1 \in 0 .. n /\ k \in 1 .. n
  BY <1>3, <1>4
<1>6. k - 1 \notin Bad
  <2>1. k \in Int /\ ~(k <= k - 1)
    BY <1>5
  <2> HIDE DEF Bad
  <2> QED
    BY <1>3, <2>1
<1>7. PICK h \in [SUBSET (1 .. k - 1) -> T] : Good(h, k - 1)
  BY <1>5, <1>6
<1>8. PICK g : g = [s \in SUBSET (1 .. k) |-> Val(h, s)]
  OBVIOUS
<1>9. ASSUME NEW s \in SUBSET (1 .. k), s # {}
      PROVE  s \ {Max(s)} \in SUBSET (1 .. k - 1) /\ Max(s) \in 1 .. n
  <2>1. PICK m : m = Max(s)
    OBVIOUS
  <2>2. m \in s /\ \A y \in s : y <= m
    <3>1. k \in Nat
      BY <1>5
    <3> QED
      BY <1>9, <2>1, <3>1, MaxFacts, Zenon
  <2>3. m \in 1 .. n /\ \A y \in s \ {m} : y \in 1 .. k - 1
    BY <1>5, <2>2
  <2> QED
    BY <2>1, <2>3
<1>10. g \in [SUBSET (1 .. k) -> T]
  <2> SUFFICES \A s \in SUBSET (1 .. k) : Val(h, s) \in T
    BY <1>8
  <2> TAKE s \in SUBSET (1 .. k)
  <2>1. CASE s = {}
    BY <2>1
  <2>2. CASE s # {}
    <3>1. s \ {Max(s)} \in SUBSET (1 .. k - 1) /\ Max(s) \in 1 .. n
      BY <1>9, <2>2
    <3>2. h[s \ {Max(s)}] \in T
      BY <1>7, <3>1
    <3> QED
      BY <2>2, <3>1, <3>2
  <2> QED
    BY <2>1, <2>2
<1>11. ASSUME NEW s \in SUBSET (1 .. k - 1) PROVE g[s] = h[s]
  <2>1. s \in SUBSET (1 .. k)
    BY <1>5
  <2>2. h[s] = Val(h, s)
    BY <1>7 DEF Good
  <2> QED
    BY <1>8, <2>1, <2>2
<1>12. ASSUME NEW s \in SUBSET (1 .. k) PROVE g[s] = Val(g, s)
  <2>1. g[s] = Val(h, s)
    BY <1>8
  <2>2. CASE s # {}
    BY <1>9, <1>11, <2>1, <2>2
  <2> QED
    BY <2>1, <2>2
<1>13. Good(g, k)
  BY <1>12 DEF Good
<1> QED
  BY <1>3, <1>10, <1>13

-----------------------------------------------------------------------------
(***************************************************************************)
(* The ready queue and sched_next.                                         *)
(***************************************************************************)
\* What every function of the scheduler may rely on.
ReadyOK(r) ==
    /\ r.q \in Seq(Envs) /\ IsInjective(r.q)
    /\ IF r.q = <<>> THEN r.next = NoEnv ELSE Contains(r.q, r.next)

ReadyQueues == {r \in [q : Seq(Envs), next : Envs \cup {NoEnv}] : ReadyOK(r)}

\* sched_next_circular stays on the queue.
LEMMA CircularFacts ==
    ASSUME NEW q \in Seq(Envs), NEW e, Contains(q, e)
    PROVE  Contains(q, sched_next_circular(e, q)) /\ sched_next_circular(e, q) \in Envs
<1>1. PICK k : k = Position(q, e)
  OBVIOUS
<1>2. k \in 1 .. Len(q) /\ Len(q) \in Nat
  BY <1>1, PositionFound
<1>3. PICK j \in 1 .. Len(q) : sched_next_circular(e, q) = q[j]
  <2>1. CASE k = Len(q)
    BY <1>1, <1>2, <2>1 DEF sched_next_circular
  <2>2. CASE k # Len(q)
    <3>1. k + 1 \in 1 .. Len(q) /\ sched_next_circular(e, q) = q[k + 1]
      BY <1>1, <1>2, <2>2 DEF sched_next_circular
    <3> QED
      BY <3>1
  <2> QED
    BY <2>1, <2>2
<1> QED
  BY <1>3 DEF Contains

\* The successor is another environment unless there is none.
LEMMA CircularOther ==
    ASSUME NEW q \in Seq(Envs), IsInjective(q), NEW e, Contains(q, e)
    PROVE  sched_next_circular(e, q) = e <=> Len(q) = 1
<1>1. PICK k : k = Position(q, e)
  OBVIOUS
<1>2. k \in 1 .. Len(q) /\ q[k] = e /\ Len(q) \in Nat
  BY <1>1, PositionFound
<1>3. \A i, j \in 1 .. Len(q) : q[i] = q[j] => i = j
  BY DEF IsInjective
<1>4. sched_next_circular(e, q) = IF k = Len(q) THEN q[1] ELSE q[k + 1]
  BY <1>1 DEF sched_next_circular
<1>5. CASE k = Len(q)
  <2>1. 1 \in 1 .. Len(q)
    BY <1>2
  <2>2. q[1] = q[k] <=> k = 1
    BY <1>2, <1>3, <2>1
  <2> QED
    BY <1>2, <1>4, <1>5, <2>2
<1>6. CASE k # Len(q)
  <2>1. k + 1 \in 1 .. Len(q) /\ k + 1 # k /\ Len(q) # 1
    BY <1>2, <1>6
  <2>2. q[k + 1] # q[k]
    BY <1>2, <1>3, <2>1
  <2> QED
    BY <1>2, <1>4, <1>6, <2>1, <2>2
<1> QED
  BY <1>5, <1>6

\* A queue is empty iff nobody is on it.
LEMMA EmptyQueue ==
    ASSUME NEW q \in Seq(Envs)
    PROVE  q = <<>> <=> \A e : ~Contains(q, e)
<1>1. Len(q) \in Nat /\ (q = <<>> <=> Len(q) = 0)
  OBVIOUS
<1>2. CASE Len(q) = 0
  BY <1>1, <1>2 DEF Contains
<1>3. CASE Len(q) # 0
  <2>1. 1 \in 1 .. Len(q)
    BY <1>1, <1>3
  <2>2. Contains(q, q[1])
    BY <2>1 DEF Contains
  <2> QED
    BY <1>1, <1>3, <2>2
<1> QED
  BY <1>2, <1>3

\* The empty queue is well formed.
LEMMA NobodyThere ==
    <<>> \in Seq(Envs) /\ IsInjective(<<>>) /\ \A e : ~Contains(<<>>, e)
<1>1. PICK q : q = <<>>
  OBVIOUS
<1>2. q \in Seq(Envs) /\ Len(q) = 0 /\ DOMAIN q = 1 .. Len(q)
  BY <1>1
<1>3. IsInjective(q)
  BY <1>2 DEF IsInjective
<1>4. \A e : ~Contains(q, e)
  BY <1>2 DEF Contains
<1> QED
  BY <1>1, <1>2, <1>3, <1>4

\* sched_insert_ready.
LEMMA InsertedFacts ==
    ASSUME NEW r \in ReadyQueues, NEW e \in Envs, ~Contains(r.q, e)
    PROVE  /\ Inserted(r, e) \in ReadyQueues
           /\ \A g : Contains(Inserted(r, e).q, g) <=> Contains(r.q, g) \/ g = e
           /\ Inserted(r, e).next # NoEnv
<1>1. /\ r.q \in Seq(Envs) /\ IsInjective(r.q) /\ r.next \in Envs \cup {NoEnv}
      /\ IF r.q = <<>> THEN r.next = NoEnv ELSE Contains(r.q, r.next)
  BY DEF ReadyQueues, ReadyOK
<1>2. PICK s : s = Inserted(r, e)
  OBVIOUS
<1>3. CASE r.next = NoEnv
  <2>1. s = [q |-> Append(r.q, e), next |-> e]
    BY <1>2, <1>3 DEF Inserted
  <2>2. s.q \in Seq(Envs) /\ IsInjective(s.q) /\ \A g : Contains(s.q, g) <=> Contains(r.q, g) \/ g = e
    BY <1>1, <2>1, EntersLast
  <2>3. s.q # <<>>
    BY <2>2, EmptyQueue
  <2>4. s.next = e /\ Contains(s.q, s.next) /\ s \in [q : Seq(Envs), next : Envs \cup {NoEnv}]
    BY <2>1, <2>2
  <2> QED
    BY <1>2, <2>2, <2>3, <2>4, NoEnvAssumption DEF ReadyQueues, ReadyOK
<1>4. CASE r.next # NoEnv
  <2>1. s = [q |-> InsertBefore(r.q, r.next, e), next |-> r.next]
    BY <1>2, <1>4 DEF Inserted
  <2>2. s.q \in Seq(Envs) /\ IsInjective(s.q) /\ \A g : Contains(s.q, g) <=> Contains(r.q, g) \/ g = e
    BY <1>1, <1>4, <2>1, EntersBefore
  <2>3. s.q # <<>>
    BY <2>2, EmptyQueue
  <2> QED
    BY <1>1, <1>2, <1>4, <2>1, <2>2, <2>3 DEF ReadyQueues, ReadyOK
<1> QED
  BY <1>3, <1>4

\* sched_remove_ready: sched_next leaves the environment that goes.
LEMMA RemovedFacts ==
    ASSUME NEW r \in ReadyQueues, NEW e, Contains(r.q, e)
    PROVE  /\ Removed(r, e) \in ReadyQueues
           /\ \A g : Contains(Removed(r, e).q, g) <=> Contains(r.q, g) /\ g # e
<1>1. /\ r.q \in Seq(Envs) /\ IsInjective(r.q) /\ r.next \in Envs \cup {NoEnv}
      /\ r.q # <<>> /\ Contains(r.q, r.next)
  BY EmptyQueue DEF ReadyQueues, ReadyOK
<1>2. PICK q, w, c : q = r.q /\ w = Without(r.q, e) /\ c = sched_next_circular(e, r.q)
  OBVIOUS
<1>3. w \in Seq(Envs) /\ IsInjective(w) /\ \A g : Contains(w, g) <=> Contains(q, g) /\ g # e
  BY <1>1, <1>2, Leaves
<1>4. Contains(q, c) /\ c \in Envs /\ (c = e <=> Len(q) = 1)
  BY <1>1, <1>2, CircularFacts, CircularOther
<1>5. w = <<>> <=> Len(q) = 1
  <2>1. Len(w) = Len(q) - 1 /\ Len(q) \in Nat
    BY <1>1, <1>2, WithoutFacts
  <2>2. w = <<>> <=> Len(w) = 0
    BY <1>3
  <2> QED
    BY <2>1, <2>2
<1>6. Removed(r, e) = [q |-> w, next |-> IF r.next # e THEN r.next ELSE IF c = e THEN NoEnv ELSE c]
  BY <1>2 DEF Removed
<1>7. CASE r.next # e
  <2>1. Contains(w, r.next) /\ w # <<>>
    BY <1>1, <1>2, <1>3, <1>7, EmptyQueue
  <2> QED
    BY <1>1, <1>2, <1>3, <1>6, <1>7, <2>1 DEF ReadyQueues, ReadyOK
<1>8. CASE r.next = e
  BY <1>1, <1>2, <1>3, <1>4, <1>5, <1>6, <1>8 DEF ReadyQueues, ReadyOK
<1> QED
  BY <1>7, <1>8

\* sched_insert_ready needs no more than that sched_next is on the queue.
Pointed == {r \in [q : Seq(Envs), next : Envs \cup {NoEnv}] : r.next # NoEnv => Contains(r.q, r.next)}

\* sched_insert_ready keeps sched_next on the queue.
LEMMA InsertedPointed ==
    ASSUME NEW r \in Pointed, NEW e \in Envs
    PROVE  Inserted(r, e) \in Pointed
<1>1. PICK q, x, s : q = r.q /\ x = r.next /\ s = Inserted(r, e)
  OBVIOUS
<1>2. q \in Seq(Envs) /\ x \in Envs \cup {NoEnv} /\ (x # NoEnv => Contains(q, x))
  BY <1>1 DEF Pointed
<1>3. CASE x = NoEnv
  <2>1. s = [q |-> Append(q, e), next |-> e]
    BY <1>1, <1>3 DEF Inserted
  <2>2. /\ Append(q, e) \in Seq(Envs) /\ Len(q) + 1 \in 1 .. Len(Append(q, e))
        /\ Append(q, e)[Len(q) + 1] = e
    BY <1>2
  <2>3. Contains(Append(q, e), e)
    BY <2>2 DEF Contains
  <2>4. s \in [q : Seq(Envs), next : Envs \cup {NoEnv}] /\ Contains(s.q, s.next)
    BY <2>1, <2>2, <2>3
  <2> QED
    BY <1>1, <2>4 DEF Pointed
<1>4. CASE x # NoEnv
  <2>1. s = [q |-> InsertBefore(q, x, e), next |-> x]
    BY <1>1, <1>4 DEF Inserted
  <2>2. PICK k, w : k = Position(q, x) /\ w = InsertBefore(q, x, e)
    OBVIOUS
  <2>3. k \in 1 .. Len(q) /\ q[k] = x /\ Len(q) \in Nat
    BY <1>2, <1>4, <2>2, PositionFound
  <2>4. w \in Seq(Envs) /\ Len(w) = Len(q) + 1
        /\ \A i \in 1 .. Len(q) + 1 : w[i] = IF i < k THEN q[i] ELSE IF i = k THEN e ELSE q[i - 1]
    BY <1>2, <1>4, <2>2, InsertBeforeFacts
  <2>5. k + 1 \in 1 .. Len(w) /\ w[k + 1] = x
    BY <2>3, <2>4
  <2>6. Contains(w, x)
    BY <2>5 DEF Contains
  <2> QED
    BY <1>1, <1>2, <2>1, <2>2, <2>4, <2>6 DEF Pointed
<1> QED
  BY <1>3, <1>4

\* The results of sched_run_all's loop, one after the other.
InsertedOneByOne(F, r, nq) ==
    F[0] = r /\ \A i \in 1 .. Len(nq) : F[i] = Inserted(F[i - 1], nq[i])

\* The loop is FoldLeft.
LEMMA InsertedChain ==
    ASSUME NEW r \in Pointed, NEW nq \in Seq(Envs)
    PROVE  \E F : InsertedOneByOne(F, r, nq) /\ FoldLeft(Inserted, r, nq) = F[Len(nq)]
<1>1. PICK n : n = Len(nq)
  OBVIOUS
<1>2. n \in Nat /\ DOMAIN nq = 1 .. n /\ \A i \in 1 .. n : nq[i] \in Envs
  BY <1>1
<1>3. PICK step : step = [x \in Pointed \X (1 .. n) |-> Inserted(x[1], nq[x[2]])]
  OBVIOUS
<1>4. step \in [Pointed \X (1 .. n) -> Pointed]
  <2> SUFFICES \A x \in Pointed \X (1 .. n) : Inserted(x[1], nq[x[2]]) \in Pointed
    BY <1>3
  <2> TAKE x \in Pointed \X (1 .. n)
  <2>1. x[1] \in Pointed /\ nq[x[2]] \in Envs
    BY <1>2
  <2> QED
    BY <2>1, InsertedPointed
<1> DEFINE Val(g, s) == IF s = {} THEN r ELSE Inserted(g[s \ {Max(s)}], nq[Max(s)])
           Iter(g) == g = [s \in SUBSET (1 .. n) |-> Val(g, s)]
<1>5. \A s \in SUBSET (1 .. n) : s # {} => Max(s) \in 1 .. n /\ s \ {Max(s)} \in SUBSET (1 .. n)
  BY <1>2, MaxFacts
<1>6. \E g : Iter(g)
  <2>1. PICK g \in [SUBSET (1 .. n) -> Pointed] : IsFold(g, n, r, step)
    BY <1>2, <1>4, FoldExists
  <2>2. ASSUME NEW s \in SUBSET (1 .. n), s # {} PROVE g[s] = Inserted(g[s \ {Max(s)}], nq[Max(s)])
    <3>1. Max(s) \in 1 .. n /\ s \ {Max(s)} \in SUBSET (1 .. n)
      BY <1>5, <2>2
    <3>2. <<g[s \ {Max(s)}], Max(s)>> \in Pointed \X (1 .. n)
      BY <2>1, <3>1
    <3> QED
      BY <1>3, <2>1, <2>2, <3>2 DEF IsFold
  <2>3. \A s \in SUBSET (1 .. n) : g[s] = Val(g, s)
    BY <2>1, <2>2 DEF IsFold
  <2> HIDE DEF Val
  <2> QED
    BY <2>3
<1>7. PICK g : Iter(g) /\ FoldLeft(Inserted, r, nq) = g[1 .. n]
  <2>1. PICK g : g = CHOOSE f : Iter(f)
    OBVIOUS
  <2>2. Iter(g)
    BY <1>6, <2>1, Zenon
  <2>3. FoldLeft(Inserted, r, nq) = g[1 .. n]
    BY <1>2, <2>1, Zenon DEF FoldLeft, MapThenFoldSet
  <2> QED
    BY <2>2, <2>3, Zenon
<1>8. PICK F : F = [i \in 0 .. n |-> g[1 .. i]]
  OBVIOUS
<1>9. F[0] = r
  <2>1. 1 .. 0 = {} /\ 0 \in 0 .. n
    BY <1>2
  <2>2. g[{}] = r
    BY <1>7
  <2> QED
    BY <1>8, <2>1, <2>2
<1>10. ASSUME NEW i \in 1 .. n PROVE F[i] = Inserted(F[i - 1], nq[i])
  <2>1. PICK s : s = 1 .. i
    OBVIOUS
  <2>2. s \in SUBSET (1 .. n) /\ s # {} /\ i \in s /\ \A y \in s : y <= i
    <3>1. i \in 1 .. i /\ \A y \in 1 .. i : y \in 1 .. n /\ y <= i
      BY <1>2
    <3> QED
      BY <2>1, <3>1
  <2>3. Max(s) = i
    <3>1. Max(s) \in s /\ \A y \in s : y <= Max(s)
      BY <1>2, <2>2, MaxFacts, Zenon
    <3>2. Max(s) <= i /\ i <= Max(s) /\ Max(s) \in Int
      BY <2>1, <2>2, <3>1
    <3> QED
      BY <3>2
  <2>4. s \ {i} = 1 .. i - 1
    BY <1>2, <2>1
  <2>5. g[s] = Inserted(g[s \ {i}], nq[i])
    BY <1>7, <2>2, <2>3
  <2>6. F[i] = g[s] /\ F[i - 1] = g[s \ {i}]
    BY <1>2, <1>8, <2>1, <2>4
  <2> QED
    BY <2>5, <2>6
<1>11. FoldLeft(Inserted, r, nq) = F[n]
  <2>1. F[n] = g[1 .. n]
    BY <1>2, <1>8
  <2> QED
    BY <1>7, <2>1, Zenon
<1> QED
  <2>1. InsertedOneByOne(F, r, nq)
    BY <1>1, <1>9, <1>10 DEF InsertedOneByOne
  <2> QED
    BY <1>1, <1>11, <2>1, Zenon

\* sched_run_all's loop, for environments that are not ready yet.
LEMMA InsertedAll ==
    ASSUME NEW r \in ReadyQueues, NEW nq \in Seq(Envs), IsInjective(nq),
           \A e : ~(Contains(nq, e) /\ Contains(r.q, e))
    PROVE  /\ FoldLeft(Inserted, r, nq) \in ReadyQueues
           /\ \A g : Contains(FoldLeft(Inserted, r, nq).q, g) <=> Contains(r.q, g) \/ Contains(nq, g)
<1>1. PICK n : n = Len(nq)
  OBVIOUS
<1>2. n \in Nat /\ DOMAIN nq = 1 .. n /\ \A i \in 1 .. n : nq[i] \in Envs
  BY <1>1
<1>3. r \in Pointed
  BY EmptyQueue DEF ReadyQueues, ReadyOK, Pointed
<1>4. PICK F : /\ InsertedOneByOne(F, r, nq)
               /\ FoldLeft(Inserted, r, nq) = F[Len(nq)]
  BY <1>3, InsertedChain, Zenon
<1>5. F[0] = r /\ \A i \in 1 .. n : F[i] = Inserted(F[i - 1], nq[i])
  BY <1>1, <1>4 DEF InsertedOneByOne
<1> DEFINE Good(k) == /\ F[k] \in ReadyQueues
                      /\ \A g : Contains(F[k].q, g) <=> Contains(r.q, g) \/ \E i \in 1 .. k : nq[i] = g
           Bad == {k \in 0 .. n : ~Good(k)}
<1>6. SUFFICES Bad = {}
  <2>1. n \in 0 .. n /\ n \notin Bad
    <3>1. n \in 0 .. n
      BY <1>2
    <3> HIDE DEF Bad
    <3> QED
      BY <1>6, <3>1
  <2>2. Good(n)
    BY <2>1
  <2> QED
    BY <1>1, <1>4, <2>2 DEF Contains
<1>7. SUFFICES ASSUME Bad # {} PROVE FALSE
  OBVIOUS
<1>8. PICK k \in Bad : \A j \in Bad : k <= j
  <2>1. Bad \subseteq Nat
    BY <1>2
  <2> HIDE DEF Bad
  <2> QED
    BY <1>7, <2>1, LeastElement, Zenon
<1>9. k # 0
  <2>1. Good(0)
    BY <1>5
  <2> HIDE DEF Good
  <2> QED
    BY <1>8, <2>1
<1>10. k - 1 \in 0 .. n /\ k \in 1 .. n
  BY <1>2, <1>8, <1>9
<1>11. k - 1 \notin Bad
  <2>1. k \in Int /\ ~(k <= k - 1)
    BY <1>2, <1>10
  <2> HIDE DEF Bad
  <2> QED
    BY <1>8, <2>1
<1>12. Good(k - 1)
  <2> HIDE DEF Good
  <2> QED
    BY <1>10, <1>11
<1>13. PICK s, e : s = F[k - 1] /\ e = nq[k]
  OBVIOUS
<1>14. e \in Envs /\ ~Contains(s.q, e)
  <2>1. Contains(nq, e)
    BY <1>1, <1>10, <1>13 DEF Contains
  <2>2. \A i \in 1 .. k - 1 : nq[i] # e
    BY <1>2, <1>10, <1>13 DEF IsInjective
  <2> QED
    BY <1>2, <1>10, <1>12, <1>13, <2>1, <2>2
<1>15. /\ F[k] \in ReadyQueues
       /\ \A g : Contains(F[k].q, g) <=> Contains(s.q, g) \/ g = e
  <2>1. F[k] = Inserted(s, e) /\ s \in ReadyQueues
    BY <1>5, <1>10, <1>12, <1>13
  <2> QED
    BY <1>14, <2>1, InsertedFacts
<1>16. \A g : (\E i \in 1 .. k : nq[i] = g) <=> (\E i \in 1 .. k - 1 : nq[i] = g) \/ g = e
  BY <1>2, <1>10, <1>13
<1>17. Good(k)
  BY <1>12, <1>13, <1>15, <1>16
<1> HIDE DEF Good
<1> QED
  BY <1>8, <1>17

-----------------------------------------------------------------------------
(***************************************************************************)
(* The inductive invariant.                                                *)
(***************************************************************************)
Statuses == {"FREE", "UNKNOWN", "NEW", "READY", "EXIT"}

\* The lists f, n, r and x describe the environments whose status is st.
Describe(st, f, n, r, x) ==
    /\ st \in [Envs -> Statuses]
    /\ f \in Seq(Envs) /\ IsInjective(f)
    /\ n \in Seq(Envs) /\ IsInjective(n)
    /\ r \in Seq(Envs) /\ IsInjective(r)
    /\ x \in Seq(Envs) /\ IsInjective(x)
    /\ \A e \in Envs :
          /\ Contains(r, e) <=> st[e] = "READY"
          /\ Contains(x, e) <=> st[e] = "EXIT"
          /\ Contains(f, e) <=> st[e] \in {"FREE", "UNKNOWN"}
          /\ Contains(n, e) => st[e] = "NEW"

\* The queues describe the environments and sched_next is on the ready queue.
QueueInv ==
    /\ Describe(status, env_free_list, env_new_queue, env_ready_queue, env_exit_queue)
    /\ Ready \in ReadyQueues

\* Where the processor is.
CpuInv ==
    /\ curenv \in Envs \cup {NoEnv} /\ masked \subseteq Envs
    /\ mode \in {"prompt", "user", "return"} /\ scheduler_status \in {"STARTED", "STOPPED"}
    /\ PromptOnlyWhenIdle

IInv == QueueInv /\ CpuInv

\* It is what the run checks, with types.
LEMMA InvariantMeaning ==
    ASSUME IInv
    PROVE  QueuesConsistent /\ PromptOnlyWhenIdle
BY DEF IInv, QueueInv, CpuInv, Describe, QueuesConsistent, QueuesMatchStatus, SchedNextIsReady,
       ReadyQueues, ReadyOK, Ready

\* Whoever is on a queue is an environment.
LEMMA ContainsEnvs ==
    ASSUME NEW q \in Seq(Envs), NEW e, Contains(q, e)
    PROVE  e \in Envs
BY DEF Contains

\* fos_scheduler with a good ready queue.
LEMMA SchedulerRuns ==
    ASSUME NEW r \in ReadyQueues, fos_scheduler(r), masked' \subseteq Envs
    PROVE  env_ready_queue' = r.q /\ Ready' \in ReadyQueues /\ CpuInv'
<1>1. /\ r.q \in Seq(Envs) /\ IsInjective(r.q) /\ r.next \in Envs \cup {NoEnv}
      /\ IF r.q = <<>> THEN r.next = NoEnv ELSE Contains(r.q, r.next)
  BY DEF ReadyQueues, ReadyOK
<1>2. CASE r.next # NoEnv
  <2>1. /\ env_ready_queue' = r.q /\ sched_next' = sched_next_circular(r.next, r.q)
        /\ curenv' = r.next /\ mode' = "user" /\ scheduler_status' = "STARTED"
    BY <1>2 DEF fos_scheduler
  <2>2. Contains(r.q, r.next) /\ r.q # <<>>
    BY <1>1, <1>2
  <2>3. Contains(r.q, sched_next') /\ sched_next' \in Envs
    BY <1>1, <2>1, <2>2, CircularFacts
  <2>4. Ready' \in ReadyQueues
    BY <1>1, <2>1, <2>2, <2>3 DEF Ready, ReadyQueues, ReadyOK
  <2>5. CpuInv'
    BY <1>1, <1>2, <2>1, <2>2 DEF CpuInv, PromptOnlyWhenIdle, AtPrompt
  <2> QED
    BY <2>1, <2>4, <2>5
<1>3. CASE r.next = NoEnv
  <2>1. /\ env_ready_queue' = r.q /\ sched_next' = NoEnv
        /\ curenv' = NoEnv /\ mode' = "prompt" /\ scheduler_status' = "STOPPED"
    BY <1>3 DEF fos_scheduler, SetReady
  <2>2. r.q = <<>>
    BY <1>1, <1>3, ContainsEnvs, NoEnvAssumption
  <2>3. Ready' \in ReadyQueues
    BY <1>1, <1>3, <2>1, <2>2 DEF Ready, ReadyQueues, ReadyOK
  <2>4. CpuInv'
    BY <2>1, <2>2 DEF CpuInv, PromptOnlyWhenIdle, AtPrompt
  <2> QED
    BY <2>1, <2>3, <2>4
<1> QED
  BY <1>2, <1>3

\* A command or a system call that is done.
LEMMA Resumes ==
    ASSUME CpuInv, AtPrompt \/ InUser, Resume, masked' \subseteq Envs, AtPrompt => env_ready_queue' = <<>>
    PROVE  CpuInv'
BY DEF CpuInv, PromptOnlyWhenIdle, AtPrompt, InUser, Resume, Return

\* Back in the environment that trapped.
LEMMA Returns ==
    ASSUME CpuInv, InUser, Return, masked' \subseteq Envs
    PROVE  CpuInv'
BY DEF CpuInv, PromptOnlyWhenIdle, AtPrompt, InUser, Return

\* _panic runs the scheduler.
LEMMA PanicRuns ==
    ASSUME NEW st, NEW f, Describe(st, f, env_new_queue, env_ready_queue, env_exit_queue),
           Ready \in ReadyQueues, curenv \in Envs \cup {NoEnv}, Panic(st), masked' \subseteq Envs
    PROVE  /\ Describe(status', f, env_new_queue, env_ready_queue', env_exit_queue')
           /\ Ready' \in ReadyQueues /\ CpuInv'
<1>1. CASE curenv # NoEnv /\ st[curenv] = "READY"
  <2>1. PICK c, s : c = curenv /\ s = Removed(Ready, curenv)
    OBVIOUS
  <2>2. /\ c \in Envs /\ st[c] = "READY" /\ status' = [st EXCEPT ![c] = "EXIT"]
        /\ env_exit_queue' = Append(env_exit_queue, c) /\ fos_scheduler(s)
    BY <1>1, <2>1 DEF Panic
  <2>3. Contains(env_ready_queue, c) /\ ~Contains(env_exit_queue, c)
    BY <2>2 DEF Describe
  <2>4. s \in ReadyQueues /\ \A g : Contains(s.q, g) <=> Contains(env_ready_queue, g) /\ g # c
    <3>1. Ready.q = env_ready_queue
      BY DEF Ready
    <3> QED
      BY <2>1, <2>3, <3>1, RemovedFacts
  <2>5. env_ready_queue' = s.q /\ Ready' \in ReadyQueues /\ CpuInv'
    BY <2>2, <2>4, SchedulerRuns
  <2>6. /\ env_exit_queue' \in Seq(Envs) /\ IsInjective(env_exit_queue')
        /\ \A g : Contains(env_exit_queue', g) <=> Contains(env_exit_queue, g) \/ g = c
    BY <2>2, <2>3, EntersLast DEF Describe
  <2>7. env_ready_queue' \in Seq(Envs) /\ IsInjective(env_ready_queue')
    BY <2>4, <2>5 DEF ReadyQueues, ReadyOK
  <2>8. Describe(status', f, env_new_queue, env_ready_queue', env_exit_queue')
    BY <2>2, <2>4, <2>5, <2>6, <2>7 DEF Describe, Statuses
  <2> QED
    BY <2>5, <2>8
<1>2. CASE ~(curenv # NoEnv /\ st[curenv] = "READY")
  <2>1. status' = st /\ env_exit_queue' = env_exit_queue /\ fos_scheduler(Ready)
    BY <1>2 DEF Panic
  <2>2. env_ready_queue' = env_ready_queue /\ Ready' \in ReadyQueues /\ CpuInv'
    BY <2>1, SchedulerRuns DEF Ready
  <2> QED
    BY <2>1, <2>2
<1> QED
  BY <1>1, <1>2

-----------------------------------------------------------------------------
(***************************************************************************)
(* Every action preserves it.                                              *)
(***************************************************************************)
\* The free list at boot has every entry of envs[], once.
LEMMA BootList ==
    ASSUME NEW q \in SetToSeqs(Envs)
    PROVE  q \in Seq(Envs) /\ IsInjective(q) /\ \A e \in Envs : Contains(q, e)
<1>1. PICK n : n = Cardinality(Envs)
  OBVIOUS
<1>2. n \in Nat
  BY <1>1, EnvsAssumption, FS_CardinalityType
<1>3. q \in [1 .. n -> Envs] /\ \A i, j \in 1 .. n : i # j => q[i] # q[j]
  BY <1>1 DEF SetToSeqs
<1>4. q \in Seq(Envs) /\ Len(q) = n
  BY <1>2, <1>3
<1>5. IsInjective(q)
  BY <1>3 DEF IsInjective
<1>6. q \in Injection(1 .. n, Envs)
  BY <1>3, <1>5 DEF Injection
<1>7. Cardinality(1 .. n) = n
  <2>1. 1 \in Int /\ n \in Int /\ n - 1 + 1 = n /\ (1 > n => n = 0)
    BY <1>2
  <2>2. Cardinality(1 .. n) = IF 1 > n THEN 0 ELSE n - 1 + 1
    BY <2>1, FS_Interval, Zenon
  <2> QED
    BY <2>1, <2>2
<1>8. q \in Surjection(1 .. n, Envs)
  BY <1>1, <1>6, <1>7, EnvsAssumption, FS_Injection, Zenon
<1>9. ASSUME NEW e \in Envs PROVE Contains(q, e)
  BY <1>4, <1>8 DEF Surjection, Contains
<1> QED
  BY <1>4, <1>5, <1>9

\* The initial states.
LEMMA InitInv ==
    ASSUME Init
    PROVE  IInv
<1>1. /\ env_free_list \in Seq(Envs) /\ IsInjective(env_free_list)
      /\ \A e \in Envs : Contains(env_free_list, e)
  BY BootList DEF Init
<1>2. QueueInv
  BY <1>1, NobodyThere DEF Init, QueueInv, Describe, Statuses, Ready, ReadyQueues, ReadyOK
<1>3. CpuInv
  BY DEF Init, CpuInv, PromptOnlyWhenIdle, AtPrompt
<1> QED
  BY <1>2, <1>3 DEF IInv

\* The entry that allocate_environment takes.
LEMMA TakesEntry ==
    ASSUME IInv, env_free_list # <<>>
    PROVE  /\ Head(env_free_list) \in Envs
           /\ status[Head(env_free_list)] \in {"FREE", "UNKNOWN"}
           /\ Tail(env_free_list) \in Seq(Envs) /\ IsInjective(Tail(env_free_list))
           /\ \A g : Contains(Tail(env_free_list), g)
                        <=> Contains(env_free_list, g) /\ g # Head(env_free_list)
BY HeadLeaves DEF IInv, QueueInv, Describe

\* The load command.
LEMMA LoadInv ==
    ASSUME IInv, Load
    PROVE  IInv'
<1>1. PICK e : e = Head(env_free_list)
  OBVIOUS
<1>2. /\ e \in Envs /\ status[e] \in {"FREE", "UNKNOWN"}
      /\ env_free_list' \in Seq(Envs) /\ IsInjective(env_free_list')
      /\ \A g : Contains(env_free_list', g) <=> Contains(env_free_list, g) /\ g # e
  BY <1>1, TakesEntry DEF Load
<1>3. /\ status' = [status EXCEPT ![e] = "NEW"] /\ env_new_queue' = Append(env_new_queue, e)
      /\ UNCHANGED <<env_ready_queue, env_exit_queue, sched_next, masked>>
      /\ (AtPrompt \/ InUser) /\ Resume
  BY <1>1 DEF Load
<1>4. ~Contains(env_new_queue, e) /\ ~Contains(env_ready_queue, e) /\ ~Contains(env_exit_queue, e)
  BY <1>2 DEF IInv, QueueInv, Describe
<1>5. /\ env_new_queue' \in Seq(Envs) /\ IsInjective(env_new_queue')
      /\ \A g : Contains(env_new_queue', g) <=> Contains(env_new_queue, g) \/ g = e
  BY <1>2, <1>3, <1>4, EntersLast DEF IInv, QueueInv, Describe
<1>6. Describe(status', env_free_list', env_new_queue', env_ready_queue', env_exit_queue')
  BY <1>2, <1>3, <1>4, <1>5 DEF IInv, QueueInv, Describe, Statuses
<1>7. Ready' \in ReadyQueues
  BY <1>3 DEF IInv, QueueInv, Ready
<1>8. CpuInv'
  BY <1>3, Resumes DEF IInv, CpuInv, PromptOnlyWhenIdle
<1> QED
  BY <1>6, <1>7, <1>8 DEF IInv, QueueInv

\* The run command.
LEMMA RunProgramInv ==
    ASSUME IInv, RunProgram
    PROVE  IInv'
<1>1. PICK e, s : e = Head(env_free_list) /\ s = Inserted(Ready, e)
  OBVIOUS
<1>2. /\ e \in Envs /\ status[e] \in {"FREE", "UNKNOWN"}
      /\ env_free_list' \in Seq(Envs) /\ IsInjective(env_free_list')
      /\ \A g : Contains(env_free_list', g) <=> Contains(env_free_list, g) /\ g # e
  BY <1>1, TakesEntry DEF RunProgram
<1>3. /\ status' = [status EXCEPT ![e] = "READY"] /\ fos_scheduler(s)
      /\ UNCHANGED <<env_new_queue, env_exit_queue, masked>>
  BY <1>1 DEF RunProgram
<1>4. ~Contains(env_new_queue, e) /\ ~Contains(env_ready_queue, e) /\ ~Contains(env_exit_queue, e)
  BY <1>2 DEF IInv, QueueInv, Describe
<1>5. s \in ReadyQueues /\ \A g : Contains(s.q, g) <=> Contains(env_ready_queue, g) \/ g = e
  <2>1. Ready.q = env_ready_queue /\ Ready \in ReadyQueues
    BY DEF IInv, QueueInv, Ready
  <2> QED
    BY <1>1, <1>2, <1>4, <2>1, InsertedFacts
<1>6. masked' \subseteq Envs
  BY <1>3 DEF IInv, CpuInv
<1>7. env_ready_queue' = s.q /\ Ready' \in ReadyQueues /\ CpuInv'
  BY <1>3, <1>5, <1>6, SchedulerRuns
<1>8. env_ready_queue' \in Seq(Envs) /\ IsInjective(env_ready_queue')
  BY <1>5, <1>7 DEF ReadyQueues, ReadyOK
<1>9. Describe(status', env_free_list', env_new_queue', env_ready_queue', env_exit_queue')
  BY <1>2, <1>3, <1>4, <1>5, <1>7, <1>8 DEF IInv, QueueInv, Describe, Statuses
<1> QED
  BY <1>7, <1>9 DEF IInv, QueueInv

\* The loader panics.
LEMMA LoadPanicsInv ==
    ASSUME IInv, LoadPanics
    PROVE  IInv'
<1>1. PICK e : e = Head(env_free_list)
  OBVIOUS
<1>2. /\ e \in Envs /\ status[e] \in {"FREE", "UNKNOWN"}
      /\ Tail(env_free_list) \in Seq(Envs) /\ IsInjective(Tail(env_free_list))
      /\ \A g : Contains(Tail(env_free_list), g) <=> Contains(env_free_list, g) /\ g # e
  BY <1>1, TakesEntry DEF LoadPanics
<1>3. /\ UNCHANGED <<env_new_queue, masked>> /\ masked' \subseteq Envs
      /\ curenv \in Envs \cup {NoEnv} /\ Ready \in ReadyQueues
  BY DEF LoadPanics, IInv, CpuInv, QueueInv
<1>4. CASE Panic([status EXCEPT ![e] = "UNKNOWN"]) /\ UNCHANGED env_free_list
  <2>1. PICK st : st = [status EXCEPT ![e] = "UNKNOWN"]
    OBVIOUS
  <2>2. Describe(st, env_free_list, env_new_queue, env_ready_queue, env_exit_queue)
    BY <1>2, <2>1 DEF IInv, QueueInv, Describe, Statuses
  <2>3. /\ Describe(status', env_free_list, env_new_queue, env_ready_queue', env_exit_queue')
        /\ Ready' \in ReadyQueues /\ CpuInv'
    BY <1>3, <1>4, <2>1, <2>2, PanicRuns
  <2> QED
    BY <1>3, <1>4, <2>3 DEF IInv, QueueInv
<1>5. CASE Panic([status EXCEPT ![e] = "NEW"]) /\ env_free_list' = Tail(env_free_list)
  <2>1. PICK st, f : st = [status EXCEPT ![e] = "NEW"] /\ f = Tail(env_free_list)
    OBVIOUS
  <2>2. Describe(st, f, env_new_queue, env_ready_queue, env_exit_queue)
    BY <1>2, <2>1 DEF IInv, QueueInv, Describe, Statuses
  <2>3. /\ Describe(status', f, env_new_queue, env_ready_queue', env_exit_queue')
        /\ Ready' \in ReadyQueues /\ CpuInv'
    BY <1>3, <1>5, <2>1, <2>2, PanicRuns
  <2> QED
    BY <1>3, <1>5, <2>1, <2>3 DEF IInv, QueueInv
<1> QED
  BY <1>1, <1>4, <1>5 DEF LoadPanics

\* runall.
LEMMA RunAllInv ==
    ASSUME IInv, RunAll
    PROVE  IInv'
<1>1. PICK s : s = FoldLeft(Inserted, Ready, env_new_queue)
  OBVIOUS
<1>2. /\ status' = [e \in Envs |-> IF Contains(env_new_queue, e) THEN "READY" ELSE status[e]]
      /\ env_new_queue' = <<>>
      /\ UNCHANGED <<env_free_list, env_exit_queue, masked>>
  BY DEF RunAll
<1>3. fos_scheduler(s)
  BY <1>1, Zenon DEF RunAll
<1>4. s \in ReadyQueues /\ \A g : Contains(s.q, g) <=> Contains(env_ready_queue, g) \/ Contains(env_new_queue, g)
  <2>1. Ready \in ReadyQueues /\ Ready.q = env_ready_queue
    BY DEF IInv, QueueInv, Ready
  <2>2. env_new_queue \in Seq(Envs) /\ IsInjective(env_new_queue)
    BY DEF IInv, QueueInv, Describe
  <2>3. \A e : ~(Contains(env_new_queue, e) /\ Contains(Ready.q, e))
    BY <2>1, <2>2, ContainsEnvs DEF IInv, QueueInv, Describe
  <2> QED
    BY <1>1, <2>1, <2>2, <2>3, InsertedAll, Zenon
<1>5. env_ready_queue' = s.q /\ Ready' \in ReadyQueues /\ CpuInv'
  BY <1>2, <1>3, <1>4, SchedulerRuns DEF IInv, CpuInv
<1>6. env_ready_queue' \in Seq(Envs) /\ IsInjective(env_ready_queue')
  BY <1>4, <1>5 DEF ReadyQueues, ReadyOK
<1>7. env_new_queue' \in Seq(Envs) /\ IsInjective(env_new_queue') /\ \A e : ~Contains(env_new_queue', e)
  BY <1>2, NobodyThere
<1>8. Describe(status', env_free_list', env_new_queue', env_ready_queue', env_exit_queue')
  BY <1>2, <1>4, <1>5, <1>6, <1>7 DEF IInv, QueueInv, Describe, Statuses
<1> QED
  BY <1>5, <1>8 DEF IInv, QueueInv

\* sys_run_env.
LEMMA SysRunEnvInv ==
    ASSUME IInv, NEW e \in Envs, SysRunEnv(e)
    PROVE  IInv'
<1>1. PICK s : s = Inserted(Ready, e)
  OBVIOUS
<1>2. /\ InUser /\ Return /\ Contains(env_new_queue, e)
      /\ status' = [status EXCEPT ![e] = "READY"] /\ env_new_queue' = Without(env_new_queue, e)
      /\ env_ready_queue' = s.q /\ sched_next' = s.next
      /\ UNCHANGED <<env_free_list, env_exit_queue, masked>>
  BY <1>1 DEF SysRunEnv, SetReady
<1>3. /\ ~Contains(env_free_list, e) /\ ~Contains(env_ready_queue, e) /\ ~Contains(env_exit_queue, e)
      /\ status[e] = "NEW"
  BY <1>2 DEF IInv, QueueInv, Describe
<1>4. s \in ReadyQueues /\ \A g : Contains(s.q, g) <=> Contains(env_ready_queue, g) \/ g = e
  <2>1. Ready.q = env_ready_queue /\ Ready \in ReadyQueues
    BY DEF IInv, QueueInv, Ready
  <2> QED
    BY <1>1, <1>3, <2>1, InsertedFacts
<1>5. Ready' = s /\ Ready' \in ReadyQueues
  BY <1>2, <1>4 DEF Ready, ReadyQueues
<1>6. env_ready_queue' \in Seq(Envs) /\ IsInjective(env_ready_queue')
  BY <1>2, <1>4 DEF ReadyQueues, ReadyOK
<1>7. /\ env_new_queue' \in Seq(Envs) /\ IsInjective(env_new_queue')
      /\ \A g : Contains(env_new_queue', g) <=> Contains(env_new_queue, g) /\ g # e
  BY <1>2, Leaves DEF IInv, QueueInv, Describe
<1>8. Describe(status', env_free_list', env_new_queue', env_ready_queue', env_exit_queue')
  BY <1>2, <1>3, <1>4, <1>6, <1>7 DEF IInv, QueueInv, Describe, Statuses
<1>9. CpuInv'
  BY <1>2, Returns DEF IInv, CpuInv
<1> QED
  BY <1>5, <1>8, <1>9 DEF IInv, QueueInv

\* sched_kill_env.
LEMMA KillInv ==
    ASSUME IInv, NEW e \in Envs, Kill(e)
    PROVE  IInv'
<1>1. /\ AtPrompt \/ InUser
      /\ Resume /\ status' = [status EXCEPT ![e] = "FREE"]
      /\ env_free_list' = <<e>> \o env_free_list /\ masked' \subseteq Envs
  BY DEF Kill, FreeEnvironment, IInv, CpuInv
<1>2. /\ env_free_list \in Seq(Envs) /\ IsInjective(env_free_list)
      /\ env_new_queue \in Seq(Envs) /\ IsInjective(env_new_queue)
      /\ env_ready_queue \in Seq(Envs) /\ IsInjective(env_ready_queue)
      /\ env_exit_queue \in Seq(Envs) /\ IsInjective(env_exit_queue)
      /\ Ready \in ReadyQueues /\ Ready.q = env_ready_queue
  BY DEF IInv, QueueInv, Describe, Ready
<1>3. CASE /\ Contains(env_new_queue, e) /\ env_new_queue' = Without(env_new_queue, e)
           /\ UNCHANGED <<env_ready_queue, env_exit_queue, sched_next>>
  <2>1. /\ ~Contains(env_free_list, e) /\ ~Contains(env_ready_queue, e) /\ ~Contains(env_exit_queue, e)
    BY <1>3 DEF IInv, QueueInv, Describe
  <2>2. /\ env_new_queue' \in Seq(Envs) /\ IsInjective(env_new_queue')
        /\ \A g : Contains(env_new_queue', g) <=> Contains(env_new_queue, g) /\ g # e
    BY <1>2, <1>3, Leaves
  <2>3. /\ env_free_list' \in Seq(Envs) /\ IsInjective(env_free_list')
        /\ \A g : Contains(env_free_list', g) <=> Contains(env_free_list, g) \/ g = e
    BY <1>1, <1>2, <2>1, EntersFirst
  <2>4. Describe(status', env_free_list', env_new_queue', env_ready_queue', env_exit_queue')
    BY <1>1, <1>3, <2>1, <2>2, <2>3 DEF IInv, QueueInv, Describe, Statuses
  <2>5. Ready' \in ReadyQueues
    BY <1>2, <1>3 DEF Ready
  <2>6. CpuInv'
    BY <1>1, <1>3, Resumes DEF IInv, CpuInv, PromptOnlyWhenIdle
  <2> QED
    BY <2>4, <2>5, <2>6 DEF IInv, QueueInv
<1>4. CASE /\ Contains(env_ready_queue, e) /\ SetReady(Removed(Ready, e))
           /\ UNCHANGED <<env_new_queue, env_exit_queue>>
  <2>1. /\ ~Contains(env_free_list, e) /\ ~Contains(env_new_queue, e) /\ ~Contains(env_exit_queue, e)
    BY <1>4 DEF IInv, QueueInv, Describe
  <2>2. PICK s : s = Removed(Ready, e)
    OBVIOUS
  <2>3. s \in ReadyQueues /\ \A g : Contains(s.q, g) <=> Contains(env_ready_queue, g) /\ g # e
    BY <1>2, <1>4, <2>2, RemovedFacts
  <2>4. env_ready_queue' = s.q /\ sched_next' = s.next
    BY <1>4, <2>2 DEF SetReady
  <2>5. Ready' \in ReadyQueues
    BY <2>3, <2>4 DEF Ready, ReadyQueues
  <2>6. env_ready_queue' \in Seq(Envs) /\ IsInjective(env_ready_queue')
    BY <2>3, <2>4 DEF ReadyQueues, ReadyOK
  <2>7. /\ env_free_list' \in Seq(Envs) /\ IsInjective(env_free_list')
        /\ \A g : Contains(env_free_list', g) <=> Contains(env_free_list, g) \/ g = e
    BY <1>1, <1>2, <2>1, EntersFirst
  <2>8. Describe(status', env_free_list', env_new_queue', env_ready_queue', env_exit_queue')
    BY <1>1, <1>4, <2>1, <2>3, <2>4, <2>6, <2>7 DEF IInv, QueueInv, Describe, Statuses
  <2>9. CpuInv'
    <3>1. ~AtPrompt
      BY <1>2, <1>4, EmptyQueue DEF IInv, CpuInv, PromptOnlyWhenIdle
    <3> QED
      BY <1>1, <3>1, Resumes DEF IInv
  <2> QED
    BY <2>5, <2>8, <2>9 DEF IInv, QueueInv
<1>5. CASE /\ Contains(env_exit_queue, e) /\ env_exit_queue' = Without(env_exit_queue, e)
           /\ UNCHANGED <<env_new_queue, env_ready_queue, sched_next>>
  <2>1. /\ ~Contains(env_free_list, e) /\ ~Contains(env_ready_queue, e) /\ ~Contains(env_new_queue, e)
    BY <1>5 DEF IInv, QueueInv, Describe
  <2>2. /\ env_exit_queue' \in Seq(Envs) /\ IsInjective(env_exit_queue')
        /\ \A g : Contains(env_exit_queue', g) <=> Contains(env_exit_queue, g) /\ g # e
    BY <1>2, <1>5, Leaves
  <2>3. /\ env_free_list' \in Seq(Envs) /\ IsInjective(env_free_list')
        /\ \A g : Contains(env_free_list', g) <=> Contains(env_free_list, g) \/ g = e
    BY <1>1, <1>2, <2>1, EntersFirst
  <2>4. Describe(status', env_free_list', env_new_queue', env_ready_queue', env_exit_queue')
    BY <1>1, <1>5, <2>1, <2>2, <2>3 DEF IInv, QueueInv, Describe, Statuses
  <2>5. Ready' \in ReadyQueues
    BY <1>2, <1>5 DEF Ready
  <2>6. CpuInv'
    BY <1>1, <1>5, Resumes DEF IInv, CpuInv, PromptOnlyWhenIdle
  <2> QED
    BY <2>4, <2>5, <2>6 DEF IInv, QueueInv
<1> QED
  BY <1>3, <1>4, <1>5 DEF Kill

\* Lists one after the other.
LEMMA Joined ==
    ASSUME NEW p \in Seq(Envs), IsInjective(p), NEW q \in Seq(Envs), IsInjective(q),
           \A e : ~(Contains(p, e) /\ Contains(q, e))
    PROVE  /\ p \o q \in Seq(Envs) /\ IsInjective(p \o q)
           /\ \A e : Contains(p \o q, e) <=> Contains(p, e) \/ Contains(q, e)
<1>1. PICK w : w = p \o q
  OBVIOUS
<1>2. /\ w \in Seq(Envs) /\ Len(w) = Len(p) + Len(q) /\ Len(p) \in Nat /\ Len(q) \in Nat
      /\ \A i \in 1 .. Len(p) + Len(q) : w[i] = IF i <= Len(p) THEN p[i] ELSE q[i - Len(p)]
  BY <1>1, ConcatProperties
<1>3. /\ \A i, j \in 1 .. Len(p) : p[i] = p[j] => i = j
      /\ \A i, j \in 1 .. Len(q) : q[i] = q[j] => i = j
      /\ \A i \in 1 .. Len(p), j \in 1 .. Len(q) : p[i] # q[j]
  BY DEF IsInjective, Contains
<1>4. \A i \in 1 .. Len(w) : \/ i \in 1 .. Len(p) /\ w[i] = p[i]
                             \/ i > Len(p) /\ i - Len(p) \in 1 .. Len(q) /\ w[i] = q[i - Len(p)]
  BY <1>2
<1>5. \A i, j \in 1 .. Len(w) : w[i] = w[j] => i = j
  <2> SUFFICES ASSUME NEW i \in 1 .. Len(w), NEW j \in 1 .. Len(w), w[i] = w[j] PROVE i = j
    OBVIOUS
  <2>1. CASE i \in 1 .. Len(p) /\ w[i] = p[i]
    BY <1>3, <1>4, <2>1
  <2>2. CASE i > Len(p) /\ i - Len(p) \in 1 .. Len(q) /\ w[i] = q[i - Len(p)]
    <3>1. j > Len(p) /\ j - Len(p) \in 1 .. Len(q) /\ w[j] = q[j - Len(p)]
      BY <1>3, <1>4, <2>2
    <3>2. i - Len(p) = j - Len(p)
      BY <1>3, <2>2, <3>1
    <3> QED
      BY <1>2, <3>2
  <2> QED
    BY <1>4, <2>1, <2>2
<1>6. IsInjective(w)
  BY <1>2, <1>5 DEF IsInjective
<1>7. ASSUME NEW e, Contains(w, e) PROVE Contains(p, e) \/ Contains(q, e)
  BY <1>4, <1>7 DEF Contains
<1>8. ASSUME NEW e, Contains(p, e) PROVE Contains(w, e)
  BY <1>2, <1>8 DEF Contains
<1>9. ASSUME NEW e, Contains(q, e) PROVE Contains(w, e)
  <2>1. PICK i \in 1 .. Len(q) : q[i] = e
    BY <1>9 DEF Contains
  <2>2. Len(p) + i \in 1 .. Len(w) /\ ~(Len(p) + i <= Len(p)) /\ Len(p) + i - Len(p) = i
    BY <1>2, <2>1
  <2>3. w[Len(p) + i] = e
    BY <1>2, <2>1, <2>2
  <2> QED
    BY <2>2, <2>3 DEF Contains
<1> QED
  BY <1>1, <1>2, <1>6, <1>7, <1>8, <1>9

\* A queue read backwards.
LEMMA Reversed ==
    ASSUME NEW q \in Seq(Envs), IsInjective(q)
    PROVE  /\ Reverse(q) \in Seq(Envs) /\ IsInjective(Reverse(q))
           /\ \A e : Contains(Reverse(q), e) <=> Contains(q, e)
<1>1. PICK w, n : w = Reverse(q) /\ n = Len(q)
  OBVIOUS
<1>2. n \in Nat /\ w = [i \in 1 .. n |-> q[(n - i) + 1]] /\ \A i \in 1 .. n : q[i] \in Envs
  BY <1>1 DEF Reverse
<1>3. \A i \in 1 .. n : (n - i) + 1 \in 1 .. n /\ (n - ((n - i) + 1)) + 1 = i
  BY <1>2
<1>4. w \in Seq(Envs) /\ Len(w) = n /\ DOMAIN w = 1 .. n
  BY <1>2, <1>3
<1>5. \A i, j \in 1 .. n : q[i] = q[j] => i = j
  BY <1>1 DEF IsInjective
<1>6. IsInjective(w)
  <2> SUFFICES ASSUME NEW i \in 1 .. n, NEW j \in 1 .. n, w[i] = w[j] PROVE i = j
    BY <1>4 DEF IsInjective
  <2>1. (n - i) + 1 = (n - j) + 1
    BY <1>2, <1>3, <1>5
  <2> QED
    BY <1>2, <2>1
<1>7. ASSUME NEW e, Contains(w, e) PROVE Contains(q, e)
  BY <1>1, <1>2, <1>3, <1>4, <1>7 DEF Contains
<1>8. ASSUME NEW e, Contains(q, e) PROVE Contains(w, e)
  <2>1. PICK i \in 1 .. n : q[i] = e
    BY <1>1, <1>8 DEF Contains
  <2>2. (n - i) + 1 \in 1 .. n /\ w[(n - i) + 1] = e
    BY <1>2, <1>3, <2>1
  <2> QED
    BY <1>4, <2>2 DEF Contains
<1> QED
  BY <1>1, <1>4, <1>6, <1>7, <1>8

\* killall.
LEMMA KillAllInv ==
    ASSUME IInv, KillAll
    PROVE  IInv'
<1>1. /\ AtPrompt /\ env_ready_queue = <<>>
      /\ env_new_queue' = <<>> /\ env_exit_queue' = <<>>
  BY DEF KillAll, IInv, CpuInv, PromptOnlyWhenIdle
<1>2. fos_scheduler(Ready)
  <2>1. FoldLeft(Removed, Ready, env_ready_queue) = Ready
    <3>1. PICK r : r = Ready
      OBVIOUS
    <3>2. DOMAIN env_ready_queue = {}
      BY <1>1
    <3> DEFINE Iter(g) == g = [s \in SUBSET {} |-> IF s = {} THEN r ELSE Removed(g[s \ {Max(s)}], env_ready_queue[Max(s)])]
    <3>3. PICK g : g = CHOOSE f : Iter(f)
      OBVIOUS
    <3>4. Iter([s \in SUBSET {} |-> r])
      OBVIOUS
    <3>5. Iter(g)
      BY <3>3, <3>4, Zenon
    <3>6. FoldLeft(Removed, r, env_ready_queue) = g[{}]
      BY <3>2, <3>3, Zenon DEF FoldLeft, MapThenFoldSet
    <3>7. g[{}] = r
      BY <3>5
    <3> QED
      BY <3>1, <3>6, <3>7, Zenon
  <2> QED
    BY <2>1, Zenon DEF KillAll
<1>3. PICK k : k = env_new_queue \o env_ready_queue \o env_exit_queue
  OBVIOUS
<1>4. /\ status' = [e \in Envs |-> IF Contains(k, e) THEN "FREE" ELSE status[e]]
      /\ env_free_list' = Reverse(k) \o env_free_list
      /\ masked' \subseteq Envs
  BY <1>3 DEF KillAll, IInv, CpuInv
<1>5. /\ env_free_list \in Seq(Envs) /\ IsInjective(env_free_list)
      /\ env_new_queue \in Seq(Envs) /\ IsInjective(env_new_queue)
      /\ env_exit_queue \in Seq(Envs) /\ IsInjective(env_exit_queue)
  BY DEF IInv, QueueInv, Describe
<1>6. k = env_new_queue \o env_exit_queue
  BY <1>1, <1>3, <1>5
<1>7. \A e : ~(Contains(env_new_queue, e) /\ Contains(env_exit_queue, e))
  BY <1>5, ContainsEnvs DEF IInv, QueueInv, Describe
<1>8. /\ k \in Seq(Envs) /\ IsInjective(k)
      /\ \A e : Contains(k, e) <=> Contains(env_new_queue, e) \/ Contains(env_exit_queue, e)
  BY <1>5, <1>6, <1>7, Joined
<1>9. PICK rk : rk = Reverse(k)
  OBVIOUS
<1>10. rk \in Seq(Envs) /\ IsInjective(rk) /\ \A e : Contains(rk, e) <=> Contains(k, e)
  BY <1>8, <1>9, Reversed
<1>11. \A e : ~(Contains(rk, e) /\ Contains(env_free_list, e))
  BY <1>5, <1>8, <1>10, ContainsEnvs DEF IInv, QueueInv, Describe
<1>12. /\ env_free_list' \in Seq(Envs) /\ IsInjective(env_free_list')
       /\ \A e : Contains(env_free_list', e) <=> Contains(k, e) \/ Contains(env_free_list, e)
  BY <1>4, <1>5, <1>9, <1>10, <1>11, Joined
<1>13. env_ready_queue' = <<>> /\ Ready' \in ReadyQueues /\ CpuInv'
  <2>1. Ready \in ReadyQueues /\ Ready.q = <<>>
    BY <1>1 DEF IInv, QueueInv, Ready
  <2> QED
    BY <1>2, <1>4, <2>1, SchedulerRuns
<1>14. Describe(status', env_free_list', env_new_queue', env_ready_queue', env_exit_queue')
  BY <1>1, <1>4, <1>8, <1>12, <1>13, NobodyThere DEF IInv, QueueInv, Describe, Statuses
<1> QED
  BY <1>13, <1>14 DEF IInv, QueueInv

\* env_exit.
LEMMA EnvExitInv ==
    ASSUME IInv, EnvExit
    PROVE  IInv'
<1>1. Panic(status) /\ UNCHANGED <<env_free_list, env_new_queue, masked>>
  BY DEF EnvExit
<1> QED
  BY <1>1, PanicRuns DEF IInv, QueueInv, CpuInv

\* A trap from user mode.
LEMMA TrapInv ==
    ASSUME IInv, OtherTrap \/ DisableInterrupt \/ EnableInterrupt
    PROVE  IInv'
<1>1. /\ InUser /\ Return /\ UNCHANGED <<status, queues, sched_next>>
      /\ masked' \subseteq masked \cup {curenv}
  BY DEF OtherTrap, DisableInterrupt, EnableInterrupt
<1>2. curenv \in Envs
  BY <1>1 DEF IInv, CpuInv, PromptOnlyWhenIdle, InUser, AtPrompt
<1>3. CpuInv'
  BY <1>1, <1>2, Returns DEF IInv, CpuInv
<1> QED
  BY <1>1, <1>3 DEF IInv, QueueInv, Ready, queues

\* The clock interrupt.
LEMMA ClockInv ==
    ASSUME IInv, ClockInterrupt
    PROVE  IInv'
<1>1. /\ fos_scheduler(Ready) /\ Ready \in ReadyQueues /\ Ready.q = env_ready_queue
      /\ UNCHANGED <<status, env_free_list, env_new_queue, env_exit_queue, masked>>
      /\ masked' \subseteq Envs
  BY DEF ClockInterrupt, IInv, QueueInv, CpuInv, Ready
<1>2. env_ready_queue' = env_ready_queue /\ Ready' \in ReadyQueues /\ CpuInv'
  BY <1>1, SchedulerRuns
<1> QED
  BY <1>1, <1>2 DEF IInv, QueueInv

\* The return from a trap.
LEMMA TrapReturnInv ==
    ASSUME IInv, TrapReturn
    PROVE  IInv'
<1>1. CASE /\ status[curenv] = "READY" /\ mode' = "user"
           /\ UNCHANGED <<status, queues, sched_next, curenv, scheduler_status, masked>>
  <2>1. curenv \in Envs /\ mode = "return"
    BY DEF TrapReturn, IInv, CpuInv, PromptOnlyWhenIdle, AtPrompt
  <2>2. Contains(env_ready_queue, curenv)
    BY <1>1, <2>1 DEF IInv, QueueInv, Describe
  <2>3. CpuInv'
    BY <1>1, <2>1, <2>2 DEF IInv, CpuInv, PromptOnlyWhenIdle, AtPrompt, queues
  <2> QED
    BY <1>1, <2>3 DEF IInv, QueueInv, Ready, queues
<1>2. CASE Panic(status) /\ UNCHANGED <<env_free_list, env_new_queue, masked>>
  BY <1>2, PanicRuns DEF IInv, QueueInv, CpuInv
<1> QED
  BY <1>1, <1>2 DEF TrapReturn

\* Every step keeps the invariant.
LEMMA Inductive ==
    ASSUME IInv, [Next]_vars
    PROVE  IInv'
<1>1. CASE UNCHANGED vars
  BY <1>1 DEF IInv, QueueInv, CpuInv, PromptOnlyWhenIdle, AtPrompt, Ready, vars, queues
<1>2. ASSUME NEW e \in Envs, Kill(e) \/ SysRunEnv(e) PROVE IInv'
  BY <1>2, KillInv, SysRunEnvInv
<1> QED
  BY <1>1, <1>2, LoadInv, LoadPanicsInv, RunProgramInv, RunAllInv, KillAllInv, EnvExitInv, TrapInv,
     ClockInv, TrapReturnInv DEF Next

\* The invariant holds in every reachable state.
LEMMA InvariantHolds == Spec => []IInv
<1>1. Spec => Init /\ [][Next]_vars
  BY DEF Spec
<1> QED
  BY <1>1, InitInv, Inductive, PTL

\* After any sequence of creations, runs, kills, exits and panics (sched.c,
\* user_environment.c, init.c) the queues describe the environments, each of
\* them on one queue at most and once, and sched_next lies on the ready queue.
THEOREM QueuesCorrect == Spec => []QueuesConsistent
BY InvariantHolds, InvariantMeaning, PTL

\* fos_scheduler goes to the prompt only when no environment is ready, with
\* curenv reset, and env_run only runs environments on the ready queue.
THEOREM SchedulerNeverIdles == Spec => []PromptOnlyWhenIdle
BY InvariantHolds, InvariantMeaning, PTL

-----------------------------------------------------------------------------
(***************************************************************************)
(* The order of the round.                                                 *)
(***************************************************************************)
\* Ahead for a ready queue and sched_next r: who comes before e.
Before(r, e) == (Position(r.q, e) - Position(r.q, r.next)) % Len(r.q)

\* Ahead, by the queue alone.
LEMMA AheadIsBefore == \A e : Ahead(e) = Before(Ready, e)
BY DEF Ahead, Before, Ready

\* An environment is at one place only.
LEMMA PositionUnique ==
    ASSUME NEW q \in Seq(Envs), IsInjective(q), NEW i \in 1 .. Len(q)
    PROVE  Position(q, q[i]) = i
<1>1. Contains(q, q[i])
  BY DEF Contains
<1>2. Position(q, q[i]) \in 1 .. Len(q) /\ q[Position(q, q[i])] = q[i]
  BY <1>1, PositionFound
<1> QED
  BY <1>2 DEF IsInjective

\* Differences round a circle of n places.
LEMMA RoundTheCircle ==
    ASSUME NEW n \in Nat \ {0}, NEW a \in 1 .. n, NEW b \in 1 .. n
    PROVE  (a - b) % n = IF a >= b THEN a - b ELSE a - b + n
<1>1. ASSUME NEW d \in 0 .. n - 1 PROVE d % n = d /\ (d - n) % n = d
  OBVIOUS
<1>2. CASE a >= b
  BY <1>1, <1>2
<1>3. CASE a < b
  <2>1. a - b + n \in 0 .. n - 1 /\ (a - b + n) - n = a - b
    BY <1>3
  <2> QED
    BY <1>1, <1>3, <2>1
<1> QED
  BY <1>2, <1>3

\* The places on a ready queue of those that a round is about.
LEMMA Places ==
    ASSUME NEW r \in ReadyQueues, NEW e, Contains(r.q, e)
    PROVE  /\ r.q \in Seq(Envs) /\ IsInjective(r.q) /\ Len(r.q) \in Nat \ {0}
           /\ Contains(r.q, r.next) /\ r.next # NoEnv
           /\ Position(r.q, e) \in 1 .. Len(r.q) /\ r.q[Position(r.q, e)] = e
           /\ Position(r.q, r.next) \in 1 .. Len(r.q) /\ r.q[Position(r.q, r.next)] = r.next
           /\ Before(r, e) = IF Position(r.q, e) >= Position(r.q, r.next)
                             THEN Position(r.q, e) - Position(r.q, r.next)
                             ELSE Position(r.q, e) - Position(r.q, r.next) + Len(r.q)
<1>1. r.q \in Seq(Envs) /\ IsInjective(r.q) /\ Contains(r.q, r.next) /\ r.next # NoEnv
  BY EmptyQueue, ContainsEnvs, NoEnvAssumption DEF ReadyQueues, ReadyOK
<1>2. Position(r.q, e) \in 1 .. Len(r.q) /\ r.q[Position(r.q, e)] = e
  BY <1>1, PositionFound
<1>3. Position(r.q, r.next) \in 1 .. Len(r.q) /\ r.q[Position(r.q, r.next)] = r.next
  BY <1>1, PositionFound
<1>4. Len(r.q) \in Nat \ {0}
  BY <1>1, <1>2
<1> QED
  BY <1>1, <1>2, <1>3, <1>4, RoundTheCircle DEF Before

\* A newcomer comes last: nobody gets one more ahead.
LEMMA NewcomerLast ==
    ASSUME NEW r \in ReadyQueues, NEW e \in Envs, ~Contains(r.q, e), NEW g, Contains(r.q, g)
    PROVE  Before(Inserted(r, e), g) = Before(r, g)
<1>1. PICK q, n, x, k, i, s, w :
         /\ q = r.q /\ n = Len(q) /\ x = r.next /\ k = Position(q, x) /\ i = Position(q, g)
         /\ s = Inserted(r, e) /\ w = InsertBefore(q, x, e)
  OBVIOUS
<1>2. /\ q \in Seq(Envs) /\ IsInjective(q) /\ n \in Nat \ {0} /\ Contains(q, x) /\ x # NoEnv
      /\ k \in 1 .. n /\ q[k] = x /\ i \in 1 .. n /\ q[i] = g
      /\ Before(r, g) = IF i >= k THEN i - k ELSE i - k + n
  BY <1>1, Places
<1>3. s \in ReadyQueues /\ s.q = w /\ s.next = x /\ Contains(s.q, g)
  <2>1. s \in ReadyQueues /\ Contains(s.q, g)
    BY <1>1, InsertedFacts
  <2> QED
    BY <1>1, <1>2, <2>1 DEF Inserted
<1>4. /\ w \in Seq(Envs) /\ Len(w) = n + 1
      /\ \A j \in 1 .. n + 1 : w[j] = IF j < k THEN q[j] ELSE IF j = k THEN e ELSE q[j - 1]
  <2>1. /\ InsertBefore(q, x, e) \in Seq(Envs) /\ Len(InsertBefore(q, x, e)) = Len(q) + 1
        /\ \A j \in 1 .. Len(q) + 1 :
              InsertBefore(q, x, e)[j] = IF j < Position(q, x) THEN q[j]
                                         ELSE IF j = Position(q, x) THEN e ELSE q[j - 1]
    BY <1>2, InsertBeforeFacts
  <2> QED
    BY <1>1, <2>1
<1>5. IsInjective(w)
  BY <1>3 DEF ReadyQueues, ReadyOK
<1>6. Position(w, x) = k + 1
  <2>1. k + 1 \in 1 .. Len(w) /\ w[k + 1] = x
    BY <1>2, <1>4
  <2> QED
    BY <1>4, <1>5, <2>1, PositionUnique
<1>7. Position(w, g) = IF i < k THEN i ELSE i + 1
  <2>1. CASE i < k
    <3>1. i \in 1 .. Len(w) /\ w[i] = g
      BY <1>2, <1>4, <2>1
    <3> QED
      BY <1>4, <1>5, <2>1, <3>1, PositionUnique
  <2>2. CASE ~(i < k)
    <3>1. i + 1 \in 1 .. Len(w) /\ w[i + 1] = g
      BY <1>2, <1>4, <2>2
    <3> QED
      BY <1>4, <1>5, <2>2, <3>1, PositionUnique
  <2> QED
    BY <2>1, <2>2
<1>8. Before(s, g) = IF Position(w, g) >= k + 1 THEN Position(w, g) - (k + 1)
                     ELSE Position(w, g) - (k + 1) + (n + 1)
  BY <1>3, <1>4, <1>6, Places
<1>9. n \in Nat /\ k \in 1 .. n /\ i \in 1 .. n /\ Before(r, g) = IF i >= k THEN i - k ELSE i - k + n
  BY <1>1, <1>2
<1>10. CASE i < k
  <2>1. Before(s, g) = i - (k + 1) + (n + 1)
    BY <1>7, <1>8, <1>9, <1>10
  <2> QED
    BY <1>1, <1>9, <1>10, <2>1
<1>11. CASE ~(i < k)
  <2>1. Before(s, g) = (i + 1) - (k + 1)
    BY <1>7, <1>8, <1>9, <1>11
  <2> QED
    BY <1>1, <1>9, <1>11, <2>1
<1> QED
  BY <1>10, <1>11

\* When an environment leaves, nobody gets one more ahead.
LEMMA LeavingHelps ==
    ASSUME NEW r \in ReadyQueues, NEW e, Contains(r.q, e), NEW g, Contains(r.q, g), g # e
    PROVE  Before(Removed(r, e), g) <= Before(r, g)
<1>1. PICK q, n, x, k, i, m, s, w :
         /\ q = r.q /\ n = Len(q) /\ x = r.next /\ k = Position(q, x) /\ i = Position(q, g)
         /\ m = Position(q, e) /\ s = Removed(r, e) /\ w = Without(q, e)
  OBVIOUS
<1>2. /\ q \in Seq(Envs) /\ IsInjective(q) /\ n \in Nat \ {0} /\ Contains(q, x) /\ x # NoEnv
      /\ k \in 1 .. n /\ q[k] = x /\ i \in 1 .. n /\ q[i] = g
      /\ Before(r, g) = IF i >= k THEN i - k ELSE i - k + n
  BY <1>1, Places
<1>3. m \in 1 .. n /\ q[m] = e
  BY <1>1, Places
<1>4. s \in ReadyQueues /\ s.q = w /\ Contains(s.q, g)
  <2>1. s \in ReadyQueues /\ Contains(s.q, g)
    BY <1>1, RemovedFacts
  <2> QED
    BY <1>1, <2>1 DEF Removed
<1>5. /\ w \in Seq(Envs) /\ Len(w) = n - 1
      /\ \A j \in 1 .. n - 1 : w[j] = IF j < m THEN q[j] ELSE q[j + 1]
  <2>1. /\ Without(q, e) \in Seq(Envs) /\ Len(Without(q, e)) = Len(q) - 1
        /\ \A j \in 1 .. Len(q) - 1 :
              Without(q, e)[j] = IF j < Position(q, e) THEN q[j] ELSE q[j + 1]
    BY <1>1, <1>2, WithoutFacts
  <2> QED
    BY <1>1, <2>1
<1>6. IsInjective(w)
  BY <1>4 DEF ReadyQueues, ReadyOK
<1>7. ASSUME NEW j \in 1 .. n, j # m
      PROVE  Position(w, q[j]) = IF j < m THEN j ELSE j - 1
  <2>1. CASE j < m
    <3>1. j \in 1 .. Len(w) /\ w[j] = q[j]
      BY <1>2, <1>3, <1>5, <2>1
    <3> QED
      BY <1>5, <1>6, <2>1, <3>1, PositionUnique
  <2>2. CASE ~(j < m)
    <3>1. j - 1 \in 1 .. Len(w) /\ w[j - 1] = q[j]
      BY <1>2, <1>3, <1>5, <1>7, <2>2
    <3> QED
      BY <1>5, <1>6, <2>2, <3>1, PositionUnique
  <2> QED
    BY <2>1, <2>2
<1>8. i # m
  BY <1>2, <1>3
<1>9. Position(w, g) = IF i < m THEN i ELSE i - 1
  BY <1>2, <1>7, <1>8
<1>10. PICK h : h = Position(w, s.next)
  OBVIOUS
<1>11. Before(s, g) = IF Position(w, g) >= h THEN Position(w, g) - h ELSE Position(w, g) - h + (n - 1)
  BY <1>4, <1>5, <1>10, Places
<1>12. CASE x # e
  <2>1. s.next = x /\ k # m
    BY <1>1, <1>2, <1>3, <1>12 DEF Removed
  <2>2. h = IF k < m THEN k ELSE k - 1
    BY <1>2, <1>7, <1>10, <2>1
  <2> QED
    BY <1>1, <1>2, <1>3, <1>8, <1>9, <1>11, <2>1, <2>2
<1>13. CASE x = e
  <2>1. k = m
    BY <1>1, <1>13
  <2>2. PICK j \in 1 .. n : j = IF m = n THEN 1 ELSE m + 1
    BY <1>2, <1>3
  <2>3. sched_next_circular(e, q) = q[j]
    BY <1>1, <2>2 DEF sched_next_circular
  <2>4. n # 1
    BY <1>2, <1>3, <1>8
  <2>5. q[j] # e /\ s.next = q[j]
    <3>1. sched_next_circular(e, q) # e
      BY <1>1, <1>2, <2>4, CircularOther
    <3> QED
      BY <1>1, <1>13, <2>3, <3>1 DEF Removed
  <2>6. j # m
    BY <1>3, <2>5
  <2>7. h = IF j < m THEN j ELSE j - 1
    BY <1>7, <1>10, <2>5, <2>6
  <2> QED
    BY <1>1, <1>2, <1>3, <1>8, <1>9, <1>11, <2>1, <2>2, <2>7
<1> QED
  BY <1>12, <1>13

\* When fos_scheduler runs the next one, the others have one fewer ahead.
LEMMA RoundAdvances ==
    ASSUME NEW r \in ReadyQueues, fos_scheduler(r), NEW g, Contains(env_ready_queue', g), g # curenv'
    PROVE  Before(Ready', g) = Before(r, g) - 1 /\ Before(r, g) \in Nat
<1>1. PICK q, n, x, k, i, y :
         /\ q = r.q /\ n = Len(q) /\ x = r.next /\ k = Position(q, x) /\ i = Position(q, g)
         /\ y = sched_next'
  OBVIOUS
<1>2. env_ready_queue' = q
  BY <1>1 DEF fos_scheduler, SetReady
<1>3. /\ q \in Seq(Envs) /\ IsInjective(q) /\ n \in Nat \ {0} /\ Contains(q, x) /\ x # NoEnv
      /\ k \in 1 .. n /\ q[k] = x /\ i \in 1 .. n /\ q[i] = g
      /\ Before(r, g) = IF i >= k THEN i - k ELSE i - k + n
  BY <1>1, <1>2, Places
<1>4. y = sched_next_circular(x, q) /\ curenv' = x
  BY <1>1, <1>3 DEF fos_scheduler
<1>5. i # k
  BY <1>3, <1>4
<1>6. PICK j \in 1 .. n : j = IF k = n THEN 1 ELSE k + 1
  BY <1>3
<1>7. y = q[j] /\ Position(q, y) = j
  <2>1. y = q[j]
    BY <1>1, <1>4, <1>6 DEF sched_next_circular
  <2> QED
    BY <1>1, <1>3, <2>1, PositionUnique
<1>8. Before(Ready', g) = (i - j) % n
  BY <1>1, <1>2, <1>7 DEF Before, Ready
<1>9. (i - j) % n = IF i >= j THEN i - j ELSE i - j + n
  BY <1>3, RoundTheCircle
<1> QED
  BY <1>3, <1>5, <1>6, <1>8, <1>9

\* What NobodyOvertaken says of one step.
Overtakes(e) ==
    /\ Contains(env_ready_queue, e) /\ Contains(env_ready_queue', e)
    /\ ~(Ahead(e)' <= Ahead(e) /\ (InUser /\ InUser' => Ahead(e)' < Ahead(e)))

\* Nobody is overtaken when the ready queue and sched_next stay.
LEMMA QueueStays ==
    ASSUME IInv, NEW e, UNCHANGED <<env_ready_queue, sched_next>>, ~(InUser /\ InUser')
    PROVE  ~Overtakes(e)
<1>1. SUFFICES ASSUME Contains(env_ready_queue, e) PROVE Ahead(e)' <= Ahead(e)
  BY <1>1 DEF Overtakes
<1>2. Ahead(e)' = Ahead(e)
  BY DEF Ahead
<1>3. Ahead(e) \in Int
  <2>1. Ready \in ReadyQueues /\ Contains(Ready.q, e)
    BY <1>1 DEF IInv, QueueInv, Ready
  <2>2. Before(Ready, e) \in Int
    BY <2>1, Places
  <2> QED
    BY <2>2, AheadIsBefore
<1> QED
  BY <1>2, <1>3

\* Nor when the scheduler runs with the ready queue as it is, or without an
\* environment that leaves it.
LEMMA SchedulerFair ==
    ASSUME IInv, NEW e, e # curenv',
           \/ fos_scheduler(Ready)
           \/ /\ curenv # NoEnv /\ Contains(env_ready_queue, curenv)
              /\ fos_scheduler(Removed(Ready, curenv))
    PROVE  ~Overtakes(e)
<1>1. SUFFICES ASSUME Contains(env_ready_queue, e), Contains(env_ready_queue', e)
               PROVE  Ahead(e)' < Ahead(e) /\ Ahead(e) \in Int /\ Ahead(e)' \in Int
  BY <1>1 DEF Overtakes
<1>2. Ready \in ReadyQueues /\ Ready.q = env_ready_queue
  BY DEF IInv, QueueInv, Ready
<1>3. Ahead(e) = Before(Ready, e) /\ Ahead(e)' = Before(Ready', e)
  BY DEF Ahead, Before, Ready
<1>4. CASE fos_scheduler(Ready)
  <2>1. PICK r : r = Ready
    OBVIOUS
  <2>2. Before(Ready', e) = Before(r, e) - 1 /\ Before(r, e) \in Nat
    BY <1>1, <1>2, <1>4, <2>1, RoundAdvances
  <2> QED
    BY <1>3, <2>1, <2>2
<1>5. CASE /\ curenv # NoEnv /\ Contains(env_ready_queue, curenv)
           /\ fos_scheduler(Removed(Ready, curenv))
  <2>1. PICK c, r, s : c = curenv /\ r = Ready /\ s = Removed(r, c)
    OBVIOUS
  <2>2. s \in ReadyQueues /\ \A g : Contains(s.q, g) <=> Contains(r.q, g) /\ g # c
    BY <1>2, <1>5, <2>1, RemovedFacts
  <2>3. fos_scheduler(s) /\ env_ready_queue' = s.q
    BY <1>5, <2>1 DEF fos_scheduler, SetReady
  <2>4. Before(Ready', e) = Before(s, e) - 1 /\ Before(s, e) \in Nat
    BY <1>1, <2>2, <2>3, RoundAdvances
  <2>5. e # c /\ Contains(r.q, e) /\ r \in ReadyQueues /\ Contains(r.q, c)
    BY <1>1, <1>2, <1>5, <2>1, <2>2, <2>3
  <2>6. Before(s, e) <= Before(r, e) /\ Before(r, e) \in Int
    BY <2>1, <2>5, LeavingHelps, Places
  <2> QED
    BY <1>3, <2>1, <2>4, <2>6
<1> QED
  BY <1>4, <1>5

\* _panic keeps the order of the round.
LEMMA PanicFair ==
    ASSUME IInv, NEW st, NEW e, e # curenv', Panic(st),
           \A g \in Envs : st[g] = "READY" => status[g] = "READY"
    PROVE  ~Overtakes(e)
<1>1. curenv # NoEnv /\ st[curenv] = "READY" => Contains(env_ready_queue, curenv)
  BY DEF IInv, QueueInv, CpuInv, Describe
<1> QED
  BY <1>1, SchedulerFair DEF Panic

\* No step overtakes anybody.
LEMMA StepFair ==
    ASSUME IInv, Next, NEW e \in Envs \ {curenv'}
    PROVE  ~Overtakes(e)
<1>1. CASE AtPrompt
  <2>1. ~Contains(env_ready_queue, e)
    BY <1>1, NobodyThere DEF IInv, CpuInv, PromptOnlyWhenIdle
  <2> QED
    BY <2>1 DEF Overtakes
<1>2. CASE Load /\ ~AtPrompt
  BY <1>2, QueueStays DEF Load, Resume, Return, InUser, AtPrompt
<1>3. CASE LoadPanics
  <2>1. PICK g : g = Head(env_free_list)
    OBVIOUS
  <2>2. g \in Envs
    BY <1>3, <2>1, TakesEntry DEF LoadPanics
  <2>3. PICK st : Panic(st) /\ st \in {[status EXCEPT ![g] = "UNKNOWN"], [status EXCEPT ![g] = "NEW"]}
    BY <1>3, <2>1 DEF LoadPanics
  <2>4. \A h \in Envs : st[h] = "READY" => status[h] = "READY"
    BY <2>2, <2>3 DEF IInv, QueueInv, Describe
  <2> QED
    BY <2>3, <2>4, PanicFair
<1>4. CASE RunProgram \/ RunAll \/ KillAll
  BY <1>1, <1>4 DEF RunProgram, RunAll, KillAll
<1>5. ASSUME NEW g \in Envs, Kill(g), ~AtPrompt PROVE ~Overtakes(e)
  <2>1. mode' = "return"
    BY <1>5 DEF Kill, Resume, Return
  <2>2. CASE UNCHANGED <<env_ready_queue, sched_next>>
    BY <2>1, <2>2, QueueStays DEF InUser
  <2>3. CASE Contains(env_ready_queue, g) /\ SetReady(Removed(Ready, g))
    <3> SUFFICES ASSUME Contains(env_ready_queue, e), Contains(env_ready_queue', e)
                 PROVE  Ahead(e)' <= Ahead(e)
      BY <2>1 DEF Overtakes, InUser
    <3>1. PICK r, s : r = Ready /\ s = Removed(r, g)
      OBVIOUS
    <3>2. r \in ReadyQueues /\ Contains(r.q, g) /\ Contains(r.q, e)
      BY <2>3, <3>1 DEF IInv, QueueInv, Ready
    <3>3. s \in ReadyQueues /\ \A h : Contains(s.q, h) <=> Contains(r.q, h) /\ h # g
      BY <3>1, <3>2, RemovedFacts
    <3>4. env_ready_queue' = s.q /\ sched_next' = s.next
      BY <2>3, <3>1 DEF SetReady
    <3>5. Before(s, e) <= Before(r, e)
      BY <3>1, <3>2, <3>3, <3>4, LeavingHelps
    <3>6. Ahead(e) = Before(r, e) /\ Ahead(e)' = Before(s, e)
      BY <3>1, <3>4 DEF Ahead, Before, Ready
    <3> QED
      BY <3>5, <3>6
  <2> QED
    BY <1>5, <2>2, <2>3 DEF Kill
<1>6. ASSUME NEW g \in Envs, SysRunEnv(g) PROVE ~Overtakes(e)
  <2> SUFFICES ASSUME Contains(env_ready_queue, e), Contains(env_ready_queue', e)
               PROVE  Ahead(e)' <= Ahead(e)
    BY <1>6 DEF Overtakes, InUser, SysRunEnv, Return
  <2>1. PICK r, s : r = Ready /\ s = Inserted(r, g)
    OBVIOUS
  <2>2. r \in ReadyQueues /\ ~Contains(r.q, g) /\ Contains(r.q, e)
    BY <1>6, <2>1 DEF SysRunEnv, IInv, QueueInv, Describe, Ready
  <2>3. env_ready_queue' = s.q /\ sched_next' = s.next
    BY <1>6, <2>1 DEF SysRunEnv, SetReady
  <2>4. Before(s, e) = Before(r, e) /\ Before(r, e) \in Int
    BY <2>1, <2>2, NewcomerLast, Places
  <2>5. Ahead(e) = Before(r, e) /\ Ahead(e)' = Before(s, e)
    BY <2>1, <2>3 DEF Ahead, Before, Ready
  <2> QED
    BY <2>4, <2>5
<1>7. CASE EnvExit
  BY <1>7, PanicFair DEF EnvExit
<1>8. CASE OtherTrap \/ DisableInterrupt \/ EnableInterrupt
  BY <1>8, QueueStays DEF OtherTrap, DisableInterrupt, EnableInterrupt, Return, InUser, queues
<1>9. CASE ClockInterrupt
  BY <1>9, SchedulerFair DEF ClockInterrupt
<1>10. CASE TrapReturn
  <2>1. CASE mode' = "user" /\ UNCHANGED <<queues, sched_next>>
    BY <1>10, <2>1, QueueStays DEF TrapReturn, InUser, queues
  <2>2. CASE Panic(status)
    BY <2>2, PanicFair
  <2> QED
    BY <1>10, <2>1, <2>2 DEF TrapReturn
<1> QED
  BY <1>1, <1>2, <1>3, <1>4, <1>5, <1>6, <1>7, <1>8, <1>9, <1>10 DEF Next

\* Whatever is created, run, killed or exits, an environment that waits never
\* gets more environments ahead of it, and one fewer each time the processor
\* changes hands: sched_insert_ready, sched_remove_ready and fos_scheduler
\* keep the order of the round.
THEOREM RoundIsKept == Spec => NobodyOvertaken
<1> DEFINE Fair == \A e \in Envs \ {curenv'} :
              Contains(env_ready_queue, e) /\ Contains(env_ready_queue', e) =>
                 /\ Ahead(e)' <= Ahead(e)
                 /\ InUser /\ InUser' => Ahead(e)' < Ahead(e)
<1>1. IInv /\ [Next]_vars => [Fair]_vars
  <2> SUFFICES ASSUME IInv, Next PROVE Fair
    OBVIOUS
  <2> QED
    BY StepFair DEF Overtakes
<1>2. Spec => Init /\ [][Next]_vars
  BY DEF Spec
<1> QED
  BY <1>1, <1>2, InvariantHolds, PTL DEF NobodyOvertaken

=============================================================================
