-------------------------- MODULE InductionLemmas ---------------------------
(***************************************************************************)
(* Induction over the naturals in the form the proofs of this project use, *)
(* with a set in place of a predicate, and what follows for machines that  *)
(* are fed a sequence of inputs one by one; and what removing from or      *)
(* inserting into a sequence does.                                         *)
(***************************************************************************)
EXTENDS Integers, Sequences, SequencesExt, TLAPS, WellFoundedInduction, SequenceTheorems

\* A set of naturals has a least element.
LEMMA LeastElement ==
    ASSUME NEW T, T \subseteq Nat, T # {}
    PROVE  \E x \in T : \A y \in T : x <= y
<1> DEFINE Less == {ss \in Nat \X Nat : ss[1] < ss[2]}
<1>1. IsWellFoundedOn(Less, Nat)
  BY NatLessThanWellFounded, Zenon DEF OpToRel
<1>2. PICK x \in T : \A y \in T : <<y, x>> \notin Less
  BY <1>1, WFMin, Zenon
<1>3. \A a, b \in Nat : a < b => <<a, b>> \in Less
  OBVIOUS
<1> HIDE DEF Less
<1>4. ASSUME NEW y \in T PROVE x <= y
  <2>1. x \in Nat /\ y \in Nat
    OBVIOUS
  <2>2. ~(y < x)
    BY <1>2, <1>3, <2>1, Zenon
  <2> QED
    BY <2>1, <2>2
<1> QED
  BY <1>4

\* A set that holds 0 and the successor of each of its members below n holds n.
LEMMA SetInduction ==
    ASSUME NEW n \in Nat, NEW S, 0 \in S, \A k \in 1 .. n : k - 1 \in S => k \in S
    PROVE  \A k \in 0 .. n : k \in S
<1> DEFINE Bad == {k \in 0 .. n : k \notin S}
<1>1. SUFFICES ASSUME Bad # {} PROVE FALSE
  BY <1>1
<1>2. Bad \subseteq Nat
  OBVIOUS
<1>3. PICK k \in Bad : \A j \in Bad : k <= j
  <2> HIDE DEF Bad
  <2> QED
    BY <1>1, <1>2, LeastElement, Zenon
<1>4. k \in 0 .. n /\ k \notin S /\ k # 0
  BY <1>3
<1>5. k \in 1 .. n /\ k - 1 \in 0 .. n /\ ~(k <= k - 1)
  BY <1>4
<1>6. k - 1 \in S
  BY <1>3, <1>5
<1> QED
  BY <1>4, <1>5, <1>6

-----------------------------------------------------------------------------
(***************************************************************************)
(* A machine with states D, inputs B and the function G from a state and   *)
(* an input to the next state.                                             *)
(***************************************************************************)
Machine(D, B, G) == G \in [D \X B -> D]

\* The states the machine goes through from d when it is fed s.
IsRun(D, G, d, s, C) ==
    /\ C \in [0 .. Len(s) -> D] /\ C[0] = d
    /\ \A i \in 1 .. Len(s) : C[i] = G[<<C[i - 1], s[i]>>]

\* There is such a run.
LEMMA RunExists ==
    ASSUME NEW D, NEW B, NEW G, Machine(D, B, G), NEW d \in D, NEW s \in Seq(B)
    PROVE  \E C : IsRun(D, G, d, s, C)
<1> DEFINE Part(C, n) == /\ C \in [0 .. n -> D] /\ C[0] = d
                         /\ \A i \in 1 .. n : C[i] = G[<<C[i - 1], s[i]>>]
           S == {n \in 0 .. Len(s) : \E C : Part(C, n)}
<1>1. Len(s) \in Nat /\ \A i \in 1 .. Len(s) : s[i] \in B
  OBVIOUS
<1>2. 0 \in S
  <2>1. PICK C : C = [i \in 0 .. 0 |-> d]
    OBVIOUS
  <2>2. Part(C, 0)
    BY <2>1
  <2> QED
    BY <1>1, <2>2
<1>3. ASSUME NEW n \in 1 .. Len(s), n - 1 \in S PROVE n \in S
  <2>1. PICK C : Part(C, n - 1)
    BY <1>3
  <2>2. PICK x : x = G[<<C[n - 1], s[n]>>]
    OBVIOUS
  <2>3. C[n - 1] \in D /\ x \in D
    <3>1. n - 1 \in 0 .. n - 1
      BY <1>1
    <3>2. C[n - 1] \in D
      BY <2>1, <3>1
    <3> QED
      BY <1>1, <2>2, <3>2 DEF Machine
  <2>4. PICK F : F = [i \in 0 .. n |-> IF i = n THEN x ELSE C[i]]
    OBVIOUS
  <2>5. F \in [0 .. n -> D]
    <3>1. \A i \in 0 .. n : i = n \/ i \in 0 .. n - 1
      BY <1>1
    <3> QED
      BY <2>1, <2>3, <2>4, <3>1
  <2>6. F[0] = d
    BY <1>1, <2>1, <2>4
  <2>7. ASSUME NEW i \in 1 .. n PROVE F[i] = G[<<F[i - 1], s[i]>>]
    <3>1. CASE i = n
      <4>1. F[n] = x /\ F[n - 1] = C[n - 1]
        BY <1>1, <2>4
      <4> QED
        BY <2>2, <3>1, <4>1, Zenon
    <3>2. CASE i # n
      <4>1. i \in 1 .. n - 1 /\ F[i] = C[i] /\ F[i - 1] = C[i - 1]
        BY <1>1, <2>4, <3>2
      <4> QED
        BY <2>1, <4>1
    <3> QED
      BY <3>1, <3>2
  <2>8. Part(F, n)
    BY <2>5, <2>6, <2>7
  <2> QED
    BY <1>1, <2>8
<1>4. \A n \in 0 .. Len(s) : n \in S
  <2> HIDE DEF S
  <2> QED
    BY <1>1, <1>2, <1>3, SetInduction
<1> QED
  BY <1>1, <1>4 DEF IsRun

\* There is only one.
LEMMA RunUnique ==
    ASSUME NEW D, NEW B, NEW G, Machine(D, B, G), NEW d \in D, NEW s \in Seq(B),
           NEW C, IsRun(D, G, d, s, C), NEW F, IsRun(D, G, d, s, F)
    PROVE  C[Len(s)] = F[Len(s)]
<1> DEFINE S == {n \in 0 .. Len(s) : C[n] = F[n]}
<1>1. Len(s) \in Nat
  OBVIOUS
<1>2. 0 \in S
  BY <1>1 DEF IsRun
<1>3. ASSUME NEW n \in 1 .. Len(s), n - 1 \in S PROVE n \in S
  <2>1. n \in 0 .. Len(s) /\ C[n - 1] = F[n - 1]
    BY <1>1, <1>3
  <2>2. C[n] = G[<<C[n - 1], s[n]>>] /\ F[n] = G[<<F[n - 1], s[n]>>]
    BY Zenon DEF IsRun
  <2> QED
    BY <2>1, <2>2
<1>4. \A n \in 0 .. Len(s) : n \in S
  <2> HIDE DEF S
  <2> QED
    BY <1>1, <1>2, <1>3, SetInduction
<1> QED
  BY <1>1, <1>4

LaterRun(s, C) == [i \in 0 .. Len(s) - 1 |-> C[i + 1]]
RunsOn(D, B, G, d, s, C) ==
    /\ G[<<d, Head(s)>>] \in D /\ Tail(s) \in Seq(B) /\ Len(Tail(s)) = Len(s) - 1
    /\ IsRun(D, G, G[<<d, Head(s)>>], Tail(s), LaterRun(s, C))

\* A run without its first state is the run on the rest of the inputs.
LEMMA RunTail ==
    ASSUME NEW D, NEW B, NEW G, Machine(D, B, G), NEW d \in D, NEW s \in Seq(B), s # <<>>,
           NEW C, IsRun(D, G, d, s, C)
    PROVE  RunsOn(D, B, G, d, s, C)
<1>1. PICK n, e, t, F :
        n = Len(s) /\ e = G[<<d, Head(s)>>] /\ t = Tail(s) /\ F = LaterRun(s, C)
  OBVIOUS
<1>2. /\ n \in Nat \ {0} /\ t \in Seq(B) /\ Len(t) = n - 1 /\ Head(s) = s[1] /\ s[1] \in B
      /\ \A i \in 1 .. n - 1 : t[i] = s[i + 1]
  BY <1>1
<1>3. e \in D
  BY <1>1, <1>2 DEF Machine
<1>4. F = [i \in 0 .. n - 1 |-> C[i + 1]]
  BY <1>1 DEF LaterRun
<1>5. F \in [0 .. n - 1 -> D]
  <2>1. \A i \in 0 .. n - 1 : i + 1 \in 0 .. n
    BY <1>2
  <2> QED
    BY <1>1, <1>4, <2>1 DEF IsRun
<1>6. F[0] = e
  <2>1. 1 \in 1 .. n /\ 0 \in 0 .. n - 1
    BY <1>2
  <2>2. F[0] = C[1]
    BY <1>4, <2>1
  <2>3. C[1] = G[<<C[1 - 1], s[1]>>] /\ C[0] = d
    BY <1>1, <2>1, Zenon DEF IsRun
  <2>4. C[1] = G[<<d, s[1]>>]
    BY <2>3
  <2> QED
    BY <1>1, <1>2, <2>2, <2>4
<1>7. ASSUME NEW i \in 1 .. n - 1 PROVE F[i] = G[<<F[i - 1], t[i]>>]
  <2>1. i + 1 \in 1 .. n /\ i \in 0 .. n - 1 /\ i - 1 \in 0 .. n - 1
    BY <1>2
  <2>2. F[i] = C[i + 1] /\ F[i - 1] = C[i]
    BY <1>2, <1>4, <2>1
  <2>3. C[i + 1] = G[<<C[i], s[i + 1]>>]
    <3>1. C[i + 1] = G[<<C[(i + 1) - 1], s[i + 1]>>]
      BY <1>1, <2>1, Zenon DEF IsRun
    <3>2. (i + 1) - 1 = i
      BY <1>2
    <3> QED
      BY <3>1, <3>2, Zenon
  <2> QED
    BY <1>2, <2>2, <2>3
<1>8. IsRun(D, G, e, t, F)
  BY <1>2, <1>5, <1>6, <1>7 DEF IsRun
<1> QED
  BY <1>1, <1>2, <1>3, <1>8 DEF RunsOn


\* f feeds a sequence to the machine.
Feeds(D, B, G, f) ==
    f = [x \in D \X Seq(B) |->
            IF x[2] = <<>> THEN x[1] ELSE f[<<G[<<x[1], Head(x[2])>>], Tail(x[2])>>]]

\* There is such a function: the last states of the runs.
LEMMA FeedExists ==
    ASSUME NEW D, NEW B, NEW G, Machine(D, B, G)
    PROVE  \E f : Feeds(D, B, G, f)
<1> DEFINE Ends(d, s, e) == \E C : IsRun(D, G, d, s, C) /\ e = C[Len(s)]
           End(d, s) == CHOOSE e : Ends(d, s, e)
<1>1. ASSUME NEW d \in D, NEW s \in Seq(B) PROVE Ends(d, s, End(d, s))
  <2>1. \E e : Ends(d, s, e)
    BY RunExists
  <2> HIDE DEF Ends
  <2> QED
    BY <2>1
<1>2. ASSUME NEW d \in D, NEW s \in Seq(B), NEW e, Ends(d, s, e) PROVE End(d, s) = e
  <2> HIDE DEF End
  <2>1. Ends(d, s, End(d, s))
    BY <1>1
  <2>2. PICK C : IsRun(D, G, d, s, C) /\ End(d, s) = C[Len(s)]
    BY <2>1
  <2>3. PICK F : IsRun(D, G, d, s, F) /\ e = F[Len(s)]
    BY <1>2
  <2>4. C[Len(s)] = F[Len(s)]
    BY <2>2, <2>3, RunUnique
  <2> QED
    BY <2>2, <2>3, <2>4
<1> HIDE DEF End
<1>3. PICK f : f = [x \in D \X Seq(B) |-> End(x[1], x[2])]
  OBVIOUS
<1>4. ASSUME NEW x \in D \X Seq(B), x[2] = <<>> PROVE End(x[1], x[2]) = x[1]
  <2>1. PICK d \in D, s \in Seq(B) : x = <<d, s>> /\ x[1] = d /\ x[2] = s
    OBVIOUS
  <2>2. PICK C : IsRun(D, G, d, s, C)
    BY RunExists
  <2>3. Len(s) = 0
    BY <1>4, <2>1
  <2>4. Ends(d, s, d)
    BY <2>2, <2>3 DEF IsRun
  <2> QED
    BY <1>2, <2>1, <2>4
<1>5. ASSUME NEW x \in D \X Seq(B), x[2] # <<>>
      PROVE  End(x[1], x[2]) = f[<<G[<<x[1], Head(x[2])>>], Tail(x[2])>>]
  <2>1. PICK d \in D, s \in Seq(B) : x = <<d, s>> /\ x[1] = d /\ x[2] = s
    OBVIOUS
  <2>2. PICK C : IsRun(D, G, d, s, C)
    BY RunExists
  <2>3. PICK e, t, F : e = G[<<d, Head(s)>>] /\ t = Tail(s) /\ F = LaterRun(s, C)
    OBVIOUS
  <2>4. e \in D /\ t \in Seq(B) /\ Len(t) = Len(s) - 1 /\ IsRun(D, G, e, t, F)
    <3>1. RunsOn(D, B, G, d, s, C)
      BY <1>5, <2>1, <2>2, RunTail
    <3> QED
      BY <2>3, <3>1 DEF RunsOn
  <2>5. F[Len(t)] = C[Len(s)]
    BY <2>3, <2>4 DEF LaterRun
  <2>6. Ends(d, s, C[Len(s)]) /\ Ends(e, t, C[Len(s)])
    BY <2>2, <2>4, <2>5
  <2>7. End(d, s) = C[Len(s)] /\ End(e, t) = C[Len(s)]
    BY <1>2, <2>4, <2>6
  <2>8. f[<<e, t>>] = End(e, t)
    BY <1>3, <2>4
  <2> QED
    BY <2>1, <2>3, <2>7, <2>8
<1>6. \A x \in D \X Seq(B) :
        End(x[1], x[2]) = IF x[2] = <<>> THEN x[1] ELSE f[<<G[<<x[1], Head(x[2])>>], Tail(x[2])>>]
  BY <1>4, <1>5
<1>7. Feeds(D, B, G, f)
  BY <1>3, <1>6, Zenon DEF Feeds
<1> QED
  BY <1>7

\* Such a function gives the last state of the run.
LEMMA FeedEnds ==
    ASSUME NEW D, NEW B, NEW G, Machine(D, B, G), NEW f, Feeds(D, B, G, f)
    PROVE  \A d \in D, s \in Seq(B) : \A C : IsRun(D, G, d, s, C) => f[<<d, s>>] = C[Len(s)]
<1> DEFINE Good(n) == \A d \in D, s \in Seq(B) : \A C :
              Len(s) = n /\ IsRun(D, G, d, s, C) => f[<<d, s>>] = C[Len(s)]
           S == {n \in Nat : Good(n)}
<1>1. ASSUME NEW d \in D, NEW s \in Seq(B)
      PROVE  f[<<d, s>>] = IF s = <<>> THEN d ELSE f[<<G[<<d, Head(s)>>], Tail(s)>>]
  <2>1. PICK x : x = <<d, s>>
    OBVIOUS
  <2>2. x \in D \X Seq(B) /\ x[1] = d /\ x[2] = s
    BY <2>1
  <2>3. f[x] = IF x[2] = <<>> THEN x[1] ELSE f[<<G[<<x[1], Head(x[2])>>], Tail(x[2])>>]
    BY <2>2, Zenon DEF Feeds
  <2> QED
    BY <2>1, <2>2, <2>3
<1>2. Good(0)
  <2> SUFFICES ASSUME NEW d \in D, NEW s \in Seq(B), NEW C, Len(s) = 0, IsRun(D, G, d, s, C)
               PROVE  f[<<d, s>>] = C[Len(s)]
    OBVIOUS
  <2>1. s = <<>> /\ C[0] = d
    BY DEF IsRun
  <2> QED
    BY <1>1, <2>1, Zenon
<1>3. ASSUME NEW n \in Nat \ {0}, Good(n - 1) PROVE Good(n)
  <2> SUFFICES ASSUME NEW d \in D, NEW s \in Seq(B), NEW C, Len(s) = n, IsRun(D, G, d, s, C)
               PROVE  f[<<d, s>>] = C[Len(s)]
    OBVIOUS
  <2>1. s # <<>>
    OBVIOUS
  <2>2. PICK e, t, F : e = G[<<d, Head(s)>>] /\ t = Tail(s) /\ F = LaterRun(s, C)
    OBVIOUS
  <2>3. e \in D /\ t \in Seq(B) /\ Len(t) = Len(s) - 1 /\ IsRun(D, G, e, t, F)
    <3>1. RunsOn(D, B, G, d, s, C)
      BY <2>1, RunTail
    <3> QED
      BY <2>2, <3>1 DEF RunsOn
  <2>4. f[<<e, t>>] = F[Len(t)]
    BY <1>3, <2>3
  <2>5. F[Len(t)] = C[Len(s)]
    BY <2>2, <2>3 DEF LaterRun
  <2> QED
    BY <1>1, <2>1, <2>2, <2>4, <2>5
<1>4. ASSUME NEW n \in Nat PROVE Good(n)
  <2> HIDE DEF Good
  <2>1. 0 \in S /\ \A k \in 1 .. n : k - 1 \in S => k \in S
    BY <1>2, <1>3
  <2>2. n \in 0 .. n
    OBVIOUS
  <2>3. n \in S
    <3> HIDE DEF S
    <3> QED
      BY <2>1, <2>2, SetInduction
  <2> QED
    BY <2>3
<1> SUFFICES ASSUME NEW d \in D, NEW s \in Seq(B), NEW C, IsRun(D, G, d, s, C)
             PROVE  f[<<d, s>>] = C[Len(s)]
  OBVIOUS
<1>5. Len(s) \in Nat
  OBVIOUS
<1> QED
  BY <1>4, <1>5


\* Two runs, one after the other.
LEMMA RunsJoin ==
    ASSUME NEW D, NEW B, NEW G, Machine(D, B, G), NEW d \in D, NEW s \in Seq(B), NEW t \in Seq(B),
           NEW C, IsRun(D, G, d, s, C), NEW F, IsRun(D, G, C[Len(s)], t, F)
    PROVE  \E H : IsRun(D, G, d, s \o t, H) /\ H[Len(s \o t)] = F[Len(t)]
<1>1. PICK m, n, q : m = Len(s) /\ n = Len(t) /\ q = s \o t
  OBVIOUS
<1>2. /\ m \in Nat /\ n \in Nat /\ Len(q) = m + n
      /\ \A i \in 1 .. m : q[i] = s[i]
      /\ \A j \in 1 .. n : q[m + j] = t[j]
  BY <1>1
<1>3. /\ C \in [0 .. m -> D] /\ C[0] = d /\ \A i \in 1 .. m : C[i] = G[<<C[i - 1], s[i]>>]
      /\ F \in [0 .. n -> D] /\ F[0] = C[m] /\ \A i \in 1 .. n : F[i] = G[<<F[i - 1], t[i]>>]
  BY <1>1, Zenon DEF IsRun
<1>4. PICK H : H = [i \in 0 .. m + n |-> IF i <= m THEN C[i] ELSE F[i - m]]
  OBVIOUS
<1>5. /\ \A i \in 0 .. m : H[i] = C[i]
      /\ \A j \in 0 .. n : H[m + j] = F[j]
  <2>1. \A i \in 0 .. m : H[i] = C[i]
    BY <1>2, <1>4
  <2>2. ASSUME NEW j \in 0 .. n PROVE H[m + j] = F[j]
    <3>1. m + j \in 0 .. m + n /\ (m + j) - m = j /\ (m + j <= m => j = 0)
      BY <1>2
    <3>2. H[m + j] = IF m + j <= m THEN C[m + j] ELSE F[(m + j) - m]
      BY <1>4, <3>1
    <3>3. CASE j = 0
      BY <1>2, <1>3, <3>2, <3>3
    <3>4. CASE j # 0
      BY <3>1, <3>2, <3>4
    <3> QED
      BY <3>3, <3>4
  <2> QED
    BY <2>1, <2>2
<1>6. H \in [0 .. m + n -> D]
  <2>1. \A i \in 0 .. m + n : (i <= m => i \in 0 .. m) /\ (~(i <= m) => i - m \in 0 .. n)
    BY <1>2
  <2> QED
    BY <1>3, <1>4, <2>1
<1>7. ASSUME NEW i \in 1 .. m + n PROVE H[i] = G[<<H[i - 1], q[i]>>]
  <2>1. CASE i <= m
    <3>1. i \in 1 .. m /\ i \in 0 .. m /\ i - 1 \in 0 .. m
      BY <1>2, <2>1
    <3>2. C[i] = G[<<C[i - 1], s[i]>>] /\ q[i] = s[i]
      BY <1>2, <1>3, <3>1, Zenon
    <3> QED
      BY <1>5, <3>1, <3>2
  <2>2. CASE ~(i <= m)
    <3>1. PICK j : j = i - m
      OBVIOUS
    <3>2. j \in 1 .. n /\ j \in 0 .. n /\ j - 1 \in 0 .. n /\ m + j = i /\ m + (j - 1) = i - 1
      BY <1>2, <2>2, <3>1
    <3>3. F[j] = G[<<F[j - 1], t[j]>>] /\ q[m + j] = t[j]
      BY <1>2, <1>3, <3>2, Zenon
    <3>4. H[m + j] = F[j] /\ H[m + (j - 1)] = F[j - 1]
      BY <1>5, <3>2
    <3> QED
      BY <3>2, <3>3, <3>4
  <2> QED
    BY <2>1, <2>2
<1>8. IsRun(D, G, d, q, H)
  BY <1>2, <1>3, <1>5, <1>6, <1>7 DEF IsRun
<1>9. H[Len(q)] = F[Len(t)]
  <2>1. n \in 0 .. n
    BY <1>2
  <2>2. H[m + n] = F[n]
    BY <1>5, <2>1, Zenon
  <2> QED
    BY <1>1, <1>2, <2>2
<1> QED
  BY <1>1, <1>8, <1>9


\* The run from d over s ends in e.
LeadsTo(D, G, d, s, e) == \E C : IsRun(D, G, d, s, C) /\ C[Len(s)] = e

\* Runs over one input and over two.
LEMMA ShortRuns ==
    ASSUME NEW D, NEW B, NEW G, Machine(D, B, G), NEW d \in D, NEW a \in B, NEW b \in B
    PROVE  /\ LeadsTo(D, G, d, <<a>>, G[<<d, a>>])
           /\ LeadsTo(D, G, d, <<a, b>>, G[<<G[<<d, a>>], b>>])
<1>1. PICK s, t : s = <<a>> /\ t = <<a, b>>
  OBVIOUS
<1>2. /\ s \in Seq(B) /\ Len(s) = 1 /\ s[1] = a
      /\ t \in Seq(B) /\ Len(t) = 2 /\ t[1] = a /\ t[2] = b
  BY <1>1
<1>3. PICK C : IsRun(D, G, d, s, C)
  BY <1>2, RunExists
<1>4. PICK F : IsRun(D, G, d, t, F)
  BY <1>2, RunExists
<1>5. C[1] = G[<<d, a>>]
  <2>1. 1 \in 1 .. Len(s) /\ 1 - 1 = 0
    BY <1>2
  <2>2. C[1] = G[<<C[1 - 1], s[1]>>] /\ C[0] = d
    BY <1>3, <2>1, Zenon DEF IsRun
  <2> QED
    BY <1>2, <2>1, <2>2, Zenon
<1>6. F[2] = G[<<G[<<d, a>>], b>>]
  <2>1. 1 \in 1 .. Len(t) /\ 1 - 1 = 0 /\ 2 \in 1 .. Len(t) /\ 2 - 1 = 1
    BY <1>2
  <2>2. F[1] = G[<<F[1 - 1], t[1]>>] /\ F[2] = G[<<F[2 - 1], t[2]>>] /\ F[0] = d
    BY <1>4, <2>1, Zenon DEF IsRun
  <2> QED
    BY <1>2, <2>1, <2>2, Zenon
<1>7. \E H : IsRun(D, G, d, s, H) /\ H[Len(s)] = G[<<d, a>>]
  BY <1>2, <1>3, <1>5
<1>8. \E H : IsRun(D, G, d, t, H) /\ H[Len(t)] = G[<<G[<<d, a>>], b>>]
  BY <1>2, <1>4, <1>6
<1> QED
  BY <1>1, <1>7, <1>8, Zenon DEF LeadsTo


\* No input changes nothing.
LEMMA EmptyRun ==
    ASSUME NEW D, NEW B, NEW G, Machine(D, B, G), NEW d \in D
    PROVE  LeadsTo(D, G, d, <<>>, d)
<1>1. PICK s : s = <<>>
  OBVIOUS
<1>2. s \in Seq(B) /\ Len(s) = 0
  BY <1>1
<1>3. PICK C : IsRun(D, G, d, s, C)
  BY <1>2, RunExists
<1>4. C[Len(s)] = d
  BY <1>2, <1>3 DEF IsRun
<1>5. LeadsTo(D, G, d, s, d)
  BY <1>3, <1>4 DEF LeadsTo
<1> QED
  BY <1>1, <1>5

\* Every sequence of inputs leads somewhere.
LEMMA LeadsSomewhere ==
    ASSUME NEW D, NEW B, NEW G, Machine(D, B, G), NEW d \in D, NEW s \in Seq(B)
    PROVE  \E e \in D : LeadsTo(D, G, d, s, e)
<1>1. PICK C : IsRun(D, G, d, s, C)
  BY RunExists
<1>2. Len(s) \in Nat /\ C \in [0 .. Len(s) -> D]
  BY <1>1 DEF IsRun
<1>3. C[Len(s)] \in D
  BY <1>2
<1>4. LeadsTo(D, G, d, s, C[Len(s)])
  BY <1>1, Zenon DEF LeadsTo
<1> QED
  BY <1>3, <1>4

\* Inputs one after the other lead from state to state.
LEMMA LeadsOn ==
    ASSUME NEW D, NEW B, NEW G, Machine(D, B, G), NEW d \in D, NEW s \in Seq(B), NEW t \in Seq(B),
           NEW e, LeadsTo(D, G, d, s, e), NEW f, LeadsTo(D, G, e, t, f)
    PROVE  LeadsTo(D, G, d, s \o t, f)
<1>1. PICK C : IsRun(D, G, d, s, C) /\ C[Len(s)] = e
  BY DEF LeadsTo
<1>2. PICK F : IsRun(D, G, C[Len(s)], t, F) /\ F[Len(t)] = f
  BY <1>1 DEF LeadsTo
<1>3. PICK H : IsRun(D, G, d, s \o t, H) /\ H[Len(s \o t)] = F[Len(t)]
  BY <1>1, <1>2, RunsJoin
<1> QED
  BY <1>2, <1>3, Zenon DEF LeadsTo

\* A function that feeds the machine gives the state that is led to.
LEMMA FeedLeads ==
    ASSUME NEW D, NEW B, NEW G, Machine(D, B, G), NEW f, Feeds(D, B, G, f),
           NEW d \in D, NEW s \in Seq(B), NEW e, LeadsTo(D, G, d, s, e)
    PROVE  f[<<d, s>>] = e
<1>1. PICK C : IsRun(D, G, d, s, C) /\ C[Len(s)] = e
  BY DEF LeadsTo
<1> QED
  BY <1>1, FeedEnds

-----------------------------------------------------------------------------
(***************************************************************************)
(* A sequence loses the element at place k, or gets e at place k.          *)
(***************************************************************************)
LEMMA RemoveAtFacts ==
    ASSUME NEW S, NEW q \in Seq(S), NEW k \in 1 .. Len(q)
    PROVE  /\ RemoveAt(q, k) \in Seq(S) /\ Len(RemoveAt(q, k)) = Len(q) - 1
           /\ \A i \in 1 .. Len(q) - 1 :
                 RemoveAt(q, k)[i] = IF i < k THEN q[i] ELSE q[i + 1]
<1>1. PICK s, t : s = SubSeq(q, 1, k - 1) /\ t = SubSeq(q, k + 1, Len(q))
  OBVIOUS
<1>2. /\ s \in Seq(S) /\ Len(s) = k - 1
      /\ \A i \in 1 .. k - 1 : s[i] = q[i]
  BY <1>1
<1>3. /\ t \in Seq(S) /\ Len(t) = Len(q) - k
      /\ \A i \in 1 .. Len(q) - k : t[i] = q[k + i]
  BY <1>1
<1>4. /\ s \o t \in Seq(S) /\ Len(s \o t) = Len(s) + Len(t)
      /\ \A i \in 1 .. Len(s) + Len(t) : (s \o t)[i] = IF i <= Len(s) THEN s[i] ELSE t[i - Len(s)]
  BY <1>2, <1>3, ConcatProperties
<1>5. Len(s) + Len(t) = Len(q) - 1 /\ Len(q) \in Nat
  BY <1>2, <1>3
<1>6. PICK w : w = s \o t
  OBVIOUS
<1>7. ASSUME NEW i \in 1 .. Len(q) - 1 PROVE w[i] = IF i < k THEN q[i] ELSE q[i + 1]
  <2>1. CASE i < k
    BY <1>2, <1>4, <1>5, <1>6, <2>1
  <2>2. CASE i >= k
    <3>1. w[i] = t[i - (k - 1)] /\ i - (k - 1) \in 1 .. Len(q) - k
      BY <1>2, <1>4, <1>5, <1>6, <2>2
    <3>2. t[i - (k - 1)] = q[k + (i - (k - 1))]
      BY <1>3, <3>1
    <3>3. k + (i - (k - 1)) = i + 1
      OBVIOUS
    <3> QED
      BY <2>2, <3>1, <3>2, <3>3
  <2> QED
    BY <2>1, <2>2
<1>8. RemoveAt(q, k) = w
  BY <1>1, <1>6 DEF RemoveAt
<1> QED
  BY <1>4, <1>5, <1>6, <1>7, <1>8

\* w is q with e as its k-th element.
Widened(q, k, e, w) ==
    /\ Len(w) = Len(q) + 1
    /\ \A i \in 1 .. Len(q) + 1 :
          /\ i < k => w[i] = q[i]
          /\ i = k => w[i] = e
          /\ i > k => w[i] = q[i - 1]

LEMMA InsertAtFacts ==
    ASSUME NEW S, NEW q \in Seq(S), NEW k \in 1 .. Len(q), NEW e \in S
    PROVE  InsertAt(q, k, e) \in Seq(S) /\ Widened(q, k, e, InsertAt(q, k, e))
<1>1. PICK s, m, t : s = SubSeq(q, 1, k - 1) /\ m = s \o <<e>> /\ t = SubSeq(q, k, Len(q))
  OBVIOUS
<1>2. /\ s \in Seq(S) /\ Len(s) = k - 1
      /\ \A i \in 1 .. k - 1 : s[i] = q[i]
  BY <1>1
<1>3. /\ t \in Seq(S) /\ Len(t) = Len(q) - k + 1
      /\ \A i \in 1 .. Len(q) - k + 1 : t[i] = q[k + i - 1]
  BY <1>1
<1>4. /\ m \in Seq(S) /\ Len(m) = k
      /\ \A i \in 1 .. k : m[i] = IF i < k THEN q[i] ELSE e
  <2>1. m = Append(s, e)
    BY <1>1, <1>2, AppendIsConcat
  <2> QED
    BY <1>2, <2>1
<1>5. /\ m \o t \in Seq(S) /\ Len(m \o t) = Len(m) + Len(t)
      /\ \A i \in 1 .. Len(m) + Len(t) : (m \o t)[i] = IF i <= Len(m) THEN m[i] ELSE t[i - Len(m)]
  BY <1>3, <1>4, ConcatProperties
<1>6. Len(m) + Len(t) = Len(q) + 1 /\ Len(q) \in Nat
  BY <1>3, <1>4
<1>7. PICK w : w = m \o t
  OBVIOUS
<1>8. ASSUME NEW i \in 1 .. Len(q) + 1
      PROVE  w[i] = IF i < k THEN q[i] ELSE IF i = k THEN e ELSE q[i - 1]
  <2>1. CASE i <= k
    BY <1>4, <1>5, <1>6, <1>7, <2>1
  <2>2. CASE i > k
    <3>1. w[i] = t[i - k] /\ i - k \in 1 .. Len(q) - k + 1
      BY <1>4, <1>5, <1>6, <1>7, <2>2
    <3>2. t[i - k] = q[k + (i - k) - 1]
      BY <1>3, <3>1
    <3>3. k + (i - k) - 1 = i - 1
      OBVIOUS
    <3> QED
      BY <2>2, <3>1, <3>2, <3>3
  <2> QED
    BY <2>1, <2>2
<1>9. InsertAt(q, k, e) = w
  BY <1>1, <1>7 DEF InsertAt
<1> QED
  BY <1>5, <1>6, <1>7, <1>8, <1>9 DEF Widened
=============================================================================
