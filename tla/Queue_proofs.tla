---------------------------- MODULE Queue_proofs ----------------------------
(***************************************************************************)
(* Proofs about Queue, for any set of environments: the links of the lists *)
(* are the sequences of the scheduler after every turn of every loop, and  *)
(* no loop leaves anybody out.  First what each macro of queue.h does to   *)
(* the links, then to the sequences they hold; then the functions of       *)
(* sched.c, and one lemma per action.                                      *)
(***************************************************************************)
EXTENDS Queue, InductionLemmas

Memories ==
    [next : [Envs -> Pointers], prev : [Envs -> Pointers], first : [Lists -> Pointers],
     last : [Lists -> Pointers], saved : [Lists -> Pointers], size : [Lists -> Int],
     sched_next : Pointers]

Layouts == [Lists -> Seq(Envs)]

\* Nobody is on two lists, or twice on one.
Apart(L) ==
    \A l, m \in Lists : \A i \in 1 .. Len(L[l]), j \in 1 .. Len(L[m]) :
        L[l][i] = L[m][j] => l = m /\ i = j

\* The memory h holds the lists L.
Linked(h, L) ==
    /\ h \in Memories /\ L \in Layouts /\ Apart(L)
    /\ \A l \in Lists : Represents(h, l, L[l])

\* L with q as list l.
With(L, l, q) == [L EXCEPT ![l] = q]

\* e is on no list.
Off(L, e) == \A l \in Lists : \A i \in 1 .. Len(L[l]) : L[l][i] # e

-----------------------------------------------------------------------------
(***************************************************************************)
(* The macros, link by link.                                               *)
(***************************************************************************)
\* A macro on list l moves neither sched_next nor any ___ptr_next, and leaves
\* the ends of the other lists alone.
Keeps(h, g, l) ==
    /\ g \in Memories /\ g.saved = h.saved /\ g.sched_next = h.sched_next
    /\ \A m \in Lists \ {l} :
          g.first[m] = h.first[m] /\ g.last[m] = h.last[m] /\ g.size[m] = h.size[m]

\* One assignment.
LEMMA NextAssigned ==
    ASSUME NEW h \in Memories, NEW e \in Envs, NEW x \in Pointers, NEW g, g = SetNext(h, e, x)
    PROVE  /\ g \in Memories /\ g.next = [h.next EXCEPT ![e] = x]
           /\ g.prev = h.prev /\ g.first = h.first /\ g.last = h.last /\ g.size = h.size
           /\ g.saved = h.saved /\ g.sched_next = h.sched_next
  BY DEF Memories, SetNext

LEMMA PrevAssigned ==
    ASSUME NEW h \in Memories, NEW e \in Envs, NEW x \in Pointers, NEW g, g = SetPrev(h, e, x)
    PROVE  /\ g \in Memories /\ g.prev = [h.prev EXCEPT ![e] = x]
           /\ g.next = h.next /\ g.first = h.first /\ g.last = h.last /\ g.size = h.size
           /\ g.saved = h.saved /\ g.sched_next = h.sched_next
  BY DEF Memories, SetPrev

LEMMA FirstAssigned ==
    ASSUME NEW h \in Memories, NEW l \in Lists, NEW x \in Pointers, NEW g, g = SetFirst(h, l, x)
    PROVE  /\ g \in Memories /\ g.first = [h.first EXCEPT ![l] = x]
           /\ g.next = h.next /\ g.prev = h.prev /\ g.last = h.last /\ g.size = h.size
           /\ g.saved = h.saved /\ g.sched_next = h.sched_next
  BY DEF Memories, SetFirst

LEMMA LastAssigned ==
    ASSUME NEW h \in Memories, NEW l \in Lists, NEW x \in Pointers, NEW g, g = SetLast(h, l, x)
    PROVE  /\ g \in Memories /\ g.last = [h.last EXCEPT ![l] = x]
           /\ g.next = h.next /\ g.prev = h.prev /\ g.first = h.first /\ g.size = h.size
           /\ g.saved = h.saved /\ g.sched_next = h.sched_next
  BY DEF Memories, SetLast

LEMMA Counted ==
    ASSUME NEW h \in Memories, NEW l \in Lists, NEW d \in Int, NEW g, g = Resized(h, l, d)
    PROVE  /\ g \in Memories /\ g.size = [h.size EXCEPT ![l] = @ + d]
           /\ g.next = h.next /\ g.prev = h.prev /\ g.first = h.first /\ g.last = h.last
           /\ g.saved = h.saved /\ g.sched_next = h.sched_next
  BY DEF Memories, Resized

LEMMA RemoveLinks ==
    ASSUME NEW h \in Memories, NEW l \in Lists, NEW e \in Envs,
           NEW g, g = LIST_REMOVE(h, l, e)
    PROVE  /\ Keeps(h, g, l) /\ g.size[l] = h.size[l] - 1
           /\ g.first[l] = IF h.prev[e] = NoEnv THEN h.next[e] ELSE h.first[l]
           /\ g.last[l] = IF h.next[e] = NoEnv THEN h.prev[e] ELSE h.last[l]
           /\ \A x \in Envs \ {e} :
                 /\ g.next[x] = IF x = h.prev[e] THEN h.next[e] ELSE h.next[x]
                 /\ g.prev[x] = IF x = h.next[e] THEN h.prev[e] ELSE h.prev[x]
<1>1. PICK n, p : n = h.next[e] /\ p = h.prev[e]
  OBVIOUS
<1>2. PICK h1, h2, h3, h4 :
        /\ h1 = IF n # NoEnv THEN SetPrev(h, n, p) ELSE SetLast(h, l, p)
        /\ h2 = IF p # NoEnv THEN SetNext(h1, p, n) ELSE SetFirst(h1, l, n)
        /\ h3 = SetNext(h2, e, NoEnv) /\ h4 = SetPrev(h3, e, NoEnv)
  OBVIOUS
<1>3. g = Resized(h4, l, -1)
  BY <1>1, <1>2 DEF LIST_REMOVE
<1>4. /\ n \in Pointers /\ p \in Pointers /\ NoEnv \in Pointers
      /\ n # NoEnv => n \in Envs
      /\ p # NoEnv => p \in Envs
  BY <1>1 DEF Memories, Pointers
<1>5. /\ h1 \in Memories /\ h1.next = h.next /\ h1.first = h.first /\ h1.size = h.size
      /\ h1.prev = IF n # NoEnv THEN [h.prev EXCEPT ![n] = p] ELSE h.prev
      /\ h1.last = IF n = NoEnv THEN [h.last EXCEPT ![l] = p] ELSE h.last
      /\ h1.saved = h.saved /\ h1.sched_next = h.sched_next
  BY <1>2, <1>4, PrevAssigned, LastAssigned
<1>6. /\ h2 \in Memories /\ h2.prev = h1.prev /\ h2.last = h1.last /\ h2.size = h1.size
      /\ h2.next = IF p # NoEnv THEN [h1.next EXCEPT ![p] = n] ELSE h1.next
      /\ h2.first = IF p = NoEnv THEN [h1.first EXCEPT ![l] = n] ELSE h1.first
      /\ h2.saved = h1.saved /\ h2.sched_next = h1.sched_next
  BY <1>2, <1>4, <1>5, NextAssigned, FirstAssigned
<1>7. /\ h3 \in Memories /\ h3.next = [h2.next EXCEPT ![e] = NoEnv] /\ h3.prev = h2.prev
      /\ h3.first = h2.first /\ h3.last = h2.last /\ h3.size = h2.size
      /\ h3.saved = h2.saved /\ h3.sched_next = h2.sched_next
  BY <1>2, <1>4, <1>6, NextAssigned
<1>8. /\ h4 \in Memories /\ h4.prev = [h3.prev EXCEPT ![e] = NoEnv] /\ h4.next = h3.next
      /\ h4.first = h3.first /\ h4.last = h3.last /\ h4.size = h3.size
      /\ h4.saved = h3.saved /\ h4.sched_next = h3.sched_next
  BY <1>2, <1>4, <1>7, PrevAssigned
<1>9. /\ g \in Memories /\ g.size = [h4.size EXCEPT ![l] = @ + (-1)] /\ g.next = h4.next
      /\ g.prev = h4.prev /\ g.first = h4.first /\ g.last = h4.last
      /\ g.saved = h4.saved /\ g.sched_next = h4.sched_next
  BY <1>3, <1>8, Counted
<1>10. /\ h.next \in [Envs -> Pointers] /\ h.prev \in [Envs -> Pointers]
       /\ h.first \in [Lists -> Pointers] /\ h.last \in [Lists -> Pointers]
       /\ h.size \in [Lists -> Int]
  BY DEF Memories
<1>11. Keeps(h, g, l) /\ g.size[l] = h.size[l] - 1
  BY <1>5, <1>6, <1>7, <1>8, <1>9, <1>10 DEF Keeps
<1>12. /\ g.first[l] = IF p = NoEnv THEN n ELSE h.first[l]
       /\ g.last[l] = IF n = NoEnv THEN p ELSE h.last[l]
  BY <1>5, <1>6, <1>7, <1>8, <1>9, <1>10
<1>13. ASSUME NEW x \in Envs \ {e}
       PROVE  /\ g.next[x] = IF x = p THEN n ELSE h.next[x]
              /\ g.prev[x] = IF x = n THEN p ELSE h.prev[x]
  BY <1>4, <1>5, <1>6, <1>7, <1>8, <1>9, <1>10, QueueAssumption
<1> QED
  BY <1>1, <1>11, <1>12, <1>13

\* e has come between p and n, which are NULL at an end of the list.
Joins(h, g, l, p, e, n) ==
    /\ Keeps(h, g, l) /\ g.size[l] = h.size[l] + 1
    /\ g.next[e] = n /\ g.prev[e] = p
    /\ g.first[l] = IF p = NoEnv THEN e ELSE h.first[l]
    /\ g.last[l] = IF n = NoEnv THEN e ELSE h.last[l]
    /\ \A x \in Envs \ {e} :
          /\ g.next[x] = IF x = p THEN e ELSE h.next[x]
          /\ g.prev[x] = IF x = n THEN e ELSE h.prev[x]

LEMMA HeadLinks ==
    ASSUME NEW h \in Memories, NEW l \in Lists, NEW e \in Envs, h.first[l] # e
    PROVE  Joins(h, LIST_INSERT_HEAD(h, l, e), l, NoEnv, e, h.first[l])
<1>1. PICK n, p, h1, h2, h3, h4, g :
        /\ n = h.first[l] /\ p = NoEnv /\ h1 = SetNext(h, e, n)
        /\ h2 = IF n # NoEnv THEN SetPrev(h1, n, e) ELSE SetLast(h1, l, e)
        /\ h3 = SetFirst(h2, l, e) /\ h4 = SetPrev(h3, e, NoEnv) /\ g = Resized(h4, l, 1)
  OBVIOUS
<1>2. /\ n \in Pointers /\ NoEnv \in Pointers /\ e \in Pointers /\ n # e /\ p = NoEnv
      /\ n # NoEnv => n \in Envs
  BY <1>1 DEF Memories, Pointers
<1>3. /\ h1 \in Memories
      /\ h1.next = [h.next EXCEPT ![e] = n]
      /\ h1.prev = h.prev /\ h1.first = h.first /\ h1.last = h.last
      /\ h1.size = h.size /\ h1.saved = h.saved /\ h1.sched_next = h.sched_next
  BY <1>1, <1>2, NextAssigned
<1>4. /\ h2 \in Memories
      /\ h2.prev = IF n # NoEnv THEN [h1.prev EXCEPT ![n] = e] ELSE h1.prev
      /\ h2.last = IF n = NoEnv THEN [h1.last EXCEPT ![l] = e] ELSE h1.last
      /\ h2.next = h1.next /\ h2.first = h1.first /\ h2.size = h1.size
      /\ h2.saved = h1.saved /\ h2.sched_next = h1.sched_next
  BY <1>1, <1>2, <1>3, PrevAssigned, LastAssigned
<1>5. /\ h3 \in Memories
      /\ h3.first = [h2.first EXCEPT ![l] = e]
      /\ h3.next = h2.next /\ h3.prev = h2.prev /\ h3.last = h2.last
      /\ h3.size = h2.size /\ h3.saved = h2.saved /\ h3.sched_next = h2.sched_next
  BY <1>1, <1>2, <1>4, FirstAssigned
<1>6. /\ h4 \in Memories
      /\ h4.prev = [h3.prev EXCEPT ![e] = NoEnv]
      /\ h4.next = h3.next /\ h4.first = h3.first /\ h4.last = h3.last
      /\ h4.size = h3.size /\ h4.saved = h3.saved /\ h4.sched_next = h3.sched_next
  BY <1>1, <1>2, <1>5, PrevAssigned
<1>7. /\ g \in Memories
      /\ g.size = [h4.size EXCEPT ![l] = @ + 1]
      /\ g.next = h4.next /\ g.prev = h4.prev /\ g.first = h4.first
      /\ g.last = h4.last /\ g.saved = h4.saved /\ g.sched_next = h4.sched_next
  BY <1>1, <1>6, Counted
<1>8. /\ h.next \in [Envs -> Pointers] /\ h.prev \in [Envs -> Pointers]
      /\ h.first \in [Lists -> Pointers] /\ h.last \in [Lists -> Pointers]
      /\ h.size \in [Lists -> Int]
  BY DEF Memories
<1>9. Keeps(h, g, l) /\ g.size[l] = h.size[l] + 1
  BY <1>3, <1>4, <1>5, <1>6, <1>7, <1>8 DEF Keeps
<1>10. /\ g.next[e] = n /\ g.prev[e] = p
       /\ g.first[l] = IF p = NoEnv THEN e ELSE h.first[l]
       /\ g.last[l] = IF n = NoEnv THEN e ELSE h.last[l]
  BY <1>2, <1>3, <1>4, <1>5, <1>6, <1>7, <1>8
<1>11. ASSUME NEW x \in Envs \ {e}
       PROVE  /\ g.next[x] = IF x = p THEN e ELSE h.next[x]
              /\ g.prev[x] = IF x = n THEN e ELSE h.prev[x]
  BY <1>2, <1>3, <1>4, <1>5, <1>6, <1>7, <1>8, QueueAssumption
<1> QED
  <2>1. g = LIST_INSERT_HEAD(h, l, e)
    BY <1>1 DEF LIST_INSERT_HEAD
  <2> QED
    BY <1>1, <1>9, <1>10, <1>11, <2>1 DEF Joins

LEMMA TailLinks ==
    ASSUME NEW h \in Memories, NEW l \in Lists, NEW e \in Envs, h.last[l] # e
    PROVE  Joins(h, LIST_INSERT_TAIL(h, l, e), l, h.last[l], e, NoEnv)
<1>1. PICK n, p, h1, h2, h3, h4, g :
        /\ n = NoEnv /\ p = h.last[l] /\ h1 = SetPrev(h, e, p)
        /\ h2 = IF p # NoEnv THEN SetNext(h1, p, e) ELSE SetFirst(h1, l, e)
        /\ h3 = SetLast(h2, l, e) /\ h4 = SetNext(h3, e, NoEnv) /\ g = Resized(h4, l, 1)
  OBVIOUS
<1>2. /\ p \in Pointers /\ NoEnv \in Pointers /\ e \in Pointers /\ p # e /\ n = NoEnv
      /\ p # NoEnv => p \in Envs
  BY <1>1 DEF Memories, Pointers
<1>3. /\ h1 \in Memories
      /\ h1.prev = [h.prev EXCEPT ![e] = p]
      /\ h1.next = h.next /\ h1.first = h.first /\ h1.last = h.last
      /\ h1.size = h.size /\ h1.saved = h.saved /\ h1.sched_next = h.sched_next
  BY <1>1, <1>2, PrevAssigned
<1>4. /\ h2 \in Memories
      /\ h2.next = IF p # NoEnv THEN [h1.next EXCEPT ![p] = e] ELSE h1.next
      /\ h2.first = IF p = NoEnv THEN [h1.first EXCEPT ![l] = e] ELSE h1.first
      /\ h2.prev = h1.prev /\ h2.last = h1.last /\ h2.size = h1.size
      /\ h2.saved = h1.saved /\ h2.sched_next = h1.sched_next
  BY <1>1, <1>2, <1>3, NextAssigned, FirstAssigned
<1>5. /\ h3 \in Memories
      /\ h3.last = [h2.last EXCEPT ![l] = e]
      /\ h3.next = h2.next /\ h3.prev = h2.prev /\ h3.first = h2.first
      /\ h3.size = h2.size /\ h3.saved = h2.saved /\ h3.sched_next = h2.sched_next
  BY <1>1, <1>2, <1>4, LastAssigned
<1>6. /\ h4 \in Memories
      /\ h4.next = [h3.next EXCEPT ![e] = NoEnv]
      /\ h4.prev = h3.prev /\ h4.first = h3.first /\ h4.last = h3.last
      /\ h4.size = h3.size /\ h4.saved = h3.saved /\ h4.sched_next = h3.sched_next
  BY <1>1, <1>2, <1>5, NextAssigned
<1>7. /\ g \in Memories
      /\ g.size = [h4.size EXCEPT ![l] = @ + 1]
      /\ g.next = h4.next /\ g.prev = h4.prev /\ g.first = h4.first
      /\ g.last = h4.last /\ g.saved = h4.saved /\ g.sched_next = h4.sched_next
  BY <1>1, <1>6, Counted
<1>8. /\ h.next \in [Envs -> Pointers] /\ h.prev \in [Envs -> Pointers]
      /\ h.first \in [Lists -> Pointers] /\ h.last \in [Lists -> Pointers]
      /\ h.size \in [Lists -> Int]
  BY DEF Memories
<1>9. Keeps(h, g, l) /\ g.size[l] = h.size[l] + 1
  BY <1>3, <1>4, <1>5, <1>6, <1>7, <1>8 DEF Keeps
<1>10. /\ g.next[e] = n /\ g.prev[e] = p
       /\ g.first[l] = IF p = NoEnv THEN e ELSE h.first[l]
       /\ g.last[l] = IF n = NoEnv THEN e ELSE h.last[l]
  BY <1>2, <1>3, <1>4, <1>5, <1>6, <1>7, <1>8
<1>11. ASSUME NEW x \in Envs \ {e}
       PROVE  /\ g.next[x] = IF x = p THEN e ELSE h.next[x]
              /\ g.prev[x] = IF x = n THEN e ELSE h.prev[x]
  BY <1>2, <1>3, <1>4, <1>5, <1>6, <1>7, <1>8, QueueAssumption
<1> QED
  <2>1. g = LIST_INSERT_TAIL(h, l, e)
    BY <1>1 DEF LIST_INSERT_TAIL
  <2> QED
    BY <1>1, <1>9, <1>10, <1>11, <2>1 DEF Joins

LEMMA BeforeLinks ==
    ASSUME NEW h \in Memories, NEW l \in Lists, NEW e \in Envs, NEW x \in Envs,
           x # e, h.prev[x] # e, h.prev[x] # x
    PROVE  Joins(h, LIST_INSERT_BEFORE(h, l, x, e), l, h.prev[x], e, x)
<1>1. PICK n, p, h0, h1, h2, h3, g :
        /\ n = x /\ p = h.prev[x] /\ h0 = SetPrev(h, e, p) /\ h1 = SetNext(h0, e, n)
        /\ h2 = IF p # NoEnv THEN SetNext(h1, p, e) ELSE SetFirst(h1, l, e)
        /\ h3 = SetPrev(h2, n, e) /\ g = Resized(h3, l, 1)
  OBVIOUS
<1>2. /\ p \in Pointers /\ n \in Pointers /\ e \in Pointers /\ p # e /\ n # e /\ n \in Envs
      /\ p # n /\ n # NoEnv
      /\ p # NoEnv => p \in Envs
  BY <1>1, QueueAssumption DEF Memories, Pointers
<1>3. /\ h0 \in Memories
      /\ h0.prev = [h.prev EXCEPT ![e] = p]
      /\ h0.next = h.next /\ h0.first = h.first /\ h0.last = h.last
      /\ h0.size = h.size /\ h0.saved = h.saved /\ h0.sched_next = h.sched_next
  BY <1>1, <1>2, PrevAssigned
<1>4. /\ h1 \in Memories
      /\ h1.next = [h0.next EXCEPT ![e] = n]
      /\ h1.prev = h0.prev /\ h1.first = h0.first /\ h1.last = h0.last
      /\ h1.size = h0.size /\ h1.saved = h0.saved /\ h1.sched_next = h0.sched_next
  BY <1>1, <1>2, <1>3, NextAssigned
<1>5. /\ h2 \in Memories
      /\ h2.next = IF p # NoEnv THEN [h1.next EXCEPT ![p] = e] ELSE h1.next
      /\ h2.first = IF p = NoEnv THEN [h1.first EXCEPT ![l] = e] ELSE h1.first
      /\ h2.prev = h1.prev /\ h2.last = h1.last /\ h2.size = h1.size
      /\ h2.saved = h1.saved /\ h2.sched_next = h1.sched_next
  <2>1. CASE p # NoEnv
    <3>1. h2 = SetNext(h1, p, e) /\ p \in Envs /\ e \in Pointers
      BY <1>1, <1>2, <2>1
    <3> QED
      BY <1>4, <2>1, <3>1, NextAssigned
  <2>2. CASE p = NoEnv
    BY <1>1, <1>2, <1>4, <2>2, FirstAssigned
  <2> QED
    BY <2>1, <2>2
<1>6. /\ h3 \in Memories
      /\ h3.prev = [h2.prev EXCEPT ![n] = e]
      /\ h3.next = h2.next /\ h3.first = h2.first /\ h3.last = h2.last
      /\ h3.size = h2.size /\ h3.saved = h2.saved /\ h3.sched_next = h2.sched_next
  BY <1>1, <1>2, <1>5, PrevAssigned
<1>7. /\ g \in Memories
      /\ g.size = [h3.size EXCEPT ![l] = @ + 1]
      /\ g.next = h3.next /\ g.prev = h3.prev /\ g.first = h3.first
      /\ g.last = h3.last /\ g.saved = h3.saved /\ g.sched_next = h3.sched_next
  BY <1>1, <1>6, Counted
<1>8. /\ h.next \in [Envs -> Pointers] /\ h.prev \in [Envs -> Pointers]
      /\ h.first \in [Lists -> Pointers] /\ h.last \in [Lists -> Pointers]
      /\ h.size \in [Lists -> Int]
  BY DEF Memories
<1>9. Keeps(h, g, l) /\ g.size[l] = h.size[l] + 1
  BY <1>3, <1>4, <1>5, <1>6, <1>7, <1>8 DEF Keeps
<1>10. /\ g.next[e] = n /\ g.prev[e] = p
       /\ g.first[l] = IF p = NoEnv THEN e ELSE h.first[l]
       /\ g.last[l] = IF n = NoEnv THEN e ELSE h.last[l]
  BY <1>2, <1>3, <1>4, <1>5, <1>6, <1>7, <1>8
<1>11. ASSUME NEW y \in Envs \ {e}
       PROVE  /\ g.next[y] = IF y = p THEN e ELSE h.next[y]
              /\ g.prev[y] = IF y = n THEN e ELSE h.prev[y]
  BY <1>2, <1>3, <1>4, <1>5, <1>6, <1>7, <1>8, QueueAssumption
<1> QED
  <2>1. g = LIST_INSERT_BEFORE(h, l, x, e)
    BY <1>1 DEF LIST_INSERT_BEFORE
  <2> QED
    BY <1>1, <1>9, <1>10, <1>11, <2>1 DEF Joins

-----------------------------------------------------------------------------
(***************************************************************************)
(* The macros, list by list.                                               *)
(***************************************************************************)
\* M is L without the k-th element of list l.
Taken(L, l, k, M) ==
    /\ M \in Layouts /\ \A m \in Lists \ {l} : M[m] = L[m]
    /\ Len(M[l]) = Len(L[l]) - 1
    /\ \A i \in 1 .. Len(L[l]) - 1 : M[l][i] = IF i < k THEN L[l][i] ELSE L[l][i + 1]

\* M is L with e as the k-th element of list l.
Placed(L, l, k, e, M) ==
    /\ M \in Layouts /\ \A m \in Lists \ {l} : M[m] = L[m]
    /\ Len(M[l]) = Len(L[l]) + 1
    /\ \A i \in 1 .. Len(L[l]) + 1 :
          /\ i < k => M[l][i] = L[l][i]
          /\ i = k => M[l][i] = e
          /\ i > k => M[l][i] = L[l][i - 1]

\* What the sequences hold are environments, and their ends are NULL.
LEMMA AtFacts ==
    ASSUME NEW q \in Seq(Envs)
    PROVE  /\ \A i \in 1 .. Len(q) : At(q, i) = q[i] /\ q[i] \in Envs /\ q[i] # NoEnv
           /\ \A i \in Int : i \notin 1 .. Len(q) => At(q, i) = NoEnv
           /\ \A i \in Int : At(q, i) \in Pointers
           /\ Len(q) \in Nat
  BY QueueAssumption DEF At, Pointers

LEMMA AtTaken ==
    ASSUME NEW q \in Seq(Envs), NEW w, NEW k \in 1 .. Len(q), Len(w) = Len(q) - 1,
           \A i \in 1 .. Len(q) - 1 : w[i] = IF i < k THEN q[i] ELSE q[i + 1]
    PROVE  \A i \in Int : At(w, i) = IF i < k THEN At(q, i) ELSE At(q, i + 1)
<1>1. Len(q) \in Nat
  OBVIOUS
<1> QED
  BY <1>1 DEF At

\* Taking an element off keeps everybody in one place, and him in none.
LEMMA TakenApart ==
    ASSUME NEW L \in Layouts, Apart(L), NEW l \in Lists, NEW k \in 1 .. Len(L[l]),
           NEW M, Taken(L, l, k, M)
    PROVE  Apart(M) /\ Off(M, L[l][k])
<1>1. \A m \in Lists : L[m] \in Seq(Envs) /\ Len(L[m]) \in Nat
  BY DEF Layouts
<1>2. ASSUME NEW m \in Lists, NEW i \in 1 .. Len(M[m])
      PROVE  \E r \in 1 .. Len(L[m]) :
                /\ M[m][i] = L[m][r]
                /\ r = IF m = l /\ i >= k THEN i + 1 ELSE i
  <2>1. CASE m = l
    <3>1. PICK q, w : q = L[l] /\ w = M[l]
      OBVIOUS
    <3>2. /\ Len(w) = Len(q) - 1 /\ Len(q) \in Nat /\ k \in 1 .. Len(q) /\ i \in 1 .. Len(w)
          /\ \A j \in 1 .. Len(q) - 1 : w[j] = IF j < k THEN q[j] ELSE q[j + 1]
      BY <1>1, <2>1, <3>1 DEF Taken
    <3>3. \E r \in 1 .. Len(q) : w[i] = q[r] /\ r = IF i >= k THEN i + 1 ELSE i
      BY <3>2
    <3> QED
      BY <2>1, <3>1, <3>3
  <2>2. CASE m # l
    <3>1. M[m] = L[m]
      BY <2>2 DEF Taken
    <3> QED
      BY <2>2, <3>1
  <2> QED
    BY <2>1, <2>2
<1>3. ASSUME NEW m \in Lists, NEW n \in Lists, NEW i \in 1 .. Len(M[m]), NEW j \in 1 .. Len(M[n]),
             M[m][i] = M[n][j]
      PROVE  m = n /\ i = j
  <2>1. PICK r \in 1 .. Len(L[m]) :
           M[m][i] = L[m][r] /\ r = IF m = l /\ i >= k THEN i + 1 ELSE i
    BY <1>2
  <2>2. PICK s \in 1 .. Len(L[n]) :
           M[n][j] = L[n][s] /\ s = IF n = l /\ j >= k THEN j + 1 ELSE j
    BY <1>2
  <2>3. L[m][r] = L[n][s]
    BY <1>3, <2>1, <2>2
  <2>4. m = n /\ r = s
    <3>1. \A x \in 1 .. Len(L[m]), y \in 1 .. Len(L[n]) : L[m][x] = L[n][y] => m = n /\ x = y
      BY DEF Apart
    <3> QED
      BY <2>3, <3>1
  <2>5. i \in Int /\ j \in Int /\ k \in Int
    BY <1>1
  <2> QED
    BY <2>1, <2>2, <2>4, <2>5
<1>4. ASSUME NEW m \in Lists, NEW i \in 1 .. Len(M[m]) PROVE M[m][i] # L[l][k]
  <2>1. PICK r \in 1 .. Len(L[m]) :
           M[m][i] = L[m][r] /\ r = IF m = l /\ i >= k THEN i + 1 ELSE i
    BY <1>2
  <2>2. m = l => r # k
    BY <1>1, <2>1
  <2> QED
    BY <2>1, <2>2 DEF Apart
<1> QED
  BY <1>3, <1>4 DEF Apart, Off

LEMMA RemoveLists ==
    ASSUME NEW h, NEW L, Linked(h, L), NEW l \in Lists, NEW k \in 1 .. Len(L[l]),
           NEW e, e = L[l][k], NEW g, g = LIST_REMOVE(h, l, e), NEW M, Taken(L, l, k, M)
    PROVE  Linked(g, M) /\ Off(M, e) /\ Keeps(h, g, l)
<1>0. PICK q, w : q = L[l] /\ w = M[l]
  OBVIOUS
<1>1. /\ h \in Memories /\ L \in Layouts /\ Apart(L)
      /\ \A m \in Lists : Represents(h, m, L[m])
  BY DEF Linked
<1>2. \A m \in Lists : L[m] \in Seq(Envs) /\ M[m] \in Seq(Envs)
  BY <1>1 DEF Layouts, Taken
<1>3. q \in Seq(Envs) /\ w \in Seq(Envs) /\ Len(q) \in Nat /\ e \in Envs /\ k \in 1 .. Len(q) /\ e = q[k]
  BY <1>0, <1>2
<1>4. h.next[e] = At(q, k + 1) /\ h.prev[e] = At(q, k - 1)
  BY <1>0, <1>1 DEF Represents
<1>5. /\ Keeps(h, g, l) /\ g.size[l] = h.size[l] - 1
      /\ g.first[l] = IF h.prev[e] = NoEnv THEN h.next[e] ELSE h.first[l]
      /\ g.last[l] = IF h.next[e] = NoEnv THEN h.prev[e] ELSE h.last[l]
      /\ \A x \in Envs \ {e} :
            /\ g.next[x] = IF x = h.prev[e] THEN h.next[e] ELSE h.next[x]
            /\ g.prev[x] = IF x = h.next[e] THEN h.prev[e] ELSE h.prev[x]
  BY <1>1, <1>3, RemoveLinks
<1>6. Apart(M) /\ Off(M, e)
  BY <1>1, TakenApart
<1>7. \A i \in 1 .. Len(q), j \in 1 .. Len(q) : q[i] = q[j] => i = j
  BY <1>0, <1>1 DEF Apart
<1>8. ASSUME NEW m \in Lists, m # l PROVE Represents(g, m, M[m])
  <2>1. M[m] = L[m] /\ Represents(h, m, L[m])
    BY <1>1, <1>8 DEF Taken
  <2>2. ASSUME NEW i \in 1 .. Len(L[m])
        PROVE  L[m][i] \in Envs \ {e} /\ L[m][i] # h.prev[e] /\ L[m][i] # h.next[e]
    <3>1. L[m][i] \in Envs /\ L[m][i] # NoEnv
      BY <1>2, AtFacts
    <3>2. \A j \in 1 .. Len(q) : L[m][i] # q[j]
      BY <1>0, <1>1, <1>8 DEF Apart
    <3> QED
      BY <1>3, <1>4, <3>1, <3>2 DEF At
  <2>3. g.first[m] = h.first[m] /\ g.last[m] = h.last[m] /\ g.size[m] = h.size[m]
    BY <1>5, <1>8 DEF Keeps
  <2>4. PICK x : x = L[m]
    OBVIOUS
  <2>5. ASSUME NEW i \in 1 .. Len(x)
        PROVE  g.next[x[i]] = At(x, i + 1) /\ g.prev[x[i]] = At(x, i - 1)
    <3>1. x[i] \in Envs \ {e} /\ x[i] # h.prev[e] /\ x[i] # h.next[e]
      BY <2>2, <2>4
    <3>2. h.next[x[i]] = At(x, i + 1) /\ h.prev[x[i]] = At(x, i - 1)
      BY <2>1, <2>4 DEF Represents
    <3> QED
      BY <1>5, <3>1, <3>2
  <2> QED
    BY <2>1, <2>3, <2>4, <2>5 DEF Represents
<1>9. Represents(g, l, w)
  <2>1. /\ h.size[l] = Len(q) /\ h.first[l] = At(q, 1) /\ h.last[l] = At(q, Len(q))
        /\ \A i \in 1 .. Len(q) : h.next[q[i]] = At(q, i + 1) /\ h.prev[q[i]] = At(q, i - 1)
    BY <1>0, <1>1 DEF Represents
  <2>2. /\ Len(w) = Len(q) - 1
        /\ \A i \in 1 .. Len(q) - 1 : w[i] = IF i < k THEN q[i] ELSE q[i + 1]
    BY <1>0 DEF Taken
  <2>3. \A i \in Int : At(w, i) = IF i < k THEN At(q, i) ELSE At(q, i + 1)
    BY <1>3, <2>2, AtTaken
  <2>4. \A i \in 1 .. Len(q) : At(q, i) = q[i] /\ q[i] \in Envs /\ q[i] # NoEnv
    BY <1>3, AtFacts
  <2>5. \A i \in Int : i \notin 1 .. Len(q) => At(q, i) = NoEnv
    BY <1>3, AtFacts
  <2>6. g.size[l] = Len(w)
    BY <1>5, <2>1, <2>2
  <2>7. g.first[l] = At(w, 1)
    <3>1. CASE k = 1
      BY <1>3, <1>4, <1>5, <2>3, <2>5, <3>1
    <3>2. CASE k > 1
      <4>1. h.prev[e] # NoEnv
        BY <1>3, <1>4, <2>4, <3>2
      <4>2. At(w, 1) = At(q, 1)
        BY <1>3, <2>3, <3>2
      <4> QED
        BY <1>5, <2>1, <4>1, <4>2
    <3> QED
      BY <1>3, <3>1, <3>2
  <2>8. g.last[l] = At(w, Len(w))
    <3>1. CASE k = Len(q)
      BY <1>3, <1>4, <1>5, <2>2, <2>3, <2>5, <3>1
    <3>2. CASE k < Len(q)
      <4>1. h.next[e] # NoEnv
        BY <1>3, <1>4, <2>4, <3>2
      <4>2. At(w, Len(w)) = At(q, Len(q))
        BY <1>3, <2>2, <2>3, <3>2
      <4> QED
        BY <1>5, <2>1, <4>1, <4>2
    <3> QED
      BY <1>3, <3>1, <3>2
  <2>9. ASSUME NEW i \in 1 .. Len(w)
        PROVE  g.next[w[i]] = At(w, i + 1) /\ g.prev[w[i]] = At(w, i - 1)
    <3>1. PICK r \in 1 .. Len(q) : w[i] = q[r] /\ r = IF i < k THEN i ELSE i + 1
      BY <1>3, <2>2
    <3>2. q[r] \in Envs \ {e} /\ r # k
      BY <1>3, <1>7, <2>2, <2>4, <3>1
    <3>3. g.next[q[r]] = IF r = k - 1 THEN At(q, k + 1) ELSE At(q, r + 1)
      <4>1. CASE r = k - 1
        <5>1. q[r] = h.prev[e]
          BY <1>3, <1>4, <2>4, <4>1
        <5> QED
          BY <1>4, <1>5, <3>2, <4>1, <5>1
      <4>2. CASE r # k - 1
        <5>1. q[r] # h.prev[e]
          <6>1. CASE k = 1
            BY <1>3, <1>4, <2>4, <2>5, <6>1
          <6>2. CASE k > 1
            BY <1>3, <1>4, <1>7, <2>4, <4>2, <6>2
          <6> QED
            BY <1>3, <6>1, <6>2
        <5> QED
          BY <1>5, <2>1, <3>2, <4>2, <5>1
      <4> QED
        BY <4>1, <4>2
    <3>4. g.prev[q[r]] = IF r = k + 1 THEN At(q, k - 1) ELSE At(q, r - 1)
      <4>1. CASE r = k + 1
        <5>1. q[r] = h.next[e]
          BY <1>3, <1>4, <2>4, <4>1
        <5> QED
          BY <1>4, <1>5, <3>2, <4>1, <5>1
      <4>2. CASE r # k + 1
        <5>1. q[r] # h.next[e]
          <6>1. CASE k = Len(q)
            BY <1>3, <1>4, <2>4, <2>5, <6>1
          <6>2. CASE k < Len(q)
            BY <1>3, <1>4, <1>7, <2>4, <4>2, <6>2
          <6> QED
            BY <1>3, <6>1, <6>2
        <5> QED
          BY <1>5, <2>1, <3>2, <4>2, <5>1
      <4> QED
        BY <4>1, <4>2
    <3>5. k \in Int /\ i \in Int /\ r \in Int
      BY <1>3, <2>2
    <3>6. /\ At(w, i + 1) = IF i + 1 < k THEN At(q, i + 1) ELSE At(q, (i + 1) + 1)
          /\ At(w, i - 1) = IF i - 1 < k THEN At(q, i - 1) ELSE At(q, (i - 1) + 1)
      <4>1. i + 1 \in Int /\ i - 1 \in Int
        BY <3>5
      <4> QED
        BY <2>3, <4>1, Zenon
    <3>7. (i + 1) + 1 = i + 2 /\ (i - 1) + 1 = i
      BY <3>5
    <3>8. CASE i < k
      <4>1. r = i /\ (i + 1 < k <=> r # k - 1) /\ r # k + 1 /\ i - 1 < k /\ (r = k - 1 => k + 1 = i + 2)
        BY <3>1, <3>5, <3>8
      <4> QED
        BY <3>1, <3>3, <3>4, <3>6, <3>7, <4>1
    <3>9. CASE ~(i < k)
      <4>1. /\ r = i + 1 /\ r # k - 1 /\ ~(i + 1 < k) /\ r + 1 = i + 2
            /\ (i - 1 < k <=> r = k + 1) /\ (r = k + 1 => i - 1 = k - 1) /\ r - 1 = i
        BY <3>1, <3>5, <3>9
      <4> QED
        BY <3>1, <3>3, <3>4, <3>6, <3>7, <4>1
    <3> QED
      BY <3>8, <3>9
  <2> QED
    BY <2>6, <2>7, <2>8, <2>9 DEF Represents
<1> QED
  BY <1>0, <1>5, <1>6, <1>8, <1>9 DEF Linked, Keeps, Taken

\* Bringing in somebody who is on no list keeps everybody in one place.
LEMMA PlacedApart ==
    ASSUME NEW L \in Layouts, Apart(L), NEW e \in Envs, Off(L, e), NEW l \in Lists,
           NEW k \in 1 .. Len(L[l]) + 1, NEW M, Placed(L, l, k, e, M)
    PROVE  /\ Apart(M)
           /\ \A x : Off(L, x) /\ x # e => Off(M, x)
<1>1. \A m \in Lists : L[m] \in Seq(Envs) /\ Len(L[m]) \in Nat
  BY DEF Layouts
<1>2. ASSUME NEW m \in Lists, NEW i \in 1 .. Len(M[m])
      PROVE  \/ m = l /\ i = k /\ M[m][i] = e
             \/ \E r \in 1 .. Len(L[m]) :
                   /\ M[m][i] = L[m][r]
                   /\ r = IF m = l /\ i > k THEN i - 1 ELSE i
                   /\ m = l => i # k
  <2>1. CASE m = l
    <3>1. PICK q, w : q = L[l] /\ w = M[l]
      OBVIOUS
    <3>2. /\ Len(w) = Len(q) + 1 /\ Len(q) \in Nat /\ k \in 1 .. Len(q) + 1 /\ i \in 1 .. Len(w)
          /\ \A j \in 1 .. Len(q) + 1 :
                (j < k => w[j] = q[j]) /\ (j = k => w[j] = e) /\ (j > k => w[j] = q[j - 1])
      BY <1>1, <2>1, <3>1 DEF Placed
    <3>3. i = k => w[i] = e
      BY <3>2
    <3>4. i # k => \E r \in 1 .. Len(q) : w[i] = q[r] /\ r = IF i > k THEN i - 1 ELSE i
      BY <3>2
    <3> QED
      BY <2>1, <3>1, <3>3, <3>4
  <2>2. CASE m # l
    <3>1. M[m] = L[m]
      BY <2>2 DEF Placed
    <3> QED
      BY <2>2, <3>1
  <2> QED
    BY <2>1, <2>2
<1>3. ASSUME NEW m \in Lists, NEW n \in Lists, NEW i \in 1 .. Len(M[m]), NEW j \in 1 .. Len(M[n]),
             M[m][i] = M[n][j]
      PROVE  m = n /\ i = j
  <2>1. CASE M[m][i] = e
    <3>1. m = l /\ i = k
      BY <1>2, <2>1 DEF Off
    <3>2. n = l /\ j = k
      <4>1. M[n][j] = e
        BY <1>3, <2>1
      <4> QED
        BY <1>2, <4>1 DEF Off
    <3> QED
      BY <3>1, <3>2
  <2>2. CASE M[m][i] # e
    <3>1. PICK r \in 1 .. Len(L[m]) :
             /\ M[m][i] = L[m][r] /\ r = IF m = l /\ i > k THEN i - 1 ELSE i
             /\ m = l => i # k
      BY <1>2, <2>2
    <3>2. PICK s \in 1 .. Len(L[n]) :
             /\ M[n][j] = L[n][s] /\ s = IF n = l /\ j > k THEN j - 1 ELSE j
             /\ n = l => j # k
      BY <1>2, <1>3, <2>2
    <3>3. L[m][r] = L[n][s]
      BY <1>3, <3>1, <3>2
    <3>4. m = n /\ r = s
      <4>1. \A x \in 1 .. Len(L[m]), y \in 1 .. Len(L[n]) : L[m][x] = L[n][y] => m = n /\ x = y
        BY DEF Apart
      <4> QED
        BY <3>3, <4>1
    <3>5. i \in Int /\ j \in Int /\ k \in Int
      BY <1>1
    <3> QED
      BY <3>1, <3>2, <3>4, <3>5
  <2> QED
    BY <2>1, <2>2
<1>4. ASSUME NEW x, Off(L, x), x # e PROVE Off(M, x)
  BY <1>2, <1>4 DEF Off
<1> QED
  BY <1>3, <1>4 DEF Apart

LEMMA InsertLists ==
    ASSUME NEW h, NEW L, Linked(h, L), NEW l \in Lists, NEW k \in 1 .. Len(L[l]) + 1,
           NEW e \in Envs, Off(L, e), NEW g, Joins(h, g, l, At(L[l], k - 1), e, At(L[l], k)),
           NEW M, Placed(L, l, k, e, M)
    PROVE  Linked(g, M) /\ Keeps(h, g, l)
<1>0. PICK q, w : q = L[l] /\ w = M[l]
  OBVIOUS
<1>1. /\ h \in Memories /\ L \in Layouts /\ Apart(L)
      /\ \A m \in Lists : Represents(h, m, L[m])
  BY DEF Linked
<1>2. \A m \in Lists : L[m] \in Seq(Envs) /\ M[m] \in Seq(Envs)
  BY <1>1 DEF Layouts, Placed
<1>3. q \in Seq(Envs) /\ w \in Seq(Envs) /\ Len(q) \in Nat /\ k \in 1 .. Len(q) + 1
  BY <1>0, <1>2
<1>4. PICK p, n : p = At(q, k - 1) /\ n = At(q, k)
  OBVIOUS
<1>5. /\ Keeps(h, g, l) /\ g.size[l] = h.size[l] + 1
      /\ g.next[e] = n /\ g.prev[e] = p
      /\ g.first[l] = IF p = NoEnv THEN e ELSE h.first[l]
      /\ g.last[l] = IF n = NoEnv THEN e ELSE h.last[l]
      /\ \A x \in Envs \ {e} :
            /\ g.next[x] = IF x = p THEN e ELSE h.next[x]
            /\ g.prev[x] = IF x = n THEN e ELSE h.prev[x]
  BY <1>0, <1>4 DEF Joins
<1>6. Apart(M)
  BY <1>1, PlacedApart
<1>7. \A i \in 1 .. Len(q), j \in 1 .. Len(q) : q[i] = q[j] => i = j
  BY <1>0, <1>1 DEF Apart
<1>8. ASSUME NEW m \in Lists, m # l PROVE Represents(g, m, M[m])
  <2>1. PICK x : x = L[m] /\ x = M[m]
    BY <1>8 DEF Placed
  <2>2. ASSUME NEW i \in 1 .. Len(x) PROVE x[i] \in Envs \ {e} /\ x[i] # p /\ x[i] # n
    <3>1. x[i] \in Envs /\ x[i] # NoEnv
      BY <1>2, <2>1, AtFacts
    <3>2. \A j \in 1 .. Len(q) : x[i] # q[j]
      <4>1. \A r \in 1 .. Len(L[m]), j \in 1 .. Len(L[l]) : L[m][r] = L[l][j] => m = l
        BY <1>1 DEF Apart
      <4> QED
        BY <1>0, <1>8, <2>1, <4>1
    <3>3. x[i] # e
      BY <2>1 DEF Off
    <3> QED
      BY <1>3, <1>4, <3>1, <3>2, <3>3 DEF At
  <2>3. g.first[m] = h.first[m] /\ g.last[m] = h.last[m] /\ g.size[m] = h.size[m]
    BY <1>5, <1>8 DEF Keeps
  <2>4. ASSUME NEW i \in 1 .. Len(x)
        PROVE  g.next[x[i]] = At(x, i + 1) /\ g.prev[x[i]] = At(x, i - 1)
    <3>1. x[i] \in Envs \ {e} /\ x[i] # p /\ x[i] # n
      BY <2>2
    <3>2. h.next[x[i]] = At(x, i + 1) /\ h.prev[x[i]] = At(x, i - 1)
      BY <1>1, <2>1 DEF Represents
    <3> QED
      BY <1>5, <3>1, <3>2
  <2> QED
    BY <1>1, <2>1, <2>3, <2>4 DEF Represents
<1>9. Represents(g, l, w)
  <2>1. /\ h.size[l] = Len(q) /\ h.first[l] = At(q, 1) /\ h.last[l] = At(q, Len(q))
        /\ \A i \in 1 .. Len(q) : h.next[q[i]] = At(q, i + 1) /\ h.prev[q[i]] = At(q, i - 1)
    BY <1>0, <1>1 DEF Represents
  <2>2. /\ Len(w) = Len(q) + 1
        /\ \A i \in 1 .. Len(q) + 1 :
              /\ i < k => w[i] = q[i]
              /\ i = k => w[i] = e
              /\ i > k => w[i] = q[i - 1]
    BY <1>0 DEF Placed
  <2>3. \A i \in Int : At(w, i) = IF i < k THEN At(q, i) ELSE IF i = k THEN e ELSE At(q, i - 1)
    BY <1>3, <2>2 DEF At
  <2>4. \A i \in 1 .. Len(q) : At(q, i) = q[i] /\ q[i] \in Envs /\ q[i] # NoEnv
    BY <1>3, AtFacts
  <2>5. \A i \in Int : i \notin 1 .. Len(q) => At(q, i) = NoEnv
    BY <1>3, AtFacts
  <2>6. g.size[l] = Len(w)
    BY <1>5, <2>1, <2>2
  <2>7. g.first[l] = At(w, 1)
    <3>1. CASE k = 1
      BY <1>3, <1>4, <1>5, <2>3, <2>5, <3>1
    <3>2. CASE k > 1
      <4>1. p # NoEnv
        BY <1>3, <1>4, <2>4, <3>2
      <4>2. At(w, 1) = At(q, 1)
        BY <1>3, <2>3, <3>2
      <4> QED
        BY <1>5, <2>1, <4>1, <4>2
    <3> QED
      BY <1>3, <3>1, <3>2
  <2>8. g.last[l] = At(w, Len(w))
    <3>1. CASE k = Len(q) + 1
      <4>1. n = NoEnv
        BY <1>3, <1>4, <2>5, <3>1
      <4>2. At(w, Len(w)) = e
        BY <1>3, <2>2, <2>3, <3>1
      <4> QED
        BY <1>5, <4>1, <4>2
    <3>2. CASE k < Len(q) + 1
      <4>1. n # NoEnv
        BY <1>3, <1>4, <2>4, <3>2
      <4>2. At(w, Len(w)) = At(q, Len(q))
        BY <1>3, <2>2, <2>3, <3>2
      <4> QED
        BY <1>5, <2>1, <4>1, <4>2
    <3> QED
      BY <1>3, <3>1, <3>2
  <2>9. ASSUME NEW i \in 1 .. Len(w)
        PROVE  g.next[w[i]] = At(w, i + 1) /\ g.prev[w[i]] = At(w, i - 1)
    <3>1. i \in Int /\ k \in Int /\ i + 1 \in Int /\ i - 1 \in Int
      BY <1>3, <2>2
    <3>2. /\ At(w, i + 1) = IF i + 1 < k THEN At(q, i + 1)
                            ELSE IF i + 1 = k THEN e ELSE At(q, (i + 1) - 1)
          /\ At(w, i - 1) = IF i - 1 < k THEN At(q, i - 1)
                            ELSE IF i - 1 = k THEN e ELSE At(q, (i - 1) - 1)
      BY <2>3, <3>1, Zenon
    <3>3. (i + 1) - 1 = i /\ (i - 1) - 1 = i - 2
      BY <3>1
    <3>4. CASE i = k
      <4>1. w[i] = e /\ ~(i + 1 < k) /\ i + 1 # k /\ i - 1 < k
        BY <1>3, <2>2, <3>1, <3>4
      <4> QED
        BY <1>4, <1>5, <3>2, <3>3, <3>4, <4>1
    <3>5. CASE i # k
      <4>1. PICK r \in 1 .. Len(q) : w[i] = q[r] /\ r = IF i < k THEN i ELSE i - 1
        BY <1>3, <2>2, <3>5
      <4>2. q[r] \in Envs \ {e}
        BY <1>0, <2>4 DEF Off
      <4>3. q[r] = p <=> r = k - 1
        <5>1. CASE k = 1
          BY <1>3, <1>4, <2>4, <2>5, <5>1
        <5>2. CASE k > 1
          BY <1>3, <1>4, <1>7, <2>4, <5>2
        <5> QED
          BY <1>3, <5>1, <5>2
      <4>4. q[r] = n <=> r = k
        <5>1. CASE k = Len(q) + 1
          BY <1>3, <1>4, <2>4, <2>5, <5>1
        <5>2. CASE k < Len(q) + 1
          BY <1>3, <1>4, <1>7, <2>4, <5>2
        <5> QED
          BY <1>3, <5>1, <5>2
      <4>5. /\ g.next[q[r]] = IF r = k - 1 THEN e ELSE At(q, r + 1)
            /\ g.prev[q[r]] = IF r = k THEN e ELSE At(q, r - 1)
        BY <1>5, <2>1, <4>2, <4>3, <4>4
      <4>6. CASE i < k
        <5>1. r = i /\ (i + 1 = k <=> r = k - 1) /\ (i + 1 < k <=> r # k - 1) /\ r # k /\ i - 1 < k
          BY <3>1, <4>1, <4>6
        <5> QED
          BY <3>2, <3>3, <4>1, <4>5, <5>1
      <4>7. CASE ~(i < k)
        <5>1. /\ r = i - 1 /\ r # k - 1 /\ ~(i + 1 < k) /\ i + 1 # k /\ r + 1 = i
              /\ (i - 1 = k <=> r = k) /\ ~(i - 1 < k) /\ r - 1 = i - 2
          BY <3>1, <3>5, <4>1, <4>7
        <5> QED
          BY <3>2, <3>3, <4>1, <4>5, <5>1
      <4> QED
        BY <4>6, <4>7
    <3> QED
      BY <3>4, <3>5
  <2> QED
    BY <2>6, <2>7, <2>8, <2>9 DEF Represents
<1> QED
  BY <1>0, <1>5, <1>6, <1>8, <1>9 DEF Linked, Keeps, Placed

-----------------------------------------------------------------------------
(***************************************************************************)
(* The macros as the functions of sched.c use them.                        *)
(***************************************************************************)
LEMMA PositionFound ==
    ASSUME NEW q \in Seq(Envs), NEW e, Contains(q, e)
    PROVE  Position(q, e) \in 1 .. Len(q) /\ q[Position(q, e)] = e
<1> DEFINE I == {i \in 1 .. Len(q) : q[i] = e}
<1>1. I # {} /\ I \subseteq Nat
  BY DEF Contains
<1>2. PICK x \in I : \A y \in I : x <= y
  BY <1>1, LeastElement, Zenon
<1>3. Position(q, e) = Min(I)
  BY <1>1 DEF Position, SelectInSeq
<1>4. Min(I) \in I
  BY <1>2 DEF Min
<1> QED
  BY <1>3, <1>4

LEMMA ListRemove ==
    ASSUME NEW h, NEW L, Linked(h, L), NEW l \in Lists, NEW e, Contains(L[l], e),
           NEW M, M = With(L, l, Without(L[l], e))
    PROVE  /\ Linked(LIST_REMOVE(h, l, e), M) /\ Keeps(h, LIST_REMOVE(h, l, e), l)
           /\ Off(M, e) /\ e \in Envs
           /\ \A k \in 1 .. Len(L[l]) : L[l][k] = e => Taken(L, l, k, M)
<1>1. PICK q, k : q = L[l] /\ k = Position(q, e)
  OBVIOUS
<1>2. L \in [Lists -> Seq(Envs)] /\ Apart(L)
  BY DEF Linked, Layouts
<1>3. q \in Seq(Envs) /\ Contains(q, e)
  BY <1>1, <1>2
<1>4. k \in 1 .. Len(q) /\ q[k] = e
  BY <1>1, <1>3, PositionFound
<1>5. Without(q, e) = RemoveAt(q, k)
  BY <1>1, <1>3 DEF Without, RemoveFirst, Contains, Position
<1>6. /\ RemoveAt(q, k) \in Seq(Envs) /\ Len(RemoveAt(q, k)) = Len(q) - 1
      /\ \A i \in 1 .. Len(q) - 1 : RemoveAt(q, k)[i] = IF i < k THEN q[i] ELSE q[i + 1]
  BY <1>3, <1>4, RemoveAtFacts
<1>7. M[l] = RemoveAt(q, k) /\ M \in [Lists -> Seq(Envs)] /\ \A m \in Lists \ {l} : M[m] = L[m]
  BY <1>1, <1>2, <1>5, <1>6 DEF With
<1>8. Taken(L, l, k, M)
  BY <1>1, <1>6, <1>7 DEF Taken, Layouts
<1>9. \A j \in 1 .. Len(L[l]) : L[l][j] = e => j = k
  BY <1>1, <1>2, <1>4 DEF Apart
<1>10. e \in Envs
  BY <1>3, <1>4
<1>11. PICK g : g = LIST_REMOVE(h, l, e)
  OBVIOUS
<1>12. k \in 1 .. Len(L[l]) /\ e = L[l][k]
  BY <1>1, <1>4
<1>13. Linked(g, M) /\ Off(M, e) /\ Keeps(h, g, l)
  BY <1>8, <1>11, <1>12, RemoveLists
<1> QED
  BY <1>8, <1>9, <1>10, <1>11, <1>13

LEMMA ListInsertHead ==
    ASSUME NEW h, NEW L, Linked(h, L), NEW l \in Lists, NEW e \in Envs, Off(L, e),
           NEW M, M = With(L, l, <<e>> \o L[l])
    PROVE  /\ Linked(LIST_INSERT_HEAD(h, l, e), M) /\ Keeps(h, LIST_INSERT_HEAD(h, l, e), l)
           /\ Placed(L, l, 1, e, M)
<1>1. PICK q, w : q = L[l] /\ w = <<e>> \o q
  OBVIOUS
<1>2. h \in Memories /\ L \in [Lists -> Seq(Envs)] /\ Represents(h, l, q)
  BY <1>1 DEF Linked, Layouts
<1>3. q \in Seq(Envs) /\ Len(q) \in Nat
  BY <1>1, <1>2
<1>4. h.first[l] = At(q, 1) /\ At(q, 0) = NoEnv /\ At(q, 1) # e
  BY <1>1, <1>2, <1>3, QueueAssumption DEF Represents, At, Off
<1>5. Joins(h, LIST_INSERT_HEAD(h, l, e), l, At(q, 1 - 1), e, At(q, 1))
  BY <1>2, <1>4, HeadLinks
<1>6. /\ w \in Seq(Envs) /\ Len(w) = Len(q) + 1
      /\ \A i \in 1 .. Len(q) + 1 : w[i] = IF i = 1 THEN e ELSE q[i - 1]
  BY <1>1, <1>3
<1>7. M[l] = w /\ M \in [Lists -> Seq(Envs)] /\ \A m \in Lists \ {l} : M[m] = L[m]
  BY <1>1, <1>2, <1>6 DEF With
<1>8. Placed(L, l, 1, e, M)
  <2>1. \A i \in 1 .. Len(q) + 1 :
           (i < 1 => w[i] = q[i]) /\ (i = 1 => w[i] = e) /\ (i > 1 => w[i] = q[i - 1])
    BY <1>3, <1>6
  <2> QED
    BY <1>1, <1>6, <1>7, <2>1 DEF Placed, Layouts
<1>9. 1 \in 1 .. Len(L[l]) + 1 /\ Joins(h, LIST_INSERT_HEAD(h, l, e), l, At(L[l], 1 - 1), e, At(L[l], 1))
  BY <1>1, <1>3, <1>5
<1> QED
  BY <1>8, <1>9, InsertLists

LEMMA ListInsertTail ==
    ASSUME NEW h, NEW L, Linked(h, L), NEW l \in Lists, NEW e \in Envs, Off(L, e),
           NEW M, M = With(L, l, Append(L[l], e))
    PROVE  Linked(LIST_INSERT_TAIL(h, l, e), M) /\ Keeps(h, LIST_INSERT_TAIL(h, l, e), l)
<1>1. PICK q, w, k : q = L[l] /\ w = Append(q, e) /\ k = Len(q) + 1
  OBVIOUS
<1>2. h \in Memories /\ L \in [Lists -> Seq(Envs)] /\ Represents(h, l, q)
  BY <1>1 DEF Linked, Layouts
<1>3. q \in Seq(Envs) /\ Len(q) \in Nat
  BY <1>1, <1>2
<1>4. h.last[l] = At(q, k - 1) /\ At(q, k) = NoEnv /\ At(q, k - 1) # e
  BY <1>1, <1>2, <1>3, QueueAssumption DEF Represents, At, Off
<1>5. Joins(h, LIST_INSERT_TAIL(h, l, e), l, At(q, k - 1), e, At(q, k))
  BY <1>2, <1>4, TailLinks
<1>6. /\ w \in Seq(Envs) /\ Len(w) = Len(q) + 1
      /\ \A i \in 1 .. Len(q) + 1 : w[i] = IF i = k THEN e ELSE q[i]
  BY <1>1, <1>3
<1>7. M[l] = w /\ M \in [Lists -> Seq(Envs)] /\ \A m \in Lists \ {l} : M[m] = L[m]
  BY <1>1, <1>2, <1>6 DEF With
<1>8. Placed(L, l, k, e, M)
  BY <1>1, <1>3, <1>6, <1>7 DEF Placed, Layouts
<1>9. k \in 1 .. Len(L[l]) + 1 /\ Joins(h, LIST_INSERT_TAIL(h, l, e), l, At(L[l], k - 1), e, At(L[l], k))
  BY <1>1, <1>3, <1>5
<1> QED
  BY <1>8, <1>9, InsertLists

LEMMA ListInsertBefore ==
    ASSUME NEW h, NEW L, Linked(h, L), NEW l \in Lists, NEW x, Contains(L[l], x),
           NEW e \in Envs, Off(L, e), NEW M, M = With(L, l, InsertBefore(L[l], x, e))
    PROVE  /\ Linked(LIST_INSERT_BEFORE(h, l, x, e), M)
           /\ Keeps(h, LIST_INSERT_BEFORE(h, l, x, e), l)
           /\ Contains(M[l], x)
<1>1. PICK q, k, w : q = L[l] /\ k = Position(q, x) /\ w = InsertAt(q, k, e)
  OBVIOUS
<1>2. h \in Memories /\ L \in [Lists -> Seq(Envs)] /\ Represents(h, l, q) /\ Apart(L)
  BY <1>1 DEF Linked, Layouts
<1>3. q \in Seq(Envs) /\ Len(q) \in Nat /\ Contains(q, x)
  BY <1>1, <1>2
<1>4. k \in 1 .. Len(q) /\ q[k] = x
  BY <1>1, <1>3, PositionFound
<1>5. x \in Envs /\ x # e /\ At(q, k) = x
  BY <1>1, <1>3, <1>4 DEF Off, At
<1>6. \A i, j \in 1 .. Len(q) : q[i] = q[j] => i = j
  BY <1>1, <1>2 DEF Apart
<1>7. h.prev[x] = At(q, k - 1) /\ At(q, k - 1) # e /\ At(q, k - 1) # x
  <2>1. h.prev[x] = At(q, k - 1)
    BY <1>2, <1>4 DEF Represents
  <2>2. At(q, k - 1) # e
    BY <1>1, <1>3, QueueAssumption DEF At, Off
  <2>3. At(q, k - 1) # x
    BY <1>3, <1>4, <1>5, <1>6, QueueAssumption DEF At
  <2> QED
    BY <2>1, <2>2, <2>3
<1>8. Joins(h, LIST_INSERT_BEFORE(h, l, x, e), l, At(q, k - 1), e, At(q, k))
  BY <1>2, <1>5, <1>7, BeforeLinks
<1>9. /\ w \in Seq(Envs) /\ Len(w) = Len(q) + 1
      /\ \A i \in 1 .. Len(q) + 1 :
            (i < k => w[i] = q[i]) /\ (i = k => w[i] = e) /\ (i > k => w[i] = q[i - 1])
  <2>1. InsertAt(q, k, e) \in Seq(Envs) /\ Widened(q, k, e, InsertAt(q, k, e))
    BY <1>3, <1>4, InsertAtFacts
  <2> QED
    BY <1>1, <2>1 DEF Widened
<1>10. M[l] = w /\ M \in [Lists -> Seq(Envs)] /\ \A m \in Lists \ {l} : M[m] = L[m]
  BY <1>1, <1>2, <1>9 DEF InsertBefore, With
<1>11. Placed(L, l, k, e, M)
  BY <1>1, <1>3, <1>9, <1>10 DEF Placed, Layouts
<1>12. Contains(w, x)
  <2>1. k + 1 \in 1 .. Len(w) /\ w[k + 1] = x
    BY <1>3, <1>4, <1>9
  <2> QED
    BY <2>1 DEF Contains
<1>13. k \in 1 .. Len(q) + 1
  BY <1>3, <1>4
<1> QED
  BY <1>1, <1>8, <1>10, <1>11, <1>12, <1>13, InsertLists

\* Neither ___ptr_next nor sched_next is a link.
LEMMA SavedLists ==
    ASSUME NEW h, NEW L, Linked(h, L), NEW l \in Lists, NEW e \in Pointers,
           NEW g, g = Saved(h, l, e)
    PROVE  /\ Linked(g, L) /\ g.sched_next = h.sched_next
           /\ g.saved[l] = IF e = NoEnv THEN NoEnv ELSE h.next[e]
           /\ g.next = h.next /\ g.first = h.first
<1>1. PICK x : x = IF e = NoEnv THEN NoEnv ELSE h.next[e]
  OBVIOUS
<1>2. h \in Memories
  BY DEF Linked
<1>3. x \in Pointers
  BY <1>1, <1>2 DEF Memories, Pointers
<1>4. g = [h EXCEPT !.saved[l] = x]
  BY <1>1 DEF Saved
<1>5. /\ g \in Memories /\ g.saved[l] = x /\ g.sched_next = h.sched_next /\ g.next = h.next
      /\ g.prev = h.prev /\ g.first = h.first /\ g.last = h.last /\ g.size = h.size
  BY <1>2, <1>3, <1>4 DEF Memories
<1> QED
  BY <1>1, <1>5 DEF Linked, Represents

LEMMA NextSet ==
    ASSUME NEW h, NEW L, Linked(h, L), NEW x \in Pointers, NEW g, g = [h EXCEPT !.sched_next = x]
    PROVE  Linked(g, L) /\ g.sched_next = x /\ g.saved = h.saved
<1>1. h \in Memories
  BY DEF Linked
<1>2. /\ g \in Memories /\ g.saved = h.saved /\ g.sched_next = x /\ g.next = h.next
      /\ g.prev = h.prev /\ g.first = h.first /\ g.last = h.last /\ g.size = h.size
  BY <1>1 DEF Memories
<1> QED
  BY <1>2 DEF Linked, Represents

\* The links of somebody who is on no list may be cleared.
LEMMA Cleared ==
    ASSUME NEW h, NEW L, Linked(h, L), NEW e \in Envs, Off(L, e),
           NEW g, g = SetNext(SetPrev(h, e, NoEnv), e, NoEnv)
    PROVE  Linked(g, L) /\ g.sched_next = h.sched_next /\ g.saved = h.saved
<1>1. PICK f : f = SetPrev(h, e, NoEnv)
  OBVIOUS
<1>2. h \in Memories /\ NoEnv \in Pointers
  BY DEF Linked, Pointers
<1>3. /\ f \in Memories /\ f.prev = [h.prev EXCEPT ![e] = NoEnv]
      /\ f.next = h.next /\ f.first = h.first /\ f.last = h.last /\ f.size = h.size
      /\ f.saved = h.saved /\ f.sched_next = h.sched_next
  BY <1>1, <1>2, PrevAssigned
<1>4. /\ g \in Memories /\ g.next = [f.next EXCEPT ![e] = NoEnv]
      /\ g.prev = f.prev /\ g.first = f.first /\ g.last = f.last /\ g.size = f.size
      /\ g.saved = f.saved /\ g.sched_next = f.sched_next
  BY <1>1, <1>2, <1>3, NextAssigned
<1>5. h.next \in [Envs -> Pointers] /\ h.prev \in [Envs -> Pointers]
  BY <1>2 DEF Memories
<1>6. ASSUME NEW l \in Lists PROVE Represents(g, l, L[l])
  <2>1. PICK q : q = L[l]
    OBVIOUS
  <2>2. Represents(h, l, q) /\ q \in Seq(Envs)
    BY <2>1 DEF Linked, Layouts
  <2>3. ASSUME NEW i \in 1 .. Len(q)
        PROVE  g.next[q[i]] = At(q, i + 1) /\ g.prev[q[i]] = At(q, i - 1)
    <3>1. q[i] \in Envs /\ q[i] # e
      BY <2>1, <2>2 DEF Off
    <3>2. h.next[q[i]] = At(q, i + 1) /\ h.prev[q[i]] = At(q, i - 1)
      BY <2>2 DEF Represents
    <3> QED
      BY <1>3, <1>4, <1>5, <3>1, <3>2
  <2> QED
    BY <1>3, <1>4, <2>1, <2>2, <2>3 DEF Represents
<1> QED
  BY <1>3, <1>4, <1>6 DEF Linked

-----------------------------------------------------------------------------
(***************************************************************************)
(* The functions of sched.c.                                               *)
(***************************************************************************)
\* n is somebody on the ready queue, or NULL and the queue is empty.
Follows(L, n) ==
    /\ n \in Pointers
    /\ n = NoEnv => L["ready"] = <<>>
    /\ n # NoEnv => Contains(L["ready"], n)

\* Memory h holds the lists L, and sched_next is n.
Good(h, L, n) == Linked(h, L) /\ h.sched_next = n /\ Follows(L, n)

\* The others are still on a list that somebody leaves.
LEMMA StillThere ==
    ASSUME NEW L \in Layouts, NEW l \in Lists, NEW k \in 1 .. Len(L[l]),
           NEW M, Taken(L, l, k, M), NEW x, x # L[l][k], Contains(L[l], x)
    PROVE  Contains(M[l], x)
<1>1. PICK q, w : q = L[l] /\ w = M[l]
  OBVIOUS
<1>2. /\ q \in Seq(Envs) /\ Len(q) \in Nat /\ Len(w) = Len(q) - 1 /\ k \in 1 .. Len(q)
      /\ \A i \in 1 .. Len(q) - 1 : w[i] = IF i < k THEN q[i] ELSE q[i + 1]
  BY <1>1 DEF Layouts, Taken
<1>3. PICK j \in 1 .. Len(q) : q[j] = x
  BY <1>1 DEF Contains
<1>4. j # k
  BY <1>1, <1>3
<1>5. CASE j < k
  <2>1. j \in 1 .. Len(w) /\ w[j] = x
    BY <1>2, <1>3, <1>5
  <2> QED
    BY <1>1, <2>1 DEF Contains
<1>6. CASE j > k
  <2>1. j - 1 \in 1 .. Len(w) /\ w[j - 1] = x
    BY <1>2, <1>3, <1>6
  <2> QED
    BY <1>1, <2>1 DEF Contains
<1> QED
  BY <1>2, <1>4, <1>5, <1>6

\* sched_next_circular on the links is sched_next_circular on the sequence:
\* the one behind e, round the end.  It is e himself if he is alone.
LEMMA NextCircular ==
    ASSUME NEW h, NEW L, Linked(h, L), NEW e, Contains(L["ready"], e),
           NEW c, c = sched_next_circular(e, L["ready"])
    PROVE  /\ next_circular(h, e) = c /\ c \in Envs /\ Contains(L["ready"], c)
           /\ c = e => Len(L["ready"]) = 1
<1>1. PICK q, k : q = L["ready"] /\ k = Position(q, e)
  OBVIOUS
<1>2. /\ L \in [Lists -> Seq(Envs)] /\ "ready" \in Lists /\ Represents(h, "ready", q)
      /\ \A i, j \in 1 .. Len(q) : q[i] = q[j] => i = j
  BY <1>1 DEF Linked, Layouts, Apart, Lists
<1>3. q \in Seq(Envs) /\ Len(q) \in Nat
  BY <1>1, <1>2
<1>4. k \in 1 .. Len(q) /\ q[k] = e
  BY <1>1, <1>3, PositionFound
<1>5. h.next[e] = At(q, k + 1) /\ h.first["ready"] = At(q, 1)
  BY <1>2, <1>4 DEF Represents
<1>6. c = IF k = Len(q) THEN q[1] ELSE q[k + 1]
  BY <1>1 DEF sched_next_circular
<1>7. CASE k = Len(q)
  <2>1. At(q, k + 1) = NoEnv /\ At(q, 1) = q[1] /\ 1 \in 1 .. Len(q)
    BY <1>3, <1>4, <1>7 DEF At
  <2>2. next_circular(h, e) = c /\ c = q[1]
    BY <1>5, <1>6, <1>7, <2>1 DEF next_circular
  <2>3. c \in Envs /\ Contains(q, c)
    BY <1>3, <2>1, <2>2 DEF Contains
  <2>4. c = e => Len(q) = 1
    BY <1>2, <1>4, <1>7, <2>1, <2>2
  <2> QED
    BY <1>1, <2>2, <2>3, <2>4
<1>8. CASE k # Len(q)
  <2>1. At(q, k + 1) = q[k + 1] /\ k + 1 \in 1 .. Len(q)
    BY <1>3, <1>4, <1>8 DEF At
  <2>2. q[k + 1] \in Envs /\ q[k + 1] # NoEnv
    BY <1>3, <2>1, QueueAssumption
  <2>3. next_circular(h, e) = c /\ c = q[k + 1]
    BY <1>5, <1>6, <1>8, <2>1, <2>2 DEF next_circular
  <2>4. c # e
    BY <1>2, <1>4, <2>1, <2>3
  <2> QED
    BY <1>1, <2>1, <2>2, <2>3, <2>4 DEF Contains
<1> QED
  BY <1>7, <1>8

LEMMA RemoveReady ==
    ASSUME NEW h, NEW L, NEW n, Good(h, L, n), NEW e, Contains(L["ready"], e),
           NEW r, r = Removed([q |-> L["ready"], next |-> n], e),
           NEW M, M = With(L, "ready", Without(L["ready"], e)),
           NEW g, g = sched_remove_ready(h, e)
    PROVE  Good(g, M, r.next) /\ Off(M, e) /\ e \in Envs /\ g.saved = h.saved
<1>1. Linked(h, L) /\ h.sched_next = n /\ Follows(L, n) /\ "ready" \in Lists
  BY DEF Good, Lists
<1>2. PICK c, f :
        /\ c = sched_next_circular(e, L["ready"])
        /\ f = IF e = n THEN [h EXCEPT !.sched_next = IF c = e THEN NoEnv ELSE c] ELSE h
  OBVIOUS
<1>3. /\ next_circular(h, e) = c /\ c \in Envs /\ Contains(L["ready"], c)
      /\ c = e => Len(L["ready"]) = 1
  BY <1>1, <1>2, NextCircular
<1>4. r.next = IF n # e THEN n ELSE IF c = e THEN NoEnv ELSE c
  BY <1>2 DEF Removed
<1>5. g = LIST_REMOVE(f, "ready", e)
  BY <1>1, <1>2, <1>3 DEF sched_remove_ready
<1>6. Linked(f, L) /\ f.sched_next = r.next /\ f.saved = h.saved
  <2>1. CASE e = n
    <3>1. r.next = (IF c = e THEN NoEnv ELSE c) /\ f = [h EXCEPT !.sched_next = r.next]
      BY <1>2, <1>4, <2>1
    <3>2. r.next \in Pointers
      BY <1>3, <3>1 DEF Pointers
    <3> QED
      BY <1>1, <3>1, <3>2, NextSet
  <2>2. CASE e # n
    BY <1>1, <1>2, <1>4, <2>2
  <2> QED
    BY <2>1, <2>2
<1>7. /\ Linked(g, M) /\ Keeps(f, g, "ready") /\ Off(M, e) /\ e \in Envs
      /\ \A k \in 1 .. Len(L["ready"]) : L["ready"][k] = e => Taken(L, "ready", k, M)
  BY <1>1, <1>5, <1>6, ListRemove
<1>8. PICK k \in 1 .. Len(L["ready"]) : L["ready"][k] = e /\ Taken(L, "ready", k, M)
  BY <1>7 DEF Contains
<1>9. g.sched_next = r.next /\ g.saved = h.saved
  BY <1>6, <1>7 DEF Keeps
<1>10. ASSUME NEW x, x # e, Contains(L["ready"], x) PROVE Contains(M["ready"], x)
  <2>1. L \in Layouts
    BY <1>1 DEF Linked
  <2>2. PICK l : l = "ready"
    OBVIOUS
  <2>3. /\ l \in Lists /\ k \in 1 .. Len(L[l]) /\ Taken(L, l, k, M)
        /\ x # L[l][k] /\ Contains(L[l], x)
    BY <1>1, <1>8, <1>10, <2>2
  <2>4. Contains(M[l], x)
    BY <2>1, <2>3, StillThere
  <2> QED
    BY <2>2, <2>4
<1>11. Follows(M, r.next)
  <2>1. CASE n # e
    <3>1. n # NoEnv
      <4>1. L["ready"] # <<>>
        BY DEF Contains
      <4> QED
        BY <1>1, <4>1 DEF Follows
    <3> QED
      BY <1>1, <1>4, <1>10, <2>1, <3>1 DEF Follows
  <2>2. CASE n = e /\ c # e
    <3>1. Contains(M["ready"], c) /\ r.next = c /\ c # NoEnv
      BY <1>3, <1>4, <1>10, <2>2, QueueAssumption
    <3> QED
      BY <1>3, <3>1 DEF Follows, Pointers
  <2>3. CASE n = e /\ c = e
    <3>1. Len(M["ready"]) = 0 /\ M["ready"] \in Seq(Envs)
      BY <1>1, <1>3, <1>8, <2>3 DEF Taken, Layouts
    <3>2. M["ready"] = <<>>
      BY <3>1
    <3> QED
      BY <1>4, <2>3, <3>2 DEF Follows, Pointers
  <2> QED
    BY <2>1, <2>2, <2>3
<1> QED
  BY <1>7, <1>9, <1>11 DEF Good

LEMMA InsertReady ==
    ASSUME NEW h, NEW L, NEW n, Good(h, L, n), NEW e \in Envs, Off(L, e),
           NEW r, r = Inserted([q |-> L["ready"], next |-> n], e),
           NEW M, M = With(L, "ready", r.q),
           NEW g, g = sched_insert_ready(h, e)
    PROVE  Good(g, M, r.next) /\ g.saved = h.saved
<1>1. Linked(h, L) /\ h.sched_next = n /\ Follows(L, n) /\ "ready" \in Lists
  BY DEF Good, Lists
<1>2. L \in [Lists -> Seq(Envs)]
  BY <1>1 DEF Linked, Layouts
<1>3. CASE n = NoEnv
  <2>1. PICK f : f = LIST_INSERT_TAIL(h, "ready", e)
    OBVIOUS
  <2>2. r.q = Append(L["ready"], e) /\ r.next = e /\ g = [f EXCEPT !.sched_next = e]
    BY <1>1, <1>3, <2>1 DEF Inserted, sched_insert_ready
  <2>3. M = With(L, "ready", Append(L["ready"], e))
    BY <2>2
  <2>4. Linked(f, M) /\ Keeps(h, f, "ready")
    BY <1>1, <2>1, <2>3, ListInsertTail
  <2>5. e \in Pointers /\ e # NoEnv
    BY QueueAssumption DEF Pointers
  <2>6. Linked(g, M) /\ g.sched_next = e /\ g.saved = f.saved
    BY <2>2, <2>4, <2>5, NextSet
  <2>7. Contains(M["ready"], e)
    <3>1. PICK q, w : q = L["ready"] /\ w = Append(q, e)
      OBVIOUS
    <3>2. q \in Seq(Envs) /\ M["ready"] = w
      BY <1>1, <1>2, <2>3, <3>1 DEF With
    <3>3. Len(w) \in 1 .. Len(w) /\ w[Len(w)] = e
      BY <3>1, <3>2
    <3> QED
      BY <3>2, <3>3 DEF Contains
  <2> QED
    BY <2>2, <2>4, <2>5, <2>6, <2>7 DEF Good, Follows, Keeps
<1>4. CASE n # NoEnv
  <2>1. /\ r.q = InsertBefore(L["ready"], n, e) /\ r.next = n
        /\ g = LIST_INSERT_BEFORE(h, "ready", n, e)
    BY <1>1, <1>4 DEF Inserted, sched_insert_ready
  <2>2. M = With(L, "ready", InsertBefore(L["ready"], n, e))
    BY <2>1
  <2>3. Contains(L["ready"], n) /\ n \in Pointers
    BY <1>1, <1>4 DEF Follows
  <2>4. Linked(g, M) /\ Keeps(h, g, "ready") /\ Contains(M["ready"], n)
    <3>1. PICK l : l = "ready"
      OBVIOUS
    <3>2. l \in Lists /\ Contains(L[l], n) /\ M = With(L, l, InsertBefore(L[l], n, e))
      BY <1>1, <2>2, <2>3, <3>1
    <3>3. Linked(LIST_INSERT_BEFORE(h, l, n, e), M) /\ Keeps(h, LIST_INSERT_BEFORE(h, l, n, e), l)
      BY <1>1, <3>2, ListInsertBefore
    <3>4. Contains(M[l], n)
      BY <1>1, <3>2, ListInsertBefore
    <3> QED
      BY <2>1, <3>1, <3>3, <3>4
  <2> QED
    BY <1>1, <1>4, <2>1, <2>3, <2>4 DEF Good, Follows, Keeps
<1> QED
  BY <1>3, <1>4

\* Whatever list a function finds e on, it takes him off, and nobody else.
LEMMA RemoveAny ==
    ASSUME NEW h, NEW L, NEW n, Good(h, L, n), NEW l \in {"new", "ready", "exit"},
           NEW e, Contains(L[l], e),
           NEW M, M = With(L, l, Without(L[l], e)),
           NEW r, r = IF l = "ready" THEN Removed([q |-> L["ready"], next |-> n], e)
                                     ELSE [q |-> L["ready"], next |-> n],
           NEW g, g = RemoveFrom(h, l, e)
    PROVE  /\ Good(g, M, r.next) /\ Off(M, e) /\ e \in Envs /\ g.saved = h.saved
           /\ r = [q |-> M["ready"], next |-> r.next]
<1>1. Linked(h, L) /\ h.sched_next = n /\ Follows(L, n) /\ l \in Lists /\ "ready" \in Lists
  BY DEF Good, Lists
<1>2. L \in [Lists -> Seq(Envs)]
  BY <1>1 DEF Linked, Layouts
<1>3. CASE l = "ready"
  <2>1. /\ r = Removed([q |-> L["ready"], next |-> n], e) /\ Contains(L["ready"], e)
        /\ M = With(L, "ready", Without(L["ready"], e)) /\ g = sched_remove_ready(h, e)
    BY <1>3 DEF RemoveFrom
  <2>2. Good(g, M, r.next) /\ Off(M, e) /\ e \in Envs /\ g.saved = h.saved
    <3>1. Good(g, M, r.next)
      BY <2>1, RemoveReady
    <3>2. Off(M, e)
      BY <2>1, RemoveReady
    <3>3. e \in Envs
      BY <2>1, RemoveReady
    <3>4. g.saved = h.saved
      BY <2>1, RemoveReady
    <3> QED
      BY <3>1, <3>2, <3>3, <3>4
  <2>3. M["ready"] = Without(L["ready"], e)
    BY <1>1, <1>2, <2>1 DEF With
  <2>4. r = [q |-> M["ready"], next |-> r.next]
    BY <2>1, <2>3 DEF Removed
  <2> QED
    BY <2>2, <2>4
<1>4. CASE l # "ready"
  <2>1. g = LIST_REMOVE(h, l, e)
    BY <1>4 DEF RemoveFrom, sched_remove_new, sched_remove_exit
  <2>2. Linked(g, M) /\ Keeps(h, g, l) /\ Off(M, e) /\ e \in Envs
    <3>1. Linked(g, M)
      BY <1>1, <2>1, ListRemove
    <3>2. Keeps(h, g, l)
      BY <1>1, <2>1, ListRemove
    <3>3. Off(M, e)
      BY <1>1, <2>1, ListRemove
    <3>4. e \in Envs
      BY <1>1, <2>1, ListRemove
    <3> QED
      BY <3>1, <3>2, <3>3, <3>4
  <2>3. r = [q |-> L["ready"], next |-> n] /\ M["ready"] = L["ready"]
    BY <1>1, <1>2, <1>4 DEF With
  <2>4. r.next = n /\ Follows(M, n)
    BY <1>1, <2>3 DEF Follows
  <2> QED
    BY <1>1, <2>2, <2>3, <2>4 DEF Good, Keeps
<1> QED
  BY <1>3, <1>4

\* One turn on an element that is moved: the lists change as in Sched.
LEMMA MoveGood ==
    ASSUME NEW h, Good(h, lists, next), NEW f \in {"run", "kill", "exit"},
           NEW l \in {"new", "ready", "exit"}, NEW e, Contains(lists[l], e), Moved(f, l, e),
           NEW g, g = Body(h, f, l, e)
    PROVE  /\ Good(g, lists', next') /\ g.saved = h.saved
           /\ \/ l = "ready" /\ f = "run"
              \/ l = "exit" /\ f = "exit"
              \/ lists'[l] = Without(lists[l], e)
<1>1. PICK M, r, a :
        /\ M = With(lists, l, Without(lists[l], e))
        /\ r = IF l = "ready" THEN Removed(Round, e) ELSE Round
        /\ a = RemoveFrom(h, l, e)
  OBVIOUS
<1>2. /\ Good(a, M, r.next) /\ Off(M, e) /\ e \in Envs /\ a.saved = h.saved
      /\ r = [q |-> M["ready"], next |-> r.next]
  <2>1. Good(a, M, r.next)
    BY <1>1, RemoveAny DEF Round
  <2>2. Off(M, e)
    BY <1>1, RemoveAny DEF Round
  <2>3. e \in Envs
    BY <1>1, RemoveAny DEF Round
  <2>4. a.saved = h.saved
    BY <1>1, RemoveAny DEF Round
  <2>5. r = [q |-> M["ready"], next |-> r.next]
    BY <1>1, RemoveAny DEF Round
  <2> QED
    BY <2>1, <2>2, <2>3, <2>4, <2>5
<1>3. /\ lists \in [Lists -> Seq(Envs)] /\ M \in [Lists -> Seq(Envs)]
      /\ l \in Lists /\ "ready" \in Lists /\ "free" \in Lists /\ "exit" \in Lists
  BY <1>2 DEF Good, Linked, Layouts, Lists
<1>4. M[l] = Without(lists[l], e)
  BY <1>1, <1>3 DEF With
<1>5. CASE f = "run"
  <2>1. PICK s : s = Inserted(r, e)
    OBVIOUS
  <2>2. lists' = With(M, "ready", s.q) /\ next' = s.next
    BY <1>1, <1>5, <2>1 DEF Moved, WithRound, With
  <2>3. g = sched_insert_ready(a, e)
    BY <1>1, <1>5 DEF Body
  <2>4. s = Inserted([q |-> M["ready"], next |-> r.next], e)
    BY <1>2, <2>1
  <2>5. Good(g, lists', next') /\ g.saved = a.saved
    <3>1. Good(g, lists', next')
      BY <1>2, <2>2, <2>3, <2>4, InsertReady
    <3>2. g.saved = a.saved
      BY <1>2, <2>2, <2>3, <2>4, InsertReady
    <3> QED
      BY <3>1, <3>2
  <2>6. l = "ready" \/ lists'[l] = M[l]
    BY <1>3, <2>2 DEF With
  <2> QED
    BY <1>2, <1>4, <1>5, <2>5, <2>6
<1>6. CASE f = "kill"
  <2>1. PICK b, N : /\ b = SetNext(SetPrev(a, e, NoEnv), e, NoEnv)
                    /\ N = With(M, "free", <<e>> \o M["free"])
    OBVIOUS
  <2>2. N \in [Lists -> Seq(Envs)] /\ N["ready"] = M["ready"] /\ N[l] = M[l]
    BY <1>2, <1>3, <2>1 DEF With
  <2>3. lists' = With(N, "ready", r.q) /\ next' = r.next
    BY <1>1, <1>6, <2>1 DEF Moved, WithRound, With
  <2>4. lists' = N
    <3>1. r.q = N["ready"]
      BY <1>2, <2>2
    <3> QED
      BY <2>2, <2>3, <3>1 DEF With
  <2>5. g = LIST_INSERT_HEAD(b, "free", e)
    BY <1>1, <1>6, <2>1 DEF Body, free_environment
  <2>6. Linked(a, M) /\ a.sched_next = r.next /\ Follows(M, r.next)
    BY <1>2 DEF Good
  <2>7. Linked(b, M) /\ b.sched_next = a.sched_next /\ b.saved = a.saved
    BY <1>2, <2>1, <2>6, Cleared
  <2>8. Linked(g, N) /\ Keeps(b, g, "free")
    BY <1>2, <1>3, <2>1, <2>5, <2>7, ListInsertHead
  <2>9. Follows(N, r.next)
    BY <2>2, <2>6 DEF Follows
  <2> QED
    BY <1>2, <1>4, <2>2, <2>3, <2>4, <2>6, <2>7, <2>8, <2>9 DEF Good, Keeps
<1>7. CASE f = "exit"
  <2>1. PICK N : N = With(M, "exit", Append(M["exit"], e))
    OBVIOUS
  <2>2. N \in [Lists -> Seq(Envs)] /\ N["ready"] = M["ready"] /\ (l # "exit" => N[l] = M[l])
    BY <1>2, <1>3, <2>1 DEF With
  <2>3. lists' = With(N, "ready", r.q) /\ next' = r.next
    BY <1>1, <1>7, <2>1 DEF Moved, WithRound, With
  <2>4. lists' = N
    <3>1. r.q = N["ready"]
      BY <1>2, <2>2
    <3> QED
      BY <2>2, <2>3, <3>1 DEF With
  <2>5. g = LIST_INSERT_TAIL(a, "exit", e)
    BY <1>1, <1>7 DEF Body, sched_insert_exit
  <2>6. Linked(a, M) /\ a.sched_next = r.next /\ Follows(M, r.next)
    BY <1>2 DEF Good
  <2>7. Linked(g, N) /\ Keeps(a, g, "exit")
    BY <1>2, <1>3, <2>1, <2>5, <2>6, ListInsertTail
  <2>8. Follows(N, r.next)
    BY <2>2, <2>6 DEF Follows
  <2> QED
    BY <1>2, <1>4, <1>7, <2>2, <2>3, <2>4, <2>6, <2>7, <2>8 DEF Good, Keeps
<1> QED
  BY <1>5, <1>6, <1>7

-----------------------------------------------------------------------------
(***************************************************************************)
(* The inductive invariant.  Besides the two properties it says who is on  *)
(* no list yet, and which lists a function can be on: sched_run_all stays  *)
(* on the new queue and sched_exit_env never looks at the exit queue, so   *)
(* no loop meets again the element it has just moved.                      *)
(***************************************************************************)
Calling ==
    /\ call \in {"none", "run", "kill", "exit"}
    /\ call # "none" =>
          /\ boot = {} /\ target \in Pointers /\ on \in {"new", "ready", "exit"}
          /\ call = "run" => on = "new"
          /\ call = "exit" => on # "exit" /\ target # NoEnv

IInv ==
    /\ Good(mem, lists, next)
    /\ boot \subseteq Envs /\ \A e \in boot : Off(lists, e)
    /\ Calling
    /\ NobodyMissed

LEMMA InitInv ==
    ASSUME QueueInit PROVE IInv
<1>1. NoEnv \in Pointers /\ "ready" \in Lists
  BY DEF Pointers, Lists
<1>2. /\ mem \in Memories /\ mem.sched_next = NoEnv
      /\ \A l \in Lists : mem.size[l] = 0 /\ mem.first[l] = NoEnv /\ mem.last[l] = NoEnv
  BY <1>1 DEF QueueInit, Memories
<1>3. lists \in Layouts /\ \A l \in Lists : lists[l] = <<>> /\ Len(lists[l]) = 0
  BY DEF QueueInit, Layouts
<1>4. Apart(lists) /\ \A e \in Envs : Off(lists, e)
  BY <1>3 DEF Apart, Off
<1>5. ASSUME NEW l \in Lists PROVE Represents(mem, l, lists[l])
  BY <1>2, <1>3 DEF Represents, At
<1>6. Follows(lists, next) /\ next = NoEnv
  BY <1>1, <1>3 DEF QueueInit, Follows
<1>7. Good(mem, lists, next)
  BY <1>2, <1>3, <1>4, <1>5, <1>6 DEF Good, Linked
<1> QED
  BY <1>4, <1>7 DEF QueueInit, IInv, Calling, NobodyMissed

\* What the loops stand on.
LEMMA Standing ==
    ASSUME IInv, call # "none"
    PROVE  /\ on \in Lists /\ lists[on] \in Seq(Envs) /\ mem \in Memories
           /\ \E i \in 1 .. Len(lists[on]) + 1 :
                 /\ ptr_env = At(lists[on], i)
                 /\ target = NoEnv => i = 1
                 /\ target # NoEnv => \A j \in 1 .. i - 1 : lists[on][j] # target
                 /\ ptr_env # NoEnv =>
                       /\ i \in 1 .. Len(lists[on]) /\ ptr_env = lists[on][i] /\ ptr_env \in Envs
                       /\ Contains(lists[on], ptr_env)
                       /\ mem.next[ptr_env] = At(lists[on], i + 1)
<1>1. on \in Lists /\ Linked(mem, lists)
  BY DEF IInv, Calling, Good, Lists
<1>2. PICK q : q = lists[on]
  OBVIOUS
<1>3. q \in Seq(Envs) /\ Len(q) \in Nat /\ mem \in Memories /\ Represents(mem, on, q)
  BY <1>1, <1>2 DEF Linked, Layouts
<1>4. PICK i \in 1 .. Len(q) + 1 :
        /\ ptr_env = At(q, i)
        /\ target = NoEnv => i = 1
        /\ target # NoEnv => \A j \in 1 .. i - 1 : q[j] # target
  <2>1. 1 \in 1 .. Len(q) + 1
    BY <1>3
  <2>2. CASE target = NoEnv
    <3>1. ptr_env = At(q, 1)
      BY <1>2, <2>2 DEF IInv, NobodyMissed
    <3> QED
      BY <2>1, <2>2, <3>1
  <2>3. CASE target # NoEnv
    <3>1. \E i \in 1 .. Len(q) + 1 : ptr_env = At(q, i) /\ \A j \in 1 .. i - 1 : q[j] # target
      BY <1>2, <2>3 DEF IInv, NobodyMissed
    <3> QED
      BY <2>3, <3>1
  <2> QED
    BY <2>2, <2>3
<1>5. ASSUME ptr_env # NoEnv
      PROVE  /\ i \in 1 .. Len(q) /\ ptr_env = q[i] /\ ptr_env \in Envs /\ Contains(q, ptr_env)
             /\ mem.next[ptr_env] = At(q, i + 1)
  <2>1. i \in 1 .. Len(q) /\ ptr_env = q[i] /\ ptr_env \in Envs
    BY <1>3, <1>4, <1>5 DEF At
  <2> QED
    BY <1>3, <2>1 DEF Contains, Represents
<1> QED
  BY <1>1, <1>2, <1>3, <1>4, <1>5

LEMMA EnvInitStep ==
    ASSUME IInv, NEW e \in Envs, EnvInit(e)
    PROVE  IInv'
<1>1. /\ Good(mem, lists, next) /\ e \in boot /\ boot \subseteq Envs
      /\ \A x \in boot : Off(lists, x)
  BY DEF IInv, EnvInit
<1>2. /\ mem' = LIST_INSERT_HEAD(mem, "free", e) /\ "free" \in Lists /\ "ready" \in Lists
      /\ lists' = With(lists, "free", <<e>> \o lists["free"])
  BY DEF EnvInit, Lists, With
<1>3. Linked(mem, lists) /\ lists \in Layouts /\ Apart(lists) /\ mem.sched_next = next /\ Follows(lists, next)
  BY <1>1 DEF Good, Linked
<1>4. Linked(mem', lists') /\ Keeps(mem, mem', "free") /\ Placed(lists, "free", 1, e, lists')
  BY <1>1, <1>2, <1>3, ListInsertHead
<1>5. Good(mem', lists', next')
  <2>1. lists'["ready"] = lists["ready"]
    BY <1>2, <1>4 DEF Placed
  <2> QED
    BY <1>3, <1>4, <2>1 DEF Good, Keeps, Follows, EnvInit
<1>6. ASSUME NEW x \in boot' PROVE Off(lists', x)
  <2>1. x \in boot /\ x # e /\ Off(lists, x) /\ Off(lists, e)
    BY <1>1, <1>6 DEF EnvInit
  <2>2. 1 \in 1 .. Len(lists["free"]) + 1
    BY <1>2, <1>3 DEF Layouts
  <2>3. \A y : Off(lists, y) /\ y # e => Off(lists', y)
    BY <1>2, <1>3, <1>4, <2>1, <2>2, PlacedApart
  <2> QED
    BY <2>1, <2>3
<1>7. call = "none" /\ call' = "none" /\ boot' \subseteq Envs
  BY <1>1 DEF EnvInit, IInv, Calling
<1> QED
  BY <1>5, <1>6, <1>7 DEF IInv, Calling, NobodyMissed

LEMMA NewEnvStep ==
    ASSUME IInv, NewEnv
    PROVE  IInv'
<1>1. PICK e, h, N :
        /\ e = mem.first["free"] /\ h = LIST_REMOVE(mem, "free", e)
        /\ N = With(lists, "free", Tail(lists["free"]))
  OBVIOUS
<1>2. /\ Linked(mem, lists) /\ mem.sched_next = next /\ Follows(lists, next)
      /\ {"free", "new", "ready"} \subseteq Lists
  BY DEF IInv, Good, Lists
<1>3. lists \in [Lists -> Seq(Envs)] /\ Represents(mem, "free", lists["free"])
  BY <1>2 DEF Linked, Layouts
<1>4. PICK q : q = lists["free"] /\ q \in Seq(Envs) /\ Len(q) \in Nat
  BY <1>2, <1>3
<1>5. 1 \in 1 .. Len(q) /\ e = q[1] /\ Head(q) = e /\ q # <<>>
  <2>1. e = At(q, 1) /\ e # NoEnv
    BY <1>1, <1>3, <1>4 DEF NewEnv, Represents
  <2> QED
    BY <1>4, <2>1 DEF At
<1>6. Taken(lists, "free", 1, N)
  <2>1. /\ Tail(q) \in Seq(Envs) /\ Len(Tail(q)) = Len(q) - 1
        /\ \A i \in 1 .. Len(q) - 1 : Tail(q)[i] = q[i + 1]
    BY <1>4, <1>5
  <2>2. \A i \in 1 .. Len(q) - 1 : Tail(q)[i] = IF i < 1 THEN q[i] ELSE q[i + 1]
    BY <1>4, <2>1
  <2>3. N["free"] = Tail(q) /\ N \in [Lists -> Seq(Envs)] /\ \A m \in Lists \ {"free"} : N[m] = lists[m]
    BY <1>1, <1>2, <1>3, <1>4, <2>1 DEF With
  <2> QED
    BY <1>4, <2>1, <2>2, <2>3 DEF Taken, Layouts
<1>7. Linked(h, N) /\ Off(N, e) /\ Keeps(mem, h, "free")
  BY <1>1, <1>2, <1>4, <1>5, <1>6, RemoveLists
<1>8. N["ready"] = lists["ready"] /\ N \in [Lists -> Seq(Envs)]
  BY <1>2, <1>6 DEF Taken, Layouts
<1>9. Good(mem', lists', next)
  <2>1. CASE mem' = h /\ lists' = N
    BY <1>2, <1>7, <1>8, <2>1 DEF Good, Keeps, Follows
  <2>2. CASE mem' = sched_insert_new(h, e) /\ lists' = With(N, "new", Append(N["new"], e))
    <3>1. e \in Envs
      BY <1>4, <1>5
    <3>2. Linked(mem', lists') /\ Keeps(h, mem', "new")
      BY <1>2, <1>7, <2>2, <3>1, ListInsertTail DEF sched_insert_new
    <3>3. lists'["ready"] = N["ready"]
      BY <1>2, <1>8, <2>2 DEF With
    <3> QED
      BY <1>2, <1>7, <1>8, <3>2, <3>3 DEF Good, Keeps, Follows
  <2> QED
    BY <1>1, <1>4, <1>5, <2>1, <2>2 DEF NewEnv, With
<1>10. boot = {} /\ boot' = {} /\ call' = "none" /\ next' = next
  BY DEF NewEnv, Idle
<1> QED
  BY <1>9, <1>10 DEF IInv, Calling, NobodyMissed

LEMMA ScheduleStep ==
    ASSUME IInv, Schedule
    PROVE  IInv'
<1>1. Linked(mem, lists) /\ mem.sched_next = next /\ Follows(lists, next) /\ next # NoEnv
  BY DEF IInv, Good, Schedule
<1>2. PICK c : c = sched_next_circular(next, lists["ready"])
  OBVIOUS
<1>3. next_circular(mem, next) = c /\ c \in Envs /\ Contains(lists["ready"], c)
  BY <1>1, <1>2, NextCircular DEF Follows
<1>4. mem' = [mem EXCEPT !.sched_next = c] /\ next' = c /\ lists' = lists
  BY <1>1, <1>2, <1>3 DEF Schedule
<1>5. c \in Pointers /\ c # NoEnv
  BY <1>3, QueueAssumption DEF Pointers
<1>6. Linked(mem', lists) /\ mem'.sched_next = c
  BY <1>1, <1>4, <1>5, NextSet
<1>7. Good(mem', lists', next')
  BY <1>3, <1>4, <1>5, <1>6 DEF Good, Follows
<1>8. boot = {} /\ boot' = {} /\ call' = "none"
  BY DEF Schedule, Idle
<1> QED
  BY <1>7, <1>8 DEF IInv, Calling, NobodyMissed

\* A loop that begins stands on the first element.
LEMMA AtFirst ==
    ASSUME NEW h, NEW L, Linked(h, L), NEW l \in Lists, NEW p, p = h.first[l], NEW t
    PROVE  /\ t = NoEnv => p = At(L[l], 1)
           /\ \E i \in 1 .. Len(L[l]) + 1 : p = At(L[l], i) /\ \A j \in 1 .. i - 1 : L[l][j] # t
<1>1. p = At(L[l], 1) /\ Len(L[l]) \in Nat
  BY DEF Linked, Represents, Layouts
<1>2. 1 \in 1 .. Len(L[l]) + 1 /\ \A j \in 1 .. 1 - 1 : L[l][j] # t
  BY <1>1
<1> QED
  BY <1>1, <1>2

LEMMA EnterStep ==
    ASSUME IInv, NEW f \in {"run", "kill", "exit"}, NEW t \in Pointers, Enter(f, t)
    PROVE  IInv'
<1>1. Good(mem, lists, next) /\ Linked(mem, lists) /\ "new" \in Lists
  BY DEF IInv, Good, Lists
<1>2. /\ boot = {} /\ boot' = {} /\ call' = f /\ target' = t /\ on' = "new"
      /\ ptr_env' = mem.first["new"] /\ mem' = mem /\ lists' = lists /\ next' = next
      /\ f = "exit" => t # NoEnv
  BY DEF Enter, Idle
<1>3. /\ t = NoEnv => ptr_env' = At(lists["new"], 1)
      /\ \E i \in 1 .. Len(lists["new"]) + 1 :
            ptr_env' = At(lists["new"], i) /\ \A j \in 1 .. i - 1 : lists["new"][j] # t
  BY <1>1, <1>2, AtFirst
<1>4. NobodyMissed'
  BY <1>2, <1>3 DEF NobodyMissed
<1>5. Calling'
  BY <1>2 DEF Calling
<1> QED
  BY <1>1, <1>2, <1>4, <1>5 DEF IInv

LEMMA FoundStep ==
    ASSUME IInv, Found
    PROVE  IInv'
<1>1. call # "none" /\ ptr_env # NoEnv /\ Good(mem, lists, next) /\ Linked(mem, lists) /\ boot = {}
  BY DEF IInv, Good, Found, Calling
<1>2. /\ on \in Lists /\ Contains(lists[on], ptr_env) /\ ptr_env \in Pointers
      /\ call \in {"run", "kill", "exit"} /\ on \in {"new", "ready", "exit"}
  BY <1>1, Standing DEF IInv, Calling, Pointers
<1>3. PICK h : h = Saved(mem, on, ptr_env)
  OBVIOUS
<1>4. Good(h, lists, next)
  BY <1>1, <1>2, <1>3, SavedLists DEF Good
<1>5. Moved(call, on, ptr_env) /\ mem' = Body(h, call, on, ptr_env)
  BY <1>3 DEF Found
<1>6. Good(mem', lists', next')
  BY <1>2, <1>4, <1>5, MoveGood
<1>7. call' = "none" /\ boot' = {}
  BY <1>1 DEF Found, CallEnds
<1> QED
  BY <1>6, <1>7 DEF IInv, Calling, NobodyMissed

LEMMA SkipStep ==
    ASSUME IInv, Skip
    PROVE  IInv'
<1>1. /\ call # "none" /\ ptr_env # NoEnv /\ target # NoEnv /\ ptr_env # target
      /\ Good(mem, lists, next) /\ Linked(mem, lists) /\ boot = {}
  BY DEF IInv, Good, Skip, Calling
<1>2. PICK q : q = lists[on]
  OBVIOUS
<1>3. on \in Lists /\ q \in Seq(Envs)
  BY <1>1, <1>2, Standing
<1>4. PICK i \in 1 .. Len(q) :
        /\ ptr_env = q[i] /\ ptr_env \in Envs /\ mem.next[ptr_env] = At(q, i + 1)
        /\ \A j \in 1 .. i - 1 : q[j] # target
  BY <1>1, <1>2, Standing
<1>5. /\ mem' = Saved(mem, on, ptr_env) /\ ptr_env' = mem'.saved[on]
      /\ lists' = lists /\ next' = next /\ boot' = boot /\ call' = call /\ target' = target /\ on' = on
  BY DEF Skip, Following
<1>6. Linked(mem', lists) /\ mem'.sched_next = mem.sched_next /\ mem'.saved[on] = At(q, i + 1)
  <2>1. ptr_env \in Pointers
    BY <1>4 DEF Pointers
  <2> QED
    BY <1>1, <1>3, <1>4, <1>5, <2>1, SavedLists
<1>7. Good(mem', lists', next')
  BY <1>1, <1>5, <1>6 DEF Good
<1>8. /\ i + 1 \in 1 .. Len(q) + 1
      /\ \A j \in 1 .. (i + 1) - 1 : q[j] # target
  BY <1>1, <1>3, <1>4
<1>9. NobodyMissed'
  BY <1>1, <1>2, <1>5, <1>6, <1>8 DEF NobodyMissed
<1> QED
  BY <1>1, <1>5, <1>7, <1>9 DEF IInv, Calling

LEMMA EachStep ==
    ASSUME IInv, Each
    PROVE  IInv'
<1>1. /\ call # "none" /\ ptr_env # NoEnv /\ target = NoEnv
      /\ Good(mem, lists, next) /\ Linked(mem, lists) /\ boot = {}
      /\ call \in {"run", "kill"} /\ (call = "run" => on = "new")
  BY DEF IInv, Good, Each, Calling
<1>2. PICK q : q = lists[on]
  OBVIOUS
<1>3. /\ on \in Lists /\ on \in {"new", "ready", "exit"} /\ q \in Seq(Envs) /\ Len(q) \in Nat
      /\ 1 \in 1 .. Len(q) /\ ptr_env = q[1] /\ ptr_env \in Envs /\ Contains(q, ptr_env)
      /\ mem.next[ptr_env] = At(q, 1 + 1)
  BY <1>1, <1>2, Standing DEF IInv, Calling
<1>4. PICK h : h = Saved(mem, on, ptr_env)
  OBVIOUS
<1>5. Good(h, lists, next) /\ h.saved[on] = At(q, 2)
  <2>1. ptr_env \in Pointers
    BY <1>3 DEF Pointers
  <2> QED
    BY <1>1, <1>3, <1>4, <2>1, SavedLists DEF Good
<1>6. /\ Moved(call, on, ptr_env) /\ mem' = Body(h, call, on, ptr_env) /\ ptr_env' = mem'.saved[on]
      /\ boot' = {} /\ call' = call /\ target' = target /\ on' = on
  BY <1>1, <1>4 DEF Each, Following
<1>7. /\ Good(mem', lists', next') /\ mem'.saved = h.saved
      /\ lists'[on] = Without(q, ptr_env)
  BY <1>1, <1>2, <1>3, <1>5, <1>6, MoveGood
<1>8. At(Without(q, ptr_env), 1) = At(q, 2)
  <2>1. PICK M : M = With(lists, on, Without(lists[on], ptr_env))
    OBVIOUS
  <2>2. Taken(lists, on, 1, M)
    BY <1>1, <1>2, <1>3, <2>1, ListRemove
  <2>3. M[on] = Without(q, ptr_env)
    BY <1>1, <1>2, <1>3, <2>1 DEF With, Linked, Layouts
  <2>4. PICK w : w = Without(q, ptr_env)
    OBVIOUS
  <2>5. Len(w) = Len(q) - 1 /\ \A i \in 1 .. Len(q) - 1 : w[i] = IF i < 1 THEN q[i] ELSE q[i + 1]
    BY <1>2, <2>2, <2>3, <2>4 DEF Taken
  <2>6. At(w, 1) = At(q, 1 + 1)
    BY <1>3, <2>5 DEF At
  <2> QED
    BY <2>4, <2>6
<1>9. NobodyMissed'
  BY <1>1, <1>5, <1>6, <1>7, <1>8 DEF NobodyMissed
<1> QED
  BY <1>1, <1>6, <1>7, <1>9 DEF IInv, Calling

LEMMA EndOfListStep ==
    ASSUME IInv, EndOfList
    PROVE  IInv'
<1>1. /\ call # "none" /\ Good(mem, lists, next) /\ Linked(mem, lists) /\ boot = {} /\ on \in Lists
      /\ target \in Pointers
  BY Standing DEF IInv, Good, EndOfList, Calling
<1>2. mem' = Saved(mem, on, NoEnv) /\ lists' = lists /\ next' = next /\ boot' = {}
  BY <1>1 DEF EndOfList
<1>3. Good(mem', lists', next') /\ Linked(mem', lists)
  <2>1. NoEnv \in Pointers
    BY DEF Pointers
  <2> QED
    BY <1>1, <1>2, <2>1, SavedLists DEF Good
<1>4. CASE CallEnds
  BY <1>2, <1>3, <1>4 DEF IInv, Calling, NobodyMissed, CallEnds
<1>5. CASE /\ on' \in Later(call, on) /\ ptr_env' = mem.first[on']
           /\ call' = call /\ target' = target
  <2>1. /\ on' \in {"ready", "exit"} /\ on' \in Lists /\ call # "run"
        /\ call = "exit" => on' = "ready"
    BY <1>5 DEF Later, Lists
  <2>2. Calling'
    BY <1>1, <1>2, <1>5, <2>1 DEF IInv, Calling
  <2>3. /\ target = NoEnv => ptr_env' = At(lists[on'], 1)
        /\ \E i \in 1 .. Len(lists[on']) + 1 :
              ptr_env' = At(lists[on'], i) /\ \A j \in 1 .. i - 1 : lists[on'][j] # target
    BY <1>1, <1>5, <2>1, AtFirst
  <2>4. NobodyMissed'
    BY <1>2, <1>5, <2>3 DEF NobodyMissed
  <2> QED
    BY <1>2, <1>3, <2>2, <2>4 DEF IInv
<1> QED
  BY <1>4, <1>5 DEF EndOfList

LEMMA InvStep ==
    ASSUME IInv, [QueueNext]_queueVars
    PROVE  IInv'
<1>1. CASE UNCHANGED queueVars
  BY <1>1 DEF IInv, queueVars, Calling, NobodyMissed
<1>2. CASE QueueNext
  BY <1>2, EnvInitStep, NewEnvStep, ScheduleStep, EnterStep, FoundStep, SkipStep, EachStep,
     EndOfListStep DEF QueueNext, Loop
<1> QED
  BY <1>1, <1>2

\* For any number of environments the links of queue.h hold the sequences that
\* Sched uses, in both directions and by their sizes, after every turn of every
\* loop of sched.c, and sched_next is the one that comes next.
THEOREM QueuesAreExact == QueueSpec => []QueuesExact
<1>1. IInv => QueuesExact
  BY DEF IInv, Good, Linked, QueuesExact
<1> QED
  BY <1>1, InitInv, InvStep, PTL DEF QueueSpec

\* For any number of environments no LIST_FOREACH of sched.c leaves anybody out,
\* although its body takes the element it stands on off the list.
THEOREM NobodyLeftOut == QueueSpec => []NobodyMissed
<1>1. IInv => NobodyMissed
  BY DEF IInv
<1> QED
  BY <1>1, InitInv, InvStep, PTL DEF QueueSpec
=============================================================================
