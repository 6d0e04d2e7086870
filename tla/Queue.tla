------------------------------- MODULE Queue --------------------------------
(***************************************************************************)
(* The linked lists of inc/queue.h as they are in memory, and what the     *)
(* functions of kern/sched.c and env_init do to them.  An element has one  *)
(* pair of links, whatever list it is on.  ReadyQueue and Sched have the   *)
(* same lists as sequences: lists and next follow the calls as they do     *)
(* there, and the property is that memory holds just these sequences.      *)
(*                                                                         *)
(* A step is one turn of a LIST_FOREACH, so that a loop is caught between  *)
(* the moment it saves the next element and the moment it goes on there;   *)
(* NULL is NoEnv.                                                          *)
(***************************************************************************)
EXTENDS ReadyQueue

ASSUME QueueAssumption == NoEnv \notin Envs

Lists    == {"free", "new", "ready", "exit"}
Pointers == Envs \cup {NoEnv}

VARIABLES
    mem,        \* the links le_next and le_prev of every element; lh_first, lh_last,
                \* ___ptr_next and size of every list; sched_next
    lists,      \* the four lists as sequences
    next,       \* sched_next, as Sched has it
    boot,       \* the entries env_init has still to put on the free list
    call,       \* the function that is executing, or "none"
    target,     \* the environment it looks for, or NULL if it is for all
    on,         \* the list its LIST_FOREACH is on
    ptr_env     \* the element it stands on

queueVars == <<mem, lists, next, boot, call, target, on, ptr_env>>

-----------------------------------------------------------------------------
SetNext(h, e, x)  == [h EXCEPT !.next[e] = x]
SetPrev(h, e, x)  == [h EXCEPT !.prev[e] = x]
SetFirst(h, l, x) == [h EXCEPT !.first[l] = x]
SetLast(h, l, x)  == [h EXCEPT !.last[l] = x]
Resized(h, l, d)  == [h EXCEPT !.size[l] = @ + d]

LIST_INSERT_HEAD(h, l, e) ==
    LET h1 == SetNext(h, e, h.first[l])
        h2 == IF h.first[l] # NoEnv THEN SetPrev(h1, h.first[l], e) ELSE SetLast(h1, l, e)
    IN  Resized(SetPrev(SetFirst(h2, l, e), e, NoEnv), l, 1)

LIST_INSERT_TAIL(h, l, e) ==
    LET h1 == SetPrev(h, e, h.last[l])
        h2 == IF h.last[l] # NoEnv THEN SetNext(h1, h.last[l], e) ELSE SetFirst(h1, l, e)
    IN  Resized(SetNext(SetLast(h2, l, e), e, NoEnv), l, 1)

\* Mutant of LIST_INSERT_BEFORE: the list's first element is not updated.
LIST_INSERT_BEFORE_FirstKept(h, l, x, e) ==
    LET h1 == SetNext(SetPrev(h, e, h.prev[x]), e, x)
        h2 == IF h.prev[x] # NoEnv THEN SetNext(h1, h.prev[x], e) ELSE h1
    IN  Resized(SetPrev(h2, x, e), l, 1)

\* e comes before x.
LIST_INSERT_BEFORE(h, l, x, e) ==
    LET h1 == SetNext(SetPrev(h, e, h.prev[x]), e, x)
        h2 == IF h.prev[x] # NoEnv THEN SetNext(h1, h.prev[x], e) ELSE SetFirst(h1, l, e)
    IN  Resized(SetPrev(h2, x, e), l, 1)

LIST_REMOVE(h, l, e) ==
    LET h1 == IF h.next[e] # NoEnv THEN SetPrev(h, h.next[e], h.prev[e]) ELSE SetLast(h, l, h.prev[e])
        h2 == IF h.prev[e] # NoEnv THEN SetNext(h1, h.prev[e], h.next[e]) ELSE SetFirst(h1, l, h.next[e])
    IN  Resized(SetPrev(SetNext(h2, e, NoEnv), e, NoEnv), l, -1)

\* Mutant of Saved: the element itself.
Saved_Itself(h, l, e) == [h EXCEPT !.saved[l] = e]

\* The test of LIST_FOREACH on element e saves its successor.
Saved(h, l, e) == [h EXCEPT !.saved[l] = IF e = NoEnv THEN NoEnv ELSE h.next[e]]

\* Mutant of Following: the link is read after the body, as by the loop that is
\* commented out.
Following_Late(h, l, e) == h.next[e]

\* The element LIST_FOREACH goes on with when its body is done with e.
Following(h, l, e) == h.saved[l]

-----------------------------------------------------------------------------
\* sched_next_circular, on the links.
next_circular(h, e) == IF h.next[e] = NoEnv THEN h.first["ready"] ELSE h.next[e]

sched_insert_ready(h, e) ==
    IF h.sched_next # NoEnv THEN LIST_INSERT_BEFORE(h, "ready", h.sched_next, e)
    ELSE [LIST_INSERT_TAIL(h, "ready", e) EXCEPT !.sched_next = e]

\* Mutant of sched_remove_ready: the successor is looked up when the
\* environment has left the queue.
sched_remove_ready_First(h, e) ==
    LET h1 == LIST_REMOVE(h, "ready", e)
    IN  IF e # h.sched_next THEN h1 ELSE [h1 EXCEPT !.sched_next = next_circular(h1, e)]

sched_remove_ready(h, e) ==
    LET n  == next_circular(h, e)
        h1 == IF e = h.sched_next THEN [h EXCEPT !.sched_next = IF n = e THEN NoEnv ELSE n] ELSE h
    IN  LIST_REMOVE(h1, "ready", e)

sched_insert_new(h, e)  == LIST_INSERT_TAIL(h, "new", e)
sched_remove_new(h, e)  == LIST_REMOVE(h, "new", e)
sched_insert_exit(h, e) == LIST_INSERT_TAIL(h, "exit", e)
sched_remove_exit(h, e) == LIST_REMOVE(h, "exit", e)

\* free_environment: memset clears the links too.
free_environment(h, e) ==
    LIST_INSERT_HEAD(SetNext(SetPrev(h, e, NoEnv), e, NoEnv), "free", e)

RemoveFrom(h, l, e) ==
    CASE l = "new" -> sched_remove_new(h, e)
      [] l = "ready" -> sched_remove_ready(h, e)
      [] l = "exit" -> sched_remove_exit(h, e)

\* What function f does with the element e it has found on list l.
Body(h, f, l, e) ==
    CASE f = "run"  -> sched_insert_ready(RemoveFrom(h, l, e), e)
      [] f = "kill" -> free_environment(RemoveFrom(h, l, e), e)
      [] f = "exit" -> sched_insert_exit(RemoveFrom(h, l, e), e)

-----------------------------------------------------------------------------
(***************************************************************************)
(* The same in terms of sequences, as in Sched: q are the lists and r the  *)
(* ready queue with its next.                                              *)
(***************************************************************************)
Round == [q |-> lists["ready"], next |-> next]
WithRound(q, r) == lists' = [q EXCEPT !["ready"] = r.q] /\ next' = r.next

\* e is moved from list l to where function f puts it.
Moved(f, l, e) ==
    LET rest == [lists EXCEPT ![l] = Without(@, e)]
        r    == IF l = "ready" THEN Removed(Round, e) ELSE Round
    IN  \/ f = "run"  /\ WithRound(rest, Inserted(r, e))
        \/ f = "kill" /\ WithRound([rest EXCEPT !["free"] = <<e>> \o @], r)
        \/ f = "exit" /\ WithRound([rest EXCEPT !["exit"] = Append(@, e)], r)

-----------------------------------------------------------------------------
\* The memory before env_init and after sched_init: all 0.
QueueInit ==
    /\ mem = LET unlinked == [e \in Envs |-> NoEnv]
                 nothing  == [l \in Lists |-> NoEnv]
             IN  [next |-> unlinked, prev |-> unlinked, first |-> nothing, last |-> nothing,
                  saved |-> nothing, size |-> [l \in Lists |-> 0], sched_next |-> NoEnv]
    /\ lists = [l \in Lists |-> <<>>] /\ next = NoEnv
    /\ boot = Envs
    /\ call = "none" /\ target = NoEnv /\ on = "new" /\ ptr_env = NoEnv

\* One turn of env_init.  The order in which entries come does not matter.
EnvInit(e) ==
    /\ e \in boot
    /\ boot' = boot \ {e}
    /\ mem' = LIST_INSERT_HEAD(mem, "free", e)
    /\ lists' = [lists EXCEPT !["free"] = <<e>> \o @]
    /\ UNCHANGED <<next, call, target, on, ptr_env>>

Idle == boot = {} /\ call = "none"

\* allocate_environment and complete_environment_initialization take the first
\* free entry.  Then sched_new_env queues it, unless env_create panics before.
NewEnv ==
    /\ Idle /\ mem.first["free"] # NoEnv
    /\ LET e == mem.first["free"]
           h == LIST_REMOVE(mem, "free", e)
           q == [lists EXCEPT !["free"] = Tail(@)]
       IN  \/ /\ mem' = sched_insert_new(h, e)
              /\ lists' = [q EXCEPT !["new"] = Append(@, Head(lists["free"]))]
           \/ mem' = h /\ lists' = q
    /\ UNCHANGED <<next, boot, call, target, on, ptr_env>>

\* fos_scheduler, when an environment is ready: env_run does not come back.
\* Whether a function ends in it depends on scheduler_status and curenv, which
\* Sched has, and a clock interrupt brings it too: here it comes or does not.
Schedule ==
    /\ Idle /\ mem.sched_next # NoEnv
    /\ mem' = [mem EXCEPT !.sched_next = next_circular(mem, @)]
    /\ next' = sched_next_circular(next, lists["ready"])
    /\ UNCHANGED <<lists, boot, call, target, on, ptr_env>>

\* sched_run_env, sched_kill_env and sched_exit_env for the environment t, and
\* with t = NULL sched_run_all and sched_kill_all: each starts on the new queue.
Enter(f, t) ==
    /\ Idle
    /\ f = "exit" => t # NoEnv
    /\ call' = f /\ target' = t
    /\ on' = "new" /\ ptr_env' = mem.first["new"]
    /\ UNCHANGED <<mem, lists, next, boot>>

\* The locals are gone.
CallEnds == call' = "none" /\ target' = NoEnv /\ on' = "new" /\ ptr_env' = NoEnv

\* A turn of the loop that ends in break or return: the environment is found.
Found ==
    /\ call # "none" /\ ptr_env # NoEnv /\ ptr_env = target
    /\ mem' = Body(Saved(mem, on, ptr_env), call, on, ptr_env)
    /\ Moved(call, on, ptr_env)
    /\ CallEnds
    /\ UNCHANGED boot

\* A turn on another environment.
Skip ==
    /\ call # "none" /\ ptr_env # NoEnv /\ target # NoEnv /\ ptr_env # target
    /\ mem' = Saved(mem, on, ptr_env)
    /\ ptr_env' = Following(mem', on, ptr_env)
    /\ UNCHANGED <<lists, next, boot, call, target, on>>

\* A turn of sched_run_all or sched_kill_all.
Each ==
    /\ call # "none" /\ ptr_env # NoEnv /\ target = NoEnv
    /\ mem' = Body(Saved(mem, on, ptr_env), call, on, ptr_env)
    /\ ptr_env' = Following(mem', on, ptr_env)
    /\ Moved(call, on, ptr_env)
    /\ UNCHANGED <<boot, call, target, on>>

\* The list that function f looks at after l.
Later(f, l) ==
    CASE l = "new" /\ f \in {"kill", "exit"} -> {"ready"}
      [] l = "ready" /\ f = "kill"           -> {"exit"}
      [] OTHER                               -> {}

\* The loop ends; the next one begins, or the function returns.
\* (sched_kill_all skips an empty list, whose ___ptr_next nobody reads.)
EndOfList ==
    /\ call # "none" /\ ptr_env = NoEnv
    /\ mem' = Saved(mem, on, NoEnv)
    /\ \/ /\ on' \in Later(call, on)
          /\ ptr_env' = mem.first[on']
          /\ UNCHANGED <<call, target>>
       \/ Later(call, on) = {} /\ CallEnds
    /\ UNCHANGED <<lists, next, boot>>

Loop == Found \/ Skip \/ Each \/ EndOfList

QueueNext ==
    \/ \E e \in Envs : EnvInit(e)
    \/ NewEnv \/ Schedule
    \/ \E f \in {"run", "kill", "exit"}, t \in Pointers : Enter(f, t)
    \/ Loop

\* The loops are sequential code that nothing interrupts.
QueueSpec == QueueInit /\ [][QueueNext]_queueVars /\ WF_queueVars(Loop)

-----------------------------------------------------------------------------
\* The i-th element of q, NULL beyond its ends.
At(q, i) == IF i \in 1 .. Len(q) THEN q[i] ELSE NoEnv

\* List l of h is the sequence q: forwards, backwards and by its size.
Represents(h, l, q) ==
    /\ h.size[l] = Len(q)
    /\ h.first[l] = At(q, 1) /\ h.last[l] = At(q, Len(q))
    /\ \A i \in 1 .. Len(q) : h.next[q[i]] = At(q, i + 1) /\ h.prev[q[i]] = At(q, i - 1)

\* The links do what the sequences of Sched do, also while loops remove the
\* element they stand on, which clears its links, or put it on another list,
\* which overwrites them: every list is whole in both directions and sched_next
\* is the one that comes next.
QueuesExact ==
    /\ \A l \in Lists : Represents(mem, l, lists[l])
    /\ mem.sched_next = next

\* No loop leaves anybody out.  sched_run_all and sched_kill_all stand on the
\* first of those that are left, so they end when nobody is.  A search for one
\* environment stands on the list, and behind it there is nobody it looks for.
NobodyMissed ==
    call # "none" =>
        LET q == lists[on]
        IN  IF target = NoEnv THEN ptr_env = At(q, 1)
            ELSE \E i \in 1 .. Len(q) + 1 :
                    ptr_env = At(q, i) /\ \A j \in 1 .. i - 1 : q[j] # target

\* Every function returns.
CallReturns == call # "none" ~> call = "none"
=============================================================================
