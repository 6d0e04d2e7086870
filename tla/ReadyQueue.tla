----------------------------- MODULE ReadyQueue -----------------------------
(***************************************************************************)
(* The queues of the scheduler as sequences, and what kern/sched.c does to *)
(* the ready queue and sched_next.  Queue has the same functions on the    *)
(* links of the elements.                                                  *)
(***************************************************************************)
EXTENDS Integers, Sequences, SequencesExt

CONSTANTS
    Envs,   \* the entries of envs[]
    NoEnv   \* NULL

\* LIST_REMOVE
Without(q, e) == RemoveFirst(q, e)

Position(q, e) == SelectInSeq(q, LAMBDA x : x = e)

\* LIST_INSERT_BEFORE
InsertBefore(q, x, e) == InsertAt(q, Position(q, x), e)

\* Mutant of sched_next_circular: always the head of the queue.
sched_next_circular_Head(e, q) == q[1]

\* sched_next_circular on the ready queue q.
sched_next_circular(e, q) ==
    IF Position(q, e) = Len(q) THEN q[1] ELSE q[Position(q, e) + 1]

\* Mutant of Inserted: the newcomer comes right after the next one.
Inserted_AfterNext(r, e) ==
    IF r.next = NoEnv THEN [q |-> Append(r.q, e), next |-> e]
    ELSE [q |-> InsertAt(r.q, Position(r.q, r.next) + 1, e), next |-> r.next]

\* sched_insert_ready on a ready queue r.q with r.next to be run next: the
\* newcomer comes last in the round that starts there.
Inserted(r, e) ==
    IF r.next = NoEnv THEN [q |-> Append(r.q, e), next |-> e]
    ELSE [q |-> InsertBefore(r.q, r.next, e), next |-> r.next]

\* Mutants of Removed: the environment stays on the queue; sched_next is only
\* looked at when the queue gets empty; sched_next is always reset.
Removed_StillQueued(r, e) ==
    [q |-> r.q,
     next |-> IF r.next # e THEN r.next
              ELSE IF sched_next_circular(e, r.q) = e THEN NoEnv
              ELSE sched_next_circular(e, r.q)]

Removed_NextKept(r, e) ==
    [q |-> Without(r.q, e), next |-> IF r.q = <<e>> THEN NoEnv ELSE r.next]

Removed_NextReset(r, e) ==
    [q |-> Without(r.q, e), next |-> IF r.next # e THEN r.next ELSE NoEnv]

\* sched_remove_ready
Removed(r, e) ==
    [q |-> Without(r.q, e),
     next |-> IF r.next # e THEN r.next
              ELSE IF sched_next_circular(e, r.q) = e THEN NoEnv
              ELSE sched_next_circular(e, r.q)]
=============================================================================
