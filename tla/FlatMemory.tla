----------------------------- MODULE FlatMemory -----------------------------
(***************************************************************************)
(* What demand paging promises a user program: a private memory in which a *)
(* page holds what was last written to it.  Pages appear when the loader   *)
(* or the stack or allocateMem adds them, heap pages disappear with        *)
(* freeMem, and everything disappears with the environment.  There are no  *)
(* frames, working sets or page file here.                                 *)
(***************************************************************************)
CONSTANTS Envs, Pages, Heap, Values, Image, Junk, Unmapped

VARIABLES mem, alive, inKernel

fvars == <<mem, alive, inKernel>>

Init ==
    /\ mem = [e \in Envs |-> [p \in Pages |-> Unmapped]]
    /\ alive = {}
    /\ inKernel = FALSE

\* User code writes a page it has; a trap handler never does.
Write(e, p, v) ==
    /\ ~inKernel /\ ~inKernel'
    /\ e \in alive /\ mem[e][p] # Unmapped
    /\ mem' = [mem EXCEPT ![e][p] = v]
    /\ UNCHANGED alive

\* The kernel adds a page: from the program's image, or with undefined bytes.
Add(e, p, v) ==
    /\ inKernel
    /\ e \in alive /\ mem[e][p] = Unmapped
    /\ mem' = [mem EXCEPT ![e][p] = v]
    /\ inKernel' \in BOOLEAN
    /\ UNCHANGED alive

\* freeMem.
Release(e, S) ==
    /\ ~inKernel /\ ~inKernel'
    /\ e \in alive
    /\ mem' = [mem EXCEPT ![e] = [p \in Pages |-> IF p \in S THEN Unmapped ELSE @[p]]]
    /\ UNCHANGED alive

Create(e) ==
    /\ e \notin alive
    /\ alive' = alive \cup {e}
    /\ inKernel' = TRUE
    /\ UNCHANGED mem

Destroy(e) ==
    /\ e \in alive /\ ~inKernel /\ ~inKernel'
    /\ alive' = alive \ {e}
    /\ mem' = [mem EXCEPT ![e] = [p \in Pages |-> Unmapped]]

\* Any other trap: the memory is as it was.
Trap ==
    /\ inKernel' = ~inKernel
    /\ UNCHANGED <<mem, alive>>

Next ==
    \/ \E e \in Envs, p \in Pages, v \in Values : Write(e, p, v)
    \/ \E e \in Envs, p \in Pages, v \in {Image, Junk} : Add(e, p, v)
    \/ \E e \in Envs, S \in SUBSET Heap : Release(e, S)
    \/ \E e \in Envs : Create(e) \/ Destroy(e)
    \/ Trap

Spec == Init /\ [][Next]_fvars
=============================================================================
