----------------------------- MODULE MCPrograms -----------------------------
(***************************************************************************)
(* What a program relies on: that its instructions complete, whatever they *)
(* fault on, and that malloc finds it memory.  PagingCPU and UHeap share   *)
(* no variable; a behaviour is one of the two, while the other stays as it *)
(* starts.                                                                 *)
(***************************************************************************)
EXTENDS PagingCPU, UHeapPlacement

VARIABLE part

programsVars == <<part, cpuVars, uheapVars>>

\* A part that does not run has one initial state.
ProgramsInit ==
    /\ part \in {"instructions", "malloc"}
    /\ CPUInit /\ (part # "instructions" => algo = "FIFO")
    /\ UHeapInit /\ (part # "malloc" => strategy = "FIRSTFIT")

ProgramsNext ==
    /\ UNCHANGED part
    /\ \/ part = "instructions" /\ CPUNext /\ UNCHANGED uheapVars
       \/ part = "malloc" /\ UHeapNext /\ UNCHANGED cpuVars

\* No fair action is enabled where its part starts.
ProgramsSpec ==
    /\ ProgramsInit /\ [][ProgramsNext]_programsVars
    /\ CPUFairness /\ WF_uheapVars(Search)
=============================================================================
