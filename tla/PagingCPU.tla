----------------------------- MODULE PagingCPU ------------------------------
(***************************************************************************)
(* Paging driven by a processor that executes one instruction at a time.   *)
(* An instruction needs several pages in a fixed order (code, operands,    *)
(* stack); when one is missing it faults, and after the handler it starts  *)
(* over from its first page: trap ends in env_run, which reloads the saved *)
(* eip.  Interrupts come between two attempts only.  Whether it ever gets  *)
(* all its pages at once depends on which pages the handler evicts.        *)
(*                                                                         *)
(* Accesses are reads: the modified bit never decides which page is        *)
(* evicted.                                                                *)
(***************************************************************************)
EXTENDS Paging, Sequences

VARIABLES
    instr,      \* the pages the current instruction of an environment needs
    pos         \* how far this attempt has got

cpuVars == <<vars, instr, pos>>

\* Instructions that do not need more pages than the working set holds.
Instructions ==
    UNION {{s \in [1 .. n -> Pages] : \A i, j \in 1 .. n : s[i] = s[j] => i = j} :
             n \in 1 .. WSMax}

CPUInit ==
    /\ Init
    /\ instr = [e \in Envs |-> <<>>]
    /\ pos = [e \in Envs |-> 1]

\* A page that may be touched without being killed for it.
Valid(e, p) == p \in Stack \/ pf[e][p] # NoDisk

Fetch(e) ==
    /\ Running(e) /\ instr[e] = <<>>
    /\ \E s \in Instructions :
          /\ \A i \in 1 .. Len(s) : Valid(e, s[i])
          /\ instr' = [instr EXCEPT ![e] = s]
    /\ UNCHANGED <<vars, pos>>

Access(e) ==
    /\ instr[e] # <<>>
    /\ MMURead(e, instr[e][pos[e]])
    /\ \/ /\ pos[e] < Len(instr[e])
          /\ pos' = [pos EXCEPT ![e] = @ + 1]
          /\ UNCHANGED instr
       \/ /\ pos[e] = Len(instr[e])
          /\ pos' = [pos EXCEPT ![e] = 1]
          /\ instr' = [instr EXCEPT ![e] = <<>>]

Fault(e) ==
    /\ instr[e] # <<>>
    /\ TableFault(e, instr[e][pos[e]]) \/ PageFault(e, instr[e][pos[e]])
    /\ TakesLeast
    /\ pos' = [pos EXCEPT ![e] = 1]
    /\ UNCHANGED instr

Interrupt(e) ==
    /\ pos[e] = 1
    /\ ClockTick(e)
    /\ UNCHANGED <<instr, pos>>

SystemCall(e) ==
    /\ instr[e] = <<>>
    /\ \/ \E va \in Heap, n \in 1 .. NHeap : AllocateMem(e, va, n)
       \/ \E va \in Heap, n \in 1 .. NHeap : FreeMem(e, va, n)
    /\ UNCHANGED <<instr, pos>>

KernelStep == Kernel /\ TakesLeast /\ UNCHANGED <<instr, pos>>

CPUNext ==
    \/ \E e \in Envs : \/ Fetch(e) \/ Access(e) \/ Fault(e)
                       \/ Interrupt(e) \/ SystemCall(e)
                       \/ EnvCreate(e) /\ UNCHANGED <<instr, pos>>
    \/ KernelStep

\* The processor keeps executing and the kernel's handlers run to their end;
\* that the clock ticks or a program makes a system call is not assumed.
CPUFairness ==
    /\ WF_cpuVars(KernelStep)
    /\ \A e \in Envs : WF_cpuVars(Access(e)) /\ WF_cpuVars(Fault(e))

CPUSpec == CPUInit /\ [][CPUNext]_cpuVars /\ CPUFairness

-----------------------------------------------------------------------------
\* No replacement algorithm can starve an instruction: one that needs no more
\* pages than the working set holds is executed in the end, however often the
\* fault on one of its pages evicts another.
InstructionCompletes ==
    \A e \in Envs : instr[e] # <<>> ~> instr[e] = <<>>
=============================================================================
