------------------------------ MODULE MCKernel ------------------------------
(***************************************************************************)
(* The kernel heap, the test programs of both heaps at their real size,    *)
(* the console, and the routines that do one thing and return, among them  *)
(* those that load the kernel and programs.  They share no variable; a     *)
(* behaviour is one of the four parts, while the others stay as they       *)
(* start.                                                                  *)
(***************************************************************************)
EXTENDS KHeap, SelfTests, Console, Library

VARIABLE part

kernelVars == <<part, kheapVars, scriptVars, consoleVars, libraryVars>>

\* A part that does not run has one initial state.
KernelInit ==
    /\ part \in {"kmalloc", "tests", "console", "library"}
    /\ KHeapInit /\ ConsoleInit /\ LibraryInit
    /\ ScriptInit /\ (part # "tests" => test = "kmalloc")

KernelNext ==
    /\ UNCHANGED part
    /\ \/ part = "kmalloc" /\ KHeapNext /\ UNCHANGED <<scriptVars, consoleVars, libraryVars>>
       \/ part = "tests" /\ ScriptNext /\ UNCHANGED <<kheapVars, consoleVars, libraryVars>>
       \/ part = "console" /\ ConsoleNext /\ UNCHANGED <<kheapVars, scriptVars, libraryVars>>
       \/ part = "library" /\ LibraryNext /\ UNCHANGED <<kheapVars, scriptVars, consoleVars>>

\* No fair action can take a step where the console starts.
KernelSpec == KernelInit /\ [][KernelNext]_kernelVars /\ ConsoleFairness
=============================================================================
