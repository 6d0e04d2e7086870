--------------------------- MODULE MCEnvironments ---------------------------
(***************************************************************************)
(* The scheduler, the links of its lists and the identifiers of its        *)
(* environments.  Each has its own copy of what it is about and writes     *)
(* nothing another one reads; a behaviour is one of the three parts, while *)
(* the others stay as they start.  EnvId gets bit operations that compute. *)
(***************************************************************************)
EXTENDS Sched, Queue, EnvId, Bitwise

MCBitAnd(x, y) == x & y
MCBitOr(x, y) == x | y

VARIABLE part

environmentsVars == <<part, vars, queueVars, idVars>>

\* A part that does not run has one initial state.
EnvironmentsInit ==
    /\ part \in {"scheduler", "lists", "identifiers"}
    /\ Init /\ (part # "scheduler" => env_free_list = SetToSeq(Envs))
    /\ QueueInit /\ IdInit

EnvironmentsNext ==
    /\ UNCHANGED part
    /\ \/ part = "scheduler" /\ Next /\ UNCHANGED <<queueVars, idVars>>
       \/ part = "lists" /\ QueueNext /\ UNCHANGED <<vars, idVars>>
       \/ part = "identifiers" /\ IdNext /\ UNCHANGED <<vars, queueVars>>

\* No fair action is enabled where its part starts.
EnvironmentsSpec ==
    /\ EnvironmentsInit /\ [][EnvironmentsNext]_environmentsVars
    /\ Fairness /\ WF_queueVars(Loop)
=============================================================================
