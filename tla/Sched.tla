------------------------------- MODULE Sched --------------------------------
(***************************************************************************)
(* The round-robin scheduler of kern/sched.c and everything that moves an  *)
(* environment between its queues: env_create and env_free as far as the   *)
(* free list is concerned, env_exit, the kill and run commands and system  *)
(* calls, the clock interrupt, _panic, and the way trap returns to an      *)
(* environment.                                                            *)
(*                                                                         *)
(* The queues of inc/queue.h are sequences (ReadyQueue, Queue).  Kernel    *)
(* code is not interrupted: an action is one command of the prompt, or one *)
(* trap up to its assertion; mode is then "return" until trap has looked   *)
(* at curenv.                                                              *)
(* An environment identifier stands for the environment that has it        *)
(* (EnvId is about the identifiers).                                       *)
(***************************************************************************)
EXTENDS ReadyQueue

ASSUME NoEnvAssumption == NoEnv \notin Envs
ASSUME EnvsAssumption == IsFiniteSet(Envs)

VARIABLES
    status,             \* env_status
    env_free_list, env_new_queue, env_ready_queue, env_exit_queue,
    sched_next,         \* the environment to run next, or NULL
    curenv,
    scheduler_status,
    masked, \* the environments that run with interrupts disabled (FL_IF clear)
    mode    \* "prompt": run_command_prompt waits for a command; "user":
            \* curenv runs; "return": trap is about to go back to curenv

queues == <<env_free_list, env_new_queue, env_ready_queue, env_exit_queue>>
vars   == <<status, queues, sched_next, curenv, scheduler_status, masked, mode>>

-----------------------------------------------------------------------------
Ready == [q |-> env_ready_queue, next |-> sched_next]

\* The ready queue and sched_next become r.
SetReady(r) == env_ready_queue' = r.q /\ sched_next' = r.next

-----------------------------------------------------------------------------
\* fos_scheduler, called when the ready queue and sched_next are r; env_run
\* does not return, and without a ready environment neither does the prompt.
fos_scheduler(r) ==
    \/ /\ r.next # NoEnv
       /\ env_ready_queue' = r.q
       /\ sched_next' = sched_next_circular(r.next, r.q)
       /\ curenv' = r.next /\ mode' = "user"
       /\ scheduler_status' = "STARTED"
    \/ /\ r.next = NoEnv
       /\ SetReady(r)
       /\ curenv' = NoEnv /\ mode' = "prompt"
       /\ scheduler_status' = "STOPPED"

\* The system call returns to trap.
Return == mode' = "return" /\ UNCHANGED <<curenv, scheduler_status>>

AtPrompt == mode = "prompt"
InUser   == mode = "user"

\* Where a command or a system call goes when it is done.
Resume ==
    \/ AtPrompt /\ UNCHANGED <<curenv, scheduler_status, mode>>
    \/ InUser /\ Return

-----------------------------------------------------------------------------
Init ==
    /\ status = [e \in Envs |-> "FREE"]
    /\ env_free_list \in SetToSeqs(Envs)
    /\ env_new_queue = <<>> /\ env_ready_queue = <<>> /\ env_exit_queue = <<>>
    /\ sched_next = NoEnv /\ curenv = NoEnv
    /\ scheduler_status = "STOPPED" /\ mode = "prompt"
    /\ masked = {}

\* commnad_load_env and sys_create_env: env_create takes the first free entry,
\* sched_new_env queues it.
Load ==
    /\ AtPrompt \/ InUser
    /\ env_free_list # <<>>
    /\ LET e == Head(env_free_list)
       IN  /\ status' = [status EXCEPT ![e] = "NEW"]
           /\ env_new_queue' = Append(env_new_queue, e)
    /\ env_free_list' = Tail(env_free_list)
    /\ Resume
    /\ UNCHANGED <<env_ready_queue, env_exit_queue, sched_next, masked>>

\* command_run_program: the same, then sched_run_env.
RunProgram ==
    /\ AtPrompt /\ env_free_list # <<>>
    /\ LET e == Head(env_free_list)
       IN  /\ status' = [status EXCEPT ![e] = "READY"]
           /\ fos_scheduler(Inserted(Ready, e))
    /\ env_free_list' = Tail(env_free_list)
    /\ UNCHANGED <<env_new_queue, env_exit_queue, masked>>

\* _panic: an environment that is READY exits first (env_exit), then the
\* scheduler runs; st is the status so far.
Panic(st) ==
    IF curenv # NoEnv /\ st[curenv] = "READY"
    THEN /\ status' = [st EXCEPT ![curenv] = "EXIT"]
         /\ env_exit_queue' = Append(env_exit_queue, curenv)
         /\ fos_scheduler(Removed(Ready, curenv))
    ELSE /\ status' = st
         /\ UNCHANGED env_exit_queue
         /\ fos_scheduler(Ready)

\* env_create panics (no frame, page file full): before the new environment
\* leaves the free list (complete_environment_initialization) or after.
LoadPanics ==
    /\ AtPrompt \/ InUser
    /\ env_free_list # <<>>
    /\ LET e == Head(env_free_list)
       IN  \/ /\ Panic([status EXCEPT ![e] = "UNKNOWN"])
              /\ UNCHANGED env_free_list
           \/ /\ Panic([status EXCEPT ![e] = "NEW"])
              /\ env_free_list' = Tail(env_free_list)
    /\ UNCHANGED <<env_new_queue, masked>>

\* command_run_all: sched_run_all at the prompt.
RunAll ==
    /\ AtPrompt
    /\ status' = [e \in Envs |-> IF Contains(env_new_queue, e) THEN "READY" ELSE status[e]]
    /\ env_new_queue' = <<>>
    /\ fos_scheduler(FoldLeft(Inserted, Ready, env_new_queue))
    /\ UNCHANGED <<env_free_list, env_exit_queue, masked>>

\* sys_run_env; the scheduler is running already.
SysRunEnv(e) ==
    /\ InUser /\ Contains(env_new_queue, e)
    /\ status' = [status EXCEPT ![e] = "READY"]
    /\ env_new_queue' = Without(env_new_queue, e)
    /\ SetReady(Inserted(Ready, e))
    /\ Return
    /\ UNCHANGED <<env_free_list, env_exit_queue, masked>>

\* free_environment clears the whole entry, its env_id and its saved flags too.
FreeEnvironment(e) ==
    /\ status' = [status EXCEPT ![e] = "FREE"]
    /\ env_free_list' = <<e>> \o env_free_list
    /\ masked' = masked \ {e}

\* sched_kill_env, from the kill command or a system call.  After start_env_free
\* the entry's env_id is 0, so the test for curenv in the READY case fails and
\* the call returns even when an environment kills itself.
Kill(e) ==
    /\ AtPrompt \/ InUser
    /\ \/ /\ Contains(env_new_queue, e)
          /\ env_new_queue' = Without(env_new_queue, e)
          /\ UNCHANGED <<env_ready_queue, env_exit_queue, sched_next>>
       \/ /\ Contains(env_ready_queue, e)
          /\ SetReady(Removed(Ready, e))
          /\ UNCHANGED <<env_new_queue, env_exit_queue>>
       \/ /\ Contains(env_exit_queue, e)
          /\ env_exit_queue' = Without(env_exit_queue, e)
          /\ UNCHANGED <<env_new_queue, env_ready_queue, sched_next>>
    /\ FreeEnvironment(e)
    /\ Resume

\* command_kill_all: every queue in turn, then the scheduler.
KillAll ==
    /\ AtPrompt
    /\ LET killed == env_new_queue \o env_ready_queue \o env_exit_queue
       IN  /\ status' = [e \in Envs |-> IF Contains(killed, e) THEN "FREE" ELSE status[e]]
           /\ env_free_list' = Reverse(killed) \o env_free_list
           /\ masked' = masked \ ToSet(killed)
    /\ env_new_queue' = <<>> /\ env_exit_queue' = <<>>
    /\ fos_scheduler(FoldLeft(Removed, Ready, env_ready_queue))

\* sys_env_exit, and every panic while the environment runs.
EnvExit ==
    /\ InUser
    /\ Panic(status)
    /\ UNCHANGED <<env_free_list, env_new_queue, masked>>

\* A trap that changes no queue: a page fault or any other system call.
OtherTrap == InUser /\ Return /\ UNCHANGED <<status, queues, sched_next, masked>>

\* sys_disable_interrupt and sys_enable_interrupt.
DisableInterrupt ==
    /\ InUser /\ masked' = masked \cup {curenv}
    /\ Return /\ UNCHANGED <<status, queues, sched_next>>

EnableInterrupt ==
    /\ InUser /\ curenv \in masked /\ masked' = masked \ {curenv}
    /\ Return /\ UNCHANGED <<status, queues, sched_next>>

ClockInterrupt ==
    /\ InUser /\ curenv \notin masked
    /\ fos_scheduler(Ready)
    /\ UNCHANGED <<status, env_free_list, env_new_queue, env_exit_queue, masked>>

\* The end of trap: back to curenv if it is READY, else the assertion panics.
TrapReturn ==
    /\ mode = "return"
    /\ \/ /\ status[curenv] = "READY"
          /\ mode' = "user"
          /\ UNCHANGED <<status, queues, sched_next, curenv, scheduler_status, masked>>
       \/ /\ status[curenv] # "READY"
          /\ Panic(status)
          /\ UNCHANGED <<env_free_list, env_new_queue, masked>>

Next ==
    \/ Load \/ LoadPanics \/ RunProgram \/ RunAll \/ KillAll
    \/ \E e \in Envs : Kill(e) \/ SysRunEnv(e)
    \/ EnvExit \/ OtherTrap \/ DisableInterrupt \/ EnableInterrupt
    \/ ClockInterrupt \/ TrapReturn

\* The timer keeps counting whenever user code runs (kclock_resume in env_run),
\* whatever traps come in between, and a trap handler ends.  That a program
\* enables interrupts again is its own duty; without it nobody else runs.
Fairness ==
    /\ SF_vars(ClockInterrupt) /\ WF_vars(TrapReturn)
    /\ SF_vars(EnableInterrupt)

Spec == Init /\ [][Next]_vars /\ Fairness

-----------------------------------------------------------------------------
\* The queues and env_status agree: an environment is on the queue its status
\* names, once, and on no other; a NEW one may be on none, when its loading
\* panicked.
QueuesMatchStatus ==
    /\ \A q \in {env_free_list, env_new_queue, env_ready_queue, env_exit_queue} : IsInjective(q)
    /\ \A e \in Envs :
          /\ Contains(env_ready_queue, e) <=> status[e] = "READY"
          /\ Contains(env_exit_queue, e) <=> status[e] = "EXIT"
          /\ Contains(env_free_list, e) <=> status[e] \in {"FREE", "UNKNOWN"}
          /\ Contains(env_new_queue, e) => status[e] = "NEW"

\* sched_next is on the ready queue, and NULL only when the queue is empty: the
\* scheduler never runs an environment that was killed, and never goes to the
\* prompt while one is ready.
SchedNextIsReady ==
    IF env_ready_queue = <<>> THEN sched_next = NoEnv
    ELSE Contains(env_ready_queue, sched_next)

\* After any sequence of creations, runs, kills, exits and panics the queues
\* describe the environments and the scheduler's pointer lies in them.
QueuesConsistent == QueuesMatchStatus /\ SchedNextIsReady

\* User code runs only in a ready environment, and the prompt is there only
\* when none is, with curenv reset and the scheduler stopped; sched_kill_env
\* and sched_run_env rely on it when they look at curenv and scheduler_status.
PromptOnlyWhenIdle ==
    /\ mode = "user" => Contains(env_ready_queue, curenv)
    /\ AtPrompt <=> curenv = NoEnv
    /\ AtPrompt <=> scheduler_status = "STOPPED"
    /\ AtPrompt => env_ready_queue = <<>>

\* How many environments come before e in the current round.
Ahead(e) ==
    (Position(env_ready_queue, e) - Position(env_ready_queue, sched_next))
        % Len(env_ready_queue)

\* Nobody is overtaken: whatever is created, run, killed or exits, an environment
\* that waits never gets more environments ahead of it, and one fewer each time
\* the processor changes hands.
NobodyOvertaken ==
    [][\A e \in Envs \ {curenv'} :
          Contains(env_ready_queue, e) /\ Contains(env_ready_queue', e) =>
             /\ Ahead(e)' <= Ahead(e)
             /\ InUser /\ InUser' => Ahead(e)' < Ahead(e)]_vars

\* Every ready environment gets the processor, or leaves the ready queue.
EveryoneRuns ==
    \A e \in Envs :
        status[e] = "READY" ~> (curenv = e /\ InUser) \/ status[e] # "READY"

-----------------------------------------------------------------------------
\* What an assertion says and the code does not do: trap only returns to a READY
\* environment (trap.c:290), since killing the current environment resets
\* curenv and reinvokes the scheduler (sched.c:466).
ReturnsToReady == mode = "return" => status[curenv] = "READY"
=============================================================================
