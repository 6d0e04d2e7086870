------------------------------- MODULE EnvId --------------------------------
(***************************************************************************)
(* Environment identifiers: how complete_environment_initialization makes  *)
(* one, free_environment clears it and envid2env finds the environment it  *)
(* names, with the real numbers: NENV is (PTSIZE/4) / sizeof(struct Env),  *)
(* which is 1048576 \div 760 = 1379 and not a power of two.                *)
(***************************************************************************)
EXTENDS Integers

CONSTANTS
    NENV,           \* entries of envs[]
    ENVGENSHIFT,
    MaxInt,         \* the greatest int32
    Slots,          \* the entries of envs[] that this instance uses
    BitAnd(_, _),   \* the bit operations of the processor on int32, for numbers
    BitOr(_, _)     \* that are not negative

\* 1 << ENVGENSHIFT
LeastGeneration == 2 ^ ENVGENSHIFT

ASSUME NumberAssumption ==
    /\ NENV \in Nat \ {0} /\ MaxInt \in Nat /\ LeastGeneration \in NENV .. MaxInt
    /\ Slots \subseteq 0 .. NENV - 1

\* It has a single bit, above those of every number below it.
ASSUME BitAssumption ==
    \A x \in 0 .. LeastGeneration - 1 :
        BitAnd(LeastGeneration, x) = 0 /\ BitOr(LeastGeneration, x) = LeastGeneration + x

VARIABLES
    env_id,     \* envs[i].env_id
    free_envs,  \* the entries with status ENV_FREE
    running,    \* curenv, which may also point to a freed entry, or NULL
    dead        \* history: the identifiers of the environments that were freed

idVars == <<env_id, free_envs, running, dead>>

NoEnvironment == -1

IdInit ==
    /\ env_id = [s \in Slots |-> 0]
    /\ free_envs = Slots
    /\ running = NoEnvironment
    /\ dead = {}

\* (e->env_id + (1 << ENVGENSHIFT)) & ~(NENV - 1), kept positive.
Generation(id) ==
    LET sum == id + LeastGeneration
        g == sum - BitAnd(sum, NENV - 1)
    IN  IF g <= 0 \/ g > MaxInt THEN LeastGeneration ELSE g

\* Mutant of NewId: the index is left out.
NewId_NoIndex(s) == Generation(env_id[s])

NewId(s) == BitOr(Generation(env_id[s]), s)

ENVX(id) == BitAnd(id, NENV - 1)

\* complete_environment_initialization on entry s.
CreateEnv(s) ==
    /\ s \in free_envs
    /\ free_envs' = free_envs \ {s}
    /\ env_id' = [env_id EXCEPT ![s] = NewId(s)]
    /\ UNCHANGED <<running, dead>>

\* free_environment: memset clears env_id too.
FreeEnv(s) ==
    /\ s \notin free_envs
    /\ free_envs' = free_envs \cup {s}
    /\ env_id' = [env_id EXCEPT ![s] = 0]
    /\ dead' = dead \cup {env_id[s]}
    /\ UNCHANGED running

\* The scheduler: any environment that is not free, or none.
SwitchTo(s) ==
    /\ s \in (Slots \ free_envs) \cup {NoEnvironment}
    /\ running' = s
    /\ UNCHANGED <<env_id, free_envs, dead>>

IdNext ==
    \/ \E s \in Slots : CreateEnv(s) \/ FreeEnv(s)
    \/ \E s \in Slots \cup {NoEnvironment} : SwitchTo(s)

IdSpec == IdInit /\ [][IdNext]_idVars

\* The environment an identifier names, or NULL for E_BAD_ENV.  Entries that are
\* not in Slots are free.
envid2env(id) ==
    IF id = 0 THEN running
    ELSE LET e == ENVX(id)
         IN  IF e \notin Slots \/ e \in free_envs \/ env_id[e] # id THEN NoEnvironment ELSE e

-----------------------------------------------------------------------------
\* No two live environments have the same identifier, although NENV - 1, with
\* which it is put together, is no mask of low bits; and none has 0: the queues
\* are searched by env_id, and 0 means the caller itself.
LiveIdsDistinct ==
    \A s, t \in Slots \ free_envs :
        env_id[s] > 0 /\ (env_id[s] = env_id[t] => s = t)

\* kern/helpers.c:417-421, envid2env checks the identifier "to ensure that the
\* envid is not stale (i.e., does not refer to a _previous_ environment that used
\* the same slot in the envs[] array)": that of a dead environment finds nothing.
StaleIdsRejected == \A id \in dead : envid2env(id) = NoEnvironment
=============================================================================
