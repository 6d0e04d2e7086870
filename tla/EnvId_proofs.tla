---------------------------- MODULE EnvId_proofs ----------------------------
(***************************************************************************)
(* Proof that the identifiers of live environments differ, for every       *)
(* number of entries and every width of the index.  Not because            *)
(* generations grow: an entry is cleared when it is freed, so that the     *)
(* identifier of entry s is LeastGeneration + s every time.                *)
(***************************************************************************)
EXTENDS EnvId, TLAPS

\* The inductive invariant: the identifier of every entry.
IdInv ==
    /\ free_envs \subseteq Slots
    /\ env_id \in [Slots -> Int]
    /\ \A s \in Slots : env_id[s] = IF s \in free_envs THEN 0 ELSE LeastGeneration + s

\* A cleared entry gets the same identifier again.
LEMMA NewIdIs ==
    ASSUME IdInv, NEW s \in free_envs
    PROVE  NewId(s) = LeastGeneration + s
  <1>1. /\ env_id[s] = 0 /\ LeastGeneration \in Nat /\ LeastGeneration > 0 /\ LeastGeneration <= MaxInt
        /\ s \in 0 .. LeastGeneration - 1 /\ NENV - 1 \in 0 .. LeastGeneration - 1
    BY NumberAssumption DEF IdInv
  <1>2. Generation(env_id[s]) = LeastGeneration
    BY <1>1, BitAssumption, NumberAssumption DEF Generation
  <1> QED
    BY <1>1, <1>2, BitAssumption DEF NewId

\* The invariant is inductive.
LEMMA IdsInductive == IdSpec => []IdInv
  <1>0. LeastGeneration \in Nat /\ Slots \subseteq Nat
    BY NumberAssumption
  <1>1. IdInit => IdInv
    BY DEF IdInit, IdInv
  <1>2. IdInv /\ [IdNext]_idVars => IdInv'
    <2> SUFFICES ASSUME IdInv, [IdNext]_idVars PROVE IdInv'
      OBVIOUS
    <2>1. ASSUME NEW s \in Slots, CreateEnv(s) PROVE IdInv'
      <3>1. NewId(s) = LeastGeneration + s
        BY <2>1, NewIdIs DEF CreateEnv
      <3> QED
        BY <1>0, <2>1, <3>1 DEF CreateEnv, IdInv
    <2>2. ASSUME NEW s \in Slots, FreeEnv(s) PROVE IdInv'
      BY <1>0, <2>2 DEF FreeEnv, IdInv
    <2>3. ASSUME NEW s, SwitchTo(s) PROVE IdInv'
      BY <2>3 DEF SwitchTo, IdInv
    <2>4. CASE UNCHANGED idVars
      BY <2>4 DEF idVars, IdInv
    <2> QED
      BY <2>1, <2>2, <2>3, <2>4 DEF IdNext
  <1> QED
    BY <1>1, <1>2, PTL DEF IdSpec

\* The identifiers of live environments are positive and differ.
THEOREM IdsCorrect == IdSpec => []LiveIdsDistinct
  <1>1. IdInv => LiveIdsDistinct
    BY NumberAssumption DEF LiveIdsDistinct, IdInv
  <1> QED
    BY <1>1, IdsInductive, PTL
=============================================================================
