--------------------------- MODULE EnvInitProofs ---------------------------
(***************************************************************************)
(* Proofs about EnvInit, for every bound on failures, retries and spawns.  *)
(* What M_OK promises is not enough by itself to say when the process may  *)
(* die: the induction also remembers why the unchecked sched_coro of the   *)
(* parallel scheduler is missing.                                          *)
(***************************************************************************)
EXTENDS EnvInit, TLAPS

\* After M_OK the only thing env_run reads that can be missing is the parallel
\* scheduler's sched_coro, and then its allocation has failed.
MissingHasFailed ==
  rs = "M_OK" /\ "parallel sched_coro" \notin have => "parallel sched_coro" \in ever

\* The inductive invariant.
IInv == OkMeansMaster /\ MissingHasFailed /\ CrashCause

\* The initial environment satisfies it: env_init has not been called.
LEMMA InitInv == Init => IInv
  BY DEF Init, IInv, OkMeansMaster, MissingHasFailed, CrashCause

\* env_init keeps the invariant, whichever of its calls fail: an early return
\* is an M_ERR, and a death needs a failed evmgr_coro.
LEMMA EnvInitStep ==
  ASSUME IInv, NEW F \in SUBSET Fallible, env_init(F)
  PROVE  IInv'
<1>1. CASE F \cap (Global \cup {"master sched_coro"}) # {}
  BY <1>1 DEF env_init, IInv, OkMeansMaster, MissingHasFailed, CrashCause
<1>2. CASE F \cap (Global \cup {"master sched_coro"}) = {}
  <2>1. rs' = eventmgr_init(F).rs /\ proc' = eventmgr_init(F).proc
    BY <1>2 DEF env_init
  <2>2. proc' # "up" => "evmgr_coro" \in F
    BY <2>1 DEF eventmgr_init
  <2>3. have' = SetUp(F) /\ ever' = ever \cup F
    BY <1>2 DEF env_init
  <2>4. OkMeansMaster'
    BY <2>3 DEF SetUp, OkMeansMaster
  <2>5. MissingHasFailed'
    BY <2>3 DEF SetUp, Unchecked, MissingHasFailed
  <2>6. CrashCause'
    BY <2>2, <2>3 DEF CrashCause
  <2> QED BY <2>4, <2>5, <2>6 DEF IInv
<1> QED BY <1>1, <1>2

\* coro_spawn finds its queue and its tree, and so never ends the process.
LEMMA SpawnStep ==
  ASSUME IInv, spawn
  PROVE  IInv'
<1>1. {"g_mastersched", "master queue", "tree"} \subseteq have
  BY DEF IInv, OkMeansMaster, spawn, Global
<1>2. proc' = "up"
  BY <1>1 DEF spawn
<1> QED BY <1>2 DEF IInv, OkMeansMaster, MissingHasFailed, CrashCause, spawn

\* env_run ends the process only for want of the parallel sched_coro.
LEMMA EnvRunStep ==
  ASSUME IInv, env_run
  PROVE  IInv'
<1>1. {"g_mastersched", "g_parallelsched", "master sched_coro"} \subseteq have
  BY DEF IInv, OkMeansMaster, env_run, Global
<1>2. proc' # "up" => "parallel sched_coro" \notin have
  BY <1>1 DEF env_run
<1>3. proc' # "up" => "parallel sched_coro" \in ever
  BY <1>2 DEF IInv, MissingHasFailed, env_run
<1> QED BY <1>3 DEF IInv, OkMeansMaster, MissingHasFailed, CrashCause, env_run

\* The invariant always holds.
LEMMA Invariance == Spec => []IInv
<1>1. IInv /\ UNCHANGED vars => IInv'
  BY DEF IInv, OkMeansMaster, MissingHasFailed, CrashCause, vars
<1>2. IInv /\ Next => IInv'
  BY EnvInitStep, SpawnStep, EnvRunStep DEF Next
<1> QED BY InitInv, <1>1, <1>2, PTL DEF Spec

\* However often env_init fails and is called again, and whichever of its calls
\* fail, M_OK means that the master scheduler can be used.
THEOREM OkIsUsable == Spec => []OkMeansMaster
<1>1. IInv => OkMeansMaster  BY DEF IInv
<1> QED BY Invariance, <1>1, PTL

\* The process dies in env_init, coro_spawn or env_run only after the
\* allocation of the parallel sched_coro or of evmgr_coro has failed.
THEOREM DeathsHaveTwoCauses == Spec => []CrashCause
<1>1. IInv => CrashCause  BY DEF IInv
<1> QED BY Invariance, <1>1, PTL
=============================================================================
