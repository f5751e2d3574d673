------------------------------ MODULE EnvInit ------------------------------
(***************************************************************************)
(* env_init of cs_scheduler.c with eventmgr_init of cs_eventmgr.c: which   *)
(* parts of the environment exist when some of the allocations and system  *)
(* calls fail, and what the program meets when it spawns coroutines and    *)
(* calls env_run, or calls env_init once more.  (Module Scheduler starts   *)
(* from an environment in which every call has succeeded.)                 *)
(***************************************************************************)
EXTENDS Naturals, FiniteSets

CONSTANTS MaxFail,      \* failures in one call of env_init
          MaxInit,      \* calls of env_init
          MaxSpawn      \* calls of coro_spawn

ASSUME EnvInitAssumption == MaxFail \in Nat /\ MaxInit \in Nat /\ MaxSpawn \in Nat

Global == {"g_mastersched", "g_parallelsched", "g_schedulebackadapter"}

\* The allocations and system calls, by what they provide.
Fallible == Global \cup {"master sched_coro", "parallel sched_coro", "scbd_coro",
                         "socketpair", "manager", "epoll", "events", "evmgr_coro"}

\* The results that env_init and eventmgr_init do not look at.
Unchecked == {"parallel sched_coro", "scbd_coro", "socketpair"}

VARIABLES proc,     \* "up", or how the process died
          rs,       \* the result of the last env_init; "none" before it
          have,     \* what is allocated, initialised and pointed to
          inits, spawned, running,
          ever      \* history: every call that has failed so far

vars == <<proc, rs, have, inits, spawned, running, ever>>

Init == /\ proc = "up" /\ rs = "none" /\ have = {}
        /\ inits = 0 /\ spawned = 0 /\ running = FALSE /\ ever = {}

-----------------------------------------------------------------------------
\* The result of eventmgr_init and what becomes of the process.  When evmgr_coro
\* cannot be allocated, cs_free sets the pointer to the manager to nil before
\* its field events is read: the process ends there and nothing is returned.
eventmgr_init(F) ==
  IF F \cap {"manager", "epoll", "events"} # {} THEN [rs |-> "M_ERR", proc |-> "up"]
  ELSE IF "evmgr_coro" \in F THEN [rs |-> rs, proc |-> "segv"]
  ELSE [rs |-> "M_OK", proc |-> "up"]

\* What the three blocks after the first checks set up.
SetUp(F) == Global \cup {"master sched_coro", "master queue", "parallel queue", "tree"}
                   \cup (Unchecked \ F)

\* After an early return: the new blocks, not initialised, and the static tree
\* if an earlier call got that far.
Left(F) == (Global \ F) \cup (have \cap {"tree"})

\* Mutant: the schedule-back adapter is used without a check.
AdapterUnchecked(F) ==
  /\ proc = "up" /\ ~running /\ rs # "M_OK" /\ inits < MaxInit
  /\ inits' = inits + 1 /\ ever' = ever \cup F
  /\ IF F \cap {"g_mastersched", "g_parallelsched", "master sched_coro"} # {}
       THEN rs' = "M_ERR" /\ have' = Left(F) /\ proc' = proc
     ELSE IF "g_schedulebackadapter" \in F
       THEN rs' = rs /\ have' = Left(F) /\ proc' = "segv"
     ELSE /\ have' = SetUp(F)
          /\ rs' = eventmgr_init(F).rs /\ proc' = eventmgr_init(F).proc
  /\ UNCHANGED <<spawned, running>>

\* Mutant: the master's sched_coro is not checked either.
MasterUnchecked(F) ==
  /\ proc = "up" /\ ~running /\ rs # "M_OK" /\ inits < MaxInit
  /\ inits' = inits + 1 /\ ever' = ever \cup F
  /\ IF F \cap Global # {}
       THEN rs' = "M_ERR" /\ have' = Left(F) /\ proc' = proc
       ELSE /\ have' = SetUp(F) \ F
            /\ rs' = eventmgr_init(F).rs /\ proc' = eventmgr_init(F).proc
  /\ UNCHANGED <<spawned, running>>

\* One call of env_init in which the calls F fail if they are reached.  The
\* program calls it again only when it has failed.
env_init(F) ==
  /\ proc = "up" /\ ~running /\ rs # "M_OK" /\ inits < MaxInit
  /\ inits' = inits + 1 /\ ever' = ever \cup F
  /\ IF F \cap (Global \cup {"master sched_coro"}) # {}
       THEN rs' = "M_ERR" /\ have' = Left(F) /\ proc' = proc
       ELSE /\ have' = SetUp(F)
            /\ rs' = eventmgr_init(F).rs /\ proc' = eventmgr_init(F).proc
  /\ UNCHANGED <<spawned, running>>

\* coro_spawn registers in the tree and links into the master's queue.
spawn == /\ proc = "up" /\ ~running /\ rs = "M_OK" /\ spawned < MaxSpawn
         /\ spawned' = spawned + 1
         /\ proc' = IF {"g_mastersched", "master queue", "tree"} \subseteq have
                      THEN "up" ELSE "segv"
         /\ UNCHANGED <<rs, have, inits, running, ever>>

\* env_run up to the two transfers: parallel_main reads the ctx of the
\* parallel sched_coro on its thread, env_run that of the master's.
env_run == /\ proc = "up" /\ ~running /\ rs = "M_OK"
           /\ running' = TRUE
           /\ proc' = IF ~({"g_mastersched", "g_parallelsched"} \subseteq have) THEN "abort"
                      ELSE IF ~({"master sched_coro", "parallel sched_coro"} \subseteq have)
                        THEN "segv" ELSE "up"
           /\ UNCHANGED <<rs, have, inits, spawned, ever>>

Next == \/ \E F \in SUBSET Fallible : Cardinality(F) <= MaxFail /\ env_init(F)
        \/ spawn
        \/ env_run

Spec == Init /\ [][Next]_vars

-----------------------------------------------------------------------------
\* M_OK means that the master scheduler can be used: after a retry too,
\* nothing that coro_spawn, coro_yield or sched_run reads is uninitialised.
OkMeansMaster ==
  rs = "M_OK" => Global \cup {"master sched_coro", "master queue", "parallel queue", "tree"}
                   \subseteq have

\* Every failure that env_init and eventmgr_init check leaves a process that
\* can go on, try again and start: it dies only when one of two allocations
\* has failed, the unchecked one of the parallel scheduler's sched_coro or
\* that of evmgr_coro, after which a pointer that was set to nil is followed.
CrashCause == proc # "up" => ever \cap {"parallel sched_coro", "evmgr_coro"} # {}
=============================================================================
