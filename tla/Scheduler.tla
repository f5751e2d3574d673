----------------------------- MODULE Scheduler -----------------------------
(***************************************************************************)
(* The two schedulers of cs_scheduler.c and the coroutine operations of    *)
(* cs_coroutine.c, from the return of env_init on.  Two threads run:       *)
(*   - the main thread: the program's main, env_run, then sched_run and    *)
(*     the coroutines it switches to (mpc says where it is);               *)
(*   - the parallel thread: parallel_main, then parallel_run and the       *)
(*     coroutine it switched to (ppc).                                     *)
(* They share g_mutex, the parallel queue and a coroutine that is handed   *)
(* over.  A step of the model is the code between two points where the     *)
(* other thread can interfere; what a thread does to its own state only    *)
(* belongs to the step it is part of.                                      *)
(*                                                                         *)
(* The program that uses the library is arbitrary: its coroutines make any *)
(* sequence of the calls listed in the constant Uses.  A failed ASSERT     *)
(* (compiled in by -DCS_ASSERT_PANIC) or a NULL dereference ends the       *)
(* process: proc records it and nothing happens afterwards.                *)
(***************************************************************************)
EXTENDS TailQueue

CONSTANTS g_mastersched, g_parallelsched,   \* the two schedulers' queue heads
          Uses                              \* the calls the program makes

ASSUME SchedulerAssumption == /\ Queue = {g_mastersched, g_parallelsched}
                              /\ g_mastersched # g_parallelsched

VARIABLES proc,            \* "up", or how the process died
          mpc, ppc,        \* where the main and the parallel thread are
          mutex,           \* the owner of g_mutex, or "free"
          stop,            \* g_mastersched->stop
          current_coro,    \* g_mastersched->current_coro
          pick, pco,       \* local c of sched_run, local co of parallel_run
          tq,              \* both wait_sched_queues and every ws_tqe entry
          qs,              \* history: what has been inserted and not popped
          status, sched, need_parallel,     \* fields of a coroutine
          alloc,           \* the allocated coroutine blocks
          coroutine_rbt,   \* the registered coroutines (see module RBTree)
          parked,          \* the program's own list of suspended coroutines
          chan             \* the words in the schedule-back socket

mvars == <<mpc, stop, current_coro, pick>>
pvars == <<ppc, pco, chan>>
qvars == <<tq, qs>>
cvars == <<status, sched, need_parallel, alloc, coroutine_rbt, parked>>
vars == <<proc, mutex, mvars, pvars, qvars, cvars>>

Coro == Elem

\* g_eventmgr is passed BY VALUE to eventmgr_init, which stores the new
\* manager in its own parameter: the global pointer stays nil for ever.
g_eventmgr == NULL

\* g_parallelsched->current_coro is set to nil by env_init and never again.
Current(s) == IF s = g_mastersched THEN current_coro ELSE NULL

(***************************************************************************)
(* env_init leaves both queues empty, both stop flags clear, the tree      *)
(* empty and the socket pair without data.                                 *)
(***************************************************************************)
Init == /\ proc = "up" /\ mpc = "main" /\ ppc = "none" /\ mutex = "free"
        /\ stop = FALSE /\ current_coro = NULL /\ pick = NULL /\ pco = NULL
        /\ tq = TAILQ_INIT
        /\ qs = [q \in Queue |-> << >>]
        /\ status = [c \in Coro |-> "FREE"]
        /\ sched = [c \in Coro |-> NULL]
        /\ need_parallel = [c \in Coro |-> FALSE]
        /\ alloc = {} /\ coroutine_rbt = {} /\ parked = {} /\ chan = << >>

-----------------------------------------------------------------------------
(***************************************************************************)
(* Building blocks.                                                        *)
(***************************************************************************)
Die(how) == /\ proc' = how
            /\ UNCHANGED <<mutex, mvars, pvars, qvars, cvars>>

\* Mutant: a coroutine that becomes ready overtakes the waiting ones.
InsertsAtHead(q, c) == /\ tq' = TAILQ_INSERT_HEAD(tq, q, c)
                       /\ qs' = [qs EXCEPT ![q] = <<c>> \o qs[q]]

insert_tail(q, c) == /\ tq' = TAILQ_INSERT_TAIL(tq, q, c)
                     /\ qs' = [qs EXCEPT ![q] = Append(qs[q], c)]

insert_head(q, c) == /\ tq' = TAILQ_INSERT_HEAD(tq, q, c)
                     /\ qs' = [qs EXCEPT ![q] = <<c>> \o qs[q]]

pop(q, c) == /\ c = TAILQ_FIRST(tq, q)
             /\ tq' = TAILQ_REMOVE(tq, q, c)
             /\ qs' = [qs EXCEPT ![q] = IF qs[q] = << >> THEN << >> ELSE Tail(qs[q])]

\* Mutant: the stricter ASSERT that coro_ready carries in a comment.
CanReadyStrict(c) == status[c] \in {"FREE", "RUN"}

\* Mutant: coro_ready_immediatly without its ASSERT.
CanReadyAlways(c) == TRUE

\* The ASSERT of coro_ready and of coro_ready_immediatly.
CanReady(c)           == status[c] # "EXIT"
CanReadyImmediatly(c) == status[c] \in {"FREE", "RUN"}

\* The coroutine that has the main thread calls an operation of the library.
Running(call) == /\ proc = "up" /\ mpc = "run"
                 /\ call \in Uses

-----------------------------------------------------------------------------
(***************************************************************************)
(* The program's main and env_run.                                         *)
(***************************************************************************)
\* coro_alloc, registration in the tree and coro_ready.  A failed allocation
\* returns M_ERR and changes nothing.
coro_spawn(s, c) ==
  /\ c \notin alloc
  /\ alloc' = alloc \cup {c}
  /\ coroutine_rbt' = coroutine_rbt \cup {c}
  /\ status' = [status EXCEPT ![c] = "READY"]
  /\ sched' = [sched EXCEPT ![c] = s]
  /\ need_parallel' = [need_parallel EXCEPT ![c] = FALSE]
  /\ insert_tail(s, c)
  /\ UNCHANGED <<proc, mutex, mvars, pvars, parked>>

main_spawn(s, c) ==
  /\ proc = "up" /\ mpc = "main"
  /\ s = g_parallelsched => "spawn_parallel" \in Uses
  /\ coro_spawn(s, c)

\* pthread_create succeeds: parallel_main starts.
env_run ==
  /\ proc = "up" /\ mpc = "main"
  /\ mpc' = "env_lock"
  /\ ppc' = "main_lock"
  /\ UNCHANGED <<proc, mutex, stop, current_coro, pick, pco, chan, qvars, cvars>>

\* pthread_create fails: env_run returns M_ERR.
env_run_fails ==
  /\ proc = "up" /\ mpc = "main"
  /\ mpc' = "failed"
  /\ UNCHANGED <<proc, mutex, stop, current_coro, pick, pvars, qvars, cvars>>

env_run_lock ==
  /\ proc = "up" /\ mpc = "env_lock" /\ mutex = "free"
  /\ mutex' = "master"
  /\ mpc' = "env_crit"
  /\ UNCHANGED <<proc, stop, current_coro, pick, pvars, qvars, cvars>>

\* Both log lines, the unlock and the transfer to sched_run.
env_run_unlock ==
  /\ proc = "up" /\ mpc = "env_crit"
  /\ mutex' = "free"
  /\ mpc' = "sched"
  /\ UNCHANGED <<proc, stop, current_coro, pick, pvars, qvars, cvars>>

-----------------------------------------------------------------------------
(***************************************************************************)
(* sched_run, on the main thread.                                          *)
(***************************************************************************)
\* Mutant: the loop ends when a single coroutine is left.
ExitsEarly ==
  /\ proc = "up" /\ mpc = "sched"
  /\ \/ stop
     \/ TAILQ_EMPTY(tq, g_mastersched)
     \/ tq.back[g_mastersched] = TAILQ_FIRST(tq, g_mastersched)
  /\ mpc' = "returned"
  /\ UNCHANGED <<proc, mutex, stop, current_coro, pick, pvars, qvars, cvars>>

\* The loop ends: stop is set or nothing waits.  env_run returns M_OK.
sched_run_exit ==
  /\ proc = "up" /\ mpc = "sched"
  /\ stop \/ TAILQ_EMPTY(tq, g_mastersched)
  /\ mpc' = "returned"
  /\ UNCHANGED <<proc, mutex, stop, current_coro, pick, pvars, qvars, cvars>>

\* TAILQ_REMOVE stores through the tqe_prev of an entry that is not linked.
sched_run_faults ==
  /\ proc = "up" /\ mpc = "sched" /\ ~stop
  /\ ~TAILQ_EMPTY(tq, g_mastersched)
  /\ RemoveFaults(tq, TAILQ_FIRST(tq, g_mastersched))
  /\ Die("segv")

\* Mutant: a coroutine that asks for the parallel scheduler runs here.
PopIgnoresParallel(c) ==
  /\ proc = "up" /\ mpc = "sched" /\ ~stop
  /\ ~TAILQ_EMPTY(tq, g_mastersched)
  /\ c = TAILQ_FIRST(tq, g_mastersched)
  /\ ~RemoveFaults(tq, c)
  /\ pop(g_mastersched, c)
  /\ pick' = c /\ current_coro' = c /\ mpc' = "run"
  /\ status' = [status EXCEPT ![c] = "RUN"]
  /\ UNCHANGED <<proc, mutex, stop, pvars, sched, need_parallel, alloc, coroutine_rbt,
                 parked>>

sched_run_pop(c) ==
  /\ proc = "up" /\ mpc = "sched" /\ ~stop
  /\ ~TAILQ_EMPTY(tq, g_mastersched)
  /\ c = TAILQ_FIRST(tq, g_mastersched)
  /\ ~RemoveFaults(tq, c)
  /\ pop(g_mastersched, c)
  /\ pick' = c
  /\ IF need_parallel[c]
       THEN mpc' = "sent" /\ UNCHANGED <<status, current_coro>>
       ELSE /\ mpc' = "run"
            /\ status' = [status EXCEPT ![c] = "RUN"]
            /\ current_coro' = c
  /\ UNCHANGED <<proc, mutex, stop, pvars, sched, need_parallel, alloc, coroutine_rbt,
                 parked>>

\* Mutant: the freed coroutine stays in the tree.
BackWithoutDelete ==
  /\ proc = "up" /\ mpc = "back"
  /\ mpc' = "sched" /\ current_coro' = NULL /\ pick' = NULL
  /\ alloc' = IF status[pick] = "EXIT" THEN alloc \ {pick} ELSE alloc
  /\ UNCHANGED <<proc, mutex, stop, pvars, qvars, status, sched, need_parallel,
                 coroutine_rbt, parked>>

\* A coroutine has switched back to sched_coro.  What is examined, and freed
\* when it has exited, is the coroutine this iteration popped.
sched_run_back ==
  /\ proc = "up" /\ mpc = "back"
  /\ mpc' = "sched"
  /\ current_coro' = NULL
  /\ pick' = NULL
  /\ IF status[pick] = "EXIT"
       THEN /\ coroutine_rbt' = coroutine_rbt \ {pick}
            /\ alloc' = alloc \ {pick}
       ELSE UNCHANGED <<coroutine_rbt, alloc>>
  /\ UNCHANGED <<proc, mutex, stop, pvars, qvars, status, sched, need_parallel, parked>>

\* Mutant: the result of pthread_mutex_trylock is ignored.
SentIgnoresTrylock ==
  /\ proc = "up" /\ mpc = "sent"
  /\ mutex' = "master"
  /\ mpc' = "sent_crit"
  /\ UNCHANGED <<proc, stop, current_coro, pick, pvars, qvars, cvars>>

\* pthread_mutex_trylock of coro_sent_parallel.  When it fails, sched_run goes
\* on with the next coroutine: the popped one is in no queue any more.
coro_sent_parallel_trylock ==
  /\ proc = "up" /\ mpc = "sent"
  /\ IF mutex = "free"
       THEN /\ mutex' = "master"
            /\ mpc' = "sent_crit"
            /\ UNCHANGED <<sched, pick>>
       ELSE /\ sched' = [sched EXCEPT ![pick] = g_mastersched]
            /\ mpc' = "sched"
            /\ pick' = NULL
            /\ mutex' = mutex
  /\ UNCHANGED <<proc, stop, current_coro, pvars, qvars, status, need_parallel, alloc,
                 coroutine_rbt, parked>>

\* The rest of coro_sent_parallel, under the mutex.
coro_sent_parallel ==
  /\ proc = "up" /\ mpc = "sent_crit"
  /\ sched' = [sched EXCEPT ![pick] = g_parallelsched]
  /\ insert_head(g_parallelsched, pick)
  /\ mutex' = "free"
  /\ mpc' = "sent_ok"
  /\ UNCHANGED <<proc, stop, current_coro, pick, pvars, status, need_parallel, alloc,
                 coroutine_rbt, parked>>

\* sched_run calls coro_ready_immediatly on the coroutine it has just handed
\* over.
sched_run_sent ==
  /\ proc = "up" /\ mpc = "sent_ok"
  /\ IF CanReadyImmediatly(pick)
       THEN /\ status' = [status EXCEPT ![pick] = "READY"]
            /\ insert_head(sched[pick], pick)
            /\ mpc' = "sched"
            /\ pick' = NULL
            /\ UNCHANGED <<proc, mutex, stop, current_coro, pvars, sched, need_parallel,
                           alloc, coroutine_rbt, parked>>
       ELSE Die("abort")

-----------------------------------------------------------------------------
(***************************************************************************)
(* What a coroutine on the main thread may call.                           *)
(***************************************************************************)
\* A coroutine spawns on the master scheduler.  coro_spawn(g_parallelsched, ...)
\* is modelled for the program's main only, before the parallel thread exists: a
\* coroutine that calls it writes the parallel queue without g_mutex, store by
\* store against parallel_run, and such programs are outside this model.
spawn(c) == Running("coro_spawn") /\ coro_spawn(g_mastersched, c)

\* The program writes the field that asks for the parallel scheduler.
set_need_parallel ==
  /\ Running("need_parallel")
  /\ need_parallel' = [need_parallel EXCEPT ![current_coro] = TRUE]
  /\ UNCHANGED <<proc, mutex, mvars, pvars, qvars, status, sched, alloc, coroutine_rbt,
                 parked>>

\* Mutant: coro_yield switches away without coro_ready.
YieldWithoutReady ==
  /\ Running("coro_yield")
  /\ mpc' = "back"
  /\ UNCHANGED <<proc, mutex, stop, current_coro, pick, pvars, qvars, cvars>>

coro_yield ==
  /\ Running("coro_yield")
  /\ LET co == current_coro IN
     IF co = Current(sched[co]) /\ CanReady(co)
       THEN /\ status' = [status EXCEPT ![co] = "READY"]
            /\ insert_tail(sched[co], co)
            /\ mpc' = "back"
            /\ UNCHANGED <<proc, mutex, stop, current_coro, pick, pvars, sched,
                           need_parallel, alloc, coroutine_rbt, parked>>
       ELSE Die("abort")

\* Mutant: coro_exit makes the coroutine ready before it marks it M_EXIT.
ExitAlsoReadies ==
  /\ Running("coro_exit")
  /\ insert_tail(sched[current_coro], current_coro)
  /\ status' = [status EXCEPT ![current_coro] = "EXIT"]
  /\ mpc' = "back"
  /\ UNCHANGED <<proc, mutex, stop, current_coro, pick, pvars, sched, need_parallel,
                 alloc, coroutine_rbt, parked>>

coro_exit ==
  /\ Running("coro_exit")
  /\ LET co == current_coro IN
     IF co = Current(sched[co])
       THEN /\ status' = [status EXCEPT ![co] = "EXIT"]
            /\ mpc' = "back"
            /\ UNCHANGED <<proc, mutex, stop, current_coro, pick, pvars, qvars, sched,
                           need_parallel, alloc, coroutine_rbt, parked>>
       ELSE Die("abort")

\* The coroutine's function returns: coro_init of cs_coro.c calls abort.
fn_returns == Running("return") /\ Die("abort")

\* coro_switch to sched_coro without becoming ready: some other coroutine is
\* expected to call coro_ready later.
suspend ==
  /\ Running("suspend")
  /\ parked' = parked \cup {current_coro}
  /\ mpc' = "back"
  /\ UNCHANGED <<proc, mutex, stop, current_coro, pick, pvars, qvars, status, sched,
                 need_parallel, alloc, coroutine_rbt>>

\* coro_ready on a suspended coroutine, found with sched_get_coro.
coro_ready(c) ==
  /\ Running("suspend")
  /\ c \in parked /\ c \in coroutine_rbt
  /\ IF CanReady(c)
       THEN /\ parked' = parked \ {c}
            /\ status' = [status EXCEPT ![c] = "READY"]
            /\ insert_tail(sched[c], c)
            /\ UNCHANGED <<proc, mutex, mvars, pvars, sched, need_parallel, alloc,
                           coroutine_rbt>>
       ELSE Die("abort")

\* The caller becomes ready and the first waiting coroutine runs at once,
\* without passing through sched_run and without becoming M_RUN.  One that
\* asks for the parallel scheduler goes to coro_switch_to_parallel, whose
\* ASSERTs fail: it is M_READY, and it is not the current coroutine.  An
\* M_EXIT coroutine is skipped and the loop tries the next one.
sched_run_once(c) ==
  /\ Running("sched_run_once")
  /\ ~stop /\ ~TAILQ_EMPTY(tq, g_mastersched)
  /\ c = TAILQ_FIRST(tq, g_mastersched)
  /\ IF RemoveFaults(tq, c)
       THEN Die("segv")
     ELSE IF status[c] = "EXIT"
       THEN /\ pop(g_mastersched, c)
            /\ UNCHANGED <<proc, mutex, mvars, pvars, cvars>>
     ELSE IF need_parallel[c] \/ ~CanReady(current_coro)
       THEN Die("abort")
     ELSE /\ status' = [status EXCEPT ![current_coro] = "READY"]
          /\ tq' = TAILQ_INSERT_TAIL(TAILQ_REMOVE(tq, g_mastersched, c),
                                     sched[current_coro], current_coro)
          /\ qs' = [qs EXCEPT ![g_mastersched] = Append(Tail(qs[g_mastersched]),
                                                        current_coro)]
          /\ current_coro' = c
          /\ UNCHANGED <<proc, mutex, mpc, stop, pick, pvars, sched, need_parallel, alloc,
                         coroutine_rbt, parked>>

\* coro_ready_immediatly and then coro_yield, which makes it ready again.
coro_switch_to_parallel ==
  /\ Running("coro_switch_to_parallel")
  /\ need_parallel[current_coro]
  /\ IF CanReadyImmediatly(current_coro)
       THEN LET co == current_coro
                q  == sched[co]
            IN  /\ status' = [status EXCEPT ![co] = "READY"]
                /\ tq' = TAILQ_INSERT_TAIL(TAILQ_INSERT_HEAD(tq, q, co), q, co)
                /\ qs' = [qs EXCEPT ![q] = Append(<<co>> \o qs[q], co)]
                /\ mpc' = "back"
                /\ UNCHANGED <<proc, mutex, stop, current_coro, pick, pvars, sched,
                               need_parallel, alloc, coroutine_rbt, parked>>
       ELSE Die("abort")

\* stop is set, and then the stop field of the event manager.
env_stop ==
  /\ Running("env_stop")
  /\ stop' = TRUE
  /\ proc' = IF g_eventmgr = NULL THEN "segv" ELSE "up"
  /\ UNCHANGED <<mutex, mpc, current_coro, pick, pvars, qvars, cvars>>

\* ASSERT(eventmgr), then epoll_ctl and coro_yield.
register_event ==
  /\ Running("register_event")
  /\ IF g_eventmgr = NULL \/ ~CanReady(current_coro)
       THEN Die("abort")
       ELSE /\ status' = [status EXCEPT ![current_coro] = "READY"]
            /\ insert_tail(sched[current_coro], current_coro)
            /\ mpc' = "back"
            /\ UNCHANGED <<proc, mutex, stop, current_coro, pick, pvars, sched,
                           need_parallel, alloc, coroutine_rbt, parked>>

-----------------------------------------------------------------------------
(***************************************************************************)
(* The parallel thread.                                                    *)
(***************************************************************************)
parallel_main_lock ==
  /\ proc = "up" /\ ppc = "main_lock" /\ mutex = "free"
  /\ mutex' = "parallel"
  /\ ppc' = "main_crit"
  /\ UNCHANGED <<proc, mvars, pco, chan, qvars, cvars>>

parallel_main_unlock ==
  /\ proc = "up" /\ ppc = "main_crit"
  /\ mutex' = "free"
  /\ ppc' = "loop"
  /\ UNCHANGED <<proc, mvars, pco, chan, qvars, cvars>>

\* pthread_mutex_trylock of parallel_run.
parallel_run_trylock ==
  /\ proc = "up" /\ ppc = "loop" /\ mutex = "free"
  /\ mutex' = "parallel"
  /\ ppc' = "crit"
  /\ UNCHANGED <<proc, mvars, pco, chan, qvars, cvars>>

\* A failed trylock, possibly on a mutex this same thread holds, is followed
\* by usleep and another try.
parallel_run_busy ==
  /\ proc = "up" /\ ppc = "loop" /\ mutex # "free"
  /\ UNCHANGED vars

\* Nothing waits: usleep and continue.  The mutex is not released.
parallel_run_empty ==
  /\ proc = "up" /\ ppc = "crit"
  /\ TAILQ_EMPTY(tq, g_parallelsched)
  /\ ppc' = "loop"
  /\ UNCHANGED <<proc, mutex, mvars, pco, chan, qvars, cvars>>

\* The coroutine runs with the mutex held.
parallel_run_pop(c) ==
  /\ proc = "up" /\ ppc = "crit"
  /\ ~TAILQ_EMPTY(tq, g_parallelsched)
  /\ pop(g_parallelsched, c)
  /\ pco' = c
  /\ ppc' = "run"
  /\ UNCHANGED <<proc, mutex, mvars, chan, cvars>>

\* coro_yield or coro_exit on the parallel thread: the ASSERT that the caller
\* is its scheduler's current_coro fails.
parallel_yield_or_exit ==
  /\ proc = "up" /\ ppc = "run"
  /\ pco # Current(sched[pco])
  /\ Die("abort")

\* The coroutine switches to the parallel sched_coro by itself.
parallel_coro_switch ==
  /\ proc = "up" /\ ppc = "run"
  /\ ppc' = "back"
  /\ UNCHANGED <<proc, mutex, mvars, pco, chan, qvars, cvars>>

\* coro_switch_to_master: a pointer's worth of bytes of *co, which starts with
\* tqe_next, is sent, or nothing when the socket is full.  The count sent is
\* compared with sizeof(struct coroutine): always M_ERR, and sched is reset.
coro_switch_to_master ==
  /\ proc = "up" /\ ppc = "back"
  /\ chan' \in {chan, Append(chan, tq.link[pco])}
  /\ sched' = [sched EXCEPT ![pco] = g_parallelsched]
  /\ ppc' = "loop"
  /\ pco' = NULL
  /\ UNCHANGED <<proc, mutex, mvars, qvars, status, need_parallel, alloc, coroutine_rbt,
                 parked>>

-----------------------------------------------------------------------------
\* The process is gone, or main has returned.
Terminated == /\ proc # "up" \/ mpc \in {"returned", "failed"}
              /\ UNCHANGED vars

EnvRun == env_run \/ env_run_lock \/ env_run_unlock

SchedRun == \/ sched_run_exit
            \/ sched_run_faults
            \/ \E c \in Coro : sched_run_pop(c)
            \/ sched_run_back
            \/ coro_sent_parallel_trylock
            \/ coro_sent_parallel
            \/ sched_run_sent

\* The running coroutine gives the processor back to sched_run.
GiveUp == coro_yield \/ coro_exit \/ suspend

Calls == \/ \E c \in Coro : spawn(c) \/ coro_ready(c) \/ sched_run_once(c)
         \/ set_need_parallel
         \/ GiveUp
         \/ coro_switch_to_parallel
         \/ fn_returns
         \/ env_stop
         \/ register_event

Parallel == /\ mpc \notin {"returned", "failed"}
            /\ \/ parallel_main_lock
               \/ parallel_main_unlock
               \/ parallel_run_trylock
               \/ parallel_run_busy
               \/ parallel_run_empty
               \/ \E c \in Coro : parallel_run_pop(c)
               \/ parallel_yield_or_exit
               \/ parallel_coro_switch
               \/ coro_switch_to_master

Next == \/ \E s \in Queue, c \in Coro : main_spawn(s, c)
        \/ EnvRun \/ env_run_fails
        \/ SchedRun
        \/ Calls
        \/ Parallel
        \/ Terminated

Spec == Init /\ [][Next]_vars

\* The threads are scheduled by the kernel, and coroutines are cooperative.
Fairness == WF_vars(EnvRun \/ SchedRun) /\ WF_vars(GiveUp) /\ WF_vars(Parallel)

FairSpec == Spec /\ Fairness

-----------------------------------------------------------------------------
(***************************************************************************)
(* Properties.                                                             *)
(***************************************************************************)
Waiting(q)    == Members(qs[q])
Queued(c)     == \E q \in Queue : c \in Waiting(q)
OnMain(c)     == mpc = "run" /\ c = current_coro
OnParallel(c) == ppc \in {"run", "back"} /\ c = pco
InHandoff(c)  == mpc \in {"sent", "sent_crit"} /\ c = pick
Retiring(c)   == mpc = "back" /\ c = current_coro /\ status[c] = "EXIT"

\* Type correctness of the schedulers, the two threads and the coroutines.
TypeOK ==
  /\ proc \in {"up", "abort", "segv"}
  /\ mpc \in {"main", "env_lock", "env_crit", "sched", "run", "back", "sent", "sent_crit",
              "sent_ok", "returned", "failed"}
  /\ ppc \in {"none", "main_lock", "main_crit", "loop", "crit", "run", "back"}
  /\ mutex \in {"free", "master", "parallel"}
  /\ stop \in BOOLEAN
  /\ current_coro \in Coro \cup {NULL}
  /\ pick \in Coro \cup {NULL}
  /\ pco \in Coro \cup {NULL}
  /\ tq \in TailQueueType
  /\ qs \in [Queue -> Seq(Coro)]
  /\ status \in [Coro -> {"FREE", "READY", "RUN", "EXIT"}]
  /\ sched \in [Coro -> Queue \cup {NULL}]
  /\ need_parallel \in [Coro -> BOOLEAN]
  /\ alloc \subseteq Coro /\ coroutine_rbt \subseteq Coro /\ parked \subseteq Coro
  /\ chan \in Seq(Coro \cup {NULL})

\* However spawn, yield, exit, wake-ups, direct switches and hand-overs to
\* the other thread interleave, the pointers of both wait_sched_queues hold
\* exactly the coroutines made ready and not yet taken, in order.
QueuesSound == \A q \in Queue : Holds(tq, q, qs[q])

\* A coroutine is in one place: in one of the two queues, running on one of
\* the two threads, between the queues, or suspended.  Otherwise two threads
\* would run on one stack, or one ws_tqe entry would be linked twice.
OneOwner ==
  /\ Waiting(g_mastersched) \cap Waiting(g_parallelsched) = {}
  /\ \A c \in Coro :
       /\ Queued(c) => ~(OnMain(c) \/ OnParallel(c) \/ InHandoff(c) \/ c \in parked)
       /\ OnParallel(c) => ~(OnMain(c) \/ InHandoff(c) \/ c \in parked)
       /\ c \in parked => ~(OnMain(c) \/ InHandoff(c) \/ Retiring(c))

\* Nothing that sched_run, parallel_run or the queues can still reach has been
\* given to coro_dealloc.
NoUseAfterFree ==
  \A c \in Coro : (\/ Queued(c) \/ OnMain(c) \/ OnParallel(c) \/ InHandoff(c)
                   \/ c \in parked
                   \/ mpc = "back" /\ c \in {pick, current_coro}) => c \in alloc

\* sched_get_coro never returns a freed coroutine and finds every live one:
\* registration and deallocation stay in step.
RegistrySound == coroutine_rbt = alloc

\* No coroutine is lost: one that has not exited waits in a queue, runs, is
\* on its way between the queues, or is suspended by the program.
Accounted ==
  proc = "up" =>
    \A c \in alloc : \/ Queued(c) \/ OnMain(c) \/ OnParallel(c) \/ InHandoff(c)
                     \/ c \in parked \/ status[c] = "EXIT"

\* An exited coroutine has been freed when sched_run looks for the next one.
ExitedFreed == mpc = "sched" => \A c \in alloc : status[c] # "EXIT"

\* The sections that use the parallel queue or the log under g_mutex exclude
\* each other: the owner recorded in the mutex is the thread inside.
Exclusion ==
  /\ mpc \in {"env_crit", "sent_crit"} => mutex = "master"
  /\ ppc \in {"main_crit", "crit", "run", "back"} => mutex = "parallel"

\* What coro_switch_to_parallel damages, by inserting the running coroutine
\* twice, is the master queue only.  The parallel queue, from which the other
\* thread goes on taking coroutines and running them, holds what was put into it
\* in every state; once the master queue does not, the main thread runs no
\* coroutine any more.
DamageContained == /\ Holds(tq, g_parallelsched, qs[g_parallelsched])
                   /\ ~Holds(tq, g_mastersched, qs[g_mastersched]) => mpc # "run"

\* No ASSERT of coro_ready, coro_yield, coro_exit and the schedulers fails, and
\* no pointer of a queue is nil when it is stored through.
NoCrash == proc = "up"

(***************************************************************************)
(* The strengthening that makes these invariants inductive.                *)
(***************************************************************************)
\* A queued coroutine is M_READY and points to the scheduler it waits for, so
\* coro_ready and coro_yield insert it where it belongs.
QueuedReady ==
  \A q \in Queue : \A c \in Waiting(q) : status[c] = "READY" /\ sched[c] = q

\* What sched_run and parallel_run know of the coroutine they deal with.
ThreadsSound ==
  /\ mpc = "run" => /\ sched[current_coro] = g_mastersched
                    /\ status[current_coro] # "EXIT"
  /\ mpc \in {"run", "back"} => pick \in alloc /\ current_coro \in alloc
  /\ mpc \in {"sent", "sent_crit", "sent_ok"} => pick \in alloc /\ status[pick] = "READY"
  /\ ppc \in {"run", "back"} => pco \in alloc /\ status[pco] = "READY"
  /\ \A c \in parked : sched[c] = g_mastersched /\ status[c] # "EXIT"

IInv == /\ TypeOK /\ QueuesSound /\ OneOwner /\ NoUseAfterFree /\ RegistrySound
        /\ Exclusion /\ QueuedReady /\ ThreadsSound

\* Waiting coroutines run in FIFO order, one at a time.
F == INSTANCE FifoSched WITH waiting <- qs[g_mastersched],
                             running <- IF mpc = "run" THEN current_coro ELSE NULL
FifoSpec == F!Spec

Started == mpc \notin {"main", "env_lock", "env_crit", "failed"}

\* A coroutine that waits in the master queue once sched_run has started is
\* eventually run, whatever the others do.
WaitingRuns ==
  \A c \in Coro : (Started /\ c \in Waiting(g_mastersched)) ~> OnMain(c)

\* A coroutine that sched_run takes out of its queue for the parallel
\* scheduler is run by the parallel thread.
HandoffRuns == \A c \in Coro : InHandoff(c) ~> OnParallel(c)

\* env_run reaches sched_run once it has created the parallel thread.
MasterStarts == mpc = "env_lock" ~> mpc = "sched"

\* After env_stop, env_run returns.
StopReturns == stop ~> mpc = "returned"
=============================================================================
