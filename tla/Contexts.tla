------------------------------ MODULE Contexts ------------------------------
(***************************************************************************)
(* Coroutine contexts of the CORO_ASM back end of cs_coro.c, shared by the *)
(* master and the parallel thread.  A coro_context is one stack pointer:   *)
(* coro_transfer stores the current one into prev and loads the one of     *)
(* next.  coro_create passes the function, its argument and both contexts  *)
(* to coro_init through static variables, so it is split into the single   *)
(* loads and stores that two threads can interleave.  The ASSERTs of the   *)
(* schedulers and the order of their queues are left to module Scheduler:  *)
(* here a program goes on where one of them would stop it.                 *)
(***************************************************************************)
EXTENDS Naturals, FiniteSets

CONSTANTS Thread,      \* the threads; each runs a scheduler on a stack of its own
          Main,        \* the thread of the master scheduler
          Spawner,     \* the threads on which the program spawns coroutines
          Coro,        \* the memory of coroutines, used again after a free
          MaxCreates,  \* bound on the calls of coro_create
          NULL

\* Where the code on a stack can be: in coro_create, in coro_init, in
\* coro_transfer, in the program, or nowhere.
Label == {"func", "arg", "new", "create", "prepare", "enter", "created",
          "init", "init_arg", "leave", "start", "save", "load",
          "run", "exit", "none", "reserved"}

ASSUME ContextsAssumption == /\ Main \in Thread /\ Thread \cap Coro = {}
                             /\ MaxCreates \in Nat
                             /\ NULL \notin [stack : Thread \cup Coro, at : Label]
                             /\ NULL \notin {"abort", "broken"}

\* A stack is named after the thread or the coroutine it belongs to.
Stack   == Thread \cup Coro
Context == Stack \X {"ctx", "nctx"}   \* its coroutine's, and coro_create's local

VARIABLES statics,  \* coro_init_func, coro_init_arg, new_coro, create_coro
          pos,      \* the stack every thread's stack pointer is in
          pc,       \* where the code on every stack is
          frame,    \* the arguments and locals on every stack
          saved,    \* the stack pointer in every context, with its resume point
          job,      \* history: the function and argument meant for a coroutine
          count,    \* calls of coro_create so far
          ready,    \* the wait_sched_queue of each thread's scheduler
          halt      \* NULL, "abort", or "broken" when a bad pointer was loaded

vars == <<statics, pos, pc, frame, saved, job, count, ready, halt>>

Here(t)         == pos[t]
At(t, label)    == halt = NULL /\ pc[Here(t)] = label
Goto(t, label)  == pc' = [pc EXCEPT ![Here(t)] = label]
InScheduler(t)  == Here(t) = t /\ At(t, "run")
InCoroutine(t)  == Here(t) \in Coro /\ At(t, "run")

\* The stack of a thread stands for the one of its main function, up to the
\* first switch, and then for the one of its sched_coro.
Init == /\ statics = [func |-> NULL, arg |-> NULL, new |-> NULL, create |-> NULL]
        /\ pos = [t \in Thread |-> t]
        /\ pc = [s \in Stack |-> IF s \in Thread THEN "run" ELSE "none"]
        /\ frame = [s \in Stack |-> [new |-> NULL, func |-> NULL, arg |-> NULL,
                                     prev |-> NULL, next |-> NULL, then |-> NULL]]
        /\ saved = [x \in Context |-> NULL]
        /\ job = [c \in Coro |-> 0]
        /\ count = 0
        /\ ready = [t \in Thread |-> {}]
        /\ halt = NULL

-----------------------------------------------------------------------------
(***************************************************************************)
(* coro_transfer: the arguments are evaluated, the registers pushed and    *)
(* the stack pointer saved, the other one loaded.                          *)
(***************************************************************************)
Transfer(t, prev, next, then) ==
  /\ frame' = [frame EXCEPT ![Here(t)].prev = prev, ![Here(t)].next = next,
                            ![Here(t)].then = then]
  /\ Goto(t, "save")

\* movq %rsp, (%rdi)
transfer_save(t) ==
  /\ At(t, "save")
  /\ saved' = [saved EXCEPT ![frame[Here(t)].prev] =
                 [stack |-> Here(t), at |-> frame[Here(t)].then]]
  /\ Goto(t, "load")
  /\ UNCHANGED <<statics, pos, frame, job, count, ready, halt>>

\* movq (%rsi), %rsp and the jump: what lies on the stack must still be what
\* lay there when the pointer was saved.
transfer_load(t) ==
  LET x == saved[frame[Here(t)].next]
  IN  /\ At(t, "load")
      /\ \/ /\ x # NULL /\ pc[x.stack] = x.at
            /\ pos' = [pos EXCEPT ![t] = x.stack]
            /\ Goto(t, frame[Here(t)].then)
            /\ halt' = halt
         \/ /\ ~(x # NULL /\ pc[x.stack] = x.at)
            /\ halt' = "broken"
            /\ UNCHANGED <<pos, pc>>
      /\ UNCHANGED <<statics, frame, saved, job, count, ready>>

-----------------------------------------------------------------------------
(***************************************************************************)
(* coro_create and coro_init.                                              *)
(***************************************************************************)
\* coro_alloc has memory c and calls coro_create with function and argument
\* number count'.  Nothing in the library guards the static variables (cs_coro.h
\* asks the caller for a mutex), so the program keeps to the threads of Spawner.
\* The caller is a coroutine, or main before env_run.
create_call(t, c) ==
  /\ t \in Spawner /\ At(t, "run") /\ count < MaxCreates /\ pc[c] = "none"
  /\ InScheduler(t) => frame[t].prev # <<t, "ctx">>
  /\ count' = count + 1
  /\ job' = [job EXCEPT ![c] = count']
  /\ pc' = [pc EXCEPT ![Here(t)] = "func", ![c] = "reserved"]
  /\ frame' = [frame EXCEPT ![Here(t)].new = c]
  /\ UNCHANGED <<statics, pos, saved, ready, halt>>

\* The next statement of coro_create after the store to a static variable.
AfterStore == [func |-> "arg", arg |-> "new", new |-> "create", create |-> "prepare"]

create_store(t, v) ==
  LET c == frame[Here(t)].new
      value == [func |-> job[c], arg |-> job[c], new |-> <<c, "ctx">>,
                create |-> <<Here(t), "nctx">>]
  IN  /\ At(t, v)
      /\ statics' = [statics EXCEPT ![v] = value[v]]
      /\ Goto(t, AfterStore[v])
      /\ UNCHANGED <<pos, frame, saved, job, count, ready, halt>>

\* coro_init's address and NUM_SAVED empty registers on top of the new stack.
create_prepare(t) ==
  LET c == frame[Here(t)].new
  IN  /\ At(t, "prepare")
      /\ saved' = [saved EXCEPT ![<<c, "ctx">>] = [stack |-> c, at |-> "init"]]
      /\ pc' = [pc EXCEPT ![c] = "init", ![Here(t)] = "enter"]
      /\ UNCHANGED <<statics, pos, frame, job, count, ready, halt>>

\* coro_transfer (create_coro, new_coro): the two are read in one step, here and
\* in init_transfer; another thread writes them only if it is a Spawner too.
create_transfer(t) ==
  /\ At(t, "enter")
  /\ Transfer(t, statics.create, statics.new, "created")
  /\ UNCHANGED <<statics, pos, saved, job, count, ready, halt>>

init_func(t) ==
  /\ At(t, "init")
  /\ frame' = [frame EXCEPT ![Here(t)].func = statics.func]
  /\ Goto(t, "init_arg")
  /\ UNCHANGED <<statics, pos, saved, job, count, ready, halt>>

init_arg(t) ==
  /\ At(t, "init_arg")
  /\ frame' = [frame EXCEPT ![Here(t)].arg = statics.arg]
  /\ Goto(t, "leave")
  /\ UNCHANGED <<statics, pos, saved, job, count, ready, halt>>

\* Mutant: coro_init calls the function without going back to coro_create.
InitRunsAtOnce(t) ==
  /\ At(t, "leave")
  /\ Goto(t, "start")
  /\ UNCHANGED <<statics, pos, frame, saved, job, count, ready, halt>>

init_transfer(t) ==
  /\ At(t, "leave")
  /\ Transfer(t, statics.new, statics.create, "start")
  /\ UNCHANGED <<statics, pos, saved, job, count, ready, halt>>

\* coro_create returns; the coroutine is put into the queue of its scheduler.
create_return(t) ==
  /\ At(t, "created")
  /\ ready' = [ready EXCEPT ![t] = @ \cup {frame[Here(t)].new}]
  /\ Goto(t, "run")
  /\ UNCHANGED <<statics, pos, frame, saved, job, count, halt>>

\* Mutant: coro_init calls the function in the static variable.
StartReadsStatic(t) ==
  /\ At(t, "start")
  /\ frame' = [frame EXCEPT ![Here(t)].func = statics.func]
  /\ Goto(t, "run")
  /\ UNCHANGED <<statics, pos, saved, job, count, ready, halt>>

\* The first switch to the coroutine: func (arg).
init_start(t) ==
  /\ At(t, "start")
  /\ Goto(t, "run")
  /\ UNCHANGED <<statics, pos, frame, saved, job, count, ready, halt>>

\* The function returned to coro_init: abort ().
init_abort(t) ==
  /\ InCoroutine(t)
  /\ halt' = "abort"
  /\ UNCHANGED <<statics, pos, pc, frame, saved, job, count, ready>>

-----------------------------------------------------------------------------
(***************************************************************************)
(* What the schedulers do with contexts.                                   *)
(***************************************************************************)
\* sched_run: the next coroutine of the queue.
sched_switch(t, c) ==
  /\ InScheduler(t) /\ c \in ready[t]
  /\ ready' = [ready EXCEPT ![t] = @ \ {c}]
  /\ Transfer(t, <<t, "ctx">>, <<c, "ctx">>, "run")
  /\ UNCHANGED <<statics, pos, saved, job, count, halt>>

\* sched_run_once: the running coroutine is put into the queue and switches to
\* the next one itself.
sched_run_once(t, c) ==
  /\ t = Main /\ InCoroutine(t) /\ c \in ready[t]
  /\ ready' = [ready EXCEPT ![t] = (@ \ {c}) \cup {Here(t)}]
  /\ Transfer(t, <<Here(t), "ctx">>, <<c, "ctx">>, "run")
  /\ UNCHANGED <<statics, pos, saved, job, count, halt>>

\* Mutant: the coroutine offers itself to the other thread before it has
\* switched away.
YieldsToOther(t) ==
  /\ InCoroutine(t)
  /\ ready' = [u \in Thread |-> IF u # t THEN ready[u] \cup {Here(t)} ELSE ready[u]]
  /\ Transfer(t, <<Here(t), "ctx">>, <<t, "ctx">>, "run")
  /\ UNCHANGED <<statics, pos, saved, job, count, halt>>

\* The coroutine is in the queue before it has switched away.
coro_yield(t) ==
  /\ InCoroutine(t)
  /\ ready' = [ready EXCEPT ![t] = @ \cup {Here(t)}]
  /\ Transfer(t, <<Here(t), "ctx">>, <<t, "ctx">>, "run")
  /\ UNCHANGED <<statics, pos, saved, job, count, halt>>

coro_exit(t) ==
  /\ InCoroutine(t)
  /\ Transfer(t, <<Here(t), "ctx">>, <<t, "ctx">>, "exit")
  /\ UNCHANGED <<statics, pos, saved, job, count, ready, halt>>

\* sched_run frees the coroutine that exited to it; parallel_run does not.
coro_dealloc(t, c) ==
  /\ t = Main /\ InScheduler(t) /\ pc[c] = "exit" /\ frame[t].next = <<c, "ctx">>
  /\ pc' = [pc EXCEPT ![c] = "none"]
  /\ UNCHANGED <<statics, pos, frame, saved, job, count, ready, halt>>

\* A coroutine switches to its scheduler without queueing itself; later another
\* one makes it ready.
coro_switch(t) ==
  /\ InCoroutine(t)
  /\ Transfer(t, <<Here(t), "ctx">>, <<t, "ctx">>, "run")
  /\ UNCHANGED <<statics, pos, saved, job, count, ready, halt>>

Suspended(c) ==
  /\ pc[c] = "run"
  /\ \A u \in Thread : /\ pos[u] # c /\ c \notin ready[u]
                       /\ pc[Here(u)] \in {"save", "load"} => frame[Here(u)].next # <<c, "ctx">>

coro_ready(t, c) ==
  /\ InCoroutine(t) /\ Suspended(c)
  /\ ready' = [ready EXCEPT ![t] = @ \cup {c}]
  /\ UNCHANGED <<statics, pos, pc, frame, saved, job, count, halt>>

\* The master scheduler hands a waiting coroutine to the parallel one, or
\* drops it when g_mutex is taken.
coro_sent_parallel(u, c) ==
  /\ InScheduler(Main) /\ c \in ready[Main] /\ u # Main
  /\ \/ ready' = [ready EXCEPT ![Main] = @ \ {c}, ![u] = @ \cup {c}]
     \/ ready' = [ready EXCEPT ![Main] = @ \ {c}]
  /\ UNCHANGED <<statics, pos, pc, frame, saved, job, count, halt>>

\* The code that runs by itself once coro_create or coro_transfer is called.
Library(t) ==
  \/ transfer_save(t) \/ transfer_load(t)
  \/ \E v \in {"func", "arg", "new", "create"} : create_store(t, v)
  \/ create_prepare(t) \/ create_transfer(t) \/ create_return(t)
  \/ init_func(t) \/ init_arg(t) \/ init_transfer(t) \/ init_start(t)

Program(t) ==
  \/ \E c \in Coro : create_call(t, c) \/ coro_dealloc(t, c)
  \/ \E c \in Coro : sched_switch(t, c) \/ sched_run_once(t, c)
  \/ coro_yield(t) \/ coro_exit(t) \/ coro_switch(t) \/ init_abort(t)
  \/ \E c \in Coro : coro_ready(t, c) \/ coro_sent_parallel(t, c)

Next == \E t \in Thread : Library(t) \/ Program(t)

\* A thread that is in the library goes on: nothing there waits.
Fairness == \A t \in Thread : WF_vars(Library(t))

Spec == Init /\ [][Next]_vars /\ Fairness

-----------------------------------------------------------------------------
\* Every function starts on the stack made for it, with its own argument,
\* although both went through static variables: coro_init has copied them
\* before another coro_create can overwrite them.
OwnFunction == \A c \in Coro : pc[c] \in {"start", "run", "exit"} =>
                 frame[c].func = job[c] /\ frame[c].arg = job[c]

\* Two threads never run on one stack, and whoever loads a stack pointer
\* finds the registers that were pushed when it was saved.
StacksExclusive == /\ halt # "broken"
                   /\ \A t, u \in Thread : t # u => pos[t] # pos[u]

\* The context of a coroutine that waits to be run says where its stack is,
\* so that any scheduler may switch to it; coro_yield, which puts the running
\* coroutine into the queue first, gets there before its scheduler does.
WaitersSaved == \A t \in Thread : \A c \in ready[t] :
                  Here(t) # c => saved[<<c, "ctx">>] = [stack |-> c, at |-> pc[c]]

\* coro_transfer and the code that queues coroutines around it keep both.
ContextsSound == StacksExclusive /\ WaitersSaved

\* A call of coro_create returns to its caller, through the new stack and back.
CreateReturns == \A s \in Stack : pc[s] = "func" ~> (pc[s] = "run" \/ halt # NULL)
=============================================================================
