---------------------------- MODULE CoroPthread ----------------------------
(***************************************************************************)
(* The CORO_PTHREAD back end of cs_coro.c: every coroutine is a thread on  *)
(* a stack of module Stacks, and the running one holds coro_mutex.         *)
(* coro_transfer signals the condition variable of the next coroutine and  *)
(* waits on its own, without a predicate.  pthread_cond_wait may return    *)
(* without a signal; that, or a coroutine's function returning, happens at *)
(* most once in a behaviour and sets strayed.                              *)
(***************************************************************************)
EXTENDS Stacks

CONSTANT MainCoro   \* the thread of the program, which has an empty context

Actor == {MainCoro} \cup Stk

\* The main thread has no coro_stack, and coro_create's nctx has a condition
\* variable that is not one of a coroutine.
ThreadConstants == MainCoro \notin Stk /\ NULL \notin Actor /\ "nctx" \notin Actor

VARIABLES once,     \* coro_create has been called
          mutex,    \* the owner of coro_mutex
          th,       \* where every thread is
          cv,       \* the condition variable a thread waits on
          creating, \* the coroutine a thread is creating; its args are alive
          joins,    \* the coroutine a thread is destroying
          cancel,   \* threads with a pending cancellation
          ctxs,     \* the contexts created and not yet destroyed
          turn,     \* history: the coroutine that should have control
          valid,    \* history: the threads that have read only live args
          strayed

pvars == <<once, mutex, th, cv, creating, joins, cancel, ctxs, turn, valid, strayed>>
vars  == <<svars, pvars>>

Init == /\ StackInit
        /\ once = FALSE
        /\ mutex = NULL
        /\ th = [x \in Actor |-> IF x = MainCoro THEN "run" ELSE "none"]
        /\ cv = [x \in Actor |-> NULL]
        /\ creating = [x \in Actor |-> NULL]
        /\ joins = [x \in Actor |-> NULL]
        /\ cancel = {}
        /\ ctxs = {}
        /\ turn = MainCoro
        /\ valid = {}
        /\ strayed = FALSE

Runs(x) == th[x] = "run"

\* The contexts whose pthread_create has failed.
Threadless == {c \in ctxs \cap Stk : th[c] = "none"}

-----------------------------------------------------------------------------
\* Mutant: the next coroutine is not signalled.
LosesSignal(x, prev, next) ==
  /\ th' = [th EXCEPT ![x] = IF x \in cancel THEN "cancelled" ELSE "wait"]
  /\ cv' = [cv EXCEPT ![x] = prev]
  /\ mutex' = NULL
  /\ UNCHANGED cancel

\* Mutant: all contexts share one condition variable.
SharedCondition(x, prev, next) ==
  /\ \E y \in {z \in Actor : th[z] = "wait"} \cup {x} :
       th' = [th EXCEPT ![y] = "woken", ![x] = "wait"]
  /\ cv' = [cv EXCEPT ![x] = prev]
  /\ mutex' = NULL
  /\ UNCHANGED cancel

\* Thread x signals next and waits on prev; a signal nobody waits for is
\* lost.  pthread_cond_wait is where a cancellation takes effect.
coro_transfer(x, prev, next) ==
  /\ LET waiting == {y \in Actor : th[y] = "wait" /\ cv[y] = next}
         blocked == IF x \in cancel THEN "cancelled" ELSE "wait"
     IN  \/ /\ waiting = {}
            /\ th' = [th EXCEPT ![x] = blocked]
         \/ \E y \in waiting : th' = [th EXCEPT ![x] = blocked, ![y] = "woken"]
  /\ cv' = [cv EXCEPT ![x] = prev]
  /\ mutex' = NULL
  /\ UNCHANGED cancel

\* coro_create with nothing to run makes an empty context; the first call of
\* all takes the mutex.
create_empty ==
  /\ ~once
  /\ once' = TRUE
  /\ mutex' = MainCoro
  /\ ctxs' = {MainCoro}
  /\ UNCHANGED <<svars, th, cv, creating, joins, cancel, turn, valid, strayed>>

\* pthread_create with the args on the stack of thread x.  It may fail ("none");
\* coro_create ignores its result and goes on to wait for the thread.
create_thread(x, c) ==
  /\ once /\ Runs(x) /\ c \notin ctxs /\ c \in Live
  /\ \E started \in {"args", "none"} : th' = [th EXCEPT ![x] = "created", ![c] = started]
  /\ creating' = [creating EXCEPT ![x] = c]
  /\ ctxs' = ctxs \cup {c}
  /\ valid' = valid \cup {c}
  /\ UNCHANGED <<svars, once, mutex, cv, joins, cancel, turn, strayed>>

\* Mutant: coro_create returns without waiting for the new thread.
CreateReturnsAtOnce(x) ==
  /\ th[x] = "created"
  /\ th' = [th EXCEPT ![x] = "run"]
  /\ creating' = [creating EXCEPT ![x] = NULL]
  /\ UNCHANGED <<svars, once, mutex, cv, joins, cancel, ctxs, turn, valid, strayed>>

create_transfer(x) ==
  /\ th[x] = "created"
  /\ coro_transfer(x, "nctx", creating[x])
  /\ UNCHANGED <<svars, once, creating, joins, ctxs, turn, valid, strayed>>

\* What becomes of valid when thread c reads the args of its creator.
Reads(c) == valid' = {d \in valid : d = c => \E x \in Actor : creating[x] = c}

init_args(c) ==
  /\ th[c] = "args"
  /\ th' = [th EXCEPT ![c] = "lock"]
  /\ Reads(c)
  /\ UNCHANGED <<svars, once, mutex, cv, creating, joins, cancel, ctxs, turn, strayed>>

init_lock(c) ==
  /\ th[c] = "lock" /\ mutex = NULL
  /\ mutex' = c
  /\ th' = [th EXCEPT ![c] = "init"]
  /\ UNCHANGED <<svars, once, cv, creating, joins, cancel, ctxs, turn, valid, strayed>>

\* coro_transfer (args->self, args->main)
init_transfer(c) ==
  /\ th[c] = "init"
  /\ Reads(c)
  /\ coro_transfer(c, c, "nctx")
  /\ UNCHANGED <<svars, once, creating, joins, ctxs, turn, strayed>>

\* pthread_cond_wait returns with the mutex, and coro_transfer with it; inside
\* coro_create that is the end of the call, in coro_init it starts func (arg).
wake(x) ==
  /\ th[x] = "woken" /\ mutex = NULL
  /\ mutex' = x
  /\ th' = [th EXCEPT ![x] = "run"]
  /\ creating' = [creating EXCEPT ![x] = NULL]
  /\ UNCHANGED <<svars, once, cv, joins, cancel, ctxs, turn, valid, strayed>>

\* The program switches from x to y.
switch(x, y) ==
  /\ Runs(x) /\ y \in ctxs \ {x}
  /\ coro_transfer(x, x, y)
  /\ turn' = y
  /\ UNCHANGED <<svars, once, creating, joins, ctxs, valid, strayed>>

\* pthread_cleanup_pop (1) after the function has returned.
func_returns(x) ==
  /\ Runs(x) /\ x # MainCoro /\ ~strayed
  /\ th' = [th EXCEPT ![x] = "gone"]
  /\ mutex' = NULL
  /\ strayed' = TRUE
  /\ UNCHANGED <<svars, once, cv, creating, joins, cancel, ctxs, turn, valid>>

spurious(x) ==
  /\ th[x] = "wait" /\ ~strayed
  /\ th' = [th EXCEPT ![x] = "woken"]
  /\ strayed' = TRUE
  /\ UNCHANGED <<svars, once, mutex, cv, creating, joins, cancel, ctxs, turn, valid>>

-----------------------------------------------------------------------------
\* Mutant: coro_destroy does not wait for the thread's end.
DestroyWithoutJoin(x, c) ==
  /\ Runs(x) /\ c \in ctxs \ ({x, MainCoro} \cup Threadless)
  /\ \A y \in Actor : joins[y] # c
  /\ th' = [th EXCEPT ![x] = "relock", ![c] = IF @ = "wait" THEN "cancelled" ELSE @]
  /\ cancel' = IF th[c] \in {"wait", "gone"} THEN cancel ELSE cancel \cup {c}
  /\ mutex' = NULL
  /\ joins' = [joins EXCEPT ![x] = c]
  /\ UNCHANGED <<svars, once, cv, creating, ctxs, turn, valid, strayed>>

\* pthread_cancel, pthread_mutex_unlock.  The program can come here with a
\* context that has no thread after a wait without a signal only; its thread id
\* is undefined, and that call is left out.
destroy_cancel(x, c) ==
  /\ Runs(x) /\ c \in ctxs \ ({x, MainCoro} \cup Threadless)
  /\ \A y \in Actor : joins[y] # c
  /\ th' = [th EXCEPT ![x] = "join", ![c] = IF @ = "wait" THEN "cancelled" ELSE @]
  /\ cancel' = IF th[c] \in {"wait", "gone"} THEN cancel ELSE cancel \cup {c}
  /\ mutex' = NULL
  /\ joins' = [joins EXCEPT ![x] = c]
  /\ UNCHANGED <<svars, once, cv, creating, ctxs, turn, valid, strayed>>

\* The cancelled thread takes the mutex back and its cleanup handler,
\* mutex_unlock_wrapper, releases it.
cancelled(c) ==
  /\ th[c] = "cancelled" /\ mutex = NULL
  /\ th' = [th EXCEPT ![c] = "gone"]
  /\ cancel' = cancel \ {c}
  /\ UNCHANGED <<svars, once, mutex, cv, creating, joins, ctxs, turn, valid, strayed>>

\* pthread_join
destroy_join(x) ==
  /\ th[x] = "join" /\ th[joins[x]] = "gone"
  /\ th' = [th EXCEPT ![x] = "relock"]
  /\ UNCHANGED <<svars, once, mutex, cv, creating, joins, cancel, ctxs, turn, valid, strayed>>

\* Mutant: coro_destroy returns without the mutex.
DestroyKeepsUnlocked(x) ==
  /\ th[x] = "relock"
  /\ th' = [th EXCEPT ![x] = "run"]
  /\ ctxs' = ctxs \ {joins[x]}
  /\ joins' = [joins EXCEPT ![x] = NULL]
  /\ UNCHANGED <<svars, once, mutex, cv, creating, cancel, turn, valid, strayed>>

destroy_lock(x) ==
  /\ th[x] = "relock" /\ mutex = NULL
  /\ mutex' = x
  /\ th' = [th EXCEPT ![x] = "run"]
  /\ ctxs' = ctxs \ {joins[x]}
  /\ joins' = [joins EXCEPT ![x] = NULL]
  /\ UNCHANGED <<svars, once, cv, creating, cancel, turn, valid, strayed>>

\* The program allocates the stack of a coroutine before it creates it, and
\* frees it after it has destroyed it, or after the allocation failed.
alloc(x, c, n) == /\ Runs(x) /\ c \notin ctxs /\ size[c] = NULL
                  /\ coro_stack_alloc(c, n)
                  /\ UNCHANGED pvars

free(x, c) == /\ Runs(x) /\ c \notin ctxs /\ size[c] # NULL
              /\ coro_stack_free(c)
              /\ UNCHANGED pvars

Library(x) ==
  \/ create_transfer(x) \/ init_args(x) \/ init_lock(x) \/ init_transfer(x)
  \/ wake(x) \/ cancelled(x) \/ destroy_join(x) \/ destroy_lock(x)

Program(x) ==
  \/ \E c \in Stk : \/ create_thread(x, c) \/ destroy_cancel(x, c) \/ free(x, c)
                    \/ \E n \in Size : alloc(x, c, n)
  \/ \E y \in Actor : switch(x, y)
  \/ func_returns(x)

Next == \/ create_empty
        \/ \E x \in Actor : Library(x) \/ Program(x) \/ spurious(x)

\* A thread that can go on inside the library does.
Fairness == \A x \in Actor : WF_vars(Library(x))

Spec == Init /\ [][Next]_vars /\ Fairness

-----------------------------------------------------------------------------
\* "This mutex will be locked by the running coroutine": at most one of them
\* executes at any time, even after a spurious wakeup.
RunnerLocks == once => \A x \in Actor : th[x] \in {"run", "created", "init"} => mutex = x

\* Unless a wait ended without a signal, the coroutine that runs is the one
\* control was last transferred to: no signal is lost or caught by another.
ControlFollows == ~strayed => \A x \in Actor : Runs(x) => x = turn

\* Unless a wait ended without a signal, a new thread has read its arguments,
\* which lie in a frame of coro_create, before coro_create returns.
ArgsAlive == ~strayed => ctxs \cap Stk \subseteq valid

\* No thread is left on a stack that was freed: coro_destroy returns after the
\* thread has ended.
ThreadsOnStacks == \A c \in Stk : th[c] \notin {"none", "gone"} => c \in Live

\* A pthread_create that fails is the end of the program, which nobody is told:
\* unless a wait ends without a signal, no coroutine runs any more.
FailedCreateIsFinal == ~strayed /\ Threadless # {} => \A x \in Actor : ~Runs(x)

\* Creating, switching and destroying come to an end with some coroutine in
\* control, unless pthread_create failed, a function returned or a wait ended
\* without a signal.
SomeoneRuns == []<>(strayed \/ Threadless # {} \/ \E x \in Actor : Runs(x))
=============================================================================
